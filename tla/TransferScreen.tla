---------------------------- MODULE TransferScreen ----------------------------
(***************************************************************************)
(* Sending to a phone number: web/app/transfer/page.tsx with useTransfer   *)
(* and the contact picker.  A person stands for all that leads to them:    *)
(* the number typed, the saved contact, the wallet found.  Every await is  *)
(* an action of its own, and the screen takes input between them.          *)
(***************************************************************************)
EXTENDS Naturals, FiniteSets

CONSTANTS
    Person,      \* the people one may look up
    Transfer,    \* the sends of one visit to the screen
    MaxAsked,    \* bound: lookups
    MaxAmount    \* bound: amounts

VARIABLES
    step,       \* receiver, amount, review
    phase,      \* useTransfer's phase
    phone,      \* the number in the field
    label,      \* selectedContactLabel
    recipient,  \* whom the last lookup found
    listed,     \* whether the picker's list is open
    lookups,    \* lookups that have not been answered
    asked,      \* how many there were
    amount,     \* the amount in the field
    transfers,  \* every send
    txHash,     \* the send whose hash the screen holds
    mixed,      \* history: a number was entered or chosen while a lookup was out
    recoded,    \* history: the country code was changed under the name of a contact
    left        \* history: Back was pressed while a send was under way

vars == <<step, phase, phone, label, recipient, listed, lookups, asked, amount, transfers, txHash, mixed, recoded, left>>
form == <<step, phone, label, recoded, listed, amount>>
asking == <<lookups, asked, mixed>>
money == <<transfers, txHash>>

Nobody == "nobody"
Idle == [stage |-> "none", to |-> Nobody, amount |-> 0, shown |-> {}]

TypeOK ==
    /\ step \in {"receiver", "amount", "review"}
    /\ phase \in {"idle", "resolving", "ready", "sending", "done", "failed"}
    /\ {phone, label, recipient} \subseteq Person \cup {Nobody}
    /\ listed \in BOOLEAN /\ mixed \in BOOLEAN /\ recoded \in BOOLEAN /\ left \in BOOLEAN
    /\ lookups \in [Person -> 0 .. MaxAsked] /\ asked \in 0 .. MaxAsked
    /\ amount \in 0 .. MaxAmount
    /\ transfers \in [Transfer -> [stage : {"none", "signing", "out", "mined", "failed"},
                                   to : Person \cup {Nobody}, amount : 0 .. MaxAmount, shown : SUBSET Person]]
    /\ txHash \in Transfer \cup {"none"}

Init ==
    /\ step = "receiver" /\ phase = "idle"
    /\ phone = Nobody /\ label = Nobody /\ recipient = Nobody
    /\ listed = FALSE
    /\ lookups = [p \in Person |-> 0] /\ asked = 0
    /\ amount = 0
    /\ transfers = [t \in Transfer |-> Idle] /\ txHash = "none"
    /\ mixed = FALSE /\ recoded = FALSE /\ left = FALSE

Out == \E p \in Person : lookups[p] > 0
UnderWay == {t \in Transfer : transfers[t].stage \in {"signing", "out"}}
OnReceiver == step = "receiver" /\ phase # "done"

-----------------------------------------------------------------------------
(* The receiver's step.  The field stays editable, and an open list usable, while a lookup *)
(* is out; only the buttons that open the list and continue are not.                       *)

\* resolveRecipient, up to its fetch.
LookUp(p) ==
    /\ asked < MaxAsked
    /\ asked' = asked + 1
    /\ lookups' = [lookups EXCEPT ![p] = @ + 1]
    /\ phase' = "resolving" /\ recipient' = Nobody
    /\ mixed' = (mixed \/ Out)

TypePhone ==
    /\ OnReceiver
    /\ \E p \in Person : phone' = p
    /\ label' = Nobody
    /\ mixed' = (mixed \/ Out)
    /\ UNCHANGED <<step, phase, recoded, recipient, listed, lookups, asked, amount, money, left>>

\* Another country code makes it another's number, and leaves the name of the contact chosen.
ChangeCountry ==
    /\ OnReceiver /\ phone # Nobody
    /\ \E p \in Person : phone' = p
    /\ mixed' = (mixed \/ Out)
    /\ recoded' = (recoded \/ label # Nobody)
    /\ UNCHANGED <<step, phase, label, recipient, listed, lookups, asked, amount, money, left>>

ToggleList ==
    /\ OnReceiver /\ phase # "resolving"
    /\ listed' = ~listed
    /\ UNCHANGED <<step, phase, phone, label, recoded, recipient, asking, amount, money, left>>

\* A recent number, or one of the device's address book.
KeepLabel == label
Forget == Nobody
PickPhone ==
    /\ OnReceiver /\ listed
    /\ \E p \in Person : phone' = p /\ LookUp(p)
    /\ label' = Forget /\ listed' = FALSE
    /\ UNCHANGED <<step, recoded, amount, money, left>>

\* A saved contact is looked up by its id; its number need not be on this device.
PickContact ==
    /\ OnReceiver /\ listed
    /\ \E p \in Person : label' = p /\ phone' \in {p, Nobody} /\ LookUp(p)
    /\ listed' = FALSE
    /\ UNCHANGED <<step, recoded, amount, money, left>>

Continue ==
    /\ OnReceiver /\ phase # "resolving" /\ phone # Nobody
    /\ LookUp(phone)
    /\ UNCHANGED <<form, money, left>>

Answered(p) == lookups[p] > 0 /\ lookups' = [lookups EXCEPT ![p] = @ - 1]

\* The answer is taken as it comes: whichever lookup it belongs to, wherever the screen is.
Found(p) ==
    /\ Answered(p)
    /\ recipient' = p /\ phase' = "ready" /\ step' = "amount" /\ listed' = FALSE
    /\ UNCHANGED <<phone, label, recoded, asked, mixed, amount, money, left>>

\* Not on Saku, a wallet not ready, or a lookup that failed.
NotFound(p) ==
    /\ Answered(p)
    /\ phase' = "failed"
    /\ UNCHANGED <<form, recipient, asked, mixed, money, left>>

-----------------------------------------------------------------------------
(* The amount and the review *)

EnterAmount ==
    /\ step = "amount" /\ recipient # Nobody /\ phase # "done"
    /\ amount' \in 1 .. MaxAmount
    /\ UNCHANGED <<step, phase, phone, label, recoded, recipient, listed, asking, money, left>>

Review ==
    /\ step = "amount" /\ recipient # Nobody /\ phase # "done"
    /\ amount > 0
    /\ step' = "review"
    /\ UNCHANGED <<phase, phone, label, recoded, recipient, listed, asking, amount, money, left>>

Leaving == left' = (left \/ UnderWay # {})

\* goBack: one step, or to the start with a reset of the hook.
GoBack ==
    /\ phase # "done"
    /\ \/ step = "review" /\ step' = "amount" /\ UNCHANGED <<phase, label, recipient, txHash>>
       \/ /\ step = "amount" /\ step' = "receiver"
          /\ phase' = "idle" /\ recipient' = Nobody /\ txHash' = "none"
          /\ label' = Nobody
    /\ Leaving
    /\ UNCHANGED <<phone, recoded, listed, asking, amount, transfers>>

\* What the review puts before the sender: a name, and the number if there is one.
Shown == ({IF label # Nobody THEN label ELSE recipient} \cup {phone}) \ {Nobody}

-----------------------------------------------------------------------------
(* useTransfer.send *)

Advance(t, stage) == transfers' = [transfers EXCEPT ![t].stage = stage]

Send(t) ==
    /\ step = "review" /\ recipient # Nobody
    /\ phase \notin {"sending", "done"}
    /\ transfers[t] = Idle
    /\ transfers' = [transfers EXCEPT ![t] =
                        [stage |-> "signing", to |-> recipient, amount |-> amount, shown |-> Shown]]
    /\ phase' = "sending"
    /\ UNCHANGED <<form, recipient, asking, txHash, left>>

\* No signer, too little money, a signature refused.
SendFails(t) ==
    /\ transfers[t].stage = "signing"
    /\ Advance(t, "failed") /\ phase' = "failed"
    /\ UNCHANGED <<form, recipient, asking, txHash, left>>

OptimisticBroadcast(t) ==
    /\ transfers[t].stage = "signing"
    /\ Advance(t, "out") /\ txHash' = t /\ phase' = "done"
    /\ UNCHANGED <<form, recipient, asking, left>>

Broadcast(t) ==
    /\ transfers[t].stage = "signing"
    /\ Advance(t, "out") /\ txHash' = t
    /\ UNCHANGED <<form, phase, recipient, asking, left>>

\* The receipt screen opens, on what the fields hold by then.
Mined(t) ==
    /\ transfers[t].stage = "out"
    /\ Advance(t, "mined") /\ phase' = "done"
    /\ UNCHANGED <<form, recipient, asking, txHash, left>>

Reverted(t) ==
    /\ transfers[t].stage = "out"
    /\ Advance(t, "failed") /\ phase' = "failed"
    /\ UNCHANGED <<form, recipient, asking, txHash, left>>

\* The receipt: a mined transfer, its payee, its amount, and the name the sender knows.
Receipt == [stage |-> "mined", to |-> recipient, amount |-> amount, shown |-> Shown]

Next ==
    \/ TypePhone \/ ChangeCountry \/ ToggleList \/ PickPhone \/ PickContact \/ Continue
    \/ \E p \in Person : Found(p) \/ NotFound(p)
    \/ EnterAmount \/ Review \/ GoBack
    \/ \E t \in Transfer : Send(t) \/ SendFails(t) \/ Broadcast(t) \/ Mined(t) \/ Reverted(t)

Spec == Init /\ [][Next]_vars

-----------------------------------------------------------------------------
(* Properties *)

\* "Seeing the face you expect is the cheapest check there is": the name and the number on the
\* review are of the one who is paid, while no number is entered or chosen during a lookup.  After
\* a contact's country code was changed one of them is, and the name may be the contact's.
PaysWhoIsShown ==
    ~mixed =>
        \A t \in Transfer : transfers[t].stage # "none" =>
            /\ transfers[t].to \in transfers[t].shown
            /\ recoded \/ transfers[t].shown = {transfers[t].to}

Proof == txHash \in Transfer /\ transfers[txHash] = Receipt

\* The receipt shows what was mined, and one transfer is under way at a time, for a sender who
\* waits for it.
ReceiptIsTrue ==
    ~mixed /\ ~left => (phase = "done" => Proof) /\ Cardinality(UnderWay) <= 1

\* "The receipt screen is proof, not an optimistic 'sent' toast, so it appears only after the
\* chain confirms this hash."
ReceiptIsProof == phase = "done" => Proof
=============================================================================
