------------------------------ MODULE OfframpForm ------------------------------
(***************************************************************************)
(* Filling in an off-ramp: web/app/offramp/page.tsx with resolveRecipient  *)
(* and send of web/hooks/useOfframp.ts, up to the lock and its report.     *)
(* What the screen says after that is module OfframpScreen.  A destination *)
(* stands for rail and number, or bank and account, and for their hash; a  *)
(* quote for the amount it was asked for, which fixes fee and gross.       *)
(***************************************************************************)
EXTENDS Naturals, FiniteSets

CONSTANTS
    Destination,  \* numbers and accounts
    Send,         \* presses of Confirm & Send
    MaxAmount,    \* bound: amounts
    MaxGlitches   \* bound: calls that get no answer

VARIABLES
    page,        \* the page's step: form or review
    stage,       \* useOfframp's phase
    dest,        \* the destination in the fields
    net,         \* the amount in the field, 0 when there is none
    quote,       \* the amount the quote held is for, 0 when it has rate and limits only
    quoting,     \* whether the quote for net is still to come
    resolving,   \* the destination being hashed
    hash,        \* recipientHash
    destRef,     \* recipientDestinationRef
    sends,       \* every press of Confirm & Send
    polling,     \* the send whose status is polled
    touched,     \* history: the destination was edited while one was being hashed
    glitches

vars == <<page, stage, dest, net, quote, quoting, resolving, hash, destRef, sends, polling, touched, glitches>>
quotes == <<net, quote, quoting>>
resolved == <<resolving, hash, destRef, touched>>

None == "none"
NoSend == [at |-> "none", to |-> None, net |-> 0, gross |-> 0, seen |-> None, ref |-> None]
Places == {"none", "approving", "out", "posting", "filed", "settled", "refundable", "refused", "stranded", "failed"}

TypeOK ==
    /\ page \in {"form", "review"}
    /\ stage \in {"idle", "resolving", "ready", "approving", "locking", "settling", "done", "needs-refund", "failed"}
    /\ {dest, resolving, hash, destRef} \subseteq Destination \cup {None}
    /\ {net, quote} \subseteq 0 .. MaxAmount
    /\ quoting \in BOOLEAN /\ touched \in BOOLEAN
    /\ sends \in [Send -> [at : Places, to : Destination \cup {None}, net : 0 .. MaxAmount, gross : 0 .. MaxAmount,
                           seen : Destination \cup {None}, ref : Destination \cup {None}]]
    /\ polling \in Send \cup {None} /\ glitches \in 0 .. MaxGlitches

Init ==
    /\ page = "form" /\ stage = "idle"
    /\ dest = None /\ net = 0 /\ quote = 0 /\ quoting = FALSE
    /\ resolving = None /\ hash = None /\ destRef = None
    /\ sends = [s \in Send |-> NoSend]
    /\ polling = None /\ touched = FALSE /\ glitches = 0

Busy == stage \in {"resolving", "approving", "locking", "settling"}
Over == stage \in {"done", "needs-refund"}
OnForm == page = "form" /\ ~Over
Glitch == glitches < MaxGlitches /\ glitches' = glitches + 1

-----------------------------------------------------------------------------
(* The form: none of its fields is ever disabled. *)

EnterDestination ==
    /\ OnForm
    /\ dest' \in Destination
    /\ touched' = (touched \/ stage = "resolving")
    /\ UNCHANGED <<page, stage, quotes, resolving, hash, destRef, sends, glitches, polling>>

\* The effect asks again, 350 ms later, and drops the answer for the amount before.
EnterAmount ==
    /\ OnForm
    /\ net' \in 0 .. MaxAmount \ {net}
    /\ quoting' = TRUE
    /\ UNCHANGED <<page, stage, dest, quote, resolved, sends, glitches, polling>>

QuoteArrives ==
    /\ quoting
    /\ quote' = net /\ quoting' = FALSE
    /\ UNCHANGED <<page, stage, dest, net, resolved, sends, glitches, polling>>

\* "A missing quote only hides the preview": the one before stays.
QuoteFails ==
    /\ quoting
    /\ quoting' = FALSE
    /\ UNCHANGED <<page, stage, dest, net, quote, resolved, sends, glitches, polling>>

PressReview ==
    /\ OnForm /\ ~Busy
    /\ dest # None /\ net > 0
    /\ resolving' = dest /\ stage' = "resolving"
    /\ UNCHANGED <<page, dest, quotes, hash, destRef, touched, sends, glitches, polling>>

Resolved ==
    /\ stage = "resolving"
    /\ hash' = resolving /\ destRef' = resolving /\ resolving' = None
    /\ stage' = "ready" /\ page' = "review"
    /\ UNCHANGED <<dest, quotes, touched, sends, glitches, polling>>

ResolveFails ==
    /\ stage = "resolving"
    /\ Glitch
    /\ stage' = "failed" /\ resolving' = None
    /\ UNCHANGED <<page, dest, quotes, hash, destRef, touched, sends, polling>>

\* The header's arrow works at any time, also while a send is under way.
GoBack ==
    /\ page = "review" /\ ~Over
    /\ page' = "form"
    /\ UNCHANGED <<stage, dest, quotes, resolved, sends, glitches, polling>>

-----------------------------------------------------------------------------
(* send *)

\* Only the gross of a quote brings a fee along; without one the amount itself is locked.
Confirm(s) ==
    /\ page = "review" /\ ~Busy /\ ~Over
    /\ hash # None /\ sends[s] = NoSend
    /\ sends' = [sends EXCEPT ![s] = [NoSend EXCEPT !.at = "approving", !.to = hash, !.net = net,
                                                    !.gross = quote, !.seen = dest]]
    /\ stage' = "approving"
    /\ UNCHANGED <<page, dest, quotes, resolved, glitches, polling>>

Step(s, from, to) == sends[s].at = from /\ sends' = [sends EXCEPT ![s].at = to]

\* Too little money, a refused signature, an approval that fails.
SendFails(s) ==
    /\ Step(s, "approving", "failed")
    /\ Glitch
    /\ stage' = "failed"
    /\ UNCHANGED <<page, dest, quotes, resolved, polling>>

Lock(s) ==
    /\ Step(s, "approving", "out")
    /\ stage' = "locking"
    /\ UNCHANGED <<page, dest, quotes, resolved, glitches, polling>>

\* tx.wait() returns, and the destination kept for the payout is read.
LockMined(s) ==
    /\ sends[s].at = "out"
    /\ sends' = [sends EXCEPT ![s].at = "posting", ![s].ref = destRef]
    /\ stage' = "settling"
    /\ UNCHANGED <<page, dest, quotes, resolved, glitches, polling>>

\* It reverts, or the wait throws although the lock is mined.
LockThrows(s) ==
    /\ \/ Step(s, "out", "failed")
       \/ Step(s, "out", "stranded")
    /\ Glitch
    /\ stage' = "failed"
    /\ UNCHANGED <<page, dest, quotes, resolved, polling>>

-----------------------------------------------------------------------------
(* POST /api/offramp/lock and what follows *)

\* The fee is recomputed from the amount claimed and compared with what was locked.
Anything(s) == TRUE
Matches(s) == sends[s].gross = sends[s].net

File(s) ==
    /\ Matches(s)
    /\ Step(s, "posting", "filed")
    /\ \/ polling' = s /\ UNCHANGED <<stage, glitches>>
       \/ Glitch /\ stage' = "failed" /\ UNCHANGED polling
    /\ UNCHANGED <<page, dest, quotes, resolved>>

\* "It will become refundable once the rate lock expires."
Refuse(s) ==
    /\ ~Matches(s)
    /\ Step(s, "posting", "refused")
    /\ stage' = "failed"
    /\ UNCHANGED <<page, dest, quotes, resolved, glitches, polling>>

PostLost(s) ==
    /\ Step(s, "posting", "stranded")
    /\ Glitch
    /\ stage' = "failed"
    /\ UNCHANGED <<page, dest, quotes, resolved, polling>>

Settle(s) ==
    /\ Step(s, "filed", "settled")
    /\ UNCHANGED <<page, stage, dest, quotes, resolved, glitches, polling>>

Expire(s) ==
    /\ Step(s, "filed", "refundable")
    /\ UNCHANGED <<page, stage, dest, quotes, resolved, glitches, polling>>

\* A real payout goes to a number that gives the hash locked; else it is simulated.
Verified(s) == sends[s].ref = sends[s].to
Payee(s) == IF sends[s].at = "settled" /\ Verified(s) THEN sends[s].ref ELSE None

PollDone(s) ==
    /\ polling = s /\ sends[s].at = "settled"
    /\ stage' = "done" /\ polling' = None
    /\ UNCHANGED <<page, dest, quotes, resolved, sends, glitches>>

PollRefundable(s) ==
    /\ polling = s /\ sends[s].at = "refundable"
    /\ stage' = "needs-refund" /\ polling' = None
    /\ UNCHANGED <<page, dest, quotes, resolved, sends, glitches>>

\* An answer that is not ok is skipped; a fetch that throws ends the loop and the transfer.
PollBreaks ==
    /\ polling # None
    /\ Glitch
    /\ stage' = "failed" /\ polling' = None
    /\ UNCHANGED <<page, dest, quotes, resolved, sends>>

Next ==
    \/ EnterDestination \/ EnterAmount \/ QuoteArrives \/ QuoteFails
    \/ PressReview \/ Resolved \/ ResolveFails \/ GoBack
    \/ \E s \in Send :
          \/ Confirm(s) \/ SendFails(s) \/ Lock(s) \/ LockMined(s) \/ LockThrows(s)
          \/ File(s) \/ Refuse(s) \/ PostLost(s)
          \/ Settle(s) \/ Expire(s) \/ PollDone(s) \/ PollRefundable(s)
    \/ PollBreaks

Spec == Init /\ [][Next]_vars

-----------------------------------------------------------------------------
(* Properties *)

Filed == {s \in Send : sends[s].at \in {"filed", "settled", "refundable"}}

\* What settles is what was reviewed: the fee is that of the amount, and the payout goes to the
\* destination shown, if it was left alone while it was hashed.
SettlesAsReviewed ==
    \A s \in Send : sends[s].at = "settled" =>
        /\ sends[s].gross = sends[s].net
        /\ ~touched => Payee(s) \in {sends[s].seen, None}

\* One filed lock for one transfer: as long as every call is answered, Confirm & Send comes
\* back only after a lock the server refused.
OneIsFiled == glitches = 0 => Cardinality(Filed) <= 1

\* "A transient hiccup ... must never announce a failed transfer that is in fact about to
\* settle": what the screen calls failed, and lets the sender confirm again, was not filed.
FailedIsNotFiled == stage = "failed" => Filed = {}
=============================================================================
