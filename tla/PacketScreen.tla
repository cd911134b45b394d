----------------------------- MODULE PacketScreen -----------------------------
(***************************************************************************)
(* The screens of a red packet: the form that funds one (useCreatePacket,  *)
(* components/packet/create-packet-form.tsx), the hub with the packets     *)
(* that wait for someone (app/packet), and the envelope in the tabs of one *)
(* claimer (useClaimPacket, app/packet/claim/[code]).  What the server     *)
(* does to shares and payouts is module Packet; here a claim is there,     *)
(* paid or gone.                                                           *)
(***************************************************************************)
EXTENDS Naturals, FiniteSets

CONSTANTS
    Send,       \* presses of Create packet
    Tab,        \* tabs of one claimer
    Me,         \* that claimer
    Other,      \* everybody else who may claim
    MaxAmount,  \* bound: units funded
    MaxSlots,   \* bound: slots
    MaxGlitches \* bound: calls that get no answer, payouts that fail

VARIABLES
    form,      \* the fields: amount, slots, the private switch and the circle
    phase,     \* useCreatePacket's phase
    shown,     \* the send the form on the screen belongs to
    sends,     \* every press: how far, and the fields it took
    packets,   \* the row a send's transfer backs
    claims,    \* packet_claims
    waiting,   \* the hub's list
    tabs,      \* what a tab shows
    glitches

vars == <<form, phase, shown, sends, packets, claims, waiting, tabs, glitches>>
formVars == <<form, phase, shown>>

None == "none"
Person == Other \cup {Me}
Fields == [amount : 0 .. MaxAmount, slots : 0 .. MaxSlots, private : BOOLEAN, circle : SUBSET Person]
Blank == [amount |-> 0, slots |-> 1, private |-> FALSE, circle |-> {}]
NoSend == [at |-> "none", fields |-> Blank]
NoPacket == [status |-> "none", slots |-> 0, circle |-> {}]

\* What /api/packet/[code] says of a packet, and, for the record, whether the payout was out.
NoDetails == [known |-> FALSE, mine |-> FALSE, claimable |-> FALSE, landed |-> FALSE]
Details == [known : BOOLEAN, mine : BOOLEAN, claimable : BOOLEAN, landed : BOOLEAN]
NoTab == [packet |-> None, read |-> NoDetails, details |-> NoDetails, claim |-> "none", claimed |-> FALSE, opened |-> FALSE]

TypeOK ==
    /\ form \in Fields
    /\ phase \in {"idle", "funding", "creating", "done", "failed"}
    /\ shown \in Send \cup {None}
    /\ sends \in [Send -> [at : {"none", "funding", "out", "posting", "filed", "stranded", "declined"}, fields : Fields]]
    /\ packets \in [Send -> [status : {"none", "open", "expired"}, slots : 0 .. MaxSlots, circle : SUBSET Person]]
    /\ claims \in [Send -> [Person -> {"none", "pending", "paid"}]]
    /\ waiting \subseteq Send
    /\ tabs \in [Tab -> [packet : Send \cup {None}, read : Details, details : Details,
                         claim : {"none", "asked", "paying", "paid"}, claimed : BOOLEAN, opened : BOOLEAN]]
    /\ glitches \in 0 .. MaxGlitches

Init ==
    /\ form = Blank /\ phase = "idle" /\ shown = None
    /\ sends = [s \in Send |-> NoSend]
    /\ packets = [s \in Send |-> NoPacket]
    /\ claims = [s \in Send |-> [p \in Person |-> "none"]]
    /\ waiting = {}
    /\ tabs = [t \in Tab |-> NoTab]
    /\ glitches = 0

Glitch == glitches < MaxGlitches /\ glitches' = glitches + 1
Busy == phase \in {"funding", "creating"}

-----------------------------------------------------------------------------
(* The form: every field of it is disabled while a send is under way. *)

\* Bound: a form that has no press left is not filled in any more.
Edit ==
    /\ ~Busy /\ phase # "done" /\ form' # form
    /\ \E s \in Send : sends[s] = NoSend
Edited == UNCHANGED <<phase, shown, sends, packets, claims, waiting, tabs, glitches>>

EnterAmount ==
    /\ \E n \in 0 .. MaxAmount : form' = [form EXCEPT !.amount = n]
    /\ Edit /\ Edited

EnterSlots ==
    /\ \E n \in 0 .. MaxSlots : form' = [form EXCEPT !.slots = n]
    /\ Edit /\ Edited

\* The circle chosen stays chosen, out of sight, when the switch is turned off.
TogglePrivate ==
    /\ form' = [form EXCEPT !.private = ~@]
    /\ Edit /\ Edited

Toggle(p) ==
    /\ form.private
    /\ form' = [form EXCEPT !.circle = (@ \ {p}) \cup ({p} \ @)]
    /\ Edit /\ Edited

\* "A private packet with nobody in the circle would be funded and unopenable until it expires."
ValidCircle == ~form.private \/ form.circle # {}

PressCreate(s) ==
    /\ ~Busy /\ phase # "done" /\ sends[s] = NoSend
    /\ form.amount > 0 /\ form.slots >= 1
    /\ ValidCircle
    /\ sends' = [sends EXCEPT ![s] = [at |-> "funding", fields |-> form]]
    /\ phase' = "funding" /\ shown' = s
    /\ UNCHANGED <<form, packets, claims, waiting, tabs, glitches>>

\* Another tab of the hub, or Done: the form is gone, and what it started runs on.
LeaveForm ==
    /\ phase # "idle"
    /\ form' = Blank /\ phase' = "idle" /\ shown' = None
    /\ UNCHANGED <<sends, packets, claims, waiting, tabs, glitches>>

\* A send moves on, and the form it was pressed on says so, if it is still there.
Advance(s, from, to, says) ==
    /\ sends[s].at = from
    /\ sends' = [sends EXCEPT ![s].at = to]
    /\ phase' = IF shown = s THEN says ELSE phase
    /\ UNCHANGED <<form, shown>>

\* No signer, no treasury's address, too little money, a signature refused.
Declined(s) ==
    /\ Advance(s, "funding", "declined", "failed")
    /\ UNCHANGED <<packets, claims, waiting, tabs, glitches>>

Fund(s) ==
    /\ Advance(s, "funding", "out", "funding")
    /\ UNCHANGED <<packets, claims, waiting, tabs, glitches>>

Funded(s) ==
    /\ Advance(s, "out", "posting", "creating")
    /\ UNCHANGED <<packets, claims, waiting, tabs, glitches>>

\* tx.wait() throws or the post is lost: nobody keeps the hash, and the money stays where it is.
NotReported(s) ==
    /\ Advance(s, "out", "stranded", "failed") \/ Advance(s, "posting", "stranded", "failed")
    /\ Glitch
    /\ UNCHANGED <<packets, claims, waiting, tabs>>

-----------------------------------------------------------------------------
(* POST /api/packet/create *)

\* "Every claimer must be payable at least one base unit."
Payable(s) == sends[s].fields.amount >= sends[s].fields.slots

\* Only the circle of a private packet is sent.
SentCircle(s) == IF sends[s].fields.private THEN sends[s].fields.circle ELSE {}

Insert(s) ==
    /\ Payable(s)
    /\ \/ Advance(s, "posting", "filed", "done") /\ UNCHANGED glitches
       \/ Advance(s, "posting", "filed", "failed") /\ Glitch
    /\ packets' = [packets EXCEPT ![s] = [status |-> "open", slots |-> sends[s].fields.slots, circle |-> SentCircle(s)]]
    /\ UNCHANGED <<claims, waiting, tabs>>

RefuseInsert(s) ==
    /\ ~Payable(s)
    /\ Advance(s, "posting", "stranded", "failed")
    /\ UNCHANGED <<packets, claims, waiting, tabs, glitches>>

Expire(s) ==
    /\ packets[s].status = "open"
    /\ packets' = [packets EXCEPT ![s].status = "expired"]
    /\ UNCHANGED <<formVars, sends, claims, waiting, tabs, glitches>>

-----------------------------------------------------------------------------
(* /api/packet/[code] *)

Claimers(s) == {p \in Person : claims[s][p] # "none"}

AnyoneIsInvited(s, p) == TRUE
Invited(s, p) == packets[s].circle = {} \/ p \in packets[s].circle

MayClaim(s, p) ==
    /\ packets[s].status = "open" /\ Invited(s, p)
    /\ claims[s][p] = "none"
    /\ Cardinality(Claimers(s)) < packets[s].slots

Seen(s) == [known |-> TRUE, mine |-> claims[s][Me] # "none", claimable |-> MayClaim(s, Me), landed |-> claims[s][Me] = "paid"]

\* "claims ?? []": a packet whose claims could not be read has none.
SeenWithout(s) == [known |-> TRUE, mine |-> FALSE, claimable |-> packets[s].status = "open" /\ Invited(s, Me),
                   landed |-> FALSE]

\* What a tab is told of its packet, on a visit or after a claim.
Read(t, s, v) ==
    \/ tabs' = [tabs EXCEPT ![t] = [v EXCEPT !.read = Seen(s)]] /\ UNCHANGED glitches
    \/ tabs' = [tabs EXCEPT ![t] = [v EXCEPT !.read = SeenWithout(s)]] /\ Glitch

\* Somebody else's screen, all of it: claimed, then paid or released.
OtherClaims(s) ==
    /\ \E p \in Other :
          \/ MayClaim(s, p) /\ claims' = [claims EXCEPT ![s][p] = "pending"]
          \/ claims[s][p] = "pending" /\ claims' = [claims EXCEPT ![s][p] = "paid"]
    /\ UNCHANGED <<formVars, sends, packets, waiting, tabs, glitches>>

OtherReleased(s) ==
    /\ Glitch
    /\ \E p \in Other : claims[s][p] = "pending" /\ claims' = [claims EXCEPT ![s][p] = "none"]
    /\ UNCHANGED <<formVars, sends, packets, waiting, tabs>>

-----------------------------------------------------------------------------
(* The hub, and the envelope in a tab *)

\* /api/packet/invited: the private packets Me may still open.
RefreshInvited ==
    /\ waiting' = {s \in Send : packets[s].circle # {} /\ MayClaim(s, Me)}
    /\ UNCHANGED <<formVars, sends, packets, claims, tabs, glitches>>

\* From the list, or by a code or a link; a reload is a visit too.
Visit(t, s) ==
    /\ packets[s].status # "none"
    /\ s \in waiting \/ packets[s].circle = {} \/ tabs[t].packet = s
    /\ Read(t, s, [NoTab EXCEPT !.packet = s])
    /\ UNCHANGED <<formVars, sends, packets, claims, waiting>>

\* A packet claimed before opens flat; one claimed here opens when the claim has come back.
OpensFlat(v, d) == d.mine /\ ~v.claimed

HasLoaded(v, d) ==
    [v EXCEPT !.details = d, !.read = NoDetails,
              !.claim = IF v.claimed THEN "none" ELSE @,
              !.opened = @ \/ v.claimed \/ OpensFlat(v, d)]

Loaded(t) ==
    /\ tabs[t].read.known
    /\ tabs' = [tabs EXCEPT ![t] = HasLoaded(tabs[t], tabs[t].read)]
    /\ UNCHANGED <<formVars, sends, packets, claims, waiting, glitches>>

\* load keeps its failure to itself: after a claim the envelope opens on what was there before.
NotLoaded(t) ==
    /\ tabs[t].read.known
    /\ Glitch
    /\ tabs' = [tabs EXCEPT ![t] = HasLoaded(tabs[t], tabs[t].details)]
    /\ UNCHANGED <<formVars, sends, packets, claims, waiting>>

PressOpen(t) ==
    /\ tabs[t].details.claimable /\ tabs[t].claim = "none" /\ ~tabs[t].claimed
    /\ tabs' = [tabs EXCEPT ![t].claim = "asked"]
    /\ UNCHANGED <<formVars, sends, packets, claims, waiting, glitches>>

ClaimPacket(t) ==
    /\ tabs[t].claim = "asked"
    /\ LET s == tabs[t].packet
       IN  IF MayClaim(s, Me)
           THEN /\ claims' = [claims EXCEPT ![s][Me] = "pending"]
                /\ tabs' = [tabs EXCEPT ![t].claim = "paying"]
           ELSE tabs' = [tabs EXCEPT ![t].claim = "none"] /\ UNCHANGED claims
    /\ UNCHANGED <<formVars, sends, packets, waiting, glitches>>

\* The handler pays whether its tab is still there or not.
PayoutLands(s) ==
    /\ claims[s][Me] = "pending"
    /\ claims' = [claims EXCEPT ![s][Me] = "paid"]
    /\ tabs' = [t \in Tab |-> IF tabs[t].packet = s /\ tabs[t].claim = "paying"
                              THEN [tabs[t] EXCEPT !.claim = "paid"] ELSE tabs[t]]
    /\ UNCHANGED <<formVars, sends, packets, waiting, glitches>>

\* "The slot was claimed but the transfer failed.  Release it."
OpenAnyway(v) == [v EXCEPT !.claim = "none", !.opened = TRUE]
StaysClosed(v) == [v EXCEPT !.claim = "none"]

PayoutFails(s) ==
    /\ claims[s][Me] = "pending"
    /\ Glitch
    /\ claims' = [claims EXCEPT ![s][Me] = "none"]
    /\ tabs' = [t \in Tab |-> IF tabs[t].packet = s /\ tabs[t].claim = "paying" THEN StaysClosed(tabs[t]) ELSE tabs[t]]
    /\ UNCHANGED <<formVars, sends, packets, waiting>>

\* claim() has its answer, keeps it, and loads the packet again before the envelope opens.
Claimed(t) ==
    /\ tabs[t].claim = "paid" /\ ~tabs[t].claimed
    /\ Read(t, tabs[t].packet, [tabs[t] EXCEPT !.claimed = TRUE])
    /\ UNCHANGED <<formVars, sends, packets, claims, waiting>>

AnswerLost(t) ==
    /\ tabs[t].claim \in {"asked", "paying", "paid"} /\ ~tabs[t].claimed
    /\ Glitch
    /\ tabs' = [tabs EXCEPT ![t].claim = "none"]
    /\ UNCHANGED <<formVars, sends, packets, claims, waiting>>

Next ==
    \/ EnterAmount \/ EnterSlots \/ TogglePrivate \/ LeaveForm \/ RefreshInvited
    \/ \E p \in Person : Toggle(p)
    \/ \E s \in Send :
          \/ PressCreate(s) \/ Declined(s) \/ Fund(s) \/ Funded(s) \/ NotReported(s)
          \/ Insert(s) \/ RefuseInsert(s) \/ Expire(s)
          \/ OtherClaims(s) \/ OtherReleased(s) \/ PayoutLands(s) \/ PayoutFails(s)
    \/ \E t \in Tab :
          \/ \E s \in Send : Visit(t, s)
          \/ Loaded(t) \/ NotLoaded(t) \/ PressOpen(t) \/ ClaimPacket(t) \/ Claimed(t) \/ AnswerLost(t)

Spec == Init /\ [][Next]_vars

-----------------------------------------------------------------------------
(* Properties *)

\* "The envelope stays closed until the claim resolves": an open one is of a claim answered in this
\* tab, or one the server named when it was loaded; and of a payout that landed, if it was claimed
\* here or had landed by then.
OpenedIsPaid ==
    \A t \in Tab : tabs[t].opened =>
        /\ tabs[t].claimed \/ tabs[t].details.mine
        /\ tabs[t].claimed \/ tabs[t].details.landed => claims[tabs[t].packet][Me] = "paid"

\* "Revealing it before the payout lands would be showing a number that is not yet true."
RevealedIsPaid == \A t \in Tab : tabs[t].opened => claims[tabs[t].packet][Me] = "paid"

\* A packet funded on the form becomes one, with a slot for every unit at most, unless a call got
\* no answer; and one pressed as private is opened by its circle alone.
PacketIsAsFilled ==
    \A s \in Send :
        /\ sends[s].at = "stranded" /\ glitches = 0 => sends[s].fields.slots > sends[s].fields.amount
        /\ sends[s].fields.private => Claimers(s) \subseteq sends[s].fields.circle
=============================================================================
