------------------------------ MODULE BillScreen ------------------------------
(***************************************************************************)
(* A bill on the screens of those who share it: app/split-bill/[id] with   *)
(* useBillDetails.  One share and the pages that show it, its participant's*)
(* own and the others'; paying it with Saku, or marking it paid some other *)
(* way.  The money and the books are module Payments, the amounts module   *)
(* SplitBill.                                                              *)
(***************************************************************************)
EXTENDS Naturals, FiniteSets

CONSTANTS
    Page,        \* pages that show the bill
    Payers,      \* those of the participant
    Press,       \* presses of Pay
    MaxGlitches  \* bound: calls that get no answer, transfers that fail

VARIABLES
    share,    \* the row: pending, or paid with Saku or outside it
    pages,    \* what a page shows and does
    presses,
    answers,  \* page -> answers of GET under way to it, in any order
    glitches

vars == <<share, pages, presses, answers, glitches>>

None == "none"
Status == {"pending", "saku", "external"}
Moved == {"posting", "over"}

TypeOK ==
    /\ share \in Status
    /\ pages \in [Page -> [view : Status \cup {None}, busy : BOOLEAN, method : {"saku", "external"}]]
    /\ presses \in [Press -> [at : {None, "signing", "out", "posting", "over", "failed"}, page : Page \cup {None}]]
    /\ answers \in [Page -> SUBSET Status]
    /\ glitches \in 0 .. MaxGlitches

Init ==
    /\ share = "pending"
    /\ pages = [g \in Page |-> [view |-> None, busy |-> FALSE, method |-> "saku"]]
    /\ presses = [p \in Press |-> [at |-> None, page |-> None]]
    /\ answers = [g \in Page |-> {}]
    /\ glitches = 0

Glitch == glitches < MaxGlitches /\ glitches' = glitches + 1
Load(g) == answers' = [answers EXCEPT ![g] = @ \cup {share'}]

\* A visit, or the page mounted again.
Visit(g) ==
    /\ share' = share /\ Load(g)
    /\ UNCHANGED <<pages, presses, glitches>>

\* "Money that never moved through here is never shown as if it did."
PaidIsPaid(s) == IF s = "external" THEN "saku" ELSE s
Shown(s) == s

Loaded(g, s) ==
    /\ s \in answers[g]
    /\ answers' = [answers EXCEPT ![g] = @ \ {s}]
    /\ pages' = [pages EXCEPT ![g].view = Shown(s)]
    /\ UNCHANGED <<share, presses, glitches>>

Owes(g) == g \in Payers /\ pages[g].view = "pending"

Choose(g) ==
    /\ Owes(g)
    /\ pages' = [pages EXCEPT ![g].method = IF @ = "saku" THEN "external" ELSE "saku"]
    /\ UNCHANGED <<share, presses, answers, glitches>>

-----------------------------------------------------------------------------
(* payShare *)

PressPay(p, g) ==
    /\ Owes(g) /\ ~pages[g].busy /\ pages[g].method = "saku" /\ presses[p].at = None
    /\ presses' = [presses EXCEPT ![p] = [at |-> "signing", page |-> g]]
    /\ pages' = [pages EXCEPT ![g].busy = TRUE]
    /\ UNCHANGED <<share, answers, glitches>>

Broadcast(p) ==
    /\ presses[p].at = "signing"
    /\ presses' = [presses EXCEPT ![p].at = "out"]
    /\ UNCHANGED <<share, pages, answers, glitches>>

\* Too little money, a refused signature, a revert.
PayFails(p) ==
    /\ presses[p].at \in {"signing", "out"}
    /\ Glitch
    /\ presses' = [presses EXCEPT ![p].at = "failed"]
    /\ pages' = [pages EXCEPT ![presses[p].page].busy = FALSE]
    /\ UNCHANGED <<share, answers>>

\* The transfer is mined and the button free again; the receipt is filed behind it.
Mined(p) ==
    /\ presses[p].at = "out"
    /\ presses' = [presses EXCEPT ![p].at = "posting"]
    /\ pages' = [pages EXCEPT ![presses[p].page].busy = FALSE]
    /\ UNCHANGED <<share, answers, glitches>>

\* POST with a hash: whatever the answer, the page loads the bill again.
File(p) ==
    /\ presses[p].at = "posting"
    /\ presses' = [presses EXCEPT ![p].at = "over"]
    /\ \/ share' = (IF share = "pending" THEN "saku" ELSE share) /\ UNCHANGED glitches
       \/ share' = share /\ Glitch
    /\ Load(presses[p].page)
    /\ UNCHANGED pages

-----------------------------------------------------------------------------
(* settleExternally *)

PressMark(g) ==
    /\ Owes(g) /\ ~pages[g].busy /\ pages[g].method = "external"
    /\ pages' = [pages EXCEPT ![g].busy = TRUE]
    /\ UNCHANGED <<share, presses, answers, glitches>>

Marking(g) == pages[g].busy /\ \A p \in Press : presses[p].page = g => presses[p].at \notin {"signing", "out"}

\* A share that was paid meanwhile is refused, and then the page is not loaded again.
Mark(g) ==
    /\ Marking(g)
    /\ pages' = [pages EXCEPT ![g].busy = FALSE]
    /\ IF share = "pending"
       THEN share' = "external" /\ Load(g)
       ELSE UNCHANGED <<share, answers>>
    /\ UNCHANGED <<presses, glitches>>

MarkFails(g) ==
    /\ Marking(g)
    /\ Glitch
    /\ pages' = [pages EXCEPT ![g].busy = FALSE]
    /\ UNCHANGED <<share, presses, answers>>

Next ==
    \/ \E g \in Page :
          \/ Visit(g) \/ Choose(g) \/ PressMark(g) \/ Mark(g) \/ MarkFails(g)
          \/ \E s \in Status : Loaded(g, s)
          \/ \E p \in Press : PressPay(p, g)
    \/ \E p \in Press : Broadcast(p) \/ PayFails(p) \/ Mined(p) \/ File(p)

Spec == Init /\ [][Next]_vars

-----------------------------------------------------------------------------
(* Properties *)

\* What any page shows as paid with Saku was moved by a mined transfer, and what it shows as paid
\* at all is paid: however presses, marks and answers cross.
ShownAsItMoved ==
    \A g \in Page :
        /\ pages[g].view = "saku" => \E p \in Press : presses[p].at \in Moved
        /\ pages[g].view \in {"saku", "external"} => share = pages[g].view

\* A share is paid by one transfer at most, and not both on chain and some other way.
PaidByOne ==
    LET out == {p \in Press : presses[p].at \in Moved}
    IN  Cardinality(out) <= 1 /\ (out # {} => share # "external")
=============================================================================
