------------------------------ MODULE PayScreen ------------------------------
(***************************************************************************)
(* Asking for money with a code and paying one: the panes of the pay sheet *)
(* (components/pay/pay-sheet.tsx with useCreatePaymentRequest) on the      *)
(* payee's device, /api/qr-payment between them, and the pages of payers   *)
(* (app/pay/[code] with usePayRequest).  Module Payments has what a        *)
(* payment does on chain and in the books; here it is out, mined or lost.  *)
(***************************************************************************)
EXTENDS Naturals, FiniteSets

CONSTANTS
    Code,         \* codes a request may get
    Page,         \* pages of payers
    MaxAmount,    \* bound: amounts; 0 is none
    MaxOpenings,  \* bound: openings of the sheet
    MaxGlitches   \* bound: calls that fail

VARIABLES
    sheet,    \* what the sheet has: nothing of it survives a closing
    requests, \* payment_requests, from the press that asks for one
    pages,    \* what the payers' pages show
    openings,
    glitches

vars == <<sheet, requests, pages, openings, glitches>>

None == "none"
Amount == 0 .. MaxAmount

NoSheet == [open |-> FALSE, pane |-> "scan", minted |-> FALSE, my |-> None, creating |-> None, bill |-> None, amount |-> 0]
NoRequest == [at |-> "none", amount |-> 0, kind |-> None, opening |-> 0]
NoPage == [at |-> "away", code |-> None, amount |-> 0, payable |-> FALSE, typed |-> 0, out |-> 0]

TypeOK ==
    /\ sheet \in [open : BOOLEAN, pane : {"scan", "code", "bill"}, minted : BOOLEAN, my : Code \cup {None},
                  creating : Code \cup {None}, bill : Code \cup {None}, amount : Amount]
    /\ requests \in [Code -> [at : {"none", "asked", "answering", "open", "paid", "expired", "refused"}, amount : Amount,
                              kind : {None, "my", "bill"}, opening : 0 .. MaxOpenings]]
    /\ pages \in [Page -> [at : {"away", "loading", "idle", "paying", "out", "posting", "over"}, code : Code \cup {None},
                           amount : Amount, payable : BOOLEAN, typed : Amount, out : Amount]]
    /\ openings \in 0 .. MaxOpenings /\ glitches \in 0 .. MaxGlitches

Init ==
    /\ sheet = NoSheet
    /\ requests = [c \in Code |-> NoRequest]
    /\ pages = [p \in Page |-> NoPage]
    /\ openings = 0 /\ glitches = 0

Glitch == glitches < MaxGlitches /\ glitches' = glitches + 1

-----------------------------------------------------------------------------
(* The sheet *)

OpenSheet ==
    /\ ~sheet.open /\ openings < MaxOpenings
    /\ sheet' = [NoSheet EXCEPT !.open = TRUE]
    /\ openings' = openings + 1
    /\ UNCHANGED <<requests, pages, glitches>>

\* Swiped away, or a code scanned or typed: "Unmounting cannot forget."
CloseSheet ==
    /\ sheet.open
    /\ sheet' = NoSheet
    /\ UNCHANGED <<requests, pages, openings, glitches>>

Ask(c, kind, n) ==
    /\ requests[c] = NoRequest
    /\ requests' = [requests EXCEPT ![c] = [at |-> "asked", amount |-> n, kind |-> kind, opening |-> openings]]

\* "Guards the open-amount mint: two scroll events land before any state has updated."
NeverMinted == FALSE
Minted == sheet.minted

\* A chip or a swipe; a second scroll event still sees the pane before.
MoveTo(pane) ==
    /\ sheet.open
    /\ IF pane = "code" /\ ~Minted
       THEN /\ \E c \in Code : Ask(c, "my", 0)
            /\ sheet' = [sheet EXCEPT !.pane = pane, !.minted = TRUE]
       ELSE sheet' = [sheet EXCEPT !.pane = pane] /\ UNCHANGED requests
    /\ UNCHANGED <<pages, openings, glitches>>

\* The field is there until the bill is; it is not disabled while the bill is being created.
EditBill ==
    /\ sheet.open /\ sheet.pane = "bill" /\ sheet.bill = None
    /\ \E n \in Amount \ {sheet.amount} : sheet' = [sheet EXCEPT !.amount = n]
    /\ UNCHANGED <<requests, pages, openings, glitches>>

ShowBill(c) ==
    /\ sheet.open /\ sheet.pane = "bill" /\ sheet.bill = None
    /\ sheet.creating = None /\ sheet.amount > 0
    /\ Ask(c, "bill", sheet.amount)
    /\ sheet' = [sheet EXCEPT !.creating = c]
    /\ UNCHANGED <<pages, openings, glitches>>

NewBill ==
    /\ sheet.bill # None
    /\ sheet' = [sheet EXCEPT !.bill = None, !.amount = 0]
    /\ UNCHANGED <<requests, pages, openings, glitches>>

-----------------------------------------------------------------------------
(* POST /api/qr-payment/create, and its answer *)

Insert(c) ==
    /\ requests[c].at = "asked"
    /\ requests' = [requests EXCEPT ![c].at = "answering"]
    /\ UNCHANGED <<sheet, pages, openings, glitches>>

\* Each pane holds the code of its own request; the sheet that asked may be gone.
ForPane(c, k) == requests[c].kind = k
Mine(c) == sheet.open /\ requests[c].opening = openings

Answer(c) ==
    /\ requests[c].at = "answering"
    /\ requests' = [requests EXCEPT ![c].at = "open"]
    /\ sheet' = IF ~Mine(c) THEN sheet
                ELSE [sheet EXCEPT !.my = IF ForPane(c, "my") THEN c ELSE @,
                                   !.bill = IF ForPane(c, "bill") THEN c ELSE @,
                                   !.creating = IF @ = c THEN None ELSE @]
    /\ UNCHANGED <<pages, openings, glitches>>

\* No wallet, no answer: the bill can be asked for again, the open code only by a new opening.
Refused(c) ==
    /\ requests[c].at \in {"asked", "answering"}
    /\ Glitch
    /\ requests' = [requests EXCEPT ![c].at = "refused"]
    /\ sheet' = IF Mine(c) /\ sheet.creating = c THEN [sheet EXCEPT !.creating = None] ELSE sheet
    /\ UNCHANGED <<pages, openings>>

\* "A request that sits unpaid this long stops being scannable."
Expire(c) ==
    /\ requests[c].at = "open"
    /\ requests' = [requests EXCEPT ![c].at = "expired"]
    /\ UNCHANGED <<sheet, pages, openings, glitches>>

-----------------------------------------------------------------------------
(* A payer's page.  phase is failed only where it may be pressed again: idle. *)

Visit(p, c) ==
    /\ pages[p].at \in {"away", "idle", "over"} /\ requests[c].at \in {"open", "paid", "expired"}
    /\ pages' = [pages EXCEPT ![p] = [NoPage EXCEPT !.at = "loading", !.code = c]]
    /\ UNCHANGED <<sheet, requests, openings, glitches>>

Load(p) ==
    /\ pages[p].at = "loading"
    /\ LET r == requests[pages[p].code] IN
       pages' = [pages EXCEPT ![p].at = "idle", ![p].amount = r.amount, ![p].payable = r.at = "open"]
    /\ UNCHANGED <<sheet, requests, openings, glitches>>

\* Only a request without an amount asks for one, and goes on asking while it is paid.
Type(p) ==
    /\ pages[p].at \in {"idle", "paying"} /\ pages[p].amount = 0
    /\ \E n \in Amount \ {pages[p].typed} : pages' = [pages EXCEPT ![p].typed = n]
    /\ UNCHANGED <<sheet, requests, openings, glitches>>

ToPay(v) == IF v.amount # 0 THEN v.amount ELSE v.typed

PressPay(p) ==
    /\ pages[p].at = "idle" /\ pages[p].payable /\ ToPay(pages[p]) > 0
    /\ pages' = [pages EXCEPT ![p].at = "paying", ![p].out = ToPay(pages[p])]
    /\ UNCHANGED <<sheet, requests, openings, glitches>>

\* Too little for the payment and its fee, no signer, a send that throws.
PayFails(p) ==
    /\ pages[p].at = "paying"
    /\ Glitch
    /\ pages' = [pages EXCEPT ![p].at = "idle", ![p].out = 0]
    /\ UNCHANGED <<sheet, requests, openings>>

\* The node has it: the screen says Paid, the rest is bookkeeping behind it.
SendPayment(p) ==
    /\ pages[p].at = "paying"
    /\ pages' = [pages EXCEPT ![p].at = "out"]
    /\ UNCHANGED <<sheet, requests, openings, glitches>>

PaymentMined(p) ==
    /\ pages[p].at = "out"
    /\ pages' = [pages EXCEPT ![p].at = "posting"]
    /\ UNCHANGED <<sheet, requests, openings, glitches>>

\* POST /api/qr-payment/[code]: the first payment of the amount asked for pays the request.
PaysEnough(p, r) == pages[p].out >= r.amount

File(p) ==
    /\ pages[p].at = "posting"
    /\ LET c == pages[p].code IN
       requests' = IF requests[c].at # "paid" /\ PaysEnough(p, requests[c])
                   THEN [requests EXCEPT ![c].at = "paid"] ELSE requests
    /\ pages' = [pages EXCEPT ![p].at = "over"]
    /\ UNCHANGED <<sheet, openings, glitches>>

\* It reverts, or the receipt is not recorded.
NotRecorded(p) ==
    /\ pages[p].at \in {"out", "posting"}
    /\ Glitch
    /\ pages' = [pages EXCEPT ![p].at = "over"]
    /\ UNCHANGED <<sheet, requests, openings>>

Next ==
    \/ OpenSheet \/ CloseSheet \/ EditBill \/ NewBill
    \/ \E pane \in {"scan", "code", "bill"} : MoveTo(pane)
    \/ \E c \in Code : ShowBill(c) \/ Insert(c) \/ Answer(c) \/ Refused(c) \/ Expire(c)
    \/ \E p \in Page :
          \/ \E c \in Code : Visit(p, c)
          \/ Load(p) \/ Type(p) \/ PressPay(p) \/ PayFails(p)
          \/ SendPayment(p) \/ PaymentMined(p) \/ File(p) \/ NotRecorded(p)

Spec == Init /\ [][Next]_vars

-----------------------------------------------------------------------------
(* Properties *)

Paying == {p \in Page : pages[p].at \in {"paying", "out", "posting", "over"}}

\* "The two panes hold separate requests": My code is an open request, minted once an opening
\* however the panes are swiped, a bill names an amount, and whoever pays one pays what it names.
CodesAreKept ==
    /\ \A n \in 1 .. MaxOpenings : Cardinality({c \in Code : requests[c].kind = "my" /\ requests[c].opening = n}) <= 1
    /\ sheet.my # None => requests[sheet.my].amount = 0
    /\ sheet.bill # None => requests[sheet.bill].amount > 0 /\ requests[sheet.bill].opening = openings
    /\ \A p \in Paying : LET asked == requests[pages[p].code].amount
                         IN  pages[p].out > 0 /\ (asked # 0 => pages[p].out = asked)

\* "A code with the figure fixed before it is shown": the payee reads the figure the code asks for.
BillIsAsShown == sheet.bill # None => requests[sheet.bill].amount = sheet.amount

\* The payer's Paid screen names what left the wallet.
PaidIsWhatLeft == \A p \in Page : pages[p].at \in {"out", "posting", "over"} => pages[p].out = ToPay(pages[p])
=============================================================================
