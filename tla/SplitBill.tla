------------------------------ MODULE SplitBill -----------------------------
(***************************************************************************)
(* Who owes what of a bill: the form (web/app/split-bill/page.tsx and      *)
(* components/split-bill/item-editor.tsx), the arithmetic behind it        *)
(* (web/lib/split-bill-math.ts) and the server's own (POST                 *)
(* /api/split-bill, up to the insert).  Amounts are whole cents of the     *)
(* receipt's currency and whole units of USDC; arithmetic is exact.        *)
(***************************************************************************)
EXTENDS Integers, FiniteSets, SequencesExt

CONSTANTS
    MaxGuests,  \* bound: people besides the one who writes the bill
    Contacts,   \* those of them in the address book
    MaxLines,   \* bound: lines of a receipt
    Prices,     \* what a line may come to
    Charges,    \* what tax and discount may be
    Receipts,   \* what a scan may read: prices, tax, discount
    Rates       \* cents per unit of USDC

VARIABLES
    rate,      \* currency.fxRate
    guests,    \* participants
    lines,     \* items: itemTotal and assignedTo
    tax, discount,
    request,   \* what the form posted
    bill       \* split_bills and its shares

vars == <<rate, guests, lines, tax, discount, request, bill>>

Me == 0
Guest == 1 .. MaxGuests
Person == {Me} \cup guests
NoRequest == [total |-> 0, amount |-> <<>>]
NoBill == [at |-> "none", total |-> 0, share |-> <<>>]

TypeOK ==
    /\ rate \in Rates
    /\ guests \subseteq Guest
    /\ lines \in Seq([total : Prices, assignedTo : SUBSET ({Me} \cup Guest)])
    /\ tax \in Charges \cup {0} /\ discount \in Charges \cup {0}
    /\ request.total \in Nat /\ DOMAIN request.amount \subseteq Guest
    /\ bill.at \in {"none", "refused", "created"} /\ DOMAIN bill.share \subseteq Guest

Init ==
    /\ rate \in Rates
    /\ guests = {1}
    /\ lines = <<>>
    /\ tax = 0 /\ discount = 0
    /\ request = NoRequest
    /\ bill = NoBill

-----------------------------------------------------------------------------
(* split-bill-math *)

RoundedDiv(a, b) == (2 * a + b) \div (2 * b)   \* Math.round
SumOf(f) == SumFunctionOnSet(f, DOMAIN f)
First(s) == CHOOSE x \in s : \A y \in s : x <= y

Basis(weights) == IF SumOf(weights) > 0 THEN weights ELSE [i \in DOMAIN weights |-> 1]
Rounded(amount, weights) ==
    LET basis == Basis(weights) sum == SumOf(basis)
    IN  [i \in DOMAIN weights |-> RoundedDiv(amount * basis[i], sum)]

\* Proportional shares; what rounding loses or adds goes to the first of the largest weights.
Allocate(amount, weights) ==
    LET shares == Rounded(amount, weights)
        largest == First({i \in DOMAIN weights : \A j \in DOMAIN weights : weights[j] <= weights[i]})
    IN  IF amount = 0 THEN shares ELSE [shares EXCEPT ![largest] = @ + amount - SumOf(shares)]

\* A line nobody on the bill is assigned to is everybody's.
Targets(line) == IF line.assignedTo \cap Person = {} THEN Person ELSE line.assignedTo \cap Person
Slice(line, p) ==
    IF p \in Targets(line) THEN Allocate(line.total, [q \in Targets(line) |-> 1])[p] ELSE 0

AssignedOnly(p) == SumOf([k \in DOMAIN lines |-> IF p \in lines[k].assignedTo THEN Slice(lines[k], p) ELSE 0])
Subtotal(p) == SumOf([k \in DOMAIN lines |-> Slice(lines[k], p)])
Subtotals == [p \in Person |-> Subtotal(p)]

PersonTotals ==
    LET subtotals == Subtotals
        taxes == Allocate(tax, subtotals)
        discounts == Allocate(discount, subtotals)
    IN  [p \in Person |-> subtotals[p] + taxes[p] - discounts[p]]
BillTotal == SumOf([k \in DOMAIN lines |-> lines[k].total]) + tax - discount

-----------------------------------------------------------------------------
(* The form *)

Posting == request # NoRequest

\* The fields stay open while the bill is posted, too; but an edit made then is one made after a
\* refusal, or one that goes with the form.
Edit == ~Posting /\ bill' = NoBill /\ UNCHANGED <<rate, request>>

AddGuest(g) ==
    /\ Edit
    /\ g \notin guests \cup Contacts
    /\ guests' = guests \cup {g}
    /\ UNCHANGED <<lines, tax, discount>>

\* "Drop them off every line too, or the split keeps charging a ghost."
RemoveGuest(g) ==
    /\ Edit
    /\ g \in guests /\ guests # {g}
    /\ guests' = guests \ {g}
    /\ lines' = [k \in DOMAIN lines |-> [lines[k] EXCEPT !.assignedTo = @ \ {g}]]
    /\ UNCHANGED <<tax, discount>>

\* From contacts: typed rows stay if they have a number; the lines keep the ids of those who go.
PickContacts(picked, typed) ==
    /\ Edit
    /\ picked \subseteq Contacts /\ typed \subseteq guests \ Contacts
    /\ guests' = IF picked \cup typed = {} THEN {1} ELSE picked \cup typed
    /\ UNCHANGED <<lines, tax, discount>>

AddLine(price) ==
    /\ Edit
    /\ Len(lines) < MaxLines
    /\ lines' = Append(lines, [total |-> price, assignedTo |-> {}])
    /\ UNCHANGED <<guests, tax, discount>>

\* Another price or quantity; those who had it still have it.
EditLine(k, price) ==
    /\ Edit
    /\ lines[k].total # price
    /\ lines' = [lines EXCEPT ![k].total = price]
    /\ UNCHANGED <<guests, tax, discount>>

RemoveLine(k) ==
    /\ Edit
    /\ lines' = RemoveAt(lines, k)
    /\ UNCHANGED <<guests, tax, discount>>

ToggleAssignment(k, p) ==
    /\ Edit
    /\ p \in Person
    /\ lines' = [lines EXCEPT ![k].assignedTo = IF p \in @ THEN @ \ {p} ELSE @ \cup {p}]
    /\ UNCHANGED <<guests, tax, discount>>

SetCharges(t, d) ==
    /\ Edit
    /\ tax' = t /\ discount' = d
    /\ UNCHANGED <<guests, lines>>

\* A scan replaces lines and charges whenever it comes back, by then perhaps on the next form.
ScanArrives(r) ==
    /\ lines' = [k \in DOMAIN r.prices |-> [total |-> r.prices[k], assignedTo |-> {}]]
    /\ tax' = r.tax /\ discount' = r.discount
    /\ UNCHANGED <<rate, guests, request, bill>>

\* What the guests owe, each amount and the total rounded on its own.
OwedLocal == SumFunctionOnSet(PersonTotals, guests)
InUsdc(cents) == RoundedDiv(cents, rate)

Submit ==
    /\ ~Posting
    /\ OwedLocal > 0
    /\ LET owed == PersonTotals IN
       request' = [total |-> InUsdc(OwedLocal), amount |-> [g \in guests |-> InUsdc(owed[g])]]
    /\ bill' = NoBill
    /\ UNCHANGED <<rate, guests, lines, tax, discount>>

-----------------------------------------------------------------------------
(* POST /api/split-bill *)

\* An amount that is not positive counts as none: its guest shares what is left.
Explicit == {g \in DOMAIN request.amount : request.amount[g] > 0}
EvenOnes == DOMAIN request.amount \ Explicit
Remainder == request.total - SumOf([g \in Explicit |-> request.amount[g]])

Refused ==
    \/ request.total <= 0
    \/ Remainder < 0
    \/ EvenOnes = {} /\ Remainder > 0

LastOne == CHOOSE g \in EvenOnes : \A h \in EvenOnes : h <= g
AlikeShare(g) == Remainder \div Cardinality(EvenOnes)
EvenShare(g) ==
    IF g = LastOne THEN Remainder - (Cardinality(EvenOnes) - 1) * (Remainder \div Cardinality(EvenOnes))
    ELSE Remainder \div Cardinality(EvenOnes)

\* A refused form keeps its fields; an accepted one starts again.
Create ==
    /\ Posting
    /\ request' = NoRequest
    /\ IF Refused
       THEN /\ bill' = [NoBill EXCEPT !.at = "refused"]
            /\ UNCHANGED <<guests, lines, tax, discount>>
       ELSE /\ bill' = [at |-> "created", total |-> request.total,
                        share |-> [g \in DOMAIN request.amount |->
                                      IF g \in Explicit THEN request.amount[g] ELSE EvenShare(g)]]
            /\ guests' = {1} /\ lines' = <<>> /\ tax' = 0 /\ discount' = 0
    /\ UNCHANGED rate

\* The other mode: one total, nobody's amount given.
SubmitEven(total) ==
    /\ ~Posting
    /\ total > 0
    /\ request' = [total |-> total, amount |-> [g \in guests |-> 0]]
    /\ bill' = NoBill
    /\ UNCHANGED <<rate, guests, lines, tax, discount>>

Next ==
    \/ \E g \in Guest : AddGuest(g) \/ RemoveGuest(g)
    \/ \E picked \in SUBSET Contacts, typed \in SUBSET guests : PickContacts(picked, typed)
    \/ \E r \in Receipts : ScanArrives(r)
    \/ \E price \in Prices : AddLine(price) \/ SubmitEven(price)
    \/ \E k \in DOMAIN lines :
          \/ RemoveLine(k)
          \/ \E p \in {Me} \cup Guest : ToggleAssignment(k, p)
          \/ \E price \in Prices : EditLine(k, price)
    \/ \E t \in Charges \cup {0}, d \in Charges \cup {0} : SetCharges(t, d)
    \/ Submit
    \/ Create

Spec == Init /\ [][Next]_vars

-----------------------------------------------------------------------------
(* Properties *)

\* Whoever is assigned, removed or forgotten, the totals of the people come to the receipt's total.
SplitAddsUp == SumOf(PersonTotals) = BillTotal

\* "So the shares always add up to the total exactly."
SharesAddUp == bill.at = "created" => SumOf(bill.share) = bill.total

\* "Shares a cent short of the total ... get noticed": a bill split by item, every guest owing
\* something, is one the server takes.
ByItemIsTaken == request # NoRequest /\ (\A g \in DOMAIN request.amount : request.amount[g] > 0) => ~Refused
=============================================================================
