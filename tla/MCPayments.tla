----------------------------- MODULE MCPayments -----------------------------
(***************************************************************************)
(* Payments with a QR request and a bill of two shares; and, sharing no    *)
(* state with them, who owes what of a bill, the approval warmed up ahead  *)
(* of a payment, and the stakes of one screen with their history.  part    *)
(* says which of the four a behaviour is about; the others rest.           *)
(***************************************************************************)
EXTENDS Payments, Sequences, TLC

CONSTANTS
    p1, p2, u1, u2, q, h1, h2, s1, s2,
    MaxGuests, Contacts, MaxLines, Prices, Charges, Receipts, Rates,
    MaxMounts, MaxPresses, MaxGlitches,
    Amounts, MinStake, Wealth, MaxEarned, MaxTxs, MaxAway, MaxSlips

ASSUME ScreensAssumption ==
    /\ MaxMounts \in Nat /\ MaxPresses \in Nat /\ MaxGlitches \in Nat
    /\ Amounts \subseteq Nat \ {0} /\ Wealth \in Nat /\ MaxEarned \in Nat
    /\ MaxTxs \in Nat \ {0} /\ MaxAway \in Nat /\ MaxSlips \in Nat

ASSUME BillAssumption ==
    /\ MaxGuests \in Nat \ {0} /\ Contacts \subseteq 1 .. MaxGuests
    /\ Prices \subseteq Nat /\ Charges \subseteq Nat /\ Rates \subseteq Nat \ {0}
    /\ Receipts \subseteq [prices : Seq(Prices), tax : Charges \cup {0}, discount : Charges \cup {0}]

Payment2 == {p1, p2}
Slot2 == {s1, s2}
OneEach == h1 :> u1 @@ h2 :> u2
Owes3 == {q :> a @@ h1 :> 1 @@ h2 :> 1 : a \in {0, 1, 2}}
TwoReceipts == {[prices |-> <<1, 5>>, tax |-> 2, discount |-> 0], [prices |-> <<5>>, tax |-> 0, discount |-> 2]}
Symmetry == Permutations(Payment2) \cup Permutations(Slot2)

VARIABLES
    part,
    rate, guests, lines, tax, discount, request, split,
    balance, allowance, run, mounts, inFlight, pay, presses, approvals, glitches,
    stake, purse, txs, rows, info, held, entry, claimed, posts, harvests, away, slips

L == INSTANCE SplitBill WITH bill <- split
R == INSTANCE WarmApproval
K == INSTANCE StakingScreen WITH glitches <- slips, MaxGlitches <- MaxSlips

LVars == <<rate, guests, lines, tax, discount, request, split>>
RVars == <<balance, allowance, run, mounts, inFlight, pay, presses, approvals, glitches>>
KVars == <<stake, purse, txs, rows, info, held, entry, claimed, posts, harvests, away, slips>>
allVars == <<part, vars, LVars, RVars, KVars>>

\* A part that rests starts in one state.
PaymentsInit ==
    /\ Init
    /\ L!Init /\ R!Init /\ K!Init
    /\ part \in {"payments", "split", "approval", "stakes"}
    /\ part # "payments" => owed = CHOOSE o \in Owes : TRUE
    /\ part # "approval" => balance = "none"

PaymentsNext ==
    /\ UNCHANGED part
    /\ \/ part = "payments" /\ Next /\ UNCHANGED <<LVars, RVars, KVars>>
       \/ part = "split" /\ L!Next /\ UNCHANGED <<vars, RVars, KVars>>
       \/ part = "approval" /\ R!Next /\ UNCHANGED <<vars, LVars, KVars>>
       \/ part = "stakes" /\ K!Next /\ UNCHANGED <<vars, LVars, RVars>>

PaymentsSpec == PaymentsInit /\ [][PaymentsNext]_allVars

\* A row in the history for what was mined, none for what was not, and its payee told once; the
\* fee follows its payment, and the check of the balance made sure of both. The row of a stake tells
\* what moved, reward and all, and a claim is called paid only when one was.
BooksMirrorChain ==
    /\ part = "payments" =>
        TypeOK /\ HistoryMirrorsChain /\ ToldOnce /\ FeeFollowsPayment /\ FeeIsAffordable
    /\ part = "stakes" => K!TypeOK /\ K!HistoryIsTrue /\ K!ClaimWasMade

\* A bill is settled when, and only when, all its shares are paid, in whatever order, but for the
\* handlers that were killed and a read that failed.
BillClosesWhenPaid == part = "payments" => SettledWhenPaid /\ PaidBillCloses

\* What the people on a bill owe comes to the bill: on the form and in the tables.
SharesAddUp == part = "split" => L!TypeOK /\ L!SplitAddsUp /\ L!SharesAddUp

\* A payment joins the approval that is under way instead of signing a second.
OneSignature == part = "approval" => R!TypeOK /\ R!OneSignature
=============================================================================
