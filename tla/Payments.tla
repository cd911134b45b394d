------------------------------ MODULE Payments ------------------------------
(***************************************************************************)
(* A payment is signed on the payer's device and filed afterwards: a       *)
(* transfer to a person, a QR request, a share of a bill. The device sends *)
(* the USDC, posts the hash, then sends the fee; the handlers read the     *)
(* receipt and write the debt, the history and the bill.                   *)
(* web/hooks/use{Transfer,QrPayment,SplitBill}.ts, web/lib/platform-fee.ts,*)
(* web/app/api/{transfer/record,qr-payment,split-bill,transactions/fee}.   *)
(***************************************************************************)
EXTENDS Naturals, FiniteSets

CONSTANTS
    Payment,          \* payments the devices may start
    Payer,
    Request,          \* QR requests, open to any payer
    Share,            \* the shares of one bill
    Owner,            \* share -> the participant who owes it
    Slot,             \* invocations that may be under way
    Owes,             \* the amounts the debts may have; 0 for a QR request that names none
    MaxAmount,        \* bound: the largest amount paid
    Holds,            \* USDC in a wallet to begin with
    MaxFaults,        \* bound: invocations killed, inserts that fail, posts that are lost
    MaxStray          \* bound: posts that do not come from the screen that paid

Debt == Request \cup Share
Target == Debt \cup {"transfer"}
Fee == 1

ASSUME PaymentsAssumption ==
    /\ MaxAmount \in Nat /\ Holds \in Nat /\ MaxFaults \in Nat /\ MaxStray \in Nat
    /\ Owner \in [Share -> Payer]
    /\ Owes \subseteq {o \in [Debt -> 0 .. MaxAmount] : \A d \in Share : o[d] > 0}
    /\ Request \cap Share = {} /\ "transfer" \notin Debt
    /\ Payer # {} /\ Share # {} /\ {"none", "open", "external"} \cap Payment = {}

VARIABLES
    owed,      \* debt -> its amount
    paid,      \* debt -> "open", "external" or the payment filed against it
    bill,      \* none, bare (no shares yet), open, settled
    flow,      \* payment -> what its device is doing with it
    funds,     \* payer -> USDC in the wallet
    mined,     \* payments on chain
    fees,      \* payment -> its fee: none, sent, paid, bounced
    row,       \* payment -> its row in transactions: none, bare, traced
    told,      \* payment -> target -> times the payee was told
    job,       \* slot -> the handler it runs
    overlapped,\* history: payers with two payments under way at once
    unread,    \* history: a read of the shares that remain failed, and counted as none
    strays,
    faults

vars == <<owed, paid, bill, flow, funds, mined, fees, row, told, job, overlapped, unread, strays, faults>>

Unused == [at |-> "unused", by |-> CHOOSE u \in Payer : TRUE, target |-> "transfer", amount |-> 0]
Idle == [at |-> "idle", user |-> CHOOSE u \in Payer : TRUE, target |-> "transfer", pay |-> "none", own |-> FALSE]

TypeOK ==
    /\ owed \in Owes
    /\ paid \in [Debt -> {"open", "external"} \cup Payment]
    /\ bill \in {"none", "bare", "open", "settled"}
    /\ flow \in [Payment -> [at : {"unused", "checked", "sent", "post", "filing", "fee", "attach", "done", "failed"},
                             by : Payer, target : Target, amount : 0 .. MaxAmount]]
    /\ funds \in [Payer -> 0 .. Holds]
    /\ mined \subseteq Payment
    /\ fees \in [Payment -> {"none", "sent", "paid", "bounced"}]
    /\ row \in [Payment -> {"none", "bare", "traced"}]
    /\ told \in [Payment -> [Target -> 0 .. 2]]
    /\ job \in [Slot -> [at : {"idle", "claim", "record", "remaining", "settle", "tell"},
                         user : Payer, target : Target, pay : Payment \cup {"none"}, own : BOOLEAN]]
    /\ overlapped \subseteq Payer
    /\ unread \in BOOLEAN
    /\ strays \in 0 .. MaxStray
    /\ faults \in 0 .. MaxFaults

Init ==
    /\ owed \in Owes
    /\ paid = [d \in Debt |-> "open"]
    /\ bill = "none"
    /\ flow = [p \in Payment |-> Unused]
    /\ funds = [u \in Payer |-> Holds]
    /\ mined = {}
    /\ fees = [p \in Payment |-> "none"]
    /\ row = [p \in Payment |-> "none"]
    /\ told = [p \in Payment |-> [t \in Target |-> 0]]
    /\ job = [s \in Slot |-> Idle]
    /\ overlapped = {}
    /\ unread = FALSE
    /\ strays = 0
    /\ faults = 0

At(p, at) == flow[p].at = at
Goto(p, at) == flow' = [flow EXCEPT ![p].at = at]
Step(s, at) == job' = [job EXCEPT ![s].at = at]
Fault == faults < MaxFaults /\ faults' = faults + 1
Ended == {"unused", "done", "failed"}

chain == <<funds, mined, fees>>
books == <<owed, paid, bill, row, told>>
bounds == <<unread, strays, faults>>

-----------------------------------------------------------------------------
(* POST /api/split-bill: the bill, then its shares, in two statements. *)

InsertBill ==
    /\ bill = "none" /\ bill' = "bare"
    /\ UNCHANGED <<owed, paid, flow, chain, row, told, job, overlapped, bounds>>

\* A failed insert takes the bill back; a killed handler leaves it without shares.
InsertShares ==
    /\ bill = "bare"
    /\ \/ bill' = "open" /\ UNCHANGED faults
       \/ Fault /\ bill' = "none"
    /\ UNCHANGED <<owed, paid, flow, chain, row, told, job, overlapped, strays, unread>>

-----------------------------------------------------------------------------
(* The device *)

MayOwe(u, t) ==
    \/ t = "transfer"
    \/ t \in Request /\ paid[t] = "open"
    \/ t \in Share /\ bill \in {"open", "settled"} /\ Owner[t] = u /\ paid[t] = "open"

Asked(t) == IF t = "transfer" \/ (t \in Request /\ owed[t] = 0) THEN 1 .. MaxAmount ELSE {owed[t]}

\* The check before signing, for the payment alone and for the payment with its fee.
ForValue(u, a) == funds[u] >= a
ForBoth(u, a) == funds[u] >= a + Fee

Overdrawn(u, a) == TRUE
Covers(u, a) == funds[u] >= a

\* The screen was loaded and the balance read; both may be stale by the time it sends.
CheckBalance(p, u, t, a) ==
    /\ At(p, "unused")
    /\ MayOwe(u, t) /\ a \in Asked(t)
    /\ ForBoth(u, a)
    /\ flow' = [flow EXCEPT ![p] = [at |-> "checked", by |-> u, target |-> t, amount |-> a]]
    /\ overlapped' = overlapped \cup {v \in {u} : \E q \in Payment : q # p /\ flow[q].by = u
                                           /\ (flow[q].at \notin Ended \/ fees[q] = "sent")}
    /\ UNCHANGED <<chain, books, job, bounds>>

SendAndPost(p) ==
    /\ At(p, "checked")
    /\ Goto(p, "post")
    /\ UNCHANGED <<chain, books, job, overlapped, bounds>>

Send(p) ==
    /\ At(p, "checked")
    /\ Goto(p, "sent")
    /\ UNCHANGED <<chain, books, job, overlapped, bounds>>

\* Mined, and the device has waited for it. A transfer of more than the wallet holds reverts.
Mine(p) ==
    /\ At(p, "sent")
    /\ LET u == flow[p].by a == flow[p].amount IN
       IF Covers(u, a)
       THEN /\ funds' = [funds EXCEPT ![u] = @ - a]
            /\ mined' = mined \cup {p}
            /\ Goto(p, IF flow[p].target \in Request THEN "fee" ELSE "post")
       ELSE Goto(p, "failed") /\ UNCHANGED <<funds, mined>>
    /\ UNCHANGED <<fees, books, job, overlapped, bounds>>

\* chargePlatformFee: null, and no complaint, when there is no treasury or the send fails.
\* A QR payment sends its fee before it posts; the others once they are recorded.
ChargeFee(p) ==
    /\ At(p, "fee")
    /\ LET qr == flow[p].target \in Request IN
       \/ /\ fees' = [fees EXCEPT ![p] = "sent"]
          /\ Goto(p, IF qr THEN "post" ELSE "attach")
          /\ UNCHANGED faults
       \/ Fault /\ UNCHANGED fees /\ Goto(p, IF qr THEN "post" ELSE "done")
    /\ UNCHANGED <<funds, mined, books, job, overlapped, strays, unread>>

MineFee(p) ==
    /\ fees[p] = "sent"
    /\ LET u == flow[p].by IN
       IF Covers(u, Fee)
       THEN funds' = [funds EXCEPT ![u] = @ - Fee] /\ fees' = [fees EXCEPT ![p] = "paid"]
       ELSE fees' = [fees EXCEPT ![p] = "bounced"] /\ UNCHANGED funds
    /\ UNCHANGED <<mined, flow, books, job, overlapped, bounds>>

\* POST /api/transactions/fee: only a row that has no hash yet.
AttachFee(p) ==
    /\ At(p, "attach")
    /\ \/ row' = [row EXCEPT ![p] = IF @ = "bare" THEN "traced" ELSE @] /\ UNCHANGED faults
       \/ Fault /\ UNCHANGED row
    /\ Goto(p, "done")
    /\ UNCHANGED <<owed, paid, bill, told, chain, job, overlapped, strays, unread>>

-----------------------------------------------------------------------------
(* The handlers *)

FeeAnyway(s, ok) ==
    /\ Step(s, "idle")
    /\ IF job[s].own
       THEN Goto(job[s].pay, IF job[s].target \notin Request THEN "fee" ELSE "done")
       ELSE UNCHANGED flow

\* What the device makes of the answer: no fee for what was not recorded.
Reply(s, ok) ==
    /\ Step(s, "idle")
    /\ IF job[s].own
       THEN Goto(job[s].pay, IF ok /\ job[s].target \notin Request THEN "fee" ELSE "done")
       ELSE UNCHANGED flow

AnyAmount(u, p, t) == p \in mined /\ flow[p].by = u
ReceiptProves(u, p, t) ==
    /\ p \in mined
    /\ flow[p].by = u
    /\ t \in Debt => flow[p].amount >= owed[t]

\* What the three routes ask before they write anything.
Accepts(u, p, t) ==
    /\ t \in Share => bill \in {"open", "settled"} /\ Owner[t] = u /\ paid[t] = "open"
    /\ ReceiptProves(u, p, t)

Begin(s, u, p, t, own) ==
    job' = [job EXCEPT ![s] = [at |-> IF t = "transfer" THEN "record" ELSE "claim",
                               user |-> u, target |-> t, pay |-> p, own |-> own]]

\* The screen that paid posts its hash.
Post(s, p) ==
    /\ At(p, "post") /\ job[s].at = "idle"
    /\ LET u == flow[p].by t == flow[p].target IN
       IF Accepts(u, p, t)
       THEN Begin(s, u, p, t, TRUE) /\ Goto(p, "filing")
       ELSE Goto(p, "done") /\ UNCHANGED job
    /\ UNCHANGED <<chain, books, overlapped, bounds>>

\* The same hash once more, or one filed against something it did not pay.
PostAgain(s, u, p, t) ==
    /\ job[s].at = "idle" /\ strays < MaxStray
    /\ Accepts(u, p, t)
    /\ Begin(s, u, p, t, FALSE)
    /\ strays' = strays + 1
    /\ UNCHANGED <<flow, chain, books, overlapped, unread, faults>>

\* "I paid this some other way": no receipt, no row in the history.
MarkExternal(s, t) ==
    /\ job[s].at = "idle" /\ strays < MaxStray
    /\ bill \in {"open", "settled"} /\ paid[t] = "open"
    /\ job' = [job EXCEPT ![s] = [Idle EXCEPT !.at = "claim", !.user = Owner[t], !.target = t]]
    /\ strays' = strays + 1
    /\ UNCHANGED <<flow, chain, books, overlapped, unread, faults>>

LosePost(p) ==
    /\ At(p, "post")
    /\ Fault
    /\ Goto(p, "done")
    /\ UNCHANGED <<chain, books, job, overlapped, strays, unread>>

External(s) == job[s].pay = "none"
Whoever(t) == TRUE
StillOpen(t) == paid[t] = "open"

Claim(s) ==
    /\ job[s].at = "claim"
    /\ LET t == job[s].target IN
       IF StillOpen(t)
       THEN /\ paid' = [paid EXCEPT ![t] = IF External(s) THEN "external" ELSE job[s].pay]
            /\ Step(s, IF External(s) THEN "remaining" ELSE "record") /\ UNCHANGED flow
       ELSE Reply(s, FALSE) /\ UNCHANGED paid
    /\ UNCHANGED <<owed, bill, row, told, chain, overlapped, bounds>>

EveryRecord(p) == TRUE
FirstRecord(p) == row[p] = "none"

\* recordTransaction: a duplicate is success. Any other error leaves the claim without its row.
Record(s) ==
    /\ job[s].at = "record"
    /\ LET p == job[s].pay t == job[s].target
           hash == IF job[s].own /\ t \in Request /\ fees[p] # "none" THEN "traced" ELSE "bare"
       IN
       \/ /\ row' = [row EXCEPT ![p] = IF @ = "none" THEN hash ELSE @]
          /\ CASE t = "transfer" /\ ~FirstRecord(p) -> Reply(s, TRUE)
               [] t \in Share -> Step(s, "remaining") /\ UNCHANGED flow
               [] OTHER -> Step(s, "tell") /\ UNCHANGED flow
          /\ UNCHANGED faults
       \/ Fault /\ Reply(s, FALSE) /\ UNCHANGED row
    /\ UNCHANGED <<owed, paid, bill, told, chain, overlapped, strays, unread>>

AnyPaid == \E d \in Share : paid[d] # "open"
AllFiled == \A d \in Share : paid[d] \in Payment
AllPaid == \A d \in Share : paid[d] # "open"

\* closeBillIfFullyPaid: the shares that remain, then the bill. Nobody looks whether the read
\* failed, and then none remains, nor whether the write did.
ReadRemaining(s) ==
    /\ job[s].at = "remaining"
    /\ \/ AllPaid /\ Step(s, "settle") /\ UNCHANGED <<flow, unread, faults>>
       \/ /\ ~AllPaid /\ UNCHANGED <<unread, faults>>
          /\ IF External(s) THEN Reply(s, TRUE) ELSE Step(s, "tell") /\ UNCHANGED flow
       \/ Fault /\ unread' = TRUE /\ Step(s, "settle") /\ UNCHANGED flow
    /\ UNCHANGED <<chain, books, overlapped, strays>>

Settle(s) ==
    /\ job[s].at = "settle"
    /\ \/ bill' = "settled" /\ UNCHANGED faults
       \/ Fault /\ UNCHANGED bill
    /\ IF External(s) THEN Reply(s, TRUE) ELSE Step(s, "tell") /\ UNCHANGED flow
    /\ UNCHANGED <<owed, paid, row, told, chain, overlapped, unread, strays>>

Tell(s) ==
    /\ job[s].at = "tell"
    /\ told' = [told EXCEPT ![job[s].pay][job[s].target] = @ + 1]
    /\ Reply(s, TRUE)
    /\ UNCHANGED <<owed, paid, bill, row, chain, overlapped, bounds>>

Crash(s) ==
    /\ job[s].at # "idle"
    /\ Fault
    /\ Reply(s, FALSE)
    /\ UNCHANGED <<chain, books, overlapped, strays, unread>>

Handle(s) == Claim(s) \/ Record(s) \/ ReadRemaining(s) \/ Settle(s) \/ Tell(s)
Device(p) ==
    \/ Mine(p) \/ ChargeFee(p) \/ MineFee(p) \/ AttachFee(p)
    \/ \E s \in Slot : Post(s, p)

Next ==
    \/ InsertBill \/ InsertShares
    \/ \E p \in Payment :
        \/ Device(p) \/ Send(p) \/ LosePost(p)
        \/ \E u \in Payer, t \in Target : \E a \in Asked(t) : CheckBalance(p, u, t, a)
    \/ \E s \in Slot :
        \/ Handle(s) \/ Crash(s)
        \/ \E u \in Payer, p \in Payment, t \in Target : PostAgain(s, u, p, t)
        \/ \E t \in Share : MarkExternal(s, t)

Spec == Init /\ [][Next]_vars

-----------------------------------------------------------------------------
(* Properties *)

\* "A caller cannot mark someone else's request paid, or claim an amount the chain did not see":
\* whatever is filed, a debt is paid by a mined transfer of its amount, a share by its own
\* participant.
PaidIsBacked ==
    \A d \in Debt : paid[d] \in Payment =>
        LET p == paid[d] IN
        /\ p \in mined /\ flow[p].amount >= owed[d]
        /\ d \in Share => flow[p].by = Owner[d]

\* Two devices, or a device and a cash payment, cannot both settle a debt: what settled it stays.
PaidOnce == [][\A d \in Debt : paid[d] # "open" => paid'[d] = paid[d]]_vars

\* History is a mirror of the chain: what the app paid has its row once the screen and the
\* handlers are done with it, unless one was killed or something else had settled the debt first.
HistoryMirrorsChain ==
    \A p \in Payment :
        /\ row[p] # "none" => p \in mined
        /\ At(p, "done") /\ faults = 0 /\ (\A s \in Slot : job[s].at = "idle" \/ job[s].pay # p) =>
            row[p] # "none" \/ (flow[p].target \in Debt /\ paid[flow[p].target] # p)

\* A bill is settled only when nobody owes anything on it, in whatever order the shares are filed
\* and whatever else fails, unless the shares that remain could not be read: that settles it too.
SettledWhenPaid == bill = "settled" => unread \/ \A d \in Share : paid[d] # "open"

\* The payee hears of a payment once, however often it is filed.
ToldOnce == \A p \in Payment, t \in Target : told[p][t] <= 1

\* The fee follows the payment and, but for a QR request, its row: its hash has where to go.
FeeFollowsPayment ==
    \A p \in Payment :
        /\ fees[p] # "none" => p \in mined
        /\ At(p, "attach") => row[p] # "none"

\* The balance check covers the fee: it cannot bounce unless payments overlapped.
FeeIsAffordable ==
    \A p \in Payment : fees[p] = "bounced" => flow[p].by \in overlapped

\* A bill whose shares are all paid is settled once the handlers that filed them have ended,
\* even the last two at once, unless one of them was killed or a call failed.
PaidBillCloses ==
    /\ \A d \in Share : paid[d] # "open"
    /\ faults = 0
    /\ \A s \in Slot : job[s].at = "idle" \/ job[s].target \notin Share
    => bill = "settled"
=============================================================================
