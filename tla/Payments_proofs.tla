-------------------------- MODULE Payments_proofs --------------------------
(***************************************************************************)
(* Theorems about Payments, for any payers, debts, payments and handlers;  *)
(* about the approval and the stakes beside it; and about the arithmetic   *)
(* of a bill, for any people, lines, charges and rates.  That what a fold  *)
(* computes can be reasoned about rests on induction over the subsets of a *)
(* finite set (SubsetsWellFounded of TokenSums): FoldIsCount shows that    *)
(* the fold of SplitBill is a count of units.                              *)
(***************************************************************************)
EXTENDS MCPayments, TokenSums, SequenceTheorems

Flows == [at : {"unused", "checked", "sent", "post", "filing", "fee", "attach", "done", "failed"},
          by : Payer, target : Target, amount : 0 .. MaxAmount]
Jobs == [at : {"idle", "claim", "record", "remaining", "settle", "tell"},
         user : Payer, target : Target, pay : Payment \cup {"none"}, own : BOOLEAN]

\* TypeOK, but for the bound on how often a payee is told: that is ToldOnce.
Types ==
    /\ owed \in Owes
    /\ paid \in [Debt -> {"open", "external"} \cup Payment]
    /\ bill \in {"none", "bare", "open", "settled"}
    /\ flow \in [Payment -> Flows]
    /\ funds \in [Payer -> 0 .. Holds]
    /\ mined \subseteq Payment
    /\ fees \in [Payment -> {"none", "sent", "paid", "bounced"}]
    /\ row \in [Payment -> {"none", "bare", "traced"}]
    /\ told \in [Payment -> [Target -> Nat]]
    /\ job \in [Slot -> Jobs]
    /\ overlapped \subseteq Payer
    /\ unread \in BOOLEAN
    /\ strays \in 0 .. MaxStray
    /\ faults \in 0 .. MaxFaults

\* A payment on chain keeps its payer, its target and its amount.
Used == \A p \in mined : flow[p].at # "unused"

\* What a handler found out before it wrote anything stays true while it runs.
JobOK(s) ==
    LET j == job[s] IN
    /\ j.at = "claim" => j.target \in Debt
    /\ j.at \in {"record", "tell"} => j.pay # "none"
    /\ j.at \in {"remaining", "settle"} => j.target \in Share
    /\ j.at # "idle" /\ j.pay # "none" =>
        /\ ReceiptProves(j.user, j.pay, j.target)
        /\ j.target \in Share => Owner[j.target] = j.user
        /\ j.own => flow[j.pay].target = j.target
    /\ j.pay = "none" => ~j.own /\ (j.at # "idle" => j.target \in Share)
    /\ j.at \in {"remaining", "settle", "tell"} /\ j.pay # "none" => row[j.pay] # "none"
    /\ j.at = "settle" => unread \/ AllPaid
JobsOK == \A s \in Slot : JobOK(s)

\* A handler that is past its claim of a debt, or files a transfer it is the first to record.
Claimed(s) == job[s].at \in {"record", "remaining", "settle", "tell"} /\ job[s].target \in Debt
Telling(s) == job[s].at = "tell" /\ job[s].target = "transfer"

\* A debt that was claimed is claimed by one handler, which has yet to tell its payee.
ClaimOK(s) ==
    LET j == job[s] IN
    /\ Claimed(s) => paid[j.target] = IF j.pay = "none" THEN "external" ELSE j.pay
    /\ Claimed(s) /\ j.pay # "none" => told[j.pay][j.target] = 0
    /\ Telling(s) => row[j.pay] # "none" /\ told[j.pay]["transfer"] = 0
ClaimsOK == \A s \in Slot : ClaimOK(s)
Alone ==
    \A s, r \in Slot : s # r =>
        /\ Claimed(s) /\ Claimed(r) => job[s].target # job[r].target
        /\ Telling(s) /\ Telling(r) => job[s].pay # job[r].pay
Untold ==
    /\ \A p \in Payment, d \in Debt : paid[d] = "open" => told[p][d] = 0
    /\ \A p \in Payment : row[p] = "none" => told[p]["transfer"] = 0

RowsAreMined == \A p \in Payment : row[p] # "none" => p \in mined
FeesDue ==
    \A p \in Payment :
        At(p, "fee") => p \in mined /\ (flow[p].target \notin Request => row[p] # "none")

Tellings == ClaimsOK /\ Alone /\ Untold /\ ToldOnce

PaymentsInv ==
    /\ Types /\ Used /\ JobsOK /\ PaidIsBacked /\ SettledWhenPaid /\ Tellings
    /\ RowsAreMined /\ FeesDue /\ FeeFollowsPayment

-----------------------------------------------------------------------------
(* Types *)

LEMMA SomePayer ==
    ASSUME PaymentsAssumption
    PROVE  (CHOOSE u \in Payer : TRUE) \in Payer
BY DEF PaymentsAssumption

LEMMA TypesInit ==
    ASSUME PaymentsAssumption, Init
    PROVE  Types
<1>1. Unused \in Flows /\ Idle \in Jobs
  BY SomePayer, PaymentsAssumption DEF Unused, Idle, Flows, Jobs, Target, PaymentsAssumption
<1>2. unread \in BOOLEAN
  BY DEF Init
<1>3. QED
  BY <1>1, <1>2, PaymentsAssumption DEF Init, Types, PaymentsAssumption

\* The moves of a device and of a handler that change nothing but where it is.
LEMMA GotoTypes ==
    ASSUME flow \in [Payment -> Flows], NEW p,
           NEW at \in {"unused", "checked", "sent", "post", "filing", "fee", "attach", "done", "failed"},
           Goto(p, at)
    PROVE  flow' \in [Payment -> Flows]
BY DEF Goto, Flows

LEMMA StepTypes ==
    ASSUME job \in [Slot -> Jobs], NEW s \in Slot,
           NEW at \in {"idle", "claim", "record", "remaining", "settle", "tell"}, Step(s, at)
    PROVE  job' \in [Slot -> Jobs]
BY DEF Step, Jobs

\* An answer sends the device that waits for it on, to its fee or to its end.
LEMMA ReplyMoves ==
    ASSUME NEW s \in Slot, NEW ok \in BOOLEAN, Reply(s, ok)
    PROVE  /\ Step(s, "idle")
           /\ \/ ~job[s].own /\ UNCHANGED flow
              \/ job[s].own /\ Goto(job[s].pay, "done")
              \/ job[s].own /\ ok /\ job[s].target \notin Request /\ Goto(job[s].pay, "fee")
<1>1. CASE ok /\ job[s].target \notin Request
  BY <1>1 DEF Reply
<1>2. CASE ~(ok /\ job[s].target \notin Request)
  BY <1>2 DEF Reply
<1>3. QED
  BY <1>1, <1>2

LEMMA ReplyTypes ==
    ASSUME flow \in [Payment -> Flows], job \in [Slot -> Jobs], NEW s \in Slot, NEW ok \in BOOLEAN,
           Reply(s, ok)
    PROVE  flow' \in [Payment -> Flows] /\ job' \in [Slot -> Jobs]
<1>1. job' \in [Slot -> Jobs]
  <2>1. Step(s, "idle")
    BY DEF Reply
  <2>2. QED
    BY <2>1, StepTypes
<1>2. flow' \in [Payment -> Flows]
  <2>1. CASE UNCHANGED flow
    BY <2>1
  <2>2. CASE Goto(job[s].pay, "done")
    BY <2>2 DEF Goto, Flows
  <2>3. CASE Goto(job[s].pay, "fee")
    BY <2>3 DEF Goto, Flows
  <2>4. QED
    BY <2>1, <2>2, <2>3, ReplyMoves
<1>3. QED
  BY <1>1, <1>2

LEMMA BeginTypes ==
    ASSUME job \in [Slot -> Jobs], NEW s \in Slot, NEW u \in Payer, NEW p \in Payment,
           NEW t \in Target, NEW own \in BOOLEAN, Begin(s, u, p, t, own)
    PROVE  job' \in [Slot -> Jobs]
BY DEF Begin, Jobs

LEMMA AskedTypes ==
    ASSUME PaymentsAssumption, owed \in Owes, NEW t \in Target, NEW a \in Asked(t)
    PROVE  a \in 0 .. MaxAmount
<1>1. owed \in [Debt -> 0 .. MaxAmount]
  BY PaymentsAssumption DEF PaymentsAssumption
<1>2. CASE t = "transfer" \/ (t \in Request /\ owed[t] = 0)
  BY <1>2, PaymentsAssumption DEF Asked, PaymentsAssumption
<1>3. CASE ~(t = "transfer" \/ (t \in Request /\ owed[t] = 0))
  BY <1>1, <1>3 DEF Asked, Target
<1>4. QED
  BY <1>2, <1>3

LEMMA TypesStep ==
    ASSUME PaymentsAssumption, Types, JobsOK, [Next]_vars
    PROVE  Types'
<1> USE DEF chain, books, bounds
<1>1. ASSUME NEW s \in Slot, NEW u \in Payer, NEW p \in Payment, NEW t \in Target,
             PostAgain(s, u, p, t)
      PROVE  Types'
  <2>1. job' \in [Slot -> Jobs]
    BY <1>1, BeginTypes DEF PostAgain, Types
  <2>2. QED
    BY <1>1, <2>1, PaymentsAssumption DEF PostAgain, Types, PaymentsAssumption
<1>2. ASSUME NEW s \in Slot, NEW t \in Share, MarkExternal(s, t)
      PROVE  Types'
  <2>1. job' \in [Slot -> Jobs]
    BY <1>2, PaymentsAssumption, SomePayer
       DEF MarkExternal, Types, Jobs, Idle, Target, Debt, PaymentsAssumption
  <2>2. QED
    BY <1>2, <2>1, PaymentsAssumption DEF MarkExternal, Types, PaymentsAssumption
<1>3. ASSUME NEW s \in Slot, NEW p \in Payment, Post(s, p)
      PROVE  Types'
  <2>1. flow[p].by \in Payer /\ flow[p].target \in Target
    BY DEF Types, Flows
  <2>2. flow' \in [Payment -> Flows] /\ job' \in [Slot -> Jobs]
    <3>1. CASE Accepts(flow[p].by, p, flow[p].target)
      <4>1. Begin(s, flow[p].by, p, flow[p].target, TRUE) /\ Goto(p, "filing")
        BY <1>3, <3>1 DEF Post
      <4>2. flow' \in [Payment -> Flows]
        BY <4>1, GotoTypes DEF Types
      <4>3. job' \in [Slot -> Jobs]
        BY <2>1, <4>1, BeginTypes DEF Types
      <4>4. QED
        BY <4>2, <4>3
    <3>2. CASE ~Accepts(flow[p].by, p, flow[p].target)
      <4>1. Goto(p, "done") /\ UNCHANGED job
        BY <1>3, <3>2 DEF Post
      <4>2. QED
        BY <4>1, GotoTypes DEF Types
    <3>3. QED
      BY <3>1, <3>2
  <2>3. QED
    BY <1>3, <2>2 DEF Post, Types
<1>4. ASSUME NEW p \in Payment, NEW u \in Payer, NEW t \in Target, NEW a \in Asked(t),
             CheckBalance(p, u, t, a)
      PROVE  Types'
  <2>1. a \in 0 .. MaxAmount
    BY AskedTypes DEF Types
  <2>2. [at |-> "checked", by |-> u, target |-> t, amount |-> a] \in Flows
    BY <2>1 DEF Flows
  <2>3. flow' \in [Payment -> Flows] /\ overlapped' \subseteq Payer
    BY <1>4, <2>2 DEF CheckBalance, Types
  <2>4. QED
    BY <1>4, <2>3 DEF CheckBalance, Types
<1>5. ASSUME NEW p \in Payment, Mine(p)
      PROVE  Types'
  <2>1. flow[p].by \in Payer /\ flow[p].amount \in Nat
    BY DEF Types, Flows
  <2>2. CASE Covers(flow[p].by, flow[p].amount)
    <3>1. /\ funds' = [funds EXCEPT ![flow[p].by] = @ - flow[p].amount]
          /\ mined' = mined \cup {p}
      BY <1>5, <2>2 DEF Mine
    <3>2. funds' \in [Payer -> 0 .. Holds]
      BY <2>1, <2>2, <3>1, PaymentsAssumption DEF Covers, Types, PaymentsAssumption
    <3>3. flow' \in [Payment -> Flows]
      <4>1. Goto(p, "fee") \/ Goto(p, "post")
        BY <1>5, <2>2 DEF Mine
      <4>2. QED
        BY <4>1, GotoTypes DEF Types
    <3>4. QED
      BY <1>5, <3>1, <3>2, <3>3 DEF Mine, Types
  <2>3. CASE ~Covers(flow[p].by, flow[p].amount)
    <3>1. Goto(p, "failed") /\ UNCHANGED <<funds, mined>>
      BY <1>5, <2>3 DEF Mine
    <3>2. flow' \in [Payment -> Flows]
      BY <3>1, GotoTypes DEF Types
    <3>3. QED
      BY <1>5, <3>1, <3>2 DEF Mine, Types
  <2>4. QED
    BY <2>2, <2>3
<1>6. ASSUME NEW p \in Payment, ChargeFee(p)
      PROVE  Types'
  <2>1. flow' \in [Payment -> Flows]
    <3>1. Goto(p, "post") \/ Goto(p, "attach") \/ Goto(p, "done")
      BY <1>6 DEF ChargeFee
    <3>2. QED
      BY <3>1, GotoTypes DEF Types
  <2>2. fees' \in [Payment -> {"none", "sent", "paid", "bounced"}] /\ faults' \in 0 .. MaxFaults
    BY <1>6, PaymentsAssumption DEF ChargeFee, Fault, Types, PaymentsAssumption
  <2>3. QED
    BY <1>6, <2>1, <2>2 DEF ChargeFee, Types
<1>7. ASSUME NEW p \in Payment, MineFee(p)
      PROVE  Types'
  <2>1. flow[p].by \in Payer
    BY DEF Types, Flows
  <2>2. fees' \in [Payment -> {"none", "sent", "paid", "bounced"}]
    BY <1>7 DEF MineFee, Types
  <2>3. funds' \in [Payer -> 0 .. Holds]
    <3>1. CASE Covers(flow[p].by, Fee)
      <4>1. funds' = [funds EXCEPT ![flow[p].by] = @ - 1] /\ funds[flow[p].by] >= 1
        BY <1>7, <3>1 DEF MineFee, Covers, Fee
      <4>2. QED
        BY <2>1, <4>1, PaymentsAssumption DEF Types, PaymentsAssumption
    <3>2. CASE ~Covers(flow[p].by, Fee)
      BY <1>7, <3>2 DEF MineFee, Types
    <3>3. QED
      BY <3>1, <3>2
  <2>4. QED
    BY <1>7, <2>2, <2>3 DEF MineFee, Types
<1>8. ASSUME NEW p \in Payment, AttachFee(p) \/ Send(p) \/ LosePost(p)
      PROVE  Types'
  <2>1. flow' \in [Payment -> Flows]
    <3>1. Goto(p, "sent") \/ Goto(p, "done")
      BY <1>8 DEF AttachFee, Send, LosePost
    <3>2. QED
      BY <3>1, GotoTypes DEF Types
  <2>2. row' \in [Payment -> {"none", "bare", "traced"}] /\ faults' \in 0 .. MaxFaults
    BY <1>8, PaymentsAssumption DEF AttachFee, Send, LosePost, Fault, Types, PaymentsAssumption
  <2>3. QED
    BY <1>8, <2>1, <2>2 DEF AttachFee, Send, LosePost, Types
<1>9. CASE InsertBill \/ InsertShares \/ UNCHANGED vars
  BY <1>9, PaymentsAssumption DEF InsertBill, InsertShares, Fault, vars, Types, PaymentsAssumption
<1>10. ASSUME NEW s \in Slot, Claim(s)
       PROVE  Types'
  <2>1. job[s] \in Jobs
    BY DEF Types
  <2>2. CASE StillOpen(job[s].target)
    <3>1. paid' \in [Debt -> {"open", "external"} \cup Payment]
      BY <1>10, <2>1, <2>2 DEF Claim, External, Types, Jobs
    <3>2. job' \in [Slot -> Jobs] /\ UNCHANGED flow
      <4>1. CASE External(s)
        BY <1>10, <2>2, <4>1, StepTypes DEF Claim, Types
      <4>2. CASE ~External(s)
        BY <1>10, <2>2, <4>2, StepTypes DEF Claim, Types
      <4>3. QED
        BY <4>1, <4>2
    <3>3. QED
      BY <1>10, <3>1, <3>2 DEF Claim, Types
  <2>3. CASE ~StillOpen(job[s].target)
    <3>1. Reply(s, FALSE) /\ UNCHANGED paid
      BY <1>10, <2>3 DEF Claim
    <3>2. QED
      BY <1>10, <3>1, ReplyTypes DEF Claim, Types
  <2>4. QED
    BY <2>2, <2>3
<1>11. ASSUME NEW s \in Slot, Record(s)
       PROVE  Types'
  <2>1. \/ Reply(s, TRUE) \/ Reply(s, FALSE)
        \/ (Step(s, "remaining") \/ Step(s, "tell")) /\ UNCHANGED flow
    BY <1>11 DEF Record
  <2>2. flow' \in [Payment -> Flows] /\ job' \in [Slot -> Jobs]
    BY <2>1, ReplyTypes, StepTypes DEF Types
  <2>3. row' \in [Payment -> {"none", "bare", "traced"}]
    BY <1>11 DEF Record, Types
  <2>4. faults' \in 0 .. MaxFaults
    <3>1. UNCHANGED faults \/ Fault
      BY <1>11 DEF Record
    <3>2. QED
      BY <3>1, PaymentsAssumption DEF Fault, Types, PaymentsAssumption
  <2>5. QED
    BY <1>11, <2>2, <2>3, <2>4 DEF Record, Types
<1>12. ASSUME NEW s \in Slot, ReadRemaining(s) \/ Settle(s)
       PROVE  Types'
  <2>1. \/ Reply(s, TRUE)
        \/ (Step(s, "settle") \/ Step(s, "tell")) /\ UNCHANGED flow
    BY <1>12 DEF ReadRemaining, Settle
  <2>2. flow' \in [Payment -> Flows] /\ job' \in [Slot -> Jobs]
    BY <2>1, ReplyTypes, StepTypes DEF Types
  <2>3. bill' \in {"none", "bare", "open", "settled"}
    BY <1>12 DEF ReadRemaining, Settle, Types
  <2>4. unread' \in BOOLEAN
    BY <1>12, Zenon DEF ReadRemaining, Settle, Types
  <2>5. faults' \in 0 .. MaxFaults
    <3>1. UNCHANGED faults \/ Fault
      BY <1>12 DEF ReadRemaining, Settle
    <3>2. QED
      BY <3>1, PaymentsAssumption DEF Fault, Types, PaymentsAssumption
  <2>6. QED
    BY <1>12, <2>2, <2>3, <2>4, <2>5 DEF ReadRemaining, Settle, Types
<1>13. ASSUME NEW s \in Slot, Tell(s)
       PROVE  Types'
  <2>1. Reply(s, TRUE)
    BY <1>13 DEF Tell
  <2>2. flow' \in [Payment -> Flows] /\ job' \in [Slot -> Jobs]
    BY <2>1, ReplyTypes DEF Types
  <2>3. job[s].pay \in Payment /\ job[s].target \in Target
    BY <1>13 DEF Tell, Types, Jobs, JobsOK, JobOK
  <2>4. told' \in [Payment -> [Target -> Nat]]
    BY <1>13, <2>3 DEF Tell, Types
  <2>5. QED
    BY <1>13, <2>2, <2>4 DEF Tell, Types
<1>14. ASSUME NEW s \in Slot, Crash(s)
       PROVE  Types'
  <2>1. flow' \in [Payment -> Flows] /\ job' \in [Slot -> Jobs]
    BY <1>14, ReplyTypes DEF Crash, Types
  <2>2. QED
    BY <1>14, <2>1, PaymentsAssumption DEF Crash, Fault, Types, PaymentsAssumption
<1>15. QED
  BY <1>1, <1>2, <1>3, <1>4, <1>5, <1>6, <1>7, <1>8, <1>9, <1>10, <1>11, <1>12, <1>13, <1>14
     DEF Next, Device, Handle

-----------------------------------------------------------------------------
(* What no step undoes *)

\* A payment that was started stays what it was.
FlowKept ==
    \A p \in Payment : flow[p].at # "unused" =>
        /\ flow'[p].at # "unused" /\ flow'[p].by = flow[p].by
        /\ flow'[p].target = flow[p].target /\ flow'[p].amount = flow[p].amount

\* Nor does a debt change its amount, a payment leave the chain, a row go, or a failed read not have been.
Kept ==
    /\ FlowKept
    /\ owed' = owed
    /\ mined \subseteq mined'
    /\ \A p \in Payment : row[p] # "none" => row'[p] # "none"
    /\ unread => unread'

PaidStays == \A d \in Debt : paid[d] # "open" => paid'[d] = paid[d]

LEMMA GotoKeeps ==
    ASSUME flow \in [Payment -> Flows], NEW p, NEW at, at # "unused", Goto(p, at)
    PROVE  FlowKept
BY DEF Goto, FlowKept, Flows

LEMMA ReplyKeeps ==
    ASSUME flow \in [Payment -> Flows], NEW s \in Slot, NEW ok \in BOOLEAN, Reply(s, ok)
    PROVE  FlowKept
<1>1. CASE UNCHANGED flow
  BY <1>1 DEF FlowKept
<1>2. CASE Goto(job[s].pay, "done") \/ Goto(job[s].pay, "fee")
  BY <1>2, GotoKeeps
<1>3. QED
  BY <1>1, <1>2, ReplyMoves

LEMMA StepKeeps ==
    ASSUME PaymentsAssumption, Types, [Next]_vars
    PROVE  Kept /\ PaidStays
<1> USE DEF chain, books, bounds
<1>1. FlowKept
  <2>1. ASSUME NEW p \in Payment, NEW u \in Payer, NEW t \in Target, NEW a \in Asked(t),
               CheckBalance(p, u, t, a)
        PROVE  FlowKept
    BY <2>1 DEF CheckBalance, At, FlowKept, Types
  <2>2. ASSUME NEW p \in Payment, NEW s \in Slot, Post(s, p)
        PROVE  FlowKept
    <3>1. Goto(p, "filing") \/ Goto(p, "done")
      BY <2>2 DEF Post
    <3>2. QED
      BY <3>1, GotoKeeps DEF Types
  <2>3. ASSUME NEW p \in Payment, Mine(p) \/ ChargeFee(p) \/ AttachFee(p) \/ Send(p) \/ LosePost(p)
        PROVE  FlowKept
    <3>1. \/ Goto(p, "fee") \/ Goto(p, "post") \/ Goto(p, "failed") \/ Goto(p, "attach")
          \/ Goto(p, "done") \/ Goto(p, "sent")
      BY <2>3 DEF Mine, ChargeFee, AttachFee, Send, LosePost
    <3>2. QED
      BY <3>1, GotoKeeps DEF Types
  <2>4. ASSUME NEW s \in Slot, Handle(s) \/ Crash(s)
        PROVE  FlowKept
    <3>1. UNCHANGED flow \/ Reply(s, TRUE) \/ Reply(s, FALSE)
      BY <2>4 DEF Handle, Crash, Claim, Record, ReadRemaining, Settle, Tell
    <3>2. CASE UNCHANGED flow
      BY <3>2 DEF FlowKept
    <3>3. QED
      BY <3>1, <3>2, ReplyKeeps DEF Types
  <2>5. CASE UNCHANGED flow
    BY <2>5 DEF FlowKept
  <2>6. QED
    BY <2>1, <2>2, <2>3, <2>4, <2>5
       DEF Next, Device, InsertBill, InsertShares, MineFee, PostAgain, MarkExternal, vars
<1>2. owed' = owed /\ mined \subseteq mined'
  BY DEF Next, Device, Handle, InsertBill, InsertShares, CheckBalance, Send, Mine, ChargeFee, MineFee,
         AttachFee, Post, PostAgain, MarkExternal, LosePost, Claim, Record, ReadRemaining, Settle,
         Tell, Crash, vars
<1>3. \A p \in Payment : row[p] # "none" => row'[p] # "none"
  <2>1. ASSUME NEW o \in Payment, AttachFee(o)
        PROVE  \A p \in Payment : row[p] # "none" => row'[p] # "none"
    BY <2>1 DEF AttachFee, Types
  <2>2. ASSUME NEW s \in Slot, Record(s)
        PROVE  \A p \in Payment : row[p] # "none" => row'[p] # "none"
    BY <2>2 DEF Record, Types
  <2>3. QED
    BY <2>1, <2>2
       DEF Next, Device, Handle, InsertBill, InsertShares, CheckBalance, Send, Mine, ChargeFee,
           MineFee, Post, PostAgain, MarkExternal, LosePost, Claim, ReadRemaining, Settle, Tell,
           Crash, vars
<1>4. PaidStays
  <2>1. ASSUME NEW s \in Slot, Claim(s)
        PROVE  PaidStays
    BY <2>1 DEF Claim, StillOpen, PaidStays, Types
  <2>2. CASE UNCHANGED paid
    BY <2>2 DEF PaidStays
  <2>3. QED
    BY <2>1, <2>2
       DEF Next, Device, Handle, InsertBill, InsertShares, CheckBalance, Send, Mine, ChargeFee,
           MineFee, AttachFee, Post, PostAgain, MarkExternal, LosePost, Record, ReadRemaining,
           Settle, Tell, Crash, vars
<1>5. unread => unread'
  <2>1. unread' = unread \/ unread' = TRUE
    BY Zenon DEF Next, Device, Handle, InsertBill, InsertShares, CheckBalance, Send, Mine, ChargeFee,
         MineFee, AttachFee, Post, PostAgain, MarkExternal, LosePost, Claim, Record, ReadRemaining,
         Settle, Tell, Crash, vars
  <2>2. QED
    BY <2>1
<1>6. QED
  BY <1>1, <1>2, <1>3, <1>4, <1>5 DEF Kept

LEMMA UsedStep ==
    ASSUME Types, Used, Kept, [Next]_vars
    PROVE  Used'
<1> USE DEF chain
<1>1. ASSUME NEW o \in Payment, Mine(o)
      PROVE  Used'
  <2>1. CASE Covers(flow[o].by, flow[o].amount)
    <3>1. mined' = mined \cup {o} /\ (Goto(o, "fee") \/ Goto(o, "post"))
      BY <1>1, <2>1 DEF Mine
    <3>2. flow'[o].at # "unused"
      BY <3>1 DEF Goto, Types, Flows
    <3>3. QED
      BY <3>1, <3>2 DEF Used, Kept, FlowKept, Types
  <2>2. CASE ~Covers(flow[o].by, flow[o].amount)
    BY <1>1, <2>2 DEF Mine, Used, Kept, FlowKept, Types
  <2>3. QED
    BY <2>1, <2>2
<1>2. CASE mined' = mined
  BY <1>2 DEF Used, Kept, FlowKept, Types
<1>3. QED
  BY <1>1, <1>2
     DEF Next, Device, Handle, InsertBill, InsertShares, CheckBalance, Send, ChargeFee, MineFee,
         AttachFee, Post, PostAgain, MarkExternal, LosePost, Claim, Record, ReadRemaining, Settle,
         Tell, Crash, vars

-----------------------------------------------------------------------------
(* The handlers keep to what they found out *)

LEMMA ProofStays ==
    ASSUME Types, Used, Kept, NEW u, NEW p \in Payment, NEW t, ReceiptProves(u, p, t)
    PROVE  ReceiptProves(u, p, t)'
BY DEF Types, Used, Kept, FlowKept, ReceiptProves

LEMMA JobWaits ==
    ASSUME Types, Used, Kept, PaidStays, NEW r \in Slot, JobOK(r), job'[r] = job[r]
    PROVE  JobOK(r)'
<1>1. job[r].pay # "none" => job[r].pay \in Payment
  BY DEF Types, Jobs
<1>2. job[r].at # "idle" /\ job[r].pay # "none" => ReceiptProves(job[r].user, job[r].pay, job[r].target)'
  BY <1>1, ProofStays DEF JobOK
<1>3. job[r].at # "idle" /\ job[r].pay # "none" /\ job[r].own => flow'[job[r].pay].target = job[r].target
  BY <1>1 DEF JobOK, ReceiptProves, Used, Kept, FlowKept
<1>4. job[r].at = "settle" => unread' \/ AllPaid'
  <2>1. AllPaid => AllPaid'
    BY DEF AllPaid, PaidStays, Debt
  <2>2. QED
    BY <2>1, Zenon DEF JobOK, Kept
<1>5. job[r].at \in {"remaining", "settle", "tell"} /\ job[r].pay # "none" => row'[job[r].pay] # "none"
  BY <1>1 DEF JobOK, Kept
<1>6. QED
  BY <1>2, <1>3, <1>4, <1>5 DEF JobOK

\* A handler that takes its next step, when it may.
MayStep(s, at) ==
    /\ at \in {"idle", "record", "remaining", "settle", "tell"}
    /\ at # "idle" => job[s].at # "idle"
    /\ at \in {"record", "tell"} => job[s].pay # "none"
    /\ at \in {"remaining", "settle"} => job[s].target \in Share
    /\ at \in {"remaining", "settle", "tell"} /\ job[s].pay # "none" => row'[job[s].pay] # "none"
    /\ at = "settle" => unread' \/ AllPaid'

LEMMA JobSteps ==
    ASSUME Types, Used, JobsOK, Kept, PaidStays, NEW s \in Slot, NEW at, Step(s, at), MayStep(s, at)
    PROVE  JobsOK'
<1>1. \A r \in Slot : r # s => job'[r] = job[r]
  BY DEF Step, Types
<1>2. job'[s] = [job[s] EXCEPT !.at = at]
  BY DEF Step, Types
<1>3. job[s] \in Jobs /\ JobOK(s)
  BY DEF Types, JobsOK
<1>4. JobOK(s)'
  <2>1. /\ job'[s].at = at /\ job'[s].user = job[s].user /\ job'[s].target = job[s].target
        /\ job'[s].pay = job[s].pay /\ job'[s].own = job[s].own
    BY <1>2, <1>3 DEF Jobs
  <2>2. at # "idle" /\ job[s].pay # "none" =>
            /\ ReceiptProves(job[s].user, job[s].pay, job[s].target)'
            /\ job[s].own => flow'[job[s].pay].target = job[s].target
    <3>1. HAVE at # "idle" /\ job[s].pay # "none"
    <3>2. job[s].pay \in Payment
      BY <1>3, <3>1 DEF Jobs
    <3>3. /\ ReceiptProves(job[s].user, job[s].pay, job[s].target)
          /\ job[s].own => flow[job[s].pay].target = job[s].target
      BY <1>3, <3>1 DEF JobOK, MayStep
    <3>4. ReceiptProves(job[s].user, job[s].pay, job[s].target)'
      BY <2>1, <3>2, <3>3 DEF ReceiptProves, Used, Kept, FlowKept, Types
    <3>5. flow'[job[s].pay].target = flow[job[s].pay].target
      BY <3>2, <3>3 DEF ReceiptProves, Used, Kept, FlowKept
    <3>6. QED
      BY <3>3, <3>4, <3>5
  <2>3. QED
    BY <1>3, <2>1, <2>2 DEF JobOK, MayStep
<1>5. QED
  BY <1>1, <1>4, JobWaits DEF JobsOK

LEMMA JobBegins ==
    ASSUME Types, Used, JobsOK, Kept, PaidStays, NEW s \in Slot, NEW u \in Payer, NEW p \in Payment,
           NEW t \in Target, NEW own \in BOOLEAN, PaymentsAssumption,
           Begin(s, u, p, t, own), Accepts(u, p, t), own => flow[p].target = t
    PROVE  JobsOK'
<1>1. \A r \in Slot : r # s => job'[r] = job[r]
  BY DEF Begin, Types
<1>2. job'[s] = [at |-> IF t = "transfer" THEN "record" ELSE "claim",
                 user |-> u, target |-> t, pay |-> p, own |-> own]
  BY DEF Begin, Types
<1>3. p # "none"
  BY DEF PaymentsAssumption
<1>4. ReceiptProves(u, p, t)' /\ (own => flow'[p].target = t)
  BY ProofStays DEF Accepts, ReceiptProves, Used, Kept, FlowKept
<1>5. JobOK(s)'
  BY <1>2, <1>3, <1>4 DEF JobOK, Accepts, Target
<1>6. QED
  BY <1>1, <1>5, JobWaits DEF JobsOK

\* A handler that has recorded leaves a row, or answers that it could not.
LEMMA RecordWrites ==
    ASSUME Types, NEW s \in Slot, Record(s), job[s].pay \in Payment
    PROVE  row'[job[s].pay] # "none" \/ Reply(s, FALSE)
<1> DEFINE hash == IF job[s].own /\ job[s].target \in Request /\ fees[job[s].pay] # "none"
                   THEN "traced" ELSE "bare"
<1>1. hash # "none"
  OBVIOUS
<1>2. Reply(s, FALSE) \/ row' = [row EXCEPT ![job[s].pay] = IF @ = "none" THEN hash ELSE @]
  BY DEF Record
<1> HIDE DEF hash
<1>3. CASE row' = [row EXCEPT ![job[s].pay] = IF @ = "none" THEN hash ELSE @]
  <2>1. row'[job[s].pay] = IF row[job[s].pay] = "none" THEN hash ELSE row[job[s].pay]
    BY <1>3 DEF Types
  <2>2. QED
    BY <1>1, <2>1
<1>4. QED
  BY <1>2, <1>3

LEMMA JobsStep ==
    ASSUME PaymentsAssumption, Types, Used, JobsOK, Kept, PaidStays, [Next]_vars
    PROVE  JobsOK'
<1> USE DEF chain, books, bounds
<1>1. CASE UNCHANGED job
  BY <1>1, JobWaits DEF JobsOK
<1>2. ASSUME NEW s \in Slot, NEW p \in Payment, Post(s, p)
      PROVE  JobsOK'
  <2>1. flow[p].by \in Payer /\ flow[p].target \in Target
    BY DEF Types, Flows
  <2>2. CASE Accepts(flow[p].by, p, flow[p].target)
    <3>1. Begin(s, flow[p].by, p, flow[p].target, TRUE)
      BY <1>2, <2>2 DEF Post
    <3>2. QED
      BY <2>1, <2>2, <3>1, JobBegins
  <2>3. CASE ~Accepts(flow[p].by, p, flow[p].target)
    BY <1>1, <1>2, <2>3 DEF Post
  <2>4. QED
    BY <2>2, <2>3
<1>3. ASSUME NEW s \in Slot, NEW u \in Payer, NEW p \in Payment, NEW t \in Target,
             PostAgain(s, u, p, t)
      PROVE  JobsOK'
  BY <1>3, JobBegins DEF PostAgain
<1>4. ASSUME NEW s \in Slot, NEW t \in Share, MarkExternal(s, t)
      PROVE  JobsOK'
  <2>1. \A r \in Slot : r # s => job'[r] = job[r]
    BY <1>4 DEF MarkExternal, Types
  <2>2. job'[s] = [Idle EXCEPT !.at = "claim", !.user = Owner[t], !.target = t]
    BY <1>4 DEF MarkExternal, Types
  <2>3. JobOK(s)'
    BY <2>2 DEF JobOK, Idle, Debt
  <2>4. QED
    BY <2>1, <2>3, JobWaits DEF JobsOK
<1>5. ASSUME NEW s \in Slot, NEW ok \in BOOLEAN, Reply(s, ok)
      PROVE  JobsOK'
  <2>1. Step(s, "idle") /\ MayStep(s, "idle")
    BY <1>5 DEF Reply, MayStep
  <2>2. QED
    BY <2>1, JobSteps
<1>6. ASSUME NEW s \in Slot, Claim(s)
      PROVE  JobsOK'
  <2>1. job[s] \in Jobs /\ JobOK(s) /\ job[s].at = "claim"
    BY <1>6 DEF Claim, Types, JobsOK
  <2>2. CASE ~StillOpen(job[s].target)
    BY <1>5, <1>6, <2>2 DEF Claim
  <2>3. CASE StillOpen(job[s].target) /\ External(s)
    <3>1. Step(s, "remaining") /\ MayStep(s, "remaining")
      BY <1>6, <2>1, <2>3 DEF Claim, External, MayStep, JobOK
    <3>2. QED
      BY <3>1, JobSteps
  <2>4. CASE StillOpen(job[s].target) /\ ~External(s)
    <3>1. Step(s, "record") /\ MayStep(s, "record")
      BY <1>6, <2>1, <2>4 DEF Claim, External, MayStep
    <3>2. QED
      BY <3>1, JobSteps
  <2>5. QED
    BY <2>2, <2>3, <2>4
<1>7. ASSUME NEW s \in Slot, Record(s)
      PROVE  JobsOK'
  <2>1. job[s] \in Jobs /\ JobOK(s) /\ job[s].at = "record"
    BY <1>7 DEF Record, Types, JobsOK
  <2>2. job[s].pay \in Payment /\ job[s].pay # "none"
    BY <2>1 DEF JobOK, Jobs
  <2>3. \/ Reply(s, TRUE) \/ Reply(s, FALSE)
        \/ /\ row' = [row EXCEPT ![job[s].pay] = IF @ = "none"
                      THEN IF job[s].own /\ job[s].target \in Request /\ fees[job[s].pay] # "none"
                           THEN "traced" ELSE "bare"
                      ELSE @]
           /\ \/ job[s].target \in Share /\ Step(s, "remaining")
              \/ Step(s, "tell")
    BY <1>7 DEF Record
  <2>4. CASE row'[job[s].pay] # "none" /\ job[s].target \in Share /\ Step(s, "remaining")
    BY <2>1, <2>2, <2>4, JobSteps DEF MayStep
  <2>5. CASE row'[job[s].pay] # "none" /\ Step(s, "tell")
    BY <2>1, <2>2, <2>5, JobSteps DEF MayStep
  <2>6. Reply(s, FALSE) \/ row'[job[s].pay] # "none"
    BY <1>7, <2>2, RecordWrites
  <2>7. QED
    BY <1>5, <2>3, <2>4, <2>5, <2>6
<1>8. ASSUME NEW s \in Slot, ReadRemaining(s)
      PROVE  JobsOK'
  <2>1. JobOK(s) /\ job[s].at = "remaining"
    BY <1>8 DEF ReadRemaining, JobsOK
  <2>2. row' = row /\ (AllPaid => AllPaid')
    BY <1>8 DEF ReadRemaining, AllPaid
  <2>3. \/ Reply(s, TRUE)
        \/ (unread' \/ AllPaid) /\ Step(s, "settle")
        \/ ~External(s) /\ Step(s, "tell")
    BY <1>8 DEF ReadRemaining
  <2>4. CASE (unread' \/ AllPaid) /\ Step(s, "settle")
    BY <2>1, <2>2, <2>4, JobSteps DEF MayStep, JobOK
  <2>5. CASE ~External(s) /\ Step(s, "tell")
    BY <2>1, <2>2, <2>5, JobSteps DEF MayStep, JobOK, External
  <2>6. QED
    BY <1>5, <2>3, <2>4, <2>5
<1>9. ASSUME NEW s \in Slot, Settle(s)
      PROVE  JobsOK'
  <2>1. JobOK(s) /\ job[s].at = "settle" /\ row' = row
    BY <1>9 DEF Settle, JobsOK
  <2>2. Reply(s, TRUE) \/ (~External(s) /\ Step(s, "tell"))
    BY <1>9 DEF Settle
  <2>3. CASE ~External(s) /\ Step(s, "tell")
    BY <2>1, <2>3, JobSteps DEF MayStep, JobOK, External
  <2>4. QED
    BY <1>5, <2>2, <2>3
<1>10. QED
  BY <1>1, <1>2, <1>3, <1>4, <1>5, <1>6, <1>7, <1>8, <1>9
     DEF Next, Device, Handle, InsertBill, InsertShares, CheckBalance, Send, Mine, ChargeFee,
         MineFee, AttachFee, LosePost, Tell, Crash, vars

-----------------------------------------------------------------------------
(* What is paid, settled and charged *)

LEMMA BackedStep ==
    ASSUME PaymentsAssumption, Types, Used, JobsOK, PaidIsBacked, Kept, [Next]_vars
    PROVE  PaidIsBacked'
<1> USE DEF books
<1>1. ASSUME NEW d \in Debt, paid[d] \in Payment
      PROVE  /\ paid[d] \in mined' /\ flow'[paid[d]].amount >= owed'[d]
             /\ d \in Share => flow'[paid[d]].by = Owner[d]
  BY <1>1 DEF PaidIsBacked, Kept, FlowKept, Used
<1>2. ASSUME NEW s \in Slot, Claim(s)
      PROVE  PaidIsBacked'
  <2>1. job[s] \in Jobs /\ JobOK(s) /\ job[s].at = "claim"
    BY <1>2 DEF Claim, Types, JobsOK
  <2>2. CASE StillOpen(job[s].target) /\ ~External(s)
    <3>1. paid' = [paid EXCEPT ![job[s].target] = job[s].pay]
      BY <1>2, <2>2 DEF Claim
    <3>2. job[s].pay \in Payment
      BY <2>1, <2>2 DEF External, Jobs
    <3>3. /\ job[s].pay \in mined /\ flow[job[s].pay].by = job[s].user
          /\ flow[job[s].pay].amount >= owed[job[s].target]
          /\ job[s].target \in Share => flow[job[s].pay].by = Owner[job[s].target]
      BY <2>1, <2>2 DEF JobOK, ReceiptProves, External
    <3>4. ASSUME NEW d \in Debt, paid'[d] \in Payment
          PROVE  /\ paid'[d] \in mined' /\ flow'[paid'[d]].amount >= owed'[d]
                 /\ d \in Share => flow'[paid'[d]].by = Owner[d]
      <4>1. CASE d = job[s].target
        BY <3>1, <3>2, <3>3, <4>1 DEF Types, Kept, FlowKept, Used
      <4>2. CASE d # job[s].target
        BY <1>1, <3>1, <3>4, <4>2 DEF Types
      <4>3. QED
        BY <4>1, <4>2
    <3>5. QED
      BY <3>4 DEF PaidIsBacked
  <2>3. CASE StillOpen(job[s].target) /\ External(s)
    <3>1. paid' = [paid EXCEPT ![job[s].target] = "external"]
      BY <1>2, <2>3 DEF Claim
    <3>2. ASSUME NEW d \in Debt, paid'[d] \in Payment
          PROVE  paid'[d] = paid[d]
      BY <3>1, <3>2, PaymentsAssumption DEF Types, PaymentsAssumption
    <3>3. QED
      BY <1>1, <3>2 DEF PaidIsBacked
  <2>4. CASE ~StillOpen(job[s].target)
    BY <1>1, <1>2, <2>4 DEF Claim, PaidIsBacked
  <2>5. QED
    BY <2>2, <2>3, <2>4
<1>3. CASE UNCHANGED paid
  BY <1>1, <1>3 DEF PaidIsBacked
<1>4. QED
  BY <1>2, <1>3
     DEF Next, Device, Handle, InsertBill, InsertShares, CheckBalance, Send, Mine, ChargeFee,
         MineFee, AttachFee, Post, PostAgain, MarkExternal, LosePost, Record, ReadRemaining,
         Settle, Tell, Crash, vars

LEMMA SettledStep ==
    ASSUME JobsOK, SettledWhenPaid, Kept, PaidStays, [Next]_vars
    PROVE  SettledWhenPaid'
<1> USE DEF books
<1>1. ASSUME NEW s \in Slot, Settle(s)
      PROVE  SettledWhenPaid'
  <2>1. UNCHANGED <<paid, unread>> /\ (unread \/ AllPaid)
    BY <1>1, Zenon DEF Settle, JobsOK, JobOK
  <2>2. QED
    BY <2>1 DEF AllPaid, SettledWhenPaid
<1>2. CASE InsertBill \/ InsertShares
  BY <1>2 DEF InsertBill, InsertShares, SettledWhenPaid
<1>3. CASE UNCHANGED bill
  BY <1>3 DEF SettledWhenPaid, Kept, PaidStays, Debt
<1>4. QED
  BY <1>1, <1>2, <1>3
     DEF Next, Device, Handle, CheckBalance, Send, Mine, ChargeFee, MineFee, AttachFee, Post,
         PostAgain, MarkExternal, LosePost, Claim, Record, ReadRemaining, Tell, Crash, vars

\* A row is written for a payment on chain, and the fee of one that has its row or needs none.
LEMMA RowsStep ==
    ASSUME Types, JobsOK, RowsAreMined, FeesDue, FeeFollowsPayment, Kept, [Next]_vars
    PROVE  RowsAreMined'
<1> USE DEF books
<1>1. ASSUME NEW s \in Slot, Record(s)
      PROVE  RowsAreMined'
  <2>1. job[s].pay \in mined
    BY <1>1 DEF Record, JobsOK, JobOK, ReceiptProves
  <2>2. \A p \in Payment : p # job[s].pay => row'[p] = row[p]
    BY <1>1 DEF Record, Types
  <2>3. QED
    BY <2>1, <2>2 DEF RowsAreMined, Kept
<1>2. ASSUME NEW p \in Payment, AttachFee(p)
      PROVE  RowsAreMined'
  BY <1>2 DEF AttachFee, RowsAreMined, FeeFollowsPayment, Kept, Types
<1>3. CASE UNCHANGED row
  BY <1>3 DEF RowsAreMined, Kept
<1>4. QED
  BY <1>1, <1>2, <1>3
     DEF Next, Device, Handle, InsertBill, InsertShares, CheckBalance, Send, Mine, ChargeFee,
         MineFee, Post, PostAgain, MarkExternal, LosePost, Claim, ReadRemaining, Settle, Tell,
         Crash, vars

\* When no device moves to its fee or to its fee's hash, what is due stays due.
Stays(o) == o \in Payment /\ flow'[o].at \in {"fee", "attach"} => flow'[o] = flow[o]

LEMMA GotoStays ==
    ASSUME flow \in [Payment -> Flows], NEW p, NEW at, at \notin {"fee", "attach"}, Goto(p, at)
    PROVE  \A o \in Payment : Stays(o)
BY DEF Goto, Stays, Flows

LEMMA DueStays ==
    ASSUME Types, FeesDue, Kept, NEW p \in Payment, Stays(p), flow'[p].at = "fee"
    PROVE  p \in mined' /\ (flow'[p].target \notin Request => row'[p] # "none")
BY DEF Stays, FeesDue, Kept, At

\* The answer that sends a device on to its fee follows the row.
LEMMA ReplyDue ==
    ASSUME Types, JobsOK, FeesDue, Kept, NEW s \in Slot, NEW ok \in BOOLEAN, Reply(s, ok),
           job[s].at # "idle",
           ok /\ job[s].own /\ job[s].target \notin Request => row'[job[s].pay] # "none"
    PROVE  FeesDue'
<1>1. CASE UNCHANGED flow
  BY <1>1, DueStays DEF FeesDue, Stays, At
<1>2. CASE Goto(job[s].pay, "done")
  <2>1. \A o \in Payment : Stays(o)
    BY <1>2 DEF Goto, Stays, Types, Flows
  <2>2. QED
    BY <2>1, DueStays DEF FeesDue, At
<1>3. CASE job[s].own /\ ok /\ job[s].target \notin Request /\ Goto(job[s].pay, "fee")
  <2>1. job[s].pay \in Payment
    BY <1>3 DEF JobsOK, JobOK, Types, Jobs
  <2>2. job[s].pay \in mined' /\ row'[job[s].pay] # "none"
    BY <1>3, <2>1 DEF JobsOK, JobOK, ReceiptProves, Kept
  <2>3. \A o \in Payment : o # job[s].pay => flow'[o] = flow[o]
    BY <1>3 DEF Goto, Types
  <2>4. \A o \in Payment : o # job[s].pay => Stays(o)
    BY <2>3 DEF Stays
  <2>5. QED
    BY <2>2, <2>4, DueStays DEF FeesDue, At
<1>4. QED
  BY <1>1, <1>2, <1>3, ReplyMoves

LEMMA DueStep ==
    ASSUME Types, Used, JobsOK, FeesDue, Kept, [Next]_vars
    PROVE  FeesDue'
<1> USE DEF chain, books, bounds
<1>1. ASSUME \A o \in Payment : Stays(o)
      PROVE  FeesDue'
  BY <1>1, DueStays DEF FeesDue, At
<1>2. ASSUME NEW p \in Payment, NEW at, at \notin {"fee", "attach"}, Goto(p, at)
      PROVE  FeesDue'
  BY <1>1, <1>2, GotoStays DEF Types
<1>3. CASE UNCHANGED flow
  BY <1>1, <1>3 DEF Stays
<1>4. ASSUME NEW p \in Payment, NEW u \in Payer, NEW t \in Target, NEW a \in Asked(t),
             CheckBalance(p, u, t, a)
      PROVE  FeesDue'
  BY <1>1, <1>4 DEF CheckBalance, Stays, Types
<1>5. ASSUME NEW p \in Payment, Mine(p)
      PROVE  FeesDue'
  <2>1. CASE Goto(p, "post") \/ Goto(p, "failed")
    BY <1>2, <2>1
  <2>2. CASE Goto(p, "fee") /\ flow[p].target \in Request /\ mined' = mined \cup {p}
    <3>1. \A o \in Payment : o # p => Stays(o)
      BY <2>2 DEF Goto, Stays, Types
    <3>2. flow'[p].target = flow[p].target
      BY <1>5, <2>2 DEF Goto, Types, Flows
    <3>3. QED
      BY <2>2, <3>1, <3>2, DueStays DEF FeesDue, At
  <2>3. QED
    BY <1>5, <2>1, <2>2 DEF Mine
<1>6. ASSUME NEW p \in Payment, ChargeFee(p)
      PROVE  FeesDue'
  <2>1. CASE Goto(p, "attach")
    <3>1. \A o \in Payment : o # p => Stays(o)
      BY <2>1 DEF Goto, Stays, Types
    <3>2. flow'[p].at = "attach"
      BY <2>1 DEF Goto, Types, Flows
    <3>3. QED
      BY <3>1, <3>2, DueStays DEF FeesDue, At
  <2>2. QED
    BY <1>2, <1>6, <2>1 DEF ChargeFee
<1>7. ASSUME NEW p \in Payment, AttachFee(p) \/ Send(p) \/ LosePost(p) \/ \E s \in Slot : Post(s, p)
      PROVE  FeesDue'
  <2>1. Goto(p, "done") \/ Goto(p, "sent") \/ Goto(p, "filing")
    BY <1>7 DEF AttachFee, Send, LosePost, Post
  <2>2. QED
    BY <1>2, <2>1
<1>8. ASSUME NEW s \in Slot, Reply(s, FALSE), job[s].at # "idle"
      PROVE  FeesDue'
  BY <1>8, ReplyDue
<1>9. ASSUME NEW s \in Slot, Record(s)
      PROVE  FeesDue'
  <2>1. \/ Reply(s, TRUE) /\ job[s].target = "transfer" /\ ~FirstRecord(job[s].pay)
        \/ Reply(s, FALSE) \/ UNCHANGED flow
    BY <1>9 DEF Record
  <2>2. CASE Reply(s, TRUE) /\ ~FirstRecord(job[s].pay)
    <3>1. job[s].at = "record" /\ job[s].pay \in Payment
      BY <1>9 DEF Record, JobsOK, JobOK, Types, Jobs
    <3>2. row'[job[s].pay] # "none"
      BY <2>2, <3>1 DEF FirstRecord, Kept
    <3>3. QED
      BY <2>2, <3>1, <3>2, ReplyDue
  <2>3. QED
    BY <1>3, <1>8, <1>9, <2>1, <2>2 DEF Record
<1>10. ASSUME NEW s \in Slot, ReadRemaining(s) \/ Settle(s) \/ Tell(s)
       PROVE  FeesDue'
  <2>1. /\ job[s].at \in {"remaining", "settle", "tell"}
        /\ Reply(s, TRUE) \/ UNCHANGED flow
    BY <1>10 DEF ReadRemaining, Settle, Tell
  <2>2. job[s].own => job[s].pay \in Payment /\ row'[job[s].pay] # "none"
    BY <2>1 DEF JobsOK, JobOK, Types, Jobs, Kept
  <2>3. QED
    BY <1>3, <2>1, <2>2, ReplyDue
<1>11. QED
  BY <1>3, <1>4, <1>5, <1>6, <1>7, <1>8, <1>9, <1>10
     DEF Next, Device, Handle, InsertBill, InsertShares, MineFee, PostAgain, MarkExternal, Claim,
         Crash, vars

\* Only ChargeFee sends a device to attach its fee.
NoneToAttach == \A o \in Payment : flow'[o].at = "attach" => flow[o].at = "attach"

LEMMA FeeStep ==
    ASSUME Types, FeesDue, FeeFollowsPayment, Kept, [Next]_vars
    PROVE  FeeFollowsPayment'
<1> USE DEF chain, books, bounds
<1>1. ASSUME NoneToAttach, UNCHANGED fees
      PROVE  FeeFollowsPayment'
  BY <1>1 DEF NoneToAttach, FeeFollowsPayment, Kept, At
<1>2. ASSUME NEW p, NEW at, at # "attach", Goto(p, at)
      PROVE  NoneToAttach
  BY <1>2 DEF Goto, NoneToAttach, Types, Flows
<1>3. CASE UNCHANGED <<flow, fees>>
  BY <1>1, <1>3 DEF NoneToAttach
<1>4. ASSUME NEW p \in Payment, NEW u \in Payer, NEW t \in Target, NEW a \in Asked(t),
             CheckBalance(p, u, t, a)
      PROVE  FeeFollowsPayment'
  BY <1>1, <1>4 DEF CheckBalance, NoneToAttach, Types
<1>5. ASSUME NEW p \in Payment,
             Mine(p) \/ AttachFee(p) \/ Send(p) \/ LosePost(p) \/ \E s \in Slot : Post(s, p)
      PROVE  FeeFollowsPayment'
  <2>1. \/ Goto(p, "done") \/ Goto(p, "sent") \/ Goto(p, "filing") \/ Goto(p, "fee")
        \/ Goto(p, "post") \/ Goto(p, "failed")
    BY <1>5 DEF Mine, AttachFee, Send, LosePost, Post
  <2>2. NoneToAttach
    BY <1>2, <2>1
  <2>3. QED
    BY <1>1, <1>5, <2>2 DEF Mine, AttachFee, Send, LosePost, Post
<1>6. ASSUME NEW p \in Payment, ChargeFee(p)
      PROVE  FeeFollowsPayment'
  <2>1. flow[p].at = "fee" /\ p \in mined /\ (flow[p].target \notin Request => row[p] # "none")
    BY <1>6 DEF ChargeFee, FeesDue, At
  <2>2. \A o \in Payment : fees'[o] # "none" => o \in mined'
    BY <1>6, <2>1 DEF ChargeFee, FeeFollowsPayment, Types, Kept
  <2>3. CASE Goto(p, "attach") /\ flow[p].target \notin Request
    <3>1. \A o \in Payment : o # p => flow'[o] = flow[o]
      BY <2>3 DEF Goto, Types
    <3>2. QED
      BY <2>1, <2>2, <2>3, <3>1 DEF FeeFollowsPayment, Kept, At
  <2>4. CASE Goto(p, "post") \/ Goto(p, "done")
    <3>1. NoneToAttach
      BY <1>2, <2>4
    <3>2. QED
      BY <2>2, <3>1 DEF FeeFollowsPayment, NoneToAttach, Kept, At
  <2>5. QED
    BY <1>6, <2>3, <2>4 DEF ChargeFee
<1>7. ASSUME NEW p \in Payment, MineFee(p)
      PROVE  FeeFollowsPayment'
  BY <1>7 DEF MineFee, FeeFollowsPayment, Kept, At, Types
<1>8. ASSUME NEW s \in Slot, Handle(s) \/ Crash(s)
      PROVE  FeeFollowsPayment'
  <2>1. UNCHANGED fees /\ (UNCHANGED flow \/ Reply(s, TRUE) \/ Reply(s, FALSE))
    BY <1>8 DEF Handle, Crash, Claim, Record, ReadRemaining, Settle, Tell
  <2>2. UNCHANGED flow \/ Goto(job[s].pay, "done") \/ Goto(job[s].pay, "fee")
    BY <2>1, ReplyMoves
  <2>3. QED
    BY <1>1, <1>2, <1>3, <2>1, <2>2
<1>9. QED
  BY <1>3, <1>4, <1>5, <1>6, <1>7, <1>8
     DEF Next, Device, InsertBill, InsertShares, PostAgain, MarkExternal, vars

-----------------------------------------------------------------------------
(* A payee is told once *)

\* A step of a handler that claims nothing new and has nothing new to tell.
Carries(s) ==
    /\ Claimed(s)' => Claimed(s) /\ job'[s].target = job[s].target /\ job'[s].pay = job[s].pay
    /\ Telling(s)' => Telling(s) /\ job'[s].pay = job[s].pay

LEMMA PaidIsNotOpen ==
    ASSUME PaymentsAssumption, Types, ClaimsOK, NEW s \in Slot, Claimed(s)
    PROVE  paid[job[s].target] # "open"
<1>1. job[s].pay = "none" \/ job[s].pay \in Payment
  BY DEF Types, Jobs
<1>2. paid[job[s].target] = IF job[s].pay = "none" THEN "external" ELSE job[s].pay
  BY DEF ClaimsOK, ClaimOK
<1>3. QED
  BY <1>1, <1>2 DEF PaymentsAssumption

LEMMA UntoldStays ==
    ASSUME Types, Untold, Kept, PaidStays, told' = told
    PROVE  Untold'
BY DEF Types, Untold, Kept, PaidStays

LEMMA ClaimCarries ==
    ASSUME PaymentsAssumption, Types, JobsOK, ClaimsOK, Kept, PaidStays, told' = told,
           NEW s \in Slot, Carries(s)
    PROVE  ClaimOK(s)'
<1>1. Claimed(s)' => /\ paid'[job'[s].target] = IF job'[s].pay = "none" THEN "external" ELSE job'[s].pay
                     /\ job'[s].pay # "none" => told'[job'[s].pay][job'[s].target] = 0
  BY PaidIsNotOpen DEF Carries, ClaimsOK, ClaimOK, PaidStays, Claimed
<1>2. Telling(s)' => row'[job'[s].pay] # "none" /\ told'[job'[s].pay]["transfer"] = 0
  <2>1. HAVE Telling(s)'
  <2>2. Telling(s) /\ job'[s].pay = job[s].pay
    BY <2>1 DEF Carries
  <2>3. job[s].pay \in Payment
    BY <2>2 DEF Telling, JobsOK, JobOK, Types, Jobs
  <2>4. QED
    BY <2>2, <2>3 DEF ClaimsOK, ClaimOK, Kept
<1>3. QED
  BY <1>1, <1>2 DEF ClaimOK, Claimed, Telling

LEMMA TellingsCarry ==
    ASSUME PaymentsAssumption, Types, JobsOK, Tellings, Kept, PaidStays, told' = told,
           \A s \in Slot : Carries(s)
    PROVE  Tellings'
<1>1. ClaimsOK'
  BY ClaimCarries DEF ClaimsOK, Tellings
<1>2. Alone'
  BY DEF Tellings, Alone, Carries
<1>3. Untold' /\ ToldOnce'
  BY UntoldStays DEF Tellings, ToldOnce
<1>4. QED
  BY <1>1, <1>2, <1>3 DEF Tellings

LEMMA StepCarries ==
    ASSUME Types, NEW s \in Slot, NEW at, Step(s, at),
           at = "idle" \/ (Claimed(s) /\ job[s].target # "transfer")
    PROVE  \A r \in Slot : Carries(r)
<1>1. \A r \in Slot : r # s => job'[r] = job[r]
  BY DEF Step, Types
<1>2. job'[s].at = at /\ job'[s].target = job[s].target /\ job'[s].pay = job[s].pay
  BY DEF Step, Types, Jobs
<1>3. Carries(s)
  BY <1>2 DEF Carries, Claimed, Telling
<1>4. \A r \in Slot : r # s => Carries(r)
  BY <1>1 DEF Carries, Claimed, Telling
<1>5. QED
  BY <1>3, <1>4

\* The claim of a debt nobody had paid, and so of which nobody was told.
LEMMA ClaimTells ==
    ASSUME PaymentsAssumption, Types, JobsOK, Tellings, Kept, PaidStays, NEW s \in Slot,
           Claim(s), StillOpen(job[s].target)
    PROVE  Tellings'
<1> USE DEF books
<1> DEFINE t == job[s].target
           at == IF External(s) THEN "remaining" ELSE "record"
<1>1. t \in Debt /\ job[s] \in Jobs /\ paid[t] = "open" /\ told' = told /\ row' = row
  BY DEF Claim, JobsOK, JobOK, Types, StillOpen
<1>2. /\ paid' = [paid EXCEPT ![t] = IF External(s) THEN "external" ELSE job[s].pay]
      /\ Step(s, at)
  BY DEF Claim
<1>3. \A r \in Slot : r # s => job'[r] = job[r]
  BY <1>2 DEF Step, Types
<1>4. job'[s].at = at /\ job'[s].target = t /\ job'[s].pay = job[s].pay
  BY <1>1, <1>2 DEF Step, Types, Jobs
<1>5. \A r \in Slot : r # s => Carries(r)
  BY <1>3 DEF Carries, Claimed, Telling
<1>6. ClaimOK(s)'
  <2>1. paid'[t] = IF job[s].pay = "none" THEN "external" ELSE job[s].pay
    BY <1>1, <1>2 DEF External, Types
  <2>2. job[s].pay # "none" => told[job[s].pay][t] = 0
    BY <1>1 DEF Tellings, Untold, Jobs
  <2>3. ~Telling(s)'
    BY <1>4 DEF Telling
  <2>4. QED
    BY <1>1, <1>4, <2>1, <2>2, <2>3 DEF ClaimOK
<1>7. ClaimsOK'
  BY <1>1, <1>5, <1>6, ClaimCarries DEF ClaimsOK, Tellings
<1>8. Alone'
  <2>1. \A r \in Slot : r # s /\ Claimed(r)' => job'[r].target # t
    BY <1>1, <1>3, PaidIsNotOpen DEF Claimed, Tellings
  <2>2. ~Telling(s)'
    BY <1>4 DEF Telling
  <2>3. QED
    BY <1>3, <1>4, <2>1, <2>2 DEF Tellings, Alone, Claimed, Telling
<1>9. QED
  BY <1>1, <1>7, <1>8, UntoldStays DEF Tellings, ToldOnce

\* The first record of a transfer: no handler before this one had the payee to tell.
LEMMA RecordTells ==
    ASSUME PaymentsAssumption, Types, JobsOK, Tellings, Kept, PaidStays, NEW s \in Slot,
           Record(s), FirstRecord(job[s].pay), job[s].target = "transfer", Step(s, "tell"),
           row'[job[s].pay] # "none"
    PROVE  Tellings'
<1> DEFINE p == job[s].pay
<1>1. p \in Payment /\ job[s] \in Jobs /\ row[p] = "none" /\ told' = told
  BY DEF Record, FirstRecord, JobsOK, JobOK, Types, Jobs
<1>2. \A r \in Slot : r # s => job'[r] = job[r]
  BY DEF Step, Types
<1>3. job'[s].at = "tell" /\ job'[s].target = "transfer" /\ job'[s].pay = p
  BY <1>1 DEF Step, Types, Jobs
<1>4. \A r \in Slot : r # s => Carries(r)
  BY <1>2 DEF Carries, Claimed, Telling
<1>5. ClaimOK(s)'
  <2>1. told[p]["transfer"] = 0
    BY <1>1 DEF Tellings, Untold
  <2>2. ~Claimed(s)'
    BY <1>3 DEF Claimed, Debt
  <2>3. QED
    BY <1>1, <1>3, <2>1, <2>2 DEF ClaimOK
<1>6. ClaimsOK'
  BY <1>1, <1>4, <1>5, ClaimCarries DEF ClaimsOK, Tellings
<1>7. Alone'
  <2>1. \A r \in Slot : r # s /\ Telling(r)' => job'[r].pay # p
    BY <1>1, <1>2 DEF Tellings, ClaimsOK, ClaimOK, Telling
  <2>2. ~Claimed(s)'
    BY <1>3 DEF Claimed, Debt
  <2>3. QED
    BY <1>2, <1>3, <2>1, <2>2 DEF Tellings, Alone, Claimed, Telling
<1>8. QED
  BY <1>1, <1>6, <1>7, UntoldStays DEF Tellings, ToldOnce

LEMMA TellTells ==
    ASSUME PaymentsAssumption, Types, JobsOK, Tellings, Kept, PaidStays, NEW s \in Slot, Tell(s)
    PROVE  Tellings'
<1> DEFINE t == job[s].target
           p == job[s].pay
<1>1. p \in Payment /\ t \in Target /\ p # "none"
  BY DEF Tell, JobsOK, JobOK, Types, Jobs
<1>2. Claimed(s) \/ Telling(s)
  BY <1>1 DEF Tell, Claimed, Telling, Target
<1>3. told[p][t] = 0 /\ (t \in Debt => paid[t] # "open") /\ (t = "transfer" => row[p] # "none")
  <2>1. CASE Claimed(s)
    BY <1>1, <2>1, PaidIsNotOpen DEF Tellings, ClaimsOK, ClaimOK, Claimed
  <2>2. CASE Telling(s)
    BY <1>1, <2>2 DEF Tellings, ClaimsOK, ClaimOK, Telling
  <2>3. QED
    BY <1>2, <2>1, <2>2
<1>4. /\ told' \in [Payment -> [Target -> Nat]] /\ told'[p][t] = 1
      /\ \A o \in Payment, v \in Target : o # p \/ v # t => told'[o][v] = told[o][v]
  BY <1>1, <1>3 DEF Tell, Types
<1>5. row' = row /\ paid' = paid
  BY DEF Tell
<1>6. Step(s, "idle")
  BY DEF Tell, Reply
<1>7. /\ \A r \in Slot : r # s => job'[r] = job[r]
      /\ ~Claimed(s)' /\ ~Telling(s)'
  BY <1>6 DEF Step, Types, Jobs, Claimed, Telling
<1>8. ASSUME NEW r \in Slot
      PROVE  ClaimOK(r)'
  <2>1. CASE r = s
    BY <1>7, <2>1 DEF ClaimOK
  <2>2. CASE r # s
    <3>1. job'[r] = job[r] /\ job[r] \in Jobs /\ ClaimOK(r) /\ JobOK(r)
      BY <1>7, <2>2 DEF Types, Tellings, ClaimsOK, JobsOK
    <3>2. Claimed(r) => job[r].target # t
      BY <1>2, <2>2 DEF Tellings, Alone, Claimed, Telling
    <3>3. Claimed(r) /\ job[r].pay # "none" => told'[job[r].pay][job[r].target] = 0
      BY <1>4, <3>1, <3>2 DEF ClaimOK, Jobs
    <3>4. Telling(r) => t # "transfer" \/ job[r].pay # p
      BY <1>2, <2>2 DEF Tellings, Alone, Claimed, Telling
    <3>5. Telling(r) => told'[job[r].pay]["transfer"] = 0
      BY <1>4, <3>1, <3>4 DEF ClaimOK, JobOK, Jobs, Telling, Target
    <3>6. QED
      BY <1>5, <3>1, <3>3, <3>5 DEF ClaimOK, Claimed, Telling
  <2>3. QED
    BY <2>1, <2>2
<1>9. Alone'
  BY <1>7 DEF Tellings, Alone, Claimed, Telling
<1>10. Untold'
  BY <1>3, <1>4, <1>5 DEF Tellings, Untold, Target
<1>11. ToldOnce'
  BY <1>4 DEF Tellings, ToldOnce, Types
<1>12. QED
  BY <1>8, <1>9, <1>10, <1>11 DEF Tellings, ClaimsOK

LEMMA TellingsStep ==
    ASSUME PaymentsAssumption, Types, JobsOK, Tellings, Kept, PaidStays, [Next]_vars
    PROVE  Tellings'
<1> USE DEF chain, books, bounds
<1>1. ASSUME UNCHANGED told, \A r \in Slot : Carries(r)
      PROVE  Tellings'
  BY <1>1, TellingsCarry
<1>2. CASE UNCHANGED <<told, job>>
  <2>1. \A r \in Slot : Carries(r)
    BY <1>2 DEF Carries, Claimed, Telling
  <2>2. QED
    BY <1>1, <1>2, <2>1
<1>3. ASSUME NEW s \in Slot, NEW at, Step(s, at), UNCHANGED told,
             at = "idle" \/ (Claimed(s) /\ job[s].target # "transfer")
      PROVE  Tellings'
  BY <1>1, <1>3, StepCarries
<1>4. ASSUME NEW s \in Slot, NEW u \in Payer, NEW p \in Payment, NEW t \in Target, NEW own \in BOOLEAN,
             Begin(s, u, p, t, own), UNCHANGED told
      PROVE  Tellings'
  <2>1. \A r \in Slot : r # s => job'[r] = job[r]
    BY <1>4 DEF Begin, Types
  <2>2. job'[s] = [at |-> IF t = "transfer" THEN "record" ELSE "claim",
                   user |-> u, target |-> t, pay |-> p, own |-> own]
    BY <1>4 DEF Begin, Types
  <2>3. \A r \in Slot : Carries(r)
    BY <2>1, <2>2 DEF Carries, Claimed, Telling, Debt
  <2>4. QED
    BY <1>1, <1>4, <2>3
<1>5. ASSUME NEW s \in Slot, NEW p \in Payment, Post(s, p)
      PROVE  Tellings'
  <2>1. flow[p].by \in Payer /\ flow[p].target \in Target
    BY DEF Types, Flows
  <2>2. UNCHANGED told /\ (UNCHANGED job \/ Begin(s, flow[p].by, p, flow[p].target, TRUE))
    BY <1>5 DEF Post
  <2>3. CASE Begin(s, flow[p].by, p, flow[p].target, TRUE)
    BY <1>4, <2>1, <2>2, <2>3
  <2>4. QED
    BY <1>2, <2>2, <2>3
<1>6. ASSUME NEW s \in Slot, NEW u \in Payer, NEW p \in Payment, NEW t \in Target,
             PostAgain(s, u, p, t)
      PROVE  Tellings'
  BY <1>4, <1>6 DEF PostAgain
<1>7. ASSUME NEW s \in Slot, NEW t \in Share, MarkExternal(s, t)
      PROVE  Tellings'
  <2>1. \A r \in Slot : r # s => job'[r] = job[r]
    BY <1>7 DEF MarkExternal, Types
  <2>2. job'[s] = [Idle EXCEPT !.at = "claim", !.user = Owner[t], !.target = t]
    BY <1>7 DEF MarkExternal, Types
  <2>3. \A r \in Slot : Carries(r)
    BY <2>1, <2>2 DEF Carries, Claimed, Telling, Idle
  <2>4. QED
    BY <1>1, <1>7, <2>3 DEF MarkExternal
<1>8. ASSUME NEW s \in Slot, NEW ok \in BOOLEAN, Reply(s, ok), UNCHANGED told
      PROVE  Tellings'
  BY <1>3, <1>8 DEF Reply
<1>9. ASSUME NEW s \in Slot, Claim(s)
      PROVE  Tellings'
  <2>1. CASE StillOpen(job[s].target)
    BY <1>9, <2>1, ClaimTells
  <2>2. CASE ~StillOpen(job[s].target)
    BY <1>8, <1>9, <2>2 DEF Claim
  <2>3. QED
    BY <2>1, <2>2
<1>10. ASSUME NEW s \in Slot, Record(s)
       PROVE  Tellings'
  <2>1. job[s].at = "record" /\ job[s].target \in Target /\ told' = told
    BY <1>10 DEF Record, Types, Jobs
  <2>2. CASE Reply(s, TRUE) \/ Reply(s, FALSE)
    BY <1>8, <2>1, <2>2
  <2>3. CASE job[s].target # "transfer" /\ (Step(s, "remaining") \/ Step(s, "tell"))
    BY <1>3, <2>1, <2>3 DEF Claimed, Target
  <2>4. CASE job[s].target = "transfer" /\ FirstRecord(job[s].pay) /\ Step(s, "tell")
    <3>1. job[s].pay \in Payment
      BY <2>1 DEF JobsOK, JobOK, Types, Jobs
    <3>2. CASE row'[job[s].pay] # "none"
      BY <1>10, <2>4, <3>2, RecordTells
    <3>3. CASE row'[job[s].pay] = "none"
      <4>1. Reply(s, FALSE)
        BY <1>10, <3>1, <3>3, RecordWrites
      <4>2. QED
        BY <1>8, <2>1, <4>1
    <3>4. QED
      BY <3>2, <3>3
  <2>5. \/ Reply(s, TRUE) \/ Reply(s, FALSE)
        \/ job[s].target \in Share /\ Step(s, "remaining")
        \/ ~(job[s].target = "transfer" /\ ~FirstRecord(job[s].pay)) /\ Step(s, "tell")
    BY <1>10 DEF Record
  <2>6. "transfer" \notin Share
    BY PaymentsAssumption DEF PaymentsAssumption, Debt
  <2>7. QED
    BY <2>2, <2>3, <2>4, <2>5, <2>6
<1>11. ASSUME NEW s \in Slot, ReadRemaining(s) \/ Settle(s)
       PROVE  Tellings'
  <2>1. job[s].at \in {"remaining", "settle"} /\ told' = told
    BY <1>11 DEF ReadRemaining, Settle
  <2>2. Claimed(s) /\ job[s].target # "transfer"
    BY <2>1, PaymentsAssumption DEF JobsOK, JobOK, Claimed, Debt, PaymentsAssumption
  <2>3. Reply(s, TRUE) \/ Step(s, "settle") \/ Step(s, "tell")
    BY <1>11 DEF ReadRemaining, Settle
  <2>4. QED
    BY <1>3, <1>8, <2>1, <2>2, <2>3
<1>12. ASSUME NEW s \in Slot, Crash(s)
       PROVE  Tellings'
  BY <1>8, <1>12 DEF Crash
<1>13. QED
  BY <1>2, <1>5, <1>6, <1>7, <1>9, <1>10, <1>11, <1>12, TellTells
     DEF Next, Device, Handle, InsertBill, InsertShares, CheckBalance, Send, Mine, ChargeFee,
         MineFee, AttachFee, LosePost, vars

-----------------------------------------------------------------------------
(* The theorems *)

LEMMA InitInv ==
    ASSUME PaymentsAssumption, Init
    PROVE  PaymentsInv
<1>1. Types
  BY TypesInit
<1>2. Used /\ RowsAreMined
  BY DEF Init, Used, RowsAreMined
<1>3. \A s \in Slot : job[s].at = "idle" /\ job[s].pay = "none" /\ ~job[s].own
  BY DEF Init, Idle
<1>4. JobsOK
  BY <1>3 DEF JobsOK, JobOK
<1>5. PaidIsBacked /\ SettledWhenPaid
  BY DEF Init, PaidIsBacked, SettledWhenPaid, PaymentsAssumption
<1>6. FeesDue /\ FeeFollowsPayment
  BY DEF Init, FeesDue, FeeFollowsPayment, At, Unused
<1>7. ClaimsOK /\ Alone
  BY <1>3 DEF ClaimsOK, ClaimOK, Alone, Claimed, Telling
<1>8. Untold /\ ToldOnce
  BY DEF Init, Untold, ToldOnce, Target
<1>9. QED
  BY <1>1, <1>2, <1>4, <1>5, <1>6, <1>7, <1>8 DEF PaymentsInv, Tellings

LEMMA StepInv ==
    ASSUME PaymentsAssumption, PaymentsInv, [Next]_vars
    PROVE  PaymentsInv' /\ PaidStays
<1>1. Kept /\ PaidStays
  BY StepKeeps DEF PaymentsInv
<1>2. Types' /\ Used' /\ JobsOK'
  BY <1>1, TypesStep, UsedStep, JobsStep DEF PaymentsInv
<1>3. PaidIsBacked' /\ SettledWhenPaid' /\ Tellings'
  BY <1>1, BackedStep, SettledStep, TellingsStep DEF PaymentsInv
<1>4. RowsAreMined' /\ FeesDue' /\ FeeFollowsPayment'
  BY <1>1, RowsStep, DueStep, FeeStep DEF PaymentsInv
<1>5. QED
  BY <1>1, <1>2, <1>3, <1>4 DEF PaymentsInv

LEMMA InvHolds ==
    Spec => []PaymentsInv
<1>1. Init => PaymentsInv
  BY InitInv, PaymentsAssumption
<1>2. PaymentsInv /\ [Next]_vars => PaymentsInv'
  BY StepInv, PaymentsAssumption
<1>3. QED
  BY <1>1, <1>2, PTL DEF Spec

\* Every reachable state has the type the model gives it.
THEOREM PaymentsTypes == Spec => []TypeOK
<1>1. PaymentsInv => TypeOK
  <2>1. SUFFICES ASSUME PaymentsInv
                 PROVE  TypeOK
    OBVIOUS
  <2>2. told \in [Payment -> [Target -> 0 .. 2]]
    <3>1. \A p \in Payment, t \in Target : told[p][t] \in Nat /\ told[p][t] <= 1
      BY <2>1 DEF PaymentsInv, Types, Tellings, ToldOnce
    <3>2. ASSUME NEW p \in Payment
          PROVE  told[p] \in [Target -> 0 .. 2]
      <4>1. told[p] \in [Target -> Nat]
        BY <2>1 DEF PaymentsInv, Types
      <4>2. ASSUME NEW t \in Target
            PROVE  told[p][t] \in 0 .. 2
        <5>1. told[p][t] \in Nat /\ told[p][t] <= 1
          BY <3>1
        <5>2. QED
          BY <5>1
      <4>3. QED
        BY <4>1, <4>2
    <3>3. QED
      BY <2>1, <3>2 DEF PaymentsInv, Types
  <2>3. QED
    BY <2>1, <2>2 DEF PaymentsInv, Types, TypeOK, Flows, Jobs
<1>2. QED
  BY <1>1, InvHolds, PTL

\* A debt is paid by a mined transfer of its amount, a share by its own participant: the receipt
\* a handler read before its claim still proves the debt when the claim is made.
THEOREM PaidDebtsAreBacked == Spec => []PaidIsBacked
<1>1. PaymentsInv => PaidIsBacked
  BY DEF PaymentsInv
<1>2. QED
  BY <1>1, InvHolds, PTL

\* What settled a debt stays: the claim is conditional on the debt being open.
THEOREM DebtsArePaidOnce == Spec => PaidOnce
<1>1. PaymentsInv /\ [Next]_vars => [\A d \in Debt : paid[d] # "open" => paid'[d] = paid[d]]_vars
  BY StepInv, PaymentsAssumption DEF PaidStays
<1>2. QED
  BY <1>1, InvHolds, PTL DEF Spec, PaidOnce

\* A bill is settled by a handler that read, after its own claim, that no share was left open, or
\* could not read which are.
THEOREM SettledBillsArePaid == Spec => []SettledWhenPaid
<1>1. PaymentsInv => SettledWhenPaid
  BY DEF PaymentsInv
<1>2. QED
  BY <1>1, InvHolds, PTL

\* One handler is past the claim of a debt or the first record of a transfer, and it tells once.
THEOREM PayeesAreToldOnce == Spec => []ToldOnce
<1>1. PaymentsInv => ToldOnce
  BY DEF PaymentsInv, Tellings
<1>2. QED
  BY <1>1, InvHolds, PTL

\* No fee is sent for a payment that is not on chain, and its hash always finds its row.
THEOREM FeesFollowPayments == Spec => []FeeFollowsPayment
<1>1. PaymentsInv => FeeFollowsPayment
  BY DEF PaymentsInv
<1>2. QED
  BY <1>1, InvHolds, PTL

-----------------------------------------------------------------------------
(* The approval warmed up ahead of a payment. *)

\* A behaviour of the whole is, of each part that rests, one in which nothing happens.
LEMMA ApprovalsRun == PaymentsSpec => R!Spec
<1>1. PaymentsInit => R!Init
  BY DEF PaymentsInit
<1>2. [PaymentsNext]_allVars => [R!Next]_(R!vars)
  BY DEF PaymentsNext, allVars, RVars, R!vars
<1>3. QED
  BY <1>1, <1>2, PTL DEF PaymentsSpec, R!Spec

\* How a single warm approval that has not failed and the payment share the one signature: until
\* it is signed nothing else may sign, from then on the allowance is there or on its way, and a
\* payment that does not wait for it starts only after it is over.
OneWarm ==
    /\ \A r \in R!Run : r # 1 => run[r] = "off"
    /\ inFlight = IF run[1] = "over" THEN 0 ELSE 1
    /\ run[1] \in {"read", "sign"} => approvals = 0 /\ ~allowance
    /\ run[1] = "mine" => approvals = 1 /\ ~allowance
    /\ run[1] = "over" /\ ~allowance => approvals = IF pay.at = "approving" THEN 1 ELSE 0
    /\ allowance => approvals = 1 /\ pay.at \notin {"approve", "approving"}
    /\ run[1] # "off"
    /\ run[1] # "over" => pay.at \in {"idle", "wait", "check", "call"}
    /\ run[1] # "over" /\ pay.at # "idle" => pay.warmed

NoWarm ==
    /\ \A r \in R!Run : run[r] = "off"
    /\ inFlight = 0 /\ approvals = 0 /\ ~allowance
    /\ pay.at = "idle"

ApprovalInv ==
    /\ R!TypeOK
    /\ mounts = 0 => NoWarm
    /\ mounts = 1 /\ glitches = 0 => OneWarm

LEMMA ApprovalConstants ==
    /\ MaxMounts \in Nat /\ MaxPresses \in Nat /\ MaxGlitches \in Nat
BY ScreensAssumption DEF ScreensAssumption

PayType == [at : {"idle", "wait", "check", "allowance", "approve", "approving", "call"},
            saw : {"none", "some", "enough"}, joined : 0 .. MaxMounts, warmed : BOOLEAN]
LEMMA GotoPay ==
    ASSUME pay \in PayType, NEW at \in {"wait", "check", "allowance", "approve", "approving", "call"},
           R!Goto(at)
    PROVE  pay' \in PayType /\ pay'.at = at /\ pay'.warmed = pay.warmed
BY DEF R!Goto, PayType

LEMMA ReturnPay ==
    ASSUME R!Return
    PROVE  pay' \in PayType /\ pay'.at = "idle"
BY ApprovalConstants DEF R!Return, R!Resting, PayType

\* R!TypeOK, with the payment's type named.
ApprovalTypes ==
    /\ balance \in {"none", "some", "enough"}
    /\ allowance \in BOOLEAN
    /\ run \in [R!Run -> {"off", "read", "sign", "mine", "over"}]
    /\ mounts \in 0 .. MaxMounts
    /\ inFlight \in 0 .. MaxMounts
    /\ pay \in PayType
    /\ presses \in 0 .. MaxPresses
    /\ approvals \in Nat
    /\ glitches \in 0 .. MaxGlitches
LEMMA ApprovalTyped == R!TypeOK <=> ApprovalTypes
BY DEF R!TypeOK, ApprovalTypes, PayType, R!Run

LEMMA ApprovalInit ==
    ASSUME R!Init
    PROVE  ApprovalInv
<1>1. pay \in PayType /\ pay.at = "idle"
  BY ApprovalConstants DEF R!Init, PayType, R!Resting
<1>2. mounts \in 0 .. MaxMounts /\ inFlight \in 0 .. MaxMounts /\ presses \in 0 .. MaxPresses
      /\ approvals \in Nat /\ glitches \in 0 .. MaxGlitches
  BY ApprovalConstants DEF R!Init
<1>3. run \in [R!Run -> {"off", "read", "sign", "mine", "over"}]
  BY DEF R!Init
<1>4. allowance \in BOOLEAN /\ ~allowance
  BY Zenon DEF R!Init
<1>5. R!TypeOK
  BY <1>1, <1>2, <1>3, <1>4, ApprovalTyped DEF ApprovalTypes, R!Init
<1>6. NoWarm
  BY <1>1, <1>4 DEF NoWarm, R!Init
<1>7. mounts = 0
  BY DEF R!Init
<1>8. QED
  BY <1>5, <1>6, <1>7 DEF ApprovalInv

\* One case per action of the warm approval.
LEMMA WarmSteps ==
    ASSUME ApprovalInv, NEW r \in R!Run,
           \/ R!Mount \/ R!ReadBoth(r) \/ R!SignWarm(r) \/ R!MineWarm(r) \/ R!FailWarm(r)
    PROVE  ApprovalInv'
<1>1. ApprovalTypes
  BY ApprovalTyped DEF ApprovalInv
<1>2. /\ mounts = 0 => NoWarm
      /\ mounts = 1 /\ glitches = 0 => OneWarm
  BY DEF ApprovalInv
<1>. USE ApprovalConstants
<1>3. CASE R!Mount
  <2>1. mounts' = mounts + 1 /\ mounts' \in R!Run /\ inFlight' = mounts'
    BY <1>1, <1>3 DEF R!Mount, R!Run, ApprovalTypes, R!Announced
  <2>2. UNCHANGED <<balance, allowance, pay, presses, approvals, glitches>>
    BY <1>3 DEF R!Mount, R!wallet, R!payVars
  <2>3. run' \in [R!Run -> {"off", "read", "sign", "mine", "over"}] /\ run'[mounts'] = "read"
        /\ \A w \in R!Run : w # mounts' => run'[w] = run[w]
    BY <1>1, <1>3, <2>1 DEF R!Mount, ApprovalTypes
  <2>4. ApprovalTypes'
    BY <1>1, <2>1, <2>2, <2>3 DEF ApprovalTypes, R!Run
  <2>5. mounts' = 1 => OneWarm'
    <3>1. SUFFICES ASSUME mounts' = 1
                   PROVE  OneWarm'
      OBVIOUS
    <3>2. NoWarm
      BY <1>1, <1>2, <2>1, <3>1 DEF ApprovalTypes
    <3>3. QED
      BY <2>1, <2>2, <2>3, <3>1, <3>2 DEF NoWarm, OneWarm
  <2>6. mounts' # 0
    BY <1>1, <2>1 DEF ApprovalTypes
  <2>7. QED
    BY <2>4, <2>5, <2>6, ApprovalTyped DEF ApprovalInv, R!TypeOK, ApprovalTypes, PayType, R!Run
<1>4. CASE R!ReadBoth(r) \/ R!SignWarm(r) \/ R!MineWarm(r) \/ R!FailWarm(r)
  <2>1. UNCHANGED <<balance, mounts, pay, presses>> /\ inFlight' \in {0, inFlight}
    BY <1>4 DEF R!ReadBoth, R!SignWarm, R!MineWarm, R!FailWarm, R!wallet, R!payVars, R!Over
  <2>2. PICK to \in {"off", "read", "sign", "mine", "over"} : run' = [run EXCEPT ![r] = to]
    BY <1>1, <1>4 DEF R!ReadBoth, R!SignWarm, R!MineWarm, R!FailWarm, R!Over, ApprovalTypes
  <2>3. run' \in [R!Run -> {"off", "read", "sign", "mine", "over"}] /\ run'[r] = to
        /\ \A w \in R!Run : w # r => run'[w] = run[w]
    BY <1>1, <2>2 DEF ApprovalTypes
  <2>4. allowance' \in BOOLEAN
    BY <1>1, <1>4, Zenon DEF R!ReadBoth, R!SignWarm, R!MineWarm, R!FailWarm, R!wallet, ApprovalTypes
  <2>5. approvals' \in Nat /\ glitches' \in 0 .. MaxGlitches /\ glitches' >= glitches
    BY <1>1, <1>4 DEF R!ReadBoth, R!SignWarm, R!MineWarm, R!FailWarm, ApprovalTypes, R!Glitch
  <2>6. ApprovalTypes'
    BY <1>1, <2>1, <2>3, <2>4, <2>5 DEF ApprovalTypes
  <2>7. run[r] \in {"read", "sign", "mine"}
    BY <1>4 DEF R!ReadBoth, R!SignWarm, R!MineWarm, R!FailWarm
  <2>8. mounts' # 0
    BY <1>2, <2>1, <2>7 DEF NoWarm
  <2>9. mounts' = 1 /\ glitches' = 0 => OneWarm'
    <3>1. SUFFICES ASSUME mounts' = 1, glitches' = 0
                   PROVE  OneWarm'
      OBVIOUS
    <3>2. OneWarm /\ glitches = 0
      BY <1>1, <1>2, <2>1, <2>5, <3>1 DEF ApprovalTypes
    <3>3. r = 1
      BY <2>7, <3>2 DEF OneWarm
    <3>4. ~R!FailWarm(r)
      BY <1>1, <3>1 DEF R!FailWarm, R!Glitch, ApprovalTypes
    <3>5. CASE R!ReadBoth(r)
      <4>1. run[1] = "read" /\ ~allowance /\ approvals = 0
        BY <3>2, <3>3, <3>5 DEF R!ReadBoth, OneWarm
      <4>2. UNCHANGED <<allowance, approvals>>
        BY <3>5 DEF R!ReadBoth, R!wallet
      <4>3. \/ run'[1] = "over" /\ inFlight' = 0
            \/ run'[1] = "sign" /\ inFlight' = inFlight
        BY <1>1, <3>3, <3>5, <2>3, <2>2 DEF R!ReadBoth, R!Over, ApprovalTypes
      <4>4. QED
        BY <2>1, <2>3, <3>2, <3>3, <4>1, <4>2, <4>3 DEF OneWarm
    <3>6. CASE R!SignWarm(r)
      <4>1. /\ run[1] = "sign" /\ run'[1] = "mine" /\ approvals = 0 /\ approvals' = 1 /\ ~allowance
            /\ UNCHANGED <<allowance, inFlight>>
        BY <1>1, <3>2, <3>3, <3>6 DEF R!SignWarm, R!wallet, OneWarm, ApprovalTypes
      <4>2. QED
        BY <2>1, <2>3, <3>2, <3>3, <4>1 DEF OneWarm
    <3>7. CASE R!MineWarm(r)
      <4>1. /\ run[1] = "mine" /\ run'[1] = "over" /\ approvals' = 1 /\ allowance' /\ inFlight' = 0
        BY <1>1, <3>2, <3>3, <3>7 DEF R!MineWarm, R!Over, OneWarm, ApprovalTypes
      <4>2. pay'.at \notin {"approve", "approving"}
        BY <2>1, <3>2, <4>1 DEF OneWarm
      <4>3. QED
        BY <2>1, <2>3, <3>2, <3>3, <4>1, <4>2 DEF OneWarm
    <3>8. QED
      BY <1>4, <3>4, <3>5, <3>6, <3>7
  <2>10. QED
    BY <2>6, <2>8, <2>9, ApprovalTyped DEF ApprovalInv, R!TypeOK, ApprovalTypes, PayType, R!Run
<1>5. QED
  BY <1>3, <1>4

LEMMA NewPay ==
    ASSUME ApprovalTypes, R!Press
    PROVE  /\ pay' \in PayType /\ pay'.at # "idle" /\ mounts > 0
           /\ pay'.at \in {"check", "wait"} /\ (inFlight # 0 => pay'.warmed)
<1>1. inFlight \in 0 .. MaxMounts /\ balance \in {"none", "some", "enough"}
  BY DEF ApprovalTypes
<1>2. CASE inFlight = 0
  BY <1>1, <1>2 DEF R!Press, R!AwaitWarmApproval, PayType
<1>3. CASE inFlight # 0
  BY <1>1, <1>3 DEF R!Press, R!AwaitWarmApproval, PayType
<1>4. QED
  BY <1>2, <1>3

\* Nothing the payment does moves the warm approval, and it signs, or goes to sign, only after that
\* is over and without the allowance.
LEMMA PaySteps ==
    ASSUME ApprovalInv,
           \/ R!Press \/ R!JoinEnds \/ R!GiveUpWaiting \/ R!CheckBalance \/ R!ReadAllowance
           \/ R!SignApproval \/ R!MineApproval \/ R!FailPayment \/ R!Call \/ R!Receive
    PROVE  ApprovalInv'
<1>. USE ApprovalConstants
<1>1. ApprovalTypes
  BY ApprovalTyped DEF ApprovalInv
<1>2. /\ mounts = 0 => NoWarm
      /\ mounts = 1 /\ glitches = 0 => OneWarm
  BY DEF ApprovalInv
<1>3. UNCHANGED <<run, mounts, inFlight>>
  BY DEF R!Press, R!JoinEnds, R!GiveUpWaiting, R!CheckBalance, R!ReadAllowance, R!SignApproval,
         R!MineApproval, R!FailPayment, R!Call, R!Receive, R!warmVars
<1>4. \/ R!Press /\ pay' \in PayType
      \/ R!Receive /\ pay' = pay
      \/ /\ pay.at # "idle"
         /\ \/ R!Return /\ pay' \in PayType /\ pay'.at = "idle"
            \/ \E at \in {"check", "allowance", "approve", "approving", "call"} :
                  pay' \in PayType /\ pay'.at = at /\ pay'.warmed = pay.warmed
  <2>1. CASE R!Press
    BY <1>1, <2>1, NewPay
  <2>2. CASE R!Receive
    BY <2>2 DEF R!Receive, R!payVars
  <2>3. ASSUME NEW at \in {"wait", "check", "allowance", "approve", "approving", "call"}, R!Goto(at)
        PROVE  pay' \in PayType /\ pay'.at = at /\ pay'.warmed = pay.warmed
    BY <1>1, <2>3, GotoPay DEF ApprovalTypes
  <2>4. CASE R!Return /\ pay.at # "idle"
    BY <2>4, ReturnPay
  <2>5. CASE \/ R!JoinEnds \/ R!GiveUpWaiting \/ R!CheckBalance \/ R!ReadAllowance \/ R!SignApproval
             \/ R!MineApproval \/ R!FailPayment \/ R!Call
    <3>1. pay.at # "idle"
      BY <2>5 DEF R!JoinEnds, R!GiveUpWaiting, R!CheckBalance, R!ReadAllowance, R!SignApproval,
                  R!MineApproval, R!FailPayment, R!Call, R!At
    <3>2. \/ R!Return
          \/ \E at \in {"check", "allowance", "approve", "approving", "call"} : R!Goto(at)
      BY <2>5 DEF R!JoinEnds, R!GiveUpWaiting, R!CheckBalance, R!ReadAllowance, R!SignApproval,
                  R!MineApproval, R!FailPayment, R!Call
    <3>3. CASE \E at \in {"check", "allowance", "approve", "approving", "call"} : R!Goto(at)
      <4>1. PICK at \in {"check", "allowance", "approve", "approving", "call"} : R!Goto(at)
        BY <3>3
      <4>2. pay' \in PayType /\ pay'.at = at /\ pay'.warmed = pay.warmed
        BY <2>3, <4>1
      <4>3. QED
        BY <3>1, <4>2
    <3>4. QED
      BY <2>4, <3>1, <3>2, <3>3
  <2>6. QED
    BY <2>1, <2>2, <2>5
<1>5. pay' \in PayType
  BY <1>1, <1>4 DEF ApprovalTypes
<1>6. allowance' \in BOOLEAN
  BY <1>1, Zenon DEF ApprovalTypes, R!Press, R!JoinEnds, R!GiveUpWaiting, R!CheckBalance, R!ReadAllowance,
     R!SignApproval, R!MineApproval, R!FailPayment, R!Call, R!Receive, R!wallet
<1>7. /\ presses' \in 0 .. MaxPresses /\ approvals' \in Nat /\ glitches' \in 0 .. MaxGlitches
      /\ glitches' >= glitches
  BY <1>1 DEF ApprovalTypes, R!Press, R!JoinEnds, R!GiveUpWaiting, R!CheckBalance, R!ReadAllowance,
     R!SignApproval, R!MineApproval, R!FailPayment, R!Call, R!Receive, R!wallet, R!payVars, R!Glitch
<1>8. balance' \in {"none", "some", "enough"}
  BY <1>1 DEF ApprovalTypes, R!Press, R!JoinEnds, R!GiveUpWaiting, R!CheckBalance, R!ReadAllowance,
     R!SignApproval, R!MineApproval, R!FailPayment, R!Call, R!Receive, R!wallet
<1>9. ApprovalTypes'
  BY <1>1, <1>3, <1>5, <1>6, <1>7, <1>8 DEF ApprovalTypes
<1>10. mounts' = 0 => NoWarm'
  <2>1. SUFFICES ASSUME mounts' = 0
                 PROVE  NoWarm'
    OBVIOUS
  <2>2. NoWarm
    BY <1>2, <1>3, <2>1
  <2>3. R!Receive
    BY <1>1, <1>3, <1>4, <2>1, <2>2 DEF NoWarm, R!Press
  <2>4. QED
    BY <1>3, <2>2, <2>3 DEF R!Receive, NoWarm, R!payVars
<1>11. mounts' = 1 /\ glitches' = 0 => OneWarm'
  <2>1. SUFFICES ASSUME mounts' = 1, glitches' = 0
                 PROVE  OneWarm'
    OBVIOUS
  <2>2. OneWarm /\ glitches = 0
    BY <1>1, <1>2, <1>3, <1>7, <2>1 DEF ApprovalTypes
  <2>3. CASE R!Press
    <3>1. UNCHANGED <<allowance, approvals>> /\ pay.at = "idle"
      BY <2>3 DEF R!Press, R!wallet, R!At
    <3>2. /\ pay'.at # "idle" /\ pay'.at \in {"check", "wait"}
          /\ (inFlight # 0 => pay'.warmed)
      BY <1>1, <2>3, NewPay
    <3>3. QED
      BY <1>3, <2>2, <3>1, <3>2 DEF OneWarm
  <2>4. CASE R!Receive
    BY <1>3, <2>2, <2>4 DEF R!Receive, OneWarm, R!payVars
  <2>5. CASE R!JoinEnds \/ R!GiveUpWaiting
    <3>1. UNCHANGED <<allowance, approvals>> /\ pay.at = "wait"
      BY <2>5 DEF R!JoinEnds, R!GiveUpWaiting, R!wallet, R!At
    <3>2. pay'.at = "check" /\ pay'.warmed = pay.warmed
      BY <1>1, <2>5, GotoPay DEF R!JoinEnds, R!GiveUpWaiting, ApprovalTypes
    <3>3. QED
      BY <1>3, <2>2, <3>1, <3>2 DEF OneWarm
  <2>6. CASE R!CheckBalance
    <3>1. UNCHANGED <<allowance, approvals>> /\ pay.at = "check"
      BY <2>6 DEF R!CheckBalance, R!wallet, R!At
    <3>2. \/ pay'.at = "idle"
          \/ pay'.at = "call" /\ pay.warmed /\ pay'.warmed = pay.warmed
          \/ pay'.at = "allowance" /\ ~pay.warmed /\ pay'.warmed = pay.warmed
      <4>1. CASE R!Return
        BY <4>1, ReturnPay
      <4>2. CASE pay.warmed /\ R!Goto("call")
        BY <1>1, <4>2, GotoPay DEF ApprovalTypes
      <4>3. CASE ~pay.warmed /\ R!Goto("allowance")
        BY <1>1, <4>3, GotoPay DEF ApprovalTypes
      <4>4. QED
        BY <2>6, <4>1, <4>2, <4>3 DEF R!CheckBalance
    <3>3. QED
      BY <1>3, <2>2, <3>1, <3>2 DEF OneWarm
  <2>7. CASE R!ReadAllowance
    <3>1. UNCHANGED <<allowance, approvals>> /\ pay.at = "allowance"
      BY <2>7 DEF R!ReadAllowance, R!wallet, R!At
    <3>2. \/ pay'.at = "call" /\ allowance
          \/ pay'.at = "approve" /\ ~allowance
      <4>1. CASE allowance /\ R!Goto("call")
        BY <1>1, <4>1, GotoPay DEF ApprovalTypes
      <4>2. CASE ~allowance /\ R!Goto("approve")
        BY <1>1, <4>2, GotoPay DEF ApprovalTypes
      <4>3. QED
        BY <2>7, <4>1, <4>2 DEF R!ReadAllowance
    <3>3. run[1] = "over"
      BY <2>2, <3>1 DEF OneWarm
    <3>4. QED
      BY <1>3, <2>2, <3>1, <3>2, <3>3 DEF OneWarm
  <2>8. CASE R!SignApproval
    <3>1. /\ UNCHANGED allowance /\ approvals' = approvals + 1 /\ pay.at = "approve"
          /\ pay'.at = "approving"
      BY <1>1, <2>8, GotoPay DEF R!SignApproval, R!wallet, R!At, ApprovalTypes
    <3>2. run[1] = "over" /\ ~allowance /\ approvals = 0
      BY <2>2, <3>1 DEF OneWarm
    <3>3. QED
      BY <1>3, <2>2, <3>1, <3>2 DEF OneWarm
  <2>9. CASE R!MineApproval
    <3>1. UNCHANGED approvals /\ pay.at = "approving" /\ pay'.at = "call"
      BY <1>1, <2>9, GotoPay DEF R!MineApproval, R!At, ApprovalTypes
    <3>2. run[1] = "over" /\ ~allowance /\ approvals = 1
      BY <2>2, <3>1 DEF OneWarm
    <3>3. allowance'
      BY <2>9, Zenon DEF R!MineApproval
    <3>4. QED
      BY <1>3, <2>2, <3>1, <3>2, <3>3 DEF OneWarm
  <2>10. CASE R!Call
    <3>1. UNCHANGED <<allowance, approvals>> /\ pay.at = "call" /\ pay'.at = "idle"
      BY <2>10, ReturnPay DEF R!Call, R!At
    <3>2. QED
      BY <1>3, <2>2, <3>1 DEF OneWarm
  <2>11. ~R!FailPayment
    BY <1>1, <2>1 DEF R!FailPayment, R!Glitch, ApprovalTypes
  <2>12. QED
    BY <2>3, <2>4, <2>5, <2>6, <2>7, <2>8, <2>9, <2>10, <2>11
<1>12. QED
  BY <1>9, <1>10, <1>11, ApprovalTyped DEF ApprovalInv, R!TypeOK, ApprovalTypes, PayType, R!Run

LEMMA ApprovalStep ==
    ASSUME ApprovalInv, [R!Next]_(R!vars)
    PROVE  ApprovalInv'
<1>1. CASE UNCHANGED R!vars
  BY <1>1 DEF R!vars, ApprovalInv, NoWarm, OneWarm, R!TypeOK
<1>2. CASE R!Mount
  <2>1. mounts + 1 \in R!Run
    BY <1>2, ApprovalConstants DEF R!Mount, R!Run, ApprovalInv, R!TypeOK
  <2>2. QED
    BY <1>2, <2>1, WarmSteps
<1>3. ASSUME NEW r \in R!Run, R!ReadBoth(r) \/ R!SignWarm(r) \/ R!MineWarm(r) \/ R!FailWarm(r)
      PROVE  ApprovalInv'
  BY <1>3, WarmSteps
<1>4. QED
  BY <1>1, <1>2, <1>3, PaySteps DEF R!Next

\* With one screen and nothing failing, a payment that comes at any moment of the warm approval
\* signs no second one: it waits, or gives up waiting and goes without, or comes after it.
THEOREM ApprovalsAreNotRepeated == PaymentsSpec => []OneSignature
<1>1. R!Init => ApprovalInv
  BY ApprovalInit
<1>2. ApprovalInv /\ [R!Next]_(R!vars) => ApprovalInv'
  BY ApprovalStep
<1>3. ApprovalInv => OneSignature
  <2>1. ASSUME ApprovalInv
        PROVE  R!OneSignature
    <3>1. CASE mounts = 0
      BY <2>1, <3>1 DEF ApprovalInv, NoWarm, R!OneSignature
    <3>2. CASE mounts = 1 /\ glitches = 0
      <4>1. OneWarm /\ run[1] \in {"off", "read", "sign", "mine", "over"} /\ 1 \in R!Run
        BY <2>1, <3>2 DEF ApprovalInv, R!TypeOK, R!Run
      <4>2. QED
        BY <4>1 DEF OneWarm, R!OneSignature
    <3>3. QED
      BY <2>1, <3>1, <3>2 DEF ApprovalInv, R!TypeOK, R!OneSignature
  <2>2. QED
    BY <2>1 DEF ApprovalInv, OneSignature
<1>4. QED
  BY <1>1, <1>2, <1>3, ApprovalsRun, PTL DEF R!Spec

-----------------------------------------------------------------------------
(* The Earn screen and its history. *)

LEMMA StakesRun == PaymentsSpec => K!Spec
<1>1. PaymentsInit => K!Init
  BY DEF PaymentsInit
<1>2. [PaymentsNext]_allVars => [K!Next]_(K!vars)
  BY DEF PaymentsNext, allVars, KVars, K!vars
<1>3. QED
  BY <1>1, <1>2, PTL DEF PaymentsSpec, K!Spec

LEMMA StakeConstants ==
    /\ Amounts \subseteq Nat \ {0} /\ Wealth \in Nat /\ MaxEarned \in Nat
    /\ MaxTxs \in Nat \ {0} /\ MaxAway \in Nat /\ MaxSlips \in Nat
BY ScreensAssumption DEF ScreensAssumption

LEMMA AmountsAreNumbers == \A a \in Amounts \cup {0} : a \in Nat
<1>1. \A a \in Amounts : a \in Nat
  BY StakeConstants
<1>2. 0 \in Nat
  OBVIOUS
<1>3. QED
  BY <1>1, <1>2, Zenon

LEMMA TimesMonotone ==
    ASSUME NEW a \in Nat, NEW b \in Nat, NEW m \in Nat, a <= b
    PROVE  /\ a * m \in Nat /\ b * m \in Nat /\ a * m <= b * m
           /\ (a + 1) * m = a * m + m
<1>1. (b - a) * m >= 0 /\ b - a \in Nat
  OBVIOUS
<1>2. (b - a) * m = b * m - a * m
  OBVIOUS
<1>3. QED
  BY <1>1, <1>2

\* Takings: how often the reward can be taken in all.
Takings == MaxTxs + MaxAway
TxType == [at : {"none", "sent", "mined", "reverted"}, does : K!Kinds,
           amount : Amounts \cup {0}, reward : 0 .. MaxEarned, nth : 0 .. Takings]
EntryType == [tab : {"stake", "unstake"}, amount : Amounts \cup {0}, action : {"idle"} \cup K!Kinds,
              tx : {0} \cup K!Tx, counted : 0 .. MaxEarned, seenAt : 0 .. Takings]
RowType == [type : {"none", "stake", "unstake", "stake_reward"}, from : {"none", "me", "pool"},
            to : {"none", "me", "pool"}, amount : 0 .. K!Most, harvested : 0 .. MaxEarned]

\* K!TypeOK, less what follows from the sums below.
StakeTypes ==
    /\ stake \in [staked : Nat, earned : 0 .. MaxEarned]
    /\ purse \in Nat
    /\ txs \in [K!Tx -> TxType]
    /\ rows \in [K!Tx -> RowType]
    /\ info \in [staked : 0 .. K!Most, earned : 0 .. MaxEarned, harvests : 0 .. Takings]
    /\ held \in 0 .. K!Most
    /\ entry \in EntryType
    /\ claimed \in [tx : {0} \cup K!Tx, says : 0 .. MaxEarned, seenAt : 0 .. Takings]
    /\ posts \subseteq K!Tx
    /\ harvests \in Nat
    /\ away \in 0 .. MaxAway /\ slips \in 0 .. MaxSlips

\* Each harvest is a mined transaction's or another device's, and what they brought is all there
\* is beside what the wallet held to begin with.
MinedTxs == {t \in K!Tx : txs[t].at = "mined"}
HarvestsCount == harvests <= Cardinality(MinedTxs) + away
NothingFromNowhere == purse + stake.staked <= Wealth + harvests * MaxEarned

\* A transaction that is mined moved what was there; a claim moves no principal.
MovesWhatIsThere ==
    \A t \in K!Tx :
        /\ txs[t].at = "mined" => txs[t].amount <= K!Most
        /\ txs[t].does = "claim" => txs[t].amount = 0

\* Only what is mined is filed, as the receipt tells it.
RowsAreReceipts ==
    \A t \in K!Tx :
        /\ t \in posts => txs[t].at = "mined"
        /\ rows[t] # K!NoRow => txs[t].at = "mined" /\ rows[t] = K!PrincipalFirst(txs[t])

\* What the screen has read of the reward is never more than there is, unless it was taken since.
ReadBefore == info.harvests <= harvests /\ (info.harvests = harvests => info.earned <= stake.earned)
PressedBefore ==
    entry.action = "claim" =>
        /\ entry.seenAt <= harvests
        /\ entry.seenAt = harvests => entry.counted <= stake.earned
        /\ entry.tx # 0 /\ txs[entry.tx].at = "mined" /\ txs[entry.tx].nth = entry.seenAt =>
              entry.counted <= txs[entry.tx].reward
SignedForIt == entry.tx # 0 => txs[entry.tx].at # "none" /\ txs[entry.tx].does = entry.action

StakesInv ==
    /\ StakeTypes /\ HarvestsCount /\ NothingFromNowhere /\ MovesWhatIsThere /\ RowsAreReceipts
    /\ ReadBefore /\ PressedBefore /\ SignedForIt /\ K!ClaimWasMade

LEMMA MinedBounds ==
    ASSUME StakeTypes
    PROVE  IsFiniteSet(MinedTxs) /\ Cardinality(MinedTxs) \in Nat /\ Cardinality(MinedTxs) <= MaxTxs
<1>1. IsFiniteSet(1 .. MaxTxs) /\ Cardinality(1 .. MaxTxs) = MaxTxs
  BY FS_Interval, StakeConstants
<1>2. MinedTxs \in SUBSET (1 .. MaxTxs)
  BY DEF MinedTxs, K!Tx
<1>3. IsFiniteSet(MinedTxs) /\ Cardinality(MinedTxs) <= MaxTxs
  BY <1>1, <1>2, FS_Subset
<1>4. QED
  BY <1>3, FS_CardinalityType

\* The sums give the bounds of the types.
LEMMA StakesBounded ==
    ASSUME StakesInv
    PROVE  harvests \in 0 .. Takings /\ purse \in 0 .. K!Most /\ stake.staked \in 0 .. K!Most
           /\ K!Most \in Nat /\ MaxEarned <= K!Most /\ stake.earned \in 0 .. MaxEarned
<1>1. StakeTypes /\ HarvestsCount /\ NothingFromNowhere
  BY DEF StakesInv
<1>2. Cardinality(MinedTxs) \in Nat /\ Cardinality(MinedTxs) <= MaxTxs
  BY <1>1, MinedBounds
<1>3. harvests \in Nat /\ away \in 0 .. MaxAway /\ purse \in Nat /\ stake.staked \in Nat
      /\ stake.earned \in 0 .. MaxEarned
  BY <1>1 DEF StakeTypes
<1>4. harvests \in 0 .. Takings /\ Takings \in Nat
  BY <1>1, <1>2, <1>3, StakeConstants DEF HarvestsCount, Takings
<1>5. /\ harvests * MaxEarned \in Nat /\ Takings * MaxEarned \in Nat
      /\ harvests * MaxEarned <= Takings * MaxEarned
  BY <1>3, <1>4, StakeConstants, TimesMonotone
<1>6. K!Most = Wealth + Takings * MaxEarned
  BY DEF K!Most, Takings
<1>7. 1 * MaxEarned <= Takings * MaxEarned
  BY StakeConstants, <1>4, TimesMonotone DEF Takings
<1>8. QED
  BY <1>1, <1>3, <1>4, <1>5, <1>6, <1>7, StakeConstants DEF NothingFromNowhere

LEMMA StakesTyped ==
    ASSUME StakesInv
    PROVE  K!TypeOK
<1>1. StakeTypes
  BY DEF StakesInv
<1>2. stake \in [staked : 0 .. K!Most, earned : 0 .. MaxEarned]
  BY <1>1, StakesBounded DEF StakeTypes
<1>3. QED
  BY <1>1, <1>2, StakesBounded DEF StakeTypes, K!TypeOK, TxType, EntryType, RowType, Takings

\* A row of a mined transaction tells what the transaction did.
LEMMA RowsTell ==
    ASSUME StakesInv
    PROVE  K!HistoryIsTrue
<1>1. SUFFICES ASSUME NEW t \in K!Tx, rows[t] # K!NoRow
               PROVE  txs[t].at = "mined" /\ K!Tells(rows[t]) = K!Did(txs[t])
  BY DEF K!HistoryIsTrue
<1>2. txs[t] \in TxType /\ rows[t] = K!PrincipalFirst(txs[t]) /\ txs[t].at = "mined"
      /\ (txs[t].does = "claim" => txs[t].amount = 0)
  BY <1>1 DEF StakesInv, StakeTypes, RowsAreReceipts, MovesWhatIsThere
<1>3. txs[t].reward \in Nat /\ txs[t].amount \in Nat /\ txs[t].does \in {"stake", "unstake", "claim"}
  <2>1. /\ txs[t].reward \in 0 .. MaxEarned /\ txs[t].amount \in Amounts \cup {0}
        /\ txs[t].does \in K!Kinds
    BY <1>2 DEF TxType
  <2>2. txs[t].amount \in Nat
    BY <2>1, AmountsAreNumbers
  <2>3. txs[t].reward \in Nat
    BY <2>1, StakeConstants
  <2>4. QED
    BY <2>1, <2>2, <2>3 DEF K!Kinds
<1>4. CASE txs[t].does = "stake"
  BY <1>2, <1>3, <1>4 DEF K!PrincipalFirst, K!Tells, K!Did, K!directionFor
<1>5. CASE txs[t].does = "unstake"
  BY <1>2, <1>3, <1>5 DEF K!PrincipalFirst, K!Tells, K!Did, K!directionFor
<1>6. CASE txs[t].does = "claim" /\ txs[t].reward > 0
  BY <1>2, <1>3, <1>6 DEF K!PrincipalFirst, K!Tells, K!Did, K!directionFor
<1>7. CASE txs[t].does = "claim" /\ txs[t].reward = 0
  BY <1>1, <1>2, <1>3, <1>7 DEF K!PrincipalFirst
<1>8. QED
  BY <1>2, <1>3, <1>4, <1>5, <1>6, <1>7

LEMMA StakesInit ==
    ASSUME K!Init
    PROVE  StakesInv
<1>1. K!Most \in Nat /\ Wealth <= K!Most /\ Takings \in Nat
  <2>1. Takings \in Nat
    BY StakeConstants DEF Takings
  <2>2. Takings * MaxEarned \in Nat
    BY <2>1, StakeConstants, TimesMonotone
  <2>3. K!Most = Wealth + Takings * MaxEarned
    BY DEF K!Most, Takings
  <2>4. QED
    BY <2>1, <2>2, <2>3, StakeConstants
<1>2. K!NoTx \in TxType
  BY <1>1, StakeConstants DEF K!NoTx, TxType, K!Kinds
<1>3. K!NoRow \in RowType
  BY <1>1, StakeConstants DEF K!NoRow, RowType
<1>4. K!Entry \in EntryType /\ K!Entry.action = "idle" /\ K!Entry.tx = 0
  BY <1>1, StakeConstants DEF K!Entry, EntryType
<1>5. StakeTypes
  BY <1>1, <1>2, <1>3, <1>4, StakeConstants DEF K!Init, StakeTypes, K!NoClaim
<1>6. MovesWhatIsThere /\ RowsAreReceipts
  BY DEF K!Init, MovesWhatIsThere, RowsAreReceipts, K!NoTx
<1>7. HarvestsCount
  BY <1>5, MinedBounds DEF K!Init, HarvestsCount
<1>8. NothingFromNowhere
  BY StakeConstants DEF K!Init, NothingFromNowhere
<1>9. ReadBefore /\ PressedBefore /\ SignedForIt /\ K!ClaimWasMade
  BY <1>4 DEF K!Init, ReadBefore, PressedBefore, SignedForIt, K!ClaimWasMade, K!NoClaim
<1>10. QED
  BY <1>5, <1>6, <1>7, <1>8, <1>9 DEF StakesInv

-----------------------------------------------------------------------------
(* Steps that leave the chain alone. *)

ChainRests == stake' = stake /\ purse' = purse /\ txs' = txs /\ harvests' = harvests /\ away' = away

LEMMA SumsRest ==
    ASSUME StakesInv, ChainRests
    PROVE  HarvestsCount' /\ NothingFromNowhere' /\ MovesWhatIsThere'
<1>1. MinedTxs' = MinedTxs
  BY DEF ChainRests, MinedTxs
<1>2. QED
  BY <1>1 DEF StakesInv, ChainRests, HarvestsCount, NothingFromNowhere, MovesWhatIsThere

\* A new entry of the form, or a new report of a claim; the rest keeps its value.
LEMMA ScreenMoves ==
    ASSUME StakesInv, ChainRests, rows' = rows, info' = info, held' \in 0 .. K!Most,
           posts' \subseteq K!Tx, \A t \in posts' : txs[t].at = "mined",
           slips' \in 0 .. MaxSlips, entry' \in EntryType,
           claimed' \in [tx : {0} \cup K!Tx, says : 0 .. MaxEarned, seenAt : 0 .. Takings],
           PressedBefore', SignedForIt', K!ClaimWasMade'
    PROVE  StakesInv'
<1>1. StakeTypes'
  BY DEF StakesInv, StakeTypes, ChainRests
<1>2. RowsAreReceipts'
  BY DEF StakesInv, RowsAreReceipts, ChainRests
<1>3. ReadBefore'
  BY DEF StakesInv, ReadBefore, ChainRests
<1>4. QED
  BY <1>1, <1>2, <1>3, SumsRest DEF StakesInv

LEMMA FormSteps ==
    ASSUME StakesInv, NEW a \in Amounts \cup {0},
           K!SwitchTab \/ K!TypeAmount(a) \/ K!PressStake \/ K!PressClaim
    PROVE  StakesInv'
<1>1. /\ entry \in EntryType /\ info \in [staked : 0 .. K!Most, earned : 0 .. MaxEarned, harvests : 0 .. Takings]
      /\ entry.action = "idle" /\ entry.tx \in {0} \cup K!Tx /\ SignedForIt
  BY DEF StakesInv, StakeTypes, EntryType, K!SwitchTab, K!TypeAmount, K!PressStake, K!PressClaim, K!Free
<1>2. entry.tx = 0
  <2>1. K!Free
    BY DEF K!SwitchTab, K!TypeAmount, K!PressStake, K!PressClaim
  <2>2. entry.tx # 0 => txs[entry.tx].does = "idle" /\ txs[entry.tx].does \in K!Kinds
    BY <1>1 DEF SignedForIt, StakesInv, StakeTypes, TxType
  <2>3. QED
    BY <2>2 DEF K!Kinds
<1>3. /\ ChainRests /\ rows' = rows /\ info' = info /\ held' = held /\ posts' = posts
      /\ slips' = slips /\ claimed' = claimed
  BY DEF K!SwitchTab, K!TypeAmount, K!PressStake, K!PressClaim, ChainRests, K!chain, K!books
<1>4. /\ entry' \in EntryType /\ entry'.tx = 0
      /\ entry'.action = "claim" => entry'.counted = info.earned /\ entry'.seenAt = info.harvests
  <2>1. CASE K!SwitchTab
    BY <1>1, <1>2, <2>1 DEF K!SwitchTab, EntryType
  <2>2. CASE K!TypeAmount(a)
    BY <1>1, <1>2, <2>2 DEF K!TypeAmount, EntryType
  <2>3. CASE K!PressStake
    <3>1. entry'.action = entry.tab /\ entry.tab \in {"stake", "unstake"}
      BY <1>1, <2>3 DEF K!PressStake, EntryType
    <3>2. entry' = [entry EXCEPT !.action = entry.tab]
      BY <2>3 DEF K!PressStake
    <3>3. QED
      BY <1>1, <1>2, <3>1, <3>2 DEF EntryType, K!Kinds
  <2>4. CASE K!PressClaim
    <3>1. entry' = [entry EXCEPT !.action = "claim", !.counted = info.earned, !.seenAt = info.harvests]
      BY <2>4 DEF K!PressClaim
    <3>2. info.earned \in 0 .. MaxEarned /\ info.harvests \in 0 .. Takings
      BY <1>1
    <3>3. QED
      BY <1>1, <1>2, <3>1, <3>2 DEF EntryType, K!Kinds
  <2>5. QED
    BY <2>1, <2>2, <2>3, <2>4
<1>5. PressedBefore' /\ SignedForIt'
  BY <1>3, <1>4 DEF PressedBefore, SignedForIt, StakesInv, ReadBefore, ChainRests
<1>6. K!ClaimWasMade'
  BY <1>3 DEF K!ClaimWasMade, StakesInv, ChainRests
<1>7. held' \in 0 .. K!Most /\ posts' \subseteq K!Tx /\ slips' \in 0 .. MaxSlips
      /\ claimed' \in [tx : {0} \cup K!Tx, says : 0 .. MaxEarned, seenAt : 0 .. Takings]
      /\ \A t \in posts' : txs[t].at = "mined"
  BY <1>3 DEF StakesInv, StakeTypes, RowsAreReceipts
<1>8. QED
  BY <1>3, <1>4, <1>5, <1>6, <1>7, ScreenMoves

LEMMA RestsTyped ==
    ASSUME entry \in EntryType
    PROVE  K!Rest \in EntryType /\ K!Rest.action = "idle" /\ K!Rest.tx = 0
<1>1. 0 \in 0 .. MaxEarned /\ 0 \in 0 .. Takings
  BY StakeConstants DEF Takings
<1>2. QED
  BY <1>1 DEF K!Rest, EntryType

LEMMA SlipsTyped ==
    ASSUME slips \in 0 .. MaxSlips, K!Glitch \/ slips' = slips
    PROVE  slips' \in 0 .. MaxSlips
BY StakeConstants DEF K!Glitch

\* What a claim says was paid is what its button counted, and its transaction is mined.
LEMMA WaitEndsSafe ==
    ASSUME StakesInv, K!WaitEnds
    PROVE  StakesInv'
<1>1. /\ entry \in EntryType /\ entry.tx \in K!Tx /\ slips \in 0 .. MaxSlips
      /\ claimed \in [tx : {0} \cup K!Tx, says : 0 .. MaxEarned, seenAt : 0 .. Takings]
  BY DEF StakesInv, StakeTypes, K!WaitEnds, EntryType
<1>2. entry' = K!Rest /\ ChainRests /\ rows' = rows /\ info' = info /\ held' = held
  BY DEF K!WaitEnds, ChainRests, K!chain
<1>3. entry' \in EntryType /\ entry'.action = "idle" /\ entry'.tx = 0
  BY <1>1, <1>2, RestsTyped
<1>4. slips' \in 0 .. MaxSlips
  BY <1>1, SlipsTyped DEF K!WaitEnds
<1>5. /\ posts' \subseteq K!Tx /\ \A t \in posts' : txs[t].at = "mined"
  BY <1>1 DEF StakesInv, StakeTypes, RowsAreReceipts, K!WaitEnds
<1>6. \/ claimed' = claimed
      \/ /\ claimed' = [tx |-> entry.tx, says |-> entry.counted, seenAt |-> entry.seenAt]
         /\ entry.action = "claim" /\ txs[entry.tx].at = "mined"
  BY DEF K!WaitEnds, K!Says
<1>7. claimed' \in [tx : {0} \cup K!Tx, says : 0 .. MaxEarned, seenAt : 0 .. Takings]
  BY <1>1, <1>6 DEF EntryType
<1>8. K!ClaimWasMade'
  <2>1. CASE claimed' = claimed
    BY <1>2, <2>1 DEF K!ClaimWasMade, StakesInv, ChainRests
  <2>2. CASE /\ claimed' = [tx |-> entry.tx, says |-> entry.counted, seenAt |-> entry.seenAt]
             /\ entry.action = "claim" /\ txs[entry.tx].at = "mined"
    <3>1. entry.tx # 0
      BY DEF K!WaitEnds
    <3>2. txs[entry.tx].does = "claim"
          /\ (txs[entry.tx].nth = entry.seenAt => entry.counted <= txs[entry.tx].reward)
      BY <2>2, <3>1 DEF StakesInv, SignedForIt, PressedBefore
    <3>3. txs' = txs
      BY <1>2 DEF ChainRests
    <3>4. QED
      BY <2>2, <3>2, <3>3 DEF K!ClaimWasMade
  <2>3. QED
    BY <1>6, <2>1, <2>2
<1>9. PressedBefore' /\ SignedForIt'
  BY <1>3 DEF PressedBefore, SignedForIt
<1>10. held' \in 0 .. K!Most
  BY <1>2 DEF StakesInv, StakeTypes
<1>11. QED
  BY <1>2, <1>3, <1>4, <1>5, <1>7, <1>8, <1>9, <1>10, ScreenMoves

LEMMA RefreshSafe ==
    ASSUME StakesInv, K!RefreshBalance
    PROVE  StakesInv'
<1>1. /\ held' = purse /\ ChainRests /\ rows' = rows /\ posts' = posts /\ info' = info /\ entry' = entry
      /\ claimed' = claimed /\ slips' = slips
  BY DEF K!RefreshBalance, ChainRests, K!chain, K!books
<1>2. held' \in 0 .. K!Most
  BY <1>1, StakesBounded
<1>3. /\ posts' \subseteq K!Tx /\ \A t \in posts' : txs[t].at = "mined"
      /\ slips' \in 0 .. MaxSlips /\ entry' \in EntryType
      /\ claimed' \in [tx : {0} \cup K!Tx, says : 0 .. MaxEarned, seenAt : 0 .. Takings]
  BY <1>1 DEF StakesInv, StakeTypes, RowsAreReceipts
<1>4. PressedBefore' /\ SignedForIt' /\ K!ClaimWasMade'
  BY <1>1 DEF StakesInv, PressedBefore, SignedForIt, K!ClaimWasMade, ChainRests
<1>5. QED
  BY <1>1, <1>2, <1>3, <1>4, ScreenMoves

\* The screen reads the stake again: what it has is what there is.
LEMMA ReadTyped ==
    ASSUME StakesInv
    PROVE  /\ K!Read \in [staked : 0 .. K!Most, earned : 0 .. MaxEarned, harvests : 0 .. Takings]
           /\ K!Read.harvests = harvests /\ K!Read.earned = stake.earned
BY StakesBounded DEF K!Read

LEMMA ReloadSafe ==
    ASSUME StakesInv, K!ReloadScreen
    PROVE  StakesInv'
<1>1. /\ info' = K!Read /\ held' = purse /\ entry' = K!Entry /\ claimed' = K!NoClaim
      /\ ChainRests /\ rows' = rows /\ posts' = posts /\ slips' = slips
  BY DEF K!ReloadScreen, ChainRests, K!chain, K!books
<1>2. /\ K!Entry \in EntryType /\ K!Entry.action = "idle" /\ K!Entry.tx = 0
      /\ K!NoClaim \in [tx : {0} \cup K!Tx, says : 0 .. MaxEarned, seenAt : 0 .. Takings]
      /\ K!NoClaim.tx = 0
  <2>1. 0 \in 0 .. MaxEarned /\ 0 \in 0 .. Takings
    BY StakeConstants DEF Takings
  <2>2. QED
    BY <2>1 DEF K!Entry, EntryType, K!NoClaim
<1>3. StakeTypes'
  BY <1>1, <1>2, ReadTyped, StakesBounded DEF StakesInv, StakeTypes, ChainRests
<1>4. RowsAreReceipts'
  BY <1>1 DEF StakesInv, RowsAreReceipts, ChainRests
<1>5. ReadBefore'
  <2>1. harvests \in Nat /\ stake.earned \in Nat
    BY StakesBounded
  <2>2. QED
    BY <1>1, <2>1, ReadTyped DEF ReadBefore, ChainRests
<1>6. PressedBefore' /\ SignedForIt' /\ K!ClaimWasMade'
  BY <1>1, <1>2 DEF PressedBefore, SignedForIt, K!ClaimWasMade
<1>7. QED
  BY <1>1, <1>3, <1>4, <1>5, <1>6, SumsRest DEF StakesInv

LEMMA ReceiptTyped ==
    ASSUME StakesInv, NEW t \in K!Tx, txs[t].at = "mined"
    PROVE  K!PrincipalFirst(txs[t]) \in RowType
<1>1. /\ txs[t].reward \in 0 .. MaxEarned /\ txs[t].amount \in Amounts \cup {0}
      /\ txs[t].amount <= K!Most
  BY DEF StakesInv, StakeTypes, TxType, MovesWhatIsThere
<1>2. /\ txs[t].amount \in 0 .. K!Most /\ txs[t].reward \in 0 .. K!Most
      /\ 0 \in 0 .. K!Most /\ 0 \in 0 .. MaxEarned
  BY <1>1, StakesBounded, StakeConstants
<1>3. QED
  BY <1>1, <1>2 DEF K!PrincipalFirst, RowType, K!NoRow

LEMMA RecordStakingSafe ==
    ASSUME StakesInv, NEW t \in K!Tx, K!RecordStaking(t)
    PROVE  StakesInv'
<1>1. /\ info' = K!Read /\ posts' \subseteq posts /\ ChainRests /\ held' = held /\ entry' = entry
      /\ claimed' = claimed
  BY DEF K!RecordStaking, ChainRests, K!chain
<1>2. txs[t].at = "mined"
  BY DEF K!RecordStaking, StakesInv, RowsAreReceipts
<1>3. rows \in [K!Tx -> RowType]
  BY DEF StakesInv, StakeTypes
<1>4. /\ rows' \in [K!Tx -> RowType]
      /\ \A u \in K!Tx : rows'[u] = rows[u] \/ (u = t /\ rows'[u] = K!PrincipalFirst(txs[u]))
  BY <1>2, <1>3, ReceiptTyped DEF K!RecordStaking
<1>5. slips' \in 0 .. MaxSlips
  BY SlipsTyped DEF StakesInv, StakeTypes, K!RecordStaking
<1>6. StakeTypes'
  BY <1>1, <1>4, <1>5, ReadTyped DEF StakesInv, StakeTypes, ChainRests
<1>7. RowsAreReceipts'
  BY <1>1, <1>2, <1>4 DEF StakesInv, RowsAreReceipts, ChainRests
<1>8. ReadBefore'
  <2>1. harvests \in Nat /\ stake.earned \in Nat
    BY StakesBounded
  <2>2. QED
    BY <1>1, <2>1, ReadTyped DEF ReadBefore, ChainRests
<1>9. PressedBefore' /\ SignedForIt' /\ K!ClaimWasMade'
  BY <1>1 DEF StakesInv, PressedBefore, SignedForIt, K!ClaimWasMade, ChainRests
<1>10. QED
  BY <1>6, <1>7, <1>8, <1>9, <1>1, SumsRest DEF StakesInv

-----------------------------------------------------------------------------
(* Steps of the chain. *)

\* The reward grows; what was read of it is then less.
LEMMA AccrueSafe ==
    ASSUME StakesInv, K!Accrue
    PROVE  StakesInv'
<1>1. /\ purse' = purse /\ txs' = txs /\ harvests' = harvests /\ away' = away /\ rows' = rows
      /\ posts' = posts /\ info' = info /\ held' = held /\ entry' = entry /\ claimed' = claimed
      /\ slips' = slips
  BY DEF K!Accrue, K!books
<1>2. stake \in [staked : Nat, earned : 0 .. MaxEarned]
  BY DEF StakesInv, StakeTypes
<1>3. stake' \in [staked : Nat, earned : 0 .. MaxEarned] /\ stake'.staked = stake.staked
      /\ stake'.earned > stake.earned /\ stake.earned \in Nat /\ stake'.earned \in Nat
  BY <1>2, StakeConstants DEF K!Accrue
<1>4. StakeTypes'
  BY <1>1, <1>3 DEF StakesInv, StakeTypes
<1>5. HarvestsCount' /\ NothingFromNowhere' /\ MovesWhatIsThere'
  BY <1>1, <1>3 DEF StakesInv, HarvestsCount, NothingFromNowhere, MovesWhatIsThere, MinedTxs
<1>6. RowsAreReceipts' /\ SignedForIt' /\ K!ClaimWasMade'
  BY <1>1 DEF StakesInv, RowsAreReceipts, SignedForIt, K!ClaimWasMade
<1>7. ReadBefore'
  <2>1. info.earned \in Nat
    BY StakeConstants DEF StakesInv, StakeTypes
  <2>2. QED
    BY <1>1, <1>3, <2>1 DEF StakesInv, ReadBefore
<1>8. PressedBefore'
  <2>1. entry.counted \in Nat
    BY StakeConstants DEF StakesInv, StakeTypes, EntryType
  <2>2. QED
    BY <1>1, <1>3, <2>1 DEF StakesInv, PressedBefore
<1>9. QED
  BY <1>4, <1>5, <1>6, <1>7, <1>8 DEF StakesInv

\* Another device takes the reward; what was read of it is then out of date, and known to be.
LEMMA ClaimElsewhereSafe ==
    ASSUME StakesInv, K!ClaimElsewhere
    PROVE  StakesInv'
<1>1. /\ txs' = txs /\ rows' = rows /\ posts' = posts /\ info' = info /\ held' = held
      /\ entry' = entry /\ claimed' = claimed /\ slips' = slips
  BY DEF K!ClaimElsewhere, K!books
<1>2. stake \in [staked : Nat, earned : 0 .. MaxEarned] /\ purse \in Nat /\ harvests \in Nat
      /\ away \in 0 .. MaxAway /\ stake.earned \in Nat /\ stake.earned <= MaxEarned
  BY StakeConstants DEF StakesInv, StakeTypes
<1>3. /\ stake' \in [staked : Nat, earned : 0 .. MaxEarned] /\ stake'.staked = stake.staked
      /\ purse' = purse + stake.earned /\ harvests' = harvests + 1 /\ away' = away + 1
      /\ away' \in 0 .. MaxAway /\ purse' \in Nat /\ harvests' \in Nat
  BY <1>2, StakeConstants DEF K!ClaimElsewhere
<1>4. StakeTypes'
  BY <1>1, <1>3 DEF StakesInv, StakeTypes
<1>5. HarvestsCount'
  <2>1. Cardinality(MinedTxs) \in Nat /\ MinedTxs' = MinedTxs
    BY <1>1, MinedBounds DEF StakesInv, MinedTxs
  <2>2. QED
    BY <1>2, <1>3, <2>1 DEF StakesInv, HarvestsCount
<1>6. NothingFromNowhere'
  <2>1. (harvests + 1) * MaxEarned = harvests * MaxEarned + MaxEarned /\ harvests * MaxEarned \in Nat
    BY <1>2, StakeConstants, TimesMonotone
  <2>2. stake.staked \in Nat
    BY <1>2
  <2>3. purse + stake.staked <= Wealth + harvests * MaxEarned
    BY DEF StakesInv, NothingFromNowhere
  <2>4. purse' + stake'.staked <= Wealth + harvests' * MaxEarned
    BY <1>2, <1>3, <2>1, <2>2, <2>3, StakeConstants
  <2>5. QED
    BY <2>4 DEF NothingFromNowhere
<1>7. MovesWhatIsThere' /\ RowsAreReceipts' /\ SignedForIt' /\ K!ClaimWasMade'
  BY <1>1 DEF StakesInv, RowsAreReceipts, SignedForIt, K!ClaimWasMade, MovesWhatIsThere
<1>8. ReadBefore'
  <2>1. info.harvests \in Nat /\ info.harvests <= harvests
    BY StakeConstants DEF StakesInv, StakeTypes, ReadBefore, Takings
  <2>2. QED
    BY <1>1, <1>2, <1>3, <2>1 DEF ReadBefore
<1>9. PressedBefore'
  <2>1. entry.seenAt \in Nat
    BY StakeConstants DEF StakesInv, StakeTypes, EntryType, Takings
  <2>2. entry.action = "claim" => entry.seenAt <= harvests
    BY DEF StakesInv, PressedBefore
  <2>3. entry'.action = "claim" => entry'.seenAt <= harvests' /\ entry'.seenAt # harvests'
    BY <1>1, <1>2, <1>3, <2>1, <2>2
  <2>4. QED
    BY <1>1, <2>3 DEF StakesInv, PressedBefore
<1>10. QED
  BY <1>4, <1>5, <1>6, <1>7, <1>8, <1>9 DEF StakesInv

\* A transaction that reverts moves nothing.
LEMMA RevertSafe ==
    ASSUME StakesInv, NEW t \in K!Tx, K!MineStaking(t), K!Reverts(txs[t].does, txs[t].amount)
    PROVE  StakesInv'
<1>1. /\ stake' = stake /\ purse' = purse /\ harvests' = harvests /\ away' = away /\ rows' = rows
      /\ posts' = posts /\ info' = info /\ held' = held /\ entry' = entry /\ claimed' = claimed
      /\ slips' = slips /\ txs' = [txs EXCEPT ![t].at = "reverted"] /\ txs[t].at = "sent"
  BY DEF K!MineStaking, K!books
<1>2. txs \in [K!Tx -> TxType]
  BY DEF StakesInv, StakeTypes
<1>3. /\ txs' \in [K!Tx -> TxType] /\ \A u \in K!Tx : u # t => txs'[u] = txs[u]
      /\ txs'[t].at = "reverted" /\ txs'[t].does = txs[t].does /\ txs'[t].amount = txs[t].amount
  BY <1>1, <1>2 DEF TxType
<1>4. StakeTypes'
  BY <1>1, <1>3 DEF StakesInv, StakeTypes
<1>5. MinedTxs' = MinedTxs
  BY <1>1, <1>3 DEF MinedTxs
<1>6. HarvestsCount' /\ NothingFromNowhere' /\ MovesWhatIsThere'
  BY <1>1, <1>3, <1>5 DEF StakesInv, HarvestsCount, NothingFromNowhere, MovesWhatIsThere
<1>7. RowsAreReceipts'
  BY <1>1, <1>3 DEF StakesInv, RowsAreReceipts
<1>8. ReadBefore'
  BY <1>1 DEF StakesInv, ReadBefore
<1>9. entry.tx \in {0} \cup K!Tx /\ claimed.tx \in {0} \cup K!Tx
  BY DEF StakesInv, StakeTypes, EntryType
<1>10. SignedForIt' /\ PressedBefore'
  BY <1>1, <1>3, <1>9 DEF StakesInv, SignedForIt, PressedBefore
<1>11. K!ClaimWasMade'
  BY <1>1, <1>3, <1>9 DEF StakesInv, K!ClaimWasMade
<1>12. QED
  BY <1>4, <1>6, <1>7, <1>8, <1>10, <1>11 DEF StakesInv

\* What a transaction that goes through moves is there to be moved.
LEMMA Moved ==
    ASSUME StakesInv, NEW t \in K!Tx, K!MineStaking(t), ~K!Reverts(txs[t].does, txs[t].amount)
    PROVE  /\ stake' \in [staked : Nat, earned : 0 .. MaxEarned] /\ stake'.earned = 0
           /\ purse' \in Nat
           /\ purse' + stake'.staked = purse + stake.staked + stake.earned
           /\ txs[t].amount <= K!Most
<1>1. /\ stake \in [staked : Nat, earned : 0 .. MaxEarned] /\ purse \in Nat /\ txs[t] \in TxType
      /\ (txs[t].does = "claim" => txs[t].amount = 0)
  BY DEF StakesInv, StakeTypes, MovesWhatIsThere
<1>2. stake.staked \in Nat /\ stake.earned \in Nat /\ 0 \in 0 .. MaxEarned
  BY <1>1, StakeConstants
<1>3. txs[t].amount \in Amounts \cup {0} /\ txs[t].does \in {"stake", "unstake", "claim"}
  BY <1>1 DEF TxType, K!Kinds
<1>4. txs[t].amount \in Nat
  BY <1>3, AmountsAreNumbers
<1>5. stake.staked <= K!Most /\ purse <= K!Most /\ K!Most \in Nat
  BY StakesBounded
<1>6. CASE txs[t].does = "stake"
  <2>1. txs[t].amount <= purse
    BY <1>1, <1>4, <1>6 DEF K!Reverts
  <2>2. /\ stake' = [staked |-> stake.staked + txs[t].amount, earned |-> 0]
        /\ purse' = purse - txs[t].amount + stake.earned
    BY <1>6 DEF K!MineStaking
  <2>3. QED
    BY <1>1, <1>2, <1>4, <1>5, <2>1, <2>2
<1>7. CASE txs[t].does = "unstake"
  <2>1. txs[t].amount <= stake.staked
    BY <1>2, <1>4, <1>7 DEF K!Reverts
  <2>2. /\ stake' = [staked |-> stake.staked + (-txs[t].amount), earned |-> 0]
        /\ purse' = purse - (-txs[t].amount) + stake.earned
    BY <1>7 DEF K!MineStaking
  <2>3. QED
    BY <1>1, <1>2, <1>4, <1>5, <2>1, <2>2
<1>8. CASE txs[t].does = "claim"
  <2>1. /\ stake' = [staked |-> stake.staked + 0, earned |-> 0]
        /\ purse' = purse - 0 + stake.earned
    BY <1>8 DEF K!MineStaking
  <2>2. QED
    BY <1>1, <1>2, <1>5, <1>8, <2>1
<1>9. QED
  BY <1>3, <1>6, <1>7, <1>8

LEMMA MineStakingSafe ==
    ASSUME StakesInv, NEW t \in K!Tx, K!MineStaking(t), ~K!Reverts(txs[t].does, txs[t].amount)
    PROVE  StakesInv'
<1>1. /\ txs[t].at = "sent" /\ away' = away /\ rows' = rows
      /\ posts' = posts /\ info' = info /\ held' = held /\ entry' = entry /\ claimed' = claimed
      /\ slips' = slips
  BY DEF K!MineStaking, K!books
<1>2. txs' = [txs EXCEPT ![t].at = "mined", ![t].reward = stake.earned, ![t].nth = harvests]
  BY DEF K!MineStaking
<1>3. harvests' = harvests + (IF stake.earned > 0 THEN 1 ELSE 0)
  BY DEF K!MineStaking
<1>4. /\ stake \in [staked : Nat, earned : 0 .. MaxEarned] /\ purse \in Nat /\ harvests \in Nat
      /\ txs \in [K!Tx -> TxType] /\ away \in 0 .. MaxAway
  BY DEF StakesInv, StakeTypes
<1>5. stake.earned \in 0 .. MaxEarned /\ harvests \in 0 .. Takings
  BY StakesBounded
<1>6. /\ txs' \in [K!Tx -> TxType] /\ \A u \in K!Tx : u # t => txs'[u] = txs[u]
      /\ txs'[t].at = "mined" /\ txs'[t].does = txs[t].does /\ txs'[t].amount = txs[t].amount
      /\ txs'[t].reward = stake.earned /\ txs'[t].nth = harvests
  BY <1>2, <1>4, <1>5 DEF TxType
<1>7. harvests' \in Nat /\ harvests' >= harvests /\ (harvests' = harvests => stake.earned = 0)
      /\ (stake.earned = 0 => harvests' = harvests) /\ (stake.earned # 0 => harvests' = harvests + 1)
  BY <1>3, <1>4, <1>5, StakeConstants
<1>8. /\ stake' \in [staked : Nat, earned : 0 .. MaxEarned] /\ stake'.earned = 0
      /\ purse' \in Nat
      /\ purse' + stake'.staked = purse + stake.staked + stake.earned
      /\ txs[t].amount <= K!Most
  BY Moved
<1>9. StakeTypes'
  BY <1>1, <1>6, <1>7, <1>8 DEF StakesInv, StakeTypes
<1>10. HarvestsCount'
  <2>1. MinedTxs' = MinedTxs \cup {t} /\ t \notin MinedTxs
    BY <1>1, <1>6 DEF MinedTxs
  <2>2. IsFiniteSet(MinedTxs) /\ Cardinality(MinedTxs) \in Nat
    BY MinedBounds DEF StakesInv
  <2>3. Cardinality(MinedTxs') = Cardinality(MinedTxs) + 1
    BY <2>1, <2>2, FS_AddElement
  <2>4. away \in Nat /\ harvests <= Cardinality(MinedTxs) + away
    BY <1>4, StakeConstants DEF StakesInv, HarvestsCount
  <2>5. harvests' <= Cardinality(MinedTxs') + away'
    BY <1>1, <1>4, <1>7, <2>2, <2>3, <2>4
  <2>6. QED
    BY <2>5 DEF HarvestsCount
<1>11. NothingFromNowhere'
  <2>1. (harvests + 1) * MaxEarned = harvests * MaxEarned + MaxEarned /\ harvests * MaxEarned \in Nat
    BY <1>4, StakeConstants, TimesMonotone
  <2>2. stake.staked \in Nat /\ stake'.staked \in Nat
    BY <1>4, <1>8
  <2>3. purse + stake.staked <= Wealth + harvests * MaxEarned
    BY DEF StakesInv, NothingFromNowhere
  <2>4. CASE stake.earned = 0
    BY <1>4, <1>7, <1>8, <2>1, <2>2, <2>3, <2>4, StakeConstants DEF NothingFromNowhere
  <2>5. CASE stake.earned # 0
    <3>1. harvests' * MaxEarned = harvests * MaxEarned + MaxEarned
      BY <1>7, <2>1, <2>5
    <3>2. stake.earned <= MaxEarned /\ stake.earned \in Nat
      BY <1>5, StakeConstants
    <3>3. QED
      BY <1>4, <1>8, <2>1, <2>2, <2>3, <3>1, <3>2, StakeConstants DEF NothingFromNowhere
  <2>6. QED
    BY <2>4, <2>5
<1>12. MovesWhatIsThere'
  BY <1>6, <1>8 DEF StakesInv, MovesWhatIsThere
<1>13. RowsAreReceipts'
  BY <1>1, <1>6 DEF StakesInv, RowsAreReceipts
<1>14. ReadBefore'
  <2>1. info.harvests \in Nat /\ info.earned \in Nat /\ info.harvests <= harvests
        /\ (info.harvests = harvests => info.earned <= stake.earned)
    BY StakeConstants DEF StakesInv, StakeTypes, ReadBefore, Takings
  <2>2. info.harvests = harvests' => harvests' = harvests
    BY <1>4, <1>7, <2>1
  <2>3. QED
    BY <1>1, <1>4, <1>7, <1>8, <2>1, <2>2 DEF ReadBefore
<1>15. entry.tx \in {0} \cup K!Tx /\ claimed.tx \in {0} \cup K!Tx
  BY DEF StakesInv, StakeTypes, EntryType
<1>16. SignedForIt'
  BY <1>1, <1>6, <1>15 DEF StakesInv, SignedForIt
<1>17. PressedBefore'
  <2>1. SUFFICES ASSUME entry.action = "claim"
                 PROVE  PressedBefore'
    BY <1>1 DEF PressedBefore
  <2>2. entry.seenAt \in Nat /\ entry.counted \in Nat
    BY StakeConstants DEF StakesInv, StakeTypes, EntryType, Takings
  <2>3. entry.seenAt <= harvests /\ (entry.seenAt = harvests => entry.counted <= stake.earned)
    BY <2>1 DEF StakesInv, PressedBefore
  <2>4. entry.seenAt <= harvests'
    BY <1>4, <1>7, <2>2, <2>3
  <2>5. entry.seenAt = harvests' => entry.counted <= stake'.earned
    <3>1. entry.seenAt = harvests' => harvests' = harvests
      BY <1>4, <1>7, <2>2, <2>3
    <3>2. QED
      BY <1>7, <1>8, <2>3, <3>1
  <2>6. entry.tx # 0 /\ txs'[entry.tx].at = "mined" /\ txs'[entry.tx].nth = entry.seenAt =>
          entry.counted <= txs'[entry.tx].reward
    <3>1. CASE entry.tx = t
      BY <1>6, <2>3, <3>1
    <3>2. CASE entry.tx # t
      BY <1>6, <1>15, <2>1, <3>2 DEF StakesInv, PressedBefore
    <3>3. QED
      BY <3>1, <3>2
  <2>7. QED
    BY <1>1, <2>4, <2>5, <2>6 DEF PressedBefore
<1>18. K!ClaimWasMade'
  BY <1>1, <1>6, <1>15 DEF StakesInv, K!ClaimWasMade
<1>19. QED
  BY <1>9, <1>10, <1>11, <1>12, <1>13, <1>14, <1>16, <1>17, <1>18 DEF StakesInv

\* The press that signs puts a transaction where there was none.
LEMMA SignStaking ==
    ASSUME StakesInv, NEW t \in K!Tx, K!Fresh(t), entry.action # "idle",
           txs' = [txs EXCEPT ![t] =
                     [at |-> "sent", does |-> entry.action, reward |-> 0, nth |-> 0,
                      amount |-> IF entry.action = "claim" THEN 0 ELSE entry.amount]],
           entry' = [entry EXCEPT !.tx = t], slips' = slips,
           stake' = stake, purse' = purse, harvests' = harvests, away' = away, rows' = rows,
           posts' = posts, info' = info, held' = held, claimed' = claimed
    PROVE  StakesInv'
<1>1. txs \in [K!Tx -> TxType] /\ entry \in EntryType /\ txs[t].at = "none"
      /\ t >= t
  <2>1. t \in Int
    BY StakeConstants DEF K!Tx
  <2>2. QED
    BY <2>1 DEF StakesInv, StakeTypes, K!Fresh
<1> DEFINE new == [at |-> "sent", does |-> entry.action, reward |-> 0, nth |-> 0,
                   amount |-> IF entry.action = "claim" THEN 0 ELSE entry.amount]
<1>2. new \in TxType
  <2>1. 0 \in 0 .. MaxEarned /\ 0 \in 0 .. Takings
    BY StakeConstants DEF Takings
  <2>2. entry.action \in K!Kinds /\ entry.amount \in Amounts \cup {0}
    BY <1>1 DEF EntryType
  <2>3. QED
    BY <2>1, <2>2 DEF TxType
<1>3. new.at = "sent" /\ new.does = entry.action /\ (entry.action = "claim" => new.amount = 0)
  OBVIOUS
<1>4. txs' = [txs EXCEPT ![t] = new]
  OBVIOUS
<1>. HIDE DEF new
<1>5. /\ txs' \in [K!Tx -> TxType] /\ \A u \in K!Tx : u # t => txs'[u] = txs[u]
      /\ txs'[t] = new
  BY <1>1, <1>2, <1>4
<1>6. entry' \in EntryType /\ entry'.tx = t /\ entry'.action = entry.action
      /\ entry'.seenAt = entry.seenAt /\ entry'.counted = entry.counted
  BY <1>1 DEF EntryType
<1>7. StakeTypes'
  BY <1>5, <1>6 DEF StakesInv, StakeTypes
<1>8. MinedTxs' = MinedTxs
  BY <1>1, <1>3, <1>5 DEF MinedTxs
<1>9. HarvestsCount' /\ NothingFromNowhere'
  BY <1>8 DEF StakesInv, HarvestsCount, NothingFromNowhere
<1>10. MovesWhatIsThere' /\ RowsAreReceipts'
  BY <1>1, <1>3, <1>5 DEF StakesInv, MovesWhatIsThere, RowsAreReceipts
<1>11. ReadBefore'
  BY DEF StakesInv, ReadBefore
<1>12. SignedForIt' /\ PressedBefore'
  BY <1>3, <1>5, <1>6 DEF StakesInv, SignedForIt, PressedBefore
<1>13. claimed.tx \in {0} \cup K!Tx
  BY DEF StakesInv, StakeTypes
<1>14. K!ClaimWasMade'
  BY <1>1, <1>5, <1>13 DEF StakesInv, K!ClaimWasMade
<1>15. QED
  BY <1>7, <1>9, <1>10, <1>11, <1>12, <1>14 DEF StakesInv

LEMMA SignStakingSafe ==
    ASSUME StakesInv, K!Sign
    PROVE  StakesInv'
<1>1. /\ stake' = stake /\ purse' = purse /\ harvests' = harvests /\ away' = away /\ rows' = rows
      /\ posts' = posts /\ info' = info /\ held' = held /\ claimed' = claimed
      /\ entry.action # "idle" /\ entry.tx = 0
  BY DEF K!Sign, K!books, K!Free
<1>2. CASE slips' = slips /\ \E t \in K!Tx :
                /\ K!Fresh(t)
                /\ txs' = [txs EXCEPT ![t] =
                             [at |-> "sent", does |-> entry.action, reward |-> 0, nth |-> 0,
                              amount |-> IF entry.action = "claim" THEN 0 ELSE entry.amount]]
                /\ entry' = [entry EXCEPT !.tx = t]
  BY <1>1, <1>2, SignStaking
<1>3. CASE entry' = K!Rest /\ txs' = txs /\ (slips' = slips \/ K!Glitch)
  <2>1. entry' \in EntryType /\ entry'.action = "idle" /\ entry'.tx = 0
    BY <1>3, RestsTyped DEF StakesInv, StakeTypes
  <2>2. slips' \in 0 .. MaxSlips
    BY <1>3, SlipsTyped DEF StakesInv, StakeTypes
  <2>3. ChainRests
    BY <1>1, <1>3 DEF ChainRests
  <2>4. /\ posts' \subseteq K!Tx /\ \A t \in posts' : txs[t].at = "mined"
        /\ held' \in 0 .. K!Most
        /\ claimed' \in [tx : {0} \cup K!Tx, says : 0 .. MaxEarned, seenAt : 0 .. Takings]
    BY <1>1 DEF StakesInv, StakeTypes, RowsAreReceipts
  <2>5. PressedBefore' /\ SignedForIt' /\ K!ClaimWasMade'
    BY <1>1, <1>3, <2>1 DEF StakesInv, PressedBefore, SignedForIt, K!ClaimWasMade
  <2>6. QED
    BY <1>1, <2>1, <2>2, <2>3, <2>4, <2>5, ScreenMoves
<1>4. QED
  BY <1>2, <1>3 DEF K!Sign

LEMMA StakesStep ==
    ASSUME StakesInv, [K!Next]_(K!vars)
    PROVE  StakesInv'
<1>1. CASE UNCHANGED K!vars
  BY <1>1 DEF K!vars, StakesInv, StakeTypes, HarvestsCount, NothingFromNowhere, MovesWhatIsThere,
              RowsAreReceipts, ReadBefore, PressedBefore, SignedForIt, K!ClaimWasMade, MinedTxs
<1>2. ASSUME NEW t \in K!Tx, K!MineStaking(t)
      PROVE  StakesInv'
  BY <1>2, RevertSafe, MineStakingSafe
<1>3. ASSUME NEW t \in K!Tx, K!RecordStaking(t)
      PROVE  StakesInv'
  BY <1>3, RecordStakingSafe
<1>4. ASSUME NEW a \in Amounts, K!TypeAmount(a)
      PROVE  StakesInv'
  BY <1>4, FormSteps
<1>5. CASE K!SwitchTab \/ K!PressStake \/ K!PressClaim
  <2>1. entry.amount \in Amounts \cup {0}
    BY DEF StakesInv, StakeTypes, EntryType
  <2>2. QED
    BY <1>5, <2>1, FormSteps
<1>6. QED
  BY <1>1, <1>2, <1>3, <1>4, <1>5, AccrueSafe, ClaimElsewhereSafe, SignStakingSafe, WaitEndsSafe,
     RefreshSafe, ReloadSafe DEF K!Next

\* However the pool, another device, failed signatures, waits, posts and reads meet, the history
\* tells what a mined transaction moved and the screen calls paid only a claim that was.
LEMMA StakesHold == PaymentsSpec => [](K!TypeOK /\ K!HistoryIsTrue /\ K!ClaimWasMade)
<1>1. K!Init => StakesInv
  BY StakesInit
<1>2. StakesInv /\ [K!Next]_(K!vars) => StakesInv'
  BY StakesStep
<1>3. StakesInv => K!TypeOK /\ K!HistoryIsTrue /\ K!ClaimWasMade
  BY StakesTyped, RowsTell DEF StakesInv
<1>4. QED
  BY <1>1, <1>2, <1>3, StakesRun, PTL DEF K!Spec

-----------------------------------------------------------------------------
(* While nothing fails: history, bill and fees. *)

\* A payment that was started asks for what is owed, of whom it is owed; what is posted is mined.
FlowsAreSound ==
    \A p \in Payment :
        /\ flow[p].at # "unused" /\ flow[p].target \in Debt => flow[p].amount >= owed[flow[p].target]
        /\ flow[p].at # "unused" /\ flow[p].target \in Share =>
              bill \in {"open", "settled"} /\ Owner[flow[p].target] = flow[p].by
        /\ flow[p].at \in {"post", "filing"} => p \in mined
        /\ p \in mined => flow[p].at \notin {"unused", "checked", "sent", "failed"}

\* A handler answers the device that waits for it, and no other answers that one.
Files(s) == job[s].at # "idle" /\ job[s].own
FilersOK ==
    /\ \A s \in Slot : Files(s) => At(job[s].pay, "filing")
    /\ \A s, r \in Slot : s # r /\ Files(s) /\ Files(r) => job[s].pay # job[r].pay

\* While no handler dies, whoever claimed the last share goes on to the bill,
Closes(s) == job[s].target \in Share /\ job[s].at \in {"record", "remaining", "settle"}
ClosingGoesOn == faults = 0 /\ AllPaid => bill = "settled" \/ \E s \in Slot : Closes(s)

\* whoever claimed a debt with a payment goes on to its row,
Records(s, p) == job[s].at = "record" /\ job[s].pay = p
FilingGoesOn ==
    faults = 0 =>
        \A p \in Payment, d \in Debt :
            paid[d] = p /\ row[p] = "none" => \E s \in Slot : Records(s, p)

\* and a device is done only with a payment that has its row, or whose debt was settled.
DoneIsFiled ==
    faults = 0 =>
        \A p \in Payment : At(p, "done") =>
            row[p] # "none" \/ (flow[p].target \in Debt /\ paid[flow[p].target] # "open")

\* A payment under way, its fee included, and what its wallet still has to have for it.
Busy(p) == flow[p].at \notin Ended \/ fees[p] = "sent"
Needs(p) ==
    IF flow[p].at \in {"checked", "sent"} THEN flow[p].amount + Fee
    ELSE IF fees[p] \in {"none", "sent"} THEN Fee ELSE 0
FeesAreAhead ==
    \A p \in Payment :
        At(p, "fee") \/ (flow[p].at \in {"post", "filing"} /\ flow[p].target \notin Request) =>
            fees[p] = "none"
OneAtATime ==
    \A p, o \in Payment :
        p # o /\ Busy(p) /\ Busy(o) /\ flow[p].by = flow[o].by => flow[p].by \in overlapped
WalletCovers ==
    \A p \in Payment : Busy(p) /\ flow[p].by \notin overlapped => funds[flow[p].by] >= Needs(p)

MoreInv ==
    /\ FlowsAreSound /\ FilersOK /\ ClosingGoesOn /\ FilingGoesOn /\ DoneIsFiled
    /\ FeesAreAhead /\ OneAtATime /\ WalletCovers /\ FeeIsAffordable

\* What holds of every step once PaymentsInv is known to hold of both its ends.
Stepped == PaymentsInv /\ PaymentsInv' /\ Kept /\ PaidStays /\ [Next]_vars

LEMMA GotoMoves ==
    ASSUME Types, NEW p \in Payment, NEW at, Goto(p, at)
    PROVE  /\ \A o \in Payment : o # p => flow'[o] = flow[o]
           /\ flow'[p].at = at /\ flow'[p].by = flow[p].by /\ flow'[p].target = flow[p].target
           /\ flow'[p].amount = flow[p].amount
<1>1. flow \in [Payment -> Flows]
  BY DEF Types
<1>2. flow[p] \in Flows /\ flow' = [flow EXCEPT ![p] = [flow[p] EXCEPT !.at = at]]
  BY <1>1 DEF Goto
<1>3. QED
  BY <1>1, <1>2 DEF Flows

\* The same payment, further on.
Same(p) ==
    flow'[p].by = flow[p].by /\ flow'[p].target = flow[p].target /\ flow'[p].amount = flow[p].amount

Answered(s, ok, p) ==
    /\ Files(s) /\ job[s].pay = p /\ At(p, "filing") /\ Same(p)
    /\ \/ flow'[p].at = "done"
       \/ flow'[p].at = "fee" /\ ok /\ flow[p].target \notin Request

LEMMA ReplyFlow ==
    ASSUME Types, JobsOK, FilersOK, NEW s \in Slot, NEW ok \in BOOLEAN, Reply(s, ok),
           job[s].at # "idle"
    PROVE  /\ \A p \in Payment : flow'[p] = flow[p] \/ Answered(s, ok, p)
           /\ job[s].own => job[s].pay \in Payment /\ Answered(s, ok, job[s].pay)
           /\ ~job[s].own => flow' = flow
<1>1. job[s] \in Jobs /\ JobOK(s)
  BY DEF Types, JobsOK
<1>2. CASE ~job[s].own
  BY <1>2, ReplyMoves
<1>3. CASE job[s].own
  <2>1. job[s].pay \in Payment /\ Files(s) /\ At(job[s].pay, "filing")
        /\ flow[job[s].pay].target = job[s].target
    BY <1>1, <1>3 DEF Jobs, JobOK, Files, FilersOK
  <2>2. \/ Goto(job[s].pay, "done")
        \/ ok /\ job[s].target \notin Request /\ Goto(job[s].pay, "fee")
    BY <1>3, ReplyMoves
  <2>3. Answered(s, ok, job[s].pay) /\ \A p \in Payment : p # job[s].pay => flow'[p] = flow[p]
    <3>1. CASE Goto(job[s].pay, "done")
      BY <2>1, <3>1, GotoMoves DEF Answered, Same
    <3>2. CASE ok /\ job[s].target \notin Request /\ Goto(job[s].pay, "fee")
      BY <2>1, <3>2, GotoMoves DEF Answered, Same
    <3>3. QED
      BY <2>2, <3>1, <3>2
  <2>4. QED
    BY <1>3, <2>1, <2>3
<1>4. QED
  BY <1>2, <1>3

\* Every way a payment goes.
Moves(p) ==
    \/ flow'[p] = flow[p]
    \/ flow[p].at = "unused" /\ flow'[p].at = "checked"
    \/ Same(p) /\ flow[p].at = "checked" /\ flow'[p].at = "sent"
    \/ Same(p) /\ flow[p].at = "sent" /\ flow'[p].at = "failed"
    \/ Same(p) /\ flow[p].at = "sent" /\ flow'[p].at \in {"fee", "post"} /\ p \in mined'
    \/ Same(p) /\ flow[p].at = "fee" /\ flow'[p].at \in {"attach", "done"}
    \/ Same(p) /\ flow[p].at = "fee" /\ flow'[p].at = "post" /\ flow[p].target \in Request
    \/ Same(p) /\ flow[p].at = "attach" /\ flow'[p].at = "done"
    \/ Same(p) /\ flow[p].at = "post" /\ flow'[p].at \in {"filing", "done"}
    \/ Same(p) /\ flow[p].at = "filing" /\ flow'[p].at = "done"
    \/ Same(p) /\ flow[p].at = "filing" /\ flow'[p].at = "fee" /\ flow[p].target \notin Request

LEMMA AllMove ==
    ASSUME Stepped, FilersOK
    PROVE  \A p \in Payment : Moves(p)
<1> USE DEF chain, books, bounds
<1>1. Types /\ JobsOK
  BY DEF Stepped, PaymentsInv
<1>2. CASE flow' = flow
  BY <1>2 DEF Moves
<1>3. ASSUME NEW p \in Payment, NEW u \in Payer, NEW t \in Target, NEW a \in Asked(t),
             CheckBalance(p, u, t, a)
      PROVE  \A o \in Payment : Moves(o)
  <2>1. At(p, "unused")
        /\ flow' = [flow EXCEPT ![p] = [at |-> "checked", by |-> u, target |-> t, amount |-> a]]
    BY <1>3 DEF CheckBalance
  <2>2. QED
    BY <1>1, <2>1 DEF Moves, Types, At
<1>4. ASSUME NEW p \in Payment, Mine(p)
      PROVE  \A o \in Payment : Moves(o)
  <2>1. At(p, "sent")
    BY <1>4 DEF Mine
  <2>2. \/ Goto(p, "failed")
        \/ (Goto(p, "fee") \/ Goto(p, "post")) /\ p \in mined'
    BY <1>4 DEF Mine
  <2>3. QED
    BY <1>1, <2>1, <2>2, GotoMoves DEF Moves, Same, At
<1>5. ASSUME NEW p \in Payment, ChargeFee(p)
      PROVE  \A o \in Payment : Moves(o)
  <2>1. At(p, "fee") /\ (Goto(p, "attach") \/ Goto(p, "done") \/ (Goto(p, "post") /\ flow[p].target \in Request))
    BY <1>5 DEF ChargeFee
  <2>2. QED
    BY <1>1, <2>1, GotoMoves DEF Moves, Same, At
<1>6. ASSUME NEW p \in Payment, AttachFee(p)
      PROVE  \A o \in Payment : Moves(o)
  <2>1. At(p, "attach") /\ Goto(p, "done")
    BY <1>6 DEF AttachFee
  <2>2. QED
    BY <1>1, <2>1, GotoMoves DEF Moves, Same, At
<1>7. ASSUME NEW p \in Payment, NEW s \in Slot, Post(s, p)
      PROVE  \A o \in Payment : Moves(o)
  <2>1. At(p, "post") /\ (Goto(p, "filing") \/ Goto(p, "done"))
    BY <1>7 DEF Post
  <2>2. QED
    BY <1>1, <2>1, GotoMoves DEF Moves, Same, At
<1>8. ASSUME NEW p \in Payment, Send(p)
      PROVE  \A o \in Payment : Moves(o)
  <2>1. At(p, "checked") /\ Goto(p, "sent")
    BY <1>8 DEF Send
  <2>2. QED
    BY <1>1, <2>1, GotoMoves DEF Moves, Same, At
<1>9. ASSUME NEW s \in Slot, Handle(s) \/ Crash(s)
      PROVE  \A o \in Payment : Moves(o)
  <2>1. flow' = flow \/ ((Reply(s, TRUE) \/ Reply(s, FALSE)) /\ job[s].at # "idle")
    BY <1>9 DEF Handle, Crash, Claim, Record, ReadRemaining, Settle, Tell
  <2>2. CASE (Reply(s, TRUE) \/ Reply(s, FALSE)) /\ job[s].at # "idle"
    BY <1>1, <2>2, ReplyFlow DEF Moves, Answered, At
  <2>3. QED
    BY <1>2, <2>1, <2>2
<1>10. ASSUME NEW p \in Payment, LosePost(p)
       PROVE  \A o \in Payment : Moves(o)
  <2>1. At(p, "post") /\ Goto(p, "done")
    BY <1>10 DEF LosePost
  <2>2. QED
    BY <1>1, <2>1, GotoMoves DEF Moves, Same, At
<1>11. QED
  BY <1>2, <1>3, <1>4, <1>5, <1>6, <1>7, <1>8, <1>9, <1>10
     DEF Stepped, Next, Device, InsertBill, InsertShares, MineFee, PostAgain, MarkExternal, vars

LEMMA StepMoves ==
    ASSUME Types, NEW s \in Slot, NEW at, Step(s, at)
    PROVE  /\ \A r \in Slot : r # s => job'[r] = job[r]
           /\ job'[s].at = at /\ job'[s].user = job[s].user /\ job'[s].target = job[s].target
           /\ job'[s].pay = job[s].pay /\ job'[s].own = job[s].own
<1>1. job \in [Slot -> Jobs]
  BY DEF Types
<1>2. job[s] \in Jobs /\ job' = [job EXCEPT ![s] = [job[s] EXCEPT !.at = at]]
  BY <1>1 DEF Step
<1>3. QED
  BY <1>1, <1>2 DEF Jobs

\* Whose step it is that moves a payment.
Answers(s, p) ==
    (Handle(s) \/ Crash(s)) /\ Files(s) /\ job[s].pay = p /\ job'[s].at = "idle" /\ At(p, "filing")

LEMMA WhoMoves ==
    ASSUME Stepped, FilersOK, NEW p \in Payment, flow'[p] # flow[p]
    PROVE  \/ Send(p) \/ LosePost(p) \/ Mine(p) \/ ChargeFee(p) \/ AttachFee(p)
           \/ \E s \in Slot : Post(s, p)
           \/ \E u \in Payer, t \in Target : \E a \in Asked(t) : CheckBalance(p, u, t, a)
           \/ \E s \in Slot : Answers(s, p)
<1>1. Types /\ JobsOK
  BY DEF Stepped, PaymentsInv
<1>2. ASSUME NEW s \in Slot, Handle(s) \/ Crash(s)
      PROVE  Answers(s, p)
  <2>1. (Reply(s, TRUE) \/ Reply(s, FALSE)) /\ job[s].at # "idle"
    BY <1>2 DEF Handle, Crash, Claim, Record, ReadRemaining, Settle, Tell, chain, books, bounds
  <2>2. Files(s) /\ job[s].pay = p /\ At(p, "filing")
    BY <1>1, <2>1, ReplyFlow DEF Answered
  <2>3. Step(s, "idle")
    BY <2>1 DEF Reply
  <2>4. QED
    BY <1>1, <1>2, <2>2, <2>3, StepMoves DEF Answers
<1>3. ASSUME NEW o \in Payment, o # p, NEW at, Goto(o, at)
      PROVE  FALSE
  BY <1>1, <1>3, GotoMoves
<1>4. ASSUME NEW o \in Payment, Send(o) \/ LosePost(o) \/ Mine(o) \/ ChargeFee(o) \/ AttachFee(o)
             \/ \E s \in Slot : Post(s, o)
      PROVE  o = p
  <2>1. \E at \in {"sent", "done", "failed", "fee", "post", "attach", "filing"} : Goto(o, at)
    BY <1>4 DEF Send, LosePost, Mine, ChargeFee, AttachFee, Post
  <2>2. QED
    BY <1>3, <2>1
<1>5. ASSUME NEW o \in Payment, NEW u \in Payer, NEW t \in Target, NEW a \in Asked(t),
             CheckBalance(o, u, t, a)
      PROVE  o = p
  BY <1>1, <1>5 DEF CheckBalance, Types
<1>6. Next /\ flow' # flow
  BY DEF Stepped, vars
<1>7. InsertBill \/ InsertShares => flow' = flow
  BY DEF InsertBill, InsertShares
<1>8. \A o \in Payment : MineFee(o) => flow' = flow
  BY DEF MineFee
<1>9. \A s \in Slot : (\E u \in Payer, o \in Payment, t \in Target : PostAgain(s, u, o, t))
                        \/ (\E t \in Share : MarkExternal(s, t)) => flow' = flow
  BY DEF PostAgain, MarkExternal
<1>10. QED
  BY <1>2, <1>4, <1>5, <1>6, <1>7, <1>8, <1>9 DEF Next, Device

LEMMA BillStays ==
    ASSUME Stepped
    PROVE  /\ bill \in {"open", "settled"} => bill' \in {"open", "settled"}
           /\ bill = "settled" => bill' = "settled"
<1>1. CASE bill' = bill \/ bill' = "settled" \/ bill = "bare" \/ bill = "none"
  BY <1>1
<1>2. QED
  BY <1>1 DEF Stepped, Next, Device, Handle, InsertBill, InsertShares, CheckBalance, Send, Mine, ChargeFee,
         MineFee, AttachFee, Post, PostAgain, MarkExternal, LosePost, Claim, Record, ReadRemaining, Settle,
         Tell, Crash, vars, books

LEMMA SoundStep ==
    ASSUME PaymentsAssumption, Stepped, FilersOK, FlowsAreSound
    PROVE  FlowsAreSound'
<1>1. SUFFICES ASSUME NEW p \in Payment
               PROVE  /\ flow'[p].at # "unused" /\ flow'[p].target \in Debt => flow'[p].amount >= owed'[flow'[p].target]
                      /\ flow'[p].at # "unused" /\ flow'[p].target \in Share =>
                            bill' \in {"open", "settled"} /\ Owner[flow'[p].target] = flow'[p].by
                      /\ flow'[p].at \in {"post", "filing"} => p \in mined'
                      /\ p \in mined' => flow'[p].at \notin {"unused", "checked", "sent", "failed"}
  BY DEF FlowsAreSound
<1>2. Moves(p) /\ owed' = owed /\ mined \subseteq mined'
  BY AllMove DEF Stepped, Kept
<1>3. CASE flow[p].at # "unused"
  <2>1. flow'[p].at # "unused" /\ Same(p)
    BY <1>3 DEF Stepped, Kept, FlowKept, Same
  <2>2. /\ flow[p].target \in Debt => flow[p].amount >= owed[flow[p].target]
        /\ flow[p].target \in Share => bill \in {"open", "settled"} /\ Owner[flow[p].target] = flow[p].by
    BY <1>3 DEF FlowsAreSound
  <2>3. /\ flow'[p].target \in Debt => flow'[p].amount >= owed'[flow'[p].target]
        /\ flow'[p].target \in Share => bill' \in {"open", "settled"} /\ Owner[flow'[p].target] = flow'[p].by
    BY <1>2, <2>1, <2>2, BillStays DEF Same
  <2>4. /\ flow[p].at \in {"post", "filing"} => p \in mined
        /\ p \in mined => flow[p].at \notin {"unused", "checked", "sent", "failed"}
    BY DEF FlowsAreSound
  <2>5. flow[p].at = "fee" => p \in mined
    BY DEF Stepped, PaymentsInv, FeesDue, At
  <2>6. flow'[p].at \in {"post", "filing"} => p \in mined'
    BY <1>2, <1>3, <2>4, <2>5 DEF Moves
  <2>7. p \in mined' /\ p \notin mined => At(p, "sent") /\ flow'[p].at \in {"fee", "post"}
    <3>1. ASSUME NEW o \in Payment, Mine(o)
          PROVE  p \in mined' /\ p \notin mined => At(p, "sent") /\ flow'[p].at \in {"fee", "post"}
      <4>1. /\ At(o, "sent")
            /\ \/ mined' = mined
               \/ mined' = mined \cup {o} /\ (Goto(o, "fee") \/ Goto(o, "post"))
        BY <3>1 DEF Mine
      <4>2. QED
        BY <4>1, GotoMoves DEF Stepped, PaymentsInv
    <3>2. CASE mined' = mined
      BY <3>2
    <3>3. QED
      BY <3>1, <3>2 DEF Stepped, Next, Device, Handle, InsertBill, InsertShares, CheckBalance, Send,
         ChargeFee, MineFee, AttachFee, Post, PostAgain, MarkExternal, LosePost, Claim, Record,
         ReadRemaining, Settle, Tell, Crash, vars, chain
  <2>8. p \in mined' => flow'[p].at \notin {"unused", "checked", "sent", "failed"}
    BY <1>2, <1>3, <2>4, <2>7 DEF Moves, At
  <2>9. QED
    BY <2>3, <2>6, <2>8
<1>4. CASE flow[p].at = "unused" /\ flow'[p] = flow[p]
  <2>1. flow'[p].at = "unused"
    BY <1>4
  <2>2. Used'
    BY DEF Stepped, PaymentsInv
  <2>3. p \notin mined'
    BY <2>1, <2>2 DEF Used
  <2>4. QED
    BY <2>1, <2>3
<1>5. CASE flow[p].at = "unused" /\ flow'[p].at = "checked"
  <2>1. \E u \in Payer, t \in Target : \E a \in Asked(t) : CheckBalance(p, u, t, a)
    <3>1. flow'[p] # flow[p]
      BY <1>5
    <3>2. QED
      BY <1>5, <3>1, WhoMoves DEF Send, LosePost, Mine, ChargeFee, AttachFee, Post, Answers, At
  <2>2. PICK u \in Payer, t \in Target : \E a \in Asked(t) : CheckBalance(p, u, t, a)
    BY <2>1
  <2>3. PICK a \in Asked(t) : CheckBalance(p, u, t, a)
    BY <2>2
  <2>4. /\ flow'[p] = [at |-> "checked", by |-> u, target |-> t, amount |-> a] /\ MayOwe(u, t)
        /\ bill' = bill /\ mined' = mined /\ a \in Asked(t)
    BY <2>3 DEF CheckBalance, Stepped, PaymentsInv, Types, books, chain
  <2>5. t \in Debt => a >= owed[t]
    <3>1. SUFFICES ASSUME t \in Debt
                   PROVE  a >= owed[t]
      OBVIOUS
    <3>2. owed \in [Debt -> 0 .. MaxAmount] /\ t # "transfer"
      BY <3>1, PaymentsAssumption DEF PaymentsAssumption, Stepped, PaymentsInv, Types
    <3>3. owed[t] \in Nat
      BY <3>1, <3>2, PaymentsAssumption DEF PaymentsAssumption
    <3>4. CASE t \in Request /\ owed[t] = 0
      <4>1. a \in 1 .. MaxAmount
        BY <2>4, <3>4 DEF Asked
      <4>2. QED
        BY <3>4, <4>1
    <3>5. CASE ~(t \in Request /\ owed[t] = 0)
      <4>1. a = owed[t]
        BY <2>4, <3>2, <3>5 DEF Asked
      <4>2. QED
        BY <3>3, <4>1
    <3>6. QED
      BY <3>4, <3>5
  <2>6. t \in Share => bill \in {"open", "settled"} /\ Owner[t] = u
    BY <2>4, PaymentsAssumption DEF MayOwe, PaymentsAssumption, Debt
  <2>7. p \notin mined
    BY <1>5 DEF Stepped, PaymentsInv, Used
  <2>8. QED
    BY <1>2, <2>4, <2>5, <2>6, <2>7
<1>6. QED
  BY <1>2, <1>3, <1>4, <1>5 DEF Moves

\* Every way a handler goes: on, from a post of the device it will answer, or from any other.
Continues(s) ==
    /\ job[s].at # "idle" /\ job'[s].pay = job[s].pay /\ job'[s].own = job[s].own
    /\ job'[s].target = job[s].target
Posted(s) ==
    \E p \in Payment :
        job'[s].pay = p /\ At(p, "post") /\ flow'[p].at = "filing" /\ job[s].at = "idle"
Serves(s) == Continues(s) \/ Posted(s) \/ (job[s].at = "idle" /\ ~job'[s].own)

LEMMA OneServes ==
    ASSUME Stepped
    PROVE  job' = job \/ \E s \in Slot : Serves(s) /\ \A r \in Slot : r # s => job'[r] = job[r]
<1>1. Types
  BY DEF Stepped, PaymentsInv
<1>2. ASSUME NEW s \in Slot, Handle(s) \/ Crash(s)
      PROVE  Serves(s) /\ \A r \in Slot : r # s => job'[r] = job[r]
  <2>1. \E at \in {"idle", "record", "remaining", "settle", "tell"} : Step(s, at)
    BY <1>2 DEF Handle, Crash, Claim, Record, ReadRemaining, Settle, Tell, Reply
  <2>2. job[s].at # "idle"
    BY <1>2 DEF Handle, Crash, Claim, Record, ReadRemaining, Settle, Tell
  <2>3. QED
    BY <1>1, <2>1, <2>2, StepMoves DEF Serves, Continues
<1>3. ASSUME NEW s \in Slot, NEW p \in Payment, Post(s, p), job' # job
      PROVE  Serves(s) /\ \A r \in Slot : r # s => job'[r] = job[r]
  <2>1. /\ At(p, "post") /\ job[s].at = "idle" /\ Goto(p, "filing")
        /\ Begin(s, flow[p].by, p, flow[p].target, TRUE)
    BY <1>3 DEF Post
  <2>2. flow'[p].at = "filing"
    BY <1>1, <2>1, GotoMoves
  <2>3. job'[s].pay = p /\ \A r \in Slot : r # s => job'[r] = job[r]
    BY <1>1, <2>1 DEF Begin, Types
  <2>4. QED
    BY <2>1, <2>2, <2>3 DEF Serves, Posted
<1>4. ASSUME NEW s \in Slot, NEW u \in Payer, NEW p \in Payment, NEW t \in Target, PostAgain(s, u, p, t)
      PROVE  Serves(s) /\ \A r \in Slot : r # s => job'[r] = job[r]
  <2>1. job[s].at = "idle" /\ Begin(s, u, p, t, FALSE)
    BY <1>4 DEF PostAgain
  <2>2. job'[s].own = FALSE /\ \A r \in Slot : r # s => job'[r] = job[r]
    BY <1>1, <2>1 DEF Begin, Types
  <2>3. QED
    BY <2>1, <2>2 DEF Serves
<1>5. ASSUME NEW s \in Slot, NEW t \in Share, MarkExternal(s, t)
      PROVE  Serves(s) /\ \A r \in Slot : r # s => job'[r] = job[r]
  <2>1. /\ job[s].at = "idle"
        /\ job' = [job EXCEPT ![s] = [Idle EXCEPT !.at = "claim", !.user = Owner[t], !.target = t]]
    BY <1>5 DEF MarkExternal
  <2>2. job'[s].own = FALSE /\ \A r \in Slot : r # s => job'[r] = job[r]
    BY <1>1, <2>1 DEF Idle, Types
  <2>3. QED
    BY <2>1, <2>2 DEF Serves
<1>6. CASE UNCHANGED vars
  BY <1>6 DEF vars
<1>7. CASE Next
  <2>1. ASSUME NEW p \in Payment,
               \/ Send(p) \/ LosePost(p) \/ Mine(p) \/ ChargeFee(p) \/ MineFee(p) \/ AttachFee(p)
               \/ \E u \in Payer, t \in Target : \E a \in Asked(t) : CheckBalance(p, u, t, a)
        PROVE  job' = job
    BY <2>1 DEF Send, LosePost, Mine, ChargeFee, MineFee, AttachFee, CheckBalance
  <2>2. InsertBill \/ InsertShares => job' = job
    BY DEF InsertBill, InsertShares
  <2>3. QED
    BY <1>2, <1>3, <1>4, <1>5, <1>7, <2>1, <2>2 DEF Next, Device
<1>8. QED
  BY <1>6, <1>7 DEF Stepped

\* A device that waits for its answer waits on, or its handler has ended.
LEMMA FilingWaits ==
    ASSUME Stepped, FilersOK, NEW p \in Payment, At(p, "filing"), flow'[p] # flow[p]
    PROVE  \E s \in Slot : Answers(s, p)
BY WhoMoves DEF Send, LosePost, Mine, ChargeFee, AttachFee, Post, CheckBalance, At

LEMMA FilersStep ==
    ASSUME Stepped, FilersOK
    PROVE  FilersOK'
<1>1. Types /\ JobsOK /\ Types'
  BY DEF Stepped, PaymentsInv
<1>2. \A s \in Slot : Files(s) => job[s].pay \in Payment
  BY <1>1 DEF Types, Jobs, JobsOK, JobOK, Files
<1>3. ASSUME NEW s \in Slot, Files(s), job'[s].at # "idle"
      PROVE  flow'[job[s].pay].at = "filing"
  <2>1. job[s].pay \in Payment /\ At(job[s].pay, "filing")
    BY <1>2, <1>3 DEF FilersOK
  <2>2. CASE flow'[job[s].pay] = flow[job[s].pay]
    BY <2>1, <2>2 DEF At
  <2>3. CASE flow'[job[s].pay] # flow[job[s].pay]
    <3>1. PICK r \in Slot : Files(r) /\ job[r].pay = job[s].pay /\ job'[r].at = "idle"
      BY <2>1, <2>3, FilingWaits DEF Answers
    <3>2. r = s
      BY <1>3, <3>1 DEF FilersOK
    <3>3. QED
      BY <1>3, <3>1, <3>2
  <2>4. QED
    BY <2>2, <2>3
<1>4. CASE job' = job
  BY <1>3, <1>4 DEF FilersOK, Files, At
<1>5. ASSUME NEW s \in Slot, Serves(s), \A r \in Slot : r # s => job'[r] = job[r]
      PROVE  FilersOK'
  <2>1. \A r \in Slot : r # s /\ Files(r)' => Files(r) /\ job'[r].pay = job[r].pay
    BY <1>5 DEF Files
  <2>2. Files(s)' => \/ Files(s) /\ job'[s].pay = job[s].pay
                     \/ Posted(s)
    BY <1>5 DEF Files, Serves, Continues
  <2>3. \A r \in Slot : Files(r)' => At(job[r].pay, "filing")'
    <3>1. TAKE r \in Slot
    <3>2. CASE r # s
      BY <1>3, <1>5, <2>1, <3>2 DEF Files, At
    <3>3. CASE r = s
      BY <1>3, <2>2, <3>3 DEF Files, At, Posted
    <3>4. QED
      BY <3>2, <3>3
  <2>4. \A r \in Slot : r # s /\ Files(r)' /\ Files(s)' => job'[r].pay # job'[s].pay
    <3>1. TAKE r \in Slot
    <3>2. HAVE r # s /\ Files(r)' /\ Files(s)'
    <3>3. Files(r) /\ job'[r].pay = job[r].pay /\ At(job[r].pay, "filing")
      BY <2>1, <3>2 DEF FilersOK
    <3>4. CASE Posted(s)
      BY <3>3, <3>4 DEF Posted, At
    <3>5. CASE Files(s) /\ job'[s].pay = job[s].pay
      BY <3>2, <3>3, <3>5 DEF FilersOK
    <3>6. QED
      BY <2>2, <3>2, <3>4, <3>5
  <2>5. \A r, v \in Slot : r # v /\ Files(r)' /\ Files(v)' => job'[r].pay # job'[v].pay
    <3>1. TAKE r, v \in Slot
    <3>2. CASE r # s /\ v # s
      BY <2>1, <3>2 DEF FilersOK
    <3>3. CASE r = s \/ v = s
      BY <2>4, <3>3
    <3>4. QED
      BY <3>2, <3>3
  <2>6. QED
    BY <2>3, <2>5 DEF FilersOK
<1>6. QED
  BY <1>4, <1>5, OneServes

LEMMA NoFault ==
    ASSUME PaymentsAssumption, Stepped, faults' = 0
    PROVE  faults = 0 /\ ~Fault
<1>1. faults \in Nat
  BY PaymentsAssumption DEF PaymentsAssumption, Stepped, PaymentsInv, Types
<1>2. ~Fault
  BY <1>1 DEF Fault
<1>3. faults' = faults \/ Fault
  BY DEF Stepped, Next, Device, Handle, InsertBill, InsertShares, CheckBalance, Send, Mine, ChargeFee,
         MineFee, AttachFee, Post, PostAgain, MarkExternal, LosePost, Claim, Record, ReadRemaining, Settle,
         Tell, Crash, vars, bounds
<1>4. QED
  BY <1>2, <1>3

\* A handler that has begun moves by itself.
LEMMA HandlersMove ==
    ASSUME Stepped, NEW s \in Slot, job[s].at # "idle", job'[s] # job[s]
    PROVE  Handle(s) \/ Crash(s)
<1>1. Types /\ Next
  BY DEF Stepped, PaymentsInv, vars
<1>2. ASSUME NEW r \in Slot, r # s,
             Handle(r) \/ Crash(r)
      PROVE  FALSE
  <2>1. \E at \in {"idle", "record", "remaining", "settle", "tell"} : Step(r, at)
    BY <1>2 DEF Handle, Crash, Claim, Record, ReadRemaining, Settle, Tell, Reply
  <2>2. QED
    BY <1>1, <1>2, <2>1, StepMoves
<1>3. ASSUME NEW r \in Slot, NEW p \in Payment, Post(r, p)
      PROVE  FALSE
  <2>1. job' = job \/ (job[r].at = "idle" /\ Begin(r, flow[p].by, p, flow[p].target, TRUE))
    BY <1>3 DEF Post
  <2>2. QED
    BY <1>1, <2>1 DEF Begin, Types
<1>4. ASSUME NEW r \in Slot, NEW u \in Payer, NEW p \in Payment, NEW t \in Target, PostAgain(r, u, p, t)
      PROVE  FALSE
  BY <1>1, <1>4 DEF PostAgain, Begin, Types
<1>5. ASSUME NEW r \in Slot, NEW t \in Share, MarkExternal(r, t)
      PROVE  FALSE
  BY <1>1, <1>5 DEF MarkExternal, Types
<1>6. ASSUME NEW p \in Payment,
             \/ Send(p) \/ LosePost(p) \/ Mine(p) \/ ChargeFee(p) \/ MineFee(p) \/ AttachFee(p)
             \/ \E u \in Payer, t \in Target : \E a \in Asked(t) : CheckBalance(p, u, t, a)
      PROVE  FALSE
  BY <1>6 DEF Send, LosePost, Mine, ChargeFee, MineFee, AttachFee, CheckBalance
<1>7. ~InsertBill /\ ~InsertShares
  BY DEF InsertBill, InsertShares
<1>8. QED
  BY <1>1, <1>2, <1>3, <1>4, <1>5, <1>6, <1>7 DEF Next, Device

LEMMA ClosesOn ==
    ASSUME PaymentsAssumption, Stepped, faults' = 0, AllPaid, NEW s \in Slot, Closes(s)
    PROVE  Closes(s)' \/ bill' = "settled"
<1>1. Types /\ job[s].target \in Share /\ job[s].target # "transfer" /\ ~Fault
  BY NoFault, PaymentsAssumption DEF Closes, PaymentsAssumption, Debt, Stepped, PaymentsInv
<1>2. CASE job'[s] = job[s]
  BY <1>2 DEF Closes
<1>3. CASE Handle(s) \/ Crash(s)
  <2>1. \/ Step(s, "remaining") \/ Step(s, "settle") \/ bill' = "settled"
    <3>1. CASE Record(s)
      BY <1>1, <3>1 DEF Record
    <3>2. CASE ReadRemaining(s)
      BY <1>1, <3>2 DEF ReadRemaining
    <3>3. CASE Settle(s)
      BY <1>1, <3>3 DEF Settle
    <3>4. ~Crash(s) /\ ~Claim(s) /\ ~Tell(s)
      BY <1>1 DEF Crash, Claim, Tell, Closes
    <3>5. QED
      BY <1>3, <3>1, <3>2, <3>3, <3>4 DEF Handle
  <2>2. QED
    BY <1>1, <2>1, StepMoves DEF Closes
<1>4. QED
  BY <1>2, <1>3, HandlersMove DEF Closes

\* Only a claim pays a debt, and goes on from there.
LEMMA ClaimsPay ==
    ASSUME PaymentsAssumption, Stepped, NEW d \in Debt, paid'[d] # paid[d]
    PROVE  \E s \in Slot :
              /\ job'[s].target = d /\ job'[s].pay = job[s].pay
              /\ \/ paid'[d] = "external" /\ job'[s].at = "remaining"
                 \/ paid'[d] = job[s].pay /\ job'[s].at = "record"
<1>1. Types
  BY DEF Stepped, PaymentsInv
<1>2. \E s \in Slot : Claim(s)
  BY DEF Stepped, Next, Device, Handle, InsertBill, InsertShares, CheckBalance, Send, Mine, ChargeFee,
         MineFee, AttachFee, Post, PostAgain, MarkExternal, LosePost, Record, ReadRemaining, Settle,
         Tell, Crash, vars, books
<1>3. PICK s \in Slot : Claim(s)
  BY <1>2
<1>4. /\ StillOpen(job[s].target)
      /\ paid' = [paid EXCEPT ![job[s].target] = IF External(s) THEN "external" ELSE job[s].pay]
      /\ Step(s, IF External(s) THEN "remaining" ELSE "record")
  BY <1>3 DEF Claim
<1>5. job[s].target = d
  BY <1>1, <1>4 DEF Types
<1>6. CASE External(s)
  BY <1>1, <1>4, <1>5, <1>6, StepMoves DEF Types
<1>7. CASE ~External(s)
  BY <1>1, <1>4, <1>5, <1>7, StepMoves DEF Types
<1>8. QED
  BY <1>6, <1>7

LEMMA ClosingStep ==
    ASSUME PaymentsAssumption, Stepped, ClosingGoesOn
    PROVE  ClosingGoesOn'
<1>1. SUFFICES ASSUME faults' = 0, AllPaid'
               PROVE  bill' = "settled" \/ \E s \in Slot : Closes(s)'
  BY DEF ClosingGoesOn
<1>2. faults = 0
  BY <1>1, NoFault
<1>3. CASE AllPaid
  BY <1>1, <1>2, <1>3, ClosesOn, BillStays DEF ClosingGoesOn
<1>4. CASE ~AllPaid
  <2>1. PICK d \in Share : paid[d] = "open"
    BY <1>4 DEF AllPaid
  <2>2. paid'[d] # paid[d] /\ d \in Debt
    BY <1>1, <2>1 DEF AllPaid, Debt
  <2>3. PICK s \in Slot : job'[s].target = d /\ job'[s].at \in {"remaining", "record"}
    BY <2>2, ClaimsPay
  <2>4. QED
    BY <2>1, <2>3 DEF Closes
<1>5. QED
  BY <1>3, <1>4

LEMMA FilingStep ==
    ASSUME PaymentsAssumption, Stepped, FilingGoesOn
    PROVE  FilingGoesOn'
<1>1. SUFFICES ASSUME faults' = 0, NEW p \in Payment, NEW d \in Debt, paid'[d] = p, row'[p] = "none"
               PROVE  \E s \in Slot : Records(s, p)'
  BY DEF FilingGoesOn
<1>2. faults = 0 /\ ~Fault /\ Types /\ row[p] = "none" /\ p # "external"
  BY <1>1, NoFault, PaymentsAssumption DEF Stepped, PaymentsInv, Kept, PaymentsAssumption
<1>3. CASE paid[d] = p
  <2>1. PICK s \in Slot : Records(s, p)
    BY <1>2, <1>3 DEF FilingGoesOn
  <2>2. CASE job'[s] = job[s]
    BY <2>1, <2>2 DEF Records
  <2>3. CASE job'[s] # job[s]
    <3>1. Record(s)
      BY <1>2, <2>1, <2>3, HandlersMove DEF Handle, Crash, Claim, ReadRemaining, Settle, Tell, Records
    <3>2. row' = [row EXCEPT ![p] = IF @ = "none" THEN
              (IF job[s].own /\ job[s].target \in Request /\ fees[p] # "none" THEN "traced" ELSE "bare") ELSE @]
      BY <1>2, <2>1, <3>1 DEF Record, Records
    <3>3. row'[p] # "none"
      BY <1>2, <3>2 DEF Types
    <3>4. QED
      BY <1>1, <3>3
  <2>4. QED
    BY <2>2, <2>3
<1>4. CASE paid[d] # p
  BY <1>1, <1>2, <1>4, ClaimsPay DEF Records
<1>5. QED
  BY <1>3, <1>4

\* What an answer to a device goes by: a debt that was settled, or a row.
LEMMA AnswersKnow ==
    ASSUME PaymentsAssumption, Stepped, FilersOK, ~Fault, NEW s \in Slot, Handle(s) \/ Crash(s), job[s].own,
           job'[s].at = "idle", job[s].at # "idle"
    PROVE  /\ job[s].pay \in Payment
           /\ \/ row'[job[s].pay] # "none"
              \/ job[s].target \in Debt /\ paid[job[s].target] # "open"
<1>1. Types /\ JobOK(s) /\ job[s] \in Jobs
  BY DEF Stepped, PaymentsInv, JobsOK, Types
<1>2. job[s].pay \in Payment /\ job[s].pay # "none"
  BY <1>1 DEF JobOK, Jobs
<1>3. CASE Claim(s)
  <2>1. ~StillOpen(job[s].target)
    <3>1. ASSUME StillOpen(job[s].target)
          PROVE  FALSE
      <4>1. Step(s, "remaining") \/ Step(s, "record")
        BY <1>3, <3>1 DEF Claim
      <4>2. QED
        BY <1>1, <4>1, StepMoves
    <3>2. QED
      BY <3>1
  <2>2. job[s].target \in Debt
    BY <1>1, <1>3 DEF Claim, JobOK
  <2>3. QED
    BY <1>2, <2>1, <2>2 DEF StillOpen
<1>4. CASE Record(s)
  <2>1. row' = [row EXCEPT ![job[s].pay] = IF @ = "none" THEN
            (IF job[s].own /\ job[s].target \in Request /\ fees[job[s].pay] # "none" THEN "traced" ELSE "bare") ELSE @]
    BY <1>4 DEF Record
  <2>2. row'[job[s].pay] # "none"
    BY <1>1, <1>2, <2>1 DEF Types
  <2>3. QED
    BY <1>2, <2>2
<1>5. CASE ReadRemaining(s) \/ Settle(s) \/ Tell(s)
  <2>1. row[job[s].pay] # "none"
    BY <1>1, <1>2, <1>5 DEF ReadRemaining, Settle, Tell, JobOK
  <2>2. QED
    BY <1>2, <2>1 DEF Stepped, Kept
<1>6. ~Crash(s)
  BY DEF Crash
<1>7. QED
  BY <1>3, <1>4, <1>5, <1>6 DEF Handle

LEMMA DoneStep ==
    ASSUME PaymentsAssumption, Stepped, FilersOK, FlowsAreSound, DoneIsFiled
    PROVE  DoneIsFiled'
<1>1. SUFFICES ASSUME faults' = 0, NEW p \in Payment, At(p, "done")'
               PROVE  row'[p] # "none" \/ (flow'[p].target \in Debt /\ paid'[flow'[p].target] # "open")
  BY DEF DoneIsFiled
<1>2. faults = 0 /\ ~Fault /\ Types /\ (row[p] # "none" => row'[p] # "none") /\ PaidStays
  BY <1>1, NoFault DEF Stepped, PaymentsInv, Kept
<1>3. flow[p].at # "unused" => flow'[p].target = flow[p].target
  BY DEF Stepped, Kept, FlowKept
<1>4. \A t \in Debt : paid[t] # "open" => paid'[t] # "open"
  BY <1>2 DEF PaidStays
<1>5. CASE At(p, "done")
  BY <1>2, <1>3, <1>4, <1>5 DEF DoneIsFiled, At
<1>6. CASE At(p, "attach")
  BY <1>2, <1>6 DEF Stepped, PaymentsInv, FeeFollowsPayment
<1>7. CASE At(p, "filing")
  <2>1. PICK s \in Slot : Answers(s, p)
    BY <1>1, <1>7, FilingWaits DEF At
  <2>2. (Handle(s) \/ Crash(s)) /\ Files(s) /\ job[s].pay = p /\ job'[s].at = "idle"
    BY <2>1 DEF Answers
  <2>3. row'[p] # "none" \/ (job[s].target \in Debt /\ paid[job[s].target] # "open")
    BY <1>2, <2>2, AnswersKnow DEF Files
  <2>4. flow[p].target = job[s].target
    BY <2>2, PaymentsAssumption DEF Stepped, PaymentsInv, JobsOK, JobOK, Files, PaymentsAssumption
  <2>5. QED
    BY <1>3, <1>4, <1>7, <2>3, <2>4 DEF At
<1>8. CASE At(p, "post")
  <2>1. ~LosePost(p)
    BY <1>2 DEF LosePost
  <2>2. \E s \in Slot : Post(s, p)
    <3>1. flow'[p] # flow[p]
      BY <1>1, <1>8 DEF At
    <3>2. QED
      BY <1>8, <2>1, <3>1, WhoMoves DEF Send, Mine, ChargeFee, AttachFee, CheckBalance, Answers, At
  <2>3. PICK s \in Slot : Post(s, p)
    BY <2>2
  <2>4. ~Accepts(flow[p].by, p, flow[p].target)
    <3>1. ASSUME Accepts(flow[p].by, p, flow[p].target)
          PROVE  FALSE
      <4>1. Goto(p, "filing")
        BY <2>3, <3>1 DEF Post
      <4>2. QED
        BY <1>1, <1>2, <4>1, GotoMoves DEF At
    <3>2. QED
      BY <3>1
  <2>5. /\ flow[p].target \in Debt => flow[p].amount >= owed[flow[p].target]
        /\ flow[p].target \in Share => bill \in {"open", "settled"} /\ Owner[flow[p].target] = flow[p].by
        /\ p \in mined
    BY <1>8 DEF FlowsAreSound, At
  <2>6. flow[p].target \in Share /\ paid[flow[p].target] # "open"
    BY <2>4, <2>5 DEF Accepts, ReceiptProves
  <2>7. QED
    BY <1>3, <1>4, <1>8, <2>6 DEF At, Debt
<1>9. ~At(p, "fee")
  <2>1. SUFFICES ASSUME At(p, "fee")
                 PROVE  FALSE
    OBVIOUS
  <2>2. flow'[p] # flow[p]
    BY <1>1, <2>1 DEF At
  <2>3. ChargeFee(p)
    BY <2>1, <2>2, WhoMoves DEF Send, LosePost, Mine, AttachFee, Post, CheckBalance, Answers, At
  <2>4. Goto(p, "post") \/ Goto(p, "attach")
    BY <1>2, <2>3 DEF ChargeFee
  <2>5. QED
    BY <1>1, <1>2, <2>4, GotoMoves DEF At
<1>10. QED
  BY <1>1, <1>5, <1>6, <1>7, <1>8, <1>9, AllMove DEF Moves, At

-----------------------------------------------------------------------------
(* The money: the check of the balance covers the fee. *)

\* Whose step it is that changes a fee, or a wallet.
LEMMA FeesMove ==
    ASSUME Stepped, NEW p \in Payment, fees'[p] # fees[p]
    PROVE  (ChargeFee(p) /\ fees'[p] = "sent") \/ (MineFee(p) /\ fees'[p] \in {"paid", "bounced"})
<1>1. Types
  BY DEF Stepped, PaymentsInv
<1>2. \E o \in Payment : ChargeFee(o) \/ MineFee(o)
  BY DEF Stepped, Next, Device, Handle, InsertBill, InsertShares, CheckBalance, Send, Mine,
         AttachFee, Post, PostAgain, MarkExternal, LosePost, Claim, Record, ReadRemaining, Settle,
         Tell, Crash, vars, chain
<1>3. ASSUME NEW o \in Payment, ChargeFee(o)
      PROVE  ChargeFee(p) /\ fees'[p] = "sent"
  <2>1. fees' = fees \/ fees' = [fees EXCEPT ![o] = "sent"]
    BY <1>3 DEF ChargeFee
  <2>2. QED
    BY <1>1, <1>3, <2>1 DEF Types
<1>4. ASSUME NEW o \in Payment, MineFee(o)
      PROVE  MineFee(p) /\ fees'[p] \in {"paid", "bounced"}
  <2>1. fees' = [fees EXCEPT ![o] = "paid"] \/ fees' = [fees EXCEPT ![o] = "bounced"]
    BY <1>4 DEF MineFee
  <2>2. QED
    BY <1>1, <1>4, <2>1 DEF Types
<1>5. QED
  BY <1>2, <1>3, <1>4

LEMMA FundsMove ==
    ASSUME Stepped, NEW u \in Payer, funds'[u] # funds[u]
    PROVE  \E o \in Payment :
              /\ flow[o].by = u
              /\ \/ Mine(o) /\ funds'[u] = funds[u] - flow[o].amount /\ flow'[o].at \in {"fee", "post"}
                    /\ fees' = fees
                 \/ MineFee(o) /\ fees' = [fees EXCEPT ![o] = "paid"] /\ flow' = flow
<1>1. Types
  BY DEF Stepped, PaymentsInv
<1>2. \E o \in Payment : Mine(o) \/ MineFee(o)
  BY DEF Stepped, Next, Device, Handle, InsertBill, InsertShares, CheckBalance, Send, ChargeFee,
         AttachFee, Post, PostAgain, MarkExternal, LosePost, Claim, Record, ReadRemaining, Settle,
         Tell, Crash, vars, chain
<1>3. PICK o \in Payment : Mine(o) \/ MineFee(o)
  BY <1>2
<1>4. CASE Mine(o)
  <2>1. funds' # funds
    BY <1>1
  <2>2. /\ funds' = [funds EXCEPT ![flow[o].by] = @ - flow[o].amount]
        /\ Goto(o, "fee") \/ Goto(o, "post")
        /\ fees' = fees
    BY <1>4, <2>1 DEF Mine
  <2>3. flow'[o].at \in {"fee", "post"}
    BY <1>1, <2>2, GotoMoves
  <2>4. flow[o].by = u /\ funds'[u] = funds[u] - flow[o].amount
    BY <1>1, <2>2 DEF Types
  <2>5. QED
    BY <1>4, <2>2, <2>3, <2>4
<1>5. CASE MineFee(o)
  <2>1. funds' # funds
    BY <1>1
  <2>2. /\ funds' = [funds EXCEPT ![flow[o].by] = @ - Fee]
        /\ fees' = [fees EXCEPT ![o] = "paid"] /\ flow' = flow
    BY <1>5, <2>1 DEF MineFee
  <2>3. flow[o].by = u
    BY <1>1, <2>2 DEF Types
  <2>4. QED
    BY <1>5, <2>2, <2>3
<1>6. QED
  BY <1>3, <1>4, <1>5

LEMMA FeesAheadStep ==
    ASSUME Stepped, FilersOK, FlowsAreSound, FeesAreAhead
    PROVE  FeesAreAhead'
<1>1. SUFFICES ASSUME NEW p \in Payment,
                      \/ flow'[p].at = "fee"
                      \/ flow'[p].at \in {"post", "filing"} /\ flow'[p].target \notin Request
               PROVE  fees'[p] = "none"
  BY DEF FeesAreAhead, At
<1>2. Moves(p) /\ Types
  BY AllMove DEF Stepped, PaymentsInv
<1>3. flow[p].at = "sent" => fees[p] = "none"
  BY DEF FlowsAreSound, Stepped, PaymentsInv, FeeFollowsPayment
<1>4. fees[p] = "none"
  BY <1>1, <1>2, <1>3 DEF Moves, Same, FeesAreAhead, At
<1>5. CASE fees'[p] = fees[p]
  BY <1>4, <1>5
<1>6. CASE fees'[p] # fees[p]
  <2>1. ChargeFee(p) /\ fees'[p] = "sent"
    BY <1>4, <1>6, FeesMove DEF MineFee
  <2>2. fees' # fees
    BY <1>6
  <2>3. IF flow[p].target \in Request THEN Goto(p, "post") ELSE Goto(p, "attach")
    BY <2>1, <2>2 DEF ChargeFee
  <2>4. CASE flow[p].target \in Request
    BY <1>1, <1>2, <2>3, <2>4, GotoMoves
  <2>5. CASE flow[p].target \notin Request
    BY <1>1, <1>2, <2>3, <2>5, GotoMoves
  <2>6. QED
    BY <2>4, <2>5
<1>7. QED
  BY <1>5, <1>6

\* A payment under way was under way before, with no less to come; or it is the one just checked.
LEMMA BusyMoves ==
    ASSUME PaymentsAssumption, Stepped, FilersOK, FlowsAreSound, FeesAreAhead, NEW p \in Payment, Busy(p)'
    PROVE  \/ \E u \in Payer, t \in Target : \E a \in Asked(t) : CheckBalance(p, u, t, a)
           \/ /\ Busy(p) /\ flow'[p].by = flow[p].by
              /\ flow[p].at \in {"checked", "sent"} \/ fees[p] \in {"none", "sent"} \/ fees'[p] = fees[p]
              /\ flow'[p].at \in {"checked", "sent"} =>
                    flow[p].at \in {"checked", "sent"} /\ flow'[p].amount = flow[p].amount
<1>1. Moves(p) /\ Types /\ Types'
  BY AllMove DEF Stepped, PaymentsInv
<1>2. fees'[p] # fees[p] => At(p, "fee") \/ fees[p] = "sent"
  BY FeesMove DEF ChargeFee, MineFee
<1>3. fees[p] = "sent" => flow[p].at # "unused"
  BY DEF Stepped, PaymentsInv, FeeFollowsPayment, Used
<1>4. CASE flow[p].at = "unused" /\ flow'[p].at = "checked"
  <2>1. flow'[p] # flow[p]
    BY <1>4
  <2>2. QED
    BY <1>4, <2>1, WhoMoves DEF Send, LosePost, Mine, ChargeFee, AttachFee, Post, Answers, At
<1>5. CASE ~(flow[p].at = "unused" /\ flow'[p].at = "checked")
  <2>1. flow'[p] = flow[p] \/ (Same(p) /\ flow[p].at # "unused")
    BY <1>1, <1>5 DEF Moves
  <2>2. Busy(p)
    BY <1>1, <1>2, <1>5 DEF Moves, Busy, Ended, At
  <2>3. fees[p] \in {"none", "sent"} \/ fees'[p] = fees[p]
    BY <1>2 DEF FeesAreAhead, At
  <2>4. flow'[p].at \in {"checked", "sent"} => flow[p].at \in {"checked", "sent"}
    BY <1>1, <1>5 DEF Moves
  <2>5. QED
    BY <2>1, <2>2, <2>3, <2>4 DEF Same
<1>6. QED
  BY <1>4, <1>5

LEMMA OneStep ==
    ASSUME PaymentsAssumption, Stepped, FilersOK, FlowsAreSound, FeesAreAhead, OneAtATime
    PROVE  OneAtATime' /\ overlapped \subseteq overlapped'
<1>1. Types
  BY DEF Stepped, PaymentsInv
<1>2. overlapped \subseteq overlapped'
  BY DEF Stepped, Next, Device, Handle, InsertBill, InsertShares, CheckBalance, Send, Mine, ChargeFee,
         MineFee, AttachFee, Post, PostAgain, MarkExternal, LosePost, Claim, Record, ReadRemaining, Settle,
         Tell, Crash, vars
<1>3. ASSUME NEW p \in Payment, NEW o \in Payment, p # o, Busy(o)', flow'[p].by = flow'[o].by,
             NEW u \in Payer, NEW t \in Target, NEW a \in Asked(t), CheckBalance(p, u, t, a)
      PROVE  flow'[p].by \in overlapped'
  <2>1. flow'[p].by = u /\ flow'[o] = flow[o] /\ fees' = fees
    BY <1>1, <1>3 DEF CheckBalance, Types, chain
  <2>2. flow[o].by = u /\ (flow[o].at \notin Ended \/ fees[o] = "sent")
    BY <1>3, <2>1 DEF Busy
  <2>3. u \in {v \in {u} : \E w \in Payment : w # p /\ flow[w].by = u
                                /\ (flow[w].at \notin Ended \/ fees[w] = "sent")}
    BY <1>3, <2>2
  <2>4. QED
    BY <1>3, <2>1, <2>3 DEF CheckBalance
<1>4. SUFFICES ASSUME NEW p \in Payment, NEW o \in Payment, p # o, Busy(p)', Busy(o)',
                      flow'[p].by = flow'[o].by
               PROVE  flow'[p].by \in overlapped'
  BY <1>2 DEF OneAtATime
<1>5. CASE \E u \in Payer, t \in Target : \E a \in Asked(t) : CheckBalance(p, u, t, a)
  BY <1>3, <1>4, <1>5
<1>6. CASE \E u \in Payer, t \in Target : \E a \in Asked(t) : CheckBalance(o, u, t, a)
  BY <1>3, <1>4, <1>6
<1>7. CASE Busy(p) /\ flow'[p].by = flow[p].by /\ Busy(o) /\ flow'[o].by = flow[o].by
  BY <1>2, <1>4, <1>7 DEF OneAtATime
<1>8. QED
  BY <1>4, <1>5, <1>6, <1>7, BusyMoves

LEMMA CoversStep ==
    ASSUME PaymentsAssumption, Stepped, FilersOK, FlowsAreSound, FeesAreAhead, OneAtATime, WalletCovers
    PROVE  WalletCovers'
<1>1. Types /\ Types'
  BY DEF Stepped, PaymentsInv
<1>2. SUFFICES ASSUME NEW p \in Payment, Busy(p)', flow'[p].by \notin overlapped'
               PROVE  funds'[flow'[p].by] >= Needs(p)'
  BY DEF WalletCovers
<1>3. ASSUME NEW u \in Payer, NEW t \in Target, NEW a \in Asked(t), CheckBalance(p, u, t, a)
      PROVE  funds'[flow'[p].by] >= Needs(p)'
  <2>1. /\ flow'[p] = [at |-> "checked", by |-> u, target |-> t, amount |-> a]
        /\ funds' = funds /\ funds[u] >= a + Fee
    BY <1>1, <1>3 DEF CheckBalance, ForBoth, Types, chain
  <2>2. QED
    BY <2>1 DEF Needs
<1>4. CASE /\ Busy(p) /\ flow'[p].by = flow[p].by
           /\ flow[p].at \in {"checked", "sent"} \/ fees[p] \in {"none", "sent"} \/ fees'[p] = fees[p]
           /\ flow'[p].at \in {"checked", "sent"} =>
                 flow[p].at \in {"checked", "sent"} /\ flow'[p].amount = flow[p].amount
  <2> DEFINE u == flow[p].by
  <2>1. u \in Payer /\ flow[p].amount \in Nat /\ flow'[p].amount \in Nat /\ funds[u] \in Nat /\ funds'[u] \in Nat
    BY <1>1, PaymentsAssumption DEF Types, Flows, PaymentsAssumption
  <2>2. u \notin overlapped /\ funds[u] >= Needs(p)
    BY <1>2, <1>4, OneStep DEF WalletCovers
  <2>3. CASE funds'[u] = funds[u]
    <3>1. Needs(p) \in Nat /\ Needs(p)' \in Nat /\ Needs(p)' <= Needs(p)
      BY <1>1, <1>4, <2>1 DEF Needs, Fee
    <3>2. QED
      BY <1>4, <2>1, <2>2, <2>3, <3>1
  <2>4. CASE funds'[u] # funds[u]
    <3>1. PICK o \in Payment :
              /\ flow[o].by = u
              /\ \/ Mine(o) /\ funds'[u] = funds[u] - flow[o].amount /\ flow'[o].at \in {"fee", "post"}
                    /\ fees' = fees
                 \/ MineFee(o) /\ fees' = [fees EXCEPT ![o] = "paid"] /\ flow' = flow
      BY <2>1, <2>4, FundsMove
    <3>2. Busy(o)
      BY <3>1 DEF Mine, MineFee, Busy, Ended, At
    <3>3. o = p
      BY <1>4, <2>2, <3>1, <3>2 DEF OneAtATime
    <3>4. CASE Mine(p) /\ funds'[u] = funds[u] - flow[p].amount /\ flow'[p].at \in {"fee", "post"}
      <4>1. Needs(p) = flow[p].amount + Fee
        BY <3>4 DEF Mine, Needs, At
      <4>2. Needs(p)' = Fee \/ Needs(p)' = 0
        BY <3>4 DEF Needs
      <4>3. QED
        BY <1>4, <2>1, <2>2, <3>4, <4>1, <4>2 DEF Fee
    <3>5. CASE MineFee(p) /\ fees' = [fees EXCEPT ![p] = "paid"] /\ flow' = flow
      <4>1. p \in mined
        BY <3>5 DEF MineFee, Stepped, PaymentsInv, FeeFollowsPayment
      <4>2. flow'[p].at \notin {"checked", "sent"}
        BY <3>5, <4>1 DEF FlowsAreSound
      <4>3. fees'[p] = "paid"
        BY <1>1, <3>5 DEF Types
      <4>4. Needs(p)' = 0
        BY <4>2, <4>3 DEF Needs
      <4>5. QED
        BY <1>4, <2>1, <4>4
    <3>6. QED
      BY <3>1, <3>3, <3>4, <3>5
  <2>5. QED
    BY <2>3, <2>4
<1>5. QED
  BY <1>2, <1>3, <1>4, BusyMoves

LEMMA AffordStep ==
    ASSUME PaymentsAssumption, Stepped, FilersOK, FlowsAreSound, FeesAreAhead, OneAtATime, WalletCovers,
           FeeIsAffordable
    PROVE  FeeIsAffordable'
<1>1. Types /\ Types'
  BY DEF Stepped, PaymentsInv
<1>2. SUFFICES ASSUME NEW p \in Payment, fees'[p] = "bounced"
               PROVE  flow'[p].by \in overlapped'
  BY DEF FeeIsAffordable
<1>3. overlapped \subseteq overlapped'
  BY OneStep
<1>4. p \in mined => flow'[p].by = flow[p].by
  BY DEF Stepped, PaymentsInv, Used, Kept, FlowKept
<1>5. CASE fees'[p] = fees[p]
  <2>1. p \in mined /\ flow[p].by \in overlapped
    BY <1>2, <1>5 DEF FeeIsAffordable, Stepped, PaymentsInv, FeeFollowsPayment
  <2>2. QED
    BY <1>3, <1>4, <2>1
<1>6. CASE fees'[p] # fees[p]
  <2>1. MineFee(p)
    BY <1>2, <1>6, FeesMove
  <2>2. fees[p] = "sent" /\ p \in mined
    BY <2>1 DEF MineFee, Stepped, PaymentsInv, FeeFollowsPayment
  <2>3. ~Covers(flow[p].by, Fee)
    <3>1. ASSUME Covers(flow[p].by, Fee)
          PROVE  FALSE
      <4>1. fees' = [fees EXCEPT ![p] = "paid"]
        BY <2>1, <3>1 DEF MineFee
      <4>2. QED
        BY <1>1, <1>2, <4>1 DEF Types
    <3>2. QED
      BY <3>1
  <2>4. flow[p].by \in Payer /\ funds[flow[p].by] \in Nat /\ flow[p].amount \in Nat
    BY <1>1, PaymentsAssumption DEF Types, Flows, PaymentsAssumption
  <2>5. Busy(p) /\ flow[p].at \notin {"checked", "sent"}
    BY <2>2 DEF Busy, FlowsAreSound
  <2>6. Needs(p) = Fee
    BY <2>2, <2>5 DEF Needs
  <2>7. flow[p].by \in overlapped
    BY <2>3, <2>4, <2>5, <2>6 DEF WalletCovers, Covers, Fee
  <2>8. QED
    BY <1>3, <1>4, <2>2, <2>7
<1>7. QED
  BY <1>5, <1>6

-----------------------------------------------------------------------------
LEMMA MoreInit ==
    ASSUME PaymentsAssumption, Init
    PROVE  MoreInv
<1>1. \A p \in Payment : flow[p].at = "unused" /\ fees[p] = "none"
  BY DEF Init, Unused
<1>2. mined = {}
  BY DEF Init
<1>3. FlowsAreSound /\ FeesAreAhead /\ OneAtATime /\ WalletCovers /\ FeeIsAffordable
  BY <1>1, <1>2 DEF FlowsAreSound, FeesAreAhead, OneAtATime, WalletCovers, FeeIsAffordable, Busy, Ended, At
<1>4. \A s \in Slot : job[s].at = "idle"
  BY DEF Init, Idle
<1>5. FilersOK
  BY <1>4 DEF FilersOK, Files
<1>6. DoneIsFiled
  BY <1>1 DEF DoneIsFiled, At
<1>7. \A d \in Debt : paid[d] = "open"
  BY DEF Init
<1>8. FilingGoesOn
  BY <1>7, PaymentsAssumption DEF FilingGoesOn, PaymentsAssumption
<1>9. ~AllPaid
  BY <1>7, PaymentsAssumption DEF AllPaid, PaymentsAssumption, Debt
<1>10. QED
  BY <1>3, <1>5, <1>6, <1>8, <1>9 DEF MoreInv, ClosingGoesOn

LEMMA MoreStep ==
    ASSUME PaymentsAssumption, PaymentsInv, MoreInv, [Next]_vars
    PROVE  MoreInv'
<1>1. Stepped
  BY StepInv, StepKeeps DEF Stepped, PaymentsInv
<1>2. FlowsAreSound' /\ FilersOK'
  BY <1>1, SoundStep, FilersStep DEF MoreInv
<1>3. ClosingGoesOn' /\ FilingGoesOn' /\ DoneIsFiled'
  BY <1>1, ClosingStep, FilingStep, DoneStep DEF MoreInv
<1>4. FeesAreAhead' /\ OneAtATime' /\ WalletCovers' /\ FeeIsAffordable'
  BY <1>1, FeesAheadStep, OneStep, CoversStep, AffordStep DEF MoreInv
<1>5. QED
  BY <1>2, <1>3, <1>4 DEF MoreInv

LEMMA MoreHolds == Spec => [](PaymentsInv /\ MoreInv)
<1>1. Init => PaymentsInv /\ MoreInv
  BY InitInv, MoreInit, PaymentsAssumption
<1>2. PaymentsInv /\ MoreInv /\ [Next]_vars => (PaymentsInv /\ MoreInv)'
  BY StepInv, MoreStep, PaymentsAssumption
<1>3. QED
  BY <1>1, <1>2, PTL DEF Spec

LEMMA DoneIsInHistory ==
    ASSUME PaymentsAssumption, PaymentsInv, MoreInv
    PROVE  HistoryMirrorsChain
<1>1. SUFFICES ASSUME NEW p \in Payment, At(p, "done"), faults = 0,
                      \A s \in Slot : job[s].at = "idle" \/ job[s].pay # p,
                      row[p] = "none", flow[p].target \in Debt, paid[flow[p].target] = p
               PROVE  FALSE
  <2>1. \A p \in Payment : row[p] # "none" => p \in mined
    BY DEF PaymentsInv, RowsAreMined
  <2>2. ASSUME NEW p \in Payment, At(p, "done"), faults = 0, row[p] = "none"
        PROVE  flow[p].target \in Debt
    BY <2>2 DEF MoreInv, DoneIsFiled
  <2>3. QED
    BY <1>1, <2>1, <2>2 DEF HistoryMirrorsChain
<1>2. PICK s \in Slot : Records(s, p)
  BY <1>1 DEF MoreInv, FilingGoesOn
<1>3. QED
  BY <1>1, <1>2 DEF Records

\* A behaviour of the composition is one of the payments, which rest while it is about another part.
LEMMA PaymentsRun == PaymentsSpec => Spec
<1>1. PaymentsInit => Init
  BY DEF PaymentsInit
<1>2. [PaymentsNext]_allVars => [Next]_vars
  BY DEF PaymentsNext, allVars, vars, chain, books, bounds
<1>3. QED
  BY <1>1, <1>2, PTL DEF PaymentsSpec, Spec

\* Whatever handlers, repeated posts and payments that overlap do, a row in the history is of a mined
\* transfer, a payment that was made and filed without fault has its row, its payee is told once, its
\* fee follows it and is covered by the balance the screen checked; and so for the stakes.
THEOREM BooksFollowChain == PaymentsSpec => []BooksMirrorChain
<1>1. PaymentsInv /\ MoreInv => HistoryMirrorsChain /\ ToldOnce /\ FeeFollowsPayment /\ FeeIsAffordable
  BY DoneIsInHistory, PaymentsAssumption DEF PaymentsInv, Tellings, MoreInv
<1>2. TypeOK /\ HistoryMirrorsChain /\ ToldOnce /\ FeeFollowsPayment /\ FeeIsAffordable
      /\ K!TypeOK /\ K!HistoryIsTrue /\ K!ClaimWasMade => BooksMirrorChain
  BY DEF BooksMirrorChain
<1>3. QED
  BY <1>1, <1>2, MoreHolds, PaymentsTypes, PaymentsRun, StakesHold, PTL

\* Of the handlers that claim the last shares, one finds nothing open: unless it is killed, the bill
\* is settled before the last of them has ended; and none settles it before.
THEOREM BillsClose == PaymentsSpec => []BillClosesWhenPaid
<1>1. PaymentsInv /\ MoreInv => BillClosesWhenPaid
  <2>1. SUFFICES ASSUME MoreInv
                 PROVE  PaidBillCloses
    BY DEF BillClosesWhenPaid, PaymentsInv
  <2>2. SUFFICES ASSUME AllPaid, faults = 0, \A s \in Slot : job[s].at = "idle" \/ job[s].target \notin Share
                 PROVE  bill = "settled"
    BY DEF PaidBillCloses, AllPaid
  <2>3. \A s \in Slot : ~Closes(s)
    BY <2>2 DEF Closes
  <2>4. QED
    BY <2>1, <2>2, <2>3 DEF MoreInv, ClosingGoesOn
<1>2. QED
  BY <1>1, MoreHolds, PaymentsRun, PTL

-----------------------------------------------------------------------------
(* What a fold over a finite set sums up to. *)

Picked(S) == CHOOSE x \in S : TRUE
IsFold(g, f, I) == g = [S \in SUBSET I |-> IF S = {} THEN 0 ELSE f[Picked(S)] + g[S \ {Picked(S)}]]

LEMMA FoldIsChosen ==
    ASSUME NEW f, NEW I
    PROVE  L!SumFunctionOnSet(f, I) = (CHOOSE g : IsFold(g, f, I))[I]
BY DEF L!SumFunctionOnSet, L!FoldFunctionOnSet, L!MapThenFoldSet, IsFold, Picked

\* The amounts made natural numbers by adding to each the most any of them may be below zero.
Lifted(f, M, I) == [i \in I |-> f[i] + M]

\* A sum of integers by a fold is a count of units.
LEMMA FoldIsCount ==
    ASSUME NEW I, IsFiniteSet(I), NEW M \in Nat, NEW f, \A i \in I : f[i] \in -M .. M
    PROVE  \A S \in SUBSET I : L!SumFunctionOnSet(f, S) = Total(Lifted(f, M, I), S) - M * Cardinality(S)
<1> DEFINE e == Lifted(f, M, I)
           N == M + M
           w(S) == Total(e, S) - M * Cardinality(S)
<1>1. N \in Nat /\ e \in [I -> 0 .. N]
  BY DEF Lifted
<1>2. \A S \in SUBSET I : IsFiniteSet(S) /\ Cardinality(S) \in Nat /\ Total(e, S) \in Nat
  <2> HIDE DEF e, N
  <2>1. QED
    BY <1>1, FS_Subset, FS_CardinalityType, TotalType
<1>3. w({}) = 0
  <2>1. Cardinality({}) = 0 /\ M * 0 = 0
    BY FS_EmptySet, Z3
  <2>2. QED
    BY <2>1, TotalEmpty
<1>4. ASSUME NEW S \in SUBSET I, NEW x \in S
      PROVE  w(S) = f[x] + w(S \ {x})
  <2>1. Total(e, S \ {x}) = Total(e, S) - e[x]
    <3> HIDE DEF e, N
    <3>1. QED
      BY <1>1, TotalRemove
  <2>2. Cardinality(S \ {x}) = Cardinality(S) - 1
    BY <1>2, FS_RemoveElement
  <2>3. e[x] = f[x] + M /\ f[x] \in Int
    BY DEF Lifted
  <2>4. S \ {x} \in SUBSET I
    OBVIOUS
  <2>5. M * (Cardinality(S) - 1) = M * Cardinality(S) - M
    <3>1. Cardinality(S) \in Nat
      BY <1>2
    <3> DEFINE c == Cardinality(S)
    <3> HIDE DEF c
    <3>2. c \in Nat => M * (c - 1) = M * c - M
      BY Z3
    <3>3. QED
      BY <3>1, <3>2 DEF c
  <2>6. Total(e, S) \in Nat /\ Total(e, S \ {x}) \in Nat /\ M * Cardinality(S) \in Int
    <3>1. Cardinality(S) \in Nat
      BY <1>2
    <3>2. \A c \in Nat : M * c \in Int
      BY Z3
    <3>3. QED
      BY <1>2, <2>4, <3>1, <3>2
  <2> HIDE DEF e, N
  <2>7. QED
    BY <2>1, <2>2, <2>3, <2>5, <2>6
<1> HIDE DEF w, e, N
<1>5. ASSUME NEW J \in SUBSET I
      PROVE  L!SumFunctionOnSet(f, J) = w(J)
  <2> DEFINE g0 == [S \in SUBSET J |-> w(S)]
             g == CHOOSE g : IsFold(g, f, J)
  <2>1. IsFold(g0, f, J)
    <3>1. ASSUME NEW S \in SUBSET J
          PROVE  w(S) = IF S = {} THEN 0 ELSE f[Picked(S)] + g0[S \ {Picked(S)}]
      <4>1. CASE S = {}
        BY <1>3, <4>1
      <4>2. CASE S # {}
        <5>1. Picked(S) \in S
          BY <4>2 DEF Picked
        <5>2. g0[S \ {Picked(S)}] = w(S \ {Picked(S)})
          OBVIOUS
        <5>3. QED
          BY <1>4, <4>2, <5>1, <5>2
      <4>3. QED
        BY <4>1, <4>2
    <3>2. QED
      BY <3>1 DEF IsFold
  <2>2. IsFold(g, f, J)
    BY <2>1
  <2> HIDE DEF g
  <2> DEFINE F == {S \in SUBSET J : g[S] = w(S)}
  <2>3. \A S \in SUBSET J : g[S] = IF S = {} THEN 0 ELSE f[Picked(S)] + g[S \ {Picked(S)}]
    BY <2>2 DEF IsFold
  <2>4. ASSUME NEW S \in SUBSET J, \A T \in SUBSET S : T # S => T \in F
        PROVE  S \in F
    <3>1. CASE S = {}
      BY <1>3, <2>3, <3>1
    <3>2. CASE S # {}
      <4>1. Picked(S) \in S
        BY <3>2 DEF Picked
      <4>2. S \ {Picked(S)} \in F
        BY <2>4, <4>1
      <4>3. QED
        BY <1>4, <2>3, <3>2, <4>1, <4>2
    <3>3. QED
      BY <3>1, <3>2
  <2>5. IsFiniteSet(J)
    BY <1>2
  <2>6. SUBSET J \subseteq F
    <3> HIDE DEF F
    <3>1. QED
      BY <2>4, <2>5, SubsetsWellFounded
  <2>7. g[J] = w(J)
    BY <2>6
  <2>8. QED
    BY <2>7, FoldIsChosen DEF g
<1>6. QED
  BY <1>5 DEF w, e

SumOver(f, I) == L!SumFunctionOnSet(f, I)
Integral(f, I) == IsFiniteSet(I) /\ \A i \in I : f[i] \in Int

\* Finitely many integers lie within a bound.
LEMMA FiniteIsBounded ==
    ASSUME NEW I, NEW f, Integral(f, I)
    PROVE  \E M \in Nat : \A i \in I : f[i] \in -M .. M
<1> DEFINE F == {S \in SUBSET I : \E M \in Nat : \A i \in S : f[i] \in -M .. M}
<1>1. {} \in F
  <2>1. 0 \in Nat
    OBVIOUS
  <2>2. QED
    BY <2>1
<1>2. ASSUME NEW S \in SUBSET I, NEW i \in I, S \in F, i \notin S
      PROVE  S \cup {i} \in F
  <2>1. PICK M \in Nat : \A j \in S : f[j] \in -M .. M
    BY <1>2
  <2>2. f[i] \in Int
    BY DEF Integral
  <2>3. PICK N \in Nat : f[i] \in -N .. N
    <3>1. CASE f[i] >= 0
      BY <2>2, <3>1
    <3>2. CASE f[i] < 0
      <4>1. -f[i] \in Nat /\ f[i] \in -(-f[i]) .. (-f[i])
        BY <2>2, <3>2
      <4>2. QED
        BY <4>1
    <3>3. QED
      BY <2>2, <3>1, <3>2
  <2>4. M + N \in Nat /\ \A j \in S \cup {i} : f[j] \in -(M + N) .. M + N
    BY <2>1, <2>3
  <2>5. QED
    BY <2>4
<1>3. I \in F
  <2>1. IsFiniteSet(I)
    BY DEF Integral
  <2> HIDE DEF F
  <2>2. QED
    BY <1>1, <1>2, <2>1, SubsetInduction
<1>4. QED
  BY <1>3

\* A sum over nobody is 0, and one more adds its own.
LEMMA SumsByOne ==
    ASSUME NEW I, NEW f, Integral(f, I)
    PROVE  /\ SumOver(f, {}) = 0
           /\ \A S \in SUBSET I : SumOver(f, S) \in Int
           /\ \A S \in SUBSET I, i \in I : i \notin S => SumOver(f, S \cup {i}) = SumOver(f, S) + f[i]
<1>1. PICK M \in Nat : \A i \in I : f[i] \in -M .. M
  BY FiniteIsBounded
<1> DEFINE e == Lifted(f, M, I)
           N == M + M
<1>2. IsFiniteSet(I) /\ \A i \in I : f[i] \in Int
  BY DEF Integral
<1>3. \A S \in SUBSET I : SumOver(f, S) = Total(e, S) - M * Cardinality(S)
  BY <1>1, <1>2, FoldIsCount DEF SumOver
<1>4. N \in Nat /\ e \in [I -> 0 .. N] /\ \A i \in I : e[i] = f[i] + M
  BY <1>1 DEF Lifted
<1> HIDE DEF e, N
<1>5. \A S \in SUBSET I : Cardinality(S) \in Nat /\ IsFiniteSet(S) /\ Total(e, S) \in Nat
  BY <1>2, <1>4, FS_Subset, FS_CardinalityType, TotalType
<1>6. \A c \in Nat : M * c \in Int /\ M * (c + 1) = M * c + M
  BY Z3
<1>7. SumOver(f, {}) = 0
  <2>1. Cardinality({}) = 0 /\ Total(e, {}) = 0 /\ M * 0 = 0
    BY FS_EmptySet, TotalEmpty, Z3
  <2>2. QED
    BY <1>3, <2>1
<1>8. \A S \in SUBSET I : SumOver(f, S) \in Int
  <2>1. TAKE S \in SUBSET I
  <2>2. Cardinality(S) \in Nat /\ Total(e, S) \in Nat /\ M * Cardinality(S) \in Int
    BY <1>5, <1>6
  <2>3. QED
    BY <1>3, <2>2
<1>9. ASSUME NEW S \in SUBSET I, NEW i \in I, i \notin S
      PROVE  SumOver(f, S \cup {i}) = SumOver(f, S) + f[i]
  <2>1. Total(e, S \cup {i}) = Total(e, S) + e[i]
    BY <1>2, <1>4, <1>9, TotalAdd
  <2>2. Cardinality(S \cup {i}) = Cardinality(S) + 1
    BY <1>5, <1>9, FS_AddElement
  <2>3. /\ Cardinality(S) \in Nat /\ Total(e, S) \in Nat /\ M * Cardinality(S) \in Int
        /\ M * (Cardinality(S) + 1) = M * Cardinality(S) + M
    BY <1>5, <1>6
  <2>4. S \cup {i} \in SUBSET I
    OBVIOUS
  <2>5. SumOver(f, S \cup {i}) = (Total(e, S) + e[i]) - M * (Cardinality(S) + 1)
    BY <1>3, <2>1, <2>2, <2>4
  <2>6. QED
    BY <1>2, <1>3, <1>4, <2>3, <2>5
<1>10. QED
  BY <1>7, <1>8, <1>9

\* A sum of sums and differences is the sum and difference of the sums.
LEMMA SumsAreLinear ==
    ASSUME NEW I, NEW f, NEW a, NEW b, NEW c, Integral(a, I), Integral(b, I), Integral(c, I),
           \A i \in I : f[i] = a[i] + b[i] - c[i]
    PROVE  SumOver(f, I) = SumOver(a, I) + SumOver(b, I) - SumOver(c, I)
<1> DEFINE F == {S \in SUBSET I : SumOver(f, S) = SumOver(a, S) + SumOver(b, S) - SumOver(c, S)}
<1>1. Integral(f, I)
  BY DEF Integral
<1>2. {} \in F
  <2>1. SumOver(f, {}) = 0 /\ SumOver(a, {}) = 0 /\ SumOver(b, {}) = 0 /\ SumOver(c, {}) = 0
    BY <1>1, SumsByOne
  <2>2. QED
    BY <2>1
<1>3. ASSUME NEW S \in SUBSET I, NEW i \in I, S \in F, i \notin S
      PROVE  S \cup {i} \in F
  <2>1. /\ SumOver(f, S \cup {i}) = SumOver(f, S) + f[i]
        /\ SumOver(a, S \cup {i}) = SumOver(a, S) + a[i]
        /\ SumOver(b, S \cup {i}) = SumOver(b, S) + b[i]
        /\ SumOver(c, S \cup {i}) = SumOver(c, S) + c[i]
    BY <1>1, <1>3, SumsByOne
  <2>2. SumOver(a, S) \in Int /\ SumOver(b, S) \in Int /\ SumOver(c, S) \in Int
    BY SumsByOne
  <2>3. a[i] \in Int /\ b[i] \in Int /\ c[i] \in Int
    BY DEF Integral
  <2>4. QED
    BY <1>3, <2>1, <2>2, <2>3
<1>4. I \in F
  <2>1. IsFiniteSet(I)
    BY <1>1 DEF Integral
  <2> HIDE DEF F
  <2>2. QED
    BY <1>2, <1>3, <2>1, SubsetInduction
<1>5. QED
  BY <1>4

\* Equal terms have equal sums.
LEMMA SumsAgree ==
    ASSUME NEW I, NEW f, NEW a, Integral(a, I), \A i \in I : f[i] = a[i]
    PROVE  SumOver(f, I) = SumOver(a, I)
<1> DEFINE F == {S \in SUBSET I : SumOver(f, S) = SumOver(a, S)}
<1>1. Integral(f, I)
  BY DEF Integral
<1>2. {} \in F
  BY <1>1, SumsByOne
<1>3. ASSUME NEW S \in SUBSET I, NEW i \in I, S \in F, i \notin S
      PROVE  S \cup {i} \in F
  BY <1>1, <1>3, SumsByOne
<1>4. I \in F
  <2>1. IsFiniteSet(I)
    BY <1>1 DEF Integral
  <2> HIDE DEF F
  <2>2. QED
    BY <1>2, <1>3, <2>1, SubsetInduction
<1>5. QED
  BY <1>4

\* Equal terms sum up to a multiple of them.
LEMMA SumOfAlike ==
    ASSUME NEW I, IsFiniteSet(I), NEW c \in Int, NEW f, \A i \in I : f[i] = c
    PROVE  SumOver(f, I) = Cardinality(I) * c
<1> DEFINE F == {S \in SUBSET I : SumOver(f, S) = Cardinality(S) * c}
<1>1. Integral(f, I)
  BY DEF Integral
<1>2. {} \in F
  <2>1. SumOver(f, {}) = 0 /\ Cardinality({}) = 0 /\ 0 * c = 0
    BY <1>1, SumsByOne, FS_EmptySet, Z3
  <2>2. QED
    BY <2>1
<1>3. ASSUME NEW S \in SUBSET I, NEW i \in I, S \in F, i \notin S
      PROVE  S \cup {i} \in F
  <2>1. SumOver(f, S \cup {i}) = SumOver(f, S) + c
    BY <1>1, <1>3, SumsByOne
  <2>2. IsFiniteSet(S)
    BY FS_Subset
  <2>3. Cardinality(S) \in Nat /\ Cardinality(S \cup {i}) = Cardinality(S) + 1
    BY <1>3, <2>2, FS_CardinalityType, FS_AddElement
  <2>4. \A n \in Nat : (n + 1) * c = n * c + c
    BY Z3
  <2>5. QED
    BY <1>3, <2>1, <2>3, <2>4
<1>4. I \in F
  <2> HIDE DEF F
  <2>1. QED
    BY <1>2, <1>3, SubsetInduction
<1>5. QED
  BY <1>4

\* Two sets apart are summed up one after the other.
LEMMA SumsApart ==
    ASSUME NEW I, NEW f, Integral(f, I), NEW J \in SUBSET I, NEW H \in SUBSET I, J \cap H = {}
    PROVE  SumOver(f, J \cup H) = SumOver(f, J) + SumOver(f, H)
<1> DEFINE F == {S \in SUBSET H : SumOver(f, J \cup S) = SumOver(f, J) + SumOver(f, S)}
<1>1. {} \in F
  <2>1. J \cup {} = J /\ SumOver(f, {}) = 0 /\ SumOver(f, J) \in Int
    BY SumsByOne
  <2>2. QED
    BY <2>1
<1>2. ASSUME NEW S \in SUBSET H, NEW i \in H, S \in F, i \notin S
      PROVE  S \cup {i} \in F
  <2>1. J \cup (S \cup {i}) = (J \cup S) \cup {i} /\ i \notin J \cup S /\ J \cup S \in SUBSET I /\ i \in I
    BY <1>2
  <2>2. /\ SumOver(f, (J \cup S) \cup {i}) = SumOver(f, J \cup S) + f[i]
        /\ SumOver(f, S \cup {i}) = SumOver(f, S) + f[i]
    <3>1. S \in SUBSET I /\ i \notin S
      BY <1>2
    <3>2. /\ \A A \in SUBSET I, h \in I : h \notin A => SumOver(f, A \cup {h}) = SumOver(f, A) + f[h]
          /\ \A A \in SUBSET I : SumOver(f, A) \in Int
      BY SumsByOne
    <3>3. QED
      BY <2>1, <3>1, <3>2
  <2>3. SumOver(f, S) \in Int /\ SumOver(f, J) \in Int
    <3>1. S \in SUBSET I
      BY <1>2
    <3>2. QED
      BY <3>1, SumsByOne
  <2>4. f[i] \in Int
    BY <2>1 DEF Integral
  <2>5. QED
    <3>1. SumOver(f, J \cup (S \cup {i})) = SumOver(f, J) + SumOver(f, S \cup {i})
      <4>1. SumOver(f, J \cup S) = SumOver(f, J) + SumOver(f, S)
        BY <1>2
      <4>2. SumOver(f, J \cup (S \cup {i})) = SumOver(f, (J \cup S) \cup {i})
        BY <2>1
      <4>3. SumOver(f, J \cup (S \cup {i})) = (SumOver(f, J) + SumOver(f, S)) + f[i]
        BY <2>2, <4>1, <4>2
      <4> DEFINE s == SumOver(f, S)
                 t == SumOver(f, S \cup {i})
                 u == SumOver(f, J)
      <4>4. t = s + f[i] /\ s \in Int /\ u \in Int
        BY <2>2, <2>3
      <4>5. (u + s) + f[i] = u + t
        <5> HIDE DEF s, t, u
        <5>1. QED
          BY <2>4, <4>4
      <4>6. QED
        BY <4>3, <4>5
    <3>2. QED
      BY <1>2, <3>1
<1>3. H \in F
  <2>1. IsFiniteSet(H)
    BY FS_Subset DEF Integral
  <2> HIDE DEF F
  <2>2. QED
    BY <1>1, <1>2, <2>1, SubsetInduction
<1>4. QED
  BY <1>3

\* Rows summed up and then added are columns summed up and then added.
LEMMA SumsExchange ==
    ASSUME NEW I, IsFiniteSet(I), NEW J, IsFiniteSet(J), NEW m, \A j \in J : Integral(m[j], I)
    PROVE  SumOver([i \in I |-> SumOver([j \in J |-> m[j][i]], J)], I)
             = SumOver([j \in J |-> SumOver(m[j], I)], J)
<1> DEFINE column(i) == [j \in J |-> m[j][i]]
           across(S) == [i \in I |-> SumOver(column(i), S)]
           down == [j \in J |-> SumOver(m[j], I)]
           F == {S \in SUBSET J : SumOver(across(S), I) = SumOver(down, S)}
<1>1. \A j \in J : SumOver(m[j], I) \in Int
  BY SumsByOne
<1>2. Integral(down, J)
  BY <1>1 DEF Integral
<1>3. \A i \in I : Integral(column(i), J)
  BY DEF Integral
<1> HIDE DEF column
<1>4. ASSUME NEW S \in SUBSET J
      PROVE  Integral(across(S), I)
  BY <1>3, SumsByOne DEF Integral
<1>5. {} \in F
  <2>1. \A i \in I : across({})[i] = 0
    BY <1>3, SumsByOne
  <2>2. SumOver(across({}), I) = Cardinality(I) * 0
    <3> HIDE DEF across
    <3>1. QED
      BY <2>1, SumOfAlike
  <2>3. Cardinality(I) * 0 = 0
    <3>1. Cardinality(I) \in Nat /\ \A n \in Nat : n * 0 = 0
      BY FS_CardinalityType, Z3
    <3>2. QED
      BY <3>1
  <2>4. SumOver(down, {}) = 0
    BY <1>2, SumsByOne
  <2>5. QED
    BY <2>2, <2>3, <2>4
<1>6. ASSUME NEW S \in SUBSET J, NEW k \in J, S \in F, k \notin S
      PROVE  S \cup {k} \in F
  <2> DEFINE none == [i \in I |-> 0]
  <2>1. \A i \in I : across(S \cup {k})[i] = across(S)[i] + m[k][i] - none[i]
    <3>1. TAKE i \in I
    <3>2. SumOver(column(i), S \cup {k}) = SumOver(column(i), S) + column(i)[k]
      BY <1>3, <1>6, SumsByOne
    <3>3. column(i)[k] = m[k][i] /\ m[k][i] \in Int
      BY DEF column, Integral
    <3>4. SumOver(column(i), S) \in Int
      BY <1>3, SumsByOne
    <3>5. QED
      BY <3>2, <3>3, <3>4
  <2>2. Integral(none, I) /\ SumOver(none, I) = 0
    <3>1. Integral(none, I)
      BY DEF Integral
    <3>2. Cardinality(I) \in Nat /\ \A n \in Nat : n * 0 = 0
      BY FS_CardinalityType, Z3
    <3>3. SumOver(none, I) = Cardinality(I) * 0
      <4>1. \A i \in I : none[i] = 0
        OBVIOUS
      <4> HIDE DEF none
      <4>2. QED
        BY <4>1, SumOfAlike
    <3>4. QED
      BY <3>1, <3>2, <3>3
  <2>3. Integral(across(S), I) /\ Integral(m[k], I)
    BY <1>4
  <2>4. SumOver(across(S \cup {k}), I) = SumOver(across(S), I) + SumOver(m[k], I) - SumOver(none, I)
    <3> HIDE DEF across, none
    <3>1. QED
      BY <2>1, <2>2, <2>3, SumsAreLinear
  <2>5. SumOver(down, S \cup {k}) = SumOver(down, S) + SumOver(m[k], I)
    BY <1>2, <1>6, SumsByOne
  <2>6. SumOver(down, S) \in Int /\ SumOver(m[k], I) \in Int
    BY <1>1, <1>2, SumsByOne
  <2> HIDE DEF across, down, none
  <2>7. QED
    BY <1>6, <2>2, <2>4, <2>5, <2>6
<1>7. J \in F
  <2> HIDE DEF F
  <2>1. QED
    BY <1>5, <1>6, SubsetInduction
<1>8. SumOver(across(J), I) = SumOver(down, J)
  BY <1>7
<1>9. QED
  BY <1>8 DEF column

-----------------------------------------------------------------------------
(* The arithmetic of a bill. *)

LEMMA SumOfIsSum == \A f : L!SumOf(f) = SumOver(f, DOMAIN f)
BY DEF L!SumOf, SumOver

\* Among finitely many integers one is the greatest.
LEMMA GreatestExists ==
    ASSUME NEW I, NEW f, Integral(f, I), I # {}
    PROVE  \E i \in I : \A j \in I : f[j] <= f[i]
<1> DEFINE F == {S \in SUBSET I : S = {} \/ \E i \in S : \A j \in S : f[j] <= f[i]}
<1>1. {} \in F
  OBVIOUS
<1>2. \A i \in I : f[i] \in Int
  BY DEF Integral
<1>3. ASSUME NEW S \in SUBSET I, NEW i \in I, S \in F, i \notin S
      PROVE  S \cup {i} \in F
  <2>1. CASE S = {}
    BY <1>2, <2>1
  <2>2. CASE S # {}
    <3>1. PICK k \in S : \A j \in S : f[j] <= f[k]
      BY <1>3, <2>2
    <3>2. CASE f[i] <= f[k]
      BY <3>1, <3>2
    <3>3. CASE ~(f[i] <= f[k])
      <4>1. \A j \in S : f[j] <= f[i]
        BY <1>2, <3>1, <3>3
      <4>2. f[i] <= f[i]
        BY <1>2
      <4>3. QED
        BY <4>1, <4>2
    <3>4. QED
      BY <3>2, <3>3
  <2>3. QED
    BY <2>1, <2>2
<1>4. I \in F
  <2>1. IsFiniteSet(I)
    BY DEF Integral
  <2> HIDE DEF F
  <2>2. QED
    BY <1>1, <1>3, <2>1, SubsetInduction
<1>5. QED
  BY <1>4

\* The first of finitely many numbers, and the last.
LEMMA FirstIsOne ==
    ASSUME NEW I \in SUBSET Int, IsFiniteSet(I), I # {}
    PROVE  /\ L!First(I) \in I
           /\ \E x \in I : \A y \in I : y <= x
<1> DEFINE same == [i \in I |-> i]
           back == [i \in I |-> -i]
<1>1. Integral(same, I) /\ Integral(back, I)
  BY DEF Integral
<1>2. \E i \in I : \A j \in I : back[j] <= back[i]
  <2> HIDE DEF back
  <2>1. QED
    BY <1>1, GreatestExists
<1>3. \E i \in I : \A j \in I : same[j] <= same[i]
  <2> HIDE DEF same
  <2>1. QED
    BY <1>1, GreatestExists
<1>4. PICK i \in I : \A j \in I : -j <= -i
  BY <1>2
<1>5. \A j \in I : i <= j
  BY <1>4
<1>6. QED
  BY <1>3, <1>5 DEF L!First

LEMMA RoundingType ==
    ASSUME NEW a \in Int, NEW b \in Nat \ {0}
    PROVE  L!RoundedDiv(a, b) \in Int /\ L!RoundedDiv(0, b) = 0
<1>1. (2 * a + b) \div (2 * b) \in Int
  BY Z3
<1>2. (2 * 0 + b) \div (2 * b) = 0
  BY Z3
<1>3. QED
  BY <1>1, <1>2 DEF L!RoundedDiv

\* The sum the shares are taken of is positive.
LEMMA BasisIsPositive ==
    ASSUME NEW W, IsFiniteSet(W), W # {}, NEW weights \in [W -> Int]
    PROVE  /\ L!Basis(weights) \in [W -> Int]
           /\ L!SumOf(L!Basis(weights)) \in Nat \ {0}
<1>1. Integral(weights, W) /\ L!SumOf(weights) = SumOver(weights, W)
  BY SumOfIsSum DEF Integral
<1>2. SumOver(weights, W) \in Int
  BY <1>1, SumsByOne
<1>3. CASE SumOver(weights, W) > 0
  BY <1>1, <1>2, <1>3 DEF L!Basis
<1>4. CASE ~(SumOver(weights, W) > 0)
  <2> DEFINE ones == [i \in W |-> 1]
  <2>1. L!Basis(weights) = ones
    BY <1>1, <1>4 DEF L!Basis
  <2>2. SumOver(ones, W) = Cardinality(W) * 1
    <3>1. \A i \in W : ones[i] = 1
      OBVIOUS
    <3> HIDE DEF ones
    <3>2. QED
      BY <3>1, SumOfAlike
  <2>3. Cardinality(W) \in Nat /\ Cardinality(W) # 0
    BY FS_CardinalityType, FS_EmptySet
  <2>4. L!SumOf(ones) = SumOver(ones, W)
    <3>1. DOMAIN ones = W
      OBVIOUS
    <3>2. QED
      BY <3>1, SumOfIsSum
  <2>5. QED
    BY <2>1, <2>2, <2>3, <2>4
<1>5. QED
  BY <1>3, <1>4

\* Proportional shares add up to the amount, whatever was rounded.
LEMMA AllocateAddsUp ==
    ASSUME NEW W \in SUBSET Int, IsFiniteSet(W), W # {}, NEW weights \in [W -> Int], NEW amount \in Int
    PROVE  /\ L!Allocate(amount, weights) \in [W -> Int]
           /\ SumOver(L!Allocate(amount, weights), W) = amount
<1> DEFINE basis == L!Basis(weights)
           total == L!SumOf(basis)
           shares == L!Rounded(amount, weights)
           most == {i \in W : \A j \in W : weights[j] <= weights[i]}
           one == L!First(most)
<1>1. basis \in [W -> Int] /\ total \in Nat \ {0}
  BY BasisIsPositive
<1> HIDE DEF basis, total
<1>2. shares = [i \in W |-> L!RoundedDiv(amount * basis[i], total)]
  BY DEF L!Rounded, basis, total
<1>3. shares \in [W -> Int]
  <2>1. \A i \in W : L!RoundedDiv(amount * basis[i], total) \in Int
    <3>1. TAKE i \in W
    <3>2. amount * basis[i] \in Int
      <4>1. basis[i] \in Int
        BY <1>1
      <4>2. \A x \in Int : amount * x \in Int
        BY Z3
      <4>3. QED
        BY <4>1, <4>2
    <3>3. QED
      BY <1>1, <3>2, RoundingType
  <2>2. QED
    BY <1>2, <2>1
<1>4. one \in W
  <2>1. Integral(weights, W)
    BY DEF Integral
  <2>2. most # {}
    BY <2>1, GreatestExists
  <2>3. most \in SUBSET Int /\ IsFiniteSet(most)
    BY FS_Subset
  <2> HIDE DEF most
  <2>4. one \in most
    BY <2>2, <2>3, FirstIsOne
  <2>5. QED
    BY <2>4 DEF most
<1>5. L!Allocate(amount, weights)
        = IF amount = 0 THEN shares ELSE [shares EXCEPT ![one] = @ + amount - L!SumOf(shares)]
  BY DEF L!Allocate
<1>6. CASE amount = 0
  <2>1. \A i \in W : shares[i] = 0
    <3>1. TAKE i \in W
    <3>2. amount * basis[i] = 0
      <4>1. basis[i] \in Int /\ \A x \in Int : 0 * x = 0
        BY <1>1, Z3
      <4>2. QED
        BY <1>6, <4>1
    <3>3. L!RoundedDiv(0, total) = 0
      BY <1>1, RoundingType
    <3>4. QED
      BY <1>2, <3>2, <3>3
  <2>2. SumOver(shares, W) = Cardinality(W) * 0
    <3> DEFINE z == 0
    <3>1. z \in Int /\ \A i \in W : shares[i] = z
      BY <2>1
    <3> HIDE DEF shares, z
    <3>2. SumOver(shares, W) = Cardinality(W) * z
      BY <3>1, SumOfAlike
    <3>3. QED
      BY <3>2 DEF z
  <2>3. Cardinality(W) * 0 = 0
    <3>1. Cardinality(W) \in Nat /\ \A n \in Nat : n * 0 = 0
      BY FS_CardinalityType, Z3
    <3>2. QED
      BY <3>1
  <2> HIDE DEF shares
  <2>4. QED
    BY <1>3, <1>5, <1>6, <2>2, <2>3
<1>7. CASE amount # 0
  <2> HIDE DEF shares, one
  <2> DEFINE r == L!SumOf(shares)
             h == [shares EXCEPT ![one] = @ + amount - r]
             others == W \ {one}
  <2>1. Integral(shares, W) /\ r = SumOver(shares, W)
    BY <1>3, SumOfIsSum DEF Integral
  <2>2. r \in Int
    BY <2>1, SumsByOne
  <2> HIDE DEF r
  <2>3. h \in [W -> Int] /\ h[one] = shares[one] + amount - r /\ \A i \in others : h[i] = shares[i]
    BY <1>3, <1>4, <2>2
  <2>4. Integral(h, W) /\ Integral(shares, others)
    BY <2>1, <2>3, FS_Subset DEF Integral
  <2> HIDE DEF h
  <2>5. SumOver(h, others) = SumOver(shares, others)
    BY <2>3, <2>4, SumsAgree
  <2>6. others \in SUBSET W /\ one \notin others /\ others \cup {one} = W
    BY <1>4
  <2> HIDE DEF others
  <2>7. /\ SumOver(h, others \cup {one}) = SumOver(h, others) + h[one]
        /\ SumOver(shares, others \cup {one}) = SumOver(shares, others) + shares[one]
        /\ SumOver(shares, others) \in Int
    BY <1>4, <2>1, <2>4, <2>6, SumsByOne
  <2>8. shares[one] \in Int
    BY <1>3, <1>4
  <2>9. SumOver(h, W) = amount
    <3> DEFINE s == SumOver(shares, others)
    <3>1. SumOver(h, W) = s + h[one] /\ r = s + shares[one] /\ s \in Int
      BY <2>1, <2>5, <2>6, <2>7
    <3>2. h[one] = shares[one] + amount - r
      BY <2>3
    <3> HIDE DEF s
    <3>3. QED
      BY <2>2, <2>8, <3>1, <3>2
  <2>10. L!Allocate(amount, weights) = h
    BY <1>5, <1>7 DEF h, r
  <2>11. QED
    BY <2>3, <2>9, <2>10
<1>8. QED
  BY <1>6, <1>7

-----------------------------------------------------------------------------
(* What the people on a bill owe. *)

LEMMA PeopleAreFinite ==
    ASSUME L!TypeOK
    PROVE  /\ L!Person \in SUBSET Nat /\ L!Person # {} /\ IsFiniteSet(L!Person)
           /\ guests \in SUBSET L!Person /\ IsFiniteSet(guests)
<1>1. guests \subseteq 1 .. MaxGuests /\ 1 .. MaxGuests \subseteq Nat /\ IsFiniteSet(1 .. MaxGuests)
  <2>1. MaxGuests \in Nat
    BY BillAssumption DEF BillAssumption
  <2>2. IsFiniteSet(1 .. MaxGuests)
    BY <2>1, FS_Interval
  <2>3. QED
    BY <2>1, <2>2 DEF L!TypeOK, L!Guest
<1>2. IsFiniteSet(guests)
  BY <1>1, FS_Subset
<1>3. L!Person = guests \cup {0}
  BY DEF L!Person, L!Me
<1>4. IsFiniteSet(guests \cup {0})
  BY <1>2, FS_AddElement
<1>5. QED
  BY <1>1, <1>2, <1>3, <1>4

LEMMA LinesTyped ==
    ASSUME L!TypeOK
    PROVE  /\ IsFiniteSet(DOMAIN lines)
           /\ \A k \in DOMAIN lines : lines[k].total \in Nat
<1> DEFINE Lines == [total : Prices, assignedTo : SUBSET ({L!Me} \cup L!Guest)]
<1>1. lines \in Seq(Lines)
  BY DEF L!TypeOK
<1> HIDE DEF Lines
<1>2. Len(lines) \in Nat /\ DOMAIN lines = 1 .. Len(lines)
  BY <1>1, LenProperties
<1>3. \A k \in 1 .. Len(lines) : lines[k] \in Lines
  BY <1>1, ElementOfSeq
<1>4. IsFiniteSet(1 .. Len(lines))
  BY <1>2, FS_Interval
<1>5. Prices \subseteq Nat
  BY BillAssumption DEF BillAssumption
<1>6. QED
  BY <1>2, <1>3, <1>4, <1>5 DEF Lines

\* What each has of a line: the line's total between those it is for.
LEMMA LineIsShared ==
    ASSUME L!TypeOK, NEW k \in DOMAIN lines
    PROVE  LET portion == [p \in L!Person |-> L!Slice(lines[k], p)]
           IN  Integral(portion, L!Person) /\ SumOver(portion, L!Person) = lines[k].total
<1> DEFINE P == L!Person
           T == L!Targets(lines[k])
           ones == [x \in T |-> 1]
           A == L!Allocate(lines[k].total, ones)
           slice == [p \in P |-> L!Slice(lines[k], p)]
<1>1. P \in SUBSET Nat /\ P # {} /\ IsFiniteSet(P)
  BY PeopleAreFinite
<1>2. T \in SUBSET P /\ T # {}
  BY <1>1 DEF L!Targets
<1>3. lines[k].total \in Nat
  BY LinesTyped
<1> HIDE DEF P, T
<1>4. T \in SUBSET Int /\ IsFiniteSet(T) /\ ones \in [T -> Int]
  <2>1. IsFiniteSet(T)
    BY <1>1, <1>2, FS_Subset
  <2>2. T \in SUBSET Int
    BY <1>1, <1>2
  <2>3. QED
    BY <2>1, <2>2
<1>5. A \in [T -> Int] /\ SumOver(A, T) = lines[k].total
  <2>1. lines[k].total \in Int
    BY <1>3
  <2> HIDE DEF ones
  <2>2. QED
    BY <1>2, <1>4, <2>1, AllocateAddsUp
<1>6. \A p \in P : slice[p] = IF p \in T THEN A[p] ELSE 0
  BY DEF L!Slice, T, A, ones
<1> HIDE DEF A, slice
<1>7. Integral(slice, P)
  BY <1>1, <1>5, <1>6 DEF Integral
<1>8. SumOver(slice, T) = SumOver(A, T)
  <2>1. Integral(A, T)
    BY <1>4, <1>5 DEF Integral
  <2>2. \A p \in T : slice[p] = A[p]
    BY <1>2, <1>6
  <2>3. QED
    BY <2>1, <2>2, SumsAgree
<1>9. SumOver(slice, P \ T) = 0
  <2> DEFINE z == 0
             rest == P \ T
  <2>1. IsFiniteSet(rest) /\ z \in Int /\ \A p \in rest : slice[p] = z
    BY <1>1, <1>6, FS_Subset
  <2>2. Cardinality(rest) \in Nat /\ \A n \in Nat : n * 0 = 0
    BY <2>1, FS_CardinalityType, Z3
  <2> HIDE DEF z, rest
  <2>3. SumOver(slice, rest) = Cardinality(rest) * z
    BY <2>1, SumOfAlike
  <2>4. QED
    BY <2>2, <2>3 DEF z, rest
<1>10. SumOver(slice, T \cup (P \ T)) = SumOver(slice, T) + SumOver(slice, P \ T)
  <2> DEFINE rest == P \ T
  <2>1. rest \in SUBSET P /\ T \cap rest = {}
    BY <1>2
  <2> HIDE DEF rest
  <2>2. SumOver(slice, T \cup rest) = SumOver(slice, T) + SumOver(slice, rest)
    BY <1>2, <1>7, <2>1, SumsApart
  <2>3. QED
    BY <2>2 DEF rest
<1>11. T \cup (P \ T) = P
  BY <1>2
<1>12. SumOver(slice, P) = lines[k].total
  BY <1>3, <1>5, <1>8, <1>9, <1>10, <1>11
<1>13. QED
  BY <1>7, <1>12 DEF P, slice

\* The lines between the people, or the people's shares line by line: the same sum.
LEMMA SubtotalsAddUp ==
    ASSUME L!TypeOK
    PROVE  /\ L!Subtotals \in [L!Person -> Int]
           /\ SumOver(L!Subtotals, L!Person) = L!SumOf([k \in DOMAIN lines |-> lines[k].total])
           /\ L!SumOf([k \in DOMAIN lines |-> lines[k].total]) \in Int
<1> DEFINE P == L!Person
           D == DOMAIN lines
           m == [k \in D |-> [p \in P |-> L!Slice(lines[k], p)]]
           totals == [k \in D |-> lines[k].total]
<1>1. IsFiniteSet(P) /\ IsFiniteSet(D)
  BY PeopleAreFinite, LinesTyped
<1>2. \A k \in D : Integral(m[k], P) /\ SumOver(m[k], P) = lines[k].total
  BY LineIsShared
<1>3. Integral(totals, D) /\ \A k \in D : totals[k] = lines[k].total
  BY <1>1, LinesTyped DEF Integral
<1>4. \A p \in P : L!Subtotal(p) = SumOver([k \in D |-> m[k][p]], D)
  <2>1. TAKE p \in P
  <2> DEFINE a == [k \in D |-> L!Slice(lines[k], p)]
  <2>2. a = [k \in D |-> m[k][p]] /\ DOMAIN a = D
    OBVIOUS
  <2>3. L!Subtotal(p) = L!SumOf(a)
    BY DEF L!Subtotal
  <2> HIDE DEF a, m
  <2>4. QED
    BY <2>2, <2>3, SumOfIsSum
<1>5. \A p \in P : SumOver([k \in D |-> m[k][p]], D) \in Int
  <2>1. TAKE p \in P
  <2>2. Integral([k \in D |-> m[k][p]], D)
    <3> HIDE DEF m
    <3>1. QED
      BY <1>1, <1>2 DEF Integral
  <2> DEFINE a == [k \in D |-> m[k][p]]
  <2> HIDE DEF a, m
  <2>3. SumOver(a, D) \in Int
    BY <2>2, SumsByOne DEF a
  <2>4. QED
    BY <2>3 DEF a
<1> HIDE DEF m, P, totals
<1>6. L!Subtotals = [p \in P |-> SumOver([k \in D |-> m[k][p]], D)]
  BY <1>4 DEF L!Subtotals, P
<1>7. SumOver(L!Subtotals, P) = SumOver([k \in D |-> SumOver(m[k], P)], D)
  <2>1. \A k \in D : Integral(m[k], P)
    BY <1>2
  <2>2. QED
    BY <1>1, <1>6, <2>1, SumsExchange
<1>8. [k \in D |-> SumOver(m[k], P)] = totals
  BY <1>2 DEF totals
<1>9. L!SumOf(totals) = SumOver(totals, D) /\ SumOver(totals, D) \in Int
  <2>1. DOMAIN totals = D
    BY DEF totals
  <2>2. QED
    BY <1>3, <2>1, SumOfIsSum, SumsByOne
<1>10. L!Subtotals \in [P -> Int]
  BY <1>5, <1>6
<1>11. QED
  BY <1>7, <1>8, <1>9, <1>10 DEF P, totals

\* What each owes, tax and discount and all.
LEMMA TotalsAddUp ==
    ASSUME L!TypeOK
    PROVE  /\ L!PersonTotals \in [L!Person -> Int]
           /\ SumOver(L!PersonTotals, L!Person) = L!BillTotal
<1> DEFINE P == L!Person
           subtotals == L!Subtotals
           taxes == L!Allocate(tax, subtotals)
           discounts == L!Allocate(discount, subtotals)
           all == L!SumOf([k \in DOMAIN lines |-> lines[k].total])
<1>1. P \in SUBSET Int /\ P # {} /\ IsFiniteSet(P)
  BY PeopleAreFinite
<1>2. subtotals \in [P -> Int] /\ SumOver(subtotals, P) = all /\ all \in Int
  BY SubtotalsAddUp
<1>3. tax \in Int /\ discount \in Int
  BY BillAssumption DEF BillAssumption, L!TypeOK
<1> HIDE DEF P, subtotals, all
<1>4. /\ taxes \in [P -> Int] /\ SumOver(taxes, P) = tax
      /\ discounts \in [P -> Int] /\ SumOver(discounts, P) = discount
  BY <1>1, <1>2, <1>3, AllocateAddsUp
<1>5. L!PersonTotals = [p \in P |-> subtotals[p] + taxes[p] - discounts[p]]
  BY DEF L!PersonTotals, P, subtotals
<1>6. L!BillTotal = all + tax - discount
  BY DEF L!BillTotal, all
<1> HIDE DEF taxes, discounts
<1>7. L!PersonTotals \in [P -> Int]
  BY <1>2, <1>4, <1>5
<1>8. SumOver(L!PersonTotals, P) = SumOver(subtotals, P) + SumOver(taxes, P) - SumOver(discounts, P)
  <2>1. Integral(subtotals, P) /\ Integral(taxes, P) /\ Integral(discounts, P)
    BY <1>1, <1>2, <1>4 DEF Integral
  <2>2. \A p \in P : L!PersonTotals[p] = subtotals[p] + taxes[p] - discounts[p]
    BY <1>5
  <2>3. QED
    BY <2>1, <2>2, SumsAreLinear
<1>9. QED
  BY <1>2, <1>4, <1>6, <1>7, <1>8 DEF P

LEMMA SplitIsExact == L!TypeOK => L!SplitAddsUp
<1> SUFFICES ASSUME L!TypeOK
             PROVE  L!SplitAddsUp
  OBVIOUS
<1>1. DOMAIN L!PersonTotals = L!Person
  BY TotalsAddUp
<1>2. L!SumOf(L!PersonTotals) = SumOver(L!PersonTotals, L!Person)
  BY <1>1, SumOfIsSum
<1>3. QED
  BY <1>2, TotalsAddUp DEF L!SplitAddsUp

-----------------------------------------------------------------------------
(* What the server files. *)

\* The remainder between those without an amount, the last of whom takes what division leaves.
LEMMA EvenSharesAddUp ==
    ASSUME NEW E \in SUBSET Int, IsFiniteSet(E), E # {}, L!EvenOnes = E, L!Remainder \in Nat,
           NEW h, \A g \in E : h[g] = L!EvenShare(g)
    PROVE  Integral(h, E) /\ SumOver(h, E) = L!Remainder
<1> DEFINE last == L!LastOne
           rem == L!Remainder
           n == Cardinality(E)
           q1 == rem \div n
           others == E \ {last}
<1>1. last \in E
  BY FirstIsOne DEF L!LastOne
<1>2. n \in Nat \ {0}
  BY FS_CardinalityType, FS_EmptySet
<1>3. L!Cardinality(E) = n
  BY DEF L!Cardinality, Cardinality
<1>4. \A g \in E : h[g] = IF g = last THEN rem - (n - 1) * q1 ELSE q1
  BY <1>3 DEF L!EvenShare
<1>5. rem \in Nat
  OBVIOUS
<1> HIDE DEF last, rem, n
<1>6. q1 \in Int
  BY <1>2, <1>5, Z3
<1> HIDE DEF q1
<1>7. (n - 1) * q1 \in Int
  BY <1>2, <1>6, Z3
<1>8. Integral(h, E)
  BY <1>4, <1>5, <1>6, <1>7 DEF Integral
<1>9. others \in SUBSET E /\ last \notin others /\ others \cup {last} = E
  BY <1>1
<1>10. IsFiniteSet(others) /\ Cardinality(others) = n - 1
  BY <1>1, FS_RemoveElement DEF n
<1>11. \A g \in others : h[g] = q1
  BY <1>4
<1> HIDE DEF others
<1>12. SumOver(h, others) = Cardinality(others) * q1
  BY <1>6, <1>10, <1>11, SumOfAlike
<1>13. SumOver(h, others \cup {last}) = SumOver(h, others) + h[last]
  BY <1>1, <1>8, <1>9, SumsByOne
<1>14. h[last] = rem - (n - 1) * q1
  BY <1>1, <1>4
<1> DEFINE s == (n - 1) * q1
<1>15. SumOver(h, E) = s + (rem - s) /\ s \in Int
  BY <1>7, <1>9, <1>10, <1>12, <1>13, <1>14
<1> HIDE DEF s
<1>16. SumOver(h, E) = rem
  BY <1>5, <1>15
<1>17. QED
  BY <1>8, <1>16 DEF rem

RequestOK == \A g \in DOMAIN request.amount : request.amount[g] \in Int
BillInv == L!TypeOK /\ RequestOK /\ L!SharesAddUp

\* A bill the server takes has shares that come to its total.
LEMMA SharesOfACreatedBill ==
    ASSUME L!TypeOK, RequestOK, ~L!Refused, NEW share,
           share = [g \in DOMAIN request.amount |-> IF g \in L!Explicit THEN request.amount[g] ELSE L!EvenShare(g)]
    PROVE  L!SumOf(share) = request.total
<1> DEFINE G == DOMAIN request.amount
           X == L!Explicit
           E == L!EvenOnes
           ax == [g \in X |-> request.amount[g]]
           rem == L!Remainder
<1>1. G \in SUBSET Int /\ IsFiniteSet(G)
  <2>1. MaxGuests \in Nat
    BY BillAssumption DEF BillAssumption
  <2>2. IsFiniteSet(1 .. MaxGuests)
    BY <2>1, FS_Interval
  <2>3. G \in SUBSET (1 .. MaxGuests)
    BY DEF L!TypeOK, L!Guest
  <2>4. IsFiniteSet(G)
    BY <2>2, <2>3, FS_Subset
  <2>5. QED
    BY <2>1, <2>3, <2>4
<1>2. X \in SUBSET G /\ E = G \ X
  BY DEF L!Explicit, L!EvenOnes
<1>3. \A g \in G : request.amount[g] \in Int
  BY DEF RequestOK
<1>4. request.total \in Nat
  BY DEF L!TypeOK
<1>5. rem = request.total - L!SumOf(ax)
  BY DEF L!Remainder
<1>6. DOMAIN share = G /\ (\A g \in X : share[g] = ax[g]) /\ \A g \in E : share[g] = L!EvenShare(g)
  BY <1>2
<1>7. Integral(ax, X) /\ L!SumOf(ax) = SumOver(ax, X) /\ SumOver(ax, X) \in Int
  <2>1. IsFiniteSet(X)
    BY <1>1, <1>2, FS_Subset
  <2>2. Integral(ax, X) /\ DOMAIN ax = X
    BY <1>2, <1>3, <2>1 DEF Integral
  <2> HIDE DEF ax
  <2>3. QED
    BY <2>2, SumOfIsSum, SumsByOne
<1>8. ~(rem < 0) /\ ~(E = {} /\ rem > 0)
  BY DEF L!Refused
<1> HIDE DEF G, X, E, ax
<1>9. rem \in Nat
  <2>1. rem \in Int
    BY <1>4, <1>5, <1>7
  <2> HIDE DEF rem
  <2>2. QED
    BY <1>8, <2>1
<1>10. IsFiniteSet(E) /\ E \in SUBSET Int
  BY <1>1, <1>2, FS_Subset
<1>11. SumOver(share, X) = SumOver(ax, X) /\ Integral(share, X)
  <2>1. Integral(share, X)
    BY <1>6, <1>7 DEF Integral
  <2>2. SumOver(share, X) = SumOver(ax, X)
    BY <1>6, <1>7, SumsAgree
  <2>3. QED
    BY <2>1, <2>2
<1>12. SumOver(share, E) = rem /\ Integral(share, E)
  <2>1. CASE E = {}
    <3>1. Integral(share, E)
      BY <1>10, <2>1 DEF Integral
    <3>2. SumOver(share, {}) = 0
      BY <2>1, <3>1, SumsByOne
    <3>3. rem = 0
      <4> HIDE DEF rem
      <4>1. QED
        BY <1>8, <1>9, <2>1
    <3>4. QED
      BY <2>1, <3>1, <3>2, <3>3
  <2>2. CASE E # {}
    <3>1. L!EvenOnes = E /\ L!Remainder \in Nat
      BY <1>9 DEF E
    <3>2. QED
      BY <1>6, <1>10, <2>2, <3>1, EvenSharesAddUp
  <2>3. QED
    BY <2>1, <2>2
<1>13. Integral(share, G)
  BY <1>1, <1>2, <1>11, <1>12 DEF Integral
<1>14. X \in SUBSET G /\ E \in SUBSET G /\ X \cap E = {} /\ X \cup E = G
  BY <1>2
<1>15. SumOver(share, X \cup E) = SumOver(share, X) + SumOver(share, E)
  BY <1>13, <1>14, SumsApart
<1>16. L!SumOf(share) = SumOver(share, G)
  BY <1>6, SumOfIsSum
<1> DEFINE s == SumOver(ax, X)
<1> HIDE DEF rem
<1>17. L!SumOf(share) = s + rem /\ rem = request.total - s /\ s \in Int
  BY <1>5, <1>7, <1>11, <1>12, <1>14, <1>15, <1>16
<1> HIDE DEF s
<1>18. QED
  BY <1>4, <1>17

-----------------------------------------------------------------------------
(* The form and the route. *)

Lines == [total : Prices, assignedTo : SUBSET ({L!Me} \cup L!Guest)]
LEMMA SplitStart == L!Init => BillInv
<1> SUFFICES ASSUME L!Init
             PROVE  BillInv
  OBVIOUS
<1>1. guests \subseteq L!Guest
  BY BillAssumption DEF BillAssumption, L!Init, L!Guest
<1>2. lines \in Seq(Lines)
  BY DEF L!Init
<1>3. request = [total |-> 0, amount |-> <<>>] /\ DOMAIN request.amount = {}
  BY DEF L!Init, L!NoRequest
<1>4. split = [at |-> "none", total |-> 0, share |-> <<>>] /\ DOMAIN split.share = {} /\ split.at = "none"
  BY DEF L!Init, L!NoBill
<1>5. L!TypeOK
  BY <1>1, <1>2, <1>3, <1>4 DEF L!TypeOK, L!Init, Lines
<1>6. RequestOK
  BY <1>3 DEF RequestOK
<1>7. L!SharesAddUp
  BY <1>4 DEF L!SharesAddUp
<1>8. QED
  BY <1>5, <1>6, <1>7 DEF BillInv

\* What the form posts.
LEMMA SubmitKeeps ==
    ASSUME BillInv, L!Submit
    PROVE  BillInv'
<1> DEFINE totals == L!PersonTotals
           due == SumOver(totals, guests)
<1>1. L!TypeOK
  BY DEF BillInv
<1>2. totals \in [L!Person -> Int] /\ guests \in SUBSET L!Person /\ IsFiniteSet(L!Person)
  BY <1>1, TotalsAddUp, PeopleAreFinite
<1>3. Integral(totals, L!Person)
  BY <1>2 DEF Integral
<1>4. due \in Int
  BY <1>2, <1>3, SumsByOne
<1>5. L!OwedLocal = due
  BY DEF L!OwedLocal, SumOver
<1>6. rate \in Nat \ {0}
  BY <1>1, BillAssumption DEF BillAssumption, L!TypeOK
<1>7. due > 0
  BY <1>5 DEF L!Submit
<1> HIDE DEF totals, due
<1>8. /\ request' = [total |-> L!InUsdc(due), amount |-> [g \in guests |-> L!InUsdc(totals[g])]]
      /\ split' = L!NoBill
      /\ rate' = rate /\ guests' = guests /\ lines' = lines /\ tax' = tax /\ discount' = discount
  BY <1>5 DEF L!Submit, totals
<1>9. L!InUsdc(due) \in Nat
  <2>1. (2 * due + rate) \div (2 * rate) \in Int
    BY <1>4, <1>6, Z3
  <2>2. (2 * due + rate) \div (2 * rate) >= 0
    BY <1>4, <1>6, <1>7, Z3
  <2>3. QED
    BY <2>1, <2>2 DEF L!InUsdc, L!RoundedDiv
<1>10. \A g \in guests : L!InUsdc(totals[g]) \in Int
  <2>1. TAKE g \in guests
  <2>2. totals[g] \in Int
    BY <1>2
  <2>3. QED
    BY <1>6, <2>2, RoundingType DEF L!InUsdc
<1>11. split'.at = "none" /\ DOMAIN split'.share = {}
  BY <1>8 DEF L!NoBill
<1>12. L!TypeOK'
  <2>1. request'.total = L!InUsdc(due) /\ DOMAIN request'.amount = guests
    BY <1>8
  <2>2. QED
    BY <1>1, <1>8, <1>9, <1>11, <2>1 DEF L!TypeOK, L!Guest
<1>13. RequestOK'
  BY <1>8, <1>10 DEF RequestOK
<1>14. L!SharesAddUp'
  BY <1>11 DEF L!SharesAddUp
<1>15. QED
  BY <1>12, <1>13, <1>14 DEF BillInv

\* What the server makes of it.
LEMMA CreateKeeps ==
    ASSUME BillInv, L!Create
    PROVE  BillInv'
<1>1. L!TypeOK /\ RequestOK
  BY DEF BillInv
<1>2. request' = [total |-> 0, amount |-> <<>>] /\ DOMAIN request'.amount = {} /\ rate' = rate
  BY DEF L!Create, L!NoRequest
<1>3. RequestOK'
  BY <1>2 DEF RequestOK
<1>4. CASE L!Refused
  <2>1. /\ split'.at = "refused" /\ DOMAIN split'.share = {}
        /\ guests' = guests /\ lines' = lines /\ tax' = tax /\ discount' = discount
    BY <1>4 DEF L!Create, L!NoBill
  <2>2. L!TypeOK'
    BY <1>1, <1>2, <2>1 DEF L!TypeOK, L!Guest
  <2>3. L!SharesAddUp'
    BY <2>1 DEF L!SharesAddUp
  <2>4. QED
    BY <1>3, <2>2, <2>3 DEF BillInv
<1>5. CASE ~L!Refused
  <2> DEFINE share == [g \in DOMAIN request.amount |->
                          IF g \in L!Explicit THEN request.amount[g] ELSE L!EvenShare(g)]
  <2>1. /\ split' = [at |-> "created", total |-> request.total, share |-> share]
        /\ guests' = {1} /\ lines' = <<>> /\ tax' = 0 /\ discount' = 0
    BY <1>5 DEF L!Create
  <2>2. L!SumOf(share) = request.total
    <3> DEFINE same == share
    <3>1. same = share
      OBVIOUS
    <3> HIDE DEF same
    <3>2. L!SumOf(same) = request.total
      BY <1>1, <1>5, <3>1, SharesOfACreatedBill
    <3>3. QED
      BY <3>1, <3>2
  <2>3. DOMAIN share = DOMAIN request.amount
    OBVIOUS
  <2> HIDE DEF share
  <2>4. split'.at = "created" /\ split'.total = request.total /\ split'.share = share
    BY <2>1
  <2>5. L!SumOf(split'.share) = split'.total
    BY <2>2, <2>4
  <2>6. L!SharesAddUp'
    <3>1. L!SharesAddUp' <=> (split'.at = "created" => L!SumOf(split'.share) = split'.total)
      BY DEF L!SharesAddUp, L!SumOf
    <3>2. QED
      BY <2>5, <3>1
  <2>7. lines' \in Seq(Lines)
    BY <2>1
  <2>8. guests' \subseteq L!Guest
    BY <2>1, BillAssumption DEF BillAssumption, L!Guest
  <2>9. DOMAIN split'.share \subseteq L!Guest
    BY <1>1, <2>3, <2>4 DEF L!TypeOK
  <2>10. L!TypeOK'
    BY <1>1, <1>2, <2>1, <2>4, <2>7, <2>8, <2>9 DEF L!TypeOK, L!Guest, Lines, L!Me
  <2>11. QED
    BY <1>3, <2>6, <2>10 DEF BillInv
<1>6. QED
  BY <1>4, <1>5

\* A change of the form is a change of what is on it.
LEMMA FormKeeps ==
    ASSUME BillInv, split' = L!NoBill \/ split' = split, request' = request, rate' = rate,
           guests' \subseteq L!Guest, lines' \in Seq(Lines),
           tax' \in Charges \cup {0}, discount' \in Charges \cup {0}
    PROVE  BillInv'
<1>1. L!TypeOK'
  BY DEF BillInv, L!TypeOK, L!Guest, L!NoBill, Lines, L!Me
<1>2. RequestOK'
  BY DEF BillInv, RequestOK
<1>3. L!SharesAddUp'
  BY DEF BillInv, L!SharesAddUp, L!SumOf, L!NoBill
<1>4. QED
  BY <1>1, <1>2, <1>3 DEF BillInv

\* A line that is changed, or taken off, leaves a list of lines.
LEMMA LinesChange ==
    ASSUME lines \in Seq(Lines)
    PROVE  /\ DOMAIN lines = 1 .. Len(lines) /\ Len(lines) \in Nat
           /\ \A k \in DOMAIN lines : lines[k] \in Lines
           /\ \A line \in Lines : Append(lines, line) \in Seq(Lines)
           /\ \A k \in DOMAIN lines, line \in Lines : [lines EXCEPT ![k] = line] \in Seq(Lines)
           /\ \A k \in DOMAIN lines : L!RemoveAt(lines, k) \in Seq(Lines)
<1>1. DOMAIN lines = 1 .. Len(lines) /\ Len(lines) \in Nat /\ \A k \in DOMAIN lines : lines[k] \in Lines
  BY LenProperties, ElementOfSeq
<1>2. \A line \in Lines : Append(lines, line) \in Seq(Lines)
  BY AppendProperties
<1>3. \A k \in DOMAIN lines, line \in Lines : [lines EXCEPT ![k] = line] \in Seq(Lines)
  BY <1>1, ExceptSeq
<1>4. ASSUME NEW k \in DOMAIN lines
      PROVE  L!RemoveAt(lines, k) \in Seq(Lines)
  <2>1. SubSeq(lines, 1, k - 1) \in Seq(Lines) /\ SubSeq(lines, k + 1, Len(lines)) \in Seq(Lines)
    BY <1>1, SubSeqProperties
  <2>2. QED
    BY <2>1, ConcatProperties DEF L!RemoveAt
<1>5. QED
  BY <1>1, <1>2, <1>3, <1>4

LEMMA BillStep == BillInv /\ [L!Next]_(L!vars) => BillInv'
<1>1. ASSUME BillInv
      PROVE  /\ guests \subseteq L!Guest /\ lines \in Seq(Lines)
             /\ tax \in Charges \cup {0} /\ discount \in Charges \cup {0}
             /\ request.total \in Nat
  BY <1>1 DEF BillInv, L!TypeOK, Lines
<1>2. ASSUME BillInv, NEW g \in L!Guest, L!AddGuest(g) \/ L!RemoveGuest(g)
      PROVE  BillInv'
  <2>1. CASE L!AddGuest(g)
    BY <1>1, <1>2, <2>1, FormKeeps DEF L!AddGuest, L!Edit
  <2>2. CASE L!RemoveGuest(g)
    <3>1. lines' = [k \in DOMAIN lines |-> [lines[k] EXCEPT !.assignedTo = @ \ {g}]]
      BY <2>2 DEF L!RemoveGuest
    <3>2. DOMAIN lines = 1 .. Len(lines) /\ Len(lines) \in Nat /\ \A k \in DOMAIN lines : lines[k] \in Lines
      BY <1>1, <1>2, LinesChange
    <3>3. \A k \in 1 .. Len(lines) : [lines[k] EXCEPT !.assignedTo = @ \ {g}] \in Lines
      BY <3>2 DEF Lines
    <3>4. lines' \in Seq(Lines)
      BY <3>1, <3>2, <3>3, IsASeq
    <3>5. QED
      BY <1>1, <1>2, <2>2, <3>4, FormKeeps DEF L!RemoveGuest, L!Edit
  <2>3. QED
    BY <1>2, <2>1, <2>2
<1>3. ASSUME BillInv, NEW picked \in SUBSET Contacts, NEW typed \in SUBSET guests, L!PickContacts(picked, typed)
      PROVE  BillInv'
  <2>1. guests' \subseteq L!Guest
    <3>1. MaxGuests \in Nat \ {0} /\ Contacts \subseteq L!Guest
      BY BillAssumption DEF BillAssumption, L!Guest
    <3>2. {1} \subseteq L!Guest
      BY <3>1 DEF L!Guest
    <3>3. guests' = {1} \/ guests' = picked \cup typed
      BY <1>3 DEF L!PickContacts
    <3>4. picked \cup typed \subseteq L!Guest
      BY <1>1, <1>3, <3>1
    <3>5. QED
      BY <3>2, <3>3, <3>4
  <2>2. QED
    BY <1>1, <1>3, <2>1, FormKeeps DEF L!PickContacts, L!Edit
<1>4. ASSUME BillInv, NEW r \in Receipts, L!ScanArrives(r)
      PROVE  BillInv'
  <2>1. r.prices \in Seq(Prices) /\ r.tax \in Charges \cup {0} /\ r.discount \in Charges \cup {0}
    BY BillAssumption DEF BillAssumption
  <2>2. DOMAIN r.prices = 1 .. Len(r.prices) /\ Len(r.prices) \in Nat /\ \A k \in DOMAIN r.prices : r.prices[k] \in Prices
    BY <2>1, LenProperties, ElementOfSeq
  <2>3. lines' = [k \in 1 .. Len(r.prices) |-> [total |-> r.prices[k], assignedTo |-> {}]]
    BY <1>4, <2>2 DEF L!ScanArrives
  <2>4. \A k \in 1 .. Len(r.prices) : [total |-> r.prices[k], assignedTo |-> {}] \in Lines
    BY <2>2 DEF Lines
  <2>5. lines' \in Seq(Lines)
    BY <2>2, <2>3, <2>4, IsASeq
  <2>6. QED
    BY <1>1, <1>4, <2>1, <2>5, FormKeeps DEF L!ScanArrives
<1>5. ASSUME BillInv, NEW price \in Prices, L!AddLine(price)
      PROVE  BillInv'
  <2>1. [total |-> price, assignedTo |-> {}] \in Lines
    BY DEF Lines
  <2>2. lines' \in Seq(Lines)
    BY <1>1, <1>5, <2>1, LinesChange DEF L!AddLine
  <2>3. QED
    BY <1>1, <1>5, <2>2, FormKeeps DEF L!AddLine, L!Edit
<1>6. ASSUME BillInv, NEW total \in Prices, L!SubmitEven(total)
      PROVE  BillInv'
  <2>1. /\ request' = [total |-> total, amount |-> [g \in guests |-> 0]] /\ split' = L!NoBill
        /\ rate' = rate /\ guests' = guests /\ lines' = lines /\ tax' = tax /\ discount' = discount
    BY <1>6 DEF L!SubmitEven
  <2>2. request'.total \in Nat /\ DOMAIN request'.amount = guests
    BY <2>1, BillAssumption DEF BillAssumption
  <2>3. split'.at = "none" /\ DOMAIN split'.share = {}
    BY <2>1 DEF L!NoBill
  <2>4. L!TypeOK'
    BY <1>1, <1>6, <2>1, <2>2, <2>3 DEF BillInv, L!TypeOK, L!Guest
  <2>5. RequestOK'
    BY <2>1 DEF RequestOK
  <2>6. L!SharesAddUp'
    BY <2>3 DEF L!SharesAddUp
  <2>7. QED
    BY <2>4, <2>5, <2>6 DEF BillInv
<1>7. ASSUME BillInv, NEW k \in DOMAIN lines, L!RemoveLine(k)
      PROVE  BillInv'
  <2>1. lines' \in Seq(Lines)
    BY <1>1, <1>7, LinesChange DEF L!RemoveLine
  <2>2. QED
    BY <1>1, <1>7, <2>1, FormKeeps DEF L!RemoveLine, L!Edit
<1>8. ASSUME BillInv, NEW k \in DOMAIN lines, NEW p \in {L!Me} \cup L!Guest, L!ToggleAssignment(k, p)
      PROVE  BillInv'
  <2> DEFINE line == [lines[k] EXCEPT !.assignedTo = IF p \in @ THEN @ \ {p} ELSE @ \cup {p}]
  <2>1. lines[k] \in Lines
    BY <1>1, <1>8, LinesChange
  <2>2. line \in Lines
    BY <2>1 DEF Lines
  <2>3. lines' = [lines EXCEPT ![k] = line]
    BY <1>8 DEF L!ToggleAssignment
  <2> HIDE DEF line
  <2>4. lines' \in Seq(Lines)
    BY <1>1, <1>8, <2>2, <2>3, LinesChange
  <2>5. QED
    BY <1>1, <1>8, <2>4, FormKeeps DEF L!ToggleAssignment, L!Edit
<1>9. ASSUME BillInv, NEW k \in DOMAIN lines, NEW price \in Prices, L!EditLine(k, price)
      PROVE  BillInv'
  <2> DEFINE line == [lines[k] EXCEPT !.total = price]
  <2>1. lines[k] \in Lines
    BY <1>1, <1>9, LinesChange
  <2>2. line \in Lines
    BY <2>1 DEF Lines
  <2>3. lines' = [lines EXCEPT ![k] = line]
    BY <1>9 DEF L!EditLine
  <2> HIDE DEF line
  <2>4. lines' \in Seq(Lines)
    BY <1>1, <1>9, <2>2, <2>3, LinesChange
  <2>5. QED
    BY <1>1, <1>9, <2>4, FormKeeps DEF L!EditLine, L!Edit
<1>10. ASSUME BillInv, NEW t \in Charges \cup {0}, NEW d \in Charges \cup {0}, L!SetCharges(t, d)
       PROVE  BillInv'
  BY <1>1, <1>10, FormKeeps DEF L!SetCharges, L!Edit
<1>11. ASSUME BillInv, UNCHANGED L!vars
       PROVE  BillInv'
  BY <1>1, <1>11, FormKeeps DEF L!vars
<1>12. QED
  BY <1>2, <1>3, <1>4, <1>5, <1>6, <1>7, <1>8, <1>9, <1>10, <1>11, SubmitKeeps, CreateKeeps DEF L!Next

\* What the people on a bill owe comes to the bill, on the form in every state it can be in and in
\* the tables once the server took it, whatever was rounded.
THEOREM BillsAreExact == PaymentsSpec => []SharesAddUp
<1>1. PaymentsInit => BillInv
  BY SplitStart DEF PaymentsInit
<1>2. BillInv /\ [PaymentsNext]_allVars => BillInv'
  <2>1. [PaymentsNext]_allVars => [L!Next]_(L!vars)
    BY DEF PaymentsNext, allVars, LVars, L!vars
  <2>2. QED
    BY <2>1, BillStep
<1>3. BillInv => SharesAddUp
  BY SplitIsExact DEF BillInv, SharesAddUp
<1>4. QED
  BY <1>1, <1>2, <1>3, PTL DEF PaymentsSpec
=============================================================================
