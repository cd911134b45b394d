------------------------------ MODULE Offramp ------------------------------
(***************************************************************************)
(* The off-ramp: the escrow contract, the server's three handlers over it, *)
(* and the two tables they keep.                                           *)
(*   web/app/api/offramp/lock        files a lock, then settles it in the  *)
(*                                   background;                           *)
(*   web/app/api/offramp/[requestId] the user's refund;                    *)
(*   web/app/api/offramp/sweep       the scheduled refunds.                *)
(*                                                                         *)
(* A running invocation is a job.  Every await ends a step, so any two     *)
(* invocations interleave there; between two of them a job may be killed.  *)
(* All transactions come from the one settler wallet, so they are mined in *)
(* nonce order: the mempool is a queue.                                    *)
(***************************************************************************)
EXTENDS Naturals, FiniteSets, Sequences

CONSTANTS
    User, Server,  \* the accounts: the one that locks, the settler (and owner)
    Zero,          \* address(0)
    Usdc, Stable,  \* the one token the route accepts; what the swap buys
    Outsider,      \* the accounts that call refund() without the server
    Poster, Refunder, Sweeper,  \* slots for invocations of the three routes
    RateExpiry,    \* RATE_EXPIRY of lib/escrow.ts
    Grace,         \* SWEEP_GRACE_MS
    BatchSize,     \* SWEEP_BATCH_SIZE
    MaxRequests,   \* bound: locks
    MaxTime,       \* bound: clock
    MaxPosts,      \* bound: times the client posts one lock
    MaxFaults      \* bound: crashes, failed awaits and lost writes

ASSUME OfframpAssumption ==
    /\ Outsider \subseteq {User} /\ Zero \notin {User, Server, Usdc, Stable}
    /\ "nobody" \notin Poster \cup Refunder \cup Sweeper
    /\ Poster \cap Refunder = {} /\ Poster \cap Sweeper = {} /\ Refunder \cap Sweeper = {}
    /\ RateExpiry \in Nat \ {0} /\ Grace \in Nat /\ BatchSize \in Nat \ {0}
    /\ MaxRequests \in Nat \ {0} /\ MaxTime \in Nat /\ MaxPosts \in Nat /\ MaxFaults \in Nat

VARIABLES
    now, owner, settler, stableToken, offrampAllowed, nonce, requests, held, spent,
    mempool,   \* the settler's transactions, sent and not yet mined
    row,       \* offramp_requests: request -> status and fiat_status
    lockRows,  \* transactions: request -> rows of type offramp_lock
    refundRows,\* transactions: request -> rows of type offramp_refund
    payouts,   \* request -> disbursements asked of the payout partner
    job,       \* slot -> the invocation it runs
    posts,     \* request -> times the client posted it
    faults     \* faults so far

chainVars == <<now, owner, settler, stableToken, offrampAllowed, nonce, requests,
               held, spent>>
tableVars == <<row, lockRows, refundRows, payouts>>
boundVars == <<posts, faults>>
vars == <<chainVars, mempool, tableVars, job, boundVars>>

Escrow == INSTANCE SakuOfframpEscrow WITH
    Address <- {User, Server}, ZeroAddress <- Zero, Token <- {Usdc, Stable},
    MinRateExpiry <- RateExpiry, MaxRateExpiry <- RateExpiry,
    Endowment <- MaxRequests, MaxStray <- 0

Request == Escrow!RequestId
Worker == Poster \cup Refunder \cup Sweeper

NoRow == [status |-> "none", fiat |-> "none"]
NoJob == [pc |-> "idle", id |-> 0, batch |-> {}, saw |-> "none", tx |-> "none"]

Row == [status : {"none", "locked", "settled", "refunded"},
        fiat : {"none", "not_started", "converting", "completed"}]
Job == [pc : {"idle", "insert", "history", "settle", "settling", "mark", "disburse",
              "complete", "look", "reconcile", "refund", "refunding", "claim", "record"},
        id : Request, batch : SUBSET Request,
        saw : {"none", "Settled", "Refunded"},
        tx : {"none", "pending", "mined", "reverted"}]
Call == [call : {"settle", "refund"}, id : Request, by : Worker \cup {"nobody"}]

TypeOK ==
    /\ Escrow!TypeOK
    /\ mempool \in Seq(Call)
    /\ row \in [Request -> Row]
    /\ lockRows \in [Request -> Nat] /\ refundRows \in [Request -> Nat]
    /\ payouts \in [Request -> Nat]
    /\ job \in [Worker -> Job]
    /\ posts \in [Request -> 0 .. MaxPosts] /\ faults \in 0 .. MaxFaults

\* The contract as deployed: the settler owns it and USDC is on the allowlist.
Init ==
    /\ now = 0 /\ owner = Server /\ settler = Server
    /\ stableToken = Stable /\ offrampAllowed = {Usdc}
    /\ nonce = 0 /\ requests = [i \in Request |-> Escrow!NoRequest]
    /\ held = [t \in {Usdc, Stable} |-> 0]
    /\ spent = [t \in {Usdc, Stable} |-> [a \in {User, Server} |-> 0]]
    /\ mempool = <<>>
    /\ row = [i \in Request |-> NoRow]
    /\ lockRows = [i \in Request |-> 0] /\ refundRows = [i \in Request |-> 0]
    /\ payouts = [i \in Request |-> 0]
    /\ job = [w \in Worker |-> NoJob]
    /\ posts = [i \in Request |-> 0] /\ faults = 0

-----------------------------------------------------------------------------
(* What the steps share. *)

ChainStatus(id) == requests[id].status
Deadline(id) == requests[id].deadline   \* rate_expires_at is written from it

\* The swap route from USDC to the stable token.
Path == <<Usdc, Stable>>

At(w, pc) == job[w].pc = pc
Goto(w, pc) == job' = [job EXCEPT ![w].pc = pc, ![w].tx = "none"]

\* The sweep's loop goes on to the oldest row left; the other handlers return.
Oldest(ids) == {i \in ids : \A j \in ids : Deadline(i) <= Deadline(j)}
Finish(w) ==
    IF job[w].batch = {}
    THEN job' = [job EXCEPT ![w] = NoJob]
    ELSE \E id \in Oldest(job[w].batch) :
           job' = [job EXCEPT ![w] = [NoJob EXCEPT !.pc = "look", !.id = id,
                                        !.batch = job[w].batch \ {id}]]

\* ethers estimates gas first, so a call that would revert now is never sent.
SettleWouldSucceed(id) == ChainStatus(id) = "Locked" /\ ~Escrow!Expired(id)
RefundWouldSucceed(id) == ChainStatus(id) = "Locked" /\ Escrow!Expired(id)

Send(w, call, pc) ==
    /\ mempool' = Append(mempool, [call |-> call, id |-> job[w].id, by |-> w])
    /\ job' = [job EXCEPT ![w].pc = pc, ![w].tx = "pending"]

StillLocked(id) == row[id].status = "locked"

\* The row of a new lock.  request_id is unique: a replay changes nothing.
NewRow == [status |-> "locked", fiat |-> "not_started"]
Upserted(id) == [row EXCEPT ![id] = NewRow]
Inserted(id) == IF row[id] = NoRow THEN [row EXCEPT ![id] = NewRow] ELSE row

\* sweepCutoff and isSweepable.
SweptBeforeTheCutoff(id) == row[id].status = "locked" /\ now < Deadline(id) + Grace
Sweepable(id) == row[id].status = "locked" /\ now > Deadline(id) + Grace

-----------------------------------------------------------------------------
(* The chain. *)

ChainOnly == UNCHANGED <<mempool, tableVars, job, boundVars>>

\* The user locks one USDC, early enough that MaxTime does not end the story.
LockOnChain ==
    /\ now + RateExpiry + Grace < MaxTime
    /\ Escrow!LockForOfframp(User, 1, Usdc, RateExpiry)
    /\ ChainOnly

RefundOutside(caller, id) == Escrow!Refund(caller, id) /\ ChainOnly

Tick == Escrow!Tick /\ ChainOnly

\* The job that waits for a transaction learns how it ended.
Reported(by, result) ==
    IF by \in Worker THEN [job EXCEPT ![by].tx = result] ELSE job

\* The next transaction is mined.  A swap may still fail on its price.
MineSettle ==
    /\ mempool # <<>> /\ Head(mempool).call = "settle"
    /\ \/ /\ Escrow!SettleOfframp(Server, Head(mempool).id, Path)
          /\ job' = Reported(Head(mempool).by, "mined")
       \/ /\ UNCHANGED chainVars
          /\ job' = Reported(Head(mempool).by, "reverted")
    /\ mempool' = Tail(mempool)
    /\ UNCHANGED <<tableVars, boundVars>>

MineRefund ==
    /\ mempool # <<>> /\ Head(mempool).call = "refund"
    /\ IF RefundWouldSucceed(Head(mempool).id)
       THEN /\ Escrow!Refund(Server, Head(mempool).id)
            /\ job' = Reported(Head(mempool).by, "mined")
       ELSE /\ UNCHANGED chainVars
            /\ job' = Reported(Head(mempool).by, "reverted")
    /\ mempool' = Tail(mempool)
    /\ UNCHANGED <<tableVars, boundVars>>

-----------------------------------------------------------------------------
(* POST /api/offramp/lock, and settleInBackground after the response.  The *)
(* client may post one lock again, at any time.                            *)

StartPost(w, id) ==
    /\ At(w, "idle")
    /\ ChainStatus(id) # "None"
    /\ posts[id] < MaxPosts
    /\ posts' = [posts EXCEPT ![id] = @ + 1]
    /\ job' = [job EXCEPT ![w] = [NoJob EXCEPT !.pc = "insert", !.id = id]]
    /\ UNCHANGED <<chainVars, mempool, tableVars, faults>>

InsertRow(w) ==
    /\ At(w, "insert")
    /\ row' = Inserted(job[w].id)
    /\ Goto(w, "history")
    /\ UNCHANGED <<chainVars, mempool, lockRows, refundRows, payouts, boundVars>>

LockHistory(w) ==
    /\ At(w, "history")
    /\ lockRows' = [lockRows EXCEPT ![job[w].id] = @ + 1]
    /\ Goto(w, "settle")
    /\ UNCHANGED <<chainVars, mempool, row, refundRows, payouts, boundVars>>

SendSettle(w) ==
    /\ At(w, "settle")
    /\ IF SettleWouldSucceed(job[w].id)
       THEN Send(w, "settle", "settling")
       ELSE Finish(w) /\ UNCHANGED mempool
    /\ UNCHANGED <<chainVars, tableVars, boundVars>>

\* tx.wait() returns once the transaction is mined, and throws if it reverted.
Ended(w) == job[w].tx \in {"mined", "reverted"}
Mined(w) == job[w].tx = "mined"

AwaitSettle(w) ==
    /\ At(w, "settling")
    /\ job[w].tx \in {"mined", "reverted"}
    /\ IF Mined(w) THEN Goto(w, "mark") ELSE Finish(w)
    /\ UNCHANGED <<chainVars, mempool, tableVars, boundVars>>

MarkSettled(w) ==
    /\ At(w, "mark")
    /\ row' = [row EXCEPT ![job[w].id] = [status |-> "settled", fiat |-> "converting"]]
    /\ Goto(w, "disburse")
    /\ UNCHANGED <<chainVars, mempool, lockRows, refundRows, payouts, boundVars>>

\* Whether the partner accepts or a simulated payout takes its place, the
\* request's one disbursement is spent.
Disburse(w) ==
    /\ At(w, "disburse")
    /\ payouts' = [payouts EXCEPT ![job[w].id] = @ + 1]
    /\ Goto(w, "complete")
    /\ UNCHANGED <<chainVars, mempool, row, lockRows, refundRows, boundVars>>

Complete(w) ==
    /\ At(w, "complete")
    /\ row' = [row EXCEPT ![job[w].id].fiat = "completed"]
    /\ Finish(w)
    /\ UNCHANGED <<chainVars, mempool, lockRows, refundRows, payouts, boundVars>>

-----------------------------------------------------------------------------
(* POST /api/offramp/[requestId] and POST /api/offramp/sweep.              *)

StartRefund(w, id) ==
    /\ At(w, "idle")
    /\ row[id].status = "locked"
    /\ now > Deadline(id)
    /\ job' = [job EXCEPT ![w] = [NoJob EXCEPT !.pc = "look", !.id = id]]
    /\ UNCHANGED <<chainVars, mempool, tableVars, boundVars>>

\* Up to BatchSize of the sweepable rows, the oldest ones.  A run that finds
\* none returns.
StartSweep(w) ==
    /\ At(w, "idle")
    /\ LET found == {id \in Request : Sweepable(id)}
       IN  \E batch \in SUBSET found :
             /\ batch # {}
             /\ Cardinality(batch) =
                  IF Cardinality(found) < BatchSize THEN Cardinality(found) ELSE BatchSize
             /\ \A i \in batch, j \in found \ batch : Deadline(i) <= Deadline(j)
             /\ \E id \in Oldest(batch) :
                  job' = [job EXCEPT ![w] = [NoJob EXCEPT !.pc = "look", !.id = id,
                                               !.batch = batch \ {id}]]
    /\ UNCHANGED <<chainVars, mempool, tableVars, boundVars>>

\* readChainRequest and decideFromChain.
OnlyRefundsMovedOn == {"Refunded"}
MovedOn == {"Settled", "Refunded"}

Look(w) ==
    /\ At(w, "look")
    /\ CASE ChainStatus(job[w].id) \in MovedOn ->
              job' = [job EXCEPT ![w].pc = "reconcile", ![w].saw = ChainStatus(job[w].id)]
         [] ChainStatus(job[w].id) = "Locked" /\ now > Deadline(job[w].id) + Grace ->
              Goto(w, "refund")
         [] OTHER -> Finish(w)
    /\ UNCHANGED <<chainVars, mempool, tableVars, boundVars>>

LabelOnChain(chainStatus) == chainStatus
AlwaysRefunded(chainStatus) == "refunded"
RowStatusFor(chainStatus) == IF chainStatus = "Settled" THEN "settled" ELSE "refunded"

\* reconcileStatus
Reconcile(w) ==
    /\ At(w, "reconcile")
    /\ row' = IF StillLocked(job[w].id)
              THEN [row EXCEPT ![job[w].id].status = RowStatusFor(job[w].saw)]
              ELSE row
    /\ Finish(w)
    /\ UNCHANGED <<chainVars, mempool, lockRows, refundRows, payouts, boundVars>>

SendRefund(w) ==
    /\ At(w, "refund")
    /\ IF RefundWouldSucceed(job[w].id)
       THEN Send(w, "refund", "refunding")
       ELSE Finish(w) /\ UNCHANGED mempool
    /\ UNCHANGED <<chainVars, tableVars, boundVars>>

AwaitRefund(w) ==
    /\ At(w, "refunding")
    /\ job[w].tx \in {"mined", "reverted"}
    /\ IF Mined(w) THEN Goto(w, "claim") ELSE Finish(w)
    /\ UNCHANGED <<chainVars, mempool, tableVars, boundVars>>

\* recordRefund: the conditional update, then the history row of its winner.
ClaimRow(w) ==
    /\ At(w, "claim")
    /\ IF StillLocked(job[w].id)
       THEN /\ row' = [row EXCEPT ![job[w].id] =
                         [status |-> "refunded", fiat |-> "not_started"]]
            /\ Goto(w, "record")
       ELSE Finish(w) /\ UNCHANGED row
    /\ UNCHANGED <<chainVars, mempool, lockRows, refundRows, payouts, boundVars>>

RefundHistory(w) ==
    /\ At(w, "record")
    /\ refundRows' = [refundRows EXCEPT ![job[w].id] = @ + 1]
    /\ Finish(w)
    /\ UNCHANGED <<chainVars, mempool, row, lockRows, payouts, boundVars>>

-----------------------------------------------------------------------------
(* Faults. *)

\* Nobody waits any more for what a job sent; it is still mined.
Orphaned(w) == [k \in DOMAIN mempool |->
                  IF mempool[k].by = w THEN [mempool[k] EXCEPT !.by = "nobody"]
                                       ELSE mempool[k]]

\* The function is killed, or a step outside its try throws.
Crash(w) ==
    /\ ~At(w, "idle")
    /\ job' = [job EXCEPT ![w] = NoJob]
    /\ mempool' = Orphaned(w)

\* A call to the chain throws, whether or not the transaction is mined: the
\* sweep's catch goes on to its next row, the other handlers end.
CallThrows(w) ==
    /\ job[w].pc \in {"settle", "settling", "look", "refund", "refunding"}
    /\ Finish(w)
    /\ mempool' = Orphaned(w)

\* A write fails and the handler does not look at the error it returns.
LoseWrite(w) ==
    /\ UNCHANGED mempool
    /\ \/ At(w, "history") /\ Goto(w, "settle")
       \/ At(w, "mark") /\ Goto(w, "disburse")
       \/ job[w].pc \in {"complete", "reconcile", "claim", "record"} /\ Finish(w)

Fault(w) ==
    /\ faults < MaxFaults
    /\ faults' = faults + 1
    /\ Crash(w) \/ CallThrows(w) \/ LoseWrite(w)
    /\ UNCHANGED <<chainVars, tableVars, posts>>

-----------------------------------------------------------------------------

SweepStep(w) ==
    \/ Look(w) \/ Reconcile(w) \/ SendRefund(w) \/ AwaitRefund(w)
    \/ ClaimRow(w) \/ RefundHistory(w)

LockStep(w) ==
    \/ InsertRow(w) \/ LockHistory(w) \/ SendSettle(w) \/ AwaitSettle(w)
    \/ MarkSettled(w) \/ Disburse(w) \/ Complete(w)

Next ==
    \/ LockOnChain \/ MineSettle \/ MineRefund \/ Tick
    \/ \E caller \in Outsider, id \in Request : RefundOutside(caller, id)
    \/ \E w \in Poster : LockStep(w) \/ \E id \in Request : StartPost(w, id)
    \/ \E w \in Refunder : SweepStep(w) \/ \E id \in Request : StartRefund(w, id)
    \/ \E w \in Sweeper : SweepStep(w) \/ StartSweep(w)
    \/ \E w \in Worker : Fault(w)

Spec == Init /\ [][Next]_vars

\* Time passes, the chain mines, and the scheduler starts sweeps and runs them;
\* nothing is assumed of the client or of the two other routes.
FairSpec ==
    /\ Spec
    /\ WF_vars(Tick) /\ WF_vars(MineSettle) /\ WF_vars(MineRefund)
    /\ \A w \in Sweeper : WF_vars(SweepStep(w)) /\ WF_vars(StartSweep(w))

-----------------------------------------------------------------------------
(* Properties. *)

\* The table never runs ahead of the chain: a request is shown settled or
\* refunded only when the escrow says so, although the write that settles is
\* unconditional and three handlers race for the row.
RowFollowsChain ==
    \A id \in Request :
        /\ row[id].status = "settled" => ChainStatus(id) = "Settled"
        /\ row[id].status = "refunded" => ChainStatus(id) = "Refunded"

\* Recent Activity shows a refund at most once, only one that happened, and of a
\* request that stays refunded, although the lock may be posted again later.
RefundRecordedOnce ==
    \A id \in Request :
        refundRows[id] > 0 => /\ refundRows[id] = 1
                              /\ ChainStatus(id) = "Refunded"
                              /\ row[id].status = "refunded"

\* The tables never run ahead of the chain: a row is called settled or refunded, and a refund is
\* entered in the history, once and only after the contract says so (reconcileStatus, recordRefund).
TablesFollowChain == TypeOK /\ RowFollowsChain /\ RefundRecordedOnce

Stage(id) ==
    CASE payouts[id] = 0 /\ ChainStatus(id) = "None" -> "none"
      [] payouts[id] = 0 /\ ChainStatus(id) = "Locked" -> "locked"
      [] payouts[id] = 0 /\ ChainStatus(id) = "Settled" -> "settled"
      [] payouts[id] = 0 /\ ChainStatus(id) = "Refunded" -> "refunded"
      [] payouts[id] = 1 /\ ChainStatus(id) = "Settled" -> "paid"
      [] OTHER -> "broken"

Promise == INSTANCE OfframpPromise WITH stage <- [id \in Request |-> Stage(id)]

\* The escrow and the handlers over it keep what the off-ramp promises: one
\* disbursement per request, out of a settlement, and none for a refunded one,
\* however often the client posts the lock.
KeepsPromise == Promise!Spec

\* Money on file does not stay in the escrow: a lock the server has a row for is
\* settled or refunded on chain, whatever crashed on the way, and its row says which.
LocksEnd ==
    \A id \in Request :
        (row[id].status = "locked") ~>
            (row[id].status # "locked" /\ ChainStatus(id) \in {"Settled", "Refunded"})

\* lock/route.ts: "If the process dies mid-settle the row still exists, still
\* points at a real on-chain lock, and is still refundable."
Settling(id) ==
    \E w \in Poster : job[w].id = id /\ ~At(w, "idle")
DeadSettleIsRefundable ==
    \A id \in Request :
        StillLocked(id) /\ ~Settling(id) => ChainStatus(id) # "Settled"
=============================================================================
