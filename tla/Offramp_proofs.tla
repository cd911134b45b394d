--------------------------- MODULE Offramp_proofs ---------------------------
(***************************************************************************)
(* Theorems about the off-ramp, for any number of locks, handlers, posts   *)
(* and faults: its tables never run ahead of the escrow, it keeps what     *)
(* OfframpPromise says, and the screen that waits offers a refund only of  *)
(* what was not settled.                                                   *)
(***************************************************************************)
EXTENDS MCOfframp, TLAPS

\* The theorems of the contract, for the accounts and the tokens of the off-ramp, beside a staking
\* contract that nobody uses.
Contract == INSTANCE Contracts_proofs WITH
    Address <- {User, Server}, ZeroAddress <- Zero, Token <- {Usdc, Stable},
    MinRateExpiry <- RateExpiry, MaxRateExpiry <- RateExpiry,
    Endowment <- MaxRequests, MaxStray <- 0,
    Staker <- {}, u1 <- User, u2 <- User, u3 <- User, AccPrecision <- 1,
    MaxStake <- 0, MaxFunding <- 0, LastBlock <- 0, MaxCalls <- 0,
    part <- "escrow", block <- 0, stakes <- <<>>, totalStaked <- 0, rewardReserve <- 0,
    rewardRate <- 0, rewardsEndAt <- 0, accRewardPerShare <- 0, lastRewardTime <- 0,
    minStakeAmount <- 0, pool <- 0, funded <- 0, rounded <- 0

\* Nobody waits for two transactions, and who waits for one waits for it unanswered.
AwaitedAt(call) == IF call = "settle" THEN "settling" ELSE "refunding"
MempoolOK ==
    \A k \in DOMAIN mempool :
        mempool[k].by \in Worker =>
            /\ job[mempool[k].by].pc = AwaitedAt(mempool[k].call)
            /\ job[mempool[k].by].id = mempool[k].id
            /\ job[mempool[k].by].tx = "pending"
            /\ \A l \in DOMAIN mempool : mempool[l].by = mempool[k].by => l = k

\* What a handler has learned of the chain is still so: both ends of a request are final.
JobOK(w) ==
    /\ job[w].pc \in {"mark", "disburse", "complete"} => ChainStatus(job[w].id) = "Settled"
    /\ job[w].pc = "settling" /\ job[w].tx = "mined" => ChainStatus(job[w].id) = "Settled"
    /\ job[w].pc = "refunding" /\ job[w].tx = "mined" => ChainStatus(job[w].id) = "Refunded"
    /\ job[w].pc \in {"claim", "record"} => ChainStatus(job[w].id) = "Refunded"
    /\ job[w].pc = "reconcile" => /\ ChainStatus(job[w].id) = job[w].saw
                                  /\ job[w].saw \in {"Settled", "Refunded"}
JobsOK == \A w \in Worker : JobOK(w)

\* The handler whose settlement was mined is one, and pays once.
Paying(w) == job[w].pc \in {"mark", "disburse"} \/ (job[w].pc = "settling" /\ job[w].tx = "mined")
PaidOnce ==
    /\ \A id \in Request : payouts[id] = 0 \/ (payouts[id] = 1 /\ ChainStatus(id) = "Settled")
    /\ \A w \in Worker : Paying(w) => payouts[job[w].id] = 0
    /\ \A v, w \in Worker : Paying(v) /\ Paying(w) /\ job[v].id = job[w].id => v = w

\* So is the handler that won the row of a refund.
RecordingOnce ==
    /\ \A w \in Worker :
        job[w].pc = "record" => row[job[w].id].status = "refunded" /\ refundRows[job[w].id] = 0
    /\ \A v, w \in Worker :
        job[v].pc = "record" /\ job[w].pc = "record" /\ job[v].id = job[w].id => v = w

TablesInv == RowFollowsChain /\ RefundRecordedOnce /\ PaidOnce /\ RecordingOnce
OfframpInv == TypeOK /\ Contract!EscrowInv /\ MempoolOK /\ JobsOK /\ TablesInv

-----------------------------------------------------------------------------
(* The chain. *)

LEMMA ContractConstants == Contract!ConstantsAssumption /\ Contract!StakingAssumption
BY OfframpAssumption, Contract!FS_EmptySet
DEF OfframpAssumption, Contract!ConstantsAssumption, Contract!StakingAssumption

\* The two instances of the contract speak of the same requests and types.
LEMMA SameContract == Request = Contract!RequestId /\ (Escrow!TypeOK <=> Contract!TypeOK)
BY DEF Request, Escrow!RequestId, Contract!RequestId, Escrow!TypeOK, Contract!TypeOK,
       Escrow!OfframpRequest, Contract!OfframpRequest, Escrow!NoRequest, Contract!NoRequest,
       Escrow!Amount, Contract!Amount

\* A request only moves on: to Locked, and from there to one of its two ends.
Forward(id) ==
    \/ requests'[id] = requests[id]
    \/ requests[id].status = "None" /\ requests'[id].status = "Locked"
    \/ requests[id].status = "Locked" /\ requests'[id].status \in {"Settled", "Refunded"}

LEMMA LockForward ==
    ASSUME Contract!EscrowInv, LockOnChain
    PROVE  /\ Contract!EscrowInv' /\ \A id \in Request : Forward(id)
           /\ UNCHANGED payouts
           /\ \E id \in Request : /\ requests[id].status = "None"
                                 /\ requests'[id].status = "Locked"
                                 /\ \A i \in Request : i # id => requests'[i] = requests[i]
<1>1. Contract!LockForOfframp(User, 1, Usdc, RateExpiry)
  BY DEF LockOnChain, Escrow!LockForOfframp, Contract!LockForOfframp, Escrow!IsAddress,
         Contract!IsAddress, Escrow!NextNonce, Contract!NextNonce
<1>2. /\ nonce \in Contract!RequestId /\ requests[nonce] = Contract!NoRequest
      /\ requests \in [Contract!RequestId -> Contract!OfframpRequest \cup {Contract!NoRequest}]
      /\ MaxRequests \in Nat \ {0}
  BY <1>1, OfframpAssumption DEF OfframpAssumption, Contract!LockForOfframp, Contract!EscrowInv,
     Contract!TypeOK, Contract!IdsAreFresh, Contract!RequestId
<1>3. 1 \in {0} \cup Contract!Amount /\ RateExpiry \in 0 .. RateExpiry + 1
  BY <1>2, OfframpAssumption DEF Contract!Amount, OfframpAssumption
<1>4. Contract!EscrowInv'
  BY <1>1, <1>3, ContractConstants, Contract!LockStep
<1>5. ASSUME NEW id \in Request PROVE Forward(id)
  BY <1>1, <1>2, SameContract DEF Contract!LockForOfframp, Contract!NoRequest, Forward
<1>6. /\ nonce \in Request /\ requests[nonce].status = "None" /\ requests'[nonce].status = "Locked"
      /\ \A i \in Request : i # nonce => requests'[i] = requests[i]
  BY <1>1, <1>2, SameContract DEF Contract!LockForOfframp, Contract!NoRequest
<1>7. UNCHANGED payouts
  BY DEF LockOnChain, ChainOnly, tableVars
<1>8. QED
  BY <1>4, <1>5, <1>6, <1>7

LEMMA SettleForward ==
    ASSUME Contract!EscrowInv, NEW id \in Request, Escrow!SettleOfframp(Server, id, Path)
    PROVE  /\ Contract!EscrowInv'
           /\ requests[id].status = "Locked" /\ requests'[id].status = "Settled"
           /\ \A i \in Request : i # id => requests'[i] = requests[i]
<1>1. Contract!SettleOfframp(Server, id, Path)
  BY DEF Escrow!SettleOfframp, Contract!SettleOfframp, Escrow!IsAddress, Contract!IsAddress,
         Escrow!Expired, Contract!Expired, Escrow!Finished, Contract!Finished, Escrow!PaidOut,
         Contract!PaidOut
<1>2. Path \in Contract!Paths
  <2>1. Path \in [1 .. 2 -> {Usdc, Stable}]
    BY DEF Path
  <2>2. QED
    BY <2>1 DEF Contract!Paths
<1>3. Contract!EscrowInv'
  BY <1>1, <1>2, SameContract, ContractConstants, Contract!SettleStep
<1>4. requests \in [Request -> Contract!OfframpRequest \cup {Contract!NoRequest}]
  BY SameContract DEF Contract!EscrowInv, Contract!TypeOK
<1>5. /\ requests[id].status = "Locked"
      /\ requests' = [requests EXCEPT ![id].status = "Settled"]
  BY <1>1 DEF Contract!SettleOfframp, Contract!Finished
<1>6. requests'[id].status = "Settled"
  BY <1>4, <1>5 DEF Contract!OfframpRequest, Contract!NoRequest
<1>7. QED
  BY <1>3, <1>4, <1>5, <1>6

LEMMA RefundForward ==
    ASSUME Contract!EscrowInv, NEW id \in Request, NEW caller \in {User, Server},
           Escrow!Refund(caller, id)
    PROVE  /\ Contract!EscrowInv'
           /\ requests[id].status = "Locked" /\ requests'[id].status = "Refunded"
           /\ \A i \in Request : i # id => requests'[i] = requests[i]
<1>1. Contract!Refund(caller, id)
  BY DEF Escrow!Refund, Contract!Refund, Escrow!Expired, Contract!Expired, Escrow!Finished,
         Contract!Finished, Escrow!PaidOut, Contract!PaidOut, Escrow!RefundedTo, Contract!RefundedTo
<1>2. Contract!EscrowInv'
  BY <1>1, SameContract, ContractConstants, Contract!RefundStep
<1>3. requests \in [Request -> Contract!OfframpRequest \cup {Contract!NoRequest}]
  BY SameContract DEF Contract!EscrowInv, Contract!TypeOK
<1>4. /\ requests[id].status = "Locked"
      /\ requests' = [requests EXCEPT ![id].status = "Refunded"]
  BY <1>1 DEF Contract!Refund, Contract!Finished
<1>5. requests'[id].status = "Refunded"
  BY <1>3, <1>4 DEF Contract!OfframpRequest, Contract!NoRequest
<1>6. QED
  BY <1>2, <1>3, <1>4, <1>5

LEMMA TickForward ==
    ASSUME Contract!EscrowInv, Escrow!Tick
    PROVE  Contract!EscrowInv' /\ UNCHANGED requests
<1>1. Contract!Tick
  BY DEF Escrow!Tick, Contract!Tick
<1>2. Contract!EscrowInv'
  BY <1>1, ContractConstants, Contract!NextInv DEF Contract!Next
<1>3. QED
  BY <1>1, <1>2 DEF Contract!Tick

LEMMA ChainRests ==
    ASSUME Contract!EscrowInv, UNCHANGED chainVars
    PROVE  Contract!EscrowInv' /\ UNCHANGED requests
BY ContractConstants, Contract!NextInv DEF Contract!escrowVars, chainVars

LEMMA SameContractNext == Escrow!TypeOK' <=> Contract!TypeOK'
BY DEF Escrow!RequestId, Contract!RequestId, Escrow!TypeOK, Contract!TypeOK,
       Escrow!OfframpRequest, Contract!OfframpRequest, Escrow!NoRequest, Contract!NoRequest,
       Escrow!Amount, Contract!Amount

-----------------------------------------------------------------------------
(* What the steps do to the handlers and the mempool. *)

Others(w) == \A v \in Worker : v # w => job'[v] = job[v]
Nowhere(w) == \A k \in DOMAIN mempool : mempool[k].by # w

LEMMA NoJobTypes == NoJob \in Job /\ 0 \in Request
BY OfframpAssumption DEF OfframpAssumption, NoJob, Job, Request, Escrow!RequestId

LEMMA GotoJob ==
    ASSUME job \in [Worker -> Job], NEW w \in Worker,
           NEW pc \in {"insert", "history", "settle", "mark", "disburse", "complete", "refund",
                       "claim", "record"}, Goto(w, pc)
    PROVE  /\ job' \in [Worker -> Job] /\ Others(w)
           /\ job'[w].pc = pc /\ job'[w].id = job[w].id /\ job'[w].tx = "none"
BY DEF Goto, Job, Others

LEMMA FinishJob ==
    ASSUME job \in [Worker -> Job], NEW w \in Worker, Finish(w)
    PROVE  job' \in [Worker -> Job] /\ Others(w) /\ job'[w].pc \in {"idle", "look"}
<1>1. CASE job[w].batch = {}
  BY <1>1, NoJobTypes DEF Finish, NoJob, Others
<1>2. CASE job[w].batch # {}
  <2>1. PICK id \in Oldest(job[w].batch) :
            job' = [job EXCEPT ![w] = [NoJob EXCEPT !.pc = "look", !.id = id,
                                         !.batch = job[w].batch \ {id}]]
    BY <1>2 DEF Finish
  <2>2. id \in Request /\ job[w].batch \ {id} \in SUBSET Request
    BY DEF Oldest, Job
  <2>3. PICK rest \in SUBSET Request : rest = job[w].batch \ {id}
    BY <2>2
  <2> DEFINE next == [NoJob EXCEPT !.pc = "look", !.id = id, !.batch = rest]
  <2>4. next \in Job /\ next.pc = "look"
    BY <2>2, <2>3, NoJobTypes DEF Job
  <2>5. job' = [job EXCEPT ![w] = next]
    BY <2>1, <2>3
  <2> HIDE DEF next
  <2>6. QED
    BY <2>4, <2>5 DEF Others
<1>3. QED
  BY <1>1, <1>2

\* A handler that waits for nothing has nothing in the mempool.
LEMMA NotAwaited ==
    ASSUME MempoolOK, NEW w \in Worker,
           job[w].pc \notin {"settling", "refunding"} \/ job[w].tx # "pending"
    PROVE  Nowhere(w)
BY DEF MempoolOK, AwaitedAt, Nowhere

LEMMA MempoolRests ==
    ASSUME MempoolOK, NEW w \in Worker, Others(w), Nowhere(w), UNCHANGED mempool
    PROVE  MempoolOK'
BY DEF MempoolOK, Others, Nowhere

LEMMA MempoolOrphans ==
    ASSUME MempoolOK, mempool \in Seq(Call), NEW w \in Worker, Others(w), mempool' = Orphaned(w)
    PROVE  MempoolOK' /\ mempool' \in Seq(Call)
<1>1. "nobody" \notin Worker
  BY OfframpAssumption DEF OfframpAssumption, Worker
<1>2. /\ DOMAIN mempool' = DOMAIN mempool /\ DOMAIN mempool = 1 .. Len(mempool)
      /\ \A k \in DOMAIN mempool : mempool[k] \in Call
  BY DEF Orphaned
<1>3. ASSUME NEW k \in DOMAIN mempool
      PROVE  /\ mempool'[k] \in Call
             /\ mempool'[k].by = (IF mempool[k].by = w THEN "nobody" ELSE mempool[k].by)
             /\ mempool'[k].call = mempool[k].call /\ mempool'[k].id = mempool[k].id
  <2>1. mempool'[k] = IF mempool[k].by = w THEN [mempool[k] EXCEPT !.by = "nobody"] ELSE mempool[k]
    BY DEF Orphaned
  <2>2. QED
    BY <1>2, <2>1 DEF Call
<1>4. mempool' \in Seq(Call)
  <2>1. mempool' = [k \in 1 .. Len(mempool) |-> mempool'[k]]
    BY <1>2 DEF Orphaned
  <2>2. QED
    BY <1>2, <1>3, <2>1
<1>5. MempoolOK'
  <2>1. SUFFICES ASSUME NEW k \in DOMAIN mempool, mempool'[k].by \in Worker
                 PROVE  /\ job'[mempool'[k].by].pc = AwaitedAt(mempool'[k].call)
                        /\ job'[mempool'[k].by].id = mempool'[k].id
                        /\ job'[mempool'[k].by].tx = "pending"
                        /\ \A l \in DOMAIN mempool : mempool'[l].by = mempool'[k].by => l = k
    BY <1>2 DEF MempoolOK
  <2>2. mempool'[k].by = mempool[k].by /\ mempool[k].by # w
    BY <1>1, <1>3, <2>1
  <2>3. \A l \in DOMAIN mempool : mempool'[l].by = mempool'[k].by => mempool[l].by = mempool[k].by
    BY <1>1, <1>3, <2>1, <2>2
  <2>4. QED
    BY <1>3, <2>1, <2>2, <2>3 DEF MempoolOK, Others
<1>6. QED
  BY <1>4, <1>5

LEMMA MempoolSends ==
    ASSUME MempoolOK, mempool \in Seq(Call), job \in [Worker -> Job], NEW w \in Worker, Nowhere(w),
           NEW call \in {"settle", "refund"}, Send(w, call, AwaitedAt(call))
    PROVE  /\ MempoolOK' /\ mempool' \in Seq(Call) /\ job' \in [Worker -> Job] /\ Others(w)
           /\ job'[w].pc = AwaitedAt(call) /\ job'[w].id = job[w].id /\ job'[w].tx = "pending"
<1> DEFINE last == Len(mempool) + 1
           sent == [call |-> call, id |-> job[w].id, by |-> w]
<1>1. /\ job' \in [Worker -> Job] /\ Others(w)
      /\ job'[w].pc = AwaitedAt(call) /\ job'[w].id = job[w].id /\ job'[w].tx = "pending"
  <2>1. PICK pc \in {"settling", "refunding"} : pc = AwaitedAt(call)
    BY DEF AwaitedAt
  <2>2. job' = [job EXCEPT ![w].pc = pc, ![w].tx = "pending"]
    BY <2>1 DEF Send
  <2>3. job'[w] = [pc |-> pc, id |-> job[w].id, batch |-> job[w].batch, saw |-> job[w].saw,
                   tx |-> "pending"]
    BY <2>2 DEF Job
  <2>4. job'[w] \in Job /\ Others(w) /\ job' = [job EXCEPT ![w] = job'[w]]
    BY <2>2, <2>3 DEF Job, Others
  <2>5. QED
    BY <2>1, <2>3, <2>4
<1>2. sent \in Call
  BY DEF Call, Job
<1>3. mempool' = Append(mempool, sent)
  BY DEF Send
<1>4. /\ mempool' \in Seq(Call) /\ DOMAIN mempool' = 1 .. last /\ DOMAIN mempool = 1 .. Len(mempool)
      /\ mempool'[last] = sent /\ \A k \in DOMAIN mempool : mempool'[k] = mempool[k]
      /\ Len(mempool) \in Nat
  BY <1>2, <1>3
<1>5. \A k \in DOMAIN mempool' : k = last \/ k \in DOMAIN mempool
  BY <1>4
<1>6. MempoolOK'
  <2>1. SUFFICES ASSUME NEW k \in DOMAIN mempool', mempool'[k].by \in Worker
                 PROVE  /\ job'[mempool'[k].by].pc = AwaitedAt(mempool'[k].call)
                        /\ job'[mempool'[k].by].id = mempool'[k].id
                        /\ job'[mempool'[k].by].tx = "pending"
                        /\ \A l \in DOMAIN mempool' : mempool'[l].by = mempool'[k].by => l = k
    BY DEF MempoolOK
  <2>2. CASE k = last
    <3>1. \A l \in DOMAIN mempool' : mempool'[l].by = w => l = last
      BY <1>4, <1>5 DEF Nowhere
    <3>2. QED
      BY <1>1, <1>4, <2>2, <3>1
  <2>3. CASE k \in DOMAIN mempool
    <3>1. mempool'[k] = mempool[k] /\ mempool[k].by # w
      BY <1>4, <2>3 DEF Nowhere
    <3>2. \A l \in DOMAIN mempool' :
              mempool'[l].by = mempool[k].by => l \in DOMAIN mempool /\ mempool[l].by = mempool[k].by
      BY <1>4, <1>5, <3>1
    <3>3. QED
      BY <1>1, <2>1, <2>3, <3>1, <3>2 DEF MempoolOK, Others
  <2>4. QED
    BY <1>5, <2>2, <2>3
<1>7. QED
  BY <1>1, <1>4, <1>6

\* The next transaction is out of the mempool, and who waited for it knows.
LEMMA MempoolMines ==
    ASSUME MempoolOK, mempool \in Seq(Call), job \in [Worker -> Job], mempool # <<>>,
           mempool' = Tail(mempool), NEW result \in {"mined", "reverted"},
           job' = Reported(Head(mempool).by, result)
    PROVE  /\ MempoolOK' /\ mempool' \in Seq(Call) /\ job' \in [Worker -> Job]
           /\ Head(mempool) \in Call
           /\ \A w \in Worker :
                job'[w] = job[w] \/ (/\ w = Head(mempool).by /\ job'[w].tx = result
                                     /\ job[w].pc = AwaitedAt(Head(mempool).call)
                                     /\ job'[w].pc = job[w].pc /\ job'[w].id = job[w].id
                                     /\ job[w].id = Head(mempool).id
                                     /\ job[w].tx = "pending")
<1>1. /\ Head(mempool) = mempool[1] /\ 1 \in DOMAIN mempool /\ Len(mempool) \in Nat
      /\ DOMAIN mempool = 1 .. Len(mempool) /\ DOMAIN mempool' = 1 .. Len(mempool) - 1
      /\ \A k \in DOMAIN mempool' : mempool'[k] = mempool[k + 1] /\ k + 1 \in DOMAIN mempool
      /\ mempool' \in Seq(Call) /\ mempool[1] \in Call
  OBVIOUS
<1>2. /\ job' \in [Worker -> Job]
      /\ \A w \in Worker :
            \/ job'[w] = job[w]
            \/ /\ w = mempool[1].by /\ job'[w].tx = result
               /\ job'[w].pc = job[w].pc /\ job'[w].id = job[w].id
  BY <1>1 DEF Reported, Job
<1>3. mempool[1].by \in Worker =>
        /\ job[mempool[1].by].pc = AwaitedAt(mempool[1].call)
        /\ job[mempool[1].by].id = mempool[1].id
        /\ job[mempool[1].by].tx = "pending"
        /\ \A l \in DOMAIN mempool : mempool[l].by = mempool[1].by => l = 1
  BY <1>1 DEF MempoolOK
<1>4. MempoolOK'
  <2>1. SUFFICES ASSUME NEW k \in DOMAIN mempool', mempool'[k].by \in Worker
                 PROVE  /\ job'[mempool'[k].by].pc = AwaitedAt(mempool'[k].call)
                        /\ job'[mempool'[k].by].id = mempool'[k].id
                        /\ job'[mempool'[k].by].tx = "pending"
                        /\ \A l \in DOMAIN mempool' : mempool'[l].by = mempool'[k].by => l = k
    BY DEF MempoolOK
  <2>2. mempool'[k] = mempool[k + 1] /\ k + 1 \in DOMAIN mempool /\ k + 1 # 1 /\ k \in Nat
    BY <1>1
  <2>3. mempool[k + 1].by # mempool[1].by
    BY <1>3, <2>1, <2>2
  <2>4. job'[mempool[k + 1].by] = job[mempool[k + 1].by]
    BY <1>2, <2>1, <2>2, <2>3
  <2>5. \A l \in DOMAIN mempool' : mempool'[l].by = mempool'[k].by => l = k
    <3>1. SUFFICES ASSUME NEW l \in DOMAIN mempool', mempool'[l].by = mempool'[k].by PROVE l = k
      OBVIOUS
    <3>2. mempool'[l] = mempool[l + 1] /\ l + 1 \in DOMAIN mempool /\ l \in Nat
      BY <1>1
    <3>3. l + 1 = k + 1
      BY <2>1, <2>2, <3>1, <3>2 DEF MempoolOK
    <3>4. QED
      BY <2>2, <3>2, <3>3
  <2>6. QED
    BY <2>1, <2>2, <2>4, <2>5 DEF MempoolOK
<1>5. QED
  BY <1>1, <1>2, <1>3, <1>4

-----------------------------------------------------------------------------
(* The steps of the handlers that file no refund and pay nobody. *)

Idling == {"idle", "look", "insert", "history", "settle", "refund"}

\* What a step of one handler that leaves the chain, the payouts and the refunds alone has
\* to show for itself.
LEMMA WorkerStep ==
    ASSUME OfframpInv, NEW w \in Worker, UNCHANGED <<chainVars, payouts, refundRows>>,
           job' \in [Worker -> Job], Others(w), MempoolOK', mempool' \in Seq(Call),
           row' \in [Request -> Row], lockRows' \in [Request -> Nat],
           posts' \in [Request -> 0 .. MaxPosts], faults' \in 0 .. MaxFaults,
           RowFollowsChain',
           \A id \in Request : row[id].status = "refunded" => row'[id].status = "refunded",
           JobOK(w)', Paying(w)' => Paying(w) /\ job'[w].id = job[w].id, job'[w].pc # "record"
    PROVE  OfframpInv'
<1>1. Contract!EscrowInv' /\ UNCHANGED requests
  BY ChainRests DEF OfframpInv
<1>2. TypeOK'
  BY <1>1, SameContractNext DEF OfframpInv, TypeOK, Contract!EscrowInv
<1>3. JobsOK'
  BY <1>1 DEF OfframpInv, JobsOK, JobOK, Others, ChainStatus
<1>4. PaidOnce'
  <2>1. \A id \in Request : payouts'[id] = 0 \/ (payouts'[id] = 1 /\ requests'[id].status = "Settled")
    BY <1>1 DEF OfframpInv, TablesInv, PaidOnce, ChainStatus
  <2>2. \A v \in Worker : Paying(v)' => Paying(v) /\ job'[v].id = job[v].id
    BY DEF Others, Paying
  <2>3. \A v \in Worker : Paying(v)' => payouts'[job'[v].id] = 0
    BY <2>2 DEF OfframpInv, TablesInv, PaidOnce
  <2>4. \A u, v \in Worker : Paying(u)' /\ Paying(v)' /\ job'[u].id = job'[v].id => u = v
    BY <2>2 DEF OfframpInv, TablesInv, PaidOnce
  <2>5. QED
    BY <2>1, <2>3, <2>4 DEF PaidOnce, ChainStatus
<1>5. \A v \in Worker : job'[v].pc = "record" => job'[v] = job[v]
  BY DEF Others
<1>6. \A v \in Worker : job[v].id \in Request
  BY DEF OfframpInv, TypeOK, Job
<1>7. RecordingOnce'
  BY <1>5, <1>6 DEF OfframpInv, TablesInv, RecordingOnce
<1>8. RefundRecordedOnce'
  BY <1>1 DEF OfframpInv, TablesInv, RefundRecordedOnce, ChainStatus
<1>9. QED
  BY <1>1, <1>2, <1>3, <1>4, <1>7, <1>8 DEF OfframpInv, TablesInv

\* A handler that goes on to a step it has to learn nothing for.
LEMMA IdlingStep ==
    ASSUME OfframpInv, NEW w \in Worker, UNCHANGED <<chainVars, payouts, refundRows>>,
           job' \in [Worker -> Job], Others(w), job'[w].pc \in Idling,
           MempoolOK', mempool' \in Seq(Call),
           row' \in [Request -> Row], lockRows' \in [Request -> Nat],
           posts' \in [Request -> 0 .. MaxPosts], faults' \in 0 .. MaxFaults,
           RowFollowsChain',
           \A id \in Request : row[id].status = "refunded" => row'[id].status = "refunded"
    PROVE  OfframpInv'
<1>1. JobOK(w)' /\ ~Paying(w)' /\ job'[w].pc # "record"
  BY DEF Idling, JobOK, Paying
<1>2. QED
  BY <1>1, WorkerStep

LEMMA Typed ==
    ASSUME OfframpInv
    PROVE  /\ job \in [Worker -> Job] /\ mempool \in Seq(Call) /\ row \in [Request -> Row]
           /\ lockRows \in [Request -> Nat] /\ refundRows \in [Request -> Nat]
           /\ payouts \in [Request -> Nat]
           /\ posts \in [Request -> 0 .. MaxPosts] /\ faults \in 0 .. MaxFaults
           /\ MempoolOK
           /\ \A w \in Worker : job[w].id \in Request /\ job[w].batch \in SUBSET Request
           /\ MaxPosts \in Nat /\ MaxFaults \in Nat
BY OfframpAssumption DEF OfframpAssumption, OfframpInv, TypeOK, Job

\* The rows still follow the chain when both rest.
LEMMA RowsRest ==
    ASSUME OfframpInv, UNCHANGED <<chainVars, row>>
    PROVE  RowFollowsChain'
BY DEF OfframpInv, TablesInv, RowFollowsChain, ChainStatus, chainVars

LEMMA StartSafe ==
    ASSUME OfframpInv, NEW w \in Worker,
           \/ \E id \in Request : StartPost(w, id) \/ StartRefund(w, id)
           \/ StartSweep(w)
    PROVE  OfframpInv'
<1>1. UNCHANGED <<chainVars, mempool, tableVars, faults>> /\ At(w, "idle")
  BY DEF StartPost, StartRefund, StartSweep, boundVars
<1>2. posts' \in [Request -> 0 .. MaxPosts]
  <2>1. ASSUME NEW id \in Request, StartPost(w, id) PROVE posts' \in [Request -> 0 .. MaxPosts]
    <3>3. posts[id] < MaxPosts
      BY <2>1 DEF StartPost
    <3>4. posts[id] \in 0 .. MaxPosts /\ MaxPosts \in Nat
      BY Typed
    <3>1. posts[id] + 1 \in 0 .. MaxPosts
      BY <3>3, <3>4
    <3>2. QED
      BY <2>1, <3>1, Typed DEF StartPost
  <2>2. QED
    BY <2>1, Typed DEF StartRefund, StartSweep, boundVars
<1> DEFINE Started(pc, id, batch) ==
             job' = [job EXCEPT ![w] = [NoJob EXCEPT !.pc = pc, !.id = id, !.batch = batch]]
<1>3. \E pc \in {"insert", "look"}, id \in Request, batch \in SUBSET Request : Started(pc, id, batch)
  <2>1. ASSUME NEW id \in Request, StartPost(w, id) \/ StartRefund(w, id)
        PROVE  Started("insert", id, {}) \/ Started("look", id, {})
    <3>3. ASSUME NEW pc \in {"insert", "look"}
          PROVE  [NoJob EXCEPT !.pc = pc, !.id = id]
                   = [NoJob EXCEPT !.pc = pc, !.id = id, !.batch = {}]
      <4> DEFINE one == [NoJob EXCEPT !.pc = pc, !.id = id]
                 two == [NoJob EXCEPT !.pc = pc, !.id = id, !.batch = {}]
      <4>1. one \in Job /\ two \in Job
        BY NoJobTypes DEF Job
      <4>2. /\ one.pc = two.pc /\ one.id = two.id /\ one.batch = two.batch
            /\ one.saw = two.saw /\ one.tx = two.tx
        BY NoJobTypes DEF NoJob, Job
      <4> HIDE DEF one, two
      <4>3. one = two
        BY <4>1, <4>2 DEF Job
      <4>4. QED
        BY <4>3 DEF one, two
    <3>1. /\ [NoJob EXCEPT !.pc = "insert", !.id = id]
               = [NoJob EXCEPT !.pc = "insert", !.id = id, !.batch = {}]
          /\ [NoJob EXCEPT !.pc = "look", !.id = id]
               = [NoJob EXCEPT !.pc = "look", !.id = id, !.batch = {}]
      BY <3>3
    <3>2. QED
      BY <2>1, <3>1 DEF StartPost, StartRefund
  <2>2. ASSUME StartSweep(w)
        PROVE  \E id \in Request, batch \in SUBSET Request : Started("look", id, batch)
    <3>1. PICK batch \in SUBSET Request : \E id \in Oldest(batch) : Started("look", id, batch \ {id})
      BY <2>2 DEF StartSweep
    <3>2. PICK id \in Oldest(batch) : Started("look", id, batch \ {id})
      BY <3>1
    <3>3. id \in Request /\ batch \ {id} \in SUBSET Request
      BY DEF Oldest
    <3>4. QED
      BY <3>2, <3>3
  <2>3. CASE \E id \in Request : StartPost(w, id) \/ StartRefund(w, id)
    <3>1. PICK id \in Request : Started("insert", id, {}) \/ Started("look", id, {})
      BY <2>1, <2>3
    <3> HIDE DEF Started
    <3>2. {} \in SUBSET Request /\ "insert" \in {"insert", "look"} /\ "look" \in {"insert", "look"}
      OBVIOUS
    <3>3. QED
      BY <3>1, <3>2, Zenon
  <2>4. CASE StartSweep(w)
    <3> HIDE DEF Started
    <3>1. QED
      BY <2>2, <2>4
  <2>5. QED
    BY <2>3, <2>4
<1>9. PICK pc \in {"insert", "look"}, id \in Request, rest \in SUBSET Request : Started(pc, id, rest)
  BY <1>3
<1> DEFINE next == [NoJob EXCEPT !.pc = pc, !.id = id, !.batch = rest]
<1>4. next \in Job /\ next.pc = pc
  BY NoJobTypes DEF Job
<1>5. job' = [job EXCEPT ![w] = next]
  BY <1>9
<1> HIDE DEF next
<1>6. job' \in [Worker -> Job] /\ Others(w) /\ job'[w].pc \in Idling
  BY <1>4, <1>5, Typed DEF Others, Idling
<1>7. MempoolOK'
  BY <1>1, <1>6, Typed, NotAwaited, MempoolRests DEF At
<1>8. QED
  BY <1>1, <1>2, <1>6, <1>7, Typed, IdlingStep, RowsRest DEF tableVars

LEMMA InsertSafe ==
    ASSUME OfframpInv, NEW w \in Worker, InsertRow(w)
    PROVE  OfframpInv'
<1>1. /\ UNCHANGED <<chainVars, mempool, lockRows, refundRows, payouts, boundVars>>
      /\ At(w, "insert") /\ Goto(w, "history") /\ row' = Inserted(job[w].id)
  BY DEF InsertRow
<1>2. job' \in [Worker -> Job] /\ Others(w) /\ job'[w].pc \in Idling
  BY <1>1, Typed, GotoJob DEF Idling
<1>3. MempoolOK'
  BY <1>1, <1>2, Typed, NotAwaited, MempoolRests DEF At
<1>4. /\ row' \in [Request -> Row]
      /\ \A id \in Request : row'[id] = row[id] \/ (row[id] = NoRow /\ row'[id].status = "locked")
  BY <1>1, Typed DEF Inserted, NewRow, Row
<1>5. RowFollowsChain'
  BY <1>1, <1>4 DEF OfframpInv, TablesInv, RowFollowsChain, ChainStatus, chainVars
<1>6. \A id \in Request : row[id].status = "refunded" => row'[id].status = "refunded"
  BY <1>4 DEF NoRow
<1>7. QED
  BY <1>1, <1>2, <1>3, <1>4, <1>5, <1>6, Typed, IdlingStep DEF boundVars

LEMMA LockHistorySafe ==
    ASSUME OfframpInv, NEW w \in Worker, LockHistory(w)
    PROVE  OfframpInv'
<1>1. /\ UNCHANGED <<chainVars, mempool, row, refundRows, payouts, boundVars>>
      /\ At(w, "history") /\ Goto(w, "settle")
      /\ lockRows' = [lockRows EXCEPT ![job[w].id] = @ + 1]
  BY DEF LockHistory
<1>2. job' \in [Worker -> Job] /\ Others(w) /\ job'[w].pc \in Idling
  BY <1>1, Typed, GotoJob DEF Idling
<1>3. MempoolOK'
  BY <1>1, <1>2, Typed, NotAwaited, MempoolRests DEF At
<1>4. lockRows' \in [Request -> Nat]
  BY <1>1, Typed
<1>5. QED
  BY <1>1, <1>2, <1>3, <1>4, Typed, RowsRest, IdlingStep DEF boundVars

\* A settlement or a refund is sent, or would revert and is not.
LEMMA SendSafe ==
    ASSUME OfframpInv, NEW w \in Worker, SendSettle(w) \/ SendRefund(w)
    PROVE  OfframpInv'
<1>1. /\ UNCHANGED <<chainVars, tableVars, boundVars>>
      /\ At(w, "settle") \/ At(w, "refund")
  BY DEF SendSettle, SendRefund
<1>2. Nowhere(w)
  BY <1>1, Typed, NotAwaited DEF At
<1>3. \/ \E call \in {"settle", "refund"} : Send(w, call, AwaitedAt(call))
      \/ Finish(w) /\ UNCHANGED mempool
  BY DEF SendSettle, SendRefund, AwaitedAt
<1>4. ASSUME NEW call \in {"settle", "refund"}, Send(w, call, AwaitedAt(call))
      PROVE  OfframpInv'
  <2>1. /\ MempoolOK' /\ mempool' \in Seq(Call) /\ job' \in [Worker -> Job] /\ Others(w)
        /\ job'[w].pc = AwaitedAt(call) /\ job'[w].tx = "pending"
    BY <1>2, <1>4, Typed, MempoolSends
  <2>2. JobOK(w)' /\ ~Paying(w)' /\ job'[w].pc # "record"
    BY <2>1 DEF JobOK, Paying, AwaitedAt
  <2>3. QED
    BY <1>1, <2>1, <2>2, Typed, RowsRest, WorkerStep DEF tableVars, boundVars
<1>5. CASE Finish(w) /\ UNCHANGED mempool
  <2>1. job' \in [Worker -> Job] /\ Others(w) /\ job'[w].pc \in Idling
    BY <1>5, Typed, FinishJob DEF Idling
  <2>2. MempoolOK'
    BY <1>2, <1>5, <2>1, Typed, MempoolRests
  <2>3. QED
    BY <1>1, <1>5, <2>1, <2>2, Typed, RowsRest, IdlingStep DEF tableVars, boundVars
<1>6. QED
  BY <1>3, <1>4, <1>5

\* The receipt is in: a mined transaction did what it was sent for.
LEMMA AwaitSafe ==
    ASSUME OfframpInv, NEW w \in Worker, AwaitSettle(w) \/ AwaitRefund(w)
    PROVE  OfframpInv'
<1>1. /\ UNCHANGED <<chainVars, mempool, tableVars, boundVars>>
      /\ job[w].tx # "pending"
      /\ \/ At(w, "settling") /\ Mined(w) /\ Goto(w, "mark")
         \/ At(w, "refunding") /\ Mined(w) /\ Goto(w, "claim")
         \/ Finish(w)
  BY DEF AwaitSettle, AwaitRefund
<1>2. Nowhere(w)
  BY <1>1, Typed, NotAwaited
<1>3. UNCHANGED requests /\ JobOK(w)
  BY <1>1 DEF OfframpInv, JobsOK, chainVars
<1>4. CASE At(w, "settling") /\ Mined(w) /\ Goto(w, "mark")
  <2>1. /\ job' \in [Worker -> Job] /\ Others(w) /\ job'[w].pc = "mark" /\ job'[w].id = job[w].id
    BY <1>4, Typed, GotoJob
  <2>2. MempoolOK'
    BY <1>1, <1>2, <2>1, Typed, MempoolRests
  <2>3. JobOK(w)' /\ Paying(w) /\ job'[w].pc # "record"
    BY <1>3, <1>4, <2>1 DEF JobOK, Paying, At, Mined, ChainStatus
  <2>4. QED
    BY <1>1, <2>1, <2>2, <2>3, Typed, RowsRest, WorkerStep DEF tableVars, boundVars
<1>5. CASE At(w, "refunding") /\ Mined(w) /\ Goto(w, "claim")
  <2>1. /\ job' \in [Worker -> Job] /\ Others(w) /\ job'[w].pc = "claim" /\ job'[w].id = job[w].id
    BY <1>5, Typed, GotoJob
  <2>2. MempoolOK'
    BY <1>1, <1>2, <2>1, Typed, MempoolRests
  <2>3. JobOK(w)' /\ ~Paying(w)' /\ job'[w].pc # "record"
    BY <1>3, <1>5, <2>1 DEF JobOK, Paying, At, Mined, ChainStatus
  <2>4. QED
    BY <1>1, <2>1, <2>2, <2>3, Typed, RowsRest, WorkerStep DEF tableVars, boundVars
<1>6. CASE Finish(w)
  <2>1. job' \in [Worker -> Job] /\ Others(w) /\ job'[w].pc \in Idling
    BY <1>6, Typed, FinishJob DEF Idling
  <2>2. MempoolOK'
    BY <1>1, <1>2, <2>1, Typed, MempoolRests
  <2>3. QED
    BY <1>1, <2>1, <2>2, Typed, RowsRest, IdlingStep DEF tableVars, boundVars
<1>7. QED
  BY <1>1, <1>4, <1>5, <1>6

\* The unconditional write of a settlement is of a request that is settled.
LEMMA MarkSafe ==
    ASSUME OfframpInv, NEW w \in Worker, MarkSettled(w)
    PROVE  OfframpInv'
<1>1. /\ UNCHANGED <<chainVars, mempool, lockRows, refundRows, payouts, boundVars>>
      /\ At(w, "mark") /\ Goto(w, "disburse")
      /\ row' = [row EXCEPT ![job[w].id] = [status |-> "settled", fiat |-> "converting"]]
  BY DEF MarkSettled
<1>2. /\ job' \in [Worker -> Job] /\ Others(w) /\ job'[w].pc = "disburse" /\ job'[w].id = job[w].id
  BY <1>1, Typed, GotoJob
<1>3. MempoolOK'
  BY <1>1, <1>2, Typed, NotAwaited, MempoolRests DEF At
<1>4. UNCHANGED requests /\ ChainStatus(job[w].id) = "Settled"
  BY <1>1 DEF OfframpInv, JobsOK, JobOK, At, chainVars
<1>5. JobOK(w)' /\ Paying(w) /\ job'[w].pc # "record"
  BY <1>1, <1>2, <1>4 DEF JobOK, Paying, At, ChainStatus
<1>6. /\ row' \in [Request -> Row]
      /\ \A id \in Request : row'[id] = row[id]
                             \/ (id = job[w].id /\ row'[id].status = "settled")
  BY <1>1, Typed DEF Row
<1>7. RowFollowsChain'
  BY <1>4, <1>6 DEF OfframpInv, TablesInv, RowFollowsChain, ChainStatus
<1>8. \A id \in Request : row[id].status = "refunded" => row'[id].status = "refunded"
  BY <1>4, <1>6 DEF OfframpInv, TablesInv, RowFollowsChain
<1>9. QED
  BY <1>1, <1>2, <1>3, <1>5, <1>6, <1>7, <1>8, Typed, WorkerStep DEF boundVars

LEMMA CompleteSafe ==
    ASSUME OfframpInv, NEW w \in Worker, Complete(w)
    PROVE  OfframpInv'
<1>1. /\ UNCHANGED <<chainVars, mempool, lockRows, refundRows, payouts, boundVars>>
      /\ At(w, "complete") /\ Finish(w)
      /\ row' = [row EXCEPT ![job[w].id].fiat = "completed"]
  BY DEF Complete
<1>2. job' \in [Worker -> Job] /\ Others(w) /\ job'[w].pc \in Idling
  BY <1>1, Typed, FinishJob DEF Idling
<1>3. MempoolOK'
  BY <1>1, <1>2, Typed, NotAwaited, MempoolRests DEF At
<1>4. row' \in [Request -> Row] /\ \A id \in Request : row'[id].status = row[id].status
  BY <1>1, Typed DEF Row
<1>5. RowFollowsChain'
  BY <1>1, <1>4 DEF OfframpInv, TablesInv, RowFollowsChain, ChainStatus, chainVars
<1>6. QED
  BY <1>1, <1>2, <1>3, <1>4, <1>5, Typed, IdlingStep DEF boundVars

\* What a sweep reads of the chain decides where it goes.
LEMMA LookSafe ==
    ASSUME OfframpInv, NEW w \in Worker, Look(w)
    PROVE  OfframpInv'
<1>1. UNCHANGED <<chainVars, mempool, tableVars, boundVars>> /\ At(w, "look")
  BY DEF Look
<1>2. Nowhere(w)
  BY <1>1, Typed, NotAwaited DEF At
<1>3. \/ /\ ChainStatus(job[w].id) \in {"Settled", "Refunded"}
         /\ job' = [job EXCEPT ![w].pc = "reconcile", ![w].saw = ChainStatus(job[w].id)]
      \/ Goto(w, "refund")
      \/ Finish(w)
  BY DEF Look, MovedOn
<1>4. ASSUME ChainStatus(job[w].id) \in {"Settled", "Refunded"},
             job' = [job EXCEPT ![w].pc = "reconcile", ![w].saw = ChainStatus(job[w].id)]
      PROVE  OfframpInv'
  <2>1. PICK saw \in {"Settled", "Refunded"} : saw = ChainStatus(job[w].id)
    BY <1>4
  <2>8. job' = [job EXCEPT ![w].pc = "reconcile", ![w].saw = saw]
    BY <1>4, <2>1
  <2>2. job'[w] = [pc |-> "reconcile", id |-> job[w].id, batch |-> job[w].batch, saw |-> saw,
                   tx |-> job[w].tx]
    <3>1. job[w] \in Job /\ job'[w] = [job[w] EXCEPT !.pc = "reconcile", !.saw = saw]
      BY <2>8, Typed
    <3>2. QED
      BY <3>1 DEF Job
  <2>3. job'[w] \in Job /\ Others(w) /\ job' = [job EXCEPT ![w] = job'[w]]
    BY <1>4, <2>2, Typed DEF Job, Others
  <2>4. job' \in [Worker -> Job]
    BY <2>3, Typed
  <2>5. MempoolOK'
    BY <1>1, <1>2, <2>3, Typed, MempoolRests
  <2>6. JobOK(w)' /\ ~Paying(w)' /\ job'[w].pc # "record"
    BY <1>1, <2>1, <2>2 DEF JobOK, Paying, ChainStatus, chainVars
  <2>7. QED
    BY <1>1, <2>3, <2>4, <2>5, <2>6, Typed, RowsRest, WorkerStep DEF tableVars, boundVars
<1>5. ASSUME Goto(w, "refund") \/ Finish(w) PROVE OfframpInv'
  <2>1. job' \in [Worker -> Job] /\ Others(w) /\ job'[w].pc \in Idling
    BY <1>5, Typed, GotoJob, FinishJob DEF Idling
  <2>2. MempoolOK'
    BY <1>1, <1>2, <2>1, Typed, MempoolRests
  <2>3. QED
    BY <1>1, <2>1, <2>2, Typed, RowsRest, IdlingStep DEF tableVars, boundVars
<1>6. QED
  BY <1>3, <1>4, <1>5

\* A row is reconciled with an end the chain has reached.
LEMMA ReconcileSafe ==
    ASSUME OfframpInv, NEW w \in Worker, Reconcile(w)
    PROVE  OfframpInv'
<1>1. /\ UNCHANGED <<chainVars, mempool, lockRows, refundRows, payouts, boundVars>>
      /\ At(w, "reconcile") /\ Finish(w)
      /\ row' = IF StillLocked(job[w].id)
                THEN [row EXCEPT ![job[w].id].status = RowStatusFor(job[w].saw)]
                ELSE row
  BY DEF Reconcile
<1>2. job' \in [Worker -> Job] /\ Others(w) /\ job'[w].pc \in Idling
  BY <1>1, Typed, FinishJob DEF Idling
<1>3. MempoolOK'
  BY <1>1, <1>2, Typed, NotAwaited, MempoolRests DEF At
<1>4. /\ ChainStatus(job[w].id) = job[w].saw /\ job[w].saw \in {"Settled", "Refunded"}
      /\ UNCHANGED requests
  BY <1>1 DEF OfframpInv, JobsOK, JobOK, At, chainVars
<1>5. RowStatusFor(job[w].saw) = IF job[w].saw = "Settled" THEN "settled" ELSE "refunded"
  BY DEF RowStatusFor
<1>6. /\ row' \in [Request -> Row]
      /\ \A id \in Request :
            \/ row'[id] = row[id]
            \/ /\ id = job[w].id /\ row[id].status = "locked"
               /\ row'[id].status = (IF job[w].saw = "Settled" THEN "settled" ELSE "refunded")
  BY <1>1, <1>5, Typed DEF Row, StillLocked
<1>7. RowFollowsChain'
  BY <1>4, <1>6 DEF OfframpInv, TablesInv, RowFollowsChain, ChainStatus
<1>8. QED
  BY <1>1, <1>2, <1>3, <1>6, <1>7, Typed, IdlingStep DEF boundVars

-----------------------------------------------------------------------------
(* The steps that pay, and those that file a refund. *)

LEMMA DisburseSafe ==
    ASSUME OfframpInv, NEW w \in Worker, Disburse(w)
    PROVE  OfframpInv'
<1> DEFINE id == job[w].id
<1>1. /\ UNCHANGED <<chainVars, mempool, row, lockRows, refundRows, boundVars>>
      /\ At(w, "disburse") /\ Goto(w, "complete") /\ payouts' = [payouts EXCEPT ![id] = @ + 1]
  BY DEF Disburse
<1>2. /\ job' \in [Worker -> Job] /\ Others(w) /\ job'[w].pc = "complete" /\ job'[w].id = id
  BY <1>1, Typed, GotoJob
<1>3. MempoolOK'
  BY <1>1, <1>2, Typed, NotAwaited, MempoolRests DEF At
<1>4. Contract!EscrowInv' /\ UNCHANGED requests
  BY <1>1, ChainRests DEF OfframpInv
<1>5. ChainStatus(id) = "Settled" /\ Paying(w) /\ payouts[id] = 0 /\ id \in Request
  BY <1>1, Typed DEF OfframpInv, JobsOK, JobOK, At, Paying, TablesInv, PaidOnce
<1>6. /\ payouts' \in [Request -> Nat] /\ payouts'[id] = 1
      /\ \A i \in Request : i # id => payouts'[i] = payouts[i]
  BY <1>1, <1>5, Typed
<1>7. TypeOK'
  BY <1>1, <1>2, <1>4, <1>6, SameContractNext, Typed
  DEF TypeOK, Contract!EscrowInv, boundVars
<1>8. JobsOK'
  BY <1>2, <1>4, <1>5 DEF OfframpInv, JobsOK, JobOK, Others, ChainStatus
<1>9. \A v \in Worker : Paying(v)' => Paying(v) /\ job'[v] = job[v] /\ v # w
  BY <1>2 DEF Paying, Others
<1>10. \A v \in Worker : job[v].id \in Request
  BY Typed
<1>11. PaidOnce'
  <2>1. \A i \in Request : payouts'[i] = 0 \/ (payouts'[i] = 1 /\ requests'[i].status = "Settled")
    BY <1>4, <1>5, <1>6 DEF OfframpInv, TablesInv, PaidOnce, ChainStatus
  <2>2. \A v \in Worker : Paying(v)' => payouts'[job'[v].id] = 0
    BY <1>5, <1>6, <1>9, <1>10 DEF OfframpInv, TablesInv, PaidOnce
  <2>3. \A u, v \in Worker : Paying(u)' /\ Paying(v)' /\ job'[u].id = job'[v].id => u = v
    BY <1>9 DEF OfframpInv, TablesInv, PaidOnce
  <2>4. QED
    BY <2>1, <2>2, <2>3 DEF PaidOnce, ChainStatus
<1>12. \A v \in Worker : job'[v].pc = "record" => job'[v] = job[v]
  BY <1>2 DEF Others
<1>13. RowFollowsChain' /\ RefundRecordedOnce' /\ RecordingOnce'
  BY <1>1, <1>4, <1>12
  DEF OfframpInv, TablesInv, RowFollowsChain, RefundRecordedOnce, RecordingOnce, ChainStatus
<1>14. QED
  BY <1>3, <1>4, <1>7, <1>8, <1>11, <1>13 DEF OfframpInv, TablesInv

LEMMA ClaimSafe ==
    ASSUME OfframpInv, NEW w \in Worker, ClaimRow(w)
    PROVE  OfframpInv'
<1> DEFINE id == job[w].id
<1>1. UNCHANGED <<chainVars, mempool, lockRows, refundRows, payouts, boundVars>> /\ At(w, "claim")
  BY DEF ClaimRow
<1>2. Nowhere(w)
  BY <1>1, Typed, NotAwaited DEF At
<1>3. CASE ~StillLocked(id)
  <2>1. Finish(w) /\ UNCHANGED row
    BY <1>3 DEF ClaimRow
  <2>2. job' \in [Worker -> Job] /\ Others(w) /\ job'[w].pc \in Idling
    BY <2>1, Typed, FinishJob DEF Idling
  <2>3. MempoolOK'
    BY <1>1, <1>2, <2>2, Typed, MempoolRests
  <2>4. QED
    BY <1>1, <2>1, <2>2, <2>3, Typed, RowsRest, IdlingStep DEF boundVars
<1>4. CASE StillLocked(id)
  <2>1. /\ Goto(w, "record")
        /\ row' = [row EXCEPT ![id] = [status |-> "refunded", fiat |-> "not_started"]]
    BY <1>4 DEF ClaimRow
  <2>2. /\ job' \in [Worker -> Job] /\ Others(w) /\ job'[w].pc = "record" /\ job'[w].id = id
    BY <2>1, Typed, GotoJob
  <2>3. MempoolOK'
    BY <1>1, <1>2, <2>2, Typed, MempoolRests
  <2>4. Contract!EscrowInv' /\ UNCHANGED requests
    BY <1>1, ChainRests DEF OfframpInv
  <2>5. ChainStatus(id) = "Refunded" /\ row[id].status = "locked" /\ id \in Request
    BY <1>1, <1>4, Typed DEF OfframpInv, JobsOK, JobOK, At, StillLocked
  <2>6. refundRows[id] = 0
    <3>1. refundRows[id] \in Nat /\ ~(refundRows[id] > 0)
      BY <2>5, Typed DEF OfframpInv, TablesInv, RefundRecordedOnce
    <3>2. QED
      BY <3>1
  <2>7. /\ row' \in [Request -> Row] /\ row'[id].status = "refunded"
        /\ \A i \in Request : i # id => row'[i] = row[i]
    BY <2>1, <2>5, Typed DEF Row
  <2>8. TypeOK'
    BY <1>1, <2>2, <2>4, <2>7, SameContractNext, Typed
    DEF TypeOK, Contract!EscrowInv, boundVars
  <2>9. JobsOK'
    BY <2>2, <2>4, <2>5 DEF OfframpInv, JobsOK, JobOK, Others, ChainStatus
  <2>10. \A v \in Worker : Paying(v)' => Paying(v) /\ job'[v] = job[v]
    BY <2>2 DEF Paying, Others
  <2>11. PaidOnce'
    <3>1. \A i \in Request : payouts'[i] = 0 \/ (payouts'[i] = 1 /\ requests'[i].status = "Settled")
      BY <1>1, <2>4 DEF OfframpInv, TablesInv, PaidOnce, ChainStatus
    <3>2. \A v \in Worker : Paying(v)' => payouts'[job'[v].id] = 0
      BY <1>1, <2>10 DEF OfframpInv, TablesInv, PaidOnce
    <3>3. \A u, v \in Worker : Paying(u)' /\ Paying(v)' /\ job'[u].id = job'[v].id => u = v
      BY <2>10 DEF OfframpInv, TablesInv, PaidOnce
    <3>4. QED
      BY <3>1, <3>2, <3>3 DEF PaidOnce, ChainStatus
  <2>12. RowFollowsChain'
    BY <2>4, <2>5, <2>7 DEF OfframpInv, TablesInv, RowFollowsChain, ChainStatus
  <2>13. RefundRecordedOnce'
    BY <1>1, <2>4, <2>5, <2>7 DEF OfframpInv, TablesInv, RefundRecordedOnce, ChainStatus
  <2>14. \A v \in Worker : v # w => job'[v] = job[v]
    BY <2>2 DEF Others
  <2>15. \A v \in Worker : v # w /\ job[v].pc = "record" => job[v].id # id
    BY <2>5 DEF OfframpInv, TablesInv, RecordingOnce
  <2>16. \A v \in Worker : job[v].id \in Request
    BY Typed
  <2>17. RecordingOnce'
    <3>1. \A v \in Worker : job'[v].pc = "record" =>
              row'[job'[v].id].status = "refunded" /\ refundRows'[job'[v].id] = 0
      BY <1>1, <2>2, <2>6, <2>7, <2>14, <2>16 DEF OfframpInv, TablesInv, RecordingOnce
    <3>2. \A u, v \in Worker :
              job'[u].pc = "record" /\ job'[v].pc = "record" /\ job'[u].id = job'[v].id => u = v
      BY <2>2, <2>14, <2>15 DEF OfframpInv, TablesInv, RecordingOnce
    <3>3. QED
      BY <3>1, <3>2 DEF RecordingOnce
  <2>18. QED
    BY <2>3, <2>4, <2>8, <2>9, <2>11, <2>12, <2>13, <2>17 DEF OfframpInv, TablesInv
<1>5. QED
  BY <1>3, <1>4

LEMMA RefundHistorySafe ==
    ASSUME OfframpInv, NEW w \in Worker, RefundHistory(w)
    PROVE  OfframpInv'
<1> DEFINE id == job[w].id
<1>1. /\ UNCHANGED <<chainVars, mempool, row, lockRows, payouts, boundVars>>
      /\ At(w, "record") /\ Finish(w) /\ refundRows' = [refundRows EXCEPT ![id] = @ + 1]
  BY DEF RefundHistory
<1>2. /\ job' \in [Worker -> Job] /\ Others(w) /\ job'[w].pc \in {"idle", "look"}
  BY <1>1, Typed, FinishJob
<1>3. MempoolOK'
  BY <1>1, <1>2, Typed, NotAwaited, MempoolRests DEF At
<1>4. Contract!EscrowInv' /\ UNCHANGED requests
  BY <1>1, ChainRests DEF OfframpInv
<1>5. /\ ChainStatus(id) = "Refunded" /\ row[id].status = "refunded" /\ refundRows[id] = 0
      /\ id \in Request
  BY <1>1, Typed DEF OfframpInv, JobsOK, JobOK, At, TablesInv, RecordingOnce
<1>6. /\ refundRows' \in [Request -> Nat] /\ refundRows'[id] = 1
      /\ \A i \in Request : i # id => refundRows'[i] = refundRows[i]
  BY <1>1, <1>5, Typed
<1>7. TypeOK'
  BY <1>1, <1>2, <1>4, <1>6, SameContractNext, Typed
  DEF TypeOK, Contract!EscrowInv, boundVars
<1>8. JobsOK'
  BY <1>2, <1>4 DEF OfframpInv, JobsOK, JobOK, Others, ChainStatus
<1>9. \A v \in Worker : Paying(v)' => Paying(v) /\ job'[v] = job[v]
  BY <1>2 DEF Paying, Others
<1>10. PaidOnce'
  <2>1. \A i \in Request : payouts'[i] = 0 \/ (payouts'[i] = 1 /\ requests'[i].status = "Settled")
    BY <1>1, <1>4 DEF OfframpInv, TablesInv, PaidOnce, ChainStatus
  <2>2. \A v \in Worker : Paying(v)' => payouts'[job'[v].id] = 0
    BY <1>1, <1>9 DEF OfframpInv, TablesInv, PaidOnce
  <2>3. \A u, v \in Worker : Paying(u)' /\ Paying(v)' /\ job'[u].id = job'[v].id => u = v
    BY <1>9 DEF OfframpInv, TablesInv, PaidOnce
  <2>4. QED
    BY <2>1, <2>2, <2>3 DEF PaidOnce, ChainStatus
<1>11. RowFollowsChain'
  BY <1>1, <1>4 DEF OfframpInv, TablesInv, RowFollowsChain, ChainStatus
<1>12. RefundRecordedOnce'
  BY <1>1, <1>4, <1>5, <1>6 DEF OfframpInv, TablesInv, RefundRecordedOnce, ChainStatus
<1>13. \A v \in Worker : job'[v].pc = "record" => v # w /\ job'[v] = job[v]
  BY <1>2 DEF Others
<1>14. \A v \in Worker : job'[v].pc = "record" => job[v].id # id /\ job[v].id \in Request
  BY <1>1, <1>13, Typed DEF OfframpInv, TablesInv, RecordingOnce, At
<1>15. RecordingOnce'
  <2>1. \A v \in Worker : job'[v].pc = "record" =>
            row'[job'[v].id].status = "refunded" /\ refundRows'[job'[v].id] = 0
    BY <1>1, <1>6, <1>13, <1>14 DEF OfframpInv, TablesInv, RecordingOnce
  <2>2. \A u, v \in Worker :
            job'[u].pc = "record" /\ job'[v].pc = "record" /\ job'[u].id = job'[v].id => u = v
    BY <1>13 DEF OfframpInv, TablesInv, RecordingOnce
  <2>3. QED
    BY <2>1, <2>2 DEF RecordingOnce
<1>16. QED
  BY <1>3, <1>4, <1>7, <1>8, <1>10, <1>11, <1>12, <1>15 DEF OfframpInv, TablesInv

-----------------------------------------------------------------------------
(* Faults, and the steps of the chain. *)

LEMMA FaultSafe ==
    ASSUME OfframpInv, NEW w \in Worker, Fault(w)
    PROVE  OfframpInv'
<1>1. UNCHANGED <<chainVars, tableVars, posts>> /\ faults' \in 0 .. MaxFaults
  <2>1. faults < MaxFaults /\ faults' = faults + 1 /\ UNCHANGED <<chainVars, tableVars, posts>>
    BY DEF Fault
  <2>2. faults \in 0 .. MaxFaults /\ MaxFaults \in Nat
    BY Typed
  <2>3. QED
    BY <2>1, <2>2
<1>2. CASE Crash(w) \/ CallThrows(w)
  <2>1. job' \in [Worker -> Job] /\ Others(w) /\ job'[w].pc \in Idling
    <3>1. CASE Crash(w)
      BY <3>1, Typed, NoJobTypes DEF Crash, NoJob, Others, Idling
    <3>2. CASE CallThrows(w)
      BY <3>2, Typed, FinishJob DEF CallThrows, Idling
    <3>3. QED
      BY <1>2, <3>1, <3>2
  <2>2. mempool' = Orphaned(w)
    BY <1>2 DEF Crash, CallThrows
  <2>3. MempoolOK' /\ mempool' \in Seq(Call)
    BY <2>1, <2>2, Typed, MempoolOrphans
  <2>4. QED
    BY <1>1, <2>1, <2>3, Typed, RowsRest, IdlingStep DEF tableVars
<1>3. CASE LoseWrite(w)
  <2>1. /\ UNCHANGED mempool
        /\ job[w].pc \in {"history", "mark", "complete", "reconcile", "claim", "record"}
        /\ \/ Goto(w, "settle") \/ Finish(w)
           \/ At(w, "mark") /\ Goto(w, "disburse")
    BY <1>3 DEF LoseWrite, At
  <2>2. Nowhere(w)
    BY <2>1, Typed, NotAwaited
  <2>3. CASE Goto(w, "settle") \/ Finish(w)
    <3>1. job' \in [Worker -> Job] /\ Others(w) /\ job'[w].pc \in Idling
      BY <2>3, Typed, GotoJob, FinishJob DEF Idling
    <3>2. MempoolOK'
      BY <2>1, <2>2, <3>1, Typed, MempoolRests
    <3>3. QED
      BY <1>1, <2>1, <3>1, <3>2, Typed, RowsRest, IdlingStep DEF tableVars
  <2>4. CASE At(w, "mark") /\ Goto(w, "disburse")
    <3>1. job' \in [Worker -> Job] /\ Others(w) /\ job'[w].pc = "disburse" /\ job'[w].id = job[w].id
      BY <2>4, Typed, GotoJob
    <3>2. MempoolOK'
      BY <2>1, <2>2, <3>1, Typed, MempoolRests
    <3>3. UNCHANGED requests /\ ChainStatus(job[w].id) = "Settled"
      BY <1>1, <2>4 DEF OfframpInv, JobsOK, JobOK, At, chainVars
    <3>4. JobOK(w)' /\ Paying(w) /\ job'[w].pc # "record"
      BY <2>4, <3>1, <3>3 DEF JobOK, Paying, At, ChainStatus
    <3>5. QED
      BY <1>1, <2>1, <3>1, <3>2, <3>4, Typed, RowsRest, WorkerStep DEF tableVars
  <2>5. QED
    BY <2>1, <2>3, <2>4
<1>4. QED
  BY <1>2, <1>3 DEF Fault

\* A request that reached an end stays there.
LEMMA EndsAreFinal ==
    ASSUME NEW id \in Request, Forward(id), requests[id].status \in {"Settled", "Refunded"}
    PROVE  requests'[id].status = requests[id].status
BY DEF Forward

LEMMA ChainStep ==
    ASSUME OfframpInv, ChainOnly, Contract!EscrowInv', \A id \in Request : Forward(id)
    PROVE  OfframpInv'
<1>1. UNCHANGED <<mempool, job, row, lockRows, refundRows, payouts, posts, faults>>
  BY DEF ChainOnly, tableVars, boundVars
<1>2. TypeOK'
  BY <1>1, SameContractNext, Typed DEF TypeOK, Contract!EscrowInv
<1>3. MempoolOK'
  BY <1>1 DEF OfframpInv, MempoolOK
<1>4. \A id \in Request : requests[id].status \in {"Settled", "Refunded"} =>
                              requests'[id].status = requests[id].status
  BY EndsAreFinal
<1>5. JobsOK'
  <2>1. SUFFICES ASSUME NEW w \in Worker PROVE JobOK(w)'
    BY DEF JobsOK
  <2>2. JobOK(w) /\ job[w].id \in Request
    BY Typed DEF OfframpInv, JobsOK
  <2>3. QED
    BY <1>1, <1>4, <2>2 DEF JobOK, ChainStatus
<1>6. PaidOnce'
  BY <1>1, <1>4 DEF OfframpInv, TablesInv, PaidOnce, Paying, ChainStatus
<1>7. RowFollowsChain' /\ RefundRecordedOnce'
  BY <1>1, <1>4 DEF OfframpInv, TablesInv, RowFollowsChain, RefundRecordedOnce, ChainStatus
<1>8. RecordingOnce'
  BY <1>1 DEF OfframpInv, TablesInv, RecordingOnce
<1>9. QED
  BY <1>2, <1>3, <1>5, <1>6, <1>7, <1>8 DEF OfframpInv, TablesInv

LEMMA ChainSafe ==
    ASSUME OfframpInv,
           \/ LockOnChain \/ Tick
           \/ \E caller \in Outsider, id \in Request : RefundOutside(caller, id)
    PROVE  OfframpInv'
<1>1. CASE LockOnChain
  BY <1>1, LockForward, ChainStep DEF LockOnChain, OfframpInv
<1>2. CASE Tick
  BY <1>2, TickForward, ChainStep DEF Tick, OfframpInv, Forward
<1>3. ASSUME NEW caller \in Outsider, NEW id \in Request, RefundOutside(caller, id)
      PROVE  OfframpInv'
  <2>1. caller \in {User, Server} /\ Escrow!Refund(caller, id) /\ ChainOnly
    BY <1>3, OfframpAssumption DEF OfframpAssumption, RefundOutside
  <2>2. Contract!EscrowInv' /\ \A i \in Request : Forward(i)
    BY <2>1, RefundForward DEF OfframpInv, Forward
  <2>3. QED
    BY <2>1, <2>2, ChainStep
<1>4. QED
  BY <1>1, <1>2, <1>3

\* What a transaction does when it is mined: one that settled or refunded found the
\* request locked, so nobody was paying for it yet.
LEMMA MineStep ==
    ASSUME OfframpInv, mempool # <<>>, mempool' = Tail(mempool), NEW result \in {"mined", "reverted"},
           job' = Reported(Head(mempool).by, result), UNCHANGED <<tableVars, boundVars>>,
           Contract!EscrowInv', \A id \in Request : Forward(id),
           result = "mined" =>
               /\ requests[Head(mempool).id].status = "Locked"
               /\ requests'[Head(mempool).id].status =
                      (IF Head(mempool).call = "settle" THEN "Settled" ELSE "Refunded")
    PROVE  OfframpInv'
<1> DEFINE head == Head(mempool)
<1>1. UNCHANGED <<row, lockRows, refundRows, payouts, posts, faults>>
  BY DEF tableVars, boundVars
<1>2. /\ MempoolOK' /\ mempool' \in Seq(Call) /\ job' \in [Worker -> Job]
      /\ head \in Call
      /\ \A w \in Worker :
           job'[w] = job[w] \/ (/\ w = head.by /\ job'[w].tx = result
                                /\ job[w].pc = AwaitedAt(head.call)
                                /\ job'[w].pc = job[w].pc /\ job'[w].id = job[w].id
                                /\ job[w].id = head.id
                                /\ job[w].tx = "pending")
  BY Typed, MempoolMines
<1>3. TypeOK'
  BY <1>1, <1>2, SameContractNext, Typed DEF TypeOK, Contract!EscrowInv
<1>4. \A id \in Request : requests[id].status \in {"Settled", "Refunded"} =>
                              requests'[id].status = requests[id].status
  BY EndsAreFinal
<1>5. head.call \in {"settle", "refund"} /\ head.id \in Request
  BY <1>2 DEF Call
<1> HIDE DEF head
<1>6. JobsOK'
  <2>1. SUFFICES ASSUME NEW w \in Worker PROVE JobOK(w)'
    BY DEF JobsOK
  <2>2. JobOK(w) /\ job[w].id \in Request
    BY Typed DEF OfframpInv, JobsOK
  <2>3. CASE job'[w] = job[w]
    BY <1>4, <2>2, <2>3 DEF JobOK, ChainStatus
  <2>4. CASE job'[w] # job[w]
    <3>1. /\ job'[w].tx = result /\ job'[w].pc = AwaitedAt(head.call) /\ job'[w].id = head.id
      BY <1>2, <2>4
    <3>2. result = "mined" => requests'[head.id].status =
                                (IF head.call = "settle" THEN "Settled" ELSE "Refunded")
      BY DEF head
    <3>3. QED
      BY <1>5, <3>1, <3>2 DEF JobOK, ChainStatus, AwaitedAt
  <2>5. QED
    BY <2>3, <2>4
<1>7. \A w \in Worker :
          Paying(w)' => \/ job'[w] = job[w] /\ Paying(w)
                        \/ /\ w = head.by /\ job'[w].id = head.id
                           /\ requests[head.id].status = "Locked"
  <2>1. SUFFICES ASSUME NEW w \in Worker, Paying(w)', job'[w] # job[w]
                 PROVE  /\ w = head.by /\ job'[w].id = head.id
                        /\ requests[head.id].status = "Locked"
    BY DEF Paying
  <2>2. /\ w = head.by /\ job'[w].id = head.id /\ job'[w].tx = result
        /\ job'[w].pc = AwaitedAt(head.call)
    BY <1>2, <2>1
  <2>3. result = "mined"
    BY <1>5, <2>1, <2>2 DEF Paying, AwaitedAt
  <2>4. QED
    BY <2>2, <2>3 DEF head
<1>8. \A w \in Worker : Paying(w) => requests[job[w].id].status = "Settled"
  BY DEF OfframpInv, JobsOK, JobOK, Paying, ChainStatus
<1>9. PaidOnce'
  <2>1. \A id \in Request : payouts'[id] = 0 \/ (payouts'[id] = 1 /\ requests'[id].status = "Settled")
    BY <1>1, <1>4 DEF OfframpInv, TablesInv, PaidOnce, ChainStatus
  <2>2. requests[head.id].status = "Locked" => payouts[head.id] = 0
    BY <1>5 DEF OfframpInv, TablesInv, PaidOnce, ChainStatus
  <2>3. \A w \in Worker : Paying(w)' => payouts'[job'[w].id] = 0
    BY <1>1, <1>7, <2>2 DEF OfframpInv, TablesInv, PaidOnce
  <2>4. \A u, v \in Worker : Paying(u)' /\ Paying(v)' /\ job'[u].id = job'[v].id => u = v
    BY <1>7, <1>8 DEF OfframpInv, TablesInv, PaidOnce
  <2>5. QED
    BY <2>1, <2>3, <2>4 DEF PaidOnce, ChainStatus
<1>10. RowFollowsChain' /\ RefundRecordedOnce'
  BY <1>1, <1>4 DEF OfframpInv, TablesInv, RowFollowsChain, RefundRecordedOnce, ChainStatus
<1>11. \A w \in Worker : job'[w].pc = "record" => job'[w] = job[w]
  BY <1>2, <1>5 DEF AwaitedAt
<1>12. RecordingOnce'
  BY <1>1, <1>11 DEF OfframpInv, TablesInv, RecordingOnce
<1>13. QED
  BY <1>2, <1>3, <1>6, <1>9, <1>10, <1>12 DEF OfframpInv, TablesInv

LEMMA MineSafe ==
    ASSUME OfframpInv, MineSettle \/ MineRefund
    PROVE  OfframpInv'
<1> DEFINE head == Head(mempool)
<1>1. /\ mempool # <<>> /\ mempool' = Tail(mempool) /\ UNCHANGED <<tableVars, boundVars>>
  BY DEF MineSettle, MineRefund
<1>2. head \in Call
  BY <1>1, Typed
<1>3. head.id \in Request /\ Contract!EscrowInv
  BY <1>2 DEF Call, OfframpInv
<1>4. CASE UNCHANGED chainVars /\ job' = Reported(head.by, "reverted")
  <2>1. Contract!EscrowInv' /\ \A i \in Request : Forward(i)
    BY <1>3, <1>4, ChainRests DEF Forward
  <2>2. QED
    BY <1>1, <1>4, <2>1, MineStep
<1>5. CASE head.call = "settle" /\ Escrow!SettleOfframp(Server, head.id, Path)
           /\ job' = Reported(head.by, "mined")
  <2>1. /\ Contract!EscrowInv' /\ \A i \in Request : Forward(i)
        /\ requests[head.id].status = "Locked" /\ requests'[head.id].status = "Settled"
    BY <1>3, <1>5, SettleForward DEF Forward
  <2>2. QED
    BY <1>1, <1>5, <2>1, MineStep
<1>6. CASE head.call = "refund" /\ Escrow!Refund(Server, head.id)
           /\ job' = Reported(head.by, "mined")
  <2>1. /\ Contract!EscrowInv' /\ \A i \in Request : Forward(i)
        /\ requests[head.id].status = "Locked" /\ requests'[head.id].status = "Refunded"
    BY <1>3, <1>6, RefundForward DEF Forward
  <2>2. QED
    BY <1>1, <1>6, <2>1, MineStep
<1>7. QED
  BY <1>4, <1>5, <1>6 DEF MineSettle, MineRefund

-----------------------------------------------------------------------------
(* The invariant, and what it says of the tables. *)

LEMMA InitSafe == Init => OfframpInv
<1> SUFFICES ASSUME Init PROVE OfframpInv
  OBVIOUS
<1>1. Escrow!TypeOK
  BY OfframpAssumption
  DEF OfframpAssumption, Init, Escrow!TypeOK, Escrow!RequestId, Request
<1>2. Contract!EscrowInv
  <2>1. Contract!TypeOK
    BY <1>1, SameContract
  <2>2. requests = [i \in Contract!RequestId |-> Contract!NoRequest]
    BY SameContract DEF Init, Escrow!NoRequest, Contract!NoRequest
  <2>3. QED
    BY <2>1, <2>2, ContractConstants, Contract!NothingLocked DEF Init
<1>3. TypeOK
  BY <1>1, NoJobTypes, OfframpAssumption DEF OfframpAssumption, Init, TypeOK, NoRow, Row
<1>4. MempoolOK
  BY DEF Init, MempoolOK
<1>5. \A w \in Worker : job[w].pc = "idle"
  BY DEF Init, NoJob
<1>6. JobsOK
  BY <1>5 DEF JobsOK, JobOK
<1>7. TablesInv
  BY <1>5 DEF Init, NoRow, TablesInv, RowFollowsChain, RefundRecordedOnce, PaidOnce,
              RecordingOnce, Paying
<1>8. QED
  BY <1>2, <1>3, <1>4, <1>6, <1>7 DEF OfframpInv

\* The steps of the handlers that pay nobody.
Unpaid(w) ==
    \/ SweepStep(w) \/ InsertRow(w) \/ LockHistory(w) \/ SendSettle(w) \/ AwaitSettle(w)
    \/ MarkSettled(w) \/ Complete(w) \/ StartSweep(w) \/ Fault(w)
    \/ \E id \in Request : StartPost(w, id) \/ StartRefund(w, id)

LEMMA UnpaidSafe ==
    ASSUME OfframpInv, NEW w \in Worker, Unpaid(w)
    PROVE  OfframpInv'
<1>1. CASE SweepStep(w)
  BY <1>1, LookSafe, ReconcileSafe, SendSafe, AwaitSafe, ClaimSafe, RefundHistorySafe DEF SweepStep
<1>2. CASE \/ InsertRow(w) \/ LockHistory(w) \/ SendSettle(w) \/ AwaitSettle(w)
           \/ MarkSettled(w) \/ Complete(w)
  BY <1>2, InsertSafe, LockHistorySafe, SendSafe, AwaitSafe, MarkSafe, CompleteSafe
<1>3. CASE StartSweep(w) \/ \E id \in Request : StartPost(w, id) \/ StartRefund(w, id)
  BY <1>3, StartSafe
<1>4. CASE Fault(w)
  BY <1>4, FaultSafe
<1>5. QED
  BY <1>1, <1>2, <1>3, <1>4 DEF Unpaid

\* Every step is the chain's, a disbursement, or one of these.
LEMMA Steps ==
    ASSUME Next
    PROVE  \/ LockOnChain \/ Tick
           \/ \E caller \in Outsider, id \in Request : RefundOutside(caller, id)
           \/ MineSettle \/ MineRefund
           \/ \E w \in Worker : Disburse(w) \/ Unpaid(w)
<1>1. ASSUME NEW w \in Poster, LockStep(w) \/ \E id \in Request : StartPost(w, id)
      PROVE  w \in Worker /\ (Disburse(w) \/ Unpaid(w))
  BY <1>1 DEF LockStep, Unpaid, Worker
<1>2. ASSUME NEW w \in Refunder, SweepStep(w) \/ \E id \in Request : StartRefund(w, id)
      PROVE  w \in Worker /\ Unpaid(w)
  BY <1>2 DEF Unpaid, Worker
<1>3. ASSUME NEW w \in Sweeper, SweepStep(w) \/ StartSweep(w)
      PROVE  w \in Worker /\ Unpaid(w)
  BY <1>3 DEF Unpaid, Worker
<1>4. ASSUME NEW w \in Worker, Fault(w) PROVE Unpaid(w)
  BY <1>4 DEF Unpaid
<1>5. QED
  BY <1>1, <1>2, <1>3, <1>4 DEF Next

LEMMA NextSafe == OfframpInv /\ [Next]_vars => OfframpInv'
<1>1. ASSUME OfframpInv, Next PROVE OfframpInv'
  BY <1>1, Steps, ChainSafe, MineSafe, DisburseSafe, UnpaidSafe
<1>2. ASSUME OfframpInv, UNCHANGED vars PROVE OfframpInv'
  <2>1. Contract!EscrowInv' /\ UNCHANGED requests
    BY <1>2, ChainRests DEF OfframpInv, vars
  <2>2. ChainOnly /\ \A id \in Request : Forward(id)
    BY <1>2, <2>1 DEF ChainOnly, vars, Forward
  <2>3. QED
    BY <1>2, <2>1, <2>2, ChainStep
<1>3. QED
  BY <1>1, <1>2

\* The inductive invariant of the off-ramp's handlers holds in every state.
THEOREM OfframpInvariant == Spec => []OfframpInv
BY InitSafe, NextSafe, PTL DEF Spec

\* Every variable of the off-ramp keeps its type: the mempool holds only calls of
\* known requests, and every handler is at a step of its route.
THEOREM OfframpTypes == Spec => []TypeOK
<1>1. OfframpInv => TypeOK
  BY DEF OfframpInv
<1>2. QED
  BY <1>1, OfframpInvariant, PTL

\* offramp_requests and the history never run ahead of the escrow, whatever
\* handlers race for a row, crash, or lose a write.
THEOREM TablesNeverRunAhead == Spec => []TablesFollowChain
<1>1. OfframpInv => TablesFollowChain
  BY DEF OfframpInv, TablesInv, TablesFollowChain
<1>2. QED
  BY <1>1, OfframpInvariant, PTL

-----------------------------------------------------------------------------
(* The off-ramp keeps its promise. *)

LEMMA StageOf ==
    ASSUME OfframpInv, NEW id \in Request
    PROVE  /\ requests[id].status \in {"None", "Locked", "Settled", "Refunded"}
           /\ payouts[id] = 0 \/ (payouts[id] = 1 /\ requests[id].status = "Settled")
<1>1. requests[id] \in Contract!OfframpRequest \cup {Contract!NoRequest}
  BY SameContract DEF OfframpInv, Contract!EscrowInv, Contract!TypeOK
<1>2. requests[id].status \in {"None", "Locked", "Settled", "Refunded"}
  BY <1>1 DEF Contract!OfframpRequest, Contract!NoRequest
<1>3. QED
  BY <1>2 DEF OfframpInv, TablesInv, PaidOnce, ChainStatus

stageOf == [id \in Request |-> Stage(id)]

\* A step that moves the money of one request.
LEMMA OneStage ==
    ASSUME NEW id \in Request, NEW from, NEW to, Stage(id) = from, Stage(id)' = to,
           \A i \in Request : i # id => Stage(i)' = Stage(i)
    PROVE  Promise!Becomes(id, from, to)
<1>1. stageOf[id] = from /\ stageOf' = [stageOf EXCEPT ![id] = to]
  BY DEF stageOf
<1>2. QED
  BY <1>1 DEF Promise!Becomes, stageOf

\* The stage of a request depends on its status and its disbursements.
LEMMA SameStage ==
    ASSUME NEW id \in Request, requests'[id] = requests[id], payouts'[id] = payouts[id]
    PROVE  Stage(id)' = Stage(id)
BY DEF Stage, ChainStatus

LEMMA StagesRest ==
    ASSUME UNCHANGED <<requests, payouts>>
    PROVE  UNCHANGED stageOf
BY DEF stageOf, Stage, ChainStatus

\* A transaction that settles or refunds moves one request that nobody was paid for.
LEMMA EndStage ==
    ASSUME OfframpInv, NEW id \in Request, NEW end \in {"Settled", "Refunded"},
           UNCHANGED payouts, requests[id].status = "Locked", requests'[id].status = end,
           \A i \in Request : i # id => requests'[i] = requests[i]
    PROVE  Promise!Next
<1>1. payouts[id] = 0
  BY StageOf
<1>2. Stage(id) = "locked"
  BY <1>1 DEF Stage, ChainStatus
<1>3. Stage(id)' = (IF end = "Settled" THEN "settled" ELSE "refunded")
  BY <1>1 DEF Stage, ChainStatus
<1>4. \A i \in Request : i # id => Stage(i)' = Stage(i)
  BY SameStage
<1>5. CASE end = "Settled"
  BY <1>2, <1>3, <1>4, <1>5, OneStage DEF Promise!Next, Promise!Settle
<1>6. CASE end = "Refunded"
  BY <1>2, <1>3, <1>4, <1>6, OneStage DEF Promise!Next, Promise!Refund
<1>7. QED
  BY <1>5, <1>6

LEMMA LockPromised ==
    ASSUME OfframpInv, LockOnChain
    PROVE  Promise!Next
<1>1. PICK id \in Request : /\ requests[id].status = "None" /\ requests'[id].status = "Locked"
                            /\ \A i \in Request : i # id => requests'[i] = requests[i]
  BY LockForward DEF OfframpInv
<1>2. UNCHANGED payouts /\ payouts[id] = 0
  BY <1>1, LockForward, StageOf DEF OfframpInv
<1>3. Stage(id) = "none" /\ Stage(id)' = "locked"
  BY <1>1, <1>2 DEF Stage, ChainStatus
<1>4. \A i \in Request : i # id => Stage(i)' = Stage(i)
  BY <1>1, <1>2, SameStage
<1>5. QED
  BY <1>3, <1>4, OneStage DEF Promise!Next, Promise!Lock

LEMMA EndPromised ==
    ASSUME OfframpInv,
           \/ MineSettle \/ MineRefund
           \/ \E caller \in Outsider, id \in Request : RefundOutside(caller, id)
    PROVE  Promise!Next \/ UNCHANGED stageOf
<1> DEFINE head == Head(mempool)
<1>1. UNCHANGED payouts /\ Contract!EscrowInv
  BY DEF MineSettle, MineRefund, RefundOutside, ChainOnly, tableVars, OfframpInv
<1>2. CASE UNCHANGED chainVars
  BY <1>1, <1>2, StagesRest DEF chainVars
<1>3. ASSUME NEW id \in Request, Escrow!SettleOfframp(Server, id, Path)
      PROVE  Promise!Next
  BY <1>1, <1>3, SettleForward, EndStage
<1>4. ASSUME NEW id \in Request, NEW caller \in {User, Server}, Escrow!Refund(caller, id)
      PROVE  Promise!Next
  BY <1>1, <1>4, RefundForward, EndStage
<1>5. CASE MineSettle \/ MineRefund
  <2>1. mempool # <<>>
    BY <1>5 DEF MineSettle, MineRefund
  <2>2. head \in Call
    BY <2>1, Typed
  <2>3. head.id \in Request
    BY <2>2 DEF Call
  <2>4. \/ UNCHANGED chainVars \/ Escrow!SettleOfframp(Server, head.id, Path)
        \/ Escrow!Refund(Server, head.id)
    BY <1>5 DEF MineSettle, MineRefund
  <2>5. QED
    BY <1>2, <1>3, <1>4, <2>3, <2>4
<1>6. CASE \E caller \in Outsider, id \in Request : RefundOutside(caller, id)
  BY <1>4, <1>6, OfframpAssumption DEF OfframpAssumption, RefundOutside
<1>7. QED
  BY <1>5, <1>6

LEMMA DisbursePromised ==
    ASSUME OfframpInv, NEW w \in Worker, Disburse(w)
    PROVE  Promise!Next
<1>1. PICK id \in Request : id = job[w].id
  BY Typed
<1>2. /\ UNCHANGED requests /\ At(w, "disburse") /\ payouts' = [payouts EXCEPT ![id] = @ + 1]
  BY <1>1 DEF Disburse, chainVars
<1>3. requests[id].status = "Settled" /\ payouts[id] = 0
  BY <1>1, <1>2 DEF OfframpInv, JobsOK, JobOK, At, Paying, TablesInv, PaidOnce, ChainStatus
<1>4. payouts'[id] = 1 /\ \A i \in Request : i # id => payouts'[i] = payouts[i]
  BY <1>2, <1>3, Typed
<1>5. Stage(id) = "settled" /\ Stage(id)' = "paid"
  BY <1>2, <1>3, <1>4 DEF Stage, ChainStatus
<1>6. \A i \in Request : i # id => Stage(i)' = Stage(i)
  BY <1>2, <1>4, SameStage
<1>7. QED
  BY <1>5, <1>6, OneStage DEF Promise!Next, Promise!Pay

LEMMA UnpaidPromised ==
    ASSUME NEW w \in Worker, Unpaid(w)
    PROVE  UNCHANGED <<requests, payouts>>
BY DEF Unpaid, SweepStep, InsertRow, LockHistory, SendSettle, AwaitSettle, MarkSettled, Complete,
       Look, Reconcile, SendRefund, AwaitRefund, ClaimRow, RefundHistory, StartSweep, StartPost,
       StartRefund, Fault, tableVars, chainVars

\* The escrow, the three routes and their tables refine what an off-ramp promises:
\* a request is disbursed at most once, only out of a settlement, and never once
\* its tokens went back.
THEOREM OfframpKeepsPromise == Spec => KeepsPromise
<1>1. Init => Promise!Init
  BY DEF Init, Promise!Init, Stage, ChainStatus, Escrow!NoRequest
<1>2. ASSUME OfframpInv, Next PROVE Promise!Next \/ UNCHANGED stageOf
  <2>1. ASSUME Tick PROVE UNCHANGED stageOf
    BY <2>1, StagesRest DEF Tick, Escrow!Tick, ChainOnly, tableVars
  <2>2. ASSUME NEW w \in Worker, Unpaid(w) PROVE UNCHANGED stageOf
    BY <2>2, UnpaidPromised, StagesRest
  <2>3. QED
    BY <1>2, <2>1, <2>2, Steps, LockPromised, EndPromised, DisbursePromised
<1>3. ASSUME UNCHANGED vars PROVE UNCHANGED stageOf
  BY <1>3, StagesRest DEF vars, chainVars, tableVars
<1>4. OfframpInv /\ [Next]_vars => [Promise!Next]_([id \in Request |-> Stage(id)])
  BY <1>2, <1>3 DEF stageOf
<1>5. QED
  BY <1>1, <1>4, OfframpInvariant, PTL DEF Spec, KeepsPromise, Promise!Spec

-----------------------------------------------------------------------------
(* The screen that waits for the settlement. *)

\* Nothing is filed before the report, and the worker settles a filed lock, once.
ScreenServer ==
    /\ phase = "locking" => escrow = "none"
    /\ phase = "posting" => escrow = "Locked"
    /\ phase \in {"locking", "posting"} => screenRow = "none" /\ worker = "none" /\ sighted = {} /\ twice = 0
    /\ phase = "settling" => screenRow # "none"
    /\ worker = "settle" /\ escrow = "Locked" => screenRow = "locked"
    /\ worker = "mark" => escrow = "Settled"
    /\ delays = 0 /\ escrow = "Settled" => screenRow = "settled" \/ (screenRow = "locked" /\ worker = "mark")

\* A row that was seen settled is, and the hook remembers it; a lock runs out before the polling does.
ScreenMemory ==
    /\ "settled" \in sighted => screenRow = "settled"
    /\ phase = "settling" => twice < 2
    /\ phase = "settling" /\ "settled" \in sighted => seen
    /\ overtime => expired = "grace_over"
    /\ phase = "needs-refund" => expired # "running" /\ "settled" \notin sighted

\* While nothing is slow, fails or is delayed, polling that ends without having seen a settlement
\* ends without there being one.
Undisturbed == ~slow /\ misses = 0 /\ delays = 0
ScreenVerdict ==
    Undisturbed /\ (phase = "needs-refund" \/ (phase = "settling" /\ overtime /\ ~seen)) => escrow # "Settled"

ScreenData ==
    /\ escrow \in {"none", "Locked", "Settled", "Refunded"}
    /\ screenRow \in {"none", "locked", "settled", "refunded"}
    /\ fiat \in {"not_started", "converting", "completed"}
    /\ worker \in {"none", "settle", "mark", "disburse", "over"}
    /\ expired \in {"running", "over", "grace_over"}
    /\ phase \in {"locking", "posting", "settling", "done", "needs-refund", "failed"}
    /\ said \in {"nothing", "error", "returned"}
    /\ twice \in 0 .. 2
    /\ sighted \subseteq {"locked", "refundable", "settled", "refunded"}
    /\ misses \in 0 .. MaxMisses /\ delays \in 0 .. MaxDelays
ScreenFlags == overtime \in BOOLEAN /\ seen \in BOOLEAN /\ slow \in BOOLEAN

ScreenInv == ScreenData /\ ScreenFlags /\ ScreenServer /\ ScreenMemory /\ ScreenVerdict

LEMMA ScreenStep == ScreenInv /\ [S!Next]_(S!vars) => ScreenInv'
<1> USE DEF S!server, S!screen, S!clock, S!Show, S!Fail, S!Delay
<1>1. ASSUME ScreenInv, S!LockMined
      PROVE  ScreenInv'
  <2>1. ScreenData /\ ScreenFlags /\ ScreenServer /\ ScreenMemory /\ ScreenVerdict
    BY <1>1 DEF ScreenInv
  <2>2. ScreenData'
    BY <1>1, <2>1, ScreenAssumption DEF S!LockMined, ScreenAssumption, ScreenData
  <2>3. ScreenFlags'
    BY <1>1, <2>1, Zenon DEF S!LockMined, ScreenFlags
  <2>4. ScreenServer'
    BY <1>1, <2>1 DEF S!LockMined, ScreenData, ScreenServer
  <2>5. ScreenMemory'
    BY <1>1, <2>1 DEF S!LockMined, ScreenData, ScreenServer, ScreenMemory
  <2>6. ScreenVerdict'
    BY <1>1, <2>1 DEF S!LockMined, ScreenData, ScreenServer, ScreenMemory, ScreenVerdict, Undisturbed
  <2>7. QED
    BY <2>2, <2>3, <2>4, <2>5, <2>6 DEF ScreenInv
<1>2. ASSUME ScreenInv, S!Report
      PROVE  ScreenInv'
  <2>1. ScreenData /\ ScreenFlags /\ ScreenServer /\ ScreenMemory /\ ScreenVerdict
    BY <1>2 DEF ScreenInv
  <2>2. ScreenData'
    BY <1>2, <2>1, ScreenAssumption DEF S!Report, ScreenAssumption, ScreenData
  <2>3. ScreenFlags'
    BY <1>2, <2>1, Zenon DEF S!Report, ScreenFlags
  <2>4. ScreenServer'
    BY <1>2, <2>1 DEF S!Report, ScreenData, ScreenServer
  <2>5. ScreenMemory'
    BY <1>2, <2>1 DEF S!Report, ScreenData, ScreenServer, ScreenMemory
  <2>6. ScreenVerdict'
    BY <1>2, <2>1 DEF S!Report, ScreenData, ScreenServer, ScreenMemory, ScreenVerdict, Undisturbed
  <2>7. QED
    BY <2>2, <2>3, <2>4, <2>5, <2>6 DEF ScreenInv
<1>3. ASSUME ScreenInv, S!ReportRefused
      PROVE  ScreenInv'
  <2>1. ScreenData /\ ScreenFlags /\ ScreenServer /\ ScreenMemory /\ ScreenVerdict
    BY <1>3 DEF ScreenInv
  <2>2. ScreenData'
    BY <1>3, <2>1, ScreenAssumption DEF S!ReportRefused, ScreenAssumption, ScreenData
  <2>3. ScreenFlags'
    BY <1>3, <2>1, Zenon DEF S!ReportRefused, ScreenFlags
  <2>4. ScreenServer'
    BY <1>3, <2>1 DEF S!ReportRefused, ScreenData, ScreenServer
  <2>5. ScreenMemory'
    BY <1>3, <2>1 DEF S!ReportRefused, ScreenData, ScreenServer, ScreenMemory
  <2>6. ScreenVerdict'
    BY <1>3, <2>1 DEF S!ReportRefused, ScreenData, ScreenServer, ScreenMemory, ScreenVerdict, Undisturbed
  <2>7. QED
    BY <2>2, <2>3, <2>4, <2>5, <2>6 DEF ScreenInv
<1>4. ASSUME ScreenInv, S!Settle
      PROVE  ScreenInv'
  <2>1. ScreenData /\ ScreenFlags /\ ScreenServer /\ ScreenMemory /\ ScreenVerdict
    BY <1>4 DEF ScreenInv
  <2>2. ScreenData'
    BY <1>4, <2>1, ScreenAssumption DEF S!Settle, ScreenAssumption, ScreenData
  <2>3. ScreenFlags'
    BY <1>4, <2>1, Zenon DEF S!Settle, ScreenFlags
  <2>4. ScreenServer'
    BY <1>4, <2>1 DEF S!Settle, ScreenData, ScreenServer
  <2>5. ScreenMemory'
    BY <1>4, <2>1 DEF S!Settle, ScreenData, ScreenServer, ScreenMemory
  <2>6. ScreenVerdict'
    BY <1>4, <2>1 DEF S!Settle, ScreenData, ScreenServer, ScreenMemory, ScreenVerdict, Undisturbed
  <2>7. QED
    BY <2>2, <2>3, <2>4, <2>5, <2>6 DEF ScreenInv
<1>5. ASSUME ScreenInv, S!MarkSettled
      PROVE  ScreenInv'
  <2>1. ScreenData /\ ScreenFlags /\ ScreenServer /\ ScreenMemory /\ ScreenVerdict
    BY <1>5 DEF ScreenInv
  <2>2. ScreenData'
    BY <1>5, <2>1, ScreenAssumption DEF S!MarkSettled, ScreenAssumption, ScreenData
  <2>3. ScreenFlags'
    BY <1>5, <2>1, Zenon DEF S!MarkSettled, ScreenFlags
  <2>4. ScreenServer'
    BY <1>5, <2>1 DEF S!MarkSettled, ScreenData, ScreenServer
  <2>5. ScreenMemory'
    BY <1>5, <2>1 DEF S!MarkSettled, ScreenData, ScreenServer, ScreenMemory
  <2>6. ScreenVerdict'
    BY <1>5, <2>1 DEF S!MarkSettled, ScreenData, ScreenServer, ScreenMemory, ScreenVerdict, Undisturbed
  <2>7. QED
    BY <2>2, <2>3, <2>4, <2>5, <2>6 DEF ScreenInv
<1>6. ASSUME ScreenInv, S!Complete
      PROVE  ScreenInv'
  <2>1. ScreenData /\ ScreenFlags /\ ScreenServer /\ ScreenMemory /\ ScreenVerdict
    BY <1>6 DEF ScreenInv
  <2>2. ScreenData'
    BY <1>6, <2>1, ScreenAssumption DEF S!Complete, ScreenAssumption, ScreenData
  <2>3. ScreenFlags'
    BY <1>6, <2>1, Zenon DEF S!Complete, ScreenFlags
  <2>4. ScreenServer'
    BY <1>6, <2>1 DEF S!Complete, ScreenData, ScreenServer
  <2>5. ScreenMemory'
    BY <1>6, <2>1 DEF S!Complete, ScreenData, ScreenServer, ScreenMemory
  <2>6. ScreenVerdict'
    BY <1>6, <2>1 DEF S!Complete, ScreenData, ScreenServer, ScreenMemory, ScreenVerdict, Undisturbed
  <2>7. QED
    BY <2>2, <2>3, <2>4, <2>5, <2>6 DEF ScreenInv
<1>7. ASSUME ScreenInv, S!WorkerDies
      PROVE  ScreenInv'
  <2>1. ScreenData /\ ScreenFlags /\ ScreenServer /\ ScreenMemory /\ ScreenVerdict
    BY <1>7 DEF ScreenInv
  <2>2. ScreenData'
    BY <1>7, <2>1, ScreenAssumption DEF S!WorkerDies, ScreenAssumption, ScreenData
  <2>3. ScreenFlags'
    BY <1>7, <2>1, Zenon DEF S!WorkerDies, ScreenFlags
  <2>4. ScreenServer'
    BY <1>7, <2>1 DEF S!WorkerDies, ScreenData, ScreenServer
  <2>5. ScreenMemory'
    BY <1>7, <2>1 DEF S!WorkerDies, ScreenData, ScreenServer, ScreenMemory
  <2>6. ScreenVerdict'
    BY <1>7, <2>1 DEF S!WorkerDies, ScreenData, ScreenServer, ScreenMemory, ScreenVerdict, Undisturbed
  <2>7. QED
    BY <2>2, <2>3, <2>4, <2>5, <2>6 DEF ScreenInv
<1>8. ASSUME ScreenInv, S!Sweep
      PROVE  ScreenInv'
  <2>1. ScreenData /\ ScreenFlags /\ ScreenServer /\ ScreenMemory /\ ScreenVerdict
    BY <1>8 DEF ScreenInv
  <2>2. ScreenData'
    BY <1>8, <2>1, ScreenAssumption DEF S!Sweep, ScreenAssumption, ScreenData
  <2>3. ScreenFlags'
    BY <1>8, <2>1, Zenon DEF S!Sweep, ScreenFlags
  <2>4. ScreenServer'
    BY <1>8, <2>1 DEF S!Sweep, ScreenData, ScreenServer
  <2>5. ScreenMemory'
    BY <1>8, <2>1 DEF S!Sweep, ScreenData, ScreenServer, ScreenMemory
  <2>6. ScreenVerdict'
    BY <1>8, <2>1 DEF S!Sweep, ScreenData, ScreenServer, ScreenMemory, ScreenVerdict, Undisturbed
  <2>7. QED
    BY <2>2, <2>3, <2>4, <2>5, <2>6 DEF ScreenInv
<1>9. ASSUME ScreenInv, S!PollSettled
      PROVE  ScreenInv'
  <2>1. ScreenData /\ ScreenFlags /\ ScreenServer /\ ScreenMemory /\ ScreenVerdict
    BY <1>9 DEF ScreenInv
  <2>2. ScreenData'
    BY <1>9, <2>1, ScreenAssumption DEF S!PollSettled, ScreenAssumption, ScreenData
  <2>3. ScreenFlags'
    BY <1>9, <2>1, Zenon DEF S!PollSettled, ScreenFlags
  <2>4. ScreenServer'
    BY <1>9, <2>1 DEF S!PollSettled, ScreenData, ScreenServer
  <2>5. ScreenMemory'
    BY <1>9, <2>1 DEF S!PollSettled, ScreenData, ScreenServer, ScreenMemory
  <2>6. ScreenVerdict'
    BY <1>9, <2>1 DEF S!PollSettled, ScreenData, ScreenServer, ScreenMemory, ScreenVerdict, Undisturbed
  <2>7. QED
    BY <2>2, <2>3, <2>4, <2>5, <2>6 DEF ScreenInv
<1>10. ASSUME ScreenInv, S!PollRefundable
      PROVE  ScreenInv'
  <2>1. ScreenData /\ ScreenFlags /\ ScreenServer /\ ScreenMemory /\ ScreenVerdict
    BY <1>10 DEF ScreenInv
  <2>2. ScreenData'
    BY <1>10, <2>1, ScreenAssumption DEF S!PollRefundable, S!Refundable, S!Believes, ScreenAssumption, ScreenData, ScreenMemory
  <2>3. ScreenFlags'
    BY <1>10, <2>1, Zenon DEF S!PollRefundable, S!Refundable, S!Believes, ScreenFlags
  <2>4. ScreenServer'
    BY <1>10, <2>1 DEF S!PollRefundable, S!Refundable, S!Believes, ScreenData, ScreenServer
  <2>5. ScreenMemory'
    BY <1>10, <2>1 DEF S!PollRefundable, S!Refundable, S!Believes, ScreenData, ScreenServer, ScreenMemory
  <2>6. ScreenVerdict'
    <3>1. ~slow' => ~slow /\ ~(worker = "mark" /\ twice > 0)
      BY <1>10, Zenon DEF S!PollRefundable
    <3>2. QED
      BY <1>10, <2>1, <3>1 DEF S!PollRefundable, S!Refundable, S!Believes, ScreenData, ScreenServer, ScreenMemory, ScreenVerdict, Undisturbed
  <2>7. QED
    BY <2>2, <2>3, <2>4, <2>5, <2>6 DEF ScreenInv
<1>11. ASSUME ScreenInv, S!PollOther
      PROVE  ScreenInv'
  <2>1. ScreenData /\ ScreenFlags /\ ScreenServer /\ ScreenMemory /\ ScreenVerdict
    BY <1>11 DEF ScreenInv
  <2>2. ScreenData'
    BY <1>11, <2>1, ScreenAssumption DEF S!PollOther, S!Refundable, ScreenAssumption, ScreenData, ScreenServer
  <2>3. ScreenFlags'
    BY <1>11, <2>1, Zenon DEF S!PollOther, S!Refundable, ScreenFlags
  <2>4. ScreenServer'
    BY <1>11, <2>1 DEF S!PollOther, S!Refundable, ScreenData, ScreenServer
  <2>5. ScreenMemory'
    BY <1>11, <2>1 DEF S!PollOther, S!Refundable, ScreenData, ScreenServer, ScreenMemory
  <2>6. ScreenVerdict'
    BY <1>11, <2>1 DEF S!PollOther, S!Refundable, ScreenData, ScreenServer, ScreenMemory, ScreenVerdict, Undisturbed
  <2>7. QED
    BY <2>2, <2>3, <2>4, <2>5, <2>6 DEF ScreenInv
<1>12. ASSUME ScreenInv, S!PollMissed
      PROVE  ScreenInv'
  <2>1. ScreenData /\ ScreenFlags /\ ScreenServer /\ ScreenMemory /\ ScreenVerdict
    BY <1>12 DEF ScreenInv
  <2>2. ScreenData'
    BY <1>12, <2>1, ScreenAssumption DEF S!PollMissed, ScreenAssumption, ScreenData
  <2>3. ScreenFlags'
    BY <1>12, <2>1, Zenon DEF S!PollMissed, ScreenFlags
  <2>4. ScreenServer'
    BY <1>12, <2>1 DEF S!PollMissed, ScreenData, ScreenServer
  <2>5. ScreenMemory'
    BY <1>12, <2>1 DEF S!PollMissed, ScreenData, ScreenServer, ScreenMemory
  <2>6. ScreenVerdict'
    BY <1>12, <2>1 DEF S!PollMissed, ScreenData, ScreenServer, ScreenMemory, ScreenVerdict, Undisturbed
  <2>7. QED
    BY <2>2, <2>3, <2>4, <2>5, <2>6 DEF ScreenInv
<1>13. ASSUME ScreenInv, S!PollTimeout
      PROVE  ScreenInv'
  <2>1. ScreenData /\ ScreenFlags /\ ScreenServer /\ ScreenMemory /\ ScreenVerdict
    BY <1>13 DEF ScreenInv
  <2>2. ScreenData'
    BY <1>13, <2>1, ScreenAssumption DEF S!PollTimeout, S!EndOfPolling, ScreenAssumption, ScreenData
  <2>3. ScreenFlags'
    BY <1>13, <2>1, Zenon DEF S!PollTimeout, S!EndOfPolling, ScreenFlags
  <2>4. ScreenServer'
    BY <1>13, <2>1 DEF S!PollTimeout, S!EndOfPolling, ScreenData, ScreenServer
  <2>5. ScreenMemory'
    BY <1>13, <2>1 DEF S!PollTimeout, S!EndOfPolling, ScreenData, ScreenServer, ScreenMemory
  <2>6. ScreenVerdict'
    BY <1>13, <2>1 DEF S!PollTimeout, S!EndOfPolling, ScreenData, ScreenServer, ScreenMemory, ScreenVerdict, Undisturbed
  <2>7. QED
    BY <2>2, <2>3, <2>4, <2>5, <2>6 DEF ScreenInv
<1>14. ASSUME ScreenInv, S!RequestRefund
      PROVE  ScreenInv'
  <2>1. ScreenData /\ ScreenFlags /\ ScreenServer /\ ScreenMemory /\ ScreenVerdict
    BY <1>14 DEF ScreenInv
  <2>2. ScreenData'
    BY <1>14, <2>1, ScreenAssumption DEF S!RequestRefund, S!RefundGoesThrough, S!Refundable, ScreenAssumption, ScreenData
  <2>3. ScreenFlags'
    BY <1>14, <2>1, Zenon DEF S!RequestRefund, S!RefundGoesThrough, S!Refundable, ScreenFlags
  <2>4. ScreenServer'
    BY <1>14, <2>1 DEF S!RequestRefund, S!RefundGoesThrough, S!Refundable, ScreenData, ScreenServer
  <2>5. ScreenMemory'
    BY <1>14, <2>1 DEF S!RequestRefund, S!RefundGoesThrough, S!Refundable, ScreenData, ScreenServer, ScreenMemory
  <2>6. ScreenVerdict'
    BY <1>14, <2>1 DEF S!RequestRefund, S!RefundGoesThrough, S!Refundable, ScreenData, ScreenServer, ScreenMemory, ScreenVerdict, Undisturbed
  <2>7. QED
    BY <2>2, <2>3, <2>4, <2>5, <2>6 DEF ScreenInv
<1>15. ASSUME ScreenInv, S!TimePasses
      PROVE  ScreenInv'
  <2>1. ScreenData /\ ScreenFlags /\ ScreenServer /\ ScreenMemory /\ ScreenVerdict
    BY <1>15 DEF ScreenInv
  <2>2. ScreenData'
    BY <1>15, <2>1, ScreenAssumption DEF S!TimePasses, S!Later, ScreenAssumption, ScreenData
  <2>3. ScreenFlags'
    BY <1>15, <2>1, Zenon DEF S!TimePasses, S!Later, ScreenFlags
  <2>4. ScreenServer'
    BY <1>15, <2>1 DEF S!TimePasses, S!Later, ScreenData, ScreenServer
  <2>5. ScreenMemory'
    BY <1>15, <2>1 DEF S!TimePasses, S!Later, ScreenData, ScreenServer, ScreenMemory
  <2>6. ScreenVerdict'
    BY <1>15, <2>1 DEF S!TimePasses, S!Later, ScreenData, ScreenServer, ScreenMemory, ScreenVerdict, Undisturbed
  <2>7. QED
    BY <2>2, <2>3, <2>4, <2>5, <2>6 DEF ScreenInv
<1>16. ASSUME ScreenInv, S!PollingEnds
      PROVE  ScreenInv'
  <2>1. ScreenData /\ ScreenFlags /\ ScreenServer /\ ScreenMemory /\ ScreenVerdict
    BY <1>16 DEF ScreenInv
  <2>2. ScreenData'
    BY <1>16, <2>1, ScreenAssumption DEF S!PollingEnds, ScreenAssumption, ScreenData
  <2>3. ScreenFlags'
    BY <1>16, <2>1, Zenon DEF S!PollingEnds, ScreenFlags
  <2>4. ScreenServer'
    BY <1>16, <2>1 DEF S!PollingEnds, ScreenData, ScreenServer
  <2>5. ScreenMemory'
    BY <1>16, <2>1 DEF S!PollingEnds, ScreenData, ScreenServer, ScreenMemory
  <2>6. ScreenVerdict'
    <3>1. ~slow' => ~slow /\ ~(worker = "mark")
      BY <1>16, Zenon DEF S!PollingEnds
    <3>2. QED
      BY <1>16, <2>1, <3>1 DEF S!PollingEnds, ScreenData, ScreenServer, ScreenMemory, ScreenVerdict, Undisturbed
  <2>7. QED
    BY <2>2, <2>3, <2>4, <2>5, <2>6 DEF ScreenInv
<1>17. ASSUME ScreenInv, UNCHANGED S!vars
      PROVE  ScreenInv'
  <2>1. ScreenData /\ ScreenFlags /\ ScreenServer /\ ScreenMemory /\ ScreenVerdict
    BY <1>17 DEF ScreenInv
  <2>2. ScreenData'
    BY <1>17, <2>1, ScreenAssumption DEF S!vars, ScreenAssumption, ScreenData
  <2>3. ScreenFlags'
    BY <1>17, <2>1, Zenon DEF S!vars, ScreenFlags
  <2>4. ScreenServer'
    BY <1>17, <2>1 DEF S!vars, ScreenData, ScreenServer
  <2>5. ScreenMemory'
    BY <1>17, <2>1 DEF S!vars, ScreenData, ScreenServer, ScreenMemory
  <2>6. ScreenVerdict'
    BY <1>17, <2>1 DEF S!vars, ScreenData, ScreenServer, ScreenMemory, ScreenVerdict, Undisturbed
  <2>7. QED
    BY <2>2, <2>3, <2>4, <2>5, <2>6 DEF ScreenInv
<1>18. QED
  BY <1>1, <1>2, <1>3, <1>4, <1>5, <1>6, <1>7, <1>8, <1>9, <1>10, <1>11, <1>12, <1>13, <1>14, <1>15, <1>16, <1>17 DEF S!Next, S!Poll

LEMMA ScreenStart == S!Init => ScreenInv
<1> SUFFICES ASSUME S!Init
             PROVE  ScreenInv
  OBVIOUS
<1>1. ScreenData
  BY ScreenAssumption DEF ScreenAssumption, S!Init, ScreenData
<1>2. ScreenFlags
  BY Zenon DEF S!Init, ScreenFlags
<1>3. ScreenServer
  BY DEF S!Init, ScreenServer
<1>4. ScreenMemory
  BY DEF S!Init, ScreenMemory
<1>5. ScreenVerdict
  BY DEF S!Init, ScreenVerdict, Undisturbed
<1>6. QED
  BY <1>1, <1>2, <1>3, <1>4, <1>5 DEF ScreenInv

-----------------------------------------------------------------------------
(* The two side by side. *)

\* A behaviour of the handlers and the screen is one of the handlers, which rest while the screen moves.
LEMMA HandlersRun == HandlersSpec => Spec
<1>1. HandlersInit => Init
  BY DEF HandlersInit
<1>2. [HandlersNext]_<<part, vars, sVars>> => [Next]_vars
  BY DEF HandlersNext
<1>3. QED
  BY <1>1, <1>2, PTL DEF HandlersSpec, Spec

\* What the screen calls refundable has not been settled, as far as nothing fails, is delayed or
\* slower than a poll, and after a poll that saw the settlement it never offers a refund.
THEOREM RefundOffersAreReal == HandlersSpec => []RefundsAreReal
<1>1. HandlersInit => ScreenInv
  BY ScreenStart DEF HandlersInit
<1>2. ScreenInv /\ [HandlersNext]_<<part, vars, sVars>> => ScreenInv'
  <2>1. [HandlersNext]_<<part, vars, sVars>> => [S!Next]_(S!vars)
    BY DEF HandlersNext, sVars, S!vars
  <2>2. QED
    BY <2>1, ScreenStep
<1>3. ScreenInv => RefundsAreReal
  BY DEF ScreenInv, ScreenData, ScreenFlags, S!TypeOK, ScreenMemory, ScreenVerdict, Undisturbed, RefundsAreReal, S!RefundsAreReal, S!SettledStaysGood
<1>4. QED
  BY <1>1, <1>2, <1>3, PTL DEF HandlersSpec

\* The tables do not run ahead of the chain, and the promise is kept, whatever the screen does.
THEOREM HandlersKeepPromise == HandlersSpec => []TablesFollowChain /\ KeepsPromise
BY HandlersRun, TablesNeverRunAhead, OfframpKeepsPromise, PTL
=============================================================================
