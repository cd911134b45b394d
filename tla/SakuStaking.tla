---------------------------- MODULE SakuStaking ----------------------------
(***************************************************************************)
(* contract/contracts/SakuStaking.sol: stake a token, earn the same token  *)
(* from a funded stream shared by an accumulator of rewards per share.     *)
(*                                                                         *)
(* One action per external function; a revert is a disabled action and     *)
(* nonReentrant makes a call one step.  stakedAt and the events are only   *)
(* shown, and no amount comes near 2^256.                                  *)
(***************************************************************************)
EXTENDS StakingConstants

VARIABLES
    now,                \* block.timestamp
    stakes,             \* account -> StakeInfo
    totalStaked,
    rewardReserve,
    rewardRate,
    rewardsEndAt,
    accRewardPerShare,
    lastRewardTime,
    minStakeAmount,
    held,               \* the contract's token balance
    funded,             \* reward tokens funded so far
    rounded             \* calls that rounded a rewardDebt so far

stakingVars == <<now, stakes, totalStaked, rewardReserve, rewardRate, rewardsEndAt,
                 accRewardPerShare, lastRewardTime, minStakeAmount, held, funded,
                 rounded>>

StakeInfo == [amount : 0 .. MaxStake, rewardDebt : Nat]

TypeOK ==
    /\ now \in Nat
    /\ stakes \in [Staker -> StakeInfo]
    /\ totalStaked \in Nat
    /\ rewardReserve \in Nat
    /\ rewardRate \in Nat
    /\ rewardsEndAt \in Nat
    /\ accRewardPerShare \in Nat
    /\ lastRewardTime \in Nat
    /\ minStakeAmount \in Nat
    /\ held \in Nat
    /\ funded \in 0 .. MaxFunding
    /\ rounded \in 0 .. MaxCalls

\* The constructor.
Init ==
    /\ now = 0
    /\ stakes = [u \in Staker |-> [amount |-> 0, rewardDebt |-> 0]]
    /\ totalStaked = 0
    /\ rewardReserve = 0
    /\ rewardRate = 0
    /\ rewardsEndAt = 0
    /\ accRewardPerShare = 0
    /\ lastRewardTime = now
    /\ minStakeAmount \in 0 .. MaxStake
    /\ held = 0
    /\ funded = 0
    /\ rounded = 0

-----------------------------------------------------------------------------
(* The pool, advanced to now.  A definition that follows a variant of       *)
(* itself rules that bug out: with the variant in its place a property      *)
(* below fails.                                                             *)

Least(a, b) == IF a < b THEN a ELSE b

\* Rewards earned since the pool was last advanced; the stream stops at
\* rewardsEndAt and is capped by the reserve.
StreamEnd == Least(now, rewardsEndAt)
Accrued ==
    IF StreamEnd <= lastRewardTime \/ totalStaked = 0 THEN 0
    ELSE Least((StreamEnd - lastRewardTime) * rewardRate, rewardReserve)

AccAfterUpdate ==
    IF totalStaked = 0 THEN accRewardPerShare
    ELSE accRewardPerShare + (Accrued * AccPrecision) \div totalStaked

AccruedStaysInReserve == rewardReserve
ReserveAfterUpdate == rewardReserve - Accrued

ClockNeverMoves == lastRewardTime
ClockAfterUpdate == now

\* What a stake of this size has earned since the accumulator was 0.
Earned(amount) == (amount * AccAfterUpdate) \div AccPrecision

\* _harvest, right after _updatePool: what it pays, and the debt it leaves.
Harvest(u) ==
    IF stakes[u].amount = 0 \/ Earned(stakes[u].amount) <= stakes[u].rewardDebt
    THEN 0
    ELSE Earned(stakes[u].amount) - stakes[u].rewardDebt
DebtAfterHarvest(u) == stakes[u].rewardDebt + Harvest(u)

\* _updatePool, in a call that does not touch the reserve any further.
UpdatePool ==
    /\ accRewardPerShare' = AccAfterUpdate
    /\ rewardReserve' = ReserveAfterUpdate
    /\ lastRewardTime' = ClockAfterUpdate

PrincipalStillCounted(amount) == totalStaked
TotalWithout(amount) == totalStaked - amount

RateStaysAsItWas(reserve) == rewardRate
RateOver(reserve) ==
    IF now < rewardsEndAt THEN reserve \div (rewardsEndAt - now) ELSE 0

BoundBeforeUpdate == rewardReserve
Withdrawable == ReserveAfterUpdate

-----------------------------------------------------------------------------
(* The core flow. *)

Stake(u, amount) ==
    /\ amount # 0
    /\ stakes[u].amount + amount >= minStakeAmount
    /\ stakes[u].amount + amount <= MaxStake    \* safeTransferFrom succeeds
    /\ held >= Harvest(u)
    /\ rounded < MaxCalls
    /\ UpdatePool
    /\ stakes' = [stakes EXCEPT ![u] = [amount |-> @.amount + amount,
                                        rewardDebt |-> Earned(@.amount + amount)]]
    /\ totalStaked' = totalStaked + amount
    /\ held' = held - Harvest(u) + amount
    /\ rounded' = rounded + 1
    /\ UNCHANGED <<now, rewardRate, rewardsEndAt, minStakeAmount, funded>>

Unstake(u, amount) ==
    /\ amount \in 1 .. stakes[u].amount
    /\ held >= Harvest(u) + amount
    /\ rounded < MaxCalls
    /\ UpdatePool
    /\ stakes' = [stakes EXCEPT ![u] = [amount |-> @.amount - amount,
                                        rewardDebt |-> Earned(@.amount - amount)]]
    /\ totalStaked' = TotalWithout(amount)
    /\ held' = held - Harvest(u) - amount
    /\ rounded' = rounded + 1
    /\ UNCHANGED <<now, rewardRate, rewardsEndAt, minStakeAmount, funded>>

ClaimRewards(u) ==
    /\ stakes[u].amount # 0
    /\ held >= Harvest(u)
    /\ UpdatePool
    /\ stakes' = [stakes EXCEPT ![u].rewardDebt = DebtAfterHarvest(u)]
    /\ held' = held - Harvest(u)
    /\ UNCHANGED <<now, totalStaked, rewardRate, rewardsEndAt, minStakeAmount, funded,
                   rounded>>

Exit(u) ==
    /\ stakes[u].amount # 0
    /\ held >= Harvest(u) + stakes[u].amount
    /\ UpdatePool
    /\ stakes' = [stakes EXCEPT ![u] = [amount |-> 0, rewardDebt |-> 0]]
    /\ totalStaked' = TotalWithout(stakes[u].amount)
    /\ held' = held - Harvest(u) - stakes[u].amount
    /\ UNCHANGED <<now, rewardRate, rewardsEndAt, minStakeAmount, funded, rounded>>

-----------------------------------------------------------------------------
(* The admin functions, onlyOwner. *)

FundRewards(amount, duration) ==
    /\ amount # 0
    /\ duration # 0
    /\ funded + amount <= MaxFunding
    /\ accRewardPerShare' = AccAfterUpdate
    /\ rewardReserve' = ReserveAfterUpdate + amount
    /\ rewardRate' = (ReserveAfterUpdate + amount) \div duration
    /\ rewardsEndAt' = now + duration
    /\ lastRewardTime' = now
    /\ held' = held + amount
    /\ funded' = funded + amount
    /\ UNCHANGED <<now, stakes, totalStaked, minStakeAmount, rounded>>

SetMinStakeAmount(newValue) ==
    /\ minStakeAmount' = newValue
    /\ UNCHANGED <<now, stakes, totalStaked, rewardReserve, rewardRate, rewardsEndAt,
                   accRewardPerShare, lastRewardTime, held, funded, rounded>>

WithdrawUnusedRewards(amount) ==
    /\ amount <= Withdrawable
    /\ held >= amount
    /\ accRewardPerShare' = AccAfterUpdate
    /\ rewardReserve' = ReserveAfterUpdate - amount
    /\ rewardRate' = RateOver(ReserveAfterUpdate - amount)
    /\ lastRewardTime' = ClockAfterUpdate
    /\ held' = held - amount
    /\ UNCHANGED <<now, stakes, totalStaked, rewardsEndAt, minStakeAmount, funded, rounded>>

Tick ==
    /\ now < LastBlock
    /\ now' = now + 1
    /\ UNCHANGED <<stakes, totalStaked, rewardReserve, rewardRate, rewardsEndAt,
                   accRewardPerShare, lastRewardTime, minStakeAmount, held, funded, rounded>>

Next ==
    \/ \E u \in Staker :
         \/ \E amount \in 0 .. MaxStake : Stake(u, amount) \/ Unstake(u, amount)
         \/ ClaimRewards(u)
         \/ Exit(u)
    \/ \E amount \in 0 .. MaxFunding :
         \/ \E duration \in 0 .. LastBlock : FundRewards(amount, duration)
         \/ WithdrawUnusedRewards(amount)
    \/ \E newValue \in 0 .. MaxStake : SetMinStakeAmount(newValue)
    \/ Tick

Spec == Init /\ [][Next]_stakingVars

-----------------------------------------------------------------------------
(* pendingRewards, the view the app shows; it repeats the update's sums.   *)

ViewRunsOn == now
ViewEnd == Least(now, rewardsEndAt)

PendingAccRewardPerShare ==
    IF totalStaked = 0 \/ ViewEnd <= lastRewardTime THEN accRewardPerShare
    ELSE accRewardPerShare
           + (Least((ViewEnd - lastRewardTime) * rewardRate, rewardReserve) * AccPrecision)
               \div totalStaked

PendingRewards(u) ==
    LET owed == (stakes[u].amount * PendingAccRewardPerShare) \div AccPrecision
    IN  IF stakes[u].amount = 0 \/ owed <= stakes[u].rewardDebt THEN 0
        ELSE owed - stakes[u].rewardDebt

AmountOf == [u \in Staker |-> stakes[u].amount]
PendingOf == [u \in Staker |-> PendingRewards(u)]

-----------------------------------------------------------------------------
(* Properties. *)

\* totalStaked, which every accrual divides by, is the sum of the stakes.
StakesAddUp == totalStaked = Total(AmountOf, Staker)

\* The stream never promises more than the reserve can pay up to rewardsEndAt,
\* after any order of fundings, withdrawals and periods without a staker: the
\* cap in _updatePool never bites and currentApyBps quotes a funded rate.
StreamIsFunded ==
    lastRewardTime < rewardsEndAt =>
        rewardRate * (rewardsEndAt - lastRewardTime) <= rewardReserve

\* What a call pays out is what pendingRewards showed a moment before.
ViewAgrees == \A u \in Staker : PendingRewards(u) = Harvest(u)

\* No call, by the owner or by another account, changes what a staker who did
\* not call has earned by then.
RewardsKept ==
    now' = now =>
        \A u \in Staker : stakes'[u] = stakes[u] => PendingRewards(u)' = PendingRewards(u)
OthersKeepTheirRewards == [][RewardsKept]_stakingVars

\* Principal, reserve and earned rewards are backed by tokens the contract holds
\* up to less than one unit for every call that rounded a rewardDebt down.
BackedUpToDust ==
    held + rounded >= totalStaked + ReserveAfterUpdate + Total(PendingOf, Staker)
=============================================================================
