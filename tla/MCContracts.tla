----------------------------- MODULE MCContracts -----------------------------
(***************************************************************************)
(* The two contracts, side by side: part says which of them a behaviour    *)
(* calls, the other rests.  Accounts, tokens and stakers are symmetric;    *)
(* the staking accumulator has few digits, so that its truncation is       *)
(* always in play.                                                         *)
(***************************************************************************)
EXTENDS SakuOfframpEscrow, StakingConstants, TLC

CONSTANTS u1, u2, u3

Stakers == {u1, u2, u3}
Symmetry == Permutations(Address) \cup Permutations(Token) \cup Permutations(Stakers)

VARIABLES
    part,
    block, stakes, totalStaked, rewardReserve, rewardRate, rewardsEndAt, accRewardPerShare, lastRewardTime,
    minStakeAmount, pool, funded, rounded

Staking == INSTANCE SakuStaking WITH now <- block, held <- pool

stakingVars == <<block, stakes, totalStaked, rewardReserve, rewardRate, rewardsEndAt, accRewardPerShare,
                 lastRewardTime, minStakeAmount, pool, funded, rounded>>
contractVars == <<part, escrowVars, stakingVars>>

ContractsInit ==
    /\ Init /\ Staking!Init
    /\ \/ part = "escrow" /\ minStakeAmount = 0
       \/ part = "staking" /\ settler = owner

ContractsNext ==
    \/ part = "escrow" /\ Next /\ UNCHANGED <<part, stakingVars>>
    \/ part = "staking" /\ Staking!Next /\ UNCHANGED <<part, escrowVars>>

ContractsSpec == ContractsInit /\ [][ContractsNext]_contractVars

\* The staking books: well typed, adding up, funded, and backed up to the dust of roundings.
BooksBalance == Staking!TypeOK /\ Staking!StakesAddUp /\ Staking!StreamIsFunded /\ Staking!BackedUpToDust

\* What a claim pays is what pendingRewards showed a moment before.
ViewAgrees == Staking!ViewAgrees

\* No call changes what a staker who did not call has earned by then.
OthersKeepTheirRewards == Staking!OthersKeepTheirRewards
=============================================================================
