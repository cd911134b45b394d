-------------------------- MODULE StakingConstants --------------------------
(***************************************************************************)
(* The parameters of SakuStaking and what its theorems assume of them.     *)
(***************************************************************************)
EXTENDS TokenSums

CONSTANTS
    Staker,        \* the accounts that stake
    AccPrecision,  \* ACC_PRECISION
    MaxStake,      \* bound: tokens each account has to stake
    MaxFunding,    \* bound: reward tokens the owner ever funds
    LastBlock,     \* bound: the last block timestamp
    MaxCalls       \* bound: calls of stake and unstake

ASSUME StakingAssumption ==
    /\ IsFiniteSet(Staker)
    /\ AccPrecision \in Nat \ {0}
    /\ MaxStake \in Nat
    /\ MaxFunding \in Nat
    /\ LastBlock \in Nat
    /\ MaxCalls \in Nat
=============================================================================
