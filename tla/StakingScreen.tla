---------------------------- MODULE StakingScreen ----------------------------
(***************************************************************************)
(* The Earn screen and the history it leaves: web/app/staking/page.tsx and *)
(* hooks/useStaking.ts sign a stake, an unstake or a claim, wait for it    *)
(* and post its hash; api/staking/record files what the receipt says, and  *)
(* api/transactions reads it back as money in or out.  The contract is     *)
(* module SakuStaking; here it has this user's stake and reward only.  The *)
(* approval of a stake is module WarmApproval.                             *)
(***************************************************************************)
EXTENDS Integers

CONSTANTS
    Amounts,      \* amounts that are typed
    MinStake,
    Wealth,       \* USDC in the wallet to begin with
    MaxEarned,    \* bound: a reward that has not been taken
    MaxTxs,       \* bound: transactions signed
    MaxAway,      \* bound: claims on another device
    MaxGlitches   \* bound: signatures, waits, posts and reads that fail

VARIABLES
    stake,    \* the contract's: what is staked, what is earned
    purse,    \* USDC in the wallet
    txs,      \* the transactions this screen signed
    rows,     \* transactions: what the history has of each
    info,     \* the stake as the screen last read it
    held,     \* the balance as the screen last read it
    entry,    \* the form, and what the hook is doing
    claimed,  \* what the screen says a claim paid
    posts,    \* recordings under way, each with a refresh after it
    harvests, \* history: times the reward was taken
    away, glitches

vars == <<stake, purse, txs, rows, info, held, entry, claimed, posts, harvests, away, glitches>>
chain == <<stake, purse, txs, harvests>>
books == <<rows, posts>>

Tx == 1 .. MaxTxs
Kinds == {"stake", "unstake", "claim"}
Most == Wealth + (MaxTxs + MaxAway) * MaxEarned

\* nth is how often the reward had been taken before.
NoTx == [at |-> "none", does |-> "stake", amount |-> 0, reward |-> 0, nth |-> 0]
NoRow == [type |-> "none", from |-> "none", to |-> "none", amount |-> 0, harvested |-> 0]
\* counted is the reward the screen had when "Claim" was pressed, read of the harvests until then.
Entry == [tab |-> "stake", amount |-> 0, action |-> "idle", tx |-> 0, counted |-> 0, seenAt |-> 0]
NoClaim == [tx |-> 0, says |-> 0, seenAt |-> 0]

TypeOK ==
    /\ stake \in [staked : 0 .. Most, earned : 0 .. MaxEarned]
    /\ purse \in 0 .. Most
    /\ txs \in [Tx -> [at : {"none", "sent", "mined", "reverted"}, does : Kinds,
                       amount : Amounts \cup {0}, reward : 0 .. MaxEarned, nth : 0 .. MaxTxs + MaxAway]]
    /\ rows \in [Tx -> [type : {"none", "stake", "unstake", "stake_reward"}, from : {"none", "me", "pool"},
                        to : {"none", "me", "pool"}, amount : 0 .. Most, harvested : 0 .. MaxEarned]]
    /\ info \in [staked : 0 .. Most, earned : 0 .. MaxEarned, harvests : 0 .. MaxTxs + MaxAway]
    /\ held \in 0 .. Most
    /\ entry \in [tab : {"stake", "unstake"}, amount : Amounts \cup {0}, action : {"idle"} \cup Kinds,
                  tx : {0} \cup Tx, counted : 0 .. MaxEarned, seenAt : 0 .. MaxTxs + MaxAway]
    /\ claimed \in [tx : {0} \cup Tx, says : 0 .. MaxEarned, seenAt : 0 .. MaxTxs + MaxAway]
    /\ posts \subseteq Tx
    /\ harvests \in 0 .. MaxTxs + MaxAway
    /\ away \in 0 .. MaxAway /\ glitches \in 0 .. MaxGlitches

Init ==
    /\ stake = [staked |-> 0, earned |-> 0] /\ purse = Wealth
    /\ txs = [t \in Tx |-> NoTx] /\ rows = [t \in Tx |-> NoRow]
    /\ info = [staked |-> 0, earned |-> 0, harvests |-> 0] /\ held = Wealth
    /\ entry = Entry /\ claimed = NoClaim
    /\ posts = {} /\ harvests = 0 /\ away = 0 /\ glitches = 0

Glitch == glitches < MaxGlitches /\ glitches' = glitches + 1
Read == [staked |-> stake.staked, earned |-> stake.earned, harvests |-> harvests]

-----------------------------------------------------------------------------
(* The pool, and the owner's other device *)

Accrue ==
    /\ stake.staked > 0 /\ stake.earned < MaxEarned
    /\ stake' = [stake EXCEPT !.earned = @ + 1]
    /\ UNCHANGED <<purse, txs, harvests, books, info, held, entry, claimed, away, glitches>>

ClaimElsewhere ==
    /\ away < MaxAway /\ stake.earned > 0
    /\ away' = away + 1
    /\ purse' = purse + stake.earned /\ stake' = [stake EXCEPT !.earned = 0]
    /\ harvests' = harvests + 1
    /\ UNCHANGED <<txs, books, info, held, entry, claimed, glitches>>

\* Each harvests the reward on its way, and reverts as a whole.
Reverts(does, amount) ==
    \/ does = "stake" /\ (amount > purse \/ stake.staked + amount < MinStake)
    \/ does # "stake" /\ stake.staked = 0
    \/ does = "unstake" /\ amount > stake.staked

MineStaking(t) ==
    LET does == txs[t].does  amount == txs[t].amount  reward == stake.earned
        out == CASE does = "stake" -> amount [] does = "unstake" -> -amount [] OTHER -> 0
    IN
    /\ txs[t].at = "sent"
    /\ IF Reverts(does, amount)
       THEN txs' = [txs EXCEPT ![t].at = "reverted"] /\ UNCHANGED <<stake, purse, harvests>>
       ELSE /\ txs' = [txs EXCEPT ![t].at = "mined", ![t].reward = reward, ![t].nth = harvests]
            /\ stake' = [staked |-> stake.staked + out, earned |-> 0]
            /\ purse' = purse - out + reward
            /\ harvests' = harvests + (IF reward > 0 THEN 1 ELSE 0)
    /\ UNCHANGED <<books, info, held, entry, claimed, away, glitches>>

-----------------------------------------------------------------------------
(* The form *)

Free == entry.action = "idle"
Available == IF entry.tab = "stake" THEN held ELSE info.staked

SwitchTab ==
    /\ Free
    /\ entry' = [entry EXCEPT !.tab = IF @ = "stake" THEN "unstake" ELSE "stake", !.amount = 0]
    /\ UNCHANGED <<chain, books, info, held, claimed, away, glitches>>

TypeAmount(a) ==
    /\ Free /\ a # entry.amount
    /\ entry' = [entry EXCEPT !.amount = a]
    /\ UNCHANGED <<chain, books, info, held, claimed, away, glitches>>

PressStake ==
    /\ Free
    /\ entry.amount > 0 /\ entry.amount <= Available
    /\ entry.tab = "stake" => entry.amount >= MinStake
    /\ entry' = [entry EXCEPT !.action = entry.tab]
    /\ UNCHANGED <<chain, books, info, held, claimed, away, glitches>>

\* The amount is read before the claim, "because afterwards the contract reports zero".
PressClaim ==
    /\ Free /\ info.earned > 0
    /\ entry' = [entry EXCEPT !.action = "claim", !.counted = info.earned, !.seenAt = info.harvests]
    /\ UNCHANGED <<chain, books, info, held, claimed, away, glitches>>

-----------------------------------------------------------------------------
(* stake, and run for the other two *)

Fresh(t) == \A u \in Tx : txs[u].at = "none" <=> u >= t
Rest == [entry EXCEPT !.action = "idle", !.tx = 0, !.counted = 0, !.seenAt = 0]

\* stake reads the balance again; the other two ask nothing before they are signed.
Sign ==
    /\ ~Free /\ entry.tx = 0
    /\ \/ /\ entry.action = "stake" => purse >= entry.amount
          /\ \E t \in Tx :
                /\ Fresh(t)
                /\ txs' = [txs EXCEPT ![t] =
                             [at |-> "sent", does |-> entry.action, reward |-> 0, nth |-> 0,
                              amount |-> IF entry.action = "claim" THEN 0 ELSE entry.amount]]
                /\ entry' = [entry EXCEPT !.tx = t]
          /\ UNCHANGED glitches
       \/ /\ entry.action = "stake" /\ purse < entry.amount
          /\ entry' = Rest /\ UNCHANGED <<txs, glitches>>
       \/ Glitch /\ entry' = Rest /\ UNCHANGED txs
    /\ UNCHANGED <<stake, purse, harvests, books, info, held, claimed, away>>

\* Whatever came of it.
SaysAnyway(mined) == [tx |-> entry.tx, says |-> entry.counted, seenAt |-> entry.seenAt]
\* "Only on success."
Says(mined) ==
    IF mined /\ entry.action = "claim"
    THEN [tx |-> entry.tx, says |-> entry.counted, seenAt |-> entry.seenAt]
    ELSE claimed

\* The hash is posted after the wait, which may fail for a transaction that is mined.
WaitEnds ==
    /\ entry.tx # 0
    /\ \/ /\ txs[entry.tx].at = "mined"
          /\ claimed' = Says(TRUE) /\ posts' = posts \cup {entry.tx} /\ UNCHANGED glitches
       \/ /\ txs[entry.tx].at = "reverted"
          /\ claimed' = Says(FALSE) /\ UNCHANGED <<posts, glitches>>
       \/ Glitch /\ claimed' = Says(FALSE) /\ UNCHANGED posts
    /\ entry' = Rest
    /\ UNCHANGED <<chain, rows, info, held, away>>

\* useTokenBalances, when the hook comes to rest.
RefreshBalance ==
    /\ Free /\ held # purse
    /\ held' = purse
    /\ UNCHANGED <<chain, books, info, entry, claimed, away, glitches>>

\* The screen is opened again.
ReloadScreen ==
    /\ Free /\ posts = {}
    /\ info' = Read /\ held' = purse
    /\ entry' = Entry /\ claimed' = NoClaim
    /\ UNCHANGED <<chain, books, away, glitches>>

-----------------------------------------------------------------------------
(* POST /api/staking/record *)

RewardFirst(tx) ==
    IF tx.reward > 0
    THEN [type |-> "stake_reward", from |-> "pool", to |-> "me", amount |-> tx.reward, harvested |-> 0]
    ELSE [type |-> tx.does, from |-> "me", to |-> "pool", amount |-> tx.amount, harvested |-> 0]

\* "Principal first": one row per hash, and a reward that rode along goes with it. A claim that
\* paid nothing has no event, and is refused.
PrincipalFirst(tx) ==
    CASE tx.does = "stake" ->
            [type |-> "stake", from |-> "me", to |-> "pool", amount |-> tx.amount, harvested |-> tx.reward]
      [] tx.does = "unstake" ->
            [type |-> "unstake", from |-> "pool", to |-> "me", amount |-> tx.amount, harvested |-> tx.reward]
      [] tx.does = "claim" /\ tx.reward > 0 ->
            [type |-> "stake_reward", from |-> "pool", to |-> "me", amount |-> tx.reward, harvested |-> 0]
      [] OTHER -> NoRow

\* The screen is read again once the post is answered, however it was.
RecordStaking(t) ==
    /\ t \in posts
    /\ \/ rows' = [rows EXCEPT ![t] = PrincipalFirst(txs[t])] /\ UNCHANGED glitches
       \/ Glitch /\ UNCHANGED rows
    /\ posts' = posts \ {t}
    /\ info' = Read
    /\ UNCHANGED <<chain, held, entry, claimed, away>>

Next ==
    \/ Accrue \/ ClaimElsewhere \/ \E t \in Tx : MineStaking(t) \/ RecordStaking(t)
    \/ SwitchTab \/ \E a \in Amounts : TypeAmount(a)
    \/ PressStake \/ PressClaim \/ Sign \/ WaitEnds \/ RefreshBalance \/ ReloadScreen

Spec == Init /\ [][Next]_vars

-----------------------------------------------------------------------------
(* Properties *)

OwnersPay(r) == IF r.type # "topup" THEN "out" ELSE "in"
\* GET /api/transactions: "the addresses are the truth".
directionFor(r) == IF r.to = "me" THEN "in" ELSE IF r.from = "me" THEN "out" ELSE OwnersPay(r)

\* What a row tells its owner: how much more is in the wallet.
Tells(r) == (IF directionFor(r) = "in" THEN r.amount ELSE -r.amount) + r.harvested
\* What the transaction did to it.
Did(tx) == tx.reward + (CASE tx.does = "stake" -> -tx.amount [] OTHER -> tx.amount)

\* staking/record/route.ts:107: a row of a stake, an unstake or a claim tells what moved, principal
\* and harvested reward, and only of what was mined.
HistoryIsTrue == \A t \in Tx : rows[t] # NoRow => txs[t].at = "mined" /\ Tells(rows[t]) = Did(txs[t])

\* staking/page.tsx:157: "a rejected signature or a failed transaction must not report a payout that
\* never happened"; and what it says was paid, when nothing else took the reward since it was read.
ClaimWasMade == claimed.tx # 0 =>
    LET tx == txs[claimed.tx] IN
    /\ tx.does = "claim" /\ tx.at = "mined"
    /\ tx.nth = claimed.seenAt => claimed.says <= tx.reward

\* What is called claimed was paid. Not so: a stake takes the reward on its way, and until its
\* record is answered the screen still offers that reward.
ClaimedIsPaid == claimed.tx # 0 => claimed.says <= txs[claimed.tx].reward
=============================================================================
