-------------------------- MODULE WalletProvision ---------------------------
(***************************************************************************)
(* POST /api/mpc/provision and the gas that follows it: one account, its   *)
(* row in wallets, its wallet at the custodian, the settler's drips.       *)
(* web/lib/privy.ts, web/lib/gas.ts.                                       *)
(***************************************************************************)
EXTENDS Naturals, FiniteSets

CONSTANTS
    Slot,                   \* invocations that may be under way
    MAX_DRIPS_PER_WALLET,
    MaxDrips,               \* bound: drips ever sent
    MaxFaults               \* bound: calls that fail, invocations killed

VARIABLES
    wallet,    \* the row: no address, an earlier custodian's, ours under the phone hash of before or
               \* under the user id, or another account's
    drips,     \* gas_drip_count
    recent,    \* whether last_gas_drip_at is less than an hour ago
    created,   \* whether the custodian has a wallet for this user id
    short,     \* whether the wallet is short of gas
    rich,      \* whether the settler is above its reserve
    job,       \* slot -> the invocation it runs
    dripped,   \* history: drips sent to the wallet
    hour,      \* history: drips sent this hour
    excused,   \* history: two invocations have been under way at once
    lost,      \* history: reads of the row and writes of the count that failed without anyone looking
    faults

vars == <<wallet, drips, recent, created, short, rich, job, dripped, hour, excused, lost, faults>>

Idle == [at |-> "idle", offered |-> "none", count |-> 0]

TypeOK ==
    /\ wallet \in {"none", "earlier", "older", "own", "other"}
    /\ drips \in 0 .. MaxDrips + MAX_DRIPS_PER_WALLET
    /\ recent \in BOOLEAN /\ created \in BOOLEAN /\ short \in BOOLEAN /\ rich \in BOOLEAN
    /\ job \in [Slot -> [at : {"idle", "create", "holder", "bind", "gas", "row", "reserve", "count", "drip"},
                         offered : {"none", "own", "other"}, count : 0 .. MAX_DRIPS_PER_WALLET]]
    /\ dripped \in 0 .. MaxDrips /\ hour \in 0 .. MaxDrips
    /\ excused \in BOOLEAN
    /\ lost \in 0 .. MaxFaults /\ faults \in 0 .. MaxFaults

Init ==
    /\ wallet \in {"none", "earlier", "older"}
    /\ drips \in IF wallet = "none" THEN {0} ELSE 0 .. MAX_DRIPS_PER_WALLET
    /\ recent = FALSE /\ created = FALSE /\ short = TRUE
    /\ rich \in BOOLEAN
    /\ job = [s \in Slot |-> Idle]
    /\ dripped = 0 /\ hour = 0
    /\ excused = FALSE
    /\ lost = 0 /\ faults = 0

At(s, at) == job[s].at = at
Return(s) == job' = [job EXCEPT ![s] = Idle]
Goto(s, at) == job' = [job EXCEPT ![s].at = at]
Fault == faults < MaxFaults /\ faults' = faults + 1
Unnoticed == Fault /\ lost' = lost + 1
rowVars == <<wallet, drips, recent>>
world == <<created, short, rich>>
history == <<dripped, hour>>
troubles == <<lost, faults>>
Bound == wallet \in {"older", "own"}

\* A row that could not be read is a row that is not there: the account is given a wallet again.
StartProvision(s) ==
    /\ At(s, "idle")
    /\ \/ Goto(s, IF Bound THEN "gas" ELSE "create") /\ UNCHANGED troubles
       \/ Bound /\ Unnoticed /\ Goto(s, "create")
    /\ excused' = (excused \/ \E t \in Slot : ~At(t, "idle"))
    /\ UNCHANGED <<rowVars, world, history>>

\* createUserWallet: a wallet of this user id, new or, when the id is taken, adopted. Whatever
\* else the custodian may return is for the next step to refuse.
CreateWallet(s) ==
    /\ At(s, "create")
    /\ \/ created' = TRUE /\ job' = [job EXCEPT ![s].at = "holder", ![s].offered = "own"] /\ UNCHANGED faults
       \/ /\ Fault
          /\ \/ created' \in {created, TRUE} /\ Return(s)
             \/ created' = created /\ job' = [job EXCEPT ![s].at = "holder", ![s].offered = "other"]
    /\ UNCHANGED <<rowVars, short, rich, history, excused, lost>>

Trusting(s) == FALSE
HeldElsewhere(s) == job[s].offered = "other"

CheckHolder(s) ==
    /\ At(s, "holder")
    /\ IF HeldElsewhere(s) THEN Return(s) ELSE Goto(s, "bind")
    /\ UNCHANGED <<rowVars, world, history, excused, troubles>>

\* The upsert starts the drips of the new wallet from nothing, also where the row had it already.
BindWallet(s) ==
    /\ At(s, "bind")
    /\ wallet' = job[s].offered /\ drips' = 0 /\ recent' = FALSE
    /\ short' = (short \/ wallet # job[s].offered)
    /\ job' = [job EXCEPT ![s] = [Idle EXCEPT !.at = "gas"]]
    /\ UNCHANGED <<created, rich, history, excused, troubles>>

-----------------------------------------------------------------------------
(* ensureGasFor, after the answer *)

CheckBalance(s) ==
    /\ At(s, "gas")
    /\ IF short THEN Goto(s, "row") ELSE Return(s)
    /\ UNCHANGED <<rowVars, world, history, excused, troubles>>

OncePerHour == ~recent
MayDrip == drips < MAX_DRIPS_PER_WALLET /\ ~recent

\* A row that could not be read counts no drip and has no hour to wait for.
ReadRow(s) ==
    /\ At(s, "row")
    /\ \/ MayDrip /\ job' = [job EXCEPT ![s].at = "reserve", ![s].count = drips] /\ UNCHANGED troubles
       \/ ~MayDrip /\ Return(s) /\ UNCHANGED troubles
       \/ Unnoticed /\ job' = [job EXCEPT ![s].at = "reserve", ![s].count = 0]
    /\ UNCHANGED <<rowVars, world, history, excused>>

CheckReserve(s) ==
    /\ At(s, "reserve")
    /\ IF rich THEN Goto(s, "count") ELSE Return(s)
    /\ UNCHANGED <<rowVars, world, history, excused, troubles>>

\* The bug the comment in gas.ts warns of: a drip that is not counted before it is sent.
SendUncounted(s) ==
    /\ At(s, "count")
    /\ Goto(s, "drip")
    /\ UNCHANGED <<rowVars, world, history, excused, troubles>>

\* Counted before it is sent; nobody looks whether the write failed.
CountDrip(s) ==
    /\ At(s, "count")
    /\ \/ drips' = job[s].count + 1 /\ recent' = TRUE /\ UNCHANGED troubles
       \/ Unnoticed /\ UNCHANGED <<drips, recent>>
    /\ Goto(s, "drip")
    /\ UNCHANGED <<wallet, world, history, excused>>

SendDrip(s) ==
    /\ At(s, "drip")
    /\ \/ /\ dripped < MaxDrips
          /\ dripped' = dripped + 1 /\ hour' = hour + 1
          /\ short' = FALSE /\ UNCHANGED faults
       \/ Fault /\ UNCHANGED <<history, short>>
    /\ Return(s)
    /\ UNCHANGED <<rowVars, created, rich, excused, lost>>

-----------------------------------------------------------------------------
SpendGas ==
    /\ ~short /\ short' = TRUE
    /\ UNCHANGED <<rowVars, created, rich, job, history, excused, troubles>>

\* An hour passes; invocations do not last one.
HourPasses ==
    /\ recent \/ hour > 0
    /\ \A s \in Slot : At(s, "idle")
    /\ recent' = FALSE /\ hour' = 0
    /\ UNCHANGED <<wallet, drips, world, job, dripped, excused, troubles>>

SettlerBalance ==
    /\ rich' = ~rich
    /\ UNCHANGED <<rowVars, created, short, job, history, excused, troubles>>

Crash(s) ==
    /\ ~At(s, "idle")
    /\ Fault
    /\ Return(s)
    /\ UNCHANGED <<rowVars, world, history, excused, lost>>

Next ==
    \/ \E s \in Slot :
        \/ StartProvision(s) \/ CreateWallet(s) \/ CheckHolder(s) \/ BindWallet(s)
        \/ CheckBalance(s) \/ ReadRow(s) \/ CheckReserve(s) \/ CountDrip(s) \/ SendDrip(s) \/ Crash(s)
    \/ SpendGas \/ HourPasses \/ SettlerBalance

Spec == Init /\ [][Next]_vars

-----------------------------------------------------------------------------
(* Properties *)

\* "A loop of re-logins cannot drain the settler": logins one at a time, whichever of them is
\* killed or whose transaction fails, get no more drips than the row counts, and one an hour. A
\* read or a write of the count that fails unseen forgives what was counted, and one drip's hour.
Forgiven == MAX_DRIPS_PER_WALLET * lost

DripsAreCounted ==
    ~excused => /\ dripped <= drips + Forgiven /\ drips <= MAX_DRIPS_PER_WALLET
                /\ hour <= 1 + lost

\* A wallet that holds money is never bound to a second account, nor exchanged for another: the
\* one under the user id never, the one under the phone hash unless a read of the row failed.
BoundForGood ==
    [][/\ wallet' # "other"
       /\ wallet = "own" => wallet' = "own"
       /\ wallet = "older" => wallet' = "older" \/ (wallet' = "own" /\ lost > 0)]_vars
=============================================================================
