---------------------------- MODULE WarmApproval ----------------------------
(***************************************************************************)
(* The allowance a stake or an off-ramp needs, granted ahead of time while *)
(* the form is filled in.  web/hooks/useWarmApproval.ts, and the payment   *)
(* that joins it: stake in useStaking.ts, send in useOfframp.ts up to the  *)
(* call of the contract, which share every step.                           *)
(***************************************************************************)
EXTENDS Naturals

CONSTANTS
    MaxMounts,    \* bound: times a screen starts a warm approval
    MaxPresses,   \* bound: payments
    MaxGlitches   \* bound: calls and transactions that fail

VARIABLES
    balance,    \* the wallet's USDC: none, less than the payment, enough
    allowance,  \* whether the contract may pull it (MAX_APPROVAL)
    run,        \* warm approval -> how far it is
    mounts,     \* warm approvals started
    inFlight,   \* the module's map at this owner and spender: a warm approval, or 0
    pay,        \* the payment under way
    presses,
    approvals,  \* history: approvals signed
    glitches

vars == <<balance, allowance, run, mounts, inFlight, pay, presses, approvals, glitches>>

Run == 1 .. MaxMounts
Resting == [at |-> "idle", saw |-> "none", joined |-> 0, warmed |-> FALSE]

TypeOK ==
    /\ balance \in {"none", "some", "enough"}
    /\ allowance \in BOOLEAN
    /\ run \in [Run -> {"off", "read", "sign", "mine", "over"}]
    /\ mounts \in 0 .. MaxMounts
    /\ inFlight \in 0 .. MaxMounts
    /\ pay \in [at : {"idle", "wait", "check", "allowance", "approve", "approving", "call"},
                saw : {"none", "some", "enough"}, joined : 0 .. MaxMounts, warmed : BOOLEAN]
    /\ presses \in 0 .. MaxPresses
    /\ approvals \in Nat
    /\ glitches \in 0 .. MaxGlitches

Init ==
    /\ balance \in {"none", "some", "enough"}
    /\ allowance = FALSE
    /\ run = [r \in Run |-> "off"]
    /\ mounts = 0
    /\ inFlight = 0
    /\ pay = Resting
    /\ presses = 0
    /\ approvals = 0
    /\ glitches = 0

Glitch == glitches < MaxGlitches /\ glitches' = glitches + 1
wallet == <<balance, allowance>>
warmVars == <<run, mounts, inFlight>>
payVars == <<pay, presses>>

-----------------------------------------------------------------------------
(* useWarmApproval *)

Unannounced(r) == inFlight
Announced(r) == r

\* A screen opens with the wallet connected, or its last attempt failed and the effect runs
\* again: the run takes the map's one place.
Mount ==
    /\ mounts < MaxMounts
    /\ mounts' = mounts + 1
    /\ run' = [run EXCEPT ![mounts'] = "read"]
    /\ inFlight' = Announced(mounts')
    /\ UNCHANGED <<wallet, payVars, approvals, glitches>>

\* However it ends, the run deletes the map's entry, whoever put it there.
Over(r) ==
    /\ run' = [run EXCEPT ![r] = "over"]
    /\ inFlight' = 0

ReadBoth(r) ==
    /\ run[r] = "read"
    /\ IF balance = "none" \/ allowance THEN Over(r)
       ELSE run' = [run EXCEPT ![r] = "sign"] /\ UNCHANGED inFlight
    /\ UNCHANGED <<wallet, mounts, payVars, approvals, glitches>>

SignWarm(r) ==
    /\ run[r] = "sign"
    /\ run' = [run EXCEPT ![r] = "mine"]
    /\ approvals' = approvals + 1
    /\ UNCHANGED <<wallet, mounts, inFlight, payVars, glitches>>

MineWarm(r) ==
    /\ run[r] = "mine"
    /\ allowance' = TRUE
    /\ Over(r)
    /\ UNCHANGED <<balance, mounts, payVars, approvals, glitches>>

FailWarm(r) ==
    /\ run[r] \in {"read", "sign", "mine"}
    /\ Glitch
    /\ Over(r)
    /\ UNCHANGED <<wallet, mounts, payVars, approvals>>

-----------------------------------------------------------------------------
(* The payment.  There is one at a time: its button is busy meanwhile. *)

At(at) == pay.at = at
Return == pay' = Resting
Goto(at) == pay' = [pay EXCEPT !.at = at]

NeverJoins == 0
AwaitWarmApproval == inFlight

\* The balance is read while the warm approval is waited for.
Press ==
    /\ At("idle") /\ mounts > 0
    /\ presses < MaxPresses
    /\ presses' = presses + 1
    /\ pay' = [at |-> IF AwaitWarmApproval = 0 THEN "check" ELSE "wait", saw |-> balance,
               joined |-> AwaitWarmApproval, warmed |-> AwaitWarmApproval # 0]
    /\ UNCHANGED <<wallet, warmVars, approvals, glitches>>

JoinEnds ==
    /\ At("wait")
    /\ run[pay.joined] = "over"
    /\ Goto("check")
    /\ UNCHANGED <<wallet, warmVars, presses, approvals, glitches>>

\* WARM_WAIT_TIMEOUT_MS: the call the warm approval makes may never come back.
GiveUpWaiting ==
    /\ At("wait")
    /\ Goto("check")
    /\ UNCHANGED <<wallet, warmVars, presses, approvals, glitches>>

CheckBalance ==
    /\ At("check")
    /\ IF pay.saw # "enough" THEN Return
       ELSE Goto(IF pay.warmed THEN "call" ELSE "allowance")
    /\ UNCHANGED <<wallet, warmVars, presses, approvals, glitches>>

ReadAllowance ==
    /\ At("allowance")
    /\ Goto(IF allowance THEN "call" ELSE "approve")
    /\ UNCHANGED <<wallet, warmVars, presses, approvals, glitches>>

SignApproval ==
    /\ At("approve")
    /\ Goto("approving")
    /\ approvals' = approvals + 1
    /\ UNCHANGED <<wallet, warmVars, presses, glitches>>

MineApproval ==
    /\ At("approving")
    /\ allowance' = TRUE
    /\ Goto("call")
    /\ UNCHANGED <<balance, warmVars, presses, approvals, glitches>>

FailPayment ==
    /\ ~At("idle")
    /\ Glitch
    /\ Return
    /\ UNCHANGED <<wallet, warmVars, presses, approvals>>

\* stake or lockForOfframp, which reverts without the allowance.
Call ==
    /\ At("call")
    /\ balance' = IF allowance /\ balance = "enough" THEN "some" ELSE balance
    /\ Return
    /\ UNCHANGED <<allowance, warmVars, presses, approvals, glitches>>

\* Somebody pays into the wallet.
Receive ==
    /\ balance # "enough"
    /\ balance' = "enough"
    /\ UNCHANGED <<allowance, warmVars, payVars, approvals, glitches>>

Next ==
    \/ Mount
    \/ \E r \in Run : ReadBoth(r) \/ SignWarm(r) \/ MineWarm(r) \/ FailWarm(r)
    \/ Press \/ JoinEnds \/ GiveUpWaiting \/ CheckBalance
    \/ ReadAllowance \/ SignApproval \/ MineApproval \/ FailPayment \/ Call
    \/ Receive

Spec == Init /\ [][Next]_vars

-----------------------------------------------------------------------------
(* Properties *)

\* "A transfer started while the warm approval is still mining should wait for it rather than
\* sign a second, identical approval": one screen and nothing failing, one signature.
OneSignature == mounts <= 1 /\ glitches = 0 => approvals <= 1

\* "If it fails or has not finished, the normal in-flow approval still runs": the payment is
\* not sent without the allowance it needs.
FallbackRuns == At("call") => allowance
=============================================================================
