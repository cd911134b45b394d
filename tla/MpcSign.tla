------------------------------ MODULE MpcSign -------------------------------
(***************************************************************************)
(* POST /api/mpc/sign: which transactions the server signs for a session   *)
(* (web/lib/tx-policy.ts) and how much of them in a day                    *)
(* (web/lib/spend-limits.ts).                                              *)
(***************************************************************************)
EXTENDS TokenSums

CONSTANTS
    Slot,        \* invocations that may be under way
    Amounts,     \* amounts a transaction may name
    DailyCap,
    MaxEvents,   \* bound: rows of signing_events
    MaxFaults    \* bound: rows that are not written, signers that fail, invocations killed

ASSUME SignAssumption ==
    /\ Amounts \subseteq Nat /\ DailyCap \in Nat /\ MaxEvents \in Nat /\ MaxFaults \in Nat
    /\ IsFiniteSet(Slot) /\ Slot # {}

VARIABLES
    events,     \* signing_events
    aged,       \* rows older than WINDOW_MS
    call,       \* slot -> the invocation it runs
    together,   \* history: two invocations have been under way at once
    unwritten   \* how much of MaxFaults has happened

vars == <<events, aged, call, together, unwritten>>

Event == 1 .. MaxEvents
NoEvent == [outcome |-> "none", usdcOut |-> 0, moves |-> 0]
Idle == [at |-> "idle", usdcOut |-> 0, moves |-> 0]

-----------------------------------------------------------------------------
(* assertSignable.  A transaction is what it calls, who it names and how much. *)

Own == {"usdc", "escrow", "staking"}
Transactions ==
    [chain : {"own", "other"}, value : {0, 1}, gas : {"fits", "too much"}, to : Own \cup {"unknown", "none"},
     method : {"transfer", "approve", "lockForOfframp", "stake", "unstake", "other"},
     named : Own \cup {"unknown"}, amount : Amounts]

AnySpender(tx) ==
    \/ tx.to = "usdc" /\ tx.method \in {"transfer", "approve"}
    \/ tx.to = "escrow" /\ tx.method = "lockForOfframp" /\ tx.named = "usdc"
    \/ tx.to = "staking" /\ tx.method \in {"stake", "unstake"}

\* vetErc20, vetEscrow, vetStaking
Vetted(tx) ==
    \/ tx.to = "usdc" /\ tx.method = "transfer"
    \/ tx.to = "usdc" /\ tx.method = "approve" /\ tx.named \in {"escrow", "staking"}
    \/ tx.to = "escrow" /\ tx.method = "lockForOfframp" /\ tx.named = "usdc"
    \/ tx.to = "staking" /\ tx.method \in {"stake", "unstake"}

Signable(tx) ==
    /\ tx.chain = "own" /\ tx.value = 0 /\ tx.gas = "fits"
    /\ tx.to \in Own
    /\ Vetted(tx)

UsdcOut(tx) == IF tx.method \in {"transfer", "lockForOfframp", "stake"} THEN tx.amount ELSE 0

\* What a signature can move out of the wallet, by the contracts: an allowance given to a
\* stranger is money gone, one of the contracts takes only what a signed call of its names.
Moves(tx) ==
    IF tx.method = "approve" /\ tx.named \notin {"escrow", "staking"} THEN tx.amount ELSE UsdcOut(tx)

-----------------------------------------------------------------------------
TypeOK ==
    /\ events \in [Event -> [outcome : {"none", "signed", "refused", "failed"}, usdcOut : Amounts \cup {0},
                             moves : Amounts \cup {0}]]
    /\ aged \in 0 .. MaxEvents
    /\ call \in [Slot -> [at : {"idle", "check", "sign", "signed", "refused", "failed"},
                          usdcOut : Amounts \cup {0}, moves : Amounts \cup {0}]]
    /\ together \in BOOLEAN
    /\ unwritten \in 0 .. MaxFaults

Init ==
    /\ events = [e \in Event |-> NoEvent]
    /\ aged = 0
    /\ call = [s \in Slot |-> Idle]
    /\ together = FALSE
    /\ unwritten = 0

At(s, at) == call[s].at = at
Return(s) == call' = [call EXCEPT ![s] = Idle]
Goto(s, at) == call' = [call EXCEPT ![s].at = at]
Fault == unwritten < MaxFaults /\ unwritten' = unwritten + 1

Written == {e \in Event : events[e].outcome # "none"}
InWindow == {e \in Written : e > aged}

\* The amounts of the rows, by what the ledger says and by what the signatures can move.
Signed == [e \in Event |-> IF events[e].outcome = "signed" THEN events[e].usdcOut ELSE 0]
Moved == [e \in Event |-> events[e].moves]
spentInWindow == Total(Signed, InWindow)
CanMove == Total(Moved, InWindow)

\* The transaction is read before the cap is; what may not be signed is refused and recorded.
Intent(tx) ==
    IF Signable(tx) THEN [at |-> "check", usdcOut |-> UsdcOut(tx), moves |-> Moves(tx)]
    ELSE [Idle EXCEPT !.at = "refused"]
Intents == {Intent(tx) : tx \in Transactions}

StartSign(s, intent) ==
    /\ At(s, "idle")
    /\ call' = [call EXCEPT ![s] = intent]
    /\ together' = (together \/ \E t \in Slot : ~At(t, "idle"))
    /\ UNCHANGED <<events, aged, unwritten>>

BeforeThisOne(usdcOut) == usdcOut = 0 \/ spentInWindow <= DailyCap
WithinCap(usdcOut) == usdcOut = 0 \/ spentInWindow + usdcOut <= DailyCap

\* The cap fails closed: nothing is signed when the ledger cannot be read.
CheckCap(s) ==
    /\ At(s, "check")
    /\ \/ Goto(s, IF WithinCap(call[s].usdcOut) THEN "sign" ELSE "refused") /\ UNCHANGED unwritten
       \/ Fault /\ Goto(s, "failed")
    /\ UNCHANGED <<events, aged, together>>

\* The custodian is asked twice at most; a signature that does not come back is not used.
Sign(s) ==
    /\ At(s, "sign")
    /\ \/ Goto(s, "signed") /\ UNCHANGED unwritten
       \/ Fault /\ Goto(s, "failed")
    /\ UNCHANGED <<events, aged, together>>

\* recordSigningEvent never throws: a signature whose row was not written is handed out too.
Record(s) ==
    LET e == Cardinality(Written) + 1
        row == [outcome |-> call[s].at, usdcOut |-> call[s].usdcOut,
                moves |-> IF At(s, "signed") THEN call[s].moves ELSE 0]
    IN
    /\ call[s].at \in {"signed", "refused", "failed"}
    /\ \/ e \in Event /\ events' = [events EXCEPT ![e] = row] /\ UNCHANGED unwritten
       \/ Fault /\ UNCHANGED events
    /\ Return(s)
    /\ UNCHANGED <<aged, together>>

\* A day has passed since the oldest row of the window.
RowAges ==
    /\ InWindow # {}
    /\ aged' = aged + 1
    /\ UNCHANGED <<events, call, together, unwritten>>

Crash(s) ==
    /\ ~At(s, "idle")
    /\ Fault
    /\ Return(s)
    /\ UNCHANGED <<events, aged, together>>

Next ==
    \/ \E s \in Slot :
        \/ \E intent \in Intents : StartSign(s, intent)
        \/ CheckCap(s) \/ Sign(s) \/ Record(s) \/ Crash(s)
    \/ RowAges

Spec == Init /\ [][Next]_vars

-----------------------------------------------------------------------------
(* Properties *)

Overshoot == IF together THEN (Cardinality(Slot) - 1) * DailyCap ELSE 0

\* What the signatures on record can move in a day stays under the cap when requests come one
\* at a time, and passes it by no more than a cap for every further request under way.
CapHolds == CanMove <= DailyCap + Overshoot
=============================================================================
