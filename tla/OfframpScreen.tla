---------------------------- MODULE OfframpScreen ---------------------------
(***************************************************************************)
(* What the off-ramp screen says while the server settles: send in         *)
(* web/hooks/useOfframp.ts from the lock on, and requestRefund.  The       *)
(* escrow, the row and the handlers that write it are the ones of module   *)
(* Offramp, cut down to one request and what a poll can see of it.         *)
(***************************************************************************)
EXTENDS Naturals

CONSTANTS
    MaxMisses,   \* bound: polls that fail
    MaxDelays    \* bound: server steps that never happen, or calls that throw

VARIABLES
    escrow,    \* the request on the chain
    row,       \* offramp_requests: its status
    fiat,      \* its fiat_status
    worker,    \* settleInBackground
    expired,   \* the rate lock: running, over, over by more than the sweep's grace
    overtime,  \* whether POLL_TIMEOUT_MS is over
    phase,     \* the hook's phase
    said,      \* the hook's error
    twice,     \* consecutiveRefundable
    seen,      \* settledPendingFiat
    sighted,   \* history: the statuses the polls have returned
    slow,      \* history: a settlement was left unmarked for longer than a poll's interval
    misses, delays

vars == <<escrow, row, fiat, worker, expired, overtime, phase, said, twice, seen, sighted, slow, misses, delays>>
server == <<escrow, row, fiat, worker>>
screen == <<phase, said, twice, seen, sighted, slow>>
clock == <<expired, overtime>>

TypeOK ==
    /\ escrow \in {"none", "Locked", "Settled", "Refunded"}
    /\ row \in {"none", "locked", "settled", "refunded"}
    /\ fiat \in {"not_started", "converting", "completed"}
    /\ worker \in {"none", "settle", "mark", "disburse", "over"}
    /\ expired \in {"running", "over", "grace_over"}
    /\ overtime \in BOOLEAN
    /\ phase \in {"locking", "posting", "settling", "done", "needs-refund", "failed"}
    /\ said \in {"nothing", "error", "returned"}
    /\ twice \in 0 .. 2
    /\ seen \in BOOLEAN
    /\ sighted \subseteq {"locked", "refundable", "settled", "refunded"}
    /\ slow \in BOOLEAN
    /\ misses \in 0 .. MaxMisses /\ delays \in 0 .. MaxDelays

Init ==
    /\ escrow = "none" /\ row = "none" /\ fiat = "not_started" /\ worker = "none"
    /\ expired = "running" /\ overtime = FALSE
    /\ phase = "locking" /\ said = "nothing" /\ twice = 0 /\ seen = FALSE /\ sighted = {} /\ slow = FALSE
    /\ misses = 0 /\ delays = 0

Delay == delays < MaxDelays /\ delays' = delays + 1
Show(p) == phase' = p /\ said' = "nothing"
Fail == phase' = "failed" /\ said' = "error"

-----------------------------------------------------------------------------
(* The lock and its report *)

LockMined ==
    /\ phase = "locking"
    /\ \/ escrow' = "Locked" /\ Show("posting") /\ UNCHANGED delays
       \/ Fail /\ Delay /\ UNCHANGED escrow
    /\ UNCHANGED <<row, fiat, worker, clock, twice, seen, sighted, slow, misses>>

\* POST /api/offramp/lock files the row and settles after its answer, which may be lost.
Report ==
    /\ phase = "posting"
    /\ \/ Show("settling") /\ UNCHANGED delays
       \/ Fail /\ Delay
    /\ row' = "locked" /\ worker' = "settle"
    /\ UNCHANGED <<escrow, fiat, clock, twice, seen, sighted, slow, misses>>

ReportRefused ==
    /\ phase = "posting"
    /\ Fail /\ Delay
    /\ UNCHANGED <<server, clock, twice, seen, sighted, slow, misses>>

-----------------------------------------------------------------------------
(* settleInBackground *)

Settle ==
    /\ worker = "settle"
    /\ escrow = "Locked" /\ expired = "running"
    /\ escrow' = "Settled" /\ worker' = "mark"
    /\ UNCHANGED <<row, fiat, clock, screen, misses, delays>>

MarkSettled ==
    /\ worker = "mark"
    /\ row' = "settled" /\ fiat' = "converting" /\ worker' = "disburse"
    /\ UNCHANGED <<escrow, clock, screen, misses, delays>>

Complete ==
    /\ worker = "disburse"
    /\ fiat' = "completed" /\ worker' = "over"
    /\ UNCHANGED <<escrow, row, clock, screen, misses, delays>>

WorkerDies ==
    /\ worker \in {"settle", "mark", "disburse"}
    /\ Delay
    /\ worker' = "over"
    /\ UNCHANGED <<escrow, row, fiat, clock, screen, misses>>

\* POST /api/offramp/sweep: a refund and its row, or the row put right.
Sweep ==
    /\ row = "locked" /\ expired = "grace_over"
    /\ IF escrow = "Locked" THEN escrow' = "Refunded" /\ row' = "refunded"
       ELSE UNCHANGED escrow /\ row' = IF escrow = "Settled" THEN "settled" ELSE "refunded"
    /\ UNCHANGED <<fiat, worker, clock, screen, misses, delays>>

-----------------------------------------------------------------------------
(* The poll *)

Refundable == row = "locked" /\ expired # "running"
BelievesOnce == 1
Believes == 2

\* Settled and paid out: done.  Settled only: remembered, and the count starts again.
PollSettled ==
    /\ phase = "settling" /\ ~overtime
    /\ row = "settled"
    /\ sighted' = sighted \cup {"settled"}
    /\ IF fiat = "completed" THEN Show("done") /\ UNCHANGED <<twice, seen>>
       ELSE seen' = TRUE /\ twice' = 0 /\ UNCHANGED <<phase, said>>
    /\ UNCHANGED <<server, clock, slow, misses, delays>>

PollRefundable ==
    /\ phase = "settling" /\ ~overtime
    /\ Refundable
    /\ sighted' = sighted \cup {"refundable"}
    /\ twice' = twice + 1
    /\ IF twice' >= Believes THEN Show("needs-refund") ELSE UNCHANGED <<phase, said>>
    /\ slow' = (slow \/ (worker = "mark" /\ twice > 0))
    /\ UNCHANGED <<server, clock, seen, misses, delays>>

PollOther ==
    /\ phase = "settling" /\ ~overtime
    /\ row # "settled" /\ ~Refundable
    /\ sighted' = sighted \cup {row}
    /\ twice' = 0
    /\ UNCHANGED <<server, clock, phase, said, seen, slow, misses, delays>>

\* An answer that is not ok is skipped; a fetch that throws ends the transfer's screen.
PollMissed ==
    /\ phase = "settling" /\ ~overtime
    /\ misses < MaxMisses
    /\ misses' = misses + 1
    /\ \/ UNCHANGED <<phase, said>>
       \/ Fail
    /\ UNCHANGED <<server, clock, twice, seen, sighted, slow, delays>>

AlwaysRefund == "needs-refund"
EndOfPolling == IF seen THEN "done" ELSE "needs-refund"

PollTimeout ==
    /\ phase = "settling" /\ overtime
    /\ Show(EndOfPolling)
    /\ UNCHANGED <<server, clock, twice, seen, sighted, slow, misses, delays>>

-----------------------------------------------------------------------------
(* POST /api/offramp/[requestId] from the screen's button *)

RefundGoesThrough == row = "locked" /\ escrow = "Locked" /\ expired = "grace_over"

\* The escrow decides: a refund, the row put right, or a refusal; the screen shows which.
RequestRefund ==
    /\ phase = "needs-refund"
    /\ IF RefundGoesThrough
       THEN escrow' = "Refunded" /\ row' = "refunded" /\ phase' = "failed" /\ said' = "returned"
       ELSE /\ said' = "error"
            /\ row' = CASE Refundable /\ escrow = "Settled" -> "settled"
                        [] Refundable /\ escrow = "Refunded" -> "refunded"
                        [] OTHER -> row
            /\ UNCHANGED <<escrow, phase>>
    /\ UNCHANGED <<fiat, worker, clock, twice, seen, sighted, slow, misses, delays>>

-----------------------------------------------------------------------------
(* The clock: the rate lock and its grace are shorter than the polling. *)

Later(e) == IF e = "running" THEN "over" ELSE "grace_over"

TimePasses ==
    /\ escrow # "none"
    /\ expired # "grace_over"
    /\ expired' = Later(expired)
    /\ UNCHANGED <<server, overtime, screen, misses, delays>>

\* Many polls lie between the two.
PollingEnds ==
    /\ phase = "settling" /\ expired = "grace_over" /\ ~overtime
    /\ row = "settled" => "settled" \in sighted \/ misses > 0
    /\ overtime' = TRUE
    /\ slow' = (slow \/ worker = "mark")
    /\ UNCHANGED <<server, expired, phase, said, twice, seen, sighted, misses, delays>>

Poll == PollSettled \/ PollRefundable \/ PollOther \/ PollMissed \/ PollTimeout

Next ==
    \/ LockMined \/ Report \/ ReportRefused
    \/ Settle \/ MarkSettled \/ Complete \/ WorkerDies \/ Sweep
    \/ Poll \/ RequestRefund
    \/ TimePasses \/ PollingEnds

Spec == Init /\ [][Next]_vars

-----------------------------------------------------------------------------
(* Properties *)

\* "On-chain settlement is final at that point": after a poll that saw the settlement, the
\* screen never offers a refund.
SettledStaysGood == phase = "needs-refund" => "settled" \notin sighted

\* The clock edge: "must never announce a failed transfer that is in fact about to settle".
\* While no poll fails and the server writes a settlement down within a poll's interval, what
\* the screen calls refundable was not settled.
RefundsAreReal ==
    phase = "needs-refund" /\ ~slow /\ misses = 0 /\ delays = 0 => escrow # "Settled"
=============================================================================
