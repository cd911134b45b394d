----------------------------- MODULE TopupScreen ----------------------------
(***************************************************************************)
(* What the top-up screen says while the user pays in another window:      *)
(* web/hooks/useTopup.ts and app/topup/callback.  The invoice, the order   *)
(* and the poll that settles it (api/topup/status) are those of module     *)
(* Topup, cut down to one order and what the screen can see of it.         *)
(***************************************************************************)
EXTENDS Naturals

CONSTANTS
    MaxDropped,   \* bound: polls that get no answer
    MaxUnpaid     \* bound: payouts that fail

VARIABLES
    invoice,   \* at the gateway
    order,     \* topup_requests: its status
    window,    \* the checkout window, or "here" for the full-page redirect
    step,      \* the hook's phase
    message,   \* what it says when it fails
    closedFor, \* ABANDONED_GRACE_MS since the screen saw the window closed
    ended,     \* whether POLL_TIMEOUT_MS is over
    looked,    \* history: a poll since the window closed met no payout under way
    late,      \* history: no answered poll of the grace met anything but a payout under way
    dropped, unpaid

vars == <<invoice, order, window, step, message, closedFor, ended, looked, late, dropped, unpaid>>
gateway == <<invoice, order, unpaid>>
timers == <<closedFor, ended>>

TypeOK ==
    /\ invoice \in {"none", "pending", "paid", "expired"}
    /\ order \in {"none", "pending", "paid", "completed", "failed", "expired"}
    /\ window \in {"open", "closed", "here"}
    /\ step \in {"creating", "redirecting", "settling", "done", "failed"}
    /\ message \in {"nothing", "not started", "not charged", "expired", "on its way"}
    /\ closedFor \in {"unseen", "grace", "over"}
    /\ ended \in BOOLEAN
    /\ looked \in BOOLEAN /\ late \in BOOLEAN
    /\ dropped \in 0 .. MaxDropped /\ unpaid \in 0 .. MaxUnpaid

\* startTopup opens the window inside the click; the browser may refuse.
Init ==
    /\ invoice = "none" /\ order = "none"
    /\ window \in {"open", "closed"}
    /\ step = "creating" /\ message = "nothing"
    /\ closedFor = "unseen" /\ ended = FALSE /\ looked = FALSE /\ late = FALSE
    /\ dropped = 0 /\ unpaid = 0

Fail(m) == step' = "failed" /\ message' = m

-----------------------------------------------------------------------------
(* startTopup *)

\* The window, if there is still one, is sent to the checkout; else this page goes there.
CreateInvoice ==
    /\ step = "creating"
    /\ invoice' = "pending" /\ order' = "pending"
    /\ IF window = "open" THEN step' = "settling" /\ UNCHANGED window
       ELSE step' = "redirecting" /\ window' = "here"
    /\ UNCHANGED <<message, timers, looked, late, dropped, unpaid>>

CreateFails ==
    /\ step = "creating"
    /\ Fail("not started")
    /\ window' = "closed"
    /\ UNCHANGED <<gateway, timers, looked, late, dropped>>

\* The gateway sends the browser back to /topup/callback, which polls from the start.
ComeBack ==
    /\ step = "redirecting"
    /\ step' = "settling"
    /\ UNCHANGED <<gateway, window, message, timers, looked, late, dropped>>

-----------------------------------------------------------------------------
(* The gateway and the user *)

Pay ==
    /\ invoice = "pending"
    /\ window = "open" \/ step = "redirecting"
    /\ invoice' = "paid"
    /\ UNCHANGED <<order, unpaid, window, step, message, timers, looked, late, dropped>>

InvoiceExpires ==
    /\ invoice = "pending"
    /\ invoice' = "expired"
    /\ UNCHANGED <<order, unpaid, window, step, message, timers, looked, late, dropped>>

CloseWindow ==
    /\ window = "open"
    /\ window' = "closed"
    /\ looked' = FALSE
    /\ UNCHANGED <<gateway, step, message, timers, late, dropped>>

\* settleTopup pays out and the order is completed, or it fails and may be tried again.
Settled == order' = "completed" /\ UNCHANGED unpaid
NotSettled == order' = "failed" /\ unpaid < MaxUnpaid /\ unpaid' = unpaid + 1

WebhookClaims ==
    /\ invoice = "paid" /\ order \in {"pending", "failed"}
    /\ order' = "paid"
    /\ UNCHANGED <<invoice, unpaid, window, step, message, timers, looked, late, dropped>>

WebhookPays ==
    /\ order = "paid"
    /\ Settled \/ NotSettled
    /\ UNCHANGED <<invoice, window, step, message, timers, looked, late, dropped>>

-----------------------------------------------------------------------------
(* waitForSettlement *)

SeesClosed ==
    /\ step = "settling" /\ ~ended
    /\ window = "closed" /\ closedFor = "unseen"
    /\ closedFor' = "grace"
    /\ UNCHANGED <<gateway, window, step, message, ended, looked, late, dropped>>

AtOnce == closedFor # "unseen"
GraceIsOver == closedFor = "over"

GraceEnds ==
    /\ step = "settling" /\ closedFor = "grace"
    /\ closedFor' = "over"
    /\ late' = ~looked
    /\ UNCHANGED <<gateway, window, step, message, ended, looked, dropped>>

GiveUp ==
    /\ step = "settling" /\ ~ended
    /\ GraceIsOver
    /\ Fail("not charged")
    /\ UNCHANGED <<gateway, window, timers, looked, late, dropped>>

\* The screen's answer to the status a poll returns; "failed" is not terminal.
Shows(status) ==
    CASE status = "completed" -> step' = "done" /\ UNCHANGED message
      [] status = "expired" -> Fail("expired")
      [] OTHER -> UNCHANGED <<step, message>>

OnlyReads == FALSE
\* GET /api/topup/status settles an order whose invoice is paid.
PollSettles == order \in {"pending", "failed"} /\ invoice = "paid"

Poll ==
    /\ step = "settling" /\ ~ended /\ ~GraceIsOver
    /\ IF PollSettles THEN Settled \/ NotSettled
       ELSE /\ order' = IF order = "pending" /\ invoice = "expired" THEN "expired" ELSE order
            /\ UNCHANGED unpaid
    /\ Shows(order')
    /\ looked' = (order' # "paid")
    /\ UNCHANGED <<invoice, window, timers, late, dropped>>

DropPoll ==
    /\ step = "settling" /\ ~ended
    /\ dropped < MaxDropped
    /\ dropped' = dropped + 1
    /\ UNCHANGED <<gateway, window, step, message, timers, looked, late>>

TimeRunsOut ==
    /\ step = "settling" /\ ~ended
    /\ ended' = TRUE
    /\ UNCHANGED <<gateway, window, step, message, closedFor, looked, late, dropped>>

TimedOut ==
    /\ step = "settling" /\ ended
    /\ Fail("on its way")
    /\ UNCHANGED <<gateway, window, timers, looked, late, dropped>>

\* A wait that returns closes the window, whatever is going on in it.
ShutWindow ==
    /\ step \in {"done", "failed"}
    /\ window = "open"
    /\ window' = "closed"
    /\ UNCHANGED <<gateway, step, message, timers, looked, late, dropped>>

Next ==
    \/ CreateInvoice \/ CreateFails \/ ComeBack
    \/ Pay \/ InvoiceExpires \/ CloseWindow \/ WebhookClaims \/ WebhookPays
    \/ SeesClosed \/ GraceEnds \/ GiveUp \/ Poll \/ DropPoll
    \/ TimeRunsOut \/ TimedOut \/ ShutWindow

Spec == Init /\ [][Next]_vars

-----------------------------------------------------------------------------
(* Properties *)

\* "A closed window is not a failed payment": nothing is called uncharged that was paid before
\* its window closed, as long as payouts go through and some poll of the grace met none under way.
PaidIsNotCalledOff == message = "not charged" /\ unpaid = 0 /\ ~late => invoice # "paid"

\* "`failed` here means the payout failed, not the payment ... it is not terminal until the
\* timeout": the screen does not call a paid top-up uncharged.
ChargedIsSaid == message = "not charged" => invoice # "paid"
=============================================================================
