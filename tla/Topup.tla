------------------------------- MODULE Topup -------------------------------
(***************************************************************************)
(* Topping up: the user pays an invoice at the gateway and the settler     *)
(* pays the tokens out.  web/lib/topup.ts, reached from the gateway's      *)
(* webhook and from the status poll of the client.                         *)
(*                                                                         *)
(* A running invocation is a job and every await ends one of its steps.    *)
(* The gateway's answers are what an invoice is: it is paid or expires,    *)
(* and it may say so any number of times, at any later time.               *)
(***************************************************************************)
EXTENDS Naturals, Sequences

CONSTANTS
    Order,           \* order ids
    Slot,            \* slots for invocations
    MaxWaitFailures, \* bound: tx.wait() throws although the transaction is out
    MaxSendFailures, \* bound: payouts that throw before anything is broadcast, or revert
    MaxCrashes       \* bound: killed invocations and lost writes

VARIABLES
    status,    \* topup_requests.status
    invoice,   \* the gateway's invoice of each order
    wallet,    \* whether wallets has a row for the user
    history,   \* transactions: rows of type topup per order
    credited,  \* payouts of each order that were mined
    mempool,   \* payouts broadcast and not yet mined
    job,       \* slot -> the invocation it runs
    waitFailures, sendFailures, crashes

failVars == <<waitFailures, sendFailures, crashes>>
vars == <<status, invoice, wallet, history, credited, mempool, job, failVars>>

NoOrder == CHOOSE o \in Order : TRUE
NoJob == [pc |-> "idle", order |-> NoOrder, tx |-> "none"]

Status == {"none", "pending", "paid", "completed", "failed", "expired"}
Job == [pc : {"idle", "createInvoice", "readInvoice", "expire", "claim", "wallet", "send",
              "wait", "complete", "history", "undo"},
        order : Order,
        tx : {"none", "pending", "mined", "reverted"}]

TypeOK ==
    /\ status \in [Order -> Status]
    /\ invoice \in [Order -> {"none", "PENDING", "PAID", "SETTLED", "EXPIRED"}]
    /\ wallet \in BOOLEAN
    /\ history \in [Order -> Nat] /\ credited \in [Order -> Nat]
    /\ mempool \in Seq([order : Order, by : Slot \cup {"nobody"}])
    /\ job \in [Slot -> Job]
    /\ waitFailures \in 0 .. MaxWaitFailures
    /\ sendFailures \in 0 .. MaxSendFailures
    /\ crashes \in 0 .. MaxCrashes

Init ==
    /\ status = [o \in Order |-> "none"]
    /\ invoice = [o \in Order |-> "none"]
    /\ wallet \in BOOLEAN
    /\ history = [o \in Order |-> 0] /\ credited = [o \in Order |-> 0]
    /\ mempool = <<>>
    /\ job = [w \in Slot |-> NoJob]
    /\ waitFailures = 0 /\ sendFailures = 0 /\ crashes = 0

-----------------------------------------------------------------------------
(* What the steps share.  A variant above a definition is a bug it rules    *)
(* out.                                                                     *)

At(w, pc) == job[w].pc = pc
OrderOf(w) == job[w].order
Goto(w, pc) == job' = [job EXCEPT ![w].pc = pc, ![w].tx = "none"]
Return(w) == job' = [job EXCEPT ![w] = NoJob]
Begin(w, pc, o) ==
    /\ At(w, "idle")
    /\ job' = [job EXCEPT ![w] = [NoJob EXCEPT !.pc = pc, !.order = o]]

\* What the gateway calls paid, and dead.
SettledIsNotPaid == {"PAID"}
PaidStatus == {"PAID", "SETTLED"}
DeadStatus == {"EXPIRED"}

\* The statuses the claim of settleTopup takes.
PaidIsClaimableToo == {"pending", "paid", "failed"}
FailedIsForgotten == {"pending"}
Claimable == {"pending", "failed"}

\* The statuses a dead invoice may still change.
AnyStatusMayExpire == {"pending", "paid", "completed", "failed", "expired"}
MayExpire == {"pending"}

PayoutEnded(w) == job[w].tx \in {"mined", "reverted"}
PayoutMined(w) == job[w].tx = "mined"

GatewayStatusSaved(w, s) == status' = [status EXCEPT ![OrderOf(w)] = invoice[OrderOf(w)]]
SetStatus(w, s) == status' = [status EXCEPT ![OrderOf(w)] = s]

-----------------------------------------------------------------------------
(* POST /api/topup/create-payment: the row first, then the invoice.        *)

CreateRow(w, o) ==
    /\ status[o] = "none"
    /\ Begin(w, "createInvoice", o)
    /\ status' = [status EXCEPT ![o] = "pending"]
    /\ UNCHANGED <<invoice, wallet, history, credited, mempool, failVars>>

CreateInvoice(w) ==
    /\ At(w, "createInvoice")
    /\ invoice' = [invoice EXCEPT ![OrderOf(w)] = "PENDING"]
    /\ Return(w)
    /\ UNCHANGED <<status, wallet, history, credited, mempool, failVars>>

-----------------------------------------------------------------------------
(* The two callers of settleTopup. *)

\* POST /api/topup/webhook.  The gateway may call an order that was paid out
\* EXPIRED, late.
StartWebhook(w, o) ==
    /\ \/ invoice[o] \in PaidStatus /\ Begin(w, "claim", o)
       \/ /\ \/ invoice[o] \in DeadStatus
             \/ status[o] = "completed"
          /\ Begin(w, "expire", o)
    /\ UNCHANGED <<status, invoice, wallet, history, credited, mempool, failVars>>

\* GET /api/topup/status/[orderId]
StartPoll(w, o) ==
    /\ status[o] \in {"pending", "failed"}
    /\ Begin(w, "readInvoice", o)
    /\ UNCHANGED <<status, invoice, wallet, history, credited, mempool, failVars>>

ReadInvoice(w) ==
    /\ At(w, "readInvoice")
    /\ CASE invoice[OrderOf(w)] \in PaidStatus -> Goto(w, "claim")
         [] invoice[OrderOf(w)] \in DeadStatus -> Goto(w, "expire")
         [] OTHER -> Return(w)
    /\ UNCHANGED <<status, invoice, wallet, history, credited, mempool, failVars>>

Expire(w) ==
    /\ At(w, "expire")
    /\ IF status[OrderOf(w)] \in MayExpire THEN SetStatus(w, "expired") ELSE UNCHANGED status
    /\ Return(w)
    /\ UNCHANGED <<invoice, wallet, history, credited, mempool, failVars>>

-----------------------------------------------------------------------------
(* settleTopup *)

Claim(w) ==
    /\ At(w, "claim")
    /\ IF status[OrderOf(w)] \in Claimable
       THEN SetStatus(w, "paid") /\ Goto(w, "wallet")
       ELSE Return(w) /\ UNCHANGED status
    /\ UNCHANGED <<invoice, wallet, history, credited, mempool, failVars>>

FindWallet(w) ==
    /\ At(w, "wallet")
    /\ IF wallet THEN Goto(w, "send") ELSE Return(w)
    /\ UNCHANGED <<status, invoice, wallet, history, credited, mempool, failVars>>

\* payoutUsdc, up to the broadcast of the transfer.
SendPayout(w) ==
    /\ At(w, "send")
    /\ mempool' = Append(mempool, [order |-> OrderOf(w), by |-> w])
    /\ job' = [job EXCEPT ![w].pc = "wait", ![w].tx = "pending"]
    /\ UNCHANGED <<status, invoice, wallet, history, credited, failVars>>

AwaitPayout(w) ==
    /\ At(w, "wait")
    /\ job[w].tx \in {"mined", "reverted"}
    /\ IF PayoutMined(w) THEN Goto(w, "complete") ELSE Goto(w, "undo")
    /\ UNCHANGED <<status, invoice, wallet, history, credited, mempool, failVars>>

Complete(w) ==
    /\ At(w, "complete")
    /\ SetStatus(w, "completed")
    /\ Goto(w, "history")
    /\ UNCHANGED <<invoice, wallet, history, credited, mempool, failVars>>

WriteHistory(w) ==
    /\ At(w, "history")
    /\ history' = [history EXCEPT ![OrderOf(w)] = @ + 1]
    /\ Return(w)
    /\ UNCHANGED <<status, invoice, wallet, credited, mempool, failVars>>

\* The catch: back to a claimable status.
Undo(w) ==
    /\ At(w, "undo")
    /\ SetStatus(w, "failed")
    /\ Return(w)
    /\ UNCHANGED <<invoice, wallet, history, credited, mempool, failVars>>

-----------------------------------------------------------------------------
(* The gateway, the chain, the user. *)

\* The user pays; later the gateway settles, and calls the invoice that instead.
Pay(o) ==
    /\ \/ invoice[o] = "PENDING" /\ invoice' = [invoice EXCEPT ![o] = "PAID"]
       \/ invoice[o] = "PAID" /\ invoice' = [invoice EXCEPT ![o] = "SETTLED"]
    /\ UNCHANGED <<status, wallet, history, credited, mempool, job, failVars>>

ExpireInvoice(o) ==
    /\ invoice[o] = "PENDING"
    /\ invoice' = [invoice EXCEPT ![o] = "EXPIRED"]
    /\ UNCHANGED <<status, wallet, history, credited, mempool, job, failVars>>

GetWallet ==
    /\ ~wallet
    /\ wallet' = TRUE
    /\ UNCHANGED <<status, invoice, history, credited, mempool, job, failVars>>

Reported(by, result) ==
    IF by \in Slot THEN job' = [job EXCEPT ![by].tx = result] ELSE UNCHANGED job

\* The next transaction of the settler is mined; a transfer may revert.
Mine ==
    /\ mempool # <<>>
    /\ \/ /\ credited' = [credited EXCEPT ![Head(mempool).order] = @ + 1]
          /\ Reported(Head(mempool).by, "mined")
          /\ UNCHANGED sendFailures
       \/ /\ sendFailures < MaxSendFailures
          /\ sendFailures' = sendFailures + 1
          /\ Reported(Head(mempool).by, "reverted")
          /\ UNCHANGED credited
    /\ mempool' = Tail(mempool)
    /\ UNCHANGED <<status, invoice, wallet, history, waitFailures, crashes>>

-----------------------------------------------------------------------------
(* Faults. *)

Orphaned(w) == [k \in DOMAIN mempool |->
                  IF mempool[k].by = w THEN [mempool[k] EXCEPT !.by = "nobody"]
                                       ELSE mempool[k]]

\* The RPC fails while the transaction is out: ethers throws, the chain goes on.
WaitThrows(w) ==
    /\ At(w, "wait")
    /\ waitFailures < MaxWaitFailures
    /\ waitFailures' = waitFailures + 1
    /\ mempool' = Orphaned(w)
    /\ Goto(w, "undo")
    /\ UNCHANGED <<status, invoice, wallet, history, credited, sendFailures, crashes>>

SendThrows(w) ==
    /\ At(w, "send")
    /\ sendFailures < MaxSendFailures
    /\ sendFailures' = sendFailures + 1
    /\ Goto(w, "undo")
    /\ UNCHANGED <<status, invoice, wallet, history, credited, mempool, waitFailures, crashes>>

\* The invocation is killed or a step outside the try throws; or a write fails
\* and its error is not looked at.
Crash(w) ==
    /\ ~At(w, "idle")
    /\ crashes < MaxCrashes
    /\ crashes' = crashes + 1
    /\ \/ Return(w)
       \/ At(w, "complete") /\ Goto(w, "history")
    /\ mempool' = Orphaned(w)
    /\ UNCHANGED <<status, invoice, wallet, history, credited, waitFailures, sendFailures>>

-----------------------------------------------------------------------------

Step(w) ==
    \/ CreateInvoice(w) \/ ReadInvoice(w) \/ Expire(w) \/ Claim(w) \/ FindWallet(w)
    \/ SendPayout(w) \/ AwaitPayout(w) \/ Complete(w) \/ WriteHistory(w) \/ Undo(w)

Next ==
    \/ \E w \in Slot :
         \/ Step(w) \/ WaitThrows(w) \/ SendThrows(w) \/ Crash(w)
         \/ \E o \in Order : CreateRow(w, o) \/ StartWebhook(w, o) \/ StartPoll(w, o)
    \/ \E o \in Order : Pay(o) \/ ExpireInvoice(o)
    \/ GetWallet \/ Mine

Spec == Init /\ [][Next]_vars

\* Invocations run, blocks are mined, the user gets a wallet, and an order that is
\* not final is looked at again: hooks/useTopup.ts polls every POLL_INTERVAL_MS (for
\* POLL_TIMEOUT_MS at a time; the order's page starts over).  A slot that is free
\* again and again is used, hence strong fairness of the poll.
FairSpec ==
    /\ Spec
    /\ \A w \in Slot : WF_vars(Step(w))
    /\ WF_vars(Mine) /\ WF_vars(GetWallet)
    /\ \A o \in Order : SF_vars(\E w \in Slot : StartPoll(w, o))

-----------------------------------------------------------------------------
(* Properties. *)

\* However the webhook and the polls race, an order is paid out at most once,
\* plus once for every tx.wait() that threw on a transaction that was out.
OneCreditPerWait == \A o \in Order : credited[o] <= 1 + waitFailures

\* The books follow the money: tokens only for a paid invoice, completed only
\* with tokens on chain, and no history row without a payout.
BooksFollowMoney ==
    \A o \in Order :
        /\ credited[o] > 0 => invoice[o] \in {"PAID", "SETTLED"}
        /\ status[o] = "completed" => credited[o] > 0
        /\ history[o] <= credited[o]

\* A paid order of a user with a wallet ends in tokens, although payouts fail and
\* waits throw, unless an invocation is killed.
PaidIsCredited ==
    \A o \in Order :
        [](wallet /\ crashes = 0) => (invoice[o] \in {"PAID", "SETTLED"} ~> credited[o] > 0)

\* lib/topup.ts: "Credit a paid topup on-chain, exactly once."
CreditedOnce == \A o \in Order : credited[o] <= 1
=============================================================================
