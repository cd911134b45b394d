----------------------------- MODULE MCServices -----------------------------
(***************************************************************************)
(* What the server pays out of its own wallet (packets, top-ups), the      *)
(* off-ramp's sweep over two requests, one row at a time, each with the    *)
(* fairness it needs, and the screen that waits for a top-up: part says    *)
(* which of them a behaviour is about; the others rest.                    *)
(***************************************************************************)
EXTENDS Packet, TLC

CONSTANTS
    c1, c2, t1, u1, u2, w1, w2, o1, x1, v1,
    Order, MaxDropped, MaxUnpaid,
    Account, Server, Zero, Usdc, Stable, Outsider, Poster, Refunder, Sweeper,
    RateExpiry, Grace, BatchSize, MaxRequests, MaxTime, MaxPosts, MaxFaults

\* "nobody" is the sender of a payout whose invocation is gone.
ASSUME ServicesAssumption ==
    /\ Order # {} /\ "nobody" \notin Slot
    /\ MaxDropped \in Nat /\ MaxUnpaid \in Nat

TwoCodes == {c1, c2}
OneTx == {t1}
TwoUsers == {u1, u2}
Slots2 == {w1, w2}
OneOrder == {o1}
OnePoster == {x1}
OneSweeper == {v1}

VARIABLES
    part,
    status, invoice, wallet, history, credited, tPool, tJob, tWaits, tSends, tCrashes,
    screenInvoice, order, window, step, message, closedFor, ended, looked, late, dropped, unpaid,
    now, owner, settler, stableToken, offrampAllowed, nonce, requests, held, spent,
    chainPool, row, lockRows, refundRows, payouts, handler, posts, faults

T == INSTANCE Topup WITH mempool <- tPool, job <- tJob, waitFailures <- tWaits,
        sendFailures <- tSends, crashes <- tCrashes
O == INSTANCE Offramp WITH User <- Account, mempool <- chainPool, job <- handler
S == INSTANCE TopupScreen WITH invoice <- screenInvoice

tVars == <<status, invoice, wallet, history, credited, tPool, tJob, tWaits, tSends, tCrashes>>
sVars == <<screenInvoice, order, window, step, message, closedFor, ended, looked, late, dropped, unpaid>>
oVars == <<now, owner, settler, stableToken, offrampAllowed, nonce, requests, held, spent,
           chainPool, row, lockRows, refundRows, payouts, handler, posts, faults>>
allVars == <<part, vars, tVars, sVars, oVars>>

ServicesInit ==
    /\ Init /\ T!Init /\ S!Init /\ O!Init
    /\ \/ part \in {"packet", "sweep"} /\ wallet /\ window = "closed"
       \/ part = "topup" /\ window = "closed"
       \/ part = "screen" /\ wallet

OfPackets(A) == part = "packet" /\ A /\ UNCHANGED <<part, tVars, sVars, oVars>>
OfTopups(A) == part = "topup" /\ A /\ UNCHANGED <<part, vars, sVars, oVars>>
OfSweep(A) == part = "sweep" /\ A /\ UNCHANGED <<part, vars, tVars, sVars>>

ServicesNext ==
    \/ OfPackets(Next)
    \/ OfTopups(T!Next)
    \/ OfSweep(O!Next)
    \/ part = "screen" /\ S!Next /\ UNCHANGED <<part, vars, tVars, oVars>>

\* The fairness of Packet, Topup and Offramp.  As part never changes, weak fairness of a
\* disjunction over the parts is weak fairness of the disjunct of the part.
ServicesSpec ==
    /\ ServicesInit /\ [][ServicesNext]_allVars
    /\ WF_allVars(OfPackets(Mine) \/ OfTopups(T!Mine) \/ OfSweep(O!MineSettle))
    /\ WF_allVars(OfTopups(T!GetWallet) \/ OfSweep(O!MineRefund))
    /\ \A w \in Slot : WF_allVars(OfPackets(Step(w)) \/ OfTopups(T!Step(w)))
    /\ \A o \in Order : SF_allVars(OfTopups(\E w \in Slot : T!StartPoll(w, o)))
    /\ WF_allVars(OfSweep(O!Tick))
    /\ \A w \in Sweeper : WF_allVars(OfSweep(O!SweepStep(w))) /\ WF_allVars(OfSweep(O!StartSweep(w)))

\* A claim ends paid or released (POST /api/packet/[code]).  Codes and claimers are interchangeable:
\* one claim stands for all.
OneClaimEnds == ClaimEnds(c1, u1)

\* The treasury pays out of a packet no more than it brought in, whoever races for it.
PayoutsStayFunded == TypeOK /\ PayoutsAreFunded

\* Webhook and poll pay an order once, plus once per wait that threw on a payout that was out; the
\* order and the history claim no payment or payout that has not happened.
BooksFollowMoney == T!TypeOK /\ T!OneCreditPerWait /\ T!BooksFollowMoney

\* A paid order ends in tokens, though payouts fail and waits throw.
PaidIsCredited == T!PaidIsCredited

\* The sweep ends every lock on file, on chain and in its row, though it crashes on the way.
LocksEnd == O!LocksEnd

\* The screen never says that nothing was charged for an invoice paid before its window closed.
PaidIsNotCalledOff == S!TypeOK /\ S!PaidIsNotCalledOff
=============================================================================
