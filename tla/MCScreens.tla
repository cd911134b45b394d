------------------------------ MODULE MCScreens ------------------------------
(***************************************************************************)
(* The screens: sending, cashing out, the session in a browser, red        *)
(* packets, QR codes, QRIS, a bill, recovering and setting a recovery up.  *)
(* Each has its own tabs and calls, and they share no state: part says     *)
(* which of them a behaviour is about, and the others rest.                *)
(***************************************************************************)
EXTENDS FiniteSets, Naturals, TLC

CONSTANTS
    X, Y,                                         \* what a screen has several of
    MaxAsked, MaxAsks, MaxLogins, MaxTurns,       \* sending, the session
    Me, Other, Envelope, MaxSlots,                \* packets
    Visitor, MaxOpenings, MaxFigure, Merchant, Dynamic, MaxRates,  \* codes, QRIS
    Number, Own, Taken, Sheet, MaxCodes, MaxRounds,     \* recovering
    Limit,                                        \* setting a recovery up
    MaxAmount, MaxGlitches

\* What is nobody and nothing to a screen is not among what it has several of; a tab that opens has
\* asked once, a packet has a slot, and there is a rate.
ASSUME ScreensAssumption ==
    /\ IsFiniteSet(X) /\ IsFiniteSet(Number)
    /\ {"nobody", "none"} \cap (X \cup Y \cup Envelope \cup Merchant) = {}
    /\ {"old", "none"} \cap Number = {}
    /\ MaxAsks \in Nat \ {0} /\ MaxSlots \in Nat \ {0} /\ MaxRates \in Nat \ {0}
    /\ {MaxAsked, MaxLogins, MaxTurns, MaxOpenings, MaxFigure, MaxCodes, MaxRounds,
        MaxAmount, MaxGlitches} \subseteq Nat

Symmetry == Permutations(X) \cup Permutations(Y)

VARIABLES
    part,
    step, transferPhase, phone, label, recipient, listed, lookups, transferAsked, amount,
    transfers, txHash, mixed, recoded, left,
    offrampPage, offrampStage, dest, net, quote, quoting, resolving, hash, destRef,
    offrampSends, polling, touched,
    browserCookie, user, wallet, autoFor, asks, logins, signIn, own, actions, signed, crossed,
    browserAsked, provisioned, turns,
    form, packetPhase, shown, packetSends, packets, claims, waiting, tabs,
    paySheet, requests, payPages, openings,
    payload, view, qrisStage, locks, rate,
    share, billPages, presses, answers,
    recoverStage, round, votes, account, code, inbox, recoverCookie, recoverPage, recoverSheet,
    guardian, email, me, screen, load, list, address, call, gone, setup, behind,
    glitches

T == INSTANCE TransferScreen WITH phase <- transferPhase, asked <- transferAsked,
        Person <- X, Transfer <- Y
F == INSTANCE OfframpForm WITH page <- offrampPage, stage <- offrampStage, sends <- offrampSends,
        Destination <- X, Send <- Y
B == INSTANCE Browser WITH cookie <- browserCookie, asked <- browserAsked, Account <- X
P == INSTANCE PacketScreen WITH phase <- packetPhase, sends <- packetSends, Send <- Envelope, Tab <- X
Q == INSTANCE PayScreen WITH sheet <- paySheet, pages <- payPages, Page <- Visitor,
        Code <- X, MaxAmount <- MaxFigure
M == INSTANCE QrisScreen WITH stage <- qrisStage, Lock <- X
S == INSTANCE BillScreen WITH pages <- billPages, Page <- X, Payers <- X, Press <- Y
R == INSTANCE RecoverScreen WITH stage <- recoverStage, cookie <- recoverCookie,
        page <- recoverPage, sheet <- recoverSheet, Page <- X, Guardian <- Y
A == INSTANCE SecurityScreen WITH Guardian <- X

TVars == <<step, transferPhase, phone, label, recipient, listed, lookups, transferAsked, amount,
           transfers, txHash, mixed, recoded, left>>
FVars == <<offrampPage, offrampStage, dest, net, quote, quoting, resolving, hash, destRef,
           offrampSends, polling, touched>>
BVars == <<browserCookie, user, wallet, autoFor, asks, logins, signIn, own, actions, signed, crossed,
           browserAsked, provisioned, turns>>
PVars == <<form, packetPhase, shown, packetSends, packets, claims, waiting, tabs>>
QVars == <<paySheet, requests, payPages, openings>>
MVars == <<payload, view, qrisStage, locks, rate>>
SVars == <<share, billPages, presses, answers>>
RVars == <<recoverStage, round, votes, account, code, inbox, recoverCookie, recoverPage, recoverSheet>>
AVars == <<guardian, email, me, screen, load, list, address, call, gone, setup, behind>>
allVars == <<part, TVars, FVars, BVars, PVars, QVars, MVars, SVars, RVars, AVars, glitches>>

\* A part that rests starts in one state.
ScreensInit ==
    /\ T!Init /\ F!Init /\ B!Init /\ P!Init /\ Q!Init /\ M!Init /\ S!Init /\ R!Init /\ A!Init
    /\ part \in {"transfer", "offramp", "session", "packet", "code", "qris", "bill", "recover", "security"}
    /\ part # "session" => browserCookie = B!Nobody

ScreensNext ==
    /\ UNCHANGED part
    /\ \/ /\ part = "transfer" /\ T!Next
          /\ UNCHANGED <<FVars, BVars, PVars, QVars, MVars, SVars, RVars, AVars, glitches>>
       \/ /\ part = "offramp" /\ F!Next
          /\ UNCHANGED <<TVars, BVars, PVars, QVars, MVars, SVars, RVars, AVars>>
       \/ /\ part = "session" /\ B!Next
          /\ UNCHANGED <<TVars, FVars, PVars, QVars, MVars, SVars, RVars, AVars, glitches>>
       \/ /\ part = "packet" /\ P!Next
          /\ UNCHANGED <<TVars, FVars, BVars, QVars, MVars, SVars, RVars, AVars>>
       \/ /\ part = "code" /\ Q!Next
          /\ UNCHANGED <<TVars, FVars, BVars, PVars, MVars, SVars, RVars, AVars>>
       \/ /\ part = "qris" /\ M!Next
          /\ UNCHANGED <<TVars, FVars, BVars, PVars, QVars, SVars, RVars, AVars>>
       \/ /\ part = "bill" /\ S!Next
          /\ UNCHANGED <<TVars, FVars, BVars, PVars, QVars, MVars, RVars, AVars>>
       \/ /\ part = "recover" /\ R!Next
          /\ UNCHANGED <<TVars, FVars, BVars, PVars, QVars, MVars, SVars, AVars>>
       \/ /\ part = "security" /\ A!Next
          /\ UNCHANGED <<TVars, FVars, BVars, PVars, QVars, MVars, SVars, RVars>>

ScreensSpec == ScreensInit /\ [][ScreensNext]_allVars

\* Whoever is on the review is who is paid, by the transfer the receipt shows; the same of a bank
\* account a payout goes to, with the fee that was quoted.
ReviewedIsPaid ==
    /\ part = "transfer" => T!TypeOK /\ T!PaysWhoIsShown /\ T!ReceiptIsTrue
    /\ part = "offramp" => F!TypeOK /\ F!SettlesAsReviewed /\ F!OneIsFiled

\* Two accounts that take turns in one browser do not see each other's wallet or number.
AccountsKeptApart == part = "session" => B!TypeOK /\ B!ConnectedIsOwn /\ B!KeptApart

\* An envelope opens on money that arrived, and a packet is the one that was filled in.
EnvelopesAreTrue == part = "packet" => P!TypeOK /\ P!OpenedIsPaid /\ P!PacketIsAsFilled

\* A code is paid as it asks, to whom it shows; and a share reads paid when it is.
CodesAreTrue ==
    /\ part = "code" => Q!TypeOK /\ Q!CodesAreKept
    /\ part = "qris" => M!TypeOK /\ M!PaysTheMerchantShown
    /\ part = "bill" => S!TypeOK /\ S!ShownAsItMoved

\* An account moves to a number its owner reads, and a guardian's page shows the answer that counted.
RecoveryIsTrue == part = "recover" => R!TypeOK /\ R!MovedWhereRead /\ R!AnswersAreKept

\* "Recovery is on" is true, and a guardian counts once on the way there.
SetupIsTrue == part = "security" => A!TypeOK /\ A!OnIsOn /\ A!CountedOnce
=============================================================================
