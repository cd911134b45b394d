----------------------------- MODULE MCAccounts -----------------------------
(***************************************************************************)
(* An account and its wallet: signing in, guardians, the backup address,   *)
(* the wallet's creation and its gas, the signing limits and the settler's *)
(* nonces share no state, and the forms people sign in with keep to the    *)
(* answers of the routes.  part says which of them a behaviour is about;   *)
(* the others rest.                                                        *)
(***************************************************************************)
EXTENDS MpcSign, TLC

CONSTANTS
    s1, s2, ana, budi,
    Person, MAX_GUARDIANS, MaxSeats,
    Address, MaxChanges,
    OTP_MAX_ATTEMPTS, OTP_MAX_PER_WINDOW, MaxRows, MaxOpened,
    Process, MaxSends, MaxTroubles,
    MAX_DRIPS_PER_WALLET, MaxDrips,
    Number, Readable, Tab, Extension, MaxCalls, MaxCodes, MaxGlitches

ASSUME AccountsAssumption ==
    /\ "none" \notin Person \cup Address \cup Process
    /\ MAX_GUARDIANS \in Nat /\ MaxSeats \in Nat /\ MaxChanges \in Nat
    /\ OTP_MAX_ATTEMPTS \in Nat /\ OTP_MAX_PER_WINDOW \in Nat
    /\ MaxRows \in Nat /\ MaxOpened \in Nat
    /\ MaxSends \in Nat /\ MaxTroubles \in Nat
    /\ MAX_DRIPS_PER_WALLET \in Nat \ {0} /\ MaxDrips \in Nat
    /\ Readable \subseteq Number /\ Extension \subseteq Tab
    /\ MaxCalls \in Nat /\ MaxCodes \in Nat /\ MaxGlitches \in Nat

Slot2 == {s1, s2}
Person2 == {ana, budi}
Symmetry == Permutations(Slot2) \cup Permutations(Person2)

VARIABLES
    part,
    code, phone, expired, otpJob, tries, crowded, otpFaults, users, sessions, opened,
    seats, registered, links, lapsed, ownerTold, handler, failures,
    email, changes, taken, mailed, stale, work, raced, failed,
    settler, onChain, pool, held, send, begun, landed, refused, troubles,
    wallet, drips, recent, created, short, rich, walletJob, dripped, hour, excused, lost, walletFaults,
    form, calls, codeOf, inbox, attempts, session, glitches

A == INSTANCE SignIn WITH job <- otpJob, overlapped <- crowded, faults <- otpFaults
G == INSTANCE Guardians WITH told <- ownerTold
B == INSTANCE BackupEmail
N == INSTANCE Nonces WITH mined <- onChain
W == INSTANCE WalletProvision WITH job <- walletJob, faults <- walletFaults
F == INSTANCE SignInScreen WITH Own <- Readable

AVars == <<code, phone, expired, otpJob, tries, crowded, otpFaults, users, sessions, opened>>
GVars == <<seats, registered, links, lapsed, ownerTold, handler, failures>>
BVars == <<email, changes, taken, mailed, stale, work, raced, failed>>
NVars == <<settler, onChain, pool, held, send, begun, landed, refused, troubles>>
WVars == <<wallet, drips, recent, created, short, rich, walletJob, dripped, hour, excused, lost, walletFaults>>
FVars == <<form, calls, codeOf, inbox, attempts, session, glitches>>
allVars == <<part, vars, AVars, GVars, BVars, NVars, WVars, FVars>>

\* A part that rests starts in one state. One form is open: what another would do to the codes,
\* expiry does.
AccountsInit ==
    /\ Init
    /\ A!Init /\ G!Init /\ B!Init /\ N!Init /\ W!Init /\ F!Init
    /\ part \in {"signing", "sign_in", "form", "guardians", "email", "nonces", "provision"}
    /\ part # "sign_in" => users = [h \in {"legacy", "current"} |-> 0]
    /\ part # "guardians" => registered = {}
    /\ part # "email" => taken = {}
    /\ part # "nonces" => settler
    /\ part # "provision" => wallet = "none" /\ rich
    /\ Cardinality({t \in Tab : form[t].step # "home"}) = (IF part = "form" THEN 1 ELSE 0)

AccountsNext ==
    /\ UNCHANGED part
    /\ \/ part = "signing" /\ Next /\ UNCHANGED <<AVars, GVars, BVars, NVars, WVars, FVars>>
       \/ part = "sign_in" /\ A!Next /\ UNCHANGED <<vars, GVars, BVars, NVars, WVars, FVars>>
       \/ part = "guardians" /\ G!Next /\ UNCHANGED <<vars, AVars, BVars, NVars, WVars, FVars>>
       \/ part = "email" /\ B!Next /\ UNCHANGED <<vars, AVars, GVars, NVars, WVars, FVars>>
       \/ part = "nonces" /\ N!Next /\ UNCHANGED <<vars, AVars, GVars, BVars, WVars, FVars>>
       \/ part = "provision" /\ W!Next /\ UNCHANGED <<vars, AVars, GVars, BVars, NVars, FVars>>
       \/ part = "form" /\ F!Next /\ UNCHANGED <<vars, AVars, GVars, BVars, NVars, WVars>>

AccountsSpec == AccountsInit /\ [][AccountsNext]_allVars

\* Codes: guesses and requests are bounded, one is alive, sessions cost tries, and the two hashes
\* of a number never lead to two accounts. A form spends one try at a time, offers the new code
\* it tells of, and gets in only who reads the number's messages.
CodesHold ==
    /\ part = "sign_in" =>
        /\ A!TypeOK /\ A!GuessesBounded /\ A!WindowBounded /\ A!OneAlive /\ A!SessionsCostTries
        /\ A!OneAccountPerNumber
    /\ part = "form" => F!TypeOK /\ F!OneAtATime /\ F!WayOut /\ F!SessionIsRead

\* What was used does not come back: no code comes to life again, an invitation that was answered
\* or withdrawn is not answered again, and the link mailed last is the one that works.
SpentStaysSpent == A!SpentStaysSpent /\ G!AnswersAreFinal /\ B!NewestLinkWorks

\* The owner hears of every guardian that can come to count.
OwnerIsTold == part = "guardians" => G!TypeOK /\ G!OwnerIsTold

\* Signatures stay within the daily cap and drips are counted, unless invocations overlapped or
\* a failed call was not noticed.
LimitsHold ==
    /\ part = "signing" => TypeOK /\ CapHolds
    /\ part = "provision" => W!TypeOK /\ W!DripsAreCounted

\* A send lands once, leaves no gap, and is lost only to a race.
NoncesHold == part = "nonces" => N!TypeOK /\ N!SentOnce /\ N!NoGap /\ N!LosesOnlyToRaces

\* A wallet of our custodian, once bound, stays with its account.
BoundForGood == W!BoundForGood
=============================================================================
