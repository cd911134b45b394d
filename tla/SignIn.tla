------------------------------- MODULE SignIn -------------------------------
(***************************************************************************)
(* The codes of one phone number and the account they open: asking for a   *)
(* code (web/app/api/request-otp), spending it (web/lib/otp-challenge.ts), *)
(* and what a code that matched becomes (POST /api/verify-otp): a session  *)
(* of the account the number is filed under, by its old hash or the new    *)
(* one, or of a new account (web/lib/phone-identity.ts).                   *)
(*                                                                         *)
(* A code is the number of its row: codes of two rows differ.  A code      *)
(* lives as long as the window in which requests are counted, so one clock *)
(* serves both.                                                            *)
(***************************************************************************)
EXTENDS Naturals, FiniteSets

CONSTANTS
    Slot,           \* invocations that may be under way
    OTP_MAX_ATTEMPTS, OTP_MAX_PER_WINDOW,
    MaxRows,        \* bound: rows otp_challenges may ever hold
    MaxFaults,      \* bound: sends and writes that fail, invocations killed
    MaxOpened       \* bound: sessions that the history counts

VARIABLES
    code,      \* otp_challenges, in the order of created_at
    phone,     \* codes that reached the phone
    expired,   \* rows older than the window, oldest first: 1 .. expired
    job,       \* slot -> the invocation it runs
    tries,     \* history: comparisons made against each code
    overlapped,\* history: two requests for a code have been under way at once
    faults,    \* how much of MaxFaults has happened
    users,     \* rows of users with this number, per hash: at most one each (unique index)
    sessions,  \* the hashes that the number's sessions carry
    opened     \* history: sessions opened with each code

otpVars == <<code, phone, expired, job, tries, overlapped, faults>>

Row == 1 .. MaxRows
NoRow == [state |-> "none", attempts |-> 0]
Rows == [state : {"none", "live", "consumed", "deleted"}, attempts : 0 .. OTP_MAX_ATTEMPTS]

\* right says whether a verification was given its row's code; saw is what it read.
Idle == [at |-> "idle", row |-> 0, saw |-> 0, right |-> FALSE]
OtpSteps == {"retire", "insert", "send", "delete", "exhaust", "count", "burn"}
Jobs(steps) == [at : {"idle", "matched"} \cup OtpSteps \cup steps, row : 0 .. MaxRows,
                saw : 0 .. OTP_MAX_ATTEMPTS, right : BOOLEAN]

OtpTypeOK(steps) ==
    /\ code \in [Row -> Rows]
    /\ phone \subseteq Row
    /\ expired \in 0 .. MaxRows
    /\ job \in [Slot -> Jobs(steps)]
    /\ tries \in [Row -> Nat]
    /\ overlapped \in BOOLEAN
    /\ faults \in 0 .. MaxFaults

OtpInit ==
    /\ code = [c \in Row |-> NoRow]
    /\ phone = {}
    /\ expired = 0
    /\ job = [s \in Slot |-> Idle]
    /\ tries = [c \in Row |-> 0]
    /\ overlapped = FALSE
    /\ faults = 0

At(s, at) == job[s].at = at
Goto(s, at) == job' = [job EXCEPT ![s].at = at]
Return(s) == job' = [job EXCEPT ![s] = Idle]
Fault == faults < MaxFaults /\ faults' = faults + 1

Used == {c \in Row : code[c].state # "none"}
Live == {c \in Row : code[c].state = "live"}
isOtpExpired(c) == c <= expired

\* Time passes: the oldest row that is still in the window leaves it.
WindowPasses ==
    /\ expired < Cardinality(Used)
    /\ expired' = expired + 1
    /\ UNCHANGED <<code, phone, job, tries, faults, overlapped>>

-----------------------------------------------------------------------------
(* POST /api/request-otp *)

Requesting == {s \in Slot : job[s].at \in {"retire", "insert", "send", "delete"}}
InWindow == {c \in Used : code[c].state # "deleted" /\ ~isOtpExpired(c)}

OneTooMany == Cardinality(InWindow) <= OTP_MAX_PER_WINDOW
MayRequest == Cardinality(InWindow) < OTP_MAX_PER_WINDOW

StartRequest(s) ==
    /\ At(s, "idle")
    /\ MayRequest
    /\ Goto(s, "retire")
    /\ overlapped' = (overlapped \/ Requesting # {})
    /\ UNCHANGED <<code, phone, expired, tries, faults>>

LeaveLive == code
AllConsumed == [c \in Row |-> IF c \in Live THEN [code[c] EXCEPT !.state = "consumed"] ELSE code[c]]

\* The codes still live are retired; nobody looks whether the write failed.
RetireCodes(s) ==
    /\ At(s, "retire")
    /\ \/ code' = AllConsumed /\ UNCHANGED faults
       \/ Fault /\ UNCHANGED code
    /\ Goto(s, "insert")
    /\ UNCHANGED <<phone, expired, tries, overlapped>>

InsertCode(s) ==
    LET c == Cardinality(Used) + 1 IN
    /\ At(s, "insert")
    /\ c <= MaxRows
    /\ code' = [code EXCEPT ![c].state = "live"]
    /\ job' = [job EXCEPT ![s].at = "send", ![s].row = c]
    /\ UNCHANGED <<phone, expired, tries, faults, overlapped>>

\* The gateway answers "sent", or anything else, whether or not the message goes out.
SendCode(s) ==
    /\ At(s, "send")
    /\ \/ phone' = phone \cup {job[s].row} /\ Return(s) /\ UNCHANGED faults
       \/ /\ Fault
          /\ phone' \in {phone, phone \cup {job[s].row}}
          /\ Goto(s, "delete")
    /\ UNCHANGED <<code, expired, tries, overlapped>>

DeleteCode(s) ==
    /\ At(s, "delete")
    /\ \/ code' = [code EXCEPT ![job[s].row].state = "deleted"] /\ UNCHANGED faults
       \/ Fault /\ UNCHANGED code
    /\ Return(s)
    /\ UNCHANGED <<phone, expired, tries, overlapped>>

-----------------------------------------------------------------------------
(* consumeOtpChallenge *)

PastLast(c) == code[c].attempts > OTP_MAX_ATTEMPTS
Exhausted(c) == code[c].attempts >= OTP_MAX_ATTEMPTS

\* The newest row that is not consumed is read. An expired one, or none, ends the call
\* without a word to the database.
StartVerify(s, right) ==
    /\ At(s, "idle")
    /\ \E c \in Live :
        /\ \A d \in Live : d <= c
        /\ right => c \in phone
        /\ ~isOtpExpired(c)
        /\ job' = [job EXCEPT ![s] =
                     [at |-> IF Exhausted(c) THEN "exhaust" ELSE "count",
                      row |-> c, saw |-> code[c].attempts, right |-> right]]
    /\ UNCHANGED <<code, phone, expired, tries, faults, overlapped>>

Consume(c) == code' = [code EXCEPT ![c].state = IF @ = "live" THEN "consumed" ELSE @]

ExhaustCode(s) ==
    /\ At(s, "exhaust")
    /\ \/ Consume(job[s].row) /\ UNCHANGED faults
       \/ Fault /\ UNCHANGED code
    /\ Return(s)
    /\ UNCHANGED <<phone, expired, tries, overlapped>>

ById(c, saw) == code[c].state = "live"
AnyState(c, saw) == code[c].attempts = saw

\* update ... where attempt_count = what was read and consumed_at is null
StillAsRead(c, saw) == code[c].state = "live" /\ code[c].attempts = saw
CompareRegardless(s) ==
    LET c == job[s].row IN
    /\ At(s, "count")
    /\ IF StillAsRead(c, job[s].saw)
       THEN code' = [code EXCEPT ![c].attempts = job[s].saw + 1] /\ tries' = [tries EXCEPT ![c] = @ + 1]
       ELSE UNCHANGED <<code, tries>>
    /\ IF job[s].right THEN Goto(s, "burn") ELSE Return(s)
    /\ UNCHANGED <<phone, expired, faults, overlapped>>

\* The attempt is counted before the code is compared; a raced caller compares nothing.
CountAttempt(s) ==
    LET c == job[s].row IN
    /\ At(s, "count")
    /\ IF StillAsRead(c, job[s].saw)
       THEN /\ code' = [code EXCEPT ![c].attempts = job[s].saw + 1]
            /\ tries' = [tries EXCEPT ![c] = @ + 1]
            /\ IF job[s].right THEN Goto(s, "burn") ELSE Return(s)
       ELSE UNCHANGED <<code, tries>> /\ Return(s)
    /\ UNCHANGED <<phone, expired, faults, overlapped>>

\* The code is burned before the caller does anything with the result.
BurnCode(s) ==
    /\ At(s, "burn")
    /\ \/ Consume(job[s].row) /\ UNCHANGED faults
       \/ Fault /\ UNCHANGED code
    /\ Goto(s, "matched")
    /\ UNCHANGED <<phone, expired, tries, overlapped>>

-----------------------------------------------------------------------------
Crash(s) ==
    /\ ~At(s, "idle")
    /\ Fault
    /\ Return(s)
    /\ UNCHANGED <<code, phone, expired, tries, overlapped>>

OtpStep(s) ==
    \/ StartRequest(s) \/ RetireCodes(s) \/ InsertCode(s) \/ SendCode(s) \/ DeleteCode(s)
    \/ \E right \in BOOLEAN : StartVerify(s, right)
    \/ ExhaustCode(s) \/ CountAttempt(s) \/ BurnCode(s)
    \/ Crash(s)

-----------------------------------------------------------------------------
(* POST /api/verify-otp, once the code matched *)

vars == <<otpVars, users, sessions, opened>>
accountVars == <<users, sessions, opened>>

Hash == {"legacy", "current"}
Steps == {"findLegacy", "create", "upgrade", "issueLegacy", "issueCurrent"}

TypeOK ==
    /\ OtpTypeOK(Steps)
    /\ users \in [Hash -> {0, 1}]
    /\ sessions \subseteq Hash
    /\ opened \in [Row -> 0 .. MaxOpened]

\* The number is nobody's yet, or an account's that is signed in on another device.
Init ==
    /\ OtpInit
    /\ users \in {u \in [Hash -> {0, 1}] : u["legacy"] + u["current"] <= 1}
    /\ sessions = {h \in Hash : users[h] = 1}
    /\ opened = [c \in Row |-> 0]

Issue(hash) == IF hash = "legacy" THEN "issueLegacy" ELSE "issueCurrent"

\* findUserByPhone asks for the new hash and then, in a second query, for the old one.
FindCurrent(s) ==
    /\ At(s, "matched")
    /\ Goto(s, IF users["current"] = 1 THEN "issueCurrent" ELSE "findLegacy")
    /\ UNCHANGED <<code, phone, expired, tries, overlapped, faults, accountVars>>

NoFallback == FALSE
LegacyRow == users["legacy"] = 1

FindLegacy(s) ==
    /\ At(s, "findLegacy")
    /\ Goto(s, IF LegacyRow THEN "upgrade" ELSE "create")
    /\ UNCHANGED <<code, phone, expired, tries, overlapped, faults, accountVars>>

\* The unique index on phone_hash refuses a second account; the handler answers 500.
CreateUser(s) ==
    /\ At(s, "create")
    /\ users' = [users EXCEPT !["current"] = 1]
    /\ IF users["current"] = 0 THEN Goto(s, "issueCurrent") ELSE Return(s)
    /\ UNCHANGED <<code, phone, expired, tries, overlapped, faults, sessions, opened>>

\* migrate_phone_hash moves the account, refuses, or its answer is lost; a row that was
\* moved meanwhile may count as moved or not.
UpgradeHash(s) ==
    /\ At(s, "upgrade")
    /\ IF users["legacy"] = 1
       THEN \/ /\ users' = [users EXCEPT !["legacy"] = 0, !["current"] = 1]
               /\ Goto(s, "issueCurrent") /\ UNCHANGED faults
            \/ /\ Fault
               /\ users' \in {users, [users EXCEPT !["legacy"] = 0, !["current"] = 1]}
               /\ Goto(s, "issueLegacy")
       ELSE /\ \E hash \in Hash : Goto(s, Issue(hash))
            /\ UNCHANGED <<users, faults>>
    /\ UNCHANGED <<code, phone, expired, tries, overlapped, sessions, opened>>

IssueToken(s) ==
    /\ \E hash \in Hash : At(s, Issue(hash)) /\ sessions' = sessions \cup {hash}
    /\ opened[job[s].row] < MaxOpened
    /\ opened' = [opened EXCEPT ![job[s].row] = @ + 1]
    /\ Return(s)
    /\ UNCHANGED <<code, phone, expired, tries, overlapped, faults, users>>

Next ==
    \/ WindowPasses /\ UNCHANGED accountVars
    \/ \E s \in Slot :
        \/ OtpStep(s) /\ UNCHANGED accountVars
        \/ FindCurrent(s) \/ FindLegacy(s) \/ CreateUser(s) \/ UpgradeHash(s) \/ IssueToken(s)

Spec == Init /\ [][Next]_vars

-----------------------------------------------------------------------------
(* Properties *)

\* Guesses sent in parallel do not get past the cap: a code is compared three times,
\* however many verifications have read the same counter.
GuessesBounded == \A c \in Row : tries[c] <= OTP_MAX_ATTEMPTS

\* Requests that overlap exceed the limit of a window by no more than their number.
WindowBounded == Cardinality(InWindow) < OTP_MAX_PER_WINDOW + Cardinality(Slot)

\* "Exactly one code is alive at a time": so it is while requests do not overlap and the
\* write that retires the others does not fail.
OneAlive == ~overlapped /\ faults = 0 => Cardinality(Live) <= 1

\* A code that was burned, retired, exhausted or deleted is never good again.
SpentStaysSpent ==
    [][\A c \in Row :
        /\ code[c].state \in {"consumed", "deleted"} => code'[c].state \in {"consumed", "deleted"}
        /\ tries'[c] # tries[c] => code[c].state = "live"]_otpVars

\* A number has one account, filed under the old hash or the new one, however sign-ins
\* and the upgrade of the hash interleave.
OneAccountPerNumber == users["legacy"] + users["current"] <= 1

\* A code opens no more sessions than it takes tries: who else holds it gets in only by
\* counting an attempt before the burn.
SessionsCostTries == \A c \in Row : opened[c] <= tries[c]

\* What verify-otp/route.ts says of the hash a session carries: it has to match what the
\* row actually holds, or the account's own bills and packets are hidden from it.
SessionHashMatches == \A hash \in sessions : users[hash] = 1
=============================================================================
