---------------------------- MODULE BackupEmail ----------------------------
(***************************************************************************)
(* The backup e-mail of one account: asked for, proven by the link,        *)
(* taken off.  web/app/api/account/email.                                  *)
(***************************************************************************)
EXTENDS Naturals, FiniteSets

CONSTANTS
    Address,
    Slot,         \* invocations that may be under way
    MaxChanges,   \* bound: rows pending_changes may ever hold
    MaxFaults     \* bound: mails and writes that fail, invocations killed

VARIABLES
    email,     \* users.email_hash, once email_verified_at is set
    changes,   \* pending_changes: the address and what became of the row
    taken,     \* addresses other accounts have proven
    mailed,    \* changes whose link was delivered
    stale,     \* changes older than EMAIL_TOKEN_TTL_MS
    work,      \* slot -> the invocation it runs
    raced,     \* history: two invocations have been under way at once
    failed

vars == <<email, changes, taken, mailed, stale, work, raced, failed>>

Change == 1 .. MaxChanges
NoAddress == "none"
NoChange == [address |-> NoAddress, state |-> "none"]
Idle == [at |-> "idle", address |-> NoAddress, change |-> 0]

TypeOK ==
    /\ email \in Address \cup {NoAddress}
    /\ changes \in [Change -> [address : Address \cup {NoAddress},
                               state : {"none", "open", "applied", "cancelled"}]]
    /\ taken \subseteq Address
    /\ mailed \subseteq Change /\ stale \subseteq Change
    /\ work \in [Slot -> [at : {"idle", "taken", "cancel", "insert", "mail", "apply", "close", "drop"},
                          address : Address \cup {NoAddress}, change : 0 .. MaxChanges]]
    /\ raced \in BOOLEAN
    /\ failed \in 0 .. MaxFaults

Init ==
    /\ email = NoAddress
    /\ changes = [c \in Change |-> NoChange]
    /\ taken \in SUBSET Address
    /\ mailed = {} /\ stale = {}
    /\ work = [s \in Slot |-> Idle]
    /\ raced = FALSE
    /\ failed = 0

At(s, at) == work[s].at = at
Return(s) == work' = [work EXCEPT ![s] = Idle]
Goto(s, at) == work' = [work EXCEPT ![s].at = at]
Fault == failed < MaxFaults /\ failed' = failed + 1
Begin(s, at, address, c) ==
    /\ At(s, "idle")
    /\ work' = [work EXCEPT ![s] = [at |-> at, address |-> address, change |-> c]]
    /\ raced' = (raced \/ \E t \in Slot : ~At(t, "idle"))

Rows == {c \in Change : changes[c].state # "none"}
Open == {c \in Change : changes[c].state = "open"}

-----------------------------------------------------------------------------
(* POST *)

StartAdd(s, address) ==
    /\ email = NoAddress
    /\ Begin(s, "taken", address, 0)
    /\ UNCHANGED <<email, changes, taken, mailed, stale, failed>>

\* Only a proven address of another account is in the way.
CheckTaken(s) ==
    /\ At(s, "taken")
    /\ IF work[s].address \in taken THEN Return(s) ELSE Goto(s, "cancel")
    /\ UNCHANGED <<email, changes, taken, mailed, stale, raced, failed>>

Stacked == changes
Cancelled == [c \in Change |-> IF c \in Open THEN [changes[c] EXCEPT !.state = "cancelled"] ELSE changes[c]]

\* The earlier attempts are cancelled; nobody looks whether the write failed.
CancelEarlier(s) ==
    /\ At(s, "cancel")
    /\ \/ changes' = Cancelled /\ UNCHANGED failed
       \/ Fault /\ UNCHANGED changes
    /\ Goto(s, "insert")
    /\ UNCHANGED <<email, taken, mailed, stale, raced>>

InsertChange(s) ==
    LET c == Cardinality(Rows) + 1 IN
    /\ At(s, "insert")
    /\ c \in Change
    /\ changes' = [changes EXCEPT ![c] = [address |-> work[s].address, state |-> "open"]]
    /\ work' = [work EXCEPT ![s].at = "mail", ![s].change = c]
    /\ UNCHANGED <<email, taken, mailed, stale, raced, failed>>

\* A mail that fails leaves the row open.
MailLink(s) ==
    /\ At(s, "mail")
    /\ \/ mailed' = mailed \cup {work[s].change} /\ UNCHANGED failed
       \/ Fault /\ mailed' \in {mailed, mailed \cup {work[s].change}}
    /\ Return(s)
    /\ UNCHANGED <<email, changes, taken, stale, raced>>

-----------------------------------------------------------------------------
(* GET /api/account/email/verify: no session, the token is the proof *)

Unapplied(c) == changes[c].state # "applied" /\ c \notin stale
Usable(c) == changes[c].state = "open" /\ c \notin stale

StartConfirm(s, c) ==
    /\ c \in mailed
    /\ Usable(c)
    /\ Begin(s, "apply", changes[c].address, c)
    /\ UNCHANGED <<email, changes, taken, mailed, stale, failed>>

\* The address that was read is written without asking again.
ApplyAddress(s) ==
    /\ At(s, "apply")
    /\ \/ email' = work[s].address /\ Goto(s, "close") /\ UNCHANGED failed
       \/ Fault /\ Return(s) /\ UNCHANGED email
    /\ UNCHANGED <<changes, taken, mailed, stale, raced>>

CloseChange(s) ==
    /\ At(s, "close")
    /\ \/ changes' = [changes EXCEPT ![work[s].change].state = "applied"] /\ UNCHANGED failed
       \/ Fault /\ UNCHANGED changes
    /\ Return(s)
    /\ UNCHANGED <<email, taken, mailed, stale, raced>>

-----------------------------------------------------------------------------
(* DELETE *)

StartRemove(s) ==
    /\ Begin(s, "drop", NoAddress, 0)
    /\ email' = NoAddress
    /\ UNCHANGED <<changes, taken, mailed, stale, failed>>

DropPending(s) ==
    /\ At(s, "drop")
    /\ \/ changes' = Cancelled /\ UNCHANGED failed
       \/ Fault /\ UNCHANGED changes
    /\ Return(s)
    /\ UNCHANGED <<email, taken, mailed, stale, raced>>

-----------------------------------------------------------------------------
\* An hour passes since a link was made.
LinkExpires(c) ==
    /\ c \in Open \ stale
    /\ stale' = stale \cup {c}
    /\ UNCHANGED <<email, changes, taken, mailed, work, raced, failed>>

Crash(s) ==
    /\ ~At(s, "idle")
    /\ Fault
    /\ Return(s)
    /\ UNCHANGED <<email, changes, taken, mailed, stale, raced>>

Next ==
    \/ \E s \in Slot :
        \/ \E address \in Address : StartAdd(s, address)
        \/ \E c \in Change : StartConfirm(s, c)
        \/ CheckTaken(s) \/ CancelEarlier(s) \/ InsertChange(s) \/ MailLink(s)
        \/ ApplyAddress(s) \/ CloseChange(s) \/ StartRemove(s) \/ DropPending(s) \/ Crash(s)
    \/ \E c \in Change : LinkExpires(c)

Spec == Init /\ [][Next]_vars

-----------------------------------------------------------------------------
(* Properties *)

Calm == ~raced /\ failed = 0

\* "The newest link is the only one that works", and an abandoned attempt is not resurrected:
\* so it is as long as handlers do not overlap and their writes do not fail.
NewestLinkWorks ==
    [][email' # email /\ email' # NoAddress /\ Calm =>
         \E c \in mailed : /\ changes[c].address = email'
                           /\ \A d \in Rows : d <= c]_vars

\* The same promise with nothing assumed, and the one of a removal: a cancelled change does
\* not become the address of the account.
CancelledStaysCancelled ==
    [][\A c \in Change : changes[c].state = "cancelled" => changes'[c].state # "applied"]_vars
=============================================================================
