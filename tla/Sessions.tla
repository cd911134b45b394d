------------------------------ MODULE Sessions ------------------------------
(***************************************************************************)
(* Who is signed in to one account: users.token_version, the tokens issued *)
(* and the number the account is filed under.  web/lib/session.ts,         *)
(* web/app/api/verify-otp and web/app/api/logout.                          *)
(*                                                                         *)
(* A token is good while its version is the account's.  Renewal (/api/me)  *)
(* issues the version it has just checked, which adds no token here.       *)
(***************************************************************************)
EXTENDS Naturals, FiniteSets

CONSTANTS
    Number,       \* phone numbers, each the person who answers it
    OldNumber,    \* the number the account starts on
    Visit,        \* slots for sign-in and sign-out requests
    MaxVersion    \* bound: the largest token_version

ASSUME SessionsAssumption ==
    /\ OldNumber \in Number
    /\ MaxVersion \in Nat

VARIABLES
    version,  \* users.token_version
    phone,    \* users.phone_hash
    tokens,   \* tokens issued: their version and whose number asked for them
    dead,     \* tokens a sign-out has answered for
    visit     \* slot -> the request it runs

sessionVars == <<version, phone, tokens, dead, visit>>

Token == [version : 0 .. MaxVersion, holder : Number]
NoVisit == [at |-> "idle", version |-> 0, holder |-> OldNumber]
Visits == [at : {"idle", "issue", "bump"}, version : 0 .. MaxVersion, holder : Number]

SessionsTypeOK ==
    /\ version \in 0 .. MaxVersion
    /\ phone \in Number
    /\ tokens \subseteq Token
    /\ dead \subseteq Token
    /\ visit \in [Visit -> Visits]

SessionsInit ==
    /\ version = 0
    /\ phone = OldNumber
    /\ tokens = {[version |-> 0, holder |-> OldNumber]}
    /\ dead = {}
    /\ visit = [v \in Visit |-> NoVisit]

\* getSession: the token's version is still the account's.
Live(t) == t \in tokens /\ t.version = version

-----------------------------------------------------------------------------
(* POST /api/verify-otp, once the code is accepted *)

\* The number finds the account: its id and token_version are read.
StartSignIn(v, n) ==
    /\ visit[v].at = "idle"
    /\ phone = n
    /\ visit' = [visit EXCEPT ![v] = [at |-> "issue", version |-> version, holder |-> n]]
    /\ UNCHANGED <<version, phone, tokens, dead>>

\* generateToken, after the account's other columns are written.
IssueSession(v) ==
    /\ visit[v].at = "issue"
    /\ tokens' = tokens \cup {[version |-> visit[v].version, holder |-> visit[v].holder]}
    /\ visit' = [visit EXCEPT ![v] = NoVisit]
    /\ UNCHANGED <<version, phone, dead>>

-----------------------------------------------------------------------------
(* POST /api/logout *)

StartSignOut(v, t) ==
    /\ visit[v].at = "idle"
    /\ Live(t)
    /\ version < MaxVersion
    /\ visit' = [visit EXCEPT ![v] = [at |-> "bump", version |-> version + 1,
                                      holder |-> t.holder]]
    /\ UNCHANGED <<version, phone, tokens, dead>>

WriteRegardless(next) == next

\* update users set token_version = next where token_version < next
Raised(next) == IF version < next THEN next ELSE version

\* Every token older than the version this sign-out asked for is over.
Bump(v) ==
    /\ visit[v].at = "bump"
    /\ version' = Raised(visit[v].version)
    /\ dead' = dead \cup {t \in tokens : t.version < visit[v].version}
    /\ visit' = [visit EXCEPT ![v] = NoVisit]
    /\ UNCHANGED <<phone, tokens>>

SessionsNext ==
    \E v \in Visit :
        \/ \E n \in Number : StartSignIn(v, n)
        \/ \E t \in tokens : StartSignOut(v, t)
        \/ IssueSession(v)
        \/ Bump(v)

-----------------------------------------------------------------------------
\* What a sign-out has ended stays ended: no token it answered for is good again,
\* however sign-ins and sign-outs interleave (logout/route.ts: "invalidates every
\* token ever issued to this user, on every device, at once").
SignedOutStaysOut == \A t \in dead : ~Live(t)
=============================================================================
