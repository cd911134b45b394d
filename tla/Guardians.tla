----------------------------- MODULE Guardians -----------------------------
(***************************************************************************)
(* The guardians of one account: invited in the app or over WhatsApp,      *)
(* answering in the app or through the link, removed by the owner.         *)
(* web/app/api/guardians.  A row is [how, who, status, cooling]: cooling   *)
(* is the clock of effective_at once the invitation was accepted.          *)
(***************************************************************************)
EXTENDS Naturals, FiniteSets

CONSTANTS
    Person,        \* people who may be asked
    Slot,          \* invocations that may be under way
    MAX_GUARDIANS,
    MaxSeats,      \* bound: rows guardians may ever hold
    MaxFaults      \* bound: sends and writes that fail, invocations killed

VARIABLES
    seats,      \* the rows
    registered, \* people with an account
    links,      \* rows whose link reached a phone
    lapsed,     \* rows whose invitation is older than GUARDIAN_INVITE_TTL_MS
    told,       \* rows the owner has had a notification about
    handler,    \* slot -> the invocation it runs
    failures

vars == <<seats, registered, links, lapsed, told, handler, failures>>

Seat == 1 .. MaxSeats
NoSeat == [how |-> "none", who |-> "none", status |-> "none", cooling |-> "none"]
Idle == [at |-> "idle", seat |-> 0, who |-> "none", how |-> "none"]

TypeOK ==
    /\ seats \in [Seat -> [how : {"none", "account", "number"}, who : Person \cup {"none"},
                           status : {"none", "invited", "pending", "revoked", "deleted"},
                           cooling : {"none", "running", "over"}]]
    /\ registered \subseteq Person
    /\ links \subseteq Seat /\ lapsed \subseteq Seat /\ told \subseteq Seat
    /\ handler \in [Slot -> [at : {"idle", "insert", "send", "delete", "accept", "decline", "tell"},
                             seat : 0 .. MaxSeats, who : Person \cup {"none"},
                             how : {"none", "account", "number"}]]
    /\ failures \in 0 .. MaxFaults

Init ==
    /\ seats = [g \in Seat |-> NoSeat]
    /\ registered \in SUBSET Person
    /\ links = {} /\ lapsed = {} /\ told = {}
    /\ handler = [s \in Slot |-> Idle]
    /\ failures = 0

At(s, at) == handler[s].at = at
Return(s) == handler' = [handler EXCEPT ![s] = Idle]
Goto(s, at) == handler' = [handler EXCEPT ![s].at = at]
Fault == failures < MaxFaults /\ failures' = failures + 1

Written == {g \in Seat : seats[g].status # "none"}
Held == {g \in Seat : seats[g].status \in {"invited", "pending"}}
isGuardianEligible(g) == seats[g].status # "revoked" /\ seats[g].cooling = "over"

-----------------------------------------------------------------------------
(* POST /api/guardians *)

\* Found by the number, or by the contact that carries an account; counted only when found.
StartInvite(s, p) ==
    /\ At(s, "idle")
    /\ p \in registered => Cardinality(Held) < MAX_GUARDIANS
    /\ handler' = [handler EXCEPT ![s] =
                     [at |-> "insert", seat |-> 0, who |-> p,
                      how |-> IF p \in registered THEN "account" ELSE "number"]]
    /\ UNCHANGED <<seats, registered, links, lapsed, told, failures>>

\* What the trigger and the partial unique index let in.
Accepts(p, how) ==
    /\ Cardinality(Held) < MAX_GUARDIANS
    /\ \A g \in Held : ~(seats[g].who = p /\ seats[g].how = how)

InsertSeat(s) ==
    LET g == Cardinality(Written) + 1
        p == handler[s].who
        how == handler[s].how
    IN
    /\ At(s, "insert")
    /\ IF Accepts(p, how)
       THEN /\ g \in Seat
            /\ seats' = [seats EXCEPT ![g] = [how |-> how, who |-> p, status |-> "invited", cooling |-> "none"]]
            /\ handler' = [handler EXCEPT ![s].seat = g,
                                          ![s].at = IF how = "number" THEN "send" ELSE "tell"]
       ELSE Return(s) /\ UNCHANGED seats
    /\ UNCHANGED <<registered, links, lapsed, told, failures>>

\* The gateway answers "sent", or anything else, whether or not the message goes out.
SendInvite(s) ==
    LET g == handler[s].seat IN
    /\ At(s, "send")
    /\ \/ links' = links \cup {g} /\ Goto(s, "tell") /\ UNCHANGED failures
       \/ Fault /\ links' \in {links, links \cup {g}} /\ Goto(s, "delete")
    /\ UNCHANGED <<seats, registered, lapsed, told>>

\* The row is deleted by its id, whatever has become of it, and nobody looks whether it was.
DeleteSeat(s) ==
    /\ At(s, "delete")
    /\ \/ seats' = [seats EXCEPT ![handler[s].seat].status = "deleted"] /\ UNCHANGED failures
       \/ Fault /\ UNCHANGED seats
    /\ Return(s)
    /\ UNCHANGED <<registered, links, lapsed, told>>

GuardianOnly(g) == told
AfterInsert(g) == told \cup {g}

\* notifyOwnerOfNewGuardian, and notifyOwner after an answer.
TellOwner(s) ==
    /\ At(s, "tell")
    /\ \/ told' = AfterInsert(handler[s].seat) /\ UNCHANGED failures
       \/ Fault /\ UNCHANGED told
    /\ Return(s)
    /\ UNCHANGED <<seats, registered, links, lapsed>>

-----------------------------------------------------------------------------
(* POST /api/guardians/[id]/approve and /api/guardians/invite/[token] *)

\* In the app the row must name the account; the link must be unanswered and in its time.
MayAnswer(g) ==
    /\ seats[g].status = "invited"
    /\ seats[g].how = "number" => g \in links \ lapsed

StartAnswer(s, g, answer) ==
    /\ At(s, "idle")
    /\ MayAnswer(g)
    /\ handler' = [handler EXCEPT ![s] = [at |-> answer, seat |-> g, who |-> seats[g].who, how |-> seats[g].how]]
    /\ UNCHANGED <<seats, registered, links, lapsed, told, failures>>

\* update ... where id and status = 'invited'
ByIdAlone(g) == seats[g].status # "deleted"
StillInvited(g) == seats[g].status = "invited"

Accept(s) ==
    LET g == handler[s].seat IN
    /\ At(s, "accept")
    /\ IF StillInvited(g)
       THEN /\ seats' = [seats EXCEPT ![g].status = "pending", ![g].cooling = "running"]
            /\ Goto(s, "tell")
       ELSE Return(s) /\ UNCHANGED seats
    /\ UNCHANGED <<registered, links, lapsed, told, failures>>

\* A no through the link is told to the owner, a no in the app is not.
Decline(s) ==
    LET g == handler[s].seat IN
    /\ At(s, "decline")
    /\ seats' = [seats EXCEPT ![g].status = IF StillInvited(g) THEN "revoked" ELSE @]
    /\ IF seats[g].how = "number" THEN Goto(s, "tell") ELSE Return(s)
    /\ UNCHANGED <<registered, links, lapsed, told, failures>>

-----------------------------------------------------------------------------
\* DELETE /api/guardians/[id]: one statement.
RevokeGuardian(g) ==
    /\ g \in Held
    /\ seats' = [seats EXCEPT ![g].status = "revoked"]
    /\ UNCHANGED <<registered, links, lapsed, told, handler, failures>>

\* A day after the acceptance. An invocation does not last a day.
CoolingEnds(g) ==
    /\ seats[g].cooling = "running"
    /\ \A s \in Slot : handler[s].seat # g
    /\ seats' = [seats EXCEPT ![g].cooling = "over"]
    /\ UNCHANGED <<registered, links, lapsed, told, handler, failures>>

\* Two weeks after an invitation its link is dead.
InviteLapses(g) ==
    /\ g \in links \ lapsed
    /\ lapsed' = lapsed \cup {g}
    /\ UNCHANGED <<seats, registered, links, told, handler, failures>>

Register(p) ==
    /\ registered' = registered \cup {p}
    /\ UNCHANGED <<seats, links, lapsed, told, handler, failures>>

Crash(s) ==
    /\ ~At(s, "idle")
    /\ Fault
    /\ Return(s)
    /\ UNCHANGED <<seats, registered, links, lapsed, told>>

Next ==
    \/ \E s \in Slot :
        \/ \E p \in Person : StartInvite(s, p)
        \/ \E g \in Seat, answer \in {"accept", "decline"} : StartAnswer(s, g, answer)
        \/ InsertSeat(s) \/ SendInvite(s) \/ DeleteSeat(s) \/ TellOwner(s)
        \/ Accept(s) \/ Decline(s) \/ Crash(s)
    \/ \E g \in Seat : RevokeGuardian(g) \/ CoolingEnds(g) \/ InviteLapses(g)
    \/ \E p \in Person : Register(p)

Spec == Init /\ [][Next]_vars

-----------------------------------------------------------------------------
(* Properties *)

\* Who may vouch was announced to the owner: it takes two failures, the one of the notice at
\* the invitation and the one at the acceptance, to arm a guardian silently.
OwnerIsTold == failures < 2 => \A g \in Seat : isGuardianEligible(g) => g \in told

\* An answer is given once: no second tap, on whichever device, restarts the clock or brings
\* back a row that was refused or removed.
AnswersAreFinal ==
    [][\A g \in Seat :
        /\ seats[g].status \in {"revoked", "deleted"} => seats'[g].status \in {"revoked", "deleted"}
        /\ seats[g].cooling # "none" => seats'[g].cooling \in {seats[g].cooling, "over"}
        /\ seats[g].cooling = "none" /\ seats'[g].cooling # "none" => seats[g].status = "invited"]_vars

\* What guardians/route.ts says of a guardian: a second human. Nobody is two of them.
GuardiansAreDistinct ==
    \A g, h \in Held : g # h /\ seats[g].cooling # "none" /\ seats[h].cooling # "none" => seats[g].who # seats[h].who
=============================================================================
