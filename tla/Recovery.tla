------------------------------ MODULE Recovery ------------------------------
(***************************************************************************)
(* Moving an account whose number is lost: a link to the backup e-mail,    *)
(* the votes of its guardians, a second link, and the move to a new        *)
(* number.  web/app/api/recovery, web/lib/recovery.ts and                  *)
(* web/lib/recovery-vote.ts, over the sessions of the account.             *)
(*                                                                         *)
(* A handler is a job that ends a step at every await that writes; the     *)
(* reads that only refuse a request are one step with the first of them.   *)
(***************************************************************************)
EXTENDS Sessions

CONSTANTS
    Request,     \* rows recovery_requests may hold
    Guardian,    \* guardians of the account
    InApp,       \* those with a Saku account; the others answer by WhatsApp
    Job,         \* slots for invocations
    MaxLinks,    \* bound: finish links minted per request
    MaxChanges,  \* bound: guardians or the address removed, windows that end
    MaxFaults    \* bound: mails and writes that fail, invocations killed

ASSUME RecoveryAssumption ==
    /\ IsFiniteSet(Guardian) /\ InApp \subseteq Guardian
    /\ "none" \notin Request \cup Guardian
    /\ MaxLinks \in Nat /\ MaxChanges \in Nat /\ MaxFaults \in Nat

VARIABLES
    guardian,  \* guardians.status, cooling until effective_at
    backup,    \* users.email_verified_at: a backup e-mail is on file
    req,       \* recovery_requests
    seats,     \* recovery_request_guardians per request
    votes,     \* those of them with approved_at
    asked,     \* seats whose WhatsApp link is out and not burned
    mailed,    \* requests whose first link reached the inbox
    links,     \* finish links that reached the inbox, per request
    weekOver, dayOver, \* requests whose week, or whose day to finish, is over
    job,       \* slot -> the invocation it runs
    changes,   \* how much of MaxChanges has happened
    faults     \* how much of MaxFaults has happened

panelVars == <<seats, votes, asked>>
mailVars == <<mailed, links>>
clockVars == <<weekOver, dayOver, changes>>
rowVars == <<guardian, backup, req, panelVars, mailVars, clockVars>>
vars == <<sessionVars, rowVars, job, faults>>

None == "none"
MinQuorum == 2

\* link is 0 while finish_token_hash is null; minted numbers the links made so far.
NoRequest == [status |-> "none", verified |-> FALSE, reached |-> FALSE, required |-> 0,
              link |-> 0, minted |-> 0, window |-> "week"]
Requests == [status : {"none", "pending", "approved", "rejected", "expired"},
             verified : BOOLEAN, reached : BOOLEAN, required : Nat,
             link : 0 .. MaxLinks, minted : 0 .. MaxLinks, window : {"week", "day"}]

Change == changes < MaxChanges /\ changes' = changes + 1
Fault == faults < MaxFaults /\ faults' = faults + 1

NoJob == [at |-> "idle", r |-> None, g |-> None, panel |-> {}, link |-> 0, saw |-> 0,
          number |-> OldNumber]
Steps == {"idle", "replace", "insert", "seat", "bar", "confirm", "ask", "lapse",
          "reject", "record", "count", "address", "close", "decide", "mail", "undo", "burn",
          "owner", "claim", "revoke", "move", "release", "issue"}
Jobs == [at : Steps, r : Request \cup {None}, g : Guardian \cup {None},
         panel : SUBSET Guardian, link : 0 .. MaxLinks, saw : 0 .. MaxVersion,
         number : Number]

TypeOK ==
    /\ SessionsTypeOK
    /\ guardian \in [Guardian -> {"cooling", "active", "revoked"}]
    /\ backup \in BOOLEAN
    /\ req \in [Request -> Requests]
    /\ seats \in [Request -> SUBSET Guardian]
    /\ votes \in [Request -> SUBSET Guardian]
    /\ asked \in [Request -> SUBSET (Guardian \ InApp)]
    /\ mailed \subseteq Request
    /\ links \in [Request -> SUBSET (1 .. MaxLinks)]
    /\ weekOver \subseteq Request /\ dayOver \subseteq Request
    /\ job \in [Job -> Jobs]
    /\ changes \in 0 .. MaxChanges
    /\ faults \in 0 .. MaxFaults

Init ==
    /\ SessionsInit
    /\ guardian \in [Guardian -> {"cooling", "active"}]
    /\ backup = TRUE
    /\ req = [r \in Request |-> NoRequest]
    /\ seats = [r \in Request |-> {}]
    /\ votes = [r \in Request |-> {}]
    /\ asked = [r \in Request |-> {}]
    /\ mailed = {}
    /\ links = [r \in Request |-> {}]
    /\ weekOver = {} /\ dayOver = {}
    /\ job = [j \in Job |-> NoJob]
    /\ changes = 0 /\ faults = 0

-----------------------------------------------------------------------------
(* What the steps share: lib/recovery.ts and lib/guardians.ts. *)

At(j, at) == job[j].at = at
Goto(j, at) == job' = [job EXCEPT ![j].at = at]
Return(j) == job' = [job EXCEPT ![j] = NoJob]
Begin(j, at, r, g, panel, link, number) ==
    /\ At(j, "idle")
    /\ job' = [job EXCEPT ![j] = [at |-> at, r |-> r, g |-> g, panel |-> panel, link |-> link,
                                   saw |-> 0, number |-> number]]

Pending(r) == req[r].status = "pending"
Overdue(r) == IF req[r].window = "week" THEN r \in weekOver ELSE r \in dayOver
Eligible == {g \in Guardian : guardian[g] = "active"}

CanFormQuorum(panel) == Cardinality(panel) >= MinQuorum
AtLeast(n) == IF n > MinQuorum THEN n ELSE MinQuorum
RequiredOf(panel) == AtLeast(Cardinality(panel) \div 2 + 1)

\* A request takes votes: confirmed, its bar fixed, and the majority not yet in.
TakesVotes(r) ==
    /\ Pending(r) /\ ~Overdue(r)
    /\ req[r].verified /\ req[r].required # 0 /\ ~req[r].reached

\* The account's guardians and address change under the requests, and time passes.
CoolingEnds(g) ==
    /\ guardian[g] = "cooling"
    /\ guardian' = [guardian EXCEPT ![g] = "active"]
    /\ UNCHANGED <<sessionVars, backup, req, panelVars, mailVars, clockVars, job, faults>>

RevokeGuardian(g) ==
    /\ Change
    /\ \E t \in tokens : Live(t)
    /\ guardian[g] # "revoked"
    /\ guardian' = [guardian EXCEPT ![g] = "revoked"]
    /\ UNCHANGED <<sessionVars, backup, req, panelVars, mailVars, weekOver, dayOver, job, faults>>

RemoveBackupEmail ==
    /\ Change
    /\ \E t \in tokens : Live(t)
    /\ backup
    /\ backup' = FALSE
    /\ UNCHANGED <<sessionVars, guardian, req, panelVars, mailVars, weekOver, dayOver, job, faults>>

WeekEnds(r) ==
    /\ Change
    /\ Pending(r) /\ r \notin weekOver
    /\ weekOver' = weekOver \cup {r}
    /\ UNCHANGED <<sessionVars, guardian, backup, req, panelVars, mailVars, dayOver, job, faults>>

DayEnds(r) ==
    /\ Change
    /\ Pending(r) /\ req[r].window = "day" /\ r \notin dayOver
    /\ dayOver' = dayOver \cup {r}
    /\ UNCHANGED <<sessionVars, guardian, backup, req, panelVars, mailVars, weekOver, job, faults>>

-----------------------------------------------------------------------------
(* POST /api/recovery/start *)

\* The open request, if any, may be replaced: it is overdue or nobody confirmed it.
StartRecovery(j, open) ==
    /\ backup
    /\ CanFormQuorum(Eligible)
    /\ IF open = None THEN \A r \in Request : ~Pending(r)
                      ELSE Pending(open) /\ (Overdue(open) \/ ~req[open].verified)
    /\ Begin(j, IF open = None THEN "insert" ELSE "replace", open, None, {}, 0, OldNumber)
    /\ UNCHANGED <<sessionVars, rowVars, faults>>

Replace(j) ==
    LET open == job[j].r IN
    /\ At(j, "replace")
    /\ req' = IF Pending(open) THEN [req EXCEPT ![open].status = "expired"] ELSE req
    /\ Goto(j, "insert")
    /\ UNCHANGED <<sessionVars, guardian, backup, panelVars, mailVars, clockVars, faults>>

\* One open request per account: the row goes in and its link is mailed, or another
\* start was first.
InsertRequest(j, r) ==
    /\ At(j, "insert")
    /\ req[r].status = "none" /\ \A q \in Request : ~Pending(q)
    /\ req' = [req EXCEPT ![r].status = "pending"]
    /\ \/ mailed' = mailed \cup {r} /\ UNCHANGED faults
       \/ /\ Fault /\ UNCHANGED mailed
    /\ Return(j)
    /\ UNCHANGED <<sessionVars, guardian, backup, panelVars, links, clockVars>>

AlreadyOpen(j) ==
    /\ At(j, "insert")
    /\ \E q \in Request : Pending(q)
    /\ Return(j)
    /\ UNCHANGED <<sessionVars, rowVars, faults>>

-----------------------------------------------------------------------------
(* GET /api/recovery/verify-email *)

OpenLink(j, r) ==
    /\ r \in mailed
    /\ Pending(r) /\ ~Overdue(r) /\ ~req[r].reached /\ ~req[r].verified
    /\ IF CanFormQuorum(Eligible) THEN Begin(j, "seat", r, None, Eligible, 0, OldNumber)
                                  ELSE Begin(j, "confirm", r, None, {}, 0, OldNumber)
    /\ UNCHANGED <<sessionVars, rowVars, faults>>

SeatPanel(j) ==
    /\ At(j, "seat")
    /\ seats' = [seats EXCEPT ![job[j].r] = @ \cup job[j].panel]
    /\ Goto(j, "bar")
    /\ UNCHANGED <<sessionVars, guardian, backup, req, votes, asked, mailVars, clockVars, faults>>

FixBar(j) ==
    LET r == job[j].r IN
    /\ At(j, "bar")
    /\ req' = IF req[r].required = 0
              THEN [req EXCEPT ![r].required = RequiredOf(job[j].panel)] ELSE req
    /\ Goto(j, "confirm")
    /\ UNCHANGED <<sessionVars, guardian, backup, panelVars, mailVars, clockVars, faults>>

Everyone(panel) == panel
OnWhatsApp(panel) == panel \ InApp

\* Only the first confirmation goes on to ask the guardians.
Confirm(j) ==
    LET r == job[j].r IN
    /\ At(j, "confirm")
    /\ req' = [req EXCEPT ![r].verified = TRUE]
    /\ IF req[r].verified THEN Return(j)
       ELSE job' = [job EXCEPT ![j].at = "ask", ![j].panel = OnWhatsApp(@)]
    /\ UNCHANGED <<sessionVars, guardian, backup, panelVars, mailVars, clockVars, faults>>

\* One WhatsApp guardian: the link is filed unless the vote is in, then sent.
AskGuardian(j, g) ==
    LET r == job[j].r IN
    /\ At(j, "ask") /\ g \in job[j].panel
    /\ \/ /\ asked' = [asked EXCEPT ![r] = @ \cup ({g} \ votes[r])]
          /\ UNCHANGED faults
       \/ /\ Fault /\ UNCHANGED asked
    /\ job' = [job EXCEPT ![j].panel = @ \ {g}]
    /\ UNCHANGED <<sessionVars, guardian, backup, req, seats, votes, mailVars, clockVars>>

AllAsked(j) ==
    /\ At(j, "ask") /\ job[j].panel = {}
    /\ Return(j)
    /\ UNCHANGED <<sessionVars, rowVars, faults>>

-----------------------------------------------------------------------------
(* POST /api/recovery/[id]/approve and /api/recovery/approve/[token] *)

\* resolveSeat: a link votes once; in the app a guardian may answer again.
Answerable(r, g) ==
    /\ TakesVotes(r)
    /\ g \in seats[r] \cap Eligible
    /\ g \in InApp \/ g \in asked[r] \ votes[r]

StartVote(j, r, g, accept) ==
    /\ Answerable(r, g)
    /\ Begin(j, IF accept THEN "record" ELSE "reject", r, g, {}, 0, OldNumber)
    /\ UNCHANGED <<sessionVars, rowVars, faults>>

\* In the app, an answer that comes too late files the request as expired.
StartLapse(j, r) ==
    /\ InApp # {} /\ Pending(r) /\ Overdue(r)
    /\ Begin(j, "lapse", r, None, {}, 0, OldNumber)
    /\ UNCHANGED <<sessionVars, rowVars, faults>>

Lapse(j) ==
    /\ At(j, "lapse")
    /\ req' = [req EXCEPT ![job[j].r].status = "expired"]
    /\ Return(j)
    /\ UNCHANGED <<sessionVars, guardian, backup, panelVars, mailVars, clockVars, faults>>

\* castGuardianVote has answered: a WhatsApp link is burned.
Voted(j) == IF job[j].g \in InApp THEN Return(j) ELSE Goto(j, "burn")

Reject(j) ==
    LET r == job[j].r IN
    /\ At(j, "reject")
    /\ req' = IF Pending(r) THEN [req EXCEPT ![r].status = "rejected"] ELSE req
    /\ Voted(j)
    /\ UNCHANGED <<sessionVars, guardian, backup, panelVars, mailVars, clockVars, faults>>

OwnVoteTwice(r) == Cardinality(votes[r]) + 1 >= AtLeast(req[r].required)
Majority(r) == Cardinality(votes[r]) >= AtLeast(req[r].required)

CountThenRecord(j) ==
    /\ At(j, "record")
    /\ votes' = [votes EXCEPT ![job[j].r] = @ \cup {job[j].g}]
    /\ IF Majority(job[j].r) THEN Goto(j, "count") ELSE Voted(j)
    /\ UNCHANGED <<sessionVars, guardian, backup, req, seats, asked, mailVars, clockVars, faults>>

RecordVote(j) ==
    /\ At(j, "record")
    /\ votes' = [votes EXCEPT ![job[j].r] = @ \cup {job[j].g}]
    /\ Goto(j, "count")
    /\ UNCHANGED <<sessionVars, guardian, backup, req, seats, asked, mailVars, clockVars, faults>>

CountVotes(j) ==
    /\ At(j, "count")
    /\ IF Majority(job[j].r) THEN Goto(j, "address") ELSE Voted(j)
    /\ UNCHANGED <<sessionVars, rowVars, faults>>

ReadAddress(j) ==
    /\ At(j, "address")
    /\ Goto(j, IF backup THEN "decide" ELSE "close")
    /\ UNCHANGED <<sessionVars, rowVars, faults>>

\* The address was removed meanwhile: the request is closed.
NoBackupEmail(j) ==
    LET r == job[j].r IN
    /\ At(j, "close")
    /\ req' = IF Pending(r) THEN [req EXCEPT ![r].status = "expired"] ELSE req
    /\ Voted(j)
    /\ UNCHANGED <<sessionVars, guardian, backup, panelVars, mailVars, clockVars, faults>>

\* The first to write the majority mints the finish link; its day starts here.
Reach(j) ==
    LET r == job[j].r
        link == req[r].minted + 1
    IN
    /\ At(j, "decide")
    /\ IF Pending(r) /\ ~req[r].reached
       THEN /\ link <= MaxLinks
            /\ req' = [req EXCEPT ![r].reached = TRUE, ![r].link = link, ![r].minted = link,
                                  ![r].window = "day"]
            /\ dayOver' = dayOver \ {r}
            /\ job' = [job EXCEPT ![j].at = "mail", ![j].link = link]
       ELSE UNCHANGED <<req, dayOver>> /\ Voted(j)
    /\ UNCHANGED <<sessionVars, guardian, backup, panelVars, mailVars, weekOver, changes, faults>>

MailFinishLink(j) ==
    /\ At(j, "mail")
    /\ links' = [links EXCEPT ![job[j].r] = @ \cup {job[j].link}]
    /\ Voted(j)
    /\ UNCHANGED <<sessionVars, guardian, backup, req, panelVars, mailed, clockVars, faults>>

\* The mailer throws, whether or not the message went out.
MailFails(j) ==
    /\ At(j, "mail")
    /\ Fault
    /\ \/ UNCHANGED links
       \/ links' = [links EXCEPT ![job[j].r] = @ \cup {job[j].link}]
    /\ Goto(j, "undo")
    /\ UNCHANGED <<sessionVars, guardian, backup, req, panelVars, mailed, clockVars>>

\* The majority is taken back, by id alone, and the handler throws.
Undo(j) ==
    /\ At(j, "undo")
    /\ req' = [req EXCEPT ![job[j].r].reached = FALSE, ![job[j].r].link = 0,
                          ![job[j].r].window = "week"]
    /\ Return(j)
    /\ UNCHANGED <<sessionVars, guardian, backup, panelVars, mailVars, clockVars, faults>>

BurnLink(j) ==
    /\ At(j, "burn")
    /\ asked' = [asked EXCEPT ![job[j].r] = @ \ {job[j].g}]
    /\ Return(j)
    /\ UNCHANGED <<sessionVars, guardian, backup, req, seats, votes, mailVars, clockVars, faults>>

-----------------------------------------------------------------------------
(* POST /api/recovery/complete, with the finish link's ticket and a code for the new number *)

CanComplete(r, link) ==
    /\ link \in links[r] /\ req[r].link = link
    /\ Pending(r) /\ ~Overdue(r) /\ req[r].verified /\ req[r].reached

StartComplete(j, r, link, n) ==
    /\ CanComplete(r, link)
    /\ Begin(j, "owner", r, None, {}, link, n)
    /\ UNCHANGED <<sessionVars, rowVars, faults>>

\* The new number has no account; the owner's row is read.
ReadOwner(j) ==
    /\ At(j, "owner")
    /\ IF job[j].number = phone THEN Return(j)
       ELSE job' = [job EXCEPT ![j].at = "claim", ![j].saw = version]
    /\ UNCHANGED <<sessionVars, rowVars, faults>>

ById(r, link) == TRUE
AnyStatus(r, link) == req[r].link = link
SameLinkStillOpen(r, link) == Pending(r) /\ req[r].link = link

ClaimFinish(j) ==
    LET r == job[j].r IN
    /\ At(j, "claim")
    /\ IF SameLinkStillOpen(r, job[j].link)
       THEN /\ req' = [req EXCEPT ![r].status = "approved", ![r].link = 0]
            /\ Goto(j, "revoke")
       ELSE UNCHANGED req /\ Return(j)
    /\ UNCHANGED <<sessionVars, guardian, backup, panelVars, mailVars, clockVars, faults>>

\* token_version is written from what was read.
RevokeSessions(j) ==
    /\ At(j, "revoke")
    /\ \/ /\ job[j].saw < MaxVersion
          /\ version' = job[j].saw + 1
          /\ Goto(j, "move") /\ UNCHANGED faults
       \/ /\ Fault
          /\ version' \in {version, job[j].saw + 1} \cap (0 .. MaxVersion)
          /\ Goto(j, "release")
    /\ UNCHANGED <<phone, tokens, dead, visit, rowVars>>

\* migrate_phone_hash: it moves the account, refuses, or its answer is lost.
MoveNumber(j) ==
    /\ At(j, "move")
    /\ \/ phone' = job[j].number /\ Goto(j, "issue") /\ UNCHANGED faults
       \/ /\ Fault
          /\ phone' \in {phone, job[j].number}
          /\ Goto(j, "release")
    /\ UNCHANGED <<version, tokens, dead, visit, rowVars>>

\* By id alone; a second open request of the account refuses it, unheard.
Release(j) ==
    LET r == job[j].r IN
    /\ At(j, "release")
    /\ req' = IF \E q \in Request \ {r} : Pending(q) THEN req
              ELSE [req EXCEPT ![r].status = "pending", ![r].link = job[j].link]
    /\ Return(j)
    /\ UNCHANGED <<sessionVars, guardian, backup, panelVars, mailVars, clockVars, faults>>

SignIn(j) ==
    /\ At(j, "issue")
    /\ tokens' = tokens \cup {[version |-> job[j].saw + 1, holder |-> job[j].number]}
    /\ Return(j)
    /\ UNCHANGED <<version, phone, dead, visit, rowVars, faults>>

-----------------------------------------------------------------------------
Crash(j) ==
    /\ ~At(j, "idle")
    /\ Fault
    /\ Return(j)
    /\ UNCHANGED <<sessionVars, rowVars>>

Starts(j) ==
    \/ \E open \in Request \cup {None} : StartRecovery(j, open)
    \/ \E r \in Request :
        \/ OpenLink(j, r)
        \/ StartLapse(j, r)
        \/ \E g \in Guardian, accept \in BOOLEAN : StartVote(j, r, g, accept)
        \/ \E link \in 1 .. MaxLinks, n \in Number : StartComplete(j, r, link, n)

Goes(j) ==
    \/ Replace(j) \/ AlreadyOpen(j) \/ \E r \in Request : InsertRequest(j, r)
    \/ SeatPanel(j) \/ FixBar(j) \/ Confirm(j) \/ AllAsked(j)
    \/ \E g \in Guardian : AskGuardian(j, g)
    \/ Lapse(j) \/ Reject(j) \/ RecordVote(j) \/ CountVotes(j)
    \/ ReadAddress(j) \/ NoBackupEmail(j)
    \/ Reach(j) \/ MailFinishLink(j) \/ MailFails(j) \/ Undo(j) \/ BurnLink(j)
    \/ ReadOwner(j) \/ ClaimFinish(j) \/ RevokeSessions(j) \/ MoveNumber(j)
    \/ Release(j) \/ SignIn(j)

World ==
    \/ RemoveBackupEmail
    \/ \E g \in Guardian : CoolingEnds(g) \/ RevokeGuardian(g)
    \/ \E r \in Request : WeekEnds(r) \/ DayEnds(r)
    \/ SessionsNext /\ UNCHANGED <<rowVars, job, faults>>

Next == World \/ \E j \in Job : Starts(j) \/ Goes(j) \/ Crash(j)

Spec == Init /\ [][Next]_vars

-----------------------------------------------------------------------------
(* Properties *)

\* The number moves only for a request the backup e-mail confirmed and that two
\* guardians of its panel, and no fewer than its bar, have approved
\* (lib/recovery.ts: "no one person can recover an account").
MoveIsVouched ==
    [][phone' # phone =>
        \E j \in Job :
            LET r == job[j].r IN
            /\ At(j, "move") /\ phone' = job[j].number
            /\ req[r].verified
            /\ votes[r] \subseteq seats[r]
            /\ Cardinality(votes[r]) >= AtLeast(req[r].required)]_vars

\* A guardian's "no" ends the request for good: no undo, release, claim or late
\* vote brings it back.
RejectionIsFinal ==
    [][\A r \in Request :
        req[r].status = "rejected" => req'[r].status \in {"rejected", "expired"}]_vars

\* Of the submits that share a finish link, at most one is past the claim.
Finishing(j) == job[j].at \in {"revoke", "move", "release", "issue"}
OneFinisher ==
    \A i, j \in Job : Finishing(i) /\ Finishing(j) /\ job[i].r = job[j].r => i = j

\* Until a recovery gets as far as a finish link, sign-outs are final.
SignOutsHold == (\A r \in Request : req[r].minted = 0) => SignedOutStaysOut

\* With no mail failing and no invocation killed, a majority of votes is a finish link or
\* somebody is still making it one: two deciding votes never leave it to each other.
MajorityIsHeard ==
    faults = 0 =>
        \A r \in Request :
            Pending(r) /\ req[r].required # 0 /\ Majority(r) =>
                \/ req[r].reached
                \/ \E j \in Job : job[j].r = r /\ job[j].at \in {"count", "address", "close", "decide"}
NoMajorityIsLost == TypeOK /\ MajorityIsHeard

\* What complete/route.ts says of the order of its steps: the account is never on the
\* new number with the old holder still signed in.
OldHolderIsOut == phone # OldNumber => \A t \in tokens : Live(t) => t.holder # OldNumber
=============================================================================
