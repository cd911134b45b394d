-------------------------- MODULE Recovery_proofs --------------------------
(* Theorems about Recovery, for every number of guardians, requests and jobs. *)
EXTENDS Recovery, FiniteSetTheorems, TLAPS

\* A request that takes votes, or took them; and one its guardians have approved.
Opened(r) == req[r].verified /\ req[r].required # 0
Vouched(r) == Opened(r) /\ Majority(r)

\* Only seats vote, and a majority that is written is a majority of votes.
RowsOK == \A r \in Request : votes[r] \subseteq seats[r] /\ (req[r].reached => Vouched(r))

\* What a handler has found out stays true while it runs.
JobOK(j) ==
    /\ job[j].at \notin {"idle", "insert"} => job[j].r \in Request
    /\ job[j].at \in {"record", "count", "address", "close", "decide"} =>
           Opened(job[j].r) /\ job[j].g \in seats[job[j].r]
    /\ job[j].at \in {"address", "close", "decide", "owner", "claim", "revoke", "move"} =>
           Vouched(job[j].r)
    /\ job[j].at = "ask" => job[j].panel \cap InApp = {}
    /\ job[j].at = "mail" => job[j].link # 0
    /\ job[j].at \in {"move", "issue"} => job[j].saw < MaxVersion
JobsOK == \A j \in Job : JobOK(j)

RecoveryInv == TypeOK /\ RowsOK /\ JobsOK

\* The steps that only move a handler on keep the shape of the jobs.
LEMMA GotoTypes ==
    ASSUME job \in [Job -> Jobs], NEW j \in Job, NEW at \in Steps, Goto(j, at)
    PROVE  job' \in [Job -> Jobs]
BY DEF Goto, Jobs

LEMMA ReturnTypes ==
    ASSUME job \in [Job -> Jobs], NEW j \in Job, Return(j), SessionsAssumption
    PROVE  job' \in [Job -> Jobs]
<1>1. NoJob \in Jobs
  BY SessionsAssumption, RecoveryAssumption DEF NoJob, Jobs, Steps, SessionsAssumption,
     RecoveryAssumption
<1>2. QED
  BY <1>1 DEF Return

LEMMA VotedTypes ==
    ASSUME job \in [Job -> Jobs], NEW j \in Job, Voted(j), SessionsAssumption
    PROVE  job' \in [Job -> Jobs]
BY GotoTypes, ReturnTypes DEF Voted, Steps

LEMMA BeginTypes ==
    ASSUME job \in [Job -> Jobs], NEW j \in Job, NEW at \in Steps, NEW r \in Request \cup {None},
           NEW g \in Guardian \cup {None}, NEW panel \in SUBSET Guardian,
           NEW link \in 0 .. MaxLinks, NEW n \in Number, Begin(j, at, r, g, panel, link, n)
    PROVE  job' \in [Job -> Jobs]
<1>1. [at |-> at, r |-> r, g |-> g, panel |-> panel, link |-> link, saw |-> 0, number |-> n] \in Jobs
  BY SessionsAssumption DEF Jobs, SessionsAssumption
<1>2. QED
  BY <1>1 DEF Begin


\* So does one field of a request.
LEMMA StatusTypes ==
    ASSUME req \in [Request -> Requests], NEW r \in Request,
           NEW status \in {"none", "pending", "approved", "rejected", "expired"},
           req' = [req EXCEPT ![r].status = status]
    PROVE  req' \in [Request -> Requests]
BY DEF Requests

\* A panel is a finite set.
LEMMA PanelsAreFinite ==
    ASSUME NEW panel \in SUBSET Guardian
    PROVE  IsFiniteSet(panel) /\ Cardinality(panel) \in Nat
BY RecoveryAssumption, FS_Subset, FS_CardinalityType DEF RecoveryAssumption

\* A job that is under way is about a request.
LEMMA JobRequest ==
    ASSUME JobsOK, NEW j \in Job, job[j].at \notin {"idle", "insert"}
    PROVE  job[j].r \in Request
BY DEF JobsOK, JobOK

\* Every step of a handler keeps the types.
LEMMA StepTypes ==
    ASSUME TypeOK, JobsOK, NEW j \in Job, Starts(j) \/ Goes(j) \/ Crash(j)
    PROVE  TypeOK'
<1>1. /\ 0 \in 0 .. MaxLinks /\ OldNumber \in Number
      /\ MaxLinks \in Nat /\ MaxVersion \in Nat /\ MaxFaults \in Nat
      /\ InApp \subseteq Guardian
  BY SessionsAssumption, RecoveryAssumption DEF SessionsAssumption, RecoveryAssumption
<1>2. /\ job \in [Job -> Jobs] /\ job[j] \in Jobs
      /\ req \in [Request -> Requests]
  BY DEF TypeOK
<1>3. job[j].at \notin {"idle", "insert"} => job[j].r \in Request
  BY JobRequest
<1>4. ASSUME NEW open \in Request \cup {None}, StartRecovery(j, open) PROVE TypeOK'
  <2>1. PICK at \in {"insert", "replace"} : Begin(j, at, open, None, {}, 0, OldNumber)
    BY <1>4 DEF StartRecovery
  <2>2. at \in Steps
    BY DEF Steps
  <2>3. job' \in [Job -> Jobs]
    BY <1>1, <1>2, <2>1, <2>2, BeginTypes
  <2>4. QED
    BY <1>4, <2>3 DEF StartRecovery, TypeOK, SessionsTypeOK, sessionVars, rowVars, panelVars,
       mailVars, clockVars
<1>5. ASSUME NEW r \in Request, OpenLink(j, r) PROVE TypeOK'
  <2>1. PICK at \in {"seat", "confirm"}, panel \in SUBSET Guardian :
            Begin(j, at, r, None, panel, 0, OldNumber)
    BY <1>5 DEF OpenLink, Eligible
  <2>2. at \in Steps
    BY DEF Steps
  <2>3. job' \in [Job -> Jobs]
    BY <1>1, <1>2, <2>1, <2>2, BeginTypes
  <2>4. QED
    BY <1>5, <2>3 DEF OpenLink, TypeOK, SessionsTypeOK, sessionVars, rowVars, panelVars, mailVars,
       clockVars
<1>6. ASSUME NEW r \in Request, StartLapse(j, r) PROVE TypeOK'
  <2>1. PICK at \in {"lapse"} : Begin(j, at, r, None, {}, 0, OldNumber)
    BY <1>6 DEF StartLapse
  <2>2. at \in Steps
    BY DEF Steps
  <2>3. job' \in [Job -> Jobs]
    BY <1>1, <1>2, <2>1, <2>2, BeginTypes
  <2>4. QED
    BY <1>6, <2>3 DEF StartLapse, TypeOK, SessionsTypeOK, sessionVars, rowVars, panelVars, mailVars,
       clockVars
<1>7. ASSUME NEW r \in Request, NEW g \in Guardian, NEW accept \in BOOLEAN,
             StartVote(j, r, g, accept)
      PROVE  TypeOK'
  <2>1. PICK at \in {"record", "reject"} : Begin(j, at, r, g, {}, 0, OldNumber)
    BY <1>7 DEF StartVote
  <2>2. at \in Steps
    BY DEF Steps
  <2>3. job' \in [Job -> Jobs]
    BY <1>1, <1>2, <2>1, <2>2, BeginTypes
  <2>4. QED
    BY <1>7, <2>3 DEF StartVote, TypeOK, SessionsTypeOK, sessionVars, rowVars, panelVars, mailVars,
       clockVars
<1>8. ASSUME NEW r \in Request, NEW link \in 1 .. MaxLinks, NEW n \in Number,
             StartComplete(j, r, link, n)
      PROVE  TypeOK'
  <2>1. PICK at \in {"owner"} : Begin(j, at, r, None, {}, link, n)
    BY <1>8 DEF StartComplete
  <2>2. at \in Steps
    BY DEF Steps
  <2>3. job' \in [Job -> Jobs]
    <3>1. link \in 0 .. MaxLinks
      BY <1>1
    <3>2. QED
      BY <1>1, <1>2, <2>1, <2>2, <3>1, BeginTypes
  <2>4. QED
    BY <1>8, <2>3 DEF StartComplete, TypeOK, SessionsTypeOK, sessionVars, rowVars, panelVars,
       mailVars, clockVars
<1>9. ASSUME Replace(j) PROVE TypeOK'
  <2>1. job' \in [Job -> Jobs]
    BY <1>1, <1>2, <1>9, GotoTypes DEF Replace, Steps
  <2>2. req' \in [Request -> Requests]
    BY <1>2, <1>3, <1>9, StatusTypes DEF Replace, At
  <2>3. QED
    BY <1>1, <1>2, <1>3, <1>9, <2>1, <2>2 DEF Replace, TypeOK, SessionsTypeOK, sessionVars, rowVars,
       panelVars, mailVars, clockVars
<1>10. ASSUME AlreadyOpen(j) PROVE TypeOK'
  <2>1. job' \in [Job -> Jobs]
    BY <1>1, <1>2, <1>10, ReturnTypes, SessionsAssumption DEF AlreadyOpen
  <2>2. QED
    BY <1>1, <1>2, <1>3, <1>10, <2>1 DEF AlreadyOpen, TypeOK, SessionsTypeOK, sessionVars, rowVars,
       panelVars, mailVars, clockVars
<1>11. ASSUME NEW r \in Request, InsertRequest(j, r) PROVE TypeOK'
  <2>1. job' \in [Job -> Jobs]
    BY <1>1, <1>2, <1>11, ReturnTypes, SessionsAssumption DEF InsertRequest
  <2>2. req' \in [Request -> Requests]
    BY <1>2, <1>3, <1>11, StatusTypes DEF InsertRequest, At
  <2>3. QED
    BY <1>1, <1>2, <1>3, <1>11, <2>1, <2>2 DEF InsertRequest, TypeOK, SessionsTypeOK, sessionVars,
       rowVars, panelVars, mailVars, clockVars, Fault
<1>12. ASSUME SeatPanel(j) PROVE TypeOK'
  <2>1. job' \in [Job -> Jobs]
    BY <1>1, <1>2, <1>12, GotoTypes DEF SeatPanel, Steps
  <2>2. QED
    BY <1>1, <1>2, <1>3, <1>12, <2>1 DEF SeatPanel, TypeOK, SessionsTypeOK, sessionVars, rowVars,
       panelVars, mailVars, clockVars, At, Jobs
<1>13. ASSUME FixBar(j) PROVE TypeOK'
  <2>1. job' \in [Job -> Jobs]
    BY <1>1, <1>2, <1>13, GotoTypes DEF FixBar, Steps
  <2>2. req' \in [Request -> Requests]
    <3>1. RequiredOf(job[j].panel) \in Nat
      <4>1. Cardinality(job[j].panel) \in Nat
        BY <1>2, PanelsAreFinite DEF Jobs
      <4>2. QED
        BY <4>1 DEF RequiredOf, AtLeast, MinQuorum
    <3>2. QED
      BY <1>2, <1>3, <1>13, <3>1 DEF FixBar, At, Requests
  <2>3. QED
    BY <1>1, <1>2, <1>3, <1>13, <2>1, <2>2 DEF FixBar, TypeOK, SessionsTypeOK, sessionVars, rowVars,
       panelVars, mailVars, clockVars
<1>14. ASSUME Confirm(j) PROVE TypeOK'
  <2>1. job' \in [Job -> Jobs]
    BY <1>1, <1>2, <1>14, ReturnTypes, SessionsAssumption DEF Confirm, Steps, OnWhatsApp, Jobs
  <2>2. req' \in [Request -> Requests]
    BY <1>2, <1>3, <1>14 DEF Confirm, At, Requests
  <2>3. QED
    BY <1>1, <1>2, <1>3, <1>14, <2>1, <2>2 DEF Confirm, TypeOK, SessionsTypeOK, sessionVars,
       rowVars, panelVars, mailVars, clockVars
<1>15. ASSUME AllAsked(j) PROVE TypeOK'
  <2>1. job' \in [Job -> Jobs]
    BY <1>1, <1>2, <1>15, ReturnTypes, SessionsAssumption DEF AllAsked
  <2>2. QED
    BY <1>1, <1>2, <1>3, <1>15, <2>1 DEF AllAsked, TypeOK, SessionsTypeOK, sessionVars, rowVars,
       panelVars, mailVars, clockVars
<1>16. ASSUME NEW g \in Guardian, AskGuardian(j, g) PROVE TypeOK'
  <2>1. job' \in [Job -> Jobs]
    BY <1>1, <1>2, <1>16 DEF AskGuardian, Jobs
  <2>2. QED
    BY <1>1, <1>2, <1>3, <1>16, <2>1 DEF AskGuardian, TypeOK, SessionsTypeOK, sessionVars, rowVars,
       panelVars, mailVars, clockVars, At, Jobs, Fault, JobsOK, JobOK
<1>17. ASSUME Lapse(j) PROVE TypeOK'
  <2>1. job' \in [Job -> Jobs]
    BY <1>1, <1>2, <1>17, ReturnTypes, SessionsAssumption DEF Lapse
  <2>2. req' \in [Request -> Requests]
    BY <1>2, <1>3, <1>17, StatusTypes DEF Lapse, At
  <2>3. QED
    BY <1>1, <1>2, <1>3, <1>17, <2>1, <2>2 DEF Lapse, TypeOK, SessionsTypeOK, sessionVars, rowVars,
       panelVars, mailVars, clockVars
<1>18. ASSUME Reject(j) PROVE TypeOK'
  <2>1. job' \in [Job -> Jobs]
    BY <1>1, <1>2, <1>18, VotedTypes, SessionsAssumption DEF Reject
  <2>2. req' \in [Request -> Requests]
    BY <1>2, <1>3, <1>18, StatusTypes DEF Reject, At
  <2>3. QED
    BY <1>1, <1>2, <1>3, <1>18, <2>1, <2>2 DEF Reject, TypeOK, SessionsTypeOK, sessionVars, rowVars,
       panelVars, mailVars, clockVars
<1>19. ASSUME RecordVote(j) PROVE TypeOK'
  <2>1. job' \in [Job -> Jobs]
    BY <1>1, <1>2, <1>19, GotoTypes DEF RecordVote, Steps
  <2>2. QED
    BY <1>1, <1>2, <1>3, <1>19, <2>1 DEF RecordVote, TypeOK, SessionsTypeOK, sessionVars, rowVars,
       panelVars, mailVars, clockVars, At, Jobs, JobsOK, JobOK
<1>20. ASSUME CountVotes(j) PROVE TypeOK'
  <2>1. job' \in [Job -> Jobs]
    BY <1>1, <1>2, <1>20, GotoTypes, VotedTypes, SessionsAssumption DEF CountVotes, Steps
  <2>2. QED
    BY <1>1, <1>2, <1>3, <1>20, <2>1 DEF CountVotes, TypeOK, SessionsTypeOK, sessionVars, rowVars,
       panelVars, mailVars, clockVars
<1>21. ASSUME ReadAddress(j) PROVE TypeOK'
  <2>1. job' \in [Job -> Jobs]
    BY <1>1, <1>2, <1>21, GotoTypes DEF ReadAddress, Steps
  <2>2. QED
    BY <1>1, <1>2, <1>3, <1>21, <2>1 DEF ReadAddress, TypeOK, SessionsTypeOK, sessionVars, rowVars,
       panelVars, mailVars, clockVars
<1>22. ASSUME NoBackupEmail(j) PROVE TypeOK'
  <2>1. job' \in [Job -> Jobs]
    BY <1>1, <1>2, <1>22, VotedTypes, SessionsAssumption DEF NoBackupEmail
  <2>2. req' \in [Request -> Requests]
    BY <1>2, <1>3, <1>22, StatusTypes DEF NoBackupEmail, At
  <2>3. QED
    BY <1>1, <1>2, <1>3, <1>22, <2>1, <2>2 DEF NoBackupEmail, TypeOK, SessionsTypeOK, sessionVars,
       rowVars, panelVars, mailVars, clockVars
<1>23. ASSUME Reach(j) PROVE TypeOK'
  <2>1. CASE Pending(job[j].r) /\ ~req[job[j].r].reached
    <3>1. /\ job[j].r \in Request
          /\ req[job[j].r].minted + 1 \in 0 .. MaxLinks
      BY <1>1, <1>2, <1>3, <1>23, <2>1 DEF Reach, At, Requests
    <3>2. PICK r \in Request, link \in 0 .. MaxLinks :
              /\ req' = [req EXCEPT ![r].reached = TRUE, ![r].link = link, ![r].minted = link,
                                    ![r].window = "day"]
              /\ job' = [job EXCEPT ![j].at = "mail", ![j].link = link]
              /\ dayOver' = dayOver \ {r}
      BY <1>23, <2>1, <3>1 DEF Reach
    <3>3. req'[r] = [status |-> req[r].status, verified |-> req[r].verified, reached |-> TRUE,
                     required |-> req[r].required, link |-> link, minted |-> link,
                     window |-> "day"]
      BY <1>2, <3>2 DEF Requests
    <3>4. req'[r] \in Requests /\ req' = [req EXCEPT ![r] = req'[r]]
      BY <1>2, <3>2, <3>3 DEF Requests
    <3>5. job'[j] = [at |-> "mail", r |-> job[j].r, g |-> job[j].g, panel |-> job[j].panel,
                     link |-> link, saw |-> job[j].saw, number |-> job[j].number]
      BY <1>2, <3>2 DEF Jobs
    <3>6. job'[j] \in Jobs /\ job' = [job EXCEPT ![j] = job'[j]]
      BY <1>2, <3>2, <3>5 DEF Jobs, Steps
    <3>7. req' \in [Request -> Requests] /\ job' \in [Job -> Jobs]
      BY <1>2, <3>4, <3>6
    <3>8. QED
      BY <1>23, <3>2, <3>7 DEF Reach, TypeOK, SessionsTypeOK, sessionVars, rowVars, panelVars,
         mailVars, clockVars
  <2>2. CASE ~(Pending(job[j].r) /\ ~req[job[j].r].reached)
    <3>1. job' \in [Job -> Jobs]
      BY <1>2, <1>23, <2>2, VotedTypes, SessionsAssumption DEF Reach
    <3>2. QED
      BY <1>23, <2>2, <3>1 DEF Reach, TypeOK, SessionsTypeOK, sessionVars, rowVars, panelVars,
         mailVars, clockVars
  <2>3. QED
    BY <2>1, <2>2
<1>24. ASSUME MailFinishLink(j) PROVE TypeOK'
  <2>1. job' \in [Job -> Jobs]
    BY <1>1, <1>2, <1>24, VotedTypes, SessionsAssumption DEF MailFinishLink
  <2>2. job[j].link \in 1 .. MaxLinks
    BY <1>1, <1>2, <1>24 DEF MailFinishLink, At, Jobs, JobsOK, JobOK
  <2>3. links' \in [Request -> SUBSET (1 .. MaxLinks)]
    BY <1>24, <2>2 DEF MailFinishLink, TypeOK
  <2>4. QED
    BY <1>24, <2>1, <2>3 DEF MailFinishLink, TypeOK, SessionsTypeOK, sessionVars, rowVars,
       panelVars, mailVars, clockVars
<1>25. ASSUME MailFails(j) PROVE TypeOK'
  <2>1. job' \in [Job -> Jobs]
    BY <1>1, <1>2, <1>25, GotoTypes DEF MailFails, Steps
  <2>2. job[j].link \in 1 .. MaxLinks
    BY <1>1, <1>2, <1>25 DEF MailFails, At, Jobs, JobsOK, JobOK
  <2>3. links' \in [Request -> SUBSET (1 .. MaxLinks)]
    BY <1>25, <2>2 DEF MailFails, TypeOK
  <2>4. QED
    BY <1>1, <1>25, <2>1, <2>3 DEF MailFails, TypeOK, SessionsTypeOK, sessionVars, rowVars,
       panelVars, mailVars, clockVars, Fault
<1>26. ASSUME Undo(j) PROVE TypeOK'
  <2>1. job' \in [Job -> Jobs]
    BY <1>1, <1>2, <1>26, ReturnTypes, SessionsAssumption DEF Undo
  <2>2. req' \in [Request -> Requests]
    <3>1. PICK r \in Request :
              req' = [req EXCEPT ![r].reached = FALSE, ![r].link = 0, ![r].window = "week"]
      BY <1>3, <1>26 DEF Undo, At
    <3>2. req'[r] = [status |-> req[r].status, verified |-> req[r].verified, reached |-> FALSE,
                     required |-> req[r].required, link |-> 0, minted |-> req[r].minted,
                     window |-> "week"]
      BY <1>2, <3>1 DEF Requests
    <3>3. req'[r] \in Requests /\ req' = [req EXCEPT ![r] = req'[r]]
      BY <1>1, <1>2, <3>1, <3>2 DEF Requests
    <3>4. QED
      BY <1>2, <3>3
  <2>3. QED
    BY <1>1, <1>2, <1>3, <1>26, <2>1, <2>2 DEF Undo, TypeOK, SessionsTypeOK, sessionVars, rowVars,
       panelVars, mailVars, clockVars
<1>27. ASSUME BurnLink(j) PROVE TypeOK'
  <2>1. job' \in [Job -> Jobs]
    BY <1>1, <1>2, <1>27, ReturnTypes, SessionsAssumption DEF BurnLink
  <2>2. QED
    BY <1>1, <1>2, <1>3, <1>27, <2>1 DEF BurnLink, TypeOK, SessionsTypeOK, sessionVars, rowVars,
       panelVars, mailVars, clockVars, At, Jobs
<1>28. ASSUME ReadOwner(j) PROVE TypeOK'
  <2>1. CASE job[j].number = phone
    BY <1>28, <2>1, <1>2, ReturnTypes, SessionsAssumption DEF ReadOwner, TypeOK, SessionsTypeOK,
       sessionVars, rowVars, panelVars, mailVars, clockVars
  <2>2. CASE job[j].number # phone
    <3>1. job'[j] = [at |-> "claim", r |-> job[j].r, g |-> job[j].g, panel |-> job[j].panel,
                     link |-> job[j].link, saw |-> version, number |-> job[j].number]
      BY <1>2, <1>28, <2>2 DEF ReadOwner, Jobs
    <3>2. job' = [job EXCEPT ![j] = job'[j]]
      BY <1>2, <1>28, <2>2 DEF ReadOwner
    <3>3. job'[j] \in Jobs
      BY <1>2, <3>1 DEF Jobs, Steps, TypeOK, SessionsTypeOK
    <3>4. job' \in [Job -> Jobs]
      BY <1>2, <3>2, <3>3
    <3>5. QED
      BY <1>28, <3>4 DEF ReadOwner, TypeOK, SessionsTypeOK, sessionVars, rowVars, panelVars,
         mailVars, clockVars
  <2>3. QED
    BY <2>1, <2>2
<1>29. ASSUME ClaimFinish(j) PROVE TypeOK'
  <2>1. CASE SameLinkStillOpen(job[j].r, job[j].link)
    <3>1. PICK r \in Request : req' = [req EXCEPT ![r].status = "approved", ![r].link = 0]
      BY <1>3, <1>29, <2>1 DEF ClaimFinish, At
    <3>2. req'[r] = [status |-> "approved", verified |-> req[r].verified,
                     reached |-> req[r].reached, required |-> req[r].required, link |-> 0,
                     minted |-> req[r].minted, window |-> req[r].window]
      BY <1>2, <3>1 DEF Requests
    <3>3. req'[r] \in Requests /\ req' = [req EXCEPT ![r] = req'[r]]
      BY <1>1, <1>2, <3>1, <3>2 DEF Requests
    <3>4. req' \in [Request -> Requests]
      BY <1>2, <3>3
    <3>5. job' \in [Job -> Jobs]
      BY <1>2, <1>29, <2>1, GotoTypes DEF ClaimFinish, Steps
    <3>6. QED
      BY <1>29, <3>4, <3>5 DEF ClaimFinish, TypeOK, SessionsTypeOK, sessionVars, rowVars, panelVars,
         mailVars, clockVars
  <2>2. CASE ~SameLinkStillOpen(job[j].r, job[j].link)
    BY <1>2, <1>29, <2>2, ReturnTypes, SessionsAssumption DEF ClaimFinish, TypeOK, SessionsTypeOK,
       sessionVars, rowVars, panelVars, mailVars, clockVars
  <2>3. QED
    BY <2>1, <2>2
<1>30. ASSUME RevokeSessions(j) PROVE TypeOK'
  <2>1. job' \in [Job -> Jobs]
    BY <1>1, <1>2, <1>30, GotoTypes DEF RevokeSessions, Steps
  <2>2. QED
    BY <1>1, <1>2, <1>3, <1>30, <2>1 DEF RevokeSessions, TypeOK, SessionsTypeOK, sessionVars,
       rowVars, panelVars, mailVars, clockVars, Jobs, Fault
<1>31. ASSUME MoveNumber(j) PROVE TypeOK'
  <2>1. job' \in [Job -> Jobs]
    BY <1>1, <1>2, <1>31, GotoTypes DEF MoveNumber, Steps
  <2>2. QED
    BY <1>1, <1>2, <1>3, <1>31, <2>1 DEF MoveNumber, TypeOK, SessionsTypeOK, sessionVars, rowVars,
       panelVars, mailVars, clockVars, Jobs, Fault
<1>32. ASSUME Release(j) PROVE TypeOK'
  <2>1. job' \in [Job -> Jobs]
    BY <1>1, <1>2, <1>32, ReturnTypes, SessionsAssumption DEF Release
  <2>2. req' \in [Request -> Requests]
    <3>1. CASE \E q \in Request \ {job[j].r} : Pending(q)
      BY <1>2, <1>32, <3>1 DEF Release
    <3>2. CASE ~\E q \in Request \ {job[j].r} : Pending(q)
      <4>1. PICK r \in Request, link \in 0 .. MaxLinks :
                req' = [req EXCEPT ![r].status = "pending", ![r].link = link]
        BY <1>2, <1>3, <1>32, <3>2 DEF Release, At, Jobs
      <4>2. req'[r] = [status |-> "pending", verified |-> req[r].verified,
                       reached |-> req[r].reached, required |-> req[r].required,
                       link |-> link, minted |-> req[r].minted, window |-> req[r].window]
        BY <1>2, <4>1 DEF Requests
      <4>3. req'[r] \in Requests /\ req' = [req EXCEPT ![r] = req'[r]]
        BY <1>2, <4>1, <4>2 DEF Requests
      <4>4. QED
        BY <1>2, <4>3
    <3>3. QED
      BY <3>1, <3>2
  <2>3. QED
    BY <1>1, <1>2, <1>3, <1>32, <2>1, <2>2 DEF Release, TypeOK, SessionsTypeOK, sessionVars,
       rowVars, panelVars, mailVars, clockVars
<1>33. ASSUME SignIn(j) PROVE TypeOK'
  <2>1. job' \in [Job -> Jobs]
    BY <1>2, <1>33, ReturnTypes, SessionsAssumption DEF SignIn
  <2>2. job[j].saw + 1 \in 0 .. MaxVersion /\ job[j].number \in Number
    BY <1>1, <1>2, <1>33 DEF SignIn, JobsOK, JobOK, At, Jobs
  <2>3. [version |-> job[j].saw + 1, holder |-> job[j].number] \in Token
    BY <2>2 DEF Token
  <2>4. tokens' \subseteq Token
    BY <1>33, <2>3 DEF SignIn, TypeOK, SessionsTypeOK
  <2>5. QED
    BY <1>33, <2>1, <2>4 DEF SignIn, TypeOK, SessionsTypeOK, sessionVars, rowVars, panelVars,
       mailVars, clockVars
<1>34. ASSUME Crash(j) PROVE TypeOK'
  <2>1. job' \in [Job -> Jobs]
    BY <1>1, <1>2, <1>34, ReturnTypes, SessionsAssumption DEF Crash
  <2>2. QED
    BY <1>1, <1>2, <1>3, <1>34, <2>1 DEF Crash, TypeOK, SessionsTypeOK, sessionVars, rowVars,
       panelVars, mailVars, clockVars, Fault
<1>35. QED
  BY <1>4, <1>5, <1>6, <1>7, <1>8, <1>9, <1>10, <1>11, <1>12, <1>13, <1>14, <1>15, <1>16, <1>17,
     <1>18, <1>19, <1>20, <1>21, <1>22, <1>23, <1>24, <1>25, <1>26, <1>27, <1>28, <1>29, <1>30,
     <1>31, <1>32, <1>33, <1>34
     DEF Starts, Goes

\* The world's steps keep the types too.
LEMMA WorldTypes ==
    ASSUME TypeOK, World
    PROVE  TypeOK'
<1>1. MaxChanges \in Nat /\ OldNumber \in Number /\ MaxVersion \in Nat
  BY SessionsAssumption, RecoveryAssumption DEF SessionsAssumption, RecoveryAssumption
<1>2. CASE RemoveBackupEmail
  <2>1. changes' \in 0 .. MaxChanges
    BY <1>1, <1>2 DEF RemoveBackupEmail, Change, TypeOK
  <2>2. backup' \in BOOLEAN
    BY <1>2 DEF RemoveBackupEmail
  <2>3. SessionsTypeOK'
    BY <1>2 DEF RemoveBackupEmail, TypeOK, SessionsTypeOK, sessionVars
  <2>4. QED
    BY <1>2, <2>1, <2>2, <2>3 DEF RemoveBackupEmail, TypeOK, panelVars, mailVars
<1>3. ASSUME NEW g \in Guardian, CoolingEnds(g) PROVE TypeOK'
  BY <1>3 DEF CoolingEnds, TypeOK, SessionsTypeOK, sessionVars, panelVars, mailVars, clockVars
<1>4. ASSUME NEW g \in Guardian, RevokeGuardian(g) PROVE TypeOK'
  BY <1>1, <1>4 DEF RevokeGuardian, Change, TypeOK, SessionsTypeOK, sessionVars, panelVars, mailVars
<1>5. ASSUME NEW r \in Request, WeekEnds(r) PROVE TypeOK'
  BY <1>1, <1>5 DEF WeekEnds, Change, TypeOK, SessionsTypeOK, sessionVars, panelVars, mailVars
<1>6. ASSUME NEW r \in Request, DayEnds(r) PROVE TypeOK'
  BY <1>1, <1>6 DEF DayEnds, Change, TypeOK, SessionsTypeOK, sessionVars, panelVars, mailVars
<1>7. ASSUME SessionsNext, UNCHANGED <<rowVars, job, faults>> PROVE TypeOK'
  <2>1. SessionsTypeOK'
    <3>1. PICK v \in Visit :
              \/ \E n \in Number : StartSignIn(v, n)
              \/ \E t \in tokens : StartSignOut(v, t)
              \/ IssueSession(v)
              \/ Bump(v)
      BY <1>7 DEF SessionsNext
    <3>2. NoVisit \in Visits /\ visit[v] \in Visits
      BY <1>1 DEF NoVisit, Visits, TypeOK, SessionsTypeOK
    <3>3. ASSUME NEW n \in Number, StartSignIn(v, n) PROVE SessionsTypeOK'
      BY <3>3 DEF StartSignIn, TypeOK, SessionsTypeOK, Visits
    <3>4. ASSUME NEW t \in tokens, StartSignOut(v, t) PROVE SessionsTypeOK'
      BY <1>1, <3>4 DEF StartSignOut, TypeOK, SessionsTypeOK, Visits, Token
    <3>5. CASE IssueSession(v)
      BY <3>2, <3>5 DEF IssueSession, TypeOK, SessionsTypeOK, Visits, Token
    <3>6. CASE Bump(v)
      BY <3>2, <3>6 DEF Bump, Raised, TypeOK, SessionsTypeOK, Visits
    <3>7. QED
      BY <3>1, <3>3, <3>4, <3>5, <3>6
  <2>2. QED
    BY <1>7, <2>1 DEF TypeOK, rowVars, panelVars, mailVars, clockVars
<1>8. QED
  BY <1>2, <1>3, <1>4, <1>5, <1>6, <1>7 DEF World

\* The account starts with no request, and every handler idle.
LEMMA InitIsSafe ==
    ASSUME Init
    PROVE  RecoveryInv
<1>1. /\ 0 \in 0 .. MaxLinks /\ 0 \in 0 .. MaxVersion /\ OldNumber \in Number
      /\ 0 \in 0 .. MaxChanges /\ 0 \in 0 .. MaxFaults
  BY SessionsAssumption, RecoveryAssumption DEF SessionsAssumption, RecoveryAssumption
<1>2. NoRequest \in Requests /\ NoJob \in Jobs /\ NoVisit \in Visits
  BY <1>1 DEF NoRequest, Requests, NoJob, Jobs, Steps, NoVisit, Visits
<1>3. SessionsTypeOK
  BY <1>1, <1>2 DEF Init, SessionsInit, SessionsTypeOK, Token
<1>4. TypeOK
  BY <1>1, <1>2, <1>3 DEF Init, TypeOK
<1>5. RowsOK
  BY DEF Init, RowsOK, NoRequest
<1>6. JobsOK
  BY DEF Init, JobsOK, JobOK, NoJob
<1>7. QED
  BY <1>4, <1>5, <1>6 DEF RecoveryInv

-----------------------------------------------------------------------------
(* What a step does to a request. *)

\* Votes and seats are only added, and a bar that is fixed stays.
Kept(r) ==
    /\ votes[r] \subseteq votes'[r] /\ seats[r] \subseteq seats'[r]
    /\ Opened(r) => req'[r].verified /\ req'[r].required = req[r].required

\* Every step of a handler adds only votes of seated guardians, and only a majority
\* of votes is written as reached.
LEMMA StepRequest ==
    ASSUME RecoveryInv, NEW j \in Job, Starts(j) \/ Goes(j) \/ Crash(j), NEW q \in Request
    PROVE  /\ Kept(q)
           /\ votes'[q] \subseteq seats'[q]
           /\ req'[q].reached => req[q].reached \/ Vouched(q)
<1> DEFINE Goal == /\ Kept(q)
                   /\ votes'[q] \subseteq seats'[q]
                   /\ req'[q].reached => req[q].reached \/ Vouched(q)
<1>1. /\ req \in [Request -> Requests] /\ req[q] \in Requests
      /\ votes \in [Request -> SUBSET Guardian] /\ seats \in [Request -> SUBSET Guardian]
      /\ votes[q] \subseteq seats[q]
  BY DEF RecoveryInv, TypeOK, RowsOK
<1>2. job[j].at \notin {"idle", "insert"} => job[j].r \in Request
  BY JobRequest DEF RecoveryInv
<1>3. ASSUME UNCHANGED <<req, seats, votes>> PROVE Goal
  BY <1>1, <1>3 DEF Kept, Opened
<1>4. ASSUME UNCHANGED <<seats, votes>>,
             req'[q].verified = req[q].verified, req'[q].required = req[q].required,
             req'[q].reached => req[q].reached
      PROVE  Goal
  BY <1>1, <1>4 DEF Kept, Opened
<1>5. Starts(j) => UNCHANGED <<req, seats, votes>>
  BY DEF Starts, StartRecovery, OpenLink, StartLapse, StartVote, StartComplete, rowVars, panelVars
<1>6. Crash(j) => UNCHANGED <<req, seats, votes>>
  BY DEF Crash, rowVars, panelVars
<1>7. \/ AlreadyOpen(j) \/ AllAsked(j) \/ \E g \in Guardian : AskGuardian(j, g)
      \/ CountVotes(j) \/ ReadAddress(j) \/ MailFinishLink(j) \/ MailFails(j) \/ BurnLink(j)
      \/ ReadOwner(j) \/ RevokeSessions(j) \/ MoveNumber(j) \/ SignIn(j)
      => UNCHANGED <<req, seats, votes>>
  BY DEF AlreadyOpen, AllAsked, AskGuardian, CountVotes, ReadAddress, MailFinishLink, MailFails,
         BurnLink, ReadOwner, RevokeSessions, MoveNumber, SignIn, rowVars, panelVars
<1>8. CASE Replace(j)
  BY <1>1, <1>4, <1>8 DEF Replace, Requests, panelVars
<1>9. ASSUME NEW r \in Request, InsertRequest(j, r) PROVE Goal
  BY <1>1, <1>4, <1>9 DEF InsertRequest, Requests, panelVars
<1>10. CASE SeatPanel(j)
  BY <1>1, <1>10 DEF SeatPanel, Kept, Opened
<1>11. CASE FixBar(j)
  <2>1. req'[q] = req[q] \/ (req[q].required = 0 /\ req'[q].reached = req[q].reached)
    BY <1>1, <1>11 DEF FixBar, Requests
  <2>2. QED
    BY <1>1, <1>11, <2>1 DEF FixBar, Kept, Opened, panelVars
<1>12. CASE Confirm(j)
  <2>1. /\ req[q].verified => req'[q].verified
        /\ req'[q].required = req[q].required /\ req'[q].reached = req[q].reached
    BY <1>1, <1>12 DEF Confirm, Requests
  <2>2. QED
    BY <1>1, <1>12, <2>1 DEF Confirm, Kept, Opened, panelVars
<1>13. CASE Lapse(j)
  BY <1>1, <1>4, <1>13 DEF Lapse, Requests, panelVars
<1>14. CASE Reject(j)
  BY <1>1, <1>4, <1>14 DEF Reject, Requests, panelVars
<1>15. CASE RecordVote(j)
  <2>1. job[j].r \in Request /\ job[j].g \in seats[job[j].r]
    BY <1>2, <1>15 DEF RecordVote, At, RecoveryInv, JobsOK, JobOK
  <2>2. votes' = [votes EXCEPT ![job[j].r] = @ \cup {job[j].g}] /\ UNCHANGED <<req, seats>>
    BY <1>15 DEF RecordVote
  <2>3. votes[q] \subseteq votes'[q] /\ votes'[q] \subseteq seats'[q]
    BY <1>1, <2>1, <2>2
  <2>4. QED
    BY <1>1, <2>2, <2>3 DEF Kept, Opened
<1>16. CASE NoBackupEmail(j)
  BY <1>1, <1>4, <1>16 DEF NoBackupEmail, Requests, panelVars
<1>17. CASE Reach(j)
  <2>1. job[j].r \in Request /\ Vouched(job[j].r)
    BY <1>2, <1>17 DEF Reach, At, RecoveryInv, JobsOK, JobOK
  <2>2. /\ req'[q].verified = req[q].verified /\ req'[q].required = req[q].required
        /\ q # job[j].r => req'[q] = req[q]
    BY <1>1, <1>17 DEF Reach, Requests
  <2>3. QED
    BY <1>1, <1>17, <2>1, <2>2 DEF Reach, Kept, Opened, panelVars
<1>18. CASE Undo(j)
  BY <1>1, <1>4, <1>18 DEF Undo, Requests, panelVars
<1>19. CASE ClaimFinish(j)
  BY <1>1, <1>4, <1>19 DEF ClaimFinish, Requests, panelVars
<1>20. CASE Release(j)
  BY <1>1, <1>4, <1>20 DEF Release, Requests, panelVars
<1>21. QED
  BY <1>3, <1>5, <1>6, <1>7, <1>8, <1>9, <1>10, <1>11, <1>12, <1>13, <1>14, <1>15, <1>16,
     <1>17, <1>18, <1>19, <1>20 DEF Goes

\* A majority that is in stays in.
LEMMA VouchedStays ==
    ASSUME TypeOK, TypeOK', NEW q \in Request, Kept(q)
    PROVE  (Opened(q) => Opened(q)') /\ (Vouched(q) => Vouched(q)')
<1>1. Opened(q) => Opened(q)' /\ req'[q].required = req[q].required
  BY DEF Kept, Opened
<1>2. votes'[q] \in SUBSET Guardian /\ votes[q] \in SUBSET Guardian
  BY DEF TypeOK
<1>3. /\ Cardinality(votes[q]) \in Nat /\ Cardinality(votes'[q]) \in Nat
      /\ Cardinality(votes[q]) <= Cardinality(votes'[q])
  BY <1>2, PanelsAreFinite, FS_Subset DEF Kept
<1>4. req[q].required \in Nat
  BY DEF TypeOK, Requests
<1>5. QED
  BY <1>1, <1>3, <1>4 DEF Vouched, Majority, AtLeast, MinQuorum

\* So the rows stay in order.
LEMMA StepRows ==
    ASSUME RecoveryInv, NEW j \in Job, Starts(j) \/ Goes(j) \/ Crash(j)
    PROVE  RowsOK'
<1>1. SUFFICES ASSUME NEW q \in Request
               PROVE  votes'[q] \subseteq seats'[q] /\ (req'[q].reached => Vouched(q)')
  BY DEF RowsOK
<1>2. TypeOK /\ TypeOK'
  BY StepTypes DEF RecoveryInv
<1>3. /\ Kept(q) /\ votes'[q] \subseteq seats'[q]
      /\ req'[q].reached => req[q].reached \/ Vouched(q)
  BY StepRequest
<1>4. req[q].reached => Vouched(q)
  BY DEF RecoveryInv, RowsOK
<1>5. QED
  BY <1>2, <1>3, <1>4, VouchedStays

-----------------------------------------------------------------------------
(* What a step does to the handlers. *)

\* A step of one handler leaves the others where they are.
LEMMA OthersWait ==
    ASSUME TypeOK, NEW j \in Job, Starts(j) \/ Goes(j) \/ Crash(j), NEW i \in Job, i # j
    PROVE  job'[i] = job[i]
<1>1. job \in [Job -> Jobs]
  BY DEF TypeOK
<1>2. (\E at \in Steps : Goto(j, at)) \/ Return(j) \/ Voted(j) => job'[i] = job[i]
  BY <1>1 DEF Goto, Return, Voted
<1>3. Starts(j) => job'[i] = job[i]
  BY <1>1 DEF Starts, StartRecovery, OpenLink, StartLapse, StartVote, StartComplete, Begin
<1>4. Crash(j) => job'[i] = job[i]
  BY <1>1 DEF Crash, Return
<1>5. ASSUME \/ Replace(j) \/ AlreadyOpen(j) \/ \E r \in Request : InsertRequest(j, r)
             \/ SeatPanel(j) \/ FixBar(j) \/ AllAsked(j) \/ Lapse(j) \/ Reject(j)
             \/ RecordVote(j) \/ CountVotes(j) \/ ReadAddress(j) \/ NoBackupEmail(j)
      PROVE  job'[i] = job[i]
  BY <1>1, <1>5 DEF Replace, AlreadyOpen, InsertRequest, SeatPanel, FixBar, AllAsked, Lapse,
     Reject, RecordVote, CountVotes, ReadAddress, NoBackupEmail, Goto, Return, Voted
<1>6. ASSUME \/ MailFinishLink(j) \/ MailFails(j) \/ Undo(j) \/ BurnLink(j) \/ ClaimFinish(j)
             \/ RevokeSessions(j) \/ MoveNumber(j) \/ Release(j) \/ SignIn(j)
      PROVE  job'[i] = job[i]
  BY <1>1, <1>6 DEF MailFinishLink, MailFails, Undo, BurnLink, ClaimFinish, RevokeSessions,
     MoveNumber, Release, SignIn, Goto, Return, Voted
<1>7. Confirm(j) \/ (\E g \in Guardian : AskGuardian(j, g)) => job'[i] = job[i]
  BY <1>1 DEF Confirm, AskGuardian, Return
<1>8. Reach(j) \/ ReadOwner(j) => job'[i] = job[i]
  BY <1>1 DEF Reach, ReadOwner, Voted, Goto, Return
<1>9. QED
  BY <1>3, <1>4, <1>5, <1>6, <1>7, <1>8 DEF Goes

\* A handler that only waits still has what it found out.
LEMMA WaitingJob ==
    ASSUME TypeOK, TypeOK', NEW i \in Job, JobOK(i), job'[i] = job[i],
           \A q \in Request : Kept(q)
    PROVE  JobOK(i)'
<1>1. CASE job[i].at \in {"idle", "insert"}
  BY <1>1 DEF JobOK
<1>2. CASE job[i].at \notin {"idle", "insert"}
  <2>1. PICK r \in Request : r = job[i].r
    BY <1>2 DEF JobOK
  <2>2. (Opened(r) => Opened(r)') /\ (Vouched(r) => Vouched(r)')
    BY VouchedStays
  <2>3. job'[i].r = r /\ seats[r] \subseteq seats'[r]
    BY <2>1 DEF Kept
  <2>4. QED
    BY <2>1, <2>2, <2>3 DEF JobOK
<1>3. QED
  BY <1>1, <1>2

\* A handler that returns, or has voted, has nothing to remember.
LEMMA DoneJob ==
    ASSUME job \in [Job -> Jobs], NEW j \in Job,
           Return(j) \/ (Voted(j) /\ job[j].r \in Request)
    PROVE  JobOK(j)'
<1>1. CASE Return(j)
  <2>1. job'[j].at = "idle"
    BY <1>1 DEF Return, NoJob
  <2>2. QED
    BY <2>1 DEF JobOK
<1>2. CASE Goto(j, "burn") /\ job[j].r \in Request
  <2>1. job'[j].at = "burn" /\ job'[j].r \in Request
    BY <1>2 DEF Goto, Jobs
  <2>2. QED
    BY <2>1 DEF JobOK
<1>3. QED
  BY <1>1, <1>2 DEF Voted

\* A handler that starts has read what its first step needs.
LEMMA StartedJob ==
    ASSUME RecoveryInv, NEW j \in Job, Starts(j)
    PROVE  JobOK(j)'
<1>1. job \in [Job -> Jobs]
  BY DEF RecoveryInv, TypeOK
<1>2. UNCHANGED <<req, seats, votes>>
  BY DEF Starts, StartRecovery, OpenLink, StartLapse, StartVote, StartComplete, rowVars, panelVars
<1>3. ASSUME NEW open \in Request \cup {None}, StartRecovery(j, open) PROVE JobOK(j)'
  <2>1. job'[j].r = open /\ job'[j].at = IF open = None THEN "insert" ELSE "replace"
    BY <1>1, <1>3 DEF StartRecovery, Begin
  <2>2. QED
    BY <2>1 DEF JobOK
<1>4. ASSUME NEW r \in Request, OpenLink(j, r) PROVE JobOK(j)'
  <2>1. job'[j].r = r /\ job'[j].at \in {"seat", "confirm"}
    BY <1>1, <1>4 DEF OpenLink, Begin
  <2>2. QED
    BY <2>1 DEF JobOK
<1>5. ASSUME NEW r \in Request, StartLapse(j, r) PROVE JobOK(j)'
  <2>1. job'[j].r = r /\ job'[j].at = "lapse"
    BY <1>1, <1>5 DEF StartLapse, Begin
  <2>2. QED
    BY <2>1 DEF JobOK
<1>6. ASSUME NEW r \in Request, NEW g \in Guardian, NEW accept \in BOOLEAN,
             StartVote(j, r, g, accept)
      PROVE  JobOK(j)'
  <2>1. job'[j].r = r /\ job'[j].g = g /\ job'[j].at \in {"record", "reject"}
    BY <1>1, <1>6 DEF StartVote, Begin
  <2>2. Opened(r) /\ g \in seats[r]
    BY <1>6 DEF StartVote, Answerable, TakesVotes, Opened
  <2>3. Opened(r)' /\ g \in seats'[r]
    BY <1>2, <2>2 DEF Opened
  <2>4. QED
    BY <2>1, <2>3 DEF JobOK
<1>7. ASSUME NEW r \in Request, NEW link \in 1 .. MaxLinks, NEW n \in Number,
             StartComplete(j, r, link, n)
      PROVE  JobOK(j)'
  <2>1. job'[j].r = r /\ job'[j].at = "owner"
    BY <1>1, <1>7 DEF StartComplete, Begin
  <2>2. Vouched(r)
    BY <1>7 DEF StartComplete, CanComplete, RecoveryInv, RowsOK
  <2>3. Vouched(r)'
    BY <1>2, <2>2 DEF Vouched, Opened, Majority
  <2>4. QED
    BY <2>1, <2>3 DEF JobOK
<1>8. QED
  BY <1>3, <1>4, <1>5, <1>6, <1>7 DEF Starts

\* A handler that goes on has found out what its next step needs.
LEMMA GoneJob ==
    ASSUME RecoveryInv, NEW j \in Job, Goes(j) \/ Crash(j)
    PROVE  JobOK(j)'
<1>1. /\ job \in [Job -> Jobs] /\ job[j] \in Jobs /\ JobOK(j)
      /\ req \in [Request -> Requests]
  BY DEF RecoveryInv, TypeOK, JobsOK
<1>2. TypeOK /\ TypeOK'
  BY StepTypes DEF RecoveryInv
<1>3. \A q \in Request : (Opened(q) => Opened(q)') /\ (Vouched(q) => Vouched(q)')
                         /\ seats[q] \subseteq seats'[q]
  <2>1. SUFFICES ASSUME NEW q \in Request
                 PROVE  /\ (Opened(q) => Opened(q)') /\ (Vouched(q) => Vouched(q)')
                        /\ seats[q] \subseteq seats'[q]
    OBVIOUS
  <2>2. Kept(q)
    BY StepRequest
  <2>3. QED
    BY <1>2, <2>2, VouchedStays DEF Kept
<1>4. ASSUME \/ \E r \in Request : InsertRequest(j, r)
             \/ AlreadyOpen(j) \/ AllAsked(j) \/ Lapse(j) \/ Undo(j) \/ BurnLink(j)
             \/ Release(j) \/ SignIn(j) \/ Crash(j)
      PROVE  JobOK(j)'
  <2>1. Return(j)
    BY <1>4 DEF InsertRequest, AlreadyOpen, AllAsked, Lapse, Undo, BurnLink, Release, SignIn, Crash
  <2>2. QED
    BY <1>1, <2>1, DoneJob
<1>5. ASSUME Reject(j) \/ NoBackupEmail(j) \/ MailFinishLink(j) PROVE JobOK(j)'
  <2>1. Voted(j) /\ job[j].r \in Request
    BY <1>1, <1>5 DEF Reject, NoBackupEmail, MailFinishLink, At, JobOK
  <2>2. QED
    BY <1>1, <2>1, DoneJob
\* From a step of the request to the next one.
<1>6. ASSUME NEW at \in Steps, Goto(j, at)
      PROVE  /\ job'[j].at = at /\ job'[j].r = job[j].r /\ job'[j].g = job[j].g
             /\ job'[j].saw = job[j].saw
  BY <1>1, <1>6 DEF Goto, Jobs
<1>7. CASE Replace(j)
  <2>1. job'[j].at = "insert"
    BY <1>6, <1>7 DEF Replace, Steps
  <2>2. QED
    BY <2>1 DEF JobOK
<1>8. ASSUME SeatPanel(j) \/ FixBar(j) \/ MailFails(j) PROVE JobOK(j)'
  <2>1. job'[j].at \in {"bar", "confirm", "undo"} /\ job'[j].r = job[j].r
    BY <1>6, <1>8 DEF SeatPanel, FixBar, MailFails, Steps
  <2>2. job[j].r \in Request
    BY <1>1, <1>8 DEF SeatPanel, FixBar, MailFails, At, JobOK
  <2>3. QED
    BY <2>1, <2>2 DEF JobOK
<1>9. CASE Confirm(j)
  <2>1. CASE Return(j)
    BY <1>1, <2>1, DoneJob
  <2>2. CASE ~req[job[j].r].verified
    <3>1. job' = [job EXCEPT ![j].at = "ask", ![j].panel = OnWhatsApp(@)]
      BY <1>9, <2>2 DEF Confirm
    <3>2. /\ job'[j].at = "ask" /\ job'[j].r = job[j].r
          /\ job'[j].panel = job[j].panel \ InApp
      BY <1>1, <3>1 DEF OnWhatsApp, Jobs
    <3>3. job[j].r \in Request
      BY <1>1, <1>9 DEF Confirm, At, JobOK
    <3>4. QED
      BY <3>2, <3>3 DEF JobOK
  <2>3. QED
    BY <1>9, <2>1, <2>2 DEF Confirm
<1>10. ASSUME NEW g \in Guardian, AskGuardian(j, g) PROVE JobOK(j)'
  <2>1. job'[j].at = "ask" /\ job'[j].r = job[j].r /\ job'[j].panel = job[j].panel \ {g}
    BY <1>1, <1>10 DEF AskGuardian, At, Jobs
  <2>2. job[j].r \in Request /\ job[j].panel \cap InApp = {}
    BY <1>1, <1>10 DEF AskGuardian, At, JobOK
  <2>3. QED
    BY <2>1, <2>2 DEF JobOK
<1>11. CASE RecordVote(j)
  <2>1. job'[j].at = "count" /\ job'[j].r = job[j].r /\ job'[j].g = job[j].g
    BY <1>6, <1>11 DEF RecordVote, Steps
  <2>2. PICK r \in Request : r = job[j].r /\ Opened(r) /\ job[j].g \in seats[r]
    BY <1>1, <1>11 DEF RecordVote, At, JobOK
  <2>3. Opened(r)' /\ job[j].g \in seats'[r]
    BY <1>3, <2>2
  <2>4. QED
    BY <2>1, <2>2, <2>3 DEF JobOK
<1>12. ASSUME CountVotes(j) \/ ReadAddress(j) PROVE JobOK(j)'
  <2>1. PICK r \in Request : r = job[j].r /\ Opened(r) /\ job[j].g \in seats[r]
    BY <1>1, <1>12 DEF CountVotes, ReadAddress, At, JobOK
  <2>2. CASE Voted(j)
    BY <1>1, <2>1, <2>2, DoneJob
  <2>3. CASE ~Voted(j)
    <3>1. job'[j].at \in {"address", "decide", "close"} /\ job'[j].r = r /\ job'[j].g = job[j].g
      BY <1>6, <1>12, <2>1, <2>3 DEF CountVotes, ReadAddress, Steps
    <3>2. Vouched(r)
      BY <1>1, <1>12, <2>1, <2>3 DEF CountVotes, ReadAddress, At, JobOK, Vouched
    <3>3. Opened(r)' /\ Vouched(r)' /\ job[j].g \in seats'[r]
      BY <1>3, <2>1, <3>2
    <3>4. QED
      BY <3>1, <3>3 DEF JobOK
  <2>4. QED
    BY <2>2, <2>3
<1>13. CASE Reach(j)
  <2>1. job[j].r \in Request
    BY <1>1, <1>13 DEF Reach, At, JobOK
  <2>2. CASE Voted(j)
    BY <1>1, <2>1, <2>2, DoneJob
  <2>3. CASE ~Voted(j)
    <3>1. job' = [job EXCEPT ![j].at = "mail", ![j].link = req[job[j].r].minted + 1]
      BY <1>13, <2>3 DEF Reach
    <3>2. /\ job'[j].at = "mail" /\ job'[j].r = job[j].r
          /\ job'[j].link = req[job[j].r].minted + 1
      BY <1>1, <3>1 DEF Jobs
    <3>3. req[job[j].r].minted + 1 # 0
      BY <1>1, <2>1 DEF Requests
    <3>4. QED
      BY <2>1, <3>2, <3>3 DEF JobOK
  <2>4. QED
    BY <2>2, <2>3
<1>14. CASE ReadOwner(j)
  <2>1. CASE Return(j)
    BY <1>1, <2>1, DoneJob
  <2>2. CASE ~Return(j)
    <3>1. job'[j].at = "claim" /\ job'[j].r = job[j].r
      BY <1>1, <1>14, <2>2 DEF ReadOwner, Jobs
    <3>2. PICK r \in Request : r = job[j].r /\ Vouched(r)
      BY <1>1, <1>14 DEF ReadOwner, At, JobOK
    <3>3. Vouched(r)'
      BY <1>3, <3>2
    <3>4. QED
      BY <3>1, <3>2, <3>3 DEF JobOK
  <2>3. QED
    BY <2>1, <2>2
<1>15. CASE ClaimFinish(j)
  <2>1. CASE Return(j)
    BY <1>1, <2>1, DoneJob
  <2>2. CASE ~Return(j)
    <3>1. job'[j].at = "revoke" /\ job'[j].r = job[j].r
      BY <1>6, <1>15, <2>2 DEF ClaimFinish, Steps
    <3>2. PICK r \in Request : r = job[j].r /\ Vouched(r)
      BY <1>1, <1>15 DEF ClaimFinish, At, JobOK
    <3>3. Vouched(r)'
      BY <1>3, <3>2
    <3>4. QED
      BY <3>1, <3>2, <3>3 DEF JobOK
  <2>3. QED
    BY <2>1, <2>2
<1>16. CASE RevokeSessions(j)
  <2>1. \/ job[j].saw < MaxVersion /\ Goto(j, "move")
        \/ Goto(j, "release")
    BY <1>16 DEF RevokeSessions
  <2>2. /\ job'[j].r = job[j].r
        /\ job'[j].at = "release" \/ (job'[j].at = "move" /\ job'[j].saw < MaxVersion)
    BY <1>6, <2>1 DEF Steps
  <2>3. PICK r \in Request : r = job[j].r /\ Vouched(r)
    BY <1>1, <1>16 DEF RevokeSessions, At, JobOK
  <2>4. Vouched(r)'
    BY <1>3, <2>3
  <2>5. QED
    BY <2>2, <2>3, <2>4 DEF JobOK
<1>17. CASE MoveNumber(j)
  <2>1. /\ job'[j].at \in {"issue", "release"} /\ job'[j].r = job[j].r
        /\ job'[j].saw = job[j].saw
    BY <1>6, <1>17 DEF MoveNumber, Steps
  <2>2. job[j].r \in Request /\ job[j].saw < MaxVersion
    BY <1>1, <1>17 DEF MoveNumber, At, JobOK
  <2>3. QED
    BY <2>1, <2>2 DEF JobOK
<1>18. QED
  BY <1>4, <1>5, <1>7, <1>8, <1>9, <1>10, <1>11, <1>12, <1>13, <1>14, <1>15, <1>16, <1>17
     DEF Goes

-----------------------------------------------------------------------------
(* The theorems. *)

\* The world outside the handlers touches no request, seat, vote or handler.
LEMMA WorldWaits ==
    ASSUME World
    PROVE  UNCHANGED <<req, seats, votes, job>>
BY DEF World, RemoveBackupEmail, CoolingEnds, RevokeGuardian, WeekEnds, DayEnds,
       rowVars, panelVars

\* The inductive invariant: the types, the rows, and what each handler has found out.
LEMMA NextIsSafe ==
    ASSUME RecoveryInv, [Next]_vars
    PROVE  RecoveryInv'
<1>1. CASE World
  <2>1. UNCHANGED <<req, seats, votes, job>>
    BY <1>1, WorldWaits
  <2>2. TypeOK'
    BY <1>1, WorldTypes DEF RecoveryInv
  <2>3. RowsOK'
    BY <2>1 DEF RecoveryInv, RowsOK, Vouched, Opened, Majority
  <2>4. JobsOK'
    BY <2>1 DEF RecoveryInv, JobsOK, JobOK, Vouched, Opened, Majority
  <2>5. QED
    BY <2>2, <2>3, <2>4 DEF RecoveryInv
<1>2. ASSUME NEW j \in Job, Starts(j) \/ Goes(j) \/ Crash(j)
      PROVE  RecoveryInv'
  <2>1. TypeOK /\ TypeOK'
    BY <1>2, StepTypes DEF RecoveryInv
  <2>2. RowsOK'
    BY <1>2, StepRows
  <2>3. ASSUME NEW i \in Job PROVE JobOK(i)'
    <3>1. CASE i = j
      BY <1>2, <3>1, StartedJob, GoneJob
    <3>2. CASE i # j
      <4>1. job'[i] = job[i]
        BY <1>2, <2>1, <3>2, OthersWait
      <4>2. \A q \in Request : Kept(q)
        BY <1>2, StepRequest
      <4>3. JobOK(i)
        BY DEF RecoveryInv, JobsOK
      <4>4. QED
        BY <2>1, <4>1, <4>2, <4>3, WaitingJob
    <3>3. QED
      BY <3>1, <3>2
  <2>4. QED
    BY <2>1, <2>2, <2>3 DEF RecoveryInv, JobsOK
<1>3. CASE UNCHANGED vars
  <2>1. UNCHANGED <<req, seats, votes, job>>
    BY <1>3 DEF vars, rowVars, panelVars
  <2>2. TypeOK'
    BY <1>3 DEF vars, sessionVars, rowVars, panelVars, mailVars, clockVars, RecoveryInv, TypeOK,
       SessionsTypeOK
  <2>3. RowsOK'
    BY <2>1 DEF RecoveryInv, RowsOK, Vouched, Opened, Majority
  <2>4. JobsOK'
    BY <2>1 DEF RecoveryInv, JobsOK, JobOK, Vouched, Opened, Majority
  <2>5. QED
    BY <2>2, <2>3, <2>4 DEF RecoveryInv
<1>4. QED
  BY <1>1, <1>2, <1>3 DEF Next

\* Whatever the guardians, the requests and the handlers under way, and whatever mail is
\* lost or handler killed: a written majority is one of votes of seated guardians, and
\* what a handler has read of it stays true (lib/recovery-vote.ts, complete/route.ts).
THEOREM RecoveryIsSafe == Spec => []RecoveryInv
<1>1. Init => RecoveryInv
  BY InitIsSafe
<1>2. RecoveryInv /\ [Next]_vars => RecoveryInv'
  BY NextIsSafe
<1>3. QED
  BY <1>1, <1>2, PTL DEF Spec

\* The rows, the sessions and the handlers keep their types.
THEOREM RecoveryTypes == Spec => []TypeOK
<1>1. RecoveryInv => TypeOK
  BY DEF RecoveryInv
<1>2. QED
  BY <1>1, RecoveryIsSafe, PTL

\* The number moves only by a handler whose request two guardians of its panel, and no
\* fewer than its bar, have approved.
VouchedMove ==
    phone' # phone =>
        \E j \in Job :
            LET r == job[j].r IN
            /\ At(j, "move") /\ phone' = job[j].number
            /\ req[r].verified
            /\ votes[r] \subseteq seats[r]
            /\ Cardinality(votes[r]) >= AtLeast(req[r].required)

LEMMA StepIsVouched ==
    ASSUME RecoveryInv, [Next]_vars
    PROVE  VouchedMove
<1>1. SUFFICES ASSUME phone' # phone PROVE VouchedMove
  BY DEF VouchedMove
<1>2. ~World
  BY <1>1 DEF World, SessionsNext, StartSignIn, StartSignOut, IssueSession, Bump,
     RemoveBackupEmail, CoolingEnds, RevokeGuardian, WeekEnds, DayEnds, sessionVars
<1>3. PICK j \in Job : Starts(j) \/ Goes(j) \/ Crash(j)
  BY <1>1, <1>2 DEF Next, vars, sessionVars
<1>4. ~Starts(j) /\ ~Crash(j)
  BY <1>1 DEF Starts, StartRecovery, OpenLink, StartLapse, StartVote, StartComplete, Crash,
     sessionVars
<1>5. MoveNumber(j)
  BY <1>1, <1>3, <1>4 DEF Goes, Replace, AlreadyOpen, InsertRequest, SeatPanel, FixBar, Confirm,
     AllAsked, AskGuardian, Lapse, Reject, RecordVote, CountVotes, ReadAddress, NoBackupEmail,
     Reach, MailFinishLink, MailFails, Undo, BurnLink, ReadOwner, ClaimFinish, RevokeSessions,
     Release, SignIn, sessionVars
<1>6. At(j, "move") /\ phone' = job[j].number
  BY <1>1, <1>5 DEF MoveNumber
<1>7. PICK r \in Request : r = job[j].r /\ Vouched(r) /\ votes[r] \subseteq seats[r]
  BY <1>6 DEF At, RecoveryInv, JobsOK, JobOK, RowsOK
<1>8. QED
  BY <1>6, <1>7 DEF VouchedMove, Vouched, Opened, Majority

\* No one person can recover an account, however votes, undone mails, released claims and
\* new requests interleave: MoveIsVouched, for every panel.
THEOREM MovesAreVouched == Spec => MoveIsVouched
<1>1. RecoveryInv /\ [Next]_vars => [VouchedMove]_vars
  BY StepIsVouched
<1>2. MoveIsVouched <=> [][VouchedMove]_vars
  BY PTL DEF MoveIsVouched, VouchedMove
<1>3. QED
  BY <1>1, <1>2, RecoveryIsSafe, PTL DEF Spec

-----------------------------------------------------------------------------
(* One submit of a finish link is past the claim, and a refusal stays. *)

\* A request whose account is being moved was claimed, and at worst filed as expired.
ClaimedStays ==
    \A j \in Job : Finishing(j) => req[job[j].r].status \in {"approved", "expired"}

FinishInv == ClaimedStays /\ OneFinisher

\* What a step may do to the status of a request.
LEMMA StepStatus ==
    ASSUME RecoveryInv, NEW j \in Job, Starts(j) \/ Goes(j) \/ Crash(j), NEW q \in Request
    PROVE  \/ req'[q].status = req[q].status
           \/ req'[q].status = "expired"
           \/ req[q].status = "pending" /\ (ClaimFinish(j) \/ Reject(j))
           \/ req[q].status = "none"
           \/ Release(j) /\ job[j].r = q
<1>1. req \in [Request -> Requests]
  BY DEF RecoveryInv, TypeOK
<1>2. job[j].at \notin {"idle", "insert"} => job[j].r \in Request
  BY JobRequest DEF RecoveryInv
<1>3. Starts(j) \/ Crash(j) => UNCHANGED req
  BY DEF Starts, StartRecovery, OpenLink, StartLapse, StartVote, StartComplete, Crash, rowVars
<1>4. \/ AlreadyOpen(j) \/ AllAsked(j) \/ \E g \in Guardian : AskGuardian(j, g)
      \/ SeatPanel(j) \/ RecordVote(j)
      \/ CountVotes(j) \/ ReadAddress(j) \/ MailFinishLink(j) \/ MailFails(j) \/ BurnLink(j)
      \/ ReadOwner(j) \/ RevokeSessions(j) \/ MoveNumber(j) \/ SignIn(j)
      => UNCHANGED req
  BY DEF AlreadyOpen, AllAsked, AskGuardian, SeatPanel, RecordVote, CountVotes, ReadAddress,
         MailFinishLink, MailFails, BurnLink, ReadOwner, RevokeSessions, MoveNumber, SignIn, rowVars
<1>5. FixBar(j) \/ Confirm(j) \/ Reach(j) \/ Undo(j) => req'[q].status = req[q].status
  <2>1. FixBar(j) \/ Confirm(j) => req'[q].status = req[q].status
    BY <1>1 DEF FixBar, Confirm, Requests
  <2>2. Reach(j) => req'[q].status = req[q].status
    BY <1>1 DEF Reach, Requests
  <2>3. Undo(j) => req'[q].status = req[q].status
    BY <1>1 DEF Undo, Requests
  <2>4. QED
    BY <2>1, <2>2, <2>3
<1>6. Replace(j) \/ Lapse(j) \/ NoBackupEmail(j)
      => req'[q].status = req[q].status \/ req'[q].status = "expired"
  BY <1>1 DEF Replace, Lapse, NoBackupEmail, Requests
<1>7. ASSUME NEW r \in Request, InsertRequest(j, r)
      PROVE  req'[q].status = req[q].status \/ req[q].status = "none"
  BY <1>1, <1>7 DEF InsertRequest, Requests
<1>8. Reject(j) => req'[q].status = req[q].status \/ req[q].status = "pending"
  BY <1>1 DEF Reject, Pending, Requests
<1>9. ClaimFinish(j) => req'[q].status = req[q].status \/ req[q].status = "pending"
  BY <1>1 DEF ClaimFinish, SameLinkStillOpen, Pending, Requests
<1>10. Release(j) => req'[q].status = req[q].status \/ job[j].r = q
  BY <1>1 DEF Release, Requests
<1>11. QED
  BY <1>3, <1>4, <1>5, <1>6, <1>7, <1>8, <1>9, <1>10 DEF Goes

\* The claim is the one way past it, for a request that is open.
LEMMA StepFinishes ==
    ASSUME RecoveryInv, NEW j \in Job, Starts(j) \/ Goes(j) \/ Crash(j), Finishing(j)'
    PROVE  /\ job'[j].r = job[j].r /\ job[j].r \in Request /\ ~Release(j)
           /\ \/ Finishing(j) /\ UNCHANGED req
              \/ /\ Pending(job[j].r) /\ req'[job[j].r].status = "approved"
                 /\ \A q \in Request : q # job[j].r => req'[q] = req[q]
<1>1. job \in [Job -> Jobs] /\ req \in [Request -> Requests] /\ job[j] \in Jobs
  BY DEF RecoveryInv, TypeOK
<1>2. job[j].at \notin {"idle", "insert"} => job[j].r \in Request
  BY JobRequest DEF RecoveryInv
<1>3. job'[j].at \in {"revoke", "move", "release", "issue"}
  BY DEF Finishing
<1>4. ~Starts(j) /\ ~Crash(j)
  BY <1>1, <1>3 DEF Starts, StartRecovery, OpenLink, StartLapse, StartVote, StartComplete, Crash,
     Begin, Return, NoJob
<1>5. ~Return(j) /\ ~Voted(j)
  <2>1. Return(j) => job'[j].at = "idle"
    BY <1>1 DEF Return, NoJob
  <2>2. Goto(j, "burn") => job'[j].at = "burn"
    BY <1>1 DEF Goto, Jobs
  <2>3. QED
    BY <1>3, <2>1, <2>2 DEF Voted
<1>6. \A at \in Steps : Goto(j, at) => job'[j].at = at /\ job'[j].r = job[j].r
  BY <1>1 DEF Goto, Jobs
<1>7. ~(Replace(j) \/ SeatPanel(j) \/ FixBar(j) \/ RecordVote(j) \/ CountVotes(j) \/ ReadAddress(j)
        \/ MailFails(j))
  BY <1>3, <1>5, <1>6 DEF Replace, SeatPanel, FixBar, RecordVote, CountVotes, ReadAddress,
     MailFails, Steps
<1>8. ~(AlreadyOpen(j) \/ AllAsked(j) \/ Lapse(j) \/ Reject(j) \/ NoBackupEmail(j)
        \/ MailFinishLink(j) \/ Undo(j) \/ BurnLink(j) \/ Release(j) \/ SignIn(j)
        \/ \E r \in Request : InsertRequest(j, r))
  BY <1>5 DEF AlreadyOpen, AllAsked, Lapse, Reject, NoBackupEmail, MailFinishLink, Undo, BurnLink,
     Release, SignIn, InsertRequest
<1>9. ~(Confirm(j) \/ Reach(j) \/ ReadOwner(j) \/ \E g \in Guardian : AskGuardian(j, g))
  BY <1>1, <1>3, <1>5 DEF Confirm, Reach, ReadOwner, AskGuardian, At, Jobs
<1>10. ClaimFinish(j) \/ RevokeSessions(j) \/ MoveNumber(j)
  BY <1>4, <1>7, <1>8, <1>9 DEF Goes
<1>11. job[j].r \in Request
  BY <1>2, <1>10 DEF ClaimFinish, RevokeSessions, MoveNumber, At
<1>12. CASE ClaimFinish(j)
  <2>1. /\ SameLinkStillOpen(job[j].r, job[j].link)
        /\ req' = [req EXCEPT ![job[j].r].status = "approved", ![job[j].r].link = 0]
        /\ Goto(j, "revoke")
    BY <1>5, <1>12 DEF ClaimFinish
  <2>2. job'[j].r = job[j].r
    BY <1>6, <2>1 DEF Steps
  <2>3. req'[job[j].r].status = "approved" /\ \A q \in Request : q # job[j].r => req'[q] = req[q]
    BY <1>1, <1>11, <2>1 DEF Requests
  <2>4. QED
    BY <1>8, <1>11, <2>1, <2>2, <2>3 DEF SameLinkStillOpen
<1>13. CASE RevokeSessions(j) \/ MoveNumber(j)
  <2>1. Finishing(j) /\ UNCHANGED req
    BY <1>13 DEF RevokeSessions, MoveNumber, At, Finishing, rowVars
  <2>2. job'[j].r = job[j].r
    BY <1>6, <1>13 DEF RevokeSessions, MoveNumber, Steps
  <2>3. QED
    BY <1>8, <1>11, <2>1, <2>2
<1>14. QED
  BY <1>10, <1>12, <1>13

\* A handler past the claim keeps its request, and keeps it alone.
LEMMA NextFinishes ==
    ASSUME RecoveryInv, FinishInv, [Next]_vars
    PROVE  FinishInv'
<1>1. CASE World \/ UNCHANGED vars
  <2>1. UNCHANGED <<req, job>>
    BY <1>1, WorldWaits DEF vars, rowVars
  <2>2. QED
    BY <2>1 DEF FinishInv, ClaimedStays, OneFinisher, Finishing
<1>2. ASSUME NEW j \in Job, Starts(j) \/ Goes(j) \/ Crash(j)
      PROVE  FinishInv'
  <2>1. \A i \in Job : i # j => job'[i] = job[i]
    BY <1>2, OthersWait DEF RecoveryInv
  <2>2. ASSUME NEW i \in Job, Finishing(i) PROVE job[i].r \in Request
    BY <2>2, JobRequest DEF RecoveryInv, Finishing
  <2>3. ASSUME NEW i \in Job, Finishing(i)' PROVE req'[job'[i].r].status \in {"approved", "expired"}
    <3>1. CASE i = j
      <4>1. /\ job'[j].r = job[j].r
            /\ \/ Finishing(j) /\ UNCHANGED req
               \/ req'[job[j].r].status = "approved"
        BY <1>2, <2>3, <3>1, StepFinishes
      <4>2. QED
        BY <3>1, <4>1 DEF FinishInv, ClaimedStays
    <3>2. CASE i # j
      <4>1. job'[i] = job[i] /\ Finishing(i)
        BY <2>1, <2>3, <3>2 DEF Finishing
      <4>2. PICK q \in Request : q = job[i].r
        BY <2>2, <4>1
      <4>3. req[q].status \in {"approved", "expired"}
        BY <4>1, <4>2 DEF FinishInv, ClaimedStays
      <4>4. ~(Release(j) /\ job[j].r = q)
        BY <3>2, <4>1, <4>2 DEF FinishInv, OneFinisher, Finishing, Release, At
      <4>5. req'[q].status \in {"approved", "expired"}
        BY <1>2, <4>3, <4>4, StepStatus
      <4>6. QED
        BY <4>1, <4>2, <4>5
    <3>3. QED
      BY <3>1, <3>2
  <2>4. ASSUME NEW i \in Job, i # j, Finishing(i)', Finishing(j)', job'[i].r = job'[j].r
        PROVE  FALSE
    <3>1. job'[i] = job[i] /\ Finishing(i)
      BY <2>1, <2>4 DEF Finishing
    <3>2. job'[j].r = job[j].r /\ (Finishing(j) \/ Pending(job[j].r))
      BY <1>2, <2>4, StepFinishes
    <3>3. CASE Finishing(j)
      BY <2>4, <3>1, <3>2, <3>3 DEF FinishInv, OneFinisher
    <3>4. CASE Pending(job[j].r)
      BY <2>4, <3>1, <3>2, <3>4 DEF FinishInv, ClaimedStays, Pending
    <3>5. QED
      BY <3>2, <3>3, <3>4
  <2>5. ClaimedStays'
    BY <2>3 DEF ClaimedStays
  <2>6. OneFinisher'
    <3>1. SUFFICES ASSUME NEW i \in Job, NEW k \in Job, i # k, i # j, k # j,
                          Finishing(i)', Finishing(k)', job'[i].r = job'[k].r
                   PROVE  FALSE
      BY <2>4 DEF OneFinisher
    <3>2. job'[i] = job[i] /\ job'[k] = job[k]
      BY <2>1, <3>1
    <3>3. QED
      BY <3>1, <3>2 DEF FinishInv, OneFinisher, Finishing
  <2>7. QED
    BY <2>5, <2>6 DEF FinishInv
<1>3. QED
  BY <1>1, <1>2 DEF Next

\* Of any number of submits of a finish link, one is past the claim (complete/route.ts);
\* a request it claimed is not opened under it.
THEOREM FinishIsSafe == Spec => []FinishInv
<1>1. Init => FinishInv
  BY DEF Init, FinishInv, ClaimedStays, OneFinisher, Finishing, NoJob
<1>2. RecoveryInv /\ FinishInv /\ [Next]_vars => FinishInv'
  BY NextFinishes
<1>3. QED
  BY <1>1, <1>2, RecoveryIsSafe, PTL DEF Spec

\* Two submits that share a finish link never both move the account.
THEOREM OneSubmitFinishes == Spec => []OneFinisher
<1>1. FinishInv => OneFinisher
  BY DEF FinishInv
<1>2. QED
  BY <1>1, FinishIsSafe, PTL

\* A request that was refused is refused or filed as expired, and is not reopened.
RefusalStays ==
    \A r \in Request :
        req[r].status = "rejected" => req'[r].status \in {"rejected", "expired"}

\* Releasing a claim is the one step that opens a request again, and it was claimed.
LEMMA StepKeepsRefusal ==
    ASSUME RecoveryInv, FinishInv, [Next]_vars
    PROVE  RefusalStays
<1>1. SUFFICES ASSUME NEW q \in Request, req[q].status = "rejected"
               PROVE  req'[q].status \in {"rejected", "expired"}
  BY DEF RefusalStays
<1>2. CASE World \/ UNCHANGED vars
  <2>1. UNCHANGED req
    BY <1>2, WorldWaits DEF vars, rowVars
  <2>2. QED
    BY <1>1, <2>1
<1>3. ASSUME NEW j \in Job, Starts(j) \/ Goes(j) \/ Crash(j)
      PROVE  req'[q].status \in {"rejected", "expired"}
  <2>1. ~(Release(j) /\ job[j].r = q)
    BY <1>1 DEF FinishInv, ClaimedStays, Finishing, Release, At
  <2>2. QED
    BY <1>1, <1>3, <2>1, StepStatus
<1>4. QED
  BY <1>2, <1>3 DEF Next

\* A guardian's "no" ends the request for good, whatever is undone, released or late
\* (recovery-vote.ts): RejectionIsFinal, for every panel.
THEOREM RefusalsAreFinal == Spec => RejectionIsFinal
<1>1. RecoveryInv /\ FinishInv /\ [Next]_vars => [RefusalStays]_vars
  BY StepKeepsRefusal
<1>2. RejectionIsFinal <=> [][RefusalStays]_vars
  BY PTL DEF RejectionIsFinal, RefusalStays
<1>3. QED
  BY <1>1, <1>2, RecoveryIsSafe, FinishIsSafe, PTL DEF Spec

-----------------------------------------------------------------------------
(* Sign-outs are final until a finish link is made. *)

Minted(r) == req[r].minted # 0

\* A link on file was minted, a handler of a finish request holds one that was, and
\* before the first one a sign-out has answered only for versions now past.
LinksOK ==
    /\ \A r \in Request : req[r].link # 0 => Minted(r)
    /\ \A j \in Job : job[j].at \in {"owner", "claim", "revoke", "move", "release", "issue"}
                          => Minted(job[j].r)
    /\ (\E r \in Request : Minted(r)) \/ \A t \in dead : t.version < version

\* A step of a handler forgets no minted link, and files none that was not.
LEMMA StepMints ==
    ASSUME RecoveryInv, LinksOK, NEW j \in Job, Starts(j) \/ Goes(j) \/ Crash(j), NEW q \in Request
    PROVE  /\ Minted(q) => Minted(q)'
           /\ req'[q].link # 0 => Minted(q)'
<1>1. /\ req \in [Request -> Requests] /\ req[q] \in Requests
      /\ req[q].link # 0 => req[q].minted # 0
  BY DEF RecoveryInv, TypeOK, LinksOK, Minted
<1>2. job[j].at \notin {"idle", "insert"} => job[j].r \in Request
  BY JobRequest DEF RecoveryInv
<1>3. Starts(j) \/ Crash(j) => UNCHANGED req
  BY DEF Starts, StartRecovery, OpenLink, StartLapse, StartVote, StartComplete, Crash, rowVars
<1>4. \/ AlreadyOpen(j) \/ AllAsked(j) \/ \E g \in Guardian : AskGuardian(j, g)
      \/ SeatPanel(j) \/ RecordVote(j)
      \/ CountVotes(j) \/ ReadAddress(j) \/ MailFinishLink(j) \/ MailFails(j) \/ BurnLink(j)
      \/ ReadOwner(j) \/ RevokeSessions(j) \/ MoveNumber(j) \/ SignIn(j)
      => UNCHANGED req
  BY DEF AlreadyOpen, AllAsked, AskGuardian, SeatPanel, RecordVote, CountVotes, ReadAddress,
         MailFinishLink, MailFails, BurnLink, ReadOwner, RevokeSessions, MoveNumber, SignIn, rowVars
<1>5. ASSUME UNCHANGED req \/ (/\ req'[q].minted = req[q].minted
                              /\ req'[q].link \in {0, req[q].link})
      PROVE  (Minted(q) => Minted(q)') /\ (req'[q].link # 0 => Minted(q)')
  BY <1>1, <1>5 DEF Minted
<1>6. Replace(j) \/ Lapse(j) \/ Reject(j) \/ NoBackupEmail(j)
      => req'[q].minted = req[q].minted /\ req'[q].link = req[q].link
  BY <1>1 DEF Replace, Lapse, Reject, NoBackupEmail, Requests
<1>7. ASSUME NEW r \in Request, InsertRequest(j, r)
      PROVE  req'[q].minted = req[q].minted /\ req'[q].link = req[q].link
  BY <1>1, <1>7 DEF InsertRequest, Requests
<1>8. FixBar(j) => req'[q].minted = req[q].minted /\ req'[q].link = req[q].link
  BY <1>1 DEF FixBar, Requests
<1>9. Confirm(j) => req'[q].minted = req[q].minted /\ req'[q].link = req[q].link
  BY <1>1 DEF Confirm, Requests
<1>10. Undo(j) => req'[q].minted = req[q].minted /\ req'[q].link \in {0, req[q].link}
  BY <1>1 DEF Undo, Requests
<1>11. ClaimFinish(j) => req'[q].minted = req[q].minted /\ req'[q].link \in {0, req[q].link}
  BY <1>1 DEF ClaimFinish, Requests
<1>12. CASE Reach(j)
  <2>1. CASE req'[q] = req[q]
    BY <1>1, <2>1 DEF Minted
  <2>2. CASE req'[q] # req[q]
    <3>1. /\ q = job[j].r
          /\ req' = [req EXCEPT ![q].reached = TRUE, ![q].link = req[q].minted + 1,
                                ![q].minted = req[q].minted + 1, ![q].window = "day"]
      BY <1>1, <1>12, <2>2 DEF Reach
    <3>2. req'[q].minted = req[q].minted + 1 /\ req[q].minted \in Nat
      BY <1>1, <3>1 DEF Requests
    <3>3. QED
      BY <3>2 DEF Minted
  <2>3. QED
    BY <2>1, <2>2
<1>13. CASE Release(j)
  <2>1. Minted(job[j].r)
    BY <1>13 DEF Release, At, LinksOK
  <2>2. /\ req'[q].minted = req[q].minted
        /\ q = job[j].r \/ req'[q].link = req[q].link
    BY <1>1, <1>13 DEF Release, Requests
  <2>3. QED
    BY <1>1, <2>1, <2>2 DEF Minted
<1>14. QED
  BY <1>3, <1>4, <1>5, <1>6, <1>7, <1>8, <1>9, <1>10, <1>11, <1>12, <1>13 DEF Goes

\* A finish request is about a request whose link was minted.
Completing == {"owner", "claim", "revoke", "move", "release", "issue"}

LEMMA StepCompletes ==
    ASSUME RecoveryInv, NEW j \in Job, Starts(j) \/ Goes(j) \/ Crash(j), job'[j].at \in Completing
    PROVE  /\ job'[j].r \in Request
           /\ \/ job[j].at \in Completing /\ job'[j].r = job[j].r
              \/ req[job'[j].r].link # 0
<1>1. /\ job \in [Job -> Jobs] /\ job[j] \in Jobs
  BY DEF RecoveryInv, TypeOK
<1>2. job[j].at \notin {"idle", "insert"} => job[j].r \in Request
  BY JobRequest DEF RecoveryInv
<1>3. ~Return(j) /\ ~Voted(j)
  <2>1. Return(j) => job'[j].at = "idle"
    BY <1>1 DEF Return, NoJob
  <2>2. Goto(j, "burn") => job'[j].at = "burn"
    BY <1>1 DEF Goto, Jobs
  <2>3. QED
    BY <2>1, <2>2 DEF Voted, Completing
<1>4. \A at \in Steps : Goto(j, at) => job'[j].at = at /\ job'[j].r = job[j].r
  BY <1>1 DEF Goto, Jobs
<1>5. CASE Starts(j)
  <2>1. ASSUME NEW r \in Request, NEW link \in 1 .. MaxLinks, NEW n \in Number,
               StartComplete(j, r, link, n)
        PROVE  job'[j].r \in Request /\ req[job'[j].r].link # 0
    <3>1. job'[j].r = r
      BY <1>1, <2>1 DEF StartComplete, Begin
    <3>2. req[r].link # 0
      BY <2>1 DEF StartComplete, CanComplete
    <3>3. QED
      BY <3>1, <3>2
  <2>2. ~\E open \in Request \cup {None} : StartRecovery(j, open)
    BY <1>1 DEF StartRecovery, Begin, Completing
  <2>3. ~\E r \in Request : OpenLink(j, r) \/ StartLapse(j, r)
    BY <1>1 DEF OpenLink, StartLapse, Begin, Completing
  <2>4. ~\E r \in Request, g \in Guardian, accept \in BOOLEAN : StartVote(j, r, g, accept)
    BY <1>1 DEF StartVote, Begin, Completing
  <2>5. QED
    BY <1>5, <2>1, <2>2, <2>3, <2>4 DEF Starts
<1>6. ~Crash(j)
  BY <1>3 DEF Crash
<1>7. ~(Replace(j) \/ SeatPanel(j) \/ FixBar(j) \/ RecordVote(j) \/ CountVotes(j) \/ ReadAddress(j)
        \/ MailFails(j))
  BY <1>3, <1>4 DEF Replace, SeatPanel, FixBar, RecordVote, CountVotes, ReadAddress,
     MailFails, Steps, Completing
<1>8. ~(AlreadyOpen(j) \/ AllAsked(j) \/ Lapse(j) \/ Reject(j) \/ NoBackupEmail(j)
        \/ MailFinishLink(j) \/ Undo(j) \/ BurnLink(j) \/ Release(j) \/ SignIn(j)
        \/ \E r \in Request : InsertRequest(j, r))
  BY <1>3 DEF AlreadyOpen, AllAsked, Lapse, Reject, NoBackupEmail, MailFinishLink, Undo, BurnLink,
     Release, SignIn, InsertRequest
<1>9. ~(Confirm(j) \/ Reach(j) \/ \E g \in Guardian : AskGuardian(j, g))
  BY <1>1, <1>3 DEF Confirm, Reach, AskGuardian, At, Jobs, Completing
<1>10. CASE ReadOwner(j) \/ ClaimFinish(j) \/ RevokeSessions(j) \/ MoveNumber(j)
  <2>1. job[j].at \in Completing /\ job[j].r \in Request
    BY <1>2, <1>10 DEF ReadOwner, ClaimFinish, RevokeSessions, MoveNumber, At, Completing
  <2>2. job'[j].r = job[j].r
    <3>1. ReadOwner(j) => job'[j].r = job[j].r
      BY <1>1, <1>3 DEF ReadOwner, Jobs
    <3>2. ClaimFinish(j) \/ RevokeSessions(j) \/ MoveNumber(j) => job'[j].r = job[j].r
      BY <1>3, <1>4 DEF ClaimFinish, RevokeSessions, MoveNumber, Steps
    <3>3. QED
      BY <1>10, <3>1, <3>2
  <2>3. QED
    BY <2>1, <2>2
<1>11. QED
  BY <1>5, <1>6, <1>7, <1>8, <1>9, <1>10 DEF Goes

\* Without a minted link, only a sign-out writes the account's version.
LEMMA StepKeepsVersion ==
    ASSUME RecoveryInv, LinksOK, NEW j \in Job, Starts(j) \/ Goes(j) \/ Crash(j),
           \A r \in Request : ~Minted(r)
    PROVE  UNCHANGED <<version, dead>>
<1>1. ~RevokeSessions(j)
  <2>1. RevokeSessions(j) => Minted(job[j].r) /\ job[j].r \in Request
    BY JobRequest DEF RevokeSessions, At, LinksOK, RecoveryInv
  <2>2. QED
    BY <2>1
<1>2. Starts(j) \/ Crash(j) => UNCHANGED <<version, dead>>
  BY DEF Starts, StartRecovery, OpenLink, StartLapse, StartVote, StartComplete, Crash, sessionVars
<1>3. Goes(j) => UNCHANGED <<version, dead>>
  BY <1>1 DEF Goes, Replace, AlreadyOpen, InsertRequest, SeatPanel, FixBar, Confirm,
     AllAsked, AskGuardian, Lapse, Reject, RecordVote, CountVotes, ReadAddress, NoBackupEmail,
     Reach, MailFinishLink, MailFails, Undo, BurnLink, ReadOwner, ClaimFinish, MoveNumber,
     Release, SignIn, sessionVars
<1>4. QED
  BY <1>2, <1>3

\* A sign-out answers for versions older than the one it leaves the account at.
LEMMA WorldKeepsVersions ==
    ASSUME RecoveryInv, World, \A t \in dead : t.version < version
    PROVE  \A t \in dead' : t.version < version'
<1>1. /\ version \in Nat /\ visit \in [Visit -> Visits] /\ tokens \subseteq Token
      /\ dead \subseteq Token
  BY SessionsAssumption DEF RecoveryInv, TypeOK, SessionsTypeOK, SessionsAssumption
<1>2. ASSUME NEW v \in Visit, Bump(v) PROVE \A t \in dead' : t.version < version'
  <2>1. visit[v].version \in Nat
    BY <1>1, SessionsAssumption DEF Visits, SessionsAssumption
  <2>2. version <= version' /\ visit[v].version <= version' /\ version' \in Nat
    BY <1>1, <1>2, <2>1 DEF Bump, Raised
  <2>3. dead' = dead \cup {t \in tokens : t.version < visit[v].version}
    BY <1>2 DEF Bump
  <2>4. ASSUME NEW t \in dead' PROVE t.version < version'
    <3>1. t.version < version \/ t.version < visit[v].version
      BY <2>3, <2>4
    <3>2. t.version \in Nat
      BY <1>1, <2>3, <2>4, SessionsAssumption DEF Token, SessionsAssumption
    <3>3. QED
      BY <1>1, <2>1, <2>2, <3>1, <3>2
  <2>5. QED
    BY <2>4
<1>3. ASSUME \A v \in Visit : ~Bump(v)
      PROVE  UNCHANGED <<version, dead>>
  BY <1>3 DEF World, SessionsNext, StartSignIn, StartSignOut, IssueSession,
     RemoveBackupEmail, CoolingEnds, RevokeGuardian, WeekEnds, DayEnds, sessionVars
<1>4. QED
  BY <1>2, <1>3

LEMMA NextLinks ==
    ASSUME RecoveryInv, LinksOK, [Next]_vars
    PROVE  LinksOK'
<1>1. CASE World \/ UNCHANGED vars
  <2>1. UNCHANGED <<req, job>>
    BY <1>1, WorldWaits DEF vars, rowVars
  <2>2. (\A t \in dead : t.version < version) => \A t \in dead' : t.version < version'
    BY <1>1, WorldKeepsVersions DEF vars, sessionVars
  <2>3. QED
    BY <2>1, <2>2 DEF LinksOK, Minted
<1>2. ASSUME NEW j \in Job, Starts(j) \/ Goes(j) \/ Crash(j)
      PROVE  LinksOK'
  <2>1. \A q \in Request : (Minted(q) => req'[q].minted # 0) /\ (req'[q].link # 0 => req'[q].minted # 0)
    BY <1>2, StepMints DEF Minted
  <2>2. ASSUME NEW i \in Job, job'[i].at \in Completing PROVE req'[job'[i].r].minted # 0
    <3>1. CASE i = j
      <4>1. PICK q \in Request :
                /\ q = job'[j].r
                /\ (job[j].at \in Completing /\ q = job[j].r) \/ req[q].link # 0
        BY <1>2, <2>2, <3>1, StepCompletes
      <4>2. Minted(q)
        BY <4>1 DEF LinksOK, Completing
      <4>3. QED
        BY <2>1, <3>1, <4>1, <4>2
    <3>2. CASE i # j
      <4>1. job'[i] = job[i]
        BY <1>2, <3>2, OthersWait DEF RecoveryInv
      <4>2. PICK q \in Request : q = job[i].r
        BY <2>2, <4>1, JobRequest DEF RecoveryInv, Completing
      <4>3. Minted(q)
        BY <2>2, <4>1, <4>2 DEF LinksOK, Completing
      <4>4. QED
        BY <2>1, <4>1, <4>2, <4>3
    <3>3. QED
      BY <3>1, <3>2
  <2>3. (\E r \in Request : req'[r].minted # 0) \/ \A t \in dead' : t.version < version'
    <3>1. CASE \E r \in Request : Minted(r)
      BY <2>1, <3>1
    <3>2. CASE \A r \in Request : ~Minted(r)
      <4>1. UNCHANGED <<version, dead>>
        BY <1>2, <3>2, StepKeepsVersion
      <4>2. QED
        BY <3>2, <4>1 DEF LinksOK
    <3>3. QED
      BY <3>1, <3>2
  <2>4. QED
    BY <2>1, <2>2, <2>3 DEF LinksOK, Minted, Completing
<1>3. QED
  BY <1>1, <1>2 DEF Next

\* Until a recovery gets as far as a finish link, no token a sign-out answered for is good
\* again (logout/route.ts), however sign-ins, sign-outs and starts of a recovery interleave.
THEOREM SignOutsAreFinal == Spec => []SignOutsHold
<1>1. Init => LinksOK
  BY DEF Init, SessionsInit, LinksOK, Minted, NoRequest, NoJob
<1>2. RecoveryInv /\ LinksOK /\ [Next]_vars => LinksOK'
  BY NextLinks
<1>3. RecoveryInv /\ LinksOK => SignOutsHold
  <2>1. SUFFICES ASSUME RecoveryInv, LinksOK, \A r \in Request : req[r].minted = 0, NEW t \in dead
                 PROVE  t.version # version
    BY DEF SignOutsHold, SignedOutStaysOut, Live
  <2>2. t.version < version
    BY <2>1 DEF LinksOK, Minted
  <2>3. version \in Nat
    BY <2>1, SessionsAssumption DEF RecoveryInv, TypeOK, SessionsTypeOK, SessionsAssumption
  <2>4. QED
    BY <2>2, <2>3
<1>4. QED
  BY <1>1, <1>2, <1>3, RecoveryIsSafe, PTL DEF Spec

-----------------------------------------------------------------------------
(* Two deciding votes never leave the finish link to each other. *)

Deciding == {"count", "address", "close", "decide"}

\* No vote is in before a request has its bar, which only a request that was mailed gets;
\* with nothing failing, no majority is taken back.
BarOK ==
    /\ \A r \in Request : req[r].required = 0 => votes[r] = {}
    /\ \A r \in Request : req[r].status = "none" => req[r].required = 0
    /\ \A j \in Job : job[j].at \in {"seat", "bar"} => req[job[j].r].status # "none"
    /\ faults = 0 => \A j \in Job : job[j].at \notin {"undo", "release"}

HeardInv == BarOK /\ MajorityIsHeard

\* Which step changes the votes, the bar or a written majority, and which opens a request.
LEMMA StepDecides ==
    ASSUME RecoveryInv, NEW j \in Job, Starts(j) \/ Goes(j) \/ Crash(j), NEW q \in Request
    PROVE  /\ votes'[q] = votes[q] \/ (RecordVote(j) /\ job[j].r = q)
           /\ req'[q].required = req[q].required \/ (FixBar(j) /\ job[j].r = q /\ req[q].required = 0)
           /\ req[q].reached /\ ~req'[q].reached => Undo(j)
           /\ req'[q].status = "none" => req[q].status = "none"
<1>1. /\ req \in [Request -> Requests] /\ req[q] \in Requests
      /\ votes \in [Request -> SUBSET Guardian]
  BY DEF RecoveryInv, TypeOK
<1>2. job[j].at \notin {"idle", "insert"} => job[j].r \in Request
  BY JobRequest DEF RecoveryInv
<1>3. Starts(j) \/ Crash(j) => UNCHANGED <<req, votes>>
  BY DEF Starts, StartRecovery, OpenLink, StartLapse, StartVote, StartComplete, Crash, rowVars,
         panelVars
<1>4. \/ AlreadyOpen(j) \/ AllAsked(j) \/ \E g \in Guardian : AskGuardian(j, g)
      \/ SeatPanel(j)
      \/ CountVotes(j) \/ ReadAddress(j) \/ MailFinishLink(j) \/ MailFails(j) \/ BurnLink(j)
      \/ ReadOwner(j) \/ RevokeSessions(j) \/ MoveNumber(j) \/ SignIn(j)
      => UNCHANGED <<req, votes>>
  BY DEF AlreadyOpen, AllAsked, AskGuardian, SeatPanel, CountVotes, ReadAddress,
         MailFinishLink, MailFails, BurnLink, ReadOwner, RevokeSessions, MoveNumber, SignIn, rowVars,
         panelVars
<1>5. RecordVote(j) => /\ UNCHANGED req
                       /\ votes'[q] = votes[q] \/ job[j].r = q
  BY <1>1, <1>2 DEF RecordVote
<1>6. FixBar(j) => /\ UNCHANGED votes
                   /\ req'[q].required = req[q].required \/ (job[j].r = q /\ req[q].required = 0)
                   /\ req'[q].reached = req[q].reached /\ req'[q].status = req[q].status
  BY <1>1 DEF FixBar, Requests, panelVars
<1>7. Undo(j) => /\ UNCHANGED votes
                 /\ req'[q].required = req[q].required /\ req'[q].status = req[q].status
  BY <1>1 DEF Undo, Requests, panelVars
<1>8. Confirm(j) \/ Reach(j)
      => /\ UNCHANGED votes
         /\ req'[q].required = req[q].required /\ req'[q].status = req[q].status
         /\ req[q].reached => req'[q].reached
  <2>1. CASE Confirm(j)
    BY <1>1, <2>1 DEF Confirm, Requests, panelVars
  <2>2. CASE Reach(j)
    <3>1. CASE req'[q] = req[q]
      BY <2>2, <3>1 DEF Reach, panelVars
    <3>2. CASE req'[q] # req[q]
      <4>1. req' = [req EXCEPT ![q].reached = TRUE, ![q].link = req[q].minted + 1,
                               ![q].minted = req[q].minted + 1, ![q].window = "day"]
        BY <1>1, <2>2, <3>2 DEF Reach
      <4>2. QED
        BY <1>1, <2>2, <4>1 DEF Reach, Requests, panelVars
    <3>3. QED
      BY <3>1, <3>2
  <2>3. QED
    BY <2>1, <2>2
<1>9. \/ Replace(j) \/ Lapse(j) \/ Reject(j) \/ NoBackupEmail(j) \/ ClaimFinish(j) \/ Release(j)
      \/ \E r \in Request : InsertRequest(j, r)
      => /\ UNCHANGED votes
         /\ req'[q].required = req[q].required /\ req'[q].reached = req[q].reached
         /\ req'[q].status = "none" => req[q].status = "none"
  <2> DEFINE Same == /\ UNCHANGED votes
                     /\ req'[q].required = req[q].required /\ req'[q].reached = req[q].reached
                     /\ req'[q].status = "none" => req[q].status = "none"
  <2>1. Replace(j) \/ Lapse(j) \/ Reject(j) \/ NoBackupEmail(j) => Same
    BY <1>1 DEF Replace, Lapse, Reject, NoBackupEmail, Requests, panelVars
  <2>2. ClaimFinish(j) => Same
    BY <1>1 DEF ClaimFinish, Requests, panelVars
  <2>3. Release(j) => Same
    BY <1>1 DEF Release, Requests, panelVars
  <2>4. ASSUME NEW r \in Request, InsertRequest(j, r) PROVE Same
    BY <1>1, <2>4 DEF InsertRequest, Requests, panelVars
  <2>5. QED
    BY <2>1, <2>2, <2>3, <2>4
<1>10. QED
  BY <1>3, <1>4, <1>5, <1>6, <1>7, <1>8, <1>9 DEF Goes

\* A handler that fails has been counted.
LEMMA FaultsCount ==
    ASSUME RecoveryInv, NEW j \in Job, Starts(j) \/ Goes(j) \/ Crash(j), faults' = 0
    PROVE  faults = 0 /\ ~Crash(j) /\ ~MailFails(j)
<1>1. faults \in Nat
  BY RecoveryAssumption DEF RecoveryInv, TypeOK, RecoveryAssumption
<1>2. ~Fault
  BY <1>1 DEF Fault
<1>3. ~Crash(j) /\ ~MailFails(j)
  BY <1>2 DEF Crash, MailFails
<1>4. Starts(j) => UNCHANGED faults
  BY DEF Starts, StartRecovery, OpenLink, StartLapse, StartVote, StartComplete
<1>5. Goes(j) => UNCHANGED faults
  BY <1>2, <1>3 DEF Goes, Replace, AlreadyOpen, InsertRequest, SeatPanel, FixBar, Confirm,
     AllAsked, AskGuardian, Lapse, Reject, RecordVote, CountVotes, ReadAddress, NoBackupEmail,
     Reach, MailFinishLink, Undo, BurnLink, ReadOwner, ClaimFinish, RevokeSessions, MoveNumber,
     Release, SignIn
<1>6. QED
  BY <1>3, <1>4, <1>5

\* Where a handler comes from.
LEMMA StepArrives ==
    ASSUME RecoveryInv, NEW j \in Job, Starts(j) \/ Goes(j) \/ Crash(j)
    PROVE  /\ job'[j].at \in {"seat", "bar"} =>
                  /\ job'[j].r \in Request
                  /\ req[job'[j].r].status # "none" \/ (job[j].at = "seat" /\ job'[j].r = job[j].r)
           /\ job'[j].at \in {"undo", "release"} => MailFails(j) \/ faults' # 0
<1>1. /\ job \in [Job -> Jobs] /\ job[j] \in Jobs /\ faults \in Nat
  BY RecoveryAssumption DEF RecoveryInv, TypeOK, RecoveryAssumption
<1>2. job[j].at \notin {"idle", "insert"} => job[j].r \in Request
  BY JobRequest DEF RecoveryInv
<1> DEFINE Early == job'[j].at \in {"seat", "bar"}
           Late == job'[j].at \in {"undo", "release"}
<1>3. \A at \in Steps : Goto(j, at) => job'[j].at = at /\ job'[j].r = job[j].r
  BY <1>1 DEF Goto, Jobs
<1>4. Return(j) \/ Voted(j) => ~Early /\ ~Late
  <2>1. Return(j) => job'[j].at = "idle"
    BY <1>1 DEF Return, NoJob
  <2>2. Goto(j, "burn") => job'[j].at = "burn"
    BY <1>1 DEF Goto, Jobs
  <2>3. QED
    BY <2>1, <2>2 DEF Voted
<1>5. ASSUME NEW r \in Request, OpenLink(j, r)
      PROVE  job'[j].r = r /\ req[r].status # "none" /\ ~Late
  BY <1>1, <1>5 DEF OpenLink, Begin, Pending
<1>6. (\E open \in Request \cup {None} : StartRecovery(j, open)) => ~Early /\ ~Late
  BY <1>1 DEF StartRecovery, Begin
<1>7. ASSUME NEW r \in Request,
             \/ StartLapse(j, r)
             \/ \E g \in Guardian, accept \in BOOLEAN : StartVote(j, r, g, accept)
             \/ \E link \in 1 .. MaxLinks, n \in Number : StartComplete(j, r, link, n)
      PROVE  ~Early /\ ~Late
  BY <1>1, <1>7 DEF StartLapse, StartVote, StartComplete, Begin
<1>8. \/ Replace(j) \/ FixBar(j) \/ RecordVote(j) \/ CountVotes(j) \/ ReadAddress(j)
      => ~Early /\ ~Late
  BY <1>3, <1>4 DEF Replace, FixBar, RecordVote, CountVotes, ReadAddress, Steps
<1>9. \/ AlreadyOpen(j) \/ AllAsked(j) \/ Lapse(j) \/ Reject(j) \/ NoBackupEmail(j)
      \/ MailFinishLink(j) \/ Undo(j) \/ BurnLink(j) \/ Release(j) \/ SignIn(j) \/ Crash(j)
      \/ \E r \in Request : InsertRequest(j, r)
      => ~Early /\ ~Late
  BY <1>4 DEF AlreadyOpen, AllAsked, Lapse, Reject, NoBackupEmail, MailFinishLink, Undo, BurnLink,
     Release, SignIn, InsertRequest, Crash
<1>10. Confirm(j) \/ Reach(j) \/ ReadOwner(j) \/ (\E g \in Guardian : AskGuardian(j, g))
       => ~Early /\ ~Late
  BY <1>1, <1>4 DEF Confirm, Reach, ReadOwner, AskGuardian, At, Jobs
<1>11. ClaimFinish(j) => ~Early /\ ~Late
  BY <1>3, <1>4 DEF ClaimFinish, Steps
<1>12. SeatPanel(j) => job[j].at = "seat" /\ job'[j].r = job[j].r /\ job[j].r \in Request /\ ~Late
  BY <1>2, <1>3 DEF SeatPanel, At, Steps
<1>13. MailFails(j) => ~Early
  BY <1>3 DEF MailFails, Steps
<1>14. RevokeSessions(j) \/ MoveNumber(j) => ~Early /\ (Late => faults' # 0)
  BY <1>1, <1>3 DEF RevokeSessions, MoveNumber, Fault, Steps
<1>15. CASE Starts(j)
  <2>1. ASSUME NEW r \in Request, OpenLink(j, r)
        PROVE  job'[j].r \in Request /\ req[job'[j].r].status # "none" /\ ~Late
    BY <1>5, <2>1
  <2>2. CASE \A r \in Request : ~OpenLink(j, r)
    <3>1. ~Early /\ ~Late
      BY <1>6, <1>7, <1>15, <2>2 DEF Starts
    <3>2. QED
      BY <3>1
  <2>3. QED
    BY <2>1, <2>2
<1>16. CASE Goes(j) \/ Crash(j)
  BY <1>8, <1>9, <1>10, <1>11, <1>12, <1>13, <1>14, <1>16 DEF Goes
<1>17. QED
  BY <1>15, <1>16

LEMMA StepBar ==
    ASSUME RecoveryInv, BarOK, NEW j \in Job, Starts(j) \/ Goes(j) \/ Crash(j)
    PROVE  BarOK'
<1>1. ASSUME NEW q \in Request, req'[q].required = 0 PROVE votes'[q] = {}
  <2>1. ~(RecordVote(j) /\ job[j].r = q)
    <3>1. SUFFICES ASSUME RecordVote(j), job[j].r = q PROVE FALSE
      OBVIOUS
    <3>2. Opened(q)
      BY <3>1 DEF RecordVote, At, RecoveryInv, JobsOK, JobOK
    <3>3. req'[q].required # 0
      BY <3>1, <3>2 DEF RecordVote, Opened
    <3>4. QED
      BY <1>1, <3>3
  <2>2. req[q].required = 0
    BY <1>1, StepDecides
  <2>3. QED
    BY <2>1, <2>2, StepDecides DEF BarOK
<1>2. ASSUME NEW q \in Request, req'[q].status = "none" PROVE req'[q].required = 0
  <2>1. req[q].status = "none" /\ req[q].required = 0
    BY <1>2, StepDecides DEF BarOK
  <2>2. ~(FixBar(j) /\ job[j].r = q)
    BY <2>1 DEF BarOK, FixBar, At
  <2>3. QED
    BY <2>1, <2>2, StepDecides
<1>3. ASSUME NEW i \in Job, job'[i].at \in {"seat", "bar"} PROVE req'[job'[i].r].status # "none"
  <2>1. PICK q \in Request : q = job'[i].r /\ req[q].status # "none"
    <3>1. CASE i = j
      BY <1>3, <3>1, StepArrives DEF BarOK
    <3>2. CASE i # j
      <4>1. job'[i] = job[i]
        BY <3>2, OthersWait DEF RecoveryInv
      <4>2. job[i].r \in Request
        BY <1>3, <4>1, JobRequest DEF RecoveryInv
      <4>3. QED
        BY <1>3, <4>1, <4>2 DEF BarOK
    <3>3. QED
      BY <3>1, <3>2
  <2>2. QED
    BY <2>1, StepDecides
<1>4. ASSUME faults' = 0, NEW i \in Job PROVE job'[i].at \notin {"undo", "release"}
  <2>1. faults = 0 /\ ~MailFails(j)
    BY <1>4, FaultsCount
  <2>2. CASE i = j
    BY <1>4, <2>1, <2>2, StepArrives
  <2>3. CASE i # j
    BY <2>1, <2>3, OthersWait DEF BarOK, RecoveryInv
  <2>4. QED
    BY <2>2, <2>3
<1>5. QED
  BY <1>1, <1>2, <1>3, <1>4 DEF BarOK

\* A handler that is deciding a majority stays on it until the majority is written, or
\* the request is not open.
LEMMA DeciderStays ==
    ASSUME RecoveryInv, NEW j \in Job, Starts(j) \/ Goes(j), NEW q \in Request,
           job[j].at \in Deciding, job[j].r = q, Majority(q)
    PROVE  \/ job'[j].at \in Deciding /\ job'[j].r = q
           \/ ~Pending(q)'
           \/ req'[q].reached
<1>1. /\ job \in [Job -> Jobs] /\ job[j] \in Jobs /\ req \in [Request -> Requests]
  BY DEF RecoveryInv, TypeOK
<1>2. \A at \in Steps : Goto(j, at) => job'[j].at = at /\ job'[j].r = job[j].r
  BY <1>1 DEF Goto, Jobs
<1>3. ~Starts(j)
  BY DEF Starts, StartRecovery, OpenLink, StartLapse, StartVote, StartComplete, Begin, At, Deciding
<1>4. CountVotes(j) \/ ReadAddress(j) \/ NoBackupEmail(j) \/ Reach(j)
  BY <1>3 DEF Goes, Replace, AlreadyOpen, InsertRequest, SeatPanel, FixBar, Confirm,
     AllAsked, AskGuardian, Lapse, Reject, RecordVote,
     MailFinishLink, MailFails, Undo, BurnLink, ReadOwner, ClaimFinish, RevokeSessions, MoveNumber,
     Release, SignIn, At, Deciding
<1>5. CASE CountVotes(j) \/ ReadAddress(j)
  BY <1>2, <1>5 DEF CountVotes, ReadAddress, Steps, Deciding
<1>6. CASE NoBackupEmail(j)
  BY <1>1, <1>6 DEF NoBackupEmail, Pending, Requests
<1>7. CASE Reach(j)
  <2>1. CASE Pending(q) /\ ~req[q].reached
    <3>1. req' = [req EXCEPT ![q].reached = TRUE, ![q].link = req[q].minted + 1,
                             ![q].minted = req[q].minted + 1, ![q].window = "day"]
      BY <1>7, <2>1 DEF Reach
    <3>2. req'[q].reached
      BY <1>1, <3>1 DEF Requests
    <3>3. QED
      BY <3>2
  <2>2. CASE ~(Pending(q) /\ ~req[q].reached)
    <3>1. UNCHANGED req
      BY <1>7, <2>2 DEF Reach
    <3>2. QED
      BY <2>2, <3>1 DEF Pending
  <2>3. QED
    BY <2>1, <2>2
<1>8. QED
  BY <1>4, <1>5, <1>6, <1>7

\* A majority that is in is written, or somebody is still deciding it.
LEMMA StepHears ==
    ASSUME RecoveryInv, HeardInv, NEW j \in Job, Starts(j) \/ Goes(j) \/ Crash(j),
           faults' = 0, NEW q \in Request, Pending(q)', req'[q].required # 0, Majority(q)'
    PROVE  \/ req'[q].reached
           \/ \E i \in Job : job'[i].r = q /\ job'[i].at \in Deciding
<1>1. /\ job \in [Job -> Jobs] /\ req \in [Request -> Requests] /\ req[q] \in Requests
      /\ job[j] \in Jobs
  BY DEF RecoveryInv, TypeOK
<1>2. faults = 0 /\ ~Crash(j) /\ ~MailFails(j) /\ ~Undo(j) /\ ~Release(j)
  BY FaultsCount DEF HeardInv, BarOK, Undo, Release, At
<1>3. CASE RecordVote(j) /\ job[j].r = q
  <2>1. job'[j].at = "count" /\ job'[j].r = q
    BY <1>1, <1>3 DEF RecordVote, Goto, Jobs
  <2>2. QED
    BY <2>1 DEF Deciding
<1>4. CASE ~(RecordVote(j) /\ job[j].r = q)
  <2>1. votes'[q] = votes[q]
    BY <1>4, StepDecides
  <2>2. req[q].required # 0
    <3>1. SUFFICES ASSUME req[q].required = 0 PROVE FALSE
      OBVIOUS
    <3>2. Cardinality(votes'[q]) = 0
      BY <2>1, <3>1, FS_EmptySet DEF HeardInv, BarOK
    <3>3. req'[q].required \in Nat
      BY StepTypes DEF RecoveryInv, TypeOK, Requests
    <3>4. QED
      BY <3>2, <3>3 DEF Majority, AtLeast, MinQuorum
  <2>3. req'[q].required = req[q].required
    BY <2>2, StepDecides
  <2>4. Majority(q)
    BY <2>1, <2>3 DEF Majority
  <2>5. Pending(q)
    <3>1. req[q].status # "none"
      BY <2>2 DEF HeardInv, BarOK
    <3>2. QED
      BY <1>2, <3>1, StepStatus DEF Pending
  <2>6. req[q].reached \/ \E i \in Job : job[i].r = q /\ job[i].at \in Deciding
    BY <1>2, <2>2, <2>4, <2>5 DEF HeardInv, MajorityIsHeard, Deciding
  <2>7. CASE req[q].reached
    BY <1>2, <2>7, StepDecides
  <2>8. ASSUME NEW i \in Job, job[i].r = q, job[i].at \in Deciding
        PROVE  \/ req'[q].reached
               \/ \E k \in Job : job'[k].r = q /\ job'[k].at \in Deciding
    <3>1. CASE i = j
      BY <1>2, <2>4, <2>8, <3>1, DeciderStays
    <3>2. CASE i # j
      BY <2>8, <3>2, OthersWait DEF RecoveryInv
    <3>3. QED
      BY <3>1, <3>2
  <2>9. QED
    BY <2>6, <2>7, <2>8
<1>5. QED
  BY <1>3, <1>4

LEMMA NextHears ==
    ASSUME RecoveryInv, HeardInv, [Next]_vars
    PROVE  HeardInv'
<1>1. CASE World \/ UNCHANGED vars
  <2>1. UNCHANGED <<req, votes, job, faults>>
    <3>1. UNCHANGED faults
      BY <1>1 DEF World, RemoveBackupEmail, CoolingEnds, RevokeGuardian, WeekEnds, DayEnds, vars
    <3>2. QED
      BY <1>1, <3>1, WorldWaits DEF vars, rowVars, panelVars
  <2>2. QED
    BY <2>1 DEF HeardInv, BarOK, MajorityIsHeard, Majority, Pending
<1>2. ASSUME NEW j \in Job, Starts(j) \/ Goes(j) \/ Crash(j)
      PROVE  HeardInv'
  <2>1. BarOK'
    BY <1>2, StepBar DEF HeardInv
  <2>2. ASSUME faults' = 0, NEW q \in Request, Pending(q)', req'[q].required # 0, Majority(q)'
        PROVE  \/ req'[q].reached
               \/ \E i \in Job : job'[i].r = q /\ job'[i].at \in Deciding
    BY <1>2, <2>2, StepHears
  <2>3. MajorityIsHeard'
    BY <2>2 DEF MajorityIsHeard, Deciding
  <2>4. QED
    BY <2>1, <2>3 DEF HeardInv
<1>3. QED
  BY <1>1, <1>2 DEF Next

\* With nothing lost or killed, however the votes of two guardians interleave with the
\* count, the address check and the refusals, a majority is a finish link or somebody is
\* on the way to making it one (castGuardianVote counts again after it writes).
THEOREM MajoritiesAreHeard == Spec => []NoMajorityIsLost
<1>1. Init => HeardInv
  <2>1. Init => BarOK
    BY DEF Init, BarOK, NoRequest, NoJob
  <2>2. Init => MajorityIsHeard
    BY DEF Init, MajorityIsHeard, Pending, NoRequest
  <2>3. QED
    BY <2>1, <2>2 DEF HeardInv
<1>2. RecoveryInv /\ HeardInv /\ [Next]_vars => HeardInv'
  BY NextHears
<1>3. RecoveryInv /\ HeardInv => NoMajorityIsLost
  BY DEF RecoveryInv, HeardInv, NoMajorityIsLost
<1>4. QED
  BY <1>1, <1>2, <1>3, RecoveryIsSafe, PTL DEF Spec
=============================================================================
