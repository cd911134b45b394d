----------------------------- MODULE RecoverScreen -----------------------------
(***************************************************************************)
(* What people see of a recovery: the owner of a lost number, who asks for *)
(* it and in the end chooses a new one (components/recover/recover-flow),  *)
(* and the guardians, who answer on a page of their own (components/       *)
(* guardian/guardian-decision).  The server is module Recovery; here a     *)
(* request is at one stage, and a handler is in two steps where two of     *)
(* them can come between each other.                                       *)
(***************************************************************************)
EXTENDS Naturals, FiniteSets

CONSTANTS
    Number,     \* numbers the owner may type as the new one
    Own,        \* those whose messages they read
    Taken,      \* those with an account
    Page,       \* tabs of the owner
    Guardian,   \* the panel
    Sheet,      \* tabs of the guardians
    MaxCodes,   \* bound: codes sent
    MaxRounds,  \* bound: recoveries started
    MaxGlitches \* bound: calls without an answer, writes that fail

VARIABLES
    stage,     \* of the open request
    round,     \* how many have been opened
    votes,     \* seats with approved_at
    account,   \* the number the account is on
    code,      \* the live code of a number
    inbox,     \* codes a number got
    cookie,    \* the ticket: the round it finishes
    page,      \* what a tab of the owner shows
    sheet,     \* what a tab of a guardian shows
    glitches

vars == <<stage, round, votes, account, code, inbox, cookie, page, sheet, glitches>>
server == <<stage, round, votes, account>>
codes == <<code, inbox>>

None == "none"
Old == "old"
MinQuorum == 2
Required == LET half == Cardinality(Guardian) \div 2 + 1
            IN  IF half > MinQuorum THEN half ELSE MinQuorum
Stages == {"none", "mailed", "awaiting_guardian", "choose_number", "claimed", "done", "rejected", "expired"}

\* shows: the card on the screen, a stage the link redirected with included.
NoPage == [shows |-> "intro", step |-> "phone", phone |-> None, otp |-> 0, call |-> None, sent |-> None,
           round |-> 0, told |-> None]

\* lost, which the page does not know: the write of its no failed.
NoSheet == [phase |-> "shut", guardian |-> None, round |-> 0, accept |-> FALSE, lost |-> FALSE]

TypeOK ==
    /\ stage \in Stages /\ round \in 0 .. MaxRounds
    /\ votes \subseteq Guardian
    /\ account \in Number \cup {Old}
    /\ code \in [Number -> 0 .. MaxCodes]
    /\ inbox \subseteq Number \X (1 .. MaxCodes)
    /\ cookie \in 0 .. MaxRounds
    /\ page \in [Page -> [shows : {"intro", "old", "sent", "refused", "home"} \cup Stages,
                          step : {"phone", "code"}, phone : Number \cup {None}, otp : 0 .. MaxCodes,
                          call : {None, "starting", "sending", "finishing", "moving"},
                          sent : Number \cup {None}, round : 0 .. MaxRounds,
                          told : {None, "no_answer", "refused", "dead_code", "in_use", "closed"}]]
    /\ sheet \in [Sheet -> [phase : {"shut", "dead", "ready", "sending", "voting", "answered"},
                            guardian : Guardian \cup {None}, round : 0 .. MaxRounds, accept : BOOLEAN, lost : BOOLEAN]]
    /\ glitches \in 0 .. MaxGlitches

Init ==
    /\ stage = "none" /\ round = 0 /\ votes = {} /\ account = Old
    /\ code = [n \in Number |-> 0] /\ inbox = {}
    /\ cookie = 0
    /\ page = [p \in Page |-> NoPage]
    /\ sheet = [s \in Sheet |-> NoSheet]
    /\ glitches = 0

Glitch == glitches < MaxGlitches /\ glitches' = glitches + 1
Pending == stage \in {"mailed", "awaiting_guardian", "choose_number"}
Show(p, w) == page' = [page EXCEPT ![p] = w]
Idle(p) == page[p].call = None

-----------------------------------------------------------------------------
(* The owner asks for a recovery: /api/recovery/start *)

TypeOldNumber(p) ==
    /\ page[p].shows = "intro"
    /\ Show(p, [page[p] EXCEPT !.shows = "old"])
    /\ UNCHANGED <<server, codes, cookie, sheet, glitches>>

\* "Try another number", "Start again", and the address itself; a tab left in the middle of a call
\* is one that gets no answer.
BackToIntro(p) ==
    /\ page[p] # NoPage /\ Idle(p)
    /\ \/ page[p].shows = "refused" /\ Show(p, [NoPage EXCEPT !.shows = "old"])
       \/ Show(p, NoPage)
    /\ UNCHANGED <<server, codes, cookie, sheet, glitches>>

PressStart(p) ==
    /\ page[p].shows = "old" /\ Idle(p)
    /\ Show(p, [page[p] EXCEPT !.call = "starting"])
    /\ UNCHANGED <<server, codes, cookie, sheet, glitches>>

\* One that is confirmed stays; one that is not makes room for another.
Start(p) ==
    /\ page[p].call = "starting"
    /\ IF stage \in {"awaiting_guardian", "choose_number"}
       THEN UNCHANGED <<stage, round, votes>>
       ELSE /\ stage # "claimed" /\ account = Old /\ round < MaxRounds
            /\ stage' = "mailed" /\ round' = round + 1 /\ votes' = {}
    /\ \/ Show(p, [page[p] EXCEPT !.call = None, !.shows = "sent"]) /\ UNCHANGED glitches
       \/ Glitch /\ Show(p, [page[p] EXCEPT !.call = None, !.told = "no_answer"])
    /\ UNCHANGED <<account, codes, cookie, sheet>>

\* A mistyped number, or an account without a backup e-mail or a quorum.
RefuseStart(p) ==
    /\ page[p].call = "starting"
    /\ Show(p, [page[p] EXCEPT !.call = None, !.shows = "refused"])
    /\ UNCHANGED <<server, codes, cookie, sheet, glitches>>

\* The link of the first e-mail says where things stand, and confirms what was not.
OpenFirstLink(p) ==
    /\ stage \notin {"none", "claimed"} /\ Idle(p)
    /\ stage' = IF stage = "mailed" THEN "awaiting_guardian" ELSE stage
    /\ Show(p, [NoPage EXCEPT !.shows = IF stage = "choose_number" THEN "sent" ELSE stage'])
    /\ UNCHANGED <<round, votes, account, codes, cookie, sheet, glitches>>

\* The link of the second, while the request waits for it: the ticket is a cookie.
OpenFinishLink(p) ==
    /\ stage = "choose_number" /\ Idle(p)
    /\ cookie' = round
    /\ Show(p, [NoPage EXCEPT !.shows = "choose_number", !.round = round])
    /\ UNCHANGED <<server, codes, sheet, glitches>>

Expire ==
    /\ Pending
    /\ stage' = "expired"
    /\ UNCHANGED <<round, votes, account, codes, cookie, page, sheet, glitches>>

-----------------------------------------------------------------------------
(* A guardian's page: GET and POST of one link *)

\* resolveSeat: the link works while the request takes votes and the seat has not voted.
Seated(g) == stage = "awaiting_guardian" /\ g \notin votes

OpenSheet(s, g) ==
    /\ round > 0 /\ stage # "mailed"
    /\ sheet[s].phase \notin {"sending", "voting"}
    /\ \E phase \in {IF Seated(g) THEN "ready" ELSE "dead", "dead"} :
          /\ sheet' = [sheet EXCEPT ![s] = [NoSheet EXCEPT !.phase = phase, !.guardian = g, !.round = round]]
          /\ IF Seated(g) /\ phase = "dead" THEN Glitch ELSE UNCHANGED glitches
    /\ UNCHANGED <<server, codes, cookie, page>>

PressAnswer(s, accept) ==
    /\ sheet[s].phase = "ready"
    /\ sheet' = [sheet EXCEPT ![s].phase = "sending", ![s].accept = accept]
    /\ UNCHANGED <<server, codes, cookie, page, glitches>>

\* An error puts the two buttons back.
SaysAnswered(s) == sheet' = [sheet EXCEPT ![s].phase = "answered"]
Back(s) == sheet' = [sheet EXCEPT ![s].phase = "ready"]

ReadSeat(s) ==
    /\ sheet[s].phase = "sending"
    /\ IF sheet[s].round = round /\ Seated(sheet[s].guardian)
       THEN sheet' = [sheet EXCEPT ![s].phase = "voting"]
       ELSE Back(s)
    /\ UNCHANGED <<server, codes, cookie, page, glitches>>

\* "One no closes the whole request"; a yes is a row, and the last one needed opens the last step.
Vote(s) ==
    IF sheet[s].accept
    THEN /\ votes' = votes \cup {sheet[s].guardian}
         /\ stage' = IF Cardinality(votes') >= Required /\ stage = "awaiting_guardian"
                     THEN "choose_number" ELSE stage
    ELSE /\ stage' = IF Pending THEN "rejected" ELSE stage
         /\ UNCHANGED votes

\* A round that ended is never seated again, so its late votes change nothing here.
CastVote(s) ==
    /\ sheet[s].phase = "voting"
    /\ IF sheet[s].round = round THEN Vote(s) ELSE UNCHANGED <<stage, votes>>
    /\ \/ SaysAnswered(s) /\ UNCHANGED glitches
       \/ Back(s) /\ Glitch
    /\ UNCHANGED <<round, account, codes, cookie, page>>

\* The yes is not written; or it is, and reaching the majority is undone, its e-mail not being sent.
YesFails(s) ==
    /\ sheet[s].phase = "voting" /\ sheet[s].accept
    /\ \/ UNCHANGED votes
       \/ sheet[s].round = round /\ votes' = votes \cup {sheet[s].guardian}
    /\ Back(s) /\ Glitch
    /\ UNCHANGED <<stage, round, account, codes, cookie, page>>

\* Nothing looks at the error of the write that rejects, and the page says the request is closed.
NoIsLost(s) ==
    /\ sheet[s].phase = "voting" /\ ~sheet[s].accept
    /\ sheet' = [sheet EXCEPT ![s].phase = "answered", ![s].lost = TRUE]
    /\ Glitch
    /\ UNCHANGED <<server, codes, cookie, page>>

-----------------------------------------------------------------------------
(* The last step: a number, its code, the move *)

\* The field can be typed in while the code is being asked for.
TypeNumber(p, n) ==
    /\ page[p].shows = "choose_number" /\ page[p].step = "phone" /\ page[p].phone # n
    /\ Show(p, [page[p] EXCEPT !.phone = n])
    /\ UNCHANGED <<server, codes, cookie, sheet, glitches>>

PressSend(p) ==
    /\ page[p].shows = "choose_number" /\ page[p].step = "phone" /\ page[p].phone # None /\ Idle(p)
    /\ Show(p, [page[p] EXCEPT !.call = "sending", !.sent = page[p].phone, !.told = None])
    /\ UNCHANGED <<server, codes, cookie, sheet, glitches>>

\* /api/request-otp: a new code retires the one before, and goes to the number that was posted; one
\* whose message is not sent is deleted again.
SendCode(p) ==
    LET n == page[p].sent
        c == Cardinality(inbox) + 1
        unsaid == Show(p, [page[p] EXCEPT !.call = None, !.sent = None, !.told = "no_answer"])
    IN
    /\ page[p].call = "sending"
    /\ \/ /\ c <= MaxCodes
          /\ code' = [code EXCEPT ![n] = c]
          /\ inbox' = inbox \cup {<<n, c>>}
          /\ \/ Show(p, [page[p] EXCEPT !.call = None, !.sent = None, !.step = "code"]) /\ UNCHANGED glitches
             \/ unsaid /\ Glitch
       \/ /\ unsaid /\ Glitch
          /\ code' = [code EXCEPT ![n] = 0]
          /\ UNCHANGED inbox
    /\ UNCHANGED <<server, cookie, sheet>>

\* Five minutes are over, or three wrong guesses are.
CodeDies(n) ==
    /\ code[n] # 0
    /\ Glitch
    /\ code' = [code EXCEPT ![n] = 0]
    /\ UNCHANGED <<server, inbox, cookie, page, sheet>>

Read(c) == \E n \in Own : <<n, c>> \in inbox

PressFinish(p, c) ==
    /\ page[p].shows = "choose_number" /\ page[p].step = "code" /\ Idle(p) /\ page[p].told # "closed"
    /\ Read(c)
    /\ Show(p, [page[p] EXCEPT !.call = "finishing", !.otp = c, !.told = None])
    /\ UNCHANGED <<server, codes, cookie, sheet, glitches>>

AnyLiveCode(n, c) == \E m \in Number : code[m] = c
LiveCode(n, c) == code[n] = c

Fails(p, why) == [page[p] EXCEPT !.call = None, !.otp = 0, !.told = why]

\* /api/recovery/complete: the ticket first, then the code, then whether the number is free.
Claim(p) ==
    LET n == page[p].phone
        c == page[p].otp
    IN
    /\ page[p].call = "finishing"
    /\ \/ /\ cookie = 0 \/ cookie # round \/ stage # "choose_number"
          /\ Show(p, Fails(p, "closed")) /\ cookie' = 0
          /\ UNCHANGED <<server, code>>
       \/ /\ cookie # 0 /\ cookie = round /\ stage = "choose_number"
          /\ ~LiveCode(n, c)
          /\ Show(p, Fails(p, "dead_code"))
          /\ UNCHANGED <<server, code, cookie>>
       \/ /\ cookie # 0 /\ cookie = round /\ stage = "choose_number"
          /\ LiveCode(n, c)
          /\ code' = [m \in Number |-> IF code[m] = c THEN 0 ELSE code[m]]
          /\ IF n \in Taken
             THEN /\ Show(p, [Fails(p, "in_use") EXCEPT !.step = "phone"])
                  /\ UNCHANGED stage
             ELSE Show(p, [page[p] EXCEPT !.call = "moving"]) /\ stage' = "claimed"
          /\ UNCHANGED <<round, votes, account, cookie>>
    /\ UNCHANGED <<inbox, sheet, glitches>>

Move(p) ==
    /\ page[p].call = "moving"
    /\ stage' = "done" /\ account' = page[p].phone
    /\ \/ Show(p, [NoPage EXCEPT !.shows = "home"]) /\ cookie' = 0 /\ UNCHANGED glitches
       \/ Show(p, Fails(p, "no_answer")) /\ UNCHANGED cookie /\ Glitch
    /\ UNCHANGED <<round, votes, codes, sheet>>

\* release(): "Hands the request back if the move fails, so the owner can retry".
MoveFails(p) ==
    /\ page[p].call = "moving"
    /\ Glitch
    /\ stage' = "choose_number"
    /\ Show(p, Fails(p, "refused"))
    /\ UNCHANGED <<round, votes, account, codes, cookie, sheet>>

Next ==
    \/ Expire
    \/ \E n \in Number : CodeDies(n)
    \/ \E p \in Page :
          \/ TypeOldNumber(p) \/ BackToIntro(p) \/ PressStart(p) \/ Start(p) \/ RefuseStart(p)
          \/ OpenFirstLink(p) \/ OpenFinishLink(p)
          \/ \E n \in Number : TypeNumber(p, n)
          \/ PressSend(p) \/ SendCode(p) \/ \E c \in 1 .. MaxCodes : PressFinish(p, c)
          \/ Claim(p) \/ Move(p) \/ MoveFails(p)
    \/ \E s \in Sheet :
          \/ \E g \in Guardian : OpenSheet(s, g)
          \/ \E accept \in BOOLEAN : PressAnswer(s, accept)
          \/ ReadSeat(s) \/ CastVote(s) \/ YesFails(s) \/ NoIsLost(s)

Spec == Init /\ [][Next]_vars

-----------------------------------------------------------------------------
(* Properties *)

\* The account moves to a number whose messages its owner reads, whatever they typed while a code
\* was on its way to another number; and to one that had no account.
MovedWhereRead == account # Old => account \in Own \ Taken

\* "Confirmed." is shown to a guardian whose vote is a row of that request, and "Request closed."
\* when no one can vote on it any more, unless it was that guardian's own write that failed.
AnswersAreKept ==
    \A s \in Sheet : sheet[s].phase = "answered" /\ sheet[s].round = round =>
        IF sheet[s].accept THEN sheet[s].guardian \in votes
        ELSE stage # "awaiting_guardian" \/ sheet[s].lost

\* "Request closed.  The recovery has been stopped and their account was not moved."
ClosedIsStopped ==
    \A s \in Sheet : sheet[s].phase = "answered" /\ ~sheet[s].accept /\ sheet[s].round = round =>
        stage \notin {"claimed", "done"}

\* A page that says the recovery is closed is right.
ClosedIsClosed ==
    \A p \in Page : page[p].told = "closed" /\ page[p].round = round => stage \in {"claimed", "done", "rejected", "expired"}

\* "the digits go and the screen offers to send another"
AnotherIsOffered ==
    \A p \in Page : page[p].told = "dead_code" /\ Idle(p) => page[p].step = "phone"
=============================================================================
