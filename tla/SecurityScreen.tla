----------------------------- MODULE SecurityScreen -----------------------------
(***************************************************************************)
(* Setting up a recovery: the walkthrough (components/security/            *)
(* recovery-setup), the settings screen (components/profile/               *)
(* account-security), and the row and the reminder that lead to them       *)
(* (components/profile/account-recovery-link, components/home/             *)
(* recovery-gate), over the account's guardians and its backup e-mail,     *)
(* which other devices and the guardians themselves change meanwhile.      *)
(***************************************************************************)
EXTENDS Naturals, FiniteSets

CONSTANTS
    Guardian,   \* people who may be asked
    Limit,      \* MAX_GUARDIANS
    MaxGlitches \* bound: calls without an answer or left under way, changes made on another device

VARIABLES
    guardian,  \* guardians.status and effective_at: cooling until then
    email,     \* of users.email_verified_at and pending_changes
    me,        \* the session's copy of both: /api/me
    screen,    \* "home", "setup" or "security"
    load,      \* what the open screen has asked for and got: guardians, e-mail
    list,      \* account-security: the guardians on the screen
    address,   \* account-security: the e-mail on the screen
    call,      \* the button pressed: what it posts, and how far
    gone,      \* the call of a screen that was left before it was handled
    setup,     \* recovery-setup: its steps, what it counted, whom it asked
    behind,    \* history: since the screen opened or asked again, something was taken away
               \* by another device, a guardian's no, a call whose answer was lost or whose screen
               \* was left; or the e-mail did not come
    glitches

serverVars == <<guardian, email>>
screenVars == <<screen, load, list, address, setup>>
calls == <<call, gone>>
vars == <<serverVars, me, screenVars, calls, behind, glitches>>

None == "none"
MinQuorum == 2
States == {"none", "invited", "cooling", "active"}
Rows(f) == {g \in Guardian : f[g] # "none"}
Active(f) == {g \in Guardian : f[g] = "active"}
NoRows == [g \in Guardian |-> "none"]

NoCall == [at |-> None, does |-> None, g |-> None]
NoLoad == [guardians |-> "not", email |-> "not"]
NoSetup == [steps |-> {}, step |-> "why", known |-> {}, invited |-> {}, sent |-> FALSE]
NoMe == [rows |-> 0, ready |-> FALSE, verified |-> FALSE]

TypeOK ==
    /\ guardian \in [Guardian -> States] /\ email \in {"none", "pending", "verified"}
    /\ me \in [rows : 0 .. Cardinality(Guardian), ready : BOOLEAN, verified : BOOLEAN]
    /\ screen \in {"home", "setup", "security"}
    /\ load \in [guardians : {"not", "asked", "got"}, email : {"not", "asked", "got"}]
    /\ list \in [Guardian -> States] /\ address \in {"none", "pending", "verified"}
    /\ call \in [at : {None, "posted", "done"}, does : {None, "invite", "revoke", "mail", "unmail"}, g : Guardian \cup {None}]
    /\ gone \in [at : {None, "posted"}, does : {None, "invite", "revoke", "mail", "unmail"}, g : Guardian \cup {None}]
    /\ setup \in [steps : SUBSET {"email", "guardians"}, step : {"why", "email", "guardians", "done"},
                  known : SUBSET Guardian, invited : SUBSET Guardian, sent : BOOLEAN]
    /\ behind \in BOOLEAN
    /\ glitches \in 0 .. MaxGlitches

Init ==
    /\ guardian = NoRows /\ email = "none" /\ me = NoMe
    /\ screen = "home" /\ load = NoLoad
    /\ list = NoRows /\ address = "none"
    /\ call = NoCall /\ gone = NoCall /\ setup = NoSetup
    /\ behind = FALSE
    /\ glitches = 0

Glitch == glitches < MaxGlitches /\ glitches' = glitches + 1

\* isRecoveryReady: what /api/recovery/start asks before it sends anything.
Ready(f, verified) == verified /\ Cardinality(Active(f)) >= MinQuorum

-----------------------------------------------------------------------------
(* What changes without this device *)

GuardianAnswers(g) ==
    /\ \/ guardian[g] = "invited" /\ guardian' = [guardian EXCEPT ![g] = "cooling"] /\ UNCHANGED behind
       \/ guardian[g] = "cooling" /\ guardian' = [guardian EXCEPT ![g] = "active"] /\ UNCHANGED behind
       \/ guardian[g] = "invited" /\ guardian' = [guardian EXCEPT ![g] = "none"] /\ behind' = TRUE
    /\ UNCHANGED <<email, me, screenVars, calls, glitches>>

LinkOpened ==
    /\ email = "pending"
    /\ email' = "verified"
    /\ UNCHANGED <<guardian, me, screenVars, calls, behind, glitches>>

OnAnotherDevice ==
    /\ Glitch
    /\ \/ \E g \in Guardian : guardian[g] # "none" /\ guardian' = [guardian EXCEPT ![g] = "none"] /\ UNCHANGED email
       \/ \E g \in Guardian : guardian[g] = "none" /\ guardian' = [guardian EXCEPT ![g] = "invited"] /\ UNCHANGED email
       \/ email = "verified" /\ email' = "none" /\ UNCHANGED guardian
    /\ behind' = TRUE
    /\ UNCHANGED <<me, screenVars, calls>>

-----------------------------------------------------------------------------
(* Home, the session and the way in *)

Seen == [rows |-> Cardinality(Rows(guardian)), verified |-> email = "verified",
         ready |-> Ready(guardian, email = "verified")]

RefreshUser ==
    /\ screen = "home"
    /\ me' = Seen
    /\ UNCHANGED <<serverVars, screenVars, calls, behind, glitches>>

\* An invitation that is on its way counts: "nagging someone who has already asked two is nagging".
NeedsSetup == ~me.verified \/ me.rows < MinQuorum

\* stepsFor: read once, when the walkthrough opens.
StepsFor == {s \in {"email", "guardians"} :
               IF s = "email" THEN ~me.verified ELSE me.rows < MinQuorum}

Open(where) ==
    /\ screen' = where
    /\ load' = [guardians |-> "asked", email |-> "asked"]
    /\ list' = NoRows /\ address' = "none"
    /\ setup' = IF where = "setup" THEN [NoSetup EXCEPT !.steps = StepsFor] ELSE NoSetup
    /\ behind' = FALSE

\* Nothing is disabled on the way out.  The call goes on, and the screen that opens is not busy with
\* it (bound: one such call at a time).
CallGoesOn ==
    /\ call' = NoCall
    /\ \/ call.at # "posted" /\ UNCHANGED <<gone, glitches>>
       \/ call.at = "posted" /\ gone = NoCall /\ gone' = call /\ Glitch

\* The gate on Home, which "Not now" silences for a week, and the banner of a profile.
OpenSetup ==
    /\ screen = "home"
    /\ NeedsSetup \/ ~me.ready
    /\ Open("setup")
    /\ UNCHANGED <<serverVars, me, calls, glitches>>

OpenSecurity ==
    /\ screen = "home" \/ (screen = "setup" /\ setup.step = "done")
    /\ Open("security")
    /\ me' = IF screen = "setup" THEN Seen ELSE me
    /\ CallGoesOn
    /\ UNCHANGED serverVars

\* Done, Not now and Back; the first asks for the session again, which Home shows when it comes.
Leave ==
    /\ screen # "home"
    /\ CallGoesOn
    /\ screen' = "home" /\ load' = NoLoad /\ list' = NoRows /\ address' = "none" /\ setup' = NoSetup
    /\ behind' = FALSE
    /\ UNCHANGED <<serverVars, me>>

-----------------------------------------------------------------------------
(* Loading: two calls side by side, shown together *)

CountsAnyRow(f) == Rows(f)
CountsActive(f) == Active(f)
RecoveryReady == address = "verified" /\ Cardinality(CountsActive(list)) >= MinQuorum

Answer(what) ==
    /\ load[what] = "asked"
    /\ load' = [load EXCEPT ![what] = "got"]

\* A list that did not come shows nobody; an e-mail that did not come leaves what was there.
GotGuardians ==
    /\ Answer("guardians")
    /\ \/ /\ IF screen = "security" THEN list' = guardian /\ UNCHANGED setup
             ELSE setup' = [setup EXCEPT !.known = Rows(guardian)] /\ UNCHANGED list
          /\ UNCHANGED glitches
       \/ /\ Glitch
          /\ IF screen = "security" THEN list' = NoRows /\ UNCHANGED setup ELSE UNCHANGED <<list, setup>>
    /\ UNCHANGED <<serverVars, me, screen, address, calls, behind>>

GotEmail ==
    /\ Answer("email")
    /\ \/ /\ IF screen = "security" THEN address' = email /\ UNCHANGED setup
             ELSE setup' = [setup EXCEPT !.sent = @ \/ email = "pending"] /\ UNCHANGED address
          /\ UNCHANGED <<behind, glitches>>
       \/ Glitch /\ behind' = (behind \/ screen = "security") /\ UNCHANGED <<address, setup>>
    /\ UNCHANGED <<serverVars, me, screen, list, calls>>

\* The contacts of the walkthrough are shown when all it asked for has come.
Shown == load.guardians = "got" /\ load.email = "got"

-----------------------------------------------------------------------------
(* The buttons: one at a time *)

Post(does, g) == call' = [at |-> "posted", does |-> does, g |-> g]

\* "Loading your contacts…" instead of the people to pick.
AnyTime == TRUE
MayPick == Shown

Total == Cardinality(setup.known) + Cardinality(setup.invited)

PressInvite(g) ==
    /\ call.at = None
    /\ \/ /\ screen = "setup" /\ setup.step = "guardians" /\ MayPick
          /\ g \notin setup.invited /\ Total < Limit
       \/ screen = "security" /\ Cardinality(Rows(list)) < Limit
    /\ Post("invite", g)
    /\ UNCHANGED <<serverVars, me, screenVars, gone, behind, glitches>>

PressRevoke(g) ==
    /\ call.at = None /\ screen = "security" /\ list[g] # "none"
    /\ Post("revoke", g)
    /\ UNCHANGED <<serverVars, me, screenVars, gone, behind, glitches>>

PressEmail ==
    /\ call.at = None
    /\ \/ screen = "setup" /\ setup.step = "email" /\ ~setup.sent /\ Post("mail", None)
       \/ screen = "security" /\ address # "verified" /\ Post("mail", None)
       \/ screen = "security" /\ address = "verified" /\ Post("unmail", None)
    /\ UNCHANGED <<serverVars, me, screenVars, gone, behind, glitches>>

\* What the server does with it; an invitation to somebody who has one, or past the limit, is refused.
Accepted(c) ==
    \/ c.does = "invite" /\ guardian[c.g] = "none" /\ Cardinality(Rows(guardian)) < Limit
    \/ c.does = "revoke" /\ guardian[c.g] # "none"
    \/ c.does = "mail" /\ email # "verified"
    \/ c.does = "unmail" /\ email # "none"

Write(c) ==
    /\ guardian' = CASE c.does = "invite" -> [guardian EXCEPT ![c.g] = "invited"]
                      [] c.does = "revoke" -> [guardian EXCEPT ![c.g] = "none"]
                      [] OTHER -> guardian
    /\ email' = CASE c.does = "mail" -> "pending" [] c.does = "unmail" -> "none" [] OTHER -> email

\* No screen is told of it.
Unseen(c) == behind' = (behind \/ c.does \in {"revoke", "unmail"})

Handle ==
    /\ call.at = "posted"
    /\ IF Accepted(call)
       THEN /\ Write(call)
            /\ \/ call' = [call EXCEPT !.at = "done"] /\ UNCHANGED <<behind, glitches>>
               \/ call' = NoCall /\ Unseen(call) /\ Glitch
       ELSE call' = NoCall /\ UNCHANGED <<serverVars, behind, glitches>>
    /\ UNCHANGED <<me, screenVars, gone>>

\* Its answer finds no screen.
HandleGone ==
    /\ gone.at = "posted"
    /\ IF Accepted(gone)
       THEN Write(gone) /\ Unseen(gone)
       ELSE UNCHANGED <<serverVars, behind>>
    /\ gone' = NoCall
    /\ UNCHANGED <<me, screenVars, call, glitches>>

\* call(): load and refreshUser, before another button works; the walkthrough keeps its own count.
Done ==
    /\ call.at = "done"
    /\ call' = NoCall
    /\ IF screen = "security"
       THEN /\ load' = [guardians |-> "asked", email |-> "asked"] /\ me' = Seen
            /\ behind' = FALSE
            /\ UNCHANGED setup
       ELSE /\ setup' = IF call.does = "invite" THEN [setup EXCEPT !.invited = @ \cup {call.g}]
                        ELSE [setup EXCEPT !.sent = TRUE]
            /\ UNCHANGED <<load, me, behind>>
    /\ UNCHANGED <<serverVars, screen, list, address, gone, glitches>>

\* Next, Back and Skip: the steps in their order, the missing ones left out.  Only the way on from
\* the guardians waits for a call.
Order == <<"why", "email", "guardians", "done">>
GoTo(s) ==
    /\ screen = "setup"
    /\ call.at = None \/ setup.step # "guardians" \/ s # "done"
    /\ s \in setup.steps \cup {"why", "done"} /\ s # setup.step
    /\ \E i, j \in 1 .. 4 :
          /\ Order[i] = setup.step /\ Order[j] = s
          /\ \A k \in 1 .. 4 : (i < k /\ k < j) \/ (j < k /\ k < i) => Order[k] \notin setup.steps
    /\ setup' = [setup EXCEPT !.step = s]
    /\ UNCHANGED <<serverVars, me, screen, load, list, address, calls, behind, glitches>>

Next ==
    \/ LinkOpened \/ OnAnotherDevice
    \/ RefreshUser \/ OpenSetup \/ OpenSecurity \/ Leave
    \/ GotGuardians \/ GotEmail
    \/ PressEmail \/ Handle \/ HandleGone \/ Done
    \/ \E g \in Guardian : GuardianAnswers(g) \/ PressInvite(g) \/ PressRevoke(g)
    \/ \E s \in {"why", "email", "guardians", "done"} : GoTo(s)

Spec == Init /\ [][Next]_vars

-----------------------------------------------------------------------------
(* Properties *)

\* "On means a recovery would work today": a screen that says so is right, unless since it asked
\* something was taken away that it is not told of, by another device, a call that was left under
\* way or lost its answer.
OnIsOn ==
    screen = "security" /\ Shown /\ call.at # "done" /\ RecoveryReady /\ ~behind
        => Ready(guardian, email = "verified")

\* The walkthrough counts nobody twice: whom it asks was not among those it found, unless they
\* said no, or were taken off, in between.
CountedOnce == screen = "setup" /\ ~behind => setup.known \cap setup.invited = {}

\* "You have a way back": what the last page says, with two invitations and an unopened link.
WayBack ==
    screen = "setup" /\ setup.step = "done" /\ (me.verified \/ setup.sent) /\ Total >= MinQuorum
        => Ready(guardian, email = "verified")
=============================================================================
