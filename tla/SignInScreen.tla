----------------------------- MODULE SignInScreen -----------------------------
(***************************************************************************)
(* The forms people sign in with: web/app/get-started/page.tsx in a tab,   *)
(* and components/extension/extension-login.tsx in the side panel.  A form *)
(* asks for a code, offers another after a minute, and posts the six boxes *)
(* when the last one fills.  Its requests stay under way when the person   *)
(* goes back.  The routes are one step each here: module SignIn has their  *)
(* steps, and module Browser what follows a session.                       *)
(***************************************************************************)
EXTENDS Naturals, FiniteSets

CONSTANTS
    Number,     \* numbers that may be typed
    Own,        \* those whose messages the person reads
    Tab,        \* forms that are open
    Extension,  \* those in the side panel
    MaxCalls,   \* bound: requests under way
    OTP_MAX_ATTEMPTS,
    MaxCodes,   \* bound: codes asked for
    MaxGlitches \* bound: answers that are lost, messages that are not sent

VARIABLES
    form,     \* what a tab shows
    calls,    \* fetches under way
    codeOf,   \* the live code of a number, 0 for none
    inbox,    \* codes a number got
    attempts, \* attempt_count of the live code
    session,  \* the number the cookie is of
    glitches

vars == <<form, calls, codeOf, inbox, attempts, session, glitches>>
server == <<codeOf, inbox, attempts>>

None == "none"
Call == 1 .. MaxCalls
WrongGuess == MaxCodes + 1
Sent == Cardinality({c \in 1 .. MaxCodes : \E n \in Number : <<n, c>> \in inbox})

\* loading is what the form last rendered; boxes that are full are posted or emptied.
\* waiting is the minute before "Send a new code"; told is the error under the field; wentBack,
\* which outlives the form, is history.
Form(step) == [step |-> step, phone |-> None, loading |-> FALSE, submitting |-> FALSE,
               waiting |-> FALSE, wallet |-> FALSE, told |-> None, wentBack |-> FALSE]
NoCall == [at |-> None, tab |-> None, phone |-> None, otp |-> 0, answer |-> None]

TypeOK ==
    /\ form \in [Tab -> [step : {"intro", "phone", "code", "home"}, phone : Number \cup {None},
                         loading : BOOLEAN, submitting : BOOLEAN, waiting : BOOLEAN, wallet : BOOLEAN,
                         told : {None, "failed", "wrong", "finished"}, wentBack : BOOLEAN]]
    /\ calls \in [Call -> [at : {None, "requesting", "verifying", "answered", "settling"},
                           tab : Tab \cup {None}, phone : Number \cup {None}, otp : 0 .. WrongGuess,
                           answer : {None, "sent", "matched", "wrong", "finished", "failed"}]]
    /\ codeOf \in [Number -> 0 .. MaxCodes] /\ attempts \in [Number -> 0 .. OTP_MAX_ATTEMPTS]
    /\ inbox \subseteq Number \X (1 .. MaxCodes)
    /\ session \in Number \cup {None}
    /\ glitches \in 0 .. MaxGlitches

First(t) == Form(IF t \in Extension THEN "phone" ELSE "intro")

\* Some forms are not open.
Init ==
    /\ form \in {f \in [Tab -> {Form(step) : step \in {"intro", "phone", "home"}}] :
                    \A t \in Tab : f[t] \in {First(t), Form("home")}}
    /\ calls = [k \in Call |-> NoCall]
    /\ codeOf = [n \in Number |-> 0] /\ attempts = [n \in Number |-> 0] /\ inbox = {}
    /\ session = None
    /\ glitches = 0

Glitch == glitches < MaxGlitches /\ glitches' = glitches + 1

\* A form that was left shows nothing more.
Show(t, f) == form' = [form EXCEPT ![t] = IF @.step = "home" THEN @ ELSE f]
\* A fetch takes the first place that is free.
Post(k, at, t, otp) ==
    /\ calls[k] = NoCall /\ \A j \in Call : calls[j] = NoCall => k <= j
    /\ calls' = [calls EXCEPT ![k] = [NoCall EXCEPT !.at = at, !.tab = t, !.phone = form[t].phone, !.otp = otp]]
Answer(k, answer) == calls' = [calls EXCEPT ![k].at = "answered", ![k].answer = answer]
Done(k) == calls' = [calls EXCEPT ![k] = NoCall]

-----------------------------------------------------------------------------
(* A number and its code *)

Continue(t) ==
    /\ form[t].step = "intro"
    /\ Show(t, [form[t] EXCEPT !.step = "phone"])
    /\ UNCHANGED <<calls, server, session, glitches>>

\* The field stays open while a code is being asked for.
TypePhone(t, n) ==
    /\ form[t].step = "phone" /\ form[t].phone # n
    /\ Show(t, [form[t] EXCEPT !.phone = n, !.told = None])
    /\ UNCHANGED <<calls, server, session, glitches>>

\* A click comes after the form has rendered what was typed.
Rendered(t) == form[t].submitting => form[t].loading

\* The code form, which gives way to "Setting up your wallet".
OnCode(t) == form[t].step = "code" /\ ~form[t].wallet

\* "Send code", and "Send a new code" once the minute is over.
RequestCode(t, k) ==
    /\ \/ form[t].step = "phone" /\ form[t].phone # None
       \/ OnCode(t) /\ ~form[t].waiting
    /\ ~form[t].loading /\ Rendered(t)
    /\ Post(k, "requesting", t, 0)
    /\ Show(t, [form[t] EXCEPT !.loading = TRUE, !.told = None])
    /\ UNCHANGED <<server, session, glitches>>

\* POST /api/request-otp retires the code before; one whose message is not sent is deleted.
IssueCode(k) ==
    LET n == calls[k].phone  c == Sent + 1 IN
    /\ calls[k].at = "requesting"
    /\ \/ /\ c <= MaxCodes
          /\ codeOf' = [codeOf EXCEPT ![n] = c] /\ attempts' = [attempts EXCEPT ![n] = 0]
          /\ inbox' = inbox \cup {<<n, c>>}
          /\ \/ Answer(k, "sent") /\ UNCHANGED glitches
             \/ Answer(k, "failed") /\ Glitch
       \/ /\ Glitch
          /\ codeOf' = [codeOf EXCEPT ![n] = 0] /\ attempts' = [attempts EXCEPT ![n] = 0]
          /\ Answer(k, "failed")
          /\ UNCHANGED inbox
    /\ UNCHANGED <<form, session>>

\* Past the limit of a window nothing is retired.
RefuseCode(k) ==
    /\ calls[k].at = "requesting" /\ Sent = MaxCodes
    /\ Answer(k, "failed")
    /\ UNCHANGED <<form, server, session, glitches>>

\* The answer moves the form wherever it stands by then.
CodeAnswered(t, k) ==
    /\ calls[k].at = "answered" /\ calls[k].answer \in {"sent", "failed"} /\ calls[k].otp = 0
    /\ calls[k].tab = t
    /\ IF calls[k].answer = "sent"
       THEN Show(t, [form[t] EXCEPT !.step = "code", !.waiting = TRUE, !.loading = FALSE])
       ELSE Show(t, [form[t] EXCEPT !.told = "failed", !.loading = FALSE])
    /\ Done(k)
    /\ UNCHANGED <<server, session, glitches>>

MinutePasses(t) ==
    /\ form[t].waiting
    /\ Show(t, [form[t] EXCEPT !.waiting = FALSE])
    /\ UNCHANGED <<calls, server, session, glitches>>

\* Codes live five minutes.
CodeExpires(n) ==
    /\ codeOf[n] # 0
    /\ codeOf' = [codeOf EXCEPT ![n] = 0]
    /\ UNCHANGED <<form, calls, inbox, attempts, session, glitches>>

-----------------------------------------------------------------------------
(* The six boxes *)

Render(t) ==
    /\ ~Rendered(t)
    /\ Show(t, [form[t] EXCEPT !.loading = TRUE])
    /\ UNCHANGED <<calls, server, session, glitches>>

BoxesOpen(t) == ~form[t].loading
NotSubmitting(t) == ~form[t].submitting

\* A code the person can read, or a slip.
Typed == {c \in 1 .. MaxCodes : \E n \in Own : <<n, c>> \in inbox} \cup {WrongGuess}

\* The last box posts the six; a paste and a keystroke of one tick both get here.
FillCode(t, k, otp) ==
    /\ OnCode(t) /\ ~form[t].loading
    /\ otp \in Typed
    /\ NotSubmitting(t)
    /\ Post(k, "verifying", t, otp)
    /\ Show(t, [form[t] EXCEPT !.submitting = TRUE, !.told = None])
    /\ UNCHANGED <<server, session, glitches>>

AnyonesCode(n, otp) == \E m \in Number : codeOf[m] = otp
SameCode(n, otp) == codeOf[n] = otp

Finished(n) == codeOf[n] = 0 \/ attempts[n] >= OTP_MAX_ATTEMPTS

\* Expired, burned and never asked for are one answer, and so are out of attempts and raced.
Verdict(n, otp) ==
    IF Finished(n) THEN "finished" ELSE IF SameCode(n, otp) THEN "matched" ELSE "wrong"

\* POST /api/verify-otp: what is not finished counts the attempt, and a match burns the code.
VerifyCode(k) ==
    LET n == calls[k].phone  verdict == Verdict(n, calls[k].otp) IN
    /\ calls[k].at = "verifying"
    /\ codeOf' = [codeOf EXCEPT ![n] = IF verdict = "wrong" THEN @ ELSE 0]
    /\ attempts' = [attempts EXCEPT ![n] = IF verdict = "finished" THEN @ ELSE @ + 1]
    /\ \/ Answer(k, verdict) /\ UNCHANGED glitches
       \/ Answer(k, "failed") /\ Glitch
    /\ UNCHANGED <<form, inbox, session>>

\* The tab keeps its step, the side panel has one for the wallet.
TabWaits(f) == [f EXCEPT !.wallet = TRUE]
PanelWaits(f) == [f EXCEPT !.wallet = TRUE, !.step = "code"]

\* The cookie comes with the answer; the wallet is next.
Matched(t, k) ==
    /\ calls[k].at = "answered" /\ calls[k].answer = "matched" /\ calls[k].tab = t
    /\ session' = calls[k].phone
    /\ calls' = [calls EXCEPT ![k].at = "settling"]
    /\ Show(t, IF t \in Extension THEN PanelWaits(form[t]) ELSE TabWaits(form[t]))
    /\ UNCHANGED <<server, glitches>>

\* Whether the wallet was made or not.
Settle(t, k) ==
    /\ calls[k].at = "settling" /\ calls[k].tab = t
    /\ Show(t, [Form("home") EXCEPT !.wentBack = form[t].wentBack])
    /\ Done(k)
    /\ UNCHANGED <<server, session, glitches>>

Again(f, answer) == [f EXCEPT !.told = answer, !.loading = FALSE, !.submitting = FALSE]
KeepsMinute(f, answer) == [Again(f, answer) EXCEPT !.wallet = FALSE]

\* When the code is finished the tab drops the minute; the side panel never does.
TabFails(f, answer) ==
    [Again(f, answer) EXCEPT !.wallet = FALSE, !.waiting = @ /\ answer # "finished"]
PanelFails(f, answer) == Again(f, answer)

NotMatched(t, k) ==
    LET answer == calls[k].answer IN
    /\ calls[k].at = "answered" /\ answer \in {"wrong", "finished", "failed"} /\ calls[k].otp # 0
    /\ calls[k].tab = t
    /\ Show(t, IF t \in Extension THEN PanelFails(form[t], answer) ELSE TabFails(form[t], answer))
    /\ Done(k)
    /\ UNCHANGED <<server, session, glitches>>

-----------------------------------------------------------------------------
(* Back *)

BackToPhone(f) == [f EXCEPT !.step = "phone", !.told = None, !.submitting = FALSE, !.wentBack = TRUE]

\* "Not your number?" works while a request is under way, and the form is as before the request.
GoBackToPhone(t) ==
    /\ t \notin Extension /\ OnCode(t) /\ Rendered(t)
    /\ Show(t, [BackToPhone(form[t]) EXCEPT !.loading = FALSE])
    /\ UNCHANGED <<calls, server, session, glitches>>

\* So does the panel's arrow, but the form waits for the answer.
PanelBack(t) ==
    /\ t \in Extension /\ OnCode(t) /\ Rendered(t)
    /\ Show(t, BackToPhone(form[t]))
    /\ UNCHANGED <<calls, server, session, glitches>>

GoBackToIntro(t) ==
    /\ form[t].step = "phone" /\ t \notin Extension /\ ~form[t].loading
    /\ Show(t, [form[t] EXCEPT !.step = "intro"])
    /\ UNCHANGED <<calls, server, session, glitches>>

Next ==
    \/ \E t \in Tab :
        \/ Continue(t) \/ MinutePasses(t) \/ Render(t) \/ GoBackToPhone(t) \/ PanelBack(t) \/ GoBackToIntro(t)
        \/ \E n \in Number : TypePhone(t, n)
        \/ \E k \in Call :
            \/ RequestCode(t, k) \/ CodeAnswered(t, k) \/ Matched(t, k) \/ Settle(t, k) \/ NotMatched(t, k)
            \/ \E otp \in 1 .. WrongGuess : FillCode(t, k, otp)
    \/ \E k \in Call : IssueCode(k) \/ RefuseCode(k) \/ VerifyCode(k)
    \/ \E n \in Number : CodeExpires(n)

Spec == Init /\ [][Next]_vars

-----------------------------------------------------------------------------
(* Properties *)

Verifying(t) == {k \in Call : calls[k].tab = t /\ calls[k].otp # 0
                              /\ calls[k].at \in {"verifying", "answered"}}

\* get-started/page.tsx:69: a paste and a keystroke that land together post the code once: one of
\* its few attempts at a time. The side panel keeps to it even when the person goes back.
OneAtATime == \A t \in Tab :
    t \in Extension \/ ~form[t].wentBack => Cardinality(Verifying(t)) <= 1

\* get-started/page.tsx:161: a form that says to ask for a new code has the button that does it,
\* unless what it says is of a code the person went back from.
WayOut == \A t \in Tab \ Extension :
    OnCode(t) /\ form[t].told = "finished" /\ ~form[t].wentBack => ~form[t].waiting

\* However answers and numbers cross, the session is of a number whose messages the person reads.
SessionIsRead == session \in Own \cup {None}

\* get-started/page.tsx:446: "We sent a six-digit code to" the number on the screen. Not so when
\* the field was edited while the code was being sent.
SentToShown == \A t \in Tab :
    OnCode(t) /\ form[t].told = None => \E c \in 1 .. MaxCodes : <<form[t].phone, c>> \in inbox
=============================================================================
