-------------------------------- MODULE Browser --------------------------------
(***************************************************************************)
(* What one tab believes about who is signed in: web/hooks/useAuth.tsx,    *)
(* useMpcWallet.tsx, the sign-in screen (app/get-started) and this         *)
(* device's own-number cache.  The session is a cookie of the whole        *)
(* browser: another tab may change it, and a late answer may renew it.     *)
(* An account stands for its user, its number and its wallet's address.    *)
(***************************************************************************)
EXTENDS Naturals

CONSTANTS
    Account,
    MaxAsks,     \* bound: calls of /api/me
    MaxLogins,   \* bound: calls of /api/mpc/provision
    MaxTurns     \* bound: sign-ins and sign-outs

VARIABLES
    cookie,    \* whose session the browser holds
    user,      \* useAuth's user
    wallet,    \* useMpcWallet's state: for whom, how far, and the address
    autoFor,   \* autoLoginFor
    asks,      \* /api/me on its way: for whom, whether it renews, whether that session lives
    logins,    \* /api/mpc/provision on its way: for whom the tab and the server take it
    signIn,    \* verifyCode: how far, for which number, and whom /api/me named
    own,       \* this device's copy of a number, by the account it is kept for
    actions,   \* actions under way: the addresses they were started for, not yet signed
    signed,    \* history: <<whose address was shown, whose wallet signed>>
    crossed,   \* history: the session changed in another tab, or with a call or an action under way
    asked, provisioned, turns

vars == <<cookie, user, wallet, autoFor, asks, logins, signIn, own, actions, signed,
          crossed, asked, provisioned, turns>>
session == <<cookie, crossed, turns>>
tab == <<user, wallet, autoFor, own, actions, signed>>
calls == <<asks, logins, signIn, asked, provisioned>>

Nobody == "nobody"
Someone == Account \cup {Nobody}
Idle == [step |-> "none", number |-> Nobody, named |-> Nobody]

TypeOK ==
    /\ cookie \in Someone /\ user \in Someone /\ autoFor \in Someone
    /\ wallet \in [for : Someone, status : {"idle", "connecting", "connected"}, address : Someone]
    /\ asks \subseteq [who : Someone, renews : BOOLEAN, lives : BOOLEAN]
    /\ logins \subseteq [tab : Someone, server : Someone, signsIn : BOOLEAN]
    /\ signIn \in [step : {"none", "wallet", "me", "asked"}, number : Someone, named : Someone]
    /\ own \in [Account -> Someone]
    /\ actions \subseteq Account
    /\ signed \subseteq Account \X Account
    /\ crossed \in BOOLEAN
    /\ asked \in 0 .. MaxAsks /\ provisioned \in 0 .. MaxLogins /\ turns \in 0 .. MaxTurns

\* A tab opens and asks whose session it has.
Init ==
    /\ cookie \in Someone
    /\ user = Nobody
    /\ wallet = [for |-> Nobody, status |-> "idle", address |-> Nobody]
    /\ autoFor = Nobody
    /\ asks = {[who |-> cookie, renews |-> FALSE, lives |-> TRUE]}
    /\ logins = {} /\ signIn = Idle
    /\ own = [a \in Account |-> Nobody]
    /\ actions = {} /\ signed = {} /\ crossed = FALSE
    /\ asked = 1 /\ provisioned = 0 /\ turns = 0

\* State kept for anyone but the current user reads as empty.
Current == IF wallet.for = user THEN wallet ELSE [for |-> user, status |-> "idle", address |-> Nobody]

Turn == turns < MaxTurns /\ turns' = turns + 1
CallsOut == asks # {} \/ logins # {} \/ actions # {}

-----------------------------------------------------------------------------
(* refreshUser *)

\* An old session is renewed by the answer.
Ask ==
    /\ asked < MaxAsks /\ asked' = asked + 1
    /\ \E renews \in BOOLEAN :
          asks' = asks \cup {[who |-> cookie, renews |-> renews /\ cookie # Nobody, lives |-> TRUE]}

Refresh ==
    /\ user # Nobody
    /\ Ask
    /\ UNCHANGED <<session, tab, logins, signIn, provisioned>>

DeviceWide(scope, number) == [a \in Account |-> number]
Remember(scope, number) == [own EXCEPT ![scope] = number]

\* The answer sets the cookie if it renews, and the user as of when it was given.
Answer(q) ==
    /\ asks' = asks \ {q}
    /\ user' = q.who
    /\ cookie' = CASE ~q.renews -> cookie [] q.lives -> q.who [] OTHER -> Nobody
    /\ crossed' = (crossed \/ cookie' # cookie)
    /\ IF signIn.step = "asked" /\ q.who = signIn.named
       THEN /\ signIn' = Idle
            /\ own' = IF q.who = Nobody THEN own ELSE Remember(q.who, signIn.number)
       ELSE UNCHANGED <<signIn, own>>
    /\ UNCHANGED <<wallet, autoFor, logins, actions, signed, asked, provisioned, turns>>

\* "Network failure, not an auth failure": what is there stays.
AnswerLost(q) ==
    /\ asks' = asks \ {q}
    /\ signIn' = IF signIn.step = "asked" /\ q.who = signIn.named THEN Idle ELSE signIn
    /\ UNCHANGED <<session, tab, logins, asked, provisioned>>

-----------------------------------------------------------------------------
(* useMpcWallet *)

\* login: the state is put under the current user's name at once, whatever address it holds.
Login(server, signsIn) ==
    /\ provisioned < MaxLogins /\ provisioned' = provisioned + 1
    /\ wallet' = [wallet EXCEPT !.for = user, !.status = "connecting"]
    /\ logins' = logins \cup {[tab |-> user, server |-> server, signsIn |-> signsIn]}

AutoLogin ==
    /\ user # Nobody /\ autoFor # user
    /\ Current.status = "idle"
    /\ autoFor' = user
    /\ Login(cookie, FALSE)
    /\ UNCHANGED <<session, user, own, actions, signed, asks, signIn, asked>>

\* The account is the one the server resolved.
ByTheTab(l) == l.tab
OwnerOf(l) == l.server

SignInGoesOn(l) == signIn' = IF l.signsIn /\ signIn.step = "wallet" THEN [signIn EXCEPT !.step = "me"] ELSE signIn

Provisioned(l) ==
    /\ logins' = logins \ {l}
    /\ l.server # Nobody
    /\ wallet' = [for |-> OwnerOf(l), status |-> "connected", address |-> l.server]
    /\ SignInGoesOn(l)
    /\ UNCHANGED <<session, user, autoFor, own, actions, signed, asks, asked, provisioned>>

NotProvisioned(l) ==
    /\ logins' = logins \ {l}
    /\ wallet' = [for |-> l.tab, status |-> "idle", address |-> Nobody]
    /\ SignInGoesOn(l)
    /\ UNCHANGED <<session, user, autoFor, own, actions, signed, asks, asked, provisioned>>

\* getSigner: an action is for the address on the screen, and reads, estimates and approves with it
\* before there is something to sign.
StartAction ==
    /\ user # Nobody /\ Current.address # Nobody
    /\ actions' = actions \cup {Current.address}
    /\ UNCHANGED <<session, user, wallet, autoFor, own, signed, calls>>

\* /api/mpc/sign signs with the wallet of whoever the cookie is of by then, for each transaction the
\* action has.
Sign(a) ==
    /\ cookie # Nobody
    /\ signed' = signed \cup {<<a, cookie>>}
    /\ UNCHANGED <<session, user, wallet, autoFor, own, actions, calls>>

ActionEnds(a) ==
    /\ actions' = actions \ {a}
    /\ UNCHANGED <<session, user, wallet, autoFor, own, signed, calls>>

-----------------------------------------------------------------------------
(* Signing in and out *)

\* The code is right: the cookie comes with the answer, and the wallet is asked for.
VerifyCode(a) ==
    /\ Turn
    /\ user = Nobody /\ signIn = Idle
    /\ cookie' = a
    /\ crossed' = (crossed \/ CallsOut)
    /\ Login(a, TRUE)
    /\ signIn' = [step |-> "wallet", number |-> a, named |-> Nobody]
    /\ UNCHANGED <<user, autoFor, own, actions, signed, asks, asked>>

AskAfterSignIn ==
    /\ signIn.step = "me"
    /\ Ask
    /\ signIn' = [signIn EXCEPT !.step = "asked", !.named = cookie]
    /\ UNCHANGED <<session, tab, logins, provisioned>>

\* token_version goes up: renewals of the account's sessions come to nothing.
Revoked(a) == {[q EXCEPT !.lives = q.lives /\ q.who # a] : q \in asks}

NotForgotten == own
Forgotten == [own EXCEPT ![user] = Nobody]

\* The call may fail, the tab forgets either way; useMpcWallet keeps its state.
Logout ==
    /\ Turn
    /\ user # Nobody
    /\ \/ cookie' = Nobody /\ asks' = Revoked(cookie)
       \/ UNCHANGED <<cookie, asks>>
    /\ crossed' = (crossed \/ CallsOut \/ cookie' # Nobody)
    /\ own' = Forgotten
    /\ user' = Nobody
    /\ UNCHANGED <<wallet, autoFor, actions, signed, logins, signIn, asked, provisioned>>

OtherTab ==
    /\ Turn
    /\ \/ cookie = Nobody /\ cookie' \in Account /\ UNCHANGED asks
       \/ cookie # Nobody /\ cookie' = Nobody /\ asks' = Revoked(cookie)
    /\ crossed' = TRUE
    /\ UNCHANGED <<tab, logins, signIn, asked, provisioned>>

Next ==
    \/ Refresh
    \/ \E q \in asks : Answer(q) \/ AnswerLost(q)
    \/ AutoLogin
    \/ \E l \in logins : Provisioned(l) \/ NotProvisioned(l)
    \/ StartAction \/ \E a \in actions : Sign(a) \/ ActionEnds(a)
    \/ \E a \in Account : VerifyCode(a)
    \/ AskAfterSignIn \/ Logout \/ OtherTab

Spec == Init /\ [][Next]_vars

-----------------------------------------------------------------------------
(* Properties *)

\* "A slow response for the previous account cannot land on the next one": a connected wallet
\* shows the address of the user it is shown to.
ConnectedIsOwn == Current.status = "connected" => Current.address = user

\* "The first account's number [shown] to the second person ... is worse than showing nothing":
\* a number is kept for its account until it signs out, and what is signed comes from the wallet
\* on the screen when it was asked for, unless the session changed in another tab, or while an
\* answer was out or an action under way.
KeptApart ==
    ~crossed =>
        /\ \A a \in Account : own[a] \in {a, Nobody}
        /\ user = Nobody /\ signIn = Idle => \A a \in Account : own[a] = Nobody
        /\ \A pair \in signed : pair[1] = pair[2]

\* "State tagged for anyone other than the current user reads as empty": whatever address a
\* signed-in user is shown is their own.
AddressIsOwn == user # Nobody => Current.address \in {user, Nobody}

\* An action that was started for a wallet is signed with no other.
SignedIsOwn == \A pair \in signed : pair[1] = pair[2]
=============================================================================
