---------------------------- MODULE Screens_proofs ----------------------------
(***************************************************************************)
(* Proofs about module MCScreens.  A section for each screen, with its     *)
(* inductive invariant: what holds in its first state (Starts), that a     *)
(* step keeps the types (Types) and the rest (Step), that resting does     *)
(* (Rests), and what the invariant says of the screen (Kept).  The last    *)
(* section puts them together, one part of a behaviour at a time.          *)
(***************************************************************************)
EXTENDS MCScreens, FiniteSetTheorems, TLAPS

LEMMA AtMostOne ==
    ASSUME NEW V, \A a, b \in V : a = b
    PROVE  Cardinality(V) <= 1
<1>1. CASE V = {}
  BY <1>1, FS_EmptySet
<1>2. CASE V # {}
  <2>1. PICK a : a \in V
    BY <1>2
  <2>2. V = {a}
    BY <2>1
  <2>3. QED
    BY <2>2, FS_Singleton
<1>3. QED
  BY <1>1, <1>2

-----------------------------------------------------------------------------
(* Sending to a phone number. *)

\* The number is this person's or there is none, and so is the name unless the code was changed.
ShowsOnly(p) ==
    /\ phone \in {p, T!Nobody} /\ p \in {phone, label}
    /\ recoded \/ label \in {p, T!Nobody}

\* A number is shown beside the recipient that was found for it, and while one lookup is out no
\* other is, and nothing is shown but what was looked up.
LookedUp ==
    /\ (step = "receiver") <=> (recipient = T!Nobody)
    /\ label # T!Nobody /\ phone # T!Nobody => label = phone \/ recoded
    /\ \A p \in X : lookups[p] <= transferAsked
    /\ ~mixed =>
        /\ \A p, q \in X : lookups[p] > 0 /\ lookups[q] > 0 => p = q /\ lookups[p] = 1
        /\ \A p \in X : lookups[p] > 0 => step = "receiver" /\ ShowsOnly(p)
        /\ step # "receiver" => ShowsOnly(recipient)

\* A sender who waits has one transfer under way, of what the review shows; the screen that says
\* Done has its hash.
SendsAlone ==
    ~mixed /\ ~left =>
        /\ \A t, u \in T!UnderWay : t = u
        /\ \A t \in T!UnderWay :
            /\ transferPhase = "sending" /\ step = "review"
            /\ transfers[t].to = recipient /\ transfers[t].amount = amount
            /\ transfers[t].shown = T!Shown
            /\ transfers[t].stage = "out" => txHash = t
        /\ transferPhase = "done" => T!Proof /\ step = "review"

TransferInv == T!TypeOK /\ LookedUp /\ T!PaysWhoIsShown /\ SendsAlone

LEMMA TransferConstants ==
    /\ T!Nobody \notin X /\ "none" \notin Y
    /\ MaxAsked \in Nat /\ MaxAmount \in Nat
BY ScreensAssumption DEF ScreensAssumption, T!Nobody

LEMMA TransferStarts == T!Init => TransferInv
<1> SUFFICES ASSUME T!Init PROVE TransferInv
  OBVIOUS
<1>1. T!TypeOK
  <2>1. /\ {phone, label, recipient} \subseteq X \cup {T!Nobody}
        /\ step \in {"receiver", "amount", "review"}
        /\ transferPhase \in {"idle", "resolving", "ready", "sending", "done", "failed"}
        /\ listed \in BOOLEAN /\ mixed \in BOOLEAN /\ recoded \in BOOLEAN /\ left \in BOOLEAN
    BY DEF T!Init
  <2>2. /\ lookups \in [X -> 0 .. MaxAsked] /\ transferAsked \in 0 .. MaxAsked
        /\ amount \in 0 .. MaxAmount /\ txHash \in Y \cup {"none"}
    BY TransferConstants DEF T!Init
  <2>3. transfers \in [Y -> [stage : {"none", "signing", "out", "mined", "failed"},
                             to : X \cup {T!Nobody}, amount : 0 .. MaxAmount, shown : SUBSET X]]
    BY TransferConstants DEF T!Init, T!Idle
  <2>4. QED
    BY <2>1, <2>2, <2>3 DEF T!TypeOK
<1>2. LookedUp
  BY <1>1, TransferConstants DEF T!Init, LookedUp
<1>3. T!PaysWhoIsShown /\ SendsAlone
  BY DEF T!Init, T!Idle, T!PaysWhoIsShown, T!UnderWay, SendsAlone
<1>4. QED
  BY <1>1, <1>2, <1>3 DEF TransferInv

\* One more lookup is out, or one less.
LEMMA LookUpTypes ==
    ASSUME T!TypeOK, NEW p \in X, lookups[p] <= transferAsked
    PROVE  /\ T!LookUp(p) => /\ transferAsked' \in 0 .. MaxAsked /\ lookups' \in [X -> 0 .. MaxAsked]
                             /\ transferPhase' = "resolving" /\ recipient' = T!Nobody
                             /\ mixed' \in BOOLEAN
           /\ T!Answered(p) => lookups' \in [X -> 0 .. MaxAsked]
<1> USE TransferConstants
<1>1. transferAsked \in 0 .. MaxAsked /\ lookups \in [X -> 0 .. MaxAsked] /\ lookups[p] \in 0 .. MaxAsked
  BY DEF T!TypeOK
<1>2. ASSUME T!LookUp(p)
      PROVE  /\ transferAsked' \in 0 .. MaxAsked /\ lookups' \in [X -> 0 .. MaxAsked]
             /\ transferPhase' = "resolving" /\ recipient' = T!Nobody
  BY <1>1, <1>2 DEF T!LookUp
<1>3. T!LookUp(p) => mixed' \in BOOLEAN
  BY Zenon DEF T!LookUp, T!TypeOK
<1>4. T!Answered(p) => lookups' \in [X -> 0 .. MaxAsked]
  BY <1>1 DEF T!Answered
<1>5. QED
  BY <1>2, <1>3, <1>4

LEMMA TransferTypes == TransferInv /\ T!Next => T!TypeOK'
<1>1. ASSUME TransferInv, T!TypePhone PROVE T!TypeOK'
  BY <1>1, TransferConstants DEF TransferInv, T!TypePhone, T!OnReceiver, T!money, T!TypeOK
<1>2. ASSUME TransferInv, T!ChangeCountry PROVE T!TypeOK'
  BY <1>2, TransferConstants DEF TransferInv, T!ChangeCountry, T!OnReceiver, T!money, T!TypeOK
<1>3. ASSUME TransferInv, T!ToggleList PROVE T!TypeOK'
  BY <1>3, TransferConstants
  DEF TransferInv, T!ToggleList, T!OnReceiver, T!asking, T!money, T!TypeOK
<1>4. ASSUME TransferInv, T!PickPhone PROVE T!TypeOK'
  <2>1. PICK p \in X : phone' = p /\ T!LookUp(p)
    BY <1>4 DEF T!PickPhone
  <2>2. /\ transferAsked' \in 0 .. MaxAsked /\ lookups' \in [X -> 0 .. MaxAsked]
        /\ transferPhase' = "resolving" /\ recipient' = T!Nobody /\ mixed' \in BOOLEAN
    BY <2>1, <1>4, LookUpTypes DEF TransferInv, LookedUp
  <2>3. QED
    BY <1>4, <2>1, <2>2, TransferConstants DEF T!PickPhone, T!Forget, T!money, T!TypeOK, TransferInv
<1>5. ASSUME TransferInv, T!PickContact PROVE T!TypeOK'
  <2>1. PICK p \in X : label' = p /\ phone' \in {p, T!Nobody} /\ T!LookUp(p)
    BY <1>5 DEF T!PickContact
  <2>2. /\ transferAsked' \in 0 .. MaxAsked /\ lookups' \in [X -> 0 .. MaxAsked]
        /\ transferPhase' = "resolving" /\ recipient' = T!Nobody /\ mixed' \in BOOLEAN
    BY <2>1, <1>5, LookUpTypes DEF TransferInv, LookedUp
  <2>3. QED
    BY <1>5, <2>1, <2>2, TransferConstants DEF T!PickContact, T!money, T!TypeOK, TransferInv
<1>6. ASSUME TransferInv, T!Continue PROVE T!TypeOK'
  <2>1. phone \in X /\ T!LookUp(phone)
    BY <1>6 DEF T!Continue, T!TypeOK, TransferInv
  <2>2. /\ transferAsked' \in 0 .. MaxAsked /\ lookups' \in [X -> 0 .. MaxAsked]
        /\ transferPhase' = "resolving" /\ recipient' = T!Nobody /\ mixed' \in BOOLEAN
    BY <2>1, <1>6, LookUpTypes DEF TransferInv, LookedUp
  <2>3. QED
    BY <1>6, <2>1, <2>2, TransferConstants DEF T!Continue, T!form, T!money, T!TypeOK, TransferInv
<1>7. ASSUME TransferInv, NEW p \in X, T!Found(p) PROVE T!TypeOK'
  BY <1>7, TransferConstants, LookUpTypes
  DEF TransferInv, LookedUp, T!Found, T!Answered, T!money, T!TypeOK
<1>8. ASSUME TransferInv, NEW p \in X, T!NotFound(p) PROVE T!TypeOK'
  BY <1>8, TransferConstants, LookUpTypes
  DEF TransferInv, LookedUp, T!NotFound, T!Answered, T!form, T!money, T!TypeOK
<1>9. ASSUME TransferInv, T!EnterAmount PROVE T!TypeOK'
  BY <1>9, TransferConstants DEF TransferInv, T!EnterAmount, T!asking, T!money, T!TypeOK
<1>10. ASSUME TransferInv, T!Review PROVE T!TypeOK'
  BY <1>10, TransferConstants DEF TransferInv, T!Review, T!asking, T!money, T!TypeOK
<1>11. ASSUME TransferInv, T!GoBack PROVE T!TypeOK'
  BY <1>11, TransferConstants DEF TransferInv, T!GoBack, T!Leaving, T!asking, T!UnderWay, T!TypeOK
<1>12. ASSUME TransferInv, NEW t \in Y, T!Send(t) PROVE T!TypeOK'
  BY <1>12, TransferConstants DEF TransferInv, T!Send, T!Idle, T!Shown, T!form, T!asking, T!TypeOK
<1>13. ASSUME TransferInv, NEW t \in Y, T!SendFails(t) PROVE T!TypeOK'
  BY <1>13, TransferConstants DEF TransferInv, T!SendFails, T!Advance, T!form, T!asking, T!TypeOK
<1>14. ASSUME TransferInv, NEW t \in Y, T!Broadcast(t) PROVE T!TypeOK'
  BY <1>14, TransferConstants DEF TransferInv, T!Broadcast, T!Advance, T!form, T!asking, T!TypeOK
<1>15. ASSUME TransferInv, NEW t \in Y, T!Mined(t) PROVE T!TypeOK'
  BY <1>15, TransferConstants DEF TransferInv, T!Mined, T!Advance, T!form, T!asking, T!TypeOK
<1>16. ASSUME TransferInv, NEW t \in Y, T!Reverted(t) PROVE T!TypeOK'
  BY <1>16, TransferConstants DEF TransferInv, T!Reverted, T!Advance, T!form, T!asking, T!TypeOK
<1>17. QED
  BY <1>1, <1>2, <1>3, <1>4, <1>5, <1>6, <1>7, <1>8, <1>9, <1>10, <1>11, <1>12, <1>13, <1>14, <1>15,
    <1>16
  DEF T!Next

\* Whoever is looked up alone is all that is on the screen.
LEMMA LookUpKeeps ==
    ASSUME TransferInv, T!TypeOK', NEW p \in X, T!LookUp(p), T!OnReceiver,
           UNCHANGED <<step, recoded, amount, transfers, txHash, left>>,
           ShowsOnly(p)'
    PROVE  TransferInv'
<1>1. \A t \in Y : t \notin T!UnderWay \/ mixed \/ left
  BY DEF TransferInv, SendsAlone, T!OnReceiver
<1>2. LookedUp'
  <2>1. \A q \in X : lookups'[q] <= transferAsked'
    BY DEF TransferInv, LookedUp, T!LookUp, T!TypeOK
  <2>2. ASSUME ~mixed' PROVE ~mixed /\ \A q \in X : ~(lookups[q] > 0)
    BY <2>2 DEF T!LookUp, T!Out
  <2>3. ASSUME ~mixed', NEW q \in X, lookups'[q] > 0 PROVE q = p /\ lookups'[q] = 1
    BY <2>2, <2>3 DEF T!LookUp, TransferInv, T!TypeOK
  <2>4. QED
    BY <2>1, <2>3 DEF LookedUp, ShowsOnly, T!LookUp, T!OnReceiver
<1>3. T!PaysWhoIsShown' /\ SendsAlone'
  <2>1. mixed => mixed'
    BY DEF T!LookUp
  <2>2. transferPhase' = "resolving" /\ T!UnderWay' = T!UnderWay
    BY DEF T!LookUp, T!UnderWay
  <2>3. T!UnderWay \subseteq Y
    BY DEF T!UnderWay
  <2>4. QED
    BY <1>1, <2>1, <2>2, <2>3 DEF TransferInv, T!PaysWhoIsShown, SendsAlone
<1>4. QED
  BY <1>2, <1>3 DEF TransferInv

LEMMA TransferStep == TransferInv /\ T!Next => TransferInv'
<1>1. ASSUME TransferInv, T!TypeOK', T!TypePhone PROVE TransferInv'
  BY <1>1, TransferConstants
  DEF T!TypePhone, T!OnReceiver, T!Nobody, T!Out, T!money, TransferInv, T!TypeOK, T!PaysWhoIsShown,
      LookedUp, SendsAlone, ShowsOnly, T!UnderWay, T!Shown, T!Proof, T!Receipt
<1>2. ASSUME TransferInv, T!TypeOK', T!ChangeCountry PROVE TransferInv'
  BY <1>2, TransferConstants
  DEF T!ChangeCountry, T!OnReceiver, T!Nobody, T!Out, T!money, TransferInv, T!TypeOK,
      T!PaysWhoIsShown, LookedUp, SendsAlone, ShowsOnly, T!UnderWay, T!Shown, T!Proof, T!Receipt
<1>3. ASSUME TransferInv, T!TypeOK', T!ToggleList PROVE TransferInv'
  BY <1>3, TransferConstants
  DEF T!ToggleList, T!OnReceiver, T!asking, T!money, TransferInv, T!TypeOK, T!PaysWhoIsShown,
      LookedUp, SendsAlone, T!Nobody, ShowsOnly, T!UnderWay, T!Shown, T!Proof, T!Receipt
<1>4. ASSUME TransferInv, T!TypeOK', T!PickPhone PROVE TransferInv'
  <2>1. PICK p \in X : phone' = p /\ T!LookUp(p)
    BY <1>4 DEF T!PickPhone
  <2>2. QED
    BY <1>4, <2>1, TransferConstants, LookUpKeeps DEF T!PickPhone, T!Forget, T!money, ShowsOnly
<1>5. ASSUME TransferInv, T!TypeOK', T!PickContact PROVE TransferInv'
  <2>1. PICK p \in X : label' = p /\ phone' \in {p, T!Nobody} /\ T!LookUp(p)
    BY <1>5 DEF T!PickContact
  <2>2. QED
    BY <1>5, <2>1, TransferConstants, LookUpKeeps DEF T!PickContact, T!money, ShowsOnly
<1>6. ASSUME TransferInv, T!TypeOK', T!Continue PROVE TransferInv'
  <2>1. phone \in X /\ T!LookUp(phone) /\ ShowsOnly(phone)
    BY <1>6 DEF T!Continue, T!TypeOK, TransferInv, LookedUp, ShowsOnly
  <2>2. QED
    BY <1>6, <2>1, LookUpKeeps DEF T!Continue, T!form, T!money, ShowsOnly
<1>7. ASSUME TransferInv, T!TypeOK', NEW p \in X, T!Found(p) PROVE TransferInv'
  BY <1>7, TransferConstants
  DEF T!Found, T!Answered, T!money, TransferInv, T!TypeOK, T!PaysWhoIsShown, LookedUp, SendsAlone,
      T!Nobody, ShowsOnly, T!UnderWay, T!Shown, T!Proof, T!Receipt
<1>8. ASSUME TransferInv, T!TypeOK', NEW p \in X, T!NotFound(p) PROVE TransferInv'
  BY <1>8, TransferConstants
  DEF T!NotFound, T!Answered, T!form, T!money, TransferInv, T!TypeOK, T!PaysWhoIsShown, LookedUp,
      SendsAlone, T!Nobody, ShowsOnly, T!UnderWay, T!Shown, T!Proof, T!Receipt
<1>9. ASSUME TransferInv, T!TypeOK', T!EnterAmount PROVE TransferInv'
  BY <1>9, TransferConstants
  DEF T!EnterAmount, T!Nobody, T!asking, T!money, TransferInv, T!TypeOK, T!PaysWhoIsShown, LookedUp,
      SendsAlone, ShowsOnly, T!UnderWay, T!Shown, T!Proof, T!Receipt
<1>10. ASSUME TransferInv, T!TypeOK', T!Review PROVE TransferInv'
  BY <1>10, TransferConstants
  DEF T!Review, T!Nobody, T!asking, T!money, TransferInv, T!TypeOK, T!PaysWhoIsShown, LookedUp,
      SendsAlone, ShowsOnly, T!UnderWay, T!Shown, T!Proof, T!Receipt
<1>11. ASSUME TransferInv, T!TypeOK', T!GoBack PROVE TransferInv'
  BY <1>11, TransferConstants
  DEF T!GoBack, T!Nobody, T!Leaving, T!asking, T!UnderWay, TransferInv, T!TypeOK, T!PaysWhoIsShown,
      LookedUp, SendsAlone, ShowsOnly, T!Shown, T!Proof, T!Receipt
<1>12. ASSUME TransferInv, T!TypeOK', NEW t \in Y, T!Send(t) PROVE TransferInv'
  BY <1>12, TransferConstants
  DEF T!Send, T!Nobody, T!Idle, T!Shown, T!form, T!asking, TransferInv, T!TypeOK, T!PaysWhoIsShown,
      LookedUp, SendsAlone, ShowsOnly, T!UnderWay, T!Proof, T!Receipt
<1>13. ASSUME TransferInv, T!TypeOK', NEW t \in Y, T!SendFails(t) PROVE TransferInv'
  BY <1>13, TransferConstants
  DEF T!SendFails, T!Advance, T!form, T!asking, TransferInv, T!TypeOK, T!PaysWhoIsShown, LookedUp,
      SendsAlone, T!Nobody, ShowsOnly, T!UnderWay, T!Shown, T!Proof, T!Receipt
<1>14. ASSUME TransferInv, T!TypeOK', NEW t \in Y, T!Broadcast(t) PROVE TransferInv'
  BY <1>14, TransferConstants
  DEF T!Broadcast, T!Advance, T!form, T!asking, TransferInv, T!TypeOK, T!PaysWhoIsShown, LookedUp,
      SendsAlone, T!Nobody, ShowsOnly, T!UnderWay, T!Shown, T!Proof, T!Receipt
<1>15. ASSUME TransferInv, T!TypeOK', NEW t \in Y, T!Mined(t) PROVE TransferInv'
  <2>1. /\ transfers' = [transfers EXCEPT ![t].stage = "mined"] /\ t \in T!UnderWay
        /\ transfers \in [Y -> [stage : {"none", "signing", "out", "mined", "failed"},
                                to : X \cup {T!Nobody}, amount : 0 .. MaxAmount, shown : SUBSET X]]
    BY <1>15 DEF T!Mined, T!Advance, T!UnderWay, TransferInv, T!TypeOK
  <2>2. LookedUp' /\ T!PaysWhoIsShown'
    BY <1>15, <2>1 DEF T!Mined, T!form, T!asking, TransferInv, LookedUp, ShowsOnly,
          T!PaysWhoIsShown
  <2>3. /\ T!UnderWay' \subseteq T!UnderWay \ {t}
        /\ UNCHANGED <<step, phone, label, recipient, amount, txHash, mixed, left>>
        /\ T!Shown' = T!Shown
    BY <1>15, <2>1 DEF T!Mined, T!UnderWay, T!form, T!asking, T!Shown
  <2>4. ASSUME ~mixed, ~left PROVE T!UnderWay' = {} /\ T!Proof' /\ step' = "review"
    <3>1. /\ T!UnderWay = {t} /\ txHash = t /\ step = "review"
          /\ transfers[t].to = recipient /\ transfers[t].amount = amount
          /\ transfers[t].shown = T!Shown
      BY <1>15, <2>1, <2>4 DEF TransferInv, SendsAlone, T!Mined
    <3>2. transfers'[t] = [stage |-> "mined", to |-> transfers[t].to, amount |-> transfers[t].amount,
                           shown |-> transfers[t].shown]
      BY <2>1
    <3>3. QED
      BY <2>3, <3>1, <3>2 DEF T!Proof, T!Receipt
  <2>5. QED
    BY <1>15, <2>2, <2>3, <2>4 DEF TransferInv, SendsAlone
<1>16. ASSUME TransferInv, T!TypeOK', NEW t \in Y, T!Reverted(t) PROVE TransferInv'
  BY <1>16, TransferConstants
  DEF T!Reverted, T!Advance, T!form, T!asking, TransferInv, T!TypeOK, T!PaysWhoIsShown, LookedUp,
      SendsAlone, T!Nobody, ShowsOnly, T!UnderWay, T!Shown, T!Proof, T!Receipt
<1>17. QED
  BY TransferTypes, <1>1, <1>2, <1>3, <1>4, <1>5, <1>6, <1>7, <1>8, <1>9, <1>10, <1>11, <1>12,
    <1>13, <1>14, <1>15, <1>16
  DEF TransferInv, T!Next

LEMMA TransferRests == TransferInv /\ UNCHANGED TVars => TransferInv'
<1> SUFFICES ASSUME TransferInv, UNCHANGED TVars PROVE TransferInv'
  OBVIOUS
<1>1. T!TypeOK'
  BY DEF TransferInv, T!TypeOK, TVars
<1>2. LookedUp' /\ T!PaysWhoIsShown'
  BY DEF TransferInv, LookedUp, ShowsOnly, T!PaysWhoIsShown, TVars
<1>3. SendsAlone'
  BY DEF TransferInv, SendsAlone, T!UnderWay, T!Shown, T!Proof, T!Receipt, TVars
<1>4. QED
  BY <1>1, <1>2, <1>3 DEF TransferInv

\* What the inductive invariant says of the review and the receipt.
LEMMA TransferKept == TransferInv => T!TypeOK /\ T!PaysWhoIsShown /\ T!ReceiptIsTrue
<1> SUFFICES ASSUME TransferInv PROVE T!ReceiptIsTrue
  BY DEF TransferInv
<1>1. CASE ~mixed /\ ~left
  <2>1. \A t, u \in T!UnderWay : t = u
    BY <1>1 DEF TransferInv, SendsAlone
  <2>2. Cardinality(T!UnderWay) <= 1
    BY <2>1, AtMostOne
  <2>3. T!Cardinality(T!UnderWay) = Cardinality(T!UnderWay)
    BY DEF T!Cardinality, Cardinality
  <2>4. transferPhase = "done" => T!Proof
    BY <1>1 DEF TransferInv, SendsAlone
  <2>5. QED
    BY <2>2, <2>3, <2>4 DEF T!ReceiptIsTrue
<1>2. CASE mixed \/ left
  BY <1>2 DEF T!ReceiptIsTrue
<1>3. QED
  BY <1>1, <1>2

-----------------------------------------------------------------------------
(* Cashing out. *)

(* Filling in an off-ramp. *)

\* Whatever is under way is on the screen: one send, or the poll of one that was filed.
UnderWayAt(at) == CASE at = "approving" -> "approving" [] at = "out" -> "locking" [] at = "posting" -> "settling"
Running == {s \in Y : offrampSends[s].at \in {"approving", "out", "posting"}}
OneRuns ==
    /\ \A s \in Running : offrampStage = UnderWayAt(offrampSends[s].at)
    /\ \A s, t \in Running : s = t
    /\ polling # F!None =>
        /\ polling \in F!Filed
        /\ offrampStage = "settling" /\ Running = {}

\* The destination hashed is the one in the fields, unless it was edited meanwhile.
HashIsShown ==
    /\ offrampStage = "resolving" =>
        /\ offrampPage = "form" /\ resolving # F!None
        /\ ~touched => resolving = dest
    /\ offrampPage = "review" =>
        /\ hash # F!None
        /\ ~touched => hash = dest

\* A lock goes to the destination shown, and one that was filed has the fee of its amount.
SentAsShown ==
    /\ ~touched => \A s \in Y : offrampSends[s].to = offrampSends[s].seen
    /\ \A s \in F!Filed : offrampSends[s].gross = offrampSends[s].net

\* After a lock was filed the screen offers no other, if no call went unanswered.
FiledEndsIt ==
    glitches = 0 =>
        /\ \A s, t \in F!Filed : s = t
        /\ F!Filed # {} => offrampStage \in {"settling", "done", "needs-refund"} /\ Running = {}

OfframpFormInv == F!TypeOK /\ OneRuns /\ HashIsShown /\ SentAsShown /\ FiledEndsIt

LEMMA OfframpFormConstants ==
    "none" \notin X /\ "none" \notin Y /\ MaxAmount \in Nat /\ MaxGlitches \in Nat
BY ScreensAssumption DEF ScreensAssumption

LEMMA OfframpFormStarts == F!Init => OfframpFormInv
<1> SUFFICES ASSUME F!Init PROVE OfframpFormInv
  OBVIOUS
<1>1. F!TypeOK
  <2>1. /\ offrampPage = "form" /\ offrampStage = "idle" /\ polling \in Y \cup {F!None}
        /\ {dest, resolving, hash, destRef} \subseteq X \cup {F!None}
        /\ quoting \in BOOLEAN /\ touched \in BOOLEAN
    BY DEF F!Init
  <2>2. {net, quote} \subseteq 0 .. MaxAmount /\ glitches \in 0 .. MaxGlitches
    BY OfframpFormConstants DEF F!Init
  <2>3. offrampSends \in [Y -> [at : F!Places, to : X \cup {F!None}, net : 0 .. MaxAmount,
                                gross : 0 .. MaxAmount, seen : X \cup {F!None}, ref : X \cup {F!None}]]
    BY OfframpFormConstants DEF F!Init, F!NoSend, F!Places
  <2>4. QED
    BY <2>1, <2>2, <2>3 DEF F!TypeOK
<1>2. OneRuns /\ HashIsShown /\ SentAsShown /\ FiledEndsIt
  BY DEF F!Init, F!NoSend, F!Filed, OneRuns, Running, HashIsShown, SentAsShown, FiledEndsIt
<1>3. QED
  BY <1>1, <1>2 DEF OfframpFormInv

LEMMA OfframpFormTypes == OfframpFormInv /\ F!Next => F!TypeOK'
<1>1. ASSUME OfframpFormInv, F!EnterDestination PROVE F!TypeOK'
  BY <1>1, OfframpFormConstants
  DEF OfframpFormInv, F!EnterDestination, F!OnForm, F!quotes, F!Over, F!TypeOK, F!None, F!Places
<1>2. ASSUME OfframpFormInv, F!EnterAmount PROVE F!TypeOK'
  BY <1>2, OfframpFormConstants
  DEF OfframpFormInv, F!EnterAmount, F!OnForm, F!resolved, F!Over, F!TypeOK, F!None, F!Places
<1>3. ASSUME OfframpFormInv, F!QuoteArrives PROVE F!TypeOK'
  BY <1>3, OfframpFormConstants
  DEF OfframpFormInv, F!QuoteArrives, F!resolved, F!TypeOK, F!None, F!Places
<1>4. ASSUME OfframpFormInv, F!QuoteFails PROVE F!TypeOK'
  BY <1>4, OfframpFormConstants
  DEF OfframpFormInv, F!QuoteFails, F!resolved, F!TypeOK, F!None, F!Places
<1>5. ASSUME OfframpFormInv, F!PressReview PROVE F!TypeOK'
  BY <1>5, OfframpFormConstants
  DEF OfframpFormInv, F!PressReview, F!OnForm, F!Busy, F!None, F!quotes, F!Over, F!TypeOK, F!Places
<1>6. ASSUME OfframpFormInv, F!Resolved PROVE F!TypeOK'
  BY <1>6, OfframpFormConstants DEF OfframpFormInv, F!Resolved, F!None, F!quotes, F!TypeOK, F!Places
<1>7. ASSUME OfframpFormInv, F!ResolveFails PROVE F!TypeOK'
  BY <1>7, OfframpFormConstants
  DEF OfframpFormInv, F!ResolveFails, F!Glitch, F!None, F!quotes, F!TypeOK, F!Places
<1>8. ASSUME OfframpFormInv, F!GoBack PROVE F!TypeOK'
  BY <1>8, OfframpFormConstants
  DEF OfframpFormInv, F!GoBack, F!Over, F!quotes, F!resolved, F!TypeOK, F!None, F!Places
<1>9. ASSUME OfframpFormInv, NEW s \in Y, F!Confirm(s) PROVE F!TypeOK'
  BY <1>9, OfframpFormConstants
  DEF OfframpFormInv, F!Confirm, F!Busy, F!Over, F!None, F!NoSend, F!quotes, F!resolved, F!TypeOK,
      F!Places
<1>10. ASSUME OfframpFormInv, NEW s \in Y, F!SendFails(s) PROVE F!TypeOK'
  BY <1>10, OfframpFormConstants
  DEF OfframpFormInv, F!SendFails, F!Step, F!Glitch, F!quotes, F!resolved, F!TypeOK, F!None,
      F!Places
<1>11. ASSUME OfframpFormInv, NEW s \in Y, F!Lock(s) PROVE F!TypeOK'
  BY <1>11, OfframpFormConstants
  DEF OfframpFormInv, F!Lock, F!Step, F!quotes, F!resolved, F!TypeOK, F!None, F!Places
<1>12. ASSUME OfframpFormInv, NEW s \in Y, F!LockMined(s) PROVE F!TypeOK'
  <2> DEFINE Sent == [at : F!Places, to : X \cup {F!None}, net : 0 .. MaxAmount, gross : 0 .. MaxAmount,
                      seen : X \cup {F!None}, ref : X \cup {F!None}]
  <2>1. offrampSends \in [Y -> Sent] /\ destRef \in X \cup {F!None} /\ "posting" \in F!Places
    BY <1>12 DEF OfframpFormInv, F!TypeOK, F!Places
  <2>2. [offrampSends[s] EXCEPT !.at = "posting", !.ref = destRef] \in Sent
    BY <2>1
  <2>3. offrampSends' = [offrampSends EXCEPT ![s] = [offrampSends[s] EXCEPT !.at = "posting", !.ref = destRef]]
    BY <1>12, <2>1 DEF F!LockMined
  <2>4. offrampSends' \in [Y -> Sent]
    BY <2>1, <2>2, <2>3
  <2>5. QED
    BY <1>12, <2>4 DEF F!LockMined, F!quotes, F!resolved, OfframpFormInv, F!TypeOK
<1>13. ASSUME OfframpFormInv, NEW s \in Y, F!LockThrows(s) PROVE F!TypeOK'
  BY <1>13, OfframpFormConstants
  DEF OfframpFormInv, F!LockThrows, F!Step, F!Glitch, F!quotes, F!resolved, F!TypeOK, F!None,
      F!Places
<1>14. ASSUME OfframpFormInv, NEW s \in Y, F!File(s) PROVE F!TypeOK'
  BY <1>14, OfframpFormConstants
  DEF OfframpFormInv, F!File, F!Matches, F!Step, F!Glitch, F!quotes, F!resolved, F!TypeOK, F!None,
      F!Places
<1>15. ASSUME OfframpFormInv, NEW s \in Y, F!Refuse(s) PROVE F!TypeOK'
  BY <1>15, OfframpFormConstants
  DEF OfframpFormInv, F!Refuse, F!Matches, F!Step, F!quotes, F!resolved, F!TypeOK, F!None, F!Places
<1>16. ASSUME OfframpFormInv, NEW s \in Y, F!PostLost(s) PROVE F!TypeOK'
  BY <1>16, OfframpFormConstants
  DEF OfframpFormInv, F!PostLost, F!Step, F!Glitch, F!quotes, F!resolved, F!TypeOK, F!None, F!Places
<1>17. ASSUME OfframpFormInv, NEW s \in Y, F!Settle(s) PROVE F!TypeOK'
  BY <1>17, OfframpFormConstants
  DEF OfframpFormInv, F!Settle, F!Step, F!quotes, F!resolved, F!TypeOK, F!None, F!Places
<1>18. ASSUME OfframpFormInv, NEW s \in Y, F!Expire(s) PROVE F!TypeOK'
  BY <1>18, OfframpFormConstants
  DEF OfframpFormInv, F!Expire, F!Step, F!quotes, F!resolved, F!TypeOK, F!None, F!Places
<1>19. ASSUME OfframpFormInv, NEW s \in Y, F!PollDone(s) PROVE F!TypeOK'
  BY <1>19, OfframpFormConstants
  DEF OfframpFormInv, F!PollDone, F!None, F!quotes, F!resolved, F!TypeOK, F!Places
<1>20. ASSUME OfframpFormInv, NEW s \in Y, F!PollRefundable(s) PROVE F!TypeOK'
  BY <1>20, OfframpFormConstants
  DEF OfframpFormInv, F!PollRefundable, F!None, F!quotes, F!resolved, F!TypeOK, F!Places
<1>21. ASSUME OfframpFormInv, F!PollBreaks PROVE F!TypeOK'
  BY <1>21, OfframpFormConstants
  DEF OfframpFormInv, F!PollBreaks, F!None, F!Glitch, F!quotes, F!resolved, F!TypeOK, F!Places
<1>22. QED
  BY <1>1, <1>2, <1>3, <1>4, <1>5, <1>6, <1>7, <1>8, <1>9, <1>10, <1>11, <1>12, <1>13, <1>14, <1>15,
    <1>16, <1>17, <1>18, <1>19, <1>20, <1>21
  DEF F!Next

LEMMA OfframpFormStep == OfframpFormInv /\ F!Next => OfframpFormInv'
<1>1. ASSUME OfframpFormInv, F!TypeOK', F!EnterDestination PROVE OfframpFormInv'
  <2>1. /\ dest' \in X /\ offrampPage = "form" /\ offrampPage' = "form"
        /\ UNCHANGED <<offrampStage, resolving, hash, offrampSends, glitches, polling>>
    BY <1>1 DEF F!EnterDestination, F!OnForm
  <2>2. /\ offrampStage = "resolving" => touched'
        /\ touched => touched'
    BY <1>1, Zenon DEF F!EnterDestination
  <2>3. OneRuns' /\ FiledEndsIt'
    BY <1>1, <2>1 DEF OfframpFormInv, OneRuns, UnderWayAt, Running, FiledEndsIt, F!Filed
  <2>4. HashIsShown'
    BY <1>1, <2>1, <2>2 DEF OfframpFormInv, HashIsShown
  <2>5. SentAsShown'
    BY <1>1, <2>1, <2>2 DEF OfframpFormInv, SentAsShown, F!Filed
  <2>6. QED
    BY <1>1, <2>3, <2>4, <2>5 DEF OfframpFormInv
<1>2. ASSUME OfframpFormInv, F!TypeOK', F!EnterAmount PROVE OfframpFormInv'
  BY <1>2, OfframpFormConstants
  DEF F!EnterAmount, F!OnForm, F!resolved, F!Over, OfframpFormInv, F!TypeOK, OneRuns, HashIsShown,
      SentAsShown, FiledEndsIt, F!None, F!Places, F!Filed, Running, UnderWayAt
<1>3. ASSUME OfframpFormInv, F!TypeOK', F!QuoteArrives PROVE OfframpFormInv'
  BY <1>3, OfframpFormConstants
  DEF F!QuoteArrives, F!resolved, OfframpFormInv, F!TypeOK, OneRuns, HashIsShown, SentAsShown,
      FiledEndsIt, F!None, F!Places, F!Filed, Running, UnderWayAt
<1>4. ASSUME OfframpFormInv, F!TypeOK', F!QuoteFails PROVE OfframpFormInv'
  BY <1>4, OfframpFormConstants
  DEF F!QuoteFails, F!resolved, OfframpFormInv, F!TypeOK, OneRuns, HashIsShown, SentAsShown,
      FiledEndsIt, F!None, F!Places, F!Filed, Running, UnderWayAt
<1>5. ASSUME OfframpFormInv, F!TypeOK', F!PressReview PROVE OfframpFormInv'
  BY <1>5, OfframpFormConstants
  DEF F!PressReview, F!OnForm, F!Busy, F!None, F!quotes, F!Over, OfframpFormInv, F!TypeOK, OneRuns,
      HashIsShown, SentAsShown, FiledEndsIt, F!Places, F!Filed, Running, UnderWayAt
<1>6. ASSUME OfframpFormInv, F!TypeOK', F!Resolved PROVE OfframpFormInv'
  BY <1>6, OfframpFormConstants
  DEF F!Resolved, F!None, F!quotes, OfframpFormInv, F!TypeOK, OneRuns, HashIsShown, SentAsShown,
      FiledEndsIt, F!Places, F!Filed, Running, UnderWayAt
<1>7. ASSUME OfframpFormInv, F!TypeOK', F!ResolveFails PROVE OfframpFormInv'
  BY <1>7, OfframpFormConstants
  DEF F!ResolveFails, F!Glitch, F!None, F!quotes, OfframpFormInv, F!TypeOK, OneRuns, HashIsShown,
      SentAsShown, FiledEndsIt, F!Places, F!Filed, Running, UnderWayAt
<1>8. ASSUME OfframpFormInv, F!TypeOK', F!GoBack PROVE OfframpFormInv'
  BY <1>8, OfframpFormConstants
  DEF F!GoBack, F!Over, F!quotes, F!resolved, OfframpFormInv, F!TypeOK, OneRuns, HashIsShown,
      SentAsShown, FiledEndsIt, F!None, F!Places, F!Filed, Running, UnderWayAt
<1>9. ASSUME OfframpFormInv, F!TypeOK', NEW s \in Y, F!Confirm(s) PROVE OfframpFormInv'
  BY <1>9, OfframpFormConstants
  DEF F!Confirm, F!Busy, F!Over, F!None, F!NoSend, F!quotes, F!resolved, OfframpFormInv, F!TypeOK,
      OneRuns, HashIsShown, SentAsShown, FiledEndsIt, F!Places, F!Filed, Running, UnderWayAt
<1>10. ASSUME OfframpFormInv, F!TypeOK', NEW s \in Y, F!SendFails(s) PROVE OfframpFormInv'
  BY <1>10, OfframpFormConstants
  DEF F!SendFails, F!Step, F!Glitch, F!quotes, F!resolved, OfframpFormInv, F!TypeOK, OneRuns,
      HashIsShown, SentAsShown, FiledEndsIt, F!None, F!Places, F!Filed, Running, UnderWayAt
<1>11. ASSUME OfframpFormInv, F!TypeOK', NEW s \in Y, F!Lock(s) PROVE OfframpFormInv'
  BY <1>11, OfframpFormConstants
  DEF F!Lock, F!Step, F!quotes, F!resolved, OfframpFormInv, F!TypeOK, OneRuns, HashIsShown,
      SentAsShown, FiledEndsIt, F!None, F!Places, F!Filed, Running, UnderWayAt
<1>12. ASSUME OfframpFormInv, F!TypeOK', NEW s \in Y, F!LockMined(s) PROVE OfframpFormInv'
  BY <1>12, OfframpFormConstants
  DEF F!LockMined, F!quotes, F!resolved, OfframpFormInv, F!TypeOK, OneRuns, HashIsShown,
      SentAsShown, FiledEndsIt, F!None, F!Places, F!Filed, Running, UnderWayAt
<1>13. ASSUME OfframpFormInv, F!TypeOK', NEW s \in Y, F!LockThrows(s) PROVE OfframpFormInv'
  BY <1>13, OfframpFormConstants
  DEF F!LockThrows, F!Step, F!Glitch, F!quotes, F!resolved, OfframpFormInv, F!TypeOK, OneRuns,
      HashIsShown, SentAsShown, FiledEndsIt, F!None, F!Places, F!Filed, Running, UnderWayAt
<1>14. ASSUME OfframpFormInv, F!TypeOK', NEW s \in Y, F!File(s) PROVE OfframpFormInv'
  BY <1>14, OfframpFormConstants
  DEF F!File, F!Matches, F!Step, F!Glitch, F!quotes, F!resolved, OfframpFormInv, F!TypeOK, OneRuns,
      HashIsShown, SentAsShown, FiledEndsIt, F!None, F!Places, F!Filed, Running, UnderWayAt
<1>15. ASSUME OfframpFormInv, F!TypeOK', NEW s \in Y, F!Refuse(s) PROVE OfframpFormInv'
  BY <1>15, OfframpFormConstants
  DEF F!Refuse, F!Matches, F!Step, F!quotes, F!resolved, OfframpFormInv, F!TypeOK, OneRuns,
      HashIsShown, SentAsShown, FiledEndsIt, F!None, F!Places, F!Filed, Running, UnderWayAt
<1>16. ASSUME OfframpFormInv, F!TypeOK', NEW s \in Y, F!PostLost(s) PROVE OfframpFormInv'
  BY <1>16, OfframpFormConstants
  DEF F!PostLost, F!Step, F!Glitch, F!quotes, F!resolved, OfframpFormInv, F!TypeOK, OneRuns,
      HashIsShown, SentAsShown, FiledEndsIt, F!None, F!Places, F!Filed, Running, UnderWayAt
<1>17. ASSUME OfframpFormInv, F!TypeOK', NEW s \in Y, F!Settle(s) PROVE OfframpFormInv'
  BY <1>17, OfframpFormConstants
  DEF F!Settle, F!Step, F!quotes, F!resolved, OfframpFormInv, F!TypeOK, OneRuns, HashIsShown,
      SentAsShown, FiledEndsIt, F!None, F!Places, F!Filed, Running, UnderWayAt
<1>18. ASSUME OfframpFormInv, F!TypeOK', NEW s \in Y, F!Expire(s) PROVE OfframpFormInv'
  BY <1>18, OfframpFormConstants
  DEF F!Expire, F!Step, F!quotes, F!resolved, OfframpFormInv, F!TypeOK, OneRuns, HashIsShown,
      SentAsShown, FiledEndsIt, F!None, F!Places, F!Filed, Running, UnderWayAt
<1>19. ASSUME OfframpFormInv, F!TypeOK', NEW s \in Y, F!PollDone(s) PROVE OfframpFormInv'
  BY <1>19, OfframpFormConstants
  DEF F!PollDone, F!None, F!quotes, F!resolved, OfframpFormInv, F!TypeOK, OneRuns, HashIsShown,
      SentAsShown, FiledEndsIt, F!Places, F!Filed, Running, UnderWayAt
<1>20. ASSUME OfframpFormInv, F!TypeOK', NEW s \in Y, F!PollRefundable(s) PROVE OfframpFormInv'
  BY <1>20, OfframpFormConstants
  DEF F!PollRefundable, F!None, F!quotes, F!resolved, OfframpFormInv, F!TypeOK, OneRuns,
      HashIsShown, SentAsShown, FiledEndsIt, F!Places, F!Filed, Running, UnderWayAt
<1>21. ASSUME OfframpFormInv, F!TypeOK', F!PollBreaks PROVE OfframpFormInv'
  BY <1>21, OfframpFormConstants
  DEF F!PollBreaks, F!None, F!Glitch, F!quotes, F!resolved, OfframpFormInv, F!TypeOK, OneRuns,
      HashIsShown, SentAsShown, FiledEndsIt, F!Places, F!Filed, Running, UnderWayAt
<1>22. QED
  BY OfframpFormTypes, <1>1, <1>2, <1>3, <1>4, <1>5, <1>6, <1>7, <1>8, <1>9, <1>10, <1>11, <1>12,
    <1>13, <1>14, <1>15, <1>16, <1>17, <1>18, <1>19, <1>20, <1>21
  DEF OfframpFormInv, F!Next

LEMMA OfframpFormRests == OfframpFormInv /\ UNCHANGED <<FVars, glitches>> => OfframpFormInv'
BY DEF OfframpFormInv, F!TypeOK, OneRuns, HashIsShown, SentAsShown, FiledEndsIt, F!None, F!Places,
    F!Filed, Running, UnderWayAt, FVars

\* One filed lock, with its own fee, to the destination shown.
LEMMA OfframpFormKept == OfframpFormInv => F!TypeOK /\ F!SettlesAsReviewed /\ F!OneIsFiled
<1> SUFFICES ASSUME OfframpFormInv PROVE F!SettlesAsReviewed /\ F!OneIsFiled
  BY DEF OfframpFormInv
<1>1. F!SettlesAsReviewed
  BY DEF OfframpFormInv, SentAsShown, F!Filed, F!SettlesAsReviewed, F!Payee, F!Verified
<1>2. ASSUME glitches = 0 PROVE F!Cardinality(F!Filed) <= 1
  <2>1. \A s, t \in F!Filed : s = t
    BY <1>2 DEF OfframpFormInv, FiledEndsIt
  <2>2. Cardinality(F!Filed) <= 1
    BY <2>1, AtMostOne
  <2>3. F!Cardinality(F!Filed) = Cardinality(F!Filed)
    BY DEF F!Cardinality, Cardinality
  <2>4. QED
    BY <2>2, <2>3
<1>3. QED
  BY <1>1, <1>2 DEF F!OneIsFiled

-----------------------------------------------------------------------------
(* The session in a browser. *)

\* What asks for a user, and what asks for a wallet.
BrowserAsks == [who : B!Someone, renews : BOOLEAN, lives : BOOLEAN]
BrowserLogins == [tab : B!Someone, server : B!Someone, signsIn : BOOLEAN]

\* A connected wallet is of the account it is tagged for.
TaggedIsOwn == wallet.status = "connected" => wallet.address = wallet.for /\ wallet.for # B!Nobody

\* While the session changes only from this tab, with no answer out, all that is on its way is of
\* the session's account; a signed-in user is that account, and so is the number and the address
\* the tab has kept for it.
OfTheSession ==
    ~crossed =>
        /\ user \in {browserCookie, B!Nobody}
        /\ \A q \in asks : q.who = browserCookie /\ q.lives
        /\ \A l \in logins : /\ l.server = browserCookie /\ l.server # B!Nobody
                             /\ l.tab \in {browserCookie, B!Nobody}
        /\ signIn # B!Idle => signIn.number = browserCookie /\ signIn.number # B!Nobody /\ user = B!Nobody
        /\ signIn.step = "none" => signIn = B!Idle
        /\ signIn.step \in {"wallet", "me"} => asks = {}
        /\ signIn.step = "asked" => signIn.named = browserCookie
        /\ asks # {} \/ user # B!Nobody \/ signIn.step \in {"me", "asked"}
            => wallet.address \in {browserCookie, B!Nobody}
        /\ \A a \in X : own[a] # B!Nobody => own[a] = a /\ a = user
        /\ \A a \in actions : a = browserCookie
        /\ \A pair \in signed : pair[1] = pair[2]

BrowserInv == B!TypeOK /\ TaggedIsOwn /\ OfTheSession

LEMMA BrowserConstants ==
    B!Nobody \notin X /\ {MaxLogins, MaxTurns} \subseteq Nat /\ MaxAsks \in Nat \ {0}
BY ScreensAssumption DEF ScreensAssumption, B!Nobody

LEMMA BrowserStarts == B!Init => BrowserInv
<1> SUFFICES ASSUME B!Init PROVE BrowserInv
  OBVIOUS
<1>1. B!TypeOK
  <2>1. /\ {browserCookie, user, autoFor} \subseteq B!Someone
        /\ wallet \in [for : B!Someone, status : {"idle", "connecting", "connected"}, address : B!Someone]
        /\ signIn \in [step : {"none", "wallet", "me", "asked"}, number : B!Someone, named : B!Someone]
        /\ logins = {} /\ actions = {} /\ signed = {}
    BY DEF B!Init, B!Someone, B!Idle
  <2>2. crossed \in BOOLEAN /\ asks \subseteq BrowserAsks
    <3>1. [who |-> browserCookie, renews |-> FALSE, lives |-> TRUE] \in BrowserAsks
      BY DEF B!Init, B!Someone, BrowserAsks
    <3>2. QED
      BY <3>1 DEF B!Init
  <2>3. own \in [X -> B!Someone] /\ browserAsked \in 0 .. MaxAsks
        /\ provisioned \in 0 .. MaxLogins /\ turns \in 0 .. MaxTurns
    BY BrowserConstants DEF B!Init, B!Someone
  <2>4. QED
    BY <2>1, <2>2, <2>3 DEF B!TypeOK, BrowserAsks
<1>2. TaggedIsOwn /\ OfTheSession
  BY DEF B!Init, B!Idle, TaggedIsOwn, OfTheSession
<1>3. QED
  BY <1>1, <1>2 DEF BrowserInv

\* One more asks who it is, some no longer renew, one more wallet is asked for.
LEMMA AskTypes ==
    ASSUME B!TypeOK, B!Ask
    PROVE  asks' \subseteq BrowserAsks /\ browserAsked' \in 0 .. MaxAsks
<1>1. PICK renews \in BOOLEAN :
        asks' = asks \cup {[who |-> browserCookie, renews |-> renews /\ browserCookie # B!Nobody, lives |-> TRUE]}
  BY DEF B!Ask
<1>2. [who |-> browserCookie, renews |-> renews /\ browserCookie # B!Nobody, lives |-> TRUE] \in BrowserAsks
  <2>1. browserCookie \in B!Someone /\ TRUE \in BOOLEAN
    BY DEF B!TypeOK
  <2>2. (renews /\ browserCookie # B!Nobody) \in BOOLEAN
    OBVIOUS
  <2>3. QED
    BY <2>1, <2>2, Zenon DEF BrowserAsks
<1>3. browserAsked' \in 0 .. MaxAsks
  BY BrowserConstants DEF B!Ask, B!TypeOK
<1>4. QED
  BY <1>1, <1>2, <1>3 DEF B!TypeOK, BrowserAsks

LEMMA RevokedTypes ==
    ASSUME B!TypeOK, NEW a PROVE B!Revoked(a) \subseteq BrowserAsks
<1> SUFFICES ASSUME NEW q \in asks PROVE [q EXCEPT !.lives = q.lives /\ q.who # a] \in BrowserAsks
  BY DEF B!Revoked
<1>1. q \in BrowserAsks
  BY DEF B!TypeOK, BrowserAsks
<1>2. (q.lives /\ q.who # a) \in BOOLEAN
  OBVIOUS
<1>3. QED
  BY <1>1, <1>2 DEF BrowserAsks

LEMMA LoginTypes ==
    ASSUME B!TypeOK, NEW server \in B!Someone, NEW signsIn \in BOOLEAN, B!Login(server, signsIn)
    PROVE  /\ logins' \subseteq BrowserLogins /\ provisioned' \in 0 .. MaxLogins
           /\ wallet' \in [for : B!Someone, status : {"idle", "connecting", "connected"}, address : B!Someone]
<1>1. [tab |-> user, server |-> server, signsIn |-> signsIn] \in BrowserLogins
  <2>1. user \in B!Someone
    BY DEF B!TypeOK
  <2>2. QED
    BY <2>1, Zenon DEF BrowserLogins
<1>2. logins' \subseteq BrowserLogins
  BY <1>1 DEF B!Login, B!TypeOK, BrowserLogins
<1>3. provisioned' \in 0 .. MaxLogins
  BY BrowserConstants DEF B!Login, B!TypeOK
<1>4. wallet' \in [for : B!Someone, status : {"idle", "connecting", "connected"}, address : B!Someone]
  BY DEF B!Login, B!TypeOK
<1>5. QED
  BY <1>2, <1>3, <1>4

LEMMA BrowserTypes == BrowserInv /\ B!Next => B!TypeOK'
<1>1. ASSUME BrowserInv, B!Refresh PROVE B!TypeOK'
  BY <1>1, AskTypes DEF BrowserInv, B!Refresh, B!session, B!tab, B!TypeOK, BrowserAsks
<1>2. ASSUME BrowserInv, NEW q \in asks, B!Answer(q) PROVE B!TypeOK'
  BY <1>2, BrowserConstants
  DEF BrowserInv, B!Answer, B!Nobody, B!Idle, B!Remember, B!TypeOK, B!Someone, B!tab
<1>3. ASSUME BrowserInv, NEW q \in asks, B!AnswerLost(q) PROVE B!TypeOK'
  BY <1>3, BrowserConstants
  DEF BrowserInv, B!AnswerLost, B!Idle, B!session, B!tab, B!Nobody, B!TypeOK, B!Someone
<1>4. ASSUME BrowserInv, B!AutoLogin PROVE B!TypeOK'
  <2>1. B!Login(browserCookie, FALSE) /\ browserCookie \in B!Someone /\ FALSE \in BOOLEAN
    BY <1>4 DEF BrowserInv, B!AutoLogin, B!TypeOK
  <2>2. /\ logins' \subseteq BrowserLogins /\ provisioned' \in 0 .. MaxLogins
        /\ wallet' \in [for : B!Someone, status : {"idle", "connecting", "connected"}, address : B!Someone]
    BY <1>4, <2>1, LoginTypes DEF BrowserInv
  <2>3. QED
    BY <1>4, <2>2 DEF BrowserInv, B!AutoLogin, B!session, B!TypeOK, BrowserLogins
<1>5. ASSUME BrowserInv, NEW l \in logins, B!Provisioned(l) PROVE B!TypeOK'
  BY <1>5, BrowserConstants
  DEF BrowserInv, B!Provisioned, B!Nobody, B!OwnerOf, B!SignInGoesOn, B!session, B!TypeOK,
      B!Someone, B!tab
<1>6. ASSUME BrowserInv, NEW l \in logins, B!NotProvisioned(l) PROVE B!TypeOK'
  BY <1>6, BrowserConstants
  DEF BrowserInv, B!NotProvisioned, B!tab, B!Nobody, B!SignInGoesOn, B!session, B!TypeOK, B!Someone
<1>7. ASSUME BrowserInv, B!StartAction PROVE B!TypeOK'
  BY <1>7, BrowserConstants
  DEF BrowserInv, B!StartAction, B!Nobody, B!Current, B!session, B!calls, B!TypeOK, B!Someone, B!tab
<1>8. ASSUME BrowserInv, NEW a \in actions, B!Sign(a) PROVE B!TypeOK'
  BY <1>8, BrowserConstants
  DEF BrowserInv, B!Sign, B!Nobody, B!session, B!calls, B!TypeOK, B!Someone, B!tab
<1>9. ASSUME BrowserInv, NEW a \in actions, B!ActionEnds(a) PROVE B!TypeOK'
  BY <1>9, BrowserConstants
  DEF BrowserInv, B!ActionEnds, B!session, B!calls, B!TypeOK, B!Someone, B!tab, B!Nobody
<1>10. ASSUME BrowserInv, NEW a \in X, B!VerifyCode(a) PROVE B!TypeOK'
  <2>1. B!Login(a, TRUE) /\ a \in B!Someone /\ TRUE \in BOOLEAN
    BY <1>10 DEF B!VerifyCode, B!Someone
  <2>2. /\ logins' \subseteq BrowserLogins /\ provisioned' \in 0 .. MaxLogins
        /\ wallet' \in [for : B!Someone, status : {"idle", "connecting", "connected"}, address : B!Someone]
    BY <1>10, <2>1, LoginTypes DEF BrowserInv
  <2>3. crossed' \in BOOLEAN
    BY <1>10, Zenon DEF B!VerifyCode
  <2>4. turns' \in 0 .. MaxTurns
    BY <1>10, BrowserConstants DEF B!VerifyCode, B!Turn, BrowserInv, B!TypeOK
  <2>5. signIn' \in [step : {"none", "wallet", "me", "asked"}, number : B!Someone, named : B!Someone]
    BY <1>10 DEF B!VerifyCode, B!Someone
  <2>6. QED
    BY <1>10, <2>2, <2>3, <2>4, <2>5 DEF BrowserInv, B!VerifyCode, B!TypeOK, BrowserLogins, B!Someone
<1>11. ASSUME BrowserInv, B!AskAfterSignIn PROVE B!TypeOK'
  <2>1. asks' \subseteq BrowserAsks /\ browserAsked' \in 0 .. MaxAsks
    BY <1>11, AskTypes DEF BrowserInv, B!AskAfterSignIn
  <2>2. signIn' \in [step : {"none", "wallet", "me", "asked"}, number : B!Someone, named : B!Someone]
    BY <1>11 DEF BrowserInv, B!AskAfterSignIn, B!TypeOK
  <2>3. QED
    BY <1>11, <2>1, <2>2 DEF BrowserInv, B!AskAfterSignIn, B!session, B!tab, B!TypeOK, BrowserAsks
<1>12. ASSUME BrowserInv, B!Logout PROVE B!TypeOK'
  <2>1. asks' \subseteq BrowserAsks /\ browserCookie' \in B!Someone
    BY <1>12, RevokedTypes DEF BrowserInv, B!Logout, B!TypeOK, BrowserAsks, B!Someone
  <2>2. crossed' \in BOOLEAN
    BY <1>12, Zenon DEF B!Logout
  <2>3. turns' \in 0 .. MaxTurns
    BY <1>12, BrowserConstants DEF B!Logout, B!Turn, BrowserInv, B!TypeOK
  <2>4. own' \in [X -> B!Someone] /\ user' \in B!Someone
    BY <1>12, BrowserConstants DEF B!Logout, B!Forgotten, BrowserInv, B!TypeOK, B!Someone
  <2>5. QED
    BY <1>12, <2>1, <2>2, <2>3, <2>4 DEF BrowserInv, B!Logout, B!TypeOK, BrowserAsks
<1>13. ASSUME BrowserInv, B!OtherTab PROVE B!TypeOK'
  <2>1. asks' \subseteq BrowserAsks /\ browserCookie' \in B!Someone
    BY <1>13, RevokedTypes DEF BrowserInv, B!OtherTab, B!TypeOK, BrowserAsks, B!Someone
  <2>2. turns' \in 0 .. MaxTurns
    BY <1>13, BrowserConstants DEF B!OtherTab, B!Turn, BrowserInv, B!TypeOK
  <2>3. QED
    BY <1>13, <2>1, <2>2 DEF BrowserInv, B!OtherTab, B!tab, B!TypeOK, BrowserAsks
<1>14. QED
  BY <1>1, <1>2, <1>3, <1>4, <1>5, <1>6, <1>7, <1>8, <1>9, <1>10, <1>11, <1>12, <1>13 DEF B!Next

LEMMA BrowserStep == BrowserInv /\ B!Next => BrowserInv'
<1>1. ASSUME BrowserInv, B!TypeOK', B!Refresh PROVE BrowserInv'
  BY <1>1, BrowserConstants
  DEF B!Refresh, B!Nobody, B!Ask, B!session, B!tab, BrowserInv, B!TypeOK, TaggedIsOwn, OfTheSession,
      B!Someone, B!Idle
<1>2. ASSUME BrowserInv, B!TypeOK', NEW q \in asks, B!Answer(q) PROVE BrowserInv'
  <2>1. /\ q \in BrowserAsks /\ asks' \subseteq asks /\ user' = q.who
        /\ wallet' = wallet /\ logins' = logins /\ UNCHANGED <<actions, signed>>
    BY <1>2 DEF BrowserInv, B!Answer, B!TypeOK, BrowserAsks
  <2>2. TaggedIsOwn'
    BY <1>2, <2>1 DEF BrowserInv, TaggedIsOwn
  <2>3. ASSUME ~crossed' PROVE ~crossed /\ browserCookie' = browserCookie
    BY <1>2, <2>3, Zenon DEF B!Answer
  <2>4. ASSUME ~crossed' PROVE OfTheSession'
    <3>1. q.who = browserCookie
      BY <1>2, <2>3, <2>4 DEF BrowserInv, OfTheSession
    <3>2. \/ signIn.step = "asked" /\ signIn' = B!Idle /\ q.who = signIn.named
             /\ own' = IF q.who = B!Nobody THEN own ELSE B!Remember(q.who, signIn.number)
          \/ ~(signIn.step = "asked" /\ q.who = signIn.named) /\ UNCHANGED <<signIn, own>>
      BY <1>2 DEF B!Answer
    <3>3. CASE signIn.step = "asked" /\ signIn' = B!Idle /\ q.who = signIn.named
                /\ own' = IF q.who = B!Nobody THEN own ELSE B!Remember(q.who, signIn.number)
      <4>1. signIn.number = browserCookie /\ browserCookie # B!Nobody /\ q.who \in X
        BY <1>2, <2>1, <2>3, <2>4, <3>1, <3>3
        DEF BrowserInv, OfTheSession, B!Idle, BrowserAsks, B!Someone
      <4>2. own' = [own EXCEPT ![q.who] = browserCookie]
        BY <3>1, <3>3, <4>1 DEF B!Remember
      <4>3. \A a \in X : own'[a] # B!Nobody => own'[a] = a /\ a = user'
        BY <1>2, <2>1, <2>3, <2>4, <3>1, <4>1, <4>2 DEF BrowserInv, OfTheSession, B!TypeOK
      <4>4. QED
        BY <1>2, <2>1, <2>3, <2>4, <3>1, <3>3, <4>1, <4>3
        DEF BrowserInv, OfTheSession, B!Idle
    <3>4. CASE ~(signIn.step = "asked" /\ q.who = signIn.named) /\ UNCHANGED <<signIn, own>>
      <4>1. signIn = B!Idle
        BY <1>2, <2>3, <2>4, <3>1, <3>4 DEF BrowserInv, OfTheSession, B!TypeOK
      <4>2. QED
        BY <1>2, <2>1, <2>3, <2>4, <3>1, <3>4, <4>1 DEF BrowserInv, OfTheSession, B!Idle
    <3>5. QED
      BY <3>2, <3>3, <3>4
  <2>5. QED
    BY <1>2, <2>2, <2>4 DEF BrowserInv, OfTheSession
<1>3. ASSUME BrowserInv, B!TypeOK', NEW q \in asks, B!AnswerLost(q) PROVE BrowserInv'
  BY <1>3, BrowserConstants
  DEF B!AnswerLost, B!Idle, B!session, B!tab, B!Nobody, BrowserInv, B!TypeOK, TaggedIsOwn,
      OfTheSession, B!Someone
<1>4. ASSUME BrowserInv, B!TypeOK', B!AutoLogin PROVE BrowserInv'
  BY <1>4, BrowserConstants
  DEF B!AutoLogin, B!Nobody, B!Current, B!Login, B!session, B!tab, BrowserInv, B!TypeOK,
      TaggedIsOwn, OfTheSession, B!Someone, B!Idle
<1>5. ASSUME BrowserInv, B!TypeOK', NEW l \in logins, B!Provisioned(l) PROVE BrowserInv'
  BY <1>5, BrowserConstants
  DEF B!Provisioned, B!Nobody, B!OwnerOf, B!SignInGoesOn, B!session, BrowserInv, B!TypeOK,
      TaggedIsOwn, OfTheSession, B!Someone, B!tab, B!Idle
<1>6. ASSUME BrowserInv, B!TypeOK', NEW l \in logins, B!NotProvisioned(l) PROVE BrowserInv'
  BY <1>6, BrowserConstants
  DEF B!NotProvisioned, B!tab, B!Nobody, B!SignInGoesOn, B!session, BrowserInv, B!TypeOK,
      TaggedIsOwn, OfTheSession, B!Someone, B!Idle
<1>7. ASSUME BrowserInv, B!TypeOK', B!StartAction PROVE BrowserInv'
  BY <1>7, BrowserConstants
  DEF B!StartAction, B!Nobody, B!Current, B!session, B!calls, BrowserInv, B!TypeOK, TaggedIsOwn,
      OfTheSession, B!Someone, B!tab, B!Idle
<1>8. ASSUME BrowserInv, B!TypeOK', NEW a \in actions, B!Sign(a) PROVE BrowserInv'
  BY <1>8, BrowserConstants
  DEF B!Sign, B!Nobody, B!session, B!calls, BrowserInv, B!TypeOK, TaggedIsOwn, OfTheSession,
      B!Someone, B!tab, B!Idle
<1>9. ASSUME BrowserInv, B!TypeOK', NEW a \in actions, B!ActionEnds(a) PROVE BrowserInv'
  BY <1>9, BrowserConstants
  DEF B!ActionEnds, B!session, B!calls, BrowserInv, B!TypeOK, TaggedIsOwn, OfTheSession, B!Someone,
      B!tab, B!Nobody, B!Idle
<1>10. ASSUME BrowserInv, B!TypeOK', NEW a \in X, B!VerifyCode(a) PROVE BrowserInv'
  <2>1. TaggedIsOwn'
    BY <1>10 DEF BrowserInv, B!VerifyCode, B!Login, B!TypeOK, TaggedIsOwn
  <2>2. ASSUME ~crossed' PROVE ~crossed /\ asks = {} /\ logins = {} /\ actions = {}
    BY <1>10, <2>2, Zenon DEF B!VerifyCode, B!CallsOut
  <2>3. ASSUME ~crossed' PROVE OfTheSession'
    BY <1>10, <2>2, <2>3, BrowserConstants
    DEF BrowserInv, B!VerifyCode, B!Login, OfTheSession, B!TypeOK, B!Idle, B!Someone
  <2>4. QED
    BY <1>10, <2>1, <2>3 DEF BrowserInv, OfTheSession
<1>11. ASSUME BrowserInv, B!TypeOK', B!AskAfterSignIn PROVE BrowserInv'
  BY <1>11, BrowserConstants
  DEF B!AskAfterSignIn, B!Ask, B!session, B!tab, B!Nobody, BrowserInv, B!TypeOK, TaggedIsOwn,
      OfTheSession, B!Someone, B!Idle
<1>12. ASSUME BrowserInv, B!TypeOK', B!Logout PROVE BrowserInv'
  <2>1. TaggedIsOwn'
    BY <1>12 DEF BrowserInv, B!Logout, TaggedIsOwn
  <2>2. ASSUME ~crossed' PROVE ~crossed /\ asks = {} /\ logins = {} /\ actions = {} /\ browserCookie' = B!Nobody
    BY <1>12, <2>2, Zenon DEF B!Logout, B!CallsOut
  <2>3. ASSUME ~crossed' PROVE OfTheSession'
    <3>1. user # B!Nobody /\ user' = B!Nobody /\ logins' = {} /\ signIn' = signIn /\ signed' = signed
          /\ actions' = {}
          /\ own' = [own EXCEPT ![user] = B!Nobody]
      <4>1. /\ user # B!Nobody /\ user' = B!Nobody /\ own' = B!Forgotten
            /\ UNCHANGED <<logins, signIn, actions, signed>>
        BY <1>12, Zenon DEF B!Logout
      <4>2. QED
        BY <4>1, <2>2, <2>3 DEF B!Forgotten
    <3>2. asks' = {}
      <4>1. asks' = asks \/ asks' = B!Revoked(browserCookie)
        BY <1>12, Zenon DEF B!Logout
      <4>2. QED
        BY <4>1, <2>2, <2>3 DEF B!Revoked
    <3>3. signIn = B!Idle
      BY <3>1, <1>12, <2>2, <2>3 DEF BrowserInv, OfTheSession
    <3>4. \A b \in X : own'[b] = B!Nobody
      BY <3>1, <1>12, <2>2, <2>3 DEF BrowserInv, OfTheSession, B!TypeOK
    <3>5. QED
      BY <1>12, <2>2, <2>3, <3>1, <3>2, <3>3, <3>4 DEF BrowserInv, OfTheSession, B!Idle
  <2>4. QED
    BY <1>12, <2>1, <2>3 DEF BrowserInv, OfTheSession
<1>13. ASSUME BrowserInv, B!TypeOK', B!OtherTab PROVE BrowserInv'
  BY <1>13, BrowserConstants
  DEF B!OtherTab, B!Turn, B!Nobody, B!Revoked, B!tab, BrowserInv, B!TypeOK, TaggedIsOwn,
      OfTheSession, B!Someone, B!Idle
<1>14. QED
  BY BrowserTypes, <1>1, <1>2, <1>3, <1>4, <1>5, <1>6, <1>7, <1>8, <1>9, <1>10, <1>11, <1>12, <1>13
  DEF BrowserInv, B!Next

LEMMA BrowserRests == BrowserInv /\ UNCHANGED <<BVars>> => BrowserInv'
BY DEF BrowserInv, B!TypeOK, TaggedIsOwn, OfTheSession, B!Someone, B!tab, B!Nobody, B!Idle, BVars

\* The wallet and the number of the account that is signed in.
LEMMA BrowserKept == BrowserInv => B!TypeOK /\ B!ConnectedIsOwn /\ B!KeptApart
<1> SUFFICES ASSUME BrowserInv PROVE B!ConnectedIsOwn /\ B!KeptApart
  BY DEF BrowserInv
<1>1. B!ConnectedIsOwn
  BY DEF BrowserInv, TaggedIsOwn, B!ConnectedIsOwn, B!Current
<1>2. B!KeptApart
  BY DEF BrowserInv, OfTheSession, B!KeptApart
<1>3. QED
  BY <1>1, <1>2

-----------------------------------------------------------------------------
(* Red packets. *)

\* What the records of the screens hold.
PacketPhases == {"idle", "funding", "creating", "done", "failed"}
PressPlaces == {"none", "funding", "out", "posting", "filed", "stranded", "declined"}
PacketPresses == [at : PressPlaces, fields : P!Fields]
PacketRows == [status : {"none", "open", "expired"}, slots : 0 .. MaxSlots, circle : SUBSET P!Person]
PacketClaims == {"none", "pending", "paid"}
PacketTabs ==
    [packet : Envelope \cup {P!None}, read : P!Details, details : P!Details,
     claim : {"none", "asked", "paying", "paid"}, claimed : BOOLEAN, opened : BOOLEAN]

PacketTyped ==
    /\ form \in P!Fields
    /\ packetPhase \in PacketPhases
    /\ shown \in Envelope \cup {P!None}
    /\ packetSends \in [Envelope -> PacketPresses]
    /\ packets \in [Envelope -> PacketRows]
    /\ claims \in [Envelope -> [P!Person -> PacketClaims]]
    /\ waiting \subseteq Envelope
    /\ tabs \in [X -> PacketTabs]
    /\ glitches \in 0 .. MaxGlitches

ClaimOf(t) == claims[tabs[t].packet][Me]

\* What a tab was told of a claim that was paid is still so, as a paid claim stays.
TabIsTold(t) ==
    /\ tabs[t].packet = P!None => tabs[t] = P!NoTab
    /\ tabs[t].claim = "paid" \/ tabs[t].claimed \/ tabs[t].read.landed \/ tabs[t].details.landed
        => ClaimOf(t) = "paid"
    /\ tabs[t].opened /\ tabs[t].read.known => tabs[t].claimed
    /\ tabs[t].opened => tabs[t].claimed \/ tabs[t].details.mine

\* A packet is the one its send filled in.
AsFilled(s) ==
    /\ packets[s].status # "none" => packets[s].circle = P!SentCircle(s) /\ packetSends[s].at = "filed"
    /\ packetSends[s].fields.private => packetSends[s].fields.circle # {}
    /\ packetSends[s].at = "none" => packetSends[s] = P!NoSend
    /\ P!Claimers(s) # {} => packets[s].status # "none"
    /\ packets[s].circle # {} => P!Claimers(s) \subseteq packets[s].circle
    /\ packetSends[s].at = "stranded" /\ glitches = 0 => ~P!Payable(s)

PacketScreenInv ==
    /\ P!TypeOK
    /\ \A t \in X : TabIsTold(t)
    /\ \A s \in Envelope : AsFilled(s)

LEMMA PacketScreenConstants ==
    /\ "none" \notin Envelope /\ MaxAmount \in Nat /\ MaxSlots \in Nat \ {0} /\ MaxGlitches \in Nat
    /\ P!None \notin Envelope /\ Me \in P!Person
BY ScreensAssumption DEF ScreensAssumption, P!None, P!Person

LEMMA TypedPackets == (PacketTyped <=> P!TypeOK) /\ (PacketTyped' <=> P!TypeOK')
BY Zenon
DEF PacketTyped, P!TypeOK, PacketPhases, PressPlaces, PacketPresses, PacketRows, PacketClaims,
    PacketTabs

LEMMA PacketBlanks ==
    /\ P!Blank \in P!Fields /\ P!NoDetails \in P!Details /\ P!NoSend \in PacketPresses
    /\ P!NoPacket \in PacketRows /\ P!NoTab \in PacketTabs
<1>1. P!Blank \in P!Fields /\ P!NoDetails \in P!Details
  BY PacketScreenConstants DEF P!Blank, P!Fields, P!NoDetails, P!Details
<1>2. P!NoSend \in PacketPresses
  BY <1>1 DEF P!NoSend, PacketPresses, PressPlaces
<1>3. P!NoPacket \in PacketRows
  BY PacketScreenConstants DEF P!NoPacket, PacketRows
<1>4. P!NoTab \in PacketTabs
  BY <1>1 DEF P!NoTab, PacketTabs
<1>5. QED
  BY <1>1, <1>2, <1>3, <1>4

LEMMA PacketScreenStarts == P!Init => PacketScreenInv
<1> SUFFICES ASSUME P!Init PROVE PacketScreenInv
  OBVIOUS
<1>1. P!TypeOK
  <2>1. form \in P!Fields /\ packetPhase \in PacketPhases /\ shown \in Envelope \cup {P!None}
        /\ waiting = {}
    BY PacketBlanks DEF P!Init, PacketPhases
  <2>2. /\ packetSends \in [Envelope -> PacketPresses] /\ packets \in [Envelope -> PacketRows]
        /\ tabs \in [X -> PacketTabs]
    BY PacketBlanks DEF P!Init
  <2>3. claims \in [Envelope -> [P!Person -> PacketClaims]] /\ glitches \in 0 .. MaxGlitches
    BY PacketScreenConstants DEF P!Init, PacketClaims
  <2>4. QED
    BY <2>1, <2>2, <2>3, TypedPackets DEF PacketTyped
<1>2. ASSUME NEW t \in X PROVE TabIsTold(t)
  BY <1>2 DEF P!Init, TabIsTold, P!NoTab, P!NoDetails
<1>3. ASSUME NEW s \in Envelope PROVE AsFilled(s)
  BY <1>3 DEF P!Init, AsFilled, P!NoPacket, P!NoSend, P!Blank, P!Claimers
<1>4. QED
  BY <1>1, <1>2, <1>3 DEF PacketScreenInv

\* A send moves on, a claim changes, a call gets no answer.
LEMMA PressAdvances ==
    ASSUME PacketTyped, NEW s \in Envelope, NEW from, NEW to \in PressPlaces, NEW says \in PacketPhases,
           P!Advance(s, from, to, says)
    PROVE  /\ packetSends' \in [Envelope -> PacketPresses] /\ packetPhase' \in PacketPhases
           /\ form' = form /\ shown' = shown
           /\ packetSends[s].at = from
           /\ packetSends'[s].at = to /\ packetSends'[s].fields = packetSends[s].fields
           /\ \A o \in Envelope : o # s => packetSends'[o] = packetSends[o]
BY DEF PacketTyped, P!Advance, PacketPresses

LEMMA ClaimChanges ==
    ASSUME PacketTyped, NEW s \in Envelope, NEW p \in P!Person, NEW c \in PacketClaims,
           claims' = [claims EXCEPT ![s][p] = c]
    PROVE  /\ claims' \in [Envelope -> [P!Person -> PacketClaims]]
           /\ claims'[s][p] = c
           /\ \A o \in Envelope : \A q \in P!Person : o # s \/ q # p => claims'[o][q] = claims[o][q]
BY DEF PacketTyped

LEMMA PacketGlitch ==
    PacketTyped /\ P!Glitch => glitches' \in 0 .. MaxGlitches /\ glitches' # 0
BY PacketScreenConstants DEF PacketTyped, P!Glitch

\* What the server says of a packet, and a tab that is told it.
LEMMA SeenTypes ==
    ASSUME PacketTyped, NEW s
    PROVE  /\ P!Seen(s) \in P!Details
           /\ P!Seen(s).known
           /\ P!Seen(s).mine <=> claims[s][Me] # "none"
           /\ P!Seen(s).landed <=> claims[s][Me] = "paid"
<1>1. (claims[s][Me] # "none") \in BOOLEAN /\ P!MayClaim(s, Me) \in BOOLEAN
      /\ (claims[s][Me] = "paid") \in BOOLEAN /\ TRUE \in BOOLEAN
  BY DEF P!MayClaim
<1>2. QED
  BY <1>1, Zenon DEF P!Seen, P!Details

LEMMA SeenWithoutTypes ==
    ASSUME PacketTyped, NEW s PROVE P!SeenWithout(s) \in P!Details /\ P!SeenWithout(s).known /\ ~P!SeenWithout(s).landed
<1>1. (packets[s].status = "open" /\ P!Invited(s, Me)) \in BOOLEAN /\ TRUE \in BOOLEAN /\ FALSE \in BOOLEAN
  OBVIOUS
<1>2. QED
  BY <1>1, Zenon DEF P!SeenWithout, P!Details

LEMMA ReadTypes ==
    ASSUME PacketTyped, NEW t \in X, NEW s, NEW v \in PacketTabs, P!Read(t, s, v)
    PROVE  /\ glitches' \in 0 .. MaxGlitches /\ (glitches' = 0 => glitches = 0)
           /\ tabs' \in [X -> PacketTabs] /\ \A u \in X : u # t => tabs'[u] = tabs[u]
           /\ tabs'[t].packet = v.packet /\ tabs'[t].details = v.details /\ tabs'[t].claim = v.claim
           /\ tabs'[t].claimed = v.claimed /\ tabs'[t].opened = v.opened
           /\ tabs'[t].read.landed => claims[s][Me] = "paid"
<1>1. glitches' \in 0 .. MaxGlitches /\ (glitches' = 0 => glitches = 0)
  BY PacketGlitch, Zenon DEF P!Read, PacketTyped
<1>2. PICK d \in P!Details :
        /\ d.landed => claims[s][Me] = "paid"
        /\ tabs' = [tabs EXCEPT ![t] = [v EXCEPT !.read = d]]
  BY SeenTypes, SeenWithoutTypes, Zenon DEF P!Read
<1>3. PICK w : w = [v EXCEPT !.read = d]
  OBVIOUS
<1>4. /\ w \in PacketTabs /\ w.packet = v.packet /\ w.details = v.details /\ w.claim = v.claim
      /\ w.claimed = v.claimed /\ w.opened = v.opened /\ w.read = d
  BY <1>3 DEF PacketTabs
<1>5. tabs' = [tabs EXCEPT ![t] = w]
  BY <1>2, <1>3, Zenon
<1>6. tabs' \in [X -> PacketTabs] /\ tabs'[t] = w /\ \A u \in X : u # t => tabs'[u] = tabs[u]
  BY <1>4, <1>5 DEF PacketTyped
<1>7. QED
  BY <1>1, <1>2, <1>4, <1>6

LEMMA HasLoadedTypes ==
    ASSUME NEW v \in PacketTabs, NEW d \in P!Details
    PROVE  /\ P!HasLoaded(v, d) \in PacketTabs
           /\ P!HasLoaded(v, d).packet = v.packet /\ P!HasLoaded(v, d).claimed = v.claimed
           /\ P!HasLoaded(v, d).details = d /\ P!HasLoaded(v, d).read = P!NoDetails
           /\ P!HasLoaded(v, d).claim \in {"none", v.claim}
           /\ P!HasLoaded(v, d).opened <=> v.opened \/ v.claimed \/ (d.mine /\ ~v.claimed)
<1>1. PICK b \in BOOLEAN : b <=> v.opened \/ v.claimed \/ (d.mine /\ ~v.claimed)
  OBVIOUS
<1>2. (v.opened \/ v.claimed \/ P!OpensFlat(v, d)) = b
  BY <1>1, Zenon DEF P!OpensFlat
<1>3. P!HasLoaded(v, d) = [v EXCEPT !.details = d, !.read = P!NoDetails,
                                    !.claim = IF v.claimed THEN "none" ELSE v.claim, !.opened = b]
  BY <1>2, Zenon DEF P!HasLoaded
<1>4. QED
  BY <1>1, <1>3, PacketBlanks DEF PacketTabs

LEMMA PacketScreenTypes == PacketScreenInv /\ P!Next => P!TypeOK'
<1>1. ASSUME PacketScreenInv, P!EnterAmount PROVE P!TypeOK'
  BY <1>1, PacketScreenConstants
  DEF PacketScreenInv, P!EnterAmount, P!Edit, P!Edited, P!Busy, P!NoSend, P!Blank, P!TypeOK,
      P!Fields, P!None, P!Person, P!Details
<1>2. ASSUME PacketScreenInv, P!EnterSlots PROVE P!TypeOK'
  BY <1>2, PacketScreenConstants
  DEF PacketScreenInv, P!EnterSlots, P!Edit, P!Edited, P!Busy, P!NoSend, P!Blank, P!TypeOK,
      P!Fields, P!None, P!Person, P!Details
<1>3. ASSUME PacketScreenInv, P!TogglePrivate PROVE P!TypeOK'
  BY <1>3, PacketScreenConstants
  DEF PacketScreenInv, P!TogglePrivate, P!Edit, P!Edited, P!Busy, P!NoSend, P!Blank, P!TypeOK,
      P!Fields, P!None, P!Person, P!Details
<1>4. ASSUME PacketScreenInv, P!LeaveForm PROVE P!TypeOK'
  <2>1. PacketTyped
    BY <1>4, TypedPackets DEF PacketScreenInv
  <2>2. QED
    BY <1>4, <2>1, TypedPackets, PacketBlanks DEF P!LeaveForm, PacketTyped, PacketPhases
<1>5. ASSUME PacketScreenInv, P!RefreshInvited PROVE P!TypeOK'
  BY <1>5, PacketScreenConstants
  DEF PacketScreenInv, P!RefreshInvited, P!MayClaim, P!formVars, P!Invited, P!Claimers, P!Person,
      P!TypeOK, P!Fields, P!None, P!Details
<1>6. ASSUME PacketScreenInv, NEW p \in P!Person, P!Toggle(p) PROVE P!TypeOK'
  BY <1>6, PacketScreenConstants
  DEF PacketScreenInv, P!Toggle, P!Edit, P!Edited, P!Busy, P!NoSend, P!Blank, P!TypeOK, P!Fields,
      P!None, P!Person, P!Details
<1>7. ASSUME PacketScreenInv, NEW s \in Envelope, P!PressCreate(s) PROVE P!TypeOK'
  BY <1>7, PacketScreenConstants
  DEF PacketScreenInv, P!PressCreate, P!Busy, P!NoSend, P!ValidCircle, P!Blank, P!TypeOK, P!Fields,
      P!None, P!Person, P!Details
<1>8. ASSUME PacketScreenInv, NEW s \in Envelope, P!Declined(s) PROVE P!TypeOK'
  <2>1. PacketTyped /\ {"declined"} \subseteq PressPlaces /\ {"failed"} \subseteq PacketPhases
    BY <1>8, TypedPackets DEF PacketScreenInv, PressPlaces, PacketPhases
  <2>2. P!Advance(s, "funding", "declined", "failed")
    BY <1>8 DEF P!Declined
  <2>3. packetSends' \in [Envelope -> PacketPresses] /\ packetPhase' \in PacketPhases
        /\ form' = form /\ shown' = shown
    BY <2>1, <2>2, PressAdvances
  <2>6. QED
    BY <1>8, <2>1, <2>3, TypedPackets DEF P!Declined, PacketTyped
<1>9. ASSUME PacketScreenInv, NEW s \in Envelope, P!Fund(s) PROVE P!TypeOK'
  <2>1. PacketTyped /\ {"out"} \subseteq PressPlaces /\ {"funding"} \subseteq PacketPhases
    BY <1>9, TypedPackets DEF PacketScreenInv, PressPlaces, PacketPhases
  <2>2. P!Advance(s, "funding", "out", "funding")
    BY <1>9 DEF P!Fund
  <2>3. packetSends' \in [Envelope -> PacketPresses] /\ packetPhase' \in PacketPhases
        /\ form' = form /\ shown' = shown
    BY <2>1, <2>2, PressAdvances
  <2>6. QED
    BY <1>9, <2>1, <2>3, TypedPackets DEF P!Fund, PacketTyped
<1>10. ASSUME PacketScreenInv, NEW s \in Envelope, P!Funded(s) PROVE P!TypeOK'
  <2>1. PacketTyped /\ {"posting"} \subseteq PressPlaces /\ {"creating"} \subseteq PacketPhases
    BY <1>10, TypedPackets DEF PacketScreenInv, PressPlaces, PacketPhases
  <2>2. P!Advance(s, "out", "posting", "creating")
    BY <1>10 DEF P!Funded
  <2>3. packetSends' \in [Envelope -> PacketPresses] /\ packetPhase' \in PacketPhases
        /\ form' = form /\ shown' = shown
    BY <2>1, <2>2, PressAdvances
  <2>6. QED
    BY <1>10, <2>1, <2>3, TypedPackets DEF P!Funded, PacketTyped
<1>11. ASSUME PacketScreenInv, NEW s \in Envelope, P!NotReported(s) PROVE P!TypeOK'
  <2>1. PacketTyped /\ {"stranded"} \subseteq PressPlaces /\ {"failed"} \subseteq PacketPhases
    BY <1>11, TypedPackets DEF PacketScreenInv, PressPlaces, PacketPhases
  <2>2. P!Advance(s, "out", "stranded", "failed") \/ P!Advance(s, "posting", "stranded", "failed")
    BY <1>11 DEF P!NotReported
  <2>3. packetSends' \in [Envelope -> PacketPresses] /\ packetPhase' \in PacketPhases
        /\ form' = form /\ shown' = shown
    BY <2>1, <2>2, PressAdvances
  <2>4. glitches' \in 0 .. MaxGlitches
    BY <1>11, <2>1, PacketGlitch DEF P!NotReported, PacketTyped
  <2>6. QED
    BY <1>11, <2>1, <2>3, <2>4, TypedPackets DEF P!NotReported, PacketTyped
<1>12. ASSUME PacketScreenInv, NEW s \in Envelope, P!Insert(s) PROVE P!TypeOK'
  <2>1. PacketTyped /\ {"filed"} \subseteq PressPlaces /\ {"done", "failed"} \subseteq PacketPhases
    BY <1>12, TypedPackets DEF PacketScreenInv, PressPlaces, PacketPhases
  <2>2. P!Advance(s, "posting", "filed", "done") \/ P!Advance(s, "posting", "filed", "failed")
    BY <1>12 DEF P!Insert
  <2>3. packetSends' \in [Envelope -> PacketPresses] /\ packetPhase' \in PacketPhases
        /\ form' = form /\ shown' = shown
    BY <2>1, <2>2, PressAdvances
  <2>4. glitches' \in 0 .. MaxGlitches
    BY <1>12, <2>1, PacketGlitch DEF P!Insert, PacketTyped
  <2>5. packets' \in [Envelope -> PacketRows]
    <3>1. packetSends[s].fields \in P!Fields
      BY <2>1 DEF PacketTyped, PacketPresses
    <3>2. [status |-> "open", slots |-> packetSends[s].fields.slots, circle |-> P!SentCircle(s)] \in PacketRows
      BY <3>1 DEF PacketRows, P!Fields, P!SentCircle
    <3>3. QED
      BY <1>12, <2>1, <3>2 DEF P!Insert, PacketTyped
  <2>6. QED
    BY <1>12, <2>1, <2>3, <2>4, <2>5, TypedPackets DEF P!Insert, PacketTyped
<1>13. ASSUME PacketScreenInv, NEW s \in Envelope, P!RefuseInsert(s) PROVE P!TypeOK'
  <2>1. PacketTyped /\ {"stranded"} \subseteq PressPlaces /\ {"failed"} \subseteq PacketPhases
    BY <1>13, TypedPackets DEF PacketScreenInv, PressPlaces, PacketPhases
  <2>2. P!Advance(s, "posting", "stranded", "failed")
    BY <1>13 DEF P!RefuseInsert
  <2>3. packetSends' \in [Envelope -> PacketPresses] /\ packetPhase' \in PacketPhases
        /\ form' = form /\ shown' = shown
    BY <2>1, <2>2, PressAdvances
  <2>6. QED
    BY <1>13, <2>1, <2>3, TypedPackets DEF P!RefuseInsert, PacketTyped
<1>14. ASSUME PacketScreenInv, NEW s \in Envelope, P!Expire(s) PROVE P!TypeOK'
  <2>1. PacketTyped
    BY <1>14, TypedPackets DEF PacketScreenInv
  <2>2. [packets[s] EXCEPT !.status = "expired"] \in PacketRows
    BY <2>1 DEF PacketTyped, PacketRows
  <2>3. packets' \in [Envelope -> PacketRows]
    BY <1>14, <2>1, <2>2 DEF P!Expire, PacketTyped
  <2>4. QED
    BY <1>14, <2>1, <2>3, TypedPackets DEF P!Expire, P!formVars, PacketTyped
<1>15. ASSUME PacketScreenInv, NEW s \in Envelope, P!OtherClaims(s) PROVE P!TypeOK'
  <2>1. PacketTyped
    BY <1>15, TypedPackets DEF PacketScreenInv
  <2>2. PICK p \in P!Person, c \in PacketClaims : claims' = [claims EXCEPT ![s][p] = c]
    BY <1>15 DEF P!OtherClaims, P!Person, PacketClaims
  <2>3. QED
    BY <1>15, <2>1, <2>2, ClaimChanges, TypedPackets DEF P!OtherClaims, P!formVars, PacketTyped
<1>16. ASSUME PacketScreenInv, NEW s \in Envelope, P!OtherReleased(s) PROVE P!TypeOK'
  <2>1. PacketTyped
    BY <1>16, TypedPackets DEF PacketScreenInv
  <2>2. PICK p \in P!Person, c \in PacketClaims : claims' = [claims EXCEPT ![s][p] = c]
    BY <1>16 DEF P!OtherReleased, P!Person, PacketClaims
  <2>3. QED
    BY <1>16, <2>1, <2>2, ClaimChanges, PacketGlitch, TypedPackets
    DEF P!OtherReleased, P!formVars, PacketTyped
<1>17. ASSUME PacketScreenInv, NEW s \in Envelope, P!PayoutLands(s) PROVE P!TypeOK'
  <2>1. PacketTyped /\ Me \in P!Person /\ "paid" \in PacketClaims
    BY <1>17, TypedPackets, PacketScreenConstants DEF PacketScreenInv, PacketClaims
  <2>2. claims' \in [Envelope -> [P!Person -> PacketClaims]]
    BY <1>17, <2>1, ClaimChanges DEF P!PayoutLands
  <2>3. tabs' \in [X -> PacketTabs]
    <3>1. ASSUME NEW t \in X PROVE [tabs[t] EXCEPT !.claim = "paid"] \in PacketTabs
      BY <2>1, <3>1 DEF PacketTyped, PacketTabs
    <3>2. QED
      BY <1>17, <2>1, <3>1 DEF P!PayoutLands, PacketTyped
  <2>4. QED
    BY <1>17, <2>1, <2>2, <2>3, TypedPackets DEF P!PayoutLands, P!formVars, PacketTyped
<1>18. ASSUME PacketScreenInv, NEW s \in Envelope, P!PayoutFails(s) PROVE P!TypeOK'
  <2>1. PacketTyped /\ Me \in P!Person /\ "none" \in PacketClaims
    BY <1>18, TypedPackets, PacketScreenConstants DEF PacketScreenInv, PacketClaims
  <2>2. claims' \in [Envelope -> [P!Person -> PacketClaims]]
    BY <1>18, <2>1, ClaimChanges DEF P!PayoutFails
  <2>3. tabs' \in [X -> PacketTabs]
    <3>1. ASSUME NEW t \in X PROVE P!StaysClosed(tabs[t]) \in PacketTabs
      BY <2>1, <3>1 DEF PacketTyped, PacketTabs, P!StaysClosed
    <3>2. QED
      BY <1>18, <2>1, <3>1 DEF P!PayoutFails, PacketTyped
  <2>4. QED
    BY <1>18, <2>1, <2>2, <2>3, PacketGlitch, TypedPackets DEF P!PayoutFails, P!formVars, PacketTyped
<1>19. ASSUME PacketScreenInv, NEW t \in X, NEW s \in Envelope, P!Visit(t, s) PROVE P!TypeOK'
  <2>1. PacketTyped
    BY <1>19, TypedPackets DEF PacketScreenInv
  <2>2. [P!NoTab EXCEPT !.packet = s] \in PacketTabs
    BY PacketBlanks DEF PacketTabs
  <2>3. P!Read(t, s, [P!NoTab EXCEPT !.packet = s])
    BY <1>19 DEF P!Visit
  <2>4. glitches' \in 0 .. MaxGlitches /\ tabs' \in [X -> PacketTabs]
    BY <2>1, <2>2, <2>3, ReadTypes
  <2>5. QED
    BY <1>19, <2>1, <2>4, TypedPackets DEF P!Visit, P!formVars, PacketTyped
<1>20. ASSUME PacketScreenInv, NEW t \in X, P!Loaded(t) PROVE P!TypeOK'
  <2>1. PacketTyped
    BY <1>20, TypedPackets DEF PacketScreenInv
  <2>2. tabs[t] \in PacketTabs /\ tabs[t].read \in P!Details
    BY <2>1 DEF PacketTyped, PacketTabs
  <2>3. tabs' \in [X -> PacketTabs]
    BY <1>20, <2>1, <2>2, HasLoadedTypes DEF P!Loaded, PacketTyped
  <2>4. QED
    BY <1>20, <2>1, <2>3, TypedPackets DEF P!Loaded, P!formVars, PacketTyped
<1>21. ASSUME PacketScreenInv, NEW t \in X, P!NotLoaded(t) PROVE P!TypeOK'
  <2>1. PacketTyped
    BY <1>21, TypedPackets DEF PacketScreenInv
  <2>2. tabs[t] \in PacketTabs /\ tabs[t].details \in P!Details
    BY <2>1 DEF PacketTyped, PacketTabs
  <2>3. tabs' \in [X -> PacketTabs]
    BY <1>21, <2>1, <2>2, HasLoadedTypes DEF P!NotLoaded, PacketTyped
  <2>4. QED
    BY <1>21, <2>1, <2>3, PacketGlitch, TypedPackets DEF P!NotLoaded, P!formVars, PacketTyped
<1>22. ASSUME PacketScreenInv, NEW t \in X, P!PressOpen(t) PROVE P!TypeOK'
  <2>1. PacketTyped
    BY <1>22, TypedPackets DEF PacketScreenInv
  <2>2. tabs[t] \in PacketTabs
    BY <2>1 DEF PacketTyped
  <2>3. [tabs[t] EXCEPT !.claim = "asked"] \in PacketTabs
    BY <2>2 DEF PacketTabs
  <2>4. tabs' \in [X -> PacketTabs]
    BY <1>22, <2>1, <2>3 DEF P!PressOpen, PacketTyped
  <2>6. QED
    BY <1>22, <2>1, <2>4, TypedPackets DEF P!PressOpen, P!formVars, PacketTyped
<1>23. ASSUME PacketScreenInv, NEW t \in X, P!ClaimPacket(t) PROVE P!TypeOK'
  <2>1. PacketTyped
    BY <1>23, TypedPackets DEF PacketScreenInv
  <2>2. tabs[t] \in PacketTabs
    BY <2>1 DEF PacketTyped
  <2>3. [tabs[t] EXCEPT !.claim = "paying"] \in PacketTabs /\ [tabs[t] EXCEPT !.claim = "none"] \in PacketTabs
    BY <2>2 DEF PacketTabs
  <2>4. tabs' \in [X -> PacketTabs]
    BY <1>23, <2>1, <2>3 DEF P!ClaimPacket, PacketTyped
  <2>5. tabs[t].packet \in Envelope
    BY <1>23, <2>2, PacketScreenConstants
    DEF P!ClaimPacket, PacketScreenInv, TabIsTold, PacketTabs, P!NoTab
  <2>6. claims' \in [Envelope -> [P!Person -> PacketClaims]]
    BY <1>23, <2>1, <2>5, ClaimChanges, PacketScreenConstants
    DEF P!ClaimPacket, PacketTyped, PacketClaims
  <2>7. QED
    BY <1>23, <2>1, <2>4, <2>6, TypedPackets DEF P!ClaimPacket, P!formVars, PacketTyped
<1>24. ASSUME PacketScreenInv, NEW t \in X, P!Claimed(t) PROVE P!TypeOK'
  <2>1. PacketTyped
    BY <1>24, TypedPackets DEF PacketScreenInv
  <2>2. [tabs[t] EXCEPT !.claimed = TRUE] \in PacketTabs
    BY <2>1 DEF PacketTyped, PacketTabs
  <2>3. P!Read(t, tabs[t].packet, [tabs[t] EXCEPT !.claimed = TRUE])
    BY <1>24 DEF P!Claimed
  <2>4. glitches' \in 0 .. MaxGlitches /\ tabs' \in [X -> PacketTabs]
    BY <2>1, <2>2, <2>3, ReadTypes
  <2>5. QED
    BY <1>24, <2>1, <2>4, TypedPackets DEF P!Claimed, P!formVars, PacketTyped
<1>25. ASSUME PacketScreenInv, NEW t \in X, P!AnswerLost(t) PROVE P!TypeOK'
  <2>1. PacketTyped
    BY <1>25, TypedPackets DEF PacketScreenInv
  <2>2. tabs[t] \in PacketTabs
    BY <2>1 DEF PacketTyped
  <2>3. [tabs[t] EXCEPT !.claim = "none"] \in PacketTabs
    BY <2>2 DEF PacketTabs
  <2>4. tabs' \in [X -> PacketTabs]
    BY <1>25, <2>1, <2>3 DEF P!AnswerLost, PacketTyped
  <2>6. QED
    BY <1>25, <2>1, <2>4, PacketGlitch, TypedPackets DEF P!AnswerLost, P!formVars, PacketTyped
<1>26. QED
  BY <1>1, <1>2, <1>3, <1>4, <1>5, <1>6, <1>7, <1>8, <1>9, <1>10, <1>11, <1>12, <1>13, <1>14, <1>15,
    <1>16, <1>17, <1>18, <1>19, <1>20, <1>21, <1>22, <1>23, <1>24, <1>25
  DEF P!Next

\* What a tab was told stays true while its claim, if it was paid, stays paid; and a packet stays as it was
\* filled while it and its send stay, and nobody new has claimed.
LEMMA ToldStays ==
    ASSUME NEW t \in X, TabIsTold(t), tabs'[t] = tabs[t], ClaimOf(t) = "paid" => ClaimOf(t)' = "paid"
    PROVE  TabIsTold(t)'
BY DEF TabIsTold

LEMMA FilledStays ==
    ASSUME NEW s \in Envelope, AsFilled(s), packets'[s] = packets[s], packetSends'[s] = packetSends[s],
           P!Claimers(s)' \subseteq P!Claimers(s), glitches' = 0 => glitches = 0
    PROVE  AsFilled(s)'
BY DEF AsFilled, P!SentCircle, P!Payable

LEMMA PacketsRest ==
    ASSUME PacketScreenInv, P!TypeOK', UNCHANGED <<packetSends, packets, claims, tabs>>,
           glitches' = 0 => glitches = 0
    PROVE  PacketScreenInv'
<1>1. ASSUME NEW t \in X PROVE TabIsTold(t)'
  BY <1>1, ToldStays DEF PacketScreenInv, ClaimOf
<1>2. ASSUME NEW s \in Envelope PROVE AsFilled(s)'
  BY <1>2, FilledStays DEF PacketScreenInv, P!Claimers
<1>3. QED
  BY <1>1, <1>2 DEF PacketScreenInv

\* One tab changes, or one send, or one claim.
LEMMA OneTabChanges ==
    ASSUME PacketScreenInv, P!TypeOK', NEW t \in X, TabIsTold(t)',
           \A u \in X : u # t => tabs'[u] = tabs[u],
           UNCHANGED <<packetSends, packets, claims>>, glitches' = 0 => glitches = 0
    PROVE  PacketScreenInv'
<1>1. ASSUME NEW u \in X, u # t PROVE TabIsTold(u)'
  BY <1>1, ToldStays DEF PacketScreenInv, ClaimOf
<1>2. ASSUME NEW s \in Envelope PROVE AsFilled(s)'
  BY <1>2, FilledStays DEF PacketScreenInv, P!Claimers
<1>3. QED
  BY <1>1, <1>2 DEF PacketScreenInv

LEMMA OneSendChanges ==
    ASSUME PacketScreenInv, P!TypeOK', NEW s \in Envelope, AsFilled(s)',
           \A o \in Envelope : o # s => packetSends'[o] = packetSends[o] /\ packets'[o] = packets[o],
           UNCHANGED <<claims, tabs>>, glitches' = 0 => glitches = 0
    PROVE  PacketScreenInv'
<1>1. ASSUME NEW u \in X PROVE TabIsTold(u)'
  BY <1>1, ToldStays DEF PacketScreenInv, ClaimOf
<1>2. ASSUME NEW o \in Envelope, o # s PROVE AsFilled(o)'
  BY <1>2, FilledStays DEF PacketScreenInv, P!Claimers
<1>3. QED
  BY <1>1, <1>2 DEF PacketScreenInv

\* A send that has not been filed, and is not, has no packet yet.
LEMMA UnfiledMoves ==
    ASSUME PacketScreenInv, NEW s \in Envelope, packetSends[s].at \notin {"filed", "none"},
           packetSends'[s].at \notin {"filed", "none"}, packetSends'[s].fields = packetSends[s].fields,
           packets'[s] = packets[s], claims' = claims,
           packetSends'[s].at = "stranded" /\ glitches' = 0 => ~P!Payable(s)
    PROVE  AsFilled(s)'
BY DEF PacketScreenInv, AsFilled, P!Claimers, P!SentCircle, P!Payable

\* The claims on one packet change, by people it invites.
LEMMA ClaimsKeepFilled ==
    ASSUME PacketScreenInv, P!TypeOK', NEW s \in Envelope, NEW p \in P!Person, NEW c \in PacketClaims,
           claims' = [claims EXCEPT ![s][p] = c],
           c = "none" \/ claims[s][p] # "none" \/ P!MayClaim(s, p),
           UNCHANGED <<packetSends, packets>>, glitches' = 0 => glitches = 0
    PROVE  \A o \in Envelope : AsFilled(o)'
<1>1. PacketTyped
  BY TypedPackets DEF PacketScreenInv
<1>2. /\ claims'[s][p] = c
      /\ \A o \in Envelope : \A q \in P!Person : o # s \/ q # p => claims'[o][q] = claims[o][q]
  <2>1. claims \in [Envelope -> [P!Person -> PacketClaims]]
    BY <1>1 DEF PacketTyped
  <2>2. claims[s] \in [P!Person -> PacketClaims] /\ claims' = [claims EXCEPT ![s] = [claims[s] EXCEPT ![p] = c]]
    BY <2>1
  <2>3. claims'[s] = [claims[s] EXCEPT ![p] = c] /\ \A o \in Envelope : o # s => claims'[o] = claims[o]
    BY <2>1, <2>2
  <2>4. QED
    BY <2>2, <2>3
<1>3. \A o \in Envelope : o # s => P!Claimers(o)' \subseteq P!Claimers(o)
  BY <1>2 DEF P!Claimers
<1>4. AsFilled(s)'
  <2>1. CASE c = "none" \/ claims[s][p] # "none"
    <3>1. P!Claimers(s)' \subseteq P!Claimers(s)
      BY <1>2, <2>1 DEF P!Claimers
    <3>2. QED
      BY <3>1, FilledStays DEF PacketScreenInv
  <2>2. CASE P!MayClaim(s, p)
    <3>1. P!Claimers(s)' \subseteq P!Claimers(s) \cup {p}
      BY <1>2 DEF P!Claimers
    <3>2. packets[s].status # "none" /\ (packets[s].circle = {} \/ p \in packets[s].circle)
      BY <2>2 DEF P!MayClaim, P!Invited
    <3>3. AsFilled(s)
      BY DEF PacketScreenInv
    <3>4. QED
      BY <3>1, <3>2, <3>3 DEF AsFilled, P!SentCircle, P!Payable
  <2>3. QED
    BY <2>1, <2>2
<1>5. QED
  BY <1>3, <1>4, FilledStays DEF PacketScreenInv

LEMMA PacketScreenStep == PacketScreenInv /\ P!Next => PacketScreenInv'
<1>1. ASSUME PacketScreenInv, P!TypeOK', P!EnterAmount PROVE PacketScreenInv'
  BY <1>1, PacketsRest DEF P!EnterAmount, P!Edited
<1>2. ASSUME PacketScreenInv, P!TypeOK', P!EnterSlots PROVE PacketScreenInv'
  BY <1>2, PacketsRest DEF P!EnterSlots, P!Edited
<1>3. ASSUME PacketScreenInv, P!TypeOK', P!TogglePrivate PROVE PacketScreenInv'
  BY <1>3, PacketsRest DEF P!TogglePrivate, P!Edited
<1>4. ASSUME PacketScreenInv, P!TypeOK', P!LeaveForm PROVE PacketScreenInv'
  BY <1>4, PacketsRest DEF P!LeaveForm
<1>5. ASSUME PacketScreenInv, P!TypeOK', P!RefreshInvited PROVE PacketScreenInv'
  BY <1>5, PacketsRest DEF P!RefreshInvited, P!formVars
<1>6. ASSUME PacketScreenInv, P!TypeOK', NEW p \in P!Person, P!Toggle(p) PROVE PacketScreenInv'
  BY <1>6, PacketsRest DEF P!Toggle, P!Edited
<1>7. ASSUME PacketScreenInv, P!TypeOK', NEW s \in Envelope, P!PressCreate(s) PROVE PacketScreenInv'
  <2>1. PacketTyped
    BY <1>7, TypedPackets DEF PacketScreenInv
  <2>2. /\ packetSends[s] = P!NoSend /\ packetSends'[s] = [at |-> "funding", fields |-> form]
        /\ form.private => form.circle # {}
        /\ UNCHANGED <<packets, claims, tabs, glitches>>
        /\ \A o \in Envelope : o # s => packetSends'[o] = packetSends[o]
    BY <1>7, <2>1 DEF P!PressCreate, P!ValidCircle, PacketTyped
  <2>3. AsFilled(s)'
    BY <1>7, <2>2 DEF PacketScreenInv, AsFilled, P!NoSend, P!Claimers
  <2>4. QED
    BY <1>7, <2>2, <2>3, OneSendChanges
<1>8. ASSUME PacketScreenInv, P!TypeOK', NEW s \in Envelope, P!Declined(s) PROVE PacketScreenInv'
  <2>1. PacketTyped /\ {"declined"} \subseteq PressPlaces /\ {"failed"} \subseteq PacketPhases
    BY <1>8, TypedPackets DEF PacketScreenInv, PressPlaces, PacketPhases
  <2>2. P!Advance(s, "funding", "declined", "failed")
    BY <1>8 DEF P!Declined
  <2>3. /\ packetSends[s].at = "funding" /\ packetSends'[s].at = "declined"
        /\ packetSends'[s].fields = packetSends[s].fields
        /\ \A o \in Envelope : o # s => packetSends'[o] = packetSends[o]
    BY <2>1, <2>2, PressAdvances
  <2>4. AsFilled(s)'
    BY <1>8, <2>1, <2>3, UnfiledMoves DEF P!Declined
  <2>5. QED
    BY <1>8, <2>1, <2>3, <2>4, OneSendChanges DEF P!Declined
<1>9. ASSUME PacketScreenInv, P!TypeOK', NEW s \in Envelope, P!Fund(s) PROVE PacketScreenInv'
  <2>1. PacketTyped /\ {"out"} \subseteq PressPlaces /\ {"funding"} \subseteq PacketPhases
    BY <1>9, TypedPackets DEF PacketScreenInv, PressPlaces, PacketPhases
  <2>2. P!Advance(s, "funding", "out", "funding")
    BY <1>9 DEF P!Fund
  <2>3. /\ packetSends[s].at = "funding" /\ packetSends'[s].at = "out"
        /\ packetSends'[s].fields = packetSends[s].fields
        /\ \A o \in Envelope : o # s => packetSends'[o] = packetSends[o]
    BY <2>1, <2>2, PressAdvances
  <2>4. AsFilled(s)'
    BY <1>9, <2>1, <2>3, UnfiledMoves DEF P!Fund
  <2>5. QED
    BY <1>9, <2>1, <2>3, <2>4, OneSendChanges DEF P!Fund
<1>10. ASSUME PacketScreenInv, P!TypeOK', NEW s \in Envelope, P!Funded(s) PROVE PacketScreenInv'
  <2>1. PacketTyped /\ {"posting"} \subseteq PressPlaces /\ {"creating"} \subseteq PacketPhases
    BY <1>10, TypedPackets DEF PacketScreenInv, PressPlaces, PacketPhases
  <2>2. P!Advance(s, "out", "posting", "creating")
    BY <1>10 DEF P!Funded
  <2>3. /\ packetSends[s].at = "out" /\ packetSends'[s].at = "posting"
        /\ packetSends'[s].fields = packetSends[s].fields
        /\ \A o \in Envelope : o # s => packetSends'[o] = packetSends[o]
    BY <2>1, <2>2, PressAdvances
  <2>4. AsFilled(s)'
    BY <1>10, <2>1, <2>3, UnfiledMoves DEF P!Funded
  <2>5. QED
    BY <1>10, <2>1, <2>3, <2>4, OneSendChanges DEF P!Funded
<1>11. ASSUME PacketScreenInv, P!TypeOK', NEW s \in Envelope, P!NotReported(s) PROVE PacketScreenInv'
  <2>1. PacketTyped /\ {"stranded"} \subseteq PressPlaces /\ {"failed"} \subseteq PacketPhases
    BY <1>11, TypedPackets DEF PacketScreenInv, PressPlaces, PacketPhases
  <2>2. P!Advance(s, "out", "stranded", "failed") \/ P!Advance(s, "posting", "stranded", "failed")
    BY <1>11 DEF P!NotReported
  <2>3. /\ packetSends[s].at \in {"out", "posting"} /\ packetSends'[s].at = "stranded"
        /\ packetSends'[s].fields = packetSends[s].fields
        /\ \A o \in Envelope : o # s => packetSends'[o] = packetSends[o]
    BY <2>1, <2>2, PressAdvances
  <2>4. AsFilled(s)'
    BY <1>11, <2>1, <2>3, UnfiledMoves, PacketGlitch DEF P!NotReported
  <2>5. QED
    BY <1>11, <2>1, <2>3, <2>4, OneSendChanges, PacketGlitch DEF P!NotReported
<1>12. ASSUME PacketScreenInv, P!TypeOK', NEW s \in Envelope, P!Insert(s) PROVE PacketScreenInv'
  <2>1. PacketTyped /\ "filed" \in PressPlaces /\ {"done", "failed"} \subseteq PacketPhases
    BY <1>12, TypedPackets DEF PacketScreenInv, PressPlaces, PacketPhases
  <2>2. P!Advance(s, "posting", "filed", "done") \/ P!Advance(s, "posting", "filed", "failed")
    BY <1>12 DEF P!Insert
  <2>3. /\ packetSends[s].at = "posting" /\ packetSends'[s].at = "filed"
        /\ packetSends'[s].fields = packetSends[s].fields
        /\ \A o \in Envelope : o # s => packetSends'[o] = packetSends[o]
    BY <2>1, <2>2, PressAdvances
  <2>4. /\ packets'[s].circle = P!SentCircle(s)
        /\ \A o \in Envelope : o # s => packets'[o] = packets[o]
        /\ UNCHANGED <<claims, tabs>>
    BY <1>12, <2>1 DEF P!Insert, PacketTyped
  <2>5. P!Claimers(s) = {}
    BY <1>12, <2>3 DEF PacketScreenInv, AsFilled
  <2>6. AsFilled(s)'
    <3>1. P!Claimers(s)' = {} /\ P!SentCircle(s)' = P!SentCircle(s)
      BY <2>3, <2>4, <2>5 DEF P!Claimers, P!SentCircle
    <3>2. QED
      BY <1>12, <2>3, <2>4, <3>1 DEF PacketScreenInv, AsFilled
  <2>7. glitches' = 0 => glitches = 0
    BY <1>12, <2>1, PacketGlitch DEF P!Insert
  <2>8. QED
    BY <1>12, <2>3, <2>4, <2>6, <2>7, OneSendChanges
<1>13. ASSUME PacketScreenInv, P!TypeOK', NEW s \in Envelope, P!RefuseInsert(s) PROVE PacketScreenInv'
  <2>1. PacketTyped /\ {"stranded"} \subseteq PressPlaces /\ {"failed"} \subseteq PacketPhases
    BY <1>13, TypedPackets DEF PacketScreenInv, PressPlaces, PacketPhases
  <2>2. P!Advance(s, "posting", "stranded", "failed")
    BY <1>13 DEF P!RefuseInsert
  <2>3. /\ packetSends[s].at = "posting" /\ packetSends'[s].at = "stranded"
        /\ packetSends'[s].fields = packetSends[s].fields
        /\ \A o \in Envelope : o # s => packetSends'[o] = packetSends[o]
    BY <2>1, <2>2, PressAdvances
  <2>4. AsFilled(s)'
    BY <1>13, <2>1, <2>3, UnfiledMoves DEF P!RefuseInsert
  <2>5. QED
    BY <1>13, <2>1, <2>3, <2>4, OneSendChanges DEF P!RefuseInsert
<1>14. ASSUME PacketScreenInv, P!TypeOK', NEW s \in Envelope, P!Expire(s) PROVE PacketScreenInv'
  <2>1. PacketTyped
    BY <1>14, TypedPackets DEF PacketScreenInv
  <2>2. /\ packets[s].status = "open" /\ packets'[s].status = "expired" /\ packets'[s].circle = packets[s].circle
        /\ \A o \in Envelope : o # s => packets'[o] = packets[o]
        /\ UNCHANGED <<packetSends, claims, tabs, glitches>>
    BY <1>14, <2>1 DEF P!Expire, PacketTyped, PacketRows
  <2>3. AsFilled(s)'
    BY <1>14, <2>2 DEF PacketScreenInv, AsFilled, P!Claimers, P!SentCircle, P!Payable
  <2>4. QED
    BY <1>14, <2>2, <2>3, OneSendChanges
<1>15. ASSUME PacketScreenInv, P!TypeOK', NEW s \in Envelope, P!OtherClaims(s) PROVE PacketScreenInv'
  <2>1. PacketTyped
    BY <1>15, TypedPackets DEF PacketScreenInv
  <2>2. PICK p \in P!Person, c \in PacketClaims :
          /\ claims' = [claims EXCEPT ![s][p] = c]
          /\ c = "none" \/ claims[s][p] # "none" \/ P!MayClaim(s, p)
          /\ claims[s][p] # "paid"
    BY <1>15 DEF P!OtherClaims, P!Person, PacketClaims, P!MayClaim
  <2>3. UNCHANGED <<packetSends, packets, tabs>> /\ (glitches' = 0 => glitches = 0)
    BY <1>15, <2>1 DEF P!OtherClaims, P!formVars
  <2>4. \A o \in Envelope : AsFilled(o)'
    BY <1>15, <2>2, <2>3, ClaimsKeepFilled
  <2>5. ASSUME NEW t \in X PROVE TabIsTold(t)'
    <3>1. tabs[t].packet \in Envelope \/ ClaimOf(t) # "paid" \/ tabs[t] = P!NoTab
      BY <1>15, <2>1, <2>5 DEF PacketTyped, PacketTabs, PacketScreenInv, TabIsTold
    <3>2. CASE tabs[t] = P!NoTab
      BY <1>15, <2>3, <3>2 DEF PacketScreenInv, TabIsTold, P!NoTab, P!NoDetails
    <3>3. CASE tabs[t].packet \in Envelope
      <4>1. ClaimOf(t) = "paid" => ClaimOf(t)' = "paid"
        BY <2>1, <2>2, <2>3, <3>3, ClaimChanges, PacketScreenConstants DEF ClaimOf
      <4>2. QED
        BY <1>15, <2>3, <4>1, <2>5, ToldStays DEF PacketScreenInv
    <3>4. QED
      BY <1>15, <2>1, <2>5, <3>2, <3>3 DEF PacketTyped, PacketTabs, PacketScreenInv, TabIsTold
  <2>6. QED
    BY <1>15, <2>4, <2>5 DEF PacketScreenInv
<1>16. ASSUME PacketScreenInv, P!TypeOK', NEW s \in Envelope, P!OtherReleased(s) PROVE PacketScreenInv'
  <2>1. PacketTyped
    BY <1>16, TypedPackets DEF PacketScreenInv
  <2>2. PICK p \in P!Person, c \in PacketClaims :
          /\ claims' = [claims EXCEPT ![s][p] = c]
          /\ c = "none" \/ claims[s][p] # "none" \/ P!MayClaim(s, p)
          /\ claims[s][p] # "paid"
    BY <1>16 DEF P!OtherReleased, P!Person, PacketClaims, P!MayClaim
  <2>3. UNCHANGED <<packetSends, packets, tabs>> /\ (glitches' = 0 => glitches = 0)
    BY <1>16, <2>1, PacketGlitch DEF P!OtherReleased, P!formVars
  <2>4. \A o \in Envelope : AsFilled(o)'
    BY <1>16, <2>2, <2>3, ClaimsKeepFilled
  <2>5. ASSUME NEW t \in X PROVE TabIsTold(t)'
    <3>1. tabs[t].packet \in Envelope \/ ClaimOf(t) # "paid" \/ tabs[t] = P!NoTab
      BY <1>16, <2>1, <2>5 DEF PacketTyped, PacketTabs, PacketScreenInv, TabIsTold
    <3>2. CASE tabs[t] = P!NoTab
      BY <1>16, <2>3, <3>2 DEF PacketScreenInv, TabIsTold, P!NoTab, P!NoDetails
    <3>3. CASE tabs[t].packet \in Envelope
      <4>1. ClaimOf(t) = "paid" => ClaimOf(t)' = "paid"
        BY <2>1, <2>2, <2>3, <3>3, ClaimChanges, PacketScreenConstants DEF ClaimOf
      <4>2. QED
        BY <1>16, <2>3, <4>1, <2>5, ToldStays DEF PacketScreenInv
    <3>4. QED
      BY <1>16, <2>1, <2>5, <3>2, <3>3 DEF PacketTyped, PacketTabs, PacketScreenInv, TabIsTold
  <2>6. QED
    BY <1>16, <2>4, <2>5 DEF PacketScreenInv
<1>17. ASSUME PacketScreenInv, P!TypeOK', NEW s \in Envelope, P!PayoutLands(s) PROVE PacketScreenInv'
  <2>1. PacketTyped /\ Me \in P!Person /\ "paid" \in PacketClaims
    BY <1>17, TypedPackets, PacketScreenConstants DEF PacketScreenInv, PacketClaims
  <2>2. /\ claims[s][Me] = "pending" /\ claims' = [claims EXCEPT ![s][Me] = "paid"]
        /\ UNCHANGED <<packetSends, packets>> /\ (glitches' = 0 => glitches = 0)
    BY <1>17, <2>1 DEF P!PayoutLands, P!formVars
  <2>3. \A o \in Envelope : AsFilled(o)'
    BY <1>17, <2>1, <2>2, ClaimsKeepFilled
  <2>4. /\ claims'[s][Me] = "paid"
        /\ \A o \in Envelope : o # s => claims'[o][Me] = claims[o][Me]
    BY <2>1, <2>2, ClaimChanges
  <2>5. ASSUME NEW t \in X PROVE TabIsTold(t)'
    <3>1. TabIsTold(t) /\ tabs[t] \in PacketTabs
      BY <1>17, <2>1, <2>5 DEF PacketTyped, PacketScreenInv
    <3>2. CASE tabs[t].packet = s /\ tabs[t].claim = "paying"
      BY <1>17, <2>2, <2>4, <2>5, <3>1, <3>2, PacketScreenConstants
      DEF P!PayoutLands, P!StaysClosed, PacketTabs, TabIsTold, ClaimOf
    <3>3. CASE ~(tabs[t].packet = s /\ tabs[t].claim = "paying")
      <4>1. tabs'[t] = tabs[t]
        BY <1>17, <2>5, <3>3 DEF P!PayoutLands
      <4>2. CASE tabs[t].packet \in Envelope
        BY <2>2, <2>4, <2>5, <3>1, <4>1, <4>2, ToldStays DEF ClaimOf
      <4>3. CASE tabs[t] = P!NoTab
        BY <3>1, <4>1, <4>3 DEF TabIsTold, P!NoTab, P!NoDetails
      <4>4. QED
        BY <3>1, <4>2, <4>3 DEF PacketTabs, TabIsTold
    <3>4. QED
      BY <3>2, <3>3
  <2>6. QED
    BY <1>17, <2>3, <2>5 DEF PacketScreenInv
<1>18. ASSUME PacketScreenInv, P!TypeOK', NEW s \in Envelope, P!PayoutFails(s) PROVE PacketScreenInv'
  <2>1. PacketTyped /\ Me \in P!Person /\ "none" \in PacketClaims
    BY <1>18, TypedPackets, PacketScreenConstants DEF PacketScreenInv, PacketClaims
  <2>2. /\ claims[s][Me] = "pending" /\ claims' = [claims EXCEPT ![s][Me] = "none"]
        /\ UNCHANGED <<packetSends, packets>> /\ (glitches' = 0 => glitches = 0)
    BY <1>18, <2>1, PacketGlitch DEF P!PayoutFails, P!formVars
  <2>3. \A o \in Envelope : AsFilled(o)'
    BY <1>18, <2>1, <2>2, ClaimsKeepFilled
  <2>4. /\ claims'[s][Me] = "none"
        /\ \A o \in Envelope : o # s => claims'[o][Me] = claims[o][Me]
    BY <2>1, <2>2, ClaimChanges
  <2>5. ASSUME NEW t \in X PROVE TabIsTold(t)'
    <3>1. TabIsTold(t) /\ tabs[t] \in PacketTabs
      BY <1>18, <2>1, <2>5 DEF PacketTyped, PacketScreenInv
    <3>2. CASE tabs[t].packet = s /\ tabs[t].claim = "paying"
      BY <1>18, <2>2, <2>4, <2>5, <3>1, <3>2, PacketScreenConstants
      DEF P!PayoutFails, P!StaysClosed, PacketTabs, TabIsTold, ClaimOf
    <3>3. CASE ~(tabs[t].packet = s /\ tabs[t].claim = "paying")
      <4>1. tabs'[t] = tabs[t]
        BY <1>18, <2>5, <3>3 DEF P!PayoutFails
      <4>2. CASE tabs[t].packet \in Envelope
        BY <2>2, <2>4, <2>5, <3>1, <4>1, <4>2, ToldStays DEF ClaimOf
      <4>3. CASE tabs[t] = P!NoTab
        BY <3>1, <4>1, <4>3 DEF TabIsTold, P!NoTab, P!NoDetails
      <4>4. QED
        BY <3>1, <4>2, <4>3 DEF PacketTabs, TabIsTold
    <3>4. QED
      BY <3>2, <3>3
  <2>6. QED
    BY <1>18, <2>3, <2>5 DEF PacketScreenInv
<1>19. ASSUME PacketScreenInv, P!TypeOK', NEW t \in X, NEW s \in Envelope, P!Visit(t, s)
      PROVE  PacketScreenInv'
  <2>1. PacketTyped
    BY <1>19, TypedPackets DEF PacketScreenInv
  <2>2. [P!NoTab EXCEPT !.packet = s] \in PacketTabs
    BY PacketBlanks DEF PacketTabs
  <2>3. P!Read(t, s, [P!NoTab EXCEPT !.packet = s]) /\ UNCHANGED <<packetSends, packets, claims>>
    BY <1>19 DEF P!Visit, P!formVars
  <2>4. /\ glitches' = 0 => glitches = 0
        /\ \A u \in X : u # t => tabs'[u] = tabs[u]
    BY <2>1, <2>2, <2>3, ReadTypes
  <2>5. /\ tabs'[t].packet = s /\ tabs'[t].details = P!NoTab.details /\ tabs'[t].claim = P!NoTab.claim
        /\ tabs'[t].claimed = P!NoTab.claimed /\ tabs'[t].opened = P!NoTab.opened
        /\ tabs'[t].read.landed => claims[s][Me] = "paid"
    BY <2>1, <2>2, <2>3, ReadTypes, PacketBlanks DEF PacketTabs
  <2>7. TabIsTold(t)'
    BY <2>3, <2>5, PacketScreenConstants DEF TabIsTold, ClaimOf, P!NoTab, P!NoDetails
  <2>8. QED
    BY <1>19, <2>3, <2>4, <2>7, OneTabChanges
<1>20. ASSUME PacketScreenInv, P!TypeOK', NEW t \in X, P!Loaded(t) PROVE PacketScreenInv'
  <2>1. PacketTyped
    BY <1>20, TypedPackets DEF PacketScreenInv
  <2>2. TabIsTold(t) /\ tabs[t] \in PacketTabs /\ tabs[t].read \in P!Details
    BY <1>20, <2>1 DEF PacketTyped, PacketScreenInv, PacketTabs
  <2>3. /\ tabs'[t] = P!HasLoaded(tabs[t], tabs[t].read) /\ tabs[t].read.known
        /\ \A u \in X : u # t => tabs'[u] = tabs[u]
        /\ UNCHANGED <<packetSends, packets, claims>> /\ (glitches' = 0 => glitches = 0)
    BY <1>20, <2>1 DEF P!Loaded, P!formVars, PacketTyped
  <2>4. TabIsTold(t)'
    <3>1. tabs[t].packet # P!None
      BY <2>2, <2>3 DEF TabIsTold, P!NoTab, P!NoDetails
    <3>2. /\ tabs'[t].packet = tabs[t].packet /\ tabs'[t].claimed = tabs[t].claimed
          /\ tabs'[t].details = tabs[t].read /\ tabs'[t].read = P!NoDetails
          /\ tabs'[t].claim \in {"none", tabs[t].claim}
          /\ tabs'[t].opened => tabs[t].opened \/ tabs[t].claimed \/ tabs[t].read.mine
      BY <2>2, <2>3, HasLoadedTypes
    <3>3. ~P!NoDetails.known /\ ~P!NoDetails.landed
      BY DEF P!NoDetails
    <3>4. QED
      BY <2>2, <2>3, <3>1, <3>2, <3>3 DEF TabIsTold, ClaimOf
  <2>5. QED
    BY <1>20, <2>3, <2>4, OneTabChanges
<1>21. ASSUME PacketScreenInv, P!TypeOK', NEW t \in X, P!NotLoaded(t) PROVE PacketScreenInv'
  <2>1. PacketTyped
    BY <1>21, TypedPackets DEF PacketScreenInv
  <2>2. TabIsTold(t) /\ tabs[t] \in PacketTabs /\ tabs[t].details \in P!Details
    BY <1>21, <2>1 DEF PacketTyped, PacketScreenInv, PacketTabs
  <2>3. /\ tabs'[t] = P!HasLoaded(tabs[t], tabs[t].details) /\ tabs[t].read.known
        /\ \A u \in X : u # t => tabs'[u] = tabs[u]
        /\ UNCHANGED <<packetSends, packets, claims>> /\ (glitches' = 0 => glitches = 0)
    BY <1>21, <2>1, PacketGlitch DEF P!NotLoaded, P!formVars, PacketTyped
  <2>4. TabIsTold(t)'
    <3>1. tabs[t].packet # P!None
      BY <2>2, <2>3 DEF TabIsTold, P!NoTab, P!NoDetails
    <3>2. /\ tabs'[t].packet = tabs[t].packet /\ tabs'[t].claimed = tabs[t].claimed
          /\ tabs'[t].details = tabs[t].details /\ tabs'[t].read = P!NoDetails
          /\ tabs'[t].claim \in {"none", tabs[t].claim}
          /\ tabs'[t].opened => tabs[t].opened \/ tabs[t].claimed \/ tabs[t].details.mine
      BY <2>2, <2>3, HasLoadedTypes
    <3>3. ~P!NoDetails.known /\ ~P!NoDetails.landed
      BY DEF P!NoDetails
    <3>4. QED
      BY <2>2, <2>3, <3>1, <3>2, <3>3 DEF TabIsTold, ClaimOf
  <2>5. QED
    BY <1>21, <2>3, <2>4, OneTabChanges
<1>22. ASSUME PacketScreenInv, P!TypeOK', NEW t \in X, P!PressOpen(t) PROVE PacketScreenInv'
  <2>1. PacketTyped
    BY <1>22, TypedPackets DEF PacketScreenInv
  <2>2. TabIsTold(t) /\ tabs[t] \in PacketTabs
    BY <1>22, <2>1 DEF PacketTyped, PacketScreenInv
  <2>3. /\ tabs'[t] = [tabs[t] EXCEPT !.claim = "asked"]
        /\ \A u \in X : u # t => tabs'[u] = tabs[u]
        /\ UNCHANGED <<packetSends, packets, claims>> /\ (glitches' = 0 => glitches = 0)
    BY <1>22, <2>1 DEF P!PressOpen, P!formVars, PacketTyped
  <2>4. TabIsTold(t)'
    <3>1. tabs[t].packet # P!None
      BY <1>22, <2>2 DEF P!PressOpen, TabIsTold, P!NoTab, P!NoDetails
    <3>2. QED
      BY <2>2, <2>3, <3>1 DEF TabIsTold, ClaimOf, PacketTabs
  <2>5. QED
    BY <1>22, <2>3, <2>4, OneTabChanges
<1>23. ASSUME PacketScreenInv, P!TypeOK', NEW t \in X, P!ClaimPacket(t) PROVE PacketScreenInv'
  <2>1. PacketTyped
    BY <1>23, TypedPackets DEF PacketScreenInv
  <2> DEFINE s == tabs[t].packet
  <2>2. TabIsTold(t) /\ tabs[t] \in PacketTabs /\ s \in Envelope
    BY <1>23, <2>1, PacketScreenConstants
    DEF PacketTyped, PacketScreenInv, TabIsTold, PacketTabs, P!ClaimPacket, P!NoTab
  <2>3. /\ UNCHANGED <<packetSends, packets, glitches>>
        /\ \A u \in X : u # t => tabs'[u] = tabs[u]
        /\ \/ tabs'[t] = [tabs[t] EXCEPT !.claim = "paying"] /\ P!MayClaim(s, Me)
              /\ claims' = [claims EXCEPT ![s][Me] = "pending"]
           \/ tabs'[t] = [tabs[t] EXCEPT !.claim = "none"] /\ claims' = claims
    BY <1>23, <2>1 DEF P!ClaimPacket, P!formVars, PacketTyped
  <2>4. CASE tabs'[t] = [tabs[t] EXCEPT !.claim = "none"] /\ claims' = claims
    <3>1. TabIsTold(t)'
      BY <2>2, <2>4, PacketScreenConstants DEF TabIsTold, ClaimOf, PacketTabs
    <3>2. QED
      BY <1>23, <2>3, <2>4, <3>1, OneTabChanges
  <2>5. CASE /\ tabs'[t] = [tabs[t] EXCEPT !.claim = "paying"] /\ P!MayClaim(s, Me)
             /\ claims' = [claims EXCEPT ![s][Me] = "pending"]
    <3>1. Me \in P!Person /\ "pending" \in PacketClaims /\ claims[s][Me] = "none"
      BY <2>5, PacketScreenConstants DEF PacketClaims, P!MayClaim
    <3>2. \A o \in Envelope : AsFilled(o)'
      BY <1>23, <2>2, <2>3, <2>5, <3>1, ClaimsKeepFilled
    <3>3. \A o \in Envelope : o # s => claims'[o][Me] = claims[o][Me]
      BY <2>1, <2>2, <2>5, <3>1, ClaimChanges
    <3>4. ASSUME NEW u \in X PROVE TabIsTold(u)'
      <4>1. TabIsTold(u) /\ tabs[u] \in PacketTabs
        BY <1>23, <2>1, <3>4 DEF PacketTyped, PacketScreenInv
      <4>2. CASE u = t
        BY <2>2, <2>5, <3>1, <4>2, PacketScreenConstants DEF TabIsTold, ClaimOf, PacketTabs
      <4>3. CASE u # t /\ tabs[u].packet \in Envelope
        BY <2>3, <3>1, <3>3, <3>4, <4>1, <4>3, ToldStays DEF ClaimOf
      <4>4. CASE u # t /\ tabs[u] = P!NoTab
        BY <2>3, <4>1, <4>4 DEF TabIsTold, P!NoTab, P!NoDetails
      <4>5. QED
        BY <4>1, <4>2, <4>3, <4>4 DEF PacketTabs, TabIsTold
    <3>5. QED
      BY <1>23, <3>2, <3>4 DEF PacketScreenInv
  <2>6. QED
    BY <2>3, <2>4, <2>5
<1>24. ASSUME PacketScreenInv, P!TypeOK', NEW t \in X, P!Claimed(t) PROVE PacketScreenInv'
  <2>1. PacketTyped
    BY <1>24, TypedPackets DEF PacketScreenInv
  <2>2. [tabs[t] EXCEPT !.claimed = TRUE] \in PacketTabs
    BY <2>1 DEF PacketTyped, PacketTabs
  <2>3. P!Read(t, tabs[t].packet, [tabs[t] EXCEPT !.claimed = TRUE]) /\ UNCHANGED <<packetSends, packets, claims>>
    BY <1>24 DEF P!Claimed, P!formVars
  <2>4. /\ glitches' = 0 => glitches = 0
        /\ \A u \in X : u # t => tabs'[u] = tabs[u]
    BY <2>1, <2>2, <2>3, ReadTypes
  <2>5. /\ tabs'[t].packet = tabs[t].packet /\ tabs'[t].details = tabs[t].details /\ tabs'[t].claimed
    BY <2>1, <2>2, <2>3, ReadTypes DEF PacketTyped, PacketTabs
  <2>6. TabIsTold(t) /\ tabs[t].packet # P!None /\ ClaimOf(t) = "paid"
    BY <1>24 DEF P!Claimed, PacketScreenInv, TabIsTold, P!NoTab, P!NoDetails
  <2>7. TabIsTold(t)'
    BY <2>3, <2>5, <2>6 DEF TabIsTold, ClaimOf
  <2>8. QED
    BY <1>24, <2>3, <2>4, <2>7, OneTabChanges
<1>25. ASSUME PacketScreenInv, P!TypeOK', NEW t \in X, P!AnswerLost(t) PROVE PacketScreenInv'
  <2>1. PacketTyped
    BY <1>25, TypedPackets DEF PacketScreenInv
  <2>2. TabIsTold(t) /\ tabs[t] \in PacketTabs
    BY <1>25, <2>1 DEF PacketTyped, PacketScreenInv
  <2>3. /\ tabs'[t] = [tabs[t] EXCEPT !.claim = "none"]
        /\ \A u \in X : u # t => tabs'[u] = tabs[u]
        /\ UNCHANGED <<packetSends, packets, claims>> /\ (glitches' = 0 => glitches = 0)
    BY <1>25, <2>1, PacketGlitch DEF P!AnswerLost, P!formVars, PacketTyped
  <2>4. TabIsTold(t)'
    <3>1. tabs[t].packet # P!None
      BY <1>25, <2>2 DEF P!AnswerLost, TabIsTold, P!NoTab, P!NoDetails
    <3>2. QED
      BY <2>2, <2>3, <3>1 DEF TabIsTold, ClaimOf, PacketTabs
  <2>5. QED
    BY <1>25, <2>3, <2>4, OneTabChanges
<1>26. QED
  BY PacketScreenTypes, <1>1, <1>2, <1>3, <1>4, <1>5, <1>6, <1>7, <1>8, <1>9, <1>10, <1>11, <1>12,
    <1>13, <1>14, <1>15, <1>16, <1>17, <1>18, <1>19, <1>20, <1>21, <1>22, <1>23, <1>24, <1>25
  DEF PacketScreenInv, P!Next

LEMMA PacketScreenRests == PacketScreenInv /\ UNCHANGED <<PVars, glitches>> => PacketScreenInv'
<1> SUFFICES ASSUME PacketScreenInv, UNCHANGED <<PVars, glitches>> PROVE PacketScreenInv'
  OBVIOUS
<1>1. P!TypeOK'
  BY TypedPackets, Zenon DEF PacketScreenInv, PacketTyped, PVars
<1>2. ASSUME NEW t \in X PROVE TabIsTold(t)'
  BY DEF PacketScreenInv, TabIsTold, ClaimOf, PVars
<1>3. ASSUME NEW s \in Envelope PROVE AsFilled(s)'
  BY DEF PacketScreenInv, AsFilled, P!SentCircle, P!Claimers, P!Payable, PVars
<1>4. QED
  BY <1>1, <1>2, <1>3 DEF PacketScreenInv

\* A tab is told of a paid claim, a packet has the circle it was filled in with.
LEMMA PacketScreenKept == PacketScreenInv => P!TypeOK /\ P!OpenedIsPaid /\ P!PacketIsAsFilled
<1> SUFFICES ASSUME PacketScreenInv PROVE P!OpenedIsPaid /\ P!PacketIsAsFilled
  BY DEF PacketScreenInv
<1>1. P!OpenedIsPaid
  BY DEF PacketScreenInv, TabIsTold, ClaimOf, P!OpenedIsPaid
<1>2. ASSUME NEW s \in Envelope, packetSends[s].fields.private
      PROVE  P!Claimers(s) \subseteq packetSends[s].fields.circle
  <2>1. AsFilled(s)
    BY DEF PacketScreenInv
  <2>2. CASE P!Claimers(s) = {}
    BY <2>2
  <2>3. CASE P!Claimers(s) # {}
    BY <1>2, <2>1, <2>3 DEF AsFilled, P!SentCircle
  <2>4. QED
    BY <2>2, <2>3
<1>3. ASSUME NEW s \in Envelope, packetSends[s].at = "stranded", glitches = 0
      PROVE  packetSends[s].fields.slots > packetSends[s].fields.amount
  <2>1. ~P!Payable(s)
    BY <1>3 DEF PacketScreenInv, AsFilled
  <2>2. packetSends[s].fields.slots \in Nat /\ packetSends[s].fields.amount \in Nat
    BY TypedPackets, PacketScreenConstants DEF PacketScreenInv, PacketTyped, PacketPresses, P!Fields
  <2>3. QED
    BY <2>1, <2>2 DEF P!Payable
<1>4. QED
  BY <1>1, <1>2, <1>3 DEF P!PacketIsAsFilled

-----------------------------------------------------------------------------
(* QR codes. *)

\* What the records of the screens hold.
PayPanes == {"scan", "code", "bill"}
PaySheets ==
    [open : BOOLEAN, pane : PayPanes, minted : BOOLEAN, my : X \cup {Q!None},
     creating : X \cup {Q!None}, bill : X \cup {Q!None}, amount : Q!Amount]
RequestPlaces == {"none", "asked", "answering", "open", "paid", "expired", "refused"}
PayRequests ==
    [at : RequestPlaces, amount : Q!Amount, kind : {Q!None, "my", "bill"}, opening : 0 .. MaxOpenings]
PagePlaces == {"away", "loading", "idle", "paying", "out", "posting", "over"}
PayPages ==
    [at : PagePlaces, code : X \cup {Q!None}, amount : Q!Amount, payable : BOOLEAN,
     typed : Q!Amount, out : Q!Amount]

PayTyped ==
    /\ paySheet \in PaySheets
    /\ requests \in [X -> PayRequests]
    /\ payPages \in [Visitor -> PayPages]
    /\ openings \in 0 .. MaxOpenings /\ glitches \in 0 .. MaxGlitches

\* A request keeps its figure; the open one is minted once an opening.
RequestsKept ==
    /\ \A c \in X : /\ requests[c].opening <= openings
                    /\ requests[c].kind = "my" => requests[c].amount = 0
                    /\ requests[c].kind = "bill" => requests[c].amount > 0
                    /\ requests[c].at = "none" => requests[c] = Q!NoRequest
                    /\ requests[c].kind = "my" => requests[c].opening > 0
    /\ \A c, d \in X : requests[c].kind = "my" /\ requests[d].kind = "my"
                        /\ requests[c].opening = requests[d].opening => c = d
    /\ \A c \in X : requests[c].kind = "my" /\ requests[c].opening = openings /\ paySheet.open => paySheet.minted

\* What the sheet shows it asked for itself, in this opening.
SheetIsOwn ==
    /\ ~paySheet.open => paySheet = Q!NoSheet
    /\ paySheet.open => openings > 0
    /\ paySheet.my # Q!None => requests[paySheet.my].kind = "my"
    /\ paySheet.bill # Q!None => requests[paySheet.bill].kind = "bill" /\ requests[paySheet.bill].opening = openings

\* A payer's page has the figure of its request, and what it sends is that.
PageIsTrue(p) ==
    /\ payPages[p].at # "away" => payPages[p].code # Q!None /\ requests[payPages[p].code].at # "none"
    /\ payPages[p].at \notin {"away", "loading"} => payPages[p].amount = requests[payPages[p].code].amount
    /\ payPages[p].at \in {"paying", "out", "posting", "over"} =>
        payPages[p].out > 0 /\ (payPages[p].amount # 0 => payPages[p].out = payPages[p].amount)

PayScreenInv == Q!TypeOK /\ RequestsKept /\ SheetIsOwn /\ \A p \in Visitor : PageIsTrue(p)

\* Requests move on, and none changes what it asks for.
SameRequests ==
    \A c \in X :
        /\ requests'[c].amount = requests[c].amount /\ requests'[c].kind = requests[c].kind
        /\ requests'[c].opening = requests[c].opening
        /\ requests'[c].at = "none" <=> requests[c].at = "none"
        /\ requests[c].at = "none" => requests'[c] = requests[c]

LEMMA PayScreenConstants ==
    /\ "none" \notin X /\ Q!None \notin X /\ Q!None \notin {"my", "bill"}
    /\ MaxFigure \in Nat /\ MaxOpenings \in Nat /\ MaxGlitches \in Nat
    /\ 0 \in Q!Amount /\ \A n \in Q!Amount : n \in Nat
BY ScreensAssumption DEF ScreensAssumption, Q!None, Q!Amount

LEMMA TypedPayments == (PayTyped <=> Q!TypeOK) /\ (PayTyped' <=> Q!TypeOK')
BY Zenon DEF PayTyped, Q!TypeOK, PayPanes, PaySheets, RequestPlaces, PayRequests, PagePlaces, PayPages

LEMMA PayBlanks == Q!NoSheet \in PaySheets /\ Q!NoRequest \in PayRequests /\ Q!NoPage \in PayPages
<1>1. Q!NoSheet \in PaySheets
  BY PayScreenConstants DEF Q!NoSheet, PaySheets, PayPanes
<1>2. Q!NoRequest \in PayRequests
  BY PayScreenConstants DEF Q!NoRequest, PayRequests, RequestPlaces
<1>3. Q!NoPage \in PayPages
  BY PayScreenConstants DEF Q!NoPage, PayPages, PagePlaces
<1>4. QED
  BY <1>1, <1>2, <1>3

LEMMA PayScreenStarts == Q!Init => PayScreenInv
<1> SUFFICES ASSUME Q!Init PROVE PayScreenInv
  OBVIOUS
<1>1. Q!TypeOK
  BY PayBlanks, PayScreenConstants, TypedPayments DEF Q!Init, PayTyped
<1>2. RequestsKept
  BY PayScreenConstants DEF Q!Init, Q!NoRequest, RequestsKept, Q!NoSheet
<1>3. SheetIsOwn
  BY DEF Q!Init, Q!NoSheet, SheetIsOwn
<1>4. ASSUME NEW p \in Visitor PROVE PageIsTrue(p)
  BY <1>4 DEF Q!Init, Q!NoPage, PageIsTrue
<1>5. QED
  BY <1>1, <1>2, <1>3, <1>4 DEF PayScreenInv

LEMMA PageRequest ==
    ASSUME PayScreenInv, NEW p \in Visitor, payPages[p].at # "away"
    PROVE  payPages[p].code \in X /\ requests[payPages[p].code].at # "none"
BY TypedPayments DEF PayScreenInv, PageIsTrue, PayTyped, PayPages

\* One that moves on, and one that is asked for.
LEMMA RequestMoves ==
    ASSUME PayTyped, NEW c \in X, NEW a \in RequestPlaces \ {"none"}, requests[c].at # "none",
           requests' = [requests EXCEPT ![c].at = a]
    PROVE  requests' \in [X -> PayRequests] /\ SameRequests
<1>1. requests' \in [X -> PayRequests]
  BY DEF PayTyped, PayRequests
<1>2. SameRequests
  BY DEF PayTyped, PayRequests, SameRequests
<1>3. QED
  BY <1>1, <1>2

LEMMA RequestAsked ==
    ASSUME PayTyped, NEW c \in X, NEW kind \in {"my", "bill"}, NEW n \in Q!Amount, Q!Ask(c, kind, n)
    PROVE  /\ requests' \in [X -> PayRequests]
           /\ requests[c] = Q!NoRequest
           /\ requests'[c] = [at |-> "asked", amount |-> n, kind |-> kind, opening |-> openings]
           /\ \A d \in X : d # c => requests'[d] = requests[d]
<1>1. [at |-> "asked", amount |-> n, kind |-> kind, opening |-> openings] \in PayRequests
  BY DEF PayRequests, RequestPlaces, PayTyped
<1>2. QED
  BY <1>1 DEF Q!Ask, PayTyped

LEMMA PayScreenTypes == PayScreenInv /\ Q!Next => Q!TypeOK'
<1>1. ASSUME PayScreenInv, Q!OpenSheet PROVE Q!TypeOK'
  <2>1. PayTyped
    BY <1>1, TypedPayments DEF PayScreenInv
  <2>2. paySheet' \in PaySheets
    BY <1>1, PayBlanks DEF Q!OpenSheet, PaySheets
  <2>3. openings' \in 0 .. MaxOpenings
    BY <1>1, <2>1, PayScreenConstants DEF Q!OpenSheet, PayTyped
  <2>4. QED
    BY <1>1, <2>1, <2>2, <2>3, TypedPayments DEF Q!OpenSheet, PayTyped
<1>2. ASSUME PayScreenInv, Q!CloseSheet PROVE Q!TypeOK'
  <2>1. PayTyped
    BY <1>2, TypedPayments DEF PayScreenInv
  <2>2. QED
    BY <1>2, <2>1, PayBlanks, TypedPayments DEF Q!CloseSheet, PayTyped
<1>3. ASSUME PayScreenInv, Q!EditBill PROVE Q!TypeOK'
  <2>1. PayTyped
    BY <1>3, TypedPayments DEF PayScreenInv
  <2>2. paySheet' \in PaySheets
    BY <1>3, <2>1 DEF Q!EditBill, PayTyped, PaySheets
  <2>3. QED
    BY <1>3, <2>1, <2>2, TypedPayments DEF Q!EditBill, PayTyped
<1>4. ASSUME PayScreenInv, Q!NewBill PROVE Q!TypeOK'
  <2>1. PayTyped
    BY <1>4, TypedPayments DEF PayScreenInv
  <2>2. paySheet' \in PaySheets
    BY <1>4, <2>1, PayScreenConstants DEF Q!NewBill, PayTyped, PaySheets
  <2>3. QED
    BY <1>4, <2>1, <2>2, TypedPayments DEF Q!NewBill, PayTyped
<1>5. ASSUME PayScreenInv, NEW pane \in {"scan", "code", "bill"}, Q!MoveTo(pane) PROVE Q!TypeOK'
  <2>1. PayTyped
    BY <1>5, TypedPayments DEF PayScreenInv
  <2>2. paySheet' \in PaySheets
    BY <1>5, <2>1 DEF Q!MoveTo, PayTyped, PaySheets, PayPanes
  <2>3. requests' \in [X -> PayRequests]
    BY <1>5, <2>1, RequestAsked, PayScreenConstants DEF Q!MoveTo, PayTyped
  <2>4. QED
    BY <1>5, <2>1, <2>2, <2>3, TypedPayments DEF Q!MoveTo, PayTyped
<1>6. ASSUME PayScreenInv, NEW c \in X, Q!ShowBill(c) PROVE Q!TypeOK'
  <2>1. PayTyped
    BY <1>6, TypedPayments DEF PayScreenInv
  <2>2. paySheet' \in PaySheets /\ paySheet.amount \in Q!Amount
    BY <1>6, <2>1 DEF Q!ShowBill, PayTyped, PaySheets
  <2>3. requests' \in [X -> PayRequests]
    BY <1>6, <2>1, <2>2, RequestAsked DEF Q!ShowBill
  <2>4. QED
    BY <1>6, <2>1, <2>2, <2>3, TypedPayments DEF Q!ShowBill, PayTyped
<1>7. ASSUME PayScreenInv, NEW c \in X, Q!Insert(c) PROVE Q!TypeOK'
  <2>1. PayTyped
    BY <1>7, TypedPayments DEF PayScreenInv
  <2>2. requests' \in [X -> PayRequests]
    BY <1>7, <2>1, RequestMoves DEF Q!Insert, RequestPlaces
  <2>3. QED
    BY <1>7, <2>1, <2>2, TypedPayments DEF Q!Insert, PayTyped
<1>8. ASSUME PayScreenInv, NEW c \in X, Q!Answer(c) PROVE Q!TypeOK'
  <2>1. PayTyped
    BY <1>8, TypedPayments DEF PayScreenInv
  <2>2. requests' \in [X -> PayRequests]
    BY <1>8, <2>1, RequestMoves DEF Q!Answer, RequestPlaces
  <2>3. paySheet' \in PaySheets
    BY <1>8, <2>1 DEF Q!Answer, PayTyped, PaySheets
  <2>4. QED
    BY <1>8, <2>1, <2>2, <2>3, TypedPayments DEF Q!Answer, PayTyped
<1>9. ASSUME PayScreenInv, NEW c \in X, Q!Refused(c) PROVE Q!TypeOK'
  <2>1. PayTyped
    BY <1>9, TypedPayments DEF PayScreenInv
  <2>2. requests' \in [X -> PayRequests]
    BY <1>9, <2>1, RequestMoves DEF Q!Refused, RequestPlaces
  <2>3. paySheet' \in PaySheets
    BY <1>9, <2>1 DEF Q!Refused, PayTyped, PaySheets
  <2>4. glitches' \in 0 .. MaxGlitches
    BY <1>9, <2>1, PayScreenConstants DEF Q!Refused, Q!Glitch, PayTyped
  <2>5. QED
    BY <1>9, <2>1, <2>2, <2>3, <2>4, TypedPayments DEF Q!Refused, PayTyped
<1>10. ASSUME PayScreenInv, NEW c \in X, Q!Expire(c) PROVE Q!TypeOK'
  <2>1. PayTyped
    BY <1>10, TypedPayments DEF PayScreenInv
  <2>2. requests' \in [X -> PayRequests]
    BY <1>10, <2>1, RequestMoves DEF Q!Expire, RequestPlaces
  <2>3. QED
    BY <1>10, <2>1, <2>2, TypedPayments DEF Q!Expire, PayTyped
<1>11. ASSUME PayScreenInv, NEW p \in Visitor, NEW c \in X, Q!Visit(p, c) PROVE Q!TypeOK'
  <2>1. PayTyped
    BY <1>11, TypedPayments DEF PayScreenInv
  <2>2. payPages[p] \in PayPages
    BY <2>1 DEF PayTyped
  <2>3. [Q!NoPage EXCEPT !.at = "loading", !.code = c] \in PayPages
    BY PayBlanks DEF PayPages, PagePlaces
  <2>4. payPages' \in [Visitor -> PayPages]
    BY <1>11, <2>1, <2>3 DEF Q!Visit, PayTyped
  <2>7. QED
    BY <1>11, <2>1, <2>4, TypedPayments DEF Q!Visit, PayTyped
<1>12. ASSUME PayScreenInv, NEW p \in Visitor, Q!Load(p) PROVE Q!TypeOK'
  <2>1. PayTyped /\ payPages[p].code \in X
    BY <1>12, TypedPayments, PageRequest DEF PayScreenInv, Q!Load
  <2>2. payPages[p] \in PayPages /\ requests[payPages[p].code].amount \in Q!Amount
    BY <2>1 DEF PayTyped, PayRequests
  <2>3. PICK b \in BOOLEAN :
          payPages' = [payPages EXCEPT ![p] = [payPages[p] EXCEPT !.at = "idle", !.payable = b,
                                                 !.amount = requests[payPages[p].code].amount]]
    <3>1. (requests[payPages[p].code].at = "open") \in BOOLEAN
      OBVIOUS
    <3>2. payPages' = [payPages EXCEPT ![p] = [payPages[p] EXCEPT !.at = "idle",
                         !.payable = (requests[payPages[p].code].at = "open"),
                         !.amount = requests[payPages[p].code].amount]]
      <4>1. payPages' = [payPages EXCEPT ![p].at = "idle", ![p].amount = requests[payPages[p].code].amount,
                                         ![p].payable = (requests[payPages[p].code].at = "open")]
        BY <1>12 DEF Q!Load
      <4>2. QED
        BY <4>1, <2>1, <2>2 DEF PayTyped, PayPages
    <3>3. QED
      BY <3>1, <3>2, Zenon
  <2>4. [payPages[p] EXCEPT !.at = "idle", !.payable = b, !.amount = requests[payPages[p].code].amount] \in PayPages
    BY <2>2 DEF PayPages, PagePlaces
  <2>5. payPages' \in [Visitor -> PayPages]
    BY <2>1, <2>3, <2>4 DEF PayTyped
  <2>6. QED
    BY <1>12, <2>1, <2>5, TypedPayments DEF Q!Load, PayTyped
<1>13. ASSUME PayScreenInv, NEW p \in Visitor, Q!Type(p) PROVE Q!TypeOK'
  <2>1. PayTyped
    BY <1>13, TypedPayments DEF PayScreenInv
  <2>2. PICK n \in Q!Amount : payPages' = [payPages EXCEPT ![p].typed = n]
    BY <1>13 DEF Q!Type
  <2>3. payPages' \in [Visitor -> PayPages]
    BY <2>1, <2>2 DEF PayTyped, PayPages
  <2>4. QED
    BY <1>13, <2>1, <2>3, TypedPayments DEF Q!Type, PayTyped
<1>14. ASSUME PayScreenInv, NEW p \in Visitor, Q!PressPay(p) PROVE Q!TypeOK'
  <2>1. PayTyped
    BY <1>14, TypedPayments DEF PayScreenInv
  <2>2. payPages[p] \in PayPages /\ Q!ToPay(payPages[p]) \in Q!Amount
    BY <2>1 DEF PayTyped, PayPages, Q!ToPay
  <2>3. payPages' \in [Visitor -> PayPages]
    <3>1. payPages' = [payPages EXCEPT ![p].at = "paying", ![p].out = Q!ToPay(payPages[p])]
      BY <1>14 DEF Q!PressPay
    <3> HIDE DEF Q!ToPay
    <3>2. QED
      BY <2>1, <2>2, <3>1 DEF PayTyped, PayPages, PagePlaces
  <2>4. QED
    BY <1>14, <2>1, <2>3, TypedPayments DEF Q!PressPay, PayTyped
<1>15. ASSUME PayScreenInv, NEW p \in Visitor, Q!PayFails(p) PROVE Q!TypeOK'
  <2>1. PayTyped
    BY <1>15, TypedPayments DEF PayScreenInv
  <2>2. payPages' \in [Visitor -> PayPages]
    <3>1. payPages' = [payPages EXCEPT ![p] = [payPages[p] EXCEPT !.at = "idle", !.out = 0]]
      BY <1>15 DEF Q!PayFails
    <3>2. payPages \in [Visitor -> PayPages] /\ payPages[p] \in PayPages /\ 0 \in Q!Amount
      BY <2>1, PayScreenConstants DEF PayTyped, Q!Amount
    <3>3. [payPages[p] EXCEPT !.at = "idle", !.out = 0] \in PayPages
      BY <3>2 DEF PayPages, PagePlaces
    <3>4. QED
      BY <3>1, <3>2, <3>3
  <2>3. glitches' \in 0 .. MaxGlitches
    BY <1>15, <2>1, PayScreenConstants DEF Q!PayFails, Q!Glitch, PayTyped
  <2>5. QED
    BY <1>15, <2>1, <2>2, <2>3, TypedPayments DEF Q!PayFails, PayTyped
<1>16. ASSUME PayScreenInv, NEW p \in Visitor, Q!SendPayment(p) PROVE Q!TypeOK'
  <2>1. PayTyped
    BY <1>16, TypedPayments DEF PayScreenInv
  <2>2. payPages' \in [Visitor -> PayPages]
    BY <1>16, <2>1, PayScreenConstants DEF Q!SendPayment, PayTyped, PayPages, PagePlaces
  <2>5. QED
    BY <1>16, <2>1, <2>2, TypedPayments DEF Q!SendPayment, PayTyped
<1>17. ASSUME PayScreenInv, NEW p \in Visitor, Q!PaymentMined(p) PROVE Q!TypeOK'
  <2>1. PayTyped
    BY <1>17, TypedPayments DEF PayScreenInv
  <2>2. payPages' \in [Visitor -> PayPages]
    BY <1>17, <2>1, PayScreenConstants DEF Q!PaymentMined, PayTyped, PayPages, PagePlaces
  <2>5. QED
    BY <1>17, <2>1, <2>2, TypedPayments DEF Q!PaymentMined, PayTyped
<1>18. ASSUME PayScreenInv, NEW p \in Visitor, Q!File(p) PROVE Q!TypeOK'
  <2>1. PayTyped
    BY <1>18, TypedPayments DEF PayScreenInv
  <2>2. payPages' \in [Visitor -> PayPages]
    BY <1>18, <2>1, PayScreenConstants DEF Q!File, PayTyped, PayPages, PagePlaces
  <2>4. requests' \in [X -> PayRequests]
    <3>1. payPages[p].code \in X /\ requests[payPages[p].code].at # "none"
      BY <1>18, PageRequest DEF Q!File
    <3>2. requests' = requests \/ requests' = [requests EXCEPT ![payPages[p].code].at = "paid"]
      BY <1>18 DEF Q!File
    <3>3. QED
      BY <2>1, <3>1, <3>2, RequestMoves DEF PayTyped, RequestPlaces, SameRequests
  <2>5. QED
    BY <1>18, <2>1, <2>2, <2>4, TypedPayments DEF Q!File, PayTyped
<1>19. ASSUME PayScreenInv, NEW p \in Visitor, Q!NotRecorded(p) PROVE Q!TypeOK'
  <2>1. PayTyped
    BY <1>19, TypedPayments DEF PayScreenInv
  <2>2. payPages' \in [Visitor -> PayPages]
    BY <1>19, <2>1, PayScreenConstants DEF Q!NotRecorded, PayTyped, PayPages, PagePlaces
  <2>3. glitches' \in 0 .. MaxGlitches
    BY <1>19, <2>1, PayScreenConstants DEF Q!NotRecorded, Q!Glitch, PayTyped
  <2>5. QED
    BY <1>19, <2>1, <2>2, <2>3, TypedPayments DEF Q!NotRecorded, PayTyped
<1>20. QED
  BY <1>1, <1>2, <1>3, <1>4, <1>5, <1>6, <1>7, <1>8, <1>9, <1>10, <1>11, <1>12, <1>13, <1>14, <1>15,
    <1>16, <1>17, <1>18, <1>19
  DEF Q!Next

\* What stays of each part when the requests keep what they ask for.
LEMMA RequestsStay ==
    ASSUME PayScreenInv, SameRequests, openings' = openings, paySheet'.open => paySheet.open,
           paySheet'.open /\ paySheet.minted => paySheet'.minted
    PROVE  RequestsKept'
<1>1. /\ \A c \in X : /\ requests'[c].opening <= openings'
                      /\ requests'[c].kind = "my" => requests'[c].amount = 0
                      /\ requests'[c].kind = "bill" => requests'[c].amount > 0
                      /\ requests'[c].at = "none" => requests'[c] = Q!NoRequest
                      /\ requests'[c].kind = "my" => requests'[c].opening > 0
  BY DEF PayScreenInv, RequestsKept, SameRequests
<1>2. \A c, d \in X : requests'[c].kind = "my" /\ requests'[d].kind = "my"
                        /\ requests'[c].opening = requests'[d].opening => c = d
  BY DEF PayScreenInv, RequestsKept, SameRequests
<1>3. \A c \in X : requests'[c].kind = "my" /\ requests'[c].opening = openings' /\ paySheet'.open => paySheet'.minted
  BY DEF PayScreenInv, RequestsKept, SameRequests
<1>4. QED
  BY <1>1, <1>2, <1>3 DEF RequestsKept

LEMMA SheetStays ==
    ASSUME PayScreenInv, SameRequests, openings' = openings, paySheet' = paySheet
    PROVE  SheetIsOwn'
<1>1. paySheet.my \in X \cup {Q!None} /\ paySheet.bill \in X \cup {Q!None}
  BY TypedPayments DEF PayScreenInv, PayTyped, PaySheets
<1>2. QED
  BY <1>1 DEF PayScreenInv, SameRequests, SheetIsOwn

LEMMA PageStays ==
    ASSUME PayScreenInv, NEW p \in Visitor, payPages'[p] = payPages[p],
           \A c \in X : requests[c].at # "none" => requests'[c].at # "none" /\ requests'[c].amount = requests[c].amount
    PROVE  PageIsTrue(p)'
<1>1. payPages[p].code \in X \cup {Q!None} /\ payPages[p].at \in PagePlaces
  BY TypedPayments DEF PayScreenInv, PayTyped, PayPages
<1>2. PageIsTrue(p)
  BY DEF PayScreenInv
<1>3. CASE payPages[p].at = "away"
  BY <1>3, <1>2 DEF PageIsTrue
<1>4. CASE payPages[p].at # "away"
  <2>1. /\ payPages[p].code \in X /\ requests[payPages[p].code].at # "none"
        /\ requests'[payPages[p].code].at # "none"
        /\ requests'[payPages[p].code].amount = requests[payPages[p].code].amount
    BY <1>1, <1>2, <1>4 DEF PageIsTrue
  <2>2. QED
    BY <1>2, <1>4, <2>1 DEF PageIsTrue
<1>5. QED
  BY <1>3, <1>4

\* Only the sheet changes, only a request, or only a page.
LEMMA OnlyTheSheet ==
    ASSUME PayScreenInv, Q!TypeOK', UNCHANGED <<requests, payPages, openings>>, SheetIsOwn',
           paySheet'.open => paySheet.open, paySheet'.open /\ paySheet.minted => paySheet'.minted
    PROVE  PayScreenInv'
<1>1. SameRequests
  BY DEF SameRequests
<1>2. QED
  BY <1>1, RequestsStay, PageStays DEF PayScreenInv

LEMMA OnlyRequests ==
    ASSUME PayScreenInv, Q!TypeOK', SameRequests, UNCHANGED <<payPages, openings>>, SheetIsOwn',
           paySheet'.open => paySheet.open, paySheet'.open /\ paySheet.minted => paySheet'.minted
    PROVE  PayScreenInv'
<1>1. \A c \in X : requests[c].at # "none" => requests'[c].at # "none" /\ requests'[c].amount = requests[c].amount
  BY DEF SameRequests
<1>2. QED
  BY <1>1, RequestsStay, PageStays DEF PayScreenInv

LEMMA OnlyAPage ==
    ASSUME PayScreenInv, Q!TypeOK', NEW p \in Visitor, SameRequests, UNCHANGED <<paySheet, openings>>,
           \A o \in Visitor : o # p => payPages'[o] = payPages[o], PageIsTrue(p)'
    PROVE  PayScreenInv'
<1>1. \A c \in X : requests[c].at # "none" => requests'[c].at # "none" /\ requests'[c].amount = requests[c].amount
  BY DEF SameRequests
<1>2. RequestsKept' /\ SheetIsOwn'
  BY RequestsStay, SheetStays
<1>3. QED
  BY <1>1, <1>2, PageStays DEF PayScreenInv

LEMMA PayScreenStep == PayScreenInv /\ Q!Next => PayScreenInv'
<1>1. ASSUME PayScreenInv, Q!TypeOK', Q!OpenSheet PROVE PayScreenInv'
  <2>1. PayTyped
    BY <1>1, TypedPayments DEF PayScreenInv
  <2>2. /\ openings' = openings + 1 /\ UNCHANGED <<requests, payPages>> /\ openings \in Nat
        /\ paySheet' = [Q!NoSheet EXCEPT !.open = TRUE]
    BY <1>1, <2>1, PayScreenConstants DEF Q!OpenSheet, PayTyped
  <2>3. \A c \in X : requests[c].opening \in Nat /\ requests[c].opening <= openings
    BY <1>1, <2>1, PayScreenConstants DEF PayTyped, PayRequests, PayScreenInv, RequestsKept
  <2>4. RequestsKept'
    BY <1>1, <2>2, <2>3 DEF PayScreenInv, RequestsKept
  <2>5. SheetIsOwn'
    BY <2>2 DEF SheetIsOwn, Q!NoSheet
  <2>6. \A p \in Visitor : PageIsTrue(p)'
    BY <1>1, <2>2, PageStays
  <2>7. QED
    BY <1>1, <2>4, <2>5, <2>6 DEF PayScreenInv
<1>2. ASSUME PayScreenInv, Q!TypeOK', Q!CloseSheet PROVE PayScreenInv'
  <2>1. SheetIsOwn' /\ ~paySheet'.open
    BY <1>2 DEF Q!CloseSheet, Q!NoSheet, SheetIsOwn
  <2>2. QED
    BY <1>2, <2>1, OnlyTheSheet DEF Q!CloseSheet
<1>3. ASSUME PayScreenInv, Q!TypeOK', Q!EditBill PROVE PayScreenInv'
  <2>1. PayTyped
    BY <1>3, TypedPayments DEF PayScreenInv
  <2>2. /\ paySheet.open /\ paySheet'.open /\ paySheet'.minted = paySheet.minted
        /\ paySheet'.my = paySheet.my /\ paySheet'.bill \in {paySheet.bill, Q!None}
        /\ UNCHANGED <<requests, payPages, openings>>
    BY <1>3, <2>1 DEF Q!EditBill, PayTyped, PaySheets, PayScreenInv, SheetIsOwn, Q!NoSheet
  <2>3. SheetIsOwn'
    BY <1>3, <2>2 DEF PayScreenInv, SheetIsOwn
  <2>4. QED
    BY <1>3, <2>2, <2>3, OnlyTheSheet
<1>4. ASSUME PayScreenInv, Q!TypeOK', Q!NewBill PROVE PayScreenInv'
  <2>1. PayTyped
    BY <1>4, TypedPayments DEF PayScreenInv
  <2>2. /\ paySheet.open /\ paySheet'.open /\ paySheet'.minted = paySheet.minted
        /\ paySheet'.my = paySheet.my /\ paySheet'.bill \in {paySheet.bill, Q!None}
        /\ UNCHANGED <<requests, payPages, openings>>
    BY <1>4, <2>1 DEF Q!NewBill, PayTyped, PaySheets, PayScreenInv, SheetIsOwn, Q!NoSheet
  <2>3. SheetIsOwn'
    BY <1>4, <2>2 DEF PayScreenInv, SheetIsOwn
  <2>4. QED
    BY <1>4, <2>2, <2>3, OnlyTheSheet
<1>5. ASSUME PayScreenInv, Q!TypeOK', NEW pane \in {"scan", "code", "bill"}, Q!MoveTo(pane)
      PROVE  PayScreenInv'
  <2>1. PayTyped
    BY <1>5, TypedPayments DEF PayScreenInv
  <2>2. /\ paySheet.open /\ paySheet'.open /\ paySheet'.my = paySheet.my /\ paySheet'.bill = paySheet.bill
        /\ paySheet.minted => paySheet'.minted
        /\ UNCHANGED <<payPages, openings>>
    BY <1>5, <2>1 DEF Q!MoveTo, PayTyped, PaySheets, Q!Minted
  <2>3. CASE UNCHANGED requests
    <3>1. SheetIsOwn'
      BY <1>5, <2>2, <2>3 DEF PayScreenInv, SheetIsOwn
    <3>2. QED
      BY <1>5, <2>2, <2>3, <3>1, OnlyTheSheet
  <2>4. ASSUME NEW c \in X, Q!Ask(c, "my", 0), ~paySheet.minted, paySheet'.minted
        PROVE  PayScreenInv'
    <3>1. /\ requests[c] = Q!NoRequest
          /\ requests'[c] = [at |-> "asked", amount |-> 0, kind |-> "my", opening |-> openings]
          /\ \A d \in X : d # c => requests'[d] = requests[d]
      BY <2>1, <2>4, RequestAsked, PayScreenConstants
    <3>2. openings > 0 /\ openings \in Nat
      BY <1>5, <2>1, <2>2, PayScreenConstants DEF PayScreenInv, SheetIsOwn, PayTyped
    <3>3. \A d \in X : requests[d].kind = "my" => requests[d].opening # openings
      BY <1>5, <2>2, <2>4 DEF PayScreenInv, RequestsKept
    <3>4. RequestsKept'
      <4>1. \A d \in X : /\ requests'[d].opening <= openings'
                         /\ requests'[d].kind = "my" => requests'[d].amount = 0
                         /\ requests'[d].kind = "bill" => requests'[d].amount > 0
                         /\ requests'[d].at = "none" => requests'[d] = Q!NoRequest
                         /\ requests'[d].kind = "my" => requests'[d].opening > 0
        BY <1>5, <2>2, <3>1, <3>2 DEF PayScreenInv, RequestsKept
      <4>2. \A d, e \in X : requests'[d].kind = "my" /\ requests'[e].kind = "my"
                               /\ requests'[d].opening = requests'[e].opening => d = e
        BY <1>5, <3>1, <3>3 DEF PayScreenInv, RequestsKept
      <4>3. QED
        BY <2>4, <4>1, <4>2 DEF RequestsKept
    <3>5. SheetIsOwn'
      BY <1>5, <2>1, <2>2, <3>1, PayScreenConstants
      DEF PayScreenInv, SheetIsOwn, PayTyped, PaySheets, Q!NoRequest
    <3>6. \A p \in Visitor : PageIsTrue(p)'
      BY <1>5, <2>2, <3>1, PageStays DEF Q!NoRequest
    <3>7. QED
      BY <1>5, <3>4, <3>5, <3>6 DEF PayScreenInv
  <2>5. QED
    BY <1>5, <2>1, <2>3, <2>4 DEF Q!MoveTo, Q!Minted, PayTyped, PaySheets
<1>6. ASSUME PayScreenInv, Q!TypeOK', NEW c \in X, Q!ShowBill(c) PROVE PayScreenInv'
  <2>1. PayTyped
    BY <1>6, TypedPayments DEF PayScreenInv
  <2>2. /\ paySheet.open /\ paySheet'.open /\ paySheet'.my = paySheet.my /\ paySheet'.bill = paySheet.bill
        /\ paySheet'.minted = paySheet.minted /\ paySheet.amount > 0 /\ paySheet.amount \in Q!Amount
        /\ UNCHANGED <<payPages, openings>> /\ Q!Ask(c, "bill", paySheet.amount)
    BY <1>6, <2>1 DEF Q!ShowBill, PayTyped, PaySheets
  <2>3. /\ requests[c] = Q!NoRequest
        /\ requests'[c] = [at |-> "asked", amount |-> paySheet.amount, kind |-> "bill", opening |-> openings]
        /\ \A d \in X : d # c => requests'[d] = requests[d]
    BY <2>1, <2>2, RequestAsked
  <2>4. openings \in Nat
    BY <2>1, PayScreenConstants DEF PayTyped
  <2>5. RequestsKept'
    <3>1. \A d \in X : /\ requests'[d].opening <= openings'
                       /\ requests'[d].kind = "my" => requests'[d].amount = 0
                       /\ requests'[d].kind = "bill" => requests'[d].amount > 0
                       /\ requests'[d].at = "none" => requests'[d] = Q!NoRequest
                       /\ requests'[d].kind = "my" => requests'[d].opening > 0
      BY <1>6, <2>2, <2>3, <2>4 DEF PayScreenInv, RequestsKept
    <3>2. \A d, e \in X : requests'[d].kind = "my" /\ requests'[e].kind = "my"
                             /\ requests'[d].opening = requests'[e].opening => d = e
      BY <1>6, <2>3 DEF PayScreenInv, RequestsKept
    <3>3. \A d \in X : requests'[d].kind = "my" /\ requests'[d].opening = openings' /\ paySheet'.open => paySheet'.minted
      BY <1>6, <2>2, <2>3 DEF PayScreenInv, RequestsKept
    <3>4. QED
      BY <3>1, <3>2, <3>3 DEF RequestsKept
  <2>6. SheetIsOwn'
    BY <1>6, <2>1, <2>2, <2>3, PayScreenConstants
    DEF PayScreenInv, SheetIsOwn, PayTyped, PaySheets, Q!NoRequest
  <2>7. \A p \in Visitor : PageIsTrue(p)'
    BY <1>6, <2>2, <2>3, PageStays DEF Q!NoRequest
  <2>8. QED
    BY <1>6, <2>5, <2>6, <2>7 DEF PayScreenInv
<1>7. ASSUME PayScreenInv, Q!TypeOK', NEW c \in X, Q!Insert(c) PROVE PayScreenInv'
  <2>1. PayTyped
    BY <1>7, TypedPayments DEF PayScreenInv
  <2>2. SameRequests /\ UNCHANGED <<paySheet, payPages, openings>>
    BY <1>7, <2>1, RequestMoves DEF Q!Insert, RequestPlaces
  <2>3. QED
    BY <1>7, <2>2, SheetStays, OnlyRequests
<1>8. ASSUME PayScreenInv, Q!TypeOK', NEW c \in X, Q!Answer(c) PROVE PayScreenInv'
  <2>1. PayTyped
    BY <1>8, TypedPayments DEF PayScreenInv
  <2>2. SameRequests /\ UNCHANGED <<payPages, openings>>
    BY <1>8, <2>1, RequestMoves DEF Q!Answer, RequestPlaces
  <2>3. CASE paySheet' = paySheet
    BY <1>8, <2>2, <2>3, SheetStays, OnlyRequests
  <2>4. CASE Q!Mine(c)
    <3>1. /\ paySheet.open /\ requests[c].opening = openings
          /\ {paySheet.my, paySheet.bill} \subseteq X \cup {Q!None}
      BY <2>1, <2>4 DEF Q!Mine, PayTyped, PaySheets
    <3>2. /\ paySheet'.open /\ paySheet'.minted = paySheet.minted
          /\ paySheet'.my = IF requests[c].kind = "my" THEN c ELSE paySheet.my
          /\ paySheet'.bill = IF requests[c].kind = "bill" THEN c ELSE paySheet.bill
      BY <1>8, <2>1, <2>4, <3>1 DEF Q!Answer, Q!ForPane, PayTyped, PaySheets
    <3>3. SheetIsOwn'
      BY <1>8, <2>2, <3>1, <3>2 DEF PayScreenInv, SheetIsOwn, SameRequests
    <3>4. QED
      BY <1>8, <2>2, <3>1, <3>2, <3>3, OnlyRequests
  <2>5. QED
    BY <1>8, <2>3, <2>4 DEF Q!Answer
<1>9. ASSUME PayScreenInv, Q!TypeOK', NEW c \in X, Q!Refused(c) PROVE PayScreenInv'
  <2>1. PayTyped
    BY <1>9, TypedPayments DEF PayScreenInv
  <2>2. /\ SameRequests /\ UNCHANGED <<payPages, openings>>
        /\ paySheet' = paySheet \/ (paySheet.open /\ paySheet' = [paySheet EXCEPT !.creating = Q!None])
    <3>1. SameRequests /\ UNCHANGED <<payPages, openings>>
      BY <1>9, <2>1, RequestMoves DEF Q!Refused, RequestPlaces
    <3>2. paySheet' = IF Q!Mine(c) /\ paySheet.creating = c THEN [paySheet EXCEPT !.creating = Q!None]
                      ELSE paySheet
      BY <1>9 DEF Q!Refused
    <3>3. Q!Mine(c) => paySheet.open
      BY DEF Q!Mine
    <3>4. QED
      BY <3>1, <3>2, <3>3
  <2>3. CASE paySheet' = paySheet
    BY <1>9, <2>2, <2>3, SheetStays, OnlyRequests
  <2>4. CASE paySheet.open /\ paySheet' = [paySheet EXCEPT !.creating = Q!None]
    <3>1. /\ paySheet'.open /\ paySheet'.my = paySheet.my /\ paySheet'.bill = paySheet.bill
          /\ paySheet'.minted = paySheet.minted /\ {paySheet.my, paySheet.bill} \subseteq X \cup {Q!None}
      BY <2>1, <2>4 DEF PayTyped, PaySheets
    <3>2. SheetIsOwn'
      BY <1>9, <2>2, <2>4, <3>1 DEF PayScreenInv, SheetIsOwn, SameRequests
    <3>3. QED
      BY <1>9, <2>2, <2>4, <3>1, <3>2, OnlyRequests
  <2>5. QED
    BY <2>2, <2>3, <2>4
<1>10. ASSUME PayScreenInv, Q!TypeOK', NEW c \in X, Q!Expire(c) PROVE PayScreenInv'
  <2>1. PayTyped
    BY <1>10, TypedPayments DEF PayScreenInv
  <2>2. SameRequests /\ UNCHANGED <<paySheet, payPages, openings>>
    BY <1>10, <2>1, RequestMoves DEF Q!Expire, RequestPlaces
  <2>3. QED
    BY <1>10, <2>2, SheetStays, OnlyRequests
<1>11. ASSUME PayScreenInv, Q!TypeOK', NEW p \in Visitor, NEW c \in X, Q!Visit(p, c) PROVE PayScreenInv'
  <2>1. PayTyped
    BY <1>11, TypedPayments DEF PayScreenInv
  <2>2. /\ SameRequests /\ UNCHANGED <<requests, paySheet, openings>>
        /\ \A o \in Visitor : o # p => payPages'[o] = payPages[o]
    BY <1>11, <2>1 DEF Q!Visit, PayTyped, SameRequests
  <2>3. /\ payPages'[p] = [Q!NoPage EXCEPT !.at = "loading", !.code = c]
        /\ requests[c].at # "none"
    BY <1>11, <2>1 DEF Q!Visit, PayTyped, PayPages
  <2>4. PageIsTrue(p) /\ payPages[p].at \in PagePlaces
    BY <1>11, <2>1 DEF PayScreenInv, PayTyped, PayPages
  <2>5. PageIsTrue(p)'
    BY <2>2, <2>3, PayScreenConstants DEF PageIsTrue, Q!NoPage
  <2>6. QED
    BY <1>11, <2>2, <2>5, OnlyAPage
<1>12. ASSUME PayScreenInv, Q!TypeOK', NEW p \in Visitor, Q!Load(p) PROVE PayScreenInv'
  <2>1. PayTyped
    BY <1>12, TypedPayments DEF PayScreenInv
  <2>2. /\ SameRequests /\ UNCHANGED <<requests, paySheet, openings>>
        /\ \A o \in Visitor : o # p => payPages'[o] = payPages[o]
    BY <1>12, <2>1 DEF Q!Load, PayTyped, SameRequests
  <2>3. /\ payPages'[p].code = payPages[p].code /\ payPages'[p].amount = requests[payPages[p].code].amount
        /\ payPages'[p].at = "idle" /\ payPages[p].at = "loading"
    BY <1>12, <2>1 DEF Q!Load, PayTyped, PayPages
  <2>4. PageIsTrue(p) /\ payPages[p].at \in PagePlaces
    BY <1>12, <2>1 DEF PayScreenInv, PayTyped, PayPages
  <2>5. PageIsTrue(p)'
    BY <2>2, <2>3, <2>4 DEF PageIsTrue
  <2>6. QED
    BY <1>12, <2>2, <2>5, OnlyAPage
<1>13. ASSUME PayScreenInv, Q!TypeOK', NEW p \in Visitor, Q!Type(p) PROVE PayScreenInv'
  <2>1. PayTyped
    BY <1>13, TypedPayments DEF PayScreenInv
  <2>2. /\ SameRequests /\ UNCHANGED <<requests, paySheet, openings>>
        /\ \A o \in Visitor : o # p => payPages'[o] = payPages[o]
    BY <1>13, <2>1 DEF Q!Type, PayTyped, SameRequests
  <2>3. /\ payPages'[p].code = payPages[p].code /\ payPages'[p].amount = payPages[p].amount
        /\ payPages'[p].at = payPages[p].at /\ payPages'[p].out = payPages[p].out
    BY <1>13, <2>1 DEF Q!Type, PayTyped, PayPages
  <2>4. PageIsTrue(p) /\ payPages[p].at \in PagePlaces
    BY <1>13, <2>1 DEF PayScreenInv, PayTyped, PayPages
  <2>5. PageIsTrue(p)'
    BY <2>2, <2>3, <2>4 DEF PageIsTrue
  <2>6. QED
    BY <1>13, <2>2, <2>5, OnlyAPage
<1>14. ASSUME PayScreenInv, Q!TypeOK', NEW p \in Visitor, Q!PressPay(p) PROVE PayScreenInv'
  <2>1. PayTyped
    BY <1>14, TypedPayments DEF PayScreenInv
  <2>2. /\ SameRequests /\ UNCHANGED <<requests, paySheet, openings>>
        /\ \A o \in Visitor : o # p => payPages'[o] = payPages[o]
    BY <1>14, <2>1 DEF Q!PressPay, PayTyped, SameRequests
  <2>3. /\ payPages'[p].code = payPages[p].code /\ payPages'[p].amount = payPages[p].amount
        /\ payPages[p].at = "idle" /\ payPages'[p].at = "paying"
        /\ payPages'[p].out = Q!ToPay(payPages[p]) /\ Q!ToPay(payPages[p]) > 0
    BY <1>14, <2>1 DEF Q!PressPay, PayTyped, PayPages
  <2>4. PageIsTrue(p) /\ payPages[p].at \in PagePlaces
    BY <1>14, <2>1 DEF PayScreenInv, PayTyped, PayPages
  <2>5. PageIsTrue(p)'
    BY <2>2, <2>3, <2>4 DEF PageIsTrue, Q!ToPay
  <2>6. QED
    BY <1>14, <2>2, <2>5, OnlyAPage
<1>15. ASSUME PayScreenInv, Q!TypeOK', NEW p \in Visitor, Q!PayFails(p) PROVE PayScreenInv'
  <2>1. PayTyped
    BY <1>15, TypedPayments DEF PayScreenInv
  <2>2. /\ SameRequests /\ UNCHANGED <<requests, paySheet, openings>>
        /\ \A o \in Visitor : o # p => payPages'[o] = payPages[o]
    BY <1>15, <2>1 DEF Q!PayFails, PayTyped, SameRequests
  <2>3. /\ payPages'[p].code = payPages[p].code /\ payPages'[p].amount = payPages[p].amount
        /\ payPages[p].at = "paying" /\ payPages'[p].at = "idle"
    BY <1>15, <2>1 DEF Q!PayFails, PayTyped, PayPages
  <2>4. PageIsTrue(p) /\ payPages[p].at \in PagePlaces
    BY <1>15, <2>1 DEF PayScreenInv, PayTyped, PayPages
  <2>5. PageIsTrue(p)'
    BY <2>2, <2>3, <2>4 DEF PageIsTrue
  <2>6. QED
    BY <1>15, <2>2, <2>5, OnlyAPage
<1>16. ASSUME PayScreenInv, Q!TypeOK', NEW p \in Visitor, Q!SendPayment(p) PROVE PayScreenInv'
  <2>1. PayTyped
    BY <1>16, TypedPayments DEF PayScreenInv
  <2>2. /\ SameRequests /\ UNCHANGED <<requests, paySheet, openings>>
        /\ \A o \in Visitor : o # p => payPages'[o] = payPages[o]
    BY <1>16, <2>1 DEF Q!SendPayment, PayTyped, SameRequests
  <2>3. /\ payPages'[p].code = payPages[p].code /\ payPages'[p].amount = payPages[p].amount
        /\ payPages[p].at = "paying" /\ payPages'[p].at = "out" /\ payPages'[p].out = payPages[p].out
    BY <1>16, <2>1 DEF Q!SendPayment, PayTyped, PayPages
  <2>4. PageIsTrue(p) /\ payPages[p].at \in PagePlaces
    BY <1>16, <2>1 DEF PayScreenInv, PayTyped, PayPages
  <2>5. PageIsTrue(p)'
    BY <2>2, <2>3, <2>4 DEF PageIsTrue
  <2>6. QED
    BY <1>16, <2>2, <2>5, OnlyAPage
<1>17. ASSUME PayScreenInv, Q!TypeOK', NEW p \in Visitor, Q!PaymentMined(p) PROVE PayScreenInv'
  <2>1. PayTyped
    BY <1>17, TypedPayments DEF PayScreenInv
  <2>2. /\ SameRequests /\ UNCHANGED <<requests, paySheet, openings>>
        /\ \A o \in Visitor : o # p => payPages'[o] = payPages[o]
    BY <1>17, <2>1 DEF Q!PaymentMined, PayTyped, SameRequests
  <2>3. /\ payPages'[p].code = payPages[p].code /\ payPages'[p].amount = payPages[p].amount
        /\ payPages[p].at = "out" /\ payPages'[p].at = "posting" /\ payPages'[p].out = payPages[p].out
    BY <1>17, <2>1 DEF Q!PaymentMined, PayTyped, PayPages
  <2>4. PageIsTrue(p) /\ payPages[p].at \in PagePlaces
    BY <1>17, <2>1 DEF PayScreenInv, PayTyped, PayPages
  <2>5. PageIsTrue(p)'
    BY <2>2, <2>3, <2>4 DEF PageIsTrue
  <2>6. QED
    BY <1>17, <2>2, <2>5, OnlyAPage
<1>18. ASSUME PayScreenInv, Q!TypeOK', NEW p \in Visitor, Q!File(p) PROVE PayScreenInv'
  <2>1. PayTyped
    BY <1>18, TypedPayments DEF PayScreenInv
  <2>2. SameRequests
    <3>1. payPages[p].code \in X /\ requests[payPages[p].code].at # "none"
      BY <1>18, PageRequest DEF Q!File
    <3>2. requests' = requests \/ requests' = [requests EXCEPT ![payPages[p].code].at = "paid"]
      BY <1>18 DEF Q!File
    <3>3. QED
      BY <2>1, <3>1, <3>2, RequestMoves DEF PayTyped, RequestPlaces, SameRequests
  <2>3. /\ UNCHANGED <<paySheet, openings>>
        /\ \A o \in Visitor : o # p => payPages'[o] = payPages[o]
        /\ payPages'[p].code = payPages[p].code /\ payPages'[p].amount = payPages[p].amount
        /\ payPages[p].at = "posting" /\ payPages'[p].at = "over" /\ payPages'[p].out = payPages[p].out
    BY <1>18, <2>1 DEF Q!File, PayTyped, PayPages
  <2>4. payPages[p].code \in X /\ PageIsTrue(p)
    BY <1>18, <2>3, PageRequest DEF PayScreenInv
  <2>5. PageIsTrue(p)'
    BY <2>2, <2>3, <2>4 DEF PageIsTrue, SameRequests
  <2>6. QED
    BY <1>18, <2>2, <2>3, <2>5, OnlyAPage
<1>19. ASSUME PayScreenInv, Q!TypeOK', NEW p \in Visitor, Q!NotRecorded(p) PROVE PayScreenInv'
  <2>1. PayTyped
    BY <1>19, TypedPayments DEF PayScreenInv
  <2>2. /\ SameRequests /\ UNCHANGED <<requests, paySheet, openings>>
        /\ \A o \in Visitor : o # p => payPages'[o] = payPages[o]
    BY <1>19, <2>1 DEF Q!NotRecorded, PayTyped, SameRequests
  <2>3. /\ payPages'[p].code = payPages[p].code /\ payPages'[p].amount = payPages[p].amount
        /\ payPages[p].at \in {"out", "posting"} /\ payPages'[p].at = "over" /\ payPages'[p].out = payPages[p].out
    BY <1>19, <2>1 DEF Q!NotRecorded, PayTyped, PayPages
  <2>4. PageIsTrue(p) /\ payPages[p].at \in PagePlaces
    BY <1>19, <2>1 DEF PayScreenInv, PayTyped, PayPages
  <2>5. PageIsTrue(p)'
    BY <2>2, <2>3, <2>4 DEF PageIsTrue
  <2>6. QED
    BY <1>19, <2>2, <2>5, OnlyAPage
<1>20. QED
  BY PayScreenTypes, <1>1, <1>2, <1>3, <1>4, <1>5, <1>6, <1>7, <1>8, <1>9, <1>10, <1>11, <1>12,
    <1>13, <1>14, <1>15, <1>16, <1>17, <1>18, <1>19
  DEF PayScreenInv, Q!Next

LEMMA PayScreenRests == PayScreenInv /\ UNCHANGED <<QVars, glitches>> => PayScreenInv'
BY DEF PayScreenInv, Q!TypeOK, RequestsKept, SheetIsOwn, PageIsTrue, Q!None, Q!Amount, Q!NoRequest,
    Q!NoSheet, QVars

\* A code is minted once an opening, a bill names an amount, and a page pays it.
LEMMA PayScreenKept == PayScreenInv => Q!TypeOK /\ Q!CodesAreKept
<1> SUFFICES ASSUME PayScreenInv PROVE Q!CodesAreKept
  BY DEF PayScreenInv
<1>1. PayTyped
  BY TypedPayments DEF PayScreenInv
<1>2. ASSUME NEW n \in 1 .. MaxOpenings
      PROVE  Q!Cardinality({c \in X : requests[c].kind = "my" /\ requests[c].opening = n}) <= 1
  <2> DEFINE minted == {c \in X : requests[c].kind = "my" /\ requests[c].opening = n}
  <2>1. \A c, d \in minted : c = d
    BY DEF PayScreenInv, RequestsKept
  <2> HIDE DEF minted
  <2>2. Cardinality(minted) <= 1
    BY <2>1, AtMostOne
  <2>3. Q!Cardinality(minted) = Cardinality(minted)
    BY DEF Q!Cardinality, Cardinality
  <2>4. QED
    BY <2>2, <2>3 DEF minted
<1>3. /\ paySheet.my # Q!None => requests[paySheet.my].amount = 0
      /\ paySheet.bill # Q!None => requests[paySheet.bill].amount > 0 /\ requests[paySheet.bill].opening = openings
  BY <1>1 DEF PayScreenInv, RequestsKept, SheetIsOwn, PayTyped, PaySheets
<1>4. ASSUME NEW p \in Q!Paying
      PROVE  /\ payPages[p].out > 0
             /\ requests[payPages[p].code].amount # 0 => payPages[p].out = requests[payPages[p].code].amount
  BY DEF Q!Paying, PayScreenInv, PageIsTrue
<1>5. QED
  BY <1>2, <1>3, <1>4 DEF Q!CodesAreKept

-----------------------------------------------------------------------------
(* A merchant's code. *)

QrisViews ==
    [at : {"away", "loading", "ready", "error"}, merchant : Merchant \cup {M!None},
     rate : 0 .. MaxRates, typed : BOOLEAN, send : X \cup {M!None}]

QrisLocks ==
    [at : {"none", "sending", "posting", "filed", "settled", "refundable", "over"},
     merchant : Merchant \cup {M!None}, shown : Merchant \cup {M!None},
     priced : 0 .. MaxRates, paid : 0 .. MaxRates]

\* What a page of a code reads and pays is in bounds, and every lock pays whom it showed.
MerchantInv == M!TypeOK /\ M!PaysTheMerchantShown

LEMMA MerchantConstants ==
    "none" \notin Merchant /\ MaxRates \in Nat \ {0} /\ MaxGlitches \in Nat
BY ScreensAssumption DEF ScreensAssumption

LEMMA MerchantStarts == M!Init => MerchantInv
<1> SUFFICES ASSUME M!Init PROVE MerchantInv
  OBVIOUS
<1>1. M!TypeOK
  <2>1. payload \in Merchant \cup {M!None} /\ qrisStage = "idle" /\ rate \in 1 .. MaxRates
        /\ glitches \in 0 .. MaxGlitches
    BY MerchantConstants DEF M!Init
  <2>2. view \in [at : {"away", "loading", "ready", "error"}, merchant : Merchant \cup {M!None},
                  rate : 0 .. MaxRates, typed : BOOLEAN, send : X \cup {M!None}]
    BY MerchantConstants DEF M!Init, M!NoView
  <2>3. locks \in [X -> [at : {"none", "sending", "posting", "filed", "settled", "refundable", "over"},
                         merchant : Merchant \cup {M!None}, shown : Merchant \cup {M!None},
                         priced : 0 .. MaxRates, paid : 0 .. MaxRates]]
    BY MerchantConstants DEF M!Init, M!NoLock
  <2>4. QED
    BY <2>1, <2>2, <2>3 DEF M!TypeOK
<1>2. M!PaysTheMerchantShown
  BY DEF M!Init, M!NoLock, M!PaysTheMerchantShown
<1>3. QED
  BY <1>1, <1>2 DEF MerchantInv

LEMMA MerchantTypes == MerchantInv /\ M!Next => M!TypeOK'
<1>1. ASSUME MerchantInv, M!RateMoves PROVE M!TypeOK'
  BY <1>1, MerchantConstants DEF MerchantInv, M!RateMoves, M!TypeOK, M!None
<1>2. ASSUME MerchantInv, M!Leave PROVE M!TypeOK'
  <2>1. \/ view' = M!NoView
        \/ view' = [at |-> "loading", merchant |-> payload, rate |-> 0, typed |-> FALSE, send |-> M!None]
    BY <1>2 DEF M!Leave, M!NoView
  <2>2. view' \in QrisViews
    <3>1. /\ {"loading", "away"} \subseteq {"away", "loading", "ready", "error"}
          /\ {payload, M!None} \subseteq Merchant \cup {M!None} /\ 0 \in 0 .. MaxRates
      BY <1>2, MerchantConstants DEF MerchantInv, M!TypeOK
    <3>2. [at |-> "loading", merchant |-> payload, rate |-> 0, typed |-> FALSE, send |-> M!None] \in QrisViews
      BY <3>1 DEF QrisViews
    <3>3. M!NoView \in QrisViews
      BY <3>1 DEF M!NoView, QrisViews
    <3>4. QED
      BY <2>1, <3>2, <3>3
  <2>3. QED
    BY <1>2, <2>2 DEF M!Leave, MerchantInv, M!TypeOK, QrisViews
<1>3. ASSUME MerchantInv, M!Parsed PROVE M!TypeOK'
  <2>1. rate \in 0 .. MaxRates /\ view \in QrisViews
    BY MerchantConstants, <1>3 DEF MerchantInv, M!TypeOK, QrisViews, QrisLocks
  <2>2. view' \in QrisViews
    BY <2>1, <1>3 DEF M!Parsed, QrisViews
  <2>3. QED
    BY <1>3, <2>2 DEF M!Parsed, MerchantInv, M!TypeOK, QrisViews
<1>4. ASSUME MerchantInv, M!ParseFails PROVE M!TypeOK'
  BY <1>4, MerchantConstants DEF MerchantInv, M!ParseFails, M!Glitch, M!TypeOK, M!None
<1>5. ASSUME MerchantInv, M!TypeAmount PROVE M!TypeOK'
  BY <1>5, MerchantConstants DEF MerchantInv, M!TypeAmount, M!TypeOK, M!None
<1>6. ASSUME MerchantInv, NEW m \in Merchant, M!Scan(m) PROVE M!TypeOK'
  <2>1. view' = view \/ view' = [at |-> "loading", merchant |-> m, rate |-> 0, typed |-> FALSE, send |-> M!None]
    BY <1>6 DEF M!Scan, M!NoView
  <2>2. view' \in QrisViews
    <3>1. view \in QrisViews
      BY <1>6 DEF MerchantInv, M!TypeOK, QrisViews
    <3>2. /\ "loading" \in {"away", "loading", "ready", "error"} /\ m \in Merchant \cup {M!None}
          /\ 0 \in 0 .. MaxRates /\ FALSE \in BOOLEAN /\ M!None \in X \cup {M!None}
      BY MerchantConstants
    <3>3. [at |-> "loading", merchant |-> m, rate |-> 0, typed |-> FALSE, send |-> M!None] \in QrisViews
      BY <3>2 DEF QrisViews
    <3>4. QED
      BY <2>1, <3>1, <3>3
  <2>3. QED
    BY <1>6, <2>2 DEF M!Scan, MerchantInv, M!TypeOK, QrisViews
<1>7. ASSUME MerchantInv, NEW k \in X, M!PressConfirm(k) PROVE M!TypeOK'
  BY <1>7, MerchantConstants
  DEF MerchantInv, M!PressConfirm, M!Priced, M!NoLock, M!MerchantRef, M!None, M!TypeOK
<1>8. ASSUME MerchantInv, NEW k \in X, M!LockMined(k) PROVE M!TypeOK'
  BY <1>8, MerchantConstants DEF MerchantInv, M!LockMined, M!TypeOK, M!None
<1>9. ASSUME MerchantInv, NEW k \in X, M!SendFails(k) PROVE M!TypeOK'
  BY <1>9, MerchantConstants DEF MerchantInv, M!SendFails, M!Glitch, M!Says, M!TypeOK, M!None
<1>10. ASSUME MerchantInv, NEW k \in X, M!File(k) PROVE M!TypeOK'
  <2>1. rate \in 0 .. MaxRates /\ locks \in [X -> QrisLocks]
    BY MerchantConstants, <1>10 DEF MerchantInv, M!TypeOK, QrisViews, QrisLocks
  <2>2. [locks[k] EXCEPT !.at = "filed", !.paid = rate] \in QrisLocks
    BY <2>1 DEF QrisLocks
  <2>3. locks' = [locks EXCEPT ![k] = [locks[k] EXCEPT !.at = "filed", !.paid = rate]]
    BY <1>10, <2>1 DEF M!File
  <2>4. QED
    BY <1>10, <2>1, <2>2, <2>3 DEF M!File, MerchantInv, M!TypeOK, QrisLocks
<1>11. ASSUME MerchantInv, NEW k \in X, M!Settle(k) PROVE M!TypeOK'
  BY <1>11, MerchantConstants DEF MerchantInv, M!Settle, M!Says, M!TypeOK, M!None
<1>12. ASSUME MerchantInv, NEW k \in X, M!Expire(k) PROVE M!TypeOK'
  BY <1>12, MerchantConstants DEF MerchantInv, M!Expire, M!Says, M!TypeOK, M!None
<1>13. QED
  BY <1>1, <1>2, <1>3, <1>4, <1>5, <1>6, <1>7, <1>8, <1>9, <1>10, <1>11, <1>12 DEF M!Next

LEMMA MerchantStep == MerchantInv /\ M!Next => MerchantInv'
<1>1. ASSUME MerchantInv, M!TypeOK', M!RateMoves PROVE MerchantInv'
  BY <1>1, MerchantConstants DEF M!RateMoves, MerchantInv, M!TypeOK, M!PaysTheMerchantShown, M!None
<1>2. ASSUME MerchantInv, M!TypeOK', M!Leave PROVE MerchantInv'
  BY <1>2, MerchantConstants
  DEF M!Leave, M!NoView, M!None, MerchantInv, M!TypeOK, M!PaysTheMerchantShown
<1>3. ASSUME MerchantInv, M!TypeOK', M!Parsed PROVE MerchantInv'
  BY <1>3, MerchantConstants DEF M!Parsed, MerchantInv, M!TypeOK, M!PaysTheMerchantShown, M!None
<1>4. ASSUME MerchantInv, M!TypeOK', M!ParseFails PROVE MerchantInv'
  BY <1>4, MerchantConstants
  DEF M!ParseFails, M!Glitch, MerchantInv, M!TypeOK, M!PaysTheMerchantShown, M!None
<1>5. ASSUME MerchantInv, M!TypeOK', M!TypeAmount PROVE MerchantInv'
  BY <1>5, MerchantConstants DEF M!TypeAmount, MerchantInv, M!TypeOK, M!PaysTheMerchantShown, M!None
<1>6. ASSUME MerchantInv, M!TypeOK', NEW m \in Merchant, M!Scan(m) PROVE MerchantInv'
  BY <1>6, MerchantConstants
  DEF M!Scan, M!NoView, M!None, MerchantInv, M!TypeOK, M!PaysTheMerchantShown
<1>7. ASSUME MerchantInv, M!TypeOK', NEW k \in X, M!PressConfirm(k) PROVE MerchantInv'
  BY <1>7, MerchantConstants
  DEF M!PressConfirm, M!Priced, M!NoLock, M!MerchantRef, M!None, MerchantInv, M!TypeOK,
      M!PaysTheMerchantShown
<1>8. ASSUME MerchantInv, M!TypeOK', NEW k \in X, M!LockMined(k) PROVE MerchantInv'
  BY <1>8, MerchantConstants DEF M!LockMined, MerchantInv, M!TypeOK, M!PaysTheMerchantShown, M!None
<1>9. ASSUME MerchantInv, M!TypeOK', NEW k \in X, M!SendFails(k) PROVE MerchantInv'
  BY <1>9, MerchantConstants
  DEF M!SendFails, M!Glitch, M!Says, MerchantInv, M!TypeOK, M!PaysTheMerchantShown, M!None
<1>10. ASSUME MerchantInv, M!TypeOK', NEW k \in X, M!File(k) PROVE MerchantInv'
  BY <1>10, MerchantConstants DEF M!File, MerchantInv, M!TypeOK, M!PaysTheMerchantShown, M!None
<1>11. ASSUME MerchantInv, M!TypeOK', NEW k \in X, M!Settle(k) PROVE MerchantInv'
  BY <1>11, MerchantConstants
  DEF M!Settle, M!Says, MerchantInv, M!TypeOK, M!PaysTheMerchantShown, M!None
<1>12. ASSUME MerchantInv, M!TypeOK', NEW k \in X, M!Expire(k) PROVE MerchantInv'
  BY <1>12, MerchantConstants
  DEF M!Expire, M!Says, MerchantInv, M!TypeOK, M!PaysTheMerchantShown, M!None
<1>13. QED
  BY MerchantTypes, <1>1, <1>2, <1>3, <1>4, <1>5, <1>6, <1>7, <1>8, <1>9, <1>10, <1>11, <1>12
  DEF MerchantInv, M!Next

LEMMA MerchantRests == MerchantInv /\ UNCHANGED <<MVars, glitches>> => MerchantInv'
BY DEF MerchantInv, M!TypeOK, M!PaysTheMerchantShown, M!None, MVars

-----------------------------------------------------------------------------
(* A bill. *)

\* A share paid with Saku was moved by a transfer, and an answer under way is of what the share is
\* or was before it was paid.
AnswersAreOld ==
    /\ share = "saku" => \E p \in Y : presses[p].at \in S!Moved
    /\ \A g \in X : \A s \in answers[g] : s \in {"pending", share}
    /\ \A g \in X : billPages[g].view \in {S!None, "pending", share}

BillScreenInv == S!TypeOK /\ AnswersAreOld

LEMMA BillScreenConstants ==
    "none" \notin X /\ "none" \notin Y /\ MaxGlitches \in Nat
BY ScreensAssumption DEF ScreensAssumption

LEMMA BillScreenStarts == S!Init => BillScreenInv
BY BillScreenConstants DEF S!Init, S!None, S!Status, S!TypeOK, AnswersAreOld, BillScreenInv

\* A page, or none, is free again; what it shows stays.
LEMMA FreedPage ==
    ASSUME S!TypeOK, NEW g, billPages' = [billPages EXCEPT ![g].busy = FALSE]
    PROVE  billPages' \in [X -> [view : S!Status \cup {S!None}, busy : BOOLEAN, method : {"saku", "external"}]]
<1>1. CASE g \in X
  BY <1>1 DEF S!TypeOK
<1>2. CASE g \notin X
  BY <1>2 DEF S!TypeOK
<1>3. QED
  BY <1>1, <1>2

\* The share that is loaded is an answer more.
LEMMA LoadedType ==
    ASSUME S!TypeOK, share' \in S!Status, NEW g, S!Load(g)
    PROVE  answers' \in [X -> SUBSET S!Status]
<1>1. CASE g \in X
  BY <1>1 DEF S!TypeOK, S!Load
<1>2. CASE g \notin X
  BY <1>2 DEF S!TypeOK, S!Load
<1>3. QED
  BY <1>1, <1>2

LEMMA BillScreenTypes == BillScreenInv /\ S!Next => S!TypeOK'
<1>1. ASSUME BillScreenInv, NEW g \in X, S!Visit(g) PROVE S!TypeOK'
  BY <1>1, BillScreenConstants DEF BillScreenInv, S!Visit, S!Load, S!TypeOK, S!Status, S!None
<1>2. ASSUME BillScreenInv, NEW g \in X, S!Choose(g) PROVE S!TypeOK'
  BY <1>2, BillScreenConstants DEF BillScreenInv, S!Choose, S!Owes, S!TypeOK, S!Status, S!None
<1>3. ASSUME BillScreenInv, NEW g \in X, S!PressMark(g) PROVE S!TypeOK'
  BY <1>3, BillScreenConstants DEF BillScreenInv, S!PressMark, S!Owes, S!TypeOK, S!Status, S!None
<1>4. ASSUME BillScreenInv, NEW g \in X, S!Mark(g) PROVE S!TypeOK'
  <2>1. billPages' \in [X -> [view : S!Status \cup {S!None}, busy : BOOLEAN, method : {"saku", "external"}]]
    BY <1>4, FreedPage DEF BillScreenInv, S!Mark
  <2>2. share' \in S!Status
    BY <1>4 DEF BillScreenInv, S!Mark, S!TypeOK, S!Status
  <2>3. answers' \in [X -> SUBSET S!Status]
    BY <1>4, <2>2, LoadedType DEF BillScreenInv, S!Mark, S!TypeOK
  <2>4. QED
    BY <1>4, <2>1, <2>2, <2>3 DEF BillScreenInv, S!Mark, S!TypeOK
<1>5. ASSUME BillScreenInv, NEW g \in X, S!MarkFails(g) PROVE S!TypeOK'
  <2>1. billPages' \in [X -> [view : S!Status \cup {S!None}, busy : BOOLEAN, method : {"saku", "external"}]]
    BY <1>5, FreedPage DEF BillScreenInv, S!MarkFails
  <2>2. QED
    BY <1>5, <2>1, BillScreenConstants DEF BillScreenInv, S!MarkFails, S!Glitch, S!TypeOK
<1>6. ASSUME BillScreenInv, NEW g \in X, NEW s \in S!Status, S!Loaded(g, s) PROVE S!TypeOK'
  BY <1>6, BillScreenConstants DEF BillScreenInv, S!Loaded, S!Shown, S!TypeOK, S!Status, S!None
<1>7. ASSUME BillScreenInv, NEW g \in X, NEW p \in Y, S!PressPay(p, g) PROVE S!TypeOK'
  <2>1. billPages' \in [X -> [view : S!Status \cup {S!None}, busy : BOOLEAN, method : {"saku", "external"}]]
    <3>1. billPages' = [billPages EXCEPT ![g] = [billPages[g] EXCEPT !.busy = TRUE]]
      BY <1>7 DEF S!PressPay
    <3>2. billPages \in [X -> [view : S!Status \cup {S!None}, busy : BOOLEAN, method : {"saku", "external"}]]
      BY <1>7 DEF BillScreenInv, S!TypeOK
    <3>3. [billPages[g] EXCEPT !.busy = TRUE] \in [view : S!Status \cup {S!None}, busy : BOOLEAN, method : {"saku", "external"}]
      BY <1>7, <3>2
    <3>4. QED
      BY <3>1, <3>2, <3>3
  <2>2. presses' \in [Y -> [at : {S!None, "signing", "out", "posting", "over", "failed"}, page : X \cup {S!None}]]
    BY <1>7 DEF BillScreenInv, S!PressPay, S!TypeOK
  <2>3. QED
    BY <1>7, <2>1, <2>2 DEF BillScreenInv, S!PressPay, S!TypeOK
<1>8. ASSUME BillScreenInv, NEW p \in Y, S!Broadcast(p) PROVE S!TypeOK'
  BY <1>8, BillScreenConstants DEF BillScreenInv, S!Broadcast, S!TypeOK, S!Status, S!None
<1>9. ASSUME BillScreenInv, NEW p \in Y, S!PayFails(p) PROVE S!TypeOK'
  <2>1. billPages' \in [X -> [view : S!Status \cup {S!None}, busy : BOOLEAN, method : {"saku", "external"}]]
    BY <1>9, FreedPage DEF BillScreenInv, S!PayFails
  <2>2. QED
    BY <1>9, <2>1, BillScreenConstants DEF BillScreenInv, S!PayFails, S!Glitch, S!TypeOK
<1>10. ASSUME BillScreenInv, NEW p \in Y, S!Mined(p) PROVE S!TypeOK'
  <2>1. billPages' \in [X -> [view : S!Status \cup {S!None}, busy : BOOLEAN, method : {"saku", "external"}]]
    BY <1>10, FreedPage DEF BillScreenInv, S!Mined
  <2>2. QED
    BY <1>10, <2>1, BillScreenConstants DEF BillScreenInv, S!Mined, S!Glitch, S!TypeOK
<1>11. ASSUME BillScreenInv, NEW p \in Y, S!File(p) PROVE S!TypeOK'
  <2>1. share' \in S!Status
    BY <1>11 DEF BillScreenInv, S!File, S!TypeOK, S!Status
  <2>2. answers' \in [X -> SUBSET S!Status]
    BY <1>11, <2>1, LoadedType DEF BillScreenInv, S!File
  <2>3. QED
    BY <1>11, <2>1, <2>2, BillScreenConstants DEF BillScreenInv, S!File, S!Glitch, S!TypeOK
<1>12. QED
  BY <1>1, <1>2, <1>3, <1>4, <1>5, <1>6, <1>7, <1>8, <1>9, <1>10, <1>11 DEF S!Next

LEMMA BillScreenStep == BillScreenInv /\ S!Next => BillScreenInv'
<1>1. ASSUME BillScreenInv, S!TypeOK', NEW g \in X, S!Visit(g) PROVE BillScreenInv'
  BY <1>1, BillScreenConstants
  DEF S!Visit, S!Load, BillScreenInv, S!TypeOK, AnswersAreOld, S!Status, S!None, S!Moved
<1>2. ASSUME BillScreenInv, S!TypeOK', NEW g \in X, S!Choose(g) PROVE BillScreenInv'
  BY <1>2, BillScreenConstants
  DEF S!Choose, S!Owes, BillScreenInv, S!TypeOK, AnswersAreOld, S!Status, S!None, S!Moved
<1>3. ASSUME BillScreenInv, S!TypeOK', NEW g \in X, S!PressMark(g) PROVE BillScreenInv'
  BY <1>3, BillScreenConstants
  DEF S!PressMark, S!Owes, BillScreenInv, S!TypeOK, AnswersAreOld, S!Status, S!None, S!Moved
<1>4. ASSUME BillScreenInv, S!TypeOK', NEW g \in X, S!Mark(g) PROVE BillScreenInv'
  BY <1>4, BillScreenConstants
  DEF S!Mark, S!Marking, S!Load, BillScreenInv, S!TypeOK, AnswersAreOld, S!Status, S!None, S!Moved
<1>5. ASSUME BillScreenInv, S!TypeOK', NEW g \in X, S!MarkFails(g) PROVE BillScreenInv'
  BY <1>5, BillScreenConstants
  DEF S!MarkFails, S!Marking, S!Glitch, BillScreenInv, S!TypeOK, AnswersAreOld, S!Status, S!None,
      S!Moved
<1>6. ASSUME BillScreenInv, S!TypeOK', NEW g \in X, NEW s \in S!Status, S!Loaded(g, s)
      PROVE  BillScreenInv'
  BY <1>6, BillScreenConstants
  DEF S!Loaded, S!Shown, BillScreenInv, S!TypeOK, AnswersAreOld, S!Status, S!None, S!Moved
<1>7. ASSUME BillScreenInv, S!TypeOK', NEW g \in X, NEW p \in Y, S!PressPay(p, g) PROVE BillScreenInv'
  BY <1>7, BillScreenConstants
  DEF S!PressPay, S!Owes, S!None, BillScreenInv, S!TypeOK, AnswersAreOld, S!Status, S!Moved
<1>8. ASSUME BillScreenInv, S!TypeOK', NEW p \in Y, S!Broadcast(p) PROVE BillScreenInv'
  BY <1>8, BillScreenConstants
  DEF S!Broadcast, BillScreenInv, S!TypeOK, AnswersAreOld, S!Status, S!None, S!Moved
<1>9. ASSUME BillScreenInv, S!TypeOK', NEW p \in Y, S!PayFails(p) PROVE BillScreenInv'
  BY <1>9, BillScreenConstants
  DEF S!PayFails, S!Glitch, BillScreenInv, S!TypeOK, AnswersAreOld, S!Status, S!None, S!Moved
<1>10. ASSUME BillScreenInv, S!TypeOK', NEW p \in Y, S!Mined(p) PROVE BillScreenInv'
  BY <1>10, BillScreenConstants
  DEF S!Mined, BillScreenInv, S!TypeOK, AnswersAreOld, S!Status, S!None, S!Moved
<1>11. ASSUME BillScreenInv, S!TypeOK', NEW p \in Y, S!File(p) PROVE BillScreenInv'
  BY <1>11, BillScreenConstants
  DEF S!File, S!Glitch, S!Load, BillScreenInv, S!TypeOK, AnswersAreOld, S!Status, S!None, S!Moved
<1>12. QED
  BY BillScreenTypes, <1>1, <1>2, <1>3, <1>4, <1>5, <1>6, <1>7, <1>8, <1>9, <1>10, <1>11
  DEF BillScreenInv, S!Next

LEMMA BillScreenRests == BillScreenInv /\ UNCHANGED <<SVars, glitches>> => BillScreenInv'
BY DEF BillScreenInv, S!TypeOK, AnswersAreOld, S!Status, S!None, S!Moved, SVars

\* A page shows what the share was, which stays once it is paid.
LEMMA BillScreenKept == BillScreenInv => S!TypeOK /\ S!ShownAsItMoved
BY DEF BillScreenInv, AnswersAreOld, S!ShownAsItMoved, S!None

-----------------------------------------------------------------------------
(* Recovering. *)

\* What the records of the screens hold.
PageCards == {"intro", "old", "sent", "refused", "home"} \cup R!Stages
PageCalls == {R!None, "starting", "sending", "finishing", "moving"}
PageTold == {R!None, "no_answer", "refused", "dead_code", "in_use", "closed"}
RecoverPages ==
    [shows : PageCards, step : {"phone", "code"}, phone : Number \cup {R!None}, otp : 0 .. MaxCodes,
     call : PageCalls, sent : Number \cup {R!None}, round : 0 .. MaxRounds, told : PageTold]
SheetPhases == {"shut", "dead", "ready", "sending", "voting", "answered"}
RecoverSheets ==
    [phase : SheetPhases, guardian : Y \cup {R!None}, round : 0 .. MaxRounds, accept : BOOLEAN,
     lost : BOOLEAN]

RecoverTyped ==
    /\ recoverStage \in R!Stages /\ round \in 0 .. MaxRounds
    /\ votes \subseteq Y
    /\ account \in Number \cup {R!Old}
    /\ code \in [Number -> 0 .. MaxCodes]
    /\ inbox \subseteq Number \X (1 .. MaxCodes)
    /\ recoverCookie \in 0 .. MaxRounds
    /\ recoverPage \in [X -> RecoverPages]
    /\ recoverSheet \in [Sheet -> RecoverSheets]
    /\ glitches \in 0 .. MaxGlitches

\* Every code goes to one number, and the live one of a number is one it got.
CodesAreOnes ==
    /\ \A n \in Number : code[n] # 0 => <<n, code[n]>> \in inbox
    /\ \A s, t \in inbox : s[2] = t[2] => s = t
    /\ \A s \in inbox : s[2] <= Cardinality(inbox)

\* From its code on, a page keeps the number it asked for; what it finishes with was read, and what
\* it moves to is a number its owner reads.
PageKeepsNumber(p) ==
    /\ recoverPage[p].call = "sending" \/ recoverPage[p].step = "code" => recoverPage[p].phone # R!None
    /\ recoverPage[p].call = "sending" => recoverPage[p].sent # R!None
    /\ recoverPage[p].call \in {"finishing", "moving"} => recoverPage[p].step = "code"
    /\ recoverPage[p].call = "finishing" => \E n \in Own : <<n, recoverPage[p].otp>> \in inbox
    /\ recoverPage[p].call = "moving" => recoverPage[p].phone \in Own \ Taken

\* An answer given counts for its round: a vote stays, and a round that was closed stays closed.
AnswerCounts(s) ==
    /\ recoverSheet[s].round <= round
    /\ recoverSheet[s].phase # "shut" => recoverSheet[s].guardian # R!None /\ recoverSheet[s].round > 0
    /\ recoverSheet[s].phase # "shut" /\ recoverSheet[s].round = round => recoverStage # "mailed"
    /\ recoverSheet[s].phase = "answered" /\ recoverSheet[s].round = round =>
        IF recoverSheet[s].accept THEN recoverSheet[s].guardian \in votes
        ELSE recoverStage # "awaiting_guardian" \/ recoverSheet[s].lost

RecoverScreenInv ==
    /\ R!TypeOK
    /\ CodesAreOnes
    /\ \A p \in X : PageKeepsNumber(p)
    /\ R!MovedWhereRead
    /\ \A s \in Sheet : AnswerCounts(s)

\* The request goes on: in one round, votes stay, and nothing goes back to an earlier stage.
StageGoesOn ==
    /\ round <= round'
    /\ round' = round =>
        /\ recoverStage' = "mailed" => recoverStage = "mailed"
        /\ recoverStage' = "awaiting_guardian" => recoverStage \in {"mailed", "awaiting_guardian"}
        /\ votes \subseteq votes'

LEMMA SameCountOfMessages == \A V : R!Cardinality(V) = Cardinality(V)
BY DEF R!Cardinality, Cardinality

LEMMA RecoverScreenConstants ==
    /\ R!None \notin Number /\ R!Old \notin Number /\ R!None \notin Y
    /\ R!None \notin {"starting", "sending", "finishing", "moving"}
    /\ MaxCodes \in Nat /\ MaxRounds \in Nat /\ MaxGlitches \in Nat /\ IsFiniteSet(Number)
BY ScreensAssumption DEF ScreensAssumption, R!None, R!Old

LEMMA TypedRecovery == (RecoverTyped <=> R!TypeOK) /\ (RecoverTyped' <=> R!TypeOK')
BY Zenon
DEF RecoverTyped, R!TypeOK, PageCards, PageCalls, PageTold, RecoverPages, SheetPhases, RecoverSheets

LEMMA RecoverBlanks == R!NoPage \in RecoverPages /\ R!NoSheet \in RecoverSheets
<1>1. R!NoPage \in RecoverPages
  BY RecoverScreenConstants DEF R!NoPage, RecoverPages, PageCards, PageCalls, PageTold
<1>2. R!NoSheet \in RecoverSheets
  BY RecoverScreenConstants DEF R!NoSheet, RecoverSheets, SheetPhases
<1>3. QED
  BY <1>1, <1>2

\* Codes are numbered as they are sent.
LEMMA InboxGrows ==
    ASSUME inbox \subseteq Number \X (1 .. MaxCodes), \A s \in inbox : s[2] <= Cardinality(inbox)
    PROVE  /\ IsFiniteSet(inbox) /\ Cardinality(inbox) \in Nat
           /\ \A n \in Number :
                /\ <<n, Cardinality(inbox) + 1>> \notin inbox
                /\ Cardinality(inbox \cup {<<n, Cardinality(inbox) + 1>>}) = Cardinality(inbox) + 1
<1>1. IsFiniteSet(Number \X (1 .. MaxCodes))
  <2>1. 1 \in Int /\ MaxCodes \in Int
    BY RecoverScreenConstants
  <2>2. IsFiniteSet(1 .. MaxCodes)
    BY <2>1, FS_Interval
  <2>3. QED
    BY <2>2, RecoverScreenConstants, FS_Product
<1>2. IsFiniteSet(inbox) /\ Cardinality(inbox) \in Nat
  BY <1>1, FS_Subset, FS_CardinalityType
<1>3. ASSUME NEW n \in Number PROVE <<n, Cardinality(inbox) + 1>> \notin inbox
  BY <1>2
<1>4. ASSUME NEW n \in Number
      PROVE  Cardinality(inbox \cup {<<n, Cardinality(inbox) + 1>>}) = Cardinality(inbox) + 1
  BY <1>2, <1>3, <1>4, FS_AddElement
<1>5. QED
  BY <1>2, <1>3, <1>4

LEMMA RecoverScreenStarts == R!Init => RecoverScreenInv
<1> SUFFICES ASSUME R!Init PROVE RecoverScreenInv
  OBVIOUS
<1>1. R!TypeOK
  <2>1. recoverStage \in R!Stages /\ account \in Number \cup {R!Old} /\ votes \subseteq Y
        /\ inbox \subseteq Number \X (1 .. MaxCodes)
    BY DEF R!Init, R!Stages
  <2>2. round \in 0 .. MaxRounds /\ code \in [Number -> 0 .. MaxCodes] /\ recoverCookie \in 0 .. MaxRounds
        /\ glitches \in 0 .. MaxGlitches
    BY RecoverScreenConstants DEF R!Init
  <2>3. recoverPage \in [X -> RecoverPages] /\ recoverSheet \in [Sheet -> RecoverSheets]
    BY RecoverBlanks DEF R!Init
  <2>4. QED
    BY <2>1, <2>2, <2>3, TypedRecovery DEF RecoverTyped
<1>2. CodesAreOnes /\ R!MovedWhereRead
  BY DEF R!Init, CodesAreOnes, R!MovedWhereRead
<1>3. ASSUME NEW p \in X PROVE PageKeepsNumber(p)
  BY <1>3 DEF R!Init, R!NoPage, R!None, PageKeepsNumber
<1>4. ASSUME NEW s \in Sheet PROVE AnswerCounts(s)
  BY <1>4 DEF R!Init, R!NoSheet, AnswerCounts
<1>5. QED
  BY <1>1, <1>2, <1>3, <1>4 DEF RecoverScreenInv

\* What a page shows next, and a call without an answer.
LEMMA PageShows ==
    ASSUME RecoverTyped, NEW p \in X, NEW w \in RecoverPages, R!Show(p, w)
    PROVE  /\ recoverPage' \in [X -> RecoverPages] /\ recoverPage'[p] = w
           /\ \A q \in X : q # p => recoverPage'[q] = recoverPage[q]
BY DEF R!Show, RecoverTyped

LEMMA PageFails ==
    ASSUME RecoverTyped, NEW p \in X, NEW why \in PageTold
    PROVE  /\ R!Fails(p, why) \in RecoverPages
           /\ R!Fails(p, why).step = recoverPage[p].step /\ R!Fails(p, why).phone = recoverPage[p].phone
           /\ R!Fails(p, why).call = R!None
<1>1. recoverPage[p] \in RecoverPages /\ 0 \in 0 .. MaxCodes /\ R!None \in PageCalls
  BY RecoverScreenConstants DEF RecoverTyped, PageCalls
<1>2. QED
  BY <1>1 DEF R!Fails, RecoverPages

LEMMA RecoverGlitch == RecoverTyped /\ R!Glitch => glitches' \in 0 .. MaxGlitches
BY RecoverScreenConstants DEF RecoverTyped, R!Glitch

LEMMA RecoverScreenTypes == RecoverScreenInv /\ R!Next => R!TypeOK'
<1>1. ASSUME RecoverScreenInv, R!Expire PROVE R!TypeOK'
  <2>1. RecoverTyped
    BY <1>1, TypedRecovery DEF RecoverScreenInv
  <2>2. "expired" \in R!Stages
    BY DEF R!Stages
  <2>3. QED
    BY <1>1, <2>1, <2>2, TypedRecovery DEF R!Expire, R!server, R!codes, RecoverTyped
<1>2. ASSUME RecoverScreenInv, NEW n \in Number, R!CodeDies(n) PROVE R!TypeOK'
  <2>1. RecoverTyped
    BY <1>2, TypedRecovery DEF RecoverScreenInv
  <2>2. code' \in [Number -> 0 .. MaxCodes]
    BY <1>2, <2>1, RecoverScreenConstants DEF R!CodeDies, RecoverTyped
  <2>3. QED
    BY <1>2, <2>1, <2>2, RecoverGlitch, TypedRecovery DEF R!CodeDies, R!server, R!codes, RecoverTyped
<1>3. ASSUME RecoverScreenInv, NEW p \in X, R!TypeOldNumber(p) PROVE R!TypeOK'
  <2>1. RecoverTyped
    BY <1>3, TypedRecovery DEF RecoverScreenInv
  <2>2. recoverPage[p] \in RecoverPages
    BY <2>1 DEF RecoverTyped
  <2>3. [recoverPage[p] EXCEPT !.shows = "old"] \in RecoverPages
    BY <1>3, <2>1, <2>2, RecoverBlanks, RecoverScreenConstants
    DEF R!TypeOldNumber, RecoverTyped, RecoverPages, PageCards, PageCalls, PageTold, R!Stages
  <2>4. recoverPage' \in [X -> RecoverPages]
    BY <1>3, <2>1, <2>3, PageShows DEF R!TypeOldNumber
  <2>9. QED
    BY <1>3, <2>1, <2>4, TypedRecovery DEF R!TypeOldNumber, R!server, R!codes, RecoverTyped
<1>4. ASSUME RecoverScreenInv, NEW p \in X, R!BackToIntro(p) PROVE R!TypeOK'
  <2>1. RecoverTyped
    BY <1>4, TypedRecovery DEF RecoverScreenInv
  <2>2. recoverPage[p] \in RecoverPages
    BY <2>1 DEF RecoverTyped
  <2>3. /\ [R!NoPage EXCEPT !.shows = "old"] \in RecoverPages
        /\ R!NoPage \in RecoverPages
    BY <1>4, <2>1, <2>2, RecoverBlanks, RecoverScreenConstants
    DEF R!BackToIntro, RecoverTyped, RecoverPages, PageCards, PageCalls, PageTold, R!Stages
  <2>4. recoverPage' \in [X -> RecoverPages]
    BY <1>4, <2>1, <2>3, PageShows DEF R!BackToIntro
  <2>9. QED
    BY <1>4, <2>1, <2>4, TypedRecovery DEF R!BackToIntro, R!server, R!codes, RecoverTyped
<1>5. ASSUME RecoverScreenInv, NEW p \in X, R!PressStart(p) PROVE R!TypeOK'
  <2>1. RecoverTyped
    BY <1>5, TypedRecovery DEF RecoverScreenInv
  <2>2. recoverPage[p] \in RecoverPages
    BY <2>1 DEF RecoverTyped
  <2>3. [recoverPage[p] EXCEPT !.call = "starting"] \in RecoverPages
    BY <1>5, <2>1, <2>2, RecoverBlanks, RecoverScreenConstants
    DEF R!PressStart, RecoverTyped, RecoverPages, PageCards, PageCalls, PageTold, R!Stages
  <2>4. recoverPage' \in [X -> RecoverPages]
    BY <1>5, <2>1, <2>3, PageShows DEF R!PressStart
  <2>9. QED
    BY <1>5, <2>1, <2>4, TypedRecovery DEF R!PressStart, R!server, R!codes, RecoverTyped
<1>6. ASSUME RecoverScreenInv, NEW p \in X, R!Start(p) PROVE R!TypeOK'
  <2>1. RecoverTyped
    BY <1>6, TypedRecovery DEF RecoverScreenInv
  <2>2. recoverPage[p] \in RecoverPages
    BY <2>1 DEF RecoverTyped
  <2>3. /\ [recoverPage[p] EXCEPT !.call = R!None, !.shows = "sent"] \in RecoverPages
        /\ [recoverPage[p] EXCEPT !.call = R!None, !.told = "no_answer"] \in RecoverPages
    BY <1>6, <2>1, <2>2, RecoverBlanks, RecoverScreenConstants
    DEF R!Start, RecoverTyped, RecoverPages, PageCards, PageCalls, PageTold, R!Stages
  <2>4. recoverPage' \in [X -> RecoverPages]
    BY <1>6, <2>1, <2>3, PageShows DEF R!Start
  <2>5. recoverStage' \in R!Stages /\ round' \in 0 .. MaxRounds /\ votes' \subseteq Y
    BY <1>6, <2>1, RecoverScreenConstants DEF R!Start, R!Stages, RecoverTyped
  <2>6. glitches' \in 0 .. MaxGlitches
    BY <1>6, <2>1, RecoverGlitch DEF R!Start, RecoverTyped
  <2>9. QED
    BY <1>6, <2>1, <2>4, <2>5, <2>6, TypedRecovery DEF R!Start, R!server, R!codes, RecoverTyped
<1>7. ASSUME RecoverScreenInv, NEW p \in X, R!RefuseStart(p) PROVE R!TypeOK'
  <2>1. RecoverTyped
    BY <1>7, TypedRecovery DEF RecoverScreenInv
  <2>2. recoverPage[p] \in RecoverPages
    BY <2>1 DEF RecoverTyped
  <2>3. [recoverPage[p] EXCEPT !.call = R!None, !.shows = "refused"] \in RecoverPages
    BY <1>7, <2>1, <2>2, RecoverBlanks, RecoverScreenConstants
    DEF R!RefuseStart, RecoverTyped, RecoverPages, PageCards, PageCalls, PageTold, R!Stages
  <2>4. recoverPage' \in [X -> RecoverPages]
    BY <1>7, <2>1, <2>3, PageShows DEF R!RefuseStart
  <2>9. QED
    BY <1>7, <2>1, <2>4, TypedRecovery DEF R!RefuseStart, R!server, R!codes, RecoverTyped
<1>8. ASSUME RecoverScreenInv, NEW p \in X, R!OpenFirstLink(p) PROVE R!TypeOK'
  <2>1. RecoverTyped
    BY <1>8, TypedRecovery DEF RecoverScreenInv
  <2>2. recoverStage' \in R!Stages /\ recoverStage' \in PageCards
    BY <1>8, <2>1 DEF R!OpenFirstLink, RecoverTyped, R!Stages, PageCards
  <2>3. [R!NoPage EXCEPT !.shows = IF recoverStage = "choose_number" THEN "sent" ELSE recoverStage'] \in RecoverPages
    BY <2>2, RecoverBlanks DEF RecoverPages, PageCards
  <2>4. recoverPage' \in [X -> RecoverPages]
    BY <1>8, <2>1, <2>3, PageShows DEF R!OpenFirstLink
  <2>5. QED
    BY <1>8, <2>1, <2>2, <2>4, TypedRecovery DEF R!OpenFirstLink, R!server, R!codes, RecoverTyped
<1>9. ASSUME RecoverScreenInv, NEW p \in X, R!OpenFinishLink(p) PROVE R!TypeOK'
  <2>1. RecoverTyped
    BY <1>9, TypedRecovery DEF RecoverScreenInv
  <2>2. recoverPage[p] \in RecoverPages
    BY <2>1 DEF RecoverTyped
  <2>3. [R!NoPage EXCEPT !.shows = "choose_number", !.round = round] \in RecoverPages
    BY <1>9, <2>1, <2>2, RecoverBlanks, RecoverScreenConstants
    DEF R!OpenFinishLink, RecoverTyped, RecoverPages, PageCards, PageCalls, PageTold, R!Stages
  <2>4. recoverPage' \in [X -> RecoverPages]
    BY <1>9, <2>1, <2>3, PageShows DEF R!OpenFinishLink
  <2>9. QED
    BY <1>9, <2>1, <2>4, TypedRecovery DEF R!OpenFinishLink, R!server, R!codes, RecoverTyped
<1>10. ASSUME RecoverScreenInv, NEW p \in X, R!PressSend(p) PROVE R!TypeOK'
  <2>1. RecoverTyped
    BY <1>10, TypedRecovery DEF RecoverScreenInv
  <2>2. recoverPage[p] \in RecoverPages
    BY <2>1 DEF RecoverTyped
  <2>3. [recoverPage[p] EXCEPT !.call = "sending", !.sent = recoverPage[p].phone, !.told = R!None] \in RecoverPages
    BY <1>10, <2>1, <2>2, RecoverBlanks, RecoverScreenConstants
    DEF R!PressSend, RecoverTyped, RecoverPages, PageCards, PageCalls, PageTold, R!Stages
  <2>4. recoverPage' \in [X -> RecoverPages]
    BY <1>10, <2>1, <2>3, PageShows DEF R!PressSend
  <2>9. QED
    BY <1>10, <2>1, <2>4, TypedRecovery DEF R!PressSend, R!server, R!codes, RecoverTyped
<1>11. ASSUME RecoverScreenInv, NEW p \in X, R!SendCode(p) PROVE R!TypeOK'
  <2>1. RecoverTyped
    BY <1>11, TypedRecovery DEF RecoverScreenInv
  <2>2. recoverPage[p] \in RecoverPages
    BY <2>1 DEF RecoverTyped
  <2>3. /\ [recoverPage[p] EXCEPT !.call = R!None, !.sent = R!None, !.told = "no_answer"] \in RecoverPages
        /\ [recoverPage[p] EXCEPT !.call = R!None, !.sent = R!None, !.step = "code"] \in RecoverPages
    BY <1>11, <2>1, <2>2, RecoverBlanks, RecoverScreenConstants
    DEF R!SendCode, RecoverTyped, RecoverPages, PageCards, PageCalls, PageTold, R!Stages
  <2>4. recoverPage' \in [X -> RecoverPages]
    BY <1>11, <2>1, <2>3, PageShows DEF R!SendCode
  <2>5. recoverPage[p].sent \in Number
    BY <1>11, <2>2 DEF R!SendCode, RecoverScreenInv, PageKeepsNumber, RecoverPages
  <2>6. Cardinality(inbox) \in Nat
    BY <1>11, <2>1, InboxGrows DEF RecoverScreenInv, CodesAreOnes, RecoverTyped
  <2>7. code' \in [Number -> 0 .. MaxCodes] /\ inbox' \subseteq Number \X (1 .. MaxCodes)
    <3>1. /\ 0 \in 0 .. MaxCodes
          /\ Cardinality(inbox) + 1 <= MaxCodes =>
               Cardinality(inbox) + 1 \in 1 .. MaxCodes /\ Cardinality(inbox) + 1 \in 0 .. MaxCodes
      BY <2>6, RecoverScreenConstants
    <3>2. CASE Cardinality(inbox) + 1 <= MaxCodes /\ code' = [code EXCEPT ![recoverPage[p].sent] = Cardinality(inbox) + 1]
               /\ inbox' = inbox \cup {<<recoverPage[p].sent, Cardinality(inbox) + 1>>}
      <4> DEFINE c == Cardinality(inbox) + 1
      <4>1. c \in 1 .. MaxCodes /\ c \in 0 .. MaxCodes
        BY <3>1, <3>2
      <4>2. code' = [code EXCEPT ![recoverPage[p].sent] = c] /\ inbox' = inbox \cup {<<recoverPage[p].sent, c>>}
        BY <3>2
      <4> HIDE DEF c
      <4>3. QED
        BY <2>1, <2>5, <4>1, <4>2 DEF RecoverTyped
    <3>3. CASE code' = [code EXCEPT ![recoverPage[p].sent] = 0] /\ inbox' = inbox
      BY <2>1, <2>5, <3>1, <3>3 DEF RecoverTyped
    <3>4. QED
      BY <1>11, <3>2, <3>3, SameCountOfMessages DEF R!SendCode
  <2>8. glitches' \in 0 .. MaxGlitches
    BY <1>11, <2>1, RecoverGlitch DEF R!SendCode, RecoverTyped
  <2>9. QED
    BY <1>11, <2>1, <2>4, <2>7, <2>8, TypedRecovery DEF R!SendCode, R!server, R!codes, RecoverTyped
<1>12. ASSUME RecoverScreenInv, NEW p \in X, R!Claim(p) PROVE R!TypeOK'
  <2>1. RecoverTyped
    BY <1>12, TypedRecovery DEF RecoverScreenInv
  <2>2. recoverPage[p] \in RecoverPages
    BY <2>1 DEF RecoverTyped
  <2>3. /\ R!Fails(p, "closed") \in RecoverPages /\ R!Fails(p, "dead_code") \in RecoverPages
        /\ [R!Fails(p, "in_use") EXCEPT !.step = "phone"] \in RecoverPages
        /\ [recoverPage[p] EXCEPT !.call = "moving"] \in RecoverPages
    BY <2>1, <2>2, PageFails DEF RecoverPages, PageCalls, PageTold
  <2>4. recoverPage' \in [X -> RecoverPages]
    BY <1>12, <2>1, <2>3, PageShows DEF R!Claim
  <2>5. code' \in [Number -> 0 .. MaxCodes] /\ recoverCookie' \in 0 .. MaxRounds
    BY <1>12, <2>1, RecoverScreenConstants DEF R!Claim, RecoverTyped
  <2>6. recoverStage' \in R!Stages /\ UNCHANGED <<round, votes, account, inbox, recoverSheet, glitches>>
    BY <1>12, <2>1 DEF R!Claim, R!server, R!Stages, RecoverTyped
  <2>7. QED
    BY <1>12, <2>1, <2>4, <2>5, <2>6, TypedRecovery DEF R!Claim, R!server, R!codes, RecoverTyped
<1>13. ASSUME RecoverScreenInv, NEW p \in X, R!Move(p) PROVE R!TypeOK'
  <2>1. RecoverTyped
    BY <1>13, TypedRecovery DEF RecoverScreenInv
  <2>2. [R!NoPage EXCEPT !.shows = "home"] \in RecoverPages /\ R!Fails(p, "no_answer") \in RecoverPages
    BY <2>1, RecoverBlanks, PageFails DEF RecoverPages, PageCards, PageTold
  <2>3. recoverPage' \in [X -> RecoverPages]
    BY <1>13, <2>1, <2>2, PageShows DEF R!Move
  <2>4. recoverPage[p].phone \in Number
    BY <1>13, <2>1 DEF R!Move, RecoverTyped, RecoverPages, RecoverScreenInv, PageKeepsNumber
  <2>5. "done" \in R!Stages /\ 0 \in 0 .. MaxRounds
    BY RecoverScreenConstants DEF R!Stages
  <2>6. glitches' \in 0 .. MaxGlitches
    BY <1>13, <2>1, RecoverGlitch DEF R!Move, RecoverTyped
  <2>7. QED
    BY <1>13, <2>1, <2>3, <2>4, <2>5, <2>6, TypedRecovery DEF R!Move, R!server, R!codes, RecoverTyped
<1>14. ASSUME RecoverScreenInv, NEW p \in X, R!MoveFails(p) PROVE R!TypeOK'
  <2>1. RecoverTyped
    BY <1>14, TypedRecovery DEF RecoverScreenInv
  <2>2. R!Fails(p, "refused") \in RecoverPages /\ "choose_number" \in R!Stages
    BY <2>1, PageFails DEF PageTold, R!Stages
  <2>3. recoverPage' \in [X -> RecoverPages]
    BY <1>14, <2>1, <2>2, PageShows DEF R!MoveFails
  <2>4. QED
    BY <1>14, <2>1, <2>2, <2>3, RecoverGlitch, TypedRecovery
    DEF R!MoveFails, R!server, R!codes, RecoverTyped
<1>15. ASSUME RecoverScreenInv, NEW p \in X, NEW n \in Number, R!TypeNumber(p, n) PROVE R!TypeOK'
  <2>1. RecoverTyped
    BY <1>15, TypedRecovery DEF RecoverScreenInv
  <2>2. recoverPage[p] \in RecoverPages
    BY <2>1 DEF RecoverTyped
  <2>3. [recoverPage[p] EXCEPT !.phone = n] \in RecoverPages
    BY <1>15, <2>1, <2>2, RecoverBlanks, RecoverScreenConstants
    DEF R!TypeNumber, RecoverTyped, RecoverPages, PageCards, PageCalls, PageTold, R!Stages
  <2>4. recoverPage' \in [X -> RecoverPages]
    BY <1>15, <2>1, <2>3, PageShows DEF R!TypeNumber
  <2>9. QED
    BY <1>15, <2>1, <2>4, TypedRecovery DEF R!TypeNumber, R!server, R!codes, RecoverTyped
<1>16. ASSUME RecoverScreenInv, NEW p \in X, NEW c \in 1 .. MaxCodes, R!PressFinish(p, c) PROVE R!TypeOK'
  <2>1. RecoverTyped
    BY <1>16, TypedRecovery DEF RecoverScreenInv
  <2>2. recoverPage[p] \in RecoverPages
    BY <2>1 DEF RecoverTyped
  <2>0. c \in 0 .. MaxCodes /\ "finishing" \in PageCalls /\ R!None \in PageTold
    BY <1>16, RecoverScreenConstants DEF PageCalls, PageTold, R!None
  <2>3. [recoverPage[p] EXCEPT !.call = "finishing", !.otp = c, !.told = R!None] \in RecoverPages
    BY <1>16, <2>1, <2>2, <2>0, RecoverBlanks, RecoverScreenConstants
    DEF R!PressFinish, RecoverTyped, RecoverPages, PageCards, PageCalls, PageTold, R!Stages
  <2>4. recoverPage' \in [X -> RecoverPages]
    BY <1>16, <2>1, <2>3, PageShows DEF R!PressFinish
  <2>9. QED
    BY <1>16, <2>1, <2>4, TypedRecovery DEF R!PressFinish, R!server, R!codes, RecoverTyped
<1>17. ASSUME RecoverScreenInv, NEW s \in Sheet, NEW g \in Y, R!OpenSheet(s, g) PROVE R!TypeOK'
  <2>1. RecoverTyped
    BY <1>17, TypedRecovery DEF RecoverScreenInv
  <2>2. \A phase \in {"ready", "dead"} :
          [R!NoSheet EXCEPT !.phase = phase, !.guardian = g, !.round = round] \in RecoverSheets
    BY <2>1 DEF RecoverTyped, RecoverSheets, SheetPhases, R!NoSheet
  <2>3. recoverSheet' \in [Sheet -> RecoverSheets]
    BY <1>17, <2>1, <2>2 DEF R!OpenSheet, RecoverTyped
  <2>4. glitches' \in 0 .. MaxGlitches
    BY <1>17, <2>1, RecoverGlitch DEF R!OpenSheet, RecoverTyped
  <2>5. QED
    BY <1>17, <2>1, <2>3, <2>4, TypedRecovery DEF R!OpenSheet, R!server, R!codes, RecoverTyped
<1>18. ASSUME RecoverScreenInv, NEW s \in Sheet, NEW accept \in BOOLEAN, R!PressAnswer(s, accept)
      PROVE  R!TypeOK'
  <2>1. RecoverTyped
    BY <1>18, TypedRecovery DEF RecoverScreenInv
  <2>2. recoverSheet[s] \in RecoverSheets
    BY <2>1 DEF RecoverTyped
  <2>3. [recoverSheet[s] EXCEPT !.phase = "sending", !.accept = accept] \in RecoverSheets
    BY <2>2 DEF RecoverSheets, SheetPhases
  <2>4. recoverSheet' = [recoverSheet EXCEPT ![s] = [recoverSheet[s] EXCEPT !.phase = "sending", !.accept = accept]]
    BY <1>18, <2>1 DEF R!PressAnswer, RecoverTyped
  <2>5. recoverSheet' \in [Sheet -> RecoverSheets]
    BY <2>1, <2>3, <2>4 DEF RecoverTyped
  <2>6. QED
    BY <1>18, <2>1, <2>5, TypedRecovery DEF R!PressAnswer, R!server, R!codes, RecoverTyped
<1>19. ASSUME RecoverScreenInv, NEW s \in Sheet, R!ReadSeat(s) PROVE R!TypeOK'
  <2>1. RecoverTyped
    BY <1>19, TypedRecovery DEF RecoverScreenInv
  <2>2. recoverSheet' \in [Sheet -> RecoverSheets]
    BY <1>19, <2>1 DEF R!ReadSeat, R!Back, RecoverTyped, RecoverSheets, SheetPhases
  <2>9. QED
    BY <1>19, <2>1, <2>2, TypedRecovery DEF R!ReadSeat, R!server, R!codes, RecoverTyped
<1>20. ASSUME RecoverScreenInv, NEW s \in Sheet, R!CastVote(s) PROVE R!TypeOK'
  <2>1. RecoverTyped
    BY <1>20, TypedRecovery DEF RecoverScreenInv
  <2>2. recoverSheet' \in [Sheet -> RecoverSheets]
    BY <1>20, <2>1 DEF R!CastVote, R!Back, R!SaysAnswered, RecoverTyped, RecoverSheets, SheetPhases
  <2>3. glitches' \in 0 .. MaxGlitches
    BY <1>20, <2>1, RecoverGlitch DEF R!CastVote, RecoverTyped
  <2>4. recoverStage' \in R!Stages
    BY <1>20, <2>1 DEF R!CastVote, R!Vote, R!Stages, RecoverTyped
  <2>5. recoverSheet[s].guardian \in Y
    BY <1>20, <2>1 DEF R!CastVote, RecoverTyped, RecoverSheets, RecoverScreenInv, AnswerCounts
  <2>6. votes' \subseteq Y
    BY <1>20, <2>1, <2>5 DEF R!CastVote, R!Vote, RecoverTyped
  <2>9. QED
    BY <1>20, <2>1, <2>2, <2>3, <2>4, <2>6, TypedRecovery DEF R!CastVote, R!server, R!codes, RecoverTyped
<1>21. ASSUME RecoverScreenInv, NEW s \in Sheet, R!YesFails(s) PROVE R!TypeOK'
  <2>1. RecoverTyped
    BY <1>21, TypedRecovery DEF RecoverScreenInv
  <2>2. recoverSheet' \in [Sheet -> RecoverSheets]
    BY <1>21, <2>1 DEF R!YesFails, R!Back, RecoverTyped, RecoverSheets, SheetPhases
  <2>3. glitches' \in 0 .. MaxGlitches
    BY <1>21, <2>1, RecoverGlitch DEF R!YesFails
  <2>5. recoverSheet[s].guardian \in Y
    BY <1>21, <2>1 DEF R!YesFails, RecoverTyped, RecoverSheets, RecoverScreenInv, AnswerCounts
  <2>6. votes' \subseteq Y
    BY <1>21, <2>1, <2>5 DEF R!YesFails, RecoverTyped
  <2>9. QED
    BY <1>21, <2>1, <2>2, <2>3, <2>6, TypedRecovery DEF R!YesFails, R!server, R!codes, RecoverTyped
<1>22. ASSUME RecoverScreenInv, NEW s \in Sheet, R!NoIsLost(s) PROVE R!TypeOK'
  <2>1. RecoverTyped
    BY <1>22, TypedRecovery DEF RecoverScreenInv
  <2>2. recoverSheet' \in [Sheet -> RecoverSheets]
    BY <1>22, <2>1 DEF R!NoIsLost, RecoverTyped, RecoverSheets, SheetPhases
  <2>3. glitches' \in 0 .. MaxGlitches
    BY <1>22, <2>1, RecoverGlitch DEF R!NoIsLost
  <2>9. QED
    BY <1>22, <2>1, <2>2, <2>3, TypedRecovery DEF R!NoIsLost, R!server, R!codes, RecoverTyped
<1>23. QED
  BY <1>1, <1>2, <1>3, <1>4, <1>5, <1>6, <1>7, <1>8, <1>9, <1>10, <1>11, <1>12, <1>13, <1>14, <1>15,
    <1>16, <1>17, <1>18, <1>19, <1>20, <1>21, <1>22
  DEF R!Next

\* What a page has to keep while only the codes in the inbox grow, and what a sheet has to while the
\* request goes on.
LEMMA RecoverPageStays ==
    ASSUME NEW p, PageKeepsNumber(p), recoverPage'[p] = recoverPage[p], inbox \subseteq inbox'
    PROVE  PageKeepsNumber(p)'
BY DEF PageKeepsNumber

LEMMA RecoverSheetStays ==
    ASSUME RecoverScreenInv, R!TypeOK', NEW s \in Sheet, recoverSheet'[s] = recoverSheet[s], StageGoesOn
    PROVE  AnswerCounts(s)'
<1>1. RecoverTyped /\ RecoverTyped'
  BY TypedRecovery DEF RecoverScreenInv
<1>2. recoverSheet[s].round \in Nat /\ round \in Nat /\ round' \in Nat /\ AnswerCounts(s)
  BY <1>1, RecoverScreenConstants DEF RecoverTyped, RecoverSheets, RecoverScreenInv
<1>3. QED
  BY <1>2 DEF AnswerCounts, StageGoesOn

\* Only a page changes, only a sheet.
LEMMA OnlyOwnersPage ==
    ASSUME RecoverScreenInv, R!TypeOK', NEW p \in X, PageKeepsNumber(p)', R!MovedWhereRead', StageGoesOn,
           UNCHANGED <<code, inbox, recoverSheet>>,
           \A q \in X : q # p => recoverPage'[q] = recoverPage[q]
    PROVE  RecoverScreenInv'
<1>1. CodesAreOnes'
  BY DEF RecoverScreenInv, CodesAreOnes
<1>2. QED
  BY <1>1, RecoverPageStays, RecoverSheetStays DEF RecoverScreenInv

LEMMA OnlyGuardiansSheet ==
    ASSUME RecoverScreenInv, R!TypeOK', NEW s \in Sheet, AnswerCounts(s)', StageGoesOn,
           UNCHANGED <<account, code, inbox, recoverPage>>,
           \A t \in Sheet : t # s => recoverSheet'[t] = recoverSheet[t]
    PROVE  RecoverScreenInv'
<1>1. CodesAreOnes' /\ R!MovedWhereRead'
  BY DEF RecoverScreenInv, CodesAreOnes, R!MovedWhereRead
<1>2. QED
  BY <1>1, RecoverPageStays, RecoverSheetStays DEF RecoverScreenInv

\* Nothing of the server's request changes.
LEMMA RequestRests ==
    ASSUME RecoverScreenInv, UNCHANGED R!server
    PROVE  StageGoesOn /\ R!MovedWhereRead'
<1>1. round \in Nat
  BY TypedRecovery, RecoverScreenConstants DEF RecoverScreenInv, RecoverTyped
<1>2. QED
  BY <1>1 DEF RecoverScreenInv, R!server, StageGoesOn, R!MovedWhereRead

LEMMA RecoverScreenStep == RecoverScreenInv /\ R!Next => RecoverScreenInv'
<1>1. ASSUME RecoverScreenInv, R!TypeOK', R!Expire PROVE RecoverScreenInv'
  <2>1. RecoverTyped
    BY <1>1, TypedRecovery DEF RecoverScreenInv
  <2>2. StageGoesOn /\ UNCHANGED <<account, code, inbox, recoverPage, recoverSheet>>
    BY <1>1, <2>1, RecoverScreenConstants DEF R!Expire, R!codes, RecoverTyped, StageGoesOn
  <2>3. CodesAreOnes' /\ R!MovedWhereRead'
    BY <1>1, <2>2 DEF RecoverScreenInv, CodesAreOnes, R!MovedWhereRead
  <2>4. QED
    BY <1>1, <2>2, <2>3, RecoverPageStays, RecoverSheetStays DEF RecoverScreenInv
<1>2. ASSUME RecoverScreenInv, R!TypeOK', NEW n \in Number, R!CodeDies(n) PROVE RecoverScreenInv'
  <2>1. RecoverTyped
    BY <1>2, TypedRecovery DEF RecoverScreenInv
  <2>2. StageGoesOn /\ R!MovedWhereRead' /\ UNCHANGED <<inbox, recoverPage, recoverSheet>>
    BY <1>2, RequestRests DEF R!CodeDies
  <2>3. CodesAreOnes'
    BY <1>2, <2>1, <2>2 DEF R!CodeDies, RecoverScreenInv, CodesAreOnes, RecoverTyped
  <2>4. QED
    BY <1>2, <2>2, <2>3, RecoverPageStays, RecoverSheetStays DEF RecoverScreenInv
<1>3. ASSUME RecoverScreenInv, R!TypeOK', NEW p \in X, R!TypeOldNumber(p) PROVE RecoverScreenInv'
  <2>1. RecoverTyped
    BY <1>3, TypedRecovery DEF RecoverScreenInv
  <2>2. recoverPage[p] \in RecoverPages /\ PageKeepsNumber(p)
    BY <1>3, <2>1 DEF RecoverTyped, RecoverScreenInv
  <2>3. /\ recoverPage'[p] = [recoverPage[p] EXCEPT !.shows = "old"]
        /\ \A r \in X : r # p => recoverPage'[r] = recoverPage[r]
    BY <1>3, <2>1 DEF R!TypeOldNumber, R!Show, RecoverTyped
  <2>4. PageKeepsNumber(p)'
    BY <1>3, <2>2, <2>3, RecoverScreenConstants
    DEF R!TypeOldNumber, R!codes, R!Idle, PageKeepsNumber, R!NoPage, RecoverPages
  <2>5. StageGoesOn /\ R!MovedWhereRead'
    BY <1>3, RequestRests DEF R!TypeOldNumber
  <2>6. QED
    BY <1>3, <2>3, <2>4, <2>5, OnlyOwnersPage DEF R!TypeOldNumber, R!codes
<1>4. ASSUME RecoverScreenInv, R!TypeOK', NEW p \in X, R!BackToIntro(p) PROVE RecoverScreenInv'
  <2>1. RecoverTyped
    BY <1>4, TypedRecovery DEF RecoverScreenInv
  <2>2. recoverPage[p] \in RecoverPages /\ PageKeepsNumber(p)
    BY <1>4, <2>1 DEF RecoverTyped, RecoverScreenInv
  <2>3. /\ recoverPage'[p] = [R!NoPage EXCEPT !.shows = "old"] \/ recoverPage'[p] = R!NoPage
        /\ \A r \in X : r # p => recoverPage'[r] = recoverPage[r]
    BY <1>4, <2>1 DEF R!BackToIntro, R!Show, RecoverTyped
  <2>4. PageKeepsNumber(p)'
    BY <1>4, <2>2, <2>3, RecoverScreenConstants
    DEF R!BackToIntro, R!codes, R!Idle, PageKeepsNumber, R!NoPage, RecoverPages
  <2>5. StageGoesOn /\ R!MovedWhereRead'
    BY <1>4, RequestRests DEF R!BackToIntro
  <2>6. QED
    BY <1>4, <2>3, <2>4, <2>5, OnlyOwnersPage DEF R!BackToIntro, R!codes
<1>5. ASSUME RecoverScreenInv, R!TypeOK', NEW p \in X, R!PressStart(p) PROVE RecoverScreenInv'
  <2>1. RecoverTyped
    BY <1>5, TypedRecovery DEF RecoverScreenInv
  <2>2. recoverPage[p] \in RecoverPages /\ PageKeepsNumber(p)
    BY <1>5, <2>1 DEF RecoverTyped, RecoverScreenInv
  <2>3. /\ recoverPage'[p] = [recoverPage[p] EXCEPT !.call = "starting"]
        /\ \A r \in X : r # p => recoverPage'[r] = recoverPage[r]
    BY <1>5, <2>1 DEF R!PressStart, R!Show, RecoverTyped
  <2>4. PageKeepsNumber(p)'
    BY <1>5, <2>2, <2>3, RecoverScreenConstants
    DEF R!PressStart, R!codes, R!Idle, PageKeepsNumber, R!NoPage, RecoverPages
  <2>5. StageGoesOn /\ R!MovedWhereRead'
    BY <1>5, RequestRests DEF R!PressStart
  <2>6. QED
    BY <1>5, <2>3, <2>4, <2>5, OnlyOwnersPage DEF R!PressStart, R!codes
<1>6. ASSUME RecoverScreenInv, R!TypeOK', NEW p \in X, R!Start(p) PROVE RecoverScreenInv'
  <2>1. RecoverTyped
    BY <1>6, TypedRecovery DEF RecoverScreenInv
  <2>2. recoverPage[p] \in RecoverPages /\ PageKeepsNumber(p)
    BY <1>6, <2>1 DEF RecoverTyped, RecoverScreenInv
  <2>3. /\ recoverPage'[p] = [recoverPage[p] EXCEPT !.call = R!None, !.shows = "sent"]
           \/ recoverPage'[p] = [recoverPage[p] EXCEPT !.call = R!None, !.told = "no_answer"]
        /\ \A r \in X : r # p => recoverPage'[r] = recoverPage[r]
    BY <1>6, <2>1 DEF R!Start, R!Show, RecoverTyped
  <2>4. PageKeepsNumber(p)'
    BY <1>6, <2>2, <2>3, RecoverScreenConstants
    DEF R!Start, R!codes, R!Idle, PageKeepsNumber, R!NoPage, RecoverPages
  <2>5. StageGoesOn /\ R!MovedWhereRead'
    BY <1>6, <2>1, RecoverScreenConstants
    DEF R!Start, R!server, RecoverTyped, StageGoesOn, RecoverScreenInv, R!MovedWhereRead
  <2>6. QED
    BY <1>6, <2>3, <2>4, <2>5, OnlyOwnersPage DEF R!Start, R!codes
<1>7. ASSUME RecoverScreenInv, R!TypeOK', NEW p \in X, R!RefuseStart(p) PROVE RecoverScreenInv'
  <2>1. RecoverTyped
    BY <1>7, TypedRecovery DEF RecoverScreenInv
  <2>2. recoverPage[p] \in RecoverPages /\ PageKeepsNumber(p)
    BY <1>7, <2>1 DEF RecoverTyped, RecoverScreenInv
  <2>3. /\ recoverPage'[p] = [recoverPage[p] EXCEPT !.call = R!None, !.shows = "refused"]
        /\ \A r \in X : r # p => recoverPage'[r] = recoverPage[r]
    BY <1>7, <2>1 DEF R!RefuseStart, R!Show, RecoverTyped
  <2>4. PageKeepsNumber(p)'
    BY <1>7, <2>2, <2>3, RecoverScreenConstants
    DEF R!RefuseStart, R!codes, R!Idle, PageKeepsNumber, R!NoPage, RecoverPages
  <2>5. StageGoesOn /\ R!MovedWhereRead'
    BY <1>7, RequestRests DEF R!RefuseStart
  <2>6. QED
    BY <1>7, <2>3, <2>4, <2>5, OnlyOwnersPage DEF R!RefuseStart, R!codes
<1>8. ASSUME RecoverScreenInv, R!TypeOK', NEW p \in X, R!OpenFirstLink(p) PROVE RecoverScreenInv'
  <2>1. RecoverTyped
    BY <1>8, TypedRecovery DEF RecoverScreenInv
  <2>2. recoverPage[p] \in RecoverPages /\ PageKeepsNumber(p)
    BY <1>8, <2>1 DEF RecoverTyped, RecoverScreenInv
  <2>3. /\ recoverPage'[p] = [R!NoPage EXCEPT !.shows = IF recoverStage = "choose_number" THEN "sent" ELSE recoverStage']
        /\ \A r \in X : r # p => recoverPage'[r] = recoverPage[r]
    BY <1>8, <2>1 DEF R!OpenFirstLink, R!Show, RecoverTyped
  <2>4. PageKeepsNumber(p)'
    BY <1>8, <2>2, <2>3, RecoverScreenConstants
    DEF R!OpenFirstLink, R!codes, R!Idle, PageKeepsNumber, R!NoPage, RecoverPages
  <2>5. StageGoesOn /\ R!MovedWhereRead'
    BY <1>8, <2>1, RecoverScreenConstants
    DEF R!OpenFirstLink, R!server, RecoverTyped, StageGoesOn, RecoverScreenInv, R!MovedWhereRead
  <2>6. QED
    BY <1>8, <2>3, <2>4, <2>5, OnlyOwnersPage DEF R!OpenFirstLink, R!codes
<1>9. ASSUME RecoverScreenInv, R!TypeOK', NEW p \in X, R!OpenFinishLink(p) PROVE RecoverScreenInv'
  <2>1. RecoverTyped
    BY <1>9, TypedRecovery DEF RecoverScreenInv
  <2>2. recoverPage[p] \in RecoverPages /\ PageKeepsNumber(p)
    BY <1>9, <2>1 DEF RecoverTyped, RecoverScreenInv
  <2>3. /\ recoverPage'[p] = [R!NoPage EXCEPT !.shows = "choose_number", !.round = round]
        /\ \A r \in X : r # p => recoverPage'[r] = recoverPage[r]
    BY <1>9, <2>1 DEF R!OpenFinishLink, R!Show, RecoverTyped
  <2>4. PageKeepsNumber(p)'
    BY <1>9, <2>2, <2>3, RecoverScreenConstants
    DEF R!OpenFinishLink, R!codes, R!Idle, PageKeepsNumber, R!NoPage, RecoverPages
  <2>5. StageGoesOn /\ R!MovedWhereRead'
    BY <1>9, RequestRests DEF R!OpenFinishLink
  <2>6. QED
    BY <1>9, <2>3, <2>4, <2>5, OnlyOwnersPage DEF R!OpenFinishLink, R!codes
<1>10. ASSUME RecoverScreenInv, R!TypeOK', NEW p \in X, R!PressSend(p) PROVE RecoverScreenInv'
  <2>1. RecoverTyped
    BY <1>10, TypedRecovery DEF RecoverScreenInv
  <2>2. recoverPage[p] \in RecoverPages /\ PageKeepsNumber(p)
    BY <1>10, <2>1 DEF RecoverTyped, RecoverScreenInv
  <2>3. /\ recoverPage'[p] = [recoverPage[p] EXCEPT !.call = "sending", !.sent = recoverPage[p].phone, !.told = R!None]
        /\ \A r \in X : r # p => recoverPage'[r] = recoverPage[r]
    BY <1>10, <2>1 DEF R!PressSend, R!Show, RecoverTyped
  <2>4. PageKeepsNumber(p)'
    BY <1>10, <2>2, <2>3, RecoverScreenConstants
    DEF R!PressSend, R!codes, R!Idle, PageKeepsNumber, R!NoPage, RecoverPages
  <2>5. StageGoesOn /\ R!MovedWhereRead'
    BY <1>10, RequestRests DEF R!PressSend
  <2>6. QED
    BY <1>10, <2>3, <2>4, <2>5, OnlyOwnersPage DEF R!PressSend, R!codes
<1>11. ASSUME RecoverScreenInv, R!TypeOK', NEW p \in X, R!SendCode(p) PROVE RecoverScreenInv'
  <2>1. RecoverTyped
    BY <1>11, TypedRecovery DEF RecoverScreenInv
  <2>2. recoverPage[p] \in RecoverPages /\ PageKeepsNumber(p)
    BY <1>11, <2>1 DEF RecoverTyped, RecoverScreenInv
  <2> DEFINE n == recoverPage[p].sent
             c == Cardinality(inbox) + 1
  <2>3. n \in Number /\ recoverPage[p].phone # R!None
    BY <1>11, <2>2 DEF R!SendCode, PageKeepsNumber, RecoverPages
  <2>4. /\ Cardinality(inbox) \in Nat /\ <<n, c>> \notin inbox
        /\ Cardinality(inbox \cup {<<n, c>>}) = c
    BY <1>11, <2>1, <2>3, InboxGrows DEF RecoverScreenInv, CodesAreOnes, RecoverTyped
  <2>5. \/ inbox' = inbox \cup {<<n, c>>} /\ code' = [code EXCEPT ![n] = c]
        \/ inbox' = inbox /\ code' = [code EXCEPT ![n] = 0]
    BY <1>11, SameCountOfMessages DEF R!SendCode
  <2>6. CodesAreOnes'
    <3>1. CodesAreOnes /\ code \in [Number -> 0 .. MaxCodes] /\ inbox \subseteq Number \X (1 .. MaxCodes)
      BY <1>11, <2>1 DEF RecoverScreenInv, RecoverTyped
    <3> HIDE DEF c
    <3>2. CASE inbox' = inbox \cup {<<n, c>>} /\ code' = [code EXCEPT ![n] = c]
      <4>1. \A m \in Number : code'[m] # 0 => <<m, code'[m]>> \in inbox'
        BY <2>3, <3>1, <3>2 DEF CodesAreOnes
      <4>2. \A s \in inbox : s[2] # c
        BY <2>4, <3>1 DEF CodesAreOnes, c
      <4>3. \A s, t \in inbox' : s[2] = t[2] => s = t
        BY <3>1, <3>2, <4>2 DEF CodesAreOnes
      <4>4. c = Cardinality(inbox) + 1 /\ Cardinality(inbox') = c
        BY <2>4, <3>2 DEF c
      <4>5. \A s \in inbox' : s[2] <= Cardinality(inbox')
        BY <2>4, <3>1, <3>2, <4>4 DEF CodesAreOnes
      <4>6. QED
        BY <4>1, <4>3, <4>5 DEF CodesAreOnes
    <3>3. CASE inbox' = inbox /\ code' = [code EXCEPT ![n] = 0]
      BY <2>3, <3>1, <3>3 DEF CodesAreOnes
    <3>4. QED
      BY <2>5, <3>2, <3>3
  <2>7. /\ \/ recoverPage'[p] = [recoverPage[p] EXCEPT !.call = R!None, !.sent = R!None, !.step = "code"]
          
           \/ recoverPage'[p] = [recoverPage[p] EXCEPT !.call = R!None, !.sent = R!None, !.told = "no_answer"]
        /\ \A r \in X : r # p => recoverPage'[r] = recoverPage[r]
    BY <1>11, <2>1 DEF R!SendCode, R!Show, RecoverTyped
  <2>8. PageKeepsNumber(p)'
    BY <2>2, <2>3, <2>7, RecoverScreenConstants DEF PageKeepsNumber, RecoverPages
  <2>9. StageGoesOn /\ R!MovedWhereRead' /\ recoverSheet' = recoverSheet
    BY <1>11, RequestRests DEF R!SendCode
  <2>10. QED
    BY <1>11, <2>5, <2>6, <2>7, <2>8, <2>9, RecoverPageStays, RecoverSheetStays DEF RecoverScreenInv
<1>12. ASSUME RecoverScreenInv, R!TypeOK', NEW p \in X, R!Claim(p) PROVE RecoverScreenInv'
  <2>1. RecoverTyped
    BY <1>12, TypedRecovery DEF RecoverScreenInv
  <2>2. recoverPage[p] \in RecoverPages /\ PageKeepsNumber(p)
    BY <1>12, <2>1 DEF RecoverTyped, RecoverScreenInv
  <2>3. recoverPage[p].phone \in Number /\ recoverPage[p].step = "code"
    BY <1>12, <2>2 DEF R!Claim, PageKeepsNumber, RecoverPages
  <2>4. StageGoesOn /\ R!MovedWhereRead' /\ UNCHANGED <<inbox, recoverSheet>>
    BY <1>12, <2>1, RecoverScreenConstants
    DEF R!Claim, R!server, RecoverTyped, StageGoesOn, RecoverScreenInv, R!MovedWhereRead
  <2>5. CodesAreOnes'
    <3>1. \A m \in Number : code'[m] \in {0, code[m]}
      BY <1>12, <2>1 DEF R!Claim, RecoverTyped
    <3>2. QED
      BY <1>12, <2>4, <3>1 DEF RecoverScreenInv, CodesAreOnes
  <2>6. \/ recoverPage'[p] \in {R!Fails(p, "closed"), R!Fails(p, "dead_code"), [R!Fails(p, "in_use") EXCEPT !.step = "phone"]}
        \/ /\ recoverPage'[p] = [recoverPage[p] EXCEPT !.call = "moving"]
           /\ code[recoverPage[p].phone] = recoverPage[p].otp /\ recoverPage[p].phone \notin Taken
    BY <1>12, <2>1 DEF R!Claim, R!Show, R!LiveCode, RecoverTyped
  <2>7. \A r \in X : r # p => recoverPage'[r] = recoverPage[r]
    BY <1>12, <2>1 DEF R!Claim, R!Show, RecoverTyped
  <2>8. PageKeepsNumber(p)'
    <3>1. CASE recoverPage'[p] \in {R!Fails(p, "closed"), R!Fails(p, "dead_code"), [R!Fails(p, "in_use") EXCEPT !.step = "phone"]}
      <4>1. recoverPage'[p].call = R!None /\ recoverPage'[p].phone = recoverPage[p].phone
        BY <2>2, <3>1 DEF R!Fails, RecoverPages
      <4>2. QED
        BY <2>3, <4>1, RecoverScreenConstants DEF PageKeepsNumber
    <3>2. CASE /\ recoverPage'[p] = [recoverPage[p] EXCEPT !.call = "moving"]
               /\ code[recoverPage[p].phone] = recoverPage[p].otp /\ recoverPage[p].phone \notin Taken
      <4>1. PICK m \in Own : <<m, recoverPage[p].otp>> \in inbox
        BY <1>12, <2>2 DEF R!Claim, PageKeepsNumber
      <4>2. recoverPage[p].otp # 0
        BY <2>1, <4>1 DEF RecoverTyped
      <4>3. <<recoverPage[p].phone, recoverPage[p].otp>> \in inbox
        BY <1>12, <2>3, <3>2, <4>2 DEF RecoverScreenInv, CodesAreOnes
      <4>4. recoverPage[p].phone = m
        BY <1>12, <4>1, <4>3 DEF RecoverScreenInv, CodesAreOnes
      <4>5. QED
        BY <2>2, <2>3, <3>2, <4>1, <4>4, RecoverScreenConstants DEF PageKeepsNumber, RecoverPages
    <3>3. QED
      BY <2>6, <3>1, <3>2
  <2>9. QED
    BY <1>12, <2>4, <2>5, <2>7, <2>8, RecoverPageStays, RecoverSheetStays DEF RecoverScreenInv
<1>13. ASSUME RecoverScreenInv, R!TypeOK', NEW p \in X, R!Move(p) PROVE RecoverScreenInv'
  <2>1. RecoverTyped
    BY <1>13, TypedRecovery DEF RecoverScreenInv
  <2>2. recoverPage[p] \in RecoverPages /\ PageKeepsNumber(p)
    BY <1>13, <2>1 DEF RecoverTyped, RecoverScreenInv
  <2>3. /\ recoverPage'[p] = [R!NoPage EXCEPT !.shows = "home"]
           \/ recoverPage'[p] = R!Fails(p, "no_answer")
        /\ \A r \in X : r # p => recoverPage'[r] = recoverPage[r]
    BY <1>13, <2>1 DEF R!Move, R!Show, RecoverTyped
  <2>4. PageKeepsNumber(p)'
    BY <1>13, <2>2, <2>3, RecoverScreenConstants
    DEF R!Move, R!codes, R!Idle, PageKeepsNumber, R!NoPage, RecoverPages, R!Fails
  <2>5. StageGoesOn /\ R!MovedWhereRead'
    BY <1>13, <2>1, <2>2, RecoverScreenConstants
    DEF R!Move, RecoverTyped, StageGoesOn, RecoverScreenInv, R!MovedWhereRead, PageKeepsNumber
  <2>6. QED
    BY <1>13, <2>3, <2>4, <2>5, OnlyOwnersPage DEF R!Move, R!codes
<1>14. ASSUME RecoverScreenInv, R!TypeOK', NEW p \in X, R!MoveFails(p) PROVE RecoverScreenInv'
  <2>1. RecoverTyped
    BY <1>14, TypedRecovery DEF RecoverScreenInv
  <2>2. recoverPage[p] \in RecoverPages /\ PageKeepsNumber(p)
    BY <1>14, <2>1 DEF RecoverTyped, RecoverScreenInv
  <2>3. /\ recoverPage'[p] = R!Fails(p, "refused")
        /\ \A r \in X : r # p => recoverPage'[r] = recoverPage[r]
    BY <1>14, <2>1 DEF R!MoveFails, R!Show, RecoverTyped
  <2>4. PageKeepsNumber(p)'
    BY <1>14, <2>2, <2>3, RecoverScreenConstants
    DEF R!MoveFails, R!codes, R!Idle, PageKeepsNumber, R!NoPage, RecoverPages, R!Fails
  <2>5. StageGoesOn /\ R!MovedWhereRead'
    BY <1>14, <2>1, RecoverScreenConstants
    DEF R!MoveFails, R!server, RecoverTyped, StageGoesOn, RecoverScreenInv, R!MovedWhereRead
  <2>6. QED
    BY <1>14, <2>3, <2>4, <2>5, OnlyOwnersPage DEF R!MoveFails, R!codes
<1>15. ASSUME RecoverScreenInv, R!TypeOK', NEW p \in X, NEW n \in Number, R!TypeNumber(p, n)
      PROVE  RecoverScreenInv'
  <2>1. RecoverTyped
    BY <1>15, TypedRecovery DEF RecoverScreenInv
  <2>2. recoverPage[p] \in RecoverPages /\ PageKeepsNumber(p)
    BY <1>15, <2>1 DEF RecoverTyped, RecoverScreenInv
  <2>3. /\ recoverPage'[p] = [recoverPage[p] EXCEPT !.phone = n]
        /\ \A r \in X : r # p => recoverPage'[r] = recoverPage[r]
    BY <1>15, <2>1 DEF R!TypeNumber, R!Show, RecoverTyped
  <2>4. PageKeepsNumber(p)'
    BY <1>15, <2>2, <2>3, RecoverScreenConstants
    DEF R!TypeNumber, R!codes, R!Idle, PageKeepsNumber, R!NoPage, RecoverPages
  <2>5. StageGoesOn /\ R!MovedWhereRead'
    BY <1>15, RequestRests DEF R!TypeNumber
  <2>6. QED
    BY <1>15, <2>3, <2>4, <2>5, OnlyOwnersPage DEF R!TypeNumber, R!codes
<1>16. ASSUME RecoverScreenInv, R!TypeOK', NEW p \in X, NEW c \in 1 .. MaxCodes, R!PressFinish(p, c)
      PROVE  RecoverScreenInv'
  <2>1. RecoverTyped
    BY <1>16, TypedRecovery DEF RecoverScreenInv
  <2>2. recoverPage[p] \in RecoverPages /\ PageKeepsNumber(p)
    BY <1>16, <2>1 DEF RecoverTyped, RecoverScreenInv
  <2>3. /\ recoverPage'[p] = [recoverPage[p] EXCEPT !.call = "finishing", !.otp = c, !.told = R!None]
        /\ \A r \in X : r # p => recoverPage'[r] = recoverPage[r]
    BY <1>16, <2>1 DEF R!PressFinish, R!Show, RecoverTyped
  <2>4. PageKeepsNumber(p)'
    BY <1>16, <2>2, <2>3, RecoverScreenConstants
    DEF R!PressFinish, R!codes, R!Idle, PageKeepsNumber, R!NoPage, RecoverPages, R!Read
  <2>5. StageGoesOn /\ R!MovedWhereRead'
    BY <1>16, RequestRests DEF R!PressFinish
  <2>6. QED
    BY <1>16, <2>3, <2>4, <2>5, OnlyOwnersPage DEF R!PressFinish, R!codes
<1>17. ASSUME RecoverScreenInv, R!TypeOK', NEW s \in Sheet, NEW g \in Y, R!OpenSheet(s, g)
      PROVE  RecoverScreenInv'
  <2>1. RecoverTyped
    BY <1>17, TypedRecovery DEF RecoverScreenInv
  <2>2. recoverSheet[s] \in RecoverSheets /\ AnswerCounts(s)
    BY <1>17, <2>1 DEF RecoverTyped, RecoverScreenInv
  <2>3. /\ \A t \in Sheet : t # s => recoverSheet'[t] = recoverSheet[t]
        /\ UNCHANGED <<account, code, inbox, recoverPage>>
    BY <1>17, <2>1 DEF R!OpenSheet, R!Back, R!SaysAnswered, R!server, R!codes, RecoverTyped
  <2>4. /\ recoverSheet'[s].phase \in {"ready", "dead"} /\ recoverSheet'[s].guardian = g
        /\ recoverSheet'[s].round = round /\ round > 0 /\ recoverStage # "mailed"
    BY <1>17, <2>1, <2>2 DEF R!OpenSheet, R!Back, R!SaysAnswered, RecoverTyped, RecoverSheets
  <2>5. StageGoesOn
    BY <1>17, RequestRests DEF R!OpenSheet
  <2>6. AnswerCounts(s)'
    BY <1>17, <2>1, <2>4, RecoverScreenConstants DEF R!OpenSheet, R!server, AnswerCounts, RecoverTyped
  <2>7. QED
    BY <1>17, <2>3, <2>5, <2>6, OnlyGuardiansSheet
<1>18. ASSUME RecoverScreenInv, R!TypeOK', NEW s \in Sheet, NEW accept \in BOOLEAN, R!PressAnswer(s, accept)
      PROVE  RecoverScreenInv'
  <2>1. RecoverTyped
    BY <1>18, TypedRecovery DEF RecoverScreenInv
  <2>2. recoverSheet[s] \in RecoverSheets /\ AnswerCounts(s)
    BY <1>18, <2>1 DEF RecoverTyped, RecoverScreenInv
  <2>3. /\ \A t \in Sheet : t # s => recoverSheet'[t] = recoverSheet[t]
        /\ UNCHANGED <<account, code, inbox, recoverPage>>
    BY <1>18, <2>1 DEF R!PressAnswer, R!Back, R!SaysAnswered, R!server, R!codes, RecoverTyped
  <2>4. /\ recoverSheet[s].phase = "ready" /\ recoverSheet'[s].phase = "sending"
        /\ recoverSheet'[s].guardian = recoverSheet[s].guardian /\ recoverSheet'[s].round = recoverSheet[s].round
    BY <1>18, <2>1, <2>2 DEF R!PressAnswer, R!Back, R!SaysAnswered, RecoverTyped, RecoverSheets
  <2>5. StageGoesOn
    BY <1>18, RequestRests DEF R!PressAnswer
  <2>6. AnswerCounts(s)'
    BY <1>18, <2>2, <2>4 DEF R!PressAnswer, R!server, AnswerCounts
  <2>7. QED
    BY <1>18, <2>3, <2>5, <2>6, OnlyGuardiansSheet
<1>19. ASSUME RecoverScreenInv, R!TypeOK', NEW s \in Sheet, R!ReadSeat(s) PROVE RecoverScreenInv'
  <2>1. RecoverTyped
    BY <1>19, TypedRecovery DEF RecoverScreenInv
  <2>2. recoverSheet[s] \in RecoverSheets /\ AnswerCounts(s)
    BY <1>19, <2>1 DEF RecoverTyped, RecoverScreenInv
  <2>3. /\ \A t \in Sheet : t # s => recoverSheet'[t] = recoverSheet[t]
        /\ UNCHANGED <<account, code, inbox, recoverPage>>
    BY <1>19, <2>1 DEF R!ReadSeat, R!Back, R!SaysAnswered, R!server, R!codes, RecoverTyped
  <2>4. /\ recoverSheet[s].phase = "sending" /\ recoverSheet'[s].phase \in {"voting", "ready"}
        /\ recoverSheet'[s].guardian = recoverSheet[s].guardian /\ recoverSheet'[s].round = recoverSheet[s].round
    BY <1>19, <2>1, <2>2 DEF R!ReadSeat, R!Back, R!SaysAnswered, RecoverTyped, RecoverSheets
  <2>5. StageGoesOn
    BY <1>19, RequestRests DEF R!ReadSeat
  <2>6. AnswerCounts(s)'
    BY <1>19, <2>2, <2>4 DEF R!ReadSeat, R!server, AnswerCounts
  <2>7. QED
    BY <1>19, <2>3, <2>5, <2>6, OnlyGuardiansSheet
<1>20. ASSUME RecoverScreenInv, R!TypeOK', NEW s \in Sheet, R!CastVote(s) PROVE RecoverScreenInv'
  <2>1. RecoverTyped
    BY <1>20, TypedRecovery DEF RecoverScreenInv
  <2>2. recoverSheet[s] \in RecoverSheets /\ AnswerCounts(s)
    BY <1>20, <2>1 DEF RecoverTyped, RecoverScreenInv
  <2>3. /\ \A t \in Sheet : t # s => recoverSheet'[t] = recoverSheet[t]
        /\ UNCHANGED <<account, code, inbox, recoverPage>>
    BY <1>20, <2>1 DEF R!CastVote, R!Back, R!SaysAnswered, R!server, R!codes, RecoverTyped
  <2>4. /\ recoverSheet[s].phase = "voting" /\ recoverSheet'[s].phase \in {"answered", "ready"}
        /\ recoverSheet'[s].guardian = recoverSheet[s].guardian /\ recoverSheet'[s].round = recoverSheet[s].round
        /\ recoverSheet'[s].accept = recoverSheet[s].accept
    BY <1>20, <2>1, <2>2 DEF R!CastVote, R!Back, R!SaysAnswered, RecoverTyped, RecoverSheets
  <2>5. StageGoesOn
    BY <1>20, <2>1, RecoverScreenConstants DEF R!CastVote, R!Vote, StageGoesOn, RecoverTyped
  <2>6. AnswerCounts(s)'
    BY <1>20, <2>2, <2>4 DEF R!CastVote, R!Vote, R!Pending, AnswerCounts
  <2>7. QED
    BY <1>20, <2>3, <2>5, <2>6, OnlyGuardiansSheet
<1>21. ASSUME RecoverScreenInv, R!TypeOK', NEW s \in Sheet, R!YesFails(s) PROVE RecoverScreenInv'
  <2>1. RecoverTyped
    BY <1>21, TypedRecovery DEF RecoverScreenInv
  <2>2. recoverSheet[s] \in RecoverSheets /\ AnswerCounts(s)
    BY <1>21, <2>1 DEF RecoverTyped, RecoverScreenInv
  <2>3. /\ \A t \in Sheet : t # s => recoverSheet'[t] = recoverSheet[t]
        /\ UNCHANGED <<account, code, inbox, recoverPage>>
    BY <1>21, <2>1 DEF R!YesFails, R!Back, R!SaysAnswered, R!server, R!codes, RecoverTyped
  <2>4. /\ recoverSheet[s].phase = "voting" /\ recoverSheet'[s].phase = "ready"
        /\ recoverSheet'[s].guardian = recoverSheet[s].guardian /\ recoverSheet'[s].round = recoverSheet[s].round
    BY <1>21, <2>1, <2>2 DEF R!YesFails, R!Back, R!SaysAnswered, RecoverTyped, RecoverSheets
  <2>5. StageGoesOn
    BY <1>21, <2>1, RecoverScreenConstants DEF R!YesFails, StageGoesOn, RecoverTyped
  <2>6. AnswerCounts(s)'
    BY <1>21, <2>2, <2>4 DEF R!YesFails, AnswerCounts
  <2>7. QED
    BY <1>21, <2>3, <2>5, <2>6, OnlyGuardiansSheet
<1>22. ASSUME RecoverScreenInv, R!TypeOK', NEW s \in Sheet, R!NoIsLost(s) PROVE RecoverScreenInv'
  <2>1. RecoverTyped
    BY <1>22, TypedRecovery DEF RecoverScreenInv
  <2>2. recoverSheet[s] \in RecoverSheets /\ AnswerCounts(s)
    BY <1>22, <2>1 DEF RecoverTyped, RecoverScreenInv
  <2>3. /\ \A t \in Sheet : t # s => recoverSheet'[t] = recoverSheet[t]
        /\ UNCHANGED <<account, code, inbox, recoverPage>>
    BY <1>22, <2>1 DEF R!NoIsLost, R!Back, R!SaysAnswered, R!server, R!codes, RecoverTyped
  <2>4. /\ recoverSheet[s].phase = "voting" /\ recoverSheet'[s].phase = "answered"
        /\ recoverSheet'[s].guardian = recoverSheet[s].guardian /\ recoverSheet'[s].round = recoverSheet[s].round
        /\ ~recoverSheet'[s].accept /\ recoverSheet'[s].lost
    BY <1>22, <2>1, <2>2 DEF R!NoIsLost, R!Back, R!SaysAnswered, RecoverTyped, RecoverSheets
  <2>5. StageGoesOn
    BY <1>22, RequestRests DEF R!NoIsLost
  <2>6. AnswerCounts(s)'
    BY <1>22, <2>2, <2>4 DEF R!NoIsLost, R!server, AnswerCounts
  <2>7. QED
    BY <1>22, <2>3, <2>5, <2>6, OnlyGuardiansSheet
<1>23. QED
  BY RecoverScreenTypes, <1>1, <1>2, <1>3, <1>4, <1>5, <1>6, <1>7, <1>8, <1>9, <1>10, <1>11, <1>12,
    <1>13, <1>14, <1>15, <1>16, <1>17, <1>18, <1>19, <1>20, <1>21, <1>22
  DEF RecoverScreenInv, R!Next

LEMMA RecoverScreenRests == RecoverScreenInv /\ UNCHANGED <<RVars, glitches>> => RecoverScreenInv'
<1> SUFFICES ASSUME RecoverScreenInv, UNCHANGED <<RVars, glitches>> PROVE RecoverScreenInv'
  OBVIOUS
<1>1. R!TypeOK'
  BY TypedRecovery, Zenon DEF RecoverScreenInv, RecoverTyped, RVars
<1>2. CodesAreOnes' /\ R!MovedWhereRead'
  BY DEF RecoverScreenInv, CodesAreOnes, R!MovedWhereRead, RVars
<1>3. ASSUME NEW p \in X PROVE PageKeepsNumber(p)'
  BY DEF RecoverScreenInv, PageKeepsNumber, RVars
<1>4. ASSUME NEW s \in Sheet PROVE AnswerCounts(s)'
  BY DEF RecoverScreenInv, AnswerCounts, RVars
<1>5. QED
  BY <1>1, <1>2, <1>3, <1>4 DEF RecoverScreenInv

\* The number was read, an answer that is shown counted.
LEMMA RecoverScreenKept == RecoverScreenInv => R!TypeOK /\ R!MovedWhereRead /\ R!AnswersAreKept
BY DEF RecoverScreenInv, AnswerCounts, R!AnswersAreKept

-----------------------------------------------------------------------------
(* Setting a recovery up. *)

\* What the records of the screens hold.
States == {"none", "invited", "cooling", "active"}
Addresses == {"none", "pending", "verified"}
Loading == {"not", "asked", "got"}
SessionCopies == [rows : 0 .. Cardinality(X), ready : BOOLEAN, verified : BOOLEAN]
Loads == [guardians : Loading, email : Loading]
CallsAt == {A!None, "posted", "done"}
SetupCalls == [at : CallsAt, does : {A!None, "invite", "revoke", "mail", "unmail"}, g : X \cup {A!None}]
GoneCalls ==
    [at : {A!None, "posted"}, does : {A!None, "invite", "revoke", "mail", "unmail"}, g : X \cup {A!None}]
SetupSteps == {"why", "email", "guardians", "done"}
Setups ==
    [steps : SUBSET {"email", "guardians"}, step : SetupSteps, known : SUBSET X,
     invited : SUBSET X, sent : BOOLEAN]

SecurityTyped ==
    /\ guardian \in [X -> States] /\ email \in Addresses
    /\ me \in SessionCopies
    /\ screen \in {"home", "setup", "security"}
    /\ load \in Loads
    /\ list \in [X -> States] /\ address \in Addresses
    /\ call \in SetupCalls /\ gone \in GoneCalls
    /\ setup \in Setups
    /\ behind \in BOOLEAN
    /\ glitches \in 0 .. MaxGlitches

\* A call is made from one of the two screens.
CallIsHere ==
    /\ screen = "home" => call.at = A!None
    /\ call.at # A!None /\ screen = "setup" => call.does \in {"invite", "mail"}
    /\ call.at # A!None => (call.does \in {"invite", "revoke"} => call.g # A!None)
    /\ call.at = A!None => call = A!NoCall
    /\ gone.at # A!None => (gone.does \in {"invite", "revoke"} => gone.g # A!None)

\* What the settings screen has loaded is still so, until a call of its own has changed it.
ListIsFresh ==
    screen = "security" /\ ~behind /\ call.at # "done" =>
        /\ load.guardians = "got" => \A g \in X : list[g] = "active" => guardian[g] = "active"
        /\ load.email = "got" /\ address = "verified" => email = "verified"

\* Whom the walkthrough found is still asked, and whom it asks was not found.
FoundAreAsked ==
    screen = "setup" =>
        /\ setup.known # {} => load.guardians = "got"
        /\ setup.invited # {} => load.guardians = "got"
        /\ call.at # A!None /\ call.does = "invite" => load.guardians = "got"
        /\ ~behind =>
            /\ \A g \in setup.known : guardian[g] # "none"
            /\ call.at = "done" /\ call.does = "invite" => call.g \notin setup.known
            /\ setup.known \cap setup.invited = {}

SecurityInv == A!TypeOK /\ CallIsHere /\ ListIsFresh /\ FoundAreAsked

LEMMA SameCountOfGuardians == \A V : A!Cardinality(V) = Cardinality(V)
BY DEF A!Cardinality, Cardinality

LEMMA SecurityConstants ==
    /\ A!None \notin X /\ A!None \notin {"posted", "done"} /\ A!None \notin {"invite", "revoke", "mail", "unmail"}
    /\ IsFiniteSet(X) /\ MaxGlitches \in Nat
BY ScreensAssumption DEF ScreensAssumption, A!None

LEMMA TypedSetup == (SecurityTyped <=> A!TypeOK) /\ (SecurityTyped' <=> A!TypeOK')
<1>1. A!Cardinality(X) = Cardinality(X)
  BY SameCountOfGuardians
<1>2. QED
  BY <1>1, Zenon
  DEF SecurityTyped, A!TypeOK, A!States, States, Addresses, Loading, SessionCopies, Loads, CallsAt,
      SetupCalls, GoneCalls, SetupSteps, Setups

LEMMA CountOfSome ==
    ASSUME NEW V \in SUBSET X, NEW U \in SUBSET X, V \subseteq U
    PROVE  /\ Cardinality(V) \in Nat /\ Cardinality(U) \in Nat /\ Cardinality(X) \in Nat
           /\ Cardinality(V) <= Cardinality(U) /\ Cardinality(V) <= Cardinality(X)
<1>1. IsFiniteSet(X)
  BY SecurityConstants
<1>2. IsFiniteSet(U) /\ IsFiniteSet(V)
  BY <1>1, FS_Subset
<1>3. Cardinality(V) <= Cardinality(U) /\ Cardinality(V) <= Cardinality(X)
  BY <1>1, <1>2, FS_Subset
<1>4. QED
  BY <1>1, <1>2, <1>3, FS_CardinalityType

LEMMA SetupBlanks ==
    /\ A!NoRows \in [X -> States] /\ A!NoLoad \in Loads /\ A!NoSetup \in Setups
    /\ A!NoMe \in SessionCopies /\ A!NoCall \in SetupCalls /\ A!NoCall \in GoneCalls
<1>1. A!NoRows \in [X -> States] /\ A!NoLoad \in Loads
  BY DEF A!NoRows, A!NoLoad, Loads, Loading, States
<1>2. A!NoSetup \in Setups
  BY DEF A!NoSetup, Setups, SetupSteps
<1>3. Cardinality(X) \in Nat
  BY CountOfSome
<1>4. 0 \in 0 .. Cardinality(X) /\ FALSE \in BOOLEAN
  BY <1>3
<1>5. A!NoMe \in SessionCopies
  BY <1>4 DEF A!NoMe, SessionCopies
<1>6. A!NoCall \in SetupCalls /\ A!NoCall \in GoneCalls
  BY DEF A!NoCall, SetupCalls, GoneCalls, CallsAt
<1>7. QED
  BY <1>1, <1>2, <1>5, <1>6

LEMMA SecurityStarts == A!Init => SecurityInv
<1> SUFFICES ASSUME A!Init PROVE SecurityInv
  OBVIOUS
<1>1. A!TypeOK
  <2>1. guardian \in [X -> States] /\ me \in SessionCopies /\ load \in Loads /\ list \in [X -> States]
        /\ call \in SetupCalls /\ gone \in GoneCalls /\ setup \in Setups
    BY SetupBlanks DEF A!Init
  <2>2. email \in Addresses /\ address \in Addresses /\ screen \in {"home", "setup", "security"} /\ behind \in BOOLEAN
    BY DEF A!Init, Addresses
  <2>3. glitches \in 0 .. MaxGlitches
    BY SecurityConstants DEF A!Init
  <2>4. QED
    BY <2>1, <2>2, <2>3, TypedSetup DEF SecurityTyped
<1>2. CallIsHere /\ ListIsFresh /\ FoundAreAsked
  BY DEF A!Init, A!NoCall, CallIsHere, ListIsFresh, FoundAreAsked
<1>3. QED
  BY <1>1, <1>2 DEF SecurityInv

LEMMA SetupGlitch == SecurityTyped /\ A!Glitch => glitches' \in 0 .. MaxGlitches
BY SecurityConstants DEF SecurityTyped, A!Glitch

\* What the server writes for a call: it takes nothing away but by a removal, and invites whom it
\* had not.
LEMMA WritesOf ==
    ASSUME SecurityTyped, NEW c \in SetupCalls \cup GoneCalls, A!Accepted(c), A!Write(c)
    PROVE  /\ guardian' \in [X -> States] /\ email' \in Addresses
           /\ c.does \in {"revoke", "unmail"} \/
                /\ email = "verified" => email' = "verified"
                /\ \A h \in X : /\ guardian[h] = "active" => guardian'[h] = "active"
                                /\ guardian[h] # "none" => guardian'[h] # "none"
           /\ c.does = "invite" => guardian[c.g] = "none"
<1>1. guardian \in [X -> States] /\ email \in Addresses
  BY DEF SecurityTyped
<1>2. CASE c.does = "invite"
  <2>1. guardian' = [guardian EXCEPT ![c.g] = "invited"] /\ email' = email /\ guardian[c.g] = "none"
    BY <1>2 DEF A!Write, A!Accepted
  <2>2. QED
    BY <1>1, <1>2, <2>1 DEF States
<1>3. CASE c.does = "revoke"
  <2>1. guardian' = [guardian EXCEPT ![c.g] = "none"] /\ email' = email
    BY <1>3 DEF A!Write
  <2>2. QED
    BY <1>1, <1>3, <2>1 DEF States
<1>4. CASE c.does = "mail"
  BY <1>1, <1>4 DEF A!Write, A!Accepted, Addresses
<1>5. CASE c.does = "unmail"
  BY <1>1, <1>5 DEF A!Write, A!Accepted, Addresses
<1>6. QED
  BY <1>2, <1>3, <1>4, <1>5 DEF A!Accepted

LEMMA CallIsLeft ==
    ASSUME SecurityTyped, A!CallGoesOn
    PROVE  call' \in SetupCalls /\ gone' \in GoneCalls /\ glitches' \in 0 .. MaxGlitches
<1>1. CASE call.at # "posted" /\ UNCHANGED <<gone, glitches>>
  BY <1>1, SetupBlanks DEF A!CallGoesOn, SecurityTyped
<1>2. CASE call.at = "posted" /\ gone' = call /\ A!Glitch
  BY <1>2, SetupBlanks, SetupGlitch DEF A!CallGoesOn, SecurityTyped, SetupCalls, GoneCalls
<1>3. QED
  BY <1>1, <1>2 DEF A!CallGoesOn

\* What the session is told, and what a screen starts from.
LEMMA SessionCopyTypes == A!Seen \in SessionCopies
<1>1. A!Rows(guardian) \in SUBSET X
  BY DEF A!Rows
<1>2. Cardinality(A!Rows(guardian)) \in 0 .. Cardinality(X)
  BY <1>1, CountOfSome
<1>3. A!Cardinality(A!Rows(guardian)) \in 0 .. Cardinality(X)
  BY <1>2, SameCountOfGuardians
<1>4. (email = "verified") \in BOOLEAN
  OBVIOUS
<1>5. A!Ready(guardian, email = "verified") \in BOOLEAN
  BY DEF A!Ready
<1>6. QED
  BY <1>3, <1>4, <1>5, Zenon DEF A!Seen, SessionCopies

LEMMA OpenTypes ==
    ASSUME NEW where \in {"setup", "security"}, A!Open(where)
    PROVE  /\ screen' = where /\ load' \in Loads /\ list' \in [X -> States] /\ address' \in Addresses
           /\ setup' \in Setups /\ behind' \in BOOLEAN
<1>1. load' \in Loads /\ list' \in [X -> States] /\ address' \in Addresses /\ screen' = where
  BY SetupBlanks DEF A!Open, Loads, Loading, Addresses
<1>2. A!StepsFor \in SUBSET {"email", "guardians"}
  BY DEF A!StepsFor
<1>3. setup' \in Setups
  BY <1>2, SetupBlanks DEF A!Open, Setups
<1>4. behind' \in BOOLEAN
  BY DEF A!Open
<1>5. QED
  BY <1>1, <1>3, <1>4

LEMMA SecurityTypes == SecurityInv /\ A!Next => A!TypeOK'
<1>1. ASSUME SecurityInv, A!LinkOpened PROVE A!TypeOK'
  <2>1. SecurityTyped
    BY <1>1, TypedSetup DEF SecurityInv
  <2>2. email' \in Addresses
    BY <1>1 DEF A!LinkOpened, Addresses
  <2>3. QED
    BY <1>1, <2>1, <2>2, TypedSetup DEF A!LinkOpened, A!serverVars, A!screenVars, A!calls, SecurityTyped
<1>2. ASSUME SecurityInv, A!OnAnotherDevice PROVE A!TypeOK'
  <2>1. SecurityTyped
    BY <1>2, TypedSetup DEF SecurityInv
  <2>2. guardian' \in [X -> States] /\ email' \in Addresses
    BY <1>2, <2>1 DEF A!OnAnotherDevice, SecurityTyped, States, Addresses
  <2>3. glitches' \in 0 .. MaxGlitches
    BY <1>2, <2>1, SetupGlitch DEF A!OnAnotherDevice
  <2>4. behind' \in BOOLEAN
    BY <1>2 DEF A!OnAnotherDevice
  <2>5. QED
    BY <1>2, <2>1, <2>2, <2>3, <2>4, TypedSetup
    DEF A!OnAnotherDevice, A!serverVars, A!screenVars, A!calls, SecurityTyped
<1>3. ASSUME SecurityInv, A!RefreshUser PROVE A!TypeOK'
  <2>1. SecurityTyped
    BY <1>3, TypedSetup DEF SecurityInv
  <2>2. QED
    BY <1>3, <2>1, SessionCopyTypes, TypedSetup
    DEF A!RefreshUser, A!serverVars, A!screenVars, A!calls, SecurityTyped
<1>4. ASSUME SecurityInv, A!OpenSetup PROVE A!TypeOK'
  <2>1. SecurityTyped
    BY <1>4, TypedSetup DEF SecurityInv
  <2>2. load' \in Loads /\ list' \in [X -> States] /\ address' \in Addresses /\ setup' \in Setups
        /\ behind' \in BOOLEAN /\ screen' = "setup"
    BY <1>4, OpenTypes DEF A!OpenSetup
  <2>3. QED
    BY <1>4, <2>1, <2>2, TypedSetup DEF A!OpenSetup, A!serverVars, A!screenVars, A!calls, SecurityTyped
<1>5. ASSUME SecurityInv, A!OpenSecurity PROVE A!TypeOK'
  <2>1. SecurityTyped
    BY <1>5, TypedSetup DEF SecurityInv
  <2>2. load' \in Loads /\ list' \in [X -> States] /\ address' \in Addresses /\ setup' \in Setups
        /\ behind' \in BOOLEAN /\ screen' = "security"
    BY <1>5, OpenTypes DEF A!OpenSecurity
  <2>3. me' \in SessionCopies
    BY <1>5, <2>1, SessionCopyTypes DEF A!OpenSecurity, SecurityTyped
  <2>4. call' \in SetupCalls /\ gone' \in GoneCalls /\ glitches' \in 0 .. MaxGlitches
    BY <1>5, <2>1, CallIsLeft DEF A!OpenSecurity
  <2>5. QED
    BY <1>5, <2>1, <2>2, <2>3, <2>4, TypedSetup
    DEF A!OpenSecurity, A!serverVars, A!screenVars, A!calls, SecurityTyped
<1>6. ASSUME SecurityInv, A!Leave PROVE A!TypeOK'
  <2>1. SecurityTyped
    BY <1>6, TypedSetup DEF SecurityInv
  <2>2. /\ load' \in Loads /\ list' \in [X -> States] /\ address' \in Addresses /\ setup' \in Setups
        /\ behind' \in BOOLEAN
    BY <1>6, SetupBlanks DEF A!Leave, Addresses
  <2>3. call' \in SetupCalls /\ gone' \in GoneCalls /\ glitches' \in 0 .. MaxGlitches
    BY <1>6, <2>1, CallIsLeft DEF A!Leave
  <2>4. QED
    BY <1>6, <2>1, <2>2, <2>3, TypedSetup DEF A!Leave, A!serverVars, A!screenVars, A!calls, SecurityTyped
<1>7. ASSUME SecurityInv, A!GotGuardians PROVE A!TypeOK'
  <2>1. SecurityTyped
    BY <1>7, TypedSetup DEF SecurityInv
  <2>2. load' \in Loads
    BY <1>7, <2>1 DEF A!GotGuardians, A!Answer, SecurityTyped, Loads, Loading
  <2>3. list' \in [X -> States]
    BY <1>7, <2>1, SetupBlanks DEF A!GotGuardians, SecurityTyped
  <2>4. setup' \in Setups
    BY <1>7, <2>1 DEF A!GotGuardians, A!Rows, SecurityTyped, Setups
  <2>5. glitches' \in 0 .. MaxGlitches
    BY <1>7, <2>1, SetupGlitch DEF A!GotGuardians, SecurityTyped
  <2>6. QED
    BY <1>7, <2>1, <2>2, <2>3, <2>4, <2>5, TypedSetup
    DEF A!GotGuardians, A!serverVars, A!screenVars, A!calls, SecurityTyped
<1>8. ASSUME SecurityInv, A!GotEmail PROVE A!TypeOK'
  <2>1. SecurityTyped
    BY <1>8, TypedSetup DEF SecurityInv
  <2>2. load' \in Loads
    BY <1>8, <2>1 DEF A!GotEmail, A!Answer, SecurityTyped, Loads, Loading
  <2>3. address' \in Addresses
    BY <1>8, <2>1 DEF A!GotEmail, SecurityTyped
  <2>4. setup' \in Setups
    <3>1. (setup.sent \/ email = "pending") \in BOOLEAN /\ setup \in Setups
      BY <2>1 DEF SecurityTyped
    <3>2. [setup EXCEPT !.sent = setup.sent \/ email = "pending"] \in Setups
      BY <3>1, Zenon DEF Setups
    <3>3. setup' \in {setup, [setup EXCEPT !.sent = setup.sent \/ email = "pending"]}
      BY <1>8, Zenon DEF A!GotEmail
    <3>4. QED
      BY <3>1, <3>2, <3>3
  <2>5. glitches' \in 0 .. MaxGlitches
    BY <1>8, <2>1, SetupGlitch DEF A!GotEmail, SecurityTyped
  <2>6. behind' \in BOOLEAN
    BY <1>8, <2>1, Zenon DEF A!GotEmail, SecurityTyped
  <2>7. QED
    BY <1>8, <2>1, <2>2, <2>3, <2>4, <2>5, <2>6, TypedSetup
    DEF A!GotEmail, A!serverVars, A!screenVars, A!calls, SecurityTyped
<1>9. ASSUME SecurityInv, A!PressEmail PROVE A!TypeOK'
  <2>1. SecurityTyped
    BY <1>9, TypedSetup DEF SecurityInv
  <2>2. call' \in SetupCalls
    BY <1>9, SecurityConstants DEF A!PressEmail, A!Post, SetupCalls, CallsAt
  <2>3. QED
    BY <1>9, <2>1, <2>2, TypedSetup DEF A!PressEmail, A!serverVars, A!screenVars, A!calls, SecurityTyped
<1>10. ASSUME SecurityInv, A!Handle PROVE A!TypeOK'
  <2>1. SecurityTyped
    BY <1>10, TypedSetup DEF SecurityInv
  <2>2. guardian' \in [X -> States] /\ email' \in Addresses
    <3>1. CASE A!Accepted(call) /\ A!Write(call)
      BY <2>1, <3>1, WritesOf DEF SecurityTyped
    <3>2. CASE UNCHANGED A!serverVars
      BY <2>1, <3>2 DEF A!serverVars, SecurityTyped
    <3>3. QED
      BY <1>10, <3>1, <3>2 DEF A!Handle
  <2>3. behind' \in BOOLEAN
    BY <1>10, <2>1, Zenon DEF A!Handle, A!Unseen, SecurityTyped
  <2>4. call' \in SetupCalls
    BY <1>10, <2>1, SetupBlanks DEF A!Handle, SecurityTyped, SetupCalls, CallsAt
  <2>5. glitches' \in 0 .. MaxGlitches
    BY <1>10, <2>1, SetupGlitch DEF A!Handle, SecurityTyped
  <2>6. QED
    BY <1>10, <2>1, <2>2, <2>3, <2>4, <2>5, TypedSetup
    DEF A!Handle, A!serverVars, A!screenVars, A!calls, SecurityTyped
<1>11. ASSUME SecurityInv, A!HandleGone PROVE A!TypeOK'
  <2>1. SecurityTyped
    BY <1>11, TypedSetup DEF SecurityInv
  <2>2. guardian' \in [X -> States] /\ email' \in Addresses
    <3>1. CASE A!Accepted(gone) /\ A!Write(gone)
      BY <2>1, <3>1, WritesOf DEF SecurityTyped
    <3>2. CASE UNCHANGED A!serverVars
      BY <2>1, <3>2 DEF A!serverVars, SecurityTyped
    <3>3. QED
      BY <1>11, <3>1, <3>2 DEF A!HandleGone
  <2>3. behind' \in BOOLEAN
    BY <1>11, <2>1, Zenon DEF A!HandleGone, A!Unseen, SecurityTyped
  <2>4. gone' \in GoneCalls
    BY <1>11, SetupBlanks DEF A!HandleGone
  <2>5. QED
    BY <1>11, <2>1, <2>2, <2>3, <2>4, TypedSetup
    DEF A!HandleGone, A!serverVars, A!screenVars, A!calls, SecurityTyped
<1>12. ASSUME SecurityInv, A!Done PROVE A!TypeOK'
  <2>1. SecurityTyped
    BY <1>12, TypedSetup DEF SecurityInv
  <2>2. call' \in SetupCalls /\ load' \in Loads /\ me' \in SessionCopies
    BY <1>12, <2>1, SetupBlanks, SessionCopyTypes DEF A!Done, SecurityTyped, Loads, Loading
  <2>3. behind' \in BOOLEAN
    BY <1>12, <2>1 DEF A!Done, SecurityTyped
  <2>4. setup' \in Setups
    <3>1. setup \in Setups /\ TRUE \in BOOLEAN
      BY <2>1 DEF SecurityTyped
    <3>2. [setup EXCEPT !.sent = TRUE] \in Setups
      BY <3>1 DEF Setups
    <3>3. call.does = "invite" => call.g \in X
      BY <1>12, <2>1, SecurityConstants DEF A!Done, SecurityTyped, SetupCalls, SecurityInv, CallIsHere
    <3>4. call.does = "invite" => [setup EXCEPT !.invited = setup.invited \cup {call.g}] \in Setups
      BY <3>1, <3>3 DEF Setups
    <3>5. QED
      BY <1>12, <3>1, <3>2, <3>4 DEF A!Done
  <2>5. QED
    BY <1>12, <2>1, <2>2, <2>3, <2>4, TypedSetup
    DEF A!Done, A!serverVars, A!screenVars, A!calls, SecurityTyped
<1>13. ASSUME SecurityInv, NEW g \in X, A!GuardianAnswers(g) PROVE A!TypeOK'
  <2>1. SecurityTyped
    BY <1>13, TypedSetup DEF SecurityInv
  <2>2. guardian' \in [X -> States]
    BY <1>13, <2>1 DEF A!GuardianAnswers, SecurityTyped, States
  <2>3. behind' \in BOOLEAN
    BY <1>13, <2>1 DEF A!GuardianAnswers, SecurityTyped
  <2>4. QED
    BY <1>13, <2>1, <2>2, <2>3, TypedSetup
    DEF A!GuardianAnswers, A!serverVars, A!screenVars, A!calls, SecurityTyped
<1>14. ASSUME SecurityInv, NEW g \in X, A!PressInvite(g) PROVE A!TypeOK'
  <2>1. SecurityTyped
    BY <1>14, TypedSetup DEF SecurityInv
  <2>2. call' \in SetupCalls
    BY <1>14, SecurityConstants DEF A!PressInvite, A!Post, SetupCalls, CallsAt
  <2>3. QED
    BY <1>14, <2>1, <2>2, TypedSetup
    DEF A!PressInvite, A!serverVars, A!screenVars, A!calls, SecurityTyped
<1>15. ASSUME SecurityInv, NEW g \in X, A!PressRevoke(g) PROVE A!TypeOK'
  <2>1. SecurityTyped
    BY <1>15, TypedSetup DEF SecurityInv
  <2>2. call' \in SetupCalls
    BY <1>15, SecurityConstants DEF A!PressRevoke, A!Post, SetupCalls, CallsAt
  <2>3. QED
    BY <1>15, <2>1, <2>2, TypedSetup
    DEF A!PressRevoke, A!serverVars, A!screenVars, A!calls, SecurityTyped
<1>16. ASSUME SecurityInv, NEW s \in {"why", "email", "guardians", "done"}, A!GoTo(s) PROVE A!TypeOK'
  <2>1. SecurityTyped
    BY <1>16, TypedSetup DEF SecurityInv
  <2>2. setup' = [setup EXCEPT !.step = s]
    BY <1>16 DEF A!GoTo
  <2>3. setup' \in Setups
    BY <2>1, <2>2 DEF SecurityTyped, Setups, SetupSteps
  <2>4. QED
    BY <1>16, <2>1, <2>3, TypedSetup DEF A!GoTo, A!serverVars, A!screenVars, A!calls, SecurityTyped
<1>17. QED
  BY <1>1, <1>2, <1>3, <1>4, <1>5, <1>6, <1>7, <1>8, <1>9, <1>10, <1>11, <1>12, <1>13, <1>14, <1>15,
    <1>16
  DEF A!Next

LEMMA SecurityStep == SecurityInv /\ A!Next => SecurityInv'
<1>1. ASSUME SecurityInv, A!TypeOK', A!LinkOpened PROVE SecurityInv'
  <2>1. SecurityTyped
    BY <1>1, TypedSetup DEF SecurityInv
  <2>2. CallIsHere'
    BY <1>1, <2>1, SecurityConstants
    DEF A!LinkOpened, A!serverVars, A!screenVars, A!calls, SecurityInv, CallIsHere
  <2>3. ListIsFresh'
    BY <1>1, <2>1
    DEF A!LinkOpened, A!serverVars, A!screenVars, A!calls, SecurityInv, ListIsFresh, SecurityTyped
  <2>4. FoundAreAsked'
    BY <1>1, <2>1, SecurityConstants
    DEF A!LinkOpened, A!serverVars, A!screenVars, A!calls, SecurityInv, FoundAreAsked, SecurityTyped
  <2>5. QED
    BY <1>1, <2>2, <2>3, <2>4 DEF SecurityInv
<1>2. ASSUME SecurityInv, A!TypeOK', A!OnAnotherDevice PROVE SecurityInv'
  <2>1. SecurityTyped
    BY <1>2, TypedSetup DEF SecurityInv
  <2>2. CallIsHere'
    BY <1>2, <2>1, SecurityConstants
    DEF A!OnAnotherDevice, A!serverVars, A!screenVars, A!calls, SecurityInv, CallIsHere
  <2>3. ListIsFresh'
    BY <1>2, <2>1
    DEF A!OnAnotherDevice, A!serverVars, A!screenVars, A!calls, SecurityInv, ListIsFresh,
        SecurityTyped
  <2>4. FoundAreAsked'
    BY <1>2, <2>1, SecurityConstants
    DEF A!OnAnotherDevice, A!serverVars, A!screenVars, A!calls, SecurityInv, FoundAreAsked,
        SecurityTyped
  <2>5. QED
    BY <1>2, <2>2, <2>3, <2>4 DEF SecurityInv
<1>3. ASSUME SecurityInv, A!TypeOK', A!RefreshUser PROVE SecurityInv'
  <2>1. SecurityTyped
    BY <1>3, TypedSetup DEF SecurityInv
  <2>2. CallIsHere'
    BY <1>3, <2>1, SecurityConstants
    DEF A!RefreshUser, A!serverVars, A!screenVars, A!calls, SecurityInv, CallIsHere
  <2>3. ListIsFresh'
    BY <1>3, <2>1
    DEF A!RefreshUser, A!serverVars, A!screenVars, A!calls, SecurityInv, ListIsFresh, SecurityTyped
  <2>4. FoundAreAsked'
    BY <1>3, <2>1, SecurityConstants
    DEF A!RefreshUser, A!serverVars, A!screenVars, A!calls, SecurityInv, FoundAreAsked,
        SecurityTyped
  <2>5. QED
    BY <1>3, <2>2, <2>3, <2>4 DEF SecurityInv
<1>4. ASSUME SecurityInv, A!TypeOK', A!OpenSetup PROVE SecurityInv'
  <2>1. SecurityTyped
    BY <1>4, TypedSetup DEF SecurityInv
  <2>2. screen = "home"
    BY <1>4 DEF A!OpenSetup
  <2>3. CallIsHere'
    BY <1>4, <2>1, <2>2, SecurityConstants
    DEF A!OpenSetup, A!serverVars, A!screenVars, A!calls, SecurityInv, CallIsHere
  <2>4. ListIsFresh'
    BY <1>4, <2>1
    DEF A!OpenSetup, A!serverVars, A!screenVars, A!calls, SecurityInv, ListIsFresh, SecurityTyped,
        A!Open
  <2>5. FoundAreAsked'
    BY <1>4, <2>1, <2>2, SecurityConstants
    DEF A!OpenSetup, A!serverVars, A!screenVars, A!calls, SecurityInv, FoundAreAsked, SecurityTyped,
        CallIsHere, A!Open, A!NoSetup
  <2>6. QED
    BY <1>4, <2>3, <2>4, <2>5 DEF SecurityInv
<1>5. ASSUME SecurityInv, A!TypeOK', A!OpenSecurity PROVE SecurityInv'
  <2>1. SecurityTyped
    BY <1>5, TypedSetup DEF SecurityInv
  <2>2. CallIsHere'
    BY <1>5, <2>1, SecurityConstants
    DEF A!OpenSecurity, A!serverVars, A!screenVars, A!calls, SecurityInv, CallIsHere, A!Open,
        A!CallGoesOn, A!NoCall
  <2>3. ListIsFresh'
    BY <1>5, <2>1
    DEF A!OpenSecurity, A!serverVars, A!screenVars, A!calls, SecurityInv, ListIsFresh,
        SecurityTyped, A!Open
  <2>4. FoundAreAsked'
    BY <1>5, <2>1, SecurityConstants
    DEF A!OpenSecurity, A!serverVars, A!screenVars, A!calls, SecurityInv, FoundAreAsked,
        SecurityTyped, A!Open, A!NoSetup, A!CallGoesOn, A!NoCall
  <2>5. QED
    BY <1>5, <2>2, <2>3, <2>4 DEF SecurityInv
<1>6. ASSUME SecurityInv, A!TypeOK', A!Leave PROVE SecurityInv'
  <2>1. SecurityTyped
    BY <1>6, TypedSetup DEF SecurityInv
  <2>2. CallIsHere'
    BY <1>6, <2>1, SecurityConstants
    DEF A!Leave, A!serverVars, A!screenVars, A!calls, SecurityInv, CallIsHere, A!CallGoesOn,
        A!NoCall
  <2>3. ListIsFresh'
    BY <1>6, <2>1
    DEF A!Leave, A!serverVars, A!screenVars, A!calls, SecurityInv, ListIsFresh, SecurityTyped
  <2>4. FoundAreAsked'
    BY <1>6, <2>1, SecurityConstants
    DEF A!Leave, A!serverVars, A!screenVars, A!calls, SecurityInv, FoundAreAsked, SecurityTyped
  <2>5. QED
    BY <1>6, <2>2, <2>3, <2>4 DEF SecurityInv
<1>7. ASSUME SecurityInv, A!TypeOK', A!GotGuardians PROVE SecurityInv'
  <2>1. SecurityTyped
    BY <1>7, TypedSetup DEF SecurityInv
  <2>2. CallIsHere'
    BY <1>7, <2>1, SecurityConstants
    DEF A!GotGuardians, A!serverVars, A!screenVars, A!calls, SecurityInv, CallIsHere
  <2>3. ListIsFresh'
    BY <1>7, <2>1
    DEF A!GotGuardians, A!serverVars, A!screenVars, A!calls, SecurityInv, ListIsFresh,
        SecurityTyped, A!Answer, A!NoRows, A!Glitch, Loads
  <2>4. FoundAreAsked'
    BY <1>7, <2>1, SecurityConstants
    DEF A!GotGuardians, A!serverVars, A!screenVars, A!calls, SecurityInv, FoundAreAsked,
        SecurityTyped, A!Answer, A!Rows, Loads, Setups
  <2>5. QED
    BY <1>7, <2>2, <2>3, <2>4 DEF SecurityInv
<1>8. ASSUME SecurityInv, A!TypeOK', A!GotEmail PROVE SecurityInv'
  <2>1. SecurityTyped
    BY <1>8, TypedSetup DEF SecurityInv
  <2>2. CallIsHere'
    BY <1>8, <2>1, SecurityConstants
    DEF A!GotEmail, A!serverVars, A!screenVars, A!calls, SecurityInv, CallIsHere
  <2>3. ListIsFresh'
    BY <1>8, <2>1
    DEF A!GotEmail, A!serverVars, A!screenVars, A!calls, SecurityInv, ListIsFresh, SecurityTyped,
        A!Answer, A!Glitch, Loads
  <2>4. FoundAreAsked'
    BY <1>8, <2>1, SecurityConstants
    DEF A!GotEmail, A!serverVars, A!screenVars, A!calls, SecurityInv, FoundAreAsked, SecurityTyped,
        A!Answer, Loads, Setups
  <2>5. QED
    BY <1>8, <2>2, <2>3, <2>4 DEF SecurityInv
<1>9. ASSUME SecurityInv, A!TypeOK', A!PressEmail PROVE SecurityInv'
  <2>1. SecurityTyped
    BY <1>9, TypedSetup DEF SecurityInv
  <2>2. CallIsHere'
    BY <1>9, <2>1, SecurityConstants
    DEF A!PressEmail, A!serverVars, A!screenVars, A!calls, SecurityInv, CallIsHere, A!Post, A!NoCall
  <2>3. ListIsFresh'
    BY <1>9, <2>1, SecurityConstants
    DEF A!PressEmail, A!serverVars, A!screenVars, A!calls, SecurityInv, ListIsFresh, SecurityTyped,
        A!Post
  <2>4. FoundAreAsked'
    BY <1>9, <2>1, SecurityConstants
    DEF A!PressEmail, A!serverVars, A!screenVars, A!calls, SecurityInv, FoundAreAsked,
        SecurityTyped, A!Post
  <2>5. QED
    BY <1>9, <2>2, <2>3, <2>4 DEF SecurityInv
<1>10. ASSUME SecurityInv, A!TypeOK', A!Handle PROVE SecurityInv'
  <2>1. SecurityTyped
    BY <1>10, TypedSetup DEF SecurityInv
  <2>2. CallIsHere'
    BY <1>10, <2>1, SecurityConstants
    DEF A!Handle, A!serverVars, A!screenVars, SecurityInv, CallIsHere, A!NoCall, SecurityTyped, SetupCalls
  <2>3. /\ call.at = "posted" /\ call \in SetupCalls /\ UNCHANGED <<screen, load, list, address, setup>>
        /\ call' = A!NoCall \/ call' = [call EXCEPT !.at = "done"]
    BY <1>10, <2>1, SecurityConstants DEF A!Handle, A!screenVars, SecurityTyped
  <2>4. ASSUME A!Accepted(call), A!Write(call) PROVE ListIsFresh' /\ FoundAreAsked'
    <3>1. /\ call.does \in {"revoke", "unmail"} \/
               /\ email = "verified" => email' = "verified"
               /\ \A h \in X : /\ guardian[h] = "active" => guardian'[h] = "active"
                               /\ guardian[h] # "none" => guardian'[h] # "none"
          /\ call.does = "invite" => guardian[call.g] = "none"
      BY <2>1, <2>3, <2>4, WritesOf
    <3>2. /\ ~behind' => ~behind
          /\ ~behind' /\ call.does \in {"revoke", "unmail"} => call'.at = "done"
      BY <1>10, <2>1, <2>3, <2>4 DEF A!Handle, A!Unseen, SecurityTyped, SetupCalls
    <3>3. ListIsFresh'
      BY <1>10, <2>3, <3>1, <3>2 DEF A!Handle, SecurityInv, ListIsFresh
    <3>4. FoundAreAsked'
      <4>1. call'.at = A!None \/ (call'.does = call.does /\ call'.g = call.g)
        BY <2>3 DEF A!NoCall, SetupCalls
      <4>2. screen = "setup" => call.does \notin {"revoke", "unmail"} /\ setup.known \subseteq X
        BY <1>10, <2>1, <2>3, SecurityConstants DEF SecurityInv, CallIsHere, SecurityTyped, Setups
      <4>3. QED
        BY <1>10, <2>3, <3>1, <3>2, <4>1, <4>2, SecurityConstants DEF SecurityInv, FoundAreAsked
    <3>5. QED
      BY <3>3, <3>4
  <2>5. ASSUME UNCHANGED A!serverVars, behind' = behind, call' = A!NoCall
        PROVE  ListIsFresh' /\ FoundAreAsked'
    BY <1>10, <2>3, <2>5, SecurityConstants
    DEF A!Handle, A!serverVars, A!NoCall, SecurityInv, ListIsFresh, FoundAreAsked
  <2>6. QED
    BY <1>10, <2>2, <2>4, <2>5 DEF SecurityInv, A!Handle, A!serverVars
<1>11. ASSUME SecurityInv, A!TypeOK', A!HandleGone PROVE SecurityInv'
  <2>1. SecurityTyped
    BY <1>11, TypedSetup DEF SecurityInv
  <2>2. CallIsHere'
    BY <1>11, SecurityConstants DEF A!HandleGone, A!screenVars, SecurityInv, CallIsHere, A!NoCall
  <2>3. UNCHANGED <<screen, load, list, address, setup, call>> /\ gone \in GoneCalls
    BY <1>11, <2>1 DEF A!HandleGone, A!screenVars, SecurityTyped
  <2>4. ASSUME A!Accepted(gone), A!Write(gone) PROVE ListIsFresh' /\ FoundAreAsked'
    <3>1. gone.does \in {"revoke", "unmail"} \/
               /\ email = "verified" => email' = "verified"
               /\ \A h \in X : /\ guardian[h] = "active" => guardian'[h] = "active"
                               /\ guardian[h] # "none" => guardian'[h] # "none"
      BY <2>1, <2>3, <2>4, WritesOf
    <3>2. ~behind' => ~behind /\ gone.does \notin {"revoke", "unmail"}
      BY <1>11, <2>1, <2>4 DEF A!HandleGone, A!Unseen, SecurityTyped
    <3>3. ListIsFresh'
      BY <1>11, <2>3, <3>1, <3>2 DEF SecurityInv, ListIsFresh
    <3>4. FoundAreAsked'
      <4>1. setup.known \subseteq X
        BY <2>1 DEF SecurityTyped, Setups
      <4>2. QED
        BY <1>11, <2>3, <3>1, <3>2, <4>1 DEF SecurityInv, FoundAreAsked
    <3>5. QED
      BY <3>3, <3>4
  <2>5. ASSUME UNCHANGED A!serverVars, behind' = behind PROVE ListIsFresh' /\ FoundAreAsked'
    BY <1>11, <2>3, <2>5 DEF A!serverVars, SecurityInv, ListIsFresh, FoundAreAsked
  <2>6. QED
    BY <1>11, <2>2, <2>4, <2>5 DEF SecurityInv, A!HandleGone, A!serverVars
<1>12. ASSUME SecurityInv, A!TypeOK', A!Done PROVE SecurityInv'
  <2>1. SecurityTyped
    BY <1>12, TypedSetup DEF SecurityInv
  <2>2. CallIsHere'
    BY <1>12, <2>1, SecurityConstants
    DEF A!Done, A!serverVars, A!screenVars, A!calls, SecurityInv, CallIsHere, A!NoCall
  <2>3. ListIsFresh'
    BY <1>12, <2>1
    DEF A!Done, A!serverVars, A!screenVars, A!calls, SecurityInv, ListIsFresh, SecurityTyped,
        A!NoCall, Loads
  <2>4. FoundAreAsked'
    BY <1>12, <2>1, SecurityConstants
    DEF A!Done, A!serverVars, A!screenVars, A!calls, SecurityInv, FoundAreAsked, SecurityTyped,
        A!NoCall, Setups, CallIsHere
  <2>5. QED
    BY <1>12, <2>2, <2>3, <2>4 DEF SecurityInv
<1>13. ASSUME SecurityInv, A!TypeOK', NEW g \in X, A!GuardianAnswers(g) PROVE SecurityInv'
  <2>1. SecurityTyped
    BY <1>13, TypedSetup DEF SecurityInv
  <2>2. /\ setup.known \subseteq X
        /\ ~behind' => ~behind /\ \A h \in X : guardian[h] # "none" => guardian'[h] # "none"
    BY <1>13, <2>1 DEF A!GuardianAnswers, SecurityTyped, Setups
  <2>3. CallIsHere'
    BY <1>13, <2>1, SecurityConstants
    DEF A!GuardianAnswers, A!serverVars, A!screenVars, A!calls, SecurityInv, CallIsHere
  <2>4. ListIsFresh'
    BY <1>13, <2>1
    DEF A!GuardianAnswers, A!serverVars, A!screenVars, A!calls, SecurityInv, ListIsFresh,
        SecurityTyped
  <2>5. FoundAreAsked'
    BY <1>13, <2>1, <2>2, SecurityConstants
    DEF A!GuardianAnswers, A!serverVars, A!screenVars, A!calls, SecurityInv, FoundAreAsked,
        SecurityTyped
  <2>6. QED
    BY <1>13, <2>3, <2>4, <2>5 DEF SecurityInv
<1>14. ASSUME SecurityInv, A!TypeOK', NEW g \in X, A!PressInvite(g) PROVE SecurityInv'
  <2>1. SecurityTyped
    BY <1>14, TypedSetup DEF SecurityInv
  <2>2. CallIsHere'
    BY <1>14, <2>1, SecurityConstants
    DEF A!PressInvite, A!serverVars, A!screenVars, A!calls, SecurityInv, CallIsHere, A!Post,
        A!NoCall
  <2>3. ListIsFresh'
    BY <1>14, <2>1, SecurityConstants
    DEF A!PressInvite, A!serverVars, A!screenVars, A!calls, SecurityInv, ListIsFresh, SecurityTyped,
        A!Post
  <2>4. FoundAreAsked'
    BY <1>14, <2>1, SecurityConstants
    DEF A!PressInvite, A!serverVars, A!screenVars, A!calls, SecurityInv, FoundAreAsked,
        SecurityTyped, A!Post, A!MayPick, A!Shown
  <2>5. QED
    BY <1>14, <2>2, <2>3, <2>4 DEF SecurityInv
<1>15. ASSUME SecurityInv, A!TypeOK', NEW g \in X, A!PressRevoke(g) PROVE SecurityInv'
  <2>1. SecurityTyped
    BY <1>15, TypedSetup DEF SecurityInv
  <2>2. CallIsHere'
    BY <1>15, <2>1, SecurityConstants
    DEF A!PressRevoke, A!serverVars, A!screenVars, A!calls, SecurityInv, CallIsHere, A!Post,
        A!NoCall
  <2>3. ListIsFresh'
    BY <1>15, <2>1, SecurityConstants
    DEF A!PressRevoke, A!serverVars, A!screenVars, A!calls, SecurityInv, ListIsFresh, SecurityTyped,
        A!Post
  <2>4. FoundAreAsked'
    BY <1>15, <2>1, SecurityConstants
    DEF A!PressRevoke, A!serverVars, A!screenVars, A!calls, SecurityInv, FoundAreAsked,
        SecurityTyped, A!Post
  <2>5. QED
    BY <1>15, <2>2, <2>3, <2>4 DEF SecurityInv
<1>16. ASSUME SecurityInv, A!TypeOK', NEW s \in {"why", "email", "guardians", "done"}, A!GoTo(s)
      PROVE  SecurityInv'
  <2>1. SecurityTyped
    BY <1>16, TypedSetup DEF SecurityInv
  <2>2. CallIsHere'
    BY <1>16, <2>1, SecurityConstants
    DEF A!GoTo, A!serverVars, A!screenVars, A!calls, SecurityInv, CallIsHere
  <2>3. ListIsFresh'
    BY <1>16, <2>1
    DEF A!GoTo, A!serverVars, A!screenVars, A!calls, SecurityInv, ListIsFresh, SecurityTyped
  <2>4. FoundAreAsked'
    BY <1>16, <2>1, SecurityConstants
    DEF A!GoTo, A!serverVars, A!screenVars, A!calls, SecurityInv, FoundAreAsked, SecurityTyped,
        Setups
  <2>5. QED
    BY <1>16, <2>2, <2>3, <2>4 DEF SecurityInv
<1>17. QED
  BY SecurityTypes, <1>1, <1>2, <1>3, <1>4, <1>5, <1>6, <1>7, <1>8, <1>9, <1>10, <1>11, <1>12,
    <1>13, <1>14, <1>15, <1>16
  DEF SecurityInv, A!Next

LEMMA SecurityRests == SecurityInv /\ UNCHANGED <<AVars, glitches>> => SecurityInv'
BY DEF SecurityInv, A!TypeOK, CallIsHere, ListIsFresh, FoundAreAsked, A!States, A!None, A!NoCall, AVars

\* On, when its list is what the server has.
LEMMA SetupKept == SecurityInv => A!OnIsOn /\ A!CountedOnce
<1> SUFFICES ASSUME SecurityInv PROVE A!OnIsOn /\ A!CountedOnce
  OBVIOUS
<1>1. SecurityTyped
  BY TypedSetup DEF SecurityInv
<1>2. A!CountedOnce
  BY DEF SecurityInv, FoundAreAsked, A!CountedOnce
<1>3. ASSUME screen = "security", A!Shown, call.at # "done", A!RecoveryReady, ~behind
      PROVE  A!Ready(guardian, email = "verified")
  <2>1. email = "verified" /\ A!Active(list) \subseteq A!Active(guardian)
    BY <1>1, <1>3 DEF SecurityInv, ListIsFresh, A!Shown, A!RecoveryReady, A!Active
  <2>2. A!Active(list) \in SUBSET X /\ A!Active(guardian) \in SUBSET X
    BY DEF A!Active
  <2>3. Cardinality(A!Active(list)) >= A!MinQuorum
    BY <1>3, SameCountOfGuardians DEF A!RecoveryReady, A!CountsActive
  <2>4. Cardinality(A!Active(guardian)) >= A!MinQuorum
    BY <2>1, <2>2, <2>3, CountOfSome DEF A!MinQuorum
  <2>5. QED
    BY <2>1, <2>4, SameCountOfGuardians DEF A!Ready
<1>4. QED
  BY <1>2, <1>3 DEF A!OnIsOn

-----------------------------------------------------------------------------
(* All of them. *)

\* The part a behaviour is about keeps its invariant; the others rest.
ScreensInv ==
    /\ part = "transfer" => TransferInv
    /\ part = "offramp" => OfframpFormInv
    /\ part = "session" => BrowserInv
    /\ part = "packet" => PacketScreenInv
    /\ part = "code" => PayScreenInv
    /\ part = "qris" => MerchantInv
    /\ part = "bill" => BillScreenInv
    /\ part = "recover" => RecoverScreenInv
    /\ part = "security" => SecurityInv

LEMMA ScreensStart == ScreensInit => ScreensInv
BY TransferStarts, OfframpFormStarts, BrowserStarts, PacketScreenStarts, PayScreenStarts,
   MerchantStarts, BillScreenStarts, RecoverScreenStarts, SecurityStarts
DEF ScreensInit, ScreensInv

LEMMA ScreensStep == ScreensInv /\ [ScreensNext]_allVars => ScreensInv'
<1> SUFFICES ASSUME ScreensInv, [ScreensNext]_allVars PROVE ScreensInv'
  OBVIOUS
<1>1. part' = part
  BY DEF ScreensNext, allVars
<1>2. ASSUME part = "transfer" PROVE TransferInv'
  <2>1. TransferInv
    BY <1>2 DEF ScreensInv
  <2>2. T!Next \/ UNCHANGED TVars
    BY <1>2, Zenon DEF ScreensNext, allVars
  <2>3. QED
    BY <2>1, <2>2, TransferStep, TransferRests
<1>3. ASSUME part = "offramp" PROVE OfframpFormInv'
  <2>1. OfframpFormInv
    BY <1>3 DEF ScreensInv
  <2>2. F!Next \/ UNCHANGED <<FVars, glitches>>
    BY <1>3, Zenon DEF ScreensNext, allVars
  <2>3. QED
    BY <2>1, <2>2, OfframpFormStep, OfframpFormRests
<1>4. ASSUME part = "session" PROVE BrowserInv'
  <2>1. BrowserInv
    BY <1>4 DEF ScreensInv
  <2>2. B!Next \/ UNCHANGED BVars
    BY <1>4, Zenon DEF ScreensNext, allVars
  <2>3. QED
    BY <2>1, <2>2, BrowserStep, BrowserRests
<1>5. ASSUME part = "packet" PROVE PacketScreenInv'
  <2>1. PacketScreenInv
    BY <1>5 DEF ScreensInv
  <2>2. P!Next \/ UNCHANGED <<PVars, glitches>>
    BY <1>5, Zenon DEF ScreensNext, allVars
  <2>3. QED
    BY <2>1, <2>2, PacketScreenStep, PacketScreenRests
<1>6. ASSUME part = "code" PROVE PayScreenInv'
  <2>1. PayScreenInv
    BY <1>6 DEF ScreensInv
  <2>2. Q!Next \/ UNCHANGED <<QVars, glitches>>
    BY <1>6, Zenon DEF ScreensNext, allVars
  <2>3. QED
    BY <2>1, <2>2, PayScreenStep, PayScreenRests
<1>7. ASSUME part = "qris" PROVE MerchantInv'
  <2>1. MerchantInv
    BY <1>7 DEF ScreensInv
  <2>2. M!Next \/ UNCHANGED <<MVars, glitches>>
    BY <1>7, Zenon DEF ScreensNext, allVars
  <2>3. QED
    BY <2>1, <2>2, MerchantStep, MerchantRests
<1>8. ASSUME part = "bill" PROVE BillScreenInv'
  <2>1. BillScreenInv
    BY <1>8 DEF ScreensInv
  <2>2. S!Next \/ UNCHANGED <<SVars, glitches>>
    BY <1>8, Zenon DEF ScreensNext, allVars
  <2>3. QED
    BY <2>1, <2>2, BillScreenStep, BillScreenRests
<1>9. ASSUME part = "recover" PROVE RecoverScreenInv'
  <2>1. RecoverScreenInv
    BY <1>9 DEF ScreensInv
  <2>2. R!Next \/ UNCHANGED <<RVars, glitches>>
    BY <1>9, Zenon DEF ScreensNext, allVars
  <2>3. QED
    BY <2>1, <2>2, RecoverScreenStep, RecoverScreenRests
<1>10. ASSUME part = "security" PROVE SecurityInv'
  <2>1. SecurityInv
    BY <1>10 DEF ScreensInv
  <2>2. A!Next \/ UNCHANGED <<AVars, glitches>>
    BY <1>10, Zenon DEF ScreensNext, allVars
  <2>3. QED
    BY <2>1, <2>2, SecurityStep, SecurityRests
<1>11. QED
  BY <1>1, <1>2, <1>3, <1>4, <1>5, <1>6, <1>7, <1>8, <1>9, <1>10 DEF ScreensInv

LEMMA ScreensHold == ScreensSpec => []ScreensInv
BY ScreensStart, ScreensStep, PTL DEF ScreensSpec

\* For a sender who edits nothing while it is looked up and does not leave, whoever is on the review is
\* who is paid, or, where a code was changed after a failed look-up, one of those shown,
\* by the transfer the receipt shows, with one of them under way; a payout is for the fee quoted, to
\* the account reviewed, and one lock of it is filed while every call is answered.
THEOREM WhoIsReviewedIsPaid == ScreensSpec => []ReviewedIsPaid
<1>1. ScreensInv => ReviewedIsPaid
  BY TransferKept, OfframpFormKept DEF ScreensInv, ReviewedIsPaid
<1>2. QED
  BY <1>1, ScreensHold, PTL

\* However two accounts take turns in one browser, a connected wallet is of
\* the account that is signed in; its number and what is signed are too, while the session does
\* not change in another tab, or with an answer out or an action under way.
THEOREM AccountsStayApart == ScreensSpec => []AccountsKeptApart
<1>1. ScreensInv => AccountsKeptApart
  BY BrowserKept DEF ScreensInv, AccountsKeptApart
<1>2. QED
  BY <1>1, ScreensHold, PTL

\* An envelope that is open is of a claim that was answered in its tab, and whose payout landed, or of
\* one the server named when it was loaded; a packet that was paid for is stranded only if it has
\* more slots than units, and a private one is claimed by its circle alone.
THEOREM EnvelopesStayTrue == ScreensSpec => []EnvelopesAreTrue
<1>1. ScreensInv => EnvelopesAreTrue
  BY PacketScreenKept DEF ScreensInv, EnvelopesAreTrue
<1>2. QED
  BY <1>1, ScreensHold, PTL

\* The code of an account asks for no amount, once an opening, a bill for one, and a page pays what is
\* asked; a second scan moves neither the merchant shown nor the one paid; a share
\* reads paid when a transfer or the payee made it so.
THEOREM CodesStayTrue == ScreensSpec => []CodesAreTrue
<1>1. ScreensInv => CodesAreTrue
  BY PayScreenKept, BillScreenKept DEF ScreensInv, CodesAreTrue, MerchantInv
<1>2. QED
  BY <1>1, ScreensHold, PTL

\* An account moves to a number its owner reads, and that had none, whatever was typed while its code
\* was on the way; a guardian's page says confirmed of a vote that is a row, and closed of a request
\* nobody can vote on, unless the write that closes it was lost.
THEOREM RecoveryStaysTrue == ScreensSpec => []RecoveryIsTrue
<1>1. ScreensInv => RecoveryIsTrue
  BY RecoverScreenKept DEF ScreensInv, RecoveryIsTrue
<1>2. QED
  BY <1>1, ScreensHold, PTL

\* Recovery that reads On would work, and the walkthrough counts a guardian once, unless something
\* changed behind the screen.
THEOREM SetupStaysTrue == ScreensSpec => []SetupIsTrue
<1>1. ScreensInv => SetupIsTrue
  BY SetupKept DEF ScreensInv, SetupIsTrue, SecurityInv
<1>2. QED
  BY <1>1, ScreensHold, PTL
=============================================================================
