---------------------------- MODULE Accounts_proofs ----------------------------
(***************************************************************************)
(* Theorems about the parts of an account, for any number of people,       *)
(* invocations and faults.  Each is proved of the part's own specification *)
(* and then of the composition, in which every other step leaves the part  *)
(* alone.                                                                  *)
(***************************************************************************)
EXTENDS MCAccounts

-----------------------------------------------------------------------------
(* The nonces of one account. *)

\* The sends the node accepted.
Landed == {i \in N!Send : landed[i] # 0}
Accepts == Cardinality(Landed)

\* No nonce in use is above the number of transactions the node has accepted.
NoncesBounded ==
    /\ onChain <= Accepts
    /\ \A n \in N!Nonce : pool[n] # 0 => n < Accepts
    /\ \A p \in Process : held[p].next <= Accepts
    /\ \A s \in Slot : /\ send[s].nonce <= Accepts
                       /\ N!At(s, "reserve") => send[s].nonce < Accepts

\* Whoever may still send its transaction is the only one that holds it, and the node has not.
Unsent == {"allocate", "broadcast", "rejected", "pending", "again"}
SendsApart ==
    /\ \A i \in N!Send : landed[i] <= 1 /\ (i > begun => landed[i] = 0)
    /\ \A s \in Slot : ~N!At(s, "idle") => send[s].id \in 1 .. begun /\ send[s].process \in Process
    /\ \A s \in Slot : send[s].at \in Unsent => landed[send[s].id] = 0
    /\ \A s, t \in Slot : ~N!At(s, "idle") /\ ~N!At(t, "idle") /\ send[s].id = send[t].id => s = t

\* Below a nonce that is remembered or about to be used, every nonce is filled.
FilledTo(n) == \A m \in N!Nonce : onChain <= m /\ m < n => pool[m] # 0
NothingMissing ==
    troubles = 0 =>
        /\ \A n \in N!Nonce : pool[n] # 0 => FilledTo(n)
        /\ \A p \in Process : FilledTo(held[p].next)
        /\ \A s \in Slot : /\ send[s].at \in {"allocate", "broadcast", "again"} => FilledTo(send[s].nonce)
                           /\ N!At(s, "reserve") => FilledTo(send[s].nonce + 1)
                           /\ ~N!At(s, "failed")

\* The nonce of a retry stays free until somebody else is accepted.
RetryIsFree ==
    /\ refused = {}
    /\ \A s \in Slot : N!At(s, "again") /\ send[s].alone => N!Free(send[s].nonce)

NoncesInv == N!TypeOK /\ NoncesBounded /\ SendsApart /\ NothingMissing /\ RetryIsFree

LEMMA NonceConstants == MaxSends \in Nat /\ MaxTroubles \in Nat /\ "none" \notin Process
BY AccountsAssumption DEF AccountsAssumption

LEMMA AcceptsTypes ==
    ASSUME N!TypeOK
    PROVE  IsFiniteSet(Landed) /\ Accepts \in Nat /\ Accepts <= MaxSends
<1>1. IsFiniteSet(1 .. MaxSends) /\ Cardinality(1 .. MaxSends) = MaxSends
  BY NonceConstants, FS_Interval
<1>2. Landed \subseteq 1 .. MaxSends
  BY DEF Landed, N!Send
<1>3. IsFiniteSet(Landed) /\ Cardinality(Landed) <= MaxSends
  BY <1>1, <1>2, FS_Subset
<1>4. QED
  BY <1>3, FS_CardinalityType DEF Accepts

\* The node accepts one more.
LEMMA NodeAccepts ==
    ASSUME N!TypeOK, NEW i \in N!Send, landed[i] = 0, landed' = [landed EXCEPT ![i] = @ + 1]
    PROVE  Accepts' = Accepts + 1 /\ landed' \in [N!Send -> Nat] /\ landed'[i] = 1
<1>1. landed \in [N!Send -> Nat]
  BY DEF N!TypeOK
<1>2. landed' \in [N!Send -> Nat] /\ landed'[i] = 1
  BY <1>1
<1>3. Landed' = Landed \cup {i} /\ i \notin Landed
  BY <1>1 DEF Landed
<1>4. Cardinality(Landed \cup {i}) = Cardinality(Landed) + 1
  BY <1>3, AcceptsTypes, FS_AddElement
<1>5. QED
  BY <1>2, <1>3, <1>4 DEF Accepts

SendType ==
    [at : {"idle", "allocate", "broadcast", "reserve", "rejected", "failed", "pending", "again"},
     process : Process \cup {"none"}, nonce : N!Nonce, id : 0 .. MaxSends, alone : BOOLEAN]
HeldType == [next : 0 .. MaxSends + 1, old : BOOLEAN]

LEMMA NoncesTyped ==
    ASSUME NoncesInv
    PROVE  /\ settler \in BOOLEAN /\ onChain \in N!Nonce /\ pool \in [N!Nonce -> 0 .. MaxSends]
           /\ held \in [Process -> HeldType] /\ send \in [Slot -> SendType]
           /\ begun \in 0 .. MaxSends /\ landed \in [N!Send -> Nat] /\ refused = {}
           /\ troubles \in 0 .. MaxTroubles /\ MaxSends \in Nat /\ MaxTroubles \in Nat
           /\ Accepts \in Nat /\ Accepts <= MaxSends
BY NonceConstants, AcceptsTypes DEF NoncesInv, N!TypeOK, RetryIsFree, SendType, HeldType

\* A step of one send that neither the node nor the chain notices.
LEMMA QuietStep ==
    ASSUME NoncesInv, NEW s \in Slot,
           UNCHANGED <<settler, onChain, pool, begun, landed, refused>>,
           troubles' \in 0 .. MaxTroubles, troubles' = 0 => troubles = 0,
           held' \in [Process -> HeldType],
           \A p \in Process : /\ held'[p].next <= Accepts
                              /\ troubles = 0 => FilledTo(held'[p].next),
           send' \in [Slot -> SendType], \A t \in Slot : t # s => send'[t] = send[t],
           send'[s].nonce <= Accepts, send'[s].at = "reserve" => send'[s].nonce < Accepts,
           send'[s].at # "idle" => /\ send[s].at # "idle"
                                   /\ send'[s].id = send[s].id /\ send'[s].process = send[s].process,
           send'[s].at \in Unsent => send[s].at \in Unsent,
           troubles' = 0 =>
               /\ send'[s].at \in {"allocate", "broadcast", "again"} => FilledTo(send'[s].nonce)
               /\ send'[s].at = "reserve" => FilledTo(send'[s].nonce + 1)
               /\ send'[s].at # "failed",
           send'[s].at = "again" /\ send'[s].alone => N!Free(send'[s].nonce)
    PROVE  NoncesInv'
<1>1. N!TypeOK'
  BY DEF NoncesInv, N!TypeOK, SendType, HeldType
<1>2. UNCHANGED Accepts
  BY DEF Accepts, Landed
<1>3. NoncesBounded'
  BY <1>2 DEF NoncesInv, NoncesBounded, N!At
<1>4. SendsApart'
  <2>1. \A t \in Slot : send'[t].at # "idle" => /\ send[t].at # "idle"
                                              /\ send'[t].id = send[t].id
                                              /\ send'[t].process = send[t].process
    OBVIOUS
  <2>2. \A t \in Slot : send'[t].at \in Unsent => send[t].at \in Unsent
    OBVIOUS
  <2>3. \A t \in Slot : send'[t].at \in Unsent => send'[t].at # "idle"
    BY DEF Unsent
  <2>4. QED
    BY <2>1, <2>2, <2>3 DEF NoncesInv, SendsApart, N!At
<1>5. NothingMissing'
  <2>1. ASSUME troubles' = 0
        PROVE  /\ \A n \in N!Nonce : pool'[n] # 0 => FilledTo(n)'
               /\ \A p \in Process : FilledTo(held[p].next)'
    BY <2>1 DEF NoncesInv, NothingMissing, FilledTo
  <2>2. ASSUME troubles' = 0, NEW t \in Slot
        PROVE  /\ send'[t].at \in {"allocate", "broadcast", "again"} => FilledTo(send[t].nonce)'
               /\ send'[t].at = "reserve" => FilledTo(send[t].nonce + 1)'
               /\ send'[t].at # "failed"
    <3>1. CASE t = s
      BY <2>2, <3>1 DEF FilledTo
    <3>2. CASE t # s
      BY <2>2, <3>2 DEF NoncesInv, NothingMissing, FilledTo, N!At
    <3>3. QED
      BY <3>1, <3>2
  <2>3. QED
    BY <2>1, <2>2 DEF NothingMissing, N!At
<1>6. RetryIsFree'
  <2>1. ASSUME NEW t \in Slot, send'[t].at = "again", send'[t].alone
        PROVE  onChain <= send'[t].nonce /\ pool[send'[t].nonce] = 0
    <3>1. CASE t = s
      BY <2>1, <3>1 DEF N!Free
    <3>2. CASE t # s
      BY <2>1, <3>2 DEF NoncesInv, RetryIsFree, N!Free, N!At
    <3>3. QED
      BY <3>1, <3>2
  <2>2. QED
    BY <2>1, NoncesTyped DEF NoncesInv, RetryIsFree, N!Free, N!At
<1>7. QED
  BY <1>1, <1>3, <1>4, <1>5, <1>6 DEF NoncesInv

\* What is remembered is bounded and reaches no gap.
LEMMA HeldFilled ==
    ASSUME NoncesInv, NEW p \in Process
    PROVE  /\ held[p] \in HeldType /\ held[p].next <= Accepts
           /\ troubles = 0 => FilledTo(held[p].next)
BY NoncesTyped DEF NoncesInv, NoncesBounded, NothingMissing

LEMMA SendFilled ==
    ASSUME NoncesInv, NEW s \in Slot
    PROVE  /\ send[s] \in SendType /\ send[s].nonce <= Accepts
           /\ send[s].at = "reserve" => send[s].nonce < Accepts
           /\ send[s].at # "idle" => send[s].process \in Process /\ send[s].id \in 1 .. begun
           /\ send[s].at \in Unsent => send[s].id \in N!Send /\ landed[send[s].id] = 0
           /\ troubles = 0 =>
               /\ send[s].at \in {"allocate", "broadcast", "again"} => FilledTo(send[s].nonce)
               /\ send[s].at = "reserve" => FilledTo(send[s].nonce + 1)
           /\ N!Idle \in SendType /\ FilledTo(0) /\ N!Nothing \in HeldType
<1>1. N!Idle \in SendType /\ N!Nothing \in HeldType
  BY NonceConstants DEF N!Idle, SendType, N!Nonce, N!Nothing, HeldType
<1>2. FilledTo(0)
  BY NoncesTyped DEF FilledTo, N!Nonce
<1>3. send[s] \in SendType
  BY NoncesTyped
<1>4. send[s].at # "idle" => send[s].process \in Process /\ send[s].id \in 1 .. begun
  BY DEF NoncesInv, SendsApart, N!At
<1>5. send[s].at \in Unsent => send[s].id \in N!Send /\ landed[send[s].id] = 0
  BY <1>4, NoncesTyped DEF NoncesInv, SendsApart, Unsent, N!Send
<1>6. QED
  BY <1>1, <1>2, <1>3, <1>4, <1>5 DEF NoncesInv, NoncesBounded, NothingMissing, N!At

LEMMA AllocateSafe ==
    ASSUME NoncesInv, NEW s \in Slot, N!AllocateNonce(s)
    PROVE  NoncesInv'
<1> DEFINE p == send[s].process
           h == held[p]
<1>1. /\ send[s].at = "allocate" /\ UNCHANGED <<settler, onChain, pool, begun, landed, refused, troubles>>
      /\ send' = [send EXCEPT ![s].at = "broadcast",
                              ![s].nonce = IF h.old THEN @ ELSE N!MaxOf(@, h.next)]
      /\ held' = IF h.old THEN [held EXCEPT ![p] = N!Nothing] ELSE held
  BY DEF N!AllocateNonce, N!At
<1>2. /\ p \in Process /\ send[s] \in SendType /\ send[s].nonce <= Accepts /\ h \in HeldType
      /\ h.next <= Accepts
      /\ troubles = 0 => FilledTo(send[s].nonce) /\ FilledTo(h.next)
  BY <1>1, SendFilled, HeldFilled
<1>3. PICK n \in N!Nonce : n = IF h.old THEN send[s].nonce ELSE N!MaxOf(send[s].nonce, h.next)
  <2>1. h.next \in N!Nonce /\ send[s].nonce \in N!Nonce
    BY <1>2, NoncesTyped DEF HeldType, SendType, N!Nonce
  <2>2. QED
    BY <2>1 DEF N!MaxOf
<1>4. n \in {send[s].nonce, h.next}
  BY <1>3 DEF N!MaxOf
<1>5. send' = [send EXCEPT ![s].at = "broadcast", ![s].nonce = n]
  BY <1>1, <1>3
<1>6. /\ send' \in [Slot -> SendType] /\ \A t \in Slot : t # s => send'[t] = send[t]
      /\ send'[s].at = "broadcast" /\ send'[s].nonce = n /\ send'[s].id = send[s].id
      /\ send'[s].process = p
  <2>1. send'[s] = [at |-> "broadcast", process |-> p, nonce |-> n, id |-> send[s].id,
                    alone |-> send[s].alone]
    BY <1>5, <1>2, NoncesTyped DEF SendType
  <2>2. send'[s] \in SendType
    BY <2>1, <1>2 DEF SendType
  <2>3. send' = [send EXCEPT ![s] = send'[s]]
    BY <1>5, NoncesTyped
  <2>4. QED
    BY <2>1, <2>2, <2>3, NoncesTyped
<1>7. /\ held' \in [Process -> HeldType]
      /\ \A q \in Process : held'[q] \in {held[q], N!Nothing}
  BY <1>1, NoncesTyped, SendFilled
<1>8. \A q \in Process : held'[q].next <= Accepts /\ (troubles = 0 => FilledTo(held'[q].next))
  BY <1>7, HeldFilled, SendFilled, NoncesTyped DEF N!Nothing
<1>9. QED
  BY <1>1, <1>2, <1>4, <1>6, <1>7, <1>8, NoncesTyped, QuietStep DEF Unsent

LEMMA SendGoto ==
    ASSUME NoncesInv, NEW s \in Slot,
           NEW at \in {"broadcast", "rejected", "failed", "pending", "again"}, N!Goto(s, at)
    PROVE  /\ send' \in [Slot -> SendType] /\ \A t \in Slot : t # s => send'[t] = send[t]
           /\ send'[s].at = at /\ send'[s].nonce = send[s].nonce /\ send'[s].id = send[s].id
           /\ send'[s].process = send[s].process
BY NoncesTyped DEF N!Goto, SendType

LEMMA SendReturn ==
    ASSUME NoncesInv, NEW s \in Slot, N!Return(s)
    PROVE  /\ send' \in [Slot -> SendType] /\ \A t \in Slot : t # s => send'[t] = send[t]
           /\ send'[s].at = "idle" /\ send'[s].nonce = 0
<1>1. send' = [send EXCEPT ![s] = N!Idle]
  BY DEF N!Return
<1>2. N!Idle.at = "idle" /\ N!Idle.nonce = 0
  BY DEF N!Idle
<1>3. QED
  BY <1>1, <1>2, NoncesTyped, SendFilled

\* A send that gives up, or waits to try again, with the reservation dropped or not.
LEMMA GivesUp ==
    ASSUME NoncesInv, NEW s \in Slot, send[s].at # "idle",
           UNCHANGED <<settler, onChain, pool, begun, landed, refused>>,
           troubles' \in 0 .. MaxTroubles, troubles' = 0 => troubles = 0,
           UNCHANGED held \/ N!Forget(s),
           \/ N!Return(s)
           \/ \E at \in {"rejected", "pending"} : send[s].at \in Unsent /\ N!Goto(s, at)
           \/ N!Goto(s, "failed") /\ troubles' # 0
    PROVE  NoncesInv'
<1>1. /\ held' \in [Process -> HeldType]
      /\ \A p \in Process : held'[p] \in {held[p], N!Nothing}
  BY NoncesTyped, SendFilled DEF N!Forget
<1>2. \A p \in Process : held'[p].next <= Accepts /\ (troubles = 0 => FilledTo(held'[p].next))
  BY <1>1, HeldFilled, SendFilled, NoncesTyped DEF N!Nothing
<1>3. CASE N!Return(s)
  <2>1. /\ send' \in [Slot -> SendType] /\ \A t \in Slot : t # s => send'[t] = send[t]
        /\ send'[s].at = "idle" /\ send'[s].nonce <= Accepts
    BY <1>3, SendReturn, NoncesTyped
  <2>2. QED
    BY <1>1, <1>2, <2>1, QuietStep DEF Unsent
<1>4. ASSUME NEW at \in {"rejected", "pending"}, send[s].at \in Unsent, N!Goto(s, at)
      PROVE  NoncesInv'
  <2>1. /\ send' \in [Slot -> SendType] /\ \A t \in Slot : t # s => send'[t] = send[t]
        /\ send'[s].at = at /\ send'[s].nonce <= Accepts /\ send'[s].id = send[s].id
        /\ send'[s].process = send[s].process
    BY <1>4, SendGoto, SendFilled
  <2>2. QED
    BY <1>1, <1>2, <1>4, <2>1, QuietStep DEF Unsent
<1>5. CASE N!Goto(s, "failed") /\ troubles' # 0
  <2>1. /\ send' \in [Slot -> SendType] /\ \A t \in Slot : t # s => send'[t] = send[t]
        /\ send'[s].at = "failed" /\ send'[s].nonce <= Accepts /\ send'[s].id = send[s].id
        /\ send'[s].process = send[s].process
    BY <1>5, SendGoto, SendFilled
  <2>2. QED
    BY <1>1, <1>2, <1>5, <2>1, QuietStep DEF Unsent
<1>6. QED
  BY <1>3, <1>4, <1>5

\* The node takes a transaction: nobody's retry is undisturbed any more, and the nonce fills up.
LEMMA TakeSafe ==
    ASSUME NoncesInv, NEW s \in Slot, send[s].at \in {"broadcast", "again"},
           N!Free(send[s].nonce), N!NodeTakes(s), NEW at \in {"reserve", "failed"}, N!Accepted(s, at),
           UNCHANGED <<settler, onChain, held, begun, refused>>,
           troubles' \in 0 .. MaxTroubles, troubles' = 0 => troubles = 0 /\ at = "reserve"
    PROVE  NoncesInv'
<1> DEFINE n == send[s].nonce
           i == send[s].id
<1>1. /\ send[s] \in SendType /\ n <= Accepts /\ n \in N!Nonce /\ i \in N!Send /\ i \in 1 .. begun
      /\ landed[i] = 0
      /\ troubles = 0 => FilledTo(n)
  BY SendFilled DEF Unsent, SendType
<1>2. /\ Accepts' = Accepts + 1 /\ landed' \in [N!Send -> Nat] /\ landed'[i] = 1
      /\ \A j \in N!Send : j # i => landed'[j] = landed[j]
  BY <1>1, NodeAccepts, NoncesTyped DEF NoncesInv, N!NodeTakes
<1>3. /\ pool' \in [N!Nonce -> 0 .. MaxSends] /\ pool'[n] = i /\ i # 0
      /\ \A m \in N!Nonce : m # n => pool'[m] = pool[m]
  BY <1>1, NoncesTyped DEF N!NodeTakes, N!Send
<1>4. /\ send' \in [Slot -> SendType]
      /\ \A t \in Slot : /\ send'[t].nonce = send[t].nonce /\ send'[t].id = send[t].id
                         /\ send'[t].process = send[t].process
                         /\ t # s => send'[t].at = send[t].at /\ ~send'[t].alone
      /\ send'[s].at = at
  <2>1. send' = [t \in Slot |-> IF t = s THEN [send[t] EXCEPT !.at = at]
                                         ELSE [send[t] EXCEPT !.alone = FALSE]]
    BY DEF N!Accepted
  <2>2. \A t \in Slot : send[t] \in SendType
    BY NoncesTyped
  <2>3. \A t \in Slot : t # s => send'[t] = [send[t] EXCEPT !.alone = FALSE]
    BY <2>1
  <2>4. send'[s] = [send[s] EXCEPT !.at = at]
    BY <2>1
  <2>5. ASSUME NEW t \in Slot, t # s
        PROVE  /\ send'[t] \in SendType /\ send'[t].nonce = send[t].nonce /\ send'[t].id = send[t].id
               /\ send'[t].process = send[t].process /\ send'[t].at = send[t].at
               /\ send'[t].alone = FALSE
    <3>1. send[t] \in SendType /\ send'[t] = [send[t] EXCEPT !.alone = FALSE]
      BY <2>2, <2>3, <2>5
    <3>2. QED
      BY <3>1 DEF SendType
  <2>6. /\ send'[s] \in SendType /\ send'[s].nonce = send[s].nonce /\ send'[s].id = send[s].id
        /\ send'[s].process = send[s].process /\ send'[s].at = at
    BY <2>2, <2>4 DEF SendType
  <2>7. send' \in [Slot -> SendType]
    BY <2>1, <2>5, <2>6
  <2>8. QED
    BY <2>5, <2>6, <2>7
<1> HIDE DEF n, i
<1>5. N!TypeOK'
  BY <1>2, <1>3, <1>4, NoncesTyped DEF N!TypeOK, SendType, HeldType
<1>6. NoncesBounded'
  <2>1. Accepts \in Nat /\ Accepts < Accepts' /\ \A p \in Process : held[p].next \in Nat
    BY <1>2, NoncesTyped DEF HeldType
  <2>2. \A t \in Slot : send[t].nonce \in Nat /\ send[t].nonce <= Accepts
    BY NoncesTyped DEF NoncesInv, NoncesBounded, SendType, N!Nonce
  <2>3. \A m \in N!Nonce : pool'[m] # 0 => m < Accepts'
    BY <1>1, <1>2, <1>3, <2>1 DEF NoncesInv, NoncesBounded, N!Nonce
  <2>4. onChain <= Accepts' /\ \A p \in Process : held'[p].next <= Accepts'
    BY <1>2, <2>1, NoncesTyped DEF NoncesInv, NoncesBounded, N!Nonce
  <2>5. \A t \in Slot : /\ send'[t].nonce <= Accepts'
                        /\ send'[t].at = "reserve" => send'[t].nonce < Accepts'
    BY <1>2, <1>4, <2>1, <2>2
  <2>6. QED
    BY <2>3, <2>4, <2>5 DEF NoncesBounded, N!At
<1>7. SendsApart'
  <2>1. \A t \in Slot : send'[t].at # "idle" => send[t].at # "idle"
    BY <1>4
  <2>2. \A t \in Slot : t # s /\ send[t].at # "idle" => send[t].id # i
    BY DEF NoncesInv, SendsApart, N!At, i
  <2>3. \A t \in Slot : send'[t].at \in Unsent =>
            t # s /\ send[t].at \in Unsent /\ send[t].at # "idle"
    BY <1>4 DEF Unsent
  <2>4. \A t \in Slot : send'[t].at \in Unsent => landed'[send'[t].id] = 0
    BY <1>2, <1>4, <2>2, <2>3, SendFilled DEF NoncesInv, SendsApart
  <2>5. \A j \in N!Send : landed'[j] <= 1 /\ (j > begun => landed'[j] = 0)
    BY <1>1, <1>2, NoncesTyped DEF NoncesInv, SendsApart
  <2>6. QED
    BY <1>4, <2>1, <2>4, <2>5 DEF NoncesInv, SendsApart, N!At
<1>8. NothingMissing'
  <2>1. SUFFICES ASSUME troubles' = 0
                 PROVE  /\ \A m \in N!Nonce : pool'[m] # 0 => FilledTo(m)'
                        /\ \A p \in Process : FilledTo(held[p].next)'
                        /\ \A t \in Slot :
                             /\ send'[t].at \in {"allocate", "broadcast", "again"} => FilledTo(send[t].nonce)'
                             /\ send'[t].at = "reserve" => FilledTo(send[t].nonce + 1)'
                             /\ send'[t].at # "failed"
    BY DEF NothingMissing, N!At
  <2>2. \A m \in N!Nonce : pool[m] # 0 => pool'[m] # 0
    BY <1>3
  <2>3. troubles = 0 /\ at = "reserve" /\ FilledTo(n)
    BY <1>1, <2>1
  <2>4. \A m \in N!Nonce : pool'[m] # 0 => FilledTo(m)'
    BY <1>3, <2>2, <2>3 DEF NoncesInv, NothingMissing, FilledTo
  <2>5. \A p \in Process : FilledTo(held[p].next)'
    BY <2>2, <2>3 DEF NoncesInv, NothingMissing, FilledTo
  <2>6. ASSUME NEW t \in Slot, t # s
        PROVE  /\ send'[t].at \in {"allocate", "broadcast", "again"} => FilledTo(send[t].nonce)'
               /\ send'[t].at = "reserve" => FilledTo(send[t].nonce + 1)'
               /\ send'[t].at # "failed"
    BY <1>4, <2>2, <2>3, <2>6 DEF NoncesInv, NothingMissing, FilledTo, N!At
  <2>7. FilledTo(send[s].nonce + 1)'
    <3>1. \A m \in N!Nonce : m < send'[s].nonce + 1 => m < n \/ m = n
      BY <1>1, <1>4 DEF n, N!Nonce
    <3>2. QED
      BY <1>3, <2>2, <2>3, <3>1 DEF FilledTo
  <2>8. QED
    BY <1>4, <2>3, <2>4, <2>5, <2>6, <2>7
<1>9. RetryIsFree'
  BY <1>4, NoncesTyped DEF RetryIsFree, N!At
<1>10. QED
  BY <1>5, <1>6, <1>7, <1>8, <1>9 DEF NoncesInv

LEMMA ReadCountSafe ==
    ASSUME NoncesInv, NEW s \in Slot, NEW p \in Process, N!ReadCount(s, p)
    PROVE  NoncesInv'
<1> DEFINE sent == [at |-> "allocate", process |-> p, nonce |-> onChain, id |-> begun + 1, alone |-> TRUE]
<1>1. /\ send[s].at = "idle" /\ begun < MaxSends /\ begun' = begun + 1
      /\ send' = [send EXCEPT ![s] = sent]
      /\ UNCHANGED <<settler, onChain, pool, held, landed, refused, troubles>>
  BY DEF N!ReadCount, N!At
<1>2. sent \in SendType /\ begun' \in 0 .. MaxSends /\ begun + 1 \in N!Send
  BY <1>1, NoncesTyped DEF SendType, N!Send
<1>3. /\ send' \in [Slot -> SendType] /\ send'[s] = sent
      /\ \A t \in Slot : t # s => send'[t] = send[t]
  BY <1>1, <1>2, NoncesTyped
<1>4. /\ send'[s].at = "allocate" /\ send'[s].nonce = onChain /\ send'[s].id = begun + 1
      /\ send'[s].process = p
  BY <1>3
<1> HIDE DEF sent
<1>5. N!TypeOK' /\ UNCHANGED Accepts
  BY <1>1, <1>2, <1>3, NoncesTyped DEF NoncesInv, N!TypeOK, SendType, HeldType, Accepts, Landed
<1>6. NoncesBounded'
  BY <1>1, <1>3, <1>4, <1>5 DEF NoncesInv, NoncesBounded, N!At
<1>7. SendsApart'
  <2>1. \A t \in Slot : t # s /\ send'[t].at # "idle" =>
            /\ send'[t].id = send[t].id /\ send'[t].id \in 1 .. begun /\ send[t].at # "idle"
            /\ send'[t].process \in Process /\ send'[t].at = send[t].at
    BY <1>3 DEF NoncesInv, SendsApart, N!At
  <2>2. \A t \in Slot : send'[t].at # "idle" => send'[t].id \in 1 .. begun' /\ send'[t].process \in Process
    BY <1>1, <1>4, <2>1, NoncesTyped
  <2>3. landed[begun + 1] = 0
    BY <1>2, NoncesTyped DEF NoncesInv, SendsApart
  <2>4. \A t \in Slot : send'[t].at \in Unsent => landed'[send'[t].id] = 0
    BY <1>1, <1>4, <2>1, <2>3 DEF NoncesInv, SendsApart, Unsent
  <2>5. \A t \in Slot : t # s /\ send'[t].at # "idle" => send'[t].id # send'[s].id
    BY <1>4, <2>1, NoncesTyped
  <2>6. \A t, u \in Slot : send'[t].at # "idle" /\ send'[u].at # "idle" /\ send'[t].id = send'[u].id => t = u
    BY <2>1, <2>5 DEF NoncesInv, SendsApart, N!At
  <2>7. \A j \in N!Send : landed'[j] <= 1 /\ (j > begun' => landed'[j] = 0)
    BY <1>1, NoncesTyped DEF NoncesInv, SendsApart, N!Send
  <2>8. QED
    BY <2>2, <2>4, <2>6, <2>7 DEF SendsApart, N!At
<1>8. FilledTo(onChain)
  BY NoncesTyped DEF FilledTo, N!Nonce
<1>9. NothingMissing'
  BY <1>1, <1>3, <1>4, <1>8 DEF NoncesInv, NothingMissing, FilledTo, N!At
<1>10. RetryIsFree'
  BY <1>1, <1>3, <1>4 DEF NoncesInv, RetryIsFree, N!Free, N!At
<1>11. QED
  BY <1>5, <1>6, <1>7, <1>9, <1>10 DEF NoncesInv

LEMMA BroadcastSafe ==
    ASSUME NoncesInv, NEW s \in Slot, N!Broadcast(s)
    PROVE  NoncesInv'
<1>1. send[s].at = "broadcast" /\ UNCHANGED <<settler, onChain, held, begun, refused>>
  BY DEF N!Broadcast, N!At
<1>2. /\ troubles \in 0 .. MaxTroubles /\ MaxTroubles \in Nat
      /\ N!Trouble => troubles' \in 0 .. MaxTroubles /\ troubles' # 0
  BY NoncesTyped DEF N!Trouble
<1>3. CASE N!Free(send[s].nonce) /\ N!NodeTakes(s) /\ N!Accepted(s, "reserve") /\ UNCHANGED troubles
  BY <1>1, <1>2, <1>3, TakeSafe
<1>4. CASE N!Goto(s, "rejected") /\ UNCHANGED <<pool, landed, troubles>>
  BY <1>1, <1>2, <1>4, GivesUp DEF Unsent
<1>5. CASE N!Trouble /\ N!Free(send[s].nonce) /\ N!NodeTakes(s) /\ N!Accepted(s, "failed")
  BY <1>1, <1>2, <1>5, TakeSafe
<1>6. CASE N!Trouble /\ N!Goto(s, "failed") /\ UNCHANGED <<pool, landed>>
  BY <1>1, <1>2, <1>6, GivesUp
<1>7. QED
  BY <1>3, <1>4, <1>5, <1>6 DEF N!Broadcast

LEMMA ReserveSafe ==
    ASSUME NoncesInv, NEW s \in Slot, N!ReserveNonce(s)
    PROVE  NoncesInv'
<1> DEFINE p == send[s].process
           next == [next |-> send[s].nonce + 1, old |-> FALSE]
<1>1. /\ send[s].at = "reserve" /\ N!Return(s)
      /\ UNCHANGED <<settler, onChain, pool, begun, landed, refused, troubles>>
      /\ UNCHANGED held \/ held' = [held EXCEPT ![p] = next]
  BY DEF N!ReserveNonce, N!At
<1>2. /\ send[s] \in SendType /\ send[s].nonce < Accepts
      /\ troubles = 0 => FilledTo(send[s].nonce + 1)
  BY <1>1, SendFilled
<1>3. next \in HeldType /\ next.next = send[s].nonce + 1 /\ send[s].nonce + 1 <= Accepts
  BY <1>2, NoncesTyped DEF HeldType, SendType, N!Nonce
<1> HIDE DEF next
<1>4. /\ held' \in [Process -> HeldType]
      /\ \A q \in Process : held'[q] \in {held[q], next}
  BY <1>1, <1>3, NoncesTyped
<1>5. \A q \in Process : held'[q].next <= Accepts /\ (troubles = 0 => FilledTo(held'[q].next))
  BY <1>2, <1>3, <1>4, HeldFilled
<1>6. /\ send' \in [Slot -> SendType] /\ \A t \in Slot : t # s => send'[t] = send[t]
      /\ send'[s].at = "idle" /\ send'[s].nonce <= Accepts
  BY <1>1, SendReturn, NoncesTyped
<1>7. QED
  BY <1>1, <1>4, <1>5, <1>6, NoncesTyped, QuietStep DEF Unsent

LEMMA ReleaseSafe ==
    ASSUME NoncesInv, NEW s \in Slot, N!ReleaseNonces(s)
    PROVE  NoncesInv'
<1>1. /\ send[s].at \in {"rejected", "failed"} /\ N!Forget(s)
      /\ UNCHANGED <<settler, onChain, pool, begun, landed, troubles>>
  BY DEF N!ReleaseNonces, N!At
<1>2. /\ UNCHANGED refused
      /\ N!Return(s) \/ (send[s].at = "rejected" /\ N!Goto(s, "pending"))
  BY DEF N!ReleaseNonces, N!Retries, N!IsNonceConflict, N!At
<1>3. QED
  BY <1>1, <1>2, GivesUp, NoncesTyped DEF Unsent

LEMMA ReadPendingSafe ==
    ASSUME NoncesInv, NEW s \in Slot, N!ReadPending(s)
    PROVE  NoncesInv'
<1>1. /\ send[s].at = "pending"
      /\ UNCHANGED <<settler, onChain, pool, held, begun, landed, refused, troubles>>
  BY DEF N!ReadPending, N!At
<1>2. PICK n \in N!Nonce :
          N!PendingCount(n) /\ send' = [send EXCEPT ![s].at = "again", ![s].nonce = n]
  BY DEF N!ReadPending
<1>3. N!Free(n) /\ FilledTo(n) /\ \A m \in onChain .. n - 1 : pool[m] # 0
  BY <1>2, NoncesTyped DEF N!PendingCount, N!Free, FilledTo, N!Nonce
<1>4. n <= Accepts
  <2>1. CASE n = onChain
    BY <2>1 DEF NoncesInv, NoncesBounded
  <2>2. CASE n # onChain
    <3>1. n - 1 \in N!Nonce /\ n - 1 \in onChain .. n - 1 /\ n \in Nat
      BY <1>2, <1>3, <2>2, NoncesTyped DEF N!Free, N!Nonce
    <3>2. n - 1 < Accepts
      BY <1>3, <3>1 DEF NoncesInv, NoncesBounded
    <3>3. QED
      BY <3>1, <3>2, NoncesTyped
  <2>3. QED
    BY <2>1, <2>2
<1>5. /\ send' \in [Slot -> SendType] /\ \A t \in Slot : t # s => send'[t] = send[t]
      /\ send'[s].at = "again" /\ send'[s].nonce = n /\ send'[s].id = send[s].id
      /\ send'[s].process = send[s].process
  <2>1. send[s] \in SendType
    BY NoncesTyped
  <2>2. send'[s] = [at |-> "again", process |-> send[s].process, nonce |-> n, id |-> send[s].id,
                    alone |-> send[s].alone]
    BY <1>2, <2>1, NoncesTyped DEF SendType
  <2>3. send'[s] \in SendType
    BY <2>1, <2>2 DEF SendType
  <2>4. send' = [send EXCEPT ![s] = send'[s]]
    BY <1>2, NoncesTyped
  <2>5. QED
    BY <2>2, <2>3, <2>4, NoncesTyped
<1>6. QED
  BY <1>1, <1>3, <1>4, <1>5, HeldFilled, NoncesTyped, QuietStep DEF Unsent

LEMMA SendAgainSafe ==
    ASSUME NoncesInv, NEW s \in Slot, N!SendAgain(s)
    PROVE  NoncesInv'
<1>1. send[s].at = "again" /\ UNCHANGED <<settler, onChain, held, begun>>
  BY DEF N!SendAgain, N!At
<1>2. /\ troubles \in 0 .. MaxTroubles /\ MaxTroubles \in Nat
      /\ N!Trouble => troubles' \in 0 .. MaxTroubles /\ troubles' # 0
  BY NoncesTyped DEF N!Trouble
<1>3. CASE /\ N!Free(send[s].nonce) /\ N!NodeTakes(s) /\ N!Accepted(s, "reserve")
           /\ UNCHANGED <<refused, troubles>>
  BY <1>1, <1>2, <1>3, TakeSafe
<1>4. CASE /\ ~N!Free(send[s].nonce) /\ N!Return(s) /\ UNCHANGED <<pool, landed, troubles>>
           /\ refused' = IF send[s].alone THEN refused \cup {send[s].id} ELSE refused
  <2>1. UNCHANGED refused
    BY <1>1, <1>4 DEF NoncesInv, RetryIsFree, N!At
  <2>2. QED
    BY <1>1, <1>2, <1>4, <2>1, GivesUp
<1>5. CASE N!Trouble /\ N!Return(s) /\ UNCHANGED <<pool, landed, refused>>
  BY <1>1, <1>2, <1>5, GivesUp
<1>6. QED
  BY <1>3, <1>4, <1>5 DEF N!SendAgain

LEMMA MineSafe ==
    ASSUME NoncesInv, N!Mine
    PROVE  NoncesInv'
<1>1. /\ onChain < MaxSends /\ pool[onChain] # 0 /\ onChain' = onChain + 1
      /\ UNCHANGED <<settler, pool, held, send, begun, landed, refused, troubles>>
  BY DEF N!Mine
<1>2. onChain' \in N!Nonce /\ onChain \in N!Nonce /\ UNCHANGED Accepts
  BY <1>1, NoncesTyped DEF N!Nonce, Accepts, Landed
<1>3. N!TypeOK'
  BY <1>1, <1>2 DEF NoncesInv, N!TypeOK
<1>4. NoncesBounded'
  BY <1>1, <1>2, NoncesTyped DEF NoncesInv, NoncesBounded, N!At, N!Nonce
<1>5. SendsApart'
  BY <1>1 DEF NoncesInv, SendsApart, N!At
<1>6. NothingMissing'
  <2>1. \A n : FilledTo(n) => \A m \in N!Nonce : onChain' <= m /\ m < n => pool'[m] # 0
    BY <1>1, <1>2 DEF FilledTo, N!Nonce
  <2>2. QED
    BY <1>1, <2>1 DEF NoncesInv, NothingMissing, FilledTo, N!At
<1>7. RetryIsFree'
  <2>1. \A n \in N!Nonce : onChain <= n /\ pool[n] = 0 => onChain' <= n
    BY <1>1, <1>2 DEF N!Nonce
  <2>2. \A t \in Slot : send[t].nonce \in N!Nonce
    BY NoncesTyped DEF SendType
  <2>3. QED
    BY <1>1, <2>1, <2>2 DEF NoncesInv, RetryIsFree, N!Free, N!At
<1>8. QED
  BY <1>3, <1>4, <1>5, <1>6, <1>7 DEF NoncesInv

LEMMA DropSafe ==
    ASSUME NoncesInv, NEW n \in N!Nonce, N!Drop(n)
    PROVE  NoncesInv'
<1>1. /\ pool' = [pool EXCEPT ![n] = 0] /\ troubles' \in 0 .. MaxTroubles /\ troubles' # 0
      /\ UNCHANGED <<settler, onChain, held, send, begun, landed, refused>>
  BY NoncesTyped DEF N!Drop, N!Trouble
<1>2. pool' \in [N!Nonce -> 0 .. MaxSends] /\ \A m \in N!Nonce : pool'[m] \in {pool[m], 0}
  BY <1>1, NoncesTyped
<1>3. N!TypeOK' /\ UNCHANGED Accepts
  BY <1>1, <1>2 DEF NoncesInv, N!TypeOK, Accepts, Landed
<1>4. NoncesBounded' /\ SendsApart' /\ NothingMissing'
  BY <1>1, <1>2, <1>3 DEF NoncesInv, NoncesBounded, SendsApart, NothingMissing, N!At
<1>5. \A t \in Slot : send[t].nonce \in N!Nonce
  BY NoncesTyped DEF SendType
<1>6. RetryIsFree'
  BY <1>1, <1>2, <1>5 DEF NoncesInv, RetryIsFree, N!Free, N!At
<1>7. QED
  BY <1>3, <1>4, <1>6 DEF NoncesInv

LEMMA AgesSafe ==
    ASSUME NoncesInv, NEW p \in Process, N!ReservationAges(p)
    PROVE  NoncesInv'
<1>1. /\ held' = [held EXCEPT ![p].old = TRUE]
      /\ UNCHANGED <<settler, onChain, pool, send, begun, landed, refused, troubles>>
  BY DEF N!ReservationAges
<1>2. held' \in [Process -> HeldType] /\ \A q \in Process : held'[q].next = held[q].next
  BY <1>1, NoncesTyped DEF HeldType
<1>3. N!TypeOK' /\ UNCHANGED Accepts
  BY <1>1, <1>2 DEF NoncesInv, N!TypeOK, HeldType, Accepts, Landed
<1>4. NoncesBounded' /\ SendsApart' /\ RetryIsFree'
  BY <1>1, <1>2, <1>3 DEF NoncesInv, NoncesBounded, SendsApart, RetryIsFree, N!At, N!Free
<1>5. NothingMissing'
  BY <1>1, <1>2 DEF NoncesInv, NothingMissing, FilledTo, N!At
<1>6. QED
  BY <1>3, <1>4, <1>5 DEF NoncesInv

LEMMA NoncesInit == N!Init => NoncesInv
<1> SUFFICES ASSUME N!Init PROVE NoncesInv
  OBVIOUS
<1>1. N!TypeOK
  BY NonceConstants DEF N!Init, N!TypeOK, N!Nothing, N!Idle, N!Nonce, N!Send
<1>2. \A s \in Slot : send[s].at = "idle" /\ send[s].nonce = 0
  BY DEF N!Init, N!Idle
<1>3. \A p \in Process : held[p].next = 0
  BY DEF N!Init, N!Nothing
<1>4. NoncesBounded
  BY <1>1, <1>2, <1>3, AcceptsTypes DEF N!Init, NoncesBounded, N!At
<1>5. SendsApart
  BY <1>2 DEF N!Init, SendsApart, N!At, Unsent
<1>6. NothingMissing /\ RetryIsFree
  BY <1>2, <1>3 DEF N!Init, NothingMissing, RetryIsFree, FilledTo, N!At, N!Nonce
<1>7. QED
  BY <1>1, <1>4, <1>5, <1>6 DEF NoncesInv

LEMMA NoncesNext == NoncesInv /\ [N!Next]_(N!vars) => NoncesInv'
<1>1. ASSUME NoncesInv, N!Next PROVE NoncesInv'
  BY <1>1, ReadCountSafe, AllocateSafe, BroadcastSafe, ReserveSafe, ReleaseSafe, ReadPendingSafe,
     SendAgainSafe, MineSafe, DropSafe, AgesSafe DEF N!Next
<1>2. ASSUME NoncesInv, UNCHANGED N!vars PROVE NoncesInv'
  <2>1. UNCHANGED <<settler, onChain, pool, held, send, begun, landed, refused, troubles>>
    BY <1>2 DEF N!vars
  <2>2. UNCHANGED Accepts
    BY <2>1 DEF Accepts, Landed
  <2>3. QED
    BY <1>2, <2>1, <2>2 DEF NoncesInv, N!TypeOK, NoncesBounded, SendsApart, NothingMissing,
       RetryIsFree, FilledTo, N!At, N!Free
<1>3. QED
  BY <1>1, <1>2

\* What an account sends is sent once, leaves no gap while the node loses nothing, and is given
\* up only for another send that got in: of every number of processes, sends and troubles.
THEOREM NoncesAreSafe == AccountsSpec => []NoncesHold
<1>1. AccountsInit => NoncesInv
  BY NoncesInit DEF AccountsInit
<1>2. [AccountsNext]_allVars => [N!Next]_(N!vars)
  BY DEF AccountsNext, allVars, NVars, N!vars
<1>3. ASSUME NoncesInv PROVE NoncesHold
  <2>1. N!TypeOK /\ N!SentOnce /\ N!LosesOnlyToRaces
    BY <1>3 DEF NoncesInv, SendsApart, RetryIsFree, N!SentOnce, N!LosesOnlyToRaces
  <2>2. ASSUME troubles = 0, NEW n \in N!Nonce, pool[n] # 0, NEW m \in onChain .. n PROVE pool[m] # 0
    <3>1. m \in N!Nonce /\ onChain <= m /\ (m < n \/ m = n)
      BY <1>3, NoncesTyped DEF N!Nonce
    <3>2. FilledTo(n)
      BY <1>3, <2>2 DEF NoncesInv, NothingMissing
    <3>3. QED
      BY <2>2, <3>1, <3>2 DEF FilledTo
  <2>3. N!NoGap
    BY <2>2 DEF N!NoGap
  <2>4. QED
    BY <2>1, <2>3 DEF NoncesHold
<1>4. QED
  BY <1>1, <1>2, <1>3, NoncesNext, PTL DEF AccountsSpec

-----------------------------------------------------------------------------
(* Provisioning: the wallet a row is bound to and the gas it is given. *)

ProvisionJob ==
    [at : {"idle", "create", "holder", "bind", "gas", "row", "reserve", "count", "drip"},
     offered : {"none", "own", "other"}, count : 0 .. MAX_DRIPS_PER_WALLET]

\* Only our own wallets are ever bound, and only to them does gas go; a row that is bound is
\* provisioned again only after a read of it that failed.
Wallets == {"create", "holder", "bind"}
Gives == {"gas", "row", "reserve", "count", "drip"}

BoundToOwn ==
    /\ wallet # "other" /\ lost <= walletFaults
    /\ \A s \in Slot : W!At(s, "holder") => walletJob[s].offered # "none"
    /\ \A s \in Slot : W!At(s, "bind") => walletJob[s].offered = "own"
    /\ \A s \in Slot : walletJob[s].at \in Gives => W!Bound
    /\ wallet = "older" /\ lost = 0 => \A s \in Slot : walletJob[s].at \notin Wallets
    /\ ~W!Bound => dripped = 0 /\ hour = 0
    /\ \A s \in Slot : walletJob[s].at \in {"reserve", "count"} => walletJob[s].count < MAX_DRIPS_PER_WALLET
    /\ hour <= dripped

\* One invocation at a time: whatever it writes of the count next, the drips sent are covered by
\* it and by what the failed calls forgive, and the hour by the time of the last drip.
DripsTracked ==
    ~excused =>
        /\ dripped <= drips + W!Forgiven /\ drips <= MAX_DRIPS_PER_WALLET
        /\ hour <= 1 + lost /\ (~recent => hour <= lost)
        /\ \A s, t \in Slot : ~W!At(s, "idle") /\ ~W!At(t, "idle") => s = t
        /\ \A s \in Slot : walletJob[s].at \in Wallets => dripped <= W!Forgiven /\ hour <= lost
        /\ \A s \in Slot : walletJob[s].at \in {"reserve", "count"} =>
             dripped <= walletJob[s].count + W!Forgiven /\ hour <= lost
        /\ \A s \in Slot : W!At(s, "drip") =>
             dripped < drips + W!Forgiven /\ hour <= lost /\ (~recent => hour < lost)

ProvisionInv == W!TypeOK /\ BoundToOwn /\ DripsTracked

LEMMA DripConstants ==
    MAX_DRIPS_PER_WALLET \in Nat \ {0} /\ MaxDrips \in Nat /\ MaxFaults \in Nat
BY AccountsAssumption, SignAssumption DEF AccountsAssumption, SignAssumption

LEMMA ProvisionTyped ==
    ASSUME ProvisionInv
    PROVE  /\ wallet \in {"none", "earlier", "older", "own"}
           /\ drips \in Nat /\ drips <= MaxDrips + MAX_DRIPS_PER_WALLET
           /\ recent \in BOOLEAN /\ created \in BOOLEAN /\ short \in BOOLEAN /\ rich \in BOOLEAN
           /\ walletJob \in [Slot -> ProvisionJob] /\ dripped \in 0 .. MaxDrips /\ hour \in 0 .. MaxDrips
           /\ excused \in BOOLEAN /\ walletFaults \in 0 .. MaxFaults
           /\ lost \in Nat /\ lost <= walletFaults /\ W!Forgiven \in Nat
<1>1. lost \in Nat
  BY DripConstants DEF ProvisionInv, W!TypeOK
<1>2. W!Forgiven \in Nat
  BY <1>1, DripConstants DEF W!Forgiven
<1>3. QED
  BY <1>1, <1>2, DripConstants DEF ProvisionInv, W!TypeOK, BoundToOwn, ProvisionJob

\* What one failed call that nobody noticed forgives.
LEMMA Forgives ==
    ASSUME ProvisionInv, W!Unnoticed
    PROVE  /\ walletFaults' \in 0 .. MaxFaults /\ lost' = lost + 1 /\ lost' <= walletFaults'
           /\ W!Forgiven' = W!Forgiven + MAX_DRIPS_PER_WALLET
<1>1. lost' = lost + 1 /\ walletFaults < MaxFaults /\ walletFaults' = walletFaults + 1
  BY DEF W!Unnoticed, W!Fault
<1>2. lost \in Nat /\ lost <= walletFaults /\ walletFaults \in 0 .. MaxFaults
  BY ProvisionTyped
<1>3. MAX_DRIPS_PER_WALLET * (lost + 1) = MAX_DRIPS_PER_WALLET * lost + MAX_DRIPS_PER_WALLET
  BY <1>2, DripConstants
<1>4. QED
  BY <1>1, <1>2, <1>3, DripConstants DEF W!Forgiven

\* A failure that is noticed, and no failure, forgive nothing.
LEMMA ForgivesNothing ==
    ASSUME ProvisionInv, UNCHANGED lost, W!Fault \/ UNCHANGED walletFaults
    PROVE  /\ walletFaults' \in 0 .. MaxFaults /\ lost' \in Nat /\ lost' <= walletFaults' /\ lost <= lost'
           /\ W!Forgiven' = W!Forgiven
<1>1. W!Forgiven' = W!Forgiven
  BY DEF W!Forgiven
<1>2. QED
  BY <1>1, ProvisionTyped, DripConstants DEF W!Fault

LEMMA ForgivenMore ==
    \A n, m, f, g \in Nat : n < m + f /\ f <= g => n < m + g
OBVIOUS

\* A step of one invocation that writes nothing.
LEMMA ProvisionStep ==
    ASSUME ProvisionInv, NEW s \in Slot,
           UNCHANGED <<wallet, drips, recent, rich, dripped, hour>>,
           created' \in BOOLEAN, short' \in BOOLEAN,
           excused' \in BOOLEAN, excused => excused',
           walletFaults' \in 0 .. MaxFaults, lost' \in Nat, lost <= lost', lost' <= walletFaults',
           W!Forgiven' \in Nat, W!Forgiven <= W!Forgiven',
           NEW new \in ProvisionJob, walletJob' = [walletJob EXCEPT ![s] = new],
           new.at = "holder" => new.offered # "none", new.at = "bind" => new.offered = "own",
           new.at \in Gives => W!Bound,
           wallet = "older" /\ lost' = 0 => new.at \notin Wallets,
           new.at \in {"reserve", "count"} => new.count < MAX_DRIPS_PER_WALLET,
           new.at # "idle" => ~W!At(s, "idle") \/ excused' \/ \A t \in Slot : W!At(t, "idle"),
           ~excused' =>
               /\ new.at \in Wallets => dripped <= W!Forgiven' /\ hour <= lost'
               /\ new.at \in {"reserve", "count"} => dripped <= new.count + W!Forgiven' /\ hour <= lost'
               /\ new.at = "drip" =>
                    dripped < drips + W!Forgiven' /\ hour <= lost' /\ (~recent => hour < lost')
    PROVE  ProvisionInv'
<1>1. walletJob' \in [Slot -> ProvisionJob] /\ walletJob'[s] = new
      /\ \A t \in Slot : t # s => walletJob'[t] = walletJob[t]
  BY ProvisionTyped
<1>2. W!TypeOK'
  <2>1. lost' \in 0 .. MaxFaults
    BY DripConstants
  <2>2. QED
    BY <1>1, <2>1, ProvisionTyped, DripConstants DEF ProvisionInv, W!TypeOK, ProvisionJob
<1>3. BoundToOwn'
  <2>1. lost' = 0 => lost = 0
    BY ProvisionTyped
  <2>2. QED
    BY <1>1, <2>1 DEF ProvisionInv, BoundToOwn, W!At, W!Bound
<1>4. DripsTracked'
  <2> SUFFICES ASSUME ~excused' PROVE DripsTracked'
    BY DEF DripsTracked
  <2>0. ~excused
    OBVIOUS
  <2>1. ASSUME NEW t \in Slot, NEW u \in Slot, walletJob'[t].at # "idle", walletJob'[u].at # "idle"
        PROVE  t = u
    BY <2>0, <2>1, <1>1 DEF ProvisionInv, DripsTracked, W!At
  <2>2. /\ dripped' <= drips' + W!Forgiven' /\ drips' <= MAX_DRIPS_PER_WALLET
        /\ hour' <= 1 + lost' /\ (~recent' => hour' <= lost')
    BY <2>0, ProvisionTyped, DripConstants DEF ProvisionInv, DripsTracked
  <2>3. ASSUME NEW t \in Slot
        PROVE  /\ walletJob'[t].at \in Wallets => dripped' <= W!Forgiven' /\ hour' <= lost'
               /\ walletJob'[t].at \in {"reserve", "count"} =>
                    dripped' <= walletJob'[t].count + W!Forgiven' /\ hour' <= lost'
               /\ walletJob'[t].at = "drip" =>
                    dripped' < drips' + W!Forgiven' /\ hour' <= lost' /\ (~recent' => hour' < lost')
    <3>1. CASE t = s
      BY <3>1, <1>1
    <3>2. CASE t # s
      <4>1. walletJob'[t] = walletJob[t] /\ walletJob[t].count \in Nat
        BY <3>2, <1>1, ProvisionTyped, DripConstants DEF ProvisionJob
      <4>2. /\ walletJob[t].at \in Wallets => dripped <= W!Forgiven /\ hour <= lost
            /\ walletJob[t].at \in {"reserve", "count"} =>
                 dripped <= walletJob[t].count + W!Forgiven /\ hour <= lost
            /\ walletJob[t].at = "drip" =>
                 dripped < drips + W!Forgiven /\ hour <= lost /\ (~recent => hour < lost)
        BY <2>0 DEF ProvisionInv, DripsTracked, W!At
      <4>3. dripped \in Nat /\ hour \in Nat /\ drips \in Nat /\ lost \in Nat /\ W!Forgiven \in Nat
        BY ProvisionTyped, DripConstants
      <4>4. dripped' = dripped /\ hour' = hour /\ drips' = drips /\ recent' = recent
        OBVIOUS
      <4>5. ASSUME walletJob'[t].at \in Wallets PROVE dripped' <= W!Forgiven' /\ hour' <= lost'
        BY <4>1, <4>2, <4>3, <4>4, <4>5
      <4>6. ASSUME walletJob'[t].at \in {"reserve", "count"}
            PROVE  dripped' <= walletJob'[t].count + W!Forgiven' /\ hour' <= lost'
        BY <4>1, <4>2, <4>3, <4>4, <4>6
      <4>7. ASSUME walletJob'[t].at = "drip"
            PROVE  dripped' < drips' + W!Forgiven' /\ hour' <= lost' /\ (~recent' => hour' < lost')
        <5>1. dripped < drips + W!Forgiven /\ hour <= lost /\ (~recent => hour < lost)
          BY <4>1, <4>2, <4>7
        <5>2. dripped < drips + W!Forgiven'
          BY <4>3, <5>1, ForgivenMore
        <5>3. hour <= lost' /\ (hour < lost => hour < lost')
          BY <4>3, <5>1
        <5>4. dripped' < drips' + W!Forgiven' /\ hour' <= lost'
          BY <4>4, <5>2, <5>3
        <5>5. ~recent' => ~recent
          BY <4>4
        <5>6. ~recent => hour' < lost'
          BY <4>4, <5>1, <5>3
        <5>7. QED
          BY <5>4, <5>5, <5>6, Zenon
      <4>8. QED
        BY <4>5, <4>6, <4>7, Zenon
    <3>3. QED
      BY <3>1, <3>2
  <2>4. QED
    BY <2>1, <2>2, <2>3 DEF DripsTracked, W!At
<1>5. QED
  BY <1>2, <1>3, <1>4 DEF ProvisionInv

\* The same, when no failure went unnoticed.
LEMMA ProvisionQuiet ==
    ASSUME ProvisionInv, NEW s \in Slot,
           UNCHANGED <<wallet, drips, recent, rich, dripped, hour, lost>>,
           created' \in BOOLEAN, short' \in BOOLEAN,
           excused' \in BOOLEAN, excused => excused', W!Fault \/ UNCHANGED walletFaults,
           NEW new \in ProvisionJob, walletJob' = [walletJob EXCEPT ![s] = new],
           new.at = "holder" => new.offered # "none", new.at = "bind" => new.offered = "own",
           new.at \in Gives => W!Bound,
           wallet = "older" /\ lost = 0 => new.at \notin Wallets,
           new.at \in {"reserve", "count"} => new.count < MAX_DRIPS_PER_WALLET,
           new.at # "idle" => ~W!At(s, "idle") \/ excused' \/ \A t \in Slot : W!At(t, "idle"),
           ~excused' =>
               /\ new.at \in Wallets => dripped <= W!Forgiven /\ hour <= lost
               /\ new.at \in {"reserve", "count"} => dripped <= new.count + W!Forgiven /\ hour <= lost
               /\ new.at = "drip" =>
                    dripped < drips + W!Forgiven /\ hour <= lost /\ (~recent => hour < lost)
    PROVE  ProvisionInv'
<1>1. /\ walletFaults' \in 0 .. MaxFaults /\ lost' \in Nat /\ lost' <= walletFaults' /\ lost <= lost'
      /\ W!Forgiven' = W!Forgiven
  BY ForgivesNothing
<1>2. lost' = lost /\ W!Forgiven' \in Nat /\ W!Forgiven <= W!Forgiven'
  BY <1>1, ProvisionTyped
<1>3. ~excused' =>
        /\ new.at \in Wallets => dripped <= W!Forgiven' /\ hour <= lost'
        /\ new.at \in {"reserve", "count"} => dripped <= new.count + W!Forgiven' /\ hour <= lost'
        /\ new.at = "drip" =>
             dripped < drips + W!Forgiven' /\ hour <= lost' /\ (~recent => hour < lost')
  BY <1>1, <1>2
<1>4. wallet = "older" /\ lost' = 0 => new.at \notin Wallets
  BY <1>2
<1>5. QED
  BY <1>1, <1>2, <1>3, <1>4, ProvisionStep

LEMMA StartProvisionSafe ==
    ASSUME ProvisionInv, NEW s \in Slot, W!StartProvision(s)
    PROVE  ProvisionInv'
<1> DEFINE gas == [walletJob[s] EXCEPT !.at = "gas"]
           create == [walletJob[s] EXCEPT !.at = "create"]
<1>1. gas \in ProvisionJob /\ gas.at = "gas" /\ create \in ProvisionJob /\ create.at = "create"
  BY ProvisionTyped DEF ProvisionJob
<1>2. /\ excused' = (excused \/ \E t \in Slot : ~W!At(t, "idle")) /\ W!At(s, "idle")
      /\ UNCHANGED <<wallet, drips, recent, created, short, rich, dripped, hour>>
  BY DEF W!StartProvision, W!rowVars, W!world, W!history
<1>3. \/ W!Bound /\ walletJob' = [walletJob EXCEPT ![s] = gas] /\ UNCHANGED <<lost, walletFaults>>
      \/ ~W!Bound /\ walletJob' = [walletJob EXCEPT ![s] = create] /\ UNCHANGED <<lost, walletFaults>>
      \/ W!Unnoticed /\ walletJob' = [walletJob EXCEPT ![s] = create]
  BY DEF W!StartProvision, W!Goto, W!troubles
<1>4. ~W!Bound => dripped = 0 /\ hour = 0 /\ wallet # "older"
  BY DEF ProvisionInv, BoundToOwn, W!Bound
<1>5. ~excused' => /\ dripped <= drips + W!Forgiven /\ drips <= MAX_DRIPS_PER_WALLET /\ hour <= 1 + lost
                   /\ \A t \in Slot : W!At(t, "idle")
  BY <1>2 DEF ProvisionInv, DripsTracked
<1> HIDE DEF gas, create
<1>6. CASE W!Bound /\ walletJob' = [walletJob EXCEPT ![s] = gas] /\ UNCHANGED <<lost, walletFaults>>
  <2>1. gas.at \notin Wallets
    BY <1>1 DEF Wallets
  <2>2. QED
    BY <1>1, <1>2, <1>5, <1>6, <2>1, ProvisionTyped, ProvisionQuiet
<1>7. CASE ~W!Bound /\ walletJob' = [walletJob EXCEPT ![s] = create] /\ UNCHANGED <<lost, walletFaults>>
  <2>1. create.at \notin Gives
    BY <1>1 DEF Gives
  <2>2. ~excused' => dripped <= W!Forgiven /\ hour <= lost
    BY <1>4, <1>7, ProvisionTyped
  <2>3. QED
    BY <1>1, <1>2, <1>4, <1>5, <1>7, <2>1, <2>2, ProvisionTyped, ProvisionQuiet
<1>8. CASE W!Unnoticed /\ walletJob' = [walletJob EXCEPT ![s] = create]
  <2>1. /\ walletFaults' \in 0 .. MaxFaults /\ lost' = lost + 1 /\ lost' <= walletFaults'
        /\ W!Forgiven' = W!Forgiven + MAX_DRIPS_PER_WALLET
    BY <1>8, Forgives
  <2>2. lost' \in Nat /\ lost <= lost' /\ lost' # 0 /\ W!Forgiven' \in Nat /\ W!Forgiven <= W!Forgiven'
    BY <2>1, ProvisionTyped, DripConstants
  <2>3. ~excused' => dripped <= W!Forgiven' /\ hour <= lost'
    BY <1>5, <2>1, ProvisionTyped, DripConstants
  <2>4. QED
    <3>1. create.at \notin Gives
      BY <1>1 DEF Gives
    <3>2. QED
      BY <1>1, <1>2, <1>5, <1>8, <2>1, <2>2, <2>3, <3>1, ProvisionTyped, ProvisionStep
<1>9. QED
  BY <1>3, <1>6, <1>7, <1>8

LEMMA CreateWalletSafe ==
    ASSUME ProvisionInv, NEW s \in Slot, W!CreateWallet(s)
    PROVE  ProvisionInv'
<1> DEFINE own == [walletJob[s] EXCEPT !.at = "holder", !.offered = "own"]
           other == [walletJob[s] EXCEPT !.at = "holder", !.offered = "other"]
<1>1. /\ own \in ProvisionJob /\ own.at = "holder" /\ own.offered = "own"
      /\ other \in ProvisionJob /\ other.at = "holder" /\ other.offered = "other"
      /\ W!Idle \in ProvisionJob /\ W!Idle.at = "idle"
  <2>1. walletJob[s] \in ProvisionJob
    BY ProvisionTyped
  <2>2. own \in ProvisionJob /\ own.at = "holder" /\ own.offered = "own"
    BY <2>1 DEF ProvisionJob
  <2>3. other \in ProvisionJob /\ other.at = "holder" /\ other.offered = "other"
    BY <2>1 DEF ProvisionJob
  <2>4. W!Idle \in ProvisionJob /\ W!Idle.at = "idle"
    BY DripConstants DEF ProvisionJob, W!Idle
  <2>5. QED
    BY <2>2, <2>3, <2>4
<1>2. /\ \/ walletJob' = [walletJob EXCEPT ![s] = own]
         \/ walletJob' = [walletJob EXCEPT ![s] = other]
         \/ walletJob' = [walletJob EXCEPT ![s] = W!Idle]
      /\ created' \in {created, TRUE}
      /\ W!Fault \/ UNCHANGED walletFaults
      /\ W!At(s, "create") /\ UNCHANGED <<wallet, drips, recent, short, rich, dripped, hour, excused, lost>>
  BY DEF W!CreateWallet, W!Return, W!rowVars, W!history
<1>3. /\ ~W!At(s, "idle") /\ (~excused => dripped <= W!Forgiven /\ hour <= lost)
      /\ ~(wallet = "older" /\ lost = 0)
  BY <1>2 DEF ProvisionInv, DripsTracked, BoundToOwn, W!At, Wallets
<1>4. created' \in BOOLEAN
  BY <1>2, ProvisionTyped
<1> HIDE DEF own, other
<1>5. own.at \notin Gives /\ other.at \notin Gives /\ W!Idle.at \notin Gives /\ W!Idle.at \notin Wallets
  BY <1>1 DEF Gives, Wallets
<1>6. QED
  BY <1>1, <1>2, <1>3, <1>4, <1>5, ProvisionTyped, ProvisionQuiet

LEMMA CheckHolderSafe ==
    ASSUME ProvisionInv, NEW s \in Slot, W!CheckHolder(s)
    PROVE  ProvisionInv'
<1> DEFINE new == IF walletJob[s].offered = "other" THEN W!Idle ELSE [walletJob[s] EXCEPT !.at = "bind"]
<1>1. W!At(s, "holder") /\ walletJob[s].offered \in {"own", "other"}
  BY ProvisionTyped DEF W!CheckHolder, W!At, ProvisionInv, BoundToOwn, ProvisionJob
<1>2. new \in ProvisionJob /\ new.at \in {"idle", "bind"} /\ (new.at = "bind" => new.offered = "own")
  BY <1>1, ProvisionTyped, DripConstants DEF ProvisionJob, W!Idle
<1>3. walletJob' = [walletJob EXCEPT ![s] = new]
  BY DEF W!CheckHolder, W!Return, W!Goto, W!HeldElsewhere
<1>4. UNCHANGED <<wallet, drips, recent, created, short, rich, dripped, hour, excused, lost, walletFaults>>
  BY DEF W!CheckHolder, W!rowVars, W!world, W!history, W!troubles
<1>5. /\ ~W!At(s, "idle") /\ (~excused => dripped <= W!Forgiven /\ hour <= lost)
      /\ ~(wallet = "older" /\ lost = 0)
  BY <1>1 DEF ProvisionInv, DripsTracked, BoundToOwn, W!At, Wallets
<1> HIDE DEF new
<1>6. new.at \notin Gives
  BY <1>2 DEF Gives
<1>7. QED
  BY <1>2, <1>3, <1>4, <1>5, <1>6, ProvisionTyped, ProvisionQuiet

\* The one step that writes the row's wallet: it binds ours, and counts its drips from nothing.
LEMMA BindWalletSafe ==
    ASSUME ProvisionInv, NEW s \in Slot, W!BindWallet(s)
    PROVE  ProvisionInv'
<1> DEFINE new == [W!Idle EXCEPT !.at = "gas"]
<1>1. new \in ProvisionJob /\ new.at = "gas"
  BY DripConstants DEF ProvisionJob, W!Idle
<1>2. W!At(s, "bind") /\ walletJob[s].offered = "own" /\ ~W!At(s, "idle")
  BY DEF W!BindWallet, W!At, ProvisionInv, BoundToOwn
<1>3. /\ wallet' = "own" /\ drips' = 0 /\ recent' = FALSE /\ walletJob' = [walletJob EXCEPT ![s] = new]
      /\ UNCHANGED <<created, rich, dripped, hour, excused, lost, walletFaults>>
  BY <1>2 DEF W!BindWallet, W!history, W!troubles
<1>9. short' \in BOOLEAN
  BY DEF W!BindWallet
<1> HIDE DEF new
<1>4. /\ walletJob' \in [Slot -> ProvisionJob] /\ walletJob'[s] = new
      /\ \A t \in Slot : t # s => walletJob'[t] = walletJob[t]
  BY <1>1, <1>3, ProvisionTyped
<1>5. W!TypeOK'
  <2>1. drips' \in 0 .. MaxDrips + MAX_DRIPS_PER_WALLET /\ lost' \in 0 .. MaxFaults
    BY <1>3, ProvisionTyped, DripConstants
  <2>2. QED
    BY <1>3, <1>4, <1>9, <2>1, ProvisionTyped DEF W!TypeOK, ProvisionJob
<1>6. BoundToOwn'
  BY <1>1, <1>3, <1>4 DEF ProvisionInv, BoundToOwn, W!At, W!Bound, Gives
<1>7. DripsTracked'
  <2>1. ~excused => dripped <= W!Forgiven /\ hour <= lost
    BY <1>2 DEF ProvisionInv, DripsTracked, W!At, Wallets
  <2>2. ~excused => \A t \in Slot : t # s => walletJob'[t].at = "idle"
    BY <1>2, <1>4 DEF ProvisionInv, DripsTracked, W!At
  <2>3. W!Forgiven' = W!Forgiven
    BY <1>3 DEF W!Forgiven
  <2>4. ~excused => /\ dripped' <= drips' + W!Forgiven' /\ drips' <= MAX_DRIPS_PER_WALLET
                    /\ hour' <= 1 + lost' /\ hour' <= lost'
    BY <1>3, <2>1, <2>3, ProvisionTyped, DripConstants
  <2>5. QED
    BY <1>1, <1>3, <1>4, <2>2, <2>4 DEF DripsTracked, W!At, Wallets
<1>8. QED
  BY <1>5, <1>6, <1>7 DEF ProvisionInv

LEMMA CheckBalanceSafe ==
    ASSUME ProvisionInv, NEW s \in Slot, W!CheckBalance(s)
    PROVE  ProvisionInv'
<1> DEFINE new == IF short THEN [walletJob[s] EXCEPT !.at = "row"] ELSE W!Idle
<1>1. new \in ProvisionJob /\ new.at \in {"idle", "row"}
  BY ProvisionTyped, DripConstants DEF ProvisionJob, W!Idle
<1>2. walletJob' = [walletJob EXCEPT ![s] = new]
  BY DEF W!CheckBalance, W!Return, W!Goto
<1>3. UNCHANGED <<wallet, drips, recent, created, short, rich, dripped, hour, excused, lost, walletFaults>>
  BY DEF W!CheckBalance, W!rowVars, W!world, W!history, W!troubles
<1>4. W!Bound /\ ~W!At(s, "idle")
  BY DEF W!CheckBalance, ProvisionInv, BoundToOwn, W!At, Gives
<1> HIDE DEF new
<1>5. new.at \notin Wallets
  BY <1>1 DEF Wallets
<1>6. QED
  BY <1>1, <1>2, <1>3, <1>4, <1>5, ProvisionTyped, ProvisionQuiet

LEMMA ReadRowSafe ==
    ASSUME ProvisionInv, NEW s \in Slot, W!ReadRow(s)
    PROVE  ProvisionInv'
<1> DEFINE counted == [walletJob[s] EXCEPT !.at = "reserve", !.count = drips]
           unread == [walletJob[s] EXCEPT !.at = "reserve", !.count = 0]
<1>1. W!Bound /\ ~W!At(s, "idle")
  BY DEF W!ReadRow, ProvisionInv, BoundToOwn, W!At, Gives
<1>2. /\ \/ W!MayDrip /\ walletJob' = [walletJob EXCEPT ![s] = counted] /\ UNCHANGED <<lost, walletFaults>>
         \/ walletJob' = [walletJob EXCEPT ![s] = W!Idle] /\ UNCHANGED <<lost, walletFaults>>
         \/ W!Unnoticed /\ walletJob' = [walletJob EXCEPT ![s] = unread]
      /\ UNCHANGED <<wallet, drips, recent, created, short, rich, dripped, hour, excused>>
  BY DEF W!ReadRow, W!Return, W!troubles, W!rowVars, W!world, W!history
<1>3. /\ W!Idle \in ProvisionJob /\ W!Idle.at = "idle"
      /\ unread \in ProvisionJob /\ unread.at = "reserve" /\ unread.count = 0
  <2>1. W!Idle \in ProvisionJob /\ W!Idle.at = "idle"
    BY DripConstants DEF ProvisionJob, W!Idle
  <2>2. walletJob[s] \in ProvisionJob /\ 0 \in 0 .. MAX_DRIPS_PER_WALLET
    BY ProvisionTyped, DripConstants
  <2>3. QED
    BY <2>1, <2>2 DEF ProvisionJob
<1>4. W!MayDrip => counted \in ProvisionJob /\ counted.at = "reserve" /\ counted.count = drips
  <2>1. W!MayDrip => drips \in 0 .. MAX_DRIPS_PER_WALLET
    BY ProvisionTyped, DripConstants DEF W!MayDrip
  <2>2. QED
    BY <2>1, ProvisionTyped DEF ProvisionJob
<1>5. ~excused => /\ dripped <= drips + W!Forgiven /\ drips <= MAX_DRIPS_PER_WALLET /\ hour <= 1 + lost
                  /\ ~recent => hour <= lost
  BY DEF ProvisionInv, DripsTracked
<1> HIDE DEF counted, unread
<1>6. CASE W!MayDrip /\ walletJob' = [walletJob EXCEPT ![s] = counted] /\ UNCHANGED <<lost, walletFaults>>
  <2>1. drips < MAX_DRIPS_PER_WALLET /\ ~recent
    BY <1>6 DEF W!MayDrip
  <2>2. QED
    <3>1. counted.at \notin Wallets
      BY <1>4, <1>6 DEF Wallets
    <3>2. QED
      BY <1>1, <1>2, <1>4, <1>5, <1>6, <2>1, <3>1, ProvisionTyped, ProvisionQuiet
<1>7. CASE walletJob' = [walletJob EXCEPT ![s] = W!Idle] /\ UNCHANGED <<lost, walletFaults>>
  <2>1. W!Idle.at \notin Wallets /\ W!Idle.at \notin Gives
    BY <1>3 DEF Wallets, Gives
  <2>2. QED
    BY <1>1, <1>2, <1>3, <1>7, <2>1, ProvisionTyped, ProvisionQuiet
<1>8. CASE W!Unnoticed /\ walletJob' = [walletJob EXCEPT ![s] = unread]
  <2>1. /\ walletFaults' \in 0 .. MaxFaults /\ lost' = lost + 1 /\ lost' <= walletFaults'
        /\ W!Forgiven' = W!Forgiven + MAX_DRIPS_PER_WALLET
    BY <1>8, Forgives
  <2>2. lost' \in Nat /\ lost <= lost' /\ lost' # 0 /\ W!Forgiven' \in Nat /\ W!Forgiven <= W!Forgiven'
    BY <2>1, ProvisionTyped, DripConstants
  <2>3. ~excused => dripped <= 0 + W!Forgiven' /\ hour <= lost'
    BY <1>5, <2>1, ProvisionTyped, DripConstants
  <2>4. 0 < MAX_DRIPS_PER_WALLET
    BY DripConstants
  <2>5. QED
    <3>1. unread.at \notin Wallets
      BY <1>3 DEF Wallets
    <3>2. QED
      BY <1>1, <1>2, <1>3, <1>8, <2>1, <2>2, <2>3, <2>4, <3>1, ProvisionTyped, ProvisionStep
<1>9. QED
  BY <1>2, <1>6, <1>7, <1>8

LEMMA CheckReserveSafe ==
    ASSUME ProvisionInv, NEW s \in Slot, W!CheckReserve(s)
    PROVE  ProvisionInv'
<1> DEFINE new == IF rich THEN [walletJob[s] EXCEPT !.at = "count"] ELSE W!Idle
<1>1. new \in ProvisionJob /\ new.at \in {"idle", "count"} /\ (new.at = "count" => new.count = walletJob[s].count)
  BY ProvisionTyped, DripConstants DEF ProvisionJob, W!Idle
<1>2. walletJob' = [walletJob EXCEPT ![s] = new]
  BY DEF W!CheckReserve, W!Return, W!Goto
<1>3. UNCHANGED <<wallet, drips, recent, created, short, rich, dripped, hour, excused, lost, walletFaults>>
  BY DEF W!CheckReserve, W!rowVars, W!world, W!history, W!troubles
<1>4. W!Bound /\ ~W!At(s, "idle") /\ walletJob[s].count < MAX_DRIPS_PER_WALLET
  BY DEF W!CheckReserve, ProvisionInv, BoundToOwn, W!At, Gives
<1>5. ~excused => dripped <= walletJob[s].count + W!Forgiven /\ hour <= lost
  BY DEF W!CheckReserve, ProvisionInv, DripsTracked, W!At
<1> HIDE DEF new
<1>6. new.at \notin Wallets
  BY <1>1 DEF Wallets
<1>7. QED
  BY <1>1, <1>2, <1>3, <1>4, <1>5, <1>6, ProvisionTyped, ProvisionQuiet

\* What is counted before it is sent: the drip of this invocation, and no other.
LEMMA CountDripSafe ==
    ASSUME ProvisionInv, NEW s \in Slot, W!CountDrip(s)
    PROVE  ProvisionInv'
<1> DEFINE new == [walletJob[s] EXCEPT !.at = "drip"]
<1>1. new \in ProvisionJob /\ new.at = "drip"
  BY ProvisionTyped DEF ProvisionJob
<1>2. /\ walletJob' = [walletJob EXCEPT ![s] = new]
      /\ UNCHANGED <<wallet, created, short, rich, dripped, hour, excused>>
      /\ W!At(s, "count") /\ ~W!At(s, "idle")
  BY DEF W!CountDrip, W!Goto, W!world, W!history, W!At
<1>3. W!Bound /\ walletJob[s].count < MAX_DRIPS_PER_WALLET /\ walletJob[s].count \in Nat
  BY <1>2, ProvisionTyped, DripConstants DEF ProvisionInv, BoundToOwn, W!At, ProvisionJob, Gives
<1>7. ~excused => dripped <= walletJob[s].count + W!Forgiven /\ hour <= lost
  BY <1>2 DEF ProvisionInv, DripsTracked, W!At
<1> HIDE DEF new
<1>4. CASE W!Unnoticed /\ UNCHANGED <<drips, recent>>
  <2>1. /\ walletFaults' \in 0 .. MaxFaults /\ lost' = lost + 1 /\ lost' <= walletFaults'
        /\ W!Forgiven' = W!Forgiven + MAX_DRIPS_PER_WALLET
    BY <1>4, Forgives
  <2>2. lost' \in Nat /\ lost <= lost' /\ lost' # 0 /\ W!Forgiven' \in Nat /\ W!Forgiven <= W!Forgiven'
    BY <2>1, ProvisionTyped, DripConstants
  <2>3. ~excused => dripped <= drips + W!Forgiven
    BY DEF ProvisionInv, DripsTracked
  <2>4. ~excused => dripped < drips + W!Forgiven' /\ hour < lost' /\ hour <= lost'
    BY <1>7, <2>1, <2>3, ProvisionTyped, DripConstants
  <2>5. QED
    <3>1. new.at \notin Wallets
      BY <1>1 DEF Wallets
    <3>2. QED
      BY <1>1, <1>2, <1>3, <1>4, <2>1, <2>2, <2>4, <3>1, ProvisionTyped, ProvisionStep
<1>5. CASE drips' = walletJob[s].count + 1 /\ recent' = TRUE /\ UNCHANGED <<lost, walletFaults>>
  <2>1. /\ walletJob' \in [Slot -> ProvisionJob] /\ walletJob'[s] = new
        /\ \A t \in Slot : t # s => walletJob'[t] = walletJob[t]
    BY <1>1, <1>2, ProvisionTyped
  <2>2. drips' \in Nat /\ drips' <= MAX_DRIPS_PER_WALLET
    BY <1>3, <1>5, DripConstants
  <2>3. W!TypeOK'
    BY <1>2, <1>5, <2>1, <2>2, ProvisionTyped, DripConstants DEF ProvisionInv, W!TypeOK, ProvisionJob
  <2>4. BoundToOwn'
    BY <1>1, <1>2, <1>3, <1>5, <2>1 DEF ProvisionInv, BoundToOwn, W!At, W!Bound, Gives, Wallets
  <2>5. ASSUME ~excused PROVE DripsTracked'
    <3>1. W!Forgiven' = W!Forgiven
      BY <1>5 DEF W!Forgiven
    <3>2. \A t \in Slot : t # s => walletJob'[t].at = "idle"
      BY <1>2, <2>1, <2>5 DEF ProvisionInv, DripsTracked, W!At
    <3>3. dripped' < drips' + W!Forgiven' /\ dripped' <= drips' + W!Forgiven'
      BY <1>2, <1>3, <1>5, <1>7, <2>5, <3>1, ProvisionTyped, DripConstants
    <3>4. hour' <= lost' /\ hour' <= 1 + lost'
      BY <1>2, <1>5, <1>7, <2>5, ProvisionTyped, DripConstants
    <3>5. QED
      BY <1>1, <1>5, <2>1, <2>2, <3>2, <3>3, <3>4 DEF DripsTracked, W!At, Wallets
  <2>6. QED
    BY <1>2, <2>3, <2>4, <2>5 DEF ProvisionInv, DripsTracked
<1>6. QED
  BY <1>4, <1>5 DEF W!CountDrip, W!troubles

LEMMA SendDripSafe ==
    ASSUME ProvisionInv, NEW s \in Slot, W!SendDrip(s)
    PROVE  ProvisionInv'
<1>1. /\ W!At(s, "drip") /\ ~W!At(s, "idle") /\ W!Bound
      /\ walletJob' = [walletJob EXCEPT ![s] = W!Idle]
      /\ UNCHANGED <<wallet, drips, recent, created, rich, excused, lost>>
  BY DEF W!SendDrip, W!Return, W!rowVars, W!At, ProvisionInv, BoundToOwn, Gives
<1>2. W!Idle \in ProvisionJob /\ W!Idle.at = "idle"
  BY DripConstants DEF ProvisionJob, W!Idle
<1>3. CASE W!Fault /\ UNCHANGED <<dripped, hour, short>>
  <2>1. W!Idle.at \notin Wallets
    BY <1>2 DEF Wallets
  <2>2. short' \in BOOLEAN /\ created' \in BOOLEAN /\ excused' \in BOOLEAN
    BY <1>1, <1>3, ProvisionTyped
  <2>3. QED
    BY <1>1, <1>2, <1>3, <2>1, <2>2, ProvisionTyped, ProvisionQuiet
<1>4. CASE /\ dripped < MaxDrips /\ dripped' = dripped + 1 /\ hour' = hour + 1
           /\ short' = FALSE /\ UNCHANGED walletFaults
  <2>1. /\ walletJob' \in [Slot -> ProvisionJob] /\ walletJob'[s] = W!Idle
        /\ \A t \in Slot : t # s => walletJob'[t] = walletJob[t]
    BY <1>1, <1>2, ProvisionTyped
  <2>2. dripped' \in 0 .. MaxDrips /\ hour' \in 0 .. MaxDrips /\ hour' <= dripped'
    BY <1>4, ProvisionTyped, DripConstants DEF ProvisionInv, BoundToOwn
  <2>3. W!TypeOK'
    BY <1>1, <1>4, <2>1, <2>2, ProvisionTyped, DripConstants DEF ProvisionInv, W!TypeOK, ProvisionJob
  <2>4. BoundToOwn'
    BY <1>1, <1>2, <1>4, <2>1, <2>2 DEF ProvisionInv, BoundToOwn, W!At, W!Bound, Gives, Wallets
  <2>5. ASSUME ~excused PROVE DripsTracked'
    <3>1. /\ dripped < drips + W!Forgiven /\ hour <= lost /\ (~recent => hour < lost)
          /\ drips <= MAX_DRIPS_PER_WALLET
      BY <1>1, <2>5 DEF ProvisionInv, DripsTracked
    <3>2. \A t \in Slot : walletJob'[t].at = "idle"
      BY <1>1, <1>2, <2>1, <2>5 DEF ProvisionInv, DripsTracked, W!At
    <3>3. W!Forgiven' = W!Forgiven
      BY <1>1 DEF W!Forgiven
    <3>4. dripped' <= drips' + W!Forgiven' /\ hour' <= 1 + lost' /\ (~recent' => hour' <= lost')
      BY <1>1, <1>4, <3>1, <3>3, ProvisionTyped, DripConstants
    <3>5. QED
      BY <1>1, <3>1, <3>2, <3>4 DEF DripsTracked, W!At, Wallets
  <2>6. QED
    BY <1>1, <2>3, <2>4, <2>5 DEF ProvisionInv, DripsTracked
<1>5. QED
  BY <1>3, <1>4 DEF W!SendDrip, W!history

LEMMA ProvisionCrashSafe ==
    ASSUME ProvisionInv, NEW s \in Slot, W!Crash(s)
    PROVE  ProvisionInv'
<1>1. W!Idle \in ProvisionJob /\ W!Idle.at = "idle"
  BY DripConstants DEF ProvisionJob, W!Idle
<1>2. /\ W!Fault /\ walletJob' = [walletJob EXCEPT ![s] = W!Idle]
      /\ UNCHANGED <<wallet, drips, recent, created, short, rich, dripped, hour, excused, lost>>
  BY DEF W!Crash, W!Return, W!rowVars, W!world, W!history
<1>3. W!Idle.at \notin Wallets /\ W!Idle.at \notin Gives
  BY <1>1 DEF Wallets, Gives
<1>4. QED
  BY <1>1, <1>2, <1>3, ProvisionTyped, ProvisionQuiet

LEMMA SpendGasSafe == ProvisionInv /\ W!SpendGas => ProvisionInv'
BY DEF W!SpendGas, W!rowVars, W!history, W!troubles, ProvisionInv, W!TypeOK,
   BoundToOwn, DripsTracked, W!At, W!Bound, W!Forgiven

LEMMA SettlerBalanceSafe == ProvisionInv /\ W!SettlerBalance => ProvisionInv'
BY DEF W!SettlerBalance, W!rowVars, W!history, W!troubles, ProvisionInv, W!TypeOK,
   BoundToOwn, DripsTracked, W!At, W!Bound, W!Forgiven

LEMMA HourPassesSafe ==
    ASSUME ProvisionInv, W!HourPasses
    PROVE  ProvisionInv'
<1>1. /\ recent' = FALSE /\ hour' = 0 /\ \A s \in Slot : W!At(s, "idle")
      /\ UNCHANGED <<wallet, drips, created, short, rich, walletJob, dripped, excused, lost, walletFaults>>
  BY DEF W!HourPasses, W!world, W!troubles
<1>2. W!TypeOK'
  <2>1. hour' \in 0 .. MaxDrips
    BY <1>1, DripConstants
  <2>2. QED
    BY <1>1, <2>1 DEF ProvisionInv, W!TypeOK
<1>3. BoundToOwn' /\ DripsTracked'
  <2>1. W!Forgiven' = W!Forgiven
    BY <1>1 DEF W!Forgiven
  <2>2. \A s \in Slot : walletJob[s].at = "idle"
    BY <1>1 DEF W!At
  <2>3. BoundToOwn'
    BY <1>1, <2>2, ProvisionTyped, DripConstants DEF ProvisionInv, BoundToOwn, W!At, W!Bound, Gives, Wallets
  <2>4. hour' <= lost' /\ hour' <= 1 + lost'
    BY <1>1, ProvisionTyped
  <2>5. DripsTracked'
    BY <1>1, <2>1, <2>2, <2>4 DEF ProvisionInv, DripsTracked, W!At, Wallets
  <2>6. QED
    BY <2>3, <2>5
<1>4. QED
  BY <1>2, <1>3 DEF ProvisionInv

LEMMA ProvisionInit == W!Init => ProvisionInv
<1> SUFFICES ASSUME W!Init PROVE ProvisionInv
  OBVIOUS
<1>1. W!Idle \in ProvisionJob /\ W!Idle.at = "idle"
  BY DripConstants DEF ProvisionJob, W!Idle
<1>2. walletJob \in [Slot -> ProvisionJob] /\ \A s \in Slot : walletJob[s].at = "idle"
  BY <1>1 DEF W!Init
<1>3. W!TypeOK
  <2>1. drips \in 0 .. MaxDrips + MAX_DRIPS_PER_WALLET /\ dripped \in 0 .. MaxDrips /\ hour \in 0 .. MaxDrips
    BY DripConstants DEF W!Init
  <2>2. /\ walletFaults \in 0 .. MaxFaults /\ lost \in 0 .. MaxFaults
        /\ wallet \in {"none", "earlier", "older", "own", "other"}
    BY DripConstants DEF W!Init
  <2>3. QED
    BY <1>2, <2>1, <2>2 DEF W!Init, W!TypeOK, ProvisionJob
<1>4. BoundToOwn /\ DripsTracked
  <2>1. /\ dripped = 0 /\ hour = 0 /\ lost = 0 /\ walletFaults = 0 /\ wallet # "other"
        /\ drips \in 0 .. MAX_DRIPS_PER_WALLET
    BY DripConstants DEF W!Init
  <2>2. W!Forgiven = 0
    BY <2>1, DripConstants DEF W!Forgiven
  <2>3. BoundToOwn
    BY <1>2, <2>1 DEF BoundToOwn, W!At, Gives, Wallets
  <2>4. dripped <= drips + W!Forgiven /\ drips <= MAX_DRIPS_PER_WALLET /\ hour <= 1 + lost /\ hour <= lost
    BY <2>1, <2>2, DripConstants
  <2>5. QED
    BY <1>2, <2>3, <2>4 DEF DripsTracked, W!At, Wallets
<1>5. QED
  BY <1>3, <1>4 DEF ProvisionInv

LEMMA ProvisionNext == ProvisionInv /\ [W!Next]_(W!vars) => ProvisionInv'
<1>1. ASSUME ProvisionInv, W!Next PROVE ProvisionInv'
  BY <1>1, StartProvisionSafe, CreateWalletSafe, CheckHolderSafe, BindWalletSafe, CheckBalanceSafe, ReadRowSafe,
     CheckReserveSafe, CountDripSafe, SendDripSafe, ProvisionCrashSafe, SpendGasSafe, HourPassesSafe,
     SettlerBalanceSafe DEF W!Next
<1>2. ASSUME ProvisionInv, UNCHANGED W!vars PROVE ProvisionInv'
  BY <1>2 DEF W!vars, ProvisionInv, W!TypeOK, BoundToOwn, DripsTracked, W!At, W!Bound, W!Forgiven
<1>3. QED
  BY <1>1, <1>2

\* What a step may do to the wallet of a row.
StaysBound ==
    /\ wallet' # "other"
    /\ wallet = "own" => wallet' = "own"
    /\ wallet = "older" => wallet' = "older" \/ (wallet' = "own" /\ lost > 0)

\* Once a row is bound to the wallet of its user id no step changes it, only a read that failed
\* exchanges an older one for that, and no step binds another account's.
LEMMA BindsOnce == ProvisionInv /\ [W!Next]_(W!vars) => StaysBound
<1> SUFFICES ASSUME ProvisionInv, [W!Next]_(W!vars)
             PROVE  StaysBound
  OBVIOUS
<1>1. wallet # "other"
  BY DEF ProvisionInv, BoundToOwn
<1>2. wallet' = wallet \/ \E s \in Slot : W!BindWallet(s)
  BY DEF W!Next, W!vars, W!StartProvision, W!CreateWallet, W!CheckHolder, W!CheckBalance, W!ReadRow,
     W!CheckReserve, W!CountDrip, W!SendDrip, W!Crash, W!SpendGas, W!HourPasses, W!SettlerBalance, W!rowVars
<1>3. ASSUME NEW s \in Slot, W!BindWallet(s)
      PROVE  wallet' = "own" /\ (wallet = "older" => lost > 0)
  <2>1. walletJob[s].at = "bind" /\ wallet' = walletJob[s].offered
    BY <1>3 DEF W!BindWallet, W!At
  <2>2. wallet' = "own" /\ ~(wallet = "older" /\ lost = 0)
    BY <2>1 DEF W!At, ProvisionInv, BoundToOwn, Wallets
  <2>3. lost \in Nat
    BY ProvisionTyped
  <2>4. QED
    BY <2>2, <2>3
<1>4. QED
  BY <1>1, <1>2, <1>3 DEF StaysBound

LEMMA ProvisionSteps == [AccountsNext]_allVars => [W!Next]_(W!vars)
BY DEF AccountsNext, allVars, WVars, W!vars

LEMMA ProvisionSafe == AccountsSpec => []ProvisionInv
<1>1. AccountsInit => ProvisionInv
  BY ProvisionInit DEF AccountsInit
<1>2. QED
  BY <1>1, ProvisionSteps, ProvisionNext, PTL DEF AccountsSpec

\* A wallet of our custodian, once bound to an account under its user id, stays with it, an older
\* one goes only for that and after a read of the row that failed, and a wallet that is another
\* account's is never bound: however many provisions run at once, die or meet failures.
THEOREM WalletsAreBoundForGood == AccountsSpec => BoundForGood
<1>1. ProvisionInv /\ [AccountsNext]_allVars => [StaysBound]_(W!vars)
  BY BindsOnce, ProvisionSteps
<1>2. QED
  BY <1>1, ProvisionSafe, PTL DEF AccountsSpec, BoundForGood, W!BoundForGood, StaysBound

-----------------------------------------------------------------------------
(* The signing limits. *)

\* What is past the cap and not on record yet.
Flying == [s \in Slot |-> IF call[s].at \in {"sign", "signed"} THEN call[s].usdcOut ELSE 0]
InFlight == Total(Flying, Slot)
Capped == spentInWindow + InFlight

CallType == [at : {"idle", "check", "sign", "signed", "refused", "failed"},
             usdcOut : Amounts \cup {0}, moves : Amounts \cup {0}]
EventType == [outcome : {"none", "signed", "refused", "failed"}, usdcOut : Amounts \cup {0},
              moves : Amounts \cup {0}]

\* The ledger says of a signature what it can move; the rows are written one after the other.
LedgerIsTrue ==
    /\ \A s \in Slot : /\ call[s].moves = call[s].usdcOut
                       /\ call[s].at \in {"sign", "signed"} => call[s].usdcOut <= DailyCap
    /\ \A e \in Event : events[e].moves = Signed[e] /\ Signed[e] <= DailyCap
    /\ \E k \in 0 .. MaxEvents : Written = 1 .. k

\* Every invocation under way was let through by a sum that held all that is on record now.
CapTracked ==
    /\ Capped <= Cardinality(Slot) * DailyCap
    /\ ~together => /\ Capped <= DailyCap
                    /\ \A s, t \in Slot : ~At(s, "idle") /\ ~At(t, "idle") => s = t

CapInv == TypeOK /\ LedgerIsTrue /\ CapTracked

LEMMA SignConstants ==
    /\ \A a \in Amounts \cup {0} : a \in Nat
    /\ DailyCap \in Nat /\ MaxEvents \in Nat /\ MaxFaults \in Nat
    /\ IsFiniteSet(Slot) /\ Cardinality(Slot) \in Nat /\ Cardinality(Slot) >= 1
    /\ IsFiniteSet(Event)
<1>1. IsFiniteSet(Slot) /\ Slot # {}
  BY SignAssumption DEF SignAssumption
<1>2. Cardinality(Slot) \in Nat /\ Cardinality(Slot) # 0
  BY <1>1, FS_CardinalityType, FS_EmptySet
<1>3. IsFiniteSet(Event)
  BY FS_Interval, SignAssumption DEF Event, SignAssumption
<1>4. QED
  BY <1>1, <1>2, <1>3, SignAssumption DEF SignAssumption

LEMMA CapTyped ==
    ASSUME TypeOK, LedgerIsTrue
    PROVE  /\ call \in [Slot -> CallType] /\ events \in [Event -> EventType]
           /\ Flying \in [Slot -> 0 .. DailyCap] /\ Signed \in [Event -> 0 .. DailyCap]
           /\ InWindow \in SUBSET Event /\ spentInWindow \in Nat /\ InFlight \in Nat /\ Capped \in Nat
<1>1. call \in [Slot -> CallType] /\ events \in [Event -> EventType]
  BY DEF TypeOK, CallType, EventType
<1>2. ASSUME NEW s \in Slot PROVE Flying[s] \in 0 .. DailyCap
  <2>1. call[s].usdcOut \in Nat
    BY <1>1, SignConstants DEF CallType
  <2>2. call[s].at \in {"sign", "signed"} => call[s].usdcOut <= DailyCap
    BY DEF LedgerIsTrue
  <2>3. QED
    BY <2>1, <2>2, SignConstants DEF Flying
<1>3. ASSUME NEW e \in Event PROVE Signed[e] \in 0 .. DailyCap
  <2>1. events[e].usdcOut \in Nat
    BY <1>1, SignConstants DEF EventType
  <2>2. Signed[e] \in Nat
    BY <2>1 DEF Signed
  <2>3. Signed[e] <= DailyCap
    BY DEF LedgerIsTrue
  <2>4. QED
    BY <2>2, <2>3, SignConstants
<1>4. Flying \in [Slot -> 0 .. DailyCap] /\ Signed \in [Event -> 0 .. DailyCap]
  BY <1>2, <1>3 DEF Flying, Signed
<1>5. InWindow \in SUBSET Event
  BY DEF InWindow, Written
<1>6. spentInWindow \in Nat /\ InFlight \in Nat
  BY <1>4, <1>5, SignConstants, TotalType DEF spentInWindow, InFlight
<1>7. QED
  BY <1>1, <1>4, <1>5, <1>6 DEF Capped

\* When nobody else is under way, what is in flight is this invocation's.
LEMMA AloneInFlight ==
    ASSUME CapInv, NEW s \in Slot, \A t \in Slot : t # s => At(t, "idle")
    PROVE  InFlight = Flying[s]
<1>1. Flying \in [Slot -> 0 .. DailyCap] /\ \A t \in Slot : t # s => Flying[t] = 0
  BY CapTyped DEF CapInv, Flying, At
<1>2. Slot = (Slot \ {s}) \cup {s} /\ s \notin Slot \ {s} /\ Slot \ {s} \in SUBSET Slot
  OBVIOUS
<1>3. Total(Flying, Slot \ {s}) = 0
  BY <1>1, TotalOfZeros
<1>4. Total(Flying, (Slot \ {s}) \cup {s}) = Total(Flying, Slot \ {s}) + Flying[s]
  BY <1>1, <1>2, SignConstants, TotalAdd
<1>5. QED
  BY <1>1, <1>2, <1>3, <1>4 DEF InFlight

\* Without this invocation, what is in flight is at most a cap for every other one.
LEMMA OthersInFlight ==
    ASSUME CapInv, NEW s \in Slot
    PROVE  InFlight <= Flying[s] + (Cardinality(Slot) - 1) * DailyCap
<1>1. Flying \in [Slot -> 0 .. DailyCap]
  BY CapTyped DEF CapInv
<1>2. Slot = (Slot \ {s}) \cup {s} /\ s \notin Slot \ {s} /\ Slot \ {s} \in SUBSET Slot
  OBVIOUS
<1>3. Cardinality(Slot \ {s}) = Cardinality(Slot) - 1
  BY SignConstants, FS_RemoveElement
<1>4. Total(Flying, Slot \ {s}) <= Cardinality(Slot \ {s}) * DailyCap
  BY <1>1, <1>2, SignConstants, TotalBounded
<1>5. Total(Flying, (Slot \ {s}) \cup {s}) = Total(Flying, Slot \ {s}) + Flying[s]
  BY <1>1, <1>2, SignConstants, TotalAdd
<1>6. Total(Flying, Slot \ {s}) \in Nat /\ Flying[s] \in Nat
  BY <1>1, <1>2, SignConstants, TotalType
<1> DEFINE rest == (Cardinality(Slot) - 1) * DailyCap
<1>7. rest \in Int /\ Total(Flying, Slot \ {s}) <= rest
  BY <1>3, <1>4, SignConstants
<1>8. InFlight = Total(Flying, Slot \ {s}) + Flying[s]
  BY <1>2, <1>5 DEF InFlight
<1> HIDE DEF rest
<1>9. InFlight <= Flying[s] + rest
  BY <1>6, <1>7, <1>8
<1>10. QED
  BY <1>9 DEF rest

\* A step of one invocation that writes no row.
LEMMA InFlightChanges ==
    ASSUME CapInv, NEW s \in Slot, UNCHANGED <<events, aged>>,
           NEW new \in CallType, call' = [call EXCEPT ![s] = new],
           new.moves = new.usdcOut, new.at \in {"sign", "signed"} => new.usdcOut <= DailyCap
    PROVE  /\ LedgerIsTrue' /\ call' \in [Slot -> CallType]
           /\ spentInWindow' = spentInWindow
           /\ InFlight' = InFlight - Flying[s] + Flying'[s]
           /\ Flying[s] \in Nat /\ Flying'[s] \in Nat
<1>1. /\ call \in [Slot -> CallType] /\ Flying \in [Slot -> 0 .. DailyCap]
  BY CapTyped DEF CapInv
<1>2. /\ call' \in [Slot -> CallType] /\ call'[s] = new
      /\ \A t \in Slot : t # s => call'[t] = call[t]
  BY <1>1
<1>3. spentInWindow' = spentInWindow /\ UNCHANGED <<Signed, Written>>
  BY DEF spentInWindow, Signed, InWindow, Written
<1>4. LedgerIsTrue'
  BY <1>2, <1>3 DEF CapInv, LedgerIsTrue
<1>5. \A t \in Slot : t # s => Flying'[t] = Flying[t]
  BY <1>2 DEF Flying
<1>6. Flying'[s] \in 0 .. DailyCap
  <2>1. new.usdcOut \in Nat
    BY SignConstants DEF CallType
  <2>2. QED
    BY <1>2, <2>1, SignConstants DEF Flying
<1>7. Flying' \in [Slot -> 0 .. DailyCap]
  <2>1. \A t \in Slot : Flying'[t] \in 0 .. DailyCap
    BY <1>1, <1>5, <1>6
  <2>2. QED
    BY <2>1 DEF Flying
<1>8. Total(Flying', Slot) = Total(Flying, Slot) - Flying[s] + Flying'[s]
  BY <1>1, <1>5, <1>7, SignConstants, TotalChange
<1>9. QED
  BY <1>1, <1>2, <1>3, <1>4, <1>6, <1>8, SignConstants DEF InFlight

LEMMA QuietSign ==
    ASSUME CapInv, NEW s \in Slot, UNCHANGED <<events, aged>>,
           NEW new \in CallType, call' = [call EXCEPT ![s] = new],
           together' \in BOOLEAN, together => together', unwritten' \in 0 .. MaxFaults,
           new.moves = new.usdcOut,
           new.at \in {"sign", "signed"} => call[s].at \in {"sign", "signed"} /\ new.usdcOut = call[s].usdcOut,
           new.at # "idle" => ~At(s, "idle") \/ together' \/ \A t \in Slot : At(t, "idle")
    PROVE  CapInv'
<1>1. call \in [Slot -> CallType] /\ Capped \in Nat /\ spentInWindow \in Nat /\ InFlight \in Nat
  BY CapTyped DEF CapInv
<1>2. /\ LedgerIsTrue' /\ call' \in [Slot -> CallType]
      /\ spentInWindow' = spentInWindow
      /\ InFlight' = InFlight - Flying[s] + Flying'[s]
      /\ Flying[s] \in Nat /\ Flying'[s] \in Nat
  BY InFlightChanges DEF CapInv, LedgerIsTrue
<1>3. TypeOK'
  BY <1>2 DEF CapInv, TypeOK, CallType
<1>4. call'[s] = new /\ \A t \in Slot : t # s => call'[t] = call[t]
  BY <1>1
<1>5. Flying'[s] <= Flying[s]
  BY <1>2, <1>4 DEF Flying
<1>6. Capped' \in Int /\ Capped' <= Capped
  BY <1>1, <1>2, <1>5 DEF Capped
<1>7. Cardinality(Slot) * DailyCap \in Int /\ DailyCap \in Int
  BY SignConstants
<1>8. Capped' <= Cardinality(Slot) * DailyCap
  BY <1>1, <1>6, <1>7 DEF CapInv, CapTracked
<1>9. ~together' => Capped' <= DailyCap
  BY <1>1, <1>6, <1>7 DEF CapInv, CapTracked
<1>10. ASSUME ~together', NEW t \in Slot, NEW u \in Slot, call'[t].at # "idle", call'[u].at # "idle"
       PROVE  t = u
  BY <1>4, <1>10 DEF CapInv, CapTracked, At
<1>11. QED
  BY <1>2, <1>3, <1>8, <1>9, <1>10 DEF CapInv, CapTracked, At

LEMMA SignFault == CapInv /\ Fault => unwritten' \in 0 .. MaxFaults
BY SignConstants DEF Fault, CapInv, TypeOK

LEMMA IdleCall == Idle \in CallType /\ Idle.at = "idle" /\ Idle.moves = Idle.usdcOut
BY DEF Idle, CallType

\* What the vetting lets through moves what the ledger will say of it.
LEMMA VettedIsCounted ==
    ASSUME NEW intent \in Intents
    PROVE  intent \in CallType /\ intent.at \in {"check", "refused"} /\ intent.moves = intent.usdcOut
<1>1. PICK tx \in Transactions : intent = Intent(tx)
  BY DEF Intents
<1>2. CASE Signable(tx)
  <2>1. intent = [at |-> "check", usdcOut |-> UsdcOut(tx), moves |-> Moves(tx)]
    BY <1>1, <1>2 DEF Intent
  <2>2. Moves(tx) = UsdcOut(tx)
    BY <1>2 DEF Signable, Vetted, Moves
  <2>3. UsdcOut(tx) \in Amounts \cup {0}
    BY DEF UsdcOut, Transactions
  <2>4. QED
    BY <2>1, <2>2, <2>3 DEF CallType
<1>3. CASE ~Signable(tx)
  BY <1>1, <1>3 DEF Intent, Idle, CallType
<1>4. QED
  BY <1>2, <1>3

LEMMA StartSignSafe ==
    ASSUME CapInv, NEW s \in Slot, NEW intent \in Intents, StartSign(s, intent)
    PROVE  CapInv'
<1>1. intent \in CallType /\ intent.at \in {"check", "refused"} /\ intent.moves = intent.usdcOut
  BY VettedIsCounted
<1>2. /\ call' = [call EXCEPT ![s] = intent] /\ UNCHANGED <<events, aged, unwritten>>
      /\ together' = (together \/ \E t \in Slot : ~At(t, "idle"))
  BY DEF StartSign
<1>3. together' \in BOOLEAN /\ unwritten' \in 0 .. MaxFaults
  BY <1>2 DEF CapInv, TypeOK
<1>4. QED
  BY <1>1, <1>2, <1>3, QuietSign

\* Through the cap: what is on record and what this one adds is within it, and each of the
\* others adds a cap at most.
LEMMA LetThrough ==
    ASSUME CapInv, NEW s \in Slot, At(s, "check"), WithinCap(call[s].usdcOut),
           call' = [call EXCEPT ![s].at = "sign"], UNCHANGED <<events, aged, together, unwritten>>
    PROVE  CapInv'
<1> DEFINE new == [call[s] EXCEPT !.at = "sign"]
<1>1. /\ call \in [Slot -> CallType] /\ Capped \in Nat /\ spentInWindow \in Nat /\ InFlight \in Nat
  BY CapTyped DEF CapInv
<1>2. /\ new \in CallType /\ new.at = "sign" /\ new.usdcOut = call[s].usdcOut /\ new.moves = call[s].moves
      /\ call' = [call EXCEPT ![s] = new] /\ call[s].usdcOut \in Amounts \cup {0}
  BY <1>1 DEF CallType
<1>3. call[s].usdcOut \in Nat /\ DailyCap \in Nat
  BY <1>2, SignConstants
<1> HIDE DEF new
<1>4. new.moves = new.usdcOut /\ new.usdcOut <= DailyCap
  BY <1>1, <1>2, <1>3 DEF CapInv, LedgerIsTrue, WithinCap
<1>5. /\ LedgerIsTrue' /\ call' \in [Slot -> CallType]
      /\ spentInWindow' = spentInWindow
      /\ InFlight' = InFlight - Flying[s] + Flying'[s]
      /\ Flying[s] \in Nat /\ Flying'[s] \in Nat
  BY <1>2, <1>4, InFlightChanges
<1>6. call'[s] = new /\ \A t \in Slot : t # s => call'[t] = call[t]
  BY <1>1, <1>2
<1>7. Flying[s] = 0 /\ Flying'[s] = call[s].usdcOut
  BY <1>2, <1>6 DEF Flying, At
<1>8. Capped' = Capped + call[s].usdcOut
  BY <1>1, <1>3, <1>5, <1>7 DEF Capped
<1>9. TypeOK'
  BY <1>5 DEF CapInv, TypeOK, CallType
<1>10. \A t, u \in Slot : call'[t].at # "idle" /\ call'[u].at # "idle" => call[t].at # "idle" /\ call[u].at # "idle"
  BY <1>2, <1>6 DEF At
<1> DEFINE rest == (Cardinality(Slot) - 1) * DailyCap
           all == Cardinality(Slot) * DailyCap
<1>11. rest \in Nat /\ all \in Nat /\ all = DailyCap + rest
  BY SignConstants
<1>12. InFlight <= rest
  BY <1>7, <1>11, OthersInFlight, SignConstants
<1> HIDE DEF rest, all
<1>13. CASE call[s].usdcOut = 0
  <2>1. Capped' = Capped
    BY <1>1, <1>8, <1>13
  <2>2. QED
    BY <1>5, <1>9, <1>10, <2>1 DEF CapInv, CapTracked, At
<1>14. CASE call[s].usdcOut # 0
  <2>1. spentInWindow + call[s].usdcOut <= DailyCap
    BY <1>14 DEF WithinCap
  <2>2. Capped' <= all
    BY <1>1, <1>3, <1>8, <1>11, <1>12, <2>1 DEF Capped
  <2>3. ASSUME ~together PROVE Capped' <= DailyCap
    <3>1. \A t \in Slot : t # s => At(t, "idle")
      BY <2>3 DEF CapInv, CapTracked, At
    <3>2. InFlight = 0
      BY <1>7, <3>1, AloneInFlight
    <3>3. QED
      BY <1>1, <1>3, <1>8, <2>1, <3>2 DEF Capped
  <2>4. QED
    BY <1>5, <1>9, <1>10, <2>2, <2>3 DEF CapInv, CapTracked, At, all
<1>15. QED
  BY <1>13, <1>14

LEMMA GotoSign ==
    ASSUME CapInv, NEW s \in Slot, NEW at \in {"sign", "signed", "refused", "failed"}, Goto(s, at)
    PROVE  \E new \in CallType : /\ call' = [call EXCEPT ![s] = new]
                                 /\ new.at = at /\ new.usdcOut = call[s].usdcOut /\ new.moves = new.usdcOut
<1>1. call[s] \in CallType /\ call[s].moves = call[s].usdcOut
  BY CapTyped DEF CapInv, LedgerIsTrue
<1>2. [call[s] EXCEPT !.at = at] \in CallType
  BY <1>1 DEF CallType
<1>3. call' = [call EXCEPT ![s] = [call[s] EXCEPT !.at = at]]
  BY DEF Goto
<1>4. QED
  BY <1>1, <1>2, <1>3 DEF CallType

LEMMA CheckCapSafe ==
    ASSUME CapInv, NEW s \in Slot, CheckCap(s)
    PROVE  CapInv'
<1>1. call[s] \in CallType /\ At(s, "check") /\ ~At(s, "idle") /\ call[s].moves = call[s].usdcOut
      /\ UNCHANGED <<events, aged, together>> /\ together' \in BOOLEAN
  BY CapTyped DEF CheckCap, At, CapInv, LedgerIsTrue, TypeOK
<1>2. CASE WithinCap(call[s].usdcOut) /\ Goto(s, "sign") /\ UNCHANGED unwritten
  BY <1>1, <1>2, LetThrough DEF Goto
<1>3. CASE Goto(s, "refused") /\ UNCHANGED unwritten
  <2>1. PICK new \in CallType : /\ call' = [call EXCEPT ![s] = new]
                               /\ new.at = "refused" /\ new.usdcOut = call[s].usdcOut /\ new.moves = new.usdcOut
    BY <1>3, GotoSign
  <2>2. unwritten' \in 0 .. MaxFaults
    BY <1>3 DEF CapInv, TypeOK
  <2>3. QED
    BY <1>1, <1>3, <2>1, <2>2, QuietSign
<1>4. CASE Fault /\ Goto(s, "failed")
  <2>1. PICK new \in CallType : /\ call' = [call EXCEPT ![s] = new]
                               /\ new.at = "failed" /\ new.usdcOut = call[s].usdcOut /\ new.moves = new.usdcOut
    BY <1>4, GotoSign
  <2>2. QED
    BY <1>1, <1>4, <2>1, SignFault, QuietSign
<1>5. QED
  BY <1>2, <1>3, <1>4 DEF CheckCap

LEMMA SignSafe ==
    ASSUME CapInv, NEW s \in Slot, Sign(s)
    PROVE  CapInv'
<1>1. call[s] \in CallType /\ At(s, "sign") /\ ~At(s, "idle") /\ call[s].moves = call[s].usdcOut
      /\ UNCHANGED <<events, aged, together>> /\ together' \in BOOLEAN
  BY CapTyped DEF Sign, At, CapInv, LedgerIsTrue, TypeOK
<1>2. CASE Goto(s, "signed") /\ UNCHANGED unwritten
  <2>1. PICK new \in CallType : /\ call' = [call EXCEPT ![s] = new]
                               /\ new.at = "signed" /\ new.usdcOut = call[s].usdcOut /\ new.moves = new.usdcOut
    BY <1>2, GotoSign
  <2>2. unwritten' \in 0 .. MaxFaults
    BY <1>2 DEF CapInv, TypeOK
  <2>3. QED
    BY <1>1, <1>2, <2>1, <2>2, QuietSign DEF At
<1>3. CASE Fault /\ Goto(s, "failed")
  <2>1. PICK new \in CallType : /\ call' = [call EXCEPT ![s] = new]
                               /\ new.at = "failed" /\ new.usdcOut = call[s].usdcOut /\ new.moves = new.usdcOut
    BY <1>3, GotoSign
  <2>2. QED
    BY <1>1, <1>3, <2>1, SignFault, QuietSign
<1>4. QED
  BY <1>2, <1>3 DEF Sign

LEMMA SignCrashSafe ==
    ASSUME CapInv, NEW s \in Slot, Crash(s)
    PROVE  CapInv'
<1>1. /\ call' = [call EXCEPT ![s] = Idle] /\ Fault /\ UNCHANGED <<events, aged, together>>
      /\ together' \in BOOLEAN
  BY DEF Crash, Return, CapInv, TypeOK
<1>2. QED
  BY <1>1, IdleCall, SignFault, QuietSign

LEMMA SumDrops ==
    ASSUME NEW x \in Nat, NEW y \in Nat, NEW z \in Nat, y <= x
    PROVE  x + z \in Nat /\ y + z \in Nat /\ y + z <= x + z
OBVIOUS

\* A day on, the oldest row of the window no longer counts.
LEMMA RowAgesSafe ==
    ASSUME CapInv, RowAges
    PROVE  CapInv'
<1>1. /\ InWindow # {} /\ aged' = aged + 1 /\ UNCHANGED <<events, call, together, unwritten>>
      /\ aged \in 0 .. MaxEvents
  BY DEF RowAges, CapInv, TypeOK
<1>2. \E e \in Event : e > aged
  BY <1>1 DEF InWindow, Written
<1>3. aged' \in 0 .. MaxEvents
  BY <1>1, <1>2, SignConstants DEF Event
<1>4. UNCHANGED <<Signed, Written, Flying, InFlight>>
  BY <1>1 DEF Signed, Written, Flying, InFlight
<1>5. InWindow' = InWindow \ {aged + 1}
  BY <1>1, <1>4 DEF InWindow, Written, Event
<1>6. /\ Signed \in [Event -> 0 .. DailyCap] /\ InWindow \in SUBSET Event
      /\ spentInWindow \in Nat /\ InFlight \in Nat
  BY CapTyped DEF CapInv
<1>7. spentInWindow' \in Nat /\ spentInWindow' <= spentInWindow
  <2>1. CASE aged + 1 \in InWindow
    <3>1. /\ Total(Signed, InWindow \ {aged + 1}) = Total(Signed, InWindow) - Signed[aged + 1]
          /\ Total(Signed, InWindow \ {aged + 1}) \in Nat /\ Signed[aged + 1] \in Nat
      BY <1>6, <2>1, SignConstants, TotalRemove, TotalType
    <3>2. QED
      BY <1>4, <1>5, <1>6, <3>1 DEF spentInWindow
  <2>2. CASE aged + 1 \notin InWindow
    <3>1. InWindow' = InWindow
      BY <1>5, <2>2
    <3>2. QED
      BY <1>4, <1>6, <3>1 DEF spentInWindow
  <2>3. QED
    BY <2>1, <2>2
<1>8. Capped' \in Nat /\ Capped' <= Capped /\ Capped \in Nat
  <2>1. InFlight' = InFlight
    BY <1>4
  <2>2. Capped' = spentInWindow' + InFlight' /\ Capped = spentInWindow + InFlight
    BY DEF Capped
  <2>3. spentInWindow \in Nat /\ InFlight \in Nat /\ spentInWindow' \in Nat /\ InFlight' \in Nat
    BY <1>6, <1>7, <2>1
  <2>4. /\ spentInWindow + InFlight \in Nat /\ spentInWindow' + InFlight \in Nat
        /\ spentInWindow' + InFlight <= spentInWindow + InFlight
    BY <1>7, <2>3, SumDrops
  <2>5. QED
    BY <2>1, <2>2, <2>4
<1>9. Cardinality(Slot) * DailyCap \in Int /\ DailyCap \in Int
  BY SignConstants
<1>10. CapTracked'
  BY <1>1, <1>8, <1>9 DEF CapInv, CapTracked, At
<1>11. TypeOK' /\ LedgerIsTrue'
  BY <1>1, <1>3, <1>4 DEF CapInv, TypeOK, LedgerIsTrue
<1>12. QED
  BY <1>10, <1>11 DEF CapInv

\* A signature goes from under way to on record; nothing else of the row counts.
LEMMA RowWritten ==
    ASSUME CapInv, NEW s \in Slot, NEW e \in Event, e = Cardinality(Written) + 1,
           call[s].at \in {"signed", "refused", "failed"}, Return(s), UNCHANGED <<aged, together, unwritten>>,
           events' = [events EXCEPT ![e] =
               [outcome |-> call[s].at, usdcOut |-> call[s].usdcOut,
                moves |-> IF At(s, "signed") THEN call[s].moves ELSE 0]]
    PROVE  CapInv'
<1> DEFINE row == [outcome |-> call[s].at, usdcOut |-> call[s].usdcOut,
                   moves |-> IF At(s, "signed") THEN call[s].moves ELSE 0]
<1>1. /\ call \in [Slot -> CallType] /\ events \in [Event -> EventType]
      /\ Flying \in [Slot -> 0 .. DailyCap] /\ Signed \in [Event -> 0 .. DailyCap]
      /\ InWindow \in SUBSET Event /\ spentInWindow \in Nat /\ InFlight \in Nat /\ Capped \in Nat
  BY CapTyped DEF CapInv
<1>2. call[s] \in CallType /\ call[s].moves = call[s].usdcOut
  BY <1>1 DEF CapInv, LedgerIsTrue
<1>3. /\ row \in EventType /\ row.outcome = call[s].at /\ row.outcome \in {"signed", "refused", "failed"}
      /\ row.usdcOut = call[s].usdcOut /\ row.moves = (IF row.outcome = "signed" THEN row.usdcOut ELSE 0)
  BY <1>2 DEF CallType, EventType, At
<1>4. events' = [events EXCEPT ![e] = row]
  OBVIOUS
<1> HIDE DEF row
<1>5. events' \in [Event -> EventType] /\ events'[e] = row /\ \A f \in Event : f # e => events'[f] = events[f]
  BY <1>1, <1>3, <1>4
<1>6. PICK k \in 0 .. MaxEvents : Written = 1 .. k
  BY DEF CapInv, LedgerIsTrue
<1>7. k \in Nat /\ Cardinality(Written) = k
  BY <1>6, SignConstants, FS_Interval
<1>8. e = k + 1 /\ e \notin Written /\ e \notin InWindow
  BY <1>6, <1>7 DEF InWindow
<1>9. Written' = Written \cup {e}
  BY <1>3, <1>5 DEF Written
<1>10. Written' = 1 .. k + 1 /\ k + 1 \in 0 .. MaxEvents
  BY <1>6, <1>7, <1>8, <1>9, SignConstants DEF Event
<1>11. Signed'[e] = Flying[s] /\ events'[e].moves = Signed'[e] /\ \A f \in Event : f # e => Signed'[f] = Signed[f]
  BY <1>3, <1>5 DEF Signed, Flying
<1>12. Signed' \in [Event -> 0 .. DailyCap] /\ Flying[s] \in 0 .. DailyCap
  <2>1. \A f \in Event : Signed'[f] \in 0 .. DailyCap
    BY <1>1, <1>11
  <2>2. QED
    BY <1>1, <2>1 DEF Signed
<1>13. Total(Signed', InWindow) = spentInWindow
  <2>1. \A f \in InWindow : Signed'[f] = Signed[f]
    BY <1>1, <1>8, <1>11
  <2>2. QED
    BY <2>1, TotalDependsOnAmounts DEF spentInWindow
<1>14. spentInWindow' \in Nat /\ spentInWindow' <= spentInWindow + Flying[s]
  <2>1. CASE e > aged
    <3>1. InWindow' = InWindow \cup {e}
      BY <1>8, <1>9, <2>1 DEF InWindow
    <3>2. Total(Signed', InWindow \cup {e}) = Total(Signed', InWindow) + Signed'[e]
      <4>1. /\ IsFiniteSet(Event) /\ DailyCap \in Nat /\ Signed' \in [Event -> 0 .. DailyCap]
            /\ InWindow \in SUBSET Event /\ e \in Event /\ e \notin InWindow
        BY <1>1, <1>8, <1>12, SignConstants
      <4>2. QED
        BY <4>1, TotalAdd
    <3>3. QED
      BY <1>1, <1>11, <1>12, <1>13, <3>1, <3>2 DEF spentInWindow
  <2>2. CASE ~(e > aged)
    <3>1. InWindow' = InWindow
      BY <1>8, <1>9, <2>2 DEF InWindow
    <3>2. QED
      BY <1>1, <1>12, <1>13, <3>1 DEF spentInWindow
  <2>3. QED
    BY <2>1, <2>2
<1>15. /\ call' \in [Slot -> CallType] /\ call'[s] = Idle
       /\ \A t \in Slot : t # s => call'[t] = call[t]
  BY <1>1, IdleCall DEF Return
<1>16. InFlight' = InFlight - Flying[s]
  <2>1. Flying'[s] = 0 /\ \A t \in Slot : t # s => Flying'[t] = Flying[t]
    BY <1>15, IdleCall DEF Flying
  <2>2. Flying' \in [Slot -> 0 .. DailyCap]
    <3>1. \A t \in Slot : Flying'[t] \in 0 .. DailyCap
      BY <1>1, <2>1, SignConstants
    <3>2. QED
      BY <3>1 DEF Flying
  <2>3. Total(Flying', Slot) = Total(Flying, Slot) - Flying[s] + Flying'[s]
    BY <1>1, <2>1, <2>2, SignConstants, TotalChange
  <2>4. QED
    BY <1>1, <1>12, <2>1, <2>3 DEF InFlight
<1>17. Capped' \in Int /\ Capped' <= Capped
  BY <1>1, <1>12, <1>14, <1>16 DEF Capped
<1>18. TypeOK'
  BY <1>5, <1>15 DEF CapInv, TypeOK, CallType, EventType
<1>19. LedgerIsTrue'
  <2>1. \A t \in Slot : /\ call'[t].moves = call'[t].usdcOut
                        /\ call'[t].at \in {"sign", "signed"} => call'[t].usdcOut <= DailyCap
    BY <1>15, IdleCall DEF CapInv, LedgerIsTrue
  <2>2. \A f \in Event : events'[f].moves = Signed'[f] /\ Signed'[f] <= DailyCap
    BY <1>5, <1>11, <1>12, SignConstants DEF CapInv, LedgerIsTrue
  <2>3. QED
    BY <1>10, <2>1, <2>2 DEF LedgerIsTrue
<1>20. CapTracked'
  <2>1. Cardinality(Slot) * DailyCap \in Int /\ DailyCap \in Int
    BY SignConstants
  <2>2. Capped' <= Cardinality(Slot) * DailyCap /\ (~together' => Capped' <= DailyCap)
    BY <1>1, <1>17, <2>1 DEF CapInv, CapTracked
  <2>3. \A t \in Slot : call'[t].at # "idle" => call[t].at # "idle"
    BY <1>15, IdleCall
  <2>4. QED
    BY <2>2, <2>3 DEF CapInv, CapTracked, At
<1>21. QED
  BY <1>18, <1>19, <1>20 DEF CapInv

LEMMA RecordSafe ==
    ASSUME CapInv, NEW s \in Slot, Record(s)
    PROVE  CapInv'
<1>1. call[s].at \in {"signed", "refused", "failed"} /\ Return(s) /\ UNCHANGED <<aged, together>>
  BY DEF Record
<1>2. CASE Fault /\ UNCHANGED events
  <2>1. call' = [call EXCEPT ![s] = Idle] /\ together' \in BOOLEAN
    BY <1>1 DEF Return, CapInv, TypeOK
  <2>2. QED
    BY <1>1, <1>2, <2>1, IdleCall, SignFault, QuietSign
<1>3. CASE ~(Fault /\ UNCHANGED events)
  <2>1. /\ Cardinality(Written) + 1 \in Event /\ UNCHANGED unwritten
        /\ events' = [events EXCEPT ![Cardinality(Written) + 1] =
                        [outcome |-> call[s].at, usdcOut |-> call[s].usdcOut,
                         moves |-> IF At(s, "signed") THEN call[s].moves ELSE 0]]
    BY <1>3 DEF Record
  <2>2. QED
    BY <1>1, <2>1, RowWritten
<1>4. QED
  BY <1>2, <1>3

LEMMA CapInit == Init => CapInv
<1> SUFFICES ASSUME Init PROVE CapInv
  OBVIOUS
<1>1. /\ \A s \in Slot : call[s] = Idle
      /\ \A e \in Event : events[e] = NoEvent
      /\ call \in [Slot -> CallType] /\ events \in [Event -> EventType]
  BY IdleCall DEF Init, NoEvent, EventType
<1>2. TypeOK
  <2>1. aged = 0 /\ unwritten = 0 /\ together = FALSE
    BY DEF Init
  <2>2. QED
    <3>1. aged \in 0 .. MaxEvents /\ unwritten \in 0 .. MaxFaults
      BY <2>1, SignConstants
    <3>2. QED
      BY <1>1, <2>1, <3>1 DEF TypeOK, CallType, EventType
<1>3. LedgerIsTrue
  <2>1. Written = 1 .. 0
    BY <1>1 DEF Written, NoEvent
  <2>2. \A e \in Event : events[e].moves = 0 /\ Signed[e] = 0
    BY <1>1 DEF Signed, NoEvent
  <2>3. \A s \in Slot : call[s].moves = call[s].usdcOut /\ call[s].at = "idle"
    BY <1>1, IdleCall
  <2>4. QED
    BY <2>1, <2>2, <2>3, SignConstants DEF LedgerIsTrue
<1>4. Capped = 0
  <2>1. InWindow = {}
    BY <1>1 DEF InWindow, Written, NoEvent
  <2>2. spentInWindow = 0
    BY <2>1, TotalEmpty DEF spentInWindow
  <2>3. \A s \in Slot : Flying[s] = 0
    BY <1>1, IdleCall DEF Flying
  <2>4. InFlight = 0
    BY <2>3, TotalOfZeros DEF InFlight
  <2>5. QED
    BY <2>2, <2>4 DEF Capped
<1>5. Cardinality(Slot) * DailyCap \in Nat
  BY SignConstants
<1>6. CapTracked
  BY <1>1, <1>4, <1>5, IdleCall, SignConstants DEF CapTracked, At
<1>7. QED
  BY <1>2, <1>3, <1>6 DEF CapInv

LEMMA CapNext == CapInv /\ [Next]_vars => CapInv'
<1>1. ASSUME CapInv, Next PROVE CapInv'
  BY <1>1, StartSignSafe, CheckCapSafe, SignSafe, RecordSafe, SignCrashSafe, RowAgesSafe DEF Next
<1>2. ASSUME CapInv, UNCHANGED vars PROVE CapInv'
  <2>1. UNCHANGED <<events, aged, call, together, unwritten>>
    BY <1>2 DEF vars
  <2>2. UNCHANGED <<Signed, Written, Flying>> /\ Capped' = Capped
    BY <2>1 DEF Signed, Written, Flying, Capped, spentInWindow, InWindow, InFlight
  <2>3. QED
    BY <1>2, <2>1, <2>2 DEF CapInv, TypeOK, LedgerIsTrue, CapTracked, At
<1>3. QED
  BY <1>1, <1>2

\* The cap that is enforced on what is recorded bounds what the recorded signatures can move.
LEMMA CapIsKept ==
    ASSUME CapInv
    PROVE  CapHolds
<1>1. spentInWindow \in Nat /\ InFlight \in Nat /\ InWindow \in SUBSET Event
  BY CapTyped DEF CapInv
<1>2. CanMove = spentInWindow
  <2>1. \A e \in InWindow : Moved[e] = Signed[e]
    BY <1>1 DEF CapInv, LedgerIsTrue, Moved
  <2>2. QED
    BY <2>1, TotalDependsOnAmounts DEF CanMove, spentInWindow
<1>3. spentInWindow <= Capped
  BY <1>1 DEF Capped
<1> DEFINE rest == (Cardinality(Slot) - 1) * DailyCap
           all == Cardinality(Slot) * DailyCap
<1>4. rest \in Nat /\ all \in Nat /\ all = DailyCap + rest /\ DailyCap \in Nat
  BY SignConstants
<1>5. Capped <= all /\ (~together => Capped <= DailyCap) /\ Capped \in Nat
  BY CapTyped DEF CapInv, CapTracked
<1>6. Overshoot = IF together THEN rest ELSE 0
  BY DEF Overshoot
<1> HIDE DEF rest, all
<1>7. spentInWindow <= DailyCap + Overshoot
  BY <1>1, <1>3, <1>4, <1>5, <1>6
<1>8. QED
  BY <1>2, <1>7 DEF CapHolds

\* What the server signs in a day for one wallet stays under the cap, and past it by at most a
\* cap for every further request that was under way with another one; the settler's gas stays
\* within the count. For every cap, every number of invocations and rows.
THEOREM LimitsAreKept == AccountsSpec => []LimitsHold
<1>1. AccountsInit => CapInv
  BY CapInit DEF AccountsInit
<1>2. [AccountsNext]_allVars => [Next]_vars
  BY DEF AccountsNext, allVars, vars
<1>3. CapInv => TypeOK /\ CapHolds
  BY CapIsKept DEF CapInv
<1>4. ProvisionInv => W!TypeOK /\ W!DripsAreCounted
  BY DEF ProvisionInv, DripsTracked, W!DripsAreCounted
<1>5. CapInv /\ ProvisionInv => LimitsHold
  BY <1>3, <1>4 DEF LimitsHold
<1>6. QED
  BY <1>1, <1>2, <1>5, CapNext, ProvisionSafe, PTL DEF AccountsSpec

-----------------------------------------------------------------------------
(* The guardians. *)

SeatType == [how : {"none", "account", "number"}, who : Person \cup {"none"},
             status : {"none", "invited", "pending", "revoked", "deleted"},
             cooling : {"none", "running", "over"}]
HandlerType == [at : {"idle", "insert", "send", "delete", "accept", "decline", "tell"},
                seat : 0 .. MaxSeats, who : Person \cup {"none"}, how : {"none", "account", "number"}]

\* The invocation on its way to tell the owner about a row.
Carries(s, g) == handler[s].at \in {"send", "tell"} /\ handler[s].seat = g

LEMMA SameCount == \A S : G!Cardinality(S) = Cardinality(S)
BY DEF G!Cardinality, Cardinality

\* Rows are written one after the other, invocations work on rows that are written, and no
\* clock runs before an answer.
RowsInOrder ==
    /\ \E k \in 0 .. MaxSeats : G!Written = 1 .. k
    /\ \A s \in Slot : handler[s].at \notin {"idle", "insert"} => handler[s].seat \in G!Written
    /\ \A g \in G!Seat : seats[g].status \in {"none", "invited"} => seats[g].cooling = "none"

\* What stands between a row the owner has not heard of and a guardian: the invocation of the
\* invitation, then that of the answer; losing either takes a failure.
Covered(g) ==
    /\ seats[g].cooling = "none" => failures >= 1 \/ \E s \in Slot : Carries(s, g)
    /\ seats[g].cooling = "running" =>
           \/ failures >= 2
           \/ failures >= 1 /\ \E s \in Slot : Carries(s, g)
           \/ \E s, t \in Slot : s # t /\ Carries(s, g) /\ Carries(t, g)
    /\ seats[g].cooling = "over" => failures >= 2

GuardInv == G!TypeOK /\ RowsInOrder /\ \A g \in G!Written : g \in ownerTold \/ Covered(g)

LEMMA GuardTyped ==
    ASSUME G!TypeOK
    PROVE  /\ seats \in [G!Seat -> SeatType] /\ handler \in [Slot -> HandlerType]
           /\ registered \subseteq Person /\ links \subseteq G!Seat /\ lapsed \subseteq G!Seat
           /\ ownerTold \subseteq G!Seat /\ failures \in 0 .. MaxFaults /\ failures \in Nat
           /\ MaxSeats \in Nat /\ MaxFaults \in Nat
BY AccountsAssumption, SignAssumption DEF G!TypeOK, SeatType, HandlerType, AccountsAssumption, SignAssumption

\* While no invocation that carries a row is lost, the row stays covered.
LEMMA StillCovered ==
    ASSUME NEW g \in G!Seat, Covered(g), failures \in Nat, failures' \in Nat, failures' >= failures,
           seats'[g].cooling = seats[g].cooling,
           \A s \in Slot : Carries(s, g) => Carries(s, g)'
    PROVE  Covered(g)'
BY DEF Covered

\* Losing one costs a failure.
LEMMA LostCovered ==
    ASSUME NEW g \in G!Seat, Covered(g), failures \in Nat, failures' = failures + 1,
           seats'[g].cooling = seats[g].cooling,
           NEW gone \in Slot, \A s \in Slot : s # gone /\ Carries(s, g) => Carries(s, g)'
    PROVE  Covered(g)'
BY DEF Covered

\* A step of one invocation that leaves the rows alone.
LEMMA HandlerStep ==
    ASSUME GuardInv, NEW s \in Slot, UNCHANGED seats,
           registered' \subseteq Person, links' \subseteq G!Seat, lapsed' \subseteq G!Seat,
           ownerTold' \subseteq G!Seat, ownerTold \subseteq ownerTold',
           NEW new \in HandlerType, handler' = [handler EXCEPT ![s] = new],
           new.at \notin {"idle", "insert"} => new.seat \in G!Written,
           \/ G!Fault
           \/ UNCHANGED failures /\ \A g \in G!Written : Carries(s, g) /\ g \notin ownerTold' => new.at \in {"send", "tell"} /\ new.seat = g
    PROVE  GuardInv'
<1>1. /\ seats \in [G!Seat -> SeatType] /\ handler \in [Slot -> HandlerType] /\ failures \in Nat /\ MaxFaults \in Nat
      /\ failures \in 0 .. MaxFaults
  BY GuardTyped DEF GuardInv
<1>2. /\ handler' \in [Slot -> HandlerType] /\ handler'[s] = new
      /\ \A t \in Slot : t # s => handler'[t] = handler[t]
  BY <1>1
<1>3. failures' \in 0 .. MaxFaults
  BY <1>1 DEF G!Fault
<1>4. G!TypeOK'
  BY <1>1, <1>2, <1>3 DEF GuardInv, G!TypeOK, SeatType, HandlerType
<1>5. UNCHANGED G!Written /\ G!Written \subseteq G!Seat
  BY DEF G!Written
<1>6. RowsInOrder'
  BY <1>2, <1>5 DEF GuardInv, RowsInOrder
<1>7. ASSUME NEW g \in G!Written, g \notin ownerTold' PROVE Covered(g)'
  <2>1. Covered(g) /\ g \in G!Seat
    BY <1>5, <1>7 DEF GuardInv
  <2>2. \A t \in Slot : t # s /\ Carries(t, g) => Carries(t, g)'
    BY <1>2 DEF Carries
  <2>3. CASE G!Fault
    BY <1>1, <2>1, <2>2, <2>3, LostCovered DEF G!Fault
  <2>4. CASE ~G!Fault
    <3>1. \A t \in Slot : Carries(t, g) => Carries(t, g)'
      BY <1>2, <1>7, <2>2, <2>4 DEF Carries
    <3>2. QED
      BY <1>1, <2>1, <2>4, <3>1, StillCovered
  <2>5. QED
    BY <2>3, <2>4
<1>8. QED
  BY <1>4, <1>5, <1>6, <1>7 DEF GuardInv

LEMMA IdleHandler == G!Idle \in HandlerType /\ G!Idle.at = "idle"
BY AccountsAssumption DEF G!Idle, HandlerType, AccountsAssumption

LEMMA StartInviteSafe ==
    ASSUME GuardInv, NEW s \in Slot, NEW p \in Person, G!StartInvite(s, p)
    PROVE  GuardInv'
<1> DEFINE new == [at |-> "insert", seat |-> 0, who |-> p,
                   how |-> IF p \in registered THEN "account" ELSE "number"]
<1>1. new \in HandlerType /\ new.at = "insert"
  BY GuardTyped DEF HandlerType, GuardInv
<1>2. /\ handler[s].at = "idle" /\ handler' = [handler EXCEPT ![s] = new]
      /\ UNCHANGED <<seats, registered, links, lapsed, ownerTold, failures>>
  BY DEF G!StartInvite, G!At
<1> HIDE DEF new
<1>3. \A g \in G!Written : ~Carries(s, g)
  BY <1>2 DEF Carries
<1>4. QED
  BY <1>1, <1>2, <1>3, HandlerStep, GuardTyped DEF GuardInv

LEMMA SendInviteSafe ==
    ASSUME GuardInv, NEW s \in Slot, G!SendInvite(s)
    PROVE  GuardInv'
<1>1. /\ handler[s] \in HandlerType /\ handler[s].at = "send" /\ handler[s].seat \in G!Written
      /\ G!Written \subseteq G!Seat /\ UNCHANGED <<seats, registered, lapsed, ownerTold>>
      /\ registered' \subseteq Person /\ lapsed' \subseteq G!Seat /\ ownerTold' \subseteq G!Seat
  BY GuardTyped DEF G!SendInvite, G!At, GuardInv, RowsInOrder, G!Written
<1>2. links' \subseteq G!Seat
  BY <1>1, GuardTyped DEF G!SendInvite, GuardInv
<1>3. CASE G!Goto(s, "tell") /\ UNCHANGED failures
  <2> DEFINE new == [handler[s] EXCEPT !.at = "tell"]
  <2>1. new \in HandlerType /\ new.at = "tell" /\ new.seat = handler[s].seat
    BY <1>1 DEF HandlerType
  <2>2. handler' = [handler EXCEPT ![s] = new]
    BY <1>3 DEF G!Goto
  <2> HIDE DEF new
  <2>3. QED
    BY <1>1, <1>2, <1>3, <2>1, <2>2, HandlerStep DEF Carries
<1>4. CASE G!Fault /\ G!Goto(s, "delete")
  <2> DEFINE new == [handler[s] EXCEPT !.at = "delete"]
  <2>1. new \in HandlerType /\ new.at = "delete" /\ new.seat = handler[s].seat
    BY <1>1 DEF HandlerType
  <2>2. handler' = [handler EXCEPT ![s] = new]
    BY <1>4 DEF G!Goto
  <2> HIDE DEF new
  <2>3. QED
    BY <1>1, <1>2, <1>4, <2>1, <2>2, HandlerStep
<1>5. QED
  BY <1>3, <1>4 DEF G!SendInvite

LEMMA TellOwnerSafe ==
    ASSUME GuardInv, NEW s \in Slot, G!TellOwner(s)
    PROVE  GuardInv'
<1>1. /\ handler[s].at = "tell" /\ handler[s].seat \in G!Written
      /\ G!Written \subseteq G!Seat /\ UNCHANGED <<seats, registered, links, lapsed>>
      /\ registered' \subseteq Person /\ lapsed' \subseteq G!Seat /\ links' \subseteq G!Seat
      /\ handler' = [handler EXCEPT ![s] = G!Idle] /\ ownerTold \subseteq G!Seat
  BY GuardTyped DEF G!TellOwner, G!At, G!Return, GuardInv, RowsInOrder, G!Written
<1>2. CASE ownerTold' = ownerTold \cup {handler[s].seat} /\ UNCHANGED failures
  <2>1. ownerTold \subseteq ownerTold' /\ ownerTold' \subseteq G!Seat /\ handler[s].seat \in ownerTold'
    BY <1>1, <1>2
  <2>2. \A g \in G!Written : Carries(s, g) /\ g \notin ownerTold' => G!Idle.at \in {"send", "tell"} /\ G!Idle.seat = g
    BY <2>1 DEF Carries
  <2>3. UNCHANGED seats /\ UNCHANGED failures /\ (G!Idle.at \notin {"idle", "insert"} => G!Idle.seat \in G!Written)
    BY <1>1, <1>2, IdleHandler
  <2>4. QED
    BY <1>1, <2>1, <2>2, <2>3, IdleHandler, HandlerStep
<1>3. CASE G!Fault /\ UNCHANGED ownerTold
  BY <1>1, <1>3, IdleHandler, HandlerStep
<1>4. QED
  BY <1>2, <1>3 DEF G!TellOwner, G!AfterInsert

LEMMA StartAnswerSafe ==
    ASSUME GuardInv, NEW s \in Slot, NEW g \in G!Seat, NEW answer \in {"accept", "decline"},
           G!StartAnswer(s, g, answer)
    PROVE  GuardInv'
<1> DEFINE new == [at |-> answer, seat |-> g, who |-> seats[g].who, how |-> seats[g].how]
<1>1. seats[g] \in SeatType /\ g \in 0 .. MaxSeats
  BY GuardTyped DEF GuardInv, G!Seat
<1>2. new \in HandlerType /\ new.at = answer /\ new.seat = g
  BY <1>1 DEF HandlerType, SeatType
<1>3. /\ handler[s].at = "idle" /\ handler' = [handler EXCEPT ![s] = new]
      /\ g \in G!Written
      /\ UNCHANGED <<seats, registered, links, lapsed, ownerTold, failures>>
  BY DEF G!StartAnswer, G!At, G!MayAnswer, G!Written
<1> HIDE DEF new
<1>4. \A h \in G!Written : ~Carries(s, h)
  BY <1>3 DEF Carries
<1>5. /\ registered' \subseteq Person /\ links' \subseteq G!Seat /\ lapsed' \subseteq G!Seat
      /\ ownerTold' \subseteq G!Seat /\ ownerTold \subseteq ownerTold'
  BY <1>3, GuardTyped DEF GuardInv
<1>6. UNCHANGED seats /\ UNCHANGED failures /\ new.seat \in G!Written
  BY <1>2, <1>3
<1>7. QED
  BY <1>2, <1>3, <1>4, <1>5, <1>6, HandlerStep

LEMMA GuardCrashSafe ==
    ASSUME GuardInv, NEW s \in Slot, G!Crash(s)
    PROVE  GuardInv'
<1>1. /\ handler' = [handler EXCEPT ![s] = G!Idle] /\ G!Fault
      /\ UNCHANGED <<seats, registered, links, lapsed, ownerTold>>
  BY DEF G!Crash, G!Return
<1>2. QED
  BY <1>1, IdleHandler, HandlerStep, GuardTyped DEF GuardInv

\* A row that is answered or withdrawn without starting the clock.
LEMMA RowStep ==
    ASSUME GuardInv, NEW s \in Slot, NEW g \in G!Written,
           NEW status \in {"pending", "revoked", "deleted"},
           seats' = [seats EXCEPT ![g].status = status],
           NEW new \in HandlerType, handler' = [handler EXCEPT ![s] = new],
           new.at \notin {"idle", "insert"} => new.seat \in G!Written,
           \A h \in G!Written : Carries(s, h) => new.at \in {"send", "tell"} /\ new.seat = h,
           UNCHANGED <<registered, links, lapsed, ownerTold, failures>>
    PROVE  GuardInv'
<1>1. /\ seats \in [G!Seat -> SeatType] /\ handler \in [Slot -> HandlerType] /\ failures \in Nat /\ g \in G!Seat
  BY GuardTyped DEF GuardInv, G!Written
<1>2. /\ handler' \in [Slot -> HandlerType] /\ handler'[s] = new
      /\ \A t \in Slot : t # s => handler'[t] = handler[t]
  BY <1>1
<1>3. /\ seats' \in [G!Seat -> SeatType] /\ seats'[g].status = status
      /\ \A h \in G!Seat : seats'[h].cooling = seats[h].cooling
      /\ \A h \in G!Seat : h # g => seats'[h] = seats[h]
  BY <1>1 DEF SeatType
<1>4. G!TypeOK'
  BY <1>2, <1>3 DEF GuardInv, G!TypeOK, SeatType, HandlerType
<1>5. UNCHANGED G!Written /\ G!Written \subseteq G!Seat
  BY <1>1, <1>3 DEF G!Written
<1>6. RowsInOrder'
  BY <1>2, <1>3, <1>5 DEF GuardInv, RowsInOrder
<1>7. ASSUME NEW h \in G!Written, h \notin ownerTold' PROVE Covered(h)'
  <2>1. Covered(h) /\ h \in G!Seat
    BY <1>5, <1>7 DEF GuardInv
  <2>2. \A t \in Slot : Carries(t, h) => Carries(t, h)'
    BY <1>2 DEF Carries
  <2>3. QED
    BY <1>1, <1>3, <2>1, <2>2, StillCovered
<1>8. QED
  BY <1>4, <1>5, <1>6, <1>7 DEF GuardInv

LEMMA DeleteSeatSafe ==
    ASSUME GuardInv, NEW s \in Slot, G!DeleteSeat(s)
    PROVE  GuardInv'
<1>1. /\ handler[s].at = "delete" /\ handler[s].seat \in G!Written
      /\ handler' = [handler EXCEPT ![s] = G!Idle]
      /\ UNCHANGED <<registered, links, lapsed, ownerTold>> /\ \A h \in G!Written : ~Carries(s, h)
  BY DEF G!DeleteSeat, G!At, G!Return, GuardInv, RowsInOrder, Carries
<1>2. CASE seats' = [seats EXCEPT ![handler[s].seat].status = "deleted"] /\ UNCHANGED failures
  BY <1>1, <1>2, IdleHandler, RowStep
<1>3. CASE G!Fault /\ UNCHANGED seats
  BY <1>1, <1>3, IdleHandler, HandlerStep, GuardTyped DEF GuardInv
<1>4. QED
  BY <1>2, <1>3 DEF G!DeleteSeat

LEMMA DeclineSafe ==
    ASSUME GuardInv, NEW s \in Slot, G!Decline(s)
    PROVE  GuardInv'
<1> DEFINE g == handler[s].seat
           new == IF seats[g].how = "number" THEN [handler[s] EXCEPT !.at = "tell"] ELSE G!Idle
<1>1. /\ handler[s] \in HandlerType /\ handler[s].at = "decline" /\ g \in G!Written
      /\ UNCHANGED <<registered, links, lapsed, ownerTold, failures>>
  BY GuardTyped DEF G!Decline, G!At, GuardInv, RowsInOrder
<1>2. /\ new \in HandlerType /\ new.at \in {"tell", "idle"} /\ (new.at # "idle" => new.seat \in G!Written)
  BY <1>1, IdleHandler DEF HandlerType
<1>3. handler' = [handler EXCEPT ![s] = new]
  BY DEF G!Decline, G!Goto, G!Return
<1>4. \A h \in G!Written : ~Carries(s, h)
  BY <1>1 DEF Carries
<1>5. seats' = [seats EXCEPT ![g].status = IF G!StillInvited(g) THEN "revoked" ELSE @]
  BY DEF G!Decline
<1> HIDE DEF new
<1>6. CASE G!StillInvited(g)
  BY <1>1, <1>2, <1>3, <1>4, <1>5, <1>6, RowStep
<1>7. CASE ~G!StillInvited(g)
  <2>1. UNCHANGED seats
    BY <1>1, <1>5, <1>7, GuardTyped DEF GuardInv, G!Written, SeatType
  <2>2. QED
    BY <1>1, <1>2, <1>3, <1>4, <2>1, HandlerStep, GuardTyped DEF GuardInv
<1>8. QED
  BY <1>6, <1>7

LEMMA RevokeSafe ==
    ASSUME GuardInv, NEW g \in G!Seat, G!RevokeGuardian(g)
    PROVE  GuardInv'
<1>1. /\ g \in G!Written /\ seats' = [seats EXCEPT ![g].status = "revoked"]
      /\ UNCHANGED <<registered, links, lapsed, ownerTold, handler, failures>>
  BY DEF G!RevokeGuardian, G!Held, G!Written
<1>2. PICK s \in Slot : TRUE
  BY SignAssumption DEF SignAssumption
<1>3. /\ handler[s] \in HandlerType /\ handler' = [handler EXCEPT ![s] = handler[s]]
      /\ (handler[s].at \notin {"idle", "insert"} => handler[s].seat \in G!Written)
  BY <1>1, GuardTyped DEF GuardInv, RowsInOrder
<1>4. QED
  BY <1>1, <1>3, RowStep DEF Carries

\* A new row: the invocation that wrote it is on its way to tell.
LEMMA InsertSeatSafe ==
    ASSUME GuardInv, NEW s \in Slot, G!InsertSeat(s)
    PROVE  GuardInv'
<1> DEFINE g == Cardinality(G!Written) + 1
           row == [how |-> handler[s].how, who |-> handler[s].who, status |-> "invited", cooling |-> "none"]
           new == [handler[s] EXCEPT !.seat = g, !.at = IF handler[s].how = "number" THEN "send" ELSE "tell"]
<1>1. /\ handler[s] \in HandlerType /\ handler[s].at = "insert"
      /\ seats \in [G!Seat -> SeatType] /\ handler \in [Slot -> HandlerType] /\ failures \in Nat /\ MaxSeats \in Nat
      /\ UNCHANGED <<registered, links, lapsed, ownerTold, failures>>
  BY GuardTyped DEF G!InsertSeat, G!At, GuardInv
<1>2. CASE ~G!Accepts(handler[s].who, handler[s].how)
  <2>1. handler' = [handler EXCEPT ![s] = G!Idle] /\ UNCHANGED seats
    BY <1>2 DEF G!InsertSeat, G!Return
  <2>2. \A h \in G!Written : ~Carries(s, h)
    BY <1>1 DEF Carries
  <2>3. QED
    BY <1>1, <2>1, <2>2, IdleHandler, HandlerStep, GuardTyped DEF GuardInv
<1>3. CASE G!Accepts(handler[s].who, handler[s].how)
  <2>1. /\ g \in G!Seat /\ seats' = [seats EXCEPT ![g] = row]
    BY <1>3, SameCount DEF G!InsertSeat
  <2>2. handler' = [handler EXCEPT ![s] = new]
    BY <1>1, <1>3, SameCount DEF G!InsertSeat
  <2>3. g \in 0 .. MaxSeats
    BY <1>1, <2>1 DEF G!Seat
  <2>4. row \in SeatType /\ row.status = "invited" /\ row.cooling = "none"
    BY <1>1 DEF HandlerType, SeatType
  <2>5. PICK k \in 0 .. MaxSeats : G!Written = 1 .. k
    BY DEF GuardInv, RowsInOrder
  <2>6. k \in Nat /\ g = k + 1
    <3>1. k \in Nat
      BY <1>1, <2>5
    <3>2. Cardinality(1 .. k) = k
      BY <3>1, FS_Interval
    <3>3. QED
      BY <2>5, <3>1, <3>2
  <2> HIDE DEF g, row
  <2>7. new \in HandlerType /\ new.at \in {"send", "tell"} /\ new.seat = g
    BY <1>1, <2>3 DEF HandlerType
  <2> HIDE DEF new
  <2>8. /\ handler' \in [Slot -> HandlerType] /\ handler'[s] = new
        /\ \A t \in Slot : t # s => handler'[t] = handler[t]
    BY <1>1, <2>2, <2>7
  <2>9. /\ seats' \in [G!Seat -> SeatType] /\ seats'[g] = row
        /\ \A h \in G!Seat : h # g => seats'[h] = seats[h]
    BY <1>1, <2>1, <2>4
  <2>10. G!TypeOK'
    BY <1>1, <2>8, <2>9 DEF GuardInv, G!TypeOK, SeatType, HandlerType
  <2>11. G!Written' = G!Written \cup {g} /\ G!Written \subseteq G!Seat
    BY <2>1, <2>4, <2>9 DEF G!Written
  <2>12. RowsInOrder'
    <3>1. G!Written' = 1 .. k + 1 /\ k + 1 \in 0 .. MaxSeats
      BY <2>3, <2>5, <2>6, <2>11
    <3>2. \A t \in Slot : handler'[t].at \notin {"idle", "insert"} => handler'[t].seat \in G!Written'
      BY <2>7, <2>8, <2>11 DEF GuardInv, RowsInOrder
    <3>3. \A h \in G!Seat : seats'[h].status \in {"none", "invited"} => seats'[h].cooling = "none"
      BY <2>4, <2>9 DEF GuardInv, RowsInOrder
    <3>4. QED
      BY <3>1, <3>2, <3>3 DEF RowsInOrder
  <2>13. ASSUME NEW h \in G!Written', h \notin ownerTold' PROVE Covered(h)'
    <3>1. CASE h = g
      <4>1. Carries(s, h)' /\ seats'[h].cooling = "none"
        BY <2>4, <2>7, <2>8, <2>9, <3>1 DEF Carries
      <4>2. QED
        BY <4>1 DEF Covered
    <3>2. CASE h # g
      <4>1. Covered(h) /\ h \in G!Seat
        BY <1>1, <2>11, <2>13, <3>2 DEF GuardInv
      <4>2. \A t \in Slot : Carries(t, h) => Carries(t, h)'
        BY <1>1, <2>8 DEF Carries
      <4>3. QED
        BY <1>1, <2>9, <3>2, <4>1, <4>2, StillCovered
    <3>3. QED
      BY <3>1, <3>2
  <2>14. QED
    BY <2>10, <2>12, <2>13 DEF GuardInv
<1>4. QED
  BY <1>2, <1>3

\* The clock starts: the answer's invocation carries the row next to the invitation's.
LEMMA AcceptSafe ==
    ASSUME GuardInv, NEW s \in Slot, G!Accept(s)
    PROVE  GuardInv'
<1> DEFINE g == handler[s].seat
           new == [handler[s] EXCEPT !.at = "tell"]
<1>1. /\ handler[s] \in HandlerType /\ handler[s].at = "accept" /\ g \in G!Written /\ g \in G!Seat
      /\ seats \in [G!Seat -> SeatType] /\ handler \in [Slot -> HandlerType] /\ failures \in Nat
      /\ UNCHANGED <<registered, links, lapsed, ownerTold, failures>>
  BY GuardTyped DEF G!Accept, G!At, GuardInv, RowsInOrder, G!Written
<1>2. CASE ~G!StillInvited(g)
  <2>1. handler' = [handler EXCEPT ![s] = G!Idle] /\ UNCHANGED seats
    BY <1>2 DEF G!Accept, G!Return
  <2>2. \A h \in G!Written : ~Carries(s, h)
    BY <1>1 DEF Carries
  <2>3. QED
    BY <1>1, <2>1, <2>2, IdleHandler, HandlerStep, GuardTyped DEF GuardInv
<1>3. CASE G!StillInvited(g)
  <2>1. /\ seats' = [seats EXCEPT ![g].status = "pending", ![g].cooling = "running"]
        /\ handler' = [handler EXCEPT ![s] = new]
    BY <1>3 DEF G!Accept, G!Goto
  <2>2. new \in HandlerType /\ new.at = "tell" /\ new.seat = g
    BY <1>1 DEF HandlerType
  <2> HIDE DEF new
  <2>3. /\ handler' \in [Slot -> HandlerType] /\ handler'[s] = new
        /\ \A t \in Slot : t # s => handler'[t] = handler[t]
    BY <1>1, <2>1, <2>2
  <2>4. /\ seats' \in [G!Seat -> SeatType] /\ seats'[g].status = "pending" /\ seats'[g].cooling = "running"
        /\ \A h \in G!Seat : h # g => seats'[h] = seats[h]
    BY <1>1, <2>1 DEF SeatType
  <2>5. G!TypeOK'
    BY <1>1, <2>3, <2>4 DEF GuardInv, G!TypeOK, SeatType, HandlerType
  <2>6. UNCHANGED G!Written /\ G!Written \subseteq G!Seat
    BY <1>1, <2>4 DEF G!Written
  <2>7. RowsInOrder'
    BY <1>1, <2>2, <2>3, <2>4, <2>6 DEF GuardInv, RowsInOrder
  <2>8. \A t \in Slot : \A h \in G!Written : Carries(t, h) => t # s /\ Carries(t, h)'
    BY <1>1, <2>3 DEF Carries
  <2>9. ASSUME NEW h \in G!Written, h \notin ownerTold' PROVE Covered(h)'
    <3>1. Covered(h) /\ h \in G!Seat
      BY <1>1, <2>6, <2>9 DEF GuardInv
    <3>2. CASE h = g
      <4>1. Carries(s, h)' /\ seats'[h].cooling = "running"
        BY <2>2, <2>3, <2>4, <3>2 DEF Carries
      <4>2. failures >= 1 \/ \E t \in Slot : Carries(t, h)
        BY <1>1, <1>3, <3>1, <3>2 DEF Covered, GuardInv, RowsInOrder, G!StillInvited
      <4>3. QED
        BY <1>1, <2>8, <4>1, <4>2 DEF Covered
    <3>3. CASE h # g
      BY <1>1, <2>4, <2>8, <3>1, <3>3, StillCovered
    <3>4. QED
      BY <3>2, <3>3
  <2>10. QED
    BY <2>5, <2>6, <2>7, <2>9 DEF GuardInv
<1>4. QED
  BY <1>2, <1>3

\* The day is over: no invocation carries the row any more.
LEMMA CoolingEndsSafe ==
    ASSUME GuardInv, NEW g \in G!Seat, G!CoolingEnds(g)
    PROVE  GuardInv'
<1>1. /\ seats[g].cooling = "running" /\ \A s \in Slot : ~Carries(s, g)
      /\ seats' = [seats EXCEPT ![g].cooling = "over"]
      /\ UNCHANGED <<registered, links, lapsed, ownerTold, handler, failures>>
      /\ seats \in [G!Seat -> SeatType] /\ failures \in Nat
  BY GuardTyped DEF G!CoolingEnds, Carries, GuardInv
<1>2. /\ seats' \in [G!Seat -> SeatType] /\ seats'[g].cooling = "over"
      /\ \A h \in G!Seat : seats'[h].status = seats[h].status
      /\ \A h \in G!Seat : h # g => seats'[h] = seats[h]
  BY <1>1 DEF SeatType
<1>3. G!TypeOK'
  BY <1>1, <1>2 DEF GuardInv, G!TypeOK, SeatType
<1>4. UNCHANGED G!Written /\ G!Written \subseteq G!Seat
  BY <1>2 DEF G!Written
<1>5. seats[g].status \notin {"none", "invited"}
  BY <1>1 DEF GuardInv, RowsInOrder
<1>6. RowsInOrder'
  BY <1>1, <1>2, <1>4, <1>5 DEF GuardInv, RowsInOrder
<1>7. ASSUME NEW h \in G!Written, h \notin ownerTold' PROVE Covered(h)'
  <2>1. Covered(h) /\ h \in G!Seat
    BY <1>1, <1>4, <1>7 DEF GuardInv
  <2>2. CASE h = g
    BY <1>1, <1>2, <2>1, <2>2 DEF Covered
  <2>3. CASE h # g
    <3>1. \A t \in Slot : Carries(t, h) => Carries(t, h)'
      BY <1>1 DEF Carries
    <3>2. QED
      BY <1>1, <1>2, <2>1, <2>3, <3>1, StillCovered
  <2>4. QED
    BY <2>2, <2>3
<1>8. QED
  BY <1>3, <1>4, <1>6, <1>7 DEF GuardInv

LEMMA GuardQuiet ==
    ASSUME GuardInv, UNCHANGED <<seats, ownerTold, handler, failures>>,
           registered' \subseteq Person, links' \subseteq G!Seat, lapsed' \subseteq G!Seat
    PROVE  GuardInv'
BY DEF GuardInv, G!TypeOK, RowsInOrder, G!Written, Covered, Carries

LEMMA GuardInit == G!Init => GuardInv
<1> SUFFICES ASSUME G!Init PROVE GuardInv
  OBVIOUS
<1>1. MaxSeats \in Nat /\ MaxFaults \in Nat
  BY AccountsAssumption, SignAssumption DEF AccountsAssumption, SignAssumption
<1>2. /\ \A g \in G!Seat : seats[g].status = "none" /\ seats[g].cooling = "none"
      /\ \A s \in Slot : handler[s] = G!Idle
      /\ seats \in [G!Seat -> SeatType] /\ handler \in [Slot -> HandlerType]
  BY IdleHandler DEF G!Init, G!NoSeat, SeatType
<1>3. G!TypeOK
  <2>1. failures \in 0 .. MaxFaults
    BY <1>1 DEF G!Init
  <2>2. QED
    BY <1>2, <2>1 DEF G!Init, G!TypeOK, SeatType, HandlerType
<1>4. G!Written = {} /\ G!Written = 1 .. 0
  BY <1>2 DEF G!Written
<1>5. RowsInOrder
  BY <1>1, <1>2, <1>4, IdleHandler DEF RowsInOrder
<1>6. QED
  BY <1>3, <1>4, <1>5 DEF GuardInv

LEMMA GuardNext == GuardInv /\ [G!Next]_(G!vars) => GuardInv'
<1>1. ASSUME GuardInv, G!Next PROVE GuardInv'
  <2>1. ASSUME NEW g \in G!Seat, G!InviteLapses(g) PROVE GuardInv'
    BY <1>1, <2>1, GuardQuiet, GuardTyped DEF G!InviteLapses, GuardInv
  <2>2. ASSUME NEW p \in Person, G!Register(p) PROVE GuardInv'
    BY <1>1, <2>2, GuardQuiet, GuardTyped DEF G!Register, GuardInv
  <2>3. QED
    BY <1>1, <2>1, <2>2, StartInviteSafe, InsertSeatSafe, SendInviteSafe, DeleteSeatSafe, TellOwnerSafe,
       StartAnswerSafe, AcceptSafe, DeclineSafe, GuardCrashSafe, RevokeSafe, CoolingEndsSafe DEF G!Next
<1>2. ASSUME GuardInv, UNCHANGED G!vars PROVE GuardInv'
  BY <1>2, GuardQuiet, GuardTyped DEF G!vars, GuardInv
<1>3. QED
  BY <1>1, <1>2

LEMMA GuardSteps == [AccountsNext]_allVars => [G!Next]_(G!vars)
BY DEF AccountsNext, allVars, GVars, G!vars

LEMMA GuardSafe == AccountsSpec => []GuardInv
<1>1. AccountsInit => GuardInv
  BY GuardInit DEF AccountsInit
<1>2. QED
  BY <1>1, GuardSteps, GuardNext, PTL DEF AccountsSpec

\* No guardian can come to count unless the owner was told of it, or the notice was lost twice,
\* at the invitation and at the answer: of any number of people, invocations and faults.
THEOREM OwnerHears == AccountsSpec => []OwnerIsTold
<1>1. ASSUME GuardInv PROVE OwnerIsTold
  <2>1. ASSUME failures < 2, NEW g \in G!Seat, G!isGuardianEligible(g) PROVE g \in ownerTold
    <3>1. seats[g].cooling = "over" /\ failures \in Nat
      BY <1>1, <2>1, GuardTyped DEF G!isGuardianEligible, GuardInv
    <3>2. g \in G!Written
      BY <1>1, <3>1 DEF GuardInv, RowsInOrder, G!Written
    <3>3. QED
      BY <1>1, <2>1, <3>1, <3>2 DEF GuardInv, Covered
  <2>2. G!OwnerIsTold
    BY <2>1 DEF G!OwnerIsTold
  <2>3. QED
    BY <1>1, <2>2 DEF OwnerIsTold, GuardInv
<1>2. QED
  BY <1>1, GuardSafe, PTL

\* What a step may do to the rows.
AnswersKept ==
    \A g \in G!Seat :
        /\ seats[g].status \in {"revoked", "deleted"} => seats'[g].status \in {"revoked", "deleted"}
        /\ seats[g].cooling # "none" => seats'[g].cooling \in {seats[g].cooling, "over"}
        /\ seats[g].cooling = "none" /\ seats'[g].cooling # "none" => seats[g].status = "invited"

LEMMA InsertKeepsAnswers ==
    ASSUME GuardInv, NEW s \in Slot, G!InsertSeat(s)
    PROVE  AnswersKept
<1> DEFINE g == Cardinality(G!Written) + 1
           row == [how |-> handler[s].how, who |-> handler[s].who, status |-> "invited", cooling |-> "none"]
<1>1. CASE UNCHANGED seats
  BY <1>1 DEF AnswersKept
<1>2. CASE g \in G!Seat /\ seats' = [seats EXCEPT ![g] = row]
  <2>1. seats \in [G!Seat -> SeatType] /\ MaxSeats \in Nat
    BY GuardTyped DEF GuardInv
  <2>2. PICK k \in 0 .. MaxSeats : G!Written = 1 .. k
    BY DEF GuardInv, RowsInOrder
  <2>3. k \in Nat
    BY <2>1, <2>2
  <2>4. Cardinality(1 .. k) = k
    BY <2>3, FS_Interval
  <2>5. g \notin G!Written
    BY <2>2, <2>3, <2>4
  <2>6. seats[g].status = "none" /\ seats[g].cooling = "none" /\ row.cooling = "none"
    BY <1>2, <2>5 DEF GuardInv, RowsInOrder, G!Written
  <2>7. seats'[g] = row /\ \A h \in G!Seat : h # g => seats'[h] = seats[h]
    BY <1>2, <2>1
  <2> HIDE DEF g, row
  <2>8. QED
    BY <2>6, <2>7 DEF AnswersKept
<1>3. QED
  BY <1>1, <1>2, SameCount DEF G!InsertSeat

LEMMA StepsKeepAnswers == GuardInv /\ [G!Next]_(G!vars) => AnswersKept
<1> SUFFICES ASSUME GuardInv, [G!Next]_(G!vars) PROVE AnswersKept
  OBVIOUS
<1>1. seats \in [G!Seat -> SeatType]
  BY GuardTyped DEF GuardInv
<1>2. CASE UNCHANGED seats
  BY <1>2 DEF AnswersKept
<1>3. ASSUME NEW s \in Slot, G!DeleteSeat(s) PROVE AnswersKept
  BY <1>1, <1>2, <1>3 DEF G!DeleteSeat, AnswersKept, SeatType
<1>4. ASSUME NEW s \in Slot, G!Accept(s) PROVE AnswersKept
  <2>1. handler[s].seat \in G!Seat
    BY <1>4 DEF GuardInv, RowsInOrder, G!Accept, G!At, G!Written
  <2>2. CASE G!StillInvited(handler[s].seat)
    <3>1. seats' = [seats EXCEPT ![handler[s].seat].status = "pending", ![handler[s].seat].cooling = "running"]
      BY <1>4, <2>2 DEF G!Accept
    <3>2. seats[handler[s].seat].status = "invited" /\ seats[handler[s].seat].cooling = "none"
      BY <2>1, <2>2 DEF GuardInv, RowsInOrder, G!StillInvited
    <3>3. \A h \in G!Seat : h # handler[s].seat => seats'[h] = seats[h]
      BY <1>1, <3>1
    <3>4. QED
      BY <3>2, <3>3 DEF AnswersKept
  <2>3. QED
    BY <1>2, <1>4, <2>2 DEF G!Accept
<1>5. ASSUME NEW s \in Slot, G!Decline(s) PROVE AnswersKept
  <2>1. handler[s].seat \in G!Seat
    BY <1>5 DEF GuardInv, RowsInOrder, G!Decline, G!At, G!Written
  <2>2. PICK status \in {seats[handler[s].seat].status, "revoked"} :
          seats' = [seats EXCEPT ![handler[s].seat].status = status]
    BY <1>5 DEF G!Decline
  <2>3. QED
    BY <1>1, <2>1, <2>2 DEF AnswersKept, SeatType
<1>6. ASSUME NEW g \in G!Seat, G!RevokeGuardian(g) PROVE AnswersKept
  BY <1>1, <1>6 DEF G!RevokeGuardian, AnswersKept, SeatType
<1>7. ASSUME NEW g \in G!Seat, G!CoolingEnds(g) PROVE AnswersKept
  <2>1. seats' = [seats EXCEPT ![g].cooling = "over"] /\ seats[g].cooling = "running"
    BY <1>7 DEF G!CoolingEnds
  <2>2. QED
    BY <1>1, <2>1 DEF AnswersKept, SeatType
<1>8. ASSUME NEW s \in Slot,
             \/ \E p \in Person : G!StartInvite(s, p)
             \/ \E g \in G!Seat, answer \in {"accept", "decline"} : G!StartAnswer(s, g, answer)
             \/ G!SendInvite(s) \/ G!TellOwner(s) \/ G!Crash(s)
      PROVE  AnswersKept
  BY <1>2, <1>8 DEF G!StartInvite, G!StartAnswer, G!SendInvite, G!TellOwner, G!Crash
<1>9. ASSUME \/ \E g \in G!Seat : G!InviteLapses(g)
             \/ \E p \in Person : G!Register(p)
      PROVE  AnswersKept
  BY <1>2, <1>9 DEF G!InviteLapses, G!Register
<1>10. QED
  BY <1>2, <1>3, <1>4, <1>5, <1>6, <1>7, <1>8, <1>9, InsertKeepsAnswers DEF G!Next, G!vars

LEMMA AnswersStayFinal == AccountsSpec => G!AnswersAreFinal
<1>1. GuardInv /\ [AccountsNext]_allVars => [AnswersKept]_(G!vars)
  BY StepsKeepAnswers, GuardSteps
<1>2. QED
  BY <1>1, GuardSafe, PTL DEF AccountsSpec, G!AnswersAreFinal, AnswersKept

-----------------------------------------------------------------------------
(* The backup address. *)

ChangeType == [address : Address \cup {B!NoAddress}, state : {"none", "open", "applied", "cancelled"}]
WorkType == [at : {"idle", "taken", "cancel", "insert", "mail", "apply", "close", "drop"},
             address : Address \cup {B!NoAddress}, change : 0 .. MaxChanges]

ChangesInOrder ==
    /\ \E k \in 0 .. MaxChanges : B!Rows = 1 .. k
    /\ \A s \in Slot : work[s].at \in {"mail", "apply", "close"} => work[s].change \in B!Rows

\* One invocation at a time, and no write that fails: an open change is the last one, none is
\* open when another comes in, and what is about to be applied is what its link was mailed for.
LastIsOpen ==
    B!Calm =>
        /\ \A s, t \in Slot : ~B!At(s, "idle") /\ ~B!At(t, "idle") => s = t
        /\ \A c \in B!Open : \A d \in B!Rows : d <= c
        /\ \A s \in Slot : B!At(s, "insert") => B!Open = {}
        /\ \A s \in Slot : B!At(s, "apply") => /\ work[s].change \in mailed \cap B!Open
                                               /\ changes[work[s].change].address = work[s].address

EmailInv == B!TypeOK /\ ChangesInOrder /\ LastIsOpen

LEMMA SameCountOfChanges == \A S : B!Cardinality(S) = Cardinality(S)
BY DEF B!Cardinality, Cardinality

LEMMA EmailTyped ==
    ASSUME B!TypeOK
    PROVE  /\ email \in Address \cup {B!NoAddress} /\ changes \in [B!Change -> ChangeType]
           /\ taken \subseteq Address /\ mailed \subseteq B!Change /\ stale \subseteq B!Change
           /\ work \in [Slot -> WorkType] /\ raced \in BOOLEAN
           /\ failed \in 0 .. MaxFaults /\ failed \in Nat /\ MaxFaults \in Nat /\ MaxChanges \in Nat
BY AccountsAssumption, SignAssumption DEF B!TypeOK, ChangeType, WorkType, AccountsAssumption, SignAssumption

LEMMA IdleWork == B!Idle \in WorkType /\ B!Idle.at = "idle"
BY AccountsAssumption DEF B!Idle, WorkType, AccountsAssumption

\* A step of one invocation that opens no change.
LEMMA WorkStep ==
    ASSUME EmailInv, NEW s \in Slot,
           email' \in Address \cup {B!NoAddress}, taken' = taken, mailed \subseteq mailed', mailed' \subseteq B!Change,
           stale' = stale, raced' \in BOOLEAN, raced => raced', failed' = failed \/ B!Fault,
           changes' \in [B!Change -> ChangeType],
           \A c \in B!Change : /\ changes'[c].address = changes[c].address
                               /\ changes[c].state = "none" <=> changes'[c].state = "none"
                               /\ changes'[c].state = "open" => changes[c].state = "open",
           NEW new \in WorkType, work' = [work EXCEPT ![s] = new],
           new.at \in {"mail", "apply", "close"} => new.change \in B!Rows,
           ~B!At(s, "idle") \/ raced' \/ \A t \in Slot : B!At(t, "idle"),
           B!Calm' =>
               /\ new.at = "insert" => \A c \in B!Change : changes'[c].state # "open"
               /\ new.at = "apply" => /\ new.change \in mailed \cap B!Open /\ UNCHANGED changes
                                      /\ changes[new.change].address = new.address
    PROVE  EmailInv'
<1>1. /\ changes \in [B!Change -> ChangeType] /\ work \in [Slot -> WorkType] /\ failed \in 0 .. MaxFaults
      /\ failed \in Nat /\ MaxFaults \in Nat
  BY EmailTyped DEF EmailInv
<1>2. /\ work' \in [Slot -> WorkType] /\ work'[s] = new
      /\ \A t \in Slot : t # s => work'[t] = work[t]
  BY <1>1
<1>3. failed' \in 0 .. MaxFaults /\ (failed' = 0 => failed = 0)
  BY <1>1 DEF B!Fault
<1>4. B!TypeOK'
  BY <1>2, <1>3 DEF EmailInv, B!TypeOK, ChangeType, WorkType
<1>5. UNCHANGED B!Rows /\ B!Open' \subseteq B!Open
  BY DEF B!Rows, B!Open
<1>6. ChangesInOrder'
  BY <1>2, <1>5 DEF EmailInv, ChangesInOrder
<1>7. B!Calm' => B!Calm
  BY <1>3 DEF B!Calm
<1>8. ASSUME B!Calm' PROVE \A t \in Slot : t # s => work'[t].at = "idle"
  <2>1. ASSUME NEW t \in Slot, t # s, work[t].at # "idle" PROVE FALSE
    BY <1>7, <1>8, <2>1 DEF EmailInv, LastIsOpen, B!At, B!Calm
  <2>2. QED
    BY <1>2, <2>1
<1>9. ASSUME B!Calm' PROVE \A c \in B!Open' : \A d \in B!Rows' : d <= c
  BY <1>5, <1>7, <1>9 DEF EmailInv, LastIsOpen
<1>10. ASSUME B!Calm', NEW t \in Slot, work'[t].at = "insert" PROVE B!Open' = {}
  BY <1>2, <1>8, <1>10 DEF B!Open
<1>11. ASSUME B!Calm', NEW t \in Slot, work'[t].at = "apply"
       PROVE  work'[t].change \in mailed' \cap B!Open' /\ changes'[work'[t].change].address = work'[t].address
  BY <1>2, <1>8, <1>11 DEF B!Open
<1>12. LastIsOpen'
  BY <1>8, <1>9, <1>10, <1>11 DEF LastIsOpen, B!At
<1>13. QED
  BY <1>4, <1>6, <1>12 DEF EmailInv

\* What a first step knows of the others.
LEMMA BeginFacts ==
    ASSUME EmailInv, NEW s \in Slot, NEW at \in {"taken", "apply", "drop"},
           NEW address \in Address \cup {B!NoAddress}, NEW c \in 0 .. MaxChanges, B!Begin(s, at, address, c)
    PROVE  \E new \in WorkType : /\ new.at = at /\ new.address = address /\ new.change = c
                                 /\ work' = [work EXCEPT ![s] = new]
                                 /\ raced' \in BOOLEAN /\ (raced => raced')
                                 /\ raced' \/ \A t \in Slot : B!At(t, "idle")
<1> DEFINE new == [at |-> at, address |-> address, change |-> c]
<1>1. new \in WorkType /\ new.at = at /\ new.address = address /\ new.change = c
  BY DEF WorkType
<1>2. work' = [work EXCEPT ![s] = new] /\ raced' = (raced \/ \E t \in Slot : ~B!At(t, "idle"))
  BY DEF B!Begin
<1> HIDE DEF new
<1>3. QED
  BY <1>1, <1>2, EmailTyped DEF EmailInv

LEMMA GotoWork ==
    ASSUME EmailInv, NEW s \in Slot, NEW at \in {"cancel", "insert", "close"}, B!Goto(s, at)
    PROVE  \E new \in WorkType : /\ new.at = at /\ new.change = work[s].change /\ new.address = work[s].address
                                 /\ work' = [work EXCEPT ![s] = new]
<1> DEFINE new == [work[s] EXCEPT !.at = at]
<1>1. work[s] \in WorkType
  BY EmailTyped DEF EmailInv
<1>2. new \in WorkType /\ new.at = at /\ new.change = work[s].change /\ new.address = work[s].address
  BY <1>1 DEF WorkType
<1>3. work' = [work EXCEPT ![s] = new]
  BY DEF B!Goto
<1> HIDE DEF new
<1>4. QED
  BY <1>2, <1>3

\* Cancelling closes every change that is open and touches no other.
LEMMA CancelledTyped ==
    ASSUME EmailInv, changes' = B!Cancelled
    PROVE  /\ changes' \in [B!Change -> ChangeType]
           /\ \A c \in B!Change : /\ changes'[c].address = changes[c].address
                                  /\ changes[c].state = "none" <=> changes'[c].state = "none"
                                  /\ changes'[c].state # "open"
<1>1. changes \in [B!Change -> ChangeType]
  BY EmailTyped DEF EmailInv
<1>2. ASSUME NEW c \in B!Change
      PROVE  /\ changes'[c] \in ChangeType /\ changes'[c].address = changes[c].address
             /\ (changes[c].state = "none" <=> changes'[c].state = "none") /\ changes'[c].state # "open"
  <2>1. changes[c] \in ChangeType /\ changes'[c] = IF c \in B!Open THEN [changes[c] EXCEPT !.state = "cancelled"]
                                                  ELSE changes[c]
    BY <1>1 DEF B!Cancelled
  <2>2. CASE c \in B!Open
    BY <2>1, <2>2 DEF B!Open, ChangeType
  <2>3. CASE c \notin B!Open
    BY <2>1, <2>3 DEF B!Open
  <2>4. QED
    BY <2>2, <2>3
<1>3. QED
  BY <1>2 DEF B!Cancelled

LEMMA StartAddSafe ==
    ASSUME EmailInv, NEW s \in Slot, NEW address \in Address, B!StartAdd(s, address)
    PROVE  EmailInv'
<1>1. UNCHANGED <<email, changes, taken, mailed, stale, failed>> /\ B!Begin(s, "taken", address, 0)
  BY DEF B!StartAdd
<1>2. 0 \in 0 .. MaxChanges
  BY EmailTyped DEF EmailInv
<1>3. PICK new \in WorkType : /\ new.at = "taken" /\ work' = [work EXCEPT ![s] = new]
                              /\ raced' \in BOOLEAN /\ (raced => raced')
                              /\ raced' \/ \A t \in Slot : B!At(t, "idle")
  BY <1>1, <1>2, BeginFacts
<1>4. QED
  BY <1>1, <1>3, EmailTyped, WorkStep DEF EmailInv

LEMMA CheckTakenSafe ==
    ASSUME EmailInv, NEW s \in Slot, B!CheckTaken(s)
    PROVE  EmailInv'
<1>1. UNCHANGED <<email, changes, taken, mailed, stale, raced, failed>> /\ ~B!At(s, "idle")
  BY DEF B!CheckTaken, B!At
<1>2. PICK new \in WorkType : new.at \in {"idle", "cancel"} /\ work' = [work EXCEPT ![s] = new]
  BY GotoWork, IdleWork DEF B!CheckTaken, B!Return
<1>3. QED
  BY <1>1, <1>2, EmailTyped, WorkStep DEF EmailInv

LEMMA CancelEarlierSafe ==
    ASSUME EmailInv, NEW s \in Slot, B!CancelEarlier(s)
    PROVE  EmailInv'
<1>1. UNCHANGED <<email, taken, mailed, stale, raced>> /\ ~B!At(s, "idle")
  BY DEF B!CancelEarlier, B!At
<1>2. PICK new \in WorkType : new.at = "insert" /\ work' = [work EXCEPT ![s] = new]
  BY GotoWork DEF B!CancelEarlier
<1>3. CASE changes' = B!Cancelled /\ UNCHANGED failed
  BY <1>1, <1>2, <1>3, CancelledTyped, EmailTyped, WorkStep DEF EmailInv
<1>4. CASE B!Fault /\ UNCHANGED changes
  <2>1. ~B!Calm'
    BY <1>4, EmailTyped DEF B!Calm, B!Fault, EmailInv
  <2>2. QED
    BY <1>1, <1>2, <1>4, <2>1, EmailTyped, WorkStep DEF EmailInv
<1>5. QED
  BY <1>3, <1>4 DEF B!CancelEarlier

LEMMA MailLinkSafe ==
    ASSUME EmailInv, NEW s \in Slot, B!MailLink(s)
    PROVE  EmailInv'
<1>1. /\ UNCHANGED <<email, changes, taken, stale, raced>> /\ ~B!At(s, "idle")
      /\ work' = [work EXCEPT ![s] = B!Idle] /\ work[s].change \in B!Rows
      /\ mailed' \in {mailed, mailed \cup {work[s].change}} /\ (failed' = failed \/ B!Fault)
  BY DEF B!MailLink, B!At, B!Return, EmailInv, ChangesInOrder
<1>2. mailed \subseteq mailed' /\ mailed' \subseteq B!Change
  BY <1>1, EmailTyped DEF EmailInv, B!Rows
<1>3. QED
  BY <1>1, <1>2, IdleWork, EmailTyped, WorkStep DEF EmailInv

LEMMA StartConfirmSafe ==
    ASSUME EmailInv, NEW s \in Slot, NEW c \in B!Change, B!StartConfirm(s, c)
    PROVE  EmailInv'
<1>1. /\ UNCHANGED <<email, changes, taken, mailed, stale, failed>> /\ B!Begin(s, "apply", changes[c].address, c)
      /\ c \in mailed \cap B!Open /\ c \in B!Rows
  BY DEF B!StartConfirm, B!Usable, B!Open, B!Rows
<1>2. c \in 0 .. MaxChanges /\ changes[c].address \in Address \cup {B!NoAddress}
  BY EmailTyped DEF EmailInv, B!Change, ChangeType
<1>3. PICK new \in WorkType : /\ new.at = "apply" /\ new.address = changes[c].address /\ new.change = c
                              /\ work' = [work EXCEPT ![s] = new]
                              /\ raced' \in BOOLEAN /\ (raced => raced')
                              /\ raced' \/ \A t \in Slot : B!At(t, "idle")
  BY <1>1, <1>2, BeginFacts
<1>4. QED
  BY <1>1, <1>3, EmailTyped, WorkStep DEF EmailInv

LEMMA ApplyAddressSafe ==
    ASSUME EmailInv, NEW s \in Slot, B!ApplyAddress(s)
    PROVE  EmailInv'
<1>1. /\ UNCHANGED <<changes, taken, mailed, stale, raced>> /\ ~B!At(s, "idle")
      /\ work[s].change \in B!Rows /\ work[s].address \in Address \cup {B!NoAddress}
  BY EmailTyped DEF B!ApplyAddress, B!At, EmailInv, ChangesInOrder, WorkType
<1>2. CASE email' = work[s].address /\ B!Goto(s, "close") /\ UNCHANGED failed
  <2>1. PICK new \in WorkType : /\ new.at = "close" /\ new.change = work[s].change
                                /\ work' = [work EXCEPT ![s] = new]
    BY <1>2, GotoWork
  <2>2. QED
    BY <1>1, <1>2, <2>1, EmailTyped, WorkStep DEF EmailInv
<1>3. CASE B!Fault /\ B!Return(s) /\ UNCHANGED email
  BY <1>1, <1>3, IdleWork, EmailTyped, WorkStep DEF EmailInv, B!Return
<1>4. QED
  BY <1>2, <1>3 DEF B!ApplyAddress

LEMMA CloseChangeSafe ==
    ASSUME EmailInv, NEW s \in Slot, B!CloseChange(s)
    PROVE  EmailInv'
<1>1. /\ UNCHANGED <<email, taken, mailed, stale, raced>> /\ ~B!At(s, "idle") /\ work[s].change \in B!Rows
      /\ work' = [work EXCEPT ![s] = B!Idle] /\ (failed' = failed \/ B!Fault)
  BY DEF B!CloseChange, B!At, B!Return, EmailInv, ChangesInOrder
<1>2. /\ changes' \in [B!Change -> ChangeType]
      /\ \A c \in B!Change : /\ changes'[c].address = changes[c].address
                             /\ changes[c].state = "none" <=> changes'[c].state = "none"
                             /\ changes'[c].state = "open" => changes[c].state = "open"
  <2>1. changes \in [B!Change -> ChangeType] /\ work[s].change \in B!Change /\ changes[work[s].change].state # "none"
    BY <1>1, EmailTyped DEF EmailInv, B!Rows
  <2>2. CASE changes' = [changes EXCEPT ![work[s].change].state = "applied"]
    BY <2>1, <2>2 DEF ChangeType
  <2>3. CASE UNCHANGED changes
    BY <2>1, <2>3
  <2>4. QED
    BY <2>2, <2>3 DEF B!CloseChange
<1>3. QED
  BY <1>1, <1>2, IdleWork, EmailTyped, WorkStep DEF EmailInv

LEMMA StartRemoveSafe ==
    ASSUME EmailInv, NEW s \in Slot, B!StartRemove(s)
    PROVE  EmailInv'
<1>1. UNCHANGED <<changes, taken, mailed, stale, failed>> /\ B!Begin(s, "drop", B!NoAddress, 0)
      /\ email' = B!NoAddress
  BY DEF B!StartRemove
<1>2. 0 \in 0 .. MaxChanges
  BY EmailTyped DEF EmailInv
<1>3. PICK new \in WorkType : /\ new.at = "drop" /\ work' = [work EXCEPT ![s] = new]
                              /\ raced' \in BOOLEAN /\ (raced => raced')
                              /\ raced' \/ \A t \in Slot : B!At(t, "idle")
  BY <1>1, <1>2, BeginFacts
<1>4. QED
  BY <1>1, <1>3, EmailTyped, WorkStep DEF EmailInv

LEMMA DropPendingSafe ==
    ASSUME EmailInv, NEW s \in Slot, B!DropPending(s)
    PROVE  EmailInv'
<1>1. UNCHANGED <<email, taken, mailed, stale, raced>> /\ ~B!At(s, "idle")
      /\ work' = [work EXCEPT ![s] = B!Idle]
  BY DEF B!DropPending, B!At, B!Return
<1>2. CASE changes' = B!Cancelled /\ UNCHANGED failed
  BY <1>1, <1>2, IdleWork, CancelledTyped, EmailTyped, WorkStep DEF EmailInv
<1>3. CASE B!Fault /\ UNCHANGED changes
  BY <1>1, <1>3, IdleWork, EmailTyped, WorkStep DEF EmailInv
<1>4. QED
  BY <1>2, <1>3 DEF B!DropPending

LEMMA EmailCrashSafe ==
    ASSUME EmailInv, NEW s \in Slot, B!Crash(s)
    PROVE  EmailInv'
<1>1. UNCHANGED <<email, changes, taken, mailed, stale, raced>> /\ ~B!At(s, "idle") /\ B!Fault
      /\ work' = [work EXCEPT ![s] = B!Idle]
  BY DEF B!Crash, B!Return
<1>2. QED
  BY <1>1, IdleWork, EmailTyped, WorkStep DEF EmailInv

\* A new change, when the ones before it are closed.
LEMMA InsertChangeSafe ==
    ASSUME EmailInv, NEW s \in Slot, B!InsertChange(s)
    PROVE  EmailInv'
<1> DEFINE c == Cardinality(B!Rows) + 1
           row == [address |-> work[s].address, state |-> "open"]
           new == [work[s] EXCEPT !.at = "mail", !.change = c]
<1>1. /\ work[s] \in WorkType /\ work[s].at = "insert"
      /\ changes \in [B!Change -> ChangeType] /\ work \in [Slot -> WorkType] /\ MaxChanges \in Nat
      /\ UNCHANGED <<email, taken, mailed, stale, raced, failed>>
  BY EmailTyped DEF B!InsertChange, B!At, EmailInv
<1>2. /\ c \in B!Change /\ changes' = [changes EXCEPT ![c] = row]
      /\ work' = [work EXCEPT ![s] = new]
  BY <1>1, SameCountOfChanges DEF B!InsertChange
<1>3. PICK k \in 0 .. MaxChanges : B!Rows = 1 .. k
  BY DEF EmailInv, ChangesInOrder
<1>4. k \in Nat /\ c = k + 1
  <2>1. k \in Nat
    BY <1>1, <1>3
  <2>2. Cardinality(1 .. k) = k
    BY <2>1, FS_Interval
  <2>3. QED
    BY <1>3, <2>1, <2>2
<1>5. row \in ChangeType /\ row.state = "open" /\ c \in 0 .. MaxChanges
  BY <1>1, <1>2 DEF WorkType, ChangeType, B!Change
<1> HIDE DEF c, row
<1>6. new \in WorkType /\ new.at = "mail" /\ new.change = c
  BY <1>1, <1>5 DEF WorkType
<1> HIDE DEF new
<1>7. /\ changes' \in [B!Change -> ChangeType] /\ changes'[c] = row
      /\ \A d \in B!Change : d # c => changes'[d] = changes[d]
  BY <1>1, <1>2, <1>5
<1>8. /\ work' \in [Slot -> WorkType] /\ work'[s] = new
      /\ \A t \in Slot : t # s => work'[t] = work[t]
  BY <1>1, <1>2, <1>6
<1>9. B!TypeOK'
  BY <1>1, <1>7, <1>8 DEF EmailInv, B!TypeOK, ChangeType, WorkType
<1>10. /\ B!Rows' = B!Rows \cup {c} /\ B!Open' = B!Open \cup {c}
  BY <1>2, <1>5, <1>7 DEF B!Rows, B!Open
<1>11. ChangesInOrder'
  <2>1. B!Rows' = 1 .. k + 1 /\ k + 1 \in 0 .. MaxChanges
    BY <1>3, <1>4, <1>5, <1>10
  <2>2. \A t \in Slot : work'[t].at \in {"mail", "apply", "close"} => work'[t].change \in B!Rows'
    BY <1>6, <1>8, <1>10 DEF EmailInv, ChangesInOrder
  <2>3. QED
    BY <2>1, <2>2 DEF ChangesInOrder
<1>12. ASSUME B!Calm' PROVE /\ \A t \in Slot : work'[t].at \in {"idle", "mail"}
                            /\ \A t, u \in Slot : work'[t].at # "idle" /\ work'[u].at # "idle" => t = u
                            /\ \A e \in B!Open' : \A d \in B!Rows' : d <= e
  <2>1. B!Calm /\ B!Open = {}
    BY <1>1, <1>12 DEF B!Calm, EmailInv, LastIsOpen, B!At
  <2>2. \A t \in Slot : t # s => work'[t].at = "idle"
    BY <1>1, <1>8, <2>1 DEF EmailInv, LastIsOpen, B!At
  <2>3. \A d \in B!Rows' : d <= c
    BY <1>3, <1>4, <1>10
  <2>4. QED
    BY <1>6, <1>8, <1>10, <2>1, <2>2, <2>3
<1>13. LastIsOpen'
  BY <1>12 DEF LastIsOpen, B!At
<1>14. QED
  BY <1>9, <1>11, <1>13 DEF EmailInv

LEMMA LinkExpiresSafe ==
    ASSUME EmailInv, NEW c \in B!Change, B!LinkExpires(c)
    PROVE  EmailInv'
<1>1. UNCHANGED <<email, changes, taken, mailed, work, raced, failed>> /\ stale' = stale \cup {c}
  BY DEF B!LinkExpires
<1>2. B!TypeOK'
  BY <1>1 DEF EmailInv, B!TypeOK
<1>3. ChangesInOrder' /\ LastIsOpen'
  BY <1>1 DEF EmailInv, ChangesInOrder, LastIsOpen, B!Rows, B!Open, B!At, B!Calm
<1>4. QED
  BY <1>2, <1>3 DEF EmailInv

LEMMA EmailInit == B!Init => EmailInv
<1> SUFFICES ASSUME B!Init PROVE EmailInv
  OBVIOUS
<1>1. MaxChanges \in Nat /\ MaxFaults \in Nat
  BY AccountsAssumption, SignAssumption DEF AccountsAssumption, SignAssumption
<1>2. /\ \A c \in B!Change : changes[c].state = "none"
      /\ \A s \in Slot : work[s].at = "idle"
      /\ changes \in [B!Change -> ChangeType] /\ work \in [Slot -> WorkType]
  BY IdleWork DEF B!Init, B!NoChange, ChangeType
<1>3. B!TypeOK
  <2>1. failed \in 0 .. MaxFaults
    BY <1>1 DEF B!Init
  <2>2. QED
    BY <1>2, <2>1 DEF B!Init, B!TypeOK, ChangeType, WorkType
<1>4. B!Rows = 1 .. 0 /\ B!Open = {}
  BY <1>2 DEF B!Rows, B!Open
<1>5. ChangesInOrder /\ LastIsOpen
  BY <1>1, <1>2, <1>4 DEF ChangesInOrder, LastIsOpen, B!At
<1>6. QED
  BY <1>3, <1>5 DEF EmailInv

LEMMA EmailNext == EmailInv /\ [B!Next]_(B!vars) => EmailInv'
<1>1. ASSUME EmailInv, B!Next PROVE EmailInv'
  BY <1>1, StartAddSafe, CheckTakenSafe, CancelEarlierSafe, InsertChangeSafe, MailLinkSafe, StartConfirmSafe,
     ApplyAddressSafe, CloseChangeSafe, StartRemoveSafe, DropPendingSafe, EmailCrashSafe, LinkExpiresSafe DEF B!Next
<1>2. ASSUME EmailInv, UNCHANGED B!vars PROVE EmailInv'
  BY <1>2 DEF B!vars, EmailInv, B!TypeOK, ChangesInOrder, LastIsOpen, B!Rows, B!Open, B!At, B!Calm
<1>3. QED
  BY <1>1, <1>2

\* Where an address comes from.
ComesFromLastLink ==
    email' # email /\ email' # B!NoAddress /\ B!Calm =>
        \E c \in mailed : /\ changes[c].address = email'
                          /\ \A d \in B!Rows : d <= c

LEMMA AddressesAreMailed == EmailInv /\ [B!Next]_(B!vars) => ComesFromLastLink
<1> SUFFICES ASSUME EmailInv, [B!Next]_(B!vars), email' # email, email' # B!NoAddress, B!Calm
             PROVE  \E c \in mailed : changes[c].address = email' /\ \A d \in B!Rows : d <= c
  BY DEF ComesFromLastLink
<1>1. PICK s \in Slot : B!ApplyAddress(s)
  BY DEF B!Next, B!vars, B!StartAdd, B!StartConfirm, B!CheckTaken, B!CancelEarlier, B!InsertChange, B!MailLink,
     B!CloseChange, B!StartRemove, B!DropPending, B!Crash, B!LinkExpires
<1>2. B!At(s, "apply") /\ email' = work[s].address
  BY <1>1 DEF B!ApplyAddress
<1>3. /\ work[s].change \in mailed /\ work[s].change \in B!Open
      /\ changes[work[s].change].address = work[s].address
  BY <1>2 DEF EmailInv, LastIsOpen
<1>4. \A d \in B!Rows : d <= work[s].change
  BY <1>3 DEF EmailInv, LastIsOpen
<1>5. QED
  BY <1>2, <1>3, <1>4

LEMMA EmailSteps == [AccountsNext]_allVars => [B!Next]_(B!vars)
BY DEF AccountsNext, allVars, BVars, B!vars

LEMMA NewestLinkStays == AccountsSpec => B!NewestLinkWorks
<1>1. AccountsInit => EmailInv
  BY EmailInit DEF AccountsInit
<1>2. EmailInv /\ [AccountsNext]_allVars => [ComesFromLastLink]_(B!vars)
  BY AddressesAreMailed, EmailSteps
<1>3. QED
  BY <1>1, <1>2, EmailSteps, EmailNext, PTL DEF AccountsSpec, B!NewestLinkWorks, ComesFromLastLink

-----------------------------------------------------------------------------
(* The codes of one number. *)

CodeJob == A!Jobs(A!Steps)
Won == {"burn", "matched", "findLegacy", "create", "upgrade", "issueLegacy", "issueCurrent"}
Winning(c) == {s \in Slot : otpJob[s].at \in Won /\ otpJob[s].row = c}
Adding == {s \in Slot : otpJob[s].at \in {"retire", "insert"}}

\* Rows are written one after the other, and invocations work on rows that are written.
CodesInOrder ==
    /\ \E k \in 0 .. MaxRows : A!Used = 1 .. k /\ expired <= k
    /\ \A s \in Slot : otpJob[s].at \notin {"idle", "retire", "insert"} => otpJob[s].row \in A!Used

\* The counter of a row counts its comparisons, and who is about to raise it read less than the cap.
TriesCounted ==
    /\ \A c \in A!Row : tries[c] = code[c].attempts
    /\ \A s \in Slot : otpJob[s].at = "count" => otpJob[s].saw < OTP_MAX_ATTEMPTS

\* Every session, and every invocation that is on its way to one, has paid with a try of its own.
WinsPaid == \A c \in A!Row : opened[c] + Cardinality(Winning(c)) <= tries[c]

\* A new account comes only where no row of the old hash is or can come to be.
OneAccount ==
    /\ users["legacy"] + users["current"] <= 1
    /\ \A s \in Slot : otpJob[s].at = "create" => users["legacy"] = 0

\* Requests that were let in count before their row does.
WindowTracked == Cardinality(A!InWindow) + Cardinality(Adding) < OTP_MAX_PER_WINDOW + Cardinality(Slot)

\* One request at a time whose writes succeed finds no code alive when it writes its own.
OneCode ==
    ~crowded =>
        /\ \A s, t \in A!Requesting : s = t
        /\ otpFaults = 0 => /\ \A c, d \in A!Live : c = d
                            /\ \A s \in Slot : otpJob[s].at = "insert" => A!Live = {}

CodeInv == A!TypeOK /\ CodesInOrder /\ TriesCounted /\ WinsPaid /\ OneAccount /\ WindowTracked /\ OneCode

LEMMA SameCountOfCodes == \A S : A!Cardinality(S) = Cardinality(S)
BY DEF A!Cardinality, Cardinality

LEMMA CodeConstants ==
    /\ OTP_MAX_ATTEMPTS \in Nat /\ OTP_MAX_PER_WINDOW \in Nat /\ MaxRows \in Nat /\ MaxOpened \in Nat
    /\ MaxFaults \in Nat /\ IsFiniteSet(Slot) /\ Cardinality(Slot) \in Nat /\ Cardinality(Slot) >= 1
    /\ IsFiniteSet(A!Row)
<1>1. IsFiniteSet(A!Row)
  BY FS_Interval, AccountsAssumption DEF A!Row, AccountsAssumption
<1>2. QED
  BY <1>1, SignConstants, AccountsAssumption DEF AccountsAssumption

LEMMA CodesTyped ==
    ASSUME A!TypeOK
    PROVE  /\ code \in [A!Row -> A!Rows] /\ phone \subseteq A!Row /\ expired \in 0 .. MaxRows
           /\ otpJob \in [Slot -> CodeJob] /\ tries \in [A!Row -> Nat] /\ crowded \in BOOLEAN
           /\ otpFaults \in 0 .. MaxFaults /\ otpFaults \in Nat
           /\ users \in [A!Hash -> {0, 1}] /\ sessions \subseteq A!Hash /\ opened \in [A!Row -> 0 .. MaxOpened]
BY CodeConstants DEF A!TypeOK, A!OtpTypeOK, CodeJob

LEMMA CodesFinite ==
    /\ A!Used \subseteq A!Row /\ A!Live \subseteq A!Row /\ A!InWindow \subseteq A!Row
    /\ IsFiniteSet(A!InWindow) /\ IsFiniteSet(Adding) /\ \A c : IsFiniteSet(Winning(c))
    /\ Cardinality(A!InWindow) \in Nat /\ Cardinality(Adding) \in Nat
    /\ \A c : Cardinality(Winning(c)) \in Nat
<1>1. A!Used \subseteq A!Row /\ A!Live \subseteq A!Row /\ A!InWindow \subseteq A!Row
  BY DEF A!Used, A!Live, A!InWindow
<1>2. Adding \subseteq Slot /\ \A c : Winning(c) \subseteq Slot
  BY DEF Adding, Winning
<1>3. IsFiniteSet(A!InWindow) /\ IsFiniteSet(Adding) /\ \A c : IsFiniteSet(Winning(c))
  BY <1>1, <1>2, CodeConstants, FS_Subset
<1>4. QED
  BY <1>1, <1>3, FS_CardinalityType

\* A step of one invocation that writes no row, counts no try and opens no session.
LEMMA CodeStep ==
    ASSUME CodeInv, NEW s \in Slot,
           UNCHANGED <<expired, tries, opened, crowded>>,
           phone' \subseteq A!Row, sessions' \subseteq A!Hash,
           otpFaults' = otpFaults \/ A!Fault,
           code' \in [A!Row -> A!Rows],
           \A c \in A!Row : /\ code'[c].attempts = code[c].attempts
                            /\ code[c].state = "none" <=> code'[c].state = "none"
                            /\ code'[c].state = "live" => code[c].state = "live"
                            /\ code[c].state = "deleted" => code'[c].state = "deleted",
           users' \in [A!Hash -> {0, 1}], users'["legacy"] + users'["current"] <= 1,
           users["legacy"] = 0 => users'["legacy"] = 0,
           NEW new \in CodeJob, otpJob' = [otpJob EXCEPT ![s] = new],
           new.at \notin {"idle", "retire", "insert"} => new.row \in A!Used,
           new.at = "count" => new.saw < OTP_MAX_ATTEMPTS,
           new.at \in Won => otpJob[s].at \in Won /\ new.row = otpJob[s].row,
           new.at = "create" => users["legacy"] = 0,
           new.at \in {"retire", "insert"} => otpJob[s].at \in {"retire", "insert"},
           new.at \in {"send", "delete"} => s \in A!Requesting,
           new.at = "insert" => otpFaults' # 0 \/ \A c \in A!Row : code'[c].state # "live"
    PROVE  CodeInv'
<1>1. /\ code \in [A!Row -> A!Rows] /\ otpJob \in [Slot -> CodeJob] /\ otpFaults \in 0 .. MaxFaults
      /\ otpFaults \in Nat /\ MaxFaults \in Nat
  BY CodesTyped, CodeConstants DEF CodeInv
<1>2. /\ otpJob' \in [Slot -> CodeJob] /\ otpJob'[s] = new
      /\ \A t \in Slot : t # s => otpJob'[t] = otpJob[t]
  BY <1>1
<1>3. otpFaults' \in 0 .. MaxFaults /\ (otpFaults' = 0 => otpFaults = 0)
  BY <1>1 DEF A!Fault
<1>4. A!TypeOK'
  BY <1>2, <1>3 DEF CodeInv, A!TypeOK, A!OtpTypeOK, CodeJob
<1>5. UNCHANGED A!Used /\ A!Live' \subseteq A!Live /\ A!InWindow' \subseteq A!InWindow
  BY DEF A!Used, A!Live, A!InWindow, A!isOtpExpired
<1>6. CodesInOrder'
  BY <1>2, <1>5 DEF CodeInv, CodesInOrder
<1>7. TriesCounted'
  BY <1>2 DEF CodeInv, TriesCounted
<1>8. WinsPaid'
  <2>1. ASSUME NEW c \in A!Row PROVE Cardinality(Winning(c)') <= Cardinality(Winning(c))
    <3>1. Winning(c)' \subseteq Winning(c)
      BY <1>2 DEF Winning
    <3>2. QED
      BY <3>1, CodesFinite, FS_Subset
  <2>2. ASSUME NEW c \in A!Row PROVE Cardinality(Winning(c)') \in Nat
    <3>1. Winning(c)' \subseteq Slot
      BY DEF Winning
    <3>2. QED
      BY <3>1, CodeConstants, FS_Subset, FS_CardinalityType
  <2>3. ASSUME NEW c \in A!Row PROVE opened'[c] + Cardinality(Winning(c)') <= tries'[c]
    <3>1. opened[c] \in Nat /\ tries[c] \in Nat /\ opened[c] + Cardinality(Winning(c)) <= tries[c]
      BY CodesTyped, CodeConstants DEF CodeInv, WinsPaid
    <3>2. opened'[c] = opened[c] /\ tries'[c] = tries[c]
      OBVIOUS
    <3>3. QED
      BY <2>1, <2>2, <3>1, <3>2, CodesFinite
  <2>4. QED
    BY <2>3 DEF WinsPaid
<1>9. OneAccount'
  BY <1>2 DEF CodeInv, OneAccount
<1>10. WindowTracked'
  <2>1. Adding' \subseteq Adding
    BY <1>2 DEF Adding
  <2>2. /\ Cardinality(Adding') <= Cardinality(Adding) /\ Cardinality(Adding') \in Nat
        /\ Cardinality(A!InWindow') <= Cardinality(A!InWindow) /\ Cardinality(A!InWindow') \in Nat
    BY <1>5, <2>1, CodesFinite, FS_Subset, FS_CardinalityType
  <2>3. Cardinality(A!InWindow) + Cardinality(Adding) < OTP_MAX_PER_WINDOW + Cardinality(Slot)
    BY DEF CodeInv, WindowTracked
  <2>4. QED
    BY <2>2, <2>3, CodesFinite, CodeConstants DEF WindowTracked
<1>11. A!Requesting' \subseteq A!Requesting
  BY <1>2 DEF A!Requesting
<1>12. ASSUME ~crowded', otpFaults' = 0, NEW t \in Slot, otpJob'[t].at = "insert" PROVE A!Live' = {}
  <2>1. CASE t = s
    BY <1>2, <1>12, <2>1 DEF A!Live
  <2>2. CASE t # s
    BY <1>2, <1>3, <1>5, <1>12, <2>2 DEF CodeInv, OneCode
  <2>3. QED
    BY <2>1, <2>2
<1>13. OneCode'
  BY <1>3, <1>5, <1>11, <1>12 DEF CodeInv, OneCode
<1>14. QED
  BY <1>4, <1>6, <1>7, <1>8, <1>9, <1>10, <1>13 DEF CodeInv

\* The same, with the rows and the accounts as they were.
LEMMA CodeQuiet ==
    ASSUME CodeInv, NEW s \in Slot,
           UNCHANGED <<code, expired, tries, opened, crowded, users>>,
           phone' \subseteq A!Row, sessions' \subseteq A!Hash, otpFaults' = otpFaults \/ A!Fault,
           NEW new \in CodeJob, otpJob' = [otpJob EXCEPT ![s] = new],
           new.at \notin {"idle", "retire", "insert"} => new.row \in A!Used,
           new.at = "count" => new.saw < OTP_MAX_ATTEMPTS,
           new.at \in Won => otpJob[s].at \in Won /\ new.row = otpJob[s].row,
           new.at = "create" => users["legacy"] = 0,
           new.at \notin {"retire", "insert"},
           new.at \in {"send", "delete"} => s \in A!Requesting
    PROVE  CodeInv'
<1>1. code' \in [A!Row -> A!Rows] /\ \A c \in A!Row : code'[c] = code[c]
  BY CodesTyped DEF CodeInv
<1>2. /\ users' \in [A!Hash -> {0, 1}] /\ users'["legacy"] + users'["current"] <= 1
      /\ (users["legacy"] = 0 => users'["legacy"] = 0)
  BY CodesTyped DEF CodeInv, OneAccount
<1>3. UNCHANGED <<expired, tries, opened, crowded>>
  OBVIOUS
<1>4. QED
  BY <1>1, <1>2, <1>3, CodeStep

LEMMA IdleCode == A!Idle \in CodeJob /\ A!Idle.at = "idle"
BY CodeConstants DEF A!Idle, CodeJob, A!Jobs, A!Steps, A!OtpSteps

CodeSteps == {"idle", "matched"} \cup A!OtpSteps \cup A!Steps

LEMMA GotoCode ==
    ASSUME CodeInv, NEW s \in Slot, NEW at \in CodeSteps, A!Goto(s, at)
    PROVE  \E new \in CodeJob : /\ new.at = at /\ new.row = otpJob[s].row /\ new.saw = otpJob[s].saw
                                /\ otpJob' = [otpJob EXCEPT ![s] = new]
<1> DEFINE new == [otpJob[s] EXCEPT !.at = at]
<1>1. otpJob[s] \in CodeJob
  BY CodesTyped DEF CodeInv
<1>2. new \in CodeJob /\ new.at = at /\ new.row = otpJob[s].row /\ new.saw = otpJob[s].saw
  BY <1>1 DEF CodeJob, A!Jobs, CodeSteps
<1>3. otpJob' = [otpJob EXCEPT ![s] = new]
  BY DEF A!Goto
<1> HIDE DEF new
<1>4. QED
  BY <1>2, <1>3

\* Cardinalities of what one invocation joins or leaves.
LEMMA Joins ==
    ASSUME NEW S, NEW T, NEW x, IsFiniteSet(S), T = S \cup {x}
    PROVE  IsFiniteSet(T) /\ Cardinality(T) <= Cardinality(S) + 1 /\ Cardinality(T) \in Nat
<1>1. Cardinality(S) \in Nat
  BY FS_CardinalityType
<1>2. IsFiniteSet(T) /\ (Cardinality(T) = Cardinality(S) \/ Cardinality(T) = Cardinality(S) + 1)
  <2>1. CASE x \in S
    <3>1. T = S
      BY <2>1
    <3>2. QED
      BY <3>1
  <2>2. CASE x \notin S
    BY <2>2, FS_AddElement
  <2>3. QED
    BY <2>1, <2>2
<1>3. QED
  BY <1>1, <1>2

LEMMA StartRequestSafe ==
    ASSUME CodeInv, NEW s \in Slot, A!StartRequest(s), UNCHANGED <<users, sessions, opened>>
    PROVE  CodeInv'
<1>1. /\ otpJob[s].at = "idle" /\ Cardinality(A!InWindow) < OTP_MAX_PER_WINDOW
      /\ UNCHANGED <<code, phone, expired, tries, otpFaults>>
      /\ crowded' = (crowded \/ A!Requesting # {})
  BY SameCountOfCodes DEF A!StartRequest, A!At, A!MayRequest
<1>2. PICK new \in CodeJob : new.at = "retire" /\ otpJob' = [otpJob EXCEPT ![s] = new]
  BY GotoCode DEF A!StartRequest, CodeSteps, A!OtpSteps
<1>3. /\ otpJob' \in [Slot -> CodeJob] /\ otpJob'[s] = new
      /\ \A t \in Slot : t # s => otpJob'[t] = otpJob[t]
  BY <1>2, CodesTyped DEF CodeInv
<1>4. A!TypeOK'
  BY <1>1, <1>3, CodesTyped DEF CodeInv, A!TypeOK, A!OtpTypeOK, CodeJob
<1>5. UNCHANGED <<A!Used, A!Live, A!InWindow>>
  BY <1>1 DEF A!Used, A!Live, A!InWindow, A!isOtpExpired
<1>6. \A c : Winning(c)' = Winning(c)
  BY <1>1, <1>2, <1>3 DEF Winning, Won
<1>7. CodesInOrder' /\ TriesCounted' /\ WinsPaid' /\ OneAccount'
  BY <1>1, <1>2, <1>3, <1>5, <1>6 DEF CodeInv, CodesInOrder, TriesCounted, WinsPaid, OneAccount
<1>8. WindowTracked'
  <2>1. Adding' \subseteq Slot
    BY DEF Adding
  <2>2. Cardinality(Adding') <= Cardinality(Slot) /\ Cardinality(Adding') \in Nat
    BY <2>1, CodeConstants, FS_Subset, FS_CardinalityType
  <2>3. QED
    BY <1>1, <1>5, <2>2, CodesFinite, CodeConstants DEF WindowTracked
<1>9. OneCode'
  <2>1. ASSUME ~crowded' PROVE A!Requesting' = {s}
    BY <1>1, <1>2, <1>3, <2>1 DEF A!Requesting
  <2>2. ASSUME NEW t \in Slot, otpJob'[t].at = "insert" PROVE otpJob[t].at = "insert"
    BY <1>2, <1>3, <2>2
  <2>3. QED
    BY <1>1, <1>5, <2>1, <2>2, CodesTyped DEF CodeInv, OneCode
<1>10. QED
  BY <1>4, <1>7, <1>8, <1>9 DEF CodeInv

LEMMA RetireCodesSafe ==
    ASSUME CodeInv, NEW s \in Slot, A!RetireCodes(s), UNCHANGED <<users, sessions, opened>>
    PROVE  CodeInv'
<1>1. /\ otpJob[s].at = "retire" /\ A!Goto(s, "insert") /\ UNCHANGED <<phone, expired, tries, crowded>>
      /\ \/ code' = A!AllConsumed /\ UNCHANGED otpFaults
         \/ A!Fault /\ UNCHANGED code
  BY DEF A!RetireCodes, A!At
<1>2. PICK new \in CodeJob : new.at = "insert" /\ otpJob' = [otpJob EXCEPT ![s] = new]
  BY <1>1, GotoCode DEF CodeSteps, A!OtpSteps
<1>3. /\ code' \in [A!Row -> A!Rows]
      /\ \A c \in A!Row : /\ code'[c].attempts = code[c].attempts
                          /\ (code[c].state = "none" <=> code'[c].state = "none")
                          /\ (code'[c].state = "live" => code[c].state = "live")
                          /\ (code[c].state = "deleted" => code'[c].state = "deleted")
      /\ (otpFaults' # 0 \/ \A c \in A!Row : code'[c].state # "live")
  <2>1. code \in [A!Row -> A!Rows] /\ otpFaults \in Nat
    BY CodesTyped DEF CodeInv
  <2>2. CASE code' = A!AllConsumed
    BY <2>1, <2>2 DEF A!AllConsumed, A!Live, A!Rows
  <2>3. CASE A!Fault /\ UNCHANGED code
    BY <2>1, <2>3 DEF A!Fault
  <2>4. QED
    BY <1>1, <2>2, <2>3
<1>4. /\ users' \in [A!Hash -> {0, 1}] /\ users'["legacy"] + users'["current"] <= 1
      /\ (users["legacy"] = 0 => users'["legacy"] = 0)
      /\ phone' \subseteq A!Row /\ sessions' \subseteq A!Hash
  BY <1>1, CodesTyped DEF CodeInv, OneAccount
<1>5. otpFaults' = otpFaults \/ A!Fault
  BY <1>1
<1>6. QED
  BY <1>1, <1>2, <1>3, <1>4, <1>5, CodeStep DEF Won

LEMMA SendCodeSafe ==
    ASSUME CodeInv, NEW s \in Slot, A!SendCode(s), UNCHANGED <<users, sessions, opened>>
    PROVE  CodeInv'
<1>1. /\ otpJob[s].at = "send" /\ otpJob[s].row \in A!Used /\ s \in A!Requesting
      /\ UNCHANGED <<code, expired, tries, crowded>>
      /\ \/ A!Return(s) /\ UNCHANGED otpFaults
         \/ A!Fault /\ A!Goto(s, "delete")
      /\ phone' \in {phone, phone \cup {otpJob[s].row}}
  BY DEF A!SendCode, A!At, A!Requesting, CodeInv, CodesInOrder
<1>2. phone' \subseteq A!Row /\ sessions' \subseteq A!Hash
  BY <1>1, CodesTyped, CodesFinite DEF CodeInv
<1>3. CASE A!Return(s) /\ UNCHANGED otpFaults
  BY <1>1, <1>2, <1>3, IdleCode, CodeQuiet DEF A!Return, Won
<1>4. CASE A!Fault /\ A!Goto(s, "delete")
  <2>1. PICK new \in CodeJob : /\ new.at = "delete" /\ new.row = otpJob[s].row
                               /\ otpJob' = [otpJob EXCEPT ![s] = new]
    BY <1>4, GotoCode DEF CodeSteps, A!OtpSteps
  <2>2. QED
    BY <1>1, <1>2, <1>4, <2>1, CodeQuiet DEF Won
<1>5. QED
  BY <1>1, <1>3, <1>4

\* A step that ends one invocation and at most takes one code out of use.
LEMMA CodeEnds ==
    ASSUME CodeInv, NEW s \in Slot, NEW c \in A!Used, A!Return(s),
           UNCHANGED <<users, sessions, opened, phone, expired, tries, crowded>>,
           \/ code' = code
           \/ code' = [code EXCEPT ![c].state = "deleted"]
           \/ A!Consume(c),
           otpFaults' = otpFaults \/ A!Fault
    PROVE  CodeInv'
<1>1. /\ code \in [A!Row -> A!Rows] /\ c \in A!Row /\ code[c].state # "none"
      /\ phone' \subseteq A!Row /\ sessions' \subseteq A!Hash
  BY CodesTyped DEF CodeInv, A!Used
<1>2. /\ code' \in [A!Row -> A!Rows]
      /\ \A d \in A!Row : /\ code'[d].attempts = code[d].attempts
                          /\ (code[d].state = "none" <=> code'[d].state = "none")
                          /\ (code'[d].state = "live" => code[d].state = "live")
                          /\ (code[d].state = "deleted" => code'[d].state = "deleted")
  <2>1. CASE code' = code
    BY <1>1, <2>1
  <2>2. CASE code' = [code EXCEPT ![c].state = "deleted"]
    BY <1>1, <2>2 DEF A!Rows
  <2>3. CASE A!Consume(c)
    BY <1>1, <2>3 DEF A!Rows, A!Consume
  <2>4. QED
    BY <2>1, <2>2, <2>3
<1>3. /\ users' \in [A!Hash -> {0, 1}] /\ users'["legacy"] + users'["current"] <= 1
      /\ (users["legacy"] = 0 => users'["legacy"] = 0)
  BY CodesTyped DEF CodeInv, OneAccount
<1>4. otpJob' = [otpJob EXCEPT ![s] = A!Idle]
  BY DEF A!Return
<1>5. QED
  BY <1>1, <1>2, <1>3, <1>4, IdleCode, CodeStep DEF Won

LEMMA DeleteCodeSafe ==
    ASSUME CodeInv, NEW s \in Slot, A!DeleteCode(s), UNCHANGED <<users, sessions, opened>>
    PROVE  CodeInv'
<1>1. otpJob[s].row \in A!Used
  BY DEF A!DeleteCode, A!At, CodeInv, CodesInOrder
<1>2. QED
  BY <1>1, CodeEnds DEF A!DeleteCode

LEMMA ExhaustCodeSafe ==
    ASSUME CodeInv, NEW s \in Slot, A!ExhaustCode(s), UNCHANGED <<users, sessions, opened>>
    PROVE  CodeInv'
<1>1. otpJob[s].row \in A!Used
  BY DEF A!ExhaustCode, A!At, CodeInv, CodesInOrder
<1>2. QED
  BY <1>1, CodeEnds DEF A!ExhaustCode

LEMMA CodeCrashSafe ==
    ASSUME CodeInv, NEW s \in Slot, A!Crash(s), UNCHANGED <<users, sessions, opened>>
    PROVE  CodeInv'
<1>1. phone' \subseteq A!Row /\ sessions' \subseteq A!Hash
  BY CodesTyped DEF CodeInv, A!Crash
<1>2. QED
  BY <1>1, IdleCode, CodeQuiet DEF A!Crash, A!Return, Won

LEMMA StartVerifySafe ==
    ASSUME CodeInv, NEW s \in Slot, NEW right \in BOOLEAN, A!StartVerify(s, right),
           UNCHANGED <<users, sessions, opened>>
    PROVE  CodeInv'
<1>1. PICK c \in A!Live :
        otpJob' = [otpJob EXCEPT ![s] =
                     [at |-> IF A!Exhausted(c) THEN "exhaust" ELSE "count",
                      row |-> c, saw |-> code[c].attempts, right |-> right]]
  BY DEF A!StartVerify
<1>2. UNCHANGED <<code, phone, expired, tries, otpFaults, crowded>>
  BY DEF A!StartVerify
<1> DEFINE new == [at |-> IF A!Exhausted(c) THEN "exhaust" ELSE "count",
                   row |-> c, saw |-> code[c].attempts, right |-> right]
<1>3. c \in A!Row /\ c \in A!Used /\ code[c].attempts \in 0 .. OTP_MAX_ATTEMPTS
  BY CodesTyped DEF CodeInv, A!Live, A!Used, A!Rows
<1>4. new.at \in {"exhaust", "count"} /\ new.row = c /\ new.saw = code[c].attempts
  OBVIOUS
<1>5. new \in CodeJob
  BY <1>3, CodeConstants DEF CodeJob, A!Jobs, A!OtpSteps, A!Row
<1>6. new.at = "count" => new.saw < OTP_MAX_ATTEMPTS
  BY <1>3, CodeConstants DEF A!Exhausted
<1>7. otpJob' = [otpJob EXCEPT ![s] = new]
  BY <1>1
<1> HIDE DEF new
<1>8. phone' \subseteq A!Row /\ sessions' \subseteq A!Hash
  BY <1>2, CodesTyped DEF CodeInv
<1>9. QED
  BY <1>2, <1>3, <1>4, <1>5, <1>6, <1>7, <1>8, CodeQuiet DEF Won

LEMMA BurnCodeSafe ==
    ASSUME CodeInv, NEW s \in Slot, A!BurnCode(s), UNCHANGED <<users, sessions, opened>>
    PROVE  CodeInv'
<1>1. /\ otpJob[s].at = "burn" /\ otpJob[s].row \in A!Used /\ A!Goto(s, "matched")
      /\ UNCHANGED <<phone, expired, tries, crowded>>
      /\ (A!Consume(otpJob[s].row) \/ code' = code) /\ (otpFaults' = otpFaults \/ A!Fault)
  BY DEF A!BurnCode, A!At, CodeInv, CodesInOrder
<1>2. PICK new \in CodeJob : /\ new.at = "matched" /\ new.row = otpJob[s].row
                             /\ otpJob' = [otpJob EXCEPT ![s] = new]
  BY <1>1, GotoCode DEF CodeSteps, A!OtpSteps
<1> DEFINE c == otpJob[s].row
<1>3. /\ code \in [A!Row -> A!Rows] /\ c \in A!Row /\ code[c].state # "none"
      /\ phone' \subseteq A!Row /\ sessions' \subseteq A!Hash
  BY <1>1, CodesTyped DEF CodeInv, A!Used
<1>4. A!Consume(c) \/ code' = code
  BY <1>1
<1> HIDE DEF c
<1>5. /\ code' \in [A!Row -> A!Rows]
      /\ \A d \in A!Row : /\ code'[d].attempts = code[d].attempts
                          /\ (code[d].state = "none" <=> code'[d].state = "none")
                          /\ (code'[d].state = "live" => code[d].state = "live")
                          /\ (code[d].state = "deleted" => code'[d].state = "deleted")
  <2>1. CASE code' = code
    BY <1>3, <2>1
  <2>2. CASE A!Consume(c)
    BY <1>3, <2>2 DEF A!Rows, A!Consume
  <2>3. QED
    BY <1>4, <2>1, <2>2
<1>6. /\ users' \in [A!Hash -> {0, 1}] /\ users'["legacy"] + users'["current"] <= 1
      /\ (users["legacy"] = 0 => users'["legacy"] = 0)
  BY CodesTyped DEF CodeInv, OneAccount
<1>7. QED
  BY <1>1, <1>2, <1>3, <1>5, <1>6, CodeStep DEF Won

LEMMA FindCurrentSafe == ASSUME CodeInv, NEW s \in Slot, A!FindCurrent(s) PROVE CodeInv'
<1>1. /\ otpJob[s].at = "matched" /\ otpJob[s].row \in A!Used
      /\ UNCHANGED <<code, phone, expired, tries, crowded, otpFaults, users, sessions, opened>>
      /\ (A!Goto(s, "issueCurrent") \/ A!Goto(s, "findLegacy"))
  BY DEF A!FindCurrent, A!At, A!accountVars, CodeInv, CodesInOrder
<1>2. PICK new \in CodeJob : /\ new.at \in {"issueCurrent", "findLegacy"} /\ new.row = otpJob[s].row
                             /\ otpJob' = [otpJob EXCEPT ![s] = new]
  BY <1>1, GotoCode DEF CodeSteps, A!Steps
<1>3. phone' \subseteq A!Row /\ sessions' \subseteq A!Hash
  BY <1>1, CodesTyped DEF CodeInv
<1>4. QED
  BY <1>1, <1>2, <1>3, CodeQuiet DEF Won

LEMMA FindLegacySafe == ASSUME CodeInv, NEW s \in Slot, A!FindLegacy(s) PROVE CodeInv'
<1>1. /\ otpJob[s].at = "findLegacy" /\ otpJob[s].row \in A!Used
      /\ UNCHANGED <<code, phone, expired, tries, crowded, otpFaults, users, sessions, opened>>
      /\ (A!Goto(s, "upgrade") \/ (A!Goto(s, "create") /\ ~A!LegacyRow))
  BY DEF A!FindLegacy, A!At, A!accountVars, CodeInv, CodesInOrder
<1>2. PICK new \in CodeJob : /\ new.at = "upgrade" \/ (new.at = "create" /\ ~A!LegacyRow)
                             /\ new.row = otpJob[s].row /\ otpJob' = [otpJob EXCEPT ![s] = new]
  BY <1>1, GotoCode DEF CodeSteps, A!Steps
<1>3. ~A!LegacyRow => users["legacy"] = 0
  BY CodesTyped DEF CodeInv, A!LegacyRow, A!Hash
<1>4. phone' \subseteq A!Row /\ sessions' \subseteq A!Hash
  BY <1>1, CodesTyped DEF CodeInv
<1>5. QED
  BY <1>1, <1>2, <1>3, <1>4, CodeQuiet DEF Won

LEMMA MovedUsers ==
    ASSUME CodeInv, NEW moved, moved = [users EXCEPT !["legacy"] = 0, !["current"] = 1]
    PROVE  moved \in [A!Hash -> {0, 1}] /\ moved["legacy"] = 0 /\ moved["current"] = 1
BY CodesTyped DEF CodeInv, A!Hash

\* A step on the way to a session that may write the account.
LEMMA AccountStep ==
    ASSUME CodeInv, NEW s \in Slot,
           UNCHANGED <<code, phone, expired, tries, crowded, sessions, opened>>,
           otpFaults' = otpFaults \/ A!Fault,
           \/ users' = users
           \/ /\ users' \in [A!Hash -> {0, 1}]
              /\ users'["legacy"] = 0 /\ users'["current"] = 1,
           NEW new \in CodeJob, otpJob' = [otpJob EXCEPT ![s] = new],
           otpJob[s].at \in Won, new.row = otpJob[s].row \/ new.at = "idle",
           new.at \in {"idle", "issueCurrent", "issueLegacy"}
    PROVE  CodeInv'
<1>1. code' \in [A!Row -> A!Rows] /\ \A c \in A!Row : code'[c] = code[c]
  BY CodesTyped DEF CodeInv
<1>2. phone' \subseteq A!Row /\ sessions' \subseteq A!Hash
  BY CodesTyped DEF CodeInv
<1>3. /\ users' \in [A!Hash -> {0, 1}] /\ users'["legacy"] + users'["current"] <= 1
      /\ (users["legacy"] = 0 => users'["legacy"] = 0)
  BY CodesTyped DEF CodeInv, OneAccount
<1>4. otpJob[s].row \in A!Used
  BY DEF CodeInv, CodesInOrder, Won
<1>5. QED
  BY <1>1, <1>2, <1>3, <1>4, CodeStep DEF Won

LEMMA CreateUserSafe == ASSUME CodeInv, NEW s \in Slot, A!CreateUser(s) PROVE CodeInv'
<1>1. /\ otpJob[s].at = "create" /\ users["legacy"] = 0
      /\ UNCHANGED <<code, phone, expired, tries, crowded, otpFaults, sessions, opened>>
      /\ users' = [users EXCEPT !["current"] = 1]
      /\ (A!Goto(s, "issueCurrent") \/ A!Return(s))
  BY DEF A!CreateUser, A!At, CodeInv, OneAccount
<1>2. PICK new \in CodeJob : /\ new.at \in {"issueCurrent", "idle"}
                             /\ (new.row = otpJob[s].row \/ new.at = "idle")
                             /\ otpJob' = [otpJob EXCEPT ![s] = new]
  BY <1>1, GotoCode, IdleCode DEF CodeSteps, A!Steps, A!Return
<1>3. users' \in [A!Hash -> {0, 1}] /\ users'["legacy"] = 0 /\ users'["current"] = 1
  BY <1>1, CodesTyped DEF CodeInv, A!Hash
<1>4. QED
  BY <1>1, <1>2, <1>3, AccountStep DEF Won

LEMMA UpgradeHashSafe == ASSUME CodeInv, NEW s \in Slot, A!UpgradeHash(s) PROVE CodeInv'
<1>1. /\ otpJob[s].at = "upgrade"
      /\ UNCHANGED <<code, phone, expired, tries, crowded, sessions, opened>>
  BY DEF A!UpgradeHash, A!At
<1>2. /\ otpFaults' = otpFaults \/ A!Fault
      /\ users' = users \/ users' = [users EXCEPT !["legacy"] = 0, !["current"] = 1]
      /\ (A!Goto(s, "issueCurrent") \/ A!Goto(s, "issueLegacy"))
  <2>1. CASE users["legacy"] = 1
    BY <2>1 DEF A!UpgradeHash
  <2>2. CASE users["legacy"] # 1
    BY <2>2 DEF A!UpgradeHash, A!Issue
  <2>3. QED
    BY <2>1, <2>2
<1>3. PICK new \in CodeJob : /\ new.at \in {"issueCurrent", "issueLegacy"} /\ new.row = otpJob[s].row
                             /\ otpJob' = [otpJob EXCEPT ![s] = new]
  BY <1>2, GotoCode DEF CodeSteps, A!Steps
<1>4. \/ users' = users
      \/ users' \in [A!Hash -> {0, 1}] /\ users'["legacy"] = 0 /\ users'["current"] = 1
  BY <1>2, MovedUsers
<1>5. QED
  BY <1>1, <1>2, <1>3, <1>4, AccountStep DEF Won

LEMMA WindowPassesSafe ==
    ASSUME CodeInv, A!WindowPasses, UNCHANGED <<users, sessions, opened>>
    PROVE  CodeInv'
<1>1. /\ UNCHANGED <<code, phone, otpJob, tries, otpFaults, crowded>> /\ expired' = expired + 1
      /\ expired < Cardinality(A!Used)
  BY SameCountOfCodes DEF A!WindowPasses
<1>2. PICK k \in 0 .. MaxRows : A!Used = 1 .. k /\ expired <= k
  BY DEF CodeInv, CodesInOrder
<1>3. Cardinality(A!Used) = k
  BY <1>2, FS_Interval, CodeConstants
<1>4. expired' <= k /\ expired' \in 0 .. MaxRows
  BY <1>1, <1>3, CodesTyped, CodeConstants DEF CodeInv
<1>5. UNCHANGED <<A!Used, A!Live, Adding, A!Requesting>> /\ A!InWindow' \subseteq A!InWindow
  BY <1>1, CodesTyped, CodeConstants
     DEF CodeInv, A!Used, A!Live, A!InWindow, A!isOtpExpired, Adding, A!Requesting, A!Row
<1>6. A!TypeOK'
  BY <1>1, <1>4 DEF CodeInv, A!TypeOK, A!OtpTypeOK
<1>7. CodesInOrder'
  BY <1>1, <1>2, <1>4, <1>5 DEF CodeInv, CodesInOrder
<1>8. TriesCounted' /\ WinsPaid' /\ OneAccount' /\ OneCode'
  BY <1>1, <1>5 DEF CodeInv, TriesCounted, WinsPaid, OneAccount, OneCode, Winning
<1>9. Cardinality(A!InWindow') <= Cardinality(A!InWindow) /\ Cardinality(A!InWindow') \in Nat
  BY <1>5, CodesFinite, FS_Subset, FS_CardinalityType
<1>10. WindowTracked'
  BY <1>5, <1>9, CodesFinite, CodeConstants DEF CodeInv, WindowTracked
<1>11. QED
  BY <1>6, <1>7, <1>8, <1>10 DEF CodeInv

LEMMA InsertCodeSafe ==
    ASSUME CodeInv, NEW s \in Slot, A!InsertCode(s), UNCHANGED <<users, sessions, opened>>
    PROVE  CodeInv'
<1> DEFINE c == Cardinality(A!Used) + 1
<1>1. /\ otpJob[s].at = "insert" /\ c <= MaxRows
      /\ code' = [code EXCEPT ![c].state = "live"]
      /\ otpJob' = [otpJob EXCEPT ![s].at = "send", ![s].row = c]
      /\ UNCHANGED <<phone, expired, tries, otpFaults, crowded>>
  BY SameCountOfCodes DEF A!InsertCode, A!At
<1>2. PICK k \in 0 .. MaxRows : A!Used = 1 .. k /\ expired <= k
  BY DEF CodeInv, CodesInOrder
<1>3. c = k + 1
  <2>1. Cardinality(1 .. k) = k
    BY FS_Interval, CodeConstants
  <2>2. QED
    BY <1>2, <2>1
<1> HIDE DEF c
<1>4. c \in A!Row /\ c \notin A!Used
  BY <1>1, <1>2, <1>3, CodeConstants DEF A!Row
<1>5. code \in [A!Row -> A!Rows] /\ otpJob \in [Slot -> CodeJob]
  BY CodesTyped DEF CodeInv
<1>6. /\ code' \in [A!Row -> A!Rows] /\ code'[c].state = "live" /\ code'[c].attempts = code[c].attempts
      /\ \A d \in A!Row : d # c => code'[d] = code[d]
  BY <1>1, <1>4, <1>5 DEF A!Rows
<1>7. /\ otpJob' \in [Slot -> CodeJob] /\ otpJob'[s].at = "send" /\ otpJob'[s].row = c
      /\ \A t \in Slot : t # s => otpJob'[t] = otpJob[t]
  <2> DEFINE new == [otpJob[s] EXCEPT !.at = "send", !.row = c]
  <2>1. otpJob[s] \in CodeJob /\ c \in 0 .. MaxRows
    BY <1>4, <1>5, CodeConstants DEF A!Row
  <2>2. new \in CodeJob /\ new.at = "send" /\ new.row = c
    BY <2>1 DEF CodeJob, A!Jobs, A!OtpSteps
  <2>3. otpJob' = [otpJob EXCEPT ![s] = new]
    BY <1>1
  <2> HIDE DEF new
  <2>4. QED
    BY <1>5, <2>2, <2>3
<1>8. A!TypeOK'
  BY <1>1, <1>6, <1>7 DEF CodeInv, A!TypeOK, A!OtpTypeOK, CodeJob
<1>9. A!Used' = A!Used \cup {c} /\ A!Live' = A!Live \cup {c} /\ A!InWindow' \subseteq A!InWindow \cup {c}
  BY <1>1, <1>4, <1>6 DEF A!Used, A!Live, A!InWindow, A!isOtpExpired
<1>10. CodesInOrder'
  <2>1. A!Used' = 1 .. k + 1 /\ k + 1 \in 0 .. MaxRows /\ expired' <= k + 1
    BY <1>1, <1>2, <1>3, <1>9, CodesTyped, CodeConstants DEF CodeInv
  <2>2. \A t \in Slot : otpJob'[t].at \notin {"idle", "retire", "insert"} => otpJob'[t].row \in A!Used'
    BY <1>7, <1>9 DEF CodeInv, CodesInOrder
  <2>3. QED
    BY <2>1, <2>2 DEF CodesInOrder
<1>11. \A d : Winning(d)' = Winning(d)
  BY <1>1, <1>7 DEF Winning, Won
<1>12. TriesCounted' /\ WinsPaid' /\ OneAccount'
  BY <1>1, <1>6, <1>7, <1>11 DEF CodeInv, TriesCounted, WinsPaid, OneAccount
<1>13. WindowTracked'
  <2>1. Adding' = Adding \ {s} /\ s \in Adding
    BY <1>1, <1>7 DEF Adding
  <2>2. Cardinality(Adding') = Cardinality(Adding) - 1
    BY <2>1, CodesFinite, FS_RemoveElement
  <2>3. /\ IsFiniteSet(A!InWindow \cup {c}) /\ Cardinality(A!InWindow \cup {c}) \in Nat
        /\ Cardinality(A!InWindow \cup {c}) <= Cardinality(A!InWindow) + 1
    BY CodesFinite, Joins
  <2>4. /\ Cardinality(A!InWindow') <= Cardinality(A!InWindow \cup {c})
        /\ Cardinality(A!InWindow') \in Nat
    BY <1>9, <2>3, FS_Subset, FS_CardinalityType
  <2>5. QED
    BY <2>2, <2>3, <2>4, CodesFinite, CodeConstants DEF CodeInv, WindowTracked
<1>14. OneCode'
  <2>1. A!Requesting' \subseteq A!Requesting /\ s \in A!Requesting
    BY <1>1, <1>7 DEF A!Requesting
  <2>2. ASSUME ~crowded', otpFaults' = 0 PROVE A!Live' = {c}
    BY <1>1, <1>9, <2>2 DEF CodeInv, OneCode
  <2>3. ASSUME ~crowded', NEW t \in Slot, otpJob'[t].at = "insert" PROVE FALSE
    <3>1. t # s /\ t \in A!Requesting'
      BY <1>7, <2>3 DEF A!Requesting
    <3>2. QED
      BY <1>1, <2>1, <2>3, <3>1 DEF CodeInv, OneCode
  <2>4. QED
    BY <1>1, <2>1, <2>2, <2>3 DEF CodeInv, OneCode
<1>15. QED
  BY <1>8, <1>10, <1>12, <1>13, <1>14 DEF CodeInv

LEMMA CountAttemptSafe ==
    ASSUME CodeInv, NEW s \in Slot, A!CountAttempt(s), UNCHANGED <<users, sessions, opened>>
    PROVE  CodeInv'
<1> DEFINE c == otpJob[s].row
           saw == otpJob[s].saw
<1>1. /\ otpJob[s].at = "count" /\ c \in A!Used /\ saw < OTP_MAX_ATTEMPTS
      /\ UNCHANGED <<phone, expired, otpFaults, crowded>>
  BY DEF A!CountAttempt, A!At, CodeInv, CodesInOrder, TriesCounted
<1>2. CASE ~A!StillAsRead(c, saw)
  <2>1. UNCHANGED <<code, tries>> /\ A!Return(s)
    BY <1>2 DEF A!CountAttempt
  <2>2. phone' \subseteq A!Row /\ sessions' \subseteq A!Hash
    BY <1>1, CodesTyped DEF CodeInv
  <2>3. QED
    BY <1>1, <2>1, <2>2, IdleCode, CodeQuiet DEF A!Return, Won
<1>3. CASE A!StillAsRead(c, saw)
  <2>1. /\ code[c].attempts = saw /\ code' = [code EXCEPT ![c].attempts = saw + 1]
        /\ tries' = [tries EXCEPT ![c] = @ + 1]
        /\ (A!Goto(s, "burn") \/ A!Return(s))
    BY <1>3 DEF A!CountAttempt, A!StillAsRead
  <2>2. PICK new \in CodeJob : /\ new.at \in {"burn", "idle"} /\ (new.at = "burn" => new.row = c)
                               /\ otpJob' = [otpJob EXCEPT ![s] = new]
    BY <2>1, GotoCode, IdleCode DEF CodeSteps, A!OtpSteps, A!Return
  <2>3. /\ code \in [A!Row -> A!Rows] /\ otpJob \in [Slot -> CodeJob] /\ tries \in [A!Row -> Nat]
        /\ c \in A!Row /\ saw \in Nat /\ tries[c] = saw /\ c = otpJob[s].row
    BY <1>1, <2>1, CodesTyped, CodesFinite, CodeConstants
       DEF CodeInv, TriesCounted, CodeJob, A!Jobs, A!Rows
  <2> HIDE DEF c, saw
  <2>4. /\ code' \in [A!Row -> A!Rows] /\ code'[c].state = code[c].state /\ code'[c].attempts = saw + 1
        /\ \A d \in A!Row : d # c => code'[d] = code[d]
    BY <1>1, <2>1, <2>3, CodeConstants DEF A!Rows
  <2>5. /\ tries' \in [A!Row -> Nat] /\ tries'[c] = saw + 1
        /\ \A d \in A!Row : d # c => tries'[d] = tries[d]
    BY <2>1, <2>3
  <2>6. /\ otpJob' \in [Slot -> CodeJob] /\ otpJob'[s] = new
        /\ \A t \in Slot : t # s => otpJob'[t] = otpJob[t]
    BY <2>2, <2>3
  <2>7. A!TypeOK'
    BY <1>1, <2>4, <2>5, <2>6 DEF CodeInv, A!TypeOK, A!OtpTypeOK, CodeJob
  <2>8. UNCHANGED <<A!Used, A!Live, A!InWindow, Adding, A!Requesting>>
    <3>1. \A d \in A!Row : code'[d].state = code[d].state
      BY <2>4
    <3>2. UNCHANGED <<Adding, A!Requesting>>
      BY <1>1, <2>2, <2>6 DEF Adding, A!Requesting
    <3>3. QED
      BY <1>1, <3>1, <3>2 DEF A!Used, A!Live, A!InWindow, A!isOtpExpired
  <2>9. CodesInOrder' /\ TriesCounted' /\ OneAccount'
    <3>1. CodesInOrder'
      BY <1>1, <2>2, <2>6, <2>8 DEF CodeInv, CodesInOrder
    <3>2. TriesCounted'
      BY <2>2, <2>4, <2>5, <2>6 DEF CodeInv, TriesCounted
    <3>3. OneAccount'
      BY <2>2, <2>6 DEF CodeInv, OneAccount
    <3>4. QED
      BY <3>1, <3>2, <3>3
  <2>10. WinsPaid'
    <3>1. ASSUME NEW d \in A!Row PROVE opened[d] + Cardinality(Winning(d)') <= tries'[d]
      <4>1. opened[d] \in Nat /\ tries[d] \in Nat /\ opened[d] + Cardinality(Winning(d)) <= tries[d]
        BY CodesTyped, CodeConstants DEF CodeInv, WinsPaid
      <4>2. CASE d = c
        <5>1. Winning(d)' \subseteq Winning(d) \cup {s}
          BY <2>6 DEF Winning
        <5>2. /\ IsFiniteSet(Winning(d) \cup {s}) /\ Cardinality(Winning(d) \cup {s}) \in Nat
              /\ Cardinality(Winning(d) \cup {s}) <= Cardinality(Winning(d)) + 1
          BY CodesFinite, Joins
        <5>3. /\ Cardinality(Winning(d)') <= Cardinality(Winning(d) \cup {s})
              /\ Cardinality(Winning(d)') \in Nat
          BY <5>1, <5>2, FS_Subset, FS_CardinalityType
        <5>4. tries'[d] = tries[d] + 1
          BY <2>3, <2>5, <4>2
        <5>5. QED
          BY <4>1, <5>2, <5>3, <5>4, CodesFinite
      <4>3. CASE d # c
        <5>1. Winning(d)' \subseteq Winning(d)
          BY <2>2, <2>6, <4>3 DEF Winning, Won
        <5>2. Cardinality(Winning(d)') <= Cardinality(Winning(d)) /\ Cardinality(Winning(d)') \in Nat
          BY <5>1, CodesFinite, FS_Subset, FS_CardinalityType
        <5>3. tries'[d] = tries[d]
          BY <2>5, <4>3
        <5>4. QED
          BY <4>1, <5>2, <5>3, CodesFinite
      <4>4. QED
        BY <4>2, <4>3
    <3>2. QED
      BY <3>1 DEF WinsPaid
  <2>11. WindowTracked'
    BY <2>8 DEF CodeInv, WindowTracked
  <2>12. OneCode'
    BY <1>1, <2>2, <2>6, <2>8 DEF CodeInv, OneCode
  <2>13. QED
    BY <2>7, <2>9, <2>10, <2>11, <2>12 DEF CodeInv
<1>4. QED
  BY <1>2, <1>3

LEMMA IssueTokenSafe == ASSUME CodeInv, NEW s \in Slot, A!IssueToken(s) PROVE CodeInv'
<1> DEFINE c == otpJob[s].row
<1>1. /\ otpJob[s].at \in {"issueLegacy", "issueCurrent"} /\ c \in A!Used /\ opened[c] < MaxOpened
      /\ opened' = [opened EXCEPT ![c] = @ + 1] /\ otpJob' = [otpJob EXCEPT ![s] = A!Idle]
      /\ UNCHANGED <<code, phone, expired, tries, crowded, otpFaults, users>>
  BY DEF A!IssueToken, A!Issue, A!Return, A!At, CodeInv, CodesInOrder
<1>2. sessions' \subseteq A!Hash
  BY CodesTyped DEF CodeInv, A!IssueToken
<1>3. /\ c \in A!Row /\ c = otpJob[s].row /\ opened \in [A!Row -> 0 .. MaxOpened]
      /\ otpJob \in [Slot -> CodeJob]
  BY <1>1, CodesTyped, CodesFinite DEF CodeInv
<1> HIDE DEF c
<1>4. /\ opened' \in [A!Row -> 0 .. MaxOpened] /\ opened'[c] = opened[c] + 1
      /\ \A d \in A!Row : d # c => opened'[d] = opened[d]
  BY <1>1, <1>3, CodeConstants
<1>5. /\ otpJob' \in [Slot -> CodeJob] /\ otpJob'[s].at = "idle"
      /\ \A t \in Slot : t # s => otpJob'[t] = otpJob[t]
  BY <1>1, <1>3, IdleCode
<1>6. A!TypeOK'
  BY <1>1, <1>2, <1>4, <1>5 DEF CodeInv, A!TypeOK, A!OtpTypeOK, CodeJob
<1>7. UNCHANGED <<A!Used, A!Live, A!InWindow, Adding, A!Requesting>>
  BY <1>1, <1>5 DEF A!Used, A!Live, A!InWindow, A!isOtpExpired, Adding, A!Requesting
<1>8. CodesInOrder' /\ TriesCounted' /\ OneAccount' /\ WindowTracked' /\ OneCode'
  BY <1>1, <1>5, <1>7 DEF CodeInv, CodesInOrder, TriesCounted, OneAccount, WindowTracked, OneCode
<1>9. WinsPaid'
  <2>1. ASSUME NEW d \in A!Row PROVE opened'[d] + Cardinality(Winning(d)') <= tries[d]
    <3>1. opened[d] \in Nat /\ tries[d] \in Nat /\ opened[d] + Cardinality(Winning(d)) <= tries[d]
      BY CodesTyped, CodeConstants DEF CodeInv, WinsPaid
    <3>2. CASE d = c
      <4>1. Winning(d)' = Winning(d) \ {s} /\ s \in Winning(d)
        BY <1>1, <1>3, <1>5, <3>2 DEF Winning, Won
      <4>2. Cardinality(Winning(d)') = Cardinality(Winning(d)) - 1
        BY <4>1, CodesFinite, FS_RemoveElement
      <4>3. QED
        BY <1>4, <3>1, <3>2, <4>2, CodesFinite
    <3>3. CASE d # c
      <4>1. Winning(d)' \subseteq Winning(d)
        BY <1>5 DEF Winning, Won
      <4>2. Cardinality(Winning(d)') <= Cardinality(Winning(d)) /\ Cardinality(Winning(d)') \in Nat
        BY <4>1, CodesFinite, FS_Subset, FS_CardinalityType
      <4>3. QED
        BY <1>4, <3>1, <3>3, <4>2, CodesFinite
    <3>4. QED
      BY <3>2, <3>3
  <2>2. QED
    BY <1>1, <2>1 DEF WinsPaid
<1>10. QED
  BY <1>6, <1>8, <1>9 DEF CodeInv

LEMMA CodeInit == A!Init => CodeInv
<1> SUFFICES ASSUME A!Init PROVE CodeInv
  OBVIOUS
<1>1. /\ code = [c \in A!Row |-> A!NoRow] /\ phone = {} /\ expired = 0
      /\ otpJob = [s \in Slot |-> A!Idle] /\ tries = [c \in A!Row |-> 0]
      /\ crowded = FALSE /\ otpFaults = 0 /\ opened = [c \in A!Row |-> 0]
  BY DEF A!Init, A!OtpInit
<1>2. /\ users \in [A!Hash -> {0, 1}] /\ users["legacy"] + users["current"] <= 1
      /\ sessions \subseteq A!Hash
  BY DEF A!Init
<1>3. /\ \A c \in A!Row : /\ code[c].state = "none" /\ code[c].attempts = 0
                          /\ tries[c] = 0 /\ opened[c] = 0
      /\ \A s \in Slot : otpJob[s].at = "idle"
      /\ code \in [A!Row -> A!Rows] /\ otpJob \in [Slot -> CodeJob]
  BY <1>1, IdleCode, CodeConstants DEF A!NoRow, A!Rows
<1>4. A!TypeOK
  <2>1. /\ expired \in 0 .. MaxRows /\ otpFaults \in 0 .. MaxFaults /\ crowded \in BOOLEAN
        /\ opened \in [A!Row -> 0 .. MaxOpened] /\ tries \in [A!Row -> Nat] /\ phone \subseteq A!Row
    <3>1. expired \in 0 .. MaxRows /\ otpFaults \in 0 .. MaxFaults
      BY <1>1, CodeConstants
    <3>4. crowded \in BOOLEAN /\ phone \subseteq A!Row
      BY <1>1, Zenon
    <3>2. 0 \in 0 .. MaxOpened /\ 0 \in Nat
      BY CodeConstants
    <3>3. opened \in [A!Row -> 0 .. MaxOpened] /\ tries \in [A!Row -> Nat]
      BY <1>1, <3>2
    <3>5. QED
      BY <3>1, <3>3, <3>4
  <2>2. QED
    BY <1>2, <1>3, <2>1 DEF A!TypeOK, A!OtpTypeOK, CodeJob
<1>5. /\ A!Used = {} /\ A!Live = {} /\ A!InWindow = {} /\ Adding = {} /\ A!Requesting = {}
      /\ \A c : Winning(c) = {}
  BY <1>3 DEF A!Used, A!Live, A!InWindow, Adding, A!Requesting, Winning, Won
<1>6. CodesInOrder
  <2>1. A!Used = 1 .. 0 /\ 0 \in 0 .. MaxRows /\ expired <= 0
    BY <1>1, <1>5, CodeConstants
  <2>2. QED
    BY <1>3, <2>1 DEF CodesInOrder
<1>7. Cardinality({}) = 0
  BY FS_EmptySet
<1>8. TriesCounted /\ WinsPaid /\ OneAccount
  <2>1. TriesCounted
    BY <1>3 DEF TriesCounted
  <2>2. WinsPaid
    <3>1. \A c \in A!Row : Cardinality(Winning(c)) = 0
      BY <1>5, <1>7
    <3>2. QED
      BY <1>3, <3>1 DEF WinsPaid
  <2>3. OneAccount
    BY <1>2, <1>3 DEF OneAccount
  <2>4. QED
    BY <2>1, <2>2, <2>3
<1>9. WindowTracked
  BY <1>5, <1>7, CodeConstants DEF WindowTracked
<1>10. OneCode
  BY <1>3, <1>5 DEF OneCode
<1>11. QED
  BY <1>4, <1>6, <1>8, <1>9, <1>10 DEF CodeInv

LEMMA CodeNext == CodeInv /\ [A!Next]_(A!vars) => CodeInv'
<1>1. ASSUME CodeInv, A!WindowPasses, UNCHANGED A!accountVars PROVE CodeInv'
  BY <1>1, WindowPassesSafe DEF A!accountVars
<1>2. ASSUME CodeInv, NEW s \in Slot, A!OtpStep(s), UNCHANGED A!accountVars PROVE CodeInv'
  BY <1>2, StartRequestSafe, RetireCodesSafe, InsertCodeSafe, SendCodeSafe, DeleteCodeSafe, StartVerifySafe,
     ExhaustCodeSafe, CountAttemptSafe, BurnCodeSafe, CodeCrashSafe DEF A!OtpStep, A!accountVars
<1>3. ASSUME CodeInv, UNCHANGED A!vars PROVE CodeInv'
  BY <1>3 DEF A!vars, A!otpVars, CodeInv, A!TypeOK, A!OtpTypeOK, CodesInOrder, TriesCounted, WinsPaid,
     OneAccount, WindowTracked, OneCode, Winning, Adding, A!Used, A!Live, A!InWindow, A!isOtpExpired,
     A!Requesting
<1>4. QED
  BY <1>1, <1>2, <1>3, FindCurrentSafe, FindLegacySafe, CreateUserSafe, UpgradeHashSafe, IssueTokenSafe
     DEF A!Next

LEMMA CodeSpent ==
    CodeInv /\ [A!Next]_(A!vars) =>
        \A c \in A!Row :
            /\ code[c].state \in {"consumed", "deleted"} => code'[c].state \in {"consumed", "deleted"}
            /\ tries'[c] # tries[c] => code[c].state = "live"
<1> DEFINE Spent(c) ==
            /\ code[c].state \in {"consumed", "deleted"} => code'[c].state \in {"consumed", "deleted"}
            /\ tries'[c] # tries[c] => code[c].state = "live"
<1> SUFFICES ASSUME CodeInv, [A!Next]_(A!vars), NEW c \in A!Row PROVE Spent(c)
  OBVIOUS
<1>1. code \in [A!Row -> A!Rows] /\ tries \in [A!Row -> Nat]
  BY CodesTyped DEF CodeInv
<1>2. CASE UNCHANGED <<code, tries>>
  BY <1>2
<1>3. ASSUME NEW s \in Slot, A!RetireCodes(s) PROVE Spent(c)
  BY <1>1, <1>3 DEF A!RetireCodes, A!AllConsumed, A!Live
<1>4. ASSUME NEW s \in Slot, A!InsertCode(s) PROVE Spent(c)
  <2>1. PICK k \in 0 .. MaxRows : A!Used = 1 .. k
    BY DEF CodeInv, CodesInOrder
  <2>2. Cardinality(1 .. k) = k
    BY FS_Interval, CodeConstants
  <2>3. code' = [code EXCEPT ![k + 1].state = "live"] /\ UNCHANGED tries
    BY <1>4, <2>1, <2>2, SameCountOfCodes DEF A!InsertCode
  <2>4. k + 1 \notin A!Used
    BY <2>1
  <2>5. QED
    BY <1>1, <2>3, <2>4 DEF A!Used
<1>5. ASSUME NEW s \in Slot, A!DeleteCode(s) PROVE Spent(c)
  <2>1. UNCHANGED tries /\ (code' = [code EXCEPT ![otpJob[s].row].state = "deleted"] \/ UNCHANGED code)
    BY <1>5 DEF A!DeleteCode
  <2>2. QED
    BY <1>1, <2>1 DEF A!Rows
<1>6. ASSUME NEW s \in Slot, A!ExhaustCode(s) \/ A!BurnCode(s) PROVE Spent(c)
  <2>1. UNCHANGED tries /\ (A!Consume(otpJob[s].row) \/ UNCHANGED code)
    BY <1>6 DEF A!ExhaustCode, A!BurnCode
  <2>2. QED
    BY <1>1, <2>1 DEF A!Consume, A!Rows
<1>7. ASSUME NEW s \in Slot, A!CountAttempt(s) PROVE Spent(c)
  <2>1. CASE A!StillAsRead(otpJob[s].row, otpJob[s].saw)
    <3>1. /\ code[otpJob[s].row].state = "live"
          /\ code' = [code EXCEPT ![otpJob[s].row].attempts = otpJob[s].saw + 1]
          /\ tries' = [tries EXCEPT ![otpJob[s].row] = @ + 1]
      BY <1>7, <2>1 DEF A!CountAttempt, A!StillAsRead
    <3>2. QED
      BY <1>1, <3>1 DEF A!Rows
  <2>2. CASE ~A!StillAsRead(otpJob[s].row, otpJob[s].saw)
    BY <1>7, <2>2 DEF A!CountAttempt
  <2>3. QED
    BY <2>1, <2>2
<1> HIDE DEF Spent
<1>8. QED
  BY <1>2, <1>3, <1>4, <1>5, <1>6, <1>7
     DEF A!Next, A!OtpStep, A!vars, A!otpVars, A!WindowPasses, A!StartRequest, A!SendCode, A!StartVerify,
         A!Crash, A!FindCurrent, A!FindLegacy, A!CreateUser, A!UpgradeHash, A!IssueToken

LEMMA CodeStepsLift == [AccountsNext]_allVars => [A!Next]_(A!vars)
BY DEF AccountsNext, allVars, AVars, A!vars, A!otpVars

LEMMA CodeInvariant == AccountsSpec => []CodeInv
<1>1. AccountsInit => CodeInv
  BY CodeInit DEF AccountsInit
<1>2. CodeInv /\ [AccountsNext]_allVars => CodeInv'
  BY CodeNext, CodeStepsLift
<1>3. QED
  BY <1>1, <1>2, PTL DEF AccountsSpec

LEMMA SpentCodesStay == AccountsSpec => A!SpentStaysSpent
<1>1. CodeInv /\ [AccountsNext]_allVars =>
        [\A c \in A!Row :
            /\ code[c].state \in {"consumed", "deleted"} => code'[c].state \in {"consumed", "deleted"}
            /\ tries'[c] # tries[c] => code[c].state = "live"]_(A!otpVars)
  BY CodeSpent, CodeStepsLift
<1>2. QED
  BY <1>1, CodeInvariant, PTL DEF AccountsSpec, A!SpentStaysSpent

\* What was used does not come back: neither a code, nor an invitation, nor a link that a newer
\* one replaced.
THEOREM SpentIsSpent == AccountsSpec => SpentStaysSpent
BY SpentCodesStay, AnswersStayFinal, NewestLinkStays DEF SpentStaysSpent

-----------------------------------------------------------------------------
(* The forms people sign in with. *)

FormType == [step : {"intro", "phone", "code", "home"}, phone : Number \cup {"none"},
             loading : BOOLEAN, submitting : BOOLEAN, waiting : BOOLEAN, wallet : BOOLEAN,
             told : {"none", "failed", "wrong", "finished"}, wentBack : BOOLEAN]
FormCallType == [at : {"none", "requesting", "verifying", "answered", "settling"},
             tab : Tab \cup {"none"}, phone : Number \cup {"none"}, otp : 0 .. MaxCodes + 1,
             answer : {"none", "sent", "matched", "wrong", "finished", "failed"}]

Asked == {c \in 1 .. MaxCodes : \E n \in Number : <<n, c>> \in inbox}

\* A code is sent to one number, and the live code of a number was sent to it.
CodesAreOfOne ==
    /\ \E k \in 0 .. MaxCodes : Asked = 1 .. k
    /\ \A n, m \in Number, c \in 1 .. MaxCodes : <<n, c>> \in inbox /\ <<m, c>> \in inbox => n = m
    /\ \A n \in Number : codeOf[n] # 0 => <<n, codeOf[n]>> \in inbox

\* What a fetch carries: a code that is verified is a slip or one that the person read, and one
\* that matches is of a number whose messages the person reads.
CallSound(q, codes) ==
    q.at # "none" =>
        /\ q.tab \in Tab /\ q.phone \in Number
        /\ q.at = "requesting" => q.otp = 0
        /\ q.at = "verifying" => q.otp # 0
        /\ q.otp # 0 => q.otp = MaxCodes + 1 \/ \E m \in Readable : <<m, q.otp>> \in codes
        /\ q.answer = "matched" => q.phone \in Readable

\* A form that never let a fetch out of its sight.
Steady(t, f) == t \in Extension \/ ~f.wentBack
Busy(f) == f.step = "home" \/ f.loading \/ f.submitting
Mine(k, t) == calls[k].at # "none" /\ calls[k].tab = t

FormSound(t, f) ==
    /\ f.step = "code" => f.phone \in Number
    /\ t \notin Extension /\ ~f.wentBack /\ f.told = "finished" => ~f.waiting

\* What a fetch under way means to its form.
Awaits(t, f, q) ==
    /\ f.step = "home" \/ f.phone \in Number
    /\ Steady(t, f) => Busy(f)
    /\ t \notin Extension /\ ~f.wentBack /\ q.otp = 0 => f.told # "finished"

FormInv ==
    /\ F!TypeOK /\ F!SessionIsRead /\ CodesAreOfOne
    /\ \A k \in F!Call : CallSound(calls[k], inbox)
    /\ \A t \in Tab : FormSound(t, form[t])
    /\ \A t \in Tab, k \in F!Call : Mine(k, t) => Awaits(t, form[t], calls[k])
    /\ \A t \in Tab, j, k \in F!Call : Steady(t, form[t]) /\ Mine(j, t) /\ Mine(k, t) => j = k

LEMMA FormTypes ==
    F!TypeOK <=> /\ form \in [Tab -> FormType] /\ calls \in [F!Call -> FormCallType]
                 /\ codeOf \in [Number -> 0 .. MaxCodes] /\ attempts \in [Number -> 0 .. OTP_MAX_ATTEMPTS]
                 /\ inbox \subseteq Number \X (1 .. MaxCodes)
                 /\ session \in Number \cup {"none"}
                 /\ glitches \in 0 .. MaxGlitches
BY DEF F!TypeOK, FormType, FormCallType, F!None, F!WrongGuess

LEMMA FormConstants ==
    /\ MaxCodes \in Nat /\ OTP_MAX_ATTEMPTS \in Nat /\ MaxGlitches \in Nat /\ MaxCalls \in Nat
    /\ Readable \subseteq Number /\ Extension \subseteq Tab
    /\ 0 \notin F!Call
BY AccountsAssumption DEF AccountsAssumption, F!Call

\* A step of one form and one fetch.
LEMMA FormStep ==
    ASSUME FormInv, F!TypeOK', CodesAreOfOne', session' \in Readable \cup {"none"},
           inbox \subseteq inbox',
           NEW t \in Tab, NEW k \in Nat, NEW g \in FormType, NEW q \in FormCallType,
           form' = [form EXCEPT ![t] = g], calls' = [calls EXCEPT ![k] = q],
           CallSound(q, inbox'), FormSound(t, g),
           form[t].step = "home" => g.step = "home",
           form[t].phone \in Number => g.phone \in Number \/ g.step = "home",
           Steady(t, g) => Steady(t, form[t]),
           q.at # "none" => q.tab = t /\ Awaits(t, g, q),
           \A j \in F!Call : j # k /\ Mine(j, t) /\ Steady(t, g) =>
               Busy(g) /\ q.at = "none" /\ (t \in Extension \/ calls[j].otp # 0 \/ g.told # "finished")
    PROVE  FormInv'
<1>1. /\ form \in [Tab -> FormType] /\ calls \in [F!Call -> FormCallType]
  BY FormTypes DEF FormInv
<1>2. form'[t] = g /\ \A u \in Tab : u # t => form'[u] = form[u]
  BY <1>1
<1>3. \A j \in F!Call : IF j = k THEN calls'[j] = q ELSE calls'[j] = calls[j]
  BY <1>1
<1>4. ASSUME NEW j \in F!Call PROVE CallSound(calls'[j], inbox')
  <2>1. CASE j = k
    BY <1>3, <2>1
  <2>2. CASE j # k
    <3>1. CallSound(calls[j], inbox) /\ calls'[j] = calls[j]
      BY <1>3, <2>2 DEF FormInv
    <3>2. QED
      BY <3>1 DEF CallSound
  <2>3. QED
    BY <2>1, <2>2
<1>5. ASSUME NEW u \in Tab PROVE FormSound(u, form'[u])
  BY <1>2 DEF FormInv
<1>6. ASSUME NEW u \in Tab, NEW j \in F!Call, Mine(j, u)' PROVE Awaits(u, form'[u], calls'[j])
  <2>1. CASE j = k
    BY <1>2, <1>3, <1>6, <2>1 DEF Mine
  <2>2. CASE j # k
    <3>1. Mine(j, u) /\ Awaits(u, form[u], calls[j]) /\ calls'[j] = calls[j]
      BY <1>3, <1>6, <2>2 DEF FormInv, Mine
    <3>2. CASE u # t
      BY <1>2, <3>1, <3>2
    <3>3. CASE u = t
      <4>1. g.step = "home" \/ g.phone \in Number
        BY <3>1, <3>3 DEF Awaits
      <4>2. Steady(t, g) => Busy(g)
        BY <2>2, <3>1, <3>3
      <4>3. t \notin Extension /\ ~g.wentBack /\ calls[j].otp = 0 => g.told # "finished"
        BY <2>2, <3>1, <3>3 DEF Steady
      <4>4. QED
        BY <1>2, <3>1, <3>3, <4>1, <4>2, <4>3 DEF Awaits
    <3>4. QED
      BY <3>2, <3>3
  <2>3. QED
    BY <2>1, <2>2
<1>7. ASSUME NEW u \in Tab, NEW i \in F!Call, NEW j \in F!Call,
             Steady(u, form'[u]), Mine(i, u)', Mine(j, u)'
      PROVE  i = j
  <2>1. CASE u # t
    <3>1. i # k /\ j # k
      BY <1>3, <1>7, <2>1 DEF Mine
    <3>2. Mine(i, u) /\ Mine(j, u) /\ Steady(u, form[u])
      BY <1>2, <1>3, <1>7, <2>1, <3>1 DEF Mine
    <3>3. QED
      BY <3>2 DEF FormInv
  <2>2. CASE u = t
    <3>1. Steady(t, g) /\ Steady(t, form[t])
      BY <1>2, <1>7, <2>2
    <3>2. CASE i # k /\ j # k
      BY <1>3, <1>7, <2>2, <3>1, <3>2 DEF FormInv, Mine
    <3>3. CASE i = k /\ j # k
      BY <1>3, <1>7, <2>2, <3>1, <3>3 DEF Mine
    <3>4. CASE i # k /\ j = k
      BY <1>3, <1>7, <2>2, <3>1, <3>4 DEF Mine
    <3>5. QED
      BY <3>2, <3>3, <3>4
  <2>3. QED
    BY <2>1, <2>2
<1>8. F!SessionIsRead'
  BY DEF F!SessionIsRead, F!None
<1>9. QED
  BY <1>4, <1>5, <1>6, <1>7, <1>8 DEF FormInv

\* A step of a form alone.
OnlyForm == UNCHANGED <<calls, codeOf, inbox, attempts, session, glitches>>

LEMMA Shown ==
    ASSUME FormInv, NEW t \in Tab, NEW f \in FormType, F!Show(t, f)
    PROVE  \E g \in FormType : /\ form' = [form EXCEPT ![t] = g]
                               /\ form[t].step = "home" => g = form[t]
                               /\ form[t].step # "home" => g = f
<1>1. form[t] \in FormType
  BY FormTypes DEF FormInv
<1>2. CASE form[t].step = "home"
  <2>1. form' = [form EXCEPT ![t] = form[t]]
    BY <1>2 DEF F!Show
  <2>2. QED
    BY <1>1, <1>2, <2>1
<1>3. CASE form[t].step # "home"
  <2>1. form' = [form EXCEPT ![t] = f]
    BY <1>3 DEF F!Show
  <2>2. QED
    BY <1>3, <2>1
<1>4. QED
  BY <1>2, <1>3

LEMMA TypedForm ==
    ASSUME FormInv, NEW t \in Tab
    PROVE  /\ form \in [Tab -> FormType] /\ form[t] \in FormType /\ FormSound(t, form[t])
           /\ calls \in [F!Call -> FormCallType]
           /\ \A k \in F!Call : Mine(k, t) => Awaits(t, form[t], calls[k])
BY FormTypes DEF FormInv

LEMMA FormQuiet ==
    ASSUME FormInv, NEW t \in Tab, NEW f \in FormType, F!Show(t, f),
           OnlyForm,
           FormSound(t, f), f.step # "home",
           form[t].phone \in Number => f.phone \in Number,
           Steady(t, f) => Steady(t, form[t]),
           Steady(t, f) /\ Busy(form[t]) => Busy(f) \/ form[t].step = "home",
           f.told # "finished" \/ (f.told = form[t].told /\ f.wentBack = form[t].wentBack)
    PROVE  FormInv'
<1>1. PICK g \in FormType : /\ form' = [form EXCEPT ![t] = g]
                            /\ (form[t].step = "home" => g = form[t])
                            /\ (form[t].step # "home" => g = f)
  BY Shown
<1>2. F!TypeOK'
  <2>1. form' \in [Tab -> FormType]
    BY <1>1, TypedForm
  <2>2. QED
    BY <2>1, FormTypes DEF FormInv, F!TypeOK, FormType, F!None, OnlyForm
<1>3. CodesAreOfOne' /\ session' \in Readable \cup {"none"} /\ inbox \subseteq inbox'
  BY DEF FormInv, CodesAreOfOne, Asked, F!SessionIsRead, F!None, OnlyForm
<1>4. PICK q \in FormCallType : q.at = "none" /\ CallSound(q, inbox')
  <2>1. F!NoCall \in FormCallType /\ F!NoCall.at = "none" /\ CallSound(F!NoCall, inbox')
    BY FormConstants DEF F!NoCall, FormCallType, CallSound, F!None
  <2>2. QED
    BY <2>1
<1>5. PICK k \in Nat : k = 0 /\ calls' = [calls EXCEPT ![k] = q]
  <2>1. calls' = [calls EXCEPT ![0] = q]
    BY FormConstants, TypedForm DEF OnlyForm
  <2>2. QED
    BY <2>1
<1>6. FormSound(t, g) /\ (form[t].step = "home" => g.step = "home")
      /\ (form[t].phone \in Number => g.phone \in Number)
      /\ (Steady(t, g) => Steady(t, form[t]))
  BY <1>1, TypedForm
<1>7. ASSUME NEW j \in F!Call, Mine(j, t), Steady(t, g)
      PROVE  Busy(g) /\ (t \in Extension \/ calls[j].otp # 0 \/ g.told # "finished")
  <2>1. Awaits(t, form[t], calls[j]) /\ Steady(t, form[t]) /\ Busy(form[t])
    BY <1>6, <1>7, TypedForm DEF Awaits
  <2>2. CASE form[t].step = "home"
    <3>1. g = form[t]
      BY <1>1, <2>2
    <3>2. QED
      BY <2>1, <3>1 DEF Awaits, Steady
  <2>3. CASE form[t].step # "home"
    <3>1. g = f
      BY <1>1, <2>3
    <3>2. Busy(g)
      BY <1>7, <2>1, <2>3, <3>1
    <3>3. t \in Extension \/ calls[j].otp # 0 \/ g.told # "finished"
      BY <1>7, <2>1, <3>1 DEF Awaits, Steady
    <3>4. QED
      BY <3>2, <3>3
  <2>4. QED
    BY <2>2, <2>3
<1>8. \A j \in F!Call : j # k /\ Mine(j, t) /\ Steady(t, g) =>
        Busy(g) /\ q.at = "none" /\ (t \in Extension \/ calls[j].otp # 0 \/ g.told # "finished")
  BY <1>4, <1>7
<1>9. QED
  BY <1>1, <1>2, <1>3, <1>4, <1>5, <1>6, <1>8, FormStep

LEMMA FormRests ==
    ASSUME FormInv, UNCHANGED <<form, calls, codeOf, inbox, attempts, session, glitches>>
    PROVE  FormInv'
BY DEF FormInv, F!TypeOK, F!SessionIsRead, CodesAreOfOne, Asked, Mine

LEMMA HomeStays ==
    ASSUME FormInv, NEW t \in Tab, NEW f, F!Show(t, f), form[t].step = "home",
           OnlyForm
    PROVE  FormInv'
<1>1. form' = form
  BY TypedForm DEF F!Show
<1>2. QED
  BY <1>1, FormRests DEF OnlyForm

LEMMA ContinueSafe == ASSUME FormInv, NEW t \in Tab, F!Continue(t) PROVE FormInv'
<1> DEFINE f == [form[t] EXCEPT !.step = "phone"]
<1>1. F!Show(t, f) /\ OnlyForm /\ form[t].step = "intro"
  BY DEF F!Continue, F!server, OnlyForm
<1>2. /\ f \in FormType /\ f.step = "phone" /\ f.phone = form[t].phone /\ f.loading = form[t].loading
      /\ f.submitting = form[t].submitting /\ f.waiting = form[t].waiting
      /\ f.told = form[t].told /\ f.wentBack = form[t].wentBack
  BY TypedForm DEF FormType
<1> HIDE DEF f
<1>3. QED
  BY <1>1, <1>2, TypedForm, FormQuiet DEF FormSound, Steady, Busy

LEMMA GoBackToIntroSafe == ASSUME FormInv, NEW t \in Tab, F!GoBackToIntro(t) PROVE FormInv'
<1> DEFINE f == [form[t] EXCEPT !.step = "intro"]
<1>1. F!Show(t, f) /\ OnlyForm /\ form[t].step = "phone"
  BY DEF F!GoBackToIntro, F!server, OnlyForm
<1>2. /\ f \in FormType /\ f.step = "intro" /\ f.phone = form[t].phone /\ f.loading = form[t].loading
      /\ f.submitting = form[t].submitting /\ f.waiting = form[t].waiting
      /\ f.told = form[t].told /\ f.wentBack = form[t].wentBack
  BY TypedForm DEF FormType
<1> HIDE DEF f
<1>3. QED
  BY <1>1, <1>2, TypedForm, FormQuiet DEF FormSound, Steady, Busy

LEMMA TypePhoneSafe == ASSUME FormInv, NEW t \in Tab, NEW n \in Number, F!TypePhone(t, n) PROVE FormInv'
<1> DEFINE f == [form[t] EXCEPT !.phone = n, !.told = "none"]
<1>1. F!Show(t, f) /\ OnlyForm /\ form[t].step = "phone"
  BY DEF F!TypePhone, F!server, OnlyForm, F!None
<1>2. /\ f \in FormType /\ f.step = form[t].step /\ f.phone = n /\ f.loading = form[t].loading
      /\ f.submitting = form[t].submitting /\ f.told = "none" /\ f.wentBack = form[t].wentBack
  BY TypedForm DEF FormType
<1> HIDE DEF f
<1>3. QED
  BY <1>1, <1>2, TypedForm, FormQuiet DEF FormSound, Steady, Busy

LEMMA MinutePassesSafe == ASSUME FormInv, NEW t \in Tab, F!MinutePasses(t) PROVE FormInv'
<1> DEFINE f == [form[t] EXCEPT !.waiting = FALSE]
<1>1. F!Show(t, f) /\ OnlyForm
  BY DEF F!MinutePasses, F!server, OnlyForm
<1>2. /\ f \in FormType /\ f.step = form[t].step /\ f.phone = form[t].phone /\ f.loading = form[t].loading
      /\ f.submitting = form[t].submitting /\ f.waiting = FALSE
      /\ f.told = form[t].told /\ f.wentBack = form[t].wentBack
  BY TypedForm DEF FormType
<1> HIDE DEF f
<1>3. CASE form[t].step # "home"
  BY <1>1, <1>2, <1>3, TypedForm, FormQuiet DEF FormSound, Steady, Busy
<1>4. CASE form[t].step = "home"
  BY <1>1, <1>4, HomeStays
<1>5. QED
  BY <1>3, <1>4

LEMMA RenderSafe == ASSUME FormInv, NEW t \in Tab, F!Render(t) PROVE FormInv'
<1> DEFINE f == [form[t] EXCEPT !.loading = TRUE]
<1>1. F!Show(t, f) /\ OnlyForm
  BY DEF F!Render, F!server, OnlyForm
<1>2. /\ f \in FormType /\ f.step = form[t].step /\ f.phone = form[t].phone /\ f.loading
      /\ f.submitting = form[t].submitting /\ f.waiting = form[t].waiting
      /\ f.told = form[t].told /\ f.wentBack = form[t].wentBack
  BY TypedForm DEF FormType
<1> HIDE DEF f
<1>3. CASE form[t].step # "home"
  BY <1>1, <1>2, <1>3, TypedForm, FormQuiet DEF FormSound, Steady, Busy
<1>4. CASE form[t].step = "home"
  BY <1>1, <1>4, HomeStays
<1>5. QED
  BY <1>3, <1>4

LEMMA GoBackToPhoneSafe == ASSUME FormInv, NEW t \in Tab, F!GoBackToPhone(t) PROVE FormInv'
<1> DEFINE f == [F!BackToPhone(form[t]) EXCEPT !.loading = FALSE]
<1>1. /\ F!Show(t, f) /\ OnlyForm
      /\ form[t].step = "code" /\ t \notin Extension
  BY DEF F!GoBackToPhone, F!server, OnlyForm, F!OnCode
<1>2. /\ f \in FormType /\ f.step = "phone" /\ f.phone = form[t].phone /\ f.told = "none" /\ f.wentBack
  BY TypedForm DEF FormType, F!BackToPhone, F!None
<1> HIDE DEF f
<1>3. QED
  BY <1>1, <1>2, TypedForm, FormQuiet DEF FormSound, Steady, Busy

LEMMA PanelBackSafe == ASSUME FormInv, NEW t \in Tab, F!PanelBack(t) PROVE FormInv'
<1> DEFINE f == F!BackToPhone(form[t])
<1>1. /\ F!Show(t, f) /\ OnlyForm
      /\ form[t].step = "code" /\ t \in Extension /\ (form[t].submitting => form[t].loading)
  BY DEF F!PanelBack, F!server, OnlyForm, F!OnCode, F!Rendered
<1>2. /\ f \in FormType /\ f.step = "phone" /\ f.phone = form[t].phone /\ f.told = "none" /\ f.wentBack
      /\ f.loading = form[t].loading
  BY TypedForm DEF FormType, F!BackToPhone, F!None
<1> HIDE DEF f
<1>3. QED
  BY <1>1, <1>2, TypedForm, FormQuiet DEF FormSound, Steady, Busy

LEMMA CodeExpiresSafe == ASSUME FormInv, NEW n \in Number, F!CodeExpires(n) PROVE FormInv'
<1>1. /\ codeOf' = [codeOf EXCEPT ![n] = 0]
      /\ UNCHANGED <<form, calls, inbox, attempts, session, glitches>>
  BY DEF F!CodeExpires
<1>2. codeOf \in [Number -> 0 .. MaxCodes]
  BY FormTypes DEF FormInv
<1>3. codeOf' \in [Number -> 0 .. MaxCodes] /\ \A m \in Number : codeOf'[m] = 0 \/ codeOf'[m] = codeOf[m]
  BY <1>1, <1>2, FormConstants
<1>4. F!TypeOK' /\ CodesAreOfOne'
  BY <1>1, <1>3 DEF FormInv, F!TypeOK, CodesAreOfOne, Asked
<1>5. QED
  BY <1>1, <1>4 DEF FormInv, F!SessionIsRead, Mine

\* An answer that comes while its form is as it was.
LEMMA AnswerSafe ==
    ASSUME FormInv, F!TypeOK', CodesAreOfOne', inbox \subseteq inbox', NEW k \in F!Call,
           form' = form, session' = session, calls[k].at \in {"requesting", "verifying"},
           NEW answer \in {"sent", "matched", "wrong", "finished", "failed"}, F!Answer(k, answer),
           answer = "matched" => calls[k].phone \in Readable
    PROVE  FormInv'
<1> DEFINE q == [calls[k] EXCEPT !.at = "answered", !.answer = answer]
<1>1. /\ calls \in [F!Call -> FormCallType] /\ form \in [Tab -> FormType] /\ session \in Readable \cup {"none"}
      /\ CallSound(calls[k], inbox)
  BY FormTypes DEF FormInv, F!SessionIsRead, F!None
<1>2. calls' = [calls EXCEPT ![k] = q]
  BY <1>1 DEF F!Answer
<1>3. /\ q \in FormCallType /\ q.at = "answered" /\ q.tab = calls[k].tab /\ q.phone = calls[k].phone
      /\ q.otp = calls[k].otp /\ q.answer = answer
  BY <1>1 DEF FormCallType
<1> HIDE DEF q
<1>4. CallSound(q, inbox')
  BY <1>1, <1>3 DEF CallSound
<1>5. \A j \in F!Call : IF j = k THEN calls'[j] = q ELSE calls'[j] = calls[j]
  BY <1>1, <1>2
<1>6. ASSUME NEW j \in F!Call PROVE CallSound(calls'[j], inbox')
  <2>1. CASE j = k
    BY <1>4, <1>5, <2>1
  <2>2. CASE j # k
    <3>1. CallSound(calls[j], inbox) /\ calls'[j] = calls[j]
      BY <1>5, <2>2 DEF FormInv
    <3>2. QED
      BY <3>1 DEF CallSound
  <2>3. QED
    BY <2>1, <2>2
<1>7. \A j \in F!Call, t \in Tab : /\ Mine(j, t)' => Mine(j, t)
                                   /\ Awaits(t, form[t], calls[j]) => Awaits(t, form[t], calls'[j])
  BY <1>3, <1>5 DEF Mine, Awaits
<1>8. \A t \in Tab, j \in F!Call : Mine(j, t)' => Awaits(t, form'[t], calls'[j])
  BY <1>7 DEF FormInv
<1>9. \A t \in Tab, i, j \in F!Call : Steady(t, form'[t]) /\ Mine(i, t)' /\ Mine(j, t)' => i = j
  BY <1>7 DEF FormInv
<1>10. (\A t \in Tab : FormSound(t, form'[t])) /\ F!SessionIsRead'
  BY <1>1 DEF FormInv, F!SessionIsRead, F!None
<1>11. QED
  BY <1>6, <1>8, <1>9, <1>10 DEF FormInv

LEMMA AnswerTyped ==
    ASSUME FormInv, NEW k \in F!Call, NEW answer \in {"sent", "matched", "wrong", "finished", "failed"},
           F!Answer(k, answer)
    PROVE  calls' \in [F!Call -> FormCallType]
<1>1. calls \in [F!Call -> FormCallType]
  BY FormTypes DEF FormInv
<1>2. [calls[k] EXCEPT !.at = "answered", !.answer = answer] \in FormCallType
  BY <1>1 DEF FormCallType
<1>3. QED
  BY <1>1, <1>2 DEF F!Answer

LEMMA RefuseCodeSafe == ASSUME FormInv, NEW k \in F!Call, F!RefuseCode(k) PROVE FormInv'
<1>1. /\ F!Answer(k, "failed") /\ calls[k].at = "requesting" /\ session' = session /\ form' = form
      /\ UNCHANGED <<codeOf, inbox, attempts, glitches>>
  BY DEF F!RefuseCode, F!server
<1>2. F!TypeOK'
  BY <1>1, AnswerTyped DEF FormInv, F!TypeOK, FormCallType, F!None, F!WrongGuess
<1>3. CodesAreOfOne' /\ inbox \subseteq inbox'
  BY <1>1 DEF FormInv, CodesAreOfOne, Asked
<1>4. QED
  BY <1>1, <1>2, <1>3, AnswerSafe

LEMMA SentIsAsked == F!Sent = Cardinality(Asked)
<1>1. \A S : F!Cardinality(S) = Cardinality(S)
  BY DEF F!Cardinality, Cardinality
<1>2. QED
  BY <1>1 DEF F!Sent, Asked

LEMMA IssueCodeSafe == ASSUME FormInv, NEW k \in F!Call, F!IssueCode(k) PROVE FormInv'
<1> DEFINE n == calls[k].phone
           c == F!Sent + 1
<1>1. /\ calls[k].at = "requesting" /\ form' = form /\ session' = session
  BY DEF F!IssueCode
<1>2. /\ n \in Number /\ codeOf \in [Number -> 0 .. MaxCodes]
      /\ attempts \in [Number -> 0 .. OTP_MAX_ATTEMPTS] /\ inbox \subseteq Number \X (1 .. MaxCodes)
      /\ glitches \in 0 .. MaxGlitches
  BY <1>1, FormTypes DEF FormInv, CallSound
<1>3. PICK m \in 0 .. MaxCodes : Asked = 1 .. m
  BY DEF FormInv, CodesAreOfOne
<1>4. c = m + 1
  <2>1. Cardinality(1 .. m) = m
    BY FS_Interval, FormConstants
  <2>2. QED
    BY <1>3, <2>1, SentIsAsked
<1>5. PICK answer \in {"sent", "failed"} :
        /\ F!Answer(k, answer) /\ glitches' \in 0 .. MaxGlitches
        /\ \/ /\ c <= MaxCodes
              /\ codeOf' = [codeOf EXCEPT ![n] = c] /\ attempts' = [attempts EXCEPT ![n] = 0]
              /\ inbox' = inbox \cup {<<n, c>>}
           \/ /\ codeOf' = [codeOf EXCEPT ![n] = 0] /\ attempts' = [attempts EXCEPT ![n] = 0]
              /\ UNCHANGED inbox
  <2>1. F!Glitch => glitches' \in 0 .. MaxGlitches
    BY <1>2, FormConstants DEF F!Glitch
  <2>2. QED
    BY <1>2, <2>1 DEF F!IssueCode
<1> HIDE DEF n, c
<1>6. /\ codeOf' \in [Number -> 0 .. MaxCodes] /\ attempts' \in [Number -> 0 .. OTP_MAX_ATTEMPTS]
      /\ inbox' \subseteq Number \X (1 .. MaxCodes) /\ inbox \subseteq inbox'
  <2>1. 0 \in 0 .. MaxCodes /\ 0 \in 0 .. OTP_MAX_ATTEMPTS /\ c \in Nat /\ c >= 1
    BY <1>3, <1>4, FormConstants
  <2>2. QED
    BY <1>2, <1>5, <2>1, FormConstants
<1>7. calls' \in [F!Call -> FormCallType]
  BY <1>5, AnswerTyped
<1>8. F!TypeOK'
  BY <1>1, <1>5, <1>6, <1>7 DEF FormInv, F!TypeOK, FormCallType, F!None, F!WrongGuess
<1>9. CodesAreOfOne'
  <2>1. CASE inbox' = inbox /\ codeOf' = [codeOf EXCEPT ![n] = 0]
    <3>1. \A j \in Number : codeOf'[j] = 0 \/ codeOf'[j] = codeOf[j]
      BY <1>2, <2>1
    <3>2. QED
      BY <2>1, <3>1 DEF FormInv, CodesAreOfOne, Asked
  <2>2. CASE c <= MaxCodes /\ codeOf' = [codeOf EXCEPT ![n] = c] /\ inbox' = inbox \cup {<<n, c>>}
    <3>1. c \in 1 .. MaxCodes /\ c \notin Asked
      BY <1>3, <1>4, <2>2, FormConstants
    <3>2. Asked' = Asked \cup {c}
      BY <1>2, <2>2, <3>1 DEF Asked
    <3>3. Asked' = 1 .. m + 1 /\ m + 1 \in 0 .. MaxCodes
      BY <1>3, <1>4, <2>2, <3>2, FormConstants
    <3>4. \A i, j \in Number, d \in 1 .. MaxCodes : <<i, d>> \in inbox' /\ <<j, d>> \in inbox' => i = j
      <4>1. \A j \in Number : <<j, c>> \notin inbox
        BY <3>1 DEF Asked
      <4>2. QED
        BY <2>2, <4>1 DEF FormInv, CodesAreOfOne
    <3>5. \A j \in Number : codeOf'[j] # 0 => <<j, codeOf'[j]>> \in inbox'
      BY <1>2, <2>2 DEF FormInv, CodesAreOfOne
    <3>6. QED
      BY <3>3, <3>4, <3>5 DEF CodesAreOfOne
  <2>3. QED
    BY <1>5, <2>1, <2>2
<1>10. QED
  BY <1>1, <1>5, <1>6, <1>8, <1>9, AnswerSafe

LEMMA VerifyCodeSafe == ASSUME FormInv, NEW k \in F!Call, F!VerifyCode(k) PROVE FormInv'
<1> DEFINE n == calls[k].phone
           otp == calls[k].otp
           verdict == F!Verdict(n, otp)
<1>1. /\ calls[k].at = "verifying" /\ form' = form /\ session' = session /\ UNCHANGED inbox
      /\ codeOf' = [codeOf EXCEPT ![n] = IF verdict = "wrong" THEN @ ELSE 0]
      /\ attempts' = [attempts EXCEPT ![n] = IF verdict = "finished" THEN @ ELSE @ + 1]
  BY DEF F!VerifyCode
<1>2. /\ n \in Number /\ codeOf \in [Number -> 0 .. MaxCodes] /\ otp # 0
      /\ attempts \in [Number -> 0 .. OTP_MAX_ATTEMPTS]
      /\ glitches \in 0 .. MaxGlitches
      /\ (otp = MaxCodes + 1 \/ \E m \in Readable : <<m, otp>> \in inbox)
      /\ inbox \subseteq Number \X (1 .. MaxCodes)
  BY <1>1, FormTypes DEF FormInv, CallSound
<1>3. /\ verdict \in {"finished", "matched", "wrong"}
      /\ (verdict # "finished" => attempts[n] < OTP_MAX_ATTEMPTS)
      /\ (verdict = "matched" => codeOf[n] = otp)
  BY <1>2, FormConstants DEF F!Verdict, F!Finished, F!SameCode
<1>4. PICK answer \in {verdict, "failed"} : F!Answer(k, answer) /\ glitches' \in 0 .. MaxGlitches
  <2>1. F!Glitch => glitches' \in 0 .. MaxGlitches
    BY <1>2, FormConstants DEF F!Glitch
  <2>2. QED
    BY <1>2, <2>1 DEF F!VerifyCode
<1> HIDE DEF n, otp, verdict
<1>5. verdict = "matched" => n \in Readable
  <2>1. SUFFICES ASSUME verdict = "matched" PROVE n \in Readable
    OBVIOUS
  <2>2. codeOf[n] = otp /\ otp \in 1 .. MaxCodes /\ <<n, otp>> \in inbox
    BY <1>2, <1>3, <2>1, FormConstants DEF FormInv, CodesAreOfOne
  <2>3. PICK m \in Readable : <<m, otp>> \in inbox
    BY <1>2, <2>2, FormConstants
  <2>4. n = m
    BY <1>2, <2>2, <2>3, FormConstants DEF FormInv, CodesAreOfOne
  <2>5. QED
    BY <2>3, <2>4
<1>6. /\ codeOf' \in [Number -> 0 .. MaxCodes] /\ attempts' \in [Number -> 0 .. OTP_MAX_ATTEMPTS]
      /\ \A j \in Number : codeOf'[j] = 0 \/ codeOf'[j] = codeOf[j]
  BY <1>1, <1>2, <1>3, FormConstants
<1>7. calls' \in [F!Call -> FormCallType]
  BY <1>3, <1>4, AnswerTyped
<1>8. F!TypeOK'
  BY <1>1, <1>4, <1>6, <1>7 DEF FormInv, F!TypeOK, FormCallType, F!None, F!WrongGuess
<1>9. CodesAreOfOne' /\ inbox \subseteq inbox'
  BY <1>1, <1>6 DEF FormInv, CodesAreOfOne, Asked
<1>10. answer = "matched" => calls[k].phone \in Readable
  BY <1>4, <1>5 DEF n
<1>11. QED
  BY <1>1, <1>3, <1>4, <1>8, <1>9, <1>10, AnswerSafe

\* A form and its fetches, whatever the session becomes.
OnlyForms == UNCHANGED <<codeOf, inbox, attempts, glitches>>

LEMMA FormsTyped ==
    ASSUME FormInv, OnlyForms, form' \in [Tab -> FormType], calls' \in [F!Call -> FormCallType],
           session' \in Readable \cup {"none"}
    PROVE  F!TypeOK' /\ CodesAreOfOne' /\ inbox \subseteq inbox'
<1>1. F!TypeOK'
  BY FormConstants DEF OnlyForms, FormInv, F!TypeOK, FormType, FormCallType, F!None, F!WrongGuess
<1>2. QED
  BY <1>1 DEF OnlyForms, FormInv, CodesAreOfOne, Asked

\* A form learns how its fetch ended.
LEMMA FetchEnds ==
    ASSUME FormInv, OnlyForms, session' = session, NEW t \in Tab, NEW k \in F!Call, Mine(k, t),
           F!Done(k), NEW f \in FormType, F!Show(t, f), FormSound(t, f),
           form[t].phone \in Number => f.phone \in Number \/ f.step = "home",
           Steady(t, f) => Steady(t, form[t])
    PROVE  FormInv'
<1>1. PICK g \in FormType : /\ form' = [form EXCEPT ![t] = g]
                            /\ (form[t].step = "home" => g = form[t])
                            /\ (form[t].step # "home" => g = f)
  BY Shown
<1>2. PICK q \in FormCallType : q.at = "none" /\ CallSound(q, inbox') /\ calls' = [calls EXCEPT ![k] = q]
  <2>1. F!NoCall \in FormCallType /\ F!NoCall.at = "none" /\ CallSound(F!NoCall, inbox')
    BY FormConstants DEF F!NoCall, FormCallType, CallSound, F!None
  <2>2. QED
    BY <2>1 DEF F!Done
<1>3. /\ FormSound(t, g) /\ (form[t].step = "home" => g.step = "home")
      /\ (form[t].phone \in Number => g.phone \in Number \/ g.step = "home")
      /\ (Steady(t, g) => Steady(t, form[t]))
  BY <1>1, TypedForm
<1>4. \A j \in F!Call : j # k /\ Mine(j, t) /\ Steady(t, g) => FALSE
  BY <1>3 DEF FormInv
<1>5. k \in Nat /\ session' \in Readable \cup {"none"}
  BY DEF F!Call, FormInv, F!SessionIsRead, F!None
<1>6. F!TypeOK' /\ CodesAreOfOne' /\ inbox \subseteq inbox'
  <2>1. form' \in [Tab -> FormType] /\ calls' \in [F!Call -> FormCallType]
    BY <1>1, <1>2, TypedForm
  <2>2. QED
    BY <1>5, <2>1, FormsTyped
<1>7. QED
  BY <1>1, <1>2, <1>3, <1>4, <1>5, <1>6, FormStep

LEMMA CodeAnsweredSafe == ASSUME FormInv, NEW t \in Tab, NEW k \in F!Call, F!CodeAnswered(t, k) PROVE FormInv'
<1>1. /\ OnlyForms /\ session' = session /\ Mine(k, t) /\ F!Done(k) /\ calls[k].otp = 0
      /\ calls[k].answer \in {"sent", "failed"}
  BY DEF F!CodeAnswered, F!server, OnlyForms, Mine
<1>2. CASE calls[k].answer = "sent"
  <2> DEFINE f == [form[t] EXCEPT !.step = "code", !.waiting = TRUE, !.loading = FALSE]
  <2>1. F!Show(t, f)
    BY <1>2 DEF F!CodeAnswered
  <2>2. /\ f \in FormType /\ f.step = "code" /\ f.phone = form[t].phone
        /\ f.told = form[t].told /\ f.wentBack = form[t].wentBack
    BY TypedForm DEF FormType
  <2> HIDE DEF f
  <2>3. Awaits(t, form[t], calls[k])
    BY <1>1, TypedForm
  <2>4. CASE form[t].step = "home"
    <3>1. F!Show(t, form[t])
      BY <2>1, <2>4 DEF F!Show
    <3>2. QED
      BY <1>1, <2>4, <3>1, TypedForm, FetchEnds
  <2>5. CASE form[t].step # "home"
    <3>1. form[t].phone \in Number
      BY <2>3, <2>5 DEF Awaits
    <3>2. FormSound(t, f)
      BY <1>1, <2>2, <2>3, <3>1 DEF Awaits, FormSound
    <3>3. Steady(t, f) => Steady(t, form[t])
      BY <2>2 DEF Steady
    <3>4. QED
      BY <1>1, <2>1, <2>2, <3>2, <3>3, FetchEnds
  <2>6. QED
    BY <2>4, <2>5
<1>3. CASE calls[k].answer = "failed"
  <2> DEFINE f == [form[t] EXCEPT !.told = "failed", !.loading = FALSE]
  <2>1. F!Show(t, f)
    BY <1>3 DEF F!CodeAnswered
  <2>2. /\ f \in FormType /\ f.step = form[t].step /\ f.phone = form[t].phone
        /\ f.told = "failed" /\ f.wentBack = form[t].wentBack
    BY TypedForm DEF FormType
  <2> HIDE DEF f
  <2>3. FormSound(t, f) /\ (Steady(t, f) => Steady(t, form[t]))
    BY <2>2, TypedForm DEF FormSound, Steady
  <2>4. QED
    BY <1>1, <2>1, <2>2, <2>3, FetchEnds
<1>4. QED
  BY <1>1, <1>2, <1>3

LEMMA SettleSafe == ASSUME FormInv, NEW t \in Tab, NEW k \in F!Call, F!Settle(t, k) PROVE FormInv'
<1> DEFINE f == [F!Form("home") EXCEPT !.wentBack = form[t].wentBack]
<1>1. OnlyForms /\ session' = session /\ Mine(k, t) /\ F!Done(k) /\ F!Show(t, f)
  BY DEF F!Settle, F!server, OnlyForms, Mine
<1>2. f \in FormType /\ f.step = "home" /\ f.told = "none" /\ f.wentBack = form[t].wentBack
  BY TypedForm DEF FormType, F!Form, F!None
<1> HIDE DEF f
<1>3. FormSound(t, f) /\ (Steady(t, f) => Steady(t, form[t]))
  BY <1>2 DEF FormSound, Steady
<1>4. QED
  BY <1>1, <1>2, <1>3, FetchEnds

LEMMA NotMatchedSafe == ASSUME FormInv, NEW t \in Tab, NEW k \in F!Call, F!NotMatched(t, k) PROVE FormInv'
<1> DEFINE answer == calls[k].answer
           f == IF t \in Extension THEN F!PanelFails(form[t], answer) ELSE F!TabFails(form[t], answer)
<1>1. /\ OnlyForms /\ session' = session /\ Mine(k, t) /\ F!Done(k) /\ F!Show(t, f)
      /\ answer \in {"wrong", "finished", "failed"}
  BY DEF F!NotMatched, F!server, OnlyForms, Mine
<1>2. /\ f \in FormType /\ f.step = form[t].step /\ f.phone = form[t].phone
      /\ f.told = answer /\ f.wentBack = form[t].wentBack
      /\ (t \notin Extension /\ answer = "finished" => ~f.waiting)
  <2>1. CASE t \in Extension
    BY <1>1, <2>1, TypedForm DEF FormType, F!PanelFails, F!Again
  <2>2. CASE t \notin Extension
    BY <1>1, <2>2, TypedForm DEF FormType, F!TabFails, F!Again
  <2>3. QED
    BY <2>1, <2>2
<1> HIDE DEF answer, f
<1>3. FormSound(t, f) /\ (Steady(t, f) => Steady(t, form[t]))
  BY <1>2, TypedForm DEF FormSound, Steady
<1>4. QED
  BY <1>1, <1>2, <1>3, FetchEnds

LEMMA MatchedSafe == ASSUME FormInv, NEW t \in Tab, NEW k \in F!Call, F!Matched(t, k) PROVE FormInv'
<1> DEFINE f == IF t \in Extension THEN F!PanelWaits(form[t]) ELSE F!TabWaits(form[t])
           r == [calls[k] EXCEPT !.at = "settling"]
<1>1. /\ OnlyForms /\ Mine(k, t) /\ F!Show(t, f) /\ calls[k].answer = "matched"
      /\ session' = calls[k].phone /\ calls' = [calls EXCEPT ![k] = r]
  BY TypedForm DEF F!Matched, F!server, OnlyForms, Mine
<1>2. /\ f \in FormType /\ f.phone = form[t].phone /\ f.told = form[t].told /\ f.waiting = form[t].waiting
      /\ f.wentBack = form[t].wentBack /\ f.loading = form[t].loading /\ f.submitting = form[t].submitting
      /\ (t \in Extension => f.step = "code") /\ (t \notin Extension => f.step = form[t].step)
  <2>1. CASE t \in Extension
    BY <2>1, TypedForm DEF FormType, F!PanelWaits
  <2>2. CASE t \notin Extension
    BY <2>2, TypedForm DEF FormType, F!TabWaits
  <2>3. QED
    BY <2>1, <2>2
<1>3. /\ r \in FormCallType /\ r.at = "settling" /\ r.tab = calls[k].tab /\ r.phone = calls[k].phone
      /\ r.otp = calls[k].otp /\ r.answer = "matched"
  BY <1>1, TypedForm DEF FormCallType
<1> HIDE DEF f, r
<1>4. CallSound(calls[k], inbox) /\ Awaits(t, form[t], calls[k])
  BY <1>1 DEF FormInv
<1>5. calls[k].at # "none" /\ calls[k].tab = t /\ calls[k].phone \in Readable
  BY <1>1, <1>4 DEF CallSound, Mine
<1>6. PICK g \in FormType : /\ form' = [form EXCEPT ![t] = g]
                            /\ (form[t].step = "home" => g = form[t])
                            /\ (form[t].step # "home" => g = f)
  BY <1>1, <1>2, Shown
<1>7. PICK q \in FormCallType : q = r /\ calls' = [calls EXCEPT ![k] = q]
  BY <1>1, <1>3
<1>8. /\ CallSound(q, inbox') /\ q.tab = t /\ q.otp = calls[k].otp
  BY <1>1, <1>3, <1>4, <1>5, <1>7 DEF CallSound, OnlyForms
<1>9. /\ FormSound(t, g) /\ (form[t].step = "home" => g.step = "home") /\ g.phone = form[t].phone
      /\ (Steady(t, g) => Steady(t, form[t])) /\ Awaits(t, g, q)
  <2>1. CASE form[t].step = "home"
    <3>1. g = form[t]
      BY <1>6, <2>1
    <3>2. QED
      BY <1>4, <1>8, <3>1, TypedForm DEF Awaits
  <2>2. CASE form[t].step # "home"
    <3>1. g = f /\ form[t].phone \in Number
      BY <1>4, <1>6, <2>2 DEF Awaits
    <3>2. FormSound(t, g) /\ (Steady(t, g) => Steady(t, form[t]))
      BY <1>2, <3>1, TypedForm DEF FormSound, Steady
    <3>3. Awaits(t, g, q)
      BY <1>2, <1>4, <1>8, <2>2, <3>1 DEF Awaits, Steady, Busy
    <3>4. QED
      BY <1>2, <2>2, <3>1, <3>2, <3>3
  <2>3. QED
    BY <2>1, <2>2
<1>10. \A j \in F!Call : j # k /\ Mine(j, t) /\ Steady(t, g) => FALSE
  BY <1>1, <1>9 DEF FormInv
<1>11. k \in Nat /\ session' \in Readable \cup {"none"}
  BY <1>1, <1>5 DEF F!Call
<1>12. F!TypeOK' /\ CodesAreOfOne' /\ inbox \subseteq inbox'
  <2>1. form' \in [Tab -> FormType] /\ calls' \in [F!Call -> FormCallType]
    BY <1>6, <1>7, TypedForm
  <2>2. QED
    BY <1>1, <1>11, <2>1, FormsTyped
<1>13. QED
  BY <1>6, <1>7, <1>8, <1>9, <1>10, <1>11, <1>12, FormStep

\* A form that waits for nothing sends a fetch.
LEMMA FetchStarts ==
    ASSUME FormInv, OnlyForms, session' = session, NEW t \in Tab, NEW k \in F!Call,
           NEW at \in {"requesting", "verifying"}, NEW otp \in 0 .. MaxCodes + 1, F!Post(k, at, t, otp),
           at = "requesting" => otp = 0,
           at = "verifying" => otp # 0,
           otp # 0 => otp = MaxCodes + 1 \/ \E m \in Readable : <<m, otp>> \in inbox,
           ~Busy(form[t]), form[t].phone \in Number,
           NEW f \in FormType, F!Show(t, f), Busy(f), f.told = "none",
           f.phone = form[t].phone, f.wentBack = form[t].wentBack
    PROVE  FormInv'
<1> DEFINE r == [F!NoCall EXCEPT !.at = at, !.tab = t, !.phone = form[t].phone, !.otp = otp]
<1>1. /\ r \in FormCallType /\ r.at = at /\ r.tab = t /\ r.phone = form[t].phone /\ r.otp = otp
      /\ r.answer = "none"
  BY FormConstants DEF F!NoCall, FormCallType, F!None
<1>2. calls' = [calls EXCEPT ![k] = r]
  BY DEF F!Post
<1> HIDE DEF r
<1>3. CallSound(r, inbox')
  BY <1>1 DEF CallSound, OnlyForms
<1>4. PICK q \in FormCallType : q = r /\ calls' = [calls EXCEPT ![k] = q] /\ CallSound(q, inbox')
  BY <1>1, <1>2, <1>3
<1>5. form' = [form EXCEPT ![t] = f]
  BY DEF F!Show, Busy
<1>6. FormSound(t, f) /\ (Steady(t, f) => Steady(t, form[t])) /\ q.tab = t /\ Awaits(t, f, q)
  BY <1>1, <1>4 DEF FormSound, Steady, Awaits
<1>7. \A j \in F!Call : j # k /\ Mine(j, t) /\ Steady(t, f) => FALSE
  BY <1>6, TypedForm DEF Awaits
<1>8. k \in Nat /\ session' \in Readable \cup {"none"} /\ form[t].step # "home"
  BY DEF F!Call, FormInv, F!SessionIsRead, F!None, Busy
<1>9. F!TypeOK' /\ CodesAreOfOne' /\ inbox \subseteq inbox'
  <2>1. form' \in [Tab -> FormType] /\ calls' \in [F!Call -> FormCallType]
    BY <1>4, <1>5, TypedForm
  <2>2. QED
    BY <1>8, <2>1, FormsTyped
<1>10. QED
  BY <1>4, <1>5, <1>6, <1>7, <1>8, <1>9, FormStep

LEMMA RequestCodeSafe == ASSUME FormInv, NEW t \in Tab, NEW k \in F!Call, F!RequestCode(t, k) PROVE FormInv'
<1> DEFINE f == [form[t] EXCEPT !.loading = TRUE, !.told = "none"]
<1>1. /\ OnlyForms /\ session' = session /\ F!Post(k, "requesting", t, 0) /\ F!Show(t, f)
  BY DEF F!RequestCode, F!server, OnlyForms, F!None
<1>2. f \in FormType /\ f.loading /\ f.told = "none" /\ f.phone = form[t].phone /\ f.wentBack = form[t].wentBack
  BY TypedForm DEF FormType
<1> HIDE DEF f
<1>3. form[t].step # "home" /\ ~form[t].loading /\ ~form[t].submitting
  BY DEF F!RequestCode, F!OnCode, F!Rendered
<1>4. form[t].phone \in Number
  BY TypedForm DEF F!RequestCode, F!OnCode, FormSound, FormType, F!None
<1>5. Busy(f) /\ ~Busy(form[t]) /\ 0 \in 0 .. MaxCodes + 1
  BY <1>2, <1>3, FormConstants DEF Busy
<1>6. QED
  BY <1>1, <1>2, <1>4, <1>5, FetchStarts

LEMMA FillCodeSafe ==
    ASSUME FormInv, NEW t \in Tab, NEW k \in F!Call, NEW otp \in 1 .. F!WrongGuess, F!FillCode(t, k, otp)
    PROVE  FormInv'
<1> DEFINE f == [form[t] EXCEPT !.submitting = TRUE, !.told = "none"]
<1>1. /\ OnlyForms /\ session' = session /\ F!Post(k, "verifying", t, otp) /\ F!Show(t, f)
  BY DEF F!FillCode, F!server, OnlyForms, F!None
<1>2. f \in FormType /\ f.submitting /\ f.told = "none" /\ f.phone = form[t].phone /\ f.wentBack = form[t].wentBack
  BY TypedForm DEF FormType
<1> HIDE DEF f
<1>3. form[t].step = "code" /\ ~form[t].loading /\ ~form[t].submitting
  BY DEF F!FillCode, F!OnCode, F!NotSubmitting
<1>4. form[t].phone \in Number
  BY <1>3, TypedForm DEF FormSound
<1>5. Busy(f) /\ ~Busy(form[t])
  BY <1>2, <1>3 DEF Busy
<1>6. /\ otp \in 0 .. MaxCodes + 1 /\ otp # 0
      /\ (otp = MaxCodes + 1 \/ \E m \in Readable : <<m, otp>> \in inbox)
  BY FormConstants DEF F!FillCode, F!Typed, F!WrongGuess
<1>7. QED
  BY <1>1, <1>2, <1>4, <1>5, <1>6, FetchStarts

LEMMA FormInit == F!Init => FormInv
<1> SUFFICES ASSUME F!Init PROVE FormInv
  OBVIOUS
<1>1. /\ form \in [Tab -> {F!Form(step) : step \in {"intro", "phone", "home"}}]
      /\ calls = [k \in F!Call |-> F!NoCall] /\ codeOf = [n \in Number |-> 0]
      /\ attempts = [n \in Number |-> 0] /\ inbox = {} /\ session = "none" /\ glitches = 0
  BY DEF F!Init, F!None
<1>2. \A f \in {F!Form(step) : step \in {"intro", "phone", "home"}} :
        f \in FormType /\ f.step # "code" /\ f.told = "none"
  <2>1. ASSUME NEW step \in {"intro", "phone", "home"}
        PROVE  F!Form(step) \in FormType /\ F!Form(step).step # "code" /\ F!Form(step).told = "none"
    BY DEF F!Form, FormType, F!None
  <2>2. QED
    BY <2>1
<1>3. F!NoCall \in FormCallType /\ F!NoCall.at = "none"
  BY FormConstants DEF F!NoCall, FormCallType, F!None
<1>4. F!TypeOK
  <2>1. form \in [Tab -> FormType]
    BY <1>1, <1>2
  <2>2. calls \in [F!Call -> FormCallType]
    BY <1>1, <1>3
  <2>3. 0 \in 0 .. MaxCodes /\ 0 \in 0 .. OTP_MAX_ATTEMPTS /\ glitches \in 0 .. MaxGlitches
    BY <1>1, FormConstants
  <2>4. codeOf \in [Number -> 0 .. MaxCodes] /\ attempts \in [Number -> 0 .. OTP_MAX_ATTEMPTS]
    BY <1>1, <2>3
  <2>5. QED
    BY <1>1, <2>1, <2>2, <2>3, <2>4, FormTypes
<1>5. \A k \in F!Call : calls[k].at = "none"
  BY <1>1, <1>3
<1>6. CodesAreOfOne
  <2>1. Asked = 1 .. 0 /\ 0 \in 0 .. MaxCodes
    BY <1>1, FormConstants DEF Asked
  <2>2. QED
    BY <1>1, <2>1 DEF CodesAreOfOne
<1>7. (\A k \in F!Call : CallSound(calls[k], inbox)) /\ \A t \in Tab, k \in F!Call : ~Mine(k, t)
  BY <1>5 DEF CallSound, Mine
<1>8. \A t \in Tab : FormSound(t, form[t])
  BY <1>1, <1>2 DEF FormSound
<1>9. F!SessionIsRead
  BY <1>1 DEF F!SessionIsRead, F!None
<1>10. QED
  BY <1>4, <1>6, <1>7, <1>8, <1>9 DEF FormInv

LEMMA FormNext == FormInv /\ [F!Next]_(F!vars) => FormInv'
<1>1. ASSUME FormInv, F!Next PROVE FormInv'
  BY <1>1, ContinueSafe, MinutePassesSafe, RenderSafe, GoBackToPhoneSafe, PanelBackSafe, GoBackToIntroSafe,
     TypePhoneSafe, RequestCodeSafe, CodeAnsweredSafe, MatchedSafe, SettleSafe, NotMatchedSafe, FillCodeSafe,
     IssueCodeSafe, RefuseCodeSafe, VerifyCodeSafe, CodeExpiresSafe DEF F!Next
<1>2. ASSUME FormInv, UNCHANGED F!vars PROVE FormInv'
  BY <1>2, FormRests DEF F!vars
<1>3. QED
  BY <1>1, <1>2

LEMMA FormStepsLift == [AccountsNext]_allVars => [F!Next]_(F!vars)
BY DEF AccountsNext, allVars, FVars, F!vars

LEMMA AtMostOne ==
    ASSUME NEW S, \A x, y \in S : x = y
    PROVE  IsFiniteSet(S) /\ Cardinality(S) <= 1
<1>1. CASE S = {}
  BY <1>1, FS_EmptySet
<1>2. CASE S # {}
  <2>1. PICK x : S = {x}
    BY <1>2
  <2>2. IsFiniteSet({x}) /\ Cardinality({x}) = 1
    BY FS_Singleton
  <2>3. QED
    BY <2>1, <2>2
<1>3. QED
  BY <1>1, <1>2

LEMMA FormHolds == FormInv => F!TypeOK /\ F!OneAtATime /\ F!WayOut /\ F!SessionIsRead
<1> SUFFICES ASSUME FormInv PROVE F!OneAtATime /\ F!WayOut
  BY DEF FormInv
<1>1. ASSUME NEW t \in Tab, t \in Extension \/ ~form[t].wentBack
      PROVE  F!Cardinality(F!Verifying(t)) <= 1
  <2>1. \A j, k \in F!Verifying(t) : j = k
    BY <1>1 DEF F!Verifying, FormInv, Steady, Mine
  <2>2. F!Cardinality(F!Verifying(t)) = Cardinality(F!Verifying(t))
    BY DEF F!Cardinality, Cardinality
  <2>3. QED
    BY <2>1, <2>2, AtMostOne
<1>2. F!OneAtATime
  BY <1>1 DEF F!OneAtATime
<1>3. F!WayOut
  BY DEF F!WayOut, FormInv, FormSound
<1>4. QED
  BY <1>2, <1>3

LEMMA CodeHolds ==
    CodeInv => /\ A!TypeOK /\ A!GuessesBounded /\ A!WindowBounded /\ A!OneAlive /\ A!SessionsCostTries
               /\ A!OneAccountPerNumber
<1> SUFFICES ASSUME CodeInv
             PROVE  /\ A!GuessesBounded /\ A!WindowBounded /\ A!OneAlive /\ A!SessionsCostTries
                    /\ A!OneAccountPerNumber
  BY DEF CodeInv
<1>1. A!GuessesBounded
  <2>1. \A c \in A!Row : tries[c] = code[c].attempts /\ code[c].attempts \in 0 .. OTP_MAX_ATTEMPTS
    BY CodesTyped DEF CodeInv, TriesCounted, A!Rows
  <2>2. QED
    BY <2>1, CodeConstants DEF A!GuessesBounded
<1>2. A!WindowBounded
  <2>1. Cardinality(A!InWindow) + Cardinality(Adding) < OTP_MAX_PER_WINDOW + Cardinality(Slot)
    BY DEF CodeInv, WindowTracked
  <2>2. QED
    BY <2>1, CodesFinite, CodeConstants, SameCountOfCodes DEF A!WindowBounded
<1>3. A!OneAlive
  <2>1. ASSUME ~crowded, otpFaults = 0 PROVE Cardinality(A!Live) <= 1
    BY <2>1, AtMostOne DEF CodeInv, OneCode
  <2>2. QED
    BY <2>1, SameCountOfCodes DEF A!OneAlive
<1>4. A!SessionsCostTries
  <2>1. ASSUME NEW c \in A!Row PROVE opened[c] <= tries[c]
    <3>1. opened[c] \in Nat /\ tries[c] \in Nat /\ opened[c] + Cardinality(Winning(c)) <= tries[c]
      BY CodesTyped, CodeConstants DEF CodeInv, WinsPaid
    <3>2. QED
      BY <3>1, CodesFinite
  <2>2. QED
    BY <2>1 DEF A!SessionsCostTries
<1>5. A!OneAccountPerNumber
  BY DEF CodeInv, OneAccount, A!OneAccountPerNumber
<1>6. QED
  BY <1>1, <1>2, <1>3, <1>4, <1>5

\* The codes of a number keep their bounds and its sign-ins lead to one account; a form spends one
\* try at a time, offers the new code it tells of, and gets in only who reads the number's messages.
THEOREM CodesAreKept == AccountsSpec => []CodesHold
<1>1. AccountsInit => CodeInv /\ FormInv
  BY CodeInit, FormInit DEF AccountsInit
<1>2. CodeInv /\ FormInv /\ [AccountsNext]_allVars => CodeInv' /\ FormInv'
  BY CodeNext, CodeStepsLift, FormNext, FormStepsLift
<1>3. CodeInv /\ FormInv => CodesHold
  BY CodeHolds, FormHolds DEF CodesHold
<1>4. QED
  BY <1>1, <1>2, <1>3, PTL DEF AccountsSpec
=============================================================================
