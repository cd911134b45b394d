-------------------------- MODULE Services_proofs --------------------------
(***************************************************************************)
(* Theorems about what the server pays out of its own wallet, for every    *)
(* number of users, orders, slots, amounts and faults: packets, top-ups,   *)
(* and the screen that waits for a top-up.                                 *)
(***************************************************************************)
EXTENDS MCServices

\* nextShare of a packet that has a unit for every free slot gives at least one,
\* leaves one for every later slot, and the last slot everything.
LEMMA NextShareFits ==
    ASSUME NEW left \in Nat, NEW slots \in Nat, slots >= 1, left >= slots,
           NEW mode \in SplitMode, NEW s \in NextShares(left, slots, mode)
    PROVE  /\ s \in Nat /\ s >= 1
           /\ left - s >= slots - 1
           /\ slots = 1 => s = left
<1>1. CASE slots = 1
  BY <1>1 DEF NextShares
<1>2. CASE slots > 1 /\ mode = "equal"
  <2> DEFINE q == left \div slots
  <2>1. q \in Nat /\ q * slots <= left /\ left < q * slots + slots
    OBVIOUS
  <2>2. s = q
    BY <1>2 DEF NextShares
  <2> HIDE DEF q
  <2>3. q >= 1
    BY <2>1
  <2>4. \E k \in Nat : q = k + 1
    BY <2>1, <2>3
  <2>5. PICK k \in Nat : q = k + 1
    BY <2>4
  <2>6. q * slots = k * slots + slots /\ k * slots \in Nat /\ k * slots >= k
    BY <2>5, <1>2
  <2>7. left - q >= slots - 1
    BY <2>1, <2>5, <2>6
  <2>8. QED
    BY <2>2, <2>3, <2>7, <1>2, <2>1
<1>3. CASE slots > 1 /\ mode = "random"
  <2>1. PICK draw \in Drawn(left, slots) : s = Spared(draw, left, slots)
    BY <1>3 DEF NextShares
  <2> DEFINE q == left \div slots
  <2>2. q \in Int
    BY <1>3
  <2>3. PICK r \in 0 .. AtLeastOne(2 * q) - 1 : draw = AtLeastOne(r)
    BY <2>1 DEF Drawn
  <2> HIDE DEF q
  <2>4. r \in Nat
    BY <2>2, <2>3 DEF AtLeastOne
  <2>5. draw \in Nat /\ draw >= 1
    BY <2>3, <2>4 DEF AtLeastOne
  <2>6. QED
    BY <2>1, <2>5, <1>3 DEF Spared, AtLeastOne
<1>4. QED
  BY <1>1, <1>2, <1>3 DEF SplitMode

\* A claim adds its share to the sum and its user to the claimers.
LEMMA ClaimAdds ==
    ASSUME NEW M \in Nat, IsFiniteSet(User), NEW u \in User,
           NEW f \in [User -> 0 .. M], NEW g \in [User -> 0 .. M],
           f[u] = 0, g[u] > 0, \A v \in User \ {u} : g[v] = f[v],
           NEW F, F = {v \in User : f[v] > 0}, NEW G, G = {v \in User : g[v] > 0}
    PROVE  /\ Total(g, G) = Total(f, F) + g[u]
           /\ Cardinality(G) = Cardinality(F) + 1
<1>1. G = F \cup {u} /\ u \notin F /\ F \in SUBSET User
  OBVIOUS
<1>2. \A v \in F : g[v] = f[v]
  OBVIOUS
<1>3. Total(g, F) = Total(f, F)
  BY <1>2, TotalDependsOnAmounts
<1>4. ASSUME NEW H \in SUBSET User, u \notin H
      PROVE  Total(g, H \cup {u}) = Total(g, H) + g[u]
  BY <1>4, TotalAdd
<1>5. Total(g, F \cup {u}) = Total(g, F) + g[u]
  BY <1>1, <1>4
<1>6. IsFiniteSet(F)
  BY <1>1, FS_Subset
<1>7. Cardinality(F \cup {u}) = Cardinality(F) + 1
  BY <1>1, <1>6, FS_AddElement
<1>8. QED
  BY <1>1, <1>3, <1>5, <1>7

\* A released claim takes its share and its user out again.
LEMMA ReleaseRemoves ==
    ASSUME NEW M \in Nat, NEW f \in [User -> 0 .. M], NEW u \in User, f[u] > 0,
           IsFiniteSet(User)
    PROVE  LET g == [f EXCEPT ![u] = 0]
               F == {v \in User : f[v] > 0}
               G == {v \in User : g[v] > 0}
           IN  /\ Total(g, G) = Total(f, F) - f[u]
               /\ Cardinality(G) = Cardinality(F) - 1
<1> DEFINE g == [f EXCEPT ![u] = 0]
           F == {v \in User : f[v] > 0}
           G == {v \in User : g[v] > 0}
<1>1. G = F \ {u} /\ u \in F /\ F \in SUBSET User
  OBVIOUS
<1>2. \A v \in G : g[v] = f[v]
  BY <1>1
<1> HIDE DEF g, F, G
<1>3. Total(g, G) = Total(f, G)
  BY <1>2, TotalDependsOnAmounts
<1>4. Total(f, F \ {u}) = Total(f, F) - f[u]
  BY <1>1, TotalRemove
<1>5. IsFiniteSet(F)
  BY <1>1, FS_Subset
<1>6. Cardinality(F \ {u}) = Cardinality(F) - 1
  BY <1>1, <1>5, FS_RemoveElement
<1>7. QED
  BY <1>1, <1>3, <1>4, <1>6 DEF g, F, G

-----------------------------------------------------------------------------
(* The inductive invariant.  A packet is born without claims, an insert    *)
(* stands on a funding transfer, and both keep the shares and the backing. *)

DataOK ==
    /\ transfer \in [Tx -> Transfer \cup {NoTransfer}]
    /\ packet \in [Code -> Packets \cup {NoPacket}]
    /\ share \in [Code -> [User -> 0 .. MaxAmount]]
    /\ job \in [Slot -> Job]

InsertsAreFunded == \A w \in Slot : At(w, "insert") => job[w].tx \in Tx /\ IsFunding(job[w].tx)

BornUnclaimed == \A c \in Code : ~Exists(c) => \A u \in User : share[c][u] = 0

PacketInv == DataOK /\ InsertsAreFunded /\ BornUnclaimed /\ SharesFit /\ PacketsAreBacked

\* What is left of a packet, and its free slots, are integers.
LEMMA BooksAreNumbers ==
    ASSUME PacketAssumption, DataOK, NEW c \in Code
    PROVE  /\ Total(share[c], Claimers(c)) \in Nat
           /\ Cardinality(Claimers(c)) \in Nat
           /\ packet[c].total \in Nat /\ packet[c].slots \in Nat
           /\ Left(c) \in Int /\ SlotsLeft(c) \in Int
<1>1. Claimers(c) \in SUBSET User /\ IsFiniteSet(User)
  BY DEF Claimers, PacketAssumption
<1>2. Cardinality(Claimers(c)) \in Nat
  BY <1>1, FS_Subset, FS_CardinalityType
<1>3. share[c] \in [User -> 0 .. MaxAmount] /\ MaxAmount \in Nat
  BY DEF DataOK, PacketAssumption
<1>4. Total(share[c], Claimers(c)) \in Nat
  BY <1>1, <1>3, TotalType
<1>5. packet[c].total \in Nat /\ packet[c].slots \in Nat
  BY <1>3 DEF DataOK, Packets, NoPacket, PacketAssumption
<1>6. QED
  BY <1>2, <1>4, <1>5 DEF Left, SlotsLeft

LEMMA PacketInvInit == PacketAssumption /\ Init => PacketInv
<1> SUFFICES ASSUME PacketAssumption, Init PROVE PacketInv
  OBVIOUS
<1>1. DataOK
  BY DEF PacketAssumption, Init, DataOK, NoJob, Job, None
<1>2. \A c \in Code : ~Exists(c)
  BY DEF Init, Exists, NoPacket
<1>3. InsertsAreFunded
  BY DEF Init, InsertsAreFunded, At, NoJob
<1>4. QED
  BY <1>1, <1>2, <1>3 DEF PacketInv, BornUnclaimed, SharesFit, PacketsAreBacked, Init

\* Most steps touch neither table: only their job has to stay in order.
LEMMA OnlyJobs ==
    ASSUME PacketInv, UNCHANGED <<transfer, packet, share>>,
           job' \in [Slot -> Job],
           \A w \in Slot : job'[w].pc = "insert" => job'[w].tx = job[w].tx /\ At(w, "insert")
    PROVE  PacketInv'
<1>1. DataOK'
  BY DEF PacketInv, DataOK
<1>2. InsertsAreFunded'
  BY DEF PacketInv, InsertsAreFunded, IsFunding, At
<1>3. BornUnclaimed' /\ SharesFit' /\ PacketsAreBacked'
  BY DEF PacketInv, BornUnclaimed, SharesFit, PacketsAreBacked, Exists, Left, SlotsLeft, Claimers
<1>4. QED
  BY <1>1, <1>2, <1>3 DEF PacketInv

\* The steps after a claim, and the faults, move the job of one invocation.
LEMMA QuietSteps ==
    ASSUME PacketAssumption, PacketInv, NEW w \in Slot,
           \/ SendPayout(w) \/ AwaitPayout(w) \/ MarkPaid(w)
           \/ WaitThrows(w) \/ SendThrows(w) \/ Crash(w)
    PROVE  PacketInv'
<1>1. job \in [Slot -> Job]
  BY DEF PacketInv, DataOK
<1>2. UNCHANGED <<transfer, packet, share>>
  BY DEF SendPayout, AwaitPayout, MarkPaid, WaitThrows, SendThrows, Crash, chainVars
<1>3. PICK pc \in {"wait", "mark", "release"}, out \in {"none", "pending"} :
         \/ job' = [job EXCEPT ![w] = NoJob]
         \/ job' = [job EXCEPT ![w].pc = pc, ![w].out = out]
  BY DEF SendPayout, AwaitPayout, MarkPaid, WaitThrows, SendThrows, Crash, Goto, Return
<1>4. NoJob \in Job
  BY DEF NoJob, Job, None, PacketAssumption
<1>5. job' \in [Slot -> Job]
  BY <1>1, <1>3, <1>4 DEF Job
<1>6. \A v \in Slot : job'[v].pc = "insert" => job'[v] = job[v]
  BY <1>1, <1>3 DEF NoJob, Job
<1>7. QED
  BY <1>2, <1>5, <1>6, OnlyJobs DEF At

\* A block changes what a waiting job knows.
LEMMA MineKeeps ==
    ASSUME PacketInv, Mine
    PROVE  PacketInv'
<1>1. job \in [Slot -> Job] /\ UNCHANGED <<transfer, packet, share>>
  BY DEF PacketInv, DataOK, Mine
<1> DEFINE by == Head(mempool).by
<1>2. PICK result \in {"mined", "reverted"} : Reported(by, result)
  BY DEF Mine
<1> HIDE DEF by
<1>3. job' = job \/ (by \in Slot /\ job' = [job EXCEPT ![by].out = result])
  BY <1>2 DEF Reported
<1>4. job' \in [Slot -> Job]
  BY <1>1, <1>3 DEF Job
<1>5. \A v \in Slot : job'[v].pc = job[v].pc /\ job'[v].tx = job[v].tx
  BY <1>1, <1>3 DEF Job
<1>6. QED
  BY <1>1, <1>4, <1>5, OnlyJobs DEF At

LEMMA StartCreateKeeps ==
    ASSUME PacketAssumption, PacketInv, NEW w \in Slot, NEW t \in Tx, StartCreate(w, t)
    PROVE  PacketInv'
<1> DEFINE new == [pc |-> "insert", tx |-> t, code |-> None, user |-> None,
                   amount |-> 0, out |-> "none"]
<1>1. job \in [Slot -> Job] /\ UNCHANGED <<transfer, packet, share>>
  BY DEF PacketInv, DataOK, StartCreate
<1>2. new \in Job /\ new.tx = t
  <2>1. 0 \in 0 .. MaxAmount
    BY DEF PacketAssumption
  <2>2. QED
    BY <2>1 DEF Job
<1>3. job' = [job EXCEPT ![w] = new] /\ IsFunding(t)
  BY DEF StartCreate
<1> HIDE DEF new
<1>4. DataOK'
  BY <1>1, <1>2, <1>3 DEF PacketInv, DataOK
<1>5. InsertsAreFunded'
  BY <1>1, <1>2, <1>3 DEF PacketInv, InsertsAreFunded, IsFunding, At
<1>6. BornUnclaimed' /\ SharesFit' /\ PacketsAreBacked'
  BY <1>1 DEF PacketInv, BornUnclaimed, SharesFit, PacketsAreBacked, Exists, Left, SlotsLeft, Claimers
<1>7. QED
  BY <1>4, <1>5, <1>6 DEF PacketInv

\* An insert: no shares are claimed yet, so all of the total is left for all slots.
LEMMA InsertKeeps ==
    ASSUME PacketAssumption, PacketInv, NEW w \in Slot, NEW c \in Code,
           NEW slots \in 1 .. MaxSlots, NEW mode \in SplitMode,
           InsertPacket(w, c, slots, mode)
    PROVE  PacketInv'
<1> DEFINE t == job[w].tx
           born == [status |-> "open", tx |-> t, total |-> transfer[t].amount,
                   slots |-> slots, mode |-> mode]
<1>1. /\ job \in [Slot -> Job] /\ transfer \in [Tx -> Transfer \cup {NoTransfer}]
      /\ packet \in [Code -> Packets \cup {NoPacket}]
      /\ UNCHANGED <<transfer, share>> /\ job' = [job EXCEPT ![w] = NoJob]
  BY DEF PacketInv, DataOK, InsertPacket, Return
<1>2. job' \in [Slot -> Job]
  BY <1>1 DEF NoJob, Job, None, PacketAssumption
<1>3. \A v \in Slot : job'[v].pc = "insert" => job'[v] = job[v]
  BY <1>1 DEF NoJob
<1>4. CASE packet' = packet
  BY <1>1, <1>2, <1>3, <1>4, OnlyJobs DEF At
<1>5. CASE /\ Payable(transfer[t].amount, slots) /\ Fileable(t)
           /\ packet' = [packet EXCEPT ![c] = born]
  <2>1. t \in Tx /\ IsFunding(t) /\ ~Exists(c)
    BY DEF PacketInv, InsertsAreFunded, InsertPacket
  <2>2. transfer[t] \in Transfer
    BY <1>1, <2>1 DEF IsFunding, NoTransfer
  <2>3. transfer[t] = [kind |-> "funding", amount |-> transfer[t].amount]
    BY <2>1, <2>2 DEF Transfer, IsFunding
  <2>4. born \in Packets
    BY <2>1, <2>2 DEF Packets, Transfer
  <2>5. DataOK'
    BY <1>1, <1>2, <1>5, <2>4 DEF PacketInv, DataOK
  <2>6. InsertsAreFunded'
    BY <1>1, <1>3 DEF PacketInv, InsertsAreFunded, IsFunding, At
  <2>7. packet'[c] = born /\ \A d \in Code : d # c => packet'[d] = packet[d]
    BY <1>1, <1>5
  <2>8. BornUnclaimed'
    BY <1>1, <2>7 DEF PacketInv, BornUnclaimed, Exists
  <2>9. SharesFit'
    <3> SUFFICES ASSUME NEW d \in Code, Exists(d)'
                 PROVE  /\ SlotsLeft(d)' >= 0 /\ Left(d)' >= SlotsLeft(d)'
                        /\ SlotsLeft(d)' = 0 => Left(d)' = 0
      BY DEF SharesFit
    <3>1. CASE d # c
      <4>1. Exists(d) /\ Left(d)' = Left(d) /\ SlotsLeft(d)' = SlotsLeft(d)
        BY <1>1, <2>7, <3>1 DEF Exists, Left, SlotsLeft, Claimers
      <4>2. QED
        BY <4>1 DEF PacketInv, SharesFit
    <3>2. CASE d = c
      <4>1. Claimers(c)' = {} /\ share' = share
        BY <1>1, <2>1 DEF PacketInv, BornUnclaimed, Claimers
      <4>2. Total(share'[c], {}) = 0 /\ Cardinality({}) = 0
        BY TotalEmpty, FS_EmptySet
      <4>3. transfer[t].amount \in Nat /\ slots \in Nat \ {0} /\ transfer[t].amount >= slots
        BY <1>5, <2>2 DEF Transfer, Payable, PacketAssumption
      <4>4. Left(c)' = transfer[t].amount /\ SlotsLeft(c)' = slots
        BY <2>7, <4>1, <4>2, <4>3 DEF Left, SlotsLeft
      <4>5. QED
        BY <3>2, <4>3, <4>4
    <3>3. QED
      BY <3>1, <3>2
  <2>10. PacketsAreBacked'
    <3> SUFFICES ASSUME NEW d \in Code, Exists(d)'
                 PROVE  /\ transfer'[packet'[d].tx] = [kind |-> "funding", amount |-> packet'[d].total]
                        /\ \A e \in Code : e # d => packet'[e].tx # packet'[d].tx
      BY DEF PacketsAreBacked
    <3>1. \A e \in Code : packet[e].tx # t
      BY <1>5 DEF Fileable
    <3>2. CASE d = c
      BY <1>1, <2>3, <2>7, <3>1, <3>2
    <3>3. CASE d # c
      <4>1. Exists(d)
        BY <2>7, <3>3 DEF Exists
      <4>2. QED
        BY <1>1, <2>7, <3>1, <3>3, <4>1 DEF PacketInv, PacketsAreBacked
    <3>4. QED
      BY <3>2, <3>3
  <2>11. QED
    BY <2>5, <2>6, <2>8, <2>9, <2>10 DEF PacketInv
<1>6. QED
  BY <1>4, <1>5 DEF InsertPacket

\* A claim takes one share and one slot.
LEMMA ClaimKeeps ==
    ASSUME PacketAssumption, PacketInv, NEW w \in Slot, NEW u \in User, NEW c \in Code,
           NEW s, ClaimPacket(w, u, c, s)
    PROVE  PacketInv'
<1> USE DEF None
<1>1. /\ job \in [Slot -> Job] /\ share \in [Code -> [User -> 0 .. MaxAmount]]
      /\ packet \in [Code -> Packets \cup {NoPacket}]
      /\ UNCHANGED <<transfer, packet>> /\ share' = [share EXCEPT ![c][u] = s]
      /\ job' = [job EXCEPT ![w] = PayoutJob(c, u, s)] /\ MaxAmount \in Nat
  BY DEF PacketInv, DataOK, ClaimPacket, PacketAssumption
<1>2. packet[c] \in Packets /\ Exists(c) /\ share[c][u] = 0
  BY <1>1 DEF ClaimPacket, NoPacket, Exists, Unclaimed
<1>3. /\ Left(c) \in Nat /\ SlotsLeft(c) \in Nat
      /\ SlotsLeft(c) >= 1 /\ Left(c) >= SlotsLeft(c)
  BY <1>2, BooksAreNumbers DEF PacketInv, SharesFit, ClaimPacket
<1>4. /\ s \in Nat /\ s >= 1 /\ Left(c) - s >= SlotsLeft(c) - 1
      /\ SlotsLeft(c) = 1 => s = Left(c)
  <2>1. packet[c].mode \in SplitMode
    BY <1>2 DEF Packets
  <2>2. s \in NextShares(Left(c), SlotsLeft(c), packet[c].mode)
    BY DEF ClaimPacket, ToDivide
  <2> HIDE DEF PacketInv
  <2>3. QED
    BY <1>3, <2>1, <2>2, NextShareFits
<1>5. s \in 1 .. MaxAmount
  <2>1. packet[c].total \in Nat /\ packet[c].total <= MaxAmount
    BY <1>1, <1>2 DEF Packets
  <2>2. Left(c) <= packet[c].total
    BY BooksAreNumbers DEF Left, PacketInv
  <2>3. QED
    BY <1>1, <1>3, <1>4, <2>1, <2>2
<1>6. PayoutJob(c, u, s) \in Job /\ PayoutJob(c, u, s).pc = "pay"
  <2>1. s \in 0 .. MaxAmount
    BY <1>1, <1>5
  <2>2. QED
    BY <2>1 DEF PayoutJob, Job
<1>7. /\ share' \in [Code -> [User -> 0 .. MaxAmount]]
      /\ share'[c] = [share[c] EXCEPT ![u] = s]
      /\ \A d \in Code : d # c => share'[d] = share[d]
  BY <1>1, <1>5
<1>8. DataOK'
  BY <1>1, <1>6, <1>7 DEF PacketInv, DataOK
<1>9. InsertsAreFunded'
  BY <1>1, <1>6 DEF PacketInv, InsertsAreFunded, IsFunding, At
<1>10. BornUnclaimed'
  BY <1>1, <1>2, <1>7 DEF PacketInv, BornUnclaimed, Exists
<1>11. PacketsAreBacked'
  BY <1>1 DEF PacketInv, PacketsAreBacked, Exists
<1>12. SharesFit'
  <2> SUFFICES ASSUME NEW d \in Code, Exists(d)'
               PROVE  /\ SlotsLeft(d)' >= 0 /\ Left(d)' >= SlotsLeft(d)'
                      /\ SlotsLeft(d)' = 0 => Left(d)' = 0
    BY DEF SharesFit
  <2>1. CASE d # c
    <3>1. Exists(d) /\ Left(d)' = Left(d) /\ SlotsLeft(d)' = SlotsLeft(d)
      BY <1>1, <1>7, <2>1 DEF Exists, Left, SlotsLeft, Claimers
    <3>2. QED
      BY <3>1 DEF PacketInv, SharesFit
  <2>2. CASE d = c
    <3> DEFINE f == share[c]
               g == [f EXCEPT ![u] = s]
    <3>1. f \in [User -> 0 .. MaxAmount] /\ f[u] = 0 /\ IsFiniteSet(User)
      BY <1>1, <1>2 DEF PacketAssumption
    <3>2. /\ Total(g, {v \in User : g[v] > 0}) = Total(f, {v \in User : f[v] > 0}) + s
          /\ Cardinality({v \in User : g[v] > 0}) = Cardinality({v \in User : f[v] > 0}) + 1
      <4> DEFINE F == {v \in User : f[v] > 0}
                 G == {v \in User : g[v] > 0}
      <4>1. /\ MaxAmount \in Nat /\ g \in [User -> 0 .. MaxAmount]
            /\ g[u] = s /\ s > 0 /\ \A v \in User \ {u} : g[v] = f[v]
        BY <1>1, <1>5, <3>1
      <4>2. F = {v \in User : f[v] > 0} /\ G = {v \in User : g[v] > 0}
        OBVIOUS
      <4> HIDE DEF f, g, F, G
      <4>3. Total(g, G) = Total(f, F) + g[u] /\ Cardinality(G) = Cardinality(F) + 1
        BY <3>1, <4>1, <4>2, ClaimAdds
      <4>4. QED
        BY <4>1, <4>3 DEF F, G
    <3>3. share'[c] = g
      BY <1>7
    <3> HIDE DEF g
    <3>4. Left(c)' = packet[c].total - (Total(share[c], Claimers(c)) + s)
      BY <1>1, <3>2, <3>3 DEF Left, Claimers
    <3>5. SlotsLeft(c)' = packet[c].slots - (Cardinality(Claimers(c)) + 1)
      BY <1>1, <3>2, <3>3 DEF SlotsLeft, Claimers
    <3>6. Left(c)' = Left(c) - s /\ SlotsLeft(c)' = SlotsLeft(c) - 1
      BY <1>4, <3>4, <3>5, BooksAreNumbers DEF Left, SlotsLeft, PacketInv
    <3>7. QED
      BY <1>3, <1>4, <2>2, <3>6
  <2>3. QED
    BY <2>1, <2>2
<1>13. QED
  BY <1>8, <1>9, <1>10, <1>11, <1>12 DEF PacketInv

\* A release gives the share and the slot back.
LEMMA ReleaseKeeps ==
    ASSUME PacketAssumption, PacketInv, NEW w \in Slot, Release(w)
    PROVE  PacketInv'
<1>0. PICK c, u : c = job[w].code /\ u = job[w].user
  OBVIOUS
<1>1. /\ job \in [Slot -> Job] /\ share \in [Code -> [User -> 0 .. MaxAmount]]
      /\ UNCHANGED <<transfer, packet>> /\ job' = [job EXCEPT ![w] = NoJob]
      /\ packet \in [Code -> Packets \cup {NoPacket}] /\ MaxAmount \in Nat
  BY DEF PacketInv, DataOK, Release, Return, PacketAssumption
<1>2. job' \in [Slot -> Job]
  BY <1>1 DEF NoJob, Job, None, PacketAssumption
<1>3. \A v \in Slot : job'[v].pc = "insert" => job'[v] = job[v]
  BY <1>1 DEF NoJob
<1>4. CASE share' = share
  BY <1>1, <1>2, <1>3, <1>4, OnlyJobs DEF At
<1>5. CASE /\ share' = [share EXCEPT ![c][u] = 0] /\ c \in Code /\ u \in User
           /\ share[c][u] > 0
  <2>1. /\ share' \in [Code -> [User -> 0 .. MaxAmount]]
        /\ share'[c] = [share[c] EXCEPT ![u] = 0]
        /\ \A d \in Code : d # c => share'[d] = share[d]
    BY <1>1, <1>5
  <2>2. DataOK'
    BY <1>1, <1>2, <2>1 DEF PacketInv, DataOK
  <2>3. InsertsAreFunded'
    BY <1>1, <1>3 DEF PacketInv, InsertsAreFunded, IsFunding, At
  <2>4. BornUnclaimed'
    <3>1. \A d \in Code, v \in User : share[d][v] = 0 => share'[d][v] = 0
      BY <1>1, <1>5, <2>1
    <3>2. QED
      BY <1>1, <3>1 DEF PacketInv, BornUnclaimed, Exists
  <2>5. PacketsAreBacked'
    BY <1>1 DEF PacketInv, PacketsAreBacked, Exists
  <2>6. SharesFit'
    <3> SUFFICES ASSUME NEW d \in Code, Exists(d)'
                 PROVE  /\ SlotsLeft(d)' >= 0 /\ Left(d)' >= SlotsLeft(d)'
                        /\ SlotsLeft(d)' = 0 => Left(d)' = 0
      BY DEF SharesFit
    <3>1. CASE d # c
      <4>1. Exists(d) /\ Left(d)' = Left(d) /\ SlotsLeft(d)' = SlotsLeft(d)
        BY <1>1, <2>1, <3>1 DEF Exists, Left, SlotsLeft, Claimers
      <4>2. QED
        BY <4>1 DEF PacketInv, SharesFit
    <3>2. CASE d = c
      <4> DEFINE f == share[c]
                 g == [f EXCEPT ![u] = 0]
      <4>1. f \in [User -> 0 .. MaxAmount] /\ f[u] > 0 /\ IsFiniteSet(User)
        BY <1>1, <1>5 DEF PacketAssumption
      <4>2. /\ Total(g, {v \in User : g[v] > 0}) = Total(f, {v \in User : f[v] > 0}) - f[u]
            /\ Cardinality({v \in User : g[v] > 0}) = Cardinality({v \in User : f[v] > 0}) - 1
        <5> HIDE DEF f
        <5>1. QED
          BY <1>1, <1>5, <4>1, ReleaseRemoves
      <4>3. share'[c] = g
        BY <2>1
      <4> HIDE DEF g
      <4>4. Left(c)' = packet[c].total - (Total(share[c], Claimers(c)) - f[u])
        BY <1>1, <4>2, <4>3 DEF Left, Claimers
      <4>5. SlotsLeft(c)' = packet[c].slots - (Cardinality(Claimers(c)) - 1)
        BY <1>1, <4>2, <4>3 DEF SlotsLeft, Claimers
      <4>6. f[u] \in Nat /\ f[u] >= 1
        BY <1>1, <1>5, <4>1
      <4>7. c \in Code
        BY <1>5
      <4> HIDE DEF f
      <4>8. Left(c)' = Left(c) + f[u] /\ SlotsLeft(c)' = SlotsLeft(c) + 1
        BY <4>4, <4>5, <4>6, <4>7, BooksAreNumbers DEF Left, SlotsLeft, PacketInv
      <4>9. Exists(c) /\ Left(c) \in Int /\ SlotsLeft(c) \in Int
        BY <1>1, <3>2, <4>7, BooksAreNumbers DEF Exists, PacketInv
      <4>10. SlotsLeft(c) >= 0 /\ Left(c) >= SlotsLeft(c)
        BY <4>7, <4>9 DEF PacketInv, SharesFit
      <4>11. QED
        BY <3>2, <4>6, <4>8, <4>9, <4>10
    <3>3. QED
      BY <3>1, <3>2
  <2>7. QED
    BY <2>2, <2>3, <2>4, <2>5, <2>6 DEF PacketInv
<1>6. share' = share \/ share' = [share EXCEPT ![c][u] = 0]
  BY <1>0 DEF Release
<1>7. CASE /\ share' = [share EXCEPT ![c][u] = 0]
           /\ ~(c \in Code /\ u \in User /\ share[c][u] > 0)
  <2>1. ASSUME c \notin Code PROVE share' = share
    BY <1>1, <1>7, <2>1
  <2>2. ASSUME c \in Code, u \notin User PROVE share' = share
    <3>1. [share[c] EXCEPT ![u] = 0] = share[c]
      BY <1>1, <2>2
    <3>2. QED
      BY <1>1, <1>7, <2>2, <3>1
  <2>3. ASSUME c \in Code, u \in User PROVE share' = share
    <3>1. share[c][u] = 0 /\ share[c] \in [User -> 0 .. MaxAmount]
      BY <1>1, <1>7, <2>3
    <3>2. [share[c] EXCEPT ![u] = 0] = share[c]
      BY <2>3, <3>1
    <3>3. QED
      BY <1>1, <1>7, <2>3, <3>2
  <2>4. QED
    BY <1>4, <2>1, <2>2, <2>3
<1>8. QED
  BY <1>4, <1>5, <1>6, <1>7

\* A new transfer backs nothing yet; an expired packet keeps its row's figures.
LEMMA OutsideKeeps ==
    ASSUME PacketAssumption, PacketInv,
           \/ \E t \in Tx, moved \in Transfer : MakeTransfer(t, moved)
           \/ \E c \in Code : Expire(c)
    PROVE  PacketInv'
<1>1. ASSUME NEW t \in Tx, NEW moved \in Transfer, MakeTransfer(t, moved) PROVE PacketInv'
  <2>1. /\ transfer \in [Tx -> Transfer \cup {NoTransfer}] /\ transfer[t] = NoTransfer
        /\ transfer' = [transfer EXCEPT ![t] = moved] /\ UNCHANGED <<packet, share, job>>
    BY <1>1 DEF PacketInv, DataOK, MakeTransfer
  <2>2. \A v \in Tx : transfer[v].kind = "funding" => transfer'[v] = transfer[v]
    BY <2>1 DEF NoTransfer
  <2>3. DataOK'
    BY <2>1 DEF PacketInv, DataOK
  <2>4. InsertsAreFunded'
    BY <2>1, <2>2 DEF PacketInv, InsertsAreFunded, IsFunding, At
  <2>5. BornUnclaimed' /\ SharesFit'
    BY <2>1 DEF PacketInv, BornUnclaimed, SharesFit, Exists, Left, SlotsLeft, Claimers
  <2>6. \A c \in Code : Exists(c) => packet[c].tx \in Tx
    BY DEF PacketInv, DataOK, Exists, Packets, NoPacket
  <2>7. PacketsAreBacked'
    BY <2>1, <2>2, <2>6 DEF PacketInv, PacketsAreBacked, Exists
  <2>8. QED
    BY <2>3, <2>4, <2>5, <2>7 DEF PacketInv
<1>2. ASSUME NEW c \in Code, Expire(c) PROVE PacketInv'
  <2>1. /\ packet \in [Code -> Packets \cup {NoPacket}] /\ packet[c].status = "open"
        /\ packet' = [packet EXCEPT ![c].status = "expired"]
        /\ UNCHANGED <<transfer, share, job>>
    BY <1>2 DEF PacketInv, DataOK, Expire
  <2>2. packet[c] \in Packets
    BY <2>1 DEF NoPacket
  <2>3. packet' \in [Code -> Packets \cup {NoPacket}]
    BY <2>1, <2>2 DEF Packets
  <2>4. \A d \in Code : /\ packet'[d].tx = packet[d].tx /\ packet'[d].total = packet[d].total
                        /\ packet'[d].slots = packet[d].slots /\ Exists(d)' = Exists(d)
    BY <2>1, <2>2 DEF Packets, Exists
  <2>5. DataOK'
    BY <2>1, <2>3 DEF PacketInv, DataOK
  <2>6. InsertsAreFunded'
    BY <2>1 DEF PacketInv, InsertsAreFunded, IsFunding, At
  <2>7. BornUnclaimed' /\ SharesFit'
    BY <2>1, <2>4 DEF PacketInv, BornUnclaimed, SharesFit, Left, SlotsLeft, Claimers
  <2>8. PacketsAreBacked'
    BY <2>1, <2>4 DEF PacketInv, PacketsAreBacked
  <2>9. QED
    BY <2>5, <2>6, <2>7, <2>8 DEF PacketInv
<1>3. QED
  BY <1>1, <1>2

LEMMA PacketInvStep == PacketAssumption /\ PacketInv /\ [Next]_vars => PacketInv'
<1> SUFFICES ASSUME PacketAssumption, PacketInv, [Next]_vars PROVE PacketInv'
  OBVIOUS
<1>1. ASSUME NEW w \in Slot, Step(w) PROVE PacketInv'
  BY <1>1, InsertKeeps, QuietSteps, ReleaseKeeps DEF Step, Create
<1>2. ASSUME NEW w \in Slot, Claim(w) PROVE PacketInv'
  BY <1>2, ClaimKeeps DEF Claim
<1>3. ASSUME NEW w \in Slot, WaitThrows(w) \/ SendThrows(w) \/ Crash(w) PROVE PacketInv'
  BY <1>3, QuietSteps
<1>4. ASSUME NEW w \in Slot, NEW t \in Tx, StartCreate(w, t) PROVE PacketInv'
  BY <1>4, StartCreateKeeps
<1>5. CASE \/ \E t \in Tx, moved \in Transfer : MakeTransfer(t, moved)
           \/ \E c \in Code : Expire(c)
  BY <1>5, OutsideKeeps
<1>6. CASE Mine
  BY <1>6, MineKeeps
<1>7. CASE UNCHANGED vars
  <2>1. UNCHANGED <<transfer, packet, share, job>>
    BY <1>7 DEF vars
  <2>2. job \in [Slot -> Job]
    BY DEF PacketInv, DataOK
  <2>3. QED
    BY <2>1, <2>2, OnlyJobs DEF At
<1>8. QED
  BY <1>1, <1>2, <1>3, <1>4, <1>5, <1>6, <1>7 DEF Next

\* A behaviour of the services is one of the packets: other parts leave them alone.
LEMMA PacketsRun == ServicesSpec => Spec
<1>1. ServicesInit => Init
  BY DEF ServicesInit
<1>2. [ServicesNext]_allVars => [Next]_vars
  BY DEF ServicesNext, OfPackets, OfTopups, OfSweep, allVars
<1>3. QED
  BY <1>1, <1>2, PTL DEF ServicesSpec, Spec

\* The inductive invariant of packets and their claims (create/route.ts, claim_packet).
THEOREM PacketInvariant == ServicesSpec => []PacketInv
<1>1. Init => PacketInv
  BY PacketInvInit, PacketAssumption
<1>2. PacketInv /\ [Next]_vars => PacketInv'
  BY PacketInvStep, PacketAssumption
<1>3. QED
  BY <1>1, <1>2, PacketsRun, PTL DEF Spec

\* In any order of claims and releases, by any number of users, what is left of a
\* packet pays every free slot at least a unit, and the last slot takes the rest.
THEOREM PacketSharesFit == ServicesSpec => []SharesFit
BY PacketInvariant, PTL DEF PacketInv

\* However many creates race for a transfer, every packet stands on a funding
\* transfer of its own that brought its total (given the unique index).
THEOREM PacketsStandOnTransfers == ServicesSpec => []PacketsAreBacked
BY PacketInvariant, PTL DEF PacketInv
-----------------------------------------------------------------------------
(* Top-ups.  A payout of an order is counted from its broadcast: what was  *)
(* credited and what is out is at most one more than the waits that threw, *)
(* and no more than them while the order may be claimed.                   *)

\* How many payouts of an order are out.
Pending(q, o) == Cardinality({k \in DOMAIN q : q[k].order = o})

\* A payout of a top-up on its way into a block.
Entry == [order : Order, by : Slot \cup {"nobody"}]

\* A payout counts when it is sent, and until it is mined.
LEMMA PendingType ==
    ASSUME NEW q \in Seq(Entry), NEW o
    PROVE  Pending(q, o) \in Nat
<1>1. DOMAIN q = 1 .. Len(q) /\ Len(q) \in Nat
  OBVIOUS
<1>2. IsFiniteSet(1 .. Len(q))
  BY <1>1, FS_Interval
<1>3. IsFiniteSet({k \in DOMAIN q : q[k].order = o})
  BY <1>1, <1>2, FS_Subset
<1>4. QED
  BY <1>3, FS_CardinalityType DEF Pending

LEMMA PendingNone ==
    ASSUME NEW o
    PROVE  Pending(<<>>, o) = 0
<1>1. {k \in DOMAIN << >> : << >>[k].order = o} = {}
  OBVIOUS
<1>2. QED
  BY <1>1, FS_EmptySet DEF Pending

LEMMA PendingAppend ==
    ASSUME NEW q \in Seq(Entry), NEW e \in Entry, NEW o
    PROVE  Pending(Append(q, e), o) = Pending(q, o) + (IF e.order = o THEN 1 ELSE 0)
<1> DEFINE n == Len(q) + 1
           Old == {k \in DOMAIN q : q[k].order = o}
           New == {k \in DOMAIN Append(q, e) : Append(q, e)[k].order = o}
<1>1. DOMAIN q = 1 .. Len(q) /\ Len(q) \in Nat /\ n \notin DOMAIN q
  OBVIOUS
<1>2. /\ DOMAIN Append(q, e) = DOMAIN q \cup {n} /\ Append(q, e)[n] = e
      /\ \A k \in DOMAIN q : Append(q, e)[k] = q[k]
  OBVIOUS
<1>3. IsFiniteSet(1 .. Len(q))
  BY <1>1, FS_Interval
<1>4. IsFiniteSet(Old) /\ Cardinality(Old) \in Nat
  <2>1. Old \in SUBSET (1 .. Len(q))
    BY <1>1
  <2>2. QED
    BY <2>1, <1>3, FS_Subset, FS_CardinalityType
<1>5. Pending(q, o) = Cardinality(Old) /\ Pending(Append(q, e), o) = Cardinality(New)
  BY DEF Pending
<1>6. n \notin Old /\ New = IF e.order = o THEN Old \cup {n} ELSE Old
  BY <1>1, <1>2
<1> HIDE DEF New, Old
<1>7. Cardinality(Old \cup {n}) = Cardinality(Old) + 1
  BY <1>4, <1>6, FS_AddElement
<1>8. QED
  BY <1>4, <1>5, <1>6, <1>7

LEMMA PendingTail ==
    ASSUME NEW q \in Seq(Entry), q # << >>, NEW o
    PROVE  Pending(q, o) = Pending(Tail(q), o) + (IF Head(q).order = o THEN 1 ELSE 0)
<1> DEFINE Rest == {k \in DOMAIN Tail(q) : Tail(q)[k].order = o}
           All == {k \in DOMAIN q : q[k].order = o}
           f == [k \in Rest |-> k + 1]
<1>1. /\ Len(q) \in Nat \ {0} /\ DOMAIN q = 1 .. Len(q) /\ Head(q) = q[1]
      /\ DOMAIN Tail(q) = 1 .. Len(q) - 1
      /\ \A k \in 1 .. Len(q) - 1 : Tail(q)[k] = q[k + 1]
  OBVIOUS
<1>2. IsFiniteSet(1 .. Len(q))
  BY <1>1, FS_Interval
<1>3. IsFiniteSet(All) /\ Cardinality(All) \in Nat /\ IsFiniteSet(All \ {1})
  <2>1. All \in SUBSET (1 .. Len(q)) /\ All \ {1} \in SUBSET (1 .. Len(q))
    BY <1>1
  <2>2. QED
    BY <2>1, <1>2, FS_Subset, FS_CardinalityType
<1>4. f \in Injection(Rest, All \ {1}) /\ f \in Surjection(Rest, All \ {1})
  <2>1. f \in [Rest -> All \ {1}]
    BY <1>1
  <2>2. ASSUME NEW a \in Rest, NEW b \in Rest, f[a] = f[b] PROVE a = b
    BY <1>1, <2>2
  <2>3. ASSUME NEW t \in All \ {1} PROVE \E k \in Rest : f[k] = t
    <3>1. t - 1 \in Rest /\ t \in Nat
      BY <1>1, <2>3
    <3>2. f[t - 1] = t
      BY <3>1
    <3>3. QED
      BY <3>1, <3>2
  <2>4. QED
    BY <2>1, <2>2, <2>3 DEF Injection, IsInjective, Surjection
<1> HIDE DEF f
<1>5. Cardinality(Rest) = Cardinality(All \ {1})
  <2> HIDE DEF Rest, All
  <2>1. QED
    BY <1>3, <1>4, FS_Injection
<1>6. Cardinality(All \ {1}) = Cardinality(All) - (IF 1 \in All THEN 1 ELSE 0)
  <2> HIDE DEF Rest, All
  <2>1. QED
    BY <1>3, FS_RemoveElement
<1>7. 1 \in All <=> Head(q).order = o
  BY <1>1
<1>8. Pending(q, o) = Cardinality(All) /\ Pending(Tail(q), o) = Cardinality(Rest)
  BY DEF Pending
<1> HIDE DEF All, Rest
<1>9. QED
  BY <1>3, <1>5, <1>6, <1>7, <1>8

LEMMA PendingSame ==
    ASSUME NEW q \in Seq(Entry), NEW p, NEW o, DOMAIN p = DOMAIN q,
           \A k \in DOMAIN q : p[k].order = q[k].order
    PROVE  Pending(p, o) = Pending(q, o)
<1>1. {k \in DOMAIN q : q[k].order = o} = {k \in DOMAIN p : p[k].order = o}
  OBVIOUS
<1>2. QED
  BY <1>1 DEF Pending

\* A job that answers for an order, from its claim to its end.
Holds(j) == j.pc \in {"wallet", "send", "wait", "complete", "history", "undo"}
Reverted(j) == j.pc = "wait" /\ j.tx = "reverted"
Unsent(j) == j.pc \in {"wallet", "send", "undo"} \/ Reverted(j)
Banked(j) == j.pc \in {"complete", "history"} \/ (j.pc = "wait" /\ j.tx = "mined")
Awaits(j) == j.pc = "wait" /\ j.tx = "pending"

Paid(o) == invoice[o] \in {"PAID", "SETTLED"}

\* An order has one holder, whose claim shows in its status.
OneHolder ==
    /\ \A v, w \in Slot :
         Holds(tJob[v]) /\ Holds(tJob[w]) /\ tJob[v].order = tJob[w].order => v = w
    /\ \A w \in Slot : Holds(tJob[w]) => status[tJob[w].order] \in {"paid", "completed"}

\* An invoice is made once, and claimed when it is paid.
OneInvoice ==
    /\ \A w \in Slot : Holds(tJob[w]) \/ tJob[w].pc = "claim" => Paid(tJob[w].order)
    /\ \A w \in Slot : tJob[w].pc = "createInvoice" =>
         invoice[tJob[w].order] = "none" /\ status[tJob[w].order] # "none"
    /\ \A v, w \in Slot :
         tJob[v].pc = "createInvoice" /\ tJob[w].pc = "createInvoice"
           /\ tJob[v].order = tJob[w].order => v = w
    /\ \A o \in Order : status[o] = "none" => invoice[o] = "none"

\* What is out is out for a paid order, and at most once for the job that waits.
PoolIsHeld ==
    /\ \A k \in DOMAIN tPool : Paid(tPool[k].order)
    /\ \A k \in DOMAIN tPool : tPool[k].by \in Slot =>
         Awaits(tJob[tPool[k].by]) /\ tJob[tPool[k].by].order = tPool[k].order
    /\ \A k, l \in DOMAIN tPool : tPool[k].by \in Slot /\ tPool[k].by = tPool[l].by => k = l

\* A holder whose payout is mined has one it has not yet written to the history.
HistoryIsOwed ==
    /\ T!BooksFollowMoney
    /\ \A w \in Slot : Banked(tJob[w]) =>
         history[tJob[w].order] + 1 <= credited[tJob[w].order]

Out(paidOut, pool, o) == paidOut[o] + Pending(pool, o)

PayoutsAreCounted ==
    /\ \A o \in Order : Out(credited, tPool, o) <= 1 + tWaits
    /\ \A o \in Order : status[o] \in {"none", "pending", "failed"} => Out(credited, tPool, o) <= tWaits
    /\ \A w \in Slot : Unsent(tJob[w]) => Out(credited, tPool, tJob[w].order) <= tWaits

TopupInv == T!TypeOK /\ OneHolder /\ OneInvoice /\ PoolIsHeld /\ HistoryIsOwed /\ PayoutsAreCounted

LEMMA FreshTopupJob == T!NoJob \in T!Job /\ T!NoJob.pc = "idle"
<1>1. T!NoOrder \in Order
  BY ServicesAssumption DEF ServicesAssumption, T!NoOrder
<1>2. QED
  BY <1>1 DEF T!NoJob, T!Job

LEMMA TopupInit ==
    ASSUME T!Init
    PROVE  TopupInv
<1>1. \A w \in Slot : tJob[w] = T!NoJob /\ tJob[w].pc = "idle"
  BY FreshTopupJob DEF T!Init
<1>2. T!TypeOK
  <2>1. << >> \in Seq([order : Order, by : Slot \cup {"nobody"}])
    OBVIOUS
  <2>2. 0 \in Nat /\ 0 \in 0 .. MaxWaitFailures /\ 0 \in 0 .. MaxSendFailures /\ 0 \in 0 .. MaxCrashes
    BY PacketAssumption DEF PacketAssumption
  <2>3. QED
    BY <2>1, <2>2, FreshTopupJob DEF T!Init, T!TypeOK, T!Status
<1>3. OneHolder /\ OneInvoice
  BY <1>1 DEF OneHolder, OneInvoice, Holds, T!Init
<1>4. PoolIsHeld
  BY DEF PoolIsHeld, T!Init
<1>5. HistoryIsOwed
  BY <1>1 DEF HistoryIsOwed, T!BooksFollowMoney, Banked, T!Init
<1>6. \A o \in Order : Out(credited, tPool, o) = 0
  BY PendingNone DEF Out, T!Init
<1>7. PayoutsAreCounted
  <2>1. tWaits = 0
    BY DEF T!Init
  <2>2. QED
    BY <1>1, <1>6, <2>1 DEF PayoutsAreCounted, Unsent, Reverted
<1>8. QED
  BY <1>2, <1>3, <1>4, <1>5, <1>7 DEF TopupInv

\* What a step takes out of the hands of an invocation is still out.
LEMMA OrphansStayOut ==
    ASSUME tPool \in Seq(Entry), NEW w \in Slot
    PROVE  /\ T!Orphaned(w) \in Seq(Entry) /\ DOMAIN T!Orphaned(w) = DOMAIN tPool
           /\ \A k \in DOMAIN tPool :
                /\ T!Orphaned(w)[k].order = tPool[k].order
                /\ T!Orphaned(w)[k].by # w
                /\ T!Orphaned(w)[k].by \in Slot => T!Orphaned(w)[k].by = tPool[k].by
<1> DEFINE q == T!Orphaned(w)
<1>1. Len(tPool) \in Nat /\ DOMAIN tPool = 1 .. Len(tPool) /\ \A k \in DOMAIN tPool : tPool[k] \in Entry
  OBVIOUS
<1>2. "nobody" \notin Slot
  BY ServicesAssumption DEF ServicesAssumption
<1>3. DOMAIN q = 1 .. Len(tPool)
  BY <1>1 DEF T!Orphaned
<1>4. ASSUME NEW k \in DOMAIN tPool
      PROVE  /\ q[k] \in Entry /\ q[k].order = tPool[k].order /\ q[k].by # w
             /\ q[k].by \in Slot => q[k].by = tPool[k].by
  <2>1. tPool[k] \in Entry
    BY <1>1
  <2>2. q[k] = IF tPool[k].by = w THEN [tPool[k] EXCEPT !.by = "nobody"] ELSE tPool[k]
    BY DEF T!Orphaned
  <2>3. QED
    BY <1>2, <2>1, <2>2 DEF Entry
<1> HIDE DEF q
<1>5. q \in [1 .. Len(tPool) -> Entry]
  <2>1. q = [k \in 1 .. Len(tPool) |-> q[k]]
    BY <1>1 DEF q, T!Orphaned
  <2>2. QED
    BY <1>1, <1>4, <2>1
<1>6. q \in Seq(Entry)
  BY <1>1, <1>5
<1>7. QED
  BY <1>1, <1>3, <1>4, <1>6 DEF q

LEMMA TopupCounts ==
    ASSUME TopupInv, NEW o \in Order
    PROVE  Out(credited, tPool, o) \in Nat /\ credited[o] \in Nat /\ history[o] \in Nat /\ tWaits \in Nat
<1>1. /\ tPool \in Seq(Entry) /\ credited \in [Order -> Nat] /\ history \in [Order -> Nat]
      /\ tWaits \in 0 .. MaxWaitFailures /\ MaxWaitFailures \in Nat
  BY PacketAssumption DEF TopupInv, T!TypeOK, Entry, PacketAssumption
<1>2. Pending(tPool, o) \in Nat
  BY <1>1, PendingType
<1>3. QED
  BY <1>1, <1>2 DEF Out

\* The steps that only move a job on, give it up, or lose its payout from sight.
OnlyTheJob == UNCHANGED <<status, invoice, history, credited>>

LEMMA TopupJobMoves ==
    ASSUME TopupInv, OnlyTheJob, NEW w \in Slot, NEW new \in T!Job,
           tJob' = [tJob EXCEPT ![w] = new],
           tPool' = T!Orphaned(w) \/ (tPool' = tPool /\ ~Awaits(tJob[w])),
           wallet' \in BOOLEAN, tWaits' \in 0 .. MaxWaitFailures, tWaits' >= tWaits,
           tSends' \in 0 .. MaxSendFailures, tCrashes' \in 0 .. MaxCrashes,
           Holds(new) => Holds(tJob[w]) /\ new.order = tJob[w].order,
           new.pc = "claim" => Paid(new.order), new.pc # "createInvoice",
           Banked(new) => Banked(tJob[w]),
           Unsent(new) => Unsent(tJob[w]) \/ tWaits' = tWaits + 1
    PROVE  TopupInv'
<1>1. UNCHANGED <<status, invoice, history, credited>> /\ \A o \in Order : Paid(o)' = Paid(o)
  BY DEF OnlyTheJob, Paid
<1>2. T!TypeOK /\ tJob \in [Slot -> T!Job] /\ tPool \in Seq(Entry)
  BY DEF TopupInv, T!TypeOK, Entry
<1>3. tJob'[w] = new /\ (\A v \in Slot : v # w => tJob'[v] = tJob[v]) /\ tJob' \in [Slot -> T!Job]
  BY <1>2
<1>4. /\ tPool' \in Seq(Entry) /\ DOMAIN tPool' = DOMAIN tPool
      /\ \A k \in DOMAIN tPool :
           /\ tPool'[k].order = tPool[k].order /\ tPool[k].order \in Order
           /\ tPool'[k].by # w
           /\ tPool'[k].by \in Slot => tPool'[k].by = tPool[k].by
  <2>1. \A k \in DOMAIN tPool : tPool[k] \in Entry
    BY <1>2
  <2>2. ~Awaits(tJob[w]) => \A k \in DOMAIN tPool : tPool[k].by # w
    BY DEF TopupInv, PoolIsHeld
  <2>3. QED
    BY <1>2, <2>1, <2>2, OrphansStayOut DEF Entry
<1>5. \A o \in Order : Out(credited', tPool', o) = Out(credited, tPool, o)
  BY <1>1, <1>2, <1>4, PendingSame DEF Out
<1>6. T!TypeOK'
  BY <1>1, <1>2, <1>3, <1>4 DEF T!TypeOK, Entry
<1>7. OneHolder'
  BY <1>1, <1>3 DEF TopupInv, OneHolder
<1>8. OneInvoice'
  <2>1. new.order \in Order /\ \A v \in Slot : tJob[v].order \in Order
    BY <1>2 DEF T!Job
  <2>2. QED
    BY <1>1, <1>3, <2>1 DEF TopupInv, OneInvoice
<1>9. PoolIsHeld'
  BY <1>1, <1>3, <1>4 DEF TopupInv, PoolIsHeld
<1>10. HistoryIsOwed'
  <2>1. Banked(new) => new.order = tJob[w].order
    BY DEF Banked, Holds
  <2>2. QED
    BY <1>1, <1>3, <2>1 DEF TopupInv, HistoryIsOwed, T!BooksFollowMoney
<1>11. PayoutsAreCounted'
  <2>1. \A v \in Slot : tJob'[v].order \in Order
    BY <1>3 DEF T!Job
  <2>2. Unsent(new) => new.order = tJob[w].order
    BY DEF Unsent, Reverted, Holds
  <2>3. \A o \in Order : Out(credited, tPool, o) \in Nat /\ tWaits \in Nat /\ tWaits' \in Nat
    BY TopupCounts, PacketAssumption DEF PacketAssumption
  <2>4. \A v \in Slot : tJob[v].order \in Order
    BY <1>2 DEF T!Job
  <2>5. ASSUME NEW v \in Slot, NEW o \in Order, Unsent(tJob'[v]), o = tJob'[v].order
        PROVE  Out(credited', tPool', o) <= tWaits'
    <3>1. CASE v # w
      BY <1>3, <1>5, <2>3, <2>5, <3>1 DEF TopupInv, PayoutsAreCounted
    <3>2. CASE v = w
      <4>1. Out(credited, tPool, o) <= 1 + tWaits /\ (Unsent(tJob[w]) => Out(credited, tPool, o) <= tWaits)
        BY <1>3, <2>2, <2>5, <3>2 DEF TopupInv, PayoutsAreCounted
      <4>2. QED
        BY <1>3, <1>5, <2>3, <2>5, <3>2, <4>1
    <3>3. QED
      BY <3>1, <3>2
  <2>6. \A o \in Order : status'[o] = status[o]
    BY <1>1
  <2>7. \A o \in Order : /\ Out(credited', tPool', o) <= 1 + tWaits'
                         /\ status'[o] \in {"none", "pending", "failed"} => Out(credited', tPool', o) <= tWaits'
    BY <1>5, <2>3, <2>6 DEF TopupInv, PayoutsAreCounted
  <2>8. \A v \in Slot : Unsent(tJob'[v]) => Out(credited', tPool', tJob'[v].order) <= tWaits'
    BY <2>1, <2>5
  <2>9. QED
    BY <2>7, <2>8 DEF PayoutsAreCounted
<1>12. QED
  BY <1>6, <1>7, <1>8, <1>9, <1>10, <1>11 DEF TopupInv

LEMMA TopupQuietSteps ==
    ASSUME TopupInv, NEW w \in Slot,
           \/ T!ReadInvoice(w) \/ T!FindWallet(w) \/ T!AwaitPayout(w)
           \/ T!WaitThrows(w) \/ T!SendThrows(w) \/ T!Crash(w)
           \/ \E o \in Order : T!StartWebhook(w, o) \/ T!StartPoll(w, o)
    PROVE  TopupInv'
<1> DEFINE Goes(pc) == [tJob[w] EXCEPT !.pc = pc, !.tx = "none"]
<1>1. /\ T!TypeOK /\ tJob \in [Slot -> T!Job] /\ tJob[w] \in T!Job
      /\ MaxWaitFailures \in Nat /\ MaxSendFailures \in Nat /\ MaxCrashes \in Nat
  BY PacketAssumption DEF TopupInv, T!TypeOK, PacketAssumption
<1>2. \A pc \in {"claim", "expire", "send", "complete", "undo", "history"} :
        /\ Goes(pc) \in T!Job /\ Goes(pc).order = tJob[w].order
        /\ Goes(pc).pc = pc /\ Goes(pc).tx = "none"
  BY <1>1 DEF T!Job
<1>3. /\ wallet \in BOOLEAN /\ tWaits \in 0 .. MaxWaitFailures
      /\ tSends \in 0 .. MaxSendFailures /\ tCrashes \in 0 .. MaxCrashes
  BY <1>1 DEF T!TypeOK
<1>rest. /\ wallet' = wallet => wallet' \in BOOLEAN
         /\ tWaits' = tWaits => tWaits' \in 0 .. MaxWaitFailures /\ tWaits' >= tWaits
         /\ tSends' = tSends => tSends' \in 0 .. MaxSendFailures
         /\ tCrashes' = tCrashes => tCrashes' \in 0 .. MaxCrashes
  BY <1>1, <1>3
<1>4. \A pc : T!Goto(w, pc) => tJob' = [tJob EXCEPT ![w] = Goes(pc)]
  BY <1>1 DEF T!Goto
<1>5. T!Return(w) => tJob' = [tJob EXCEPT ![w] = T!NoJob]
  BY DEF T!Return
<1> HIDE DEF Goes
<1> USE DEF T!failVars, T!At
<1>6. CASE T!ReadInvoice(w)
  <2>1. PICK new : /\ new \in {T!NoJob, Goes("claim"), Goes("expire")}
                   /\ tJob' = [tJob EXCEPT ![w] = new]
                   /\ new.pc = "claim" => Paid(new.order)
    BY <1>2, <1>4, <1>5, <1>6, FreshTopupJob
       DEF T!ReadInvoice, T!PaidStatus, T!OrderOf, Paid
  <2>2. new \in T!Job /\ new.pc \in {"idle", "claim", "expire"}
    BY <1>2, <2>1, FreshTopupJob
  <2>3. OnlyTheJob /\ wallet' = wallet /\ tPool' = tPool /\ tWaits' = tWaits /\ tSends' = tSends /\ tCrashes' = tCrashes /\ ~Awaits(tJob[w])
    BY <1>6 DEF T!ReadInvoice, OnlyTheJob, Awaits
  <2>4. QED
    BY <1>rest, <2>1, <2>2, <2>3, TopupJobMoves DEF Holds, Reverted, Unsent, Banked, Awaits
<1>7. CASE T!FindWallet(w)
  <2>1. PICK new : new \in {T!NoJob, Goes("send")} /\ tJob' = [tJob EXCEPT ![w] = new]
    BY <1>4, <1>5, <1>7 DEF T!FindWallet
  <2>2. new \in T!Job /\ (new.pc = "idle" \/ (new.pc = "send" /\ new.order = tJob[w].order))
    BY <1>2, <2>1, FreshTopupJob
  <2>3. /\ OnlyTheJob /\ wallet' = wallet /\ tPool' = tPool /\ tWaits' = tWaits /\ tSends' = tSends /\ tCrashes' = tCrashes
        /\ tJob[w].pc = "wallet"
    BY <1>7 DEF T!FindWallet, OnlyTheJob, Awaits
  <2>4. QED
    BY <1>rest, <2>1, <2>2, <2>3, TopupJobMoves DEF Holds, Reverted, Unsent, Banked, Awaits
<1>8. CASE T!AwaitPayout(w)
  <2>1. PICK new : /\ new \in {Goes("complete"), Goes("undo")} /\ tJob' = [tJob EXCEPT ![w] = new]
                   /\ tJob[w].pc = "wait" /\ tJob[w].tx \in {"mined", "reverted"}
                   /\ new.pc = "complete" => tJob[w].tx = "mined"
                   /\ new.pc = "undo" => tJob[w].tx = "reverted"
    BY <1>2, <1>4, <1>8 DEF T!AwaitPayout, T!PayoutMined
  <2>2. new \in T!Job /\ new.pc \in {"complete", "undo"} /\ new.order = tJob[w].order
    BY <1>2, <2>1
  <2>3. OnlyTheJob /\ wallet' = wallet /\ tPool' = tPool /\ tWaits' = tWaits /\ tSends' = tSends /\ tCrashes' = tCrashes
    BY <1>8 DEF T!AwaitPayout, OnlyTheJob, Awaits
  <2>4. QED
    BY <1>rest, <2>1, <2>2, <2>3, TopupJobMoves DEF Holds, Reverted, Unsent, Banked, Awaits
<1>9. CASE T!WaitThrows(w)
  <2>1. PICK new : /\ new = Goes("undo") /\ tJob' = [tJob EXCEPT ![w] = new]
                   /\ tJob[w].pc = "wait"
    BY <1>4, <1>9 DEF T!WaitThrows
  <2>2. new \in T!Job /\ new.pc = "undo" /\ new.order = tJob[w].order
    BY <1>2, <2>1
  <2>3. /\ OnlyTheJob /\ wallet' = wallet /\ tSends' = tSends /\ tCrashes' = tCrashes /\ tPool' = T!Orphaned(w)
        /\ tWaits' = tWaits + 1 /\ tWaits' \in 0 .. MaxWaitFailures /\ tWaits' >= tWaits
    BY <1>1, <1>3, <1>9 DEF T!WaitThrows, OnlyTheJob, Awaits
  <2>4. QED
    BY <1>rest, <2>1, <2>2, <2>3, TopupJobMoves DEF Holds, Reverted, Unsent, Banked, Awaits
<1>10. CASE T!SendThrows(w)
  <2>1. PICK new : /\ new = Goes("undo") /\ tJob' = [tJob EXCEPT ![w] = new]
                   /\ tJob[w].pc = "send"
    BY <1>4, <1>10 DEF T!SendThrows
  <2>2. new \in T!Job /\ new.pc = "undo" /\ new.order = tJob[w].order
    BY <1>2, <2>1
  <2>3. /\ OnlyTheJob /\ wallet' = wallet /\ tPool' = tPool /\ tWaits' = tWaits /\ tCrashes' = tCrashes
        /\ tSends' \in 0 .. MaxSendFailures
    BY <1>1, <1>3, <1>10 DEF T!SendThrows, OnlyTheJob, Awaits
  <2>4. QED
    BY <1>rest, <2>1, <2>2, <2>3, TopupJobMoves DEF Holds, Reverted, Unsent, Banked, Awaits
<1>11. CASE T!Crash(w)
  <2>1. PICK new : /\ new \in {T!NoJob, Goes("history")} /\ tJob' = [tJob EXCEPT ![w] = new]
                   /\ new.pc = "history" => tJob[w].pc = "complete"
    BY <1>2, <1>4, <1>5, <1>11, FreshTopupJob DEF T!Crash
  <2>2. new \in T!Job /\ (new.pc = "idle" \/ (new.pc = "history" /\ new.order = tJob[w].order))
    BY <1>2, <2>1, FreshTopupJob
  <2>3. /\ OnlyTheJob /\ wallet' = wallet /\ tWaits' = tWaits /\ tSends' = tSends /\ tPool' = T!Orphaned(w)
        /\ tCrashes' \in 0 .. MaxCrashes
    BY <1>1, <1>3, <1>11 DEF T!Crash, OnlyTheJob, Awaits
  <2>4. QED
    BY <1>rest, <2>1, <2>2, <2>3, TopupJobMoves DEF Holds, Reverted, Unsent, Banked, Awaits
<1>12. ASSUME NEW o \in Order, T!StartWebhook(w, o) \/ T!StartPoll(w, o)
       PROVE  TopupInv'
  <2>1. PICK pc \in {"claim", "expire", "readInvoice"} :
          /\ T!Begin(w, pc, o)
          /\ pc = "claim" => Paid(o)
    BY <1>12 DEF T!StartWebhook, T!StartPoll, Paid, T!PaidStatus
  <2> DEFINE new == [T!NoJob EXCEPT !.pc = pc, !.order = o]
  <2>2. new \in T!Job /\ new.pc = pc /\ new.order = o
    BY FreshTopupJob DEF T!Job
  <2>3. tJob' = [tJob EXCEPT ![w] = new] /\ tJob[w].pc = "idle"
    BY <2>1 DEF T!Begin
  <2>4. OnlyTheJob /\ wallet' = wallet /\ tPool' = tPool /\ tWaits' = tWaits /\ tSends' = tSends /\ tCrashes' = tCrashes
    BY <1>12 DEF T!StartWebhook, T!StartPoll, OnlyTheJob, Awaits
  <2> HIDE DEF new
  <2>5. QED
    BY <1>rest, <2>1, <2>2, <2>3, <2>4, TopupJobMoves DEF Holds, Reverted, Unsent, Banked, Awaits
<1>13. QED
  BY <1>6, <1>7, <1>8, <1>9, <1>10, <1>11, <1>12

\* The steps that move a job and the status of its order.
OnlyJobAndStatus == UNCHANGED <<invoice, wallet, history, credited, tPool, tWaits, tSends, tCrashes>>

\* Nobody but w holds the order.
Alone(w, o) == \A v \in Slot \ {w} : ~(Holds(tJob[v]) /\ tJob[v].order = o)

LEMMA TopupStatusMoves ==
    ASSUME TopupInv, OnlyJobAndStatus, NEW w \in Slot, NEW o \in Order, NEW new \in T!Job,
           NEW s \in T!Status \ {"none"}, ~Awaits(tJob[w]), Alone(w, o),
           tJob' = [tJob EXCEPT ![w] = new], status' = [status EXCEPT ![o] = s],
           Holds(new) => new.order = o /\ s \in {"paid", "completed"} /\ Paid(o),
           new.pc # "claim",
           new.pc = "createInvoice" => new.order = o /\ invoice[o] = "none" /\ status[o] = "none",
           s = "completed" => credited[o] > 0,
           Banked(new) => Banked(tJob[w]) /\ tJob[w].order = o,
           s \in {"pending", "failed"} \/ Unsent(new) => Out(credited, tPool, o) <= tWaits
    PROVE  TopupInv'
<1>1. UNCHANGED <<invoice, wallet, history, credited, tPool, tWaits, tSends, tCrashes>>
  BY DEF OnlyJobAndStatus
<1>2. T!TypeOK /\ tJob \in [Slot -> T!Job] /\ status \in [Order -> T!Status]
  BY DEF TopupInv, T!TypeOK
<1>3. /\ tJob'[w] = new /\ tJob' \in [Slot -> T!Job]
      /\ \A v \in Slot : v # w => tJob'[v] = tJob[v]
  BY <1>2
<1>4. /\ status'[o] = s /\ status' \in [Order -> T!Status]
      /\ \A p \in Order : p # o => status'[p] = status[p]
  BY <1>2
<1>5. \A v \in Slot : tJob[v].order \in Order /\ tJob'[v].order \in Order
  BY <1>2, <1>3 DEF T!Job
<1>6. T!TypeOK'
  BY <1>1, <1>2, <1>3, <1>4 DEF T!TypeOK
<1>7. OneHolder'
  <2>1. ASSUME NEW u \in Slot, NEW v \in Slot, Holds(tJob'[u]), Holds(tJob'[v]),
               tJob'[u].order = tJob'[v].order
        PROVE  u = v
    BY <1>3, <2>1 DEF TopupInv, OneHolder, Alone
  <2>2. ASSUME NEW v \in Slot, Holds(tJob'[v])
        PROVE  status'[tJob'[v].order] \in {"paid", "completed"}
    BY <1>3, <1>4, <1>5, <2>2 DEF TopupInv, OneHolder, Alone
  <2>3. QED
    BY <2>1, <2>2 DEF OneHolder
<1>8. OneInvoice'
  <2>1. \A p \in Order : Paid(p)' = Paid(p)
    BY <1>1 DEF Paid
  <2>2. \A p \in Order : status'[p] = "none" => status[p] = "none"
    BY <1>4
  <2>3. \A v \in Slot : Holds(tJob'[v]) \/ tJob'[v].pc = "claim" => Paid(tJob'[v].order)
    BY <1>3, <1>5 DEF TopupInv, OneInvoice
  <2>4. \A v \in Slot : tJob'[v].pc = "createInvoice" =>
          invoice[tJob'[v].order] = "none" /\ status'[tJob'[v].order] # "none"
    BY <1>3, <1>4, <1>5 DEF TopupInv, OneInvoice
  <2>5. \A u, v \in Slot :
          tJob'[u].pc = "createInvoice" /\ tJob'[v].pc = "createInvoice"
            /\ tJob'[u].order = tJob'[v].order => u = v
    BY <1>3, <1>5 DEF TopupInv, OneInvoice
  <2>6. QED
    BY <1>1, <2>2, <2>3, <2>4, <2>5 DEF TopupInv, OneInvoice, Paid
<1>9. PoolIsHeld'
  <2>1. \A k \in DOMAIN tPool : tPool[k].by # w
    BY DEF TopupInv, PoolIsHeld
  <2>2. QED
    BY <1>1, <1>3, <2>1 DEF TopupInv, PoolIsHeld, Paid
<1>10. HistoryIsOwed'
  <2>1. Banked(new) => new.order = o /\ tJob[w].order = o
    BY DEF Banked, Holds
  <2>2. QED
    BY <1>1, <1>3, <1>4, <2>1 DEF TopupInv, HistoryIsOwed, T!BooksFollowMoney
<1>11. PayoutsAreCounted'
  <2>1. Unsent(new) => new.order = o
    BY DEF Unsent, Reverted, Holds
  <2>2. \A p \in Order : Out(credited', tPool', p) = Out(credited, tPool, p)
    BY <1>1
  <2>3. \A p \in Order : /\ Out(credited, tPool, p) <= 1 + tWaits
                         /\ p # o /\ status[p] \in {"none", "pending", "failed"} =>
                              Out(credited, tPool, p) <= tWaits
    BY DEF TopupInv, PayoutsAreCounted
  <2>4. \A p \in Order : status'[p] \in {"none", "pending", "failed"} =>
                           Out(credited, tPool, p) <= tWaits
    BY <1>4, <2>3
  <2>5. \A v \in Slot : Unsent(tJob'[v]) => Out(credited, tPool, tJob'[v].order) <= tWaits
    BY <1>3, <2>1 DEF TopupInv, PayoutsAreCounted
  <2>6. QED
    BY <1>1, <2>2, <2>3, <2>4, <2>5 DEF PayoutsAreCounted
<1>12. QED
  BY <1>6, <1>7, <1>8, <1>9, <1>10, <1>11 DEF TopupInv

LEMMA TopupStatusSteps ==
    ASSUME TopupInv, NEW w \in Slot,
           \/ T!Expire(w) \/ T!Claim(w) \/ T!Complete(w) \/ T!Undo(w)
           \/ \E o \in Order : T!CreateRow(w, o)
    PROVE  TopupInv'
<1> DEFINE Goes(pc) == [tJob[w] EXCEPT !.pc = pc, !.tx = "none"]
<1> USE DEF T!failVars, T!At, T!OrderOf
<1>1. /\ T!TypeOK /\ tJob \in [Slot -> T!Job] /\ tJob[w] \in T!Job
      /\ status \in [Order -> T!Status] /\ tJob[w].order \in Order
  BY DEF TopupInv, T!TypeOK, T!Job
<1>2. \A pc \in {"wallet", "history"} :
        /\ Goes(pc) \in T!Job /\ Goes(pc).order = tJob[w].order
        /\ Goes(pc).pc = pc /\ Goes(pc).tx = "none"
  BY <1>1 DEF T!Job
<1>3. \A pc : T!Goto(w, pc) => tJob' = [tJob EXCEPT ![w] = Goes(pc)]
  BY <1>1 DEF T!Goto
<1>4. T!Return(w) => tJob' = [tJob EXCEPT ![w] = T!NoJob]
  BY DEF T!Return
<1> HIDE DEF Goes
<1>5. PICK o \in Order : o = tJob[w].order
  BY <1>1
<1>6. status' = status /\ tJob' = [tJob EXCEPT ![w] = T!NoJob] /\ ~Awaits(tJob[w])
        /\ OnlyJobAndStatus => TopupInv'
  <2> SUFFICES ASSUME status' = status, tJob' = [tJob EXCEPT ![w] = T!NoJob],
                      ~Awaits(tJob[w]), OnlyJobAndStatus
               PROVE  TopupInv'
    OBVIOUS
  <2>1. OnlyTheJob /\ tPool' = tPool
    BY DEF OnlyTheJob, OnlyJobAndStatus
  <2>2. /\ wallet' \in BOOLEAN /\ tWaits' \in 0 .. MaxWaitFailures /\ tWaits' >= tWaits
        /\ tSends' \in 0 .. MaxSendFailures /\ tCrashes' \in 0 .. MaxCrashes
    BY <1>1, PacketAssumption DEF T!TypeOK, OnlyJobAndStatus, PacketAssumption
  <2>3. QED
    BY <2>1, <2>2, FreshTopupJob, TopupJobMoves DEF Holds, Reverted, Unsent, Banked
<1>7. CASE T!Expire(w)
  <2>1. OnlyJobAndStatus /\ ~Awaits(tJob[w]) /\ tJob' = [tJob EXCEPT ![w] = T!NoJob]
    BY <1>4, <1>7 DEF T!Expire, OnlyJobAndStatus, Awaits
  <2>2. CASE status[o] = "pending"
    <3>1. Alone(w, o) /\ status' = [status EXCEPT ![o] = "expired"]
      BY <1>5, <1>7, <2>2 DEF T!Expire, T!MayExpire, T!SetStatus, TopupInv, OneHolder, Alone
    <3>2. QED
      BY <2>1, <3>1, FreshTopupJob, TopupStatusMoves
         DEF T!Status, Holds, Reverted, Unsent, Banked
  <2>3. CASE status[o] # "pending"
    BY <1>5, <1>6, <1>7, <2>1, <2>3 DEF T!Expire, T!MayExpire
  <2>4. QED
    BY <2>2, <2>3
<1>8. CASE T!Claim(w)
  <2>1. OnlyJobAndStatus /\ tJob[w].pc = "claim" /\ Paid(o) /\ ~Awaits(tJob[w])
    BY <1>5, <1>8 DEF T!Claim, OnlyJobAndStatus, TopupInv, OneInvoice, Awaits
  <2>2. CASE status[o] \in {"pending", "failed"}
    <3>1. Alone(w, o) /\ Out(credited, tPool, o) <= tWaits
      BY <1>5, <2>2 DEF TopupInv, OneHolder, Alone, PayoutsAreCounted
    <3>2. /\ status' = [status EXCEPT ![o] = "paid"]
          /\ tJob' = [tJob EXCEPT ![w] = Goes("wallet")]
      BY <1>3, <1>5, <1>8, <2>2 DEF T!Claim, T!Claimable, T!SetStatus
    <3>3. /\ Goes("wallet") \in T!Job /\ Goes("wallet").order = o
          /\ Goes("wallet").pc = "wallet"
      BY <1>2, <1>5
    <3>4. QED
      BY <2>1, <3>1, <3>2, <3>3, TopupStatusMoves DEF T!Status, Holds, Banked
  <2>3. CASE status[o] \notin {"pending", "failed"}
    BY <1>4, <1>5, <1>6, <1>8, <2>1, <2>3 DEF T!Claim, T!Claimable
  <2>4. QED
    BY <2>2, <2>3
<1>9. CASE T!Complete(w)
  <2>1. /\ OnlyJobAndStatus /\ tJob[w].pc = "complete" /\ ~Awaits(tJob[w])
        /\ Holds(tJob[w]) /\ Banked(tJob[w])
    BY <1>9 DEF T!Complete, OnlyJobAndStatus, Awaits, Holds, Banked
  <2>2. Alone(w, o) /\ Paid(o)
    BY <1>5, <2>1 DEF TopupInv, OneHolder, Alone, OneInvoice
  <2>3. credited[o] > 0
    BY <1>5, <2>1, TopupCounts DEF TopupInv, HistoryIsOwed
  <2>4. /\ status' = [status EXCEPT ![o] = "completed"]
        /\ tJob' = [tJob EXCEPT ![w] = Goes("history")]
    BY <1>3, <1>5, <1>9 DEF T!Complete, T!SetStatus
  <2>5. /\ Goes("history") \in T!Job /\ Goes("history").order = o
        /\ Goes("history").pc = "history"
    BY <1>2, <1>5
  <2>6. QED
    BY <1>5, <2>1, <2>2, <2>3, <2>4, <2>5, TopupStatusMoves DEF T!Status, Unsent, Reverted
<1>10. CASE T!Undo(w)
  <2>1. /\ OnlyJobAndStatus /\ tJob[w].pc = "undo" /\ ~Awaits(tJob[w])
        /\ Holds(tJob[w]) /\ Unsent(tJob[w])
    BY <1>10 DEF T!Undo, OnlyJobAndStatus, Awaits, Holds, Unsent
  <2>2. Alone(w, o) /\ Out(credited, tPool, o) <= tWaits
    BY <1>5, <2>1 DEF TopupInv, OneHolder, Alone, PayoutsAreCounted
  <2>3. /\ status' = [status EXCEPT ![o] = "failed"]
        /\ tJob' = [tJob EXCEPT ![w] = T!NoJob]
    BY <1>4, <1>5, <1>10 DEF T!Undo, T!SetStatus
  <2>4. QED
    BY <2>1, <2>2, <2>3, FreshTopupJob, TopupStatusMoves
       DEF T!Status, Holds, Reverted, Unsent, Banked
<1>11. ASSUME NEW p \in Order, T!CreateRow(w, p)
       PROVE  TopupInv'
  <2> DEFINE new == [T!NoJob EXCEPT !.pc = "createInvoice", !.order = p]
  <2>1. new \in T!Job /\ new.pc = "createInvoice" /\ new.order = p
    BY FreshTopupJob DEF T!Job
  <2>2. /\ OnlyJobAndStatus /\ ~Awaits(tJob[w]) /\ status[p] = "none"
        /\ tJob' = [tJob EXCEPT ![w] = new] /\ status' = [status EXCEPT ![p] = "pending"]
    BY <1>11 DEF T!CreateRow, T!Begin, OnlyJobAndStatus, Awaits
  <2>3. Alone(w, p) /\ Out(credited, tPool, p) <= tWaits /\ invoice[p] = "none"
    BY <2>2 DEF TopupInv, OneHolder, OneInvoice, Alone, PayoutsAreCounted
  <2> HIDE DEF new
  <2>4. QED
    BY <2>1, <2>2, <2>3, TopupStatusMoves DEF T!Status, Holds, Reverted, Unsent, Banked
<1>12. QED
  BY <1>7, <1>8, <1>9, <1>10, <1>11

\* A payout goes out under the name of the one job that holds its order.
LEMMA TopupSends ==
    ASSUME TopupInv, NEW w \in Slot, T!SendPayout(w)
    PROVE  TopupInv'
<1> DEFINE new == [tJob[w] EXCEPT !.pc = "wait", !.tx = "pending"]
           e == [order |-> tJob[w].order, by |-> w]
           n == Len(tPool) + 1
<1>1. /\ UNCHANGED <<status, invoice, wallet, history, credited, tWaits, tSends, tCrashes>>
      /\ tPool' = Append(tPool, e) /\ tJob[w].pc = "send"
  BY DEF T!SendPayout, T!At, T!OrderOf, T!failVars
<1>2. /\ T!TypeOK /\ tJob \in [Slot -> T!Job] /\ tPool \in Seq(Entry)
      /\ tJob[w] \in T!Job
  BY DEF TopupInv, T!TypeOK, Entry
<1>3. e \in Entry /\ e.by = w /\ e.order = tJob[w].order
  BY <1>2 DEF Entry, T!Job
<1>4. /\ new \in T!Job /\ new.order = tJob[w].order /\ Awaits(new) /\ Holds(new)
      /\ ~Unsent(new) /\ ~Banked(new) /\ new.pc = "wait"
  BY <1>2 DEF T!Job, Awaits, Holds, Unsent, Reverted, Banked
<1>5. /\ tJob'[w] = new /\ tJob' \in [Slot -> T!Job]
      /\ \A v \in Slot : v # w => tJob'[v] = tJob[v]
  <2>1. tJob' = [tJob EXCEPT ![w] = new]
    BY <1>2 DEF T!SendPayout
  <2>2. QED
    BY <1>2, <1>4, <2>1
<1>6. /\ tPool' \in Seq(Entry) /\ DOMAIN tPool' = DOMAIN tPool \cup {n} /\ tPool'[n] = e
      /\ \A k \in DOMAIN tPool : tPool'[k] = tPool[k]
  BY <1>1, <1>2, <1>3
<1> HIDE DEF new, e, n
<1>7. \A o \in Order : Paid(o)' = Paid(o)
  BY <1>1 DEF Paid
<1>8. \A v \in Slot : tJob[v].order \in Order /\ tJob'[v].order \in Order
  BY <1>2, <1>5 DEF T!Job
<1>9. Holds(tJob[w]) /\ Unsent(tJob[w]) /\ ~Awaits(tJob[w])
  BY <1>1 DEF Holds, Unsent, Awaits
<1>10. T!TypeOK'
  BY <1>1, <1>2, <1>5, <1>6 DEF T!TypeOK, Entry
<1>11. OneHolder'
  BY <1>1, <1>4, <1>5, <1>9 DEF TopupInv, OneHolder
<1>12. OneInvoice'
  BY <1>1, <1>4, <1>5, <1>7, <1>8, <1>9 DEF TopupInv, OneInvoice
<1>13. PoolIsHeld'
  <2>1. \A k \in DOMAIN tPool : tPool[k].by # w /\ tPool[k] \in Entry
    BY <1>2, <1>9 DEF TopupInv, PoolIsHeld
  <2>2. Paid(e.order)
    BY <1>3, <1>9 DEF TopupInv, OneInvoice
  <2>3. \A k \in DOMAIN tPool' : k \in DOMAIN tPool \/ k = n
    BY <1>6
  <2>4. \A k \in DOMAIN tPool' : Paid(tPool'[k].order)
    BY <1>6, <2>2, <2>3 DEF TopupInv, PoolIsHeld
  <2>5. \A k \in DOMAIN tPool' : tPool'[k].by \in Slot =>
          Awaits(tJob'[tPool'[k].by]) /\ tJob'[tPool'[k].by].order = tPool'[k].order
    BY <1>3, <1>4, <1>5, <1>6, <2>1, <2>3 DEF TopupInv, PoolIsHeld
  <2>6. \A k, l \in DOMAIN tPool' :
          tPool'[k].by \in Slot /\ tPool'[k].by = tPool'[l].by => k = l
    BY <1>3, <1>6, <2>1, <2>3 DEF TopupInv, PoolIsHeld
  <2>7. QED
    BY <1>1, <2>4, <2>5, <2>6 DEF PoolIsHeld, Paid
<1>14. HistoryIsOwed'
  BY <1>1, <1>4, <1>5 DEF TopupInv, HistoryIsOwed, T!BooksFollowMoney
<1>15. PayoutsAreCounted'
  <2>1. \A o \in Order : Pending(tPool', o) = Pending(tPool, o) + (IF e.order = o THEN 1 ELSE 0)
    BY <1>1, <1>2, <1>3, PendingAppend
  <2>2. \A o \in Order : Pending(tPool, o) \in Nat /\ credited[o] \in Nat /\ tWaits \in Nat
    BY <1>2, PendingType, TopupCounts
  <2>3. \A o \in Order : Out(credited', tPool', o) =
                           Out(credited, tPool, o) + (IF e.order = o THEN 1 ELSE 0)
    BY <1>1, <2>1, <2>2 DEF Out
  <2>4. Out(credited, tPool, e.order) <= tWaits /\ status[e.order] \notin {"none", "pending", "failed"}
    BY <1>3, <1>9 DEF TopupInv, PayoutsAreCounted, OneHolder
  <2>5. \A o \in Order : Out(credited, tPool, o) \in Nat
    BY TopupCounts
  <2>6. \A o \in Order : Out(credited', tPool', o) <= 1 + tWaits
    BY <2>2, <2>3, <2>4, <2>5 DEF TopupInv, PayoutsAreCounted
  <2>7. \A o \in Order : status[o] \in {"none", "pending", "failed"} =>
                           Out(credited', tPool', o) <= tWaits
    BY <2>2, <2>3, <2>4, <2>5 DEF TopupInv, PayoutsAreCounted
  <2>8. ASSUME NEW v \in Slot, Unsent(tJob'[v])
        PROVE  Out(credited', tPool', tJob'[v].order) <= tWaits
    <3>1. v # w /\ tJob'[v] = tJob[v]
      BY <1>4, <1>5, <2>8
    <3>2. tJob[v].order # e.order
      BY <1>3, <1>9, <2>8, <3>1 DEF TopupInv, OneHolder, Unsent, Reverted, Holds
    <3>3. QED
      BY <1>8, <2>3, <2>5, <2>8, <3>1, <3>2 DEF TopupInv, PayoutsAreCounted
  <2>9. QED
    BY <1>1, <2>6, <2>7, <2>8 DEF PayoutsAreCounted
<1>16. QED
  BY <1>10, <1>11, <1>12, <1>13, <1>14, <1>15 DEF TopupInv

\* A block mines the oldest payout, or the chain reverts it; its job hears which.
LEMMA TopupMines ==
    ASSUME TopupInv, T!Mine
    PROVE  TopupInv'
<1> DEFINE e == Head(tPool)
           o == Head(tPool).order
           by == Head(tPool).by
<1>1. /\ T!TypeOK /\ tJob \in [Slot -> T!Job] /\ tPool \in Seq(Entry) /\ tPool # << >>
      /\ credited \in [Order -> Nat] /\ history \in [Order -> Nat]
  BY DEF TopupInv, T!TypeOK, Entry, T!Mine
<1>2. /\ UNCHANGED <<status, invoice, wallet, history, tWaits, tCrashes>> /\ tPool' = Tail(tPool)
  BY DEF T!Mine
<1>3. PICK result \in {"mined", "reverted"} :
        /\ T!Reported(by, result)
        /\ result = "mined" => credited' = [credited EXCEPT ![o] = @ + 1] /\ tSends' = tSends
        /\ result = "reverted" =>
             credited' = credited /\ tSends' = tSends + 1 /\ tSends < MaxSendFailures
  BY DEF T!Mine
<1>4. /\ Len(tPool) \in Nat \ {0} /\ DOMAIN tPool = 1 .. Len(tPool) /\ e = tPool[1] /\ e \in Entry
      /\ tPool' \in Seq(Entry) /\ DOMAIN tPool' = 1 .. Len(tPool) - 1
      /\ \A k \in DOMAIN tPool' : k + 1 \in DOMAIN tPool /\ tPool'[k] = tPool[k + 1]
  BY <1>1, <1>2
<1>5. o \in Order /\ by \in Slot \cup {"nobody"} /\ 1 \in DOMAIN tPool /\ o = tPool[1].order
      /\ by = tPool[1].by
  BY <1>4 DEF Entry
<1> HIDE DEF e, o, by
<1>6. Paid(o) /\ (by \in Slot => Awaits(tJob[by]) /\ tJob[by].order = o)
  BY <1>5 DEF TopupInv, PoolIsHeld
<1>7. /\ tJob' \in [Slot -> T!Job]
      /\ \A v \in Slot : v # by => tJob'[v] = tJob[v]
      /\ \A v \in Slot : tJob'[v].pc = tJob[v].pc /\ tJob'[v].order = tJob[v].order
      /\ by \in Slot => tJob'[by].tx = result
  <2>1. CASE by \in Slot
    <3> DEFINE new == [tJob[by] EXCEPT !.tx = result]
    <3>1. tJob' = [tJob EXCEPT ![by] = new]
      BY <1>1, <1>3, <2>1 DEF T!Reported
    <3>2. tJob[by] \in T!Job
      BY <1>1, <2>1
    <3>3. new \in T!Job /\ new.pc = tJob[by].pc /\ new.order = tJob[by].order /\ new.tx = result
      BY <3>2 DEF T!Job
    <3> HIDE DEF new
    <3>4. QED
      BY <1>1, <2>1, <3>1, <3>3
  <2>2. CASE by \notin Slot
    BY <1>1, <1>3, <2>2 DEF T!Reported
  <2>3. QED
    BY <2>1, <2>2
<1>8. /\ credited' \in [Order -> Nat]
      /\ \A p \in Order : credited'[p] = credited[p] + (IF p = o /\ result = "mined" THEN 1 ELSE 0)
  <2>1. CASE result = "mined"
    <3>1. credited' = [credited EXCEPT ![o] = @ + 1]
      BY <1>3, <2>1
    <3>2. \A p \in Order : (p = o /\ result = "mined") <=> p = o
      BY <2>1
    <3>3. QED
      BY <1>1, <1>5, <3>1, <3>2
  <2>2. CASE result = "reverted"
    <3>1. credited' = credited
      BY <1>3, <2>2
    <3>2. \A p \in Order : (IF p = o /\ result = "mined" THEN 1 ELSE 0) = 0 /\ credited[p] \in Nat
      BY <1>1, <2>2
    <3>3. QED
      BY <1>1, <3>1, <3>2
  <2>3. QED
    BY <2>1, <2>2
<1>9. \A v \in Slot : tJob[v].order \in Order
  BY <1>1 DEF T!Job
<1>10. T!TypeOK'
  <2>1. tSends' \in 0 .. MaxSendFailures
    BY <1>1, <1>3, PacketAssumption DEF T!TypeOK, PacketAssumption
  <2>2. QED
    BY <1>1, <1>2, <1>4, <1>7, <1>8, <2>1 DEF T!TypeOK, Entry
<1>11. OneHolder' /\ OneInvoice'
  <2>1. \A v \in Slot : Holds(tJob'[v]) = Holds(tJob[v])
    BY <1>7 DEF Holds
  <2>2. OneHolder'
    BY <1>2, <1>7, <2>1 DEF TopupInv, OneHolder
  <2>3. OneInvoice'
    BY <1>2, <1>7, <2>1 DEF TopupInv, OneInvoice, Paid
  <2>4. QED
    BY <2>2, <2>3
<1>12. PoolIsHeld'
  <2>1. \A k \in DOMAIN tPool' : k + 1 # 1 /\ k \in Nat
    BY <1>4
  <2>2. \A k \in DOMAIN tPool' : tPool'[k].by \in Slot => tPool'[k].by # by
    BY <1>4, <1>5, <2>1 DEF TopupInv, PoolIsHeld
  <2>3. \A k \in DOMAIN tPool' : Paid(tPool'[k].order)
    BY <1>4 DEF TopupInv, PoolIsHeld
  <2>4. \A k \in DOMAIN tPool' : tPool'[k].by \in Slot =>
          Awaits(tJob'[tPool'[k].by]) /\ tJob'[tPool'[k].by].order = tPool'[k].order
    BY <1>4, <1>7, <2>2 DEF TopupInv, PoolIsHeld
  <2>5. \A k, l \in DOMAIN tPool' :
          tPool'[k].by \in Slot /\ tPool'[k].by = tPool'[l].by => k = l
    BY <1>4, <2>1 DEF TopupInv, PoolIsHeld
  <2>6. QED
    BY <1>2, <2>3, <2>4, <2>5 DEF PoolIsHeld, Paid
<1>13. HistoryIsOwed'
  <2>1. \A p \in Order : credited'[p] >= credited[p] /\ credited'[p] \in Nat /\ credited[p] \in Nat
                         /\ history[p] \in Nat
    BY <1>1, <1>8
  <2>2. T!BooksFollowMoney'
    <3>1. \A p \in Order : credited'[p] > 0 => invoice[p] \in {"PAID", "SETTLED"}
      BY <1>6, <1>8, <2>1 DEF TopupInv, HistoryIsOwed, T!BooksFollowMoney, Paid
    <3>2. \A p \in Order : /\ status[p] = "completed" => credited'[p] > 0
                           /\ history[p] <= credited'[p]
      BY <2>1 DEF TopupInv, HistoryIsOwed, T!BooksFollowMoney
    <3>3. QED
      BY <1>2, <3>1, <3>2 DEF T!BooksFollowMoney
  <2>3. ASSUME NEW v \in Slot, Banked(tJob'[v])
        PROVE  history[tJob'[v].order] + 1 <= credited'[tJob'[v].order]
    <3>1. CASE v # by
      BY <1>7, <1>9, <2>1, <2>3, <3>1 DEF TopupInv, HistoryIsOwed
    <3>2. CASE v = by
      <4>1. result = "mined" /\ tJob'[v].order = o
        BY <1>6, <1>7, <2>3, <3>2 DEF Banked, Awaits
      <4>2. credited'[o] = credited[o] + 1 /\ history[o] <= credited[o]
        BY <1>5, <1>8, <4>1 DEF TopupInv, HistoryIsOwed, T!BooksFollowMoney
      <4>3. QED
        BY <1>5, <2>1, <4>1, <4>2
    <3>3. QED
      BY <3>1, <3>2
  <2>4. QED
    BY <1>2, <2>2, <2>3 DEF HistoryIsOwed
<1>14. PayoutsAreCounted'
  <2>1. \A p \in Order : Pending(tPool, p) = Pending(tPool', p) + (IF o = p THEN 1 ELSE 0)
    BY <1>1, <1>2, PendingTail DEF o
  <2>2. \A p \in Order : /\ Pending(tPool, p) \in Nat /\ Pending(tPool', p) \in Nat
                         /\ credited[p] \in Nat /\ tWaits \in Nat
    BY <1>1, <1>4, PendingType, TopupCounts
  <2>3. \A p \in Order : Out(credited', tPool', p) =
                  Out(credited, tPool, p) - (IF p = o /\ result = "reverted" THEN 1 ELSE 0)
    BY <1>3, <1>8, <2>1, <2>2 DEF Out
  <2>4. \A p \in Order : Out(credited, tPool, p) \in Nat
    BY TopupCounts
  <2>5. \A p \in Order : Out(credited', tPool', p) <= 1 + tWaits
    BY <2>2, <2>3, <2>4 DEF TopupInv, PayoutsAreCounted
  <2>6. \A p \in Order : status[p] \in {"none", "pending", "failed"} =>
                           Out(credited', tPool', p) <= tWaits
    BY <2>2, <2>3, <2>4 DEF TopupInv, PayoutsAreCounted
  <2>7. ASSUME NEW v \in Slot, NEW p \in Order, Unsent(tJob'[v]), tJob[v].order = p
        PROVE  Out(credited', tPool', p) <= tWaits
    <3>1. CASE v # by
      BY <1>7, <2>2, <2>3, <2>4, <2>7, <3>1 DEF TopupInv, PayoutsAreCounted
    <3>2. CASE v = by
      <4>1. result = "reverted" /\ p = o
        BY <1>6, <1>7, <2>7, <3>2 DEF Unsent, Reverted, Awaits
      <4>2. QED
        BY <2>2, <2>3, <2>4, <4>1 DEF TopupInv, PayoutsAreCounted
    <3>3. QED
      BY <3>1, <3>2
  <2>8. \A v \in Slot : Unsent(tJob'[v]) => Out(credited', tPool', tJob'[v].order) <= tWaits
    BY <1>7, <1>9, <2>7
  <2>9. QED
    BY <1>2, <2>5, <2>6, <2>8 DEF PayoutsAreCounted
<1>15. QED
  BY <1>10, <1>11, <1>12, <1>13, <1>14 DEF TopupInv

\* The invoice is made for the one job that waits for it.
LEMMA TopupInvoices ==
    ASSUME TopupInv, NEW w \in Slot, T!CreateInvoice(w)
    PROVE  TopupInv'
<1>1. /\ T!TypeOK /\ tJob \in [Slot -> T!Job] /\ invoice' = [invoice EXCEPT ![tJob[w].order] = "PENDING"]
      /\ UNCHANGED <<status, wallet, history, credited, tPool, tWaits, tSends, tCrashes>>
      /\ tJob' = [tJob EXCEPT ![w] = T!NoJob] /\ tJob[w].pc = "createInvoice"
  BY DEF TopupInv, T!TypeOK, T!CreateInvoice, T!OrderOf, T!At, T!Return, T!failVars
<1>2. PICK o \in Order : o = tJob[w].order
  BY <1>1 DEF T!Job
<1>3. /\ invoice[o] = "none" /\ status[o] # "none"
      /\ \A v \in Slot : tJob[v].pc = "createInvoice" /\ tJob[v].order = o => v = w
  BY <1>1, <1>2 DEF TopupInv, OneInvoice
<1>4. /\ invoice'[o] = "PENDING" /\ \A p \in Order : p # o => invoice'[p] = invoice[p]
      /\ invoice' \in [Order -> {"none", "PENDING", "PAID", "SETTLED", "EXPIRED"}]
  BY <1>1, <1>2 DEF T!TypeOK
<1>5. /\ tJob'[w].pc = "idle" /\ tJob' \in [Slot -> T!Job]
      /\ \A v \in Slot : v # w => tJob'[v] = tJob[v]
  BY <1>1, FreshTopupJob
<1>6. \A p \in Order : Paid(p) => Paid(p)'
  BY <1>3, <1>4 DEF Paid
<1>7. \A v \in Slot : tJob[v].order \in Order
  BY <1>1 DEF T!Job
<1>8. T!TypeOK'
  BY <1>1, <1>4, <1>5 DEF T!TypeOK
<1>9. OneHolder'
  BY <1>1, <1>5 DEF TopupInv, OneHolder, Holds
<1>10. OneInvoice'
  <2>1. \A v \in Slot : Holds(tJob'[v]) \/ tJob'[v].pc = "claim" =>
          invoice'[tJob'[v].order] \in {"PAID", "SETTLED"}
    BY <1>4, <1>3, <1>5, <1>7 DEF TopupInv, OneInvoice, Holds, Paid
  <2>2. \A v \in Slot : tJob'[v].pc = "createInvoice" =>
          invoice'[tJob'[v].order] = "none" /\ status'[tJob'[v].order] # "none"
    BY <1>1, <1>3, <1>4, <1>5, <1>7 DEF TopupInv, OneInvoice
  <2>3. \A u, v \in Slot :
          tJob'[u].pc = "createInvoice" /\ tJob'[v].pc = "createInvoice"
            /\ tJob'[u].order = tJob'[v].order => u = v
    BY <1>5 DEF TopupInv, OneInvoice
  <2>4. \A p \in Order : status'[p] = "none" => invoice'[p] = "none"
    BY <1>1, <1>3, <1>4 DEF TopupInv, OneInvoice
  <2>5. QED
    BY <2>1, <2>2, <2>3, <2>4 DEF OneInvoice, Paid
<1>11. PoolIsHeld'
  <2>1. \A k \in DOMAIN tPool : tPool[k].order \in Order /\ Paid(tPool[k].order)
    <3>1. tPool \in Seq(Entry)
      BY <1>1 DEF T!TypeOK, Entry
    <3>2. \A k \in DOMAIN tPool : tPool[k] \in Entry
      BY <3>1
    <3>3. QED
      BY <3>2 DEF TopupInv, PoolIsHeld, Entry
  <2>2. \A k \in DOMAIN tPool : Paid(tPool[k].order)'
    BY <1>1, <1>3, <1>4, <2>1 DEF Paid
  <2>3. \A k \in DOMAIN tPool : tPool[k].by # w
    BY <1>1 DEF TopupInv, PoolIsHeld, Awaits
  <2>4. QED
    BY <1>1, <1>5, <2>2, <2>3 DEF TopupInv, PoolIsHeld, Paid
<1>12. HistoryIsOwed'
  <2>1. \A p \in Order : credited[p] > 0 => invoice'[p] \in {"PAID", "SETTLED"}
    BY <1>3, <1>4 DEF TopupInv, HistoryIsOwed, T!BooksFollowMoney
  <2>2. QED
    BY <1>1, <1>5, <2>1 DEF TopupInv, HistoryIsOwed, T!BooksFollowMoney, Banked
<1>13. PayoutsAreCounted'
  <2>1. \A v \in Slot : Unsent(tJob'[v]) => Unsent(tJob[v]) /\ tJob'[v] = tJob[v]
    BY <1>5 DEF Unsent, Reverted
  <2>2. QED
    BY <1>1, <2>1 DEF TopupInv, PayoutsAreCounted
<1>14. QED
  BY <1>8, <1>9, <1>10, <1>11, <1>12, <1>13 DEF TopupInv

\* The history row is written for a payout that none was written for.
LEMMA TopupWritesHistory ==
    ASSUME TopupInv, NEW w \in Slot, T!WriteHistory(w)
    PROVE  TopupInv'
<1>1. /\ T!TypeOK /\ tJob \in [Slot -> T!Job] /\ history \in [Order -> Nat] /\ credited \in [Order -> Nat]
      /\ history' = [history EXCEPT ![tJob[w].order] = @ + 1]
      /\ UNCHANGED <<status, invoice, wallet, credited, tPool, tWaits, tSends, tCrashes>>
      /\ tJob' = [tJob EXCEPT ![w] = T!NoJob] /\ tJob[w].pc = "history"
  BY DEF TopupInv, T!TypeOK, T!WriteHistory, T!OrderOf, T!At, T!Return, T!failVars
<1>2. PICK o \in Order : o = tJob[w].order
  BY <1>1 DEF T!Job
<1>3. /\ history' \in [Order -> Nat] /\ history'[o] = history[o] + 1
      /\ \A p \in Order : p # o => history'[p] = history[p]
  BY <1>1, <1>2
<1>4. /\ tJob'[w].pc = "idle" /\ tJob' \in [Slot -> T!Job]
      /\ \A v \in Slot : v # w => tJob'[v] = tJob[v]
  BY <1>1, FreshTopupJob
<1>5. \A v \in Slot : tJob[v].order \in Order
  BY <1>1 DEF T!Job
<1>6. Banked(tJob[w]) /\ Holds(tJob[w]) /\ ~Awaits(tJob[w])
  BY <1>1 DEF Banked, Holds, Awaits
<1>7. T!TypeOK'
  BY <1>1, <1>3, <1>4 DEF T!TypeOK
<1>8. OneHolder' /\ OneInvoice'
  <2>1. OneHolder'
    BY <1>1, <1>4 DEF TopupInv, OneHolder, Holds
  <2>2. OneInvoice'
    BY <1>1, <1>4 DEF TopupInv, OneInvoice, Holds, Paid
  <2>3. QED
    BY <2>1, <2>2
<1>9. PoolIsHeld'
  <2>1. \A k \in DOMAIN tPool : tPool[k].by # w
    BY <1>6 DEF TopupInv, PoolIsHeld
  <2>2. QED
    BY <1>1, <1>4, <2>1 DEF TopupInv, PoolIsHeld, Paid
<1>10. HistoryIsOwed'
  <2>1. history[o] + 1 <= credited[o]
    BY <1>2, <1>6 DEF TopupInv, HistoryIsOwed
  <2>2. T!BooksFollowMoney'
    BY <1>1, <1>3, <2>1 DEF TopupInv, HistoryIsOwed, T!BooksFollowMoney
  <2>3. ASSUME NEW v \in Slot, Banked(tJob'[v])
        PROVE  history'[tJob'[v].order] + 1 <= credited[tJob'[v].order]
    <3>1. v # w /\ tJob'[v] = tJob[v]
      BY <1>4, <2>3 DEF Banked
    <3>2. Holds(tJob[v])
      BY <2>3, <3>1 DEF Banked, Holds
    <3>3. tJob[v].order # o
      BY <1>2, <1>6, <3>1, <3>2 DEF TopupInv, OneHolder
    <3>4. QED
      BY <1>3, <1>5, <2>3, <3>1, <3>3 DEF TopupInv, HistoryIsOwed
  <2>4. QED
    BY <1>1, <2>2, <2>3 DEF HistoryIsOwed
<1>11. PayoutsAreCounted'
  <2>1. \A v \in Slot : Unsent(tJob'[v]) => Unsent(tJob[v]) /\ tJob'[v] = tJob[v]
    BY <1>4 DEF Unsent, Reverted
  <2>2. QED
    BY <1>1, <2>1 DEF TopupInv, PayoutsAreCounted
<1>12. QED
  BY <1>7, <1>8, <1>9, <1>10, <1>11 DEF TopupInv

\* The user and the gateway move the invoice on, never out of being paid.
LEMMA TopupOutside ==
    ASSUME TopupInv, T!GetWallet \/ \E o \in Order : T!Pay(o) \/ T!ExpireInvoice(o)
    PROVE  TopupInv'
<1>1. /\ UNCHANGED <<status, history, credited, tPool, tJob, tWaits, tSends, tCrashes>>
      /\ wallet' \in BOOLEAN
      /\ invoice' \in [Order -> {"none", "PENDING", "PAID", "SETTLED", "EXPIRED"}]
      /\ \A p \in Order : /\ Paid(p) => invoice'[p] \in {"PAID", "SETTLED"}
                          /\ invoice[p] = "none" => invoice'[p] = "none"
  BY DEF T!GetWallet, T!Pay, T!ExpireInvoice, T!failVars, TopupInv, T!TypeOK, Paid
<1>2. T!TypeOK /\ tJob \in [Slot -> T!Job] /\ tPool \in Seq(Entry)
  BY DEF TopupInv, T!TypeOK, Entry
<1>3. (\A v \in Slot : tJob[v].order \in Order) /\ \A k \in DOMAIN tPool : tPool[k].order \in Order
  <2>1. \A k \in DOMAIN tPool : tPool[k] \in Entry
    BY <1>2
  <2>2. QED
    BY <1>2, <2>1 DEF T!Job, Entry
<1>4. T!TypeOK'
  BY <1>1, <1>2 DEF T!TypeOK
<1>5. OneHolder'
  BY <1>1 DEF TopupInv, OneHolder
<1>6. OneInvoice'
  BY <1>1, <1>3 DEF TopupInv, OneInvoice, Paid
<1>7. PoolIsHeld'
  BY <1>1, <1>3 DEF TopupInv, PoolIsHeld, Paid
<1>8. HistoryIsOwed'
  BY <1>1 DEF TopupInv, HistoryIsOwed, T!BooksFollowMoney, Paid
<1>9. PayoutsAreCounted'
  BY <1>1 DEF TopupInv, PayoutsAreCounted
<1>10. QED
  BY <1>4, <1>5, <1>6, <1>7, <1>8, <1>9 DEF TopupInv

LEMMA TopupStep ==
    ASSUME TopupInv, [T!Next]_(T!vars)
    PROVE  TopupInv'
<1>1. ASSUME NEW w \in Slot, T!Step(w) PROVE TopupInv'
  BY <1>1, TopupQuietSteps, TopupStatusSteps, TopupSends, TopupInvoices, TopupWritesHistory
     DEF T!Step
<1>2. ASSUME NEW w \in Slot,
             \/ T!WaitThrows(w) \/ T!SendThrows(w) \/ T!Crash(w)
             \/ \E o \in Order : T!CreateRow(w, o) \/ T!StartWebhook(w, o) \/ T!StartPoll(w, o)
      PROVE  TopupInv'
  BY <1>2, TopupQuietSteps, TopupStatusSteps
<1>3. CASE T!GetWallet \/ \E o \in Order : T!Pay(o) \/ T!ExpireInvoice(o)
  BY <1>3, TopupOutside
<1>4. CASE T!Mine
  BY <1>4, TopupMines
<1>5. CASE UNCHANGED T!vars
  <2>1. UNCHANGED <<status, invoice, wallet, history, credited, tPool, tJob, tWaits, tSends, tCrashes>>
    BY <1>5 DEF T!vars, T!failVars
  <2>2. T!TypeOK' /\ OneHolder'
    BY <2>1 DEF TopupInv, T!TypeOK, OneHolder
  <2>3. OneInvoice' /\ PoolIsHeld'
    BY <2>1 DEF TopupInv, OneInvoice, PoolIsHeld, Paid
  <2>4. HistoryIsOwed' /\ PayoutsAreCounted'
    BY <2>1 DEF TopupInv, HistoryIsOwed, T!BooksFollowMoney, PayoutsAreCounted
  <2>5. QED
    BY <2>2, <2>3, <2>4 DEF TopupInv
<1>6. QED
  BY <1>1, <1>2, <1>3, <1>4, <1>5 DEF T!Next

\* The inductive invariant of the orders holds in every state (handlePaid, creditTreasury).
THEOREM TopupInvariant == ServicesSpec => []TopupInv
<1>1. ServicesInit => TopupInv
  BY TopupInit DEF ServicesInit
<1>2. TopupInv /\ [ServicesNext]_allVars => TopupInv'
  <2>1. [ServicesNext]_allVars => [T!Next]_(T!vars)
    BY DEF ServicesNext, OfPackets, OfTopups, OfSweep, allVars, tVars, T!vars, T!failVars
  <2>2. QED
    BY <2>1, TopupStep
<1>3. QED
  BY <1>1, <1>2, PTL DEF ServicesSpec

\* However webhooks, polls, failed payouts, thrown waits and crashes meet, an order is paid out
\* once plus once per wait that threw, only for a paid invoice, is completed only with tokens on
\* chain, and its history lists no payout that is not there.
THEOREM TopupBooksFollowMoney == ServicesSpec => []BooksFollowMoney
<1>1. TopupInv => BooksFollowMoney
  <2>1. ASSUME TopupInv PROVE T!OneCreditPerWait
    <3>1. ASSUME NEW o \in Order PROVE credited[o] <= 1 + tWaits
      <4>1. Out(credited, tPool, o) <= 1 + tWaits
        BY <2>1 DEF TopupInv, PayoutsAreCounted
      <4>2. Pending(tPool, o) \in Nat /\ credited[o] \in Nat /\ tWaits \in Nat
        BY <2>1, TopupCounts, PendingType DEF TopupInv, T!TypeOK, Entry
      <4>3. QED
        BY <4>1, <4>2 DEF Out
    <3>2. QED
      BY <3>1 DEF T!OneCreditPerWait
  <2>2. QED
    BY <2>1 DEF TopupInv, HistoryIsOwed, BooksFollowMoney
<1>2. QED
  BY <1>1, TopupInvariant, PTL
-----------------------------------------------------------------------------
(* The screen that waits for a top-up.  Once it saw the window closed, no  *)
(* payment can begin; a poll that then met no payout under way saw that    *)
(* there was none to make, or ended the wait.                              *)

\* What the screen has seen of the window is so, for good.
ClosedIsSeen ==
    /\ closedFor # "unseen" => window = "closed"
    /\ step \in {"redirecting", "settling", "done"} \/ closedFor # "unseen" => order # "none"
    /\ step = "creating" => closedFor = "unseen" /\ window # "here"
    /\ step = "redirecting" => window = "here" /\ closedFor = "unseen"
    /\ message = "not charged" => closedFor = "over"

LookedIsUnpaid ==
    /\ unpaid = 0 => order # "failed"
    /\ step = "settling" /\ window = "closed" /\ looked /\ unpaid = 0 => screenInvoice # "paid"
    /\ closedFor = "over" /\ ~late /\ unpaid = 0 => screenInvoice # "paid"

ScreenInv == S!TypeOK /\ ClosedIsSeen /\ LookedIsUnpaid

LEMMA ScreenInit ==
    ASSUME S!Init
    PROVE  ScreenInv
<1>1. 0 \in 0 .. MaxDropped /\ 0 \in 0 .. MaxUnpaid
  BY ServicesAssumption DEF ServicesAssumption
<1>2. QED
  BY <1>1 DEF ScreenInv, S!Init, S!TypeOK, ClosedIsSeen, LookedIsUnpaid

LEMMA ScreenStep ==
    ASSUME ScreenInv, [S!Next]_(S!vars)
    PROVE  ScreenInv'
<1> USE DEF S!gateway, S!timers, S!Fail
<1>1. S!TypeOK /\ ClosedIsSeen /\ LookedIsUnpaid /\ MaxDropped \in Nat /\ MaxUnpaid \in Nat
  BY ServicesAssumption DEF ScreenInv, ServicesAssumption
<1>counts. dropped \in 0 .. MaxDropped /\ unpaid \in 0 .. MaxUnpaid /\ unpaid \in Nat
  <2>1. dropped \in 0 .. MaxDropped /\ unpaid \in 0 .. MaxUnpaid
    BY <1>1 DEF S!TypeOK
  <2>2. QED
    BY <1>1, <2>1
<1>2. CASE S!CreateInvoice
  <2>1. S!TypeOK'
    BY <1>1, <1>2 DEF S!CreateInvoice, S!TypeOK
  <2>2. ClosedIsSeen'
    BY <1>1, <1>2 DEF S!CreateInvoice, S!TypeOK, ClosedIsSeen
  <2>3. LookedIsUnpaid'
    BY <1>1, <1>2 DEF S!CreateInvoice, S!TypeOK, ClosedIsSeen, LookedIsUnpaid
  <2>4. QED
    BY <2>1, <2>2, <2>3 DEF ScreenInv
<1>3. CASE S!CreateFails
  <2>1. S!TypeOK'
    BY <1>1, <1>3 DEF S!CreateFails, S!TypeOK
  <2>2. ClosedIsSeen'
    BY <1>1, <1>3 DEF S!CreateFails, S!TypeOK, ClosedIsSeen
  <2>3. LookedIsUnpaid'
    BY <1>1, <1>3 DEF S!CreateFails, S!TypeOK, ClosedIsSeen, LookedIsUnpaid
  <2>4. QED
    BY <2>1, <2>2, <2>3 DEF ScreenInv
<1>4. CASE S!ComeBack
  <2>1. S!TypeOK'
    <3>1. dropped' \in 0 .. MaxDropped /\ unpaid' \in 0 .. MaxUnpaid
      BY <1>1, <1>counts, <1>4 DEF S!ComeBack
    <3>2. ended' \in BOOLEAN /\ looked' \in BOOLEAN /\ late' \in BOOLEAN
      BY <1>1, <1>4, Zenon DEF S!ComeBack, S!TypeOK
    <3>3. /\ screenInvoice' \in {"none", "pending", "paid", "expired"}
          /\ order' \in {"none", "pending", "paid", "completed", "failed", "expired"}
          /\ window' \in {"open", "closed", "here"}
          /\ step' \in {"creating", "redirecting", "settling", "done", "failed"}
          /\ message' \in {"nothing", "not started", "not charged", "expired", "on its way"}
          /\ closedFor' \in {"unseen", "grace", "over"}
      BY <1>1, <1>4 DEF S!ComeBack, S!TypeOK
    <3>4. QED
      BY <3>1, <3>2, <3>3 DEF S!TypeOK
  <2>2. ClosedIsSeen'
    BY <1>1, <1>4 DEF S!ComeBack, S!TypeOK, ClosedIsSeen
  <2>3. LookedIsUnpaid'
    BY <1>1, <1>4 DEF S!ComeBack, S!TypeOK, ClosedIsSeen, LookedIsUnpaid
  <2>4. QED
    BY <2>1, <2>2, <2>3 DEF ScreenInv
<1>5. CASE S!Pay
  <2>1. S!TypeOK'
    BY <1>1, <1>5 DEF S!Pay, S!TypeOK
  <2>2. ClosedIsSeen'
    BY <1>1, <1>5 DEF S!Pay, S!TypeOK, ClosedIsSeen
  <2>3. LookedIsUnpaid'
    BY <1>1, <1>5 DEF S!Pay, S!TypeOK, ClosedIsSeen, LookedIsUnpaid
  <2>4. QED
    BY <2>1, <2>2, <2>3 DEF ScreenInv
<1>6. CASE S!InvoiceExpires
  <2>1. S!TypeOK'
    <3>1. dropped' \in 0 .. MaxDropped /\ unpaid' \in 0 .. MaxUnpaid
      BY <1>1, <1>counts, <1>6 DEF S!InvoiceExpires
    <3>2. ended' \in BOOLEAN /\ looked' \in BOOLEAN /\ late' \in BOOLEAN
      BY <1>1, <1>6, Zenon DEF S!InvoiceExpires, S!TypeOK
    <3>3. /\ screenInvoice' \in {"none", "pending", "paid", "expired"}
          /\ order' \in {"none", "pending", "paid", "completed", "failed", "expired"}
          /\ window' \in {"open", "closed", "here"}
          /\ step' \in {"creating", "redirecting", "settling", "done", "failed"}
          /\ message' \in {"nothing", "not started", "not charged", "expired", "on its way"}
          /\ closedFor' \in {"unseen", "grace", "over"}
      BY <1>1, <1>6 DEF S!InvoiceExpires, S!TypeOK
    <3>4. QED
      BY <3>1, <3>2, <3>3 DEF S!TypeOK
  <2>2. ClosedIsSeen'
    BY <1>1, <1>6 DEF S!InvoiceExpires, S!TypeOK, ClosedIsSeen
  <2>3. LookedIsUnpaid'
    BY <1>1, <1>6 DEF S!InvoiceExpires, S!TypeOK, ClosedIsSeen, LookedIsUnpaid
  <2>4. QED
    BY <2>1, <2>2, <2>3 DEF ScreenInv
<1>7. CASE S!CloseWindow
  <2>1. S!TypeOK'
    <3>1. dropped' \in 0 .. MaxDropped /\ unpaid' \in 0 .. MaxUnpaid
      BY <1>1, <1>counts, <1>7 DEF S!CloseWindow
    <3>2. ended' \in BOOLEAN /\ looked' \in BOOLEAN /\ late' \in BOOLEAN
      BY <1>1, <1>7, Zenon DEF S!CloseWindow, S!TypeOK
    <3>3. /\ screenInvoice' \in {"none", "pending", "paid", "expired"}
          /\ order' \in {"none", "pending", "paid", "completed", "failed", "expired"}
          /\ window' \in {"open", "closed", "here"}
          /\ step' \in {"creating", "redirecting", "settling", "done", "failed"}
          /\ message' \in {"nothing", "not started", "not charged", "expired", "on its way"}
          /\ closedFor' \in {"unseen", "grace", "over"}
      BY <1>1, <1>7 DEF S!CloseWindow, S!TypeOK
    <3>4. QED
      BY <3>1, <3>2, <3>3 DEF S!TypeOK
  <2>2. ClosedIsSeen'
    BY <1>1, <1>7 DEF S!CloseWindow, S!TypeOK, ClosedIsSeen
  <2>3. LookedIsUnpaid'
    BY <1>1, <1>7 DEF S!CloseWindow, S!TypeOK, ClosedIsSeen, LookedIsUnpaid
  <2>4. QED
    BY <2>1, <2>2, <2>3 DEF ScreenInv
<1>8. CASE S!WebhookClaims
  <2>1. S!TypeOK'
    BY <1>1, <1>8 DEF S!WebhookClaims, S!TypeOK
  <2>2. ClosedIsSeen'
    BY <1>1, <1>8 DEF S!WebhookClaims, S!TypeOK, ClosedIsSeen
  <2>3. LookedIsUnpaid'
    BY <1>1, <1>8 DEF S!WebhookClaims, S!TypeOK, ClosedIsSeen, LookedIsUnpaid
  <2>4. QED
    BY <2>1, <2>2, <2>3 DEF ScreenInv
<1>9. CASE S!WebhookPays
  <2>1. S!TypeOK'
    <3>1. dropped' \in 0 .. MaxDropped /\ unpaid' \in 0 .. MaxUnpaid
      BY <1>1, <1>counts, <1>9 DEF S!WebhookPays, S!Settled, S!NotSettled
    <3>2. ended' \in BOOLEAN /\ looked' \in BOOLEAN /\ late' \in BOOLEAN
      BY <1>1, <1>9, Zenon DEF S!WebhookPays, S!Settled, S!NotSettled, S!TypeOK
    <3>3. /\ screenInvoice' \in {"none", "pending", "paid", "expired"}
          /\ order' \in {"none", "pending", "paid", "completed", "failed", "expired"}
          /\ window' \in {"open", "closed", "here"}
          /\ step' \in {"creating", "redirecting", "settling", "done", "failed"}
          /\ message' \in {"nothing", "not started", "not charged", "expired", "on its way"}
          /\ closedFor' \in {"unseen", "grace", "over"}
      BY <1>1, <1>9 DEF S!WebhookPays, S!Settled, S!NotSettled, S!TypeOK
    <3>4. QED
      BY <3>1, <3>2, <3>3 DEF S!TypeOK
  <2>2. ClosedIsSeen'
    BY <1>1, <1>9 DEF S!WebhookPays, S!Settled, S!NotSettled, S!TypeOK, ClosedIsSeen
  <2>3. LookedIsUnpaid'
    <3>1. /\ order' = "completed" \/ unpaid' # 0
          /\ unpaid' = 0 => unpaid = 0
          /\ screenInvoice' = screenInvoice /\ window' = window /\ step' = step
          /\ closedFor' = closedFor
      BY <1>counts, <1>9 DEF S!WebhookPays, S!Settled, S!NotSettled
    <3>2. looked' = looked /\ late' = late
      BY <1>9 DEF S!WebhookPays
    <3>3. QED
      BY <1>1, <3>1, <3>2, Zenon DEF LookedIsUnpaid
  <2>4. QED
    BY <2>1, <2>2, <2>3 DEF ScreenInv
<1>10. CASE S!SeesClosed
  <2>1. S!TypeOK'
    BY <1>1, <1>10 DEF S!SeesClosed, S!TypeOK
  <2>2. ClosedIsSeen'
    BY <1>1, <1>10 DEF S!SeesClosed, S!TypeOK, ClosedIsSeen
  <2>3. LookedIsUnpaid'
    BY <1>1, <1>10 DEF S!SeesClosed, S!TypeOK, ClosedIsSeen, LookedIsUnpaid
  <2>4. QED
    BY <2>1, <2>2, <2>3 DEF ScreenInv
<1>11. CASE S!GraceEnds
  <2>1. S!TypeOK'
    BY <1>1, <1>11 DEF S!GraceEnds, S!TypeOK
  <2>2. ClosedIsSeen'
    BY <1>1, <1>11 DEF S!GraceEnds, S!TypeOK, ClosedIsSeen
  <2>3. LookedIsUnpaid'
    BY <1>1, <1>11 DEF S!GraceEnds, S!TypeOK, ClosedIsSeen, LookedIsUnpaid
  <2>4. QED
    BY <2>1, <2>2, <2>3 DEF ScreenInv
<1>12. CASE S!GiveUp
  <2>1. S!TypeOK'
    BY <1>1, <1>12 DEF S!GiveUp, S!GraceIsOver, S!TypeOK
  <2>2. ClosedIsSeen'
    BY <1>1, <1>12 DEF S!GiveUp, S!GraceIsOver, S!TypeOK, ClosedIsSeen
  <2>3. LookedIsUnpaid'
    BY <1>1, <1>12 DEF S!GiveUp, S!GraceIsOver, S!TypeOK, ClosedIsSeen, LookedIsUnpaid
  <2>4. QED
    BY <2>1, <2>2, <2>3 DEF ScreenInv
<1>13. CASE S!Poll
  <2>1. S!TypeOK'
    <3>1. dropped' \in 0 .. MaxDropped /\ unpaid' \in 0 .. MaxUnpaid
      BY <1>1, <1>counts, <1>13 DEF S!Poll, S!Settled, S!NotSettled, S!Shows, S!PollSettles, S!GraceIsOver
    <3>2. ended' \in BOOLEAN /\ looked' \in BOOLEAN /\ late' \in BOOLEAN
      BY <1>1, <1>13, Zenon DEF S!Poll, S!Settled, S!NotSettled, S!Shows, S!PollSettles, S!GraceIsOver, S!TypeOK
    <3>3. /\ screenInvoice' \in {"none", "pending", "paid", "expired"}
          /\ order' \in {"none", "pending", "paid", "completed", "failed", "expired"}
          /\ window' \in {"open", "closed", "here"}
          /\ step' \in {"creating", "redirecting", "settling", "done", "failed"}
          /\ message' \in {"nothing", "not started", "not charged", "expired", "on its way"}
          /\ closedFor' \in {"unseen", "grace", "over"}
      BY <1>1, <1>13 DEF S!Poll, S!Settled, S!NotSettled, S!Shows, S!PollSettles, S!GraceIsOver, S!TypeOK
    <3>4. QED
      BY <3>1, <3>2, <3>3 DEF S!TypeOK
  <2>2. ClosedIsSeen'
    BY <1>1, <1>13 DEF S!Poll, S!Settled, S!NotSettled, S!Shows, S!PollSettles, S!GraceIsOver, S!TypeOK, ClosedIsSeen
  <2>3. LookedIsUnpaid'
    <3>1. /\ unpaid' = 0 => unpaid = 0 /\ order' # "failed"
          /\ screenInvoice' = screenInvoice /\ closedFor' = closedFor /\ closedFor # "over"
      BY <1>1, <1>counts, <1>13 DEF S!Poll, S!Settled, S!NotSettled, S!PollSettles, S!GraceIsOver,
         LookedIsUnpaid
    <3>2. unpaid' = 0 /\ step' = "settling" /\ order' # "paid" => screenInvoice # "paid"
      <4>1. order # "none" /\ step = "settling"
        BY <1>1, <1>13 DEF S!Poll, ClosedIsSeen
      <4>2. order' \in {"none", "pending", "paid", "completed", "failed", "expired"}
        BY <2>1 DEF S!TypeOK
      <4>3. order' = "completed" => step' = "done"
        BY <1>13 DEF S!Poll, S!Shows
      <4>4. order' = "expired" => step' = "failed"
        BY <1>13 DEF S!Poll, S!Shows
      <4>5. order' # "none" /\ (order' = "pending" => screenInvoice # "paid")
        BY <1>13, <4>1 DEF S!Poll, S!PollSettles, S!Settled, S!NotSettled
      <4>6. QED
        BY <3>1, <4>2, <4>3, <4>4, <4>5
    <3>3. looked' => order' # "paid"
      BY <1>13 DEF S!Poll
    <3>4. QED
      BY <3>1, <3>2, <3>3 DEF LookedIsUnpaid
  <2>4. QED
    BY <2>1, <2>2, <2>3 DEF ScreenInv
<1>14. CASE S!DropPoll
  <2>1. S!TypeOK'
    <3>1. dropped' \in 0 .. MaxDropped /\ unpaid' \in 0 .. MaxUnpaid
      BY <1>1, <1>counts, <1>14 DEF S!DropPoll
    <3>2. ended' \in BOOLEAN /\ looked' \in BOOLEAN /\ late' \in BOOLEAN
      BY <1>1, <1>14, Zenon DEF S!DropPoll, S!TypeOK
    <3>3. /\ screenInvoice' \in {"none", "pending", "paid", "expired"}
          /\ order' \in {"none", "pending", "paid", "completed", "failed", "expired"}
          /\ window' \in {"open", "closed", "here"}
          /\ step' \in {"creating", "redirecting", "settling", "done", "failed"}
          /\ message' \in {"nothing", "not started", "not charged", "expired", "on its way"}
          /\ closedFor' \in {"unseen", "grace", "over"}
      BY <1>1, <1>14 DEF S!DropPoll, S!TypeOK
    <3>4. QED
      BY <3>1, <3>2, <3>3 DEF S!TypeOK
  <2>2. ClosedIsSeen'
    BY <1>1, <1>14 DEF S!DropPoll, S!TypeOK, ClosedIsSeen
  <2>3. LookedIsUnpaid'
    BY <1>1, <1>14 DEF S!DropPoll, S!TypeOK, ClosedIsSeen, LookedIsUnpaid
  <2>4. QED
    BY <2>1, <2>2, <2>3 DEF ScreenInv
<1>15. CASE S!TimeRunsOut
  <2>1. S!TypeOK'
    BY <1>1, <1>15 DEF S!TimeRunsOut, S!TypeOK
  <2>2. ClosedIsSeen'
    BY <1>1, <1>15 DEF S!TimeRunsOut, S!TypeOK, ClosedIsSeen
  <2>3. LookedIsUnpaid'
    BY <1>1, <1>15 DEF S!TimeRunsOut, S!TypeOK, ClosedIsSeen, LookedIsUnpaid
  <2>4. QED
    BY <2>1, <2>2, <2>3 DEF ScreenInv
<1>16. CASE S!TimedOut
  <2>1. S!TypeOK'
    BY <1>1, <1>16 DEF S!TimedOut, S!TypeOK
  <2>2. ClosedIsSeen'
    BY <1>1, <1>16 DEF S!TimedOut, S!TypeOK, ClosedIsSeen
  <2>3. LookedIsUnpaid'
    BY <1>1, <1>16 DEF S!TimedOut, S!TypeOK, ClosedIsSeen, LookedIsUnpaid
  <2>4. QED
    BY <2>1, <2>2, <2>3 DEF ScreenInv
<1>17. CASE S!ShutWindow
  <2>1. S!TypeOK'
    <3>1. dropped' \in 0 .. MaxDropped /\ unpaid' \in 0 .. MaxUnpaid
      BY <1>1, <1>counts, <1>17 DEF S!ShutWindow
    <3>2. ended' \in BOOLEAN /\ looked' \in BOOLEAN /\ late' \in BOOLEAN
      BY <1>1, <1>17, Zenon DEF S!ShutWindow, S!TypeOK
    <3>3. /\ screenInvoice' \in {"none", "pending", "paid", "expired"}
          /\ order' \in {"none", "pending", "paid", "completed", "failed", "expired"}
          /\ window' \in {"open", "closed", "here"}
          /\ step' \in {"creating", "redirecting", "settling", "done", "failed"}
          /\ message' \in {"nothing", "not started", "not charged", "expired", "on its way"}
          /\ closedFor' \in {"unseen", "grace", "over"}
      BY <1>1, <1>17 DEF S!ShutWindow, S!TypeOK
    <3>4. QED
      BY <3>1, <3>2, <3>3 DEF S!TypeOK
  <2>2. ClosedIsSeen'
    BY <1>1, <1>17 DEF S!ShutWindow, S!TypeOK, ClosedIsSeen
  <2>3. LookedIsUnpaid'
    BY <1>1, <1>17 DEF S!ShutWindow, S!TypeOK, ClosedIsSeen, LookedIsUnpaid
  <2>4. QED
    BY <2>1, <2>2, <2>3 DEF ScreenInv
<1>18. CASE UNCHANGED S!vars
  <2>1. /\ screenInvoice' = screenInvoice /\ order' = order /\ window' = window /\ step' = step
        /\ message' = message /\ closedFor' = closedFor /\ ended' = ended /\ looked' = looked
        /\ late' = late /\ dropped' = dropped /\ unpaid' = unpaid
    BY <1>18 DEF S!vars
  <2>2. S!TypeOK'
    <3>1. ended' \in BOOLEAN /\ looked' \in BOOLEAN /\ late' \in BOOLEAN
      BY <1>1, <2>1, Zenon DEF S!TypeOK
    <3>2. /\ screenInvoice' \in {"none", "pending", "paid", "expired"}
          /\ order' \in {"none", "pending", "paid", "completed", "failed", "expired"}
          /\ window' \in {"open", "closed", "here"}
          /\ step' \in {"creating", "redirecting", "settling", "done", "failed"}
          /\ message' \in {"nothing", "not started", "not charged", "expired", "on its way"}
          /\ closedFor' \in {"unseen", "grace", "over"}
      BY <1>1, <2>1 DEF S!TypeOK
    <3>3. QED
      BY <1>counts, <2>1, <3>1, <3>2 DEF S!TypeOK
  <2>3. ClosedIsSeen' /\ LookedIsUnpaid'
    BY <1>1, <2>1, Zenon DEF ClosedIsSeen, LookedIsUnpaid
  <2>4. QED
    BY <2>2, <2>3 DEF ScreenInv
<1>19. QED
  BY <1>2, <1>3, <1>4, <1>5, <1>6, <1>7, <1>8, <1>9, <1>10, <1>11, <1>12, <1>13, <1>14, <1>15, <1>16, <1>17, <1>18 DEF S!Next

\* Though webhooks, polls, failing payouts and the user's closing of the window meet in any order,
\* the screen says that nothing was charged only if nothing was, as long as payouts go through and
\* an answered poll of the grace met none under way.
THEOREM ScreenIsNotTooEarly == ServicesSpec => []PaidIsNotCalledOff
<1>1. ServicesInit => ScreenInv
  BY ScreenInit DEF ServicesInit
<1>2. ScreenInv /\ [ServicesNext]_allVars => ScreenInv'
  <2>1. [ServicesNext]_allVars => [S!Next]_(S!vars)
    BY DEF ServicesNext, OfPackets, OfTopups, OfSweep, allVars, sVars, S!vars
  <2>2. QED
    BY <2>1, ScreenStep
<1>3. ScreenInv => PaidIsNotCalledOff
  BY DEF ScreenInv, PaidIsNotCalledOff, S!PaidIsNotCalledOff, ClosedIsSeen, LookedIsUnpaid
<1>4. QED
  BY <1>1, <1>2, <1>3, PTL DEF ServicesSpec
-----------------------------------------------------------------------------
(* What packets pay.  A claim has one job, and until its payout is mined   *)
(* nothing was paid for it; while no wait throws, a job that will pay or   *)
(* release it knows that no payout of it is out.                           *)

Acts(j) == j.pc \in {"pay", "wait", "mark", "release"}
Expects(j) == j.pc = "wait" /\ j.out = "pending"
Unpaid(j) == j.pc \in {"pay", "release"} \/ (j.pc = "wait" /\ j.out = "reverted")
SameClaim(x, y) == x.code = y.code /\ x.user = y.user

\* The types that the shares do not need, and whose claim a job works on.
MoneyTypes ==
    /\ marked \in [Code -> SUBSET User]
    /\ paid \in [Code -> [User -> [times : Nat, units : Nat]]]
    /\ mempool \in Seq(Payout)
    /\ waitFailures \in 0 .. MaxWaitFailures
    /\ sendFailures \in 0 .. MaxSendFailures
    /\ crashes \in 0 .. MaxCrashes
    /\ \A w \in Slot : Acts(job[w]) => job[w].code \in Code /\ job[w].user \in User

\* One job works on a claim, whose share is what it pays.
OneJobPerClaim ==
    /\ \A v, w \in Slot : Acts(job[v]) /\ Acts(job[w]) /\ SameClaim(job[v], job[w]) => v = w
    /\ \A w \in Slot : Acts(job[w]) =>
         /\ share[job[w].code][job[w].user] > 0
         /\ job[w].amount = share[job[w].code][job[w].user]

\* A payout that is out is the only one of a claim for which nothing was paid.
OnePayoutPerClaim ==
    /\ \A k \in DOMAIN mempool : LET p == mempool[k] IN
         /\ share[p.code][p.user] > 0 /\ p.amount = share[p.code][p.user]
         /\ paid[p.code][p.user].times = 0
         /\ p.by \in Slot => Expects(job[p.by]) /\ SameClaim(p, job[p.by])
    /\ \A k, l \in DOMAIN mempool : SameClaim(mempool[k], mempool[l]) => k = l

\* A job that is still to pay, or to release the claim, finds nothing paid and nothing out.
NothingIsOut ==
    \A w \in Slot : Unpaid(job[w]) =>
        /\ paid[job[w].code][job[w].user].times = 0
        /\ \A k \in DOMAIN mempool : ~SameClaim(mempool[k], job[w])

PaidIsTheShare ==
    \A c \in Code, u \in User :
        \/ paid[c][u].times = 0 /\ paid[c][u].units = 0
        \/ paid[c][u].times = 1 /\ paid[c][u].units = share[c][u] /\ share[c][u] > 0

MoneyOK == OneJobPerClaim /\ OnePayoutPerClaim /\ NothingIsOut /\ PaidIsTheShare

MoneyInv == PacketInv /\ MoneyTypes /\ (waitFailures = 0 => MoneyOK)

LEMMA MoneyInit ==
    ASSUME Init
    PROVE  MoneyInv
<1>1. PacketInv
  BY PacketInvInit, PacketAssumption
<1>2. \A w \in Slot : job[w].pc = "idle"
  BY DEF Init, NoJob
<1>3. MoneyTypes
  <2>1. 0 \in Nat /\ 0 \in 0 .. MaxWaitFailures /\ 0 \in 0 .. MaxSendFailures /\ 0 \in 0 .. MaxCrashes
    BY PacketAssumption DEF PacketAssumption
  <2>2. << >> \in Seq(Payout)
    OBVIOUS
  <2>3. QED
    BY <1>2, <2>1, <2>2 DEF Init, MoneyTypes, Acts
<1>4. MoneyOK
  <2>1. OneJobPerClaim /\ NothingIsOut
    BY <1>2 DEF OneJobPerClaim, NothingIsOut, Acts, Unpaid
  <2>2. OnePayoutPerClaim /\ PaidIsTheShare
    BY DEF Init, OnePayoutPerClaim, PaidIsTheShare
  <2>3. QED
    BY <2>1, <2>2 DEF MoneyOK
<1>5. QED
  BY <1>1, <1>3, <1>4 DEF MoneyInv

\* The user of a payout whose job is gone stays to be paid.
LEMMA OrphansStayOwed ==
    ASSUME mempool \in Seq(Payout), NEW w \in Slot
    PROVE  /\ Orphaned(w) \in Seq(Payout) /\ DOMAIN Orphaned(w) = DOMAIN mempool
           /\ \A k \in DOMAIN mempool :
                /\ Orphaned(w)[k].code = mempool[k].code /\ Orphaned(w)[k].user = mempool[k].user
                /\ Orphaned(w)[k].amount = mempool[k].amount /\ Orphaned(w)[k].by # w
                /\ Orphaned(w)[k].by \in Slot => Orphaned(w)[k].by = mempool[k].by
<1> DEFINE q == Orphaned(w)
<1>1. /\ Len(mempool) \in Nat /\ DOMAIN mempool = 1 .. Len(mempool)
      /\ \A k \in DOMAIN mempool : mempool[k] \in Payout
  OBVIOUS
<1>2. None \notin Slot
  BY PacketAssumption DEF PacketAssumption, None
<1>3. DOMAIN q = 1 .. Len(mempool)
  BY <1>1 DEF Orphaned
<1>4. ASSUME NEW k \in DOMAIN mempool
      PROVE  /\ q[k] \in Payout /\ q[k].code = mempool[k].code /\ q[k].user = mempool[k].user
             /\ q[k].amount = mempool[k].amount /\ q[k].by # w
             /\ q[k].by \in Slot => q[k].by = mempool[k].by
  <2>1. mempool[k] \in Payout
    BY <1>1
  <2>2. q[k] = IF mempool[k].by = w THEN [mempool[k] EXCEPT !.by = None] ELSE mempool[k]
    BY DEF Orphaned
  <2>3. QED
    BY <1>2, <2>1, <2>2 DEF Payout
<1> HIDE DEF q
<1>5. q \in [1 .. Len(mempool) -> Payout]
  <2>1. q = [k \in 1 .. Len(mempool) |-> q[k]]
    BY <1>1 DEF q, Orphaned
  <2>2. QED
    BY <1>1, <1>4, <2>1
<1>6. q \in Seq(Payout)
  BY <1>1, <1>5
<1>7. QED
  BY <1>1, <1>3, <1>4, <1>6 DEF q

\* Most steps move one job on, or end it, and leave the money alone.
OnlyJob == UNCHANGED <<share, paid>>

LEMMA MoneyJobMoves ==
    ASSUME MoneyInv, PacketInv', OnlyJob, NEW w \in Slot, NEW new \in Job,
           job' = [job EXCEPT ![w] = new],
           mempool' = Orphaned(w) \/ (mempool' = mempool /\ ~Expects(job[w])),
           marked' \in [Code -> SUBSET User],
           waitFailures' \in 0 .. MaxWaitFailures, waitFailures' = 0 => waitFailures = 0,
           sendFailures' \in 0 .. MaxSendFailures, crashes' \in 0 .. MaxCrashes,
           Acts(new) => Acts(job[w]) /\ SameClaim(new, job[w]) /\ new.amount = job[w].amount,
           Unpaid(new) => Unpaid(job[w]) \/ waitFailures' # 0
    PROVE  MoneyInv'
<1>1. share' = share /\ paid' = paid
  BY DEF OnlyJob
<1>2. job \in [Slot -> Job] /\ mempool \in Seq(Payout)
  BY DEF MoneyInv, PacketInv, DataOK, MoneyTypes
<1>3. job'[w] = new /\ \A v \in Slot : v # w => job'[v] = job[v]
  BY <1>2
<1>4. /\ mempool' \in Seq(Payout) /\ DOMAIN mempool' = DOMAIN mempool
      /\ \A k \in DOMAIN mempool :
           /\ mempool'[k].code = mempool[k].code /\ mempool'[k].user = mempool[k].user
           /\ mempool'[k].amount = mempool[k].amount
           /\ mempool'[k].by \in Slot => mempool'[k].by = mempool[k].by
  BY <1>2, OrphansStayOwed
<1>5. MoneyTypes'
  <2>1. \A v \in Slot : Acts(job'[v]) => job'[v].code \in Code /\ job'[v].user \in User
    BY <1>3 DEF MoneyInv, MoneyTypes, SameClaim
  <2>2. QED
    BY <1>1, <1>4, <2>1 DEF MoneyInv, MoneyTypes
<1>6. ASSUME waitFailures' = 0 PROVE MoneyOK'
  <2>1. MoneyOK
    BY <1>6 DEF MoneyInv
  <2>2. \A k \in DOMAIN mempool : mempool'[k].by \in Slot => mempool'[k].by # w
    BY <1>2, <2>1, OrphansStayOwed DEF MoneyOK, OnePayoutPerClaim
  <2>3. OneJobPerClaim'
    BY <1>1, <1>3, <2>1 DEF MoneyOK, OneJobPerClaim, SameClaim
  <2>4. OnePayoutPerClaim'
    <3>1. \A k \in DOMAIN mempool' : LET p == mempool'[k] IN
            /\ share[p.code][p.user] > 0 /\ p.amount = share[p.code][p.user]
            /\ paid[p.code][p.user].times = 0
            /\ p.by \in Slot => Expects(job'[p.by]) /\ SameClaim(p, job'[p.by])
      BY <1>3, <1>4, <2>1, <2>2 DEF MoneyOK, OnePayoutPerClaim, SameClaim
    <3>2. \A k, l \in DOMAIN mempool' : SameClaim(mempool'[k], mempool'[l]) => k = l
      BY <1>4, <2>1 DEF MoneyOK, OnePayoutPerClaim, SameClaim
    <3>3. QED
      BY <1>1, <3>1, <3>2 DEF OnePayoutPerClaim
  <2>5. NothingIsOut'
    <3>1. Unpaid(new) => Unpaid(job[w]) /\ SameClaim(new, job[w])
      BY <1>6 DEF Unpaid, Acts
    <3>2. ASSUME NEW v \in Slot, Unpaid(job'[v])
          PROVE  /\ paid[job'[v].code][job'[v].user].times = 0
                 /\ \A k \in DOMAIN mempool' : ~SameClaim(mempool'[k], job'[v])
      BY <1>3, <1>4, <2>1, <3>1, <3>2 DEF MoneyOK, NothingIsOut, SameClaim
    <3>3. QED
      BY <1>1, <3>2 DEF NothingIsOut
  <2>6. PaidIsTheShare'
    BY <1>1, <2>1 DEF MoneyOK, PaidIsTheShare
  <2>7. QED
    BY <2>3, <2>4, <2>5, <2>6 DEF MoneyOK
<1>7. QED
  BY <1>5, <1>6 DEF MoneyInv

LEMMA FreshPacketJob == NoJob \in Job /\ NoJob.pc = "idle"
BY PacketAssumption DEF PacketAssumption, NoJob, Job, None

LEMMA MoneyCounts ==
    ASSUME MoneyInv
    PROVE  /\ MaxWaitFailures \in Nat /\ MaxSendFailures \in Nat /\ MaxCrashes \in Nat
           /\ waitFailures \in 0 .. MaxWaitFailures /\ sendFailures \in 0 .. MaxSendFailures
           /\ crashes \in 0 .. MaxCrashes /\ marked \in [Code -> SUBSET User]
           /\ job \in [Slot -> Job] /\ mempool \in Seq(Payout)
BY PacketAssumption DEF PacketAssumption, MoneyInv, MoneyTypes, PacketInv, DataOK

LEMMA MoneyQuietSteps ==
    ASSUME MoneyInv, PacketInv', NEW w \in Slot,
           \/ Create(w) \/ AwaitPayout(w) \/ MarkPaid(w)
           \/ WaitThrows(w) \/ SendThrows(w) \/ Crash(w)
           \/ \E t \in Tx : StartCreate(w, t)
    PROVE  MoneyInv'
<1> DEFINE Goes(pc) == [job[w] EXCEPT !.pc = pc, !.out = "none"]
<1> USE DEF chainVars, failVars, At
<1>1. job[w] \in Job /\ MoneyTypes
  BY MoneyCounts DEF MoneyInv
<1>2. \A pc \in {"mark", "release"} :
        /\ Goes(pc) \in Job /\ SameClaim(Goes(pc), job[w]) /\ Goes(pc).amount = job[w].amount
        /\ Goes(pc).pc = pc
  BY <1>1 DEF Job, SameClaim
<1>3. \A pc : Goto(w, pc) => job' = [job EXCEPT ![w] = Goes(pc)]
  BY MoneyCounts DEF Goto
<1>4. Return(w) => job' = [job EXCEPT ![w] = NoJob]
  BY DEF Return
<1> HIDE DEF Goes
<1>5. /\ marked' = marked => marked' \in [Code -> SUBSET User]
      /\ waitFailures' = waitFailures =>
           waitFailures' \in 0 .. MaxWaitFailures /\ (waitFailures' = 0 => waitFailures = 0)
      /\ sendFailures' = sendFailures => sendFailures' \in 0 .. MaxSendFailures
      /\ crashes' = crashes => crashes' \in 0 .. MaxCrashes
  BY MoneyCounts
<1>6. CASE Create(w)
  <2>1. PICK c \in Code, slots \in 1 .. MaxSlots, mode \in SplitMode : InsertPacket(w, c, slots, mode)
    BY <1>6 DEF Create
  <2>2. /\ OnlyJob /\ mempool' = mempool /\ marked' = marked /\ waitFailures' = waitFailures
        /\ sendFailures' = sendFailures /\ crashes' = crashes /\ ~Expects(job[w])
    BY <2>1 DEF InsertPacket, OnlyJob, Expects
  <2>3. job' = [job EXCEPT ![w] = NoJob]
    BY <1>4, <2>1 DEF InsertPacket
  <2>4. QED
    BY <1>5, <2>2, <2>3, FreshPacketJob, MoneyJobMoves DEF Acts, Unpaid
<1>7. CASE AwaitPayout(w)
  <2>1. PICK new : /\ new \in {Goes("mark"), Goes("release")} /\ job' = [job EXCEPT ![w] = new]
                   /\ job[w].pc = "wait" /\ job[w].out \in {"mined", "reverted"}
                   /\ new.pc = "release" => job[w].out = "reverted"
    BY <1>2, <1>3, <1>7 DEF AwaitPayout, PaidOut
  <2>2. /\ new \in Job /\ SameClaim(new, job[w]) /\ new.amount = job[w].amount
        /\ new.pc \in {"mark", "release"}
    BY <1>2, <2>1
  <2>3. /\ OnlyJob /\ mempool' = mempool /\ marked' = marked /\ waitFailures' = waitFailures
        /\ sendFailures' = sendFailures /\ crashes' = crashes /\ ~Expects(job[w])
    BY <1>7 DEF AwaitPayout, OnlyJob, Expects
  <2>4. QED
    BY <1>5, <2>1, <2>2, <2>3, MoneyJobMoves DEF Acts, Unpaid
<1>8. CASE MarkPaid(w)
  <2>1. job' = [job EXCEPT ![w] = NoJob] /\ job[w].pc = "mark"
    BY <1>4, <1>8 DEF MarkPaid
  <2>2. job[w].code \in Code /\ job[w].user \in User
    BY <1>1, <2>1 DEF MoneyTypes, Acts
  <2>3. marked' \in [Code -> SUBSET User]
    BY <1>8, <2>2, MoneyCounts DEF MarkPaid
  <2>4. /\ OnlyJob /\ mempool' = mempool /\ waitFailures' = waitFailures
        /\ sendFailures' = sendFailures /\ crashes' = crashes /\ ~Expects(job[w])
    BY <1>8, <2>1 DEF MarkPaid, OnlyJob, Expects
  <2>5. QED
    BY <1>5, <2>1, <2>3, <2>4, FreshPacketJob, MoneyJobMoves DEF Acts, Unpaid
<1>9. CASE WaitThrows(w)
  <2>1. /\ Goes("release") \in Job /\ SameClaim(Goes("release"), job[w])
        /\ Goes("release").amount = job[w].amount /\ Goes("release").pc = "release"
        /\ job' = [job EXCEPT ![w] = Goes("release")] /\ job[w].pc = "wait"
    BY <1>2, <1>3, <1>9 DEF WaitThrows
  <2>2. /\ OnlyJob /\ mempool' = Orphaned(w) /\ marked' = marked
        /\ sendFailures' = sendFailures /\ crashes' = crashes
        /\ waitFailures' = waitFailures + 1 /\ waitFailures < MaxWaitFailures
    BY <1>9 DEF WaitThrows, OnlyJob
  <2>3. waitFailures' \in 0 .. MaxWaitFailures /\ waitFailures' # 0
    BY <2>2, MoneyCounts
  <2>4. QED
    BY <1>5, <2>1, <2>2, <2>3, MoneyJobMoves DEF Acts
<1>10. CASE SendThrows(w)
  <2>1. /\ Goes("release") \in Job /\ SameClaim(Goes("release"), job[w])
        /\ Goes("release").amount = job[w].amount /\ Goes("release").pc = "release"
        /\ job' = [job EXCEPT ![w] = Goes("release")] /\ job[w].pc = "pay"
    BY <1>2, <1>3, <1>10 DEF SendThrows
  <2>2. /\ OnlyJob /\ mempool' = mempool /\ marked' = marked /\ ~Expects(job[w])
        /\ waitFailures' = waitFailures /\ crashes' = crashes
        /\ sendFailures' = sendFailures + 1 /\ sendFailures < MaxSendFailures
    BY <1>10 DEF SendThrows, OnlyJob, Expects
  <2>3. sendFailures' \in 0 .. MaxSendFailures
    BY <2>2, MoneyCounts
  <2>4. QED
    BY <1>5, <2>1, <2>2, <2>3, MoneyJobMoves DEF Acts, Unpaid
<1>11. CASE Crash(w)
  <2>1. job' = [job EXCEPT ![w] = NoJob]
    BY <1>4, <1>11 DEF Crash
  <2>2. /\ OnlyJob /\ mempool' = Orphaned(w) /\ marked' = marked
        /\ waitFailures' = waitFailures /\ sendFailures' = sendFailures
        /\ crashes' = crashes + 1 /\ crashes < MaxCrashes
    BY <1>11 DEF Crash, OnlyJob
  <2>3. crashes' \in 0 .. MaxCrashes
    BY <2>2, MoneyCounts
  <2>4. QED
    BY <1>5, <2>1, <2>2, <2>3, FreshPacketJob, MoneyJobMoves DEF Acts, Unpaid
<1>12. ASSUME NEW t \in Tx, StartCreate(w, t) PROVE MoneyInv'
  <2> DEFINE new == [pc |-> "insert", tx |-> t, code |-> None, user |-> None,
                     amount |-> 0, out |-> "none"]
  <2>1. new \in Job /\ new.pc = "insert"
    <3>1. 0 \in 0 .. MaxAmount
      BY PacketAssumption DEF PacketAssumption
    <3>2. QED
      BY <3>1 DEF Job
  <2>2. job' = [job EXCEPT ![w] = new] /\ job[w].pc = "idle"
    BY <1>12 DEF StartCreate
  <2>3. /\ OnlyJob /\ mempool' = mempool /\ marked' = marked /\ waitFailures' = waitFailures
        /\ sendFailures' = sendFailures /\ crashes' = crashes /\ ~Expects(job[w])
    BY <1>12 DEF StartCreate, OnlyJob, Expects
  <2> HIDE DEF new
  <2>4. QED
    BY <1>5, <2>1, <2>2, <2>3, MoneyJobMoves DEF Acts, Unpaid
<1>13. QED
  BY <1>6, <1>7, <1>8, <1>9, <1>10, <1>11, <1>12

\* A claim is made where there is none: nothing works on it, nothing is out and nothing was paid.
LEMMA MoneyClaims ==
    ASSUME MoneyInv, PacketInv', NEW w \in Slot, NEW u \in User, NEW c \in Code, NEW s,
           s \in Nat, s > 0, ClaimPacket(w, u, c, s)
    PROVE  MoneyInv'
<1> DEFINE new == PayoutJob(c, u, s)
<1>1. /\ job \in [Slot -> Job] /\ mempool \in Seq(Payout)
      /\ share \in [Code -> [User -> 0 .. MaxAmount]] /\ share[c][u] = 0
      /\ share' = [share EXCEPT ![c][u] = s] /\ job' = [job EXCEPT ![w] = new]
      /\ UNCHANGED <<marked, paid, mempool, waitFailures, sendFailures, crashes>>
  BY MoneyCounts DEF ClaimPacket, Unclaimed, chainVars, failVars, MoneyInv, PacketInv, DataOK
<1>2. /\ new.pc = "pay" /\ new.code = c /\ new.user = u /\ new.amount = s
      /\ Acts(new) /\ Unpaid(new) /\ ~Expects(new)
  BY DEF PayoutJob, Acts, Unpaid, Expects
<1> HIDE DEF new
<1>3. job'[w] = new /\ \A v \in Slot : v # w => job'[v] = job[v]
  BY <1>1
<1>4. /\ share'[c][u] = s
      /\ \A d \in Code, x \in User : (d # c \/ x # u) => share'[d][x] = share[d][x]
  BY <1>1
<1>5. MoneyTypes'
  <2>1. \A v \in Slot : Acts(job'[v]) => job'[v].code \in Code /\ job'[v].user \in User
    BY <1>2, <1>3 DEF MoneyInv, MoneyTypes
  <2>2. QED
    BY <1>1, <2>1 DEF MoneyInv, MoneyTypes
<1>6. ASSUME waitFailures' = 0 PROVE MoneyOK'
  <2>1. MoneyOK /\ MoneyTypes
    BY <1>1, <1>6 DEF MoneyInv
  <2>2. \A v \in Slot : Acts(job[v]) =>
          /\ ~(job[v].code = c /\ job[v].user = u)
          /\ job[v].code \in Code /\ job[v].user \in User
    BY <1>1, <2>1 DEF MoneyOK, OneJobPerClaim, MoneyTypes
  <2>3. \A k \in DOMAIN mempool : mempool[k] \in Payout
    BY <1>1
  <2>4. \A k \in DOMAIN mempool :
          /\ ~(mempool[k].code = c /\ mempool[k].user = u)
          /\ mempool[k].code \in Code /\ mempool[k].user \in User
    BY <1>1, <2>1, <2>3 DEF MoneyOK, OnePayoutPerClaim, Payout
  <2>5. paid[c][u].times = 0 /\ paid[c][u].units = 0
    BY <1>1, <2>1 DEF MoneyOK, PaidIsTheShare
  <2>6. OneJobPerClaim'
    <3>1. ASSUME NEW v \in Slot, NEW x \in Slot, Acts(job'[v]), Acts(job'[x]), SameClaim(job'[v], job'[x])
          PROVE  v = x
      BY <1>2, <1>3, <2>1, <2>2, <3>1 DEF MoneyOK, OneJobPerClaim, SameClaim
    <3>2. ASSUME NEW v \in Slot, Acts(job'[v])
          PROVE  /\ share'[job'[v].code][job'[v].user] > 0
                 /\ job'[v].amount = share'[job'[v].code][job'[v].user]
      <4>1. CASE v = w
        BY <1>2, <1>3, <1>4, <4>1
      <4>2. CASE v # w
        BY <1>3, <1>4, <2>1, <2>2, <3>2, <4>2 DEF MoneyOK, OneJobPerClaim
      <4>3. QED
        BY <4>1, <4>2
    <3>3. QED
      BY <3>1, <3>2 DEF OneJobPerClaim
  <2>7. OnePayoutPerClaim'
    <3>1. ASSUME NEW k \in DOMAIN mempool
          PROVE  LET p == mempool[k] IN
                 /\ share'[p.code][p.user] > 0 /\ p.amount = share'[p.code][p.user]
                 /\ paid[p.code][p.user].times = 0
                 /\ p.by \in Slot => Expects(job'[p.by]) /\ SameClaim(p, job'[p.by])
      <4> DEFINE p == mempool[k]
      <4>1. p.code \in Code /\ p.user \in User /\ ~(p.code = c /\ p.user = u)
        BY <2>4
      <4>2. /\ share[p.code][p.user] > 0 /\ p.amount = share[p.code][p.user]
            /\ paid[p.code][p.user].times = 0
            /\ p.by \in Slot => Expects(job[p.by]) /\ SameClaim(p, job[p.by])
        BY <2>1 DEF MoneyOK, OnePayoutPerClaim
      <4>3. p.by # w
        BY <4>2 DEF ClaimPacket, At, Expects
      <4> HIDE DEF p
      <4>4. share'[p.code][p.user] = share[p.code][p.user]
        BY <1>4, <4>1
      <4>5. QED
        BY <1>3, <4>2, <4>3, <4>4 DEF p
    <3>2. QED
      BY <1>1, <2>1, <3>1 DEF MoneyOK, OnePayoutPerClaim
  <2>8. NothingIsOut'
    <3>1. ASSUME NEW v \in Slot, Unpaid(job'[v])
          PROVE  /\ paid[job'[v].code][job'[v].user].times = 0
                 /\ \A k \in DOMAIN mempool : ~SameClaim(mempool[k], job'[v])
      <4>1. CASE v = w
        BY <1>2, <1>3, <2>4, <2>5, <4>1 DEF SameClaim
      <4>2. CASE v # w
        BY <1>3, <2>1, <3>1, <4>2 DEF MoneyOK, NothingIsOut
      <4>3. QED
        BY <4>1, <4>2
    <3>2. QED
      BY <1>1, <3>1 DEF NothingIsOut
  <2>9. PaidIsTheShare'
    BY <1>1, <1>4, <2>1, <2>5 DEF MoneyOK, PaidIsTheShare
  <2>10. QED
    BY <2>6, <2>7, <2>8, <2>9 DEF MoneyOK
<1>7. QED
  BY <1>5, <1>6 DEF MoneyInv

\* The job that has the claim broadcasts its only payout.
LEMMA MoneySends ==
    ASSUME MoneyInv, PacketInv', NEW w \in Slot, SendPayout(w)
    PROVE  MoneyInv'
<1> DEFINE new == [job[w] EXCEPT !.pc = "wait", !.out = "pending"]
           e == [code |-> job[w].code, user |-> job[w].user, amount |-> job[w].amount, by |-> w]
           n == Len(mempool) + 1
<1>1. /\ job \in [Slot -> Job] /\ mempool \in Seq(Payout) /\ job[w] \in Job /\ job[w].pc = "pay"
      /\ mempool' = Append(mempool, e)
      /\ UNCHANGED <<share, marked, paid, waitFailures, sendFailures, crashes>>
  BY MoneyCounts DEF SendPayout, failVars, At
<1>2. Acts(job[w]) /\ Unpaid(job[w]) /\ ~Expects(job[w]) /\ job[w].code \in Code /\ job[w].user \in User
  BY <1>1 DEF Acts, Unpaid, Expects, MoneyInv, MoneyTypes
<1>3. /\ e \in Payout /\ SameClaim(e, job[w]) /\ e.amount = job[w].amount /\ e.by = w
      /\ e.code = job[w].code /\ e.user = job[w].user
  <2>1. job[w].amount \in 0 .. MaxAmount
    BY <1>1 DEF Job
  <2>2. QED
    BY <1>2, <2>1 DEF Payout, SameClaim
<1>4. /\ SameClaim(new, job[w]) /\ new.amount = job[w].amount
      /\ Acts(new) /\ ~Unpaid(new) /\ Expects(new) /\ new.code = job[w].code /\ new.user = job[w].user
  BY <1>1 DEF Job, SameClaim, Acts, Unpaid, Expects
<1>5. job'[w] = new /\ \A v \in Slot : v # w => job'[v] = job[v]
  BY <1>1 DEF SendPayout
<1>6. /\ mempool' \in Seq(Payout) /\ mempool'[n] = e /\ DOMAIN mempool' = DOMAIN mempool \cup {n}
      /\ \A k \in DOMAIN mempool : mempool'[k] = mempool[k]
  BY <1>1, <1>3
<1> HIDE DEF new, e, n
<1>7. MoneyTypes'
  <2>1. \A v \in Slot : Acts(job'[v]) => job'[v].code \in Code /\ job'[v].user \in User
    BY <1>2, <1>4, <1>5 DEF MoneyInv, MoneyTypes
  <2>2. QED
    BY <1>1, <1>6, <2>1 DEF MoneyInv, MoneyTypes
<1>8. ASSUME waitFailures' = 0 PROVE MoneyOK'
  <2>1. MoneyOK
    BY <1>1, <1>8 DEF MoneyInv
  <2>2. /\ paid[e.code][e.user].times = 0
        /\ \A k \in DOMAIN mempool : ~SameClaim(mempool[k], job[w])
    BY <1>2, <1>3, <2>1 DEF MoneyOK, NothingIsOut
  <2>3. share[e.code][e.user] > 0 /\ e.amount = share[e.code][e.user]
    BY <1>2, <1>3, <2>1 DEF MoneyOK, OneJobPerClaim
  <2>4. OneJobPerClaim'
    <3>1. \A v \in Slot : (Acts(job'[v]) <=> Acts(job[v])) /\ SameClaim(job'[v], job[v])
                          /\ job'[v].amount = job[v].amount
      <4>1. ASSUME NEW v \in Slot
            PROVE  (Acts(job'[v]) <=> Acts(job[v])) /\ SameClaim(job'[v], job[v])
                     /\ job'[v].amount = job[v].amount
        BY <1>2, <1>4, <1>5 DEF SameClaim
      <4>2. QED
        BY <4>1
    <3>2. QED
      BY <1>1, <2>1, <3>1 DEF MoneyOK, OneJobPerClaim, SameClaim
  <2>5. \A k \in DOMAIN mempool' : k = n \/ k \in DOMAIN mempool
    BY <1>6
  <2>6. OnePayoutPerClaim'
    <3>1. ASSUME NEW k \in DOMAIN mempool'
          PROVE  LET p == mempool'[k] IN
                 /\ share[p.code][p.user] > 0 /\ p.amount = share[p.code][p.user]
                 /\ paid[p.code][p.user].times = 0
                 /\ p.by \in Slot => Expects(job'[p.by]) /\ SameClaim(p, job'[p.by])
      <4>1. CASE k = n
        BY <1>3, <1>4, <1>5, <1>6, <2>2, <2>3, <4>1 DEF SameClaim
      <4>2. CASE k \in DOMAIN mempool
        <5>1. mempool'[k] = mempool[k] /\ mempool[k].by # w
          BY <1>2, <1>6, <2>1, <4>2 DEF MoneyOK, OnePayoutPerClaim
        <5>2. QED
          BY <1>5, <2>1, <4>2, <5>1 DEF MoneyOK, OnePayoutPerClaim
      <4>3. QED
        BY <2>5, <4>1, <4>2
    <3>2. ASSUME NEW k \in DOMAIN mempool', NEW l \in DOMAIN mempool', SameClaim(mempool'[k], mempool'[l])
          PROVE  k = l
      BY <1>3, <1>6, <2>1, <2>2, <2>5, <3>2 DEF MoneyOK, OnePayoutPerClaim, SameClaim
    <3>3. QED
      BY <1>1, <3>1, <3>2 DEF OnePayoutPerClaim
  <2>7. NothingIsOut'
    <3>1. ASSUME NEW v \in Slot, Unpaid(job'[v])
          PROVE  /\ paid[job'[v].code][job'[v].user].times = 0
                 /\ \A k \in DOMAIN mempool' : ~SameClaim(mempool'[k], job'[v])
      <4>1. v # w /\ job'[v] = job[v] /\ Acts(job[v])
        BY <1>4, <1>5, <3>1 DEF Acts, Unpaid
      <4>2. ~SameClaim(e, job[v])
        BY <1>2, <1>3, <2>1, <4>1 DEF MoneyOK, OneJobPerClaim, SameClaim
      <4>3. QED
        BY <1>6, <2>1, <2>5, <3>1, <4>1, <4>2 DEF MoneyOK, NothingIsOut
    <3>2. QED
      BY <1>1, <3>1 DEF NothingIsOut
  <2>8. PaidIsTheShare'
    BY <1>1, <2>1 DEF MoneyOK, PaidIsTheShare
  <2>9. QED
    BY <2>4, <2>6, <2>7, <2>8 DEF MoneyOK
<1>9. QED
  BY <1>7, <1>8 DEF MoneyInv

\* A release takes back a claim for which nothing was paid and nothing is out.
LEMMA MoneyReleases ==
    ASSUME MoneyInv, PacketInv', NEW w \in Slot, Release(w)
    PROVE  MoneyInv'
<1>1. /\ job \in [Slot -> Job] /\ share \in [Code -> [User -> 0 .. MaxAmount]]
      /\ mempool \in Seq(Payout) /\ job' = [job EXCEPT ![w] = NoJob] /\ job[w].pc = "release"
      /\ UNCHANGED <<marked, paid, mempool, waitFailures, sendFailures, crashes>>
  BY MoneyCounts DEF Release, Return, At, chainVars, failVars, MoneyInv, PacketInv, DataOK
<1>2. Acts(job[w]) /\ Unpaid(job[w]) /\ ~Expects(job[w])
  BY <1>1 DEF Acts, Unpaid, Expects
<1>3. PICK c \in Code, u \in User : c = job[w].code /\ u = job[w].user
  BY <1>2 DEF MoneyInv, MoneyTypes
<1>4. /\ job'[w].pc = "idle" /\ ~Acts(job'[w]) /\ ~Unpaid(job'[w])
      /\ \A v \in Slot : v # w => job'[v] = job[v]
  BY <1>1, FreshPacketJob DEF Acts, Unpaid
<1>5. CASE share' = share
  <2>1. OnlyJob /\ mempool' = mempool
    BY <1>1, <1>5 DEF OnlyJob
  <2>2. /\ marked' \in [Code -> SUBSET User]
        /\ waitFailures' \in 0 .. MaxWaitFailures /\ (waitFailures' = 0 => waitFailures = 0)
        /\ sendFailures' \in 0 .. MaxSendFailures /\ crashes' \in 0 .. MaxCrashes
    BY <1>1, MoneyCounts
  <2>3. QED
    BY <1>1, <1>2, <2>1, <2>2, FreshPacketJob, MoneyJobMoves DEF Acts, Unpaid
<1>6. CASE share' = [share EXCEPT ![c][u] = 0]
  <2>1. /\ share'[c][u] = 0
        /\ \A d \in Code, x \in User : (d # c \/ x # u) => share'[d][x] = share[d][x]
    BY <1>1, <1>6
  <2>2. MoneyTypes'
    BY <1>1, <1>4 DEF MoneyInv, MoneyTypes
  <2>3. ASSUME waitFailures' = 0 PROVE MoneyOK'
    <3>1. MoneyOK /\ MoneyTypes
      BY <1>1, <2>3 DEF MoneyInv
    <3>2. /\ paid[c][u].times = 0
          /\ \A k \in DOMAIN mempool : ~(mempool[k].code = c /\ mempool[k].user = u)
      BY <1>2, <1>3, <3>1 DEF MoneyOK, NothingIsOut, SameClaim
    <3>3. \A v \in Slot : v # w /\ Acts(job[v]) =>
            /\ ~(job[v].code = c /\ job[v].user = u)
            /\ job[v].code \in Code /\ job[v].user \in User
      BY <1>2, <1>3, <3>1 DEF MoneyOK, MoneyTypes, OneJobPerClaim, SameClaim
    <3>4. OneJobPerClaim'
      <4>1. \A v \in Slot : Acts(job'[v]) => v # w /\ job'[v] = job[v]
        BY <1>4
      <4>2. \A v \in Slot : Acts(job'[v]) =>
              /\ share'[job'[v].code][job'[v].user] > 0
              /\ job'[v].amount = share'[job'[v].code][job'[v].user]
        BY <2>1, <3>1, <3>3, <4>1 DEF MoneyOK, OneJobPerClaim
      <4>3. QED
        BY <3>1, <4>1, <4>2 DEF MoneyOK, OneJobPerClaim
    <3>5. OnePayoutPerClaim'
      <4>1. \A k \in DOMAIN mempool : mempool[k] \in Payout
        BY <1>1
      <4>2. ASSUME NEW k \in DOMAIN mempool
            PROVE  LET p == mempool[k] IN
                   /\ share'[p.code][p.user] > 0 /\ p.amount = share'[p.code][p.user]
                   /\ paid[p.code][p.user].times = 0
                   /\ p.by \in Slot => Expects(job'[p.by]) /\ SameClaim(p, job'[p.by])
        <5> DEFINE p == mempool[k]
        <5>1. p.code \in Code /\ p.user \in User /\ ~(p.code = c /\ p.user = u)
          BY <3>2, <4>1 DEF Payout
        <5>2. /\ share[p.code][p.user] > 0 /\ p.amount = share[p.code][p.user]
              /\ paid[p.code][p.user].times = 0
              /\ p.by \in Slot => Expects(job[p.by]) /\ SameClaim(p, job[p.by])
          BY <3>1 DEF MoneyOK, OnePayoutPerClaim
        <5>3. p.by # w
          BY <1>2, <5>2
        <5> HIDE DEF p
        <5>4. share'[p.code][p.user] = share[p.code][p.user]
          BY <2>1, <5>1
        <5>5. QED
          BY <1>4, <5>2, <5>3, <5>4 DEF p
      <4>3. QED
        BY <1>1, <3>1, <4>2 DEF MoneyOK, OnePayoutPerClaim
    <3>6. NothingIsOut'
      <4>1. ASSUME NEW v \in Slot, Unpaid(job'[v])
            PROVE  /\ paid[job'[v].code][job'[v].user].times = 0
                   /\ \A k \in DOMAIN mempool : ~SameClaim(mempool[k], job'[v])
        BY <1>4, <3>1, <4>1 DEF MoneyOK, NothingIsOut
      <4>2. QED
        BY <1>1, <4>1 DEF NothingIsOut
    <3>7. PaidIsTheShare'
      <4>1. paid[c][u].units = 0
        BY <3>1, <3>2 DEF MoneyOK, PaidIsTheShare
      <4>2. ASSUME NEW d \in Code, NEW x \in User
            PROVE  \/ paid[d][x].times = 0 /\ paid[d][x].units = 0
                   \/ paid[d][x].times = 1 /\ paid[d][x].units = share'[d][x] /\ share'[d][x] > 0
        BY <2>1, <3>1, <3>2, <4>1, <4>2 DEF MoneyOK, PaidIsTheShare
      <4>3. QED
        BY <1>1, <4>2 DEF PaidIsTheShare
    <3>8. QED
      BY <3>4, <3>5, <3>6, <3>7 DEF MoneyOK
  <2>4. QED
    BY <2>2, <2>3 DEF MoneyInv
<1>7. QED
  BY <1>3, <1>5, <1>6 DEF Release

\* A block pays the only payout of its claim, or reverts it; its job hears which.
LEMMA MoneyMines ==
    ASSUME MoneyInv, PacketInv', Mine
    PROVE  MoneyInv'
<1> DEFINE p == Head(mempool)
           by == Head(mempool).by
           c == Head(mempool).code
           u == Head(mempool).user
           a == Head(mempool).amount
<1>1. /\ job \in [Slot -> Job] /\ mempool \in Seq(Payout) /\ mempool # << >>
      /\ mempool' = Tail(mempool) /\ UNCHANGED <<share, marked, waitFailures, crashes>>
      /\ sendFailures \in 0 .. MaxSendFailures /\ MaxSendFailures \in Nat
      /\ paid \in [Code -> [User -> [times : Nat, units : Nat]]]
  BY MoneyCounts DEF Mine, MoneyInv, MoneyTypes
<1>2. PICK result \in {"mined", "reverted"} :
        /\ Reported(by, result)
        /\ result = "mined" =>
             /\ paid' = [paid EXCEPT ![c][u] = [times |-> @.times + 1, units |-> @.units + a]]
             /\ sendFailures' = sendFailures
        /\ result = "reverted" =>
             paid' = paid /\ sendFailures' = sendFailures + 1 /\ sendFailures < MaxSendFailures
  BY DEF Mine
<1>3. /\ Len(mempool) \in Nat \ {0} /\ DOMAIN mempool = 1 .. Len(mempool) /\ p = mempool[1]
      /\ p \in Payout /\ mempool' \in Seq(Payout) /\ DOMAIN mempool' = 1 .. Len(mempool) - 1
      /\ \A k \in DOMAIN mempool' :
           k + 1 \in DOMAIN mempool /\ k + 1 # 1 /\ k \in Nat /\ mempool'[k] = mempool[k + 1]
  BY <1>1
<1>4. /\ 1 \in DOMAIN mempool /\ c = mempool[1].code /\ u = mempool[1].user /\ by = mempool[1].by
      /\ a = mempool[1].amount /\ c \in Code /\ u \in User /\ a \in 0 .. MaxAmount /\ a \in Nat
  <2>1. a \in 0 .. MaxAmount /\ MaxAmount \in Nat
    BY <1>3, PacketAssumption DEF Payout, PacketAssumption
  <2>2. QED
    BY <1>3, <2>1 DEF Payout
<1> HIDE DEF p, by, c, u, a
<1>5. /\ \A v \in Slot : v # by => job'[v] = job[v]
      /\ \A v \in Slot : /\ job'[v].pc = job[v].pc /\ SameClaim(job'[v], job[v])
                         /\ job'[v].amount = job[v].amount
      /\ by \in Slot => job'[by].out = result
  <2>1. CASE by \in Slot
    <3> DEFINE new == [job[by] EXCEPT !.out = result]
    <3>1. job' = [job EXCEPT ![by] = new]
      BY <1>1, <1>2, <2>1 DEF Reported
    <3>2. job[by] \in Job
      BY <1>1, <2>1
    <3>3. /\ new.pc = job[by].pc /\ SameClaim(new, job[by]) /\ new.amount = job[by].amount
          /\ new.out = result
      BY <3>2 DEF Job, SameClaim
    <3> HIDE DEF new
    <3>4. QED
      BY <1>1, <2>1, <3>1, <3>3 DEF SameClaim
  <2>2. CASE by \notin Slot
    BY <1>1, <1>2, <2>2 DEF Reported, SameClaim
  <2>3. QED
    BY <2>1, <2>2
<1>6. \A v \in Slot : Acts(job'[v]) = Acts(job[v])
  BY <1>5 DEF Acts
<1>7. /\ paid' \in [Code -> [User -> [times : Nat, units : Nat]]]
      /\ \A d \in Code, x \in User : (d # c \/ x # u) => paid'[d][x] = paid[d][x]
      /\ result = "mined" => /\ paid'[c][u].times = paid[c][u].times + 1
                             /\ paid'[c][u].units = paid[c][u].units + a
      /\ result = "reverted" => paid' = paid
  <2>1. CASE result = "mined"
    <3> DEFINE new == [times |-> paid[c][u].times + 1, units |-> paid[c][u].units + a]
    <3>1. paid' = [paid EXCEPT ![c][u] = new]
      BY <1>1, <1>2, <2>1
    <3>2. paid[c][u] \in [times : Nat, units : Nat]
      BY <1>1, <1>4
    <3>3. new \in [times : Nat, units : Nat]
      BY <1>4, <3>2
    <3>4. new.times = paid[c][u].times + 1 /\ new.units = paid[c][u].units + a
      OBVIOUS
    <3> HIDE DEF new
    <3>5. paid'[c][u] = new
      BY <1>1, <1>4, <3>1
    <3>6. QED
      BY <1>1, <1>4, <2>1, <3>1, <3>3, <3>4, <3>5
  <2>2. CASE result = "reverted"
    BY <1>1, <1>2, <2>2
  <2>3. QED
    BY <2>1, <2>2
<1>8. MoneyTypes'
  <2>1. \A v \in Slot : Acts(job'[v]) => job'[v].code \in Code /\ job'[v].user \in User
    BY <1>5, <1>6 DEF MoneyInv, MoneyTypes, SameClaim
  <2>2. sendFailures' \in 0 .. MaxSendFailures
    BY <1>1, <1>2
  <2>3. QED
    BY <1>1, <1>3, <1>7, <2>1, <2>2 DEF MoneyInv, MoneyTypes
<1>9. ASSUME waitFailures' = 0 PROVE MoneyOK'
  <2>1. MoneyOK /\ MoneyTypes
    BY <1>1, <1>9 DEF MoneyInv
  <2>2. /\ share[c][u] > 0 /\ a = share[c][u] /\ paid[c][u].times = 0 /\ paid[c][u].units = 0
        /\ by \in Slot => Expects(job[by]) /\ job[by].code = c /\ job[by].user = u
    <3>1. /\ share[c][u] > 0 /\ a = share[c][u] /\ paid[c][u].times = 0
          /\ by \in Slot => Expects(job[by]) /\ SameClaim(mempool[1], job[by])
      BY <1>4, <2>1 DEF MoneyOK, OnePayoutPerClaim
    <3>2. paid[c][u].units = 0
      BY <1>4, <2>1, <3>1 DEF MoneyOK, PaidIsTheShare
    <3>3. QED
      BY <1>4, <3>1, <3>2 DEF SameClaim
  <2>3. \A k \in DOMAIN mempool' :
          /\ mempool'[k] \in Payout /\ ~(mempool'[k].code = c /\ mempool'[k].user = u)
    <3>1. \A k \in DOMAIN mempool' : mempool'[k] \in Payout
      BY <1>3
    <3>2. QED
      BY <1>3, <1>4, <2>1, <3>1 DEF MoneyOK, OnePayoutPerClaim, SameClaim
  <2>4. OneJobPerClaim'
    BY <1>1, <1>5, <1>6, <2>1 DEF MoneyOK, OneJobPerClaim, SameClaim
  <2>5. OnePayoutPerClaim'
    <3>1. ASSUME NEW k \in DOMAIN mempool'
          PROVE  LET q == mempool'[k] IN
                 /\ share[q.code][q.user] > 0 /\ q.amount = share[q.code][q.user]
                 /\ paid'[q.code][q.user].times = 0
                 /\ q.by \in Slot => Expects(job'[q.by]) /\ SameClaim(q, job'[q.by])
      <4> DEFINE q == mempool'[k]
      <4>1. q = mempool[k + 1] /\ k + 1 \in DOMAIN mempool
        BY <1>3
      <4>2. /\ share[q.code][q.user] > 0 /\ q.amount = share[q.code][q.user]
            /\ paid[q.code][q.user].times = 0
            /\ q.by \in Slot => Expects(job[q.by]) /\ SameClaim(q, job[q.by])
        BY <2>1, <4>1 DEF MoneyOK, OnePayoutPerClaim
      <4>3. q.code \in Code /\ q.user \in User /\ ~(q.code = c /\ q.user = u)
        BY <2>3 DEF Payout
      <4> HIDE DEF q
      <4>4. q.by \in Slot => q.by # by
        BY <2>2, <4>2, <4>3 DEF SameClaim
      <4>5. paid'[q.code][q.user] = paid[q.code][q.user]
        BY <1>7, <4>3
      <4>6. QED
        BY <1>5, <4>2, <4>4, <4>5 DEF q
    <3>2. \A k, l \in DOMAIN mempool' : SameClaim(mempool'[k], mempool'[l]) => k = l
      <4>1. ASSUME NEW k \in DOMAIN mempool', NEW l \in DOMAIN mempool',
                   SameClaim(mempool'[k], mempool'[l])
            PROVE  k = l
        <5>1. k + 1 = l + 1
          BY <1>3, <2>1, <4>1 DEF MoneyOK, OnePayoutPerClaim
        <5>2. QED
          BY <1>3, <5>1
      <4>2. QED
        BY <4>1
    <3>3. QED
      BY <1>1, <3>1, <3>2 DEF OnePayoutPerClaim
  <2>6. NothingIsOut'
    <3>1. ASSUME NEW v \in Slot, Unpaid(job'[v])
          PROVE  /\ paid'[job'[v].code][job'[v].user].times = 0
                 /\ \A k \in DOMAIN mempool' : ~SameClaim(mempool'[k], job'[v])
      <4>1. CASE v = by
        <5>1. result = "reverted" /\ job'[v].code = c /\ job'[v].user = u
          BY <1>5, <2>2, <3>1, <4>1 DEF Unpaid, Expects, SameClaim
        <5>2. QED
          BY <1>7, <2>2, <2>3, <5>1 DEF SameClaim
      <4>2. CASE v # by
        <5>1. job'[v] = job[v] /\ Unpaid(job[v]) /\ Acts(job[v])
          BY <1>5, <3>1, <4>2 DEF Unpaid, Acts
        <5>2. /\ job[v].code \in Code /\ job[v].user \in User
              /\ ~(job[v].code = c /\ job[v].user = u)
          BY <1>4, <2>1, <5>1 DEF MoneyOK, NothingIsOut, MoneyTypes, SameClaim
        <5>3. paid'[job[v].code][job[v].user] = paid[job[v].code][job[v].user]
          BY <1>7, <5>2
        <5>4. QED
          BY <1>3, <2>1, <5>1, <5>3 DEF MoneyOK, NothingIsOut
      <4>3. QED
        BY <4>1, <4>2
    <3>2. QED
      BY <3>1 DEF NothingIsOut
  <2>7. PaidIsTheShare'
    <3>1. \/ paid'[c][u].times = 0 /\ paid'[c][u].units = 0
          \/ paid'[c][u].times = 1 /\ paid'[c][u].units = share[c][u]
      BY <1>4, <1>7, <2>2
    <3>2. ASSUME NEW d \in Code, NEW x \in User
          PROVE  \/ paid'[d][x].times = 0 /\ paid'[d][x].units = 0
                 \/ paid'[d][x].times = 1 /\ paid'[d][x].units = share[d][x] /\ share[d][x] > 0
      BY <1>7, <2>1, <2>2, <3>1, <3>2 DEF MoneyOK, PaidIsTheShare
    <3>3. QED
      BY <1>1, <3>2 DEF PaidIsTheShare
  <2>8. QED
    BY <2>4, <2>5, <2>6, <2>7 DEF MoneyOK
<1>10. QED
  BY <1>8, <1>9 DEF MoneyInv

\* The other steps are about packets, not about what is paid.
LEMMA MoneyUntouched ==
    ASSUME MoneyInv, PacketInv',
           UNCHANGED <<share, marked, paid, mempool, job, waitFailures, sendFailures, crashes>>
    PROVE  MoneyInv'
<1>1. MoneyTypes'
  BY DEF MoneyInv, MoneyTypes
<1>2. MoneyOK => MoneyOK'
  BY DEF MoneyOK, OneJobPerClaim, OnePayoutPerClaim, NothingIsOut, PaidIsTheShare
<1>3. QED
  BY <1>1, <1>2 DEF MoneyInv

LEMMA MoneyStep ==
    ASSUME MoneyInv, [Next]_vars
    PROVE  MoneyInv'
<1>1. PacketInv /\ PacketInv'
  BY PacketInvStep, PacketAssumption DEF MoneyInv
<1>2. ASSUME NEW w \in Slot, Step(w) PROVE MoneyInv'
  BY <1>1, <1>2, MoneyQuietSteps, MoneySends, MoneyReleases DEF Step
<1>3. ASSUME NEW w \in Slot, Claim(w) PROVE MoneyInv'
  <2>1. PICK u \in User, c \in Code : \E s \in NextShares(ToDivide(c), SlotsLeft(c), packet[c].mode) :
                                        ClaimPacket(w, u, c, s)
    BY <1>3 DEF Claim
  <2>2. PICK s : ClaimPacket(w, u, c, s)
    BY <2>1
  <2>3. /\ packet[c] \in Packets /\ Exists(c) /\ packet[c].mode \in SplitMode
        /\ Left(c) > 0 /\ SlotsLeft(c) > 0
        /\ s \in NextShares(Left(c), SlotsLeft(c), packet[c].mode)
    BY <1>1, <2>2 DEF ClaimPacket, PacketInv, DataOK, NoPacket, Packets, Exists, ToDivide
  <2>4. Left(c) \in Nat /\ SlotsLeft(c) \in Nat /\ SlotsLeft(c) >= 1 /\ Left(c) >= SlotsLeft(c)
    BY <1>1, <2>3, BooksAreNumbers, PacketAssumption DEF PacketInv, SharesFit
  <2>5. s \in Nat /\ s > 0
    BY <2>3, <2>4, NextShareFits
  <2>6. QED
    BY <1>1, <2>2, <2>5, MoneyClaims
<1>4. ASSUME NEW w \in Slot,
             WaitThrows(w) \/ SendThrows(w) \/ Crash(w) \/ \E t \in Tx : StartCreate(w, t)
      PROVE  MoneyInv'
  BY <1>1, <1>4, MoneyQuietSteps
<1>5. CASE \/ \E t \in Tx, moved \in Transfer : MakeTransfer(t, moved)
           \/ \E c \in Code : Expire(c)
           \/ UNCHANGED vars
  <2>1. UNCHANGED <<share, marked, paid, mempool, job, waitFailures, sendFailures, crashes>>
    BY <1>5 DEF MakeTransfer, Expire, vars, chainVars, failVars
  <2>2. QED
    BY <1>1, <2>1, MoneyUntouched
<1>6. CASE Mine
  BY <1>1, <1>6, MoneyMines
<1>7. QED
  BY <1>2, <1>3, <1>4, <1>5, <1>6 DEF Next

\* The inductive invariant of a packet's payouts: while no wait throws a claim has one handler and
\* one payout, of the share it took (payoutUsdc, releaseClaim).
THEOREM MoneyInvariant == ServicesSpec => []MoneyInv
<1>1. Init => MoneyInv
  BY MoneyInit
<1>2. MoneyInv /\ [Next]_vars => MoneyInv'
  BY MoneyStep
<1>3. QED
  BY <1>1, <1>2, PacketsRun, PTL DEF Spec

\* However claims, failed payouts, releases, retries and crashes meet, as long as no wait threw the
\* treasury pays a claimer at most once, at most the share, and a packet gives no more than it has.
THEOREM PacketPayoutsStayFunded == ServicesSpec => []PayoutsStayFunded
<1>1. MoneyInv => PayoutsStayFunded
  <2> SUFFICES ASSUME MoneyInv PROVE TypeOK /\ PayoutsAreFunded
    BY DEF PayoutsStayFunded
  <2>1. TypeOK
    BY DEF MoneyInv, PacketInv, DataOK, MoneyTypes, TypeOK
  <2>2. ASSUME waitFailures = 0, NEW c \in Code, NEW u \in User
        PROVE  paid[c][u].times <= 1 /\ paid[c][u].units <= share[c][u]
    <3>1. share[c][u] \in 0 .. MaxAmount /\ MaxAmount \in Nat
      BY PacketAssumption DEF MoneyInv, PacketInv, DataOK, PacketAssumption
    <3>2. share[c][u] \in Nat
      BY <3>1
    <3>3. QED
      BY <2>2, <3>2 DEF MoneyInv, MoneyOK, PaidIsTheShare
  <2>3. ASSUME NEW c \in Code PROVE Left(c) >= 0
    <3>1. CASE Exists(c)
      <4>1. SlotsLeft(c) >= 0 /\ Left(c) >= SlotsLeft(c)
        BY <3>1 DEF MoneyInv, PacketInv, SharesFit
      <4>2. QED
        BY <4>1, BooksAreNumbers, PacketAssumption DEF MoneyInv, PacketInv
    <3>2. CASE ~Exists(c)
      <4>1. Claimers(c) = {}
        BY <3>2 DEF MoneyInv, PacketInv, BornUnclaimed, Claimers
      <4>2. Total(share[c], {}) = 0
        BY TotalEmpty
      <4>3. packet[c].total \in Nat
        BY BooksAreNumbers, PacketAssumption DEF MoneyInv, PacketInv
      <4>4. QED
        BY <4>1, <4>2, <4>3 DEF Left
    <3>3. QED
      BY <3>1, <3>2
  <2>4. QED
    BY <2>1, <2>2, <2>3 DEF PayoutsAreFunded
<1>2. QED
  BY <1>1, MoneyInvariant, PTL
=============================================================================
