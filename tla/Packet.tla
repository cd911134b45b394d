------------------------------- MODULE Packet -------------------------------
(***************************************************************************)
(* Red packets: a transfer into the treasury backs a packet, and everybody *)
(* who opens it is paid a share by the settler.                            *)
(* web/app/api/packet/create and web/app/api/packet/[code].                *)
(*                                                                         *)
(* Creating and claiming are jobs that end a step at every await.  The SQL *)
(* function claim_packet is one step: it holds a lock on the packet's row. *)
(***************************************************************************)
EXTENDS TokenSums, Sequences

CONSTANTS
    Code,            \* packet codes
    Tx,              \* hashes of transfers users have made
    User,            \* users who claim
    Slot,            \* slots for invocations
    MaxAmount,       \* bound: the largest transfer
    MaxSlots,        \* the most claims a packet may offer
    MaxWaitFailures, \* bound: tx.wait() throws although the payout is out
    MaxSendFailures, \* bound: payouts refused before broadcast, or reverted
    MaxCrashes       \* bound: killed invocations

ASSUME PacketAssumption ==
    /\ IsFiniteSet(User) /\ "none" \notin Code \cup Tx \cup User \cup Slot
    /\ MaxAmount \in Nat \ {0} /\ MaxSlots \in Nat \ {0}
    /\ MaxWaitFailures \in Nat /\ MaxSendFailures \in Nat /\ MaxCrashes \in Nat

-----------------------------------------------------------------------------
(* The share arithmetic, web/lib/packet.ts.  A draw of Math.random() is a  *)
(* choice, so a share is a member of a set.                                *)

SplitMode == {"equal", "random"}

AtLeastOne(n) == IF n > 1 THEN n ELSE 1

\* A draw below twice the fair share, and never 0.
Drawn(left, slots) ==
    {AtLeastOne(r) : r \in 0 .. AtLeastOne(2 * (left \div slots)) - 1}

\* What a draw may be without leaving a later claimer nothing.
Spared(draw, left, slots) ==
    LET spendable == left - (slots - 1)
    IN  IF draw < spendable THEN draw ELSE AtLeastOne(spendable)

\* nextShare: what the next claim of a packet may be worth.
NextShares(left, slots, mode) ==
    CASE slots <= 1 -> {left}
      [] slots > 1 /\ left <= 0 -> {0}
      [] slots > 1 /\ left > 0 /\ mode = "equal" -> {left \div slots}
      [] slots > 1 /\ left > 0 /\ mode = "random" ->
           {Spared(draw, left, slots) : draw \in Drawn(left, slots)}

-----------------------------------------------------------------------------
VARIABLES
    transfer,  \* what each transaction moved: a funding transfer or another one
    packet,    \* packets
    share,     \* packet_claims.amount per packet and claimer, 0 without a claim
    marked,    \* claims whose payout_tx_hash is written
    paid,      \* what the chain paid a claimer for a packet, in times and units
    mempool,   \* payouts broadcast and not yet mined
    job,       \* slot -> the invocation it runs
    waitFailures, sendFailures, crashes

failVars == <<waitFailures, sendFailures, crashes>>
chainVars == <<paid, mempool>>
vars == <<transfer, packet, share, marked, chainVars, job, failVars>>

None == "none"

Transfer == [kind : {"funding", "other"}, amount : 1 .. MaxAmount]
NoTransfer == [kind |-> "none", amount |-> 0]

NoPacket == [status |-> "none", tx |-> None, total |-> 0, slots |-> 0, mode |-> "equal"]
Packets == [status : {"open", "expired"}, tx : Tx, total : 1 .. MaxAmount,
            slots : 1 .. MaxSlots, mode : SplitMode]

NoJob == [pc |-> "idle", tx |-> None, code |-> None, user |-> None, amount |-> 0,
          out |-> "none"]
Job == [pc : {"idle", "insert", "pay", "wait", "mark", "release"},
        tx : Tx \cup {None}, code : Code \cup {None}, user : User \cup {None},
        amount : 0 .. MaxAmount, out : {"none", "pending", "mined", "reverted"}]

Payout == [code : Code, user : User, amount : 0 .. MaxAmount, by : Slot \cup {None}]

TypeOK ==
    /\ transfer \in [Tx -> Transfer \cup {NoTransfer}]
    /\ packet \in [Code -> Packets \cup {NoPacket}]
    /\ share \in [Code -> [User -> 0 .. MaxAmount]]
    /\ marked \in [Code -> SUBSET User]
    /\ paid \in [Code -> [User -> [times : Nat, units : Nat]]]
    /\ mempool \in Seq(Payout)
    /\ job \in [Slot -> Job]
    /\ waitFailures \in 0 .. MaxWaitFailures
    /\ sendFailures \in 0 .. MaxSendFailures
    /\ crashes \in 0 .. MaxCrashes

Init ==
    /\ transfer = [t \in Tx |-> NoTransfer]
    /\ packet = [c \in Code |-> NoPacket]
    /\ share = [c \in Code |-> [u \in User |-> 0]]
    /\ marked = [c \in Code |-> {}]
    /\ paid = [c \in Code |-> [u \in User |-> [times |-> 0, units |-> 0]]]
    /\ mempool = <<>>
    /\ job = [w \in Slot |-> NoJob]
    /\ waitFailures = 0 /\ sendFailures = 0 /\ crashes = 0

-----------------------------------------------------------------------------
(* What the steps share. *)

At(w, pc) == job[w].pc = pc
Goto(w, pc) == job' = [job EXCEPT ![w].pc = pc, ![w].out = "none"]
Return(w) == job' = [job EXCEPT ![w] = NoJob]

Exists(c) == packet[c].status # "none"
Claimers(c) == {u \in User : share[c][u] > 0}
Left(c) == packet[c].total - Total(share[c], Claimers(c))
TotalEveryTime(c) == packet[c].total
ToDivide(c) == Left(c)
SlotsLeft(c) == packet[c].slots - Cardinality(Claimers(c))

-----------------------------------------------------------------------------
(* POST /api/packet/create *)

\* The transfer the caller names: known, its own, into the treasury, in USDC.
AnyTransferWillDo(t) == transfer[t] # NoTransfer
IsFunding(t) == transfer[t].kind = "funding"

\* packets has one row per funding_tx_hash.
Unindexed(t) == TRUE
Fileable(t) == \A c \in Code : packet[c].tx # t

EmptySharesAllowed(amount, slots) == TRUE
Payable(amount, slots) == amount >= slots

\* The first look: the transfer backs no packet yet.
StartCreate(w, t) ==
    /\ At(w, "idle")
    /\ \A c \in Code : packet[c].tx # t
    /\ IsFunding(t)
    /\ job' = [job EXCEPT ![w] = [pc |-> "insert", tx |-> t, code |-> None, user |-> None,
                                   amount |-> 0, out |-> "none"]]
    /\ UNCHANGED <<transfer, packet, share, marked, chainVars, failVars>>

InsertPacket(w, c, slots, mode) ==
    /\ At(w, "insert")
    /\ ~Exists(c)
    /\ LET t == job[w].tx
       IN  IF Payable(transfer[t].amount, slots) /\ Fileable(t)
           THEN packet' = [packet EXCEPT ![c] =
                  [status |-> "open", tx |-> t, total |-> transfer[t].amount,
                   slots |-> slots, mode |-> mode]]
           ELSE UNCHANGED packet
    /\ Return(w)
    /\ UNCHANGED <<transfer, share, marked, chainVars, failVars>>

-----------------------------------------------------------------------------
(* POST /api/packet/[code] *)

\* The claim row that is still unwritten, and the job that pays it out.
ClaimedOrNot(c, u) == TRUE
Unclaimed(c, u) == share[c][u] = 0

PayoutToNobody(c, u, s) ==
    [pc |-> "pay", tx |-> None, code |-> c, user |-> None, amount |-> s, out |-> "none"]
PayoutJob(c, u, s) ==
    [pc |-> "pay", tx |-> None, code |-> c, user |-> u, amount |-> s, out |-> "none"]

\* claim_packet: under a lock on the packet, one claim per claimer, a share of
\* what is left.
ClaimPacket(w, u, c, s) ==
    /\ At(w, "idle")
    /\ packet[c].status = "open"
    /\ Unclaimed(c, u)
    /\ SlotsLeft(c) > 0 /\ Left(c) > 0
    /\ s \in NextShares(ToDivide(c), SlotsLeft(c), packet[c].mode)
    /\ share' = [share EXCEPT ![c][u] = s]
    /\ job' = [job EXCEPT ![w] = PayoutJob(c, u, s)]
    /\ UNCHANGED <<transfer, packet, marked, chainVars, failVars>>

\* payoutUsdc, up to the broadcast of the transfer.
SendPayout(w) ==
    /\ At(w, "pay")
    /\ mempool' = Append(mempool, [code |-> job[w].code, user |-> job[w].user,
                                   amount |-> job[w].amount, by |-> w])
    /\ job' = [job EXCEPT ![w].pc = "wait", ![w].out = "pending"]
    /\ UNCHANGED <<transfer, packet, share, marked, paid, failVars>>

EndedWell(w) == job[w].out \in {"mined", "reverted"}
PaidIsNotSeen(w) == FALSE
PaidOut(w) == job[w].out = "mined"

AwaitPayout(w) ==
    /\ At(w, "wait")
    /\ job[w].out \in {"mined", "reverted"}
    /\ IF PaidOut(w) THEN Goto(w, "mark") ELSE Goto(w, "release")
    /\ UNCHANGED <<transfer, packet, share, marked, chainVars, failVars>>

\* The payout's hash, then history and the creator's notification.
MarkPaid(w) ==
    /\ At(w, "mark")
    /\ marked' = [marked EXCEPT ![job[w].code] = @ \cup {job[w].user}]
    /\ Return(w)
    /\ UNCHANGED <<transfer, packet, share, chainVars, failVars>>

\* The catch: the claim is deleted, so that its user can try again.
KeptForGood(w) == FALSE
Released(w) == job[w].user \notin marked[job[w].code]

Release(w) ==
    /\ At(w, "release")
    /\ share' = IF Released(w) THEN [share EXCEPT ![job[w].code][job[w].user] = 0] ELSE share
    /\ Return(w)
    /\ UNCHANGED <<transfer, packet, marked, chainVars, failVars>>

-----------------------------------------------------------------------------
(* Users, time, the chain. *)

MakeTransfer(t, moved) ==
    /\ transfer[t] = NoTransfer
    /\ transfer' = [transfer EXCEPT ![t] = moved]
    /\ UNCHANGED <<packet, share, marked, chainVars, job, failVars>>

Expire(c) ==
    /\ packet[c].status = "open"
    /\ packet' = [packet EXCEPT ![c].status = "expired"]
    /\ UNCHANGED <<transfer, share, marked, chainVars, job, failVars>>

Reported(by, result) ==
    IF by \in Slot THEN job' = [job EXCEPT ![by].out = result] ELSE UNCHANGED job

Mine ==
    /\ mempool # <<>>
    /\ LET p == Head(mempool)
       IN  \/ /\ paid' = [paid EXCEPT ![p.code][p.user] =
                            [times |-> @.times + 1, units |-> @.units + p.amount]]
              /\ Reported(p.by, "mined")
              /\ UNCHANGED sendFailures
           \/ /\ sendFailures < MaxSendFailures
              /\ sendFailures' = sendFailures + 1
              /\ Reported(p.by, "reverted")
              /\ UNCHANGED paid
    /\ mempool' = Tail(mempool)
    /\ UNCHANGED <<transfer, packet, share, marked, waitFailures, crashes>>

-----------------------------------------------------------------------------
(* Faults. *)

Orphaned(w) == [k \in DOMAIN mempool |->
                  IF mempool[k].by = w THEN [mempool[k] EXCEPT !.by = None]
                                       ELSE mempool[k]]

WaitThrows(w) ==
    /\ At(w, "wait")
    /\ waitFailures < MaxWaitFailures
    /\ waitFailures' = waitFailures + 1
    /\ mempool' = Orphaned(w)
    /\ Goto(w, "release")
    /\ UNCHANGED <<transfer, packet, share, marked, paid, sendFailures, crashes>>

SendThrows(w) ==
    /\ At(w, "pay")
    /\ sendFailures < MaxSendFailures
    /\ sendFailures' = sendFailures + 1
    /\ Goto(w, "release")
    /\ UNCHANGED <<transfer, packet, share, marked, chainVars, waitFailures, crashes>>

\* The invocation is killed, or its next write fails and the error is not looked at.
Crash(w) ==
    /\ ~At(w, "idle")
    /\ crashes < MaxCrashes
    /\ crashes' = crashes + 1
    /\ Return(w)
    /\ mempool' = Orphaned(w)
    /\ UNCHANGED <<transfer, packet, share, marked, paid, waitFailures, sendFailures>>

-----------------------------------------------------------------------------

Create(w) == \E c \in Code, slots \in 1 .. MaxSlots, mode \in SplitMode :
                InsertPacket(w, c, slots, mode)
Claim(w) == \E u \in User, c \in Code :
                \E s \in NextShares(ToDivide(c), SlotsLeft(c), packet[c].mode) :
                    ClaimPacket(w, u, c, s)
Step(w) == Create(w) \/ SendPayout(w) \/ AwaitPayout(w) \/ MarkPaid(w) \/ Release(w)

Next ==
    \/ \E w \in Slot :
         \/ Step(w) \/ Claim(w)
         \/ WaitThrows(w) \/ SendThrows(w) \/ Crash(w)
         \/ \E t \in Tx : StartCreate(w, t)
    \/ \E t \in Tx, moved \in Transfer : MakeTransfer(t, moved)
    \/ \E c \in Code : Expire(c)
    \/ Mine

Spec == Init /\ [][Next]_vars

\* Invocations run and blocks are mined.
FairSpec == Spec /\ WF_vars(Mine) /\ \A w \in Slot : WF_vars(Step(w))

-----------------------------------------------------------------------------
(* Properties. *)

\* lib/packet.ts: "the sum of all shares must equal the funded total, exactly", in
\* any order of claims and releases: what is left gives every free slot a unit,
\* and nothing is left when no slot is.
SharesFit ==
    \A c \in Code : Exists(c) =>
        /\ SlotsLeft(c) >= 0
        /\ Left(c) >= SlotsLeft(c)
        /\ SlotsLeft(c) = 0 => Left(c) = 0

\* Every packet stands on a transfer of its own that brought its whole total.
PacketsAreBacked ==
    \A c \in Code : Exists(c) =>
        /\ transfer[packet[c].tx] = [kind |-> "funding", amount |-> packet[c].total]
        /\ \A d \in Code : d # c => packet[d].tx # packet[c].tx

\* As long as no tx.wait() threw, the treasury pays a packet's claimers no more
\* than the packet brought in, and nobody twice.
PayoutsAreFunded ==
    waitFailures = 0 =>
        \A c \in Code :
            /\ \A u \in User : paid[c][u].times <= 1 /\ paid[c][u].units <= share[c][u]
            /\ Left(c) >= 0

\* A claim ends: it is paid, or gone so that it may be tried again, unless an
\* invocation is killed (its claim would stay, unpaid and in the way of a retry).
ClaimEnds(c, u) ==
    [](crashes = 0) => (share[c][u] > 0 ~> share[c][u] = 0 \/ paid[c][u].times > 0)
=============================================================================
