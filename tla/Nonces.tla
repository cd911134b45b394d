------------------------------- MODULE Nonces -------------------------------
(***************************************************************************)
(* Transactions of one account: which nonce the next one takes, what the   *)
(* node makes of it, what the sender remembers.  web/lib/nonce.ts with its *)
(* two users: the settler (lib/chain.ts), shared by every process, and a   *)
(* wallet in the browser (hooks/useMpcWallet.tsx), which does not retry.   *)
(***************************************************************************)
EXTENDS Integers, FiniteSets

CONSTANTS
    Process,     \* memories a reservation can be held in
    Slot,        \* sends that may be under way
    MaxSends,    \* bound: sends ever begun
    MaxTroubles  \* bound: RPC calls that fail, transactions the node drops

VARIABLES
    settler,  \* whether the account is the settler's
    mined,    \* eth_getTransactionCount at "latest"
    pool,     \* nonce -> the send the node holds there, or 0
    held,     \* process -> its reservation
    send,     \* slot -> the send under way
    begun,    \* sends begun
    landed,   \* history: send -> transactions of it the node accepted
    refused,  \* history: sends refused with nobody accepted since they began
    troubles

vars == <<settler, mined, pool, held, send, begun, landed, refused, troubles>>

Send == 1 .. MaxSends
Nonce == 0 .. MaxSends
Nothing == [next |-> 0, old |-> TRUE]
Idle == [at |-> "idle", process |-> "none", nonce |-> 0, id |-> 0, alone |-> TRUE]

TypeOK ==
    /\ settler \in BOOLEAN
    /\ mined \in Nonce
    /\ pool \in [Nonce -> 0 .. MaxSends]
    /\ held \in [Process -> [next : 0 .. MaxSends + 1, old : BOOLEAN]]
    /\ send \in [Slot -> [at : {"idle", "allocate", "broadcast", "reserve", "rejected", "failed", "pending", "again"},
                          process : Process \cup {"none"}, nonce : Nonce, id : 0 .. MaxSends, alone : BOOLEAN]]
    /\ begun \in 0 .. MaxSends
    /\ landed \in [Send -> Nat]
    /\ refused \subseteq Send
    /\ troubles \in 0 .. MaxTroubles

Init ==
    /\ settler \in BOOLEAN
    /\ mined = 0
    /\ pool = [n \in Nonce |-> 0]
    /\ held = [p \in Process |-> Nothing]
    /\ send = [s \in Slot |-> Idle]
    /\ begun = 0
    /\ landed = [i \in Send |-> 0]
    /\ refused = {}
    /\ troubles = 0

At(s, at) == send[s].at = at
Return(s) == send' = [send EXCEPT ![s] = Idle]
Goto(s, at) == send' = [send EXCEPT ![s].at = at]
Trouble == troubles < MaxTroubles /\ troubles' = troubles + 1
MaxOf(a, b) == IF a > b THEN a ELSE b

-----------------------------------------------------------------------------
(* allocateNonce: the chain is asked, then the reservation raises its answer. *)

\* A browser wallet is one tab, hence one process.
ReadCount(s, p) ==
    /\ At(s, "idle")
    /\ begun < MaxSends
    /\ ~settler => \A q \in Process : held[q] = Nothing \/ q = p
    /\ ~settler => \A t \in Slot : At(t, "idle") \/ send[t].process = p
    /\ begun' = begun + 1
    /\ send' = [send EXCEPT ![s] = [at |-> "allocate", process |-> p, nonce |-> mined,
                                    id |-> begun + 1, alone |-> TRUE]]
    /\ UNCHANGED <<settler, mined, pool, held, landed, refused, troubles>>

\* The reservation made before the node has the transaction.
ReserveFirst(s) ==
    LET h == held[send[s].process]
        n == IF h.old THEN send[s].nonce ELSE MaxOf(send[s].nonce, h.next)
    IN
    /\ At(s, "allocate")
    /\ send' = [send EXCEPT ![s].at = "broadcast", ![s].nonce = n]
    /\ held' = [held EXCEPT ![send[s].process] = [next |-> n + 1, old |-> FALSE]]
    /\ UNCHANGED <<settler, mined, pool, begun, landed, refused, troubles>>

\* An expired reservation is deleted; Nothing says as much as an expired one.
AllocateNonce(s) ==
    LET h == held[send[s].process] IN
    /\ At(s, "allocate")
    /\ send' = [send EXCEPT ![s].at = "broadcast",
                            ![s].nonce = IF h.old THEN @ ELSE MaxOf(@, h.next)]
    /\ held' = IF h.old THEN [held EXCEPT ![send[s].process] = Nothing] ELSE held
    /\ UNCHANGED <<settler, mined, pool, begun, landed, refused, troubles>>

-----------------------------------------------------------------------------
(* sendTransaction *)

Free(n) == n >= mined /\ pool[n] = 0
NodeTakes(s) ==
    /\ pool' = [pool EXCEPT ![send[s].nonce] = send[s].id]
    /\ landed' = [landed EXCEPT ![send[s].id] = @ + 1]

\* Whoever is accepted ends the solitude of the other sends under way.
Accepted(s, at) == send' = [t \in Slot |-> IF t = s THEN [send[t] EXCEPT !.at = at] ELSE [send[t] EXCEPT !.alone = FALSE]]

\* The node takes the transaction, or refuses its nonce, or its answer is an error.
Broadcast(s) ==
    /\ At(s, "broadcast")
    /\ \/ Free(send[s].nonce) /\ NodeTakes(s) /\ Accepted(s, "reserve") /\ UNCHANGED troubles
       \/ ~Free(send[s].nonce) /\ Goto(s, "rejected") /\ UNCHANGED <<pool, landed, troubles>>
       \/ /\ Trouble
          /\ \/ Free(send[s].nonce) /\ NodeTakes(s) /\ Accepted(s, "failed")
             \/ Goto(s, "failed") /\ UNCHANGED <<pool, landed>>
    /\ UNCHANGED <<settler, mined, held, begun, refused>>

\* reserveNonce never walks backwards inside the ttl.
ReserveNonce(s) ==
    LET h == held[send[s].process] IN
    /\ At(s, "reserve")
    /\ held' = IF ~h.old /\ h.next > send[s].nonce + 1 THEN held
               ELSE [held EXCEPT ![send[s].process] = [next |-> send[s].nonce + 1, old |-> FALSE]]
    /\ Return(s)
    /\ UNCHANGED <<settler, mined, pool, begun, landed, refused, troubles>>

Forget(s) == held' = [held EXCEPT ![send[s].process] = Nothing]
AnyError(s) == TRUE
IsNonceConflict(s) == At(s, "rejected")
NeverRetries(s) == FALSE
Retries(s) == settler /\ IsNonceConflict(s)

\* Rejected for its nonce, or failed: the reservation is dropped, and the settler, if it was
\* the nonce, asks for the pending one.
ReleaseNonces(s) ==
    /\ At(s, "rejected") \/ At(s, "failed")
    /\ Forget(s)
    /\ IF Retries(s) THEN Goto(s, "pending") /\ UNCHANGED refused
       ELSE /\ Return(s)
            /\ refused' = IF At(s, "rejected") /\ send[s].alone /\ settler THEN refused \cup {send[s].id} ELSE refused
    /\ UNCHANGED <<settler, mined, pool, begun, landed, troubles>>

\* The pending count: past the transactions that follow each other from the mined ones.
PendingCount(n) == n >= mined /\ pool[n] = 0 /\ \A m \in mined .. n - 1 : pool[m] # 0

ReadPending(s) ==
    /\ At(s, "pending")
    /\ \E n \in Nonce :
         PendingCount(n) /\ send' = [send EXCEPT ![s].at = "again", ![s].nonce = n]
    /\ UNCHANGED <<settler, mined, pool, held, begun, landed, refused, troubles>>

\* One retry: whatever stops it is thrown to the caller.
SendAgain(s) ==
    /\ At(s, "again")
    /\ \/ Free(send[s].nonce) /\ NodeTakes(s) /\ Accepted(s, "reserve") /\ UNCHANGED <<refused, troubles>>
       \/ /\ ~Free(send[s].nonce) /\ Return(s) /\ UNCHANGED <<pool, landed, troubles>>
          /\ refused' = IF send[s].alone THEN refused \cup {send[s].id} ELSE refused
       \/ Trouble /\ Return(s) /\ UNCHANGED <<pool, landed, refused>>
    /\ UNCHANGED <<settler, mined, held, begun>>

-----------------------------------------------------------------------------
(* The chain and the clock *)

Mine ==
    /\ mined < MaxSends
    /\ pool[mined] # 0
    /\ mined' = mined + 1
    /\ UNCHANGED <<settler, pool, held, send, begun, landed, refused, troubles>>

Drop(n) ==
    /\ n >= mined /\ pool[n] # 0
    /\ Trouble
    /\ pool' = [pool EXCEPT ![n] = 0]
    /\ UNCHANGED <<settler, mined, held, send, begun, landed, refused>>

\* RESERVATION_TTL_MS passes.
ReservationAges(p) ==
    /\ ~held[p].old
    /\ held' = [held EXCEPT ![p].old = TRUE]
    /\ UNCHANGED <<settler, mined, pool, send, begun, landed, refused, troubles>>

Next ==
    \/ \E s \in Slot :
        \/ \E p \in Process : ReadCount(s, p)
        \/ AllocateNonce(s) \/ Broadcast(s) \/ ReserveNonce(s) \/ ReleaseNonces(s)
        \/ ReadPending(s) \/ SendAgain(s)
    \/ Mine
    \/ \E n \in Nonce : Drop(n)
    \/ \E p \in Process : ReservationAges(p)

Spec == Init /\ [][Next]_vars

-----------------------------------------------------------------------------
(* Properties *)

\* A payment is sent once: one whose answer was lost is not sent again, one that lost a race
\* for its nonce was not taken.
SentOnce == \A i \in Send : landed[i] <= 1

\* "The one failure mode to avoid": while the node loses nothing, no transaction sits behind a
\* nonce that nobody fills, whichever process sent it.
NoGap == troubles = 0 => \A n \in Nonce : pool[n] # 0 => \A m \in mined .. n : pool[m] # 0

\* What a process wrongly remembers costs the settler a retry and no payment: a send that
\* fails on its nonce met another one that was accepted while it was under way.
LosesOnlyToRaces == refused = {}
=============================================================================
