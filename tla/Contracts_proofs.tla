-------------------------- MODULE Contracts_proofs --------------------------
(***************************************************************************)
(* Theorems about the two contracts, for every set of accounts, of tokens  *)
(* and of stakers and every value of the bounds.                           *)
(*                                                                         *)
(* The escrow: its requests only move on, what it holds covers what is     *)
(* locked, and it holds what was handed to it.                             *)
(*                                                                         *)
(* Staking: totalStaked is the sum of the stakes, no subtraction of the    *)
(* contract underflows, the stream never promises more than the reserve,   *)
(* and the contract owes its stakers and its reserve at most one unit per  *)
(* rounded debt more than it holds.  The first three are proved together:  *)
(* totalStaked stays a natural number because it covers every stake, and   *)
(* the reserve because what accrues is capped by it.  The fourth is argued *)
(* in units of 1 / AccPrecision, where nothing is rounded (DustInv).       *)
(* These theorems are about Staking!Spec, the instance the run of          *)
(* MCContracts checks; the last three carry them over to its properties.   *)
(***************************************************************************)
EXTENDS MCContracts

-----------------------------------------------------------------------------
(* The escrow *)

\* The type invariant is inductive only together with Custody: that spent stays
\* a natural number when refund() subtracts is what Custody says.
EscrowInv == TypeOK /\ IdsAreFresh /\ Custody /\ Solvent

\* What the lemmas on sums ask of the requests.
LEMMA RequestsAreSummable ==
    ASSUME TypeOK
    PROVE  /\ Endowment \in Nat
           /\ IsFiniteSet(RequestId)
           /\ AmountOf \in [RequestId -> 0 .. Endowment]
           /\ \A token : LockedIn(token) \in SUBSET RequestId
           /\ \A token, a : NotReturnedTo(token, a) \in SUBSET RequestId
<1>1. Endowment \in Nat /\ 0 \in Int /\ MaxRequests - 1 \in Int
  BY ConstantsAssumption
<1>2. IsFiniteSet(RequestId)
  BY <1>1, FS_Interval DEF RequestId
<1>3. AmountOf \in [RequestId -> 0 .. Endowment]
  BY <1>1 DEF AmountOf, TypeOK, OfframpRequest, NoRequest, Amount
<1>4. QED
  BY <1>1, <1>2, <1>3 DEF LockedIn, NotReturnedTo

\* A lock adds its amount to what is held, to what its user spent, and to the
\* sums over the requests, under an id that was in neither sum.
LEMMA LockStep ==
    ASSUME EscrowInv, NEW caller \in Address, NEW amount \in {0} \cup Amount,
           NEW token \in Token \cup {ZeroAddress}, NEW rateExpiry \in 0 .. MaxRateExpiry + 1,
           LockForOfframp(caller, amount, token, rateExpiry)
    PROVE  EscrowInv'
<1> USE ConstantsAssumption DEF NextNonce
<1>0. token \in Token /\ amount \in Amount
  BY DEF LockForOfframp, IsAddress
<1>1. nonce \in RequestId /\ requests[nonce] = NoRequest
  BY DEF EscrowInv, TypeOK, IdsAreFresh, LockForOfframp, RequestId
<1>2. \A i \in RequestId : i # nonce => requests'[i] = requests[i]
  BY <1>1 DEF EscrowInv, TypeOK, LockForOfframp
<1>3. /\ requests'[nonce].user = caller
      /\ requests'[nonce].token = token
      /\ requests'[nonce].amount = amount
      /\ requests'[nonce].status = "Locked"
      /\ requests'[nonce] \in OfframpRequest
  BY <1>0, <1>1 DEF EscrowInv, TypeOK, LockForOfframp, OfframpRequest
<1>4. TypeOK'
  BY <1>0, <1>1, <1>3 DEF EscrowInv, TypeOK, LockForOfframp, Amount
<1>5. IdsAreFresh'
  BY <1>1, <1>2, <1>3 DEF EscrowInv, TypeOK, IdsAreFresh, LockForOfframp, NoRequest, RequestId
<1>6. requests[nonce].status = "None"
  BY <1>1 DEF NoRequest
<1>7. ASSUME NEW t \in Token
      PROVE  LockedIn(t)' = IF t = token THEN LockedIn(t) \cup {nonce} ELSE LockedIn(t)
  BY <1>1, <1>2, <1>3, <1>6 DEF LockedIn
<1>8. ASSUME NEW t \in Token, NEW a \in Address
      PROVE  NotReturnedTo(t, a)' = IF t = token /\ a = caller
                                    THEN NotReturnedTo(t, a) \cup {nonce}
                                    ELSE NotReturnedTo(t, a)
  BY <1>1, <1>2, <1>3, <1>6 DEF NotReturnedTo
<1>9. ASSUME NEW ids \in SUBSET RequestId, nonce \notin ids
      PROVE  /\ Total(AmountOf', ids) = Total(AmountOf, ids)
             /\ Total(AmountOf', ids \cup {nonce}) = Total(AmountOf, ids) + amount
             /\ Total(AmountOf, ids) \in Nat
  <2>1. Total(AmountOf', ids) = Total(AmountOf, ids)
    <3>1. \A i \in ids : AmountOf'[i] = AmountOf[i]
      BY <1>2, <1>9 DEF AmountOf
    <3>2. QED
      BY <3>1, TotalDependsOnAmounts
  <2>2. AmountOf'[nonce] = amount
    BY <1>1, <1>3 DEF AmountOf
  <2>3. AmountOf' \in [RequestId -> 0 .. Endowment]
    BY <1>4 DEF TypeOK, AmountOf, OfframpRequest, NoRequest, Amount
  <2>4. QED
    BY <1>1, <1>9, <2>1, <2>2, <2>3, RequestsAreSummable, TotalAdd, TotalType DEF EscrowInv
<1>10. Custody'
  <2> SUFFICES ASSUME NEW t \in Token, NEW a \in Address
               PROVE  spent'[t][a] = Total(AmountOf', NotReturnedTo(t, a)')
    BY DEF Custody
  <2>1. nonce \notin NotReturnedTo(t, a) /\ NotReturnedTo(t, a) \in SUBSET RequestId
    BY <1>6 DEF NotReturnedTo
  <2>2. spent[t][a] = Total(AmountOf, NotReturnedTo(t, a))
    BY DEF EscrowInv, Custody
  <2>3. spent'[t][a] = IF t = token /\ a = caller THEN spent[t][a] + amount
                                                 ELSE spent[t][a]
    BY <1>0 DEF LockForOfframp, EscrowInv, TypeOK
  <2>4. QED
    BY <1>8, <1>9, <2>1, <2>2, <2>3
<1>11. Solvent'
  <2> SUFFICES ASSUME NEW t \in Token
               PROVE  held'[t] >= Total(AmountOf', LockedIn(t)')
    BY DEF Solvent
  <2>1. nonce \notin LockedIn(t) /\ LockedIn(t) \in SUBSET RequestId
    BY <1>6 DEF LockedIn
  <2>2. held[t] >= Total(AmountOf, LockedIn(t)) /\ held[t] \in Nat
    BY DEF EscrowInv, Solvent, TypeOK
  <2>3. held'[t] = IF t = token THEN held[t] + amount ELSE held[t]
    BY <1>0 DEF LockForOfframp, EscrowInv, TypeOK
  <2>4. Total(AmountOf, LockedIn(t)) \in Nat
    BY <1>9, <2>1
  <2>5. CASE t = token
    <3>1. Total(AmountOf', LockedIn(t)') = Total(AmountOf, LockedIn(t)) + amount
      BY <1>7, <1>9, <2>1, <2>5
    <3>2. QED
      BY <1>0, <2>2, <2>3, <2>4, <2>5, <3>1 DEF Amount
  <2>6. CASE t # token
    <3>1. Total(AmountOf', LockedIn(t)') = Total(AmountOf, LockedIn(t))
      BY <1>7, <1>9, <2>1, <2>6
    <3>2. QED
      BY <2>2, <2>3, <2>6, <3>1
  <2>7. QED
    BY <2>5, <2>6
<1>12. QED
  BY <1>4, <1>5, <1>10, <1>11 DEF EscrowInv

\* A settlement takes the request out of the locked sum, and what it paid out is
\* that request's amount; nobody's custody changes.
LEMMA SettleStep ==
    ASSUME EscrowInv, NEW caller \in Address, NEW id \in RequestId, NEW path \in Paths,
           SettleOfframp(caller, id, path)
    PROVE  EscrowInv'
<1> DEFINE tok == requests[id].token
<1>1. requests[id] \in OfframpRequest /\ requests[id].status = "Locked"
  BY DEF SettleOfframp, Finished, PaidOut, EscrowInv, TypeOK, NoRequest
<1>2. /\ \A i \in RequestId : i # id => requests'[i] = requests[i]
      /\ requests'[id] = [requests[id] EXCEPT !.status = "Settled"]
  BY DEF SettleOfframp, Finished, PaidOut, EscrowInv, TypeOK
<1>3. requests'[id] \in OfframpRequest
  BY <1>1, <1>2 DEF OfframpRequest
<1>4. TypeOK'
  <2>1. held' \in [Token -> Nat]
    <3>1. tok \in Token /\ requests[id].amount \in Nat
      BY <1>1, ConstantsAssumption DEF OfframpRequest, Amount
    <3>2. held \in [Token -> Nat] /\ held[tok] >= requests[id].amount
      BY DEF SettleOfframp, Finished, PaidOut, EscrowInv, TypeOK
    <3>3. held' = [held EXCEPT ![tok] = @ - requests[id].amount]
      BY DEF SettleOfframp, PaidOut
    <3>4. QED
      BY <3>1, <3>2, <3>3
  <2>2. requests' \in [RequestId -> OfframpRequest \cup {NoRequest}]
    BY <1>2, <1>3 DEF SettleOfframp, Finished, PaidOut, EscrowInv, TypeOK
  <2>3. QED
    BY <2>1, <2>2 DEF SettleOfframp, Finished, PaidOut, EscrowInv, TypeOK
<1>5. IdsAreFresh'
  BY <1>1, <1>2, <1>3 DEF SettleOfframp, Finished, PaidOut, EscrowInv, IdsAreFresh, OfframpRequest, NoRequest
<1>6. AmountOf' = AmountOf
  BY <1>1, <1>2 DEF AmountOf, OfframpRequest
<1>7. Custody'
  <2>1. \A t \in Token, a \in Address : NotReturnedTo(t, a)' = NotReturnedTo(t, a)
    BY <1>1, <1>2 DEF NotReturnedTo, OfframpRequest
  <2>2. QED
    BY <1>6, <2>1 DEF SettleOfframp, Finished, PaidOut, EscrowInv, Custody
<1>8. Solvent'
  <2> SUFFICES ASSUME NEW t \in Token
               PROVE  held'[t] >= Total(AmountOf, LockedIn(t)')
    BY <1>6 DEF Solvent
  <2>1. LockedIn(t)' = IF t = tok THEN LockedIn(t) \ {id} ELSE LockedIn(t)
    BY <1>1, <1>2 DEF LockedIn, OfframpRequest
  <2>2. t = tok => id \in LockedIn(t)
    BY <1>1 DEF LockedIn
  <2>3. held[t] >= Total(AmountOf, LockedIn(t)) /\ held[t] \in Nat
    BY DEF EscrowInv, Solvent, TypeOK
  <2>4. held'[t] = IF t = tok THEN held[t] - AmountOf[id] ELSE held[t]
    BY DEF SettleOfframp, Finished, PaidOut, EscrowInv, TypeOK, AmountOf
  <2>5. Total(AmountOf, LockedIn(t)) \in Nat /\ AmountOf[id] \in Nat
    BY RequestsAreSummable, TotalType DEF EscrowInv
  <2>6. t = tok => Total(AmountOf, LockedIn(t) \ {id})
                    = Total(AmountOf, LockedIn(t)) - AmountOf[id]
    BY <2>2, RequestsAreSummable, TotalRemove DEF EscrowInv
  <2>7. QED
    BY <2>1, <2>3, <2>4, <2>5, <2>6
<1>9. QED
  BY <1>4, <1>5, <1>7, <1>8 DEF EscrowInv

\* A refund takes the request out of both sums and pays its user its amount.
LEMMA RefundStep ==
    ASSUME EscrowInv, NEW caller \in Address, NEW id \in RequestId, Refund(caller, id)
    PROVE  EscrowInv'
<1> DEFINE tok == requests[id].token
           user == requests[id].user
<1>1. requests[id] \in OfframpRequest /\ requests[id].status = "Locked"
  BY DEF Refund, Finished, PaidOut, RefundedTo, Expired, EscrowInv, TypeOK, NoRequest
<1>2. /\ \A i \in RequestId : i # id => requests'[i] = requests[i]
      /\ requests'[id] = [requests[id] EXCEPT !.status = "Refunded"]
  BY DEF Refund, Finished, PaidOut, RefundedTo, Expired, EscrowInv, TypeOK
<1>3. requests'[id] \in OfframpRequest
  BY <1>1, <1>2 DEF OfframpRequest
<1>4. AmountOf' = AmountOf
  BY <1>1, <1>2 DEF AmountOf, OfframpRequest
<1>5. ASSUME NEW ids \in SUBSET RequestId, id \in ids
      PROVE  /\ Total(AmountOf, ids \ {id}) = Total(AmountOf, ids) - AmountOf[id]
             /\ Total(AmountOf, ids) \in Nat
             /\ AmountOf[id] <= Total(AmountOf, ids)
             /\ AmountOf[id] \in Nat
  BY <1>5, RequestsAreSummable, TotalType, TotalRemove, TotalCovers DEF EscrowInv
<1>6. ASSUME NEW t \in Token, NEW a \in Address
      PROVE  /\ spent'[t][a] = Total(AmountOf, NotReturnedTo(t, a)')
             /\ spent'[t][a] \in Nat
  <2>1. NotReturnedTo(t, a)' = IF t = tok /\ a = user THEN NotReturnedTo(t, a) \ {id}
                                                     ELSE NotReturnedTo(t, a)
    BY <1>1, <1>2 DEF NotReturnedTo, OfframpRequest
  <2>2. t = tok /\ a = user => id \in NotReturnedTo(t, a)
    BY <1>1 DEF NotReturnedTo
  <2>3. spent[t][a] = Total(AmountOf, NotReturnedTo(t, a)) /\ spent[t][a] \in Nat
    BY DEF EscrowInv, Custody, TypeOK
  <2>4. spent'[t][a] = IF t = tok /\ a = user THEN spent[t][a] - AmountOf[id]
                                             ELSE spent[t][a]
    BY DEF Refund, Finished, PaidOut, RefundedTo, Expired, EscrowInv, TypeOK, AmountOf
  <2>5. NotReturnedTo(t, a) \in SUBSET RequestId
    BY DEF NotReturnedTo
  <2>6. QED
    BY <1>5, <2>1, <2>2, <2>3, <2>4, <2>5
<1>7. ASSUME NEW t \in Token
      PROVE  held'[t] >= Total(AmountOf, LockedIn(t)') /\ held'[t] \in Nat
  <2>1. LockedIn(t)' = IF t = tok THEN LockedIn(t) \ {id} ELSE LockedIn(t)
    BY <1>1, <1>2 DEF LockedIn, OfframpRequest
  <2>2. t = tok => id \in LockedIn(t)
    BY <1>1 DEF LockedIn
  <2>3. held[t] >= Total(AmountOf, LockedIn(t)) /\ held[t] \in Nat
    BY DEF EscrowInv, Solvent, TypeOK
  <2>4. held'[t] = IF t = tok THEN held[t] - AmountOf[id] ELSE held[t]
    BY DEF Refund, Finished, PaidOut, RefundedTo, Expired, EscrowInv, TypeOK, AmountOf
  <2>5. LockedIn(t) \in SUBSET RequestId
    BY DEF LockedIn
  <2>6. CASE t = tok
    <3>1. Total(AmountOf, LockedIn(t)') = Total(AmountOf, LockedIn(t)) - AmountOf[id]
      BY <1>5, <2>1, <2>2, <2>5, <2>6
    <3>2. /\ Total(AmountOf, LockedIn(t)) \in Nat
          /\ AmountOf[id] <= Total(AmountOf, LockedIn(t))
          /\ AmountOf[id] \in Nat
      BY <1>5, <2>2, <2>5, <2>6
    <3>3. held'[t] = held[t] - AmountOf[id]
      BY <2>4, <2>6
    <3>4. QED
      BY <2>3, <3>1, <3>2, <3>3
  <2>7. CASE t # tok
    BY <2>1, <2>3, <2>4, <2>7
  <2>8. QED
    BY <2>6, <2>7
<1>8. TypeOK'
  <2>1. held' \in [Token -> Nat]
    BY <1>7 DEF Refund, Finished, PaidOut, RefundedTo, Expired, EscrowInv, TypeOK
  <2>2. spent' \in [Token -> [Address -> Nat]]
    <3>1. spent' \in [Token -> [Address -> Int]]
      BY <1>1 DEF Refund, Finished, PaidOut, RefundedTo, Expired, EscrowInv, TypeOK, OfframpRequest, Amount
    <3>2. QED
      BY <1>6, <3>1
  <2>3. requests' \in [RequestId -> OfframpRequest \cup {NoRequest}]
    BY <1>2, <1>3 DEF Refund, Finished, PaidOut, RefundedTo, Expired, EscrowInv, TypeOK
  <2>4. QED
    BY <2>1, <2>2, <2>3 DEF Refund, Finished, PaidOut, RefundedTo, Expired, EscrowInv, TypeOK
<1>9. IdsAreFresh'
  BY <1>1, <1>2, <1>3 DEF Refund, Finished, PaidOut, RefundedTo, Expired, EscrowInv, IdsAreFresh, OfframpRequest, NoRequest
<1>10. QED
  BY <1>4, <1>6, <1>7, <1>8, <1>9 DEF EscrowInv, Custody, Solvent

\* The other steps leave the requests and what was spent alone, and take nothing
\* out of the contract.
LEMMA OtherStep ==
    ASSUME EscrowInv, UNCHANGED <<nonce, requests, spent>>, TypeOK',
           \A t \in Token : held'[t] >= held[t]
    PROVE  EscrowInv'
<1>1. /\ \A t : LockedIn(t)' = LockedIn(t)
      /\ \A t, a : NotReturnedTo(t, a)' = NotReturnedTo(t, a)
      /\ AmountOf' = AmountOf
  BY DEF LockedIn, NotReturnedTo, AmountOf
<1>2. Custody'
  BY <1>1 DEF EscrowInv, Custody
<1>3. Solvent'
  <2> SUFFICES ASSUME NEW t \in Token
               PROVE  held'[t] >= Total(AmountOf, LockedIn(t))
    BY <1>1 DEF Solvent
  <2>1. Total(AmountOf, LockedIn(t)) \in Nat
    BY RequestsAreSummable, TotalType DEF EscrowInv
  <2>2. held[t] \in Nat /\ held'[t] \in Nat /\ held[t] >= Total(AmountOf, LockedIn(t))
    BY DEF EscrowInv, Solvent, TypeOK
  <2>3. QED
    BY <2>1, <2>2
<1>4. QED
  BY <1>2, <1>3 DEF EscrowInv, IdsAreFresh

\* A contract that took no lock yet, whatever its owner has set it up with.
LEMMA NothingLocked ==
    ASSUME TypeOK, nonce = 0, requests = [i \in RequestId |-> NoRequest],
           held = [t \in Token |-> 0], spent = [t \in Token |-> [a \in Address |-> 0]]
    PROVE  EscrowInv
<1>1. IdsAreFresh
  BY ConstantsAssumption DEF IdsAreFresh, RequestId
<1>2. /\ \A t : LockedIn(t) = {}
      /\ \A t, a : NotReturnedTo(t, a) = {}
  BY DEF LockedIn, NotReturnedTo, NoRequest
<1>3. Custody /\ Solvent
  BY <1>2, TotalEmpty DEF Custody, Solvent
<1>4. QED
  BY <1>1, <1>3 DEF EscrowInv

LEMMA InitInv == Init => EscrowInv
<1>1. Init => TypeOK
  BY ConstantsAssumption DEF Init, TypeOK, RequestId
<1>2. QED
  BY <1>1, NothingLocked DEF Init

LEMMA NextInv == EscrowInv /\ [Next]_escrowVars => EscrowInv'
<1> SUFFICES ASSUME EscrowInv, [Next]_escrowVars PROVE EscrowInv'
  OBVIOUS
<1>1. ASSUME NEW caller \in Address, NEW amount \in {0} \cup Amount,
             NEW token \in Token \cup {ZeroAddress},
             NEW rateExpiry \in 0 .. MaxRateExpiry + 1,
             LockForOfframp(caller, amount, token, rateExpiry)
      PROVE  EscrowInv'
  BY <1>1, LockStep
<1>2. ASSUME NEW caller \in Address, NEW id \in RequestId, NEW path \in Paths,
             SettleOfframp(caller, id, path)
      PROVE  EscrowInv'
  BY <1>2, SettleStep
<1>3. ASSUME NEW caller \in Address, NEW id \in RequestId, Refund(caller, id)
      PROVE  EscrowInv'
  BY <1>3, RefundStep
<1>4. ASSUME NEW caller \in Address, NEW a \in Address \cup {ZeroAddress}, SetSettler(caller, a)
      PROVE  EscrowInv'
  BY <1>4, OtherStep DEF SetSettler, IsAddress, EscrowInv, TypeOK
<1>5. ASSUME NEW caller \in Address, NEW token \in Token \cup {ZeroAddress}, NEW allowed \in BOOLEAN,
             SetTokenAllowed(caller, token, allowed)
      PROVE  EscrowInv'
  BY <1>5, OtherStep DEF SetTokenAllowed, IsAddress, EscrowInv, TypeOK
<1>6. ASSUME NEW caller \in Address, NEW token \in Token \cup {ZeroAddress}, SetStableToken(caller, token)
      PROVE  EscrowInv'
  BY <1>6, OtherStep DEF SetStableToken, IsAddress, EscrowInv, TypeOK
<1>7. ASSUME NEW caller \in Address, NEW a \in Address \cup {ZeroAddress},
             TransferOwnership(caller, a)
      PROVE  EscrowInv'
  BY <1>7, OtherStep DEF TransferOwnership, EscrowInv, TypeOK
<1>8. ASSUME NEW token \in Token, StrayTransfer(token)
      PROVE  EscrowInv'
  BY <1>8, OtherStep DEF StrayTransfer, EscrowInv, TypeOK
<1>9. CASE Tick
  BY <1>9, OtherStep DEF Tick, EscrowInv, TypeOK
<1>10. CASE UNCHANGED escrowVars
  BY <1>10, OtherStep DEF escrowVars, EscrowInv, TypeOK
<1>11. QED
  BY <1>1, <1>2, <1>3, <1>4, <1>5, <1>6, <1>7, <1>8, <1>9, <1>10 DEF Next

\* Every reachable state of the contract satisfies the inductive invariant.
THEOREM EscrowInvariant == Spec => []EscrowInv
BY InitInv, NextInv, PTL DEF Spec

\* The state of the contract keeps its type; in particular no balance and no
\* account's custody ever goes below zero.
THEOREM EscrowTypes == Spec => []TypeOK
BY EscrowInvariant, PTL DEF EscrowInv

\* The contract holds enough to pay back every Locked request at once.
THEOREM EscrowSolvent == Spec => []Solvent
BY EscrowInvariant, PTL DEF EscrowInv

\* Each account is out of pocket by exactly its own Locked and Settled requests.
THEOREM EscrowCustody == Spec => []Custody
BY EscrowInvariant, PTL DEF EscrowInv

\* A request id is used once.
THEOREM EscrowIdsAreFresh == Spec => []IdsAreFresh
BY EscrowInvariant, PTL DEF EscrowInv

\* refund() never fails for lack of tokens: an expired request that is still
\* Locked is covered by what the contract holds, so anyone can return it.
RefundIsFunded ==
    \A id \in RequestId :
        requests[id].status = "Locked" => held[requests[id].token] >= requests[id].amount

\* A Locked request can be refunded at any time: Solvent over all requests covers each one.
THEOREM EscrowRefundIsFunded == Spec => []RefundIsFunded
<1>1. EscrowInv => RefundIsFunded
  <2> SUFFICES ASSUME EscrowInv, NEW id \in RequestId, requests[id].status = "Locked"
               PROVE  held[requests[id].token] >= requests[id].amount
    BY DEF RefundIsFunded
  <2> DEFINE tok == requests[id].token
  <2>1. tok \in Token /\ requests[id].amount \in Nat
    BY DEF EscrowInv, TypeOK, OfframpRequest, NoRequest, Amount
  <2>2. id \in LockedIn(tok)
    BY DEF LockedIn
  <2>3. AmountOf[id] <= Total(AmountOf, LockedIn(tok)) /\ AmountOf[id] = requests[id].amount
    BY <2>2, RequestsAreSummable, TotalCovers DEF EscrowInv, AmountOf
  <2>4. Total(AmountOf, LockedIn(tok)) \in Nat
    BY RequestsAreSummable, TotalType DEF EscrowInv
  <2>5. held[tok] >= Total(AmountOf, LockedIn(tok)) /\ held[tok] \in Nat
    BY <2>1 DEF EscrowInv, Solvent, TypeOK
  <2>6. QED
    BY <2>1, <2>3, <2>4, <2>5
<1>2. QED
  BY <1>1, EscrowInvariant, PTL

\* Only a Locked request moves, to Settled while its rate holds and to Refunded
\* after, and the rest of a request never changes.
THEOREM EscrowLifecycle == Spec => Lifecycle
<1> DEFINE Step(id) ==
      \/ requests'[id] = requests[id]
      \/ requests[id].status = "None" /\ requests'[id].status = "Locked"
      \/ /\ requests[id].status = "Locked"
         /\ requests'[id] = [requests[id] EXCEPT
              !.status = IF now <= requests[id].deadline THEN "Settled" ELSE "Refunded"]
<1>1. ASSUME EscrowInv, [Next]_escrowVars
      PROVE  [\A id \in RequestId : Step(id)]_requests
  <2> SUFFICES ASSUME NEW id \in RequestId
               PROVE  Step(id)
    OBVIOUS
  <2>1. ASSUME NEW caller \in Address, NEW amount \in {0} \cup Amount,
               NEW token \in Token \cup {ZeroAddress},
               NEW rateExpiry \in 0 .. MaxRateExpiry + 1,
               LockForOfframp(caller, amount, token, rateExpiry)
        PROVE  Step(id)
    <3>1. nonce \in RequestId /\ requests[nonce].status = "None"
      BY <1>1, <2>1, ConstantsAssumption
      DEF EscrowInv, TypeOK, IdsAreFresh, LockForOfframp, RequestId, NoRequest
    <3>2. QED
      BY <1>1, <2>1, <3>1 DEF LockForOfframp, EscrowInv, TypeOK
  <2>2. ASSUME NEW caller \in Address, NEW i \in RequestId, NEW path \in Paths,
               SettleOfframp(caller, i, path)
        PROVE  Step(id)
    <3>1. requests[i] \in OfframpRequest /\ now \in Nat
      BY <1>1, <2>2 DEF SettleOfframp, EscrowInv, TypeOK, NoRequest
    <3>2. now <= requests[i].deadline
      BY <2>2, <3>1 DEF SettleOfframp, Expired, OfframpRequest
    <3>3. QED
      BY <1>1, <2>2, <3>2 DEF SettleOfframp, Finished, EscrowInv, TypeOK
  <2>3. ASSUME NEW caller \in Address, NEW i \in RequestId, Refund(caller, i)
        PROVE  Step(id)
    <3>1. requests[i] \in OfframpRequest /\ now \in Nat
      BY <1>1, <2>3 DEF Refund, EscrowInv, TypeOK, NoRequest
    <3>2. ~(now <= requests[i].deadline)
      BY <2>3, <3>1 DEF Refund, Expired, OfframpRequest
    <3>3. QED
      BY <1>1, <2>3, <3>2 DEF Refund, Finished, EscrowInv, TypeOK
  <2>4. CASE UNCHANGED requests
    BY <2>4
  <2>5. QED
    BY <1>1, <2>1, <2>2, <2>3, <2>4
    DEF Next, escrowVars, SetSettler, SetTokenAllowed, SetStableToken,
        TransferOwnership, StrayTransfer, Tick
<1>2. QED
  BY <1>1, EscrowInvariant, PTL DEF Spec, Lifecycle

-----------------------------------------------------------------------------
(* Staking *)

StakingInv ==
    /\ Staking!TypeOK
    /\ Staking!StakesAddUp
    /\ Staking!StreamIsFunded
    /\ lastRewardTime <= block

-----------------------------------------------------------------------------
(* Arithmetic of the accumulator. *)

\* Truncated division never rounds up.
LEMMA QuotientTimesDivisor ==
    ASSUME NEW x \in Nat, NEW d \in Nat \ {0}
    PROVE  x \div d \in Nat /\ (x \div d) * d <= x
<1>1. x \div d \in Int /\ x % d \in Int
  BY Z3
<1>2. x = d * (x \div d) + (x % d) /\ 0 <= x % d /\ x % d < d
  BY Z3
<1>3. x \div d >= 0
  BY Z3
<1>4. QED
  BY <1>1, <1>2, <1>3, Z3

\* The product of two naturals is a natural.
LEMMA ProductType ==
    ASSUME NEW x \in Nat, NEW y \in Nat
    PROVE  x * y \in Nat
BY Z3

\* The promise of a stream is the promise up to a moment and from it on.
LEMMA PromiseSplits ==
    ASSUME NEW rate \in Nat, NEW a \in Nat, NEW b \in Nat, NEW c \in Nat,
           a <= b, b <= c
    PROVE  /\ rate * (c - a) = rate * (c - b) + (b - a) * rate
           /\ rate * (c - b) <= rate * (c - a)
           /\ rate * (c - b) \in Nat /\ (b - a) * rate \in Nat
<1> DEFINE x == c - b
           y == b - a
<1>1. x \in Nat /\ y \in Nat /\ c - a = x + y
  OBVIOUS
<1> HIDE DEF x, y
<1>2. rate * (x + y) = rate * x + y * rate /\ rate * x \in Nat /\ y * rate \in Nat
  BY <1>1, Z3
<1>3. rate * x <= rate * (x + y)
  BY <1>2
<1>4. QED
  BY <1>1, <1>2, <1>3 DEF x, y

-----------------------------------------------------------------------------
(* The advanced pool. *)

\* What accrues is at most the reserve and at most what the stream promised.
LEMMA AccruedIsCovered ==
    ASSUME Staking!TypeOK
    PROVE  /\ Staking!Accrued \in Nat
           /\ Staking!Accrued <= rewardReserve
           /\ Staking!ReserveAfterUpdate \in Nat
           /\ Staking!StreamEnd \in Nat /\ Staking!StreamEnd <= block
           /\ Staking!StreamEnd > lastRewardTime =>
                Staking!Accrued <= (Staking!StreamEnd - lastRewardTime) * rewardRate
<1>1. rewardReserve \in Nat /\ rewardRate \in Nat /\ block \in Nat
      /\ rewardsEndAt \in Nat /\ lastRewardTime \in Nat
  BY DEF Staking!TypeOK
<1>2. Staking!StreamEnd \in Nat /\ Staking!StreamEnd <= block
  BY <1>1 DEF Staking!StreamEnd, Staking!Least
<1>3. CASE Staking!StreamEnd <= lastRewardTime
  <2>1. Staking!Accrued = 0
    BY <1>3 DEF Staking!Accrued
  <2>2. QED
    BY <1>1, <1>2, <1>3, <2>1 DEF Staking!ReserveAfterUpdate
<1>4. CASE Staking!StreamEnd > lastRewardTime
  <2>1. Staking!StreamEnd - lastRewardTime \in Nat
    BY <1>1, <1>2, <1>4
  <2>2. (Staking!StreamEnd - lastRewardTime) * rewardRate \in Nat
    BY <1>1, <2>1, ProductType
  <2>3. Staking!Accrued \in {0, (Staking!StreamEnd - lastRewardTime) * rewardRate, rewardReserve}
        /\ Staking!Accrued <= rewardReserve
        /\ Staking!Accrued <= (Staking!StreamEnd - lastRewardTime) * rewardRate
    BY <1>1, <1>2, <1>4, <2>2 DEF Staking!Accrued, Staking!Least
  <2>4. Staking!Accrued \in Nat
    BY <1>1, <2>2, <2>3
  <2>5. QED
    BY <1>1, <1>2, <2>3, <2>4 DEF Staking!ReserveAfterUpdate
<1>5. QED
  BY <1>1, <1>2, <1>3, <1>4

\* The accumulator, what a stake has earned and what a harvest pays are naturals.
LEMMA UpdateTypes ==
    ASSUME Staking!TypeOK, StakingAssumption
    PROVE  /\ Staking!AccAfterUpdate \in Nat
           /\ \A n \in Nat : Staking!Earned(n) \in Nat
           /\ \A u \in Staker : Staking!Harvest(u) \in Nat /\ Staking!DebtAfterHarvest(u) \in Nat
<1>1. Staking!Accrued \in Nat /\ AccPrecision \in Nat \ {0} /\ accRewardPerShare \in Nat
      /\ totalStaked \in Nat
  BY AccruedIsCovered DEF Staking!TypeOK, StakingAssumption
<1>2. Staking!AccAfterUpdate \in Nat
  <2>1. CASE totalStaked = 0
    BY <1>1, <2>1 DEF Staking!AccAfterUpdate
  <2>2. CASE totalStaked # 0
    <3>1. Staking!Accrued * AccPrecision \in Nat
      BY <1>1, ProductType
    <3>2. (Staking!Accrued * AccPrecision) \div totalStaked \in Nat
      BY <1>1, <2>2, <3>1, QuotientTimesDivisor
    <3>3. QED
      BY <1>1, <2>2, <3>2 DEF Staking!AccAfterUpdate
  <2>3. QED
    BY <2>1, <2>2
<1>3. \A n \in Nat : Staking!Earned(n) \in Nat
  <2>1. TAKE n \in Nat
  <2>2. n * Staking!AccAfterUpdate \in Nat
    BY <1>2, ProductType
  <2>3. QED
    BY <1>1, <2>2, QuotientTimesDivisor DEF Staking!Earned
<1>4. \A u \in Staker : Staking!Harvest(u) \in Nat /\ Staking!DebtAfterHarvest(u) \in Nat
  <2>1. TAKE u \in Staker
  <2>2. stakes[u].amount \in Nat /\ stakes[u].rewardDebt \in Nat
    BY DEF Staking!TypeOK, Staking!StakeInfo
  <2>3. Staking!Earned(stakes[u].amount) \in Nat
    BY <1>3, <2>2
  <2>4. Staking!Harvest(u) \in Nat
    BY <2>2, <2>3 DEF Staking!Harvest
  <2>5. QED
    BY <2>2, <2>4 DEF Staking!DebtAfterHarvest
<1>5. QED
  BY <1>2, <1>3, <1>4

\* Advancing the pool leaves a stream that the reserve still covers.
LEMMA UpdateKeepsStreamFunded ==
    ASSUME StakingInv, block < rewardsEndAt
    PROVE  rewardRate * (rewardsEndAt - block) <= Staking!ReserveAfterUpdate
<1>1. rewardReserve \in Nat /\ rewardRate \in Nat /\ block \in Nat /\ totalStaked \in Nat
      /\ rewardsEndAt \in Nat /\ lastRewardTime \in Nat /\ lastRewardTime <= block
  BY DEF StakingInv, Staking!TypeOK
<1>2. Staking!StreamEnd = block
  BY <1>1 DEF Staking!StreamEnd, Staking!Least
<1>3. rewardRate * (rewardsEndAt - lastRewardTime) <= rewardReserve
  BY <1>1 DEF StakingInv, Staking!StreamIsFunded
<1>4. /\ rewardRate * (rewardsEndAt - lastRewardTime)
            = rewardRate * (rewardsEndAt - block) + (block - lastRewardTime) * rewardRate
      /\ rewardRate * (rewardsEndAt - block) <= rewardRate * (rewardsEndAt - lastRewardTime)
      /\ rewardRate * (rewardsEndAt - block) \in Nat
      /\ (block - lastRewardTime) * rewardRate \in Nat
  BY <1>1, PromiseSplits
<1> DEFINE ahead == rewardRate * (rewardsEndAt - block)
           behind == (block - lastRewardTime) * rewardRate
           whole == rewardRate * (rewardsEndAt - lastRewardTime)
<1>5. /\ whole = ahead + behind /\ ahead <= whole /\ ahead \in Nat /\ behind \in Nat
      /\ whole <= rewardReserve
  BY <1>3, <1>4
<1>6. Staking!Accrued \in Nat /\ (block > lastRewardTime => Staking!Accrued <= behind)
  BY <1>2, AccruedIsCovered DEF StakingInv
<1>7. block <= lastRewardTime => Staking!Accrued = 0
  BY <1>2 DEF Staking!Accrued
<1> HIDE DEF ahead, behind, whole
<1>8. ahead <= rewardReserve - Staking!Accrued
  BY <1>1, <1>5, <1>6, <1>7
<1>9. QED
  BY <1>8 DEF Staking!ReserveAfterUpdate, ahead

-----------------------------------------------------------------------------
(* The sum of the stakes. *)

\* The sums of the instance are those of TokenSums.
LEMMA SameTotal == \A f, S : Staking!Total(f, S) = Total(f, S)
<1>1. \A S : Staking!Cardinality(S) = Cardinality(S)
  BY DEF Cardinality, Staking!Cardinality
<1>2. QED
  BY <1>1 DEF Staking!Total, Total, Units, Staking!Units

\* One staker's amount changes the sum by the difference.
LEMMA TotalFollowsOneStake ==
    ASSUME StakingAssumption, Staking!TypeOK, NEW u \in Staker,
           stakes' \in [Staker -> Staking!StakeInfo],
           \A v \in Staker \ {u} : stakes'[v] = stakes[v]
    PROVE  /\ Total(Staking!AmountOf', Staker)
                 = Total(Staking!AmountOf, Staker) - stakes[u].amount + stakes'[u].amount
           /\ Total(Staking!AmountOf, Staker) \in Nat
           /\ stakes[u].amount <= Total(Staking!AmountOf, Staker)
<1> DEFINE A == Staking!AmountOf
           B == [v \in Staker |-> stakes'[v].amount]
           rest == Staker \ {u}
<1>1. IsFiniteSet(Staker) /\ MaxStake \in Nat
  BY DEF StakingAssumption
<1>2. A \in [Staker -> 0 .. MaxStake] /\ B \in [Staker -> 0 .. MaxStake]
  BY DEF Staking!TypeOK, Staking!StakeInfo, Staking!AmountOf
<1>3. A[u] = stakes[u].amount /\ B[u] = stakes'[u].amount /\ B = Staking!AmountOf'
  BY DEF Staking!AmountOf
<1>4. \A v \in rest : A[v] = B[v]
  BY DEF Staking!AmountOf
<1>5. rest \in SUBSET Staker /\ u \notin rest /\ rest \cup {u} = Staker
  OBVIOUS
<1> HIDE DEF A, B, rest
<1>6. Total(A, Staker) = Total(A, rest) + A[u]
  BY <1>1, <1>2, <1>5, TotalAdd
<1>7. Total(B, Staker) = Total(B, rest) + B[u]
  BY <1>1, <1>2, <1>5, TotalAdd
<1>8. Total(A, rest) = Total(B, rest)
  BY <1>4, TotalDependsOnAmounts
<1>9. Total(A, rest) \in Nat /\ Total(A, Staker) \in Nat
  BY <1>1, <1>2, <1>5, TotalType
<1>10. A[u] \in Nat /\ B[u] \in Nat
  BY <1>1, <1>2
<1>11. QED
  BY <1>3, <1>6, <1>7, <1>8, <1>9, <1>10 DEF A

-----------------------------------------------------------------------------
(* The invariant. *)

LEMMA StakingInit ==
    ASSUME StakingAssumption, Staking!Init
    PROVE  StakingInv
<1> DEFINE zero == [v \in Staker |-> 0]
<1>1. Staking!TypeOK
  BY DEF StakingAssumption, Staking!Init, Staking!TypeOK, Staking!StakeInfo
<1>2. Staking!AmountOf = zero
  BY DEF Staking!Init, Staking!AmountOf
<1>3. Units(zero, Staker) = Units(zero, {})
  BY DEF Units
<1>4. Total(Staking!AmountOf, Staker) = 0
  BY <1>2, <1>3, TotalEmpty DEF Total
<1>5. QED
  BY <1>1, <1>4, SameTotal DEF Staking!Init, StakingInv, Staking!StakesAddUp, Staking!StreamIsFunded

\* Any call that advances the pool and gives one account another stake, with
\* totalStaked moved by the difference.
LEMMA OneStakeMoves ==
    ASSUME StakingAssumption, StakingInv, NEW u \in Staker,
           NEW a \in 0 .. MaxStake, NEW d \in Nat,
           Staking!UpdatePool,
           stakes' = [stakes EXCEPT ![u] = [amount |-> a, rewardDebt |-> d]],
           totalStaked' = totalStaked - stakes[u].amount + a,
           pool' \in Nat, rounded' \in 0 .. MaxCalls,
           UNCHANGED <<block, rewardRate, rewardsEndAt, minStakeAmount, funded>>
    PROVE  StakingInv'
<1>1. Staking!TypeOK /\ Staking!StakesAddUp /\ lastRewardTime <= block
  BY DEF StakingInv
<1>2. stakes' \in [Staker -> Staking!StakeInfo]
      /\ \A v \in Staker \ {u} : stakes'[v] = stakes[v]
      /\ stakes'[u].amount = a
  BY <1>1 DEF Staking!TypeOK, Staking!StakeInfo
<1>3. /\ Total(Staking!AmountOf', Staker) = Total(Staking!AmountOf, Staker) - stakes[u].amount + a
      /\ Total(Staking!AmountOf, Staker) \in Nat
      /\ stakes[u].amount <= Total(Staking!AmountOf, Staker)
  BY <1>1, <1>2, TotalFollowsOneStake
<1>4. stakes[u].amount \in Nat /\ a \in Nat
  BY <1>1 DEF Staking!TypeOK, Staking!StakeInfo, StakingAssumption
<1>5. Staking!StakesAddUp' /\ totalStaked' \in Nat
  BY SameTotal, <1>1, <1>3, <1>4 DEF Staking!StakesAddUp
<1>6. accRewardPerShare' \in Nat /\ rewardReserve' \in Nat
  BY <1>1, UpdateTypes, AccruedIsCovered DEF Staking!UpdatePool
<1>7. lastRewardTime' = block /\ block \in Nat
  BY <1>1 DEF Staking!UpdatePool, Staking!ClockAfterUpdate, Staking!TypeOK
<1>8. Staking!TypeOK'
  BY <1>1, <1>2, <1>5, <1>6, <1>7 DEF Staking!TypeOK
<1>9. Staking!StreamIsFunded'
  BY <1>7, UpdateKeepsStreamFunded DEF Staking!StreamIsFunded, Staking!UpdatePool
<1>10. QED
  BY <1>5, <1>7, <1>8, <1>9 DEF StakingInv

\* The calls that move no stake.
LEMMA NoStakeMoves ==
    ASSUME StakingInv, UNCHANGED <<stakes, totalStaked>>
    PROVE  Staking!StakesAddUp' /\ stakes' \in [Staker -> Staking!StakeInfo] /\ totalStaked' \in Nat
<1>1. Staking!AmountOf' = Staking!AmountOf
  BY DEF Staking!AmountOf
<1>2. QED
  BY <1>1 DEF StakingInv, Staking!StakesAddUp, Staking!TypeOK

LEMMA StakingStep ==
    ASSUME StakingAssumption, StakingInv, [Staking!Next]_(Staking!stakingVars)
    PROVE  StakingInv'
<1>1. Staking!TypeOK /\ Staking!StakesAddUp
  BY DEF StakingInv
<1>2. /\ block \in Nat /\ rewardReserve \in Nat /\ rewardRate \in Nat /\ rewardsEndAt \in Nat
      /\ lastRewardTime \in Nat /\ pool \in Nat /\ funded \in 0 .. MaxFunding
      /\ rounded \in 0 .. MaxCalls /\ totalStaked \in Nat
      /\ MaxStake \in Nat /\ MaxFunding \in Nat /\ MaxCalls \in Nat
      /\ lastRewardTime <= block
  BY <1>1 DEF Staking!TypeOK, StakingAssumption, StakingInv
<1>3. /\ Staking!AccAfterUpdate \in Nat /\ Staking!ReserveAfterUpdate \in Nat
      /\ \A n \in Nat : Staking!Earned(n) \in Nat
      /\ \A u \in Staker : Staking!Harvest(u) \in Nat /\ Staking!DebtAfterHarvest(u) \in Nat
  BY <1>1, UpdateTypes, AccruedIsCovered
<1>4. \A u \in Staker : stakes[u].amount \in 0 .. MaxStake /\ stakes[u].amount \in Nat
  BY <1>1, <1>2 DEF Staking!TypeOK, Staking!StakeInfo
<1>5. ASSUME NEW u \in Staker, NEW amount \in 0 .. MaxStake, Staking!Stake(u, amount)
      PROVE  StakingInv'
  <2> DEFINE a == stakes[u].amount + amount
  <2>0. stakes[u].amount \in Nat /\ amount \in Nat /\ Staking!Harvest(u) \in Nat
    BY <1>2, <1>3, <1>4
  <2>1. a \in 0 .. MaxStake /\ a \in Nat
    BY <1>2, <1>5, <2>0 DEF Staking!Stake
  <2>2. Staking!Earned(a) \in Nat
    BY <1>3, <2>1
  <2>3. stakes' = [stakes EXCEPT ![u] = [amount |-> a, rewardDebt |-> Staking!Earned(a)]]
    BY <1>5 DEF Staking!Stake
  <2>4. totalStaked' = totalStaked - stakes[u].amount + a
    BY <1>2, <1>5, <2>0 DEF Staking!Stake
  <2>5. pool' \in Nat /\ rounded' \in 0 .. MaxCalls
    BY <1>2, <1>5, <2>0 DEF Staking!Stake
  <2>6. Staking!UpdatePool /\ UNCHANGED <<block, rewardRate, rewardsEndAt, minStakeAmount, funded>>
    BY <1>5 DEF Staking!Stake
  <2> HIDE DEF a
  <2>7. QED
    BY <2>1, <2>2, <2>3, <2>4, <2>5, <2>6, OneStakeMoves
<1>6. ASSUME NEW u \in Staker, NEW amount \in 0 .. MaxStake, Staking!Unstake(u, amount)
      PROVE  StakingInv'
  <2> DEFINE a == stakes[u].amount - amount
  <2>0. stakes[u].amount \in 0 .. MaxStake /\ stakes[u].amount \in Nat /\ amount \in Nat
        /\ Staking!Harvest(u) \in Nat
    BY <1>2, <1>3, <1>4
  <2>1. a \in 0 .. MaxStake /\ a \in Nat
    BY <1>2, <1>6, <2>0 DEF Staking!Unstake
  <2>2. Staking!Earned(a) \in Nat
    BY <1>3, <2>1
  <2>3. stakes' = [stakes EXCEPT ![u] = [amount |-> a, rewardDebt |-> Staking!Earned(a)]]
    BY <1>6 DEF Staking!Unstake
  <2>4. totalStaked' = totalStaked - stakes[u].amount + a
    BY <1>2, <1>6, <2>0 DEF Staking!Unstake, Staking!TotalWithout
  <2>5. pool' \in Nat /\ rounded' \in 0 .. MaxCalls
    BY <1>2, <1>6, <2>0 DEF Staking!Unstake
  <2>6. Staking!UpdatePool /\ UNCHANGED <<block, rewardRate, rewardsEndAt, minStakeAmount, funded>>
    BY <1>6 DEF Staking!Unstake
  <2> HIDE DEF a
  <2>7. QED
    BY <2>1, <2>2, <2>3, <2>4, <2>5, <2>6, OneStakeMoves
<1>7. ASSUME NEW u \in Staker, Staking!ClaimRewards(u)
      PROVE  StakingInv'
  <2> DEFINE a == stakes[u].amount
             d == Staking!DebtAfterHarvest(u)
  <2>1. a \in 0 .. MaxStake /\ a \in Nat /\ d \in Nat /\ Staking!Harvest(u) \in Nat
    BY <1>3, <1>4
  <2>2. stakes' = [stakes EXCEPT ![u] = [amount |-> a, rewardDebt |-> d]]
    <3>1. stakes[u] \in [amount : 0 .. MaxStake, rewardDebt : Nat]
      BY <1>1 DEF Staking!TypeOK, Staking!StakeInfo
    <3>2. [stakes[u] EXCEPT !.rewardDebt = d] = [amount |-> a, rewardDebt |-> d]
      BY <3>1
    <3>3. stakes' = [stakes EXCEPT ![u] = [stakes[u] EXCEPT !.rewardDebt = d]]
      BY <1>7 DEF Staking!ClaimRewards
    <3>4. QED
      BY <3>2, <3>3
  <2>3. totalStaked' = totalStaked - stakes[u].amount + a
    BY <1>2, <1>7, <2>1 DEF Staking!ClaimRewards
  <2>4. pool' \in Nat /\ rounded' \in 0 .. MaxCalls
    BY <1>2, <1>7, <2>1 DEF Staking!ClaimRewards
  <2>5. Staking!UpdatePool /\ UNCHANGED <<block, rewardRate, rewardsEndAt, minStakeAmount, funded>>
    BY <1>7 DEF Staking!ClaimRewards
  <2> HIDE DEF a, d
  <2>6. QED
    BY <2>1, <2>2, <2>3, <2>4, <2>5, OneStakeMoves
<1>8. ASSUME NEW u \in Staker, Staking!Exit(u)
      PROVE  StakingInv'
  <2>0. stakes[u].amount \in Nat /\ Staking!Harvest(u) \in Nat
    BY <1>3, <1>4
  <2>1. stakes' = [stakes EXCEPT ![u] = [amount |-> 0, rewardDebt |-> 0]]
    BY <1>8 DEF Staking!Exit
  <2>2. totalStaked' = totalStaked - stakes[u].amount + 0
    BY <1>2, <1>8, <2>0 DEF Staking!Exit, Staking!TotalWithout
  <2>3. pool' \in Nat /\ rounded' \in 0 .. MaxCalls
    BY <1>2, <1>8, <2>0 DEF Staking!Exit
  <2>4. Staking!UpdatePool /\ UNCHANGED <<block, rewardRate, rewardsEndAt, minStakeAmount, funded>>
    BY <1>8 DEF Staking!Exit
  <2>5. 0 \in 0 .. MaxStake /\ 0 \in Nat
    BY <1>2
  <2>6. QED
    BY <2>1, <2>2, <2>3, <2>4, <2>5, OneStakeMoves
<1>9. ASSUME NEW amount \in 0 .. MaxFunding, NEW duration \in 0 .. LastBlock,
             Staking!FundRewards(amount, duration)
      PROVE  StakingInv'
  <2> DEFINE reserve == Staking!ReserveAfterUpdate + amount
  <2>1. reserve \in Nat /\ duration \in Nat \ {0} /\ amount \in Nat
    BY <1>2, <1>3, <1>9 DEF Staking!FundRewards, StakingAssumption
  <2>2. reserve \div duration \in Nat /\ (reserve \div duration) * duration <= reserve
    BY <2>1, QuotientTimesDivisor
  <2>3. Staking!StakesAddUp' /\ stakes' \in [Staker -> Staking!StakeInfo] /\ totalStaked' \in Nat
    BY <1>9, NoStakeMoves DEF Staking!FundRewards
  <2>4. /\ block' = block /\ accRewardPerShare' = Staking!AccAfterUpdate /\ rewardReserve' = reserve
        /\ rewardRate' = reserve \div duration /\ rewardsEndAt' = block + duration
        /\ lastRewardTime' = block /\ pool' = pool + amount /\ funded' = funded + amount
        /\ funded + amount <= MaxFunding
        /\ minStakeAmount' = minStakeAmount /\ rounded' = rounded
    BY <1>9 DEF Staking!FundRewards
  <2> HIDE DEF reserve
  <2>5. Staking!TypeOK'
    BY <1>1, <1>2, <1>3, <2>1, <2>2, <2>3, <2>4 DEF Staking!TypeOK
  <2>6. rewardsEndAt' - lastRewardTime' = duration
    BY <1>2, <2>1, <2>4
  <2>7. Staking!StreamIsFunded'
    BY <2>2, <2>4, <2>6 DEF Staking!StreamIsFunded
  <2>8. QED
    BY <1>2, <2>3, <2>4, <2>5, <2>7 DEF StakingInv
<1>10. ASSUME NEW amount \in 0 .. MaxFunding, Staking!WithdrawUnusedRewards(amount)
       PROVE  StakingInv'
  <2> DEFINE reserve == Staking!ReserveAfterUpdate - amount
  <2>1. reserve \in Nat /\ amount \in Nat
    BY <1>2, <1>3, <1>10 DEF Staking!WithdrawUnusedRewards, Staking!Withdrawable
  <2>2. Staking!RateOver(reserve) \in Nat
        /\ (block < rewardsEndAt => Staking!RateOver(reserve) * (rewardsEndAt - block) <= reserve)
    <3>1. CASE block < rewardsEndAt
      <4>1. rewardsEndAt - block \in Nat \ {0}
        BY <1>2, <3>1
      <4>2. QED
        BY <2>1, <3>1, <4>1, QuotientTimesDivisor DEF Staking!RateOver
    <3>2. CASE ~(block < rewardsEndAt)
      BY <3>2 DEF Staking!RateOver
    <3>3. QED
      BY <3>1, <3>2
  <2>3. Staking!StakesAddUp' /\ stakes' \in [Staker -> Staking!StakeInfo] /\ totalStaked' \in Nat
    BY <1>10, NoStakeMoves DEF Staking!WithdrawUnusedRewards
  <2>4. /\ block' = block /\ accRewardPerShare' = Staking!AccAfterUpdate /\ rewardReserve' = reserve
        /\ rewardRate' = Staking!RateOver(reserve) /\ rewardsEndAt' = rewardsEndAt
        /\ lastRewardTime' = block /\ pool' = pool - amount /\ pool >= amount
        /\ funded' = funded /\ minStakeAmount' = minStakeAmount /\ rounded' = rounded
    BY <1>10 DEF Staking!WithdrawUnusedRewards, Staking!ClockAfterUpdate
  <2> HIDE DEF reserve
  <2>5. Staking!TypeOK'
    BY <1>1, <1>2, <1>3, <2>1, <2>2, <2>3, <2>4 DEF Staking!TypeOK
  <2>6. Staking!StreamIsFunded'
    BY <2>2, <2>4 DEF Staking!StreamIsFunded
  <2>7. QED
    BY <1>2, <2>3, <2>4, <2>5, <2>6 DEF StakingInv
<1>11. ASSUME NEW newValue \in 0 .. MaxStake, Staking!SetMinStakeAmount(newValue)
       PROVE  StakingInv'
  <2>1. Staking!StakesAddUp'
    BY <1>11, NoStakeMoves DEF Staking!SetMinStakeAmount
  <2>2. Staking!TypeOK'
    BY <1>1, <1>2, <1>11 DEF Staking!TypeOK, Staking!SetMinStakeAmount
  <2>3. QED
    BY <1>11, <2>1, <2>2 DEF Staking!SetMinStakeAmount, StakingInv, Staking!StreamIsFunded
<1>12. ASSUME Staking!Tick
       PROVE  StakingInv'
  <2>1. Staking!StakesAddUp'
    BY <1>12, NoStakeMoves DEF Staking!Tick
  <2>2. Staking!TypeOK' /\ lastRewardTime' <= block'
    BY <1>1, <1>2, <1>12 DEF Staking!TypeOK, Staking!Tick
  <2>3. QED
    BY <1>12, <2>1, <2>2 DEF Staking!Tick, StakingInv, Staking!StreamIsFunded
<1>13. ASSUME UNCHANGED Staking!stakingVars
       PROVE  StakingInv'
  BY <1>13 DEF Staking!stakingVars, StakingInv, Staking!TypeOK, Staking!StakesAddUp, Staking!StreamIsFunded, Staking!AmountOf
<1>14. QED
  BY <1>5, <1>6, <1>7, <1>8, <1>9, <1>10, <1>11, <1>12, <1>13 DEF Staking!Next

-----------------------------------------------------------------------------
(* The theorems. *)

\* The invariant holds in every reachable state.
THEOREM StakingInvariant == Staking!Spec => []StakingInv
<1>1. Staking!Init => StakingInv
  BY StakingInit, StakingAssumption
<1>2. StakingInv /\ [Staking!Next]_(Staking!stakingVars) => StakingInv'
  BY StakingStep, StakingAssumption
<1>3. QED
  BY <1>1, <1>2, PTL DEF Staking!Spec

\* No subtraction of the contract underflows: balances, the reserve and
\* totalStaked stay natural numbers, so no legal call reverts for arithmetic.
THEOREM StakingTypes == Staking!Spec => []Staking!TypeOK
<1>1. StakingInv => Staking!TypeOK
  BY DEF StakingInv
<1>2. QED
  BY <1>1, StakingInvariant, PTL

\* totalStaked is the sum of the stakes.
THEOREM StakingAddsUp == Staking!Spec => []Staking!StakesAddUp
<1>1. StakingInv => Staking!StakesAddUp
  BY DEF StakingInv
<1>2. QED
  BY <1>1, StakingInvariant, PTL

\* The stream never promises more than the reserve can pay.
THEOREM StakingStreamIsFunded == Staking!Spec => []Staking!StreamIsFunded
<1>1. StakingInv => Staking!StreamIsFunded
  BY DEF StakingInv
<1>2. QED
  BY <1>1, StakingInvariant, PTL

-----------------------------------------------------------------------------
(* The view, and what a call leaves the other stakers.                     *)

\* The accumulator of pendingRewards is the one a call would write.
LEMMA ViewAccumulator ==
    ASSUME StakingAssumption, Staking!TypeOK
    PROVE  Staking!PendingAccRewardPerShare = Staking!AccAfterUpdate
<1>1. totalStaked \in Nat /\ accRewardPerShare \in Nat /\ AccPrecision \in Nat \ {0}
  BY DEF Staking!TypeOK, StakingAssumption
<1>2. Staking!ViewEnd = Staking!StreamEnd
  BY DEF Staking!ViewEnd, Staking!StreamEnd
<1>3. CASE totalStaked = 0
  BY <1>3 DEF Staking!PendingAccRewardPerShare, Staking!AccAfterUpdate
<1>4. CASE totalStaked # 0 /\ Staking!StreamEnd <= lastRewardTime
  <2>1. Staking!Accrued = 0
    BY <1>4 DEF Staking!Accrued
  <2>2. Staking!Accrued * AccPrecision = 0
    BY <1>1, <2>1
  <2>3. 0 \in Nat /\ totalStaked \in Nat \ {0}
    BY <1>1, <1>4
  <2>4. 0 \div totalStaked = 0
    BY <2>3, Z3
  <2>5. QED
    BY <1>1, <1>2, <1>4, <2>2, <2>4 DEF Staking!PendingAccRewardPerShare, Staking!AccAfterUpdate
<1>5. CASE totalStaked # 0 /\ ~(Staking!StreamEnd <= lastRewardTime)
  <2>1. Staking!Accrued = Staking!Least((Staking!StreamEnd - lastRewardTime) * rewardRate, rewardReserve)
    BY <1>5 DEF Staking!Accrued
  <2>2. QED
    BY <1>2, <1>5, <2>1 DEF Staking!PendingAccRewardPerShare, Staking!AccAfterUpdate
<1>6. QED
  BY <1>3, <1>4, <1>5

\* A call that writes the accumulator and the clock leaves every other staker's
\* pending rewards as they were.
LEMMA UpdateIsNeutral ==
    ASSUME StakingAssumption, Staking!TypeOK, Staking!TypeOK',
           NEW u \in Staker, stakes'[u] = stakes[u], block' = block,
           accRewardPerShare' = Staking!AccAfterUpdate, lastRewardTime' = block
    PROVE  Staking!PendingRewards(u)' = Staking!PendingRewards(u)
<1>1. Staking!PendingAccRewardPerShare = Staking!AccAfterUpdate
  BY ViewAccumulator
<1>2. Staking!ViewEnd' <= block
  BY DEF Staking!ViewEnd, Staking!Least, Staking!TypeOK
<1>3. Staking!PendingAccRewardPerShare' = accRewardPerShare'
  BY <1>2 DEF Staking!PendingAccRewardPerShare
<1>4. Staking!PendingAccRewardPerShare' = Staking!PendingAccRewardPerShare
  BY <1>1, <1>3
<1>5. QED
  BY <1>4 DEF Staking!PendingRewards

\* What a call pays out is what pendingRewards showed a moment before.
THEOREM StakingViewAgrees == Staking!Spec => []Staking!ViewAgrees
<1>1. StakingInv => Staking!ViewAgrees
  <2>1. SUFFICES ASSUME StakingInv, NEW u \in Staker
                 PROVE  Staking!PendingRewards(u) = Staking!Harvest(u)
    BY DEF Staking!ViewAgrees
  <2>2. Staking!PendingAccRewardPerShare = Staking!AccAfterUpdate
    BY <2>1, StakingAssumption, ViewAccumulator DEF StakingInv
  <2>3. QED
    BY <2>2 DEF Staking!PendingRewards, Staking!Harvest, Staking!Earned
<1>2. QED
  BY <1>1, StakingInvariant, PTL

\* No call changes what a staker who did not call has earned by then.
THEOREM StakingOthersKeepTheirRewards == Staking!Spec => Staking!OthersKeepTheirRewards
<1>1. StakingInv /\ StakingInv' /\ [Staking!Next]_(Staking!stakingVars) => [Staking!RewardsKept]_(Staking!stakingVars)
  <2>1. SUFFICES ASSUME StakingInv, StakingInv', Staking!Next, block' = block,
                        NEW v \in Staker, stakes'[v] = stakes[v]
                 PROVE  Staking!PendingRewards(v)' = Staking!PendingRewards(v)
    BY DEF Staking!RewardsKept
  <2>2. Staking!TypeOK /\ Staking!TypeOK' /\ StakingAssumption /\ block \in Nat
    BY <2>1, StakingAssumption DEF StakingInv, Staking!TypeOK
  <2>3. CASE accRewardPerShare' = Staking!AccAfterUpdate /\ lastRewardTime' = block
    BY <2>1, <2>2, <2>3, UpdateIsNeutral
  <2>4. ASSUME NEW newValue \in 0 .. MaxStake, Staking!SetMinStakeAmount(newValue)
        PROVE  Staking!PendingRewards(v)' = Staking!PendingRewards(v)
    BY <2>4 DEF Staking!SetMinStakeAmount, Staking!PendingRewards, Staking!PendingAccRewardPerShare, Staking!ViewEnd
  <2>5. ~Staking!Tick
    BY <2>1, <2>2 DEF Staking!Tick
  <2>6. ASSUME NEW u \in Staker, NEW amount \in 0 .. MaxStake,
               Staking!Stake(u, amount) \/ Staking!Unstake(u, amount)
        PROVE  accRewardPerShare' = Staking!AccAfterUpdate /\ lastRewardTime' = block
    BY <2>6 DEF Staking!Stake, Staking!Unstake, Staking!UpdatePool, Staking!ClockAfterUpdate
  <2>7. ASSUME NEW u \in Staker, Staking!ClaimRewards(u) \/ Staking!Exit(u)
        PROVE  accRewardPerShare' = Staking!AccAfterUpdate /\ lastRewardTime' = block
    BY <2>7 DEF Staking!ClaimRewards, Staking!Exit, Staking!UpdatePool, Staking!ClockAfterUpdate
  <2>8. ASSUME NEW amount \in 0 .. MaxFunding, NEW duration \in 0 .. LastBlock,
               Staking!FundRewards(amount, duration)
        PROVE  accRewardPerShare' = Staking!AccAfterUpdate /\ lastRewardTime' = block
    BY <2>8 DEF Staking!FundRewards
  <2>9. ASSUME NEW amount \in 0 .. MaxFunding, Staking!WithdrawUnusedRewards(amount)
        PROVE  accRewardPerShare' = Staking!AccAfterUpdate /\ lastRewardTime' = block
    BY <2>9 DEF Staking!WithdrawUnusedRewards, Staking!ClockAfterUpdate
  <2>10. QED
    BY <2>1, <2>3, <2>4, <2>5, <2>6, <2>7, <2>8, <2>9 DEF Staking!Next
<1>2. QED
  BY <1>1, StakingInvariant, PTL DEF Staking!Spec, Staking!OthersKeepTheirRewards

-----------------------------------------------------------------------------
(* Solvency up to the dust of roundings.  Everything is scaled by AccPrecision: a stake of a has *)
(* earned a * acc - AccPrecision * rewardDebt, of which pendingRewards shows the whole units.    *)

DebtOf == [u \in Staker |-> stakes[u].rewardDebt]

\* No debt is more than the stake has earned, so that no earned reward is clipped at 0,
DebtsAreEarned == \A u \in Staker : AccPrecision * stakes[u].rewardDebt <= stakes[u].amount * accRewardPerShare

\* and what the contract holds, with a unit for every rounding, covers principal, reserve and
\* everything earned, fractions included.
BooksCover ==
    AccPrecision * (pool + rounded) + AccPrecision * Total(DebtOf, Staker)
      >= AccPrecision * (totalStaked + rewardReserve) + totalStaked * accRewardPerShare

DustInv == DebtsAreEarned /\ BooksCover

LEMMA SumType == \A x, y \in Nat : x + y \in Nat
OBVIOUS

LEMMA Distributes ==
    ASSUME NEW x \in Nat, NEW y \in Nat, NEW z \in Nat
    PROVE  /\ x * y \in Nat /\ x * z \in Nat /\ x * (y + z) = x * y + x * z /\ (y + z) * x = y * x + z * x
           /\ x * y = y * x
BY Z3

\* A larger factor makes no smaller product.
LEMMA ProductGrows ==
    ASSUME NEW x \in Nat, NEW y \in Nat, NEW z \in Nat, y <= z
    PROVE  x * y <= x * z
<1> DEFINE w == z - y
<1>1. w \in Nat /\ z = y + w
  OBVIOUS
<1> HIDE DEF w
<1>2. x * (y + w) = x * y + x * w /\ x * w \in Nat /\ x * y \in Nat
  BY <1>1, Distributes
<1>3. QED
  BY <1>1, <1>2

\* Truncated division loses less than one.
LEMMA QuotientLosesLess ==
    ASSUME NEW x \in Nat, NEW d \in Nat \ {0}
    PROVE  x < d * (x \div d) + d
<1>1. x \div d \in Int /\ x % d \in Int
  BY Z3
<1>2. x = d * (x \div d) + (x % d) /\ 0 <= x % d /\ x % d < d
  BY Z3
<1>3. QED
  BY <1>1, <1>2

\* What a stake has earned, up to less than a unit.
LEMMA EarnedRounds ==
    ASSUME StakingAssumption, Staking!TypeOK, NEW n \in Nat
    PROVE  /\ n * Staking!AccAfterUpdate \in Nat /\ Staking!Earned(n) \in Nat
           /\ AccPrecision * Staking!Earned(n) \in Nat
           /\ AccPrecision * Staking!Earned(n) <= n * Staking!AccAfterUpdate
           /\ n * Staking!AccAfterUpdate <= AccPrecision * Staking!Earned(n) + AccPrecision
<1> DEFINE x == n * Staking!AccAfterUpdate
<1>1. AccPrecision \in Nat \ {0} /\ AccPrecision \in Nat
  BY DEF StakingAssumption
<1>2. x \in Nat
  BY UpdateTypes, ProductType
<1>3. Staking!Earned(n) = x \div AccPrecision
  BY DEF Staking!Earned
<1> HIDE DEF x
<1>4. x \div AccPrecision \in Nat /\ (x \div AccPrecision) * AccPrecision <= x
  BY <1>1, <1>2, QuotientTimesDivisor
<1>5. x < AccPrecision * (x \div AccPrecision) + AccPrecision
  BY <1>1, <1>2, QuotientLosesLess
<1>6. /\ AccPrecision * (x \div AccPrecision) \in Nat
      /\ (x \div AccPrecision) * AccPrecision = AccPrecision * (x \div AccPrecision)
  BY <1>1, <1>4, Distributes
<1>7. QED
  BY <1>1, <1>2, <1>3, <1>4, <1>5, <1>6 DEF x

\* Advancing the pool moves rewards from the reserve to the stakers, never more than it takes.
LEMMA UpdateCovers ==
    ASSUME StakingAssumption, StakingInv
    PROVE  /\ accRewardPerShare <= Staking!AccAfterUpdate
           /\ AccPrecision * (totalStaked + Staking!ReserveAfterUpdate) + totalStaked * Staking!AccAfterUpdate
                <= AccPrecision * (totalStaked + rewardReserve) + totalStaked * accRewardPerShare
<1> DEFINE D == AccPrecision
           acc == accRewardPerShare
           gain == Staking!Accrued
           left == Staking!ReserveAfterUpdate
<1>1. /\ D \in Nat \ {0} /\ D \in Nat /\ acc \in Nat /\ totalStaked \in Nat /\ rewardReserve \in Nat
      /\ gain \in Nat /\ left \in Nat /\ rewardReserve = left + gain
  BY AccruedIsCovered DEF StakingAssumption, StakingInv, Staking!TypeOK, Staking!ReserveAfterUpdate
<1>2. CASE totalStaked = 0
  <2>1. Staking!AccAfterUpdate = acc
    BY <1>2 DEF Staking!AccAfterUpdate
  <2>2. totalStaked + left <= totalStaked + rewardReserve
    BY <1>1
  <2>3. D * (totalStaked + left) <= D * (totalStaked + rewardReserve)
    BY <1>1, <2>2, ProductGrows
  <2>4. /\ D * (totalStaked + left) \in Nat /\ D * (totalStaked + rewardReserve) \in Nat
        /\ totalStaked * acc \in Nat
    BY <1>1, ProductType
  <2>5. QED
    BY <1>1, <2>1, <2>3, <2>4
<1>3. CASE totalStaked # 0
  <2> DEFINE more == (gain * D) \div totalStaked
  <2>1. Staking!AccAfterUpdate = acc + more
    BY <1>3 DEF Staking!AccAfterUpdate
  <2>2. gain * D \in Nat /\ totalStaked \in Nat \ {0}
    BY <1>1, <1>3, ProductType
  <2>3. more \in Nat /\ more * totalStaked <= gain * D
    BY <2>2, QuotientTimesDivisor
  <2> HIDE DEF more
  <2>4. totalStaked * (acc + more) = totalStaked * acc + totalStaked * more
        /\ totalStaked * acc \in Nat /\ totalStaked * more \in Nat /\ more * totalStaked = totalStaked * more
    BY <1>1, <2>3, Distributes
  <2>5. /\ totalStaked + left \in Nat /\ totalStaked + rewardReserve = (totalStaked + left) + gain
    BY <1>1
  <2>6. /\ D * ((totalStaked + left) + gain) = D * (totalStaked + left) + D * gain
        /\ D * (totalStaked + left) \in Nat /\ D * gain \in Nat /\ gain * D = D * gain
    BY <1>1, <2>5, Distributes
  <2> HIDE DEF D, acc, gain, left
  <2>7. D * (totalStaked + left) + totalStaked * (acc + more)
          <= D * (totalStaked + rewardReserve) + totalStaked * acc
    BY <2>3, <2>4, <2>5, <2>6
  <2>8. acc <= acc + more
    BY <1>1, <2>3
  <2>9. QED
    BY <2>1, <2>7, <2>8 DEF D, acc, left
<1>4. QED
  BY <1>2, <1>3

\* A harvest pays at most what was earned beyond the debt, and the debt was earned.
LEMMA HarvestIsEarned ==
    ASSUME StakingAssumption, StakingInv, DebtsAreEarned, NEW u \in Staker
    PROVE  /\ stakes[u].amount \in Nat /\ stakes[u].rewardDebt \in Nat /\ Staking!Harvest(u) \in Nat
           /\ AccPrecision * stakes[u].rewardDebt <= stakes[u].amount * Staking!AccAfterUpdate
           /\ AccPrecision * (stakes[u].rewardDebt + Staking!Harvest(u))
                <= stakes[u].amount * Staking!AccAfterUpdate
<1> DEFINE a == stakes[u].amount
           d == stakes[u].rewardDebt
           acc == Staking!AccAfterUpdate
<1>1. /\ AccPrecision \in Nat /\ accRewardPerShare \in Nat /\ acc \in Nat /\ Staking!Harvest(u) \in Nat
      /\ a \in Nat /\ d \in Nat
  BY UpdateTypes DEF StakingInv, StakingAssumption, Staking!TypeOK, Staking!StakeInfo
<1>2. AccPrecision * d <= a * accRewardPerShare
  BY DEF DebtsAreEarned
<1>3. a * accRewardPerShare <= a * acc
  BY <1>1, UpdateCovers, ProductGrows
<1>4. AccPrecision * d \in Nat /\ a * accRewardPerShare \in Nat /\ a * acc \in Nat
  BY <1>1, ProductType
<1>5. AccPrecision * d <= a * acc
  BY <1>2, <1>3, <1>4
<1>6. CASE Staking!Harvest(u) = 0
  <2>1. d + Staking!Harvest(u) = d
    BY <1>1, <1>6
  <2>2. QED
    BY <1>1, <1>5, <2>1
<1>7. CASE Staking!Harvest(u) # 0
  <2>1. Staking!Harvest(u) = Staking!Earned(a) - d
    BY <1>7 DEF Staking!Harvest
  <2>2. Staking!Earned(a) \in Nat /\ AccPrecision * Staking!Earned(a) <= a * acc
    BY <1>1, EarnedRounds DEF StakingInv
  <2>3. d + Staking!Harvest(u) = Staking!Earned(a)
    BY <1>1, <2>1, <2>2
  <2>4. QED
    BY <1>1, <1>5, <2>2, <2>3
<1>8. QED
  BY <1>6, <1>7

\* Every debt, before a call and after it, is at most this much.
MostDebt == MaxStake * Staking!AccAfterUpdate

LEMMA DebtIsBounded ==
    ASSUME StakingAssumption, StakingInv, NEW a \in 0 .. MaxStake, NEW d \in Nat,
           AccPrecision * d <= a * Staking!AccAfterUpdate
    PROVE  MostDebt \in Nat /\ d \in 0 .. MostDebt
<1> DEFINE P == Staking!AccAfterUpdate
<1>1. P \in Nat /\ MaxStake \in Nat /\ a \in Nat /\ AccPrecision \in Nat \ {0} /\ AccPrecision \in Nat
  BY UpdateTypes DEF StakingInv, StakingAssumption
<1>2. 1 <= AccPrecision /\ a <= MaxStake /\ 1 \in Nat
  BY <1>1
<1>3. d * 1 <= d * AccPrecision
  BY <1>1, <1>2, ProductGrows
<1>4. P * a <= P * MaxStake
  BY <1>1, <1>2, ProductGrows
<1>5. /\ d * AccPrecision = AccPrecision * d /\ P * a = a * P /\ P * MaxStake = MaxStake * P
      /\ AccPrecision * d \in Nat /\ a * P \in Nat /\ MaxStake * P \in Nat
  BY <1>1, Distributes
<1>6. d * 1 = d
  OBVIOUS
<1>7. d <= MaxStake * P
  BY <1>3, <1>4, <1>5, <1>6
<1>8. QED
  BY <1>5, <1>7 DEF MostDebt

LEMMA DebtsTyped ==
    ASSUME StakingAssumption, StakingInv, DebtsAreEarned
    PROVE  DebtOf \in [Staker -> 0 .. MostDebt] /\ MostDebt \in Nat /\ Total(DebtOf, Staker) \in Nat
<1>1. ASSUME NEW u \in Staker
      PROVE  stakes[u].rewardDebt \in 0 .. MostDebt
  <2>1. stakes[u].amount \in 0 .. MaxStake /\ stakes[u].rewardDebt \in Nat
    BY DEF StakingInv, Staking!TypeOK, Staking!StakeInfo
  <2>2. QED
    BY <2>1, HarvestIsEarned, DebtIsBounded
<1>2. MostDebt \in Nat
  BY UpdateTypes, ProductType DEF MostDebt, StakingInv, StakingAssumption
<1>3. DebtOf \in [Staker -> 0 .. MostDebt]
  BY <1>1 DEF DebtOf
<1>4. QED
  BY <1>2, <1>3, TotalType DEF StakingAssumption

\* A call that advances the pool and gives one account another stake and debt, and the account what
\* it is owed: the books cover it if rounding the debt down is made up for.
LEMMA CallCovers ==
    ASSUME StakingAssumption, StakingInv, DustInv, NEW u \in Staker,
           NEW a \in 0 .. MaxStake, NEW d \in Nat,
           Staking!UpdatePool,
           stakes' = [stakes EXCEPT ![u] = [amount |-> a, rewardDebt |-> d]],
           totalStaked' \in Nat, totalStaked' = totalStaked - stakes[u].amount + a,
           pool' \in Nat, rounded' \in Nat,
           pool' = pool - Staking!Harvest(u) - stakes[u].amount + a,
           AccPrecision * d <= a * Staking!AccAfterUpdate,
           AccPrecision * rounded' + AccPrecision * d + stakes[u].amount * Staking!AccAfterUpdate
             >= AccPrecision * rounded + AccPrecision * (stakes[u].rewardDebt + Staking!Harvest(u))
                  + a * Staking!AccAfterUpdate
    PROVE  DustInv'
<1> DEFINE D == AccPrecision
           P == Staking!AccAfterUpdate
           R == Staking!ReserveAfterUpdate
           T == totalStaked
           b == stakes[u].amount
           e == stakes[u].rewardDebt
           H == Staking!Harvest(u)
           S == Total(DebtOf, Staker)
           U == Total(DebtOf', Staker)
<1>1. /\ D \in Nat /\ P \in Nat /\ R \in Nat /\ T \in Nat /\ b \in Nat /\ e \in Nat /\ H \in Nat
      /\ pool \in Nat /\ rounded \in Nat /\ a \in Nat /\ rewardReserve \in Nat /\ accRewardPerShare \in Nat
  BY UpdateTypes, AccruedIsCovered, HarvestIsEarned
     DEF DustInv, StakingInv, StakingAssumption, Staking!TypeOK
<1>2. accRewardPerShare' = P /\ rewardReserve' = R
  BY DEF Staking!UpdatePool
<1>3. stakes \in [Staker -> Staking!StakeInfo]
  BY DEF StakingInv, Staking!TypeOK
<1>4. stakes'[u].amount = a /\ stakes'[u].rewardDebt = d /\ \A v \in Staker : v # u => stakes'[v] = stakes[v]
  BY <1>3 DEF Staking!StakeInfo
<1>5. DebtsAreEarned'
  <2>1. SUFFICES ASSUME NEW v \in Staker
                 PROVE  D * stakes'[v].rewardDebt <= stakes'[v].amount * accRewardPerShare'
    BY DEF DebtsAreEarned
  <2>2. CASE v = u
    BY <1>2, <1>4, <2>2
  <2>3. CASE v # u
    <3>1. D * stakes[v].rewardDebt <= stakes[v].amount * P
      BY HarvestIsEarned DEF DustInv
    <3>2. QED
      BY <1>2, <1>4, <2>3, <3>1
  <2>4. QED
    BY <2>2, <2>3
<1>6. U = S - e + d /\ S \in Nat /\ U \in Nat
  <2> DEFINE new == [v \in Staker |-> stakes'[v].rewardDebt]
  <2>1. DebtOf \in [Staker -> 0 .. MostDebt] /\ MostDebt \in Nat /\ S \in Nat
    BY DebtsTyped DEF DustInv
  <2>2. d \in 0 .. MostDebt
    BY DebtIsBounded
  <2>3. new = DebtOf' /\ new[u] = d /\ DebtOf[u] = e /\ \A v \in Staker : v # u => new[v] = DebtOf[v]
    BY <1>4 DEF DebtOf
  <2>4. new \in [Staker -> 0 .. MostDebt]
    <3>1. \A v \in Staker : new[v] \in 0 .. MostDebt
      BY <2>1, <2>2, <2>3
    <3>2. QED
      BY <3>1
  <2> HIDE DEF new
  <2>5. Total(new, Staker) = Total(DebtOf, Staker) - DebtOf[u] + new[u]
    BY <2>1, <2>3, <2>4, TotalChange DEF StakingAssumption
  <2>6. Total(new, Staker) \in Nat
    BY <2>1, <2>4, TotalType DEF StakingAssumption
  <2>7. QED
    BY <2>1, <2>3, <2>5, <2>6
<1>7. D * (T + R) + T * P <= D * (T + rewardReserve) + T * accRewardPerShare
  BY UpdateCovers
<1>8. D * (pool + rounded) + D * S >= D * (T + rewardReserve) + T * accRewardPerShare
  BY DEF DustInv, BooksCover
<1> HIDE DEF D, P, R, T, b, e, H, S, U
<1>9. /\ U + e = S + d /\ totalStaked' + b = T + a /\ pool' + H + b = pool + a
  BY <1>1, <1>6 DEF T, b, e, H
<1>10. D * U + D * e = D * S + D * d /\ D * U \in Nat /\ D * S \in Nat /\ D * e \in Nat /\ D * d \in Nat
  BY <1>1, <1>6, <1>9, Distributes
<1>11. /\ D * (totalStaked' + R) = D * totalStaked' + D * R
       /\ D * (T + R) = D * T + D * R
       /\ D * totalStaked' + D * b = D * T + D * a
       /\ D * totalStaked' \in Nat /\ D * T \in Nat /\ D * R \in Nat /\ D * a \in Nat /\ D * b \in Nat
  <2>1. D * (totalStaked' + R) = D * totalStaked' + D * R /\ D * (T + R) = D * T + D * R
    BY <1>1, Distributes
  <2>2. D * (totalStaked' + b) = D * totalStaked' + D * b /\ D * (T + a) = D * T + D * a
    BY <1>1, Distributes
  <2>3. D * totalStaked' \in Nat /\ D * T \in Nat /\ D * R \in Nat /\ D * a \in Nat /\ D * b \in Nat
    BY <1>1, ProductType
  <2>4. QED
    BY <1>9, <2>1, <2>2, <2>3
<1>12. totalStaked' * P + b * P = T * P + a * P /\ totalStaked' * P \in Nat /\ b * P \in Nat /\ T * P \in Nat
       /\ a * P \in Nat
  <2>1. /\ (totalStaked' + b) * P = totalStaked' * P + b * P /\ (T + a) * P = T * P + a * P
        /\ totalStaked' * P \in Nat /\ b * P \in Nat /\ T * P \in Nat /\ a * P \in Nat
    BY <1>1, Distributes
  <2>2. QED
    BY <1>9, <2>1
<1>13. /\ D * (pool' + rounded') = D * pool' + D * rounded'
       /\ D * (pool + rounded) = D * pool + D * rounded
       /\ D * (e + H) = D * e + D * H
       /\ D * pool' \in Nat /\ D * rounded' \in Nat /\ D * pool \in Nat /\ D * rounded \in Nat /\ D * H \in Nat
  <2>1. D * (pool' + rounded') = D * pool' + D * rounded' /\ D * (pool + rounded) = D * pool + D * rounded
    BY <1>1, Distributes
  <2>2. D * (e + H) = D * e + D * H
    BY <1>1, Distributes
  <2>3. D * pool' \in Nat /\ D * rounded' \in Nat /\ D * pool \in Nat /\ D * rounded \in Nat /\ D * H \in Nat
    BY <1>1, ProductType
  <2>4. QED
    BY <2>1, <2>2, <2>3
<1>14. D * pool' + D * H + D * b = D * pool + D * a
  <2>1. D * (pool' + H) = D * pool' + D * H /\ D * ((pool' + H) + b) = D * (pool' + H) + D * b
        /\ D * (pool + a) = D * pool + D * a
    BY <1>1, Distributes
  <2>2. QED
    BY <1>9, <2>1
<1>15. D * rounded' + D * d + b * P >= D * rounded + D * (e + H) + a * P
  BY DEF D, b, P, e, H
<1>16. D * (T + rewardReserve) + T * accRewardPerShare \in Nat
  <2>1. D * (T + rewardReserve) \in Nat /\ T * accRewardPerShare \in Nat
    BY <1>1, ProductType
  <2>2. QED
    BY <2>1
<1>17. D * (pool' + rounded') + D * U >= D * (totalStaked' + R) + totalStaked' * P
  BY <1>7, <1>8, <1>10, <1>11, <1>12, <1>13, <1>14, <1>15, <1>16
<1>18. QED
  BY <1>2, <1>5, <1>17 DEF DustInv, BooksCover, D, R, P, U

\* A step that moves no stake: the contract's balance moves as the reserve does.
LEMMA PoolCovers ==
    ASSUME StakingAssumption, StakingInv, DustInv,
           stakes' = stakes, totalStaked' = totalStaked, rounded' = rounded,
           accRewardPerShare' = Staking!AccAfterUpdate, pool' \in Nat, rewardReserve' \in Nat,
           pool' + Staking!ReserveAfterUpdate = pool + rewardReserve'
    PROVE  DustInv'
<1> DEFINE D == AccPrecision
           P == Staking!AccAfterUpdate
           R == Staking!ReserveAfterUpdate
           T == totalStaked
           S == Total(DebtOf, Staker)
<1>1. /\ D \in Nat /\ P \in Nat /\ R \in Nat /\ T \in Nat /\ S \in Nat /\ pool \in Nat /\ rounded \in Nat
      /\ rewardReserve \in Nat /\ accRewardPerShare \in Nat
  BY UpdateTypes, AccruedIsCovered, DebtsTyped DEF DustInv, StakingInv, StakingAssumption, Staking!TypeOK
<1>2. DebtsAreEarned'
  BY HarvestIsEarned DEF DebtsAreEarned, DustInv
<1>3. D * (T + R) + T * P <= D * (T + rewardReserve) + T * accRewardPerShare
  BY UpdateCovers
<1>4. D * (pool + rounded) + D * S >= D * (T + rewardReserve) + T * accRewardPerShare
  BY DEF DustInv, BooksCover
<1>5. DebtOf' = DebtOf
  BY DEF DebtOf
<1> HIDE DEF D, P, R, T, S
<1>6. pool' + R = pool + rewardReserve'
  BY DEF R
<1>7. D * ((pool' + rounded) + R) = D * ((pool + rounded) + rewardReserve')
  <2>1. (pool' + rounded) + R = (pool + rounded) + rewardReserve'
    BY <1>1, <1>6
  <2>2. QED
    BY <2>1
<1>8. D * ((pool' + rounded) + R) = D * (pool' + rounded) + D * R
      /\ D * ((pool + rounded) + rewardReserve') = D * (pool + rounded) + D * rewardReserve'
  <2>1. pool' + rounded \in Nat /\ pool + rounded \in Nat
    BY <1>1, SumType
  <2>2. QED
    BY <1>1, <2>1, Distributes
<1>9. D * (T + R) = D * T + D * R /\ D * (T + rewardReserve') = D * T + D * rewardReserve'
  BY <1>1, Distributes
<1>10. /\ D * (pool' + rounded) \in Nat /\ D * (pool + rounded) \in Nat /\ D * S \in Nat
       /\ D * T \in Nat /\ D * R \in Nat /\ D * rewardReserve' \in Nat /\ T * P \in Nat
       /\ D * (T + rewardReserve) \in Nat /\ T * accRewardPerShare \in Nat
  <2>1. pool' + rounded \in Nat /\ pool + rounded \in Nat /\ T + rewardReserve \in Nat
    BY <1>1, SumType
  <2>2. QED
    BY <1>1, <2>1, ProductType
<1>11. D * (pool' + rounded) + D * S >= D * (T + rewardReserve') + T * P
  BY <1>3, <1>4, <1>7, <1>8, <1>9, <1>10
<1>12. QED
  BY <1>2, <1>5, <1>11 DEF DustInv, BooksCover, D, P, T, S

LEMMA DustInit ==
    ASSUME StakingAssumption, Staking!Init
    PROVE  DustInv
<1>1. \A u \in Staker : stakes[u].rewardDebt = 0 /\ stakes[u].amount = 0
  BY DEF Staking!Init
<1>2. Total(DebtOf, Staker) = 0
  BY <1>1, TotalOfZeros DEF DebtOf
<1>3. AccPrecision * 0 = 0 /\ 0 * 0 = 0
  BY Z3 DEF StakingAssumption
<1>4. DebtsAreEarned
  BY <1>1, <1>3 DEF DebtsAreEarned, Staking!Init
<1>5. pool + rounded = 0 /\ totalStaked + rewardReserve = 0 /\ totalStaked = 0 /\ accRewardPerShare = 0
  BY DEF Staking!Init
<1>6. QED
  BY <1>2, <1>3, <1>4, <1>5 DEF DustInv, BooksCover

\* stake() and unstake() round the new debt down, by less than a unit, and count it.
LEMMA RoundingIsCounted ==
    ASSUME StakingAssumption, StakingInv, DustInv, NEW u \in Staker, NEW a \in 0 .. MaxStake,
           rounded' = rounded + 1
    PROVE  /\ Staking!Earned(a) \in Nat
           /\ AccPrecision * Staking!Earned(a) <= a * Staking!AccAfterUpdate
           /\ AccPrecision * rounded' + AccPrecision * Staking!Earned(a)
                + stakes[u].amount * Staking!AccAfterUpdate
                >= AccPrecision * rounded + AccPrecision * (stakes[u].rewardDebt + Staking!Harvest(u))
                     + a * Staking!AccAfterUpdate
<1> DEFINE D == AccPrecision
           P == Staking!AccAfterUpdate
           E == Staking!Earned(a)
           H == stakes[u].rewardDebt + Staking!Harvest(u)
           b == stakes[u].amount
<1>1. /\ D \in Nat /\ P \in Nat /\ H \in Nat /\ b \in Nat /\ rounded \in Nat /\ a \in Nat /\ MaxStake \in Nat
  BY UpdateTypes, HarvestIsEarned DEF DustInv, StakingInv, StakingAssumption, Staking!TypeOK
<1>2. E \in Nat /\ D * E \in Nat /\ a * P \in Nat /\ D * E <= a * P /\ a * P <= D * E + D
  BY <1>1, EarnedRounds DEF StakingInv
<1>3. D * H <= b * P
  BY HarvestIsEarned DEF DustInv
<1> HIDE DEF D, P, E, H, b
<1>4. D * (rounded + 1) = D * rounded + D * 1 /\ D * 1 = D /\ D * rounded \in Nat
  BY <1>1, Distributes
<1>5. D * H \in Nat /\ b * P \in Nat
  BY <1>1, ProductType
<1>6. D * rounded' = D * rounded + D
  BY <1>4
<1>7. D * rounded' + D * E + b * P >= D * rounded + D * H + a * P
  BY <1>1, <1>2, <1>3, <1>4, <1>5, <1>6
<1>8. QED
  BY <1>2, <1>7 DEF D, P, E, H, b

LEMMA DustStep ==
    ASSUME StakingAssumption, StakingInv, StakingInv', DustInv, [Staking!Next]_(Staking!stakingVars)
    PROVE  DustInv'
<1>1. /\ totalStaked \in Nat /\ pool \in Nat /\ rounded \in Nat /\ rewardReserve \in Nat /\ MaxStake \in Nat
      /\ totalStaked' \in Nat /\ pool' \in Nat /\ rounded' \in Nat /\ rewardReserve' \in Nat
      /\ AccPrecision \in Nat /\ Staking!AccAfterUpdate \in Nat /\ Staking!ReserveAfterUpdate \in Nat
  BY UpdateTypes, AccruedIsCovered DEF StakingInv, Staking!TypeOK, StakingAssumption
<1>2. \A u \in Staker :
        /\ stakes[u].amount \in 0 .. MaxStake /\ stakes[u].amount \in Nat /\ stakes[u].rewardDebt \in Nat
        /\ Staking!Harvest(u) \in Nat
        /\ AccPrecision * (stakes[u].rewardDebt + Staking!Harvest(u))
             <= stakes[u].amount * Staking!AccAfterUpdate
  BY HarvestIsEarned DEF DustInv, StakingInv, Staking!TypeOK, Staking!StakeInfo
<1>3. ASSUME NEW u \in Staker, NEW x \in 0 .. MaxStake, Staking!Stake(u, x)
      PROVE  DustInv'
  <2> DEFINE a == stakes[u].amount + x
  <2>1. x \in Nat /\ a \in 0 .. MaxStake
    BY <1>1, <1>2, <1>3 DEF Staking!Stake
  <2>2. /\ Staking!UpdatePool /\ rounded' = rounded + 1
        /\ stakes' = [stakes EXCEPT ![u] = [amount |-> a, rewardDebt |-> Staking!Earned(a)]]
        /\ totalStaked' = totalStaked + x /\ pool' = pool - Staking!Harvest(u) + x
    BY <1>3 DEF Staking!Stake
  <2>3. /\ totalStaked' = totalStaked - stakes[u].amount + a
        /\ pool' = pool - Staking!Harvest(u) - stakes[u].amount + a
    BY <1>1, <1>2, <2>1, <2>2
  <2> HIDE DEF a
  <2>4. QED
    BY <1>1, <2>1, <2>2, <2>3, RoundingIsCounted, CallCovers
<1>4. ASSUME NEW u \in Staker, NEW x \in 0 .. MaxStake, Staking!Unstake(u, x)
      PROVE  DustInv'
  <2> DEFINE a == stakes[u].amount - x
  <2>1. x \in Nat /\ a \in 0 .. MaxStake
    BY <1>1, <1>2, <1>4 DEF Staking!Unstake
  <2>2. /\ Staking!UpdatePool /\ rounded' = rounded + 1
        /\ stakes' = [stakes EXCEPT ![u] = [amount |-> a, rewardDebt |-> Staking!Earned(a)]]
        /\ totalStaked' = totalStaked - x /\ pool' = pool - Staking!Harvest(u) - x
    BY <1>4 DEF Staking!Unstake, Staking!TotalWithout
  <2>3. /\ totalStaked' = totalStaked - stakes[u].amount + a
        /\ pool' = pool - Staking!Harvest(u) - stakes[u].amount + a
    BY <1>1, <1>2, <2>1, <2>2
  <2> HIDE DEF a
  <2>4. QED
    BY <1>1, <2>1, <2>2, <2>3, RoundingIsCounted, CallCovers
<1>5. ASSUME NEW u \in Staker, Staking!ClaimRewards(u)
      PROVE  DustInv'
  <2> DEFINE a == stakes[u].amount
             d == stakes[u].rewardDebt + Staking!Harvest(u)
  <2>1. a \in 0 .. MaxStake /\ d \in Nat
    BY <1>2
  <2>2. Staking!UpdatePool /\ rounded' = rounded /\ totalStaked' = totalStaked /\ pool' = pool - Staking!Harvest(u)
    BY <1>5 DEF Staking!ClaimRewards
  <2>3. stakes' = [stakes EXCEPT ![u] = [amount |-> a, rewardDebt |-> d]]
    <3>1. stakes' = [stakes EXCEPT ![u] = [stakes[u] EXCEPT !.rewardDebt = d]]
      BY <1>5 DEF Staking!ClaimRewards, Staking!DebtAfterHarvest
    <3>2. stakes[u] \in [amount : 0 .. MaxStake, rewardDebt : Nat]
      BY DEF StakingInv, Staking!TypeOK, Staking!StakeInfo
    <3> HIDE DEF d
    <3>3. [stakes[u] EXCEPT !.rewardDebt = d] = [amount |-> a, rewardDebt |-> d]
      BY <3>2
    <3>4. QED
      BY <3>1, <3>3
  <2>4. /\ totalStaked' = totalStaked - stakes[u].amount + a
        /\ pool' = pool - Staking!Harvest(u) - stakes[u].amount + a
    BY <1>1, <1>2, <2>2
  <2>5. AccPrecision * d <= a * Staking!AccAfterUpdate
    BY <1>2
  <2>6. AccPrecision * rounded' + AccPrecision * d + stakes[u].amount * Staking!AccAfterUpdate
          >= AccPrecision * rounded + AccPrecision * (stakes[u].rewardDebt + Staking!Harvest(u))
               + a * Staking!AccAfterUpdate
    <3> DEFINE n == AccPrecision * rounded
               k == AccPrecision * d
               m == a * Staking!AccAfterUpdate
    <3>1. n \in Nat /\ k \in Nat /\ m \in Nat
      BY <1>1, <1>2, <2>1, ProductType
    <3>2. AccPrecision * rounded' = n
      BY <2>2
    <3> HIDE DEF n, k, m
    <3>3. n + k + m >= n + k + m
      BY <3>1
    <3>4. QED
      BY <3>2, <3>3 DEF n, k, m
  <2> HIDE DEF a, d
  <2>7. QED
    BY <1>1, <2>1, <2>2, <2>3, <2>4, <2>5, <2>6, CallCovers
<1>6. ASSUME NEW u \in Staker, Staking!Exit(u)
      PROVE  DustInv'
  <2>1. /\ Staking!UpdatePool /\ rounded' = rounded
        /\ stakes' = [stakes EXCEPT ![u] = [amount |-> 0, rewardDebt |-> 0]]
        /\ totalStaked' = totalStaked - stakes[u].amount
        /\ pool' = pool - Staking!Harvest(u) - stakes[u].amount
    BY <1>6 DEF Staking!Exit, Staking!TotalWithout
  <2>2. /\ totalStaked' = totalStaked - stakes[u].amount + 0
        /\ pool' = pool - Staking!Harvest(u) - stakes[u].amount + 0
    BY <1>1, <1>2, <2>1
  <2>3. AccPrecision * 0 = 0 /\ 0 * Staking!AccAfterUpdate = 0 /\ 0 \in Nat /\ 0 \in 0 .. MaxStake
    BY <1>1, Z3
  <2>4. AccPrecision * rounded' + AccPrecision * 0 + stakes[u].amount * Staking!AccAfterUpdate
          >= AccPrecision * rounded + AccPrecision * (stakes[u].rewardDebt + Staking!Harvest(u))
               + 0 * Staking!AccAfterUpdate
    <3> DEFINE n == AccPrecision * rounded
               k == AccPrecision * (stakes[u].rewardDebt + Staking!Harvest(u))
               m == stakes[u].amount * Staking!AccAfterUpdate
    <3>1. n \in Nat /\ k \in Nat /\ m \in Nat /\ k <= m
      BY <1>1, <1>2, ProductType
    <3>2. AccPrecision * rounded' = n
      BY <2>1
    <3> HIDE DEF n, k, m
    <3>3. n + 0 + m >= n + k + 0
      BY <3>1
    <3>4. QED
      BY <2>3, <3>2, <3>3 DEF n, k, m
  <2>5. AccPrecision * 0 <= 0 * Staking!AccAfterUpdate
    BY <2>3
  <2>6. QED
    BY <1>1, <2>1, <2>2, <2>3, <2>4, <2>5, CallCovers
<1>7. ASSUME NEW x \in 0 .. MaxFunding, NEW duration \in 0 .. LastBlock, Staking!FundRewards(x, duration)
      PROVE  DustInv'
  <2>1. /\ accRewardPerShare' = Staking!AccAfterUpdate /\ rewardReserve' = Staking!ReserveAfterUpdate + x
        /\ pool' = pool + x /\ stakes' = stakes /\ totalStaked' = totalStaked /\ rounded' = rounded /\ x \in Nat
    BY <1>7 DEF Staking!FundRewards, StakingAssumption
  <2>2. pool' + Staking!ReserveAfterUpdate = pool + rewardReserve'
    BY <1>1, <2>1
  <2>3. QED
    BY <1>1, <2>1, <2>2, PoolCovers
<1>8. ASSUME NEW x \in 0 .. MaxFunding, Staking!WithdrawUnusedRewards(x)
      PROVE  DustInv'
  <2>1. /\ accRewardPerShare' = Staking!AccAfterUpdate /\ rewardReserve' = Staking!ReserveAfterUpdate - x
        /\ pool' = pool - x /\ stakes' = stakes /\ totalStaked' = totalStaked /\ rounded' = rounded /\ x \in Nat
    BY <1>8 DEF Staking!WithdrawUnusedRewards, StakingAssumption
  <2>2. pool' + Staking!ReserveAfterUpdate = pool + rewardReserve'
    BY <1>1, <2>1
  <2>3. QED
    BY <1>1, <2>1, <2>2, PoolCovers
<1>9. CASE /\ stakes' = stakes /\ totalStaked' = totalStaked /\ rewardReserve' = rewardReserve
            /\ accRewardPerShare' = accRewardPerShare /\ pool' = pool /\ rounded' = rounded
  <2>1. DebtOf' = DebtOf
    BY <1>9 DEF DebtOf
  <2>2. QED
    BY <1>9, <2>1 DEF DustInv, DebtsAreEarned, BooksCover
<1>10. ASSUME NEW newValue \in 0 .. MaxStake, Staking!SetMinStakeAmount(newValue)
       PROVE  DustInv'
  BY <1>9, <1>10 DEF Staking!SetMinStakeAmount
<1>11. CASE Staking!Tick \/ UNCHANGED Staking!stakingVars
  BY <1>9, <1>11 DEF Staking!Tick, Staking!stakingVars
<1>12. QED
  BY <1>3, <1>4, <1>5, <1>6, <1>7, <1>8, <1>10, <1>11 DEF Staking!Next

LEMMA DustHolds == Staking!Spec => [](StakingInv /\ DustInv)
<1>1. Staking!Init => StakingInv /\ DustInv
  BY StakingInit, DustInit, StakingAssumption
<1>2. StakingInv /\ DustInv /\ [Staking!Next]_(Staking!stakingVars) => (StakingInv /\ DustInv)'
  BY StakingStep, DustStep, StakingAssumption
<1>3. QED
  BY <1>1, <1>2, PTL DEF Staking!Spec

\* Whatever the order of stakes, claims, exits, fundings and withdrawals, the contract holds the
\* principal, the reserve and what every staker is shown as pending, up to a unit for each call that
\* rounded a debt down.
THEOREM StakingIsBacked == Staking!Spec => []Staking!BackedUpToDust
<1>1. StakingInv /\ DustInv => Staking!BackedUpToDust
  <2> SUFFICES ASSUME StakingInv, DustInv
               PROVE  Staking!BackedUpToDust
    OBVIOUS
  <2> DEFINE D == AccPrecision
             P == Staking!AccAfterUpdate
             R == Staking!ReserveAfterUpdate
             T == totalStaked
             S == Total(DebtOf, Staker)
             W == Total(Staking!PendingOf, Staker)
  <2>1. StakingAssumption /\ DebtsAreEarned
    BY StakingAssumption DEF DustInv
  <2>2. /\ D \in Nat \ {0} /\ D \in Nat /\ P \in Nat /\ R \in Nat /\ T \in Nat /\ pool \in Nat /\ rounded \in Nat
        /\ rewardReserve \in Nat /\ accRewardPerShare \in Nat /\ S \in Nat
        /\ IsFiniteSet(Staker) /\ MaxStake \in Nat
    BY <2>1, UpdateTypes, AccruedIsCovered, DebtsTyped DEF StakingInv, StakingAssumption, Staking!TypeOK
  <2>3. \A u \in Staker : Staking!PendingOf[u] = Staking!Harvest(u)
    <3>1. Staking!PendingAccRewardPerShare = P
      BY <2>1, ViewAccumulator DEF StakingInv
    <3>2. QED
      BY <3>1 DEF Staking!PendingOf, Staking!PendingRewards, Staking!Harvest, Staking!Earned
  <2> DEFINE M == MostDebt + MaxStake
  <2>4. /\ MostDebt \in Nat /\ M \in Nat /\ DebtOf \in [Staker -> 0 .. M]
        /\ Staking!AmountOf \in [Staker -> 0 .. M]
    <3>1. MostDebt \in Nat /\ DebtOf \in [Staker -> 0 .. MostDebt]
      BY <2>1, DebtsTyped
    <3>2. Staking!AmountOf \in [Staker -> 0 .. MaxStake]
      BY DEF Staking!AmountOf, StakingInv, Staking!TypeOK, Staking!StakeInfo
    <3>3. M \in Nat /\ 0 .. MostDebt \subseteq 0 .. M /\ 0 .. MaxStake \subseteq 0 .. M
      BY <2>2, <3>1
    <3>4. QED
      BY <3>1, <3>2, <3>3
  <2>5. \A u \in Staker :
          /\ Staking!PendingOf[u] \in 0 .. M
          /\ D * Staking!PendingOf[u] + D * DebtOf[u] <= P * Staking!AmountOf[u]
    <3>1. TAKE u \in Staker
    <3> DEFINE H == Staking!Harvest(u)
               e == stakes[u].rewardDebt
               a == stakes[u].amount
    <3>2. a \in 0 .. MaxStake /\ a \in Nat /\ e \in Nat /\ H \in Nat /\ D * (e + H) <= a * P
      BY <2>1, <2>2, HarvestIsEarned DEF StakingInv, Staking!TypeOK, Staking!StakeInfo
    <3>3. DebtOf[u] = e /\ Staking!AmountOf[u] = a /\ Staking!PendingOf[u] = H
      BY <2>3 DEF DebtOf, Staking!AmountOf
    <3> HIDE DEF H, e, a
    <3>4. D * (e + H) = D * e + D * H /\ a * P = P * a /\ D * e \in Nat /\ D * H \in Nat /\ P * a \in Nat
      BY <2>2, <3>2, Distributes
    <3>5. D * H <= a * P
      BY <3>2, <3>4
    <3>6. H \in 0 .. MostDebt
      BY <2>1, <3>2, <3>5, DebtIsBounded
    <3>7. H \in 0 .. M
      BY <2>2, <2>4, <3>2, <3>6
    <3>8. QED
      BY <3>2, <3>3, <3>4, <3>7
  <2> HIDE DEF M
  <2>6. Staking!PendingOf \in [Staker -> 0 .. M]
    <3>1. Staking!PendingOf = [u \in Staker |-> Staking!PendingOf[u]]
      BY DEF Staking!PendingOf
    <3> DEFINE f == Staking!PendingOf
    <3> HIDE DEF f
    <3>2. f = [u \in Staker |-> f[u]] /\ \A u \in Staker : f[u] \in 0 .. M
      BY <2>5, <3>1 DEF f
    <3>3. QED
      BY <3>2 DEF f
  <2>7. D * W + D * S <= P * Total(Staking!AmountOf, Staker)
    BY <2>2, <2>4, <2>5, <2>6, TotalLinear
  <2>8. Total(Staking!AmountOf, Staker) = T
    BY SameTotal DEF StakingInv, Staking!StakesAddUp
  <2>9. W \in Nat
    BY <2>2, <2>4, <2>6, TotalType
  <2>10. D * (T + R) + T * P <= D * (T + rewardReserve) + T * accRewardPerShare
    BY <2>1, UpdateCovers
  <2>11. D * (pool + rounded) + D * S >= D * (T + rewardReserve) + T * accRewardPerShare
    BY DEF DustInv, BooksCover
  <2> HIDE DEF D, P, R, T, S, W
  <2>12. D * W + D * S <= T * P
    BY <2>2, <2>7, <2>8, Distributes
  <2>13. D * (pool + rounded) >= D * (T + R) + D * W
    <3>1. pool + rounded \in Nat /\ T + R \in Nat /\ T + rewardReserve \in Nat
      BY <2>2
    <3>2. /\ D * (pool + rounded) \in Nat /\ D * (T + R) \in Nat /\ D * S \in Nat /\ D * W \in Nat /\ T * P \in Nat
          /\ D * (T + rewardReserve) \in Nat /\ T * accRewardPerShare \in Nat
      BY <2>2, <2>9, <3>1, ProductType
    <3>3. QED
      BY <2>10, <2>11, <2>12, <3>2
  <2>14. pool + rounded >= (T + R) + W
    <3> DEFINE x == pool + rounded
               y == (T + R) + W
    <3>1. x \in Nat /\ y \in Nat /\ T + R \in Nat
      BY <2>2, <2>9
    <3>2. D * y = D * (T + R) + D * W
      BY <2>2, <2>9, <3>1, Distributes
    <3> HIDE DEF x, y
    <3>3. SUFFICES ASSUME x + 1 <= y
                   PROVE  FALSE
      BY <3>1 DEF x, y
    <3>4. D * (x + 1) <= D * y
      BY <2>2, <3>1, <3>3, ProductGrows
    <3>5. D * (x + 1) = D * x + D * 1 /\ D * 1 = D /\ D * x \in Nat
      BY <2>2, <3>1, Distributes
    <3>6. D * x >= D * y
      BY <2>13, <3>2 DEF x
    <3>7. D * y \in Nat
      BY <2>2, <3>1, ProductType
    <3>8. QED
      BY <2>2, <3>4, <3>5, <3>6, <3>7
  <2>15. QED
    BY <2>14, SameTotal DEF Staking!BackedUpToDust, T, R, W
<1>2. QED
  BY <1>1, DustHolds, PTL

\* A behaviour of the two contracts is one of the staking contract, which rests during calls of the other.
LEMMA StakingRun == ContractsSpec => Staking!Spec
<1>1. ContractsInit => Staking!Init
  BY DEF ContractsInit
<1>2. [ContractsNext]_contractVars => [Staking!Next]_(Staking!stakingVars)
  BY DEF ContractsNext, contractVars, stakingVars, Staking!stakingVars
<1>3. QED
  BY <1>1, <1>2, PTL DEF ContractsSpec, Staking!Spec

\* The staking books: well typed, adding up, funded, and backed up to the dust of roundings.
THEOREM StakingBooksBalance == ContractsSpec => []BooksBalance
BY StakingRun, StakingTypes, StakingAddsUp, StakingStreamIsFunded, StakingIsBacked, PTL DEF BooksBalance

\* In every state of a behaviour of the two contracts, pendingRewards is what a claim would pay.
THEOREM ContractsViewAgrees == ContractsSpec => []ViewAgrees
BY StakingRun, StakingViewAgrees, PTL DEF ViewAgrees

\* No call changes what a staker who did not call has earned by then.
THEOREM ContractsKeepRewards == ContractsSpec => OthersKeepTheirRewards
BY StakingRun, StakingOthersKeepTheirRewards, PTL DEF OthersKeepTheirRewards
=============================================================================
