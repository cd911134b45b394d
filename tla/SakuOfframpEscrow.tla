------------------------- MODULE SakuOfframpEscrow -------------------------
(***************************************************************************)
(* contract/contracts/SakuOfframpEscrow.sol: the Lock & Release escrow.    *)
(*                                                                         *)
(* One action per external function of the contract.  A transaction that   *)
(* reverts changes nothing, so a revert is an action that is not enabled,  *)
(* and every function that moves tokens is nonReentrant, so a transaction  *)
(* is one step.  keccak256 is collision free and its preimage holds the    *)
(* contract's _nonce, so a request id is the value _nonce had at the lock. *)
(***************************************************************************)
EXTENDS TokenSums, Sequences

CONSTANTS
    Address,        \* the accounts that call the contract
    ZeroAddress,    \* address(0)
    Token,          \* the ERC20 tokens the accounts hold
    MinRateExpiry,  \* MIN_RATE_EXPIRY
    MaxRateExpiry,  \* MAX_RATE_EXPIRY
    Endowment,      \* what each account owns and has approved, per token
    MaxRequests,    \* bound: locks the contract ever takes
    MaxTime,        \* bound: the last block timestamp
    MaxStray        \* bound: tokens sent to the contract outside lockForOfframp

ASSUME ConstantsAssumption ==
    /\ ZeroAddress \notin Address
    /\ ZeroAddress \notin Token
    /\ MinRateExpiry \in Nat \ {0}
    /\ MaxRateExpiry \in Nat
    /\ Endowment \in Nat
    /\ MaxRequests \in Nat
    /\ MaxTime \in Nat
    /\ MaxStray \in Nat

VARIABLES
    now,             \* block.timestamp
    owner,           \* Ownable
    settler,
    stableToken,
    offrampAllowed,  \* the tokens the allowlist holds
    nonce,           \* _nonce
    requests,        \* request id -> OfframpRequest
    held,            \* token -> the contract's balance
    spent            \* token -> account -> what it handed to the contract, net

escrowVars == <<now, owner, settler, stableToken, offrampAllowed, nonce,
                requests, held, spent>>

RequestId == 0 .. MaxRequests - 1

Amount == 1 .. Endowment

\* struct OfframpRequest; recipientPhoneHash is carried and never read.
OfframpRequest ==
    [user : Address, token : Token, amount : Amount, deadline : Nat,
     status : {"Locked", "Settled", "Refunded"}]

\* requests[id] before anything was written there: every field is zero.
NoRequest ==
    [user |-> ZeroAddress, token |-> ZeroAddress, amount |-> 0, deadline |-> 0,
     status |-> "None"]

TypeOK ==
    /\ now \in Nat
    /\ owner \in Address \cup {ZeroAddress}
    /\ settler \in Address
    /\ stableToken \in Token
    /\ offrampAllowed \subseteq Token
    /\ nonce \in 0 .. MaxRequests
    /\ requests \in [RequestId -> OfframpRequest \cup {NoRequest}]
    /\ held \in [Token -> Nat]
    /\ spent \in [Token -> [Address -> Nat]]

\* The constructor: msg.sender owns the contract and the allowlist is empty.
Init ==
    /\ now = 0
    /\ owner \in Address
    /\ settler \in Address
    /\ stableToken \in Token
    /\ offrampAllowed = {}
    /\ nonce = 0
    /\ requests = [i \in RequestId |-> NoRequest]
    /\ held = [t \in Token |-> 0]
    /\ spent = [t \in Token |-> [a \in Address |-> 0]]

-----------------------------------------------------------------------------
(* What the functions share.  A definition that follows a variant of itself *)
(* (AnyAddressIsValid, IsAddress) rules that bug out: with the variant in   *)
(* its place a property below fails.                                        *)

AnyAddressIsValid(a) == TRUE
IsAddress(a) == a # ZeroAddress

NonceNeverMoves == nonce
NextNonce == nonce + 1

ExpiredAtTheDeadline(id) == now >= requests[id].deadline
Expired(id) == now > requests[id].deadline

RefundedToTheCaller(caller, id) == caller
RefundedTo(caller, id) == requests[id].user

\* Only the status of a request changes once it is written.
FinishedButStillLocked(id, status) == requests
Finished(id, status) == [requests EXCEPT ![id].status = status]

\* The contract's balance after it paid out the amount of request id.
PaidOut(id) == [held EXCEPT ![requests[id].token] = @ - requests[id].amount]

-----------------------------------------------------------------------------
(* The core flow. *)

LockForOfframp(caller, amount, token, rateExpiry) ==
    /\ nonce < MaxRequests
    /\ IsAddress(token)
    /\ token \in offrampAllowed
    /\ amount # 0
    /\ rateExpiry \in MinRateExpiry .. MaxRateExpiry
    /\ spent[token][caller] + amount <= Endowment   \* safeTransferFrom succeeds
    /\ requests' = [requests EXCEPT ![nonce] =
                      [user |-> caller, token |-> token, amount |-> amount,
                       deadline |-> now + rateExpiry, status |-> "Locked"]]
    /\ nonce' = NextNonce
    /\ spent' = [spent EXCEPT ![token][caller] = @ + amount]
    /\ held' = [held EXCEPT ![token] = @ + amount]
    /\ UNCHANGED <<now, owner, settler, stableToken, offrampAllowed>>

\* The swap pulls the locked amount out of the contract and sends its proceeds
\* to owner(); the router refuses to pay address(0) or after its deadline.
SettleOfframp(caller, id, path) ==
    /\ caller = settler
    /\ requests[id].status = "Locked"
    /\ ~Expired(id)
    /\ Len(path) >= 2
    /\ path[1] = requests[id].token
    /\ path[Len(path)] = stableToken
    /\ IsAddress(owner)
    /\ held[requests[id].token] >= requests[id].amount
    /\ requests' = Finished(id, "Settled")
    /\ held' = PaidOut(id)
    /\ UNCHANGED <<now, owner, settler, stableToken, offrampAllowed, nonce, spent>>

\* Anyone may call it; the tokens go back to the account that locked them.
Refund(caller, id) ==
    /\ requests[id].status = "Locked"
    /\ Expired(id)
    /\ held[requests[id].token] >= requests[id].amount
    /\ requests' = Finished(id, "Refunded")
    /\ held' = PaidOut(id)
    /\ spent' = [spent EXCEPT ![requests[id].token][RefundedTo(caller, id)] =
                   @ - requests[id].amount]
    /\ UNCHANGED <<now, owner, settler, stableToken, offrampAllowed, nonce>>

-----------------------------------------------------------------------------
(* The admin functions, onlyOwner. *)

SetSettler(caller, newSettler) ==
    /\ caller = owner
    /\ IsAddress(newSettler)
    /\ settler' = newSettler
    /\ UNCHANGED <<now, owner, stableToken, offrampAllowed, nonce, requests, held, spent>>

SetTokenAllowed(caller, token, allowed) ==
    /\ caller = owner
    /\ IsAddress(token)
    /\ offrampAllowed' = IF allowed THEN offrampAllowed \cup {token}
                                    ELSE offrampAllowed \ {token}
    /\ UNCHANGED <<now, owner, settler, stableToken, nonce, requests, held, spent>>

SetStableToken(caller, newStableToken) ==
    /\ caller = owner
    /\ IsAddress(newStableToken)
    /\ stableToken' = newStableToken
    /\ UNCHANGED <<now, owner, settler, offrampAllowed, nonce, requests, held, spent>>

\* OpenZeppelin's Ownable: transferOwnership, and renounceOwnership (to zero).
TransferOwnership(caller, newOwner) ==
    /\ caller = owner
    /\ owner' = newOwner
    /\ UNCHANGED <<now, settler, stableToken, offrampAllowed, nonce, requests, held, spent>>

-----------------------------------------------------------------------------
(* The chain around the contract. *)

\* A token transfer straight to the contract's address; no code of it runs.
StrayTransfer(token) ==
    /\ held[token] < MaxStray
    /\ held' = [held EXCEPT ![token] = @ + 1]
    /\ UNCHANGED <<now, owner, settler, stableToken, offrampAllowed, nonce, requests, spent>>

\* Blocks are produced.
Tick ==
    /\ now < MaxTime
    /\ now' = now + 1
    /\ UNCHANGED <<owner, settler, stableToken, offrampAllowed, nonce, requests, held, spent>>

\* address[] calldata path, up to the one hop the settler's server asks for.
Paths == UNION {[1 .. n -> Token] : n \in 0 .. 2}

Next ==
    \/ \E caller \in Address :
         \/ \E amount \in {0} \cup Amount, token \in Token \cup {ZeroAddress},
               rateExpiry \in 0 .. MaxRateExpiry + 1 :
               LockForOfframp(caller, amount, token, rateExpiry)
         \/ \E id \in RequestId, path \in Paths : SettleOfframp(caller, id, path)
         \/ \E id \in RequestId : Refund(caller, id)
         \/ \E a \in Address \cup {ZeroAddress} : SetSettler(caller, a)
         \/ \E token \in Token \cup {ZeroAddress}, allowed \in BOOLEAN :
               SetTokenAllowed(caller, token, allowed)
         \/ \E token \in Token \cup {ZeroAddress} : SetStableToken(caller, token)
         \/ \E a \in Address \cup {ZeroAddress} : TransferOwnership(caller, a)
    \/ \E token \in Token : StrayTransfer(token)
    \/ Tick

Spec == Init /\ [][Next]_escrowVars

-----------------------------------------------------------------------------
(* The requests whose amounts the properties add up. *)

AmountOf == [id \in RequestId |-> requests[id].amount]

LockedIn(token) ==
    {id \in RequestId : requests[id].status = "Locked" /\ requests[id].token = token}

NotReturnedTo(token, a) ==
    {id \in RequestId : /\ requests[id].status \in {"Locked", "Settled"}
                        /\ requests[id].token = token
                        /\ requests[id].user = a}

-----------------------------------------------------------------------------
(* Properties. *)

\* The contract can always pay back every request that is still Locked, all of
\* them at once, whatever the owner and the settler did in between: refund()
\* can fail for lack of tokens only if some other request was paid twice.
Solvent == \A token \in Token : held[token] >= Total(AmountOf, LockedIn(token))

\* Every account is out of pocket by exactly its own requests that are Locked or
\* Settled: a refund restores the account that locked, in the token and for the
\* amount it locked, once, whoever calls refund().
Custody ==
    \A token \in Token, a \in Address :
        spent[token][a] = Total(AmountOf, NotReturnedTo(token, a))

\* An id that was handed out is never handed out again, so a request is never
\* overwritten by a later lock.
IdsAreFresh ==
    \A id \in RequestId : (requests[id] = NoRequest) <=> (id >= nonce)

\* The life of a request: only Locked moves, to Settled while the rate holds or
\* to Refunded once it has expired, and nothing else in it ever changes.
Lifecycle ==
    [][\A id \in RequestId :
         \/ requests'[id] = requests[id]
         \/ requests[id].status = "None" /\ requests'[id].status = "Locked"
         \/ /\ requests[id].status = "Locked"
            /\ requests'[id] = [requests[id] EXCEPT
                 !.status = IF now <= requests[id].deadline THEN "Settled" ELSE "Refunded"]
      ]_requests
=============================================================================
