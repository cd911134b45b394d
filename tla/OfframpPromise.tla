--------------------------- MODULE OfframpPromise ---------------------------
(***************************************************************************)
(* What an off-ramp promises, one request at a time: the money a user      *)
(* locked is either given back or paid to the recipient, never both and    *)
(* never twice, and it is paid only out of a settlement.                   *)
(***************************************************************************)
CONSTANT Request

VARIABLE stage  \* request -> where its money is

Stages == {"none", "locked", "settled", "paid", "refunded"}

Init == stage = [r \in Request |-> "none"]

Becomes(r, from, to) ==
    /\ stage[r] = from
    /\ stage' = [stage EXCEPT ![r] = to]

Lock(r) == Becomes(r, "none", "locked")
Settle(r) == Becomes(r, "locked", "settled")
Pay(r) == Becomes(r, "settled", "paid")
Refund(r) == Becomes(r, "locked", "refunded")

Next == \E r \in Request : Lock(r) \/ Settle(r) \/ Pay(r) \/ Refund(r)

Spec == Init /\ [][Next]_stage
=============================================================================
