----------------------------- MODULE MCOfframp -----------------------------
(***************************************************************************)
(* One request, two posts of it, a refund by the user and two sweeps that  *)
(* overlap; and the screen that waits for a request. part says which of    *)
(* the two a behaviour is about; the other rests.                          *)
(***************************************************************************)
EXTENDS Offramp
CONSTANTS p1, p2, r1, s1, s2, MaxMisses, MaxDelays
Posters == {p1, p2}
Refunders == {r1}
Sweepers == {s1, s2}
MCOutsider == {User}

ASSUME ScreenAssumption == MaxMisses \in Nat /\ MaxDelays \in Nat

VARIABLES
    part,
    escrow, screenRow, fiat, worker, expired, overtime, phase, said, twice, seen, sighted,
    slow, misses, delays

S == INSTANCE OfframpScreen WITH row <- screenRow

sVars == <<escrow, screenRow, fiat, worker, expired, overtime, phase, said, twice, seen,
           sighted, slow, misses, delays>>

HandlersInit == Init /\ S!Init /\ part \in {"handlers", "screen"}

HandlersNext ==
    /\ UNCHANGED part
    /\ \/ part = "handlers" /\ Next /\ UNCHANGED sVars
       \/ part = "screen" /\ S!Next /\ UNCHANGED vars

HandlersSpec == HandlersInit /\ [][HandlersNext]_<<part, vars, sVars>>

\* What the screen calls refundable has not been settled, and once it saw the settlement it
\* never offers a refund.
RefundsAreReal == S!TypeOK /\ S!RefundsAreReal /\ S!SettledStaysGood
=============================================================================
