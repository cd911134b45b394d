----------------------------- MODULE MCRecovery -----------------------------
EXTENDS Recovery, TLC
CONSTANTS r1, r2, g1, g2, j1, j2, v1, v2, old, new
OneRequest == {r1}
TwoRequests == {r1, r2}
TwoGuardians == {g1, g2}
OneInApp == {g1}
NoneInApp == {}
OneJob == {j1}
TwoJobs == {j1, j2}
NoVisits == {}
OneVisit == {v1}
TwoVisits == {v1, v2}
Numbers == {old, new}
Symmetry == Permutations(TwoRequests) \cup Permutations(TwoJobs)
            \cup Permutations(TwoVisits)
\* Bound: sign-ins and sign-outs are explored while no recovery has been started, and a
\* recovery is explored without them (MCRecoveryOldHolder.cfg lets them interleave).
Apart ==
    \/ \A r \in Request : req[r] = NoRequest
    \/ dead = {} /\ \A v \in Visit : visit[v] = NoVisit
=============================================================================
