SPECIFICATION Spec
CONSTANTS
    r1 = r1
    r2 = r2
    g1 = g1
    g2 = g2
    j1 = j1
    j2 = j2
    v1 = v1
    v2 = v2
    old = old
    new = new
    Number <- Numbers
    OldNumber = old
    Visit <- TwoVisits
    MaxVersion = 2
    Request <- TwoRequests
    Guardian <- TwoGuardians
    InApp <- OneInApp
    Job <- TwoJobs
    MaxLinks = 2
    MaxChanges = 1
    MaxFaults = 1
INVARIANTS OneFinisher SignOutsHold NoMajorityIsLost
PROPERTIES MoveIsVouched RejectionIsFinal
CONSTRAINT Apart
SYMMETRY Symmetry
CHECK_DEADLOCK FALSE
