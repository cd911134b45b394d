SPECIFICATION Spec
CONSTANTS
    r1 = r1
    r2 = r2
    g1 = g1
    g2 = g2
    j1 = j1
    j2 = j2
    v1 = v1
    v2 = v2
    old = old
    new = new
    Number <- Numbers
    OldNumber = old
    Visit <- OneVisit
    MaxVersion = 2
    Request <- OneRequest
    Guardian <- TwoGuardians
    InApp <- OneInApp
    Job <- TwoJobs
    MaxLinks = 2
    MaxChanges = 0
    MaxFaults = 0
INVARIANT OldHolderIsOut
CHECK_DEADLOCK FALSE
