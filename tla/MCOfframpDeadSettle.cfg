SPECIFICATION HandlersSpec
CONSTANTS
    User = User
    Server = Server
    Zero = Zero
    Usdc = Usdc
    Stable = Stable
    p1 = p1
    p2 = p2
    r1 = r1
    s1 = s1
    s2 = s2
    Poster <- Posters
    Refunder <- Refunders
    Sweeper <- Sweepers
    Outsider = {}
    RateExpiry = 1
    Grace = 1
    BatchSize = 1
    MaxRequests = 1
    MaxTime = 4
    MaxPosts = 2
    MaxFaults = 1
    MaxMisses = 1
    MaxDelays = 1
INVARIANT DeadSettleIsRefundable
CHECK_DEADLOCK FALSE
