SPECIFICATION ServicesSpec
CONSTANTS
    c1 = c1
    c2 = c2
    t1 = t1
    u1 = u1
    u2 = u2
    w1 = w1
    w2 = w2
    o1 = o1
    Code <- TwoCodes
    Tx <- OneTx
    User <- TwoUsers
    Slot <- Slots2
    MaxAmount = 3
    MaxSlots = 2
    MaxWaitFailures = 1
    MaxSendFailures = 1
    MaxCrashes = 1
    Order <- OneOrder
    MaxDropped = 1
    MaxUnpaid = 1
    x1 = x1
    v1 = v1
    Account = Account
    Server = Server
    Zero = Zero
    Usdc = Usdc
    Stable = Stable
    Poster <- OnePoster
    Refunder = {}
    Sweeper <- OneSweeper
    Outsider = {}
    RateExpiry = 1
    Grace = 1
    BatchSize = 1
    MaxRequests = 2
    MaxTime = 4
    MaxPosts = 1
    MaxFaults = 2
INVARIANTS SharesFit PacketsAreBacked PayoutsStayFunded BooksFollowMoney PaidIsNotCalledOff
PROPERTIES OneClaimEnds PaidIsCredited LocksEnd
CHECK_DEADLOCK FALSE
