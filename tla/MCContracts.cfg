SPECIFICATION ContractsSpec
CONSTANTS
    Address = {a, b}
    ZeroAddress = zero
    Token = {usdc, busd}
    MinRateExpiry = 1
    MaxRateExpiry = 2
    Endowment = 2
    MaxRequests = 2
    MaxTime = 3
    MaxStray = 1
    u1 = u1
    u2 = u2
    u3 = u3
    Staker <- Stakers
    AccPrecision = 4
    MaxStake = 2
    MaxFunding = 3
    LastBlock = 3
    MaxCalls = 3
SYMMETRY Symmetry
INVARIANTS Solvent Custody BooksBalance ViewAgrees
PROPERTIES Lifecycle OthersKeepTheirRewards
CHECK_DEADLOCK FALSE
