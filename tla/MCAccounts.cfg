SPECIFICATION AccountsSpec
CONSTANTS
    s1 = s1
    s2 = s2
    ana = ana
    budi = budi
    Slot <- Slot2
    MaxFaults = 1
    OTP_MAX_ATTEMPTS = 1
    OTP_MAX_PER_WINDOW = 1
    MaxRows = 3
    MaxOpened = 2
    Person <- Person2
    MAX_GUARDIANS = 2
    MaxSeats = 2
    Address = {home, other}
    MaxChanges = 2
    Amounts = {1, 2}
    DailyCap = 2
    MaxEvents = 3
    Process = {m1, m2}
    MaxSends = 3
    MaxTroubles = 1
    MAX_DRIPS_PER_WALLET = 2
    MaxDrips = 4
    Number = {mine, theirs}
    Readable = {mine}
    Tab = {web, panel}
    Extension = {panel}
    MaxCalls = 2
    MaxCodes = 2
    MaxGlitches = 1
SYMMETRY Symmetry
INVARIANTS CodesHold OwnerIsTold LimitsHold NoncesHold
PROPERTIES SpentStaysSpent BoundForGood
CHECK_DEADLOCK FALSE
