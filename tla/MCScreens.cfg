SPECIFICATION ScreensSpec
CONSTANTS
    X = {x1, x2}
    Y = {y1, y2}
    MaxAsked = 2
    MaxAsks = 3
    MaxLogins = 3
    MaxTurns = 3
    Me = citra
    Other = {dewi}
    Envelope = {envelope}
    MaxSlots = 2
    Visitor = {visitor}
    MaxOpenings = 2
    MaxFigure = 2
    Merchant = {kopi, soto}
    Dynamic = {kopi}
    MaxRates = 2
    Number = {n1, n2, n3}
    Own = {n1, n3}
    Taken = {n3}
    Sheet = {sheet}
    MaxCodes = 2
    MaxRounds = 1
    Limit = 2
    MaxAmount = 1
    MaxGlitches = 1
SYMMETRY Symmetry
INVARIANTS ReviewedIsPaid AccountsKeptApart EnvelopesAreTrue CodesAreTrue RecoveryIsTrue 
CHECK_DEADLOCK FALSE
