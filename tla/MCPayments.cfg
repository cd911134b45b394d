SPECIFICATION PaymentsSpec
CONSTANTS
    p1 = p1
    p2 = p2
    u1 = u1
    u2 = u2
    q = q
    h1 = h1
    h2 = h2
    s1 = s1
    s2 = s2
    Payment <- Payment2
    Payer = {u1, u2}
    Request = {q}
    Share = {h1, h2}
    Owner <- OneEach
    Slot <- Slot2
    Owes <- Owes3
    MaxAmount = 2
    Holds = 2
    MaxFaults = 1
    MaxStray = 1
    MaxGuests = 2
    Contacts = {2}
    MaxLines = 2
    Prices = {1, 5}
    Charges = {2}
    Receipts <- TwoReceipts
    Rates = {3}
    MaxMounts = 3
    MaxPresses = 3
    MaxGlitches = 2
    Amounts = {1}
    MinStake = 1
    Wealth = 1
    MaxEarned = 1
    MaxTxs = 3
    MaxAway = 1
    MaxSlips = 1
SYMMETRY Symmetry
INVARIANTS PaidIsBacked BooksMirrorChain BillClosesWhenPaid SharesAddUp OneSignature
PROPERTY PaidOnce
CHECK_DEADLOCK FALSE
