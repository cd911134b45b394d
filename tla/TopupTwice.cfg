SPECIFICATION Spec
CONSTANTS
    Order = {o1}
    Slot = {w1, w2}
    MaxWaitFailures = 1
    MaxSendFailures = 0
    MaxCrashes = 0
INVARIANT CreditedOnce
CHECK_DEADLOCK FALSE
