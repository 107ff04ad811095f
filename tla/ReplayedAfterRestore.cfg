SPECIFICATION ReplaySpec
CONSTANTS
    Assertions = {a1}
    Prints = {p1}
    Ops = {o1}
    MaxRecoveryEpoch = 2
    MaxClaims = 1
    None = None
INVARIANT OneWinPerAssertion
CHECK_DEADLOCK FALSE
