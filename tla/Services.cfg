SPECIFICATION MCSpec
CONSTANTS
    Owners = {o1, o2}
    MessageIds = {m1}
    Contents = {x, y}
    ReceiptIds = {p1, p2}
    MaxClock = 3
    MaxLag = 1
    MaxAttempts = 3
    Operations = {op1, op2, op3, op4}
    ReleaseContents = {x, y}
    SyncWorkers = {w1, w2}
    MaxSyncAttempts = 3
    MaxSyncerDeaths = 2
    EventDeliveries = {d1, d2}
    Workers = {w1, w2}
    MaxActions = 1
    Results = {"linked", "failed"}
    MaxDeaths = 1
    None = None
INVARIANTS SettledByLastHolder UnresolvedOwnsTarget ConfirmationNeverRefused OneOpenSync OneExecutor
PROPERTIES DispatchGuardAccepts ClaimsAreReleased SyncOutcomeIsFinal RequestsSettle
CHECK_DEADLOCK FALSE
