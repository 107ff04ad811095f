SPECIFICATION ResponseSpec
CONSTANTS
    EventDeliveries = {d1}
    Workers = {w1, w2}
    MaxActions = 2
    Results = {"linked", "failed"}
    MaxDeaths = 0
    None = None
INVARIANT DoneMeansProcessed
CHECK_DEADLOCK FALSE
