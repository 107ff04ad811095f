SPECIFICATION MCSpec
CONSTANTS
    h1 = h1
    p1 = p1
    critical = critical
    informational = informational
    Hosts <- MCHosts
    Problems <- MCProblems
    Views <- MCViews
    OwnerOf <- MCOwnerOf
    SeverityOf <- MCSeverityOf
    InventoryOps = {i1, i2}
    ProblemOps = {o1, o2}
    HostEpochs = {2}
    ProblemEpochs = {2, 3}
    m1 = m1
    integer = integer
    text = text
    x = x
    y = y
    Metrics <- MCMetrics
    Items <- MCItems
    MonitoredHosts <- MCHosts
    HostOf <- MCHostOf
    Samples <- MCSamples
    MaxMetricPolls = 4
    MetricEpochs = {3}
    None = None
SYMMETRY Interchangeable
INVARIANTS PresenceFollowsPolls ActiveFollowsSnapshots CurrentHealthMatchesProblems DefinitionsFollowPolls CurrentHasOneWriter
PROPERTY LostAdmissionFences
CHECK_DEADLOCK FALSE
