SPECIFICATION MCSpec
CONSTANTS
    h1 = h1
    p1 = p1
    critical = critical
    informational = informational
    Hosts <- MCHosts
    Problems <- MCProblems
    Views <- MCViews
    OwnerOf <- MCOwnerOf
    SeverityOf <- MCSeverityOf
    InventoryOps = {i1, i2, i3}
    ProblemOps = {o1}
    HostEpochs = {2}
    ProblemEpochs = {2}
    m1 = m1
    integer = integer
    text = text
    x = x
    y = y
    Metrics <- MCMetrics
    Items <- MCItems
    MonitoredHosts <- MCHosts
    HostOf <- MCHostOf
    Samples <- MCSamples
    MaxMetricPolls = 0
    MetricEpochs = {3}
    None = None
SYMMETRY Interchangeable
INVARIANT CurrentHealthIsApplied
CHECK_DEADLOCK FALSE
