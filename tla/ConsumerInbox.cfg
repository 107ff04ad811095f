SPECIFICATION MCSpec
CONSTANTS
    OperationIds = {op1}
    Executors = {e1, e2}
    Scopes = {s1, s2}
    Revisions = {r1, r2}
    MaxAttempts = 3
    Keys = {k1}
    Profiles = {p1, p2}
    Digests = {d1, d2}
    MaxExecutions = 2
    Callbacks = {d1, d2}
    Sessions = {s1, s2}
    Subjects = {u1, u2}
    PlatformPrincipals = {p1, p2}
    Workers = {e1, e2}
    None = None
SYMMETRY Interchangeable
INVARIANTS CompletedIsBacked LocalEffectOnce ReexecutionNeedsProof EffectAtMostOnce SuccessorNeedsProof AcknowledgedIsOwned OnlyNamedSessionsEnd
PROPERTIES LedgerGuardsAccept
CHECK_DEADLOCK FALSE
