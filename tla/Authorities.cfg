SPECIFICATION MCSpec
CONSTANTS
    Scopes = {s1}
    Callers = {t1, t2, t3}
    Generations = {w1, w2}
    States = {"active", "retired"}
    MaxEpoch = 3
    Assertions = {a1}
    Prints = {p1}
    Ops = {o1}
    MaxRecoveryEpoch = 3
    MaxClaims = 3
    Transitions = {t1, t2}
    Writers = {w1, w2}
    Replicas = {r1}
    MaxScopeEpoch = 4
    Observations = {o1}
    Contents = {1}
    SupportedFloor = 0
    MaxTime = 2
    MaxAuthority = 2
    MaxRevision = 3
    MaxRuns = 3
    Cells = {c1, c2}
    MaxPlacement = 3
    MaxRecoveries = 3
    MaxPolls = 4
    Dimensions = {placed}
    MaxGeneration = 2
    None = None
SYMMETRY Interchangeable
INVARIANTS ConsumedStaysConsumed EffectIsAccountedFor AdmissionsSeeTheSource CommitHoldsTheScope CompleteIsAccepted OnlyLatestIsCurrent AdmittedAtOneMoment
PROPERTIES KeepsPromise
CHECK_DEADLOCK FALSE
