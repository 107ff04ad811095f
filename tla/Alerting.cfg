SPECIFICATION MCSpec
CONSTANTS
    Versions = {1, 2}
    Classes = {"up", "down"}
    Conditions <- MCConditions
    Evaluators = {w1, w2}
    Operators = {q1}
    MaxRevision = 3
    Callers = {w1, w2}
    Actions = {k1, k2}
    Principals = {p1, p2}
    Consumers = {w1, w2}
    MaxTransition = 2
    Workers = {w1, w2}
    MaxAttempts = 2
    Callbacks <- MCCallbacks
    Answers <- MCAnswers
    None = None
SYMMETRY Interchangeable
INVARIANTS OneActiveAlert OccurrencesAdvance HistoryIsComplete OneClaimPerReceipt NeverInventsDelivery
PROPERTIES OutcomeIsFinal
CHECK_DEADLOCK FALSE
