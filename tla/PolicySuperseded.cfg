SPECIFICATION LifecycleSpec
CONSTANTS
    Versions = {1, 2}
    Classes = {"down"}
    Conditions = {{"down"}}
    Evaluators = {}
    Operators = {q1, q2}
    MaxRevision = 1
    None = None
INVARIANT SupersededStaysOut
CHECK_DEADLOCK FALSE
