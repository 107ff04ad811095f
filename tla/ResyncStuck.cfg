SPECIFICATION ResyncSpec
CONSTANTS
    Consumers = {c1, c2}
    MaxTransition = 1
    None = None
PROPERTY LapsedIsReconciled
CHECK_DEADLOCK FALSE
