SPECIFICATION NotificationSpec
CONSTANTS
    Workers = {w1, w2}
    MaxAttempts = 2
    Callbacks = {}
    Answers <- MCAnswers
    None = None
INVARIANT SentOncePerAttempt
CHECK_DEADLOCK FALSE
