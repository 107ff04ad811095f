SPECIFICATION ShellSpec
CONSTANTS
    Handles = {h1, h2, h3, h4}
    Logins = {l1, l2}
    Principals = {p1}
    Callers = {c1, c2, c3}
    None = None
    NoRequest = NoRequest
SYMMETRY Interchangeable
INVARIANTS NoViewAfterLogout LiveCanLogOut
PROPERTIES KeepsLifecycle
CHECK_DEADLOCK FALSE
