CONSTANTS
    Tips = {t1, t2}
    Posts = {p1}
    MaxTokens = 3
SPECIFICATION Spec
INVARIANTS
    PaidOnce
    OneDialog
    GrantIsHeard
    RetryHasTheGrant
SYMMETRY Alike
CHECK_DEADLOCK FALSE
