\* One request at a time: the history rules as the code applies them.
CONSTANTS
    Procs = {p1}
    Rems = {r1, r2}
    NoRem = NoRem
    TTL = 2
    MaxTime = 3
    KafkaEnabled = FALSE
    MayAbort = TRUE
    Recommendations <- MCOneKey
    Cooldown <- MCCooldown
SPECIFICATION Spec
INVARIANT AtMostOneActivePerKey
PROPERTY FailedRunCoolsDown
