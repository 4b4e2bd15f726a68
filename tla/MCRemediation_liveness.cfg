\* No request dies and the event loop is fair.
CONSTANTS
    Procs = {p1, p2}
    Rems = {r1}
    NoRem = NoRem
    TTL = 1
    MaxTime = 0
    KafkaEnabled = FALSE
    MayAbort = FALSE
    Recommendations <- MCOneKey
    Cooldown <- MCCooldown
SPECIFICATION FairSpec
PROPERTY ClaimsResolve
