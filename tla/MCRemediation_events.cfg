\* Publication after each commit, with lost sends and dying requests.
CONSTANTS
    Procs = {p1, p2}
    Rems = {r1}
    NoRem = NoRem
    TTL = 1
    MaxTime = 0
    KafkaEnabled = TRUE
    MayAbort = TRUE
    Recommendations <- MCAllowedAndBlocked
    Cooldown <- MCCooldown
SPECIFICATION Spec
SYMMETRY Symmetry
INVARIANT EventsMirrorTrail
