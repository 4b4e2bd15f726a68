\* Every kind of request, two at a time, over one remediation; requests may die.
CONSTANTS
    Procs = {p1, p2}
    Rems = {r1}
    NoRem = NoRem
    TTL = 2
    MaxTime = 2
    KafkaEnabled = FALSE
    MayAbort = TRUE
    Recommendations <- MCRecommendations
    Cooldown <- MCCooldown
SYMMETRY Symmetry
SPECIFICATION Spec
INVARIANTS TypeOK EffectAuthorised OutcomeTruthful TrailMatchesRow
PROPERTIES HistoryImmutable LifecycleSpec
