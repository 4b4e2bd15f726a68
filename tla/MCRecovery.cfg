CONSTANTS
    Services = {s1}
    Configs <- MCConfigs
    Delays = {3, 8}
    MaxNow = 3
    MaxExecutions = 2
    Never = Never
SPECIFICATION Spec
INVARIANTS RecoveredMeansWell WindowIsExact
