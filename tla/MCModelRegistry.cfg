SPECIFICATION Spec
CONSTANTS
    MinF1 = 75
    MinRecall = 90
    MinPrAuc = 60
    F1Tolerance = 5
    Jobs = {j1, j2}
    Catalogue <- MCCatalogue
    Studied <- MCStudied
    MaxVersions = 2
    MaxStarts = 3
    Required = FALSE
    None = None
SYMMETRY MCSymmetry
INVARIANTS
    OnlyGatedModelsServe
    PreviousWasChampion
    ThresholdOptimal
CHECK_DEADLOCK FALSE
