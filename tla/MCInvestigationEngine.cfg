CONSTANTS
    MaxYield = 2
    Plans <- MCPlans
    Modes = {"mock", "live"}
    LimitChoices <- MCLimits
    MaxHypotheses = 2
SPECIFICATION FairSpec
INVARIANTS BudgetsHold ConclusionsGrounded
PROPERTIES Terminates
