\* Every draw, claim and session of the instances.
SPECIFICATION GatesSpec
CONSTANTS
    Records <- MCRecords
    Window = 2
    DepositToken = 1
    Claims <- MCClaims
    Results <- MCResults
    Measurements <- MCMeasurements
    Scale = 12
    AlphaNum = 3
    AlphaDen = 16
    MaxSessions = 4
\* a cell is drawn once, a claim judged once, and sessions are bounded
CHECK_DEADLOCK FALSE
INVARIANTS
    RegimeHoldsAtTheLeaves DrawsAreWhereTheySay
    HeldMeansCompared HeldSameIsWithinTheRule HeldDifferentIsADifference
    ViolationIsSlower OneTickIsNoViolation
PROPERTIES UndecidableIsSaid NoSuddenRegression
