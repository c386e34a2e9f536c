\* One diff that expects a difference.
SPECIFICATION GatesSpec
CONSTANTS
    Records <- NoRecords
    Window = 2
    DepositToken = 1
    Claims <- MCMutant
    Results <- MCResults
    Measurements <- NoRecords
    Scale = 12
    AlphaNum = 3
    AlphaDen = 16
    MaxSessions = 4
CHECK_DEADLOCK FALSE
INVARIANT MinimumWasCompared
