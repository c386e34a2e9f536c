\* Two targets over three entries in two environments: all of them, one of each
\* environment, or one against its copy; the clock is read in one environment.
CONSTANTS
    EnvOf <- ThreeEntries
    Wanted <- AllOrOfEach
    Gated <- TheFirst
    Reader = "left"
    Warmup = 1
    Rounds = 2
    Reps = 1
    MaxTargets = 2
    MaxDeaths = 2
SPECIFICATION Spec
\* the build ends
CHECK_DEADLOCK FALSE
INVARIANTS EveryRepHasItsPair OkMembersAreAlwaysPresent NothingLeftOnTheDevice
