\* Three builds and an edit between them; faults may abort a build.
CONSTANTS
    Targets <- SuiteTargets
    Root = "stop"
    Selections <- SuiteSelections
    Deps <- SuiteDeps
    Job <- SuiteJob
    Groups = {"all"}
    AlwaysRun = {"stop"}
    Caching = {"lib", "twin", "binary", "report"}
    Verifying = {"binary"}
    Versions = {0, 1}
    Samples = {0, 1}
    Faults = TRUE
    MaxBuilds = 3
    MaxEdits = 1
SPECIFICATION Spec
\* the builds are bounded
CHECK_DEADLOCK FALSE
INVARIANTS VisitsTheSelection CacheServesCurrent FailureIsReported CleanupRan NothingBuiltOnFailure
PROPERTIES NoSpuriousRerun
