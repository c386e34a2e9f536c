\* A caching target depends on a group; nothing is edited.
CONSTANTS
    Targets <- GroupTargets
    Root = "report"
    Selections <- GroupSelections
    Deps <- GroupDeps
    Job <- GroupJob
    Groups = {"libs"}
    AlwaysRun = {}
    Caching = {"lib", "report"}
    Verifying = {}
    Versions = {0}
    Samples = {0}
    Faults = FALSE
    MaxBuilds = 2
    MaxEdits = 0
SPECIFICATION Spec
\* the builds are bounded
CHECK_DEADLOCK FALSE
INVARIANTS OneTreeOneKey
