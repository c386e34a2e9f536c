\* Two builds put, get and sweep one key, and may be killed.
CONSTANTS
    Builds = {b1, b2}
    Entry = Entry
    MaxPuts = 2
SPECIFICATION Spec
\* puts are bounded and processes may be killed
CHECK_DEADLOCK FALSE
INVARIANTS NeverHalfWritten PutsLeaveAnEntry
