\* A build killed in the rmtree of its put.
CONSTANTS
    Builds = {b1, b2}
    Entry = Entry
    MaxPuts = 2
SPECIFICATION Spec
\* puts are bounded and processes may be killed
CHECK_DEADLOCK FALSE
INVARIANTS HitAtRestIsWhole
