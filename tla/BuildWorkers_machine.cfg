\* Two builds of two targets each share a machine.
CONSTANTS
    b1 = b1
    b2 = b2
    Builds <- Two
    Envs = {"build"}
    Holds <- MixedHolds
    GpuSlots = 2
    BudgetSlots = 2
    MaxTargets = 2
    MaxStarts = 2
SPECIFICATION Spec
SYMMETRY Interchangeable
\* the builds end
CHECK_DEADLOCK FALSE
INVARIANTS NoCircularWait NothingHeldBetweenTargets MeasurementAlone ClockOnUntilAnExit ExecutorIsToldItsLocks
