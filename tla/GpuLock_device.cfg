\* Two processes, and a child one of them may start, under the lock or outside
\* it, contend for two slots in both modes, with interrupts and kills; processes
\* inside the lock keep running.
CONSTANTS
    p1 = p1
    p2 = p2
    c1 = c1
    Nobody = Nobody
    Procs <- TwoAndChild
    Roots <- TwoProcs
    Slots = 2
SPECIFICATION LiveSpec
\* every process may have been killed
CHECK_DEADLOCK FALSE
INVARIANTS MeasurementAlone NothingLeftLocked
PROPERTIES ImplementsDeviceUse NoOvertaking QueuedWriterAdmitted NoPollBesideFreeSlot
