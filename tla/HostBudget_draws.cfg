\* Two processes over three slots: plain draws of one and of all, exclusive
\* draws, nested draws, interrupts and kills; processes inside acquire keep running.
CONSTANTS
    p1 = p1
    p2 = p2
    Nobody = Nobody
    Procs <- TwoProcs
    Total = 3
    Asks <- SmallAndMany
SPECIFICATION LiveSpec
\* every process may have been killed
CHECK_DEADLOCK FALSE
INVARIANTS DrawAlone BlockHasItsSlots
PROPERTIES ImplementsCountingBudget ExclusiveDrawServed NoPollBesideFreeSlot
