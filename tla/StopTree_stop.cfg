\* A command and what it starts, stopped while it forks, exits and changes groups.
CONSTANTS
    MaxProcs = 4
SPECIFICATION LiveSpec
\* everything may have exited
CHECK_DEADLOCK FALSE
INVARIANTS LineageIsFound TreeIsStopped
PROPERTIES AskedFirst StopEnds
