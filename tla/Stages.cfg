SPECIFICATION StagesSpec
CONSTANTS
    Requests <- MCRequests
    Passes = 2
    Budget = 3
    MaxForeign = 1
    Keys = {"NUM_ITS", "DO_T_AUTO"}
    MaxApplied = 3
    MaxEdits = 2
    InputFiles = {"VADAT", "H_IN"}
    Needed = {"VADAT", "H_IN"}
    Retired = {"T_IN"}
    Checkpoints = {"POINT1"}
    Logs = {"OUTGEN"}
    MaxArchives = 4
    MaxOps = 2
    MaxChanges = 1
    MaxFaults = 1
\* A sequence and a run end for good, and operations reach their bound.
CHECK_DEADLOCK FALSE
INVARIANTS
    SequenceTrue
    ControlsReturned
    ArchivesTrue
