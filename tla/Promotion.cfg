SPECIFICATION Spec
CONSTANTS
    MainOrder <- MCMainOrder
    TempOrder <- MCTempOrder
    MaxMade = 2
    MaxMishaps = 2
    Absent = Absent
    Partial = Partial
INVARIANTS
    NothingLost
    OutcomeTrue
    SolutionOnGrid
