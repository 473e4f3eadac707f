SPECIFICATION ObservationsSpec
CONSTANTS
    Nothing = Nothing
    Refused = Refused
    Missing = Missing
    Unreadable = Unreadable
    NaN = NaN
    None = None
    Refusal = Refusal
    Requests = {r1, r2, r3}
    Texts <- MCTexts
    Answers <- MCAnswers
    Window = {2, 3}
    MaxFaults = 2
    LeastPoints = 2
SYMMETRY Interchangeable
\* Every request, fit and search has ended.
CHECK_DEADLOCK FALSE
INVARIANTS
    BundleTrue
    ObservationsKept
    FitsTrue
    CandidatesFit
    FilesTrue
