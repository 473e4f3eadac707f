SPECIFICATION Spec
CONSTANTS
    Nothing = Nothing
    Refused = Refused
    Missing = Missing
    Unreadable = Unreadable
    NaN = NaN
    Requests = {1, 2, 3}
    Texts <- MCTexts
    Answers <- MCAnswers
    Window = {2, 3}
    MaxFaults = 1
\* Every request has ended.
CHECK_DEADLOCK FALSE
INVARIANTS
    AppendAddsNew
