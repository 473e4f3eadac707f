\* One job and two people who cancel it: enough for both to miss each other's marker.
\* The viewers stay distinct, because a symmetry set is unsound for the temporal property.
SPECIFICATION FairSpec
CONSTANT Viewers = {v1, v2}
\* A job ends for good.
CHECK_DEADLOCK FALSE
INVARIANTS
    LaunchSafe
    CancelSparesBoot
    EndedIsClean
PROPERTIES
    CancelEnds
