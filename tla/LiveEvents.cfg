\* One search and one open page: two candidates and a single place among the top
\* results, so that one is ranked out, and two values of rmse, so that fits tie.
SPECIFICATION FairSpec
CONSTANTS
    Jobs = {1}
    MaxJobs = 1
    Nobody = Nobody
    Total = 2
    Scores = {1, 2}
    Top = 1
    MaxRuns = 1
\* Every search has ended.
CHECK_DEADLOCK FALSE
INVARIANTS
    SearchCoherent
    NothingMissed
PROPERTIES
    PageSettles
