SPECIFICATION Spec
CONSTANTS
    m1 = m1
    m2 = m2
    Models = {m1, m2}
    Worked = {m1}
    Selections <- BothFolders
    Jobs = {1}
    MaxJobs = 1
    Nobody = Nobody
    MaxWrites = 2
INVARIANTS
    RetryCompletes
    BulkReadsConsistent
    CancelStopsSoon
