SPECIFICATION FairSpec
CONSTANTS
    m1 = m1
    m2 = m2
    Models = {m1}
    Worked = {}
    Selections <- OneFolder
    Jobs = {1, 2, 3}
    MaxJobs = 2
    Nobody = Nobody
    MaxWrites = 0
PROPERTIES
    ImplementsLifecycle
    SlotFrees
