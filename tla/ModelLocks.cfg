SPECIFICATION Spec
CONSTANTS
    Clients = {p1, p2, p3}
    Inodes = {i1, i2, i3}
    None = None
SYMMETRY Symmetry
PROPERTY ImplementsOwnership
INVARIANTS
    LockInv
    MutualExclusion
    RunExclusive
    OwnerVisible
    AcceptedCopyStable
