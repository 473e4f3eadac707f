SPECIFICATION EditsSpec
CONSTANTS
    Velocities = {v1, v2}
    Pages = {p1, p2}
    MaxOps = 3
    None = None
SYMMETRY Symmetry
\* Pages stay open when the bound is reached.
CHECK_DEADLOCK FALSE
INVARIANTS
    EditsTrue
    OutdatedReported
PROPERTIES
    UpdateAllOrNothing
