SPECIFICATION Spec
CONSTANTS
    Models <- MCModels
    Scenes <- MCScenes
    MaxAttempts = 4
    MaxIterations = 9
    BatchIterations = 2
    MaxFaults = 1
VIEW MCView
INVARIANTS
    RecoveryUsable
    EndedCoupled
    SolverReady

    
