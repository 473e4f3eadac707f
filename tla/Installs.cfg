SPECIFICATION InstallsSpec
CONSTANTS
    Order <- MCOrder
    Version = "inc"
    Added = {"new"}
    Revisions <- MCRevisions
    Updaters = {u1, u2}
    MaxEdits = 1
    MaxCrashes = 1

    Importers = {"bosz", "phoenix"}
    Batches <- MCBatches
    NoFolder = NoFolder
    Vacant = Vacant
    Foreign = Foreign
    MaxFolders = 1
    MaxKills = 1

    Root <- MCRoot
    Depth = 1
    Pages <- MCPages
    Archives <- MCArchives
    FileOf <- MCFileOf
    Spectra = {"m1", "m1cont", "m3", "m4"}
    Broken = {"torn"}
    Categories <- MCCategories
    Wanted = {"flux", "uv"}
    Matching = {"flux", "uv", "far", "other"}
    Specific = FALSE
    Missing = Missing
    Partial = Partial
    MaxRuns = 2
    MaxErrors = 1
    MaxHalts = 1
    MaxReleases = 1

    ModelPaths = {"a", "b", "c"}
    Shelf = "shelf"
    FileNames = {"VADAT", "HOUT", "BAMAT", "batch.sh"}
    Markers = {"VADAT", "GAMMAS"}
    Required = {"VADAT", "GAMMAS_IN"}
    Optional = {"batch.sh"}
    Outputs = {"HOUT", "GAMMASOUT"}
    Observer = {"obs/PARAM"}
    Cleanable = {"BAMAT"}
    Setup <- MCSetup
    Input <- MCInput
    Initially <- MCInitially
    Clerks = {c1, c2}
    Jobs <- MCJobs
    None = None
    Refusal = Refusal
    MaxActs = 1
SYMMETRY Symmetry
\* Updates, imports, downloads and requests end.
CHECK_DEADLOCK FALSE
INVARIANTS
    SourcesTrue
    GridsTrue
    FoldersTrue
PROPERTIES
    FailureRestoresSource
