\* Host-address prefix lists (every entry /W), each built into a fresh
\* object, with save and load over a reliable disk.
CONSTANTS
    W = 3
    FillNum = 1
    FillDen = 2
    RootBranch = 0
    Capacity = 4
    Lens = {3}
    Inputs <- MCInputs
    FileInputs <- MCFileInputs
    Requested <- MCRequested
    Rebuild = FALSE
    LoadFaults = {}
    SaveFaults = {OpenFailed}
    OpenFailed = OpenFailed
    NoStats = NoStats
    NoFile = NoFile
SPECIFICATION Spec
INVARIANT TypeOK
INVARIANT SearchSafe
INVARIANT StatsCacheCoherent
PROPERTY Refinement
