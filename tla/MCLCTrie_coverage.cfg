\* Mixed prefix lengths /1../W: search() must find every covered address.
CONSTANTS
    W = 3
    FillNum = 1
    FillDen = 2
    RootBranch = 0
    Capacity = 4
    Lens = {1, 2, 3}
    Inputs <- MCInputs
    FileInputs <- MCFileInputs
    Requested <- MCRequested
    Rebuild = FALSE
    LoadFaults = {}
    SaveFaults = {OpenFailed}
    OpenFailed = OpenFailed
    NoStats = NoStats
    NoFile = NoFile
SPECIFICATION Spec
INVARIANT Coverage
