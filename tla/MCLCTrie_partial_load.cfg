\* A read error part-way through load().
CONSTANTS
    W = 3
    FillNum = 1
    FillDen = 2
    RootBranch = 0
    Capacity = 4
    Lens = {3}
    Inputs <- MCInputs
    FileInputs <- MCFileInputs
    Requested <- MCRequested
    Rebuild = FALSE
    LoadFaults = {0, 1, 2, 3, 4}
    SaveFaults = {OpenFailed}
    OpenFailed = OpenFailed
    NoStats = NoStats
    NoFile = NoFile
SPECIFICATION Spec
PROPERTY FailedCallLeavesObject
