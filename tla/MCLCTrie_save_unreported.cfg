\* A write error part-way through save().
CONSTANTS
    W = 3
    FillNum = 1
    FillDen = 2
    RootBranch = 0
    Capacity = 4
    Lens = {3}
    Inputs <- MCInputs
    FileInputs <- MCFileInputs
    Requested <- MCRequested
    Rebuild = FALSE
    LoadFaults = {}
    SaveFaults = {OpenFailed, 0, 1, 2, 3, 4}
    OpenFailed = OpenFailed
    NoStats = NoStats
    NoFile = NoFile
SPECIFICATION Spec
INVARIANT SaveReportsFailure
