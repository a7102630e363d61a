\* build() called again on an object that holds a trie.
CONSTANTS
    W = 3
    FillNum = 1
    FillDen = 2
    RootBranch = 0
    Capacity = 4
    Lens = {3}
    Inputs <- MCInputs
    FileInputs <- MCFileInputs
    Requested <- MCRequested
    Rebuild = TRUE
    LoadFaults = {}
    SaveFaults = {OpenFailed}
    OpenFailed = OpenFailed
    NoStats = NoStats
    NoFile = NoFile
SPECIFICATION Spec
PROPERTY Refinement
