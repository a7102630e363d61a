\* A ring buffer of 3 one-byte elements (T = char) written and read up to 2
\* at a time; an LRU cache of 3 keys, item sizes 1..3 and limits 2 and 3;
\* bloom filters for one element at a false-positive rate of 0.25, which
\* compute_k_and_b sizes to 3 buckets and 2 hashes, over 3 keys whose hash
\* chains share buckets (1: <<2, 0>>, 2: <<0, 0>>, 3: <<0, 2>>), with
\* uint8_t counters, each key held at most twice, a clock of 0..3 and
\* timeouts of 0..2; a synchronizer with three readers, one counted by the
\* constructor and two the writer adds, before or after its first sync;
\* three threads opening lock scopes on one mutex and one rwlock; a
\* working set estimator of two intervals of one element each at rate
\* 0.25, with and without an adaptive buffer of 50%; ipv6 halves of 3
\* bits; an LC-trie of 3-bit addresses built from prefixes /1 to /3 (the
\* mixed-length inputs where replication and neighbour copying happen); alias
\* tables of every pmf of up to 3 outcomes of weights 0..2, sampled with
\* mt_rand() in 0..15; a config_file_parser whose parent-type callbacks
\* register the sub-type's, parsing up to two files of groups nested two
\* deep.
\* TLC's integers are 32-bit signed, so cur_size is 16 bits wide here; no
\* reachable sum comes near either width.
CONSTANTS
    Size = 3
    ElemSize = 1
    Values = {1, 2}
    MaxN = 2
    Keys = {k1, k2, k3}
    Sizes = {1, 2, 3}
    Limits = {2, 3}
    Width = 16
    BKeys = {1, 2, 3}
    NumElements = 1
    FPRate = 25000000
    CounterMax = 255
    MaxCopies = 2
    MaxTime = 3
    Timeouts = {0, 1, 2}
    Readers = {r1, r2, r3}
    Preset = {r1}
    Writer = w
    LThreads = {t1, t2, t3}
    NoThread = NoThread
    NumIntervals = 2
    PerInterval = 1
    AdaptivePcts = {0, 50}
    H = 3
    W = 3
    FillNum = 1
    FillDen = 2
    RootBranch = 0
    Capacity = 4
    Inputs <- MCInputs
    FileInputs <- MCFileInputs
    Requested <- MCRequested
    Rebuild = FALSE
    LoadFaults = {}
    SaveFaults = {OpenFailed}
    OpenFailed = OpenFailed
    NoStats = NoStats
    NoFile = NoFile
    R = 15
    Parent = P
    Sub = S
    Labels = {x}
    MaxDepth = 2
    MaxContent = 1
    MaxParses = 2
    MaxCallbacks = 1
SPECIFICATION Spec
CONSTRAINT CountingBounded
INVARIANT RBTypeOK
INVARIANT InBounds
INVARIANT SizeAccounting
INVARIANT SizingMeetsRate
INVARIANT CountersMatchMembers
INVARIANT TimeoutNoFalseNegatives
 
INVARIANT HoldersSeeNoForeignWrite
INVARIANT SizeUnderestimates
INVARIANT IPv6OpsMatchReference
INVARIANT SearchSafe
INVARIANT AliasTablesMatchPMF
INVARIANT SampleHasMass
INVARIANT ExitGetsOwnGroup
PROPERTY FifoRefinement
PROPERTY NewInsertWithinLimit
PROPERTY StartBarrierReleases
PROPERTY SyncRoundCompletes
