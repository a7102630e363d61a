\* Low watermark 0 (a pool that may shrink to nothing): fetch() on the
\* emptied pool.
CONSTANTS
    WmLow = 0
    WmHigh = 3
    Policy = "basic"
    GrowthSize = 1
    Null = Null
    Undefined = Undefined
SPECIFICATION RPSpec
INVARIANT FetchDefined
