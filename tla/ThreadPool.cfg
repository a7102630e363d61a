\* Four jobs over a pool of one to three worker threads with the basic
\* sizing policy.
CONSTANTS
    WmLow = 1
    WmHigh = 3
    Policy = "basic"
    GrowthSize = 1
    Null = Null
    Undefined = Undefined
    Jobs = {1, 2, 3, 4}
SPECIFICATION Spec
INVARIANT TPTypeOK
INVARIANT JobConservation
INVARIANT PoolConservation
INVARIANT PoolWithinWatermarks
INVARIANT JobsWaitOnlyWhenExhausted
PROPERTY CompletionsCalledBack
