\* One job over a pool of one worker thread: the first fetch creates the
\* thread and run_job signals it at once.
CONSTANTS
    WmLow = 1
    WmHigh = 1
    Policy = "basic"
    GrowthSize = 1
    Null = Null
    Undefined = Undefined
    Jobs = {1}
SPECIFICATION Spec

PROPERTY JobsComplete
