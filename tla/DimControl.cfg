CONSTANTS
    DIM_MAX = 2
    DIM_ELS = 1
    MINUTE = 2
    CALLS = 1
    PutLevel = {4}
    MaxRequests = 2
    Stored <- MCStored
    SensorEvent <- Sensor
    RequestEvent <- Request
SPECIFICATION Spec
INVARIANTS   OutageUndone
PROPERTIES EffectOfAll
CHECK_DEADLOCK FALSE
