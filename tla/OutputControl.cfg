CONSTANTS
    NUM_ACTUATORS = 2
    Level = {0}
SPECIFICATION Spec
INVARIANT TypeOK
INVARIANT Exclusive
INVARIANT DelayIsOff
INVARIANT FollowsMode
PROPERTY RequestServed
