CONSTANTS
    Task = {app, cmd}
    NONE = NONE
    MAX_ROUNDS = 2
SPECIFICATION FairSpec
INVARIANT TypeOK
INVARIANT NeverLost
INVARIANT OneChipSelected
PROPERTY OperationEnds
