CONSTANTS
    PAGE = 2
    REGION = 14
    BODY = 17
    Header = {1, 2, 7}
SPECIFICATION Spec
INVARIANT ReadsNextChunk
CHECK_DEADLOCK FALSE
