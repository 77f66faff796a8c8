CONSTANTS
    MAX_RX_BUF = 7
    MAX_PRPH_BUF = 3
    MAX_FALSE = 1
    COUNT = 3
    Packet <- Sent
    MaxReceptions = 5
SPECIFICATION Spec
INVARIANTS TypeOK
PROPERTIES HandsOnWhole 
CHECK_DEADLOCK FALSE
