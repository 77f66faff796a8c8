CONSTANTS
    mode = mode  cluster = cluster  cv = cv
    short = short  longer = longer  long = long
    Key = {mode, cluster, cv}
    Value = {short, long, longer}
    Order <- MCOrder
    LengthOf <- MCLengthOf
    Default <- MCDefault
    EEPROM_SIZE = 11
    BlankLength = {}
    MaxFaults = 0
SPECIFICATION StorageSpec
INVARIANT FoundFreeSpace
