CONSTANTS
    mode = mode  cluster = cluster  cv = cv
    short = short  long = long  longer = longer
    Key = {mode, cluster, cv}
    Value = {short, long, longer}
    Order <- MCOrder
    LengthOf <- MCLengthOf
    Default <- MCDefault
    BlankLength = {1, 20}
    EEPROM_SIZE = 11
    MaxFaults = 2
SPECIFICATION StorageSpec
INVARIANT SettingsStored
PROPERTY NeighboursKept
PROPERTY KeepsSettings
CONSTRAINT NotMisled
