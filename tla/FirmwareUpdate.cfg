CONSTANTS
    current = current  new = new  long = long
    node = node  other = other
    Erased = Erased  Garbage = Garbage  Blank = Blank
    Firmware <- MCFirmware
    FileLen <- MCFileLen
    Product <- MCProduct
    N = 2
    NamePage = 2
    MaxFaults = 2
SPECIFICATION Spec
INVARIANT TypeOK
INVARIANT AcceptedIsComplete
INVARIANT RecoverySource
PROPERTY InstallOnlyAccepted
PROPERTY NoChangeUnderRecord
PROPERTY KeepsPromise
CHECK_DEADLOCK FALSE
