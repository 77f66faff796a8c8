CONSTANTS
    current = current  new = new  long = long
    node = node  other = other
    Erased = Erased  Garbage = Garbage  Blank = Blank
    Firmware <- MCSmall
    FileLen <- MCSmallLen
    Product <- MCSmallProduct
    N = 2
    NamePage = 2
    MaxFaults = 1
SPECIFICATION FairSpec
PROPERTY DownloadEnds
PROPERTY BootEnds
PROPERTY AcceptedIsInstalled
CHECK_DEADLOCK FALSE
