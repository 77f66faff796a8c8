CONSTANTS
    CH = 1
    FadeTime = {0, 20}
    Dim = {0, 255}
    At = {2000, 5000}
    Cp = 713
SPECIFICATION FairSpec
INVARIANT TypeOK
INVARIANT WithinPeriodUnlessWrapped
 
CHECK_DEADLOCK FALSE
