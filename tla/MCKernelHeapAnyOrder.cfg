SPECIFICATION Spec
CONSTANTS
    Base = 4096
    Length = 300
    Hdr = 48
    Word = 65536
    Sizes <- MCSizes
    Counts <- MCCounts
    LowMemory <- MCLowMemory
INVARIANTS BlocksApart
CHECK_DEADLOCK FALSE
