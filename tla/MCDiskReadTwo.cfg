SPECIFICATION DiskSpec
CONSTANTS
    Base = 4096
    Length = 520
    Hdr = 48
    Word = 65536
    Sizes <- MCSizes
    Counts <- MCCounts
    LowMemory <- MCLowMemory
    Ranges <- MCTwoSectors
    SectorSize = 64
INVARIANTS InsideBlock
CHECK_DEADLOCK FALSE
