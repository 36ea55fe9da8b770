SPECIFICATION PanicSpec
CONSTANTS
    Base = 4096
    Length = 680
    Hdr = 48
    Word = 65536
    Sizes <- MCSizes
    Counts <- MCCounts
    LowMemory <- MCLowMemory
    Ranges <- MCRanges
    SectorSize = 128
    MessageSize = 64
INVARIANTS InsideBlock MessageFound
PROPERTIES ReadsEnd StatementsAgree
CHECK_DEADLOCK FALSE
