SPECIFICATION CompactSpec
CONSTANTS
    Base = 4096
    Length = 352
    Hdr = 48
    Word = 65536
    Sizes <- MCSizes
    Counts <- MCCounts
    LowMemory <- MCLowMemory
INVARIANTS TypeOK HeapInv BlocksApart NoFault Coalesced
PROPERTIES AllocatorSpec
CHECK_DEADLOCK FALSE
