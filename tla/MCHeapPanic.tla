---------------------------- MODULE MCHeapPanic ----------------------------
EXTENDS HeapPanic

MCZeros == [len |-> 0, next |-> 0, prev |-> 0, nextFree |-> 0, prevFree |-> 0,
            free |-> FALSE]
\* Interrupt vectors, as a header a long free segment that points anywhere.
MCVectors == [len |-> 60000, next |-> 61440, prev |-> 61523, nextFree |-> 61440,
              prevFree |-> 61523, free |-> TRUE]
MCLowMemory == {MCZeros, MCVectors}
MCSizes == {64, 128}
MCCounts == {0, 1, 65533, 65534, 65535}
\* One sector, and counts of -1 and -2 sectors.
MCRanges == {<<7, 7>>, <<0, 2>>, <<0, 3>>}
=============================================================================
