----------------------------- MODULE MCDiskRead -----------------------------
EXTENDS DiskRead

MCZeros == [len |-> 0, next |-> 0, prev |-> 0, nextFree |-> 0, prevFree |-> 0,
            free |-> FALSE]
MCLowMemory == {MCZeros}
MCSizes == {8, 64}
MCCounts == {0, 1}
MCTwoSectors == {<<0, 1>>}
=============================================================================
