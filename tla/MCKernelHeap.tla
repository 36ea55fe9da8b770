---------------------------- MODULE MCKernelHeap ----------------------------
EXTENDS KernelHeap

\* What page 0 may hold: zeros, or the gates that sidt/fillIDT leave there.
Zeros == [len |-> 0, next |-> 0, prev |-> 0, nextFree |-> 0, prevFree |-> 0,
          free |-> FALSE]
Gates == [len |-> 60000, next |-> 0, prev |-> 50001, nextFree |-> 0,
          prevFree |-> 50002, free |-> FALSE]
MCLowMemory == {Zeros, Gates}
MCSizes == {0, 41, 96}
MCCounts == {2}
=============================================================================
