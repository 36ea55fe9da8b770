---------------------------- MODULE MCInterrupts ----------------------------
EXTENDS Interrupts

\* The timer, the floppy and a line of the second 8259.
MCSources == {0, 6, 12}
MCFaults == {0, 14}
MCDelays == {9, 20}
=============================================================================
