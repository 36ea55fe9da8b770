---------------------------- MODULE MCBootMemory ----------------------------
EXTENDS BootMemory

\* One region, and what a BIOS may report.  A small file, and the 59 clusters
\* of bin/kernel.bin.
MCRegions == {1, 6}
MCClusters == {1, 59}
=============================================================================
