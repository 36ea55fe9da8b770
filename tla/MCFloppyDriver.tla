--------------------------- MODULE MCFloppyDriver ---------------------------
EXTENDS FloppyDriver

\* Both ends of a track, of a cylinder and of the disk.
MCSectors == {0, 17, 18, 36, 2879}
=============================================================================
