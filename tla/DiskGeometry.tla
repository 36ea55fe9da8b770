---------------------------- MODULE DiskGeometry ----------------------------
(***************************************************************************)
(* Where a sector of a 1.44M floppy lies: convertToCHS of                  *)
(* src/kernel/hal/disk.cpp, lba_2_chs of the boot loader's fdc.cpp, and    *)
(* LBAtoCHS of the boot sector, src/boot/bootsect.s.                       *)
(* SectorFromZero is not part of the model: it is a mistake the code could *)
(* have made.                                                              *)
(***************************************************************************)
EXTENDS Integers

\* FLOPPY_144_SECTORS_PER_TRACK, and the 2 heads the divisors stand for.
SectorsPerTrack == 18
Heads == 2
Cylinders == 80

Lbas == 0..(Cylinders * Heads * SectorsPerTrack - 1)

Byte(n) == n % 256

\* The fields of CHS are bytes; sectors are counted from 1.
CylOf(lba) == Byte(lba \div (Heads * SectorsPerTrack))
HeadOf(lba) == Byte((lba % (Heads * SectorsPerTrack)) \div SectorsPerTrack)
SectorFromZero(lba) ==
    Byte((lba % (Heads * SectorsPerTrack)) % SectorsPerTrack)
SectorOf(lba) ==
    Byte(((lba % (Heads * SectorsPerTrack)) % SectorsPerTrack) + 1)

convertToCHS(lba) == [cyl |-> CylOf(lba), head |-> HeadOf(lba),
                      sector |-> SectorOf(lba)]

\* LBAtoCHS of the boot sector: ch, dh and cl from the word ax; the cylinder's
\* high bits go to the top of cl.
LBAtoCHS(ax) ==
    LET track == ax \div SectorsPerTrack
        cylinder == track \div Heads
    IN  [cyl |-> Byte(cylinder), head |-> track % Heads,
         sector |-> (ax % SectorsPerTrack) + 1
                      + Byte((cylinder \div 256) * 64)]

\* The sector a disk has at a place.
LbaAt(cyl, head, sector) ==
    (cyl * Heads + head) * SectorsPerTrack + sector - 1

\* The last parameter of READ DATA but two: the controller passes on to the
\* other head after this sector.
EndOfTrack(sector) ==
    IF sector + 1 >= SectorsPerTrack THEN SectorsPerTrack ELSE sector + 1
=============================================================================
