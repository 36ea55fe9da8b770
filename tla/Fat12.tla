------------------------------- MODULE Fat12 -------------------------------
(***************************************************************************)
(* The boot loader's way to the kernel: readBootSector, loadRoot and       *)
(* loadFile of src/boot/amd64/fs/fat.cpp, as setup64 calls them, on the    *)
(* disk that SectorDevice describes.                                       *)
(*                                                                         *)
(* Memory is seen in blocks of a sector's size; of each the model keeps    *)
(* which sector was copied there.  What a sector means is decided by its   *)
(* place on the disk.  The numbers of the boot sector are those of         *)
(* src/boot/bootsect.s.  MaxBlocks bounds how long a file may grow before  *)
(* the model stops.  Definitions whose comment starts "Mistake" are not    *)
(* part of the model: each is an error that would break a property.        *)
(***************************************************************************)
EXTENDS DiskGeometry, Sequences

CONSTANTS
    Disks,      \* [slot, chain, end, rest]: see Entry and Here
    Absent,     \* the slot of a file that is not there
    None,       \* no sector
    MaxBlocks   \* blocks loaded before the model stops

LastWord == 65535
LastCluster == 2848
Words == 0..LastWord
Entries == 0..4095
Clusters == 2..LastCluster
EndMarks == 4088..4095

\* Clusters that exist, each once, an end mark, entries of twelve bits.
WellFormed(d) ==
    /\ d.slot \in 0..223 \cup {Absent}
    /\ d.chain \in Seq(Clusters) /\ d.chain # <<>>
    /\ \A j, k \in DOMAIN d.chain : d.chain[j] = d.chain[k] => j = k
    /\ d.end \in EndMarks /\ d.rest \in Entries

ASSUME DisksAssumption ==
    /\ MaxBlocks \in Nat
    /\ None \notin Words /\ Absent \notin 0..223
    /\ \A d \in Disks : WellFormed(d)

VARIABLES
    disk,       \* the disk in the drive
    up, want, got,  \* the driver: see SectorDevice
    reading,    \* FDCReadSector_LBA is running
    pc,         \* the function's part that is running
    n,          \* its loop's counter
    memory,     \* the sector last copied to each block
    cluster,
    result      \* what loadFile returned, or None

device == <<up, want, got>>
vars == <<disk, device, reading, pc, n, memory, cluster, result>>

Device == INSTANCE SectorDevice WITH Sectors <- Lbas

-----------------------------------------------------------------------------
(***************************************************************************)
(* The file allocation table: 12 bits an entry, two entries in three bytes.*)
(***************************************************************************)
\* Byte i of the table whose entries are t.
FatByte(t, i) ==
    LET e == 2 * (i \div 3) IN
    IF i % 3 = 0 THEN t[e] % 256
    ELSE IF i % 3 = 1 THEN (t[e] \div 256) + 16 * (t[e + 1] % 16)
    ELSE t[e + 1] \div 16

FatIndex(c) == (c * 3) \div 2

\* The entry of cluster c, from the word at FatIndex(c).  Mistakes: the halves
\* are swapped; the neighbour's half byte is not masked off.
DecodeUnmasked(c, word) == IF c % 2 = 0 THEN word ELSE word \div 16
DecodeSwapped(c, word) == IF c % 2 = 1 THEN word % 4096 ELSE word \div 16
Decode(c, word) == IF c % 2 = 0 THEN word % 4096 ELSE word \div 16

\* Mistake: only one of the marks that may end a chain is known.
IsLastMark(c) == c >= 4095
IsLast(c) == c >= 4088

-----------------------------------------------------------------------------
(***************************************************************************)
(* The disk: a file whose clusters are chain, ended by the mark end.  The  *)
(* entries of all other clusters are rest.                                 *)
(***************************************************************************)
bytesPerSector == 512
clusterSize == 1
reservedSectors == 1
FATCount == 2
directoryEntryCount == 224
sectorsPerFat == 9
EntrySize == 32

FatSectors == FATCount * sectorsPerFat
RootStart == FatSectors + reservedSectors
RootSectors == (EntrySize * directoryEntryCount) \div bytesPerSector
DataStart == RootStart + RootSectors

\* Where the format puts a cluster.
Place(c) == DataStart + (c - 2) * clusterSize

Entry(c) ==
    IF c = 0 THEN 4080
    ELSE IF \E k \in DOMAIN disk.chain : disk.chain[k] = c
    THEN LET k == CHOOSE k \in DOMAIN disk.chain : disk.chain[k] = c IN
         IF k = Len(disk.chain) THEN disk.end ELSE disk.chain[k + 1]
    ELSE IF c = 1 THEN 4095 ELSE disk.rest

Table == [c \in Nat |-> Entry(c)]

-----------------------------------------------------------------------------
(***************************************************************************)
(* Memory.                                                                 *)
(***************************************************************************)
BootSectorData == 86016     \* 0x15000
rootDirectory == 90112      \* 0x16000
FAT == 65536                \* 0x10000
Kernel == 131072            \* 0x20000

Block(address) == address \div bytesPerSector

\* The sector a byte of memory comes from, or None.
Origin(address) ==
    IF Block(address) \in DOMAIN memory THEN memory[Block(address)] ELSE None

\* A byte of the table in memory; either copy of the table will do.
ByteAt(address) ==
    LET s == Origin(address) IN
    IF s \in 1..FatSectors
    THEN FatByte(Table, ((s - 1) % sectorsPerFat) * bytesPerSector
                          + (address % bytesPerSector))
    ELSE 0

WordAt(address) == ByteAt(address) + 256 * ByteAt(address + 1)

\* cmpFile: memory holds the file's entry where loadFile looks for entry i.
Here(i) ==
    LET a == rootDirectory + i * EntrySize
        s == Origin(a)
    IN  /\ s \in RootStart..(DataStart - 1)
        /\ disk.slot = (s - RootStart) * (bytesPerSector \div EntrySize)
                         + (a % bytesPerSector) \div EntrySize

-----------------------------------------------------------------------------
Init ==
    /\ disk \in Disks
    /\ Device!Init
    /\ reading = FALSE
    /\ pc = "boot"
    /\ n = 0
    /\ memory = <<>>
    /\ cluster = 0
    /\ result = None

\* FDCReadSector_LBA is called; its second parameter is a word.
Read(lba) ==
    /\ ~ reading
    /\ Device!Ask(lba % 65536)
    /\ reading' = TRUE
    /\ UNCHANGED <<disk, pc, n, memory, cluster, result>>

\* It has returned and what it read is copied.
Copy(address) ==
    /\ reading
    /\ want = None
    /\ reading' = FALSE
    /\ memory' = [b \in DOMAIN memory \cup {Block(address)} |->
                    IF b = Block(address) THEN got ELSE memory[b]]

\* The next turn of a loop, or the next part.
Loop(limit, next) ==
    IF n + 1 < limit THEN n' = n + 1 /\ pc' = pc ELSE n' = 0 /\ pc' = next

readBootSector ==
    /\ pc = "boot"
    /\ \/ Read(0)
       \/ /\ Copy(BootSectorData)
          /\ pc' = "root"
          /\ UNCHANGED <<disk, device, n, cluster, result>>

\* g_rootDirectory points to entries, so the offset is scaled by their size.
loadRoot ==
    /\ pc = "root"
    /\ \/ Read(RootStart + n)
       \/ /\ Copy(rootDirectory + EntrySize * (n * bytesPerSector))
          /\ Loop(RootSectors - 4, "search")
          /\ UNCHANGED <<disk, device, cluster, result>>

FirstCluster == disk.chain[1]

search ==
    /\ pc = "search"
    /\ IF \E i \in 0..(directoryEntryCount - 1) : Here(i)
       THEN pc' = "fat" /\ cluster' = FirstCluster /\ UNCHANGED result
       ELSE pc' = "done" /\ result' = 0 /\ UNCHANGED cluster
    /\ UNCHANGED <<disk, device, reading, n, memory>>

\* Mistake: the sector after the boot sector is taken for sector 0.
FatSectorZero(i) == i
FatSector(i) == i + 1

loadFat ==
    /\ pc = "fat"
    /\ \/ Read(FatSector(n))
       \/ /\ Copy(FAT + n * bytesPerSector)
          /\ Loop(FatSectors, "file")
          /\ UNCHANGED <<disk, device, cluster, result>>

ClusterSector(c) == 33 + (c - 2) * clusterSize

loadCluster ==
    /\ pc = "file"
    /\ n < MaxBlocks
    /\ \/ Read(ClusterSector(cluster))
       \/ /\ Copy(Kernel + n * clusterSize * bytesPerSector)
          /\ cluster' = Decode(cluster, WordAt(FAT + FatIndex(cluster)))
          /\ IF IsLast(cluster')
             THEN pc' = "done" /\ result' = Kernel /\ UNCHANGED n
             ELSE n' = n + 1 /\ UNCHANGED <<pc, result>>
          /\ UNCHANGED <<disk, device>>

\* FDCInitialize, and the driver at work.
Driver == /\ Device!ComeUp \/ Device!Answer
          /\ UNCHANGED <<disk, reading, pc, n, memory, cluster, result>>

Next == \/ Driver
        \/ readBootSector \/ loadRoot \/ search \/ loadFat \/ loadCluster

\* One processor runs the loader; the driver answers (SectorDevice).
Spec == Init /\ [][Next]_vars /\ WF_vars(Next)

-----------------------------------------------------------------------------
(***************************************************************************)
(* Properties.                                                             *)
(***************************************************************************)
\* Every variable has its type; a cluster is 12 bits wide.
TypeOK ==
    /\ disk \in Disks
    /\ up \in BOOLEAN /\ reading \in BOOLEAN
    /\ want \in Words \cup {None} /\ got \in Words \cup {None}
    /\ pc \in {"boot", "root", "search", "fat", "file", "done"}
    /\ n \in 0..MaxBlocks \cup 0..FatSectors
    /\ cluster \in Entries
    /\ \A b \in DOMAIN memory : memory[b] \in Words

\* The driver is only used as it promises to work: once it is up, for one
\* sector of the disk at a time.  A wrong step along the chain soon leads off
\* the disk.
KeepsContract == [][Device!Next]_device

\* loadRoot puts the directory's first sector where loadFile looks, and each of
\* the others 16 KB further on.
Seen == 0..15

\* loadFile's answer is right: the file is in memory from Kernel on, cluster
\* after cluster, exactly if its entry is among those that can be seen.
\* Nothing that was still needed has been overwritten on the way.
Loaded ==
    pc = "done" =>
      IF disk.slot \notin Seen THEN result = 0
      ELSE /\ result = Kernel
           /\ n + 1 = Len(disk.chain)
           /\ \A k \in DOMAIN disk.chain :
                Origin(Kernel + (k - 1) * bytesPerSector) = Place(disk.chain[k])

\* The loader is done some time: it stops at the end of the chain.
Finishes == <>(pc = "done")
=============================================================================
