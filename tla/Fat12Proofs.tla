---------------------------- MODULE Fat12Proofs ----------------------------
(***************************************************************************)
(* The 12-bit entries of the file allocation table are read back as they   *)
(* are stored, for every table and every cluster; and with that, for every *)
(* disk, the loader has the file in memory when it says so, and never asks *)
(* the driver for what it does not promise.                                *)
(***************************************************************************)
EXTENDS Fat12, TLAPS

\* Of an even cluster, the first byte and the low half of the second.
LEMMA EvenEntry ==
  ASSUME NEW a \in Entries, NEW b \in Entries
  PROVE  ((a % 256) + 256 * ((a \div 256) + 16 * (b % 16))) % 4096 = a
  BY DEF Entries

\* Of an odd cluster, the high half of the second byte and the third.
LEMMA OddEntry ==
  ASSUME NEW a \in Entries, NEW b \in Entries
  PROVE  ((a \div 256) + 16 * (b % 16) + 256 * (b \div 16)) \div 16 = b
  BY DEF Entries

\* loadFile's two branches give the entry of the cluster, whatever the entry
\* it shares a byte with.
THEOREM DecodeCorrect ==
  ASSUME NEW t \in [Nat -> Entries], NEW c \in Nat
  PROVE  Decode(c, FatByte(t, FatIndex(c)) + 256 * FatByte(t, FatIndex(c) + 1))
           = t[c]
<1>1. CASE c % 2 = 0
  <2>1. PICK k \in Nat : c = 2 * k
    BY <1>1
  <2>2. /\ FatIndex(c) = 3 * k
        /\ (3 * k) % 3 = 0 /\ (3 * k) \div 3 = k
        /\ (3 * k + 1) % 3 = 1 /\ (3 * k + 1) \div 3 = k
    BY <2>1 DEF FatIndex
  <2>3. /\ FatByte(t, FatIndex(c)) = t[c] % 256
        /\ FatByte(t, FatIndex(c) + 1) = (t[c] \div 256) + 16 * (t[c + 1] % 16)
    BY <2>1, <2>2 DEF FatByte
  <2>4. t[c] \in Entries /\ t[c + 1] \in Entries
    OBVIOUS
  <2> QED
    BY <1>1, <2>3, <2>4, EvenEntry DEF Decode
<1>2. CASE c % 2 = 1
  <2>1. PICK k \in Nat : c = 2 * k + 1
    BY <1>2
  <2>2. /\ FatIndex(c) = 3 * k + 1
        /\ (3 * k + 1) % 3 = 1 /\ (3 * k + 1) \div 3 = k
        /\ (3 * k + 2) % 3 = 2 /\ (3 * k + 2) \div 3 = k
    BY <2>1 DEF FatIndex
  <2>3. /\ FatByte(t, FatIndex(c)) = (t[2 * k] \div 256) + 16 * (t[c] % 16)
        /\ FatByte(t, FatIndex(c) + 1) = t[c] \div 16
    BY <2>1, <2>2 DEF FatByte
  <2>4. t[2 * k] \in Entries /\ t[c] \in Entries
    OBVIOUS
  <2> QED
    BY <1>2, <2>3, <2>4, OddEntry DEF Decode
<1> QED
  BY <1>1, <1>2
-----------------------------------------------------------------------------
(***************************************************************************)
(* The loader.                                                             *)
(***************************************************************************)
\* The sector the running loop is about.
Current == IF pc = "boot" THEN 0
           ELSE IF pc = "root" THEN RootStart + n
           ELSE IF pc = "fat" THEN FatSector(n)
           ELSE ClusterSector(cluster)

\* One sector at a time is asked for, and it is the loop's.
Asked ==
    /\ ~ reading => want = None
    /\ reading => /\ pc \in {"boot", "root", "fat", "file"}
                  /\ up
                  /\ \/ want = Current
                     \/ want = None /\ got = Current

\* Every loop within its bounds.
Counted ==
    /\ pc \in {"boot", "search"} => n = 0
    /\ pc = "root" => n \in 0..9
    /\ pc = "fat" => n \in 0..17

\* The root directory, while it is needed: only its first sector lies where
\* loadFile looks.
RootInMemory ==
    LET copied == IF pc = "root" THEN n ELSE 10 IN
    /\ pc = "boot" => DOMAIN memory = {}
    /\ pc \in {"root", "search"} =>
         /\ DOMAIN memory \subseteq
              {168} \cup {176 + 32 * m : m \in 0..(copied - 1)}
         /\ copied > 0 => 176 \in DOMAIN memory /\ memory[176] = RootStart
    /\ pc \in {"fat", "file"} => disk.slot \in Seen

\* The file allocation table.
FatInMemory ==
    LET copied == IF pc = "fat" THEN n ELSE FatSectors IN
    pc \in {"fat", "file"} =>
      \A m \in 0..(copied - 1) :
        128 + m \in DOMAIN memory /\ memory[128 + m] = FatSector(m)

\* The file: the first l clusters of the chain.
FileInMemory(l) ==
    \A k \in 1..l :
      256 + (k - 1) \in DOMAIN memory
        /\ memory[256 + (k - 1)] = Place(disk.chain[k])

\* Where loadFile stands in the chain.
InChain ==
    /\ pc = "fat" => cluster = disk.chain[1]
    /\ pc = "file" => /\ n < Len(disk.chain)
                      /\ cluster = disk.chain[n + 1]
                      /\ FileInMemory(n)
    /\ pc = "done" => \/ result = 0 /\ disk.slot \notin Seen
                      \/ /\ result = Kernel /\ disk.slot \in Seen
                         /\ n + 1 = Len(disk.chain)
                         /\ FileInMemory(n + 1)

\* All of it.
IInv == /\ TypeOK /\ Asked /\ Counted
        /\ RootInMemory /\ FatInMemory /\ InChain

\* What the boot sector's numbers come to.
LEMMA Numbers ==
  /\ FatSectors = 18 /\ RootStart = 19 /\ RootSectors = 14 /\ DataStart = 33
  BY DEF FatSectors, RootStart, RootSectors, DataStart, FATCount,
         sectorsPerFat, reservedSectors, EntrySize, directoryEntryCount,
         bytesPerSector, Lbas, Cylinders, Heads, SectorsPerTrack

\* Ranges, without their members one by one.
LEMMA Ranges ==
  ASSUME NEW x
  PROVE  /\ x \in Words <=> x \in Nat /\ x <= 65535
         /\ x \in Entries <=> x \in Nat /\ x <= 4095
         /\ x \in Clusters <=> x \in Nat /\ 2 <= x /\ x <= 2848
         /\ x \in EndMarks <=> x \in Nat /\ 4088 <= x /\ x <= 4095
         /\ x \in Lbas <=> x \in Nat /\ x <= 2879
<1> DEFINE last == Cylinders * Heads * SectorsPerTrack - 1
           top == 4095
<1>1. LastWord \in Nat /\ last \in Nat /\ top \in Nat /\ LastCluster \in Nat
  BY DEF LastWord, LastCluster, Cylinders, Heads, SectorsPerTrack
<1>2. LastWord = 65535 /\ last = 2879 /\ top = 4095 /\ LastCluster = 2848
  BY DEF LastWord, LastCluster, Cylinders, Heads, SectorsPerTrack
<1>3. Lbas = 0..last /\ Entries = 0..top
  BY Zenon DEF Lbas, last, Entries, top
<1> HIDE DEF last, top
<1>4. \A a, b \in Nat : x \in a..b <=> x \in Nat /\ a <= x /\ x <= b
  OBVIOUS
<1>5. x \in Words <=> x \in Nat /\ x <= 65535
  <2>1. x \in Words <=> x \in Nat /\ 0 <= x /\ x <= LastWord
    BY <1>1, <1>4, SMT DEF Words
  <2> QED
    BY <1>2, <2>1
<1>6. x \in Entries <=> x \in Nat /\ x <= 4095
  <2>1. x \in Entries <=> x \in Nat /\ 0 <= x /\ x <= top
    BY <1>1, <1>4, <1>3, SMT
  <2> QED
    BY <1>2, <2>1
<1>7. x \in Clusters <=> x \in Nat /\ 2 <= x /\ x <= 2848
  <2>1. x \in Clusters <=> x \in Nat /\ 2 <= x /\ x <= LastCluster
    BY <1>1, <1>4, SMT DEF Clusters
  <2> QED
    BY <1>2, <2>1
<1>8. x \in EndMarks <=> x \in Nat /\ 4088 <= x /\ x <= 4095
  BY DEF EndMarks
<1>9. x \in Lbas <=> x \in Nat /\ x <= 2879
  <2>1. x \in Lbas <=> x \in Nat /\ 0 <= x /\ x <= last
    BY <1>1, <1>4, <1>3, SMT
  <2> QED
    BY <1>2, <2>1
<1> QED
  BY <1>5, <1>6, <1>7, <1>8, <1>9

\* Where copies go.
LEMMA Blocks ==
  /\ Block(BootSectorData) = 168
  /\ \A m \in Nat : Block(rootDirectory + EntrySize * (m * bytesPerSector))
                      = 176 + 32 * m
  /\ \A m \in Nat : Block(FAT + m * bytesPerSector) = 128 + m
  /\ \A m \in Nat : Block(Kernel + m * clusterSize * bytesPerSector) = 256 + m
  BY DEF Block, BootSectorData, rootDirectory, EntrySize, bytesPerSector, FAT,
         Kernel, clusterSize

\* loadFile's 33 + cluster - 2 is the format's place, on the disk.
LEMMA Places ==
  ASSUME NEW c \in Clusters
  PROVE  ClusterSector(c) = Place(c) /\ Place(c) \in Lbas
  BY Numbers, Ranges DEF ClusterSector, Place, clusterSize

\* A chain's clusters.
LEMMA Chains ==
  ASSUME disk \in Disks
  PROVE  /\ Len(disk.chain) \in Nat \ {0}
         /\ DOMAIN disk.chain = 1..Len(disk.chain)
         /\ \A k \in 1..Len(disk.chain) : disk.chain[k] \in Clusters
         /\ disk.end \in EndMarks /\ disk.rest \in Entries
<1>1. WellFormed(disk)
  BY DisksAssumption
<1>2. disk.chain \in Seq(Clusters) /\ disk.chain # <<>>
  BY <1>1, Zenon DEF WellFormed
<1>3. disk.end \in EndMarks /\ disk.rest \in Entries
  BY <1>1, Zenon DEF WellFormed
<1> QED
  BY <1>2, <1>3

\* What the loops ask for is on the disk.
LEMMA CurrentOnDisk ==
  ASSUME IInv, pc \in {"boot", "root", "fat", "file"}
  PROVE  Current \in Lbas /\ Current # None
<1>1. Current \in Lbas
  <2>1. CASE pc = "boot"
    BY <2>1, Numbers, Ranges DEF Current
  <2>2. CASE pc = "root"
    <3>1. n \in 0..9
      BY <2>2 DEF IInv, Counted
    <3> QED
      BY <2>2, <3>1, Numbers, Ranges DEF Current
  <2>3. CASE pc = "fat"
    <3>1. n \in 0..17
      BY <2>3 DEF IInv, Counted
    <3> QED
      BY <2>3, <3>1, Numbers, Ranges DEF Current, FatSector
  <2>4. CASE pc = "file"
    <3>1. n \in Nat /\ n < Len(disk.chain) /\ cluster = disk.chain[n + 1]
      BY <2>4 DEF IInv, InChain, TypeOK, FatSectors, FATCount, sectorsPerFat
    <3>2. cluster \in Clusters
      BY <3>1, Chains DEF IInv, TypeOK
    <3> QED
      BY <2>4, <3>2, Places DEF Current
  <2> QED
    BY <2>1, <2>2, <2>3, <2>4
<1> QED
  BY <1>1, Numbers, Ranges, DisksAssumption

\* A copy adds one block to memory, of the sector asked for, and changes no
\* other.
LEMMA Copied ==
  ASSUME IInv, NEW a, Copy(a)
  PROVE  /\ up /\ reading' = FALSE /\ want = None
         /\ DOMAIN memory' = DOMAIN memory \cup {Block(a)}
         /\ memory'[Block(a)] = Current
         /\ \A b \in DOMAIN memory : b # Block(a) => memory'[b] = memory[b]
         /\ \A b \in DOMAIN memory' : memory'[b] \in Words
<1>1. /\ reading /\ want = None /\ reading' = FALSE
      /\ memory' = [b \in DOMAIN memory \cup {Block(a)} |->
                      IF b = Block(a) THEN got ELSE memory[b]]
  BY DEF Copy
<1>2. up /\ pc \in {"boot", "root", "fat", "file"}
      /\ (want = Current \/ (want = None /\ got = Current))
  BY <1>1 DEF IInv, Asked
<1>3. Current \in Lbas /\ Current # None
  BY <1>2, CurrentOnDisk
<1>4. got = Current /\ got \in Words
  BY <1>1, <1>2, <1>3, Numbers, Ranges
<1>5. \A b \in DOMAIN memory : memory[b] \in Words
  BY DEF IInv, TypeOK
<1> QED
  BY <1>1, <1>2, <1>4, <1>5

\* A loop asks the driver for its sector.
LEMMA ReadStep ==
  ASSUME IInv, pc \in {"boot", "root", "fat", "file"}, Read(Current)
  PROVE  IInv' /\ Device!Next
<1>1. Current \in Lbas /\ Current # None
  BY CurrentOnDisk
<1>2. Current % 65536 = Current
  BY <1>1, Numbers, Ranges
<1>3. /\ ~ reading /\ Device!Ask(Current) /\ reading' = TRUE
      /\ UNCHANGED <<disk, pc, n, memory, cluster, result>>
  BY <1>2 DEF Read
<1>4. up /\ up' = up /\ got' = got /\ want' = Current
  BY <1>3 DEF Device!Ask
<1>5. Asked'
  BY <1>3, <1>4 DEF Asked, Current
<1>6. TypeOK'
  BY <1>1, <1>3, <1>4, Numbers, Ranges DEF IInv, TypeOK
<1>7. Counted' /\ RootInMemory' /\ FatInMemory' /\ InChain'
  BY <1>3 DEF IInv, Counted, RootInMemory, FatInMemory, InChain, FileInMemory,
              Place
<1> QED
  BY <1>1, <1>3, <1>5, <1>6, <1>7 DEF IInv, Device!Next

\* The boot sector arrives.
LEMMA BootStep ==
  ASSUME IInv, readBootSector
  PROVE  IInv' /\ [Device!Next]_device
<1>1. pc = "boot" /\ n = 0
  BY DEF readBootSector, IInv, Counted
<1>2. CASE Read(0)
  <2>1. Current = 0
    BY <1>1 DEF Current
  <2> QED
    BY <1>1, <1>2, <2>1, ReadStep
<1>3. CASE /\ Copy(BootSectorData)
           /\ pc' = "root"
           /\ UNCHANGED <<disk, device, n, cluster, result>>
  <2>1. /\ reading' = FALSE /\ want = None
        /\ DOMAIN memory' = DOMAIN memory \cup {168}
        /\ \A b \in DOMAIN memory' : memory'[b] \in Words
    BY <1>3, Copied, Blocks
  <2>2. /\ pc' = "root" /\ n' = 0
        /\ UNCHANGED <<disk, up, want, got, cluster, result>>
    BY <1>1, <1>3 DEF device
  <2>3. DOMAIN memory = {}
    BY <1>1 DEF IInv, RootInMemory
  <2>4. TypeOK'
    <3>1. n' \in 0..FatSectors
      BY <2>1, <2>2, Numbers
    <3> QED
      BY <2>1, <2>2, <3>1 DEF IInv, TypeOK
  <2>5. Asked' /\ Counted' /\ RootInMemory' /\ FatInMemory' /\ InChain'
    BY <2>1, <2>2, <2>3 DEF Asked, Counted, RootInMemory, FatInMemory, InChain
  <2> QED
    BY <2>2, <2>4, <2>5 DEF IInv, device
<1> QED
  BY <1>2, <1>3 DEF readBootSector

\* A sector of the root directory arrives.
LEMMA RootStep ==
  ASSUME IInv, loadRoot
  PROVE  IInv' /\ [Device!Next]_device
<1>1. pc = "root" /\ n \in 0..9
  BY DEF loadRoot, IInv, Counted
<1>2. CASE Read(RootStart + n)
  <2>1. Current = RootStart + n
    BY <1>1 DEF Current
  <2> QED
    BY <1>1, <1>2, <2>1, ReadStep
<1>3. CASE /\ Copy(rootDirectory + EntrySize * (n * bytesPerSector))
           /\ Loop(RootSectors - 4, "search")
           /\ UNCHANGED <<disk, device, cluster, result>>
  <2>1. Block(rootDirectory + EntrySize * (n * bytesPerSector)) = 176 + 32 * n
    BY <1>1, Blocks
  <2>2. /\ reading' = FALSE /\ want = None
        /\ DOMAIN memory' = DOMAIN memory \cup {176 + 32 * n}
        /\ memory'[176 + 32 * n] = Current
        /\ \A b \in DOMAIN memory : b # 176 + 32 * n => memory'[b] = memory[b]
        /\ \A b \in DOMAIN memory' : memory'[b] \in Words
    BY <1>3, <2>1, Copied
  <2>3. /\ UNCHANGED <<disk, up, want, got, cluster, result>>
        /\ IF n + 1 < 10 THEN n' = n + 1 /\ pc' = "root"
           ELSE n' = 0 /\ pc' = "search"
    BY <1>1, <1>3, Numbers, Ranges DEF Loop, device
  <2>4. DOMAIN memory \subseteq {168} \cup {176 + 32 * m : m \in 0..(n - 1)}
    BY <1>1 DEF IInv, RootInMemory
  <2>5. DOMAIN memory' \subseteq {168} \cup {176 + 32 * m : m \in 0..n}
    BY <1>1, <2>2, <2>4
  <2>6. 176 \in DOMAIN memory' /\ memory'[176] = RootStart
    <3>1. CASE n = 0
      BY <1>1, <2>2, <3>1, Numbers, Ranges DEF Current
    <3>2. CASE n > 0
      BY <1>1, <2>2, <3>2 DEF IInv, RootInMemory
    <3> QED
      BY <1>1, <3>1, <3>2
  <2>7. RootInMemory'
    <3>1. CASE n + 1 < 10
      <4>1. pc' = "root" /\ n' = n + 1 /\ n' - 1 = n
        BY <1>1, <2>3, <3>1
      <4> QED
        BY <2>5, <2>6, <4>1 DEF RootInMemory
    <3>2. CASE n = 9
      <4>1. pc' = "search"
        BY <2>3, <3>2
      <4> QED
        BY <2>5, <2>6, <3>2, <4>1 DEF RootInMemory
    <3> QED
      BY <1>1, <3>1, <3>2
  <2>8. TypeOK'
    <3>1. n' \in 0..FatSectors
      BY <1>1, <2>2, <2>3, Numbers, Ranges
    <3> QED
      BY <1>1, <2>2, <2>3, <3>1 DEF IInv, TypeOK
  <2>9. Asked' /\ Counted' /\ FatInMemory' /\ InChain'
    BY <1>1, <2>2, <2>3 DEF Asked, Counted, FatInMemory, InChain
  <2> QED
    BY <2>3, <2>7, <2>8, <2>9 DEF IInv, device
<1> QED
  BY <1>2, <1>3 DEF loadRoot

\* Of the 224 entries loadFile compares, the first sixteen come from the disk.
LEMMA Searches ==
  ASSUME IInv, pc = "search"
  PROVE  (\E e \in 0..(directoryEntryCount - 1) : Here(e)) <=> disk.slot \in Seen
<1>1. /\ DOMAIN memory \subseteq {168} \cup {176 + 32 * m : m \in 0..9}
      /\ 176 \in DOMAIN memory /\ memory[176] = 19
  BY Numbers, Ranges DEF IInv, RootInMemory
<1>2. ASSUME NEW e \in 0..223
      PROVE  Here(e) <=> e \in Seen /\ disk.slot = e
  <2>1. /\ Block(rootDirectory + e * EntrySize) = 176 + e \div 16
        /\ (rootDirectory + e * EntrySize) % bytesPerSector = 32 * (e % 16)
    BY DEF Block, rootDirectory, EntrySize, bytesPerSector
  <2>2. CASE e \in Seen
    <3>1. e \div 16 = 0 /\ e % 16 = e
      BY <2>2 DEF Seen
    <3>2. Origin(rootDirectory + e * EntrySize) = 19
      BY <1>1, <2>1, <3>1 DEF Origin
    <3>3. (19 - RootStart) * (bytesPerSector \div EntrySize)
            + ((rootDirectory + e * EntrySize) % bytesPerSector) \div EntrySize
            = e
      BY <2>1, <3>1, Numbers, Ranges DEF bytesPerSector, EntrySize
    <3>4. 19 \in RootStart..(DataStart - 1)
      BY Numbers, Ranges
    <3> QED
      BY <2>2, <3>2, <3>3, <3>4 DEF Here
  <2>3. CASE e \notin Seen
    <3>1. 176 + e \div 16 \in 177..189
      BY <2>3 DEF Seen
    <3>2. 176 + e \div 16 \notin DOMAIN memory
      BY <1>1, <3>1
    <3>3. Origin(rootDirectory + e * EntrySize) = None
      BY <2>1, <3>2 DEF Origin
    <3>4. None \notin RootStart..(DataStart - 1)
      BY Numbers, Ranges, DisksAssumption
    <3> QED
      BY <2>3, <3>3, <3>4 DEF Here
  <2> QED
    BY <2>2, <2>3
<1>3. directoryEntryCount - 1 = 223
  BY DEF directoryEntryCount
<1>4. disk.slot \in Seen => disk.slot \in 0..223
  BY DEF Seen
<1>5. (\E e \in 0..223 : Here(e)) <=> disk.slot \in Seen
  BY <1>2, <1>4, Zenon
<1> QED
  BY <1>3, <1>5, Zenon

\* The file's entry is found, or not.
LEMMA SearchStep ==
  ASSUME IInv, search
  PROVE  IInv' /\ UNCHANGED device
<1>1. /\ pc = "search" /\ n = 0
      /\ UNCHANGED <<disk, up, want, got, reading, n, memory>>
  BY DEF search, IInv, Counted, device
<1>2. ~ reading
  BY <1>1 DEF IInv, Asked
<1>3. IF disk.slot \in Seen
      THEN pc' = "fat" /\ cluster' = disk.chain[1] /\ result' = result
      ELSE pc' = "done" /\ result' = 0 /\ cluster' = cluster
  BY <1>1, Searches DEF search, FirstCluster
<1>4. disk.chain[1] \in Entries
  <2>1. disk.chain[1] \in Clusters
    BY Chains DEF IInv, TypeOK
  <2> QED
    BY <2>1, Ranges
<1>5. TypeOK'
  BY <1>1, <1>3, <1>4 DEF IInv, TypeOK
<1>6. Asked' /\ Counted' /\ RootInMemory' /\ FatInMemory' /\ InChain'
  BY <1>1, <1>2, <1>3
     DEF IInv, Asked, Counted, RootInMemory, FatInMemory, InChain
<1> QED
  BY <1>1, <1>5, <1>6 DEF IInv, device

\* A sector of the table arrives.
LEMMA FatStep ==
  ASSUME IInv, loadFat
  PROVE  IInv' /\ [Device!Next]_device
<1>1. pc = "fat" /\ n \in 0..17
  BY DEF loadFat, IInv, Counted
<1>2. CASE Read(FatSector(n))
  <2>1. Current = FatSector(n)
    BY <1>1 DEF Current
  <2> QED
    BY <1>1, <1>2, <2>1, ReadStep
<1>3. CASE /\ Copy(FAT + n * bytesPerSector)
           /\ Loop(FatSectors, "file")
           /\ UNCHANGED <<disk, device, cluster, result>>
  <2>1. Block(FAT + n * bytesPerSector) = 128 + n
    BY <1>1, Blocks
  <2>2. /\ reading' = FALSE /\ want = None
        /\ DOMAIN memory' = DOMAIN memory \cup {128 + n}
        /\ memory'[128 + n] = FatSector(n)
        /\ \A b \in DOMAIN memory : b # 128 + n => memory'[b] = memory[b]
        /\ \A b \in DOMAIN memory' : memory'[b] \in Words
    BY <1>1, <1>3, <2>1, Copied DEF Current
  <2>3. /\ UNCHANGED <<disk, up, want, got, cluster, result>>
        /\ IF n + 1 < 18 THEN n' = n + 1 /\ pc' = "fat"
           ELSE n' = 0 /\ pc' = "file"
    BY <1>1, <1>3, Numbers, Ranges DEF Loop, device
  <2>4. \A m \in 0..(n - 1) :
          128 + m \in DOMAIN memory /\ memory[128 + m] = FatSector(m)
    BY <1>1 DEF IInv, FatInMemory
  <2>5. \A m \in 0..n :
          128 + m \in DOMAIN memory' /\ memory'[128 + m] = FatSector(m)
    <3> TAKE m \in 0..n
    <3>1. CASE m = n
      BY <2>2, <3>1
    <3>2. CASE m # n
      <4>1. m \in 0..(n - 1) /\ 128 + m # 128 + n
        BY <1>1, <3>2
      <4> QED
        BY <2>2, <2>4, <4>1
    <3> QED
      BY <3>1, <3>2
  <2>6. FatInMemory'
    <3>1. CASE n + 1 < 18
      <4>1. pc' = "fat" /\ n' = n + 1 /\ n' - 1 = n
        BY <1>1, <2>3, <3>1
      <4> QED
        BY <2>5, <4>1 DEF FatInMemory
    <3>2. CASE n = 17
      <4>1. pc' = "file" /\ FatSectors - 1 = n
        BY <2>3, <3>2, Numbers, Ranges
      <4> QED
        BY <2>5, <4>1 DEF FatInMemory
    <3> QED
      BY <1>1, <3>1, <3>2
  <2>7. TypeOK'
    <3>1. n' \in 0..FatSectors
      BY <1>1, <2>2, <2>3, Numbers, Ranges
    <3> QED
      BY <1>1, <2>2, <2>3, <3>1 DEF IInv, TypeOK
  <2>8. InChain'
    <3>1. Len(disk.chain) \in Nat \ {0} /\ cluster = disk.chain[1]
      BY <1>1, Chains DEF IInv, TypeOK, InChain
    <3> QED
      BY <1>1, <2>3, <3>1 DEF InChain, FileInMemory
  <2>9. Asked' /\ Counted' /\ RootInMemory'
    BY <1>1, <2>2, <2>3 DEF IInv, Asked, Counted, RootInMemory
  <2> QED
    BY <2>3, <2>6, <2>7, <2>8, <2>9 DEF IInv, device
<1> QED
  BY <1>2, <1>3 DEF loadFat

\* Two places of the chain hold different clusters, so the table leads from
\* each to the next and from the last to the end mark.
LEMMA TableIs ==
  ASSUME disk \in Disks
  PROVE  /\ Table \in [Nat -> Entries]
         /\ \A k \in 1..Len(disk.chain) :
              Table[disk.chain[k]] = IF k = Len(disk.chain) THEN disk.end
                                     ELSE disk.chain[k + 1]
<1>1. /\ Len(disk.chain) \in Nat \ {0}
      /\ DOMAIN disk.chain = 1..Len(disk.chain)
      /\ \A k \in 1..Len(disk.chain) : disk.chain[k] \in Clusters
      /\ disk.end \in EndMarks /\ disk.rest \in Entries
  BY Chains, Zenon
<1>2. \A j, k \in 1..Len(disk.chain) : disk.chain[j] = disk.chain[k] => j = k
  <2>1. WellFormed(disk)
    BY DisksAssumption, Zenon
  <2> QED
    BY <1>1, <2>1, Zenon DEF WellFormed
<1>3. ASSUME NEW k \in 1..Len(disk.chain)
      PROVE  Entry(disk.chain[k]) = IF k = Len(disk.chain) THEN disk.end
                                    ELSE disk.chain[k + 1]
  <2>1. disk.chain[k] # 0
    <3>1. disk.chain[k] \in Clusters
      BY <1>1, Zenon
    <3> QED
      BY <3>1, Ranges
  <2> DEFINE j == CHOOSE i \in DOMAIN disk.chain : disk.chain[i] = disk.chain[k]
  <2>2. j = k
    <3>1. j \in 1..Len(disk.chain) /\ disk.chain[j] = disk.chain[k]
      BY <1>1, Zenon
    <3> HIDE DEF j
    <3> QED
      BY <1>2, <3>1, Zenon
  <2>3. \E i \in DOMAIN disk.chain : disk.chain[i] = disk.chain[k]
    BY <1>1, Zenon
  <2>4. Entry(disk.chain[k]) = IF j = Len(disk.chain) THEN disk.end
                               ELSE disk.chain[j + 1]
    BY <2>1, <2>3 DEF Entry
  <2> QED
    BY <2>2, <2>4, Zenon
<1>4. ASSUME NEW c \in Nat
      PROVE  Entry(c) \in Entries
  <2>1. CASE c # 0 /\ \E k \in DOMAIN disk.chain : disk.chain[k] = c
    <3>1. PICK k \in 1..Len(disk.chain) : disk.chain[k] = c
      BY <1>1, <2>1, Zenon
    <3>2. CASE k = Len(disk.chain)
      BY <1>1, <1>3, <3>1, <3>2, Ranges
    <3>3. CASE k # Len(disk.chain)
      <4>1. k + 1 \in 1..Len(disk.chain)
        BY <1>1, <3>3
      <4>2. disk.chain[k + 1] \in Clusters
        BY <1>1, <4>1, Zenon
      <4>3. Entry(c) = disk.chain[k + 1]
        BY <1>3, <3>1, <3>3, Zenon
      <4> QED
        BY <4>2, <4>3, Ranges
    <3> QED
      BY <3>2, <3>3
  <2>2. CASE c = 0 \/ ~ \E k \in DOMAIN disk.chain : disk.chain[k] = c
    <3>1. 4080 \in Entries /\ 4095 \in Entries
      BY Ranges
    <3>2. Entry(c) \in {4080, 4095, disk.rest}
      BY <2>2 DEF Entry
    <3> QED
      BY <1>1, <3>1, <3>2
  <2> QED
    BY <2>1, <2>2, Zenon
<1>5. \A c \in Clusters : c \in Nat
  BY Ranges
<1>6. Table \in [Nat -> Entries]
  BY <1>4, Zenon DEF Table
<1>7. \A k \in 1..Len(disk.chain) : Table[disk.chain[k]] = Entry(disk.chain[k])
  BY <1>1, <1>5, Zenon DEF Table
<1> QED
  BY <1>3, <1>6, <1>7, Zenon

\* With the table in memory, the word loadFile looks at holds its cluster's
\* entry.
LEMMA NextEntry ==
  ASSUME IInv, pc = "file", cluster \in Clusters
  PROVE  Decode(cluster, WordAt(FAT + FatIndex(cluster))) = Table[cluster]
<1>1. \A m \in 0..17 : 128 + m \in DOMAIN memory /\ memory[128 + m] = m + 1
  <2>1. FatSectors - 1 = 17
    BY Numbers
  <2> QED
    BY <2>1 DEF IInv, FatInMemory, FatSector
<1>2. ASSUME NEW i \in Nat, i < 4608
      PROVE  ByteAt(FAT + i) = FatByte(Table, i)
  <2>1. Block(FAT + i) = 128 + i \div 512 /\ (FAT + i) % bytesPerSector = i % 512
    BY DEF Block, FAT, bytesPerSector
  <2>2. i \div 512 \in 0..8
    BY <1>2
  <2>3. Origin(FAT + i) = i \div 512 + 1
    BY <1>1, <2>1, <2>2 DEF Origin
  <2>4. /\ Origin(FAT + i) \in 1..FatSectors
        /\ (Origin(FAT + i) - 1) % sectorsPerFat = i \div 512
    BY <2>2, <2>3, Numbers DEF sectorsPerFat
  <2>5. ((i \div 512) * bytesPerSector) + (i % 512) = i
    BY DEF bytesPerSector
  <2> QED
    BY <2>1, <2>4, <2>5, Zenon DEF ByteAt
<1>3. /\ cluster \in Nat
      /\ FatIndex(cluster) \in Nat /\ FatIndex(cluster) < 4607
  BY Ranges DEF FatIndex
<1>4. /\ ByteAt(FAT + FatIndex(cluster)) = FatByte(Table, FatIndex(cluster))
      /\ ByteAt(FAT + FatIndex(cluster) + 1)
           = FatByte(Table, FatIndex(cluster) + 1)
  <2>1. FAT + FatIndex(cluster) + 1 = FAT + (FatIndex(cluster) + 1)
    BY <1>3 DEF FAT
  <2>2. FatIndex(cluster) + 1 \in Nat /\ FatIndex(cluster) + 1 < 4608
        /\ FatIndex(cluster) < 4608
    BY <1>3
  <2> QED
    BY <1>2, <1>3, <2>1, <2>2
<1>5. Table \in [Nat -> Entries]
  BY TableIs DEF IInv, TypeOK
<1> QED
  BY <1>3, <1>4, <1>5, DecodeCorrect DEF WordAt

\* A cluster of the file arrives: the last one, or the chain goes on.
LEMMA FileStep ==
  ASSUME IInv, loadCluster
  PROVE  IInv' /\ [Device!Next]_device
<1>1. /\ pc = "file" /\ n \in Nat /\ n < MaxBlocks
      /\ n < Len(disk.chain) /\ cluster = disk.chain[n + 1]
      /\ FileInMemory(n)
      /\ disk.slot \in Seen /\ disk \in Disks
  <2>1. /\ pc = "file" /\ n < MaxBlocks /\ n \in 0..MaxBlocks \cup 0..FatSectors
        /\ n < Len(disk.chain) /\ cluster = disk.chain[n + 1]
        /\ FileInMemory(n)
        /\ disk.slot \in Seen /\ disk \in Disks
    BY Zenon DEF loadCluster, IInv, TypeOK, InChain, RootInMemory
  <2>2. n \in Nat
    BY <2>1, DisksAssumption, Numbers
  <2> QED
    BY <2>1, <2>2
<1>2. CASE Read(ClusterSector(cluster))
  <2>1. Current = ClusterSector(cluster)
    BY <1>1 DEF Current
  <2> QED
    BY <1>1, <1>2, <2>1, ReadStep
<1>3. CASE /\ Copy(Kernel + n * clusterSize * bytesPerSector)
           /\ cluster' = Decode(cluster, WordAt(FAT + FatIndex(cluster)))
           /\ IF IsLast(cluster')
              THEN pc' = "done" /\ result' = Kernel /\ UNCHANGED n
              ELSE n' = n + 1 /\ UNCHANGED <<pc, result>>
           /\ UNCHANGED <<disk, device>>
  <2>1. Block(Kernel + n * clusterSize * bytesPerSector) = 256 + n
    BY <1>1, Blocks
  <2>2. n + 1 \in 1..Len(disk.chain) /\ Len(disk.chain) \in Nat
    BY <1>1, Chains
  <2>3. cluster \in Clusters
    BY <1>1, <2>2, Chains
  <2>4. /\ reading' = FALSE /\ want = None
        /\ DOMAIN memory' = DOMAIN memory \cup {256 + n}
        /\ memory'[256 + n] = Place(disk.chain[n + 1])
        /\ \A b \in DOMAIN memory : b # 256 + n => memory'[b] = memory[b]
        /\ \A b \in DOMAIN memory' : memory'[b] \in Words
    BY <1>1, <1>3, <2>1, <2>3, Copied, Places DEF Current
  <2>5. UNCHANGED <<disk, up, want, got>>
    BY <1>3 DEF device
  <2>6. cluster' = IF n + 1 = Len(disk.chain) THEN disk.end
                   ELSE disk.chain[n + 2]
    <3>1. cluster' = Table[disk.chain[n + 1]]
      BY <1>1, <1>3, <2>3, NextEntry
    <3>2. (n + 1) + 1 = n + 2
      BY <1>1
    <3> QED
      BY <1>1, <2>2, <3>1, <3>2, TableIs
  <2>7. ASSUME NEW k \in 1..(n + 1)
        PROVE  /\ 256 + (k - 1) \in DOMAIN memory'
               /\ memory'[256 + (k - 1)] = Place(disk'.chain[k])
    <3>1. CASE k = n + 1
      BY <1>1, <2>4, <2>5, <3>1
    <3>2. CASE k # n + 1
      <4>1. k \in 1..n /\ 256 + (k - 1) # 256 + n
        BY <1>1, <3>2
      <4> QED
        BY <1>1, <2>4, <2>5, <4>1 DEF FileInMemory
    <3> QED
      BY <3>1, <3>2
  <2>8. FatInMemory'
    <3>1. pc' = "file" \/ pc' = "done"
      BY <1>1, <1>3
    <3>2. ASSUME NEW m \in 0..17
          PROVE  128 + m \in DOMAIN memory' /\ memory'[128 + m] = FatSector(m)
      <4>1. FatSectors - 1 = 17
        BY Numbers
      <4>2. 128 + m \in DOMAIN memory /\ memory[128 + m] = FatSector(m)
        BY <1>1, <4>1 DEF IInv, FatInMemory
      <4> QED
        BY <1>1, <2>4, <4>2
    <3> QED
      BY <3>1, <3>2, Numbers DEF FatInMemory
  <2>9. CASE n + 1 = Len(disk.chain)
    <3>1. cluster' \in Entries /\ IsLast(cluster')
      BY <2>6, <2>9, <1>1, Chains, Ranges DEF IsLast
    <3>2. pc' = "done" /\ result' = Kernel /\ n' = n
      BY <1>3, <3>1
    <3>3. TypeOK'
      BY <2>4, <2>5, <3>1, <3>2 DEF IInv, TypeOK
    <3>4. InChain'
      BY <1>1, <2>5, <2>7, <2>9, <3>2 DEF InChain, FileInMemory, Place
    <3>5. Asked' /\ Counted' /\ RootInMemory'
      BY <2>4, <2>5, <3>2 DEF Asked, Counted, RootInMemory
    <3> QED
      BY <2>5, <2>8, <3>3, <3>4, <3>5 DEF IInv, device
  <2>10. CASE n + 1 # Len(disk.chain)
    <3>1. n + 2 \in 1..Len(disk.chain)
      BY <1>1, <2>2, <2>10
    <3>2. cluster' \in Entries /\ ~ IsLast(cluster')
      <4>1. cluster' \in Clusters
        BY <1>1, <2>6, <2>10, <3>1, Chains
      <4> QED
        BY <4>1, Ranges DEF IsLast
    <3>3. n' = n + 1 /\ pc' = "file" /\ result' = result
      BY <1>1, <1>3, <3>2
    <3>4. n' \in 0..MaxBlocks
      BY <1>1, <3>3, DisksAssumption
    <3>5. TypeOK'
      BY <2>4, <2>5, <3>2, <3>3, <3>4 DEF IInv, TypeOK
    <3>6. InChain'
      <4>1. n' < Len(disk'.chain) /\ cluster' = disk'.chain[n' + 1]
        BY <1>1, <2>2, <2>5, <2>6, <2>10, <3>1, <3>3
      <4>2. (FileInMemory(n))'
        BY <2>7, <3>3 DEF FileInMemory, Place
      <4> QED
        BY <3>3, <4>1, <4>2 DEF InChain
    <3>7. Asked' /\ Counted' /\ RootInMemory'
      BY <1>1, <2>4, <2>5, <3>3 DEF Asked, Counted, RootInMemory
    <3> QED
      BY <2>5, <2>8, <3>5, <3>6, <3>7 DEF IInv, device
  <2> QED
    BY <2>9, <2>10
<1> QED
  BY <1>2, <1>3 DEF loadCluster

\* The driver comes up, or answers what was asked.
LEMMA DriverStep ==
  ASSUME IInv, Driver
  PROVE  IInv' /\ Device!Next
<1>1. UNCHANGED <<disk, reading, pc, n, memory, cluster, result>>
  BY DEF Driver
<1>2. Counted' /\ RootInMemory' /\ FatInMemory' /\ InChain'
  BY <1>1 DEF IInv, Counted, RootInMemory, FatInMemory, InChain, FileInMemory,
              Place
<1>3. Current' = Current
  BY <1>1 DEF Current
<1>4. CASE Device!ComeUp
  <2>1. ~ up /\ up' = TRUE /\ want' = want /\ got' = got
    BY <1>4 DEF Device!ComeUp
  <2>2. TypeOK' /\ Asked'
    BY <1>1, <2>1 DEF IInv, TypeOK, Asked
  <2> QED
    BY <1>2, <1>4, <2>2 DEF IInv, Device!Next
<1>5. CASE Device!Answer
  <2>1. want # None /\ got' = want /\ want' = None /\ up' = up
    BY <1>5 DEF Device!Answer
  <2>2. TypeOK'
    BY <1>1, <2>1, Zenon DEF IInv, TypeOK
  <2>3. Asked'
    BY <1>1, <1>3, <2>1, Zenon DEF IInv, Asked
  <2> QED
    BY <1>2, <1>5, <2>2, <2>3 DEF IInv, Device!Next
<1> QED
  BY <1>4, <1>5 DEF Driver

LEMMA InitInv == Init => IInv
<1> SUFFICES ASSUME Init PROVE IInv
  OBVIOUS
<1>1. /\ disk \in Disks /\ ~ up /\ want = None /\ got = None
      /\ ~ reading /\ pc = "boot" /\ n = 0 /\ memory = <<>> /\ cluster = 0
  BY DEF Init, Device!Init
<1>2. DOMAIN memory = {}
  BY <1>1
<1>3. n \in 0..FatSectors /\ cluster \in Entries
  BY <1>1, Numbers, Ranges
<1>4. TypeOK
  <2>1. up \in BOOLEAN /\ reading \in BOOLEAN
    BY DEF Init, Device!Init
  <2> QED
    BY <1>1, <1>2, <1>3, <2>1, Zenon DEF TypeOK
<1> QED
  BY <1>1, <1>2, <1>4
     DEF IInv, Asked, Counted, RootInMemory, FatInMemory, InChain

LEMMA NextInv ==
  ASSUME IInv, [Next]_vars
  PROVE  IInv' /\ [Device!Next]_device
<1>1. CASE Driver
  BY <1>1, DriverStep
<1>2. CASE readBootSector
  BY <1>2, BootStep
<1>3. CASE loadRoot
  BY <1>3, RootStep
<1>4. CASE search
  BY <1>4, SearchStep
<1>5. CASE loadFat
  BY <1>5, FatStep
<1>6. CASE loadCluster
  BY <1>6, FileStep
<1>7. CASE UNCHANGED vars
  <2>1. UNCHANGED <<disk, up, want, got, reading, pc, n, memory, cluster, result>>
    BY <1>7 DEF vars, device
  <2>2. Current' = Current
    BY <2>1 DEF Current
  <2>3. TypeOK' /\ Asked'
    BY <2>1, <2>2 DEF IInv, TypeOK, Asked
  <2>4. Counted' /\ RootInMemory' /\ FatInMemory' /\ InChain'
    BY <2>1 DEF IInv, Counted, RootInMemory, FatInMemory, InChain,
                FileInMemory, Place
  <2> QED
    BY <2>1, <2>3, <2>4 DEF IInv, device
<1> QED
  BY <1>1, <1>2, <1>3, <1>4, <1>5, <1>6, <1>7 DEF Next

\* In every state of every run of the loader, on every disk: the request it
\* has open is its loop's, and what it has copied is where it will look.
THEOREM IInvariant == Spec => []IInv
<1>1. IInv /\ [Next]_vars => IInv'
  BY NextInv
<1> QED
  BY <1>1, InitInv, PTL DEF Spec

\* The loader's variables keep their types, for files of any length.
THEOREM TypeCorrect == Spec => []TypeOK
<1>1. IInv => TypeOK
  BY DEF IInv
<1> QED
  BY <1>1, IInvariant, PTL

\* The file's clusters are in memory from Kernel on, in the chain's order, when
\* loadFile says it has loaded them, and it says so exactly if the file's entry
\* is among the first sixteen of the root directory.
THEOREM FileLoaded == Spec => []Loaded
<1>1. IInv => Loaded
  <2> SUFFICES ASSUME IInv, pc = "done"
               PROVE  IF disk.slot \notin Seen THEN result = 0
                      ELSE /\ result = Kernel
                           /\ n + 1 = Len(disk.chain)
                           /\ \A k \in DOMAIN disk.chain :
                                Origin(Kernel + (k - 1) * bytesPerSector)
                                  = Place(disk.chain[k])
    BY DEF Loaded
  <2>1. \/ result = 0 /\ disk.slot \notin Seen
        \/ /\ result = Kernel /\ disk.slot \in Seen
           /\ n + 1 = Len(disk.chain)
           /\ FileInMemory(n + 1)
    BY DEF IInv, InChain
  <2>2. DOMAIN disk.chain = 1..Len(disk.chain)
    BY Chains DEF IInv, TypeOK
  <2>3. ASSUME FileInMemory(n + 1), n + 1 = Len(disk.chain),
               NEW k \in DOMAIN disk.chain
        PROVE  Origin(Kernel + (k - 1) * bytesPerSector) = Place(disk.chain[k])
    <3>1. k \in 1..(n + 1)
      BY <2>2, <2>3
    <3>2. Block(Kernel + (k - 1) * bytesPerSector) = 256 + (k - 1)
      BY <3>1 DEF Block, Kernel, bytesPerSector
    <3> QED
      BY <2>3, <3>1, <3>2 DEF FileInMemory, Origin
  <2> QED
    BY <2>1, <2>3
<1> QED
  BY <1>1, IInvariant, PTL

\* The loader never asks the driver for anything it does not promise: it waits
\* for it to come up and for each answer, and every sector it asks for, the
\* chain's included, is one of the disk's.
THEOREM ContractKept == Spec => KeepsContract
<1>1. IInv /\ [Next]_vars => [Device!Next]_device
  BY NextInv
<1> QED
  BY <1>1, IInvariant, PTL DEF Spec, KeepsContract

\* With the loader as its client the driver's variables behave as SectorDevice
\* allows.
THEOREM UsesDevice == Spec => Device!Init /\ [][Device!Next]_device
<1>1. Init => Device!Init
  BY DEF Init
<1> QED
  BY <1>1, ContractKept, PTL DEF Spec, KeepsContract
=============================================================================
