-------------------------- MODULE BootMemoryProofs --------------------------
(***************************************************************************)
(* What BootMemory promises holds for every memory map that ends below the *)
(* stack, every kernel that ends below the heap and every stack that stays *)
(* in the page of PT.                                                      *)
(***************************************************************************)
EXTENDS BootMemory, TLAPS

-----------------------------------------------------------------------------
(***************************************************************************)
(* The inductive invariant.                                                *)
(***************************************************************************)
Loops == {"e820", "pages", "directory", "fat", "kernel"}
Straight == {"bootsect", "enter32", "clear", "link", "print", "setup64",
             "bpb", "run", "stopped"}

\* Where the stack may be.
InStack(a) == a \in Nat /\ PT <= a /\ a <= StackTop

TypeOK ==
    /\ pc \in Loops \cup Straight
    /\ n \in Nat
    /\ regions \in Regions /\ clusters \in Clusters
    /\ memoryRegionCount \in Nat
    /\ table \in [TableDwords -> Nat \cup {Junk}]
    /\ InStack(sp) /\ sp % 8 = 0
    /\ InStack(low)

\* Each loop stops at its bound and leaves the counter at 0.
Counting ==
    /\ pc = "e820" => n < regions
    /\ pc = "pages" => n < Pages
    /\ pc = "directory" => n < 10
    /\ pc = "fat" => n < 18
    /\ pc = "kernel" => n < clusters
    /\ pc \in Straight => n = 0

\* The stack is empty until debugPrint is called, and again when it returns.
Stacked ==
    /\ pc \notin Paged => sp = StackTop
    /\ pc \notin Paged \cup {"pages"} => low = StackTop

\* How many entries of PT are filled.
Filling == CASE pc = "print" -> 0 [] pc = "pages" -> n [] OTHER -> Pages

Walkable == Paged \cup {"print", "pages"}

\* The upper tables have one entry each.
Linked ==
    pc \in Walkable =>
      /\ table[PM4LT] = PDPT + PAGE_ENABLE
      /\ table[PDPT] = PDT + PAGE_ENABLE
      /\ table[PDT] = PT + PAGE_ENABLE
      /\ \A a \in TableDwords \ {PM4LT, PDPT, PDT} : a < PT => table[a] = 0

\* PT is what it should be where the stack has not been.
Entries ==
    pc \in Walkable =>
      \A p \in 0..(EntriesPerTable - 1) :
        \/ OnStack(p)
        \/ /\ table[PT + 8 * p] = IF p < Filling THEN PAGE_ENABLE + PageSize * p
                                  ELSE 0
           /\ table[PT + 8 * p + 4] = 0

\* What is loaded is whole from the step on that finishes it.
Whole ==
    /\ pc = "bootsect" => "bootSector" \in intact
    /\ pc \notin {"bootsect", "stopped"} => "loader" \in intact
    /\ pc \in {"directory", "fat", "kernel"} => "bpb" \in intact
    /\ pc = "directory" /\ n > 0 => "directory" \in intact
    /\ pc = "fat" => "directory" \in intact
    /\ pc = "kernel" => "fat" \in intact
    /\ pc = "run" => "kernel" \in intact

Inv ==
    /\ TypeOK /\ Counting /\ Stacked
    /\ pc = "link" => \A a \in TableDwords : table[a] = 0
    /\ Linked /\ Entries /\ Whole

-----------------------------------------------------------------------------
(***************************************************************************)
(* Arithmetic of addresses.                                                *)
(***************************************************************************)
\* The dwords of the tables, and nothing else.
LEMMA Dwords ==
  /\ \A a \in TableDwords : a \in Nat /\ a % 4 = 0 /\ PM4LT <= a /\ a < PROGRAM_SPACE
  /\ \A a \in Nat : a % 4 = 0 /\ PM4LT <= a /\ a < PROGRAM_SPACE
       => a \in TableDwords
<1>1. ASSUME NEW a \in TableDwords
      PROVE  a \in Nat /\ a % 4 = 0 /\ PM4LT <= a /\ a < PROGRAM_SPACE
  <2>1. PICK i \in 0..4095 : a = PM4LT + 4 * i
    BY DEF TableDwords
  <2> QED BY <2>1 DEF PM4LT, PROGRAM_SPACE
<1>2. ASSUME NEW a \in Nat, a % 4 = 0, PM4LT <= a, a < PROGRAM_SPACE
      PROVE  a \in TableDwords
  <2>1. LET i == (a - PM4LT) \div 4 IN i \in 0..4095 /\ a = PM4LT + 4 * i
    BY <1>2 DEF PM4LT, PROGRAM_SPACE
  <2> QED BY <2>1 DEF TableDwords
<1> QED BY <1>1, <1>2

LEMMA EntryDwords ==
  ASSUME NEW p \in 0..(EntriesPerTable - 1)
  PROVE  /\ PT + 8 * p \in TableDwords
         /\ PT + 8 * p + 4 \in TableDwords
         /\ {PM4LT, PDPT, PDT} \subseteq TableDwords
<1>1. /\ PT + 8 * p \in Nat /\ (PT + 8 * p) % 4 = 0
      /\ PT + 8 * p + 4 \in Nat /\ (PT + 8 * p + 4) % 4 = 0
      /\ PM4LT <= PT + 8 * p /\ PT + 8 * p + 4 < PROGRAM_SPACE
  BY DEF PT, PM4LT, PROGRAM_SPACE, EntriesPerTable
<1>2. /\ PT + 8 * p < PROGRAM_SPACE /\ PM4LT <= PT + 8 * p + 4
      /\ PM4LT \in Nat /\ PM4LT % 4 = 0 /\ PM4LT < PROGRAM_SPACE
      /\ PDPT \in Nat /\ PDPT % 4 = 0 /\ PDPT < PROGRAM_SPACE /\ PM4LT <= PDPT
      /\ PDT \in Nat /\ PDT % 4 = 0 /\ PDT < PROGRAM_SPACE /\ PM4LT <= PDT
  BY <1>1 DEF PT, PM4LT, PDPT, PDT, PROGRAM_SPACE, EntriesPerTable
<1>3. PT + 8 * p \in TableDwords /\ PT + 8 * p + 4 \in TableDwords
  BY <1>1, <1>2, Dwords
<1>4. PM4LT \in TableDwords /\ PDPT \in TableDwords /\ PDT \in TableDwords
  BY <1>2, Dwords DEF PM4LT
<1> QED BY <1>3, <1>4

\* Filled changes what it covers and nothing else.
LEMMA FilledFacts ==
  ASSUME TypeOK, NEW address \in Nat, NEW bytes \in Nat,
         NEW v \in Nat \cup {Junk}
  PROVE  /\ Filled(address, bytes, v) \in [TableDwords -> Nat \cup {Junk}]
         /\ \A a \in TableDwords :
              ~ (address < a + 4 /\ a < address + bytes)
                => Filled(address, bytes, v)[a] = table[a]
BY DEF Filled, TypeOK

\* The DMA buffer ends below the tables.
LEMMA ReadLeavesTables ==
  ASSUME TypeOK
  PROVE  Filled(DmaBuffer, DmaSize, Junk) = table
<1>1. \A a \in TableDwords : ~ (a < DmaBuffer + DmaSize)
  BY Dwords DEF DmaBuffer, DmaSize, PM4LT
<1>2. Filled(DmaBuffer, DmaSize, Junk) = [a \in TableDwords |-> table[a]]
  BY <1>1 DEF Filled
<1> QED BY <1>2 DEF TypeOK

-----------------------------------------------------------------------------
(***************************************************************************)
(* Who is hit by whom.                                                     *)
(***************************************************************************)
\* What is loaded is missed by every store that ends below it, or begins above.
LEMMA Missed ==
  ASSUME NEW address, NEW bytes, NEW name \in intact, ~ Hits(name, address, bytes)
  PROVE  name \in Survivors(address, bytes)
BY DEF Survivors

LEMMA Layout ==
  ASSUME TypeOK
  PROVE  /\ Place["bootSector"] = <<31744, 512>>
         /\ Place["loader"] = <<32768, 32768>>
         /\ Place["bpb"] = <<86016, 32>>
         /\ Place["directory"] = <<90112, 512>>
         /\ Place["fat"] = <<65536, 9216>>
         /\ Place["kernel"] = <<131072, 512 * clusters>>
         /\ clusters \in Nat /\ 131072 + 512 * clusters <= 1048576
         /\ regions \in Nat /\ 4096 + 24 * regions <= 31744
<1>1. clusters \in Clusters /\ regions \in Regions
  BY DEF TypeOK
<1>2. clusters \in Nat /\ regions \in Nat
  BY <1>1, BootMemoryAssumption
<1>3. /\ KernelAt + bytesPerSector * clusters <= HeapAt
      /\ DmaBuffer + 24 * regions <= StackTop - MaxStack
  BY <1>1, RoomAssumption
<1>4. 131072 + 512 * clusters <= 1048576 /\ 4096 + 24 * regions <= 31744
  BY <1>2, <1>3, BootMemoryAssumption
     DEF KernelAt, HeapAt, bytesPerSector, DmaBuffer, StackTop
<1>5. /\ Place["bootSector"] = <<31744, 512>>
      /\ Place["loader"] = <<32768, 32768>>
      /\ Place["bpb"] = <<86016, 32>>
      /\ Place["directory"] = <<90112, 512>>
      /\ Place["fat"] = <<65536, 9216>>
      /\ Place["kernel"] = <<131072, 512 * clusters>>
  BY <1>2 DEF Place, StackTop, PROGRAM_SPACE, LoaderSectors, bytesPerSector, KernelAt
<1> QED BY <1>2, <1>4, <1>5

\* A store below the loader, in the stack, the tables or the DMA buffer, hits
\* nothing that was loaded.
LEMMA Below ==
  ASSUME TypeOK, NEW address \in Nat, NEW bytes \in Nat,
         address + bytes <= 32768
  PROVE  \A name \in {"loader", "bpb", "directory", "fat", "kernel"} :
           ~ Hits(name, address, bytes)
BY Layout DEF Hits

\* The boot sector's conversion finds the file's first sector.
LEMMA FirstSector ==
  LET at == LBAtoCHS(33) IN LbaAt(at.cyl, at.head, at.sector) = 33
BY DEF LBAtoCHS, LbaAt, Byte, SectorsPerTrack, Heads

-----------------------------------------------------------------------------
(***************************************************************************)
(* Init and the steps before paging is on.                                 *)
(***************************************************************************)
LEMMA Start == Init => Inv
<1> SUFFICES ASSUME Init PROVE Inv
  OBVIOUS
<1>1. TypeOK
  <2>1. InStack(StackTop) /\ StackTop % 8 = 0
    BY DEF InStack, StackTop, PT
  <2> QED BY <2>1 DEF Init, TypeOK, Straight, Loops
<1>2. /\ Counting /\ Stacked /\ Whole
      /\ pc = "link" => \A a \in TableDwords : table[a] = 0
      /\ Linked /\ Entries
  BY DEF Init, Counting, Stacked, Whole, Linked, Entries, Walkable, Paged,
         Straight
<1> QED BY <1>1, <1>2 DEF Inv

LEMMA DiscReadStep == ASSUME Inv, discRead PROVE Inv'
<1>1. /\ pc = "bootsect" /\ pc' \in {"e820", "stopped"}
      /\ UNCHANGED <<n, regions, clusters, memoryRegionCount, table, sp, low>>
  BY DEF discRead, Go
<1>2. TypeOK' /\ n = 0
  BY <1>1 DEF Inv, TypeOK, Counting, Straight, Loops
<1>3. regions \in Nat \ {0}
  BY <1>2, BootMemoryAssumption DEF Inv, TypeOK
<1>4. Counting' /\ Stacked' /\ Linked' /\ Entries'
  BY <1>1, <1>2, <1>3 DEF Inv, Counting, Stacked, Linked, Entries, Walkable,
     Paged, Straight
<1>5. pc' = "e820" => "loader" \in intact'
  BY <1>1, FirstSector DEF discRead, Go, Put
<1>6. Whole'
  BY <1>1, <1>5 DEF Whole
<1> QED BY <1>1, <1>2, <1>4, <1>6 DEF Inv

LEMMA E820Step == ASSUME Inv, E820 PROVE Inv'
<1>1. /\ pc = "e820" /\ pc' \in {"e820", "enter32"}
      /\ UNCHANGED <<regions, clusters, sp, low>>
      /\ TypeOK /\ n < regions /\ n \in Nat /\ regions \in Nat
  BY Layout DEF E820, Go, Inv, Counting, TypeOK
<1>2. /\ pc' = "enter32" => n' = 0
      /\ pc' = "e820" => n' = n + 1 /\ n + 1 # regions
      /\ n' \in Nat /\ memoryRegionCount' \in Nat
  BY <1>1 DEF E820, Go, TypeOK
<1>3. table' \in [TableDwords -> Nat \cup {Junk}]
  <2>1. DmaBuffer + 24 * n \in Nat /\ 24 \in Nat /\ Junk \in Nat \cup {Junk}
    BY <1>1 DEF DmaBuffer
  <2>2. table' = Filled(DmaBuffer + 24 * n, 24, Junk)
    BY DEF E820
  <2> QED BY <1>1, <2>1, <2>2, FilledFacts
<1>4. TypeOK'
  BY <1>1, <1>2, <1>3 DEF TypeOK, Straight, Loops
<1>5. Counting' /\ Stacked' /\ Linked' /\ Entries'
  BY <1>1, <1>2 DEF Inv, Counting, Stacked, Linked, Entries, Walkable, Paged,
     Straight
<1>6. /\ DmaBuffer + 24 * n \in Nat
      /\ DmaBuffer + 24 * n + 24 <= 32768
  BY <1>1, Layout DEF DmaBuffer
<1>7. "loader" \in intact /\ ~ Hits("loader", DmaBuffer + 24 * n, 24)
  BY <1>1, <1>6, Below DEF Inv, Whole
<1>8. "loader" \in intact'
  BY <1>7, Missed DEF E820, Put
<1>9. Whole'
  BY <1>1, <1>8 DEF Whole
<1> QED BY <1>1, <1>4, <1>5, <1>9 DEF Inv

LEMMA Enter32Step == ASSUME Inv, enter32 PROVE Inv'
<1>1. /\ pc = "enter32" /\ pc' \in {"clear", "stopped"}
      /\ UNCHANGED <<n, regions, clusters, memoryRegionCount, table, intact, sp,
                     low>>
  BY DEF enter32, Go
<1>2. TypeOK'
  BY <1>1 DEF Inv, TypeOK, Straight, Loops
<1>3. Counting' /\ Stacked' /\ Linked' /\ Entries' /\ Whole'
  BY <1>1 DEF Inv, Counting, Stacked, Linked, Entries, Whole, Walkable, Paged,
     Straight
<1> QED BY <1>1, <1>2, <1>3 DEF Inv

LEMMA ClearTablesStep == ASSUME Inv, ClearTables PROVE Inv'
<1>1. /\ pc = "clear" /\ pc' = "link" /\ TypeOK
      /\ UNCHANGED <<n, regions, clusters, memoryRegionCount, sp, low>>
      /\ table' = Filled(PM4LT, Cleared, 0)
  BY DEF ClearTables, Go, Inv
<1>2. PM4LT \in Nat /\ Cleared \in Nat /\ PM4LT + Cleared = 32768
  BY DEF PM4LT, Cleared
<1>3. table' \in [TableDwords -> Nat \cup {Junk}]
  BY <1>1, <1>2, FilledFacts
<1>4. TypeOK'
  BY <1>1, <1>3 DEF TypeOK, Straight, Loops
<1>5. \A a \in TableDwords : table'[a] = 0
  BY <1>1, <1>2, Dwords DEF Filled, PROGRAM_SPACE
<1>6. Counting' /\ Stacked' /\ Linked' /\ Entries'
  BY <1>1 DEF Inv, Counting, Stacked, Linked, Entries, Walkable, Paged,
     Straight
<1>7. "loader" \in intact /\ ~ Hits("loader", PM4LT, Cleared)
  BY <1>1, <1>2, Below DEF Inv, Whole
<1>8. "loader" \in intact'
  BY <1>7, Missed DEF ClearTables, Spoil
<1>9. Whole'
  BY <1>1, <1>8 DEF Whole
<1> QED BY <1>4, <1>5, <1>6, <1>9 DEF Inv

LEMMA LinkTablesStep == ASSUME Inv, LinkTables PROVE Inv'
<1>1. /\ pc = "link" /\ pc' = "print" /\ TypeOK
      /\ UNCHANGED <<n, regions, clusters, memoryRegionCount, intact, sp, low>>
      /\ table' = [table EXCEPT ![PM4LT] = PDPT + PAGE_ENABLE,
                                ![PDPT] = PDT + PAGE_ENABLE,
                                ![PDT] = PT + PAGE_ENABLE]
      /\ \A a \in TableDwords : table[a] = 0
      /\ low = StackTop /\ sp = StackTop
  BY DEF LinkTables, Go, Inv, Stacked, Paged
<1>2. PM4LT \in TableDwords /\ PDPT \in TableDwords /\ PDT \in TableDwords
  BY EntryDwords DEF EntriesPerTable
<1>3. /\ table'[PM4LT] = PDPT + PAGE_ENABLE
      /\ table'[PDPT] = PDT + PAGE_ENABLE
      /\ table'[PDT] = PT + PAGE_ENABLE
      /\ \A a \in TableDwords \ {PM4LT, PDPT, PDT} : table'[a] = 0
      /\ table' \in [TableDwords -> Nat \cup {Junk}]
  BY <1>1, <1>2 DEF TypeOK, PM4LT, PDPT, PDT, PT, PAGE_ENABLE
<1>4. TypeOK'
  BY <1>1, <1>3 DEF TypeOK, Straight, Loops
<1>5. Counting' /\ Stacked' /\ Whole' /\ Linked'
  BY <1>1, <1>3 DEF Inv, Counting, Stacked, Whole, Linked, Paged, Straight
<1>6. Entries'
  <2> SUFFICES ASSUME NEW p \in 0..(EntriesPerTable - 1)
               PROVE  table'[PT + 8 * p] = 0 /\ table'[PT + 8 * p + 4] = 0
    <3>1. Filling' = 0 /\ \A p \in 0..(EntriesPerTable - 1) : ~ (p < 0)
      BY <1>1 DEF Filling
    <3> QED BY <3>1 DEF Entries
  <2>1. /\ PT + 8 * p \notin {PM4LT, PDPT, PDT}
        /\ PT + 8 * p + 4 \notin {PM4LT, PDPT, PDT}
    BY DEF PT, PM4LT, PDPT, PDT, EntriesPerTable
  <2> QED BY <1>3, <2>1, EntryDwords
<1> QED BY <1>1, <1>4, <1>5, <1>6 DEF Inv

LEMMA StackRoom ==
  ASSUME NEW x \in Int, x >= 28672, x + 8 <= 31744
  PROVE  /\ x \in Nat /\ InStack(x) /\ InStack(x + 8)
         /\ x + 8 <= StackTop /\ x + 8 <= 32768
BY DEF InStack, PT, StackTop

\* What a store into the page of PT does to the tables: the entries it hits are
\* on the stack from then on.
LEMMA StackStore ==
  ASSUME Inv, pc \in Walkable, NEW address \in Nat, InStack(address),
         NEW bytes \in {4, 8}, address + bytes <= StackTop, address % 4 = 0,
         table' = Filled(address, bytes, Junk),
         InStack(low'), low' <= address, low' <= low,
         pc' \in Walkable, Filling' = Filling
  PROVE  /\ table' \in [TableDwords -> Nat \cup {Junk}]
         /\ Linked' /\ Entries'
<1>1. TypeOK /\ address \in Nat /\ bytes \in Nat /\ low \in Nat /\ low' \in Nat
  <2>1. TypeOK
    BY DEF Inv
  <2>2. low \in Nat
    BY <2>1 DEF TypeOK, InStack, PT, StackTop
  <2> QED BY <2>1, <2>2 DEF InStack, PT, StackTop
<1>2. /\ table' \in [TableDwords -> Nat \cup {Junk}]
      /\ \A a \in TableDwords : ~ (address < a + 4 /\ a < address + bytes)
                                  => table'[a] = table[a]
  <2>1. Junk \in Nat \cup {Junk}
    OBVIOUS
  <2> QED BY <1>1, <2>1, FilledFacts
<1>3. \A a \in TableDwords : a < PT => table'[a] = table[a]
  <2> SUFFICES ASSUME NEW a \in TableDwords, a < PT
               PROVE  table'[a] = table[a]
    OBVIOUS
  <2>1. a \in Nat /\ a % 4 = 0 /\ a < 28672 /\ 28672 <= address
    BY Dwords DEF PT, InStack
  <2>2. ~ (address < a + 4)
    BY <1>1, <2>1
  <2> QED BY <1>2, <2>2
<1>4. PM4LT < PT /\ PDPT < PT /\ PDT < PT
  BY DEF PM4LT, PDPT, PDT, PT
<1>5. PM4LT \in TableDwords /\ PDPT \in TableDwords /\ PDT \in TableDwords
  BY EntryDwords DEF EntriesPerTable
<1>6. Linked'
  BY <1>3, <1>4, <1>5 DEF Inv, Linked
<1>7. Entries'
  <2> SUFFICES ASSUME NEW p \in 0..(EntriesPerTable - 1), ~ OnStack(p)'
               PROVE  /\ table'[PT + 8 * p] = IF p < Filling
                           THEN PAGE_ENABLE + PageSize * p ELSE 0
                      /\ table'[PT + 8 * p + 4] = 0
    BY DEF Entries
  <2>1. PT + 8 * p + 8 <= low' \/ StackTop <= PT + 8 * p
    BY <1>1 DEF OnStack, InStack, PT, StackTop, EntriesPerTable
  <2>2. ~ OnStack(p)
    BY <1>1, <2>1 DEF OnStack, InStack, PT, StackTop, EntriesPerTable
  <2>3. /\ table'[PT + 8 * p] = table[PT + 8 * p]
        /\ table'[PT + 8 * p + 4] = table[PT + 8 * p + 4]
    BY <1>1, <1>2, <2>1, EntryDwords DEF InStack, PT, StackTop, EntriesPerTable
  <2> QED BY <2>2, <2>3 DEF Inv, Entries
<1> QED BY <1>2, <1>6, <1>7

LEMMA DebugPrintStep == ASSUME Inv, debugPrint PROVE Inv'
<1>1. /\ pc = "print" /\ pc' = "pages" /\ TypeOK /\ n = 0
      /\ UNCHANGED <<n, regions, clusters, memoryRegionCount, sp>>
      /\ sp = StackTop /\ low = StackTop /\ low' = StackTop - 4
      /\ table' = Filled(StackTop - 4, 4, Junk)
  BY DEF debugPrint, Go, Inv, Stacked, Paged, Counting, Straight
<1>2. /\ InStack(StackTop - 4) /\ (StackTop - 4) % 4 = 0
      /\ (StackTop - 4) + 4 <= StackTop
      /\ InStack(low') /\ low' <= low /\ low' <= StackTop - 4
      /\ StackTop - 4 \in Nat
  BY <1>1 DEF InStack, PT, StackTop
<1>3. Filling' = Filling /\ pc \in Walkable /\ pc' \in Walkable
  BY <1>1 DEF Filling, Walkable
<1>4. table' \in [TableDwords -> Nat \cup {Junk}] /\ Linked' /\ Entries'
  <2> DEFINE at == StackTop - 4
  <2>1. InStack(at) /\ at + 4 <= StackTop /\ at % 4 = 0
        /\ table' = Filled(at, 4, Junk) /\ low' <= at
    BY <1>1, <1>2
  <2>2. at \in Nat /\ 4 \in {4, 8}
    BY <2>1 DEF InStack
  <2> HIDE DEF at
  <2> QED BY <1>2, <1>3, <2>1, <2>2, StackStore
<1>5. TypeOK'
  BY <1>1, <1>2, <1>4 DEF TypeOK, Straight, Loops
<1>6. Counting' /\ Stacked'
  BY <1>1 DEF Inv, Counting, Stacked, Paged, Straight, Pages, EntriesPerTable
<1>7. "loader" \in intact /\ ~ Hits("loader", sp - 4, 4)
  BY <1>1, <1>2, Below DEF Inv, Whole, StackTop
<1>8. "loader" \in intact'
  BY <1>7, Missed DEF debugPrint, Spoil
<1>9. Whole'
  BY <1>1, <1>8 DEF Whole
<1> QED BY <1>1, <1>4, <1>5, <1>6, <1>9 DEF Inv

LEMMA SetPageTableEntryStep == ASSUME Inv, setPageTableEntry PROVE Inv'
<1>1. /\ pc = "pages" /\ pc' \in {"pages", "setup64"} /\ TypeOK
      /\ n \in 0..(EntriesPerTable - 1)
      /\ UNCHANGED <<regions, clusters, memoryRegionCount, intact, sp, low>>
      /\ table' = [table EXCEPT ![PT + 8 * n] = PAGE_ENABLE + PageSize * n]
      /\ pc' = "pages" => n' = n + 1 /\ n + 1 < Pages
      /\ pc' = "setup64" => n' = 0 /\ n + 1 = Pages
  BY DEF setPageTableEntry, Go, Inv, Counting, TypeOK, EntrySize, Pages,
         EntriesPerTable
<1>2. /\ PT + 8 * n \in TableDwords
      /\ PAGE_ENABLE + PageSize * n \in Nat
      /\ PM4LT \in TableDwords /\ PDPT \in TableDwords /\ PDT \in TableDwords
  BY <1>1, EntryDwords DEF PAGE_ENABLE, PageSize, EntriesPerTable
<1>3. /\ table'[PT + 8 * n] = PAGE_ENABLE + PageSize * n
      /\ \A a \in TableDwords : a # PT + 8 * n => table'[a] = table[a]
      /\ table' \in [TableDwords -> Nat \cup {Junk}]
  BY <1>1, <1>2 DEF TypeOK
<1>4. n' \in Nat
  BY <1>1 DEF Pages, EntriesPerTable
<1>5. TypeOK'
  BY <1>1, <1>3, <1>4 DEF TypeOK, Straight, Loops
<1>6. Counting' /\ Stacked' /\ Whole'
  BY <1>1 DEF Inv, Counting, Stacked, Whole, Paged, Straight
<1>7. Linked'
  <2>1. \A a \in TableDwords : a < PT => table'[a] = table[a]
    BY <1>1, <1>3, Dwords DEF PT, EntriesPerTable
  <2>2. PM4LT < PT /\ PDPT < PT /\ PDT < PT /\ pc \in Walkable
    BY <1>1 DEF PM4LT, PDPT, PDT, PT, Walkable
  <2> QED BY <1>2, <2>1, <2>2 DEF Inv, Linked
<1>8. Entries'
  <2> SUFFICES ASSUME NEW p \in 0..(EntriesPerTable - 1), ~ OnStack(p)'
               PROVE  /\ table'[PT + 8 * p] = IF p < Filling'
                           THEN PAGE_ENABLE + PageSize * p ELSE 0
                      /\ table'[PT + 8 * p + 4] = 0
    BY DEF Entries
  <2>1. Filling = n /\ Filling' = n + 1 /\ p \in Int /\ n \in Int
    BY <1>1 DEF Filling, Pages, EntriesPerTable
  <2>2. /\ table[PT + 8 * p] = IF p < n THEN PAGE_ENABLE + PageSize * p ELSE 0
        /\ table[PT + 8 * p + 4] = 0
    BY <1>1, <2>1 DEF Inv, Entries, Walkable, OnStack
  <2>3. table'[PT + 8 * p + 4] = 0
    <3>1. PT + 8 * p + 4 # PT + 8 * n
      BY <2>1 DEF PT
    <3> QED BY <1>3, <2>2, <3>1, EntryDwords
  <2>4. CASE p = n
    BY <1>3, <2>1, <2>3, <2>4
  <2>5. CASE p # n
    <3>1. PT + 8 * p # PT + 8 * n /\ (p < n <=> p < n + 1)
      BY <2>1, <2>5 DEF PT
    <3> QED BY <1>3, <2>1, <2>2, <2>3, <3>1, EntryDwords
  <2> QED BY <2>4, <2>5
<1> QED BY <1>1, <1>5, <1>6, <1>7, <1>8 DEF Inv

-----------------------------------------------------------------------------
(***************************************************************************)
(* The steps under paging.                                                 *)
(***************************************************************************)
\* A step that leaves the tables and the stack alone.
LEMMA TablesStay ==
  ASSUME Inv, pc \in Paged, pc' \in Paged, n' \in Nat,
         UNCHANGED <<regions, clusters, memoryRegionCount, table, sp, low>>
  PROVE  /\ TypeOK' /\ Stacked' /\ Linked' /\ Entries'
         /\ pc' # "link"
<1>1. TypeOK'
  BY DEF Inv, TypeOK, Paged, Straight, Loops
<1>2. Stacked' /\ Linked' /\ pc' # "link"
  BY DEF Inv, Stacked, Linked, Paged, Walkable
<1>3. Filling' = Filling /\ \A p : OnStack(p)' = OnStack(p)
  BY DEF Filling, Paged, OnStack
<1>4. Entries'
  BY <1>3 DEF Inv, Entries, Walkable
<1> QED BY <1>1, <1>2, <1>4

LEMMA Setup64Step == ASSUME Inv, setup64 PROVE Inv'
<1>1. /\ pc = "setup64" /\ pc' = "bpb"
      /\ UNCHANGED <<n, regions, clusters, memoryRegionCount, table, intact, sp,
                     low>>
      /\ n' \in Nat
  BY DEF setup64, Go, Inv, TypeOK
<1>2. pc \in Paged /\ pc' \in Paged
  BY <1>1 DEF Paged
<1>3. TypeOK' /\ Stacked' /\ Linked' /\ Entries' /\ pc' # "link"
  BY <1>1, <1>2, TablesStay
<1>4. Counting' /\ Whole'
  BY <1>1 DEF Inv, Counting, Whole, Straight
<1> QED BY <1>3, <1>4 DEF Inv

LEMMA PushStep == ASSUME Inv, Push PROVE Inv'
<1> DEFINE at == sp - 8
<1>1. /\ pc \in Paged /\ TypeOK /\ sp' = at
      /\ at >= StackTop - MaxStack
      /\ low' = IF low < at THEN low ELSE at
      /\ table' = Filled(at, 8, Junk)
      /\ intact' = Survivors(at, 8)
      /\ UNCHANGED <<pc, n, regions, clusters, memoryRegionCount>>
  BY DEF Push, Spoil, Inv
<1>2. MaxStack \in Nat /\ PT + MaxStack <= StackTop
  BY BootMemoryAssumption, RoomAssumption
<1>3. /\ at \in Nat /\ InStack(at) /\ at % 8 = 0 /\ at % 4 = 0
      /\ at + 8 <= StackTop /\ at + 8 <= 32768
  <2>1. sp \in Int /\ sp <= 31744 /\ sp % 8 = 0
    BY <1>1 DEF TypeOK, InStack, PT, StackTop
  <2>2. at \in Int /\ at >= 28672 /\ at + 8 <= 31744
    BY <1>1, <1>2, <2>1 DEF PT, StackTop
  <2>3. at % 8 = 0 /\ at % 4 = 0
    BY <2>1
  <2> QED BY <2>2, <2>3, StackRoom
<1> HIDE DEF at
<1>4. InStack(low') /\ low' <= at /\ low' <= low
  BY <1>1, <1>3 DEF TypeOK, InStack, PT, StackTop
<1>5. Filling' = Filling /\ pc \in Walkable /\ pc' \in Walkable
  BY <1>1 DEF Filling, Walkable
<1>6. table' \in [TableDwords -> Nat \cup {Junk}] /\ Linked' /\ Entries'
  BY <1>1, <1>3, <1>4, <1>5, StackStore
<1>7. TypeOK'
  BY <1>1, <1>3, <1>4, <1>6 DEF TypeOK
<1>8. Counting' /\ Stacked' /\ pc' # "link"
  BY <1>1 DEF Inv, Counting, Stacked, Paged
<1>9. \A x \in {"loader", "bpb", "directory", "fat", "kernel"} :
        x \in intact => x \in intact'
  BY <1>1, <1>3, Below, Missed
<1>10. Whole'
  BY <1>1, <1>9 DEF Inv, Whole, Paged
<1> QED BY <1>6, <1>7, <1>8, <1>10 DEF Inv

LEMMA PopStep == ASSUME Inv, Pop PROVE Inv'
<1>1. /\ pc \in Paged /\ TypeOK /\ sp < StackTop /\ sp' = sp + 8
      /\ UNCHANGED <<pc, n, regions, clusters, memoryRegionCount, table, intact,
                     low>>
  BY DEF Pop, Inv
<1>2. InStack(sp') /\ sp' % 8 = 0
  BY <1>1 DEF TypeOK, InStack, PT, StackTop
<1>3. TypeOK'
  BY <1>1, <1>2 DEF TypeOK
<1>4. Counting' /\ Stacked' /\ Whole' /\ Linked' /\ pc' # "link"
  BY <1>1 DEF Inv, Counting, Stacked, Whole, Linked, Paged, Walkable
<1>5. Filling' = Filling /\ \A p : OnStack(p)' = OnStack(p)
  BY <1>1 DEF Filling, OnStack
<1>6. Entries'
  BY <1>1, <1>5 DEF Inv, Entries, Walkable
<1> QED BY <1>3, <1>4, <1>6 DEF Inv

\* A sector is read: what it misses stays whole, the DMA buffer misses all that
\* is loaded, and the last part makes the thing whole.
LEMMA Read ==
  ASSUME TypeOK, NEW name, NEW address, NEW bytes, NEW last,
         ReadSector(name, address, bytes, last)
  PROVE  /\ UNCHANGED <<regions, clusters, memoryRegionCount, table, sp, low>>
         /\ \A x \in {"loader", "bpb", "directory", "fat", "kernel"} :
              x \in intact /\ ~ Hits(x, address, bytes) => x \in intact'
         /\ n + 1 = last => name \in intact'
<1>1. DmaBuffer \in Nat /\ DmaSize \in Nat /\ DmaBuffer + DmaSize <= 32768
  BY DEF DmaBuffer, DmaSize
<1>2. \A x \in {"loader", "bpb", "directory", "fat", "kernel"} :
        x \in intact => x \in Survivors(DmaBuffer, DmaSize)
  BY <1>1, Below, Missed
<1> QED BY <1>2, ReadLeavesTables DEF ReadSector

LEMMA ReadBootSectorStep == ASSUME Inv, readBootSector PROVE Inv'
<1>1. /\ pc = "bpb" /\ n = 0 /\ TypeOK
      /\ Loop("bpb", 1, "directory") /\ ReadSector("bpb", 86016, 32, 1)
  BY DEF Inv, Counting, Straight, readBootSector, Loop, Go
<1>2. pc' = "directory" /\ n' = 0
  BY <1>1 DEF Loop, Go
<1>3. ~ Hits("loader", 86016, 32)
  BY <1>1, Layout DEF Hits
<1>4. "bpb" \in intact' /\ "loader" \in intact'
  BY <1>1, <1>3, Read DEF Inv, Whole
<1>5. TypeOK' /\ Stacked' /\ Linked' /\ Entries' /\ pc' # "link"
  BY <1>1, <1>2, Read, TablesStay DEF Paged
<1>6. Counting' /\ Whole'
  BY <1>2, <1>4 DEF Counting, Whole, Straight
<1> QED BY <1>5, <1>6 DEF Inv

LEMMA LoadRootStep == ASSUME Inv, loadRoot PROVE Inv'
<1> DEFINE at == 90112 + 32 * bytesPerSector * n
<1>1. /\ pc = "directory" /\ n \in 0..9 /\ TypeOK
      /\ pc' \in {"directory", "fat"}
      /\ pc' = "directory" => n' = n + 1 /\ n + 1 < 10
      /\ pc' = "fat" => n' = 0 /\ n > 0
      /\ ReadSector("directory", at, bytesPerSector, 1)
  BY DEF Inv, TypeOK, Counting, loadRoot, Loop, Go
<1>2. at \in Nat /\ at >= 90112 /\ (n > 0 => at >= 90624)
  BY <1>1 DEF bytesPerSector
<1>3. n' \in Nat
  BY <1>1
<1> HIDE DEF at
<1>4. ~ Hits("loader", at, bytesPerSector) /\ ~ Hits("bpb", at, bytesPerSector)
  BY <1>1, <1>2, Layout DEF Hits
<1>5. n > 0 => ~ Hits("directory", at, bytesPerSector)
  BY <1>1, <1>2, Layout DEF Hits
<1>6. "loader" \in intact' /\ "bpb" \in intact'
  BY <1>1, <1>4, Read DEF Inv, Whole
<1>7. "directory" \in intact'
  <2>1. CASE n = 0
    BY <1>1, <2>1, Read
  <2>2. CASE n > 0
    BY <1>1, <1>5, <2>2, Read DEF Inv, Whole
  <2> QED BY <1>1, <2>1, <2>2
<1>8. TypeOK' /\ Stacked' /\ Linked' /\ Entries' /\ pc' # "link"
  BY <1>1, <1>3, Read, TablesStay DEF Paged
<1>9. Counting' /\ Whole'
  BY <1>1, <1>6, <1>7 DEF Counting, Whole, Straight
<1> QED BY <1>8, <1>9 DEF Inv

LEMMA LoadFatStep == ASSUME Inv, loadFat PROVE Inv'
<1> DEFINE at == 65536 + bytesPerSector * n
<1>1. /\ pc = "fat" /\ n \in 0..17 /\ TypeOK
      /\ pc' \in {"fat", "kernel"}
      /\ pc' = "fat" => n' = n + 1 /\ n + 1 < 18
      /\ pc' = "kernel" => n' = 0 /\ n + 1 = 18
      /\ ReadSector("fat", at, bytesPerSector, 18)
  BY DEF Inv, TypeOK, Counting, loadFat, Loop, Go
<1>2. at \in Nat /\ at >= 65536 /\ at + bytesPerSector <= 86016
  BY <1>1 DEF bytesPerSector
<1>3. n' \in Nat
  BY <1>1
<1> HIDE DEF at
<1>4. /\ ~ Hits("loader", at, bytesPerSector)
      /\ ~ Hits("bpb", at, bytesPerSector)
      /\ ~ Hits("directory", at, bytesPerSector)
  BY <1>1, <1>2, Layout DEF Hits, bytesPerSector
<1>5. "loader" \in intact' /\ "bpb" \in intact' /\ "directory" \in intact'
  BY <1>1, <1>4, Read DEF Inv, Whole
<1>6. pc' = "kernel" => "fat" \in intact'
  BY <1>1, Read
<1>7. TypeOK' /\ Stacked' /\ Linked' /\ Entries' /\ pc' # "link"
  BY <1>1, <1>3, Read, TablesStay DEF Paged
<1>8. clusters' > 0
  BY <1>7, BootMemoryAssumption DEF TypeOK
<1>9. Counting' /\ Whole'
  BY <1>1, <1>5, <1>6, <1>8 DEF Counting, Whole, Straight
<1> QED BY <1>7, <1>9 DEF Inv

LEMMA LoadClustersStep == ASSUME Inv, loadClusters PROVE Inv'
<1> DEFINE at == KernelAt + bytesPerSector * n
<1>1. /\ pc = "kernel" /\ n \in Nat /\ n < clusters /\ TypeOK
      /\ clusters \in Nat /\ clusters' = clusters
      /\ pc' \in {"kernel", "run"}
      /\ pc' = "kernel" => n' = n + 1 /\ n + 1 # clusters
      /\ pc' = "run" => n' = 0 /\ n + 1 = clusters
      /\ ReadSector("kernel", at, bytesPerSector, clusters)
  BY Layout DEF Inv, TypeOK, Counting, loadClusters, ReadSector, Loop, Go
<1>2. at \in Nat /\ at >= 131072
  BY <1>1 DEF bytesPerSector, KernelAt
<1>3. n' \in Nat
  BY <1>1
<1> HIDE DEF at
<1>4. /\ ~ Hits("loader", at, bytesPerSector)
      /\ ~ Hits("bpb", at, bytesPerSector)
      /\ ~ Hits("fat", at, bytesPerSector)
  BY <1>1, <1>2, Layout DEF Hits
<1>5. "loader" \in intact' /\ "bpb" \in intact' /\ "fat" \in intact'
  BY <1>1, <1>4, Read DEF Inv, Whole
<1>6. pc' = "run" => "kernel" \in intact'
  BY <1>1, Read
<1>7. TypeOK' /\ Stacked' /\ Linked' /\ Entries' /\ pc' # "link"
  BY <1>1, <1>3, Read, TablesStay DEF Paged
<1>8. Counting' /\ Whole'
  BY <1>1, <1>5, <1>6 DEF Counting, Whole, Straight
<1> QED BY <1>7, <1>8 DEF Inv

LEMMA ReadSectorsStep == ASSUME Inv, readSectors PROVE Inv'
<1>1. /\ pc = "run" /\ TypeOK /\ n \in Nat /\ UNCHANGED <<pc, n>>
      /\ ReadSector("kernel", HeapAt, bytesPerSector, 0)
  BY DEF Inv, TypeOK, readSectors
<1>2. /\ ~ Hits("loader", HeapAt, bytesPerSector)
      /\ ~ Hits("kernel", HeapAt, bytesPerSector)
  BY <1>1, Layout DEF Hits, HeapAt
<1>3. "loader" \in intact' /\ "kernel" \in intact'
  BY <1>1, <1>2, Read DEF Inv, Whole
<1>4. TypeOK' /\ Stacked' /\ Linked' /\ Entries' /\ pc' # "link"
  BY <1>1, Read, TablesStay DEF Paged
<1>5. Counting' /\ Whole'
  BY <1>1, <1>3 DEF Inv, Counting, Whole, Straight
<1> QED BY <1>4, <1>5 DEF Inv

-----------------------------------------------------------------------------
(***************************************************************************)
(* The invariant and what follows from it.                                 *)
(***************************************************************************)
THEOREM BootInvariant == Spec => []Inv
<1>1. Init => Inv
  BY Start
<1>2. Inv /\ [Next]_vars => Inv'
  <2> SUFFICES ASSUME Inv, [Next]_vars PROVE Inv'
    OBVIOUS
  <2>1. ASSUME Next PROVE Inv'
    BY <2>1, DiscReadStep, E820Step, Enter32Step, ClearTablesStep,
       LinkTablesStep, DebugPrintStep, SetPageTableEntryStep, Setup64Step,
       ReadBootSectorStep, LoadRootStep, LoadFatStep, LoadClustersStep,
       ReadSectorsStep, PushStep, PopStep DEF Next
  <2>2. ASSUME UNCHANGED vars PROVE Inv'
    BY <2>2 DEF vars, Inv, TypeOK, Counting, Stacked, Linked, Entries, Whole,
       Filling, OnStack
  <2> QED BY <2>1, <2>2
<1> QED BY <1>1, <1>2, PTL DEF Spec

\* An entry of one of the upper tables leads where it was linked to, or nowhere.
LEMMA UpperTables ==
  ASSUME Inv, pc \in Paged, NEW i \in 0..(EntriesPerTable - 1)
  PROVE  /\ Target(PM4LT + 8 * i) = IF i = 0 THEN PDPT ELSE Junk
         /\ Target(PDPT + 8 * i) = IF i = 0 THEN PDT ELSE Junk
         /\ Target(PDT + 8 * i) = IF i = 0 THEN PT ELSE Junk
<1>1. /\ table[PM4LT] = PDPT + PAGE_ENABLE
      /\ table[PDPT] = PDT + PAGE_ENABLE
      /\ table[PDT] = PT + PAGE_ENABLE
      /\ \A a \in TableDwords \ {PM4LT, PDPT, PDT} : a < PT => table[a] = 0
  BY DEF Inv, Linked, Walkable
<1>2. ASSUME NEW base \in {PM4LT, PDPT, PDT},
             NEW j \in 0..(2 * EntriesPerTable - 1)
      PROVE  /\ base + 4 * j \in TableDwords
             /\ j # 0 => table[base + 4 * j] = 0
  <2>1. /\ base + 4 * j \in Nat /\ (base + 4 * j) % 4 = 0
        /\ PM4LT <= base + 4 * j /\ base + 4 * j < PROGRAM_SPACE
        /\ base + 4 * j < PT
        /\ j # 0 => base + 4 * j \notin {PM4LT, PDPT, PDT}
    BY DEF PM4LT, PDPT, PDT, PT, PROGRAM_SPACE, EntriesPerTable
  <2>2. base + 4 * j \in TableDwords
    BY <2>1, Dwords
  <2> QED BY <1>1, <2>1, <2>2
<1>3. \A base \in {PM4LT, PDPT, PDT} :
        /\ base + 8 * i \in TableDwords /\ base + 8 * i + 4 \in TableDwords
        /\ table[base + 8 * i + 4] = 0
        /\ i # 0 => table[base + 8 * i] = 0
  <2> SUFFICES ASSUME NEW base \in {PM4LT, PDPT, PDT}
               PROVE  /\ base + 8 * i \in TableDwords
                      /\ base + 8 * i + 4 \in TableDwords
                      /\ table[base + 8 * i + 4] = 0
                      /\ i # 0 => table[base + 8 * i] = 0
    OBVIOUS
  <2>1. /\ 2 * i \in 0..(2 * EntriesPerTable - 1)
        /\ 2 * i + 1 \in 0..(2 * EntriesPerTable - 1)
        /\ base + 4 * (2 * i) = base + 8 * i
        /\ base + 4 * (2 * i + 1) = base + 8 * i + 4
        /\ 2 * i + 1 # 0 /\ (i # 0 => 2 * i # 0)
    BY DEF EntriesPerTable, PM4LT, PDPT, PDT
  <2>2. /\ base + 4 * (2 * i) \in TableDwords
        /\ 2 * i # 0 => table[base + 4 * (2 * i)] = 0
    BY <1>2, <2>1
  <2>3. /\ base + 4 * (2 * i + 1) \in TableDwords
        /\ table[base + 4 * (2 * i + 1)] = 0
    BY <1>2, <2>1
  <2> QED BY <2>1, <2>2, <2>3
<1>4. ASSUME i = 0
      PROVE  /\ Target(PM4LT + 8 * i) = PDPT
             /\ Target(PDPT + 8 * i) = PDT
             /\ Target(PDT + 8 * i) = PT
  <2>1. PM4LT + 8 * i = PM4LT /\ PDPT + 8 * i = PDPT /\ PDT + 8 * i = PDT
    BY <1>4 DEF PM4LT, PDPT, PDT
  <2> QED BY <1>1, <1>3, <2>1 DEF Target, PDPT, PDT, PT, PAGE_ENABLE
<1>5. ASSUME i # 0
      PROVE  /\ Target(PM4LT + 8 * i) = Junk
             /\ Target(PDPT + 8 * i) = Junk
             /\ Target(PDT + 8 * i) = Junk
  BY <1>3, <1>5 DEF Target
<1> QED BY <1>4, <1>5

\* The entries of PT lead to the pages they are for.
LEMMA LowestTable ==
  ASSUME Inv, pc \in Paged, NEW p \in 0..(EntriesPerTable - 1), ~ OnStack(p)
  PROVE  Target(PT + 8 * p) = PageSize * p
<1>1. Filling = Pages /\ p < Pages
  BY DEF Filling, Paged, Pages, EntriesPerTable
<1>2. table[PT + 8 * p] = PAGE_ENABLE + PageSize * p /\ table[PT + 8 * p + 4] = 0
  BY <1>1 DEF Inv, Entries, Walkable
<1>3. /\ PAGE_ENABLE + PageSize * p \in Nat
      /\ (PAGE_ENABLE + PageSize * p) % 2 = 1
      /\ (PAGE_ENABLE + PageSize * p) - PAGE_ENABLE = PageSize * p
  BY DEF PAGE_ENABLE, PageSize, EntriesPerTable
<1> QED BY <1>2, <1>3, EntryDwords DEF Target

\* The 2^36 pages that 48 bits of an address can name.
AddressablePages == {p \in Nat : p < 68719476736}

\* Four indices name a page: the upper three are 0 for the first 512 only.
LEMMA Indices ==
  ASSUME NEW p \in AddressablePages
  PROVE  /\ \A level \in 1..4 : Index(p, level) \in 0..(EntriesPerTable - 1)
         /\ p < 512 => /\ Index(p, 4) = 0 /\ Index(p, 3) = 0 /\ Index(p, 2) = 0
                       /\ Index(p, 1) = p
         /\ p >= 512 => Index(p, 4) # 0 \/ Index(p, 3) # 0 \/ Index(p, 2) # 0
<1>1. /\ Index(p, 1) = p % 512
      /\ Index(p, 2) = (p \div 512) % 512
      /\ Index(p, 3) = (p \div 262144) % 512
      /\ Index(p, 4) = (p \div 134217728) % 512
  <2>1. /\ Span[1] = 1 /\ Span[2] = 512 /\ Span[3] = 262144
        /\ Span[4] = 134217728
    BY SMT DEF Span
  <2>2. p \div 1 = p
    BY SMT DEF AddressablePages
  <2> QED BY <2>1, <2>2 DEF Index, EntriesPerTable
<1>2. p \in Nat /\ p < 68719476736
  BY SMT DEF AddressablePages
<1>3. /\ Index(p, 1) \in 0..511 /\ Index(p, 2) \in 0..511
      /\ Index(p, 3) \in 0..511 /\ Index(p, 4) \in 0..511
  BY <1>1, <1>2, SMT
<1>4. p < 512 => /\ Index(p, 4) = 0 /\ Index(p, 3) = 0 /\ Index(p, 2) = 0
                 /\ Index(p, 1) = p
  BY <1>1, <1>2, SMT
<1>5. p >= 512 => Index(p, 4) # 0 \/ Index(p, 3) # 0 \/ Index(p, 2) # 0
  BY <1>1, <1>2, SMT
<1> QED BY <1>3, <1>4, <1>5 DEF EntriesPerTable

LEMMA Walk ==
  ASSUME Inv, pc \in Paged, NEW p \in AddressablePages
  PROVE  /\ p >= EntriesPerTable => Translate(p) = Junk
         /\ p < EntriesPerTable => Translate(p) = Target(PT + 8 * p)
<1>1. PM4LT # Junk /\ PDPT # Junk /\ PDT # Junk /\ PT # Junk
  BY BootMemoryAssumption DEF PM4LT, PDPT, PDT, PT
<1>2. \A base, level : Step(base, p, level) =
        IF base = Junk THEN Junk ELSE Target(base + 8 * Index(p, level))
  BY DEF Step
<1>3. /\ Index(p, 1) \in 0..(EntriesPerTable - 1)
      /\ Index(p, 2) \in 0..(EntriesPerTable - 1)
      /\ Index(p, 3) \in 0..(EntriesPerTable - 1)
      /\ Index(p, 4) \in 0..(EntriesPerTable - 1)
  BY Indices
<1>4. Step(PM4LT, p, 4) = IF Index(p, 4) = 0 THEN PDPT ELSE Junk
  BY <1>1, <1>2, <1>3, UpperTables
<1>5. Step(PDPT, p, 3) = IF Index(p, 3) = 0 THEN PDT ELSE Junk
  BY <1>1, <1>2, <1>3, UpperTables
<1>6. Step(PDT, p, 2) = IF Index(p, 2) = 0 THEN PT ELSE Junk
  BY <1>1, <1>2, <1>3, UpperTables
<1>7. \A level : Step(Junk, p, level) = Junk
  BY <1>2
<1>8. Step(PT, p, 1) = Target(PT + 8 * Index(p, 1))
  BY <1>1, <1>2
<1>9. Translate(p) = IF Index(p, 4) = 0 /\ Index(p, 3) = 0 /\ Index(p, 2) = 0
                     THEN Target(PT + 8 * Index(p, 1)) ELSE Junk
  BY <1>4, <1>5, <1>6, <1>7, <1>8 DEF Translate
<1>10. p \in Nat
  BY SMT DEF AddressablePages
<1> QED BY <1>9, <1>10, Indices DEF EntriesPerTable

\* MapKept: in every memory that fits, whatever the stack does in its page, the
\* first 512 pages are mapped to themselves but for those whose entries the stack
\* of stage2.s and the loader has reached.
THEOREM MapIsKept == Spec => []MapKept
<1>1. Inv => MapKept
  <2> SUFFICES ASSUME Inv, pc \in Paged
               PROVE  /\ \A p \in 0..(EntriesPerTable - 1) :
                           OnStack(p) \/ Translate(p) = PageSize * p
                      /\ \A p \in {512, 513, 262143, 262144, 134217728} :
                           Translate(p) = Junk
    BY DEF MapKept
  <2>1. ASSUME NEW p \in 0..(EntriesPerTable - 1), ~ OnStack(p)
        PROVE  Translate(p) = PageSize * p
    <3>1. p \in AddressablePages /\ p < EntriesPerTable
      BY SMT DEF AddressablePages, EntriesPerTable
    <3> QED BY <2>1, <3>1, Walk, LowestTable
  <2>2. ASSUME NEW p \in {512, 513, 262143, 262144, 134217728}
        PROVE  Translate(p) = Junk
    <3>1. p \in AddressablePages /\ p >= EntriesPerTable
      BY SMT DEF AddressablePages, EntriesPerTable
    <3> QED BY <3>1, Walk
  <2> QED BY <2>1, <2>2
<1> QED BY <1>1, BootInvariant, PTL

\* Above the first two megabytes no page at all is mapped, of the 2^36 there are:
\* a stray pointer of the loader or the kernel faults instead of aliasing memory.
THEOREM NothingAbove ==
  Spec => [](pc \in Paged =>
               \A p \in AddressablePages : p >= EntriesPerTable
                                             => Translate(p) = Junk)
<1>1. Inv => (pc \in Paged => \A p \in AddressablePages :
                p >= EntriesPerTable => Translate(p) = Junk)
  BY Walk
<1> QED BY <1>1, BootInvariant, PTL

\* StillThere: for every memory map, every kernel and every stack that fit, the
\* code, the directory, the FAT and the kernel are whole as long as they are used.
THEOREM NothingOverwritten == Spec => []StillThere
<1>1. Inv => StillThere
  <2> SUFFICES ASSUME Inv PROVE Needed \subseteq intact
    BY DEF StillThere
  <2>1. Whole /\ (pc = "fat" => n \in Nat)
    BY DEF Inv, TypeOK
  <2> QED BY <2>1 DEF Needed, Whole
<1> QED BY <1>1, BootInvariant, PTL
=============================================================================
