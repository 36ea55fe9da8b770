----------------------------- MODULE BootMemory -----------------------------
(***************************************************************************)
(* The first megabyte while open-OS boots: bootsect.s loads the boot       *)
(* loader, stage2.s asks for the memory map and builds the page tables,    *)
(* fat.cpp loads the kernel, and all of them share a few pages with the    *)
(* DMA buffer and the stack.                                               *)
(*                                                                         *)
(* Page tables are kept dword by dword.  Of everything else the model      *)
(* keeps only whether it is still whole: `intact' loses a name when        *)
(* something else is written over it.  Stores made before the tables are   *)
(* cleared are seen only if they hit something that has a name.            *)
(*                                                                         *)
(* The BIOS and the processor's table walk are external.  MaxStack bounds  *)
(* the stack.  Definitions whose comment starts "Mistake" are not part of  *)
(* the model: each is an error that would break a property.                *)
(***************************************************************************)
EXTENDS DiskGeometry, Sequences

CONSTANTS
    Regions,    \* how many regions the BIOS may report
    Clusters,   \* how many clusters the kernel's file may have
    MaxStack,   \* bytes of stack used at most, a multiple of 8
    Junk        \* a dword nobody meant to put there

ASSUME BootMemoryAssumption ==
    /\ Regions \subseteq Nat \ {0}
    /\ Clusters \subseteq Nat \ {0}
    /\ MaxStack \in Nat /\ MaxStack % 8 = 0
    /\ Junk \notin Int

VARIABLES
    pc,
    n,                  \* the counter of the loop that runs
    regions, clusters,  \* what the BIOS and the disk hold
    memoryRegionCount,
    table,              \* the dwords from PM4LT on
    intact,             \* what is in memory and whole
    sp,
    low                 \* the lowest address on the stack since the clearing

vars == <<pc, n, regions, clusters, memoryRegionCount, table, intact, sp, low>>

-----------------------------------------------------------------------------
(***************************************************************************)
(* Where things are.                                                       *)
(***************************************************************************)
PROGRAM_SPACE == 32768          \* 0x8000
StackTop == 31744               \* 0x7c00
PM4LT == 16384                  \* 0x4000
PDPT == 20480                   \* 0x5000
PDT == 24576                    \* 0x6000
PT == 28672                     \* 0x7000
PAGE_ENABLE == 3
PageSize == 4096
EntriesPerTable == 512
LoaderSectors == 64
DmaBuffer == 4096               \* 0x1000
KernelAt == 131072              \* 0x20000
HeapAt == 1048576               \* 0x100000
bytesPerSector == 512

\* What the code takes for granted: the memory map ends below the stack, the
\* stack stays in the page of PT, the kernel's file ends below the heap.
ASSUME RoomAssumption ==
    /\ \A r \in Regions : DmaBuffer + 24 * r <= StackTop - MaxStack
    /\ PT + MaxStack <= StackTop
    /\ \A c \in Clusters : KernelAt + bytesPerSector * c <= HeapAt

\* Mistake: the count of the whole 16 bit range, 0x3fff.
DmaSizeWide == 16384
DmaSize == 9216                 \* the count 0x23ff, and one

TableDwords == {PM4LT + 4 * i : i \in 0..4095}

\* The first address of a thing, and how many bytes it has.
Place ==
    [bootSector |-> <<StackTop, 512>>,
     memoryMap  |-> <<DmaBuffer, 24 * memoryRegionCount>>,
     loader     |-> <<PROGRAM_SPACE, LoaderSectors * bytesPerSector>>,
     bpb        |-> <<86016, 32>>,              \* 0x15000
     directory  |-> <<90112, bytesPerSector>>,  \* 0x16000
     fat        |-> <<65536, 18 * bytesPerSector>>,
     kernel     |-> <<KernelAt, clusters * bytesPerSector>>]

Hits(name, address, bytes) ==
    /\ address < Place[name][1] + Place[name][2]
    /\ Place[name][1] < address + bytes

Survivors(address, bytes) ==
    {name \in intact : ~ Hits(name, address, bytes)}

\* A store that puts together what is called name, or only spoils.
Put(name, address, bytes) == intact' = Survivors(address, bytes) \cup {name}
Spoil(address, bytes) == intact' = Survivors(address, bytes)

\* The table after bytes from address on have become v.
Filled(address, bytes, v) ==
    [a \in TableDwords |-> IF address < a + 4 /\ a < address + bytes THEN v
                           ELSE table[a]]

-----------------------------------------------------------------------------
Init ==
    /\ pc = "bootsect" /\ n = 0
    /\ regions \in Regions /\ clusters \in Clusters
    /\ memoryRegionCount = 0
    /\ table = [a \in TableDwords |-> Junk]
    /\ intact = {"bootSector"}
    /\ sp = StackTop /\ low = StackTop

Go(from, to) == pc = from /\ pc' = to

\* One BIOS call; the loader's file is the first on the disk.
discRead ==
    /\ \/ /\ Go("bootsect", "e820")
          /\ LET at == LBAtoCHS(33) IN
               IF LbaAt(at.cyl, at.head, at.sector) = 33
               THEN Put("loader", PROGRAM_SPACE, LoaderSectors * bytesPerSector)
               ELSE Spoil(PROGRAM_SPACE, LoaderSectors * bytesPerSector)
       \/ Go("bootsect", "stopped") /\ UNCHANGED intact
    /\ UNCHANGED <<n, regions, clusters, memoryRegionCount, table, sp, low>>

\* The loop counts the regions but the last.
E820 ==
    /\ IF n + 1 = regions
       THEN Go("e820", "enter32") /\ n' = 0 /\ UNCHANGED memoryRegionCount
       ELSE Go("e820", "e820") /\ n' = n + 1
            /\ memoryRegionCount' = (memoryRegionCount + 1) % 256
    /\ Put("memoryMap", DmaBuffer + 24 * n, 24)
    /\ table' = Filled(DmaBuffer + 24 * n, 24, Junk)
    /\ UNCHANGED <<regions, clusters, sp, low>>

\* CPUID may be missing, or long mode.
enter32 ==
    /\ Go("enter32", "clear") \/ Go("enter32", "stopped")
    /\ UNCHANGED <<n, regions, clusters, memoryRegionCount, table, intact,
                   sp, low>>

\* rep stosd.  Mistake: the count is taken for one of qwords.
ClearedQwords == 8 * 4096
Cleared == 4 * 4096

ClearTables ==
    /\ Go("clear", "link")
    /\ table' = Filled(PM4LT, Cleared, 0)
    /\ Spoil(PM4LT, Cleared)
    /\ UNCHANGED <<n, regions, clusters, memoryRegionCount, sp, low>>

LinkTables ==
    /\ Go("link", "print")
    /\ table' = [table EXCEPT ![PM4LT] = PDPT + PAGE_ENABLE,
                              ![PDPT] = PDT + PAGE_ENABLE,
                              ![PDT] = PT + PAGE_ENABLE]
    /\ UNCHANGED <<n, regions, clusters, memoryRegionCount, intact, sp, low>>

\* The call to debugPrint leaves its return address under the stack.
debugPrint ==
    /\ Go("print", "pages")
    /\ table' = Filled(sp - 4, 4, Junk)
    /\ Spoil(sp - 4, 4)
    /\ low' = sp - 4
    /\ UNCHANGED <<n, regions, clusters, memoryRegionCount, sp>>

Pages == EntriesPerTable

EntrySize == 8

setPageTableEntry ==
    /\ IF n + 1 = Pages THEN Go("pages", "setup64") /\ n' = 0
       ELSE Go("pages", "pages") /\ n' = n + 1
    /\ table' = [table EXCEPT ![PT + EntrySize * n] = PAGE_ENABLE + PageSize * n]
    /\ UNCHANGED <<regions, clusters, memoryRegionCount, intact, sp, low>>

-----------------------------------------------------------------------------
(***************************************************************************)
(* Paging is on; from here on everything uses the stack.                   *)
(***************************************************************************)
Paged == {"setup64", "bpb", "directory", "fat", "kernel", "run"}

setup64 ==
    /\ Go("setup64", "bpb")
    /\ UNCHANGED <<n, regions, clusters, memoryRegionCount, table, intact,
                   sp, low>>

\* A call, a local, an interrupt.
Push ==
    /\ pc \in Paged
    /\ sp - 8 >= StackTop - MaxStack
    /\ sp' = sp - 8
    /\ low' = IF low < sp' THEN low ELSE sp'
    /\ table' = Filled(sp', 8, Junk)
    /\ Spoil(sp', 8)
    /\ UNCHANGED <<pc, n, regions, clusters, memoryRegionCount>>

Pop ==
    /\ pc \in Paged
    /\ sp < StackTop
    /\ sp' = sp + 8
    /\ UNCHANGED <<pc, n, regions, clusters, memoryRegionCount, table, intact,
                   low>>

\* The DMA channel transfers until its count is used up, then what was asked
\* for is copied.  The copy of part n of a thing finishes it when it is last.
ReadSector(name, address, bytes, last) ==
    /\ table' = Filled(DmaBuffer, DmaSize, Junk)
    /\ intact' = {x \in Survivors(DmaBuffer, DmaSize) : ~ Hits(x, address, bytes)}
                   \cup (IF n + 1 = last THEN {name} ELSE {})
    /\ UNCHANGED <<regions, clusters, memoryRegionCount, sp, low>>

Loop(part, last, then) ==
    IF n + 1 = last THEN Go(part, then) /\ n' = 0
    ELSE Go(part, part) /\ n' = n + 1

readBootSector ==
    /\ Loop("bpb", 1, "directory")
    /\ ReadSector("bpb", 86016, 32, 1)

\* The first of these is where loadFile looks; each goes 16 KB after the last.
loadRoot ==
    /\ Loop("directory", 10, "fat")
    /\ ReadSector("directory", 90112 + 32 * bytesPerSector * n, bytesPerSector,
                  1)

loadFat ==
    /\ Loop("fat", 18, "kernel")
    /\ ReadSector("fat", 65536 + bytesPerSector * n, bytesPerSector, 18)

loadClusters ==
    /\ Loop("kernel", clusters, "run")
    /\ ReadSector("kernel", KernelAt + bytesPerSector * n, bytesPerSector,
                  clusters)

\* readSectors of the kernel, into the heap above the first megabyte.
readSectors ==
    /\ pc = "run"
    /\ ReadSector("kernel", HeapAt, bytesPerSector, 0)
    /\ UNCHANGED <<pc, n>>

Next == \/ discRead \/ E820 \/ enter32
        \/ ClearTables \/ LinkTables \/ debugPrint \/ setPageTableEntry
        \/ setup64 \/ readBootSector \/ loadRoot \/ loadFat \/ loadClusters
        \/ readSectors
        \/ Push \/ Pop

Spec == Init /\ [][Next]_vars

-----------------------------------------------------------------------------
(***************************************************************************)
(* The processor's walk through the tables.                                *)
(***************************************************************************)
\* Where an entry leads, or Junk: it must be enabled and its upper half 0.
Target(address) ==
    IF address \in TableDwords /\ table[address] \in Nat
         /\ table[address] % 2 = 1 /\ table[address + 4] = 0
    THEN table[address] - PAGE_ENABLE
    ELSE Junk

\* The pages that one entry of a level stands for: level 1 is that of PT.
Span == <<1, 512, 512 * 512, 512 * 512 * 512>>

\* The entry of a page at a level.
Index(page, level) == (page \div Span[level]) % EntriesPerTable

Step(base, page, level) ==
    IF base = Junk THEN Junk ELSE Target(base + 8 * Index(page, level))

Translate(page) ==
    Step(Step(Step(Step(PM4LT, page, 4), page, 3), page, 2), page, 1)

OnStack(page) == PT + 8 * page + 8 > low /\ PT + 8 * page < StackTop

\* While paging is on, each of the first 512 pages is mapped to itself unless
\* the stack has been where its entry is, and no page above them is mapped.
\* Nothing that is loaded or transferred reaches the tables.
MapKept ==
    pc \in Paged =>
      /\ \A p \in 0..(EntriesPerTable - 1) :
           OnStack(p) \/ Translate(p) = PageSize * p
      /\ \A p \in {512, 513, 262143, 262144, 134217728} : Translate(p) = Junk

\* What is still going to be used: code that runs or is returned to, the
\* loader's GDT, the tables loadFile walks.
Needed ==
    CASE pc = "bootsect" -> {"bootSector"}
      [] pc \in {"bpb"} -> {"loader"}
      [] pc = "directory" -> {"loader", "bpb"}
      [] pc = "fat" -> {"loader", "bpb", "directory"}
      [] pc = "kernel" -> {"loader", "bpb", "fat"}
      [] pc = "run" -> {"loader", "kernel"}
      [] pc = "stopped" -> {}
      [] OTHER -> {"loader"}

\* Nothing is written over that is still going to be used.
StillThere == Needed \subseteq intact

(***************************************************************************)
(* What stage2 means to do and does not.                                   *)
(***************************************************************************)
\* "Identity-map the first 2 megabytes (0x00000000 - 0x00200000)".
IdentityMap ==
    pc \in Paged => \A p \in 0..(EntriesPerTable - 1) : Translate(p) = PageSize * p
=============================================================================
