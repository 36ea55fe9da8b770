------------------------------ MODULE DiskRead ------------------------------
(***************************************************************************)
(* readSectors of src/kernel/hal/disk.cpp on top of the kernel heap: it    *)
(* takes a buffer from kcalloc and fills it a sector at a time.            *)
(*                                                                         *)
(* The driver below is taken at its word: readSector_int delivers the      *)
(* sector it is asked for, which is what SectorDevice says and             *)
(* FloppyDriver is shown to implement.  What memcpy writes over stops      *)
(* being a header.                                                         *)
(*                                                                         *)
(* CountOfGap, ReturnedHeader and StayAt are not part of the model: they   *)
(* are mistakes the code could have made.                                  *)
(***************************************************************************)
EXTENDS KernelHeap

CONSTANTS
    Ranges,     \* pairs of the first and the last sector that are asked for
    SectorSize  \* 512 in the code

VARIABLES
    reading,    \* readSectors is running
    from, to,   \* startingLBA, finishingLBA
    at,         \* currentLBA
    buffer      \* what kcalloc returned, 0 before

reader == <<reading, from, to, at, buffer>>

\* The count readSectors hands to kcalloc: an int, converted to a qword.
CountOfGap(s, f) == (s - f) % Word
Count(s, f) == (s - f + 1) % Word

ASSUME DiskReadAssumption ==
    /\ SectorSize \in Sizes
    /\ \A r \in Ranges : r[1] \in Nat /\ r[2] \in Nat
                         /\ Count(r[1], r[2]) \in Counts

DiskInit ==
    /\ Init
    /\ reading = FALSE
    /\ from = 0 /\ to = 0 /\ at = 0
    /\ buffer = 0

\* readSectors starts with kcalloc.
readSectors(s, f) ==
    /\ ~ reading
    /\ Kcalloc(Count(s, f), SectorSize)
    /\ reading' = TRUE
    /\ from' = s /\ to' = f /\ at' = s
    /\ buffer' = 0

\* What kmalloc returns: the address after the header.
ReturnedHeader == cur
Returned == cur + Hdr

\* A step of the heap.
Heap ==
    /\ Internal
    /\ buffer' = IF SearchTake THEN Returned ELSE buffer
    /\ UNCHANGED <<reading, from, to, at>>

\* memcpy of a sector: the headers it covers are gone.
Overwrite(b) ==
    LET kept == {a \in Legible : a + Hdr <= b \/ a >= b + SectorSize}
        Keep(f) == [a \in kept |-> f[a]]
    IN  /\ len' = Keep(len) /\ next' = Keep(next) /\ prev' = Keep(prev)
        /\ nextFree' = Keep(nextFree) /\ prevFree' = Keep(prevFree)
        /\ free' = Keep(free)

\* bufferPtr: how many bytes have been filled.
BufferPtr == (at - from) * SectorSize

StayAt(lba) == lba
Following(lba) == lba + 1

Copy ==
    /\ reading /\ pc = "idle"
    /\ at <= to
    /\ Overwrite(buffer + BufferPtr)
    /\ at' = Following(at)
    /\ UNCHANGED <<first, pc, cur, size, old, live, segs, exhausted,
                   reading, from, to, buffer>>

Return ==
    /\ reading /\ pc = "idle"
    /\ at > to
    /\ reading' = FALSE
    /\ UNCHANGED <<vars, from, to, at, buffer>>

Running == Heap \/ Copy \/ Return

\* The kernel: it reads sectors, fprintf takes blocks, nothing is freed while
\* a read runs.
DiskNext ==
    \/ Running
    \/ \E r \in Ranges : readSectors(r[1], r[2])
    \/ ~ reading /\ Allocate /\ UNCHANGED reader

DiskSpec == DiskInit /\ [][DiskNext]_<<vars, reader>>

-----------------------------------------------------------------------------
\* The reader's variables have their types, and between kcalloc and return it
\* has a block.
DiskTypeOK ==
    /\ reading \in BOOLEAN
    /\ from \in Nat /\ to \in Nat /\ at \in Nat /\ buffer \in Nat
    /\ reading /\ pc = "idle" => buffer \in DOMAIN live

\* Every sector is copied into the block that was allocated for it.
InsideBlock ==
    reading /\ pc = "idle" => BufferPtr <= live[buffer]
=============================================================================
