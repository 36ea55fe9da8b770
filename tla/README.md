# open-OS in TLA+

Models of open-OS, a small x86-64 operating system that boots from a floppy:
TLA+ modules for its parts, TLC configurations that check them on small
instances, and theorems that TLAPS proves for every instance. Source files are
named from the repository's root.

## 1. The system and its parts

Control runs in one line, `bootsect.s` -> `stage2.s` -> `setup64` -> `_start`,
on one processor. The only concurrency is between that line, the interrupt
handlers and the hardware; nothing is persisted and nothing is restarted.

| Part | Source | State | Operations | Uses |
|---|---|---|---|---|
| boot sector | `src/boot/bootsect.s` | registers | `LBAtoCHS`, `discRead` | BIOS |
| long mode entry | `src/boot/i686/stage2.s` | E820 map at 0x1000, page tables at 0x4000-0x7fff | E820 loop, CPUID tests, table building, `ISR6` | - |
| boot interrupts, PIC | `src/boot/amd64/int/` | `_idt[256]`, `irq6`, PIC masks | `x64IDT_INIT`, `PIC_remap`, masks, `floppyHandler` | port I/O |
| boot floppy driver | `src/boot/amd64/fs/fdc.cpp` | controller, DMA channel 2, buffer at 0x1000 | `FDCInitialize`, `FDCReset`, `FDCReadSector_LBA` | `irq6` |
| FAT12 loader | `src/boot/amd64/fs/fat.cpp` | boot sector, root directory and FAT copies, kernel at 0x20000 | `loadRoot`, `loadFile` | floppy driver |
| kernel heap | `src/kernel/hal/mem.cpp` | segment headers in 0x100000-0x1fffff, `firstFreeMemorySegment` | `heapInit`, `kmalloc`, `kcalloc`, `krealloc`, `kfree` | memset, memcpy |
| kernel floppy driver | `src/kernel/hal/disk.cpp` | as the boot one | `readSectors` and what it calls | `isrs[6]`, heap |
| kernel interrupts | `src/kernel/hal/idt.cpp` | `_idt`, `isrs[16]`, `countPIT` | `fillIDT`, `isr0`-`isr15`, `exc*`, masks, `sendEOI` | console |
| console | `src/kernel/hal/stdout.cpp` | cursor, screen, font | `putc`, `puts`, `printf`, `fprintf`, `sleep`, `sleepRTC`, `kpanic` | heap, `countPIT` |
| memory primitives | `src/kernel/hal/mem.cpp`, `src/boot/amd64/mem/mem.cpp` | - | `memset`, `memcpy` | - |
| shell | `debug/other/` (not in the build) | `commandBuffer`, processes, the real-time clock | line editing, `createProc`, `runProc`, `killProc`, `readRTC` | terminal |

How they interact: handlers tell main code that an interrupt came through
`irq6`, `isrs[]` and `countPIT`, which main code polls and resets; the driver
talks to the controller through two registers and receives data through the DMA
buffer; the kernel takes over the controller, the PIC and the memory as the
boot loader leaves them; `readSectors` and `fprintf` allocate from the heap.

What is hard, and what makes each part correct:

* **Heap.** Long sequences of legal calls: links are mended locally and a stale
  one is followed many calls later; limits (full heap, size zero, exact fit).
  Correct when blocks never overlap, the list describes the memory, nothing is
  lost when blocks are freed, and a request is only given up for want of room.
* **Floppy driver.** Interleaving with the controller and the handler; a byte
  protocol without framing; retries; no timeouts. Correct when driver and
  controller stay in step, each wait is ended by its own interrupt, and each
  read delivers the sector asked for.
* **Interrupts.** Order of set-up against the first interrupt, end-of-interrupt
  for both PICs, flags polled without a lock.
* **FAT12 loader.** Bounds (directory entries, cluster numbers), a cyclic chain,
  copies that overlap other things in low memory.
* **Console.** The cursor's limits, conversions at 0 and at negative numbers,
  waits on a BCD clock that wraps, a font drawn by hand.
* **Memory primitives.** Lengths that are no multiple of eight, areas that
  overlap.
* **Shell.** A line buffer that is never cleared, a clock that is updated while
  it is read, a process that is refused its end.

## 2. The plan

Written so far, in this order:

1. `Allocator` (abstract) and `KernelHeap` (detailed); `HeapProofs`, its first part.
2. `DiskGeometry`, `SectorDevice` (abstract) and `FloppyDriver` (detailed),
   `FloppyDriverProofs`.
3. `DiskRead`: `readSectors` on top of `KernelHeap`, with the driver taken at
   `SectorDevice`'s word; `HeapPanic` on top of that: an exception after any
   statement of kmalloc, and the handler's own allocation; the rest of `HeapProofs`.
4. `Interrupts`: both tables, both 8259s, the handlers, `sleep` and the start of
   `kpanic`; `InterruptsProofs`.
5. `Fat12` on top of `SectorDevice` and `DiskGeometry`, `Fat12Proofs`.
6. `Console` and `ConsoleProofs`: the cursor and the screen; `PowerOff`: the real
   time clock waits that end `kpanic`; `Kpanic`, which composes the two.
7. `BootMemory`: who writes where in the first megabyte, page tables included;
   the boot sector's `LBAtoCHS` in `DiskGeometry`; `BootMemoryProofs`.
8. `Printf`: the conversions, how `kpanic` prints what `fprintf` wrote, and which
   characters have a glyph; `PrintfProofs`. `Stdout`: all of `stdout.cpp`, for one
   run.
9. `Time` and, on top of it, `Shell`: `readRTC`, the line editor, the commands
   and their processes; `ShellProofs`.
10. `Memory`: memset and memcpy; the end of `PrintfProofs`.

An `MC*` module gives a module's set-valued constants for TLC. Some definitions
are alternatives with a plausible mistake (a dropped mask, an off-by-one). Their
comments say so, nothing uses them, and putting one in the place of the
definition after it must break a property: that is how the properties were
tested for teeth (PROJECT.json, `mutants`).

Every safety property that a run checks is proved. What the plan leaves is what the
provers cannot reach: section 13.

## 3. The kernel heap

### Model

`KernelHeap` abstracts memory to the segment headers in it. Each field of
`MemorySegmentHeader_T` is a function of the address; the domain of these
functions is the set of addresses where a header can still be read. The bytes a
client owns are arbitrary, so a header that a new block or a new header covers
leaves the domain, and following a pointer to such an address is the action
`Fault`. Address 0 is always in the domain, because the code follows null
pointers, page 0 is mapped, and the build does read and write there; what it
holds first is the constant `LowMemory`.

Actions: `BeginSearch` (called as `Kmalloc`, `Kcalloc`, `Krealloc`) is entry
and rounding; `SearchTake` and `SearchNext` are the two ways through one turn of
kmalloc's loop; `Kfree` and `Release` are kfree's entry and first statements;
`LinkNextFree`, `LinkPrevFree`, `MergeNext`, `MergePrev` its four repairs, with
`combineFreeSegments` as `Combine`. memset and memcpy change no header, since
they stay inside the block. `live` and `segs` are history: the blocks clients
own and where segments start. `exhausted` records that a search has passed the
first free segment; from then on the code promises nothing and no new call is
made (the model's one bound on behaviour), but the search itself goes on.

Two clients: `Spec` frees and allocates in any order. `CompactSpec` allocates
only while no hole lies below a block it owns, and frees in any order. The
kernel itself never frees, so it is the second kind of client.

### Checks

| Run | Bounds | Shows |
|---|---|---|
| `heap_compact` | 352 bytes, 48-byte headers, sizes 0, 41, 96, kcalloc of 2 | the inductive invariant and what follows from it; refinement of `Allocator` |
| `heap_any_order` | 300 bytes, any order | **violation**: two live blocks overlap |

352 bytes are seven header-sized slots and a bit: up to six segments (a block of
size 0 is a bare header), which is enough for a segment with a free and a live
neighbour on either side and for every pair of merges; 41 is rounded to 48, 96
is two headers, and a pair of them the largest request. Deadlock is not
checked: the system stops when the heap is exhausted.

The violation is real, a line or two of `mem.cpp`: a split leaves the
remainder's `PreviousSegment` and the next header's links as they were. Above a
hole they then skip live blocks, and `kfree` merges across them.

### Proofs

The first part of `HeapProofs`, for every region, header size, set of sizes and contents of
page 0 that `HeapAssumption` admits:

* `TypeCorrect`: `Spec => []TypeOK`.
* `HeapInvariant`: `CompactSpec => [](TypeOK /\ HeapInv)`. `HeapInv` is the
  inductive invariant; `BlocksApart` alone is not inductive, because the bytes
  handed out next depend on the lengths and links in the headers. It says that
  the segments tile the region and `NextSegment` = `NextFreeSegment` = the
  following one (`Tiling`), that a segment is a client's exactly when not free
  (`Owned`), that a back link is set exactly when the predecessor is free and
  has said so (`BackLinks`), that free neighbours are merged (`Merged`), both
  with the exceptions kfree makes while it runs, that the first and the last
  free segment are where kmalloc looks (`FreeEnds`), and what the running
  function holds (`Locals`). `NextFreeSegment` really is the next segment and
  not the next free one: splits set both to the remainder.
* `BlocksStayApart`, `NeverFaults`, `EmptyHeapCoalesced`: `BlocksApart`,
  `NoFault` and `Coalesced` follow from it.
* `ImplementsAllocator`: `CompactSpec => AllocatorSpec`, each step of the heap
  being a step of `Allocator` or a stutter: `SearchTake` is `Allocate`,
  `Release` is `Free`, `SearchNext` is `GiveUp`.

The assumptions: addresses and sizes fit a qword, a header is at least one byte
and lies below `Base`. They hold of 0x100000, 0x100000, 48.

## 4. The floppy driver

### Model

`FloppyDriver` has three processes. The *driver* executes functions written as
sequences of instructions, named as in the code; `todo` is what is left of the
current call. An instruction is one access: a byte sent once the controller
takes one, a byte fetched, a test of the flag, its reset, a register write. The
*handler* `Isr6` sets the flag. The *controller* is external and is modelled by
what the driver relies on, stated at the module's head; a byte that is read
when there is none is `Garbage`, and a branch on it goes either way.

`DiskGeometry` is the LBA to CHS conversion, with the width of its fields.

The model starts with `FDCInitialize`, as the boot loader does, and then reads
any sectors in any order. The boot loader and the kernel run the same driver
text on the same controller without a reset between them, so one driver stands
for both; `QuietBetweenCalls` is what makes the hand-over sound.

### Checks

`floppy_driver`: `Tries` is 10 as in the code, up to 9 recalibrations stop
short, and the sectors are the first and last of the disk and of a track, both
heads, and cylinder 1. Deadlock is checked. Fairness is weak, per process: the
driver runs, interrupts are enabled and IRQ 6 is unmasked when it does, and the
controller finishes what it starts. Hardware that does not is outside the
claim: the code has no timeouts.

`DeviceSpec` is the refinement of `SectorDevice`, safety and liveness: the
driver comes up and every read ends with the contents of the sector asked for.
The other properties say why: see the comment above each.

The model shows two oddities that do no harm. A seek to a cylinder other than 0
is always done `Tries` times and reported as failed, because FDSeek tests
`!data.cyl`, and nobody looks at the report. SENSE INTERRUPT after a READ
has nothing to report; its one-byte answer is read as two, and that this
returns is owed to `isDataAvalible` accepting either status bit.

### Proofs

`FloppyDriverProofs`, about the conversions and then, for every set of sectors,
number of tries and number of recalibrations that stop short, the driver:

* `ConvertToCHSCorrect`, `LBAtoCHSCorrect`, `EndOfTrackCorrect`: for every sector
  of the disk `convertToCHS` names the place that holds it, within the byte
  fields; the boot sector's `LBAtoCHS` names the same place; the end-of-track
  parameter lies between that sector and the last of the track.

* `IInvariant`: `Spec => []IInv`. The properties are not inductive: that an
  interrupt is not stale when it is awaited depends on every byte sent before
  it. `IInv` says where the driver is. Setting up is a code of 30
  instructions and a read one of 36; `todo` is always a tail of one of them, in
  the turn of FDCalibrate's or FDSeek's loop after which `l` more may follow
  (`InitAt`, `ReadAt`), and for each point of the code `IInv` has one
  *situation*: phase of the controller, bytes it expects and has to give, what it
  seeks, interrupts pending, line, flag, mask and DMA channel. Where the driver waits, a
  situation is two or three cases, because the controller may or may not have done
  yet what it has been told. Each step of driver, handler and controller leads
  from the situations of a point to those of its successor; one lemma per
  instruction.
* `TypeCorrect`, `NeverOverrun`, `NeverStale`, `QuietThen`, `AlwaysInStep`:
  `TypeOK`, `NoOverrun`, `NoStaleWakeup`, `QuietBetweenCalls` and `InStep` are
  read off the situations.
* `DeviceRefined`: the safety half of `DeviceSpec`, every step being one of
  `SectorDevice` or a stutter. It needs `Short < Tries`: FDCalibrate gives up
  after its attempts without a word, and the first read of cylinder 0 would then
  find the head elsewhere. The invariant keeps account: an attempt that is
  answered with another cylinder than 0 has used up one of the `Short`, so that
  the last attempt of `Tries` cannot be one of them. The others do not need it,
  and `QuietBetweenCalls` states its own share of it.

## 5. Reading into the heap, and an exception meanwhile

### Model

`DiskRead` extends `KernelHeap` with one caller: `readSectors` calls kcalloc,
which runs as in `KernelHeap`, then copies a sector at a time (`Copy`). A copy
removes the headers it covers from the domain of the header fields, like a new
block does. Between reads the kernel allocates as before (fprintf), and it
frees nothing. `Count` is the number of sectors as the code computes it, an int
made a qword, which kcalloc multiplies by the sector's size modulo `Word`.

`HeapPanic` extends `DiskRead` with the exception. All handlers call fprintf,
which calls kcalloc on the heap as it is. In `DiskRead` the cut of kmalloc is
one step (`SearchTake`); `HeapPanic` spells out its fifteen statements
(`NewHeader`, `Cut`, `Take`, `Tell`), and `Exception` interrupts after any of
them, before the loop or between two calls. kpanic never returns, so the
interrupted call is over; an exception inside a handler is left out.

### Checks

| Run | Bounds | Shows |
|---|---|---|
| `disk_read` | 680 bytes, sectors and blocks of 64 and 128, ranges of one, -1 and -2 sectors | copies stay inside the block; the handler finds memory for its message; reads return unless the heap is full; the fifteen statements add up to `SearchTake` |
| `disk_read_two` | the kernel's own `readSectors(0, 0, 1)` | **violation**: two sectors go to a block of no bytes |

680 bytes are a few blocks of either size and the header of the rest: the heap
is empty, partly used and full when the exception comes, and the message (64
bytes instead of 1024) fits or does not. A sector is 128 bytes instead of 512;
the code depends on it only through `SectorSize`. The ranges whose last sector is
behind the first are those for which the count wraps: kcalloc's product is
negative as a qword. Fairness is weak, of kmalloc and readSectors together
(`KernelRuns`): one processor runs them. Deadlock is not checked: the kernel
stops in kpanic or when the heap is exhausted. Address 0 holds zeros or what a
long free segment's header would look like there: interrupt vectors.

### Proofs

The second part of `HeapProofs`, on top of the first, for every heap, every contents of
page 0, every message and every read but one of two sectors:

* `PanicInvariant`: `PanicSpec => []PanicInv`. While the kernel runs, the heap is
  well formed and compact, and a read has asked for as many bytes as it copies, or
  has got them (`KernelInv`, `ReaderInv`). `CopyStep` is the step that could destroy
  it: memcpy's bytes are between two segments' headers. Once a handler runs, all
  that is needed is that its search starts at the last segment, behind every
  block, with nothing linked before it, and that it fits if there was room
  (`Tail`); past the end of the list nothing is known.
* `ReadsInside`: `PanicSpec => []InsideBlock`. `AsksEnough` is its arithmetic: a
  count below zero wraps around in a qword, once when it is computed and once
  when kcalloc multiplies it, and what is left is still more than is copied.
* `MessageIsFound`: `PanicSpec => []MessageFound`.
* `StatementsAgreeWithStep`: `PanicSpec => StatementsAgree`, at address 0 too, where
  the header's links may be anything. `Done(k)` is the heap after k statements in
  one formula; each statement leads from one such heap to the next (`OneMore`), so
  that `After[k]` is `Done(k)` (`AfterIs`). The other theorems use it to see what a
  handler finds after k statements.

The assumption that no read is of two sectors (`HeapPanicAssumption`) excludes the
call in `kernel.cpp`: for it `InsideBlock` is false, which is what `disk_read_two`
shows. Of the others it says that the sectors between first and last, twice, fit a
qword. `StatementsAgree` led to a correction of `SearchTake`: if the segment at
address 0 names the remainder as its own predecessor, the code writes
`NextFreeSegment` of the remainder twice, and the second value stays.

## 6. Interrupts

### Model

Main code up to the kernel's idle loop is a list of instructions, `todo`, built
by `x64IDT_INIT` and `fillIDT` as the code orders them; each is one action that
changes a gate, loads a table, sets the interrupt flag or writes to a port of an
8259. The 8259s are external: a data port is the mask unless initialisation
words are expected (`DataPort`), requests wait in `irr`, pins are in service
until an end of interrupt, and lower pins come first. `Interrupt(i)` is the
processor taking the best request through the table that is loaded, at the
vector the 8259 has been told, and the whole handler. That a handler is atomic
is sound: its gate turns interrupts off, and main code and the 8259s see none of
its intermediate states. `Spurious` is the 8259's answer to a request that went
away; the code treats it like line 7.

After set-up the kernel takes flags (`TakeFlag` is `waitForIRQ`), sleeps, and
may cause an exception, whose gate leaves interrupts on until `kpanic`'s `cli`.

### Checks

`interrupts`: lines 0, 6 and 12, so that a line of the second 8259, the one
the driver uses and the timer compete; the BIOS leaves the first 8259 open or
with one line masked, and the second closed. `MaxTicks` bounds `countPIT` at the
longest delay that is slept; it stays there, which no comparison in the code can
tell. Deadlock is not checked: the kernel stops after a panic. Fairness: main
code runs (set-up, `Wake`, `kpanic`), the timer ticks (`Raise(0)`), and each
line that is due again and again is served (strong, because main code turns
interrupts off and a better line may come first; it is justified by handlers
being much shorter than the time between two ticks).

The kernel never programs the timer, so that a tick of `sleep` is 55 ms and not
10; no property speaks of real time.

### Proofs

`InterruptsProofs`, for every set of lines that may be raised, exceptions and
delays:

* `IInvariant`: `Spec => []IInv`. Set-up is 69 instructions, and `IInv` says how
  many are done. By that number it gives the words each 8259 expects and the
  vectors it was told, the saved masks, what is in `mask`, which gates of either
  table are set, and which table is loaded; interrupts are on only between `sti` and
  `cli` and after set-up, and nothing is in service between two actions. A gate once
  right stays right, because later `gate` instructions are for other vectors.
* `TypeCorrect`, `RightHandlers`, `AlwaysAcknowledged`, `MasksGivenBack`: `TypeOK`,
  `RightHandler`, `Acknowledged` and `MasksRestored` follow. `MasksRestored`
  compares with the masks the BIOS left, which pass through two variables while
  the data port stands for initialisation words.
* `PanicIsFinalAlways`: `PanicIsFinal`, from the invariant's clause that kpanic
  has turned interrupts off.

## 7. The FAT12 loader

### Model

Memory is seen in blocks of 512 bytes, and of each the model keeps which sector
was last copied there; `ByteAt` gives a byte of the FAT through that, so that a
table that was put in the wrong place or written over is read as such. A disk is
a record: the directory slot of `kernel.bin`, its chain, the mark at its end and
what the entries of the other clusters hold. The driver is an instance of
`SectorDevice`, and `KeepsContract` is the loader's half of that contract. The
geometry of the file system is the boot sector's. Reading and copying are
separate steps; a loop over sectors is an action per sector.

### Checks

| Run | Bounds | Shows |
|---|---|---|
| `fat12` | chains of 1 to 3 of clusters 2, 3, 341, 682, 2848; slots 0, 15, 16 or no file; marks 0xff8 and 0xfff; other entries 0 or 0xfff | the file is in memory in order exactly if its entry is one of the 16 the loader sees, the driver is used as it promises to work, the loader ends |

`loadRoot` scales the offset of a sector by the size of an entry, so that the
directory's second sector lands 16 KB on and `loadFile` sees slots 0 to 15 only
(`Seen`). A file in slot 16 is on the disk and is not found; the image that the
Makefile builds has the kernel in a slot that is seen.

The clusters are the ends of the data area, an even and an odd neighbour, and
341 and 682, whose entries lie in two sectors of the table. `MaxBlocks` (6) stops
the model when a mistake makes the chain endless; the longest file of the run has
three clusters. Fairness is weak, of all steps: there is one processor, and the
driver answers. Deadlock is not checked: the loader is done.

### Proofs

`Fat12Proofs`, for every disk on which the file's clusters are different ones of
the data area and its table holds their chain (`WellFormed`), however long:

* `DecodeCorrect`: for every table of 12-bit entries and every cluster, decoding
  the word at the entry's index gives the entry back; cases on the cluster's
  parity.
* `IInvariant`: `Spec => []IInv`. That the file is loaded at the end says nothing
  about the table it was followed in; `IInv` says of each point of the loader which
  request it has open (`reading`, `want`), that the directory's first sector and
  the table's nine lie where they are looked for once they have been copied, that
  the file's blocks do not reach the table, and that the cluster in hand is the
  one of the chain that as many blocks have been loaded as come before it.
* `TypeCorrect`, `FileLoaded`: `TypeOK` and `Loaded`. `ContractKept`:
  `KeepsContract`, with `UsesDevice` saying the same as an implementation: the
  driver's variables behave as `SectorDevice` lets them.

## 8. The console

### Model

`Console` has the cursor, a table of character cells and the kernel's two uses
of them: `_start`'s dump of two sectors and `kpanic` at any point of it, which
fills the screen and prints its message over it. `putc` wraps a full line
before the next character and never looks at the height; a character that falls
off the table sets `outside`.

`PowerOff` is what `kpanic` does with the clock: `sleepRTC(500)`, `sleepRTC(20)`,
and the power-off. Each register read is an action, and the clock ticks between
any two of them.

`Kpanic` puts the two together in kpanic's order: the message, the first wait,
the two newlines and `POWER OFF`, the second wait, the end. `Show` is a step of
`Console`, `Sleep` one of `PowerOff`; what the second text needs of
`MessageChars` and `MessageLines` is `FarewellChars` and `FarewellLines`.

### Checks

`stdout` (its other half is section 10): 4 by 4 cells, 5 bytes dumped, texts of 6
characters and 2 newlines, of which 1 and 1 come after the first wait; starts in
minutes and at seconds 0, 9 and 59, where a number is 0, is about to gain a digit
or is the last; 60 minutes. Nothing is written off the screen; the message
stands on a screen that has been filled to the last cell; the power is turned off
at the full hour at the latest, unless the wait's first reading adds up to 0.

The run fills its screen: 15 characters of dump or two lines of message for 16
cells. The code's 1024 bytes of three characters on 80 by 60 cells satisfy the
same assumption, `ConsoleAssumption`, and the proofs need no more. Both registers
are read at least once between two ticks: the loop takes microseconds. Fairness
is weak, of the processor once kpanic has begun (interrupts are off) and of the
clock. Whether the exception comes is left open. Deadlock is not checked: the
machine is off.

### Proofs

`ConsoleProofs`, for every screen, dump and message that fit:

* `CursorCorrect`: `Spec => [](TypeOK /\ CursorKeepsCount)`. `OnScreen` alone is
  not inductive: where the cursor is says nothing about how much is still to be
  printed. `CursorKeepsCount` relates it to what was printed, and that to the
  loop counters.
* `StaysOnScreen`: `Spec => []OnScreen`. The cells before the cursor are fewer
  than the screen has whenever a character is put.

* `MessageOnWipedScreen`: `Spec => []Wiped`. `FillInv` is the inductive part: while
  kpanic fills, the cursor is at the cell whose number is the loop's counter, and
  the cells with smaller numbers show `#`. The step rests on cells having
  different numbers (`SameCell`) and on putc's wrap being the passage from the
  last cell of a line to the first of the next.

* `KpanicIsConsole`: `KpanicSpec => Spec`, each step of the composition being a
  step of `Console` or a stutter, and from it `KpanicStaysOnScreen`,
  `KpanicKeepsCount` and `KpanicWipes`.

## 9. Low memory while booting

### Model

`BootMemory` follows the boot sector, `stage2.s`, the loader and the running
kernel through what they write below 1 MB. The 16 KB of page tables are kept
dword by dword, the E820 map, the DMA buffer and the stack write to them where
they reach that far, and `Translate` walks them as the processor does. Of other
things (`Place`: the loader, the boot sector's copy, the first directory sector,
the FAT, the kernel) the model keeps whether they are whole: a store that hits
one takes its name out of `intact`. `Push` and `Pop` move the stack pointer at
any time once paging is on; `low` is the lowest address the stack has had. A
read lets the DMA channel write all of its count, whatever was asked for.

### Checks

| Run | Bounds | Shows |
|---|---|---|
| `boot_memory` | 1 or 6 regions in the memory map, kernels of 1 and 59 clusters, 40 bytes of stack | the first 512 pages are mapped to themselves except where the stack has been in their entry; nothing is overwritten that is still used |
| `boot_memory_map` | the same | **violation**: not all of the first 2 MB are identity mapped |

All addresses are the code's own. 59 clusters are the kernel image in `src/`; 40
bytes of stack are an interrupt's frame, and a deeper stack only reaches further
down the same table. Deadlock is not checked: the boot stops when a read fails
or the processor has no long mode.

The violation: the stack starts at 0x7c00 and the page table is 0x7000-0x7fff.
The return address of the last `debugPrint` (`stage2.s:182`) stays at 0x7bfc, the
upper half of entry 383, and the loop that fills the table writes the lower
halves. Page 0x17f000 is thus mapped elsewhere, or not at all; later calls spoil
the entries below. `StillThere` and `MapKept` say what holds nevertheless.

### Proofs

`BootMemoryProofs`, for every memory map, kernel and stack that `RoomAssumption`
admits:

* `BootInvariant`: `Spec => []Inv`.
* `MapIsKept`: `Spec => []MapKept`.
* `NothingAbove`: while paging is on, none of the other 2^36 - 512 pages that an
  address can name is mapped; `MapKept` samples five of them.
* `NothingOverwritten`: `Spec => []StillThere`.

`Inv` adds to the two properties what they forget. The upper tables hold one entry
each and are 0 otherwise (`Linked`); in `PT`, an entry that the stack has not
reached has both of its dwords right, filled or not yet (`Entries`), which is where
the upper halves that nobody writes come in; the stack is as the boot sector left
it until `debugPrint` (`Stacked`); and each thing is whole from the step on that
finishes it, the directory from the first of ten passes (`Whole`). `Walk` reduces the
processor's four steps to the lowest one.

`RoomAssumption` is what the code takes for granted and does not check: that the
BIOS's memory map ends below the stack, that the stack stays in the page of `PT`
(3 KB; below it, `PDT`'s entries are next), and that the kernel's file ends below
the heap at 1 MB. Without the last two the properties fail: the stack would unmap
everything, and the running kernel would read sectors over itself. Of the first they
need less, a map that ends below the loader; the boot sector's own stack, which is
not modelled, needs the rest.

## 10. Formatting

### Model

A format of `Printf` has a text, the arguments passed with it, and the pieces the
text is made of (characters, conversions, stray percent signs); a piece knows at
which offset it starts and how many arguments are taken before it. The model
runs `printf` over the text, then `fprintf`, then `printf` on what that returned,
as the exception handlers do through `kpanic`. `call` is the function, `turn` the
loop it is in, and one turn of a loop is one action: `Decimal` enters
`IntegerToString` with its sign and widening, `CountDigit` and `WriteDigit` are its
loops, `WriteLast` the rest of it and the printing; `Hexadecimal`, `DivideBy16`
(which divides as C does) and `PrintBase16` are `%x`; the other conversions take a
turn each. The static array keeps what it held. `kpanic` passes no arguments, so
an int that its text makes `printf` take is any int (`Handed`), and a string taken
there is not followed further. The functions read the text only; the pieces are
there to say what it means.

`Meaning` is the reference: what a piece stands for, in positional notation
(`Numeral`: the k-th digit of n is n divided by a power of the base, modulo the
base), which shares nothing with the loops.

The assumptions are about numbers and formats. `NumberAssumption`: a qword is
wider than an int, its decimal digits fit the array (20 of 128), and `Tens` and
`Sixteens` list powers. `PrintfAssumption`: each piece's text is where the piece
says, its argument is where `va_arg` comes, strings hold no percent sign, and a
stray sign is followed by a character that is no conversion. That powers ascend
and that offsets do not pass the end follows from the steps between neighbours,
but by induction over data; both are assumed with the rest, and TLC evaluates
them for the formats of the run.

The font is `Glyphs`, the characters that `FONT` has a picture for. A string of
the kernel is modelled by its characters where these matter: the exceptions'
names (`NameCharacters`), the handlers' format (`FrameCharacters`) and `POWER OFF`.

### Checks

`stdout` again. `Stdout` puts `Kpanic` and `Printf` into one specification: of a text
`Kpanic` takes only how many characters and newlines it has, and `Printf` has no
screen, so a behaviour is one of either, all of it, and the run has as many states
as the two have together. Of `Printf` it has formats of up to three pieces, so that
every conversion follows every other in the same static array, and each
character of the kernel's texts on its own; int has 8 bits and qword 16, which keeps the widening the code relies on;
the arguments are both ends of an int, 0, numbers of one to three digits, and
for `%x` the ends of the digits. One format is there to make `kpanic` take an int
that was not passed.

* `PrintsMeaning`, an action property: a turn of printf's loop that ends a piece
  prints the piece's meaning and goes on to the next, and no other turn prints
  anything; it ends at the format's end. It speaks of the formats printf does
  justice to (`Sound`). What it leaves out is what the code gets wrong: `%x` of 0
  prints nothing and of a negative number other characters, the least int is
  printed as a large qword, and a stray percent sign is passed over with the
  character after it once a conversion has been seen.
* `SameText`: kpanic prints of fprintf's text what printf would have printed of the
  same format. Numbers below 0 as `%x` are left out: the digit -11 is a percent
  sign.
* `Legible`: whatever the kernel prints of its own texts and of numbers has
  glyphs. (`@`, `$`, `&` and `%` have none, and the letter O and the digit 0 share
  one; the kernel's texts are as good as without them.)

The array's size and the 1024 bytes of fprintf are not bounds that a caller comes
near. Deadlock is not checked: the calls end.

### Proofs

`PrintfProofs`, for every set of formats, every width of int and qword and any
number of digits that `NumberAssumption` and `PrintfAssumption` allow:

* `PrintsMeaningHolds`: `PrintfSpec => PrintsMeaning`.
* `WholeTextHolds`: what printf has printed when it returns is the meanings of the
  pieces one after the other (`WholeText`), the sum of what `PrintsMeaning` says of
  each turn.
* `SameTextHolds`, `LegibleHolds`: `PrintfSpec => []SameText`,
  `PrintfSpec => []Legible`.
* `Invariant`, `TypeCorrect`: `PrintfSpec => []Inv`,
  `PrintfSpec => []PrintfTypeOK`.

None of the properties is inductive. `Inv` adds three things:

* How far the digits are (`Counting`, `Writing`). While counting, what is left is the
  value divided by a power of ten; while writing, the last
  `index` digits are in their places and the others are still to come, in a number
  as wide as was counted. `LastStep` concludes that the array, read up to its end, is the number
  in decimal, whatever it held before: `DigitsRead`, and `DecimalMeaning` against
  the reference. The loop of `%x` makes its digits from the last to the first; that
  they are the value's last digits is `HexSoFar` (`HexStep`, `HexDone`). The arithmetic
  all of it rests on is `DivideAgain`: dividing once more is dividing by the next
  power.
* Where the function is (`Here`): at a piece, with that piece's argument being
  converted, or at the format's end. `Reading` shows that the code, which sees
  characters only, takes each piece for what it is. `PieceStep` sums up every turn:
  it works on a number, or puts out what is due and goes on, or the piece is an odd
  one (`Odd`).
* What the texts are. The text after k pieces would be a recursive function, and
  what it computes for every format induction over data. Instead `Begun` says that
  there *is* a sequence of texts, the first empty and each the one before with its
  piece's text behind it, of which what is printed is the k-th; a step of the
  program lengthens it by one (`TraceGrows`). `Again` says that fprintf goes through
  the same sequence, so that at the end both texts are the same. For kpanic
  `Panicking` says that what is printed is the beginning of the buffer, in which
  there is no percent sign (`Readable`), so that only `Plain` can happen
  (`PanicStep`).

## 11. The shell

### Model

The code of `debug/other/` is not in the build, and the headers it includes are
not in the repository. What they declare (getChar, the terminal, NEW and free,
CURRENT_YEAR, the process states) is taken for what the shell uses it as. `Nul`
and `Space` are characters; a word is a sequence of two letters.

`Shell` reads a line key by key into `commandBuffer`, which keeps what earlier
lines left, compares it with the commands' names, creates, runs and kills the
process. `shown` is history: the line as the terminal shows it. debug takes its
message from the buffer behind its name; if there is none it asks for it (`Debug`),
and getLine waits for each key of it (`TypeMessage`, `EnterMessage`). After a delete
before the start of the line, which writes before the buffer, and after a message
that fills getLine's buffer, for which it returns nothing (`MessageFull`), `pc` is
"outside" and nothing more is said.

`Time` is `readRTC`. The clock is external: an update begins and ends between any
two reads; a register read meanwhile delivers the old byte, the new one or 255;
registers are BCD or binary, hours of 24 or 12. `FlagClear` is the end of the wait
for the update flag, where a pass begins and `began`, which is history, notes the
time; each register read is an action, each comparison of two passes another.

### Checks

`shell`: 3 characters instead of 80, so that lines are empty, full, edited and
followed by shorter ones; four commands whose names begin alike. Calls of
`readRTC` start a second before the turn of a year, of noon and of a minute, and
2 updates come while it runs. `Quiet` (18) is how often a register is at least
read between two updates, three passes, where the real clock leaves time for
some hundred thousand reads: fewer than that and the loop would meet an update
in every pass. `RunsWhatIsShown`, `NothingLeft` and `ReadsTheTime` are invariants.
`ReadsTheTime` says that the result is the time at which the last pass began, each
field of it, but for the hour between twelve and one of a clock that counts to
twelve. `Answered` needs fairness, all of it weak: the shell runs (`Serve`), and an
update once begun ends. None of it is on a key: the user may stop typing, in a
line and in debug's message. So a line is answered unless its message is never
finished or too long, and deadlock is not checked.

`shell_noon`, the same instance, shows that `HourOfTheDay` does not hold: `time.cpp:65`
says of the last step but one that it converts a 12-hour clock to a 24-hour one,
but it adds 12 modulo 24 to the hours of the afternoon and leaves the others
alone. Twelve at noon becomes 0, and twelve at midnight stays 12.

### Proofs

`ShellProofs`, for every length of the line, every set of commands with different
names that fit, and calls of `readRTC` at any time and in any mode:

* `RunsShown`: `Spec => []RunsWhatIsShown`. The command that runs was compared with
  a buffer that still has earlier lines in it. `LineInv` relates the buffer to the
  line on the terminal (`Holds`: each character, a space being a zero) and says
  that an entered line is ended; `CheckedWord` shows that a name is then found at
  the start of the buffer exactly if it is the line's first word. Where that word
  ends (`EndsAt`) is kept step by step, since no induction over the line is to be
  had.
* `NoProcessLeft`: `Spec => []NothingLeft`, with `ProcInv`: a command that runs has
  the one process there is, and it is stopped before it is killed.
* `TimeRead`: `Spec => []ReadsTheTime`. Two passes that agree are not enough: the
  clock may move between them. `TimeInv` says of each pass whether an update has
  come since it began (`Undisturbed`, `InUpdate`, `Updated`) and how far the next
  one still is. As two updates are `Quiet` reads apart, at least three passes,
  one of two passes that agree met none. `BcdBack`, `HourBack` and `YearBack` then
  undo the registers' formats, all hours but twelve o'clock's among them.
* `IInvariant`: the conjunction of the three, which is inductive.

The assumptions: letters are neither the space nor the zero, and the clock stays
within the hundred years that two digits tell apart.

## 12. memset and memcpy

`Memory` has one call of either, a turn of a loop being an action: at most eight
bytes singly, of more first the qwords and then the rest. Both programs have the
same text. Nothing of it is in a run; the last part of `PrintfProofs` (which
instantiates `Memory`) proves for every memory, length and placement:

* `MemoryDelivers`: on return the area holds the source's bytes as they were when
  the call was made, or memset's qword again and again from its first byte on.
  The areas of memcpy may overlap as long as it moves bytes down; moving them up
  into the source is the one case left out (`Separate`), and the code has no such
  call.
* `MemoryStaysInArea`: no byte outside the area is ever written. This is what
  `KernelHeap` and `DiskRead` take for granted when they say which headers survive.

`Inv` is the inductive invariant. That the area is right behind the pointer and
unchanged before it (`Written`) is not enough: a byte of memset's value is found
by counting from where the single bytes start, which must be a multiple of eight
and at most eight bytes from the end (`Progress`). `Unread` is the step for
overlapping areas: what is still to be read has not been written.

The assumption: no area wraps around the end of the address space.

## 13. What is only model-checked, and what is not modelled

Liveness (`DeviceSpec`, `ReadsEnd`, `Served`, `SleepReturns`, `Finishes`,
`PoweredOff`, `Answered`) and ENABLED are outside what TLAPS can prove here.
`PowerOff`'s property is of that kind, so everything about it rests on TLC alone.
Every other property of a passing run has a theorem.

Induction over data is out of reach too: what a recursive definition computes for
every input cannot be proved. The models therefore have no recursive operators
(`After` in `HeapPanic`, a function, has 16 arguments, which the proofs take one
by one); what a loop computes is stated of its turns, by arithmetic (`Numeral`) or by a
sequence that is said to exist (`Begun` in `PrintfProofs`), and proved by
induction over the steps. What is assumed instead of proved for that reason:
that powers ascend and that the pieces' offsets stay within the text (section 10).

Not modelled:

* The rest of `stage2.s` and `bootsect.s`: a straight line of mode switches and
  BIOS calls with nothing to interleave with.
* `setWriteDMA`, `resetFDC`, `detectSlaveFD`, `disableIRQ`: not called, or their
  result is not used. Drives other than 0: no caller.
* Colours and what a glyph looks like: data. Port I/O and the linker scripts: one
  instruction each, and data. The descriptor's bit fields.
* Hardware that fails: a controller that is absent or a sector that cannot be
  read. The code has neither timeouts nor checks of the status bytes, so no
  property of it could hold; PROJECT.json lists it as a hazard.
* Where the kernel's `_idt` pointer points. It is never set; the model gives the
  table memory of its own.
* What the shell's commands print, ls's walk of the directory, debug's message.
* `debug/other/gsl/string.hpp`: used by nobody, and the malloc it needs is not
  in the repository.

## 14. Defects that the models show and no run reports

The runs marked **violation** are findings, each with the line of the source that
is contradicted. Others were met while modelling and are part of the actions:

* kmalloc tests `currentMemorySegment->NextFreeSegment = 0` with an assignment
  (`mem.cpp`): when no segment is large enough it does not return 0 but cuts
  the free list and searches on at address 0. `exhausted` marks the point, and the
  heap's properties speak of what comes before it.
* An exception between the two statements of kmalloc that give the cut segment
  its length and move `firstFreeMemorySegment` on: the handler's own kmalloc
  finds the segment too small, takes it for the last one and searches at address
  0. The message is lost (`Unreachable` in `HeapPanic`).
* `setup64` calls what `loadFile` returns without looking at it, and directory
  entries from slot 16 on are not seen.
* `sleepRTC(500)` adds minutes and seconds in BCD, which never makes 500. It
  ends when the sum wraps, and never if its first sum is 0.
* The driver has no timeouts and ignores the status bytes.
* The shell: deleting at the start of a line writes before `commandBuffer`; a
  line of 80 characters is not terminated, and getLine returns nothing for it;
  debug takes what stands behind its name, which may be an earlier line's; the
  word the shell is started with is not split at spaces; shutdown goes on to
  "Command Not Found"; version, uptime and break return nothing.
