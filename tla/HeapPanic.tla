----------------------------- MODULE HeapPanic -----------------------------
(***************************************************************************)
(* An exception while the kernel reads sectors and allocates.  The handler *)
(* calls fprintf, whose kcalloc searches the heap as it is at that moment; *)
(* kpanic then never returns, so the interrupted code never goes on.       *)
(*                                                                         *)
(* DiskRead's SearchTake cuts a block off in one step.  Here kmalloc's     *)
(* statements are spelt out, and the exception comes after any of them.    *)
(* A second exception inside the handler is left out.                      *)
(*                                                                         *)
(* CutWithHeader and TakeOwnedFirst are not part of the model: they are    *)
(* mistakes the code could have made.                                      *)
(***************************************************************************)
EXTENDS DiskRead

CONSTANT MessageSize    \* bytes fprintf asks for: 1024

\* Reads of two sectors are left out: readSectors' count is 0 for them, so that
\* memcpy destroys the headers behind its block, which is what DiskRead shows of
\* the call in kernel.cpp.  The others are small against the address space.
ASSUME HeapPanicAssumption ==
    /\ MessageSize \in Sizes
    /\ \A r \in Ranges : /\ r[2] # r[1] + 1
                         /\ 2 * (r[2] - r[1]) * SectorSize <= Word

VARIABLES
    panicking,  \* an exception handler is running
    done,       \* kmalloc's statements that were done when it came
    room,       \* history: the heap had room for the message then
    message     \* what fprintf's kcalloc returned, 0 before

panic == <<panicking, done, room, message>>

-----------------------------------------------------------------------------
(***************************************************************************)
(* kmalloc's statements, on a heap h given as a record.                    *)
(***************************************************************************)
New == Add(cur + Hdr, size)

\* What is legible once the block and the new header are cut off; the new
\* header's fields are what is left there until they are written.
Start ==
    LET kept == {a \in Legible : a <= cur \/ a >= New + Hdr} \cup {New}
        Ints(f) == [a \in kept |-> IF a \in Legible THEN f[a] ELSE 0]
    IN  [len |-> Ints(len), next |-> Ints(next), prev |-> Ints(prev),
         nextFree |-> Ints(nextFree), prevFree |-> Ints(prevFree),
         free |-> [a \in kept |-> a \in Legible /\ free[a]],
         first |-> first]

\* The header of the rest.
NewHeader(k, h) ==
    CASE k = 1 -> [h EXCEPT !.free[New] = TRUE]
      [] k = 2 -> [h EXCEPT !.len[New] = h.len[cur] - (Hdr + size)]
      [] k = 3 -> [h EXCEPT !.nextFree[New] = h.nextFree[cur]]
      [] k = 4 -> [h EXCEPT !.next[New] = h.next[cur]]
      [] k = 5 -> [h EXCEPT !.prevFree[New] = h.prevFree[cur]]
      [] k = 6 -> [h EXCEPT !.prev[New] = h.prev[cur]]

\* The block ends where the rest begins.
CutWithHeader(k, h) ==
    CASE k = 7 -> [h EXCEPT !.nextFree[cur] = New]
      [] k = 8 -> [h EXCEPT !.next[cur] = New]
      [] k = 9 -> [h EXCEPT !.len[cur] = size + Hdr]
Cut(k, h) ==
    CASE k = 7 -> [h EXCEPT !.nextFree[cur] = New]
      [] k = 8 -> [h EXCEPT !.next[cur] = New]
      [] k = 9 -> [h EXCEPT !.len[cur] = size]

\* The block is no longer the first free one, nor free.
Unlist(h) == IF cur = h.first THEN [h EXCEPT !.first = h.nextFree[cur]] ELSE h
NotFree(h) == [h EXCEPT !.free[cur] = FALSE]
TakeOwnedFirst(k, h) == IF k = 10 THEN NotFree(h) ELSE Unlist(h)
Take(k, h) == IF k = 10 THEN Unlist(h) ELSE NotFree(h)

\* Its neighbours are told, those that are not null.
LinkTo(h, a) == IF a = 0 THEN h ELSE [h EXCEPT !.nextFree[a] = h.nextFree[cur]]
LinkBack(h, a) == IF a = 0 THEN h ELSE [h EXCEPT !.prevFree[a] = h.prevFree[cur]]

Tell(k, h) ==
    CASE k = 12 -> LinkTo(h, h.prevFree[cur])
      [] k = 13 -> LinkBack(h, h.nextFree[cur])
      [] k = 14 -> LinkTo(h, h.prev[cur])
      [] k = 15 -> LinkBack(h, h.next[cur])

Statement(k, h) ==
    CASE k \in 1..6 -> NewHeader(k, h)
      [] k \in 7..9 -> Cut(k, h)
      [] k \in 10..11 -> Take(k, h)
      [] k \in 12..15 -> Tell(k, h)

Statements == 15

After[k \in 0..Statements] ==
    IF k = 0 THEN Start ELSE Statement(k, After[k - 1])

HeapIs(h) ==
    /\ len' = h.len /\ next' = h.next /\ prev' = h.prev
    /\ nextFree' = h.nextFree /\ prevFree' = h.prevFree
    /\ free' = h.free /\ first' = h.first

-----------------------------------------------------------------------------
PanicInit ==
    /\ DiskInit
    /\ panicking = FALSE
    /\ done = 0
    /\ room = FALSE
    /\ message = 0

\* The kernel goes on as long as there is no exception.
Kernel == ~ panicking /\ DiskNext /\ UNCHANGED panic

KernelRuns == ~ panicking /\ Running /\ UNCHANGED panic

HasRoom(l) == l > Add(RoundUp(MessageSize), Hdr)

\* kmalloc's loop has found a segment and is cutting it.
Cutting == pc = "search" /\ SearchReads \subseteq Legible /\ Fits(cur)

\* The exception: the handler's fprintf starts with kcalloc(1, MessageSize).
Exception ==
    /\ ~ panicking /\ ~ exhausted
    /\ pc \in {"idle", "search"}
    /\ \/ /\ done' = 0
          /\ room' = HasRoom(len[first])
          /\ UNCHANGED <<header, first>>
       \/ /\ Cutting
          /\ done' \in 1..Statements
          /\ room' = HasRoom(len[cur] - (Hdr + size))
          /\ HeapIs(After[done'])
    /\ panicking' = TRUE
    /\ pc' = "search"
    /\ cur' = first'
    /\ size' = RoundUp(MessageSize)
    /\ old' = 0
    /\ reading' = FALSE
    /\ UNCHANGED <<live, segs, exhausted, from, to, at, buffer, message>>

\* The handler's search.  When it has its block it prints and waits for ever.
Handler ==
    /\ panicking
    /\ Internal
    /\ message' = IF SearchTake THEN Returned ELSE message
    /\ UNCHANGED <<reader, panicking, done, room>>

PanicNext == Kernel \/ Exception \/ Handler

PanicSpec == PanicInit /\ [][PanicNext]_<<vars, reader, panic>>
                       /\ WF_<<vars, reader, panic>>(KernelRuns)

-----------------------------------------------------------------------------
\* kmalloc's fifteen statements, one after the other, leave the heap as
\* SearchTake does in one step, the handler's own kmalloc apart.
StatementsAgree ==
    [][Kernel /\ SearchTake => HeapIs(After[Statements])]_<<vars, reader, panic>>

\* The segment that is cut has its new length and is still the first the next
\* search looks at: the rest of the heap cannot be found.
Unreachable == done = 9

\* Wherever in kmalloc or between two calls the exception comes, the handler
\* finds memory for its message inside the heap and apart from every block
\* that is in use, if there is any, except between the two statements of
\* Unreachable, where it runs off the list.
MessageFound ==
    panicking =>
      /\ pc = "fault" => exhausted
      /\ exhausted => ~ room \/ Unreachable
      /\ message # 0 /\ ~ exhausted =>
           /\ Base + Hdr <= message
           /\ message + live[message] <= Top
           /\ \A p \in DOMAIN live : p < message => p + live[p] + Hdr <= message
           /\ \A p \in DOMAIN live : p > message =>
                message + live[message] + Hdr <= p

\* readSectors returns, unless kcalloc finds no room or an exception ends it.
ReadsEnd == reading ~> ~ reading \/ exhausted
=============================================================================
