----------------------------- MODULE KernelHeap -----------------------------
(***************************************************************************)
(* The kernel heap of src/kernel/hal/mem.cpp: kmalloc, kcalloc, kfree and  *)
(* krealloc over a region of memory cut into segments, each preceded by a  *)
(* MemorySegmentHeader_T.                                                  *)
(*                                                                         *)
(* Memory is abstracted to the headers in it: each field of the header is  *)
(* a function of the address, and its domain is the set of addresses where *)
(* a header is still legible.  Address 0 is always one of them: the code   *)
(* dereferences null pointers, page 0 is mapped, and the build reads and   *)
(* writes whatever lies there as if it were a header.  Bytes that a client *)
(* owns are illegible: a header they cover leaves the domain, and          *)
(* following a pointer to it is a fault.  A header that a merge swallows   *)
(* stays legible until its bytes are handed out, as it does in memory.     *)
(*                                                                         *)
(* kmalloc is one action per iteration of its search loop, kfree one       *)
(* action per pointer-mending statement.                                   *)
(*                                                                         *)
(* RoundUpKeepRest, FitsNoHeader, FitsTwoHeaders, HigherSecond,            *)
(* SwallowedNoHeader and AdoptNothing are not part of the model: they are  *)
(* mistakes the code could have made, and PROJECT.json names the property  *)
(* that each of them breaks.                                               *)
(***************************************************************************)
EXTENDS Integers

CONSTANTS
    Base,       \* heap_address given to heapInit
    Length,     \* heap_length given to heapInit
    Hdr,        \* sizeof(MemorySegmentHeader_T), 48 in the build
    Word,       \* qword arithmetic is modulo Word
    Sizes,      \* sizes a client asks for
    Counts,     \* element counts a client hands to kcalloc
    LowMemory   \* what may lie at address 0, read as a header

Header == [len : Int, next : Int, prev : Int,
           nextFree : Int, prevFree : Int, free : BOOLEAN]

\* What kmalloc is asked for: kcalloc multiplies modulo Word.  A request that
\* wraps the additions of kmalloc itself is outside the model.
Product(count, n) == (count * n) % Word

Requests == Sizes \cup {Product(k, n) : k \in Counts, n \in Sizes}

ASSUME HeapAssumption ==
    /\ Hdr \in Nat \ {0}
    /\ Base \in Nat /\ Base > Hdr
    /\ Length \in Nat /\ Length > Hdr
    /\ Word \in Nat /\ Base + Length <= Word
    /\ \A n \in Requests : n \in Nat /\ n + Hdr + 8 <= Word
    /\ LowMemory \subseteq Header

VARIABLES
    len,        \* MemoryLength of the header at each address
    next,       \* NextSegment
    prev,       \* PreviousSegment
    nextFree,   \* NextFreeSegment
    prevFree,   \* PreviousFreeSegment
    free,       \* Free
    first,      \* firstFreeMemorySegment
    pc,         \* which statement of which function runs next
    cur,        \* currentMemorySegment of the running function, 0 when idle
    size,       \* kmalloc's size, rounded up, 0 once it returned
    old,        \* the block kfree is called on, now or after krealloc's copy
    live,       \* history: the blocks clients own, payload address -> bytes
    segs,       \* history: the addresses of the segments the heap is cut into
    exhausted   \* history: a search has run past the first free segment

header == <<len, next, prev, nextFree, prevFree, free>>
vars == <<header, first, pc, cur, size, old, live, segs, exhausted>>

Top == Base + Length

\* The addresses where a header is legible.
Legible == DOMAIN len

\* Qword addition wraps around.
Add(a, b) == IF a + b < Word THEN a + b ELSE a + b - Word

\* kmalloc rounds the request up to a multiple of 8.
RoundUpKeepRest(n) == IF n % 8 = 0 THEN n ELSE Add(n, 8)
RoundUp(n) == IF n % 8 = 0 THEN n ELSE Add(n - (n % 8), 8)

-----------------------------------------------------------------------------
(***************************************************************************)
(* heapInit: one free segment spans the region.                            *)
(***************************************************************************)
Init ==
    /\ \E low \in LowMemory :
         /\ len = [a \in {0, Base} |-> IF a = 0 THEN low.len ELSE Length - Hdr]
         /\ next = [a \in {0, Base} |-> IF a = 0 THEN low.next ELSE 0]
         /\ prev = [a \in {0, Base} |-> IF a = 0 THEN low.prev ELSE 0]
         /\ nextFree = [a \in {0, Base} |-> IF a = 0 THEN low.nextFree ELSE 0]
         /\ prevFree = [a \in {0, Base} |-> IF a = 0 THEN low.prevFree ELSE 0]
         /\ free = [a \in {0, Base} |-> IF a = 0 THEN low.free ELSE TRUE]
    /\ first = Base
    /\ pc = "idle"
    /\ cur = 0
    /\ size = 0
    /\ old = 0
    /\ live = [p \in {} |-> 0]
    /\ segs = {Base}
    /\ exhausted = FALSE

(***************************************************************************)
(* kmalloc.  A segment is taken only when it is larger than the request    *)
(* plus a header, so taking one always splits it.  No call is made after a *)
(* search has run past the list: it is followed to its own end only.       *)
(***************************************************************************)
BeginSearch(n, from) ==
    /\ pc = "idle"
    /\ ~ exhausted
    /\ pc' = "search"
    /\ cur' = first
    /\ size' = RoundUp(n)
    /\ old' = from
    /\ UNCHANGED <<header, first, live, segs, exhausted>>

Kmalloc(n) == BeginSearch(n, 0)

\* kcalloc: the product wraps; the memset stays inside the block it got.
Kcalloc(count, n) == BeginSearch(Product(count, n), 0)

\* krealloc allocates first; the memcpy stays inside both blocks.
Krealloc(p, n) == BeginSearch(n, p)

FitsNoHeader(c) == len[c] >= size
FitsTwoHeaders(c) == len[c] > Add(size, Add(Hdr, Hdr))
Fits(c) == len[c] > Add(size, Hdr)

\* The segments whose NextFreeSegment kmalloc redirects to the remainder.
Linkers(c) == {prevFree[c], prev[c]} \ {0}

SearchReads ==
    {cur} \cup {a \in Linkers(cur) : cur \in Legible /\ Fits(cur)}

\* The current segment is large enough: split it at n, return its payload.
\* Headers that the payload and the new header cover are gone.
SearchTake ==
    /\ pc = "search"
    /\ SearchReads \subseteq Legible
    /\ Fits(cur)
    /\ LET n    == Add(cur + Hdr, size)
           kept == {a \in Legible : a <= cur \/ a >= n + Hdr} \cup {n}
       IN  /\ len' = [a \in kept |-> IF a = n THEN len[cur] - (Hdr + size)
                                     ELSE IF a = cur THEN size ELSE len[a]]
           /\ next' = [a \in kept |-> IF a = n THEN next[cur]
                                      ELSE IF a = cur THEN n ELSE next[a]]
           /\ prev' = [a \in kept |-> IF a = n THEN prev[cur] ELSE prev[a]]
           /\ nextFree' = [a \in kept |->
                             IF a = cur \/ a \in Linkers(cur) THEN n
                             ELSE IF a = n THEN nextFree[cur]
                             ELSE nextFree[a]]
           /\ prevFree' = [a \in kept |-> IF a = n THEN prevFree[cur]
                                          ELSE prevFree[a]]
           /\ free' = [a \in kept |-> IF a = n THEN TRUE
                                      ELSE IF a = cur THEN FALSE ELSE free[a]]
           /\ first' = IF cur = first THEN n ELSE first
           /\ segs' = segs \cup {n}
    /\ live' = [p \in DOMAIN live \cup {cur + Hdr} |->
                  IF p = cur + Hdr THEN size ELSE live[p]]
    /\ pc' = IF old = 0 THEN "idle" ELSE "free"
    /\ cur' = 0
    /\ size' = 0
    /\ UNCHANGED <<old, exhausted>>

\* It is not: the loop's test assigns 0 to NextFreeSegment, never returns,
\* and goes on with the segment at address 0.
SearchNext ==
    /\ pc = "search"
    /\ SearchReads \subseteq Legible
    /\ ~ Fits(cur)
    /\ nextFree' = [nextFree EXCEPT ![cur] = 0]
    /\ cur' = nextFree'[cur]
    /\ exhausted' = TRUE
    /\ UNCHANGED <<len, next, prev, prevFree, free,
                   first, pc, size, old, live, segs>>

-----------------------------------------------------------------------------
(***************************************************************************)
(* kfree, called by a client or at the end of krealloc.  The block stops   *)
(* being the client's as it starts.                                        *)
(***************************************************************************)
Kfree(p) ==
    /\ pc = "idle"
    /\ ~ exhausted
    /\ pc' = "free"
    /\ old' = p
    /\ UNCHANGED <<header, first, cur, size, live, segs, exhausted>>

Release ==
    /\ pc = "free"
    /\ old - Hdr \in Legible
    /\ cur' = old - Hdr
    /\ free' = [free EXCEPT ![old - Hdr] = TRUE]
    /\ first' = IF old - Hdr < first THEN old - Hdr ELSE first
    /\ live' = [q \in DOMAIN live \ {old} |-> live[q]]
    /\ old' = 0
    /\ pc' = "linkNextFree"
    /\ UNCHANGED <<len, next, prev, nextFree, prevFree, size, segs, exhausted>>

\* Tell the next free segment that cur is free, unless it knows a nearer one.
LinkNextFree ==
    /\ pc = "linkNextFree"
    /\ nextFree[cur] \in Legible
    /\ LET n == nextFree[cur] IN
         prevFree' = IF n # 0 /\ prevFree[n] < cur
                     THEN [prevFree EXCEPT ![n] = cur] ELSE prevFree
    /\ pc' = "linkPrevFree"
    /\ UNCHANGED <<len, next, prev, nextFree, free,
                   first, cur, size, old, live, segs, exhausted>>

\* The same for the previous free segment.
LinkPrevFree ==
    /\ pc = "linkPrevFree"
    /\ prevFree[cur] \in Legible
    /\ LET v == prevFree[cur] IN
         nextFree' = IF v # 0 /\ nextFree[v] > cur
                     THEN [nextFree EXCEPT ![v] = cur] ELSE nextFree
    /\ pc' = "mergeNext"
    /\ UNCHANGED <<len, next, prev, prevFree, free,
                   first, cur, size, old, live, segs, exhausted>>

\* combineFreeSegments: the lower segment swallows the higher one.  nx and pv
\* are NextSegment and PreviousSegment by then.  The higher one's successors
\* are written without a test for null.
Lower(a, b) == IF a < b THEN a ELSE b
HigherSecond(a, b) == b
Higher(a, b) == IF a < b THEN b ELSE a

\* The merged segment has the bytes of both and of the header between them.
SwallowedNoHeader(lo, hi) == Add(len[lo], len[hi])
Swallowed(lo, hi) == Add(len[lo], Add(len[hi], Hdr))

\* The segment at a points back at lo.
AdoptNothing(back, a, lo) == back
Adopt(back, a, lo) == [back EXCEPT ![a] = lo]

CombineReads(a, b, nx) == {nx[Higher(a, b)], nextFree[Higher(a, b)]}

Combine(a, b, nx, pv) ==
    LET lo == Lower(a, b)
        hi == Higher(a, b)
    IN  /\ len' = [len EXCEPT ![lo] = Swallowed(lo, hi)]
        /\ next' = [nx EXCEPT ![lo] = nx[hi]]
        /\ nextFree' = [nextFree EXCEPT ![lo] = nextFree[hi]]
        /\ prev' = Adopt(pv, nx[hi], lo)
        /\ prevFree' = Adopt(Adopt(prevFree, nx[hi], lo), nextFree[hi], lo)
        /\ segs' = segs \ {hi}

\* Point the next segment back at cur, and merge with it if it is free.
MergeNextReads ==
    LET n == next[cur] IN
      {n} \cup {a \in CombineReads(cur, n, next) :
                  n # 0 /\ n \in Legible /\ free[n]}

MergeNext ==
    /\ pc = "mergeNext"
    /\ MergeNextReads \subseteq Legible
    /\ LET n  == next[cur]
           pv == [prev EXCEPT ![n] = cur]
       IN  \/ /\ n = 0
              /\ UNCHANGED <<len, next, prev, nextFree, prevFree, segs>>
           \/ /\ n # 0 /\ ~ free[n]
              /\ prev' = pv
              /\ UNCHANGED <<len, next, nextFree, prevFree, segs>>
           \/ /\ n # 0 /\ free[n]
              /\ Combine(cur, n, next, pv)
    /\ pc' = "mergePrev"
    /\ UNCHANGED <<free, first, cur, size, old, live, exhausted>>

\* The same for the previous segment, as far as cur knows it.
MergePrevReads ==
    LET v == prev[cur] IN
      {v} \cup {a \in CombineReads(cur, v, [next EXCEPT ![v] = cur]) :
                  v # 0 /\ v \in Legible /\ free[v]}

MergePrev ==
    /\ pc = "mergePrev"
    /\ MergePrevReads \subseteq Legible
    /\ LET v  == prev[cur]
           nx == [next EXCEPT ![v] = cur]
       IN  \/ /\ v = 0
              /\ UNCHANGED <<len, next, prev, nextFree, prevFree, segs>>
           \/ /\ v # 0 /\ ~ free[v]
              /\ next' = nx
              /\ UNCHANGED <<len, prev, nextFree, prevFree, segs>>
           \/ /\ v # 0 /\ free[v]
              /\ Combine(cur, v, nx, prev)
    /\ pc' = "idle"
    /\ cur' = 0
    /\ UNCHANGED <<free, first, size, old, live, exhausted>>

\* Undefined behaviour: the next statement follows a pointer to bytes that
\* are no longer, or never were, a header.  Nothing is promised from there.
Fault ==
    /\ \/ pc = "search" /\ ~ SearchReads \subseteq Legible
       \/ pc = "free" /\ old - Hdr \notin Legible
       \/ pc = "linkNextFree" /\ nextFree[cur] \notin Legible
       \/ pc = "linkPrevFree" /\ prevFree[cur] \notin Legible
       \/ pc = "mergeNext" /\ ~ MergeNextReads \subseteq Legible
       \/ pc = "mergePrev" /\ ~ MergePrevReads \subseteq Legible
    /\ pc' = "fault"
    /\ UNCHANGED <<header, first, cur, size, old, live, segs, exhausted>>

-----------------------------------------------------------------------------
Allocate == \/ \E n \in Sizes : Kmalloc(n)
            \/ \E k \in Counts, n \in Sizes : Kcalloc(k, n)

Internal == \/ SearchTake \/ SearchNext
            \/ Release \/ LinkNextFree \/ LinkPrevFree \/ MergeNext \/ MergePrev
            \/ Fault

\* Any client: it frees and resizes its own blocks in any order.
Next == \/ Allocate
        \/ Internal
        \/ \E p \in DOMAIN live : Kfree(p)
        \/ \E p \in DOMAIN live, n \in Sizes : Krealloc(p, n)

Spec == Init /\ [][Next]_vars

\* A client that never allocates while a block it freed lies below one it
\* still owns.  It may free in any order.
Compact == \A p \in DOMAIN live : p <= first

CompactNext == \/ Compact /\ Allocate
               \/ Internal
               \/ \E p \in DOMAIN live : Kfree(p)
               \/ Compact /\ \E p \in DOMAIN live, n \in Sizes : Krealloc(p, n)

CompactSpec == Init /\ [][CompactNext]_vars

-----------------------------------------------------------------------------
(***************************************************************************)
(* Properties.  All but the type invariant are about a heap in which no    *)
(* search has yet run past the free list: from there the code promises     *)
(* nothing.                                                                *)
(***************************************************************************)
PCs == {"idle", "search", "free", "linkNextFree", "linkPrevFree",
        "mergeNext", "mergePrev", "fault"}

\* The statements of kfree before which a neighbour of cur is not yet told
\* that cur is free, or not yet merged with it.
Unlinked == {"linkNextFree"}
Untold == {"linkNextFree", "linkPrevFree", "mergeNext"}
Unmerged == Untold \cup {"mergePrev"}

\* Every variable has its type, kmalloc works on multiples of 8 only, and
\* kfree works on a header.
TypeOK ==
    /\ Legible \subseteq Nat /\ 0 \in Legible
    /\ len \in [Legible -> Int]
    /\ next \in [Legible -> Int] /\ prev \in [Legible -> Int]
    /\ nextFree \in [Legible -> Int] /\ prevFree \in [Legible -> Int]
    /\ free \in [Legible -> BOOLEAN]
    /\ first \in Nat /\ cur \in Nat /\ old \in Nat
    /\ size \in Nat /\ size % 8 = 0
    /\ pc \in PCs /\ (pc \in Unmerged => cur \in Legible)
    /\ DOMAIN live \subseteq Nat /\ live \in [DOMAIN live -> Nat]
    /\ segs \subseteq Nat
    /\ exhausted \in BOOLEAN

\* Where segment a ends.
End(a) == a + Hdr + len[a]

\* The segments tile the region, and each header leads to the next one.
Tiling ==
    /\ Base \in segs
    /\ segs \subseteq Legible
    /\ \A a \in segs :
         /\ Base <= a /\ len[a] >= 0 /\ End(a) <= Top
         /\ End(a) = Top \/ End(a) \in segs
         /\ next[a] = IF End(a) = Top THEN 0 ELSE End(a)
         /\ nextFree[a] = next[a]
    /\ \A a, b \in segs : a < b => End(a) <= b
    /\ \A b \in segs : b = Base \/ \E a \in segs : End(a) = b

\* The segments that are not free are the blocks clients own.
Owned ==
    /\ \A a \in segs : free[a] <=> a + Hdr \notin DOMAIN live
    /\ \A p \in DOMAIN live : p - Hdr \in segs /\ len[p - Hdr] = live[p]

\* Segment a is free and its successor has been told so.
Known(a, untold) == free[a] /\ ~ (a = cur /\ pc \in untold)

\* A segment points back at its predecessor exactly when that one is free,
\* except while kfree has yet to tell it.
BackLinks ==
    /\ \A b \in segs : prev[b] # 0 =>
         prev[b] \in segs /\ End(prev[b]) = b /\ Known(prev[b], Untold)
    /\ \A b \in segs : prevFree[b] # 0 =>
         prevFree[b] \in segs /\ End(prevFree[b]) = b
         /\ Known(prevFree[b], Unlinked)
    /\ \A a, b \in segs : End(a) = b =>
         /\ Known(a, Untold) => prev[b] = a
         /\ Known(a, Unlinked) => prevFree[b] = a

\* No two neighbours are free, except while kfree has yet to merge them.
Merged ==
    \A a, b \in segs :
      End(a) = b /\ free[a] /\ free[b] =>
        \/ a = cur /\ pc \in Untold
        \/ b = cur /\ pc \in Unmerged

\* first is the lowest free segment and the last segment is free.
FreeEnds ==
    /\ first \in segs /\ free[first]
    /\ \A a \in segs : free[a] => first <= a
    /\ \A a \in segs : End(a) = Top => free[a]

\* What the running function knows.
Locals ==
    /\ pc = "search" => cur = first /\ Compact
                        /\ (old = 0 \/ old \in DOMAIN live)
                        /\ size + Hdr < Word
    /\ pc = "free" => old \in DOMAIN live
    /\ pc \in Unmerged => cur \in segs /\ free[cur]
    /\ pc \in {"idle", "search", "free"} \cup Unmerged

WellFormed == Tiling /\ Owned /\ BackLinks /\ Merged /\ FreeEnds /\ Locals

\* The header list describes the heap at every step of kmalloc and kfree: the
\* inductive invariant of CompactSpec.
HeapInv == ~ exhausted => WellFormed

\* A client's bytes are its own: no other block, no header the heap still
\* uses and nothing outside the region overlaps them.
BlocksApart ==
    ~ exhausted =>
      \A p \in DOMAIN live :
        /\ Base + Hdr <= p /\ p + live[p] + Hdr <= Top
        /\ \A q \in DOMAIN live : p < q => p + live[p] + Hdr <= q
        /\ first + Hdr <= p \/ p + live[p] <= first

\* No function follows a pointer to something that is not a header.
NoFault == ~ exhausted => pc # "fault"

\* However the blocks were released, once all are the heap is what heapInit
\* made it: one segment, nothing lost.
Coalesced ==
    ~ exhausted /\ pc = "idle" /\ DOMAIN live = {} =>
      /\ first = Base /\ free[Base]
      /\ len[Base] = Length - Hdr
      /\ next[Base] = 0 /\ prev[Base] = 0
      /\ nextFree[Base] = 0 /\ prevFree[Base] = 0

(***************************************************************************)
(* The detailed heap under CompactSpec implements the abstract one: a      *)
(* block exists from the split that carves it to the call that releases    *)
(* it, and running past the free list is giving up.                        *)
(***************************************************************************)
Abstract == INSTANCE Allocator
            WITH Requests <- {RoundUp(n) : n \in Requests},
                 None <- -1,
                 blocks <- IF exhausted THEN [p \in {} |-> 0] ELSE live,
                 want <- IF pc = "search" /\ ~ exhausted THEN size ELSE -1,
                 gaveUp <- exhausted

\* kmalloc and kfree do what an allocator promises, step by step; kmalloc
\* runs past the list only when the request does not fit after the last block.
AllocatorSpec == Abstract!Spec
=============================================================================
