----------------------------- MODULE HeapProofs -----------------------------
(***************************************************************************)
(* Theorems about the kernel's heap.  First about KernelHeap, for every    *)
(* region, header size and set of requests that HeapAssumption allows;     *)
(* then about its users, DiskRead and HeapPanic, for every heap, every     *)
(* memory at address 0 and every read but one of two sectors: what is      *)
(* copied stays in its block, kmalloc's statements do what KernelHeap says *)
(* in one step, and an exception after any of them leaves the handler a    *)
(* heap to allocate from.                                                  *)
(***************************************************************************)
EXTENDS HeapPanic, TLAPS

\* What HeapAssumption says of the types of the constants.
LEMMA ConstantTypes ==
    /\ Hdr \in Nat \ {0} /\ Base \in Nat /\ Base > Hdr
    /\ Length \in Nat /\ Length > Hdr
    /\ Word \in Nat /\ Top = Base + Length /\ Top <= Word
  BY HeapAssumption DEF Top

\* EXCEPT at one point of a function, spelt out for the points it leaves alone.
LEMMA Update ==
    ASSUME NEW S, NEW T, NEW f \in [S -> T], NEW x, NEW y \in T
    PROVE  [f EXCEPT ![x] = y] \in [S -> T]
  OBVIOUS

\* The rounded size is a multiple of 8 that is no smaller than the request,
\* and a header more still does not wrap.
LEMMA RoundUpFacts ==
    ASSUME NEW n \in Requests
    PROVE  /\ RoundUp(n) \in Nat
           /\ RoundUp(n) % 8 = 0
           /\ n <= RoundUp(n)
           /\ RoundUp(n) + Hdr < Word
  <1>1. n \in Nat /\ n + Hdr + 8 <= Word /\ Hdr \in Nat \ {0} /\ Word \in Nat
    BY HeapAssumption
  <1>2. /\ n % 8 \in 0..7
        /\ (n - (n % 8)) % 8 = 0
        /\ (n - (n % 8) + 8) % 8 = 0
        /\ n - (n % 8) \in Nat
    BY <1>1
  <1> QED BY <1>1, <1>2 DEF RoundUp, Add

\* Qword addition yields an integer.
LEMMA AddInt ==
    ASSUME NEW a \in Int, NEW b \in Int
    PROVE  Add(a, b) \in Int
  BY ConstantTypes DEF Add

\* Qword addition of naturals that stay below Word is plain addition.
LEMMA AddNat ==
    ASSUME NEW a \in Nat, NEW b \in Nat
    PROVE  Add(a, b) \in Nat
  BY ConstantTypes DEF Add

-----------------------------------------------------------------------------
(***************************************************************************)
(* Types, for any client.                                                  *)
(***************************************************************************)
\* heapInit leaves every variable with its type.
LEMMA InitTypeOK == Init => TypeOK
  <1> SUFFICES ASSUME Init PROVE TypeOK
    OBVIOUS
  <1> PICK low \in LowMemory :
         /\ len = [a \in {0, Base} |-> IF a = 0 THEN low.len ELSE Length - Hdr]
         /\ next = [a \in {0, Base} |-> IF a = 0 THEN low.next ELSE 0]
         /\ prev = [a \in {0, Base} |-> IF a = 0 THEN low.prev ELSE 0]
         /\ nextFree = [a \in {0, Base} |-> IF a = 0 THEN low.nextFree ELSE 0]
         /\ prevFree = [a \in {0, Base} |-> IF a = 0 THEN low.prevFree ELSE 0]
         /\ free = [a \in {0, Base} |-> IF a = 0 THEN low.free ELSE TRUE]
    BY DEF Init
  <1>1. /\ low.len \in Int /\ low.next \in Int /\ low.prev \in Int
        /\ low.nextFree \in Int /\ low.prevFree \in Int /\ low.free \in BOOLEAN
    BY HeapAssumption DEF Header
  <1>2. Legible = {0, Base}
    BY DEF Legible
  <1>3. /\ len \in [Legible -> Int]
        /\ next \in [Legible -> Int] /\ prev \in [Legible -> Int]
        /\ nextFree \in [Legible -> Int] /\ prevFree \in [Legible -> Int]
        /\ free \in [Legible -> BOOLEAN]
    <2>1. len \in [Legible -> Int]
      BY <1>1, <1>2, ConstantTypes
    <2>2. next \in [Legible -> Int] /\ prev \in [Legible -> Int]
      BY <1>1, <1>2, ConstantTypes
    <2>3. nextFree \in [Legible -> Int] /\ prevFree \in [Legible -> Int]
      BY <1>1, <1>2, ConstantTypes
    <2>4. free \in [Legible -> BOOLEAN]
      BY <1>1, <1>2, ConstantTypes
    <2> QED BY <2>1, <2>2, <2>3, <2>4
  <1>4. DOMAIN live = {} /\ live \in [DOMAIN live -> Nat]
    BY DEF Init
  <1>5. /\ first = Base /\ cur = 0 /\ old = 0 /\ size = 0 /\ pc = "idle"
        /\ segs = {Base} /\ exhausted = FALSE
    BY DEF Init
  <1>6. Legible \subseteq Nat /\ 0 \in Legible
    BY <1>2, ConstantTypes
  <1>7. 0 % 8 = 0
    OBVIOUS
  <1>8. pc \in PCs /\ (pc \in Unmerged => cur \in Legible)
    BY <1>5 DEF PCs, Unmerged, Untold
  <1>9. /\ first \in Nat /\ cur \in Nat /\ old \in Nat
        /\ size \in Nat /\ size % 8 = 0
        /\ segs \subseteq Nat /\ exhausted \in BOOLEAN
    BY <1>5, <1>7, ConstantTypes
  <1> QED BY <1>3, <1>4, <1>6, <1>8, <1>9 DEF TypeOK

\* Entering kmalloc, from any of its callers, keeps the types.
LEMMA BeginSearchTypeOK ==
    ASSUME TypeOK, NEW n \in Requests, NEW p \in Nat, BeginSearch(n, p)
    PROVE  TypeOK'
  BY RoundUpFacts DEF TypeOK, BeginSearch, PCs, Unmerged, Untold, header, Legible

\* combineFreeSegments keeps the types when both segments are headers.
LEMMA CombineTypeOK ==
    ASSUME TypeOK, NEW a \in Legible, NEW b \in Legible,
           NEW nx \in [Legible -> Int], NEW pv \in [Legible -> Int],
           Combine(a, b, nx, pv)
    PROVE  /\ Legible' = Legible
           /\ len' \in [Legible -> Int]
           /\ next' \in [Legible -> Int] /\ prev' \in [Legible -> Int]
           /\ nextFree' \in [Legible -> Int] /\ prevFree' \in [Legible -> Int]
           /\ segs' \subseteq Nat
  <1>1. Lower(a, b) \in Legible /\ Higher(a, b) \in Legible
    BY DEF Lower, Higher
  <1>2. /\ Lower(a, b) \in Int
        /\ Add(len[Lower(a, b)], Add(len[Higher(a, b)], Hdr)) \in Int
    BY <1>1, AddInt, ConstantTypes DEF TypeOK
  <1> QED BY <1>1, <1>2 DEF Combine, Swallowed, Adopt, TypeOK, Legible

\* So does every step of any client.
LEMMA StepTypeOK == TypeOK /\ [Next]_vars => TypeOK'
  <1> SUFFICES ASSUME TypeOK, [Next]_vars PROVE TypeOK'
    OBVIOUS
  <1>1. CASE Allocate
    <2>1. ASSUME NEW n \in Sizes, Kmalloc(n) PROVE TypeOK'
      BY <2>1, BeginSearchTypeOK DEF Kmalloc, Requests
    <2>2. ASSUME NEW k \in Counts, NEW n \in Sizes, Kcalloc(k, n) PROVE TypeOK'
      BY <2>2, BeginSearchTypeOK DEF Kcalloc, Requests
    <2> QED BY <1>1, <2>1, <2>2 DEF Allocate
  <1>2. ASSUME NEW p \in DOMAIN live, NEW n \in Sizes, Krealloc(p, n)
        PROVE  TypeOK'
    <2>1. p \in Nat /\ n \in Requests
      BY DEF TypeOK, Requests
    <2> QED BY <1>2, <2>1, BeginSearchTypeOK DEF Krealloc
  <1>3. ASSUME NEW p \in DOMAIN live, Kfree(p) PROVE TypeOK'
    BY <1>3 DEF Kfree, TypeOK, PCs, Unmerged, Untold, header, Legible
  <1>4. CASE SearchTake
    <2> DEFINE n == Add(cur + Hdr, size)
               kept == {a \in Legible : a <= cur \/ a >= n + Hdr} \cup {n}
    <2>1. cur \in Legible /\ cur \in Nat /\ size \in Nat /\ n \in Nat
      <3>1. cur \in Legible /\ cur \in Nat /\ size \in Nat
        BY <1>4 DEF SearchTake, SearchReads, TypeOK
      <3>2. cur + Hdr \in Nat
        BY <3>1, ConstantTypes
      <3> QED BY <3>1, <3>2, AddNat
    <2>2. kept \subseteq Nat /\ 0 \in kept
      BY <2>1 DEF TypeOK
    <2>3. Legible' = kept
      BY <1>4 DEF SearchTake, Legible
    <2>4. len' \in [kept -> Int]
      BY <1>4, <2>1, ConstantTypes DEF SearchTake, TypeOK
    <2>5. next' \in [kept -> Int] /\ prev' \in [kept -> Int]
      BY <1>4, <2>1 DEF SearchTake, TypeOK
    <2>6. nextFree' \in [kept -> Int] /\ prevFree' \in [kept -> Int]
      BY <1>4, <2>1 DEF SearchTake, TypeOK
    <2>7. free' \in [kept -> BOOLEAN]
      BY <1>4, <2>1 DEF SearchTake, TypeOK
    <2>8. DOMAIN live' \subseteq Nat /\ live' \in [DOMAIN live' -> Nat]
      BY <1>4, <2>1, ConstantTypes DEF SearchTake, TypeOK
    <2>9. /\ first' \in Nat /\ cur' \in Nat /\ old' \in Nat
          /\ pc' \in PCs \ Unmerged
          /\ size' \in Nat /\ size' % 8 = 0
          /\ segs' \subseteq Nat /\ exhausted' \in BOOLEAN
      BY <1>4, <2>1 DEF SearchTake, TypeOK, PCs, Unmerged, Untold
    <2> QED BY <2>2, <2>3, <2>4, <2>5, <2>6, <2>7, <2>8, <2>9 DEF TypeOK
  <1>5. CASE SearchNext
    BY <1>5 DEF SearchNext, SearchReads, TypeOK, Legible
  <1>6. CASE Release
    BY <1>6 DEF Release, TypeOK, PCs, Unmerged, Untold, Legible
  <1>7. CASE LinkNextFree
    BY <1>7 DEF LinkNextFree, TypeOK, PCs, Unmerged, Untold, Legible
  <1>8. CASE LinkPrevFree
    BY <1>8 DEF LinkPrevFree, TypeOK, PCs, Unmerged, Untold, Legible
  <1>9. CASE MergeNext
    <2> DEFINE n == next[cur]
               pv == [prev EXCEPT ![n] = cur]
    <2>1. cur \in Legible /\ n \in Int
      BY <1>9 DEF MergeNext, TypeOK, Unmerged, Untold
    <2>2. pv \in [Legible -> Int]
      <3>1. prev \in [Legible -> Int] /\ cur \in Int
        BY DEF TypeOK
      <3> QED BY <3>1, Update
    <2>3. CASE n # 0 /\ free[n] /\ Combine(cur, n, next, pv)
      <3>1. n \in Legible /\ next \in [Legible -> Int]
        BY <1>9 DEF MergeNext, MergeNextReads, TypeOK
      <3>2. /\ Legible' = Legible
            /\ len' \in [Legible -> Int]
            /\ next' \in [Legible -> Int] /\ prev' \in [Legible -> Int]
            /\ nextFree' \in [Legible -> Int] /\ prevFree' \in [Legible -> Int]
            /\ segs' \subseteq Nat
        BY <2>1, <2>2, <2>3, <3>1, CombineTypeOK
      <3>3. UNCHANGED <<free, first, cur, size, old, live, exhausted>>
            /\ pc' = "mergePrev"
        BY <1>9 DEF MergeNext
      <3> QED BY <2>1, <3>2, <3>3 DEF TypeOK, PCs
    <2>4. CASE ~ (n # 0 /\ free[n] /\ Combine(cur, n, next, pv))
      <3>1. UNCHANGED <<len, next, nextFree, prevFree, segs, free, first, cur,
                        size, old, live, exhausted>>
            /\ pc' = "mergePrev" /\ (prev' = prev \/ prev' = pv)
        BY <1>9, <2>4 DEF MergeNext
      <3> QED BY <2>1, <2>2, <3>1 DEF TypeOK, PCs, Legible
    <2> QED BY <2>3, <2>4
  <1>10. CASE MergePrev
    <2> DEFINE v == prev[cur]
               nx == [next EXCEPT ![v] = cur]
    <2>1. cur \in Legible
      BY <1>10 DEF MergePrev, TypeOK, Unmerged, Untold
    <2>2. nx \in [Legible -> Int]
      <3>1. next \in [Legible -> Int] /\ cur \in Int
        BY DEF TypeOK
      <3> QED BY <3>1, Update
    <2>3. CASE v # 0 /\ free[v] /\ Combine(cur, v, nx, prev)
      <3>1. v \in Legible /\ prev \in [Legible -> Int]
        BY <1>10 DEF MergePrev, MergePrevReads, TypeOK
      <3>2. /\ Legible' = Legible
            /\ len' \in [Legible -> Int]
            /\ next' \in [Legible -> Int] /\ prev' \in [Legible -> Int]
            /\ nextFree' \in [Legible -> Int] /\ prevFree' \in [Legible -> Int]
            /\ segs' \subseteq Nat
        BY <2>1, <2>2, <2>3, <3>1, CombineTypeOK
      <3>3. UNCHANGED <<free, first, size, old, live, exhausted>>
            /\ pc' = "idle" /\ cur' = 0
        BY <1>10 DEF MergePrev
      <3> QED BY <2>1, <3>2, <3>3 DEF TypeOK, PCs, Unmerged, Untold
    <2>4. CASE ~ (v # 0 /\ free[v] /\ Combine(cur, v, nx, prev))
      <3>1. UNCHANGED <<len, prev, nextFree, prevFree, segs, free, first,
                        size, old, live, exhausted>>
            /\ pc' = "idle" /\ cur' = 0 /\ (next' = next \/ next' = nx)
        BY <1>10, <2>4 DEF MergePrev
      <3> QED BY <2>1, <2>2, <3>1 DEF TypeOK, PCs, Unmerged, Untold, Legible
    <2> QED BY <2>3, <2>4
  <1>11. CASE Fault
    BY <1>11 DEF Fault, TypeOK, PCs, Unmerged, Untold, header, Legible
  <1>12. CASE UNCHANGED vars
    BY <1>12 DEF vars, header, TypeOK, Legible
  <1> QED BY <1>1, <1>2, <1>3, <1>4, <1>5, <1>6, <1>7, <1>8, <1>9, <1>10,
             <1>11, <1>12 DEF Next, Internal

\* TypeOK holds of every client's heap, before and after a search has run
\* past the free list.
THEOREM TypeCorrect == Spec => []TypeOK
  BY InitTypeOK, StepTypeOK, PTL DEF Spec

-----------------------------------------------------------------------------
(***************************************************************************)
(* The inductive invariant, for a client that keeps the heap compact.      *)
(***************************************************************************)
\* The heap that heapInit builds is well formed.
LEMMA InitHeapInv == Init => HeapInv
  <1> SUFFICES ASSUME Init PROVE WellFormed
    BY DEF HeapInv
  <1>1. /\ segs = {Base} /\ DOMAIN live = {} /\ first = Base /\ pc = "idle"
        /\ len[Base] = Length - Hdr /\ free[Base] = TRUE
        /\ next[Base] = 0 /\ nextFree[Base] = 0
        /\ prev[Base] = 0 /\ prevFree[Base] = 0
        /\ Base \in Legible
    BY ConstantTypes DEF Init, Legible
  <1>2. End(Base) = Top
    BY <1>1, ConstantTypes DEF End
  <1>3. Tiling
    BY <1>1, <1>2, ConstantTypes DEF Tiling
  <1>4. Owned /\ BackLinks
    BY <1>1, <1>2, ConstantTypes DEF Owned, BackLinks
  <1>5. Merged /\ FreeEnds
    BY <1>1, <1>2, ConstantTypes DEF Merged, FreeEnds
  <1>6. Locals
    BY <1>1 DEF Locals, Unmerged, Untold
  <1> QED BY <1>3, <1>4, <1>5, <1>6 DEF WellFormed

\* Two segments do not end at the same address.
LEMMA OnePredecessor ==
    ASSUME TypeOK, Tiling, NEW a \in segs, NEW b \in segs, End(a) = End(b)
    PROVE  a = b
  <1>1. /\ a \in Nat /\ b \in Nat /\ len[a] \in Int /\ len[b] \in Int
        /\ len[a] >= 0 /\ len[b] >= 0
    BY DEF TypeOK, Tiling
  <1>2. a < b => End(a) <= b
    BY DEF Tiling
  <1>3. b < a => End(b) <= a
    BY DEF Tiling
  <1> QED BY <1>1, <1>2, <1>3, ConstantTypes DEF End

\* The types of the fields of a segment, from TypeOK and Tiling.
LEMMA SegmentTypes ==
    ASSUME TypeOK, Tiling, NEW a \in segs
    PROVE  /\ a \in Nat /\ len[a] \in Nat /\ End(a) \in Nat
           /\ a + Hdr <= End(a) /\ a < End(a) /\ End(a) <= Top
           /\ a \in Legible /\ Base <= a
           /\ prev[a] \in Int /\ prevFree[a] \in Int /\ free[a] \in BOOLEAN
  BY ConstantTypes DEF TypeOK, Tiling, End

\* Starting a call changes no header.
LEMMA BeginWellFormed ==
    ASSUME WellFormed, pc = "idle", pc' \in {"search", "free"},
           UNCHANGED <<header, first, live, segs>>, Locals'
    PROVE  WellFormed'
  <1>1. /\ UNCHANGED <<len, next, prev, nextFree, prevFree, free>>
        /\ UNCHANGED <<first, live, segs>>
    BY DEF header
  <1>2. Tiling'
    BY <1>1 DEF WellFormed, Tiling, End, Legible
  <1>3. Owned'
    BY <1>1 DEF WellFormed, Owned
  <1>4. BackLinks'
    BY <1>1 DEF WellFormed, BackLinks, Known, End, Untold, Unlinked
  <1>5. Merged'
    BY <1>1 DEF WellFormed, Merged, End, Untold, Unmerged
  <1>6. FreeEnds'
    BY <1>1 DEF WellFormed, FreeEnds, End
  <1> QED BY <1>2, <1>3, <1>4, <1>5, <1>6 DEF WellFormed

\* Entering kmalloc in a compact heap starts the search at the last segment.
LEMMA BeginSearchWellFormed ==
    ASSUME WellFormed, Compact, NEW n \in Requests, NEW p,
           p = 0 \/ p \in DOMAIN live, BeginSearch(n, p)
    PROVE  WellFormed'
  <1>1. /\ UNCHANGED <<header, first, live, segs>>
        /\ pc = "idle" /\ pc' = "search" /\ cur' = first
        /\ size' = RoundUp(n) /\ old' = p
    BY DEF BeginSearch
  <1>2. Locals'
    BY <1>1, RoundUpFacts DEF Locals, Compact, Unmerged, Untold
  <1> QED BY <1>1, <1>2, BeginWellFormed

\* Entering kfree with a block of the client's changes no header.
LEMMA KfreeWellFormed ==
    ASSUME WellFormed, NEW p \in DOMAIN live, Kfree(p)
    PROVE  WellFormed'
  <1>1. /\ UNCHANGED <<header, first, live, segs>>
        /\ pc = "idle" /\ pc' = "free" /\ old' = p
    BY DEF Kfree
  <1>2. Locals'
    BY <1>1 DEF Locals, Unmerged, Untold
  <1> QED BY <1>1, <1>2, BeginWellFormed

\* With no hole below a live block, the first free segment is the last one,
\* and nothing points back from it.
LEMMA FirstIsTail ==
    ASSUME TypeOK, WellFormed, Compact, pc \in {"idle", "search"}
    PROVE  /\ End(first) = Top
           /\ next[first] = 0 /\ nextFree[first] = 0
           /\ prev[first] = 0 /\ prevFree[first] = 0
           /\ \A a \in segs : a <= first
           /\ \A a \in segs : free[a] => a = first
  <1>1. /\ first \in segs /\ free[first]
        /\ \A a \in segs : free[a] => first <= a
    BY DEF WellFormed, FreeEnds
  <1>2. Tiling /\ Owned /\ BackLinks
    BY DEF WellFormed
  <1>3. End(first) = Top
    <2> SUFFICES ASSUME End(first) # Top PROVE FALSE
      OBVIOUS
    <2> DEFINE b == End(first)
    <2>1. b \in segs
      BY <1>1, <1>2 DEF Tiling
    <2>2. ~ free[b]
      BY <1>1, <2>1 DEF WellFormed, Merged, Untold, Unmerged
    <2>3. b + Hdr \in DOMAIN live
      BY <1>2, <2>1, <2>2 DEF Owned
    <2>4. b + Hdr <= first
      BY <2>3 DEF Compact
    <2> QED BY <1>1, <1>2, <2>1, <2>4, SegmentTypes, ConstantTypes
  <1>4. next[first] = 0 /\ nextFree[first] = 0
    BY <1>1, <1>2, <1>3 DEF Tiling
  <1>5. \A a \in segs : a <= first
    <2> SUFFICES ASSUME NEW a \in segs, first < a PROVE FALSE
      BY <1>1, <1>2, SegmentTypes
    <2>1. End(first) <= a
      BY <1>1, <1>2 DEF Tiling
    <2> QED BY <1>1, <1>2, <1>3, <2>1, SegmentTypes, ConstantTypes
  <1>6. \A a \in segs : free[a] => a = first
    BY <1>1, <1>2, <1>5, SegmentTypes
  <1>7. prev[first] = 0
    <2> SUFFICES ASSUME prev[first] # 0 PROVE FALSE
      OBVIOUS
    <2>1. /\ prev[first] \in segs /\ End(prev[first]) = first
          /\ free[prev[first]]
      BY <1>1, <1>2 DEF BackLinks, Known
    <2> QED BY <1>2, <1>6, <2>1, SegmentTypes
  <1>8. prevFree[first] = 0
    <2> SUFFICES ASSUME prevFree[first] # 0 PROVE FALSE
      OBVIOUS
    <2>1. /\ prevFree[first] \in segs /\ End(prevFree[first]) = first
          /\ free[prevFree[first]]
      BY <1>1, <1>2 DEF BackLinks, Known
    <2> QED BY <1>2, <1>6, <2>1, SegmentTypes
  <1> QED BY <1>3, <1>4, <1>5, <1>6, <1>7, <1>8

\* kmalloc's split leaves a well formed heap.
LEMMA SearchTakeWellFormed ==
    ASSUME TypeOK, WellFormed, SearchTake
    PROVE  WellFormed'
  <1> PICK c, n : c = cur /\ n = Add(cur + Hdr, size)
    OBVIOUS
  <1>1. /\ pc = "search" /\ c = first /\ c = cur /\ Compact
        /\ c \in segs /\ (old = 0 \/ old \in DOMAIN live)
    BY DEF SearchTake, WellFormed, Locals, FreeEnds
  <1>2. Tiling /\ Owned /\ BackLinks
    BY DEF WellFormed
  <1>3. /\ End(c) = Top
        /\ next[c] = 0 /\ nextFree[c] = 0
        /\ prev[c] = 0 /\ prevFree[c] = 0
        /\ \A a \in segs : a <= c
        /\ \A a \in segs : free[a] => a = c
    BY <1>1, FirstIsTail
  <1>4. /\ n = c + Hdr + size /\ n \in Nat /\ size \in Nat
        /\ n + Hdr < Top /\ c < n /\ n \notin segs
    <2>1. c \in Nat /\ size \in Nat /\ size + Hdr < Word
      BY <1>1 DEF TypeOK, WellFormed, Locals
    <2>2. len[c] > size + Hdr
      BY <1>1, <2>1, ConstantTypes DEF SearchTake, Fits, Add
    <2>3. c + Hdr + size + Hdr < Top
      BY <1>1, <1>2, <1>3, <2>1, <2>2, SegmentTypes, ConstantTypes DEF End
    <2>4. n = c + Hdr + size
      BY <1>1, <2>1, <2>3, ConstantTypes DEF Add
    <2> QED BY <1>3, <2>1, <2>3, <2>4, ConstantTypes
  <1>5. Linkers(c) = {}
    BY <1>1, <1>3 DEF Linkers
  <1>6. /\ segs' = segs \cup {n} /\ first' = n
        /\ UNCHANGED <<old, exhausted>> /\ cur' = 0
        /\ pc' = IF old = 0 THEN "idle" ELSE "free"
        /\ DOMAIN live' = DOMAIN live \cup {c + Hdr}
        /\ live'[c + Hdr] = size
        /\ \A p \in DOMAIN live : p # c + Hdr => live'[p] = live[p]
    BY <1>1 DEF SearchTake
  <1>7. \A a \in segs : a \in Legible' /\ a \in Legible /\ a \in Nat
    BY <1>1, <1>2, <1>3, <1>4, SegmentTypes DEF SearchTake, Legible
  <1>8. /\ n \in Legible' /\ len'[n] = len[c] - (Hdr + size)
        /\ next'[n] = 0 /\ nextFree'[n] = 0
        /\ prev'[n] = 0 /\ prevFree'[n] = 0 /\ free'[n] = TRUE
    BY <1>1, <1>3, <1>4, <1>5 DEF SearchTake, Legible
  <1>9. /\ len'[c] = size /\ next'[c] = n /\ nextFree'[c] = n
        /\ free'[c] = FALSE
        /\ prev'[c] = 0 /\ prevFree'[c] = 0
    BY <1>1, <1>3, <1>4, <1>5, <1>7 DEF SearchTake, Legible
  <1>10. ASSUME NEW a \in segs, a # c
         PROVE  /\ a < c /\ len'[a] = len[a] /\ next'[a] = next[a]
                /\ nextFree'[a] = nextFree[a] /\ prev'[a] = prev[a]
                /\ prevFree'[a] = prevFree[a] /\ free'[a] = free[a]
    <2>1. a < c /\ a # n
      BY <1>1, <1>2, <1>3, <1>4, <1>10, SegmentTypes
    <2>2. a \in Legible /\ a <= cur
      BY <1>1, <1>2, <1>7, <2>1, SegmentTypes
    <2> QED BY <1>1, <1>5, <1>10, <2>1, <2>2 DEF SearchTake
  <1>11. /\ \A a \in segs : a # c => End(a)' = End(a)
         /\ End(c)' = n /\ End(n)' = Top
    <2>1. ASSUME NEW a \in segs, a # c PROVE End(a)' = End(a)
      BY <1>10, <2>1 DEF End
    <2>2. End(c)' = n
      BY <1>4, <1>9 DEF End
    <2>3. n + Hdr + (len[c] - (Hdr + size)) = c + Hdr + len[c]
      BY <1>1, <1>2, <1>4, SegmentTypes, ConstantTypes
    <2>4. End(n)' = Top
      BY <1>3, <1>8, <2>3 DEF End
    <2> QED BY <2>1, <2>2, <2>4
  <1>12. Tiling'
    <2>1. ASSUME NEW a \in segs'
          PROVE  /\ Base <= a /\ len'[a] >= 0 /\ End(a)' <= Top
                 /\ End(a)' = Top \/ End(a)' \in segs'
                 /\ next'[a] = IF End(a)' = Top THEN 0 ELSE End(a)'
                 /\ nextFree'[a] = next'[a]
      <3>1. CASE a = n
        <4>1. len[c] - (Hdr + size) >= 0
          BY <1>1, <1>2, <1>3, <1>4, SegmentTypes, ConstantTypes DEF End
        <4> QED BY <1>1, <1>2, <1>4, <1>8, <1>11, <3>1, <4>1,
                   SegmentTypes, ConstantTypes
      <3>2. CASE a = c
        BY <1>1, <1>2, <1>4, <1>6, <1>9, <1>11, <3>2,
           SegmentTypes, ConstantTypes
      <3>3. CASE a \in segs /\ a # c
        BY <1>2, <1>6, <1>10, <1>11, <3>3, SegmentTypes DEF Tiling
      <3> QED BY <1>6, <3>1, <3>2, <3>3
    <2>2. ASSUME NEW a \in segs', NEW b \in segs', a < b
          PROVE  End(a)' <= b
      <3>1. CASE b = n /\ a # c
        BY <1>1, <1>2, <1>4, <1>6, <1>10, <1>11, <2>2, <3>1,
           SegmentTypes, ConstantTypes DEF Tiling
      <3>2. CASE a = n
        BY <1>1, <1>2, <1>3, <1>4, <1>6, <2>2, <3>2, SegmentTypes
      <3>3. CASE a = c
        BY <1>1, <1>2, <1>3, <1>4, <1>6, <1>11, <2>2, <3>3, SegmentTypes
      <3>4. CASE b \in segs /\ a \in segs /\ a # c
        BY <1>2, <1>11, <2>2, <3>4 DEF Tiling
      <3> QED BY <1>1, <1>6, <3>1, <3>2, <3>3, <3>4
    <2>3. ASSUME NEW b \in segs', b # Base PROVE \E a \in segs' : End(a)' = b
      <3>1. CASE b = n
        BY <1>1, <1>6, <1>11, <3>1
      <3>2. CASE b \in segs
        <4>1. PICK a \in segs : End(a) = b
          BY <1>2, <2>3, <3>2 DEF Tiling
        <4>2. a # c
          BY <1>2, <1>3, <3>2, <4>1, SegmentTypes, ConstantTypes
        <4> QED BY <1>6, <1>11, <4>1, <4>2
      <3> QED BY <1>6, <3>1, <3>2
    <2> QED BY <1>2, <1>6, <1>7, <1>8, <2>1, <2>2, <2>3 DEF Tiling
  <1>13. Owned'
    <2>1. n + Hdr \notin DOMAIN live /\ n + Hdr # c + Hdr
      <3> SUFFICES ASSUME n + Hdr \in DOMAIN live PROVE FALSE
        BY <1>1, <1>2, <1>4, SegmentTypes, ConstantTypes
      <3> QED BY <1>2, <1>4, ConstantTypes DEF Owned
    <2>2. ASSUME NEW a \in segs'
          PROVE  free'[a] <=> a + Hdr \notin DOMAIN live'
      <3>1. CASE a = n
        BY <1>6, <1>8, <2>1, <3>1
      <3>2. CASE a = c
        BY <1>6, <1>9, <3>2
      <3>3. CASE a \in segs /\ a # c
        <4>1. a + Hdr # c + Hdr
          BY <1>1, <1>2, <3>3, SegmentTypes, ConstantTypes
        <4> QED BY <1>2, <1>6, <1>10, <3>3, <4>1 DEF Owned
      <3> QED BY <1>6, <3>1, <3>2, <3>3
    <2>3. ASSUME NEW p \in DOMAIN live'
          PROVE  p - Hdr \in segs' /\ len'[p - Hdr] = live'[p]
      <3>1. CASE p = c + Hdr
        <4>1. p - Hdr = c
          BY <1>1, <1>2, <3>1, SegmentTypes, ConstantTypes
        <4> QED BY <1>1, <1>6, <1>9, <3>1, <4>1
      <3>2. CASE p \in DOMAIN live /\ p # c + Hdr
        <4>1. p - Hdr # c
          BY <1>1, <1>2, <3>2, SegmentTypes, ConstantTypes DEF TypeOK
        <4> QED BY <1>2, <1>6, <1>10, <3>2, <4>1 DEF Owned
      <3> QED BY <1>6, <3>1, <3>2
    <2> QED BY <2>2, <2>3 DEF Owned
  <1>14. BackLinks'
    <2>1. \A a : (Known(a, Untold)' <=> free'[a])
                 /\ (Known(a, Unlinked)' <=> free'[a])
                 /\ (Known(a, Untold) <=> free[a])
                 /\ (Known(a, Unlinked) <=> free[a])
      BY <1>1, <1>6 DEF Known, Untold, Unlinked
    <2>2. ASSUME NEW a \in segs, a # c
          PROVE  ~ free'[a] /\ prev'[a] = 0 /\ prevFree'[a] = 0
      <3>1. ~ free[a]
        BY <1>3, <2>2
      <3>2. a < Top
        BY <1>2, SegmentTypes, ConstantTypes
      <3>3. prev[a] = 0
        BY <1>2, <1>3, <2>1, <3>2, ConstantTypes DEF BackLinks
      <3>4. prevFree[a] = 0
        BY <1>2, <1>3, <2>1, <3>2, ConstantTypes DEF BackLinks
      <3> QED BY <1>10, <2>2, <3>1, <3>3, <3>4
    <2>3. \A b \in segs' : prev'[b] = 0 /\ prevFree'[b] = 0
      BY <1>6, <1>8, <1>9, <2>2
    <2>4. \A a \in segs' : End(a)' \in segs' => ~ free'[a]
      BY <1>1, <1>2, <1>3, <1>4, <1>6, <1>8, <1>9, <1>11, <2>2,
         SegmentTypes, ConstantTypes
    <2> QED BY <2>1, <2>3, <2>4 DEF BackLinks
  <1>15. Merged'
    <2>1. \A a \in segs' : free'[a] => a = n
      BY <1>3, <1>6, <1>9, <1>10
    <2>2. n # Top
      BY <1>4, ConstantTypes
    <2> QED BY <1>11, <2>1, <2>2 DEF Merged
  <1>16. FreeEnds'
    <2>1. \A a \in segs' : free'[a] => a = n
      BY <1>3, <1>6, <1>9, <1>10
    <2>2. ASSUME NEW a \in segs', End(a)' = Top PROVE a = n
      <3>1. CASE a = c
        BY <1>4, <1>11, <2>2, <3>1, ConstantTypes
      <3>2. CASE a \in segs /\ a # c
        BY <1>1, <1>2, <1>3, <1>11, <2>2, <3>2, OnePredecessor
      <3> QED BY <1>6, <3>1, <3>2
    <2> QED BY <1>4, <1>6, <1>8, <2>1, <2>2 DEF FreeEnds
  <1>17. Locals'
    BY <1>1, <1>6 DEF Locals, Unmerged, Untold
  <1> QED BY <1>12, <1>13, <1>14, <1>15, <1>16, <1>17 DEF WellFormed

\* The first statements of kfree leave the heap as the rest of kfree expects it.
LEMMA ReleaseWellFormed ==
    ASSUME TypeOK, WellFormed, Release
    PROVE  WellFormed'
  <1> PICK c : c = old - Hdr
    OBVIOUS
  <1>1. /\ pc = "free" /\ old \in DOMAIN live /\ c \in segs /\ c + Hdr = old
    <2>1. pc = "free" /\ old \in DOMAIN live /\ old \in Nat
      BY DEF Release, WellFormed, Locals, TypeOK
    <2> QED BY <2>1, ConstantTypes DEF WellFormed, Owned
  <1>2. Tiling /\ Owned /\ BackLinks /\ Merged /\ FreeEnds
    BY DEF WellFormed
  <1>3. ~ free[c]
    BY <1>1, <1>2 DEF Owned
  <1>4. /\ cur' = c /\ pc' = "linkNextFree"
        /\ UNCHANGED <<len, next, prev, nextFree, prevFree, segs>>
        /\ first' = IF c < first THEN c ELSE first
        /\ DOMAIN live' = DOMAIN live \ {old}
        /\ \A p \in DOMAIN live' : live'[p] = live[p]
    BY DEF Release
  <1>5. /\ free'[c] = TRUE
        /\ \A a \in segs : a # c => free'[a] = free[a]
    BY <1>1, <1>2, SegmentTypes DEF Release, TypeOK
  <1>6. \A a : End(a)' = End(a)
    BY <1>4 DEF End
  <1>7. Tiling'
    BY <1>2, <1>4, <1>6 DEF Tiling, Legible
  <1>8. Owned'
    <2>1. \A a \in segs : a # c => a + Hdr # old
      BY <1>1, <1>2, SegmentTypes, ConstantTypes
    <2> QED BY <1>1, <1>2, <1>4, <1>5, <2>1 DEF Owned
  <1>9. BackLinks'
    <2>1. \A a : Known(a, Untold) <=> free[a]
      BY <1>1 DEF Known, Untold
    <2>2. \A a : Known(a, Unlinked) <=> free[a]
      BY <1>1 DEF Known, Unlinked
    <2>3. \A a \in segs : Known(a, Untold)' <=> free[a]
      BY <1>3, <1>4, <1>5 DEF Known, Untold
    <2>4. \A a \in segs : Known(a, Unlinked)' <=> free[a]
      BY <1>3, <1>4, <1>5 DEF Known, Unlinked
    <2> QED BY <1>2, <1>4, <1>6, <2>1, <2>2, <2>3, <2>4 DEF BackLinks
  <1>10. Merged'
    <2>1. \A a, b \in segs : End(a) = b => ~ (free[a] /\ free[b])
      BY <1>1, <1>2 DEF Merged, Untold, Unmerged
    <2> QED BY <1>4, <1>5, <1>6, <2>1 DEF Merged, Untold, Unmerged
  <1>11. FreeEnds'
    <2>1. c \in Nat /\ first \in Nat /\ \A a \in segs : a \in Nat
      BY <1>1, <1>2, SegmentTypes DEF FreeEnds
    <2>2. first' \in segs /\ free'[first']
      BY <1>1, <1>2, <1>4, <1>5 DEF FreeEnds
    <2>3. \A a \in segs : free'[a] => first' <= a
      BY <1>2, <1>4, <1>5, <2>1 DEF FreeEnds
    <2>4. \A a \in segs : End(a) = Top => free'[a]
      BY <1>2, <1>5 DEF FreeEnds
    <2> QED BY <1>4, <1>6, <2>2, <2>3, <2>4 DEF FreeEnds
  <1>12. Locals'
    BY <1>1, <1>4, <1>5 DEF Locals, Unmerged, Untold
  <1> QED BY <1>7, <1>8, <1>9, <1>10, <1>11, <1>12 DEF WellFormed

\* What the header of the segment under kfree's hands says, and what its
\* successor's says of it.
LEMMA CurFacts ==
    ASSUME TypeOK, WellFormed, pc \in Unmerged
    PROVE  /\ cur \in segs /\ free[cur] /\ cur \in Legible
           /\ cur \in Nat /\ cur # 0
           /\ nextFree[cur] = next[cur]
           /\ next[cur] # 0 => /\ next[cur] \in segs /\ next[cur] = End(cur)
                               /\ next[cur] # cur /\ cur < next[cur]
                               /\ next[cur] \in Legible
           /\ next[cur] = 0 => End(cur) = Top /\ End(cur) \notin segs
           /\ prev[cur] # 0 => /\ prev[cur] \in segs /\ End(prev[cur]) = cur
                               /\ free[prev[cur]] /\ prev[cur] < cur
           /\ prevFree[cur] # 0 =>
                /\ prevFree[cur] \in segs /\ End(prevFree[cur]) = cur
                /\ free[prevFree[cur]] /\ prevFree[cur] < cur
  <1>1. cur \in segs /\ free[cur] /\ Tiling /\ BackLinks
    BY DEF WellFormed, Locals
  <1>2. cur \in Legible /\ cur \in Nat /\ cur # 0 /\ cur < End(cur)
        /\ nextFree[cur] = next[cur] /\ End(cur) \in Nat
    BY <1>1, SegmentTypes, ConstantTypes DEF Tiling
  <1>3. next[cur] = IF End(cur) = Top THEN 0 ELSE End(cur)
    BY <1>1 DEF Tiling
  <1>4. Top \notin segs
    BY <1>1, SegmentTypes, ConstantTypes
  <1>5. next[cur] # 0 => End(cur) \in segs
    BY <1>1, <1>3 DEF Tiling
  <1>6. next[cur] # 0 => /\ next[cur] \in segs /\ next[cur] = End(cur)
                         /\ next[cur] # cur /\ cur < next[cur]
                         /\ next[cur] \in Legible
    BY <1>1, <1>2, <1>3, <1>5, SegmentTypes
  <1>7. next[cur] = 0 => End(cur) = Top /\ End(cur) \notin segs
    BY <1>2, <1>3, <1>4
  <1>8. prev[cur] # 0 => /\ prev[cur] \in segs /\ End(prev[cur]) = cur
                         /\ free[prev[cur]] /\ prev[cur] < cur
    BY <1>1, SegmentTypes DEF BackLinks, Known
  <1>9. prevFree[cur] # 0 =>
                /\ prevFree[cur] \in segs /\ End(prevFree[cur]) = cur
                /\ free[prevFree[cur]] /\ prevFree[cur] < cur
    BY <1>1, SegmentTypes DEF BackLinks, Known
  <1> QED BY <1>1, <1>2, <1>6, <1>7, <1>8, <1>9

\* kfree's first repair makes the next free segment point back at cur.
LEMMA LinkNextFreeWellFormed ==
    ASSUME TypeOK, WellFormed, LinkNextFree
    PROVE  WellFormed'
  <1>1. pc = "linkNextFree" /\ pc \in Unmerged
    BY DEF LinkNextFree, Unmerged, Untold
  <1>2. Tiling /\ Owned /\ BackLinks /\ Merged /\ FreeEnds
    BY DEF WellFormed
  <1>3. /\ pc' = "linkPrevFree"
        /\ UNCHANGED <<len, next, prev, nextFree, free, first, cur, live, segs>>
    BY DEF LinkNextFree
  <1>4. \A a : End(a)' = End(a)
    BY <1>3 DEF End
  <1>5. Tiling' /\ Owned' /\ FreeEnds'
    BY <1>2, <1>3, <1>4 DEF Tiling, Owned, FreeEnds, Legible
  <1>6. BackLinks'
    <2>1. \A a : Known(a, Untold)' <=> Known(a, Untold)
      BY <1>1, <1>3 DEF Known, Untold
    <2>2. \A a : /\ Known(a, Unlinked)' <=> free[a]
                 /\ Known(a, Unlinked) <=> free[a] /\ a # cur
      BY <1>1, <1>3 DEF Known, Unlinked
    <2>3. CASE next[cur] = 0
      <3>1. prevFree' = prevFree
        BY <1>1, <2>3, CurFacts DEF LinkNextFree
      <3>2. End(cur) \notin segs
        BY <1>1, <2>3, CurFacts
      <3> QED BY <1>1, <1>2, <1>3, <1>4, <2>1, <2>2, <3>1, <3>2, CurFacts
              DEF BackLinks
    <2>4. CASE next[cur] # 0
      <3>1. PICK n : n = next[cur]
        OBVIOUS
      <3>2. /\ n \in segs /\ n = End(cur) /\ n # 0 /\ n \in Legible
            /\ nextFree[cur] = n
        BY <1>1, <2>4, <3>1, CurFacts
      <3>3. prevFree[n] = 0
        <4> SUFFICES ASSUME prevFree[n] # 0 PROVE FALSE
          OBVIOUS
        <4>1. /\ prevFree[n] \in segs /\ End(prevFree[n]) = n
              /\ prevFree[n] # cur
          BY <1>2, <2>2, <3>2 DEF BackLinks
        <4> QED BY <1>1, <1>2, <3>2, <4>1, OnePredecessor, CurFacts
      <3>4. prevFree' = [prevFree EXCEPT ![n] = cur]
        BY <1>1, <3>2, <3>3, CurFacts DEF LinkNextFree
      <3>5. /\ prevFree'[n] = cur
            /\ \A b \in segs : b # n => prevFree'[b] = prevFree[b]
        BY <1>2, <3>2, <3>4, SegmentTypes DEF TypeOK
      <3> QED BY <1>1, <1>2, <1>3, <1>4, <2>1, <2>2, <3>2, <3>3, <3>5,
                 CurFacts, OnePredecessor DEF BackLinks
    <2> QED BY <2>3, <2>4
  <1>7. Merged'
    BY <1>1, <1>2, <1>3, <1>4 DEF Merged, Untold, Unmerged
  <1>8. Locals'
    BY <1>1, <1>3, CurFacts DEF Locals, Unmerged, Untold
  <1> QED BY <1>5, <1>6, <1>7, <1>8 DEF WellFormed

\* Its second one changes nothing: a previous free segment already knows cur.
LEMMA LinkPrevFreeWellFormed ==
    ASSUME TypeOK, WellFormed, LinkPrevFree
    PROVE  WellFormed'
  <1>1. pc = "linkPrevFree" /\ pc \in Unmerged
    BY DEF LinkPrevFree, Unmerged, Untold
  <1>2. Tiling /\ Owned /\ BackLinks /\ Merged /\ FreeEnds
    BY DEF WellFormed
  <1>3. nextFree' = nextFree
    <2>1. CASE prevFree[cur] = 0
      BY <2>1 DEF LinkPrevFree
    <2>2. CASE prevFree[cur] # 0
      <3>1. /\ prevFree[cur] \in segs /\ End(prevFree[cur]) = cur
            /\ cur \in segs /\ cur \in Nat
        BY <1>1, <2>2, CurFacts
      <3>2. cur # Top
        BY <1>2, <3>1, SegmentTypes, ConstantTypes
      <3>3. nextFree[prevFree[cur]] = cur
        BY <1>2, <3>1, <3>2 DEF Tiling
      <3> QED BY <3>1, <3>3 DEF LinkPrevFree
    <2> QED BY <2>1, <2>2
  <1>4. /\ pc' = "mergeNext"
        /\ UNCHANGED <<len, next, prev, prevFree, free, first, cur, live, segs>>
    BY DEF LinkPrevFree
  <1>5. \A a : End(a)' = End(a)
    BY <1>4 DEF End
  <1>6. Tiling' /\ Owned' /\ FreeEnds'
    BY <1>2, <1>3, <1>4, <1>5 DEF Tiling, Owned, FreeEnds, Legible
  <1>7. BackLinks'
    <2>1. \A a : /\ Known(a, Untold)' <=> Known(a, Untold)
                 /\ Known(a, Unlinked)' <=> Known(a, Unlinked)
      BY <1>1, <1>4 DEF Known, Untold, Unlinked
    <2> QED BY <1>2, <1>4, <1>5, <2>1 DEF BackLinks
  <1>8. Merged'
    BY <1>1, <1>2, <1>4, <1>5 DEF Merged, Untold, Unmerged
  <1>9. Locals'
    BY <1>1, <1>4, CurFacts DEF Locals, Unmerged, Untold
  <1> QED BY <1>6, <1>7, <1>8, <1>9 DEF WellFormed

\* What combineFreeSegments leaves: lo swallows its free neighbour hi, as one
\* of the last two statements of kfree calls it.
LEMMA CombineWellFormed ==
    ASSUME TypeOK, WellFormed,
           NEW lo \in segs, NEW hi \in segs, End(lo) = hi, free[lo], free[hi],
           \/ pc = "mergeNext" /\ cur = lo /\ cur' = lo /\ pc' = "mergePrev"
           \/ pc = "mergePrev" /\ cur = hi /\ pc' = "idle",
           NEW pv \in [Legible -> Int],
           \A a \in segs : a # hi => pv[a] = prev[a],
           Combine(lo, hi, next, pv),
           UNCHANGED <<free, first, live>>
    PROVE  WellFormed'
  <1> PICK n : n = next[hi]
    OBVIOUS
  <1>1. Tiling /\ Owned /\ BackLinks /\ Merged /\ FreeEnds
    BY DEF WellFormed
  <1>2. /\ lo \in Nat /\ hi \in Nat /\ lo < hi /\ lo # 0
        /\ lo \in Legible /\ hi \in Legible
        /\ hi = lo + Hdr + len[lo] /\ len[lo] \in Nat /\ len[hi] \in Nat
        /\ End(hi) = hi + Hdr + len[hi] /\ hi < End(hi) /\ End(hi) <= Top
    BY <1>1, SegmentTypes, ConstantTypes DEF End
  <1>3. /\ n = (IF End(hi) = Top THEN 0 ELSE End(hi)) /\ nextFree[hi] = n
        /\ End(hi) = Top \/ End(hi) \in segs
    BY <1>1 DEF Tiling
  <1>4. /\ n \in Int /\ n # hi /\ n # lo
        /\ n = 0 \/ (n \in segs /\ n = End(hi) /\ n \in Legible)
    BY <1>1, <1>2, <1>3, SegmentTypes, ConstantTypes
  <1>5. Lower(lo, hi) = lo /\ Higher(lo, hi) = hi
    BY <1>2 DEF Lower, Higher
  <1>6. Add(len[lo], Add(len[hi], Hdr)) = len[lo] + len[hi] + Hdr
    BY <1>2, ConstantTypes DEF Add
  <1>7. /\ segs' = segs \ {hi} /\ Legible' = Legible
        /\ len'[lo] = len[lo] + len[hi] + Hdr
        /\ next'[lo] = n /\ nextFree'[lo] = n
    BY <1>2, <1>3, <1>5, <1>6 DEF Combine, Swallowed, Adopt, TypeOK, Legible
  <1>8. ASSUME NEW a \in segs, a # lo
        PROVE  len'[a] = len[a] /\ next'[a] = next[a]
               /\ nextFree'[a] = nextFree[a]
    <2>1. a \in Legible
      BY <1>1, SegmentTypes
    <2> QED BY <1>5, <1>8, <2>1 DEF Combine, Swallowed, Adopt, TypeOK, Legible
  <1>9. n # 0 => prev'[n] = lo /\ prevFree'[n] = lo
    BY <1>3, <1>4, <1>5 DEF Combine, Swallowed, Adopt, TypeOK, Legible
  <1>10. ASSUME NEW a \in segs, a # hi, a # n
         PROVE  prev'[a] = prev[a] /\ prevFree'[a] = prevFree[a]
    <2>1. a \in Legible
      BY <1>1, SegmentTypes
    <2> QED BY <1>3, <1>5, <1>10, <2>1 DEF Combine, Swallowed, Adopt, TypeOK, Legible
  <1>11. /\ \A a \in segs : a # lo => End(a)' = End(a)
         /\ End(lo)' = End(hi)
    <2>1. ASSUME NEW a \in segs, a # lo PROVE End(a)' = End(a)
      BY <1>8, <2>1 DEF End
    <2>2. End(lo)' = End(hi)
      BY <1>2, <1>7, ConstantTypes DEF End
    <2> QED BY <2>1, <2>2
  <1>12. /\ \A a \in segs : a # lo => End(a) # hi
         /\ \A a \in segs : a # hi => End(a) # End(hi)
    BY <1>1, OnePredecessor
  <1>13. n # 0 => ~ free[n]
    <2> SUFFICES ASSUME n # 0, free[n] PROVE FALSE
      BY DEF TypeOK
    <2>1. n \in segs /\ End(hi) = n
      BY <1>4
    <2>2. (hi = cur /\ pc \in Untold) \/ (n = cur /\ pc \in Unmerged)
      BY <1>1, <2>1 DEF Merged
    <2> QED BY <1>2, <1>4, <2>2 DEF Untold
  <1>14. Tiling'
    <2>1. ASSUME NEW a \in segs'
          PROVE  /\ Base <= a /\ len'[a] >= 0 /\ End(a)' <= Top
                 /\ End(a)' = Top \/ End(a)' \in segs'
                 /\ next'[a] = IF End(a)' = Top THEN 0 ELSE End(a)'
                 /\ nextFree'[a] = next'[a]
      <3>1. CASE a = lo
        BY <1>1, <1>2, <1>3, <1>4, <1>7, <1>11, <3>1,
           SegmentTypes, ConstantTypes
      <3>2. CASE a # lo
        BY <1>1, <1>7, <1>8, <1>11, <1>12, <3>2, SegmentTypes DEF Tiling
      <3> QED BY <3>1, <3>2
    <2>2. ASSUME NEW a \in segs', NEW b \in segs', a < b
          PROVE  End(a)' <= b
      <3>1. CASE a = lo
        <4>1. hi <= b /\ b # hi /\ b \in Nat
          BY <1>1, <1>7, <2>2, <3>1, SegmentTypes DEF Tiling
        <4>2. End(hi) <= b
          BY <1>1, <1>2, <1>7, <4>1 DEF Tiling
        <4> QED BY <1>11, <3>1, <4>2
      <3>2. CASE a # lo
        BY <1>1, <1>7, <1>11, <2>2, <3>2 DEF Tiling
      <3> QED BY <3>1, <3>2
    <2>3. Base \in segs' /\ segs' \subseteq Legible'
      <3>1. Base # hi
        BY <1>1, <1>2, SegmentTypes
      <3> QED BY <1>1, <1>7, <3>1 DEF Tiling
    <2>4. ASSUME NEW b \in segs', b # Base PROVE \E a \in segs' : End(a)' = b
      <3>1. PICK a \in segs : End(a) = b
        BY <1>1, <1>7, <2>4 DEF Tiling
      <3>2. CASE a = hi
        BY <1>2, <1>7, <1>11, <3>1, <3>2
      <3>3. CASE a # hi
        BY <1>7, <1>11, <3>1, <3>3, <2>4
      <3> QED BY <3>2, <3>3
    <2> QED BY <2>1, <2>2, <2>3, <2>4 DEF Tiling
  <1>15. Owned'
    <2>1. \A a \in segs' : free'[a] <=> a + Hdr \notin DOMAIN live'
      BY <1>1, <1>7 DEF Owned
    <2>2. ASSUME NEW p \in DOMAIN live'
          PROVE  p - Hdr \in segs' /\ len'[p - Hdr] = live'[p]
      <3>1. p \in DOMAIN live /\ p \in Nat /\ live'[p] = live[p]
        BY DEF TypeOK
      <3>2. PICK a : a = p - Hdr
        OBVIOUS
      <3>3. a \in segs /\ len[a] = live[p] /\ a + Hdr = p
        BY <1>1, <3>1, <3>2, ConstantTypes DEF Owned
      <3>4. ~ free[a]
        BY <1>1, <3>1, <3>3 DEF Owned
      <3> QED BY <1>7, <1>8, <3>1, <3>2, <3>3, <3>4
    <2> QED BY <2>1, <2>2 DEF Owned
  <1>16. \A a \in segs : /\ Known(a, Untold)' <=> free[a]
                         /\ Known(a, Unlinked)' <=> free[a]
                         /\ Known(a, Unlinked) <=> free[a]
                         /\ Known(a, Untold) => free[a]
                         /\ a # lo => (Known(a, Untold) <=> free[a])
    BY DEF Known, Untold, Unlinked
  <1>17. BackLinks'
    <2>1. ASSUME NEW b \in segs', prev'[b] # 0
          PROVE  \E a \in segs' : a = prev'[b] /\ End(a)' = b /\ free[a]
      <3>1. CASE b = n
        BY <1>1, <1>2, <1>4, <1>7, <1>9, <1>11, <2>1, <3>1,
           SegmentTypes, ConstantTypes
      <3>2. CASE b # n
        <4>1. b \in segs /\ b # hi /\ prev[b] # 0 /\ prev'[b] = prev[b]
          BY <1>7, <1>10, <2>1, <3>2
        <4>2. PICK a : a = prev[b]
          OBVIOUS
        <4>3. a \in segs /\ End(a) = b /\ free[a]
          BY <1>1, <1>16, <4>1, <4>2 DEF BackLinks
        <4>4. a # lo /\ a # hi
          BY <1>1, <1>2, <1>3, <1>4, <3>2, <4>1, <4>3, SegmentTypes,
             ConstantTypes
        <4> QED BY <1>7, <1>11, <4>1, <4>2, <4>3, <4>4
      <3> QED BY <3>1, <3>2
    <2>2. ASSUME NEW b \in segs', prevFree'[b] # 0
          PROVE  \E a \in segs' : a = prevFree'[b] /\ End(a)' = b /\ free[a]
      <3>1. CASE b = n
        BY <1>1, <1>2, <1>4, <1>7, <1>9, <1>11, <2>2, <3>1,
           SegmentTypes, ConstantTypes
      <3>2. CASE b # n
        <4>1. b \in segs /\ b # hi /\ prevFree[b] # 0
              /\ prevFree'[b] = prevFree[b]
          BY <1>7, <1>10, <2>2, <3>2
        <4>2. PICK a : a = prevFree[b]
          OBVIOUS
        <4>3. a \in segs /\ End(a) = b /\ free[a]
          BY <1>1, <1>16, <4>1, <4>2 DEF BackLinks
        <4>4. a # lo /\ a # hi
          BY <1>1, <1>2, <1>3, <1>4, <3>2, <4>1, <4>3, SegmentTypes,
             ConstantTypes
        <4> QED BY <1>7, <1>11, <4>1, <4>2, <4>3, <4>4
      <3> QED BY <3>1, <3>2
    <2>3. ASSUME NEW a \in segs', NEW b \in segs', End(a)' = b, free[a]
          PROVE  prev'[b] = a /\ prevFree'[b] = a
      <3>1. CASE a = lo
        <4>1. b = n /\ n # 0
          BY <1>1, <1>3, <1>7, <1>11, <2>3, <3>1, SegmentTypes, ConstantTypes
        <4> QED BY <1>9, <3>1, <4>1
      <3>2. CASE a # lo
        <4>1. a \in segs /\ a # hi /\ b \in segs /\ b # hi /\ End(a) = b
          BY <1>7, <1>11, <2>3, <3>2
        <4>2. b # n
          BY <1>2, <1>3, <1>4, <1>12, <4>1, <1>1, SegmentTypes, ConstantTypes
        <4>3. prev[b] = a /\ prevFree[b] = a
          BY <1>1, <1>16, <2>3, <3>2, <4>1 DEF BackLinks
        <4> QED BY <1>10, <4>1, <4>2, <4>3
      <3> QED BY <3>1, <3>2
    <2>4. \A a \in segs' : (Known(a, Untold)' <=> free[a])
                           /\ (Known(a, Unlinked)' <=> free[a])
      BY <1>7, <1>16
    <2> QED BY <2>1, <2>2, <2>3, <2>4 DEF BackLinks
  <1>18. Merged'
    <2> SUFFICES ASSUME NEW a \in segs', NEW b \in segs', End(a)' = b,
                        free[a], free[b]
                 PROVE  b = cur' /\ pc' \in Unmerged
      BY DEF Merged
    <2>1. a # lo
      BY <1>1, <1>3, <1>4, <1>7, <1>11, <1>13, SegmentTypes, ConstantTypes
    <2>2. End(a) = b /\ a \in segs /\ b \in segs /\ b # hi
      BY <1>7, <1>11, <2>1
    <2>3. (a = cur /\ pc \in Untold) \/ (b = cur /\ pc \in Unmerged)
      BY <1>1, <2>2 DEF Merged
    <2> QED BY <2>1, <2>2, <2>3 DEF Untold, Unmerged
  <1>19. FreeEnds'
    BY <1>1, <1>2, <1>7, <1>11, SegmentTypes DEF FreeEnds
  <1>20. Locals'
    BY <1>1, <1>2, <1>7 DEF Locals, Unmerged, Untold
  <1> QED BY <1>14, <1>15, <1>17, <1>18, <1>19, <1>20 DEF WellFormed

\* After the merge with the next segment only the previous one may be free too.
LEMMA MergeNextWellFormed ==
    ASSUME TypeOK, WellFormed, MergeNext
    PROVE  WellFormed'
  <1> PICK n : n = next[cur]
    OBVIOUS
  <1>1. pc = "mergeNext" /\ pc \in Unmerged
    BY DEF MergeNext, Unmerged, Untold
  <1>2. Tiling /\ Owned /\ BackLinks /\ Merged /\ FreeEnds
    BY DEF WellFormed
  <1>3. /\ pc' = "mergePrev"
        /\ UNCHANGED <<free, first, cur, live>>
    BY DEF MergeNext
  <1>4. cur \in segs /\ free[cur] /\ cur \in Nat /\ cur # 0 /\ cur \in Legible
    BY <1>1, CurFacts
  <1>5. Locals' \/ segs' # segs
    BY <1>1, <1>3, <1>4 DEF Locals, Unmerged, Untold
  <1>6. CASE n = 0
    <2>1. UNCHANGED <<len, next, prev, nextFree, prevFree, segs>>
      BY <1>6 DEF MergeNext
    <2>2. \A a : End(a)' = End(a)
      BY <2>1 DEF End
    <2>3. End(cur) \notin segs
      BY <1>1, <1>6, CurFacts
    <2>4. Tiling' /\ Owned' /\ FreeEnds'
      BY <1>2, <1>3, <2>1, <2>2 DEF Tiling, Owned, FreeEnds, Legible
    <2>5. \A a : /\ Known(a, Untold)' <=> free[a]
                 /\ Known(a, Unlinked)' <=> free[a]
                 /\ Known(a, Untold) <=> free[a] /\ a # cur
                 /\ Known(a, Unlinked) <=> free[a]
      BY <1>1, <1>3 DEF Known, Untold, Unlinked
    <2>6. BackLinks'
      BY <1>2, <1>3, <2>1, <2>2, <2>3, <2>5 DEF BackLinks
    <2>7. Merged'
      BY <1>1, <1>2, <1>3, <2>1, <2>2, <2>3 DEF Merged, Untold, Unmerged
    <2> QED BY <1>5, <2>1, <2>4, <2>6, <2>7 DEF WellFormed
  <1>7. CASE n # 0 /\ ~ free[n]
    <2>1. n \in segs /\ n = End(cur) /\ n \in Legible
      BY <1>1, <1>7, CurFacts
    <2>2. /\ UNCHANGED <<len, next, nextFree, prevFree, segs>>
          /\ prev' = [prev EXCEPT ![n] = cur]
      BY <1>7 DEF MergeNext
    <2>3. /\ prev'[n] = cur
          /\ \A a \in segs : a # n => prev'[a] = prev[a]
      BY <1>2, <2>1, <2>2, SegmentTypes DEF TypeOK
    <2>4. \A a : End(a)' = End(a)
      BY <2>2 DEF End
    <2>5. Tiling' /\ Owned' /\ FreeEnds'
      BY <1>2, <1>3, <2>2, <2>4 DEF Tiling, Owned, FreeEnds, Legible
    <2>6. \A a : /\ Known(a, Untold)' <=> free[a]
                 /\ Known(a, Unlinked)' <=> free[a]
                 /\ Known(a, Untold) <=> free[a] /\ a # cur
                 /\ Known(a, Unlinked) <=> free[a]
      BY <1>1, <1>3 DEF Known, Untold, Unlinked
    <2>7. BackLinks'
      <3>1. ASSUME NEW b \in segs', prev'[b] # 0
            PROVE  prev'[b] \in segs' /\ End(prev'[b]) = b /\ free[prev'[b]]
        BY <1>2, <1>4, <2>1, <2>2, <2>3, <2>6, <3>1 DEF BackLinks
      <3>2. ASSUME NEW a \in segs', NEW b \in segs', End(a) = b, free[a]
            PROVE  prev'[b] = a /\ prevFree'[b] = a
        <4>1. a = cur <=> b = n
          BY <1>2, <1>4, <2>1, <2>2, <3>2, OnePredecessor
        <4> QED BY <1>2, <2>2, <2>3, <2>6, <3>2, <4>1 DEF BackLinks
      <3> QED BY <1>2, <2>2, <2>4, <2>6, <3>1, <3>2 DEF BackLinks
    <2>8. Merged'
      BY <1>1, <1>2, <1>3, <1>7, <2>1, <2>2, <2>4
         DEF Merged, Untold, Unmerged
    <2> QED BY <1>5, <2>2, <2>5, <2>7, <2>8 DEF WellFormed
  <1>8. CASE n # 0 /\ free[n]
    <2>1. n \in segs /\ n = End(cur)
      BY <1>1, <1>8, CurFacts
    <2> PICK pv : pv = [prev EXCEPT ![n] = cur]
      OBVIOUS
    <2>2. Combine(cur, n, next, pv)
      BY <1>8 DEF MergeNext
    <2>3. pv \in [Legible -> Int] /\ \A a \in segs : a # n => pv[a] = prev[a]
      BY <1>2, <1>4, SegmentTypes, Update DEF TypeOK
    <2> QED BY <1>1, <1>3, <1>4, <1>8, <2>1, <2>2, <2>3, CombineWellFormed
  <1> QED BY <1>6, <1>7, <1>8

\* After the merge with the previous segment the heap is at rest again.
LEMMA MergePrevWellFormed ==
    ASSUME TypeOK, WellFormed, MergePrev
    PROVE  WellFormed'
  <1> PICK v : v = prev[cur]
    OBVIOUS
  <1>1. pc = "mergePrev" /\ pc \in Unmerged
    BY DEF MergePrev, Unmerged, Untold
  <1>2. Tiling /\ Owned /\ BackLinks /\ Merged /\ FreeEnds
    BY DEF WellFormed
  <1>3. /\ pc' = "idle"
        /\ UNCHANGED <<free, first, live>>
    BY DEF MergePrev
  <1>4. cur \in segs /\ free[cur] /\ cur \in Nat /\ cur \in Legible
    BY <1>1, CurFacts
  <1>5. CASE v = 0
    <2>1. UNCHANGED <<len, next, prev, nextFree, prevFree, segs>>
      BY <1>5 DEF MergePrev
    <2>2. \A a : End(a)' = End(a)
      BY <2>1 DEF End
    <2>3. Tiling' /\ Owned' /\ FreeEnds'
      BY <1>2, <1>3, <2>1, <2>2 DEF Tiling, Owned, FreeEnds, Legible
    <2>4. \A a : /\ Known(a, Untold)' <=> free[a]
                 /\ Known(a, Unlinked)' <=> free[a]
                 /\ Known(a, Untold) <=> free[a]
                 /\ Known(a, Unlinked) <=> free[a]
      BY <1>1, <1>3 DEF Known, Untold, Unlinked
    <2>5. BackLinks'
      BY <1>2, <2>1, <2>2, <2>4 DEF BackLinks
    <2>6. Merged'
      <3> SUFFICES ASSUME NEW a \in segs, NEW b \in segs, End(a) = b,
                          free[a], free[b]
                   PROVE  FALSE
        BY <1>3, <2>1, <2>2 DEF Merged
      <3>1. b = cur
        BY <1>1, <1>2 DEF Merged, Untold
      <3>2. prev[cur] = a
        BY <1>2, <2>4, <3>1 DEF BackLinks
      <3>3. Base <= a /\ a \in Nat
        BY <1>2, SegmentTypes
      <3>4. a = 0
        BY <1>5, <3>2
      <3> QED BY <3>3, <3>4, ConstantTypes
    <2>7. Locals'
      BY <1>3 DEF Locals, Unmerged, Untold
    <2> QED BY <2>3, <2>5, <2>6, <2>7 DEF WellFormed
  <1>6. CASE v # 0
    <2>1. v \in segs /\ End(v) = cur /\ free[v] /\ v < cur /\ v \in Legible
      BY <1>1, <1>2, <1>6, CurFacts, SegmentTypes
    <2>2. cur # Top
      BY <1>2, <1>4, SegmentTypes, ConstantTypes
    <2>3. next[v] = cur
      BY <1>2, <2>1, <2>2 DEF Tiling
    <2>4. [next EXCEPT ![v] = cur] = next
      BY <2>1, <2>3 DEF TypeOK
    <2>5. Combine(cur, v, next, prev)
      BY <1>6, <2>1, <2>4 DEF MergePrev
    <2>6. Combine(v, cur, next, prev)
      <3>1. v \in Nat
        BY <1>2, <2>1, SegmentTypes
      <3>2. /\ Lower(cur, v) = v /\ Lower(v, cur) = v
            /\ Higher(cur, v) = cur /\ Higher(v, cur) = cur
        BY <1>4, <2>1, <3>1 DEF Lower, Higher
      <3> QED BY <2>5, <3>2 DEF Combine
    <2>7. prev \in [Legible -> Int]
      BY DEF TypeOK
    <2> QED BY <1>1, <1>3, <1>4, <2>1, <2>6, <2>7, CombineWellFormed
  <1> QED BY <1>5, <1>6

\* Whatever the next statement follows is a header.
LEMMA NoStepFaults == TypeOK /\ WellFormed => ~ Fault
  <1> SUFFICES ASSUME TypeOK, WellFormed, Fault PROVE FALSE
    OBVIOUS
  <1>1. Tiling /\ Owned
    BY DEF WellFormed
  <1>2. 0 \in Legible
    BY DEF TypeOK
  <1>3. CASE pc = "search" /\ ~ SearchReads \subseteq Legible
    <2>1. cur = first /\ Compact /\ first \in segs
      BY <1>3 DEF WellFormed, Locals, FreeEnds
    <2>2. Linkers(cur) = {}
      BY <1>3, <2>1, FirstIsTail DEF Linkers
    <2>3. cur \in Legible
      BY <1>1, <2>1, SegmentTypes
    <2> QED BY <1>3, <2>2, <2>3 DEF SearchReads
  <1>4. CASE pc = "free" /\ old - Hdr \notin Legible
    BY <1>1, <1>4 DEF WellFormed, Locals, Owned, Tiling
  <1>5. CASE pc = "linkNextFree" /\ nextFree[cur] \notin Legible
    BY <1>2, <1>5, CurFacts DEF Unmerged, Untold
  <1>6. CASE pc = "linkPrevFree" /\ prevFree[cur] \notin Legible
    BY <1>1, <1>2, <1>6, CurFacts, SegmentTypes DEF Unmerged, Untold
  <1>7. CASE pc = "mergeNext" /\ ~ MergeNextReads \subseteq Legible
    <2>1. /\ cur \in Nat /\ next[cur] \in Legible
          /\ next[cur] # 0 => next[cur] \in segs /\ cur < next[cur]
      BY <1>2, <1>7, CurFacts DEF Unmerged, Untold
    <2>2. ASSUME next[cur] # 0
          PROVE  CombineReads(cur, next[cur], next) \subseteq Legible
      <3>1. Higher(cur, next[cur]) = next[cur]
        BY <1>1, <2>1, <2>2, SegmentTypes DEF Higher
      <3>2. \A a \in segs : next[a] \in Legible /\ nextFree[a] \in Legible
        BY <1>1, <1>2 DEF Tiling
      <3> QED BY <2>1, <2>2, <3>1, <3>2 DEF CombineReads
    <2> QED BY <1>7, <2>1, <2>2 DEF MergeNextReads
  <1>8. CASE pc = "mergePrev" /\ ~ MergePrevReads \subseteq Legible
    <2> PICK v : v = prev[cur]
      OBVIOUS
    <2>1. /\ cur \in segs /\ cur \in Nat
          /\ v # 0 => v \in segs /\ v < cur
      BY <1>8, CurFacts DEF Unmerged, Untold
    <2>2. v \in Legible
      BY <1>1, <1>2, <2>1, SegmentTypes
    <2> PICK nx : nx = [next EXCEPT ![v] = cur]
      OBVIOUS
    <2>3. ASSUME v # 0
          PROVE  CombineReads(cur, v, nx) \subseteq Legible
      <3>1. Higher(cur, v) = cur
        BY <1>1, <2>1, <2>3, SegmentTypes DEF Higher
      <3>2. \A a \in segs : next[a] \in Legible /\ nextFree[a] \in Legible
        BY <1>1, <1>2 DEF Tiling
      <3>3. v # cur /\ cur \in Legible
        BY <1>1, <2>1, <2>3, SegmentTypes
      <3>4. nx[cur] = next[cur]
        BY <3>3 DEF TypeOK
      <3> QED BY <2>1, <3>1, <3>2, <3>4 DEF CombineReads
    <2> QED BY <1>8, <2>2, <2>3 DEF MergePrevReads
  <1> QED BY <1>3, <1>4, <1>5, <1>6, <1>7, <1>8 DEF Fault

\* HeapInv is inductive for the compact client.
LEMMA StepHeapInv == TypeOK /\ HeapInv /\ [CompactNext]_vars => HeapInv'
  <1> SUFFICES ASSUME TypeOK, HeapInv, [CompactNext]_vars, ~ exhausted'
               PROVE  WellFormed'
    BY DEF HeapInv
  <1>1. ~ exhausted
    BY DEF CompactNext, Allocate, Internal, Kmalloc, Kcalloc, Krealloc,
           BeginSearch, Kfree, SearchTake, SearchNext, Release, LinkNextFree,
           LinkPrevFree, MergeNext, MergePrev, Fault, vars
  <1>2. WellFormed
    BY <1>1 DEF HeapInv
  <1>3. CASE Compact /\ Allocate
    <2>1. ASSUME NEW n \in Sizes, Kmalloc(n) PROVE WellFormed'
      BY <1>2, <1>3, <2>1, BeginSearchWellFormed DEF Kmalloc, Requests
    <2>2. ASSUME NEW k \in Counts, NEW n \in Sizes, Kcalloc(k, n)
          PROVE  WellFormed'
      BY <1>2, <1>3, <2>2, BeginSearchWellFormed DEF Kcalloc, Requests
    <2> QED BY <1>3, <2>1, <2>2 DEF Allocate
  <1>4. ASSUME Compact, NEW p \in DOMAIN live, NEW n \in Sizes, Krealloc(p, n)
        PROVE  WellFormed'
    <2>1. n \in Requests
      BY DEF Requests
    <2> QED BY <1>2, <1>4, <2>1, BeginSearchWellFormed DEF Krealloc
  <1>5. ASSUME NEW p \in DOMAIN live, Kfree(p) PROVE WellFormed'
    BY <1>2, <1>5, KfreeWellFormed
  <1>6. CASE SearchTake
    BY <1>2, <1>6, SearchTakeWellFormed
  <1>7. CASE SearchNext
    BY <1>7 DEF SearchNext
  <1>8. CASE Release
    BY <1>2, <1>8, ReleaseWellFormed
  <1>9. CASE LinkNextFree
    BY <1>2, <1>9, LinkNextFreeWellFormed
  <1>10. CASE LinkPrevFree
    BY <1>2, <1>10, LinkPrevFreeWellFormed
  <1>11. CASE MergeNext
    BY <1>2, <1>11, MergeNextWellFormed
  <1>12. CASE MergePrev
    BY <1>2, <1>12, MergePrevWellFormed
  <1>13. CASE Fault
    BY <1>2, <1>13, NoStepFaults
  <1>14. CASE UNCHANGED vars
    <2>1. UNCHANGED <<len, next, prev, nextFree, prevFree, free, first, pc, cur,
                      size, old, live, segs>>
      BY <1>14 DEF vars, header
    <2> QED BY <1>2, <2>1 DEF WellFormed, Tiling, Owned, BackLinks, Merged,
               FreeEnds, Locals, Known, End, Legible, Compact,
               Untold, Unmerged, Unlinked
  <1> QED BY <1>3, <1>4, <1>5, <1>6, <1>7, <1>8, <1>9, <1>10, <1>11, <1>12,
             <1>13, <1>14 DEF CompactNext, Internal

\* The compact client is a client: what holds of Spec's steps holds of its own.
LEMMA CompactIsClient == [CompactNext]_vars => [Next]_vars
  BY DEF CompactNext, Next

\* For a client that keeps the heap compact, the header list describes the
\* heap at every step of kmalloc and kfree until a search runs past it.
THEOREM HeapInvariant == CompactSpec => [](TypeOK /\ HeapInv)
  <1>1. Init => TypeOK /\ HeapInv
    BY InitTypeOK, InitHeapInv
  <1>2. TypeOK /\ HeapInv /\ [CompactNext]_vars => (TypeOK /\ HeapInv)'
    BY StepTypeOK, StepHeapInv, CompactIsClient
  <1> QED BY <1>1, <1>2, PTL DEF CompactSpec

-----------------------------------------------------------------------------
(***************************************************************************)
(* What the invariant is for.                                              *)
(***************************************************************************)
\* Blocks never overlap each other, a live header or the end of the region.
THEOREM BlocksStayApart == CompactSpec => []BlocksApart
  <1>1. TypeOK /\ HeapInv => BlocksApart
    <2> SUFFICES ASSUME TypeOK, WellFormed, NEW p \in DOMAIN live
                 PROVE  /\ Base + Hdr <= p /\ p + live[p] + Hdr <= Top
                        /\ \A q \in DOMAIN live :
                             p < q => p + live[p] + Hdr <= q
                        /\ first + Hdr <= p \/ p + live[p] <= first
      BY DEF HeapInv, BlocksApart
    <2>1. Tiling /\ Owned /\ FreeEnds
      BY DEF WellFormed
    <2> PICK c : c = p - Hdr
      OBVIOUS
    <2>2. /\ p \in Nat /\ c \in segs /\ len[c] = live[p] /\ p = c + Hdr
          /\ ~ free[c] /\ c \in Nat /\ live[p] \in Nat
      <3>1. p \in Nat
        BY DEF TypeOK
      <3>2. c \in segs /\ len[c] = live[p] /\ p = c + Hdr
        BY <2>1, <3>1, ConstantTypes DEF Owned
      <3>3. ~ free[c]
        BY <2>1, <3>2 DEF Owned
      <3> QED BY <2>1, <3>1, <3>2, <3>3, SegmentTypes
    <2>3. End(c) = p + live[p]
      BY <2>2 DEF End
    <2>4. Base + Hdr <= p
      BY <2>1, <2>2, SegmentTypes, ConstantTypes
    <2>5. p + live[p] + Hdr <= Top
      <3>1. End(c) \in segs
        BY <2>1, <2>2 DEF Tiling, FreeEnds
      <3>2. End(c) + Hdr <= End(End(c)) /\ End(End(c)) <= Top
            /\ End(c) \in Nat /\ End(End(c)) \in Nat
        BY <2>1, <3>1, SegmentTypes
      <3> QED BY <2>2, <2>3, <3>2, ConstantTypes
    <2>6. ASSUME NEW q \in DOMAIN live, p < q PROVE p + live[p] + Hdr <= q
      <3> PICK d : d = q - Hdr
        OBVIOUS
      <3>1. q \in Nat /\ d \in segs /\ q = d + Hdr /\ d \in Nat
        BY <2>1, ConstantTypes, SegmentTypes DEF TypeOK, Owned
      <3>2. c < d
        BY <2>2, <2>6, <3>1, ConstantTypes
      <3>3. End(c) <= d
        BY <2>1, <2>2, <3>1, <3>2 DEF Tiling
      <3> QED BY <2>2, <2>3, <3>1, <3>3, ConstantTypes
    <2>7. first + Hdr <= p \/ p + live[p] <= first
      <3>1. first \in segs /\ first # c /\ first \in Nat
        BY <2>1, <2>2, SegmentTypes DEF FreeEnds
      <3>2. CASE c < first
        BY <2>1, <2>2, <2>3, <3>1, <3>2 DEF Tiling
      <3>3. CASE first < c
        BY <2>1, <2>2, <3>1, <3>3, ConstantTypes
      <3> QED BY <2>2, <3>1, <3>2, <3>3
    <2> QED BY <2>4, <2>5, <2>6, <2>7
  <1> QED BY <1>1, HeapInvariant, PTL

\* kmalloc and kfree only ever follow pointers to headers.
THEOREM NeverFaults == CompactSpec => []NoFault
  <1>1. TypeOK /\ HeapInv => NoFault
    BY DEF HeapInv, NoFault, WellFormed, Locals, Unmerged, Untold
  <1> QED BY <1>1, HeapInvariant, PTL

\* A heap whose blocks have all been freed, in any order, is as good as new.
THEOREM EmptyHeapCoalesced == CompactSpec => []Coalesced
  <1>1. TypeOK /\ HeapInv => Coalesced
    <2> SUFFICES ASSUME TypeOK, WellFormed, pc = "idle", DOMAIN live = {}
                 PROVE  /\ first = Base /\ free[Base]
                        /\ len[Base] = Length - Hdr
                        /\ next[Base] = 0 /\ prev[Base] = 0
                        /\ nextFree[Base] = 0 /\ prevFree[Base] = 0
      BY DEF HeapInv, Coalesced
    <2>1. Tiling /\ Owned /\ BackLinks /\ Merged /\ FreeEnds
      BY DEF WellFormed
    <2>2. Base \in segs /\ \A a \in segs : free[a]
      BY <2>1 DEF Tiling, Owned
    <2>3. first = Base
      BY <2>1, <2>2, SegmentTypes, ConstantTypes DEF FreeEnds
    <2>4. End(Base) = Top
      BY <2>1, <2>2 DEF Tiling, Merged, Untold, Unmerged
    <2>5. len[Base] = Length - Hdr
      BY <2>1, <2>2, <2>4, SegmentTypes, ConstantTypes DEF End
    <2>6. next[Base] = 0 /\ nextFree[Base] = 0
      BY <2>1, <2>2, <2>4 DEF Tiling
    <2>7. prev[Base] = 0
      <3> SUFFICES ASSUME prev[Base] # 0 PROVE FALSE
        OBVIOUS
      <3>1. prev[Base] \in segs /\ End(prev[Base]) = Base
        BY <2>1, <2>2 DEF BackLinks
      <3> QED BY <2>1, <3>1, SegmentTypes, ConstantTypes
    <2>8. prevFree[Base] = 0
      <3> SUFFICES ASSUME prevFree[Base] # 0 PROVE FALSE
        OBVIOUS
      <3>1. prevFree[Base] \in segs /\ End(prevFree[Base]) = Base
        BY <2>1, <2>2 DEF BackLinks
      <3> QED BY <2>1, <3>1, SegmentTypes, ConstantTypes
    <2> QED BY <2>2, <2>3, <2>5, <2>6, <2>7, <2>8
  <1> QED BY <1>1, HeapInvariant, PTL

-----------------------------------------------------------------------------
(***************************************************************************)
(* Refinement.                                                             *)
(***************************************************************************)
\* The split is the abstract Allocate.
LEMMA SearchTakeAllocates ==
    ASSUME TypeOK, WellFormed, ~ exhausted, SearchTake
    PROVE  Abstract!Next
  <1> PICK p : p = cur + Hdr
    OBVIOUS
  <1>1. /\ pc = "search" /\ cur = first /\ Compact /\ first \in segs
        /\ size + Hdr < Word /\ size \in Nat /\ first \in Nat
    BY DEF SearchTake, WellFormed, Locals, FreeEnds, TypeOK
  <1>2. Tiling /\ Owned
    BY DEF WellFormed
  <1>3. End(first) = Top /\ \A a \in segs : a <= first
    BY <1>1, FirstIsTail
  <1>4. len[first] > size + Hdr
    BY <1>1, ConstantTypes DEF SearchTake, Fits, Add
  <1>5. Base + Hdr <= p /\ p + size + Hdr <= Top /\ p \in Nat
    BY <1>1, <1>2, <1>3, <1>4, SegmentTypes, ConstantTypes DEF End
  <1>6. ASSUME NEW q \in DOMAIN live PROVE q + live[q] + Hdr <= p
    <2> PICK d : d = q - Hdr
      OBVIOUS
    <2>1. /\ q \in Nat /\ d \in segs /\ q = d + Hdr /\ d \in Nat
          /\ len[d] = live[q] /\ ~ free[d] /\ live[q] \in Nat
      <3>1. q \in Nat /\ live[q] \in Nat
        BY DEF TypeOK
      <3>2. d \in segs /\ len[d] = live[q] /\ q = d + Hdr
        BY <1>2, <3>1, ConstantTypes DEF Owned
      <3> QED BY <1>2, <3>1, <3>2, SegmentTypes DEF Owned
    <2>2. d < first
      BY <1>1, <1>3, <2>1 DEF WellFormed, FreeEnds
    <2>3. End(d) <= first
      BY <1>1, <1>2, <2>1, <2>2 DEF Tiling
    <2> QED BY <1>1, <2>1, <2>3, ConstantTypes DEF End
  <1>7. /\ live' = [q \in DOMAIN live \cup {p} |->
                      IF q = p THEN size ELSE live[q]]
        /\ pc' # "search" /\ exhausted' = exhausted
    BY DEF SearchTake
  <1>8. Abstract!Allocate(p)
    BY <1>1, <1>5, <1>6, <1>7, ConstantTypes
       DEF Abstract!Allocate, Abstract!Room
  <1>9. p \in Base .. (Base + Length)
    BY <1>1, <1>5, ConstantTypes
  <1> QED BY <1>8, <1>9 DEF Abstract!Next

\* Running past the list is the abstract GiveUp: the request does not fit.
LEMMA SearchNextGivesUp ==
    ASSUME TypeOK, WellFormed, ~ exhausted, SearchNext
    PROVE  Abstract!Next
  <1>1. /\ pc = "search" /\ cur = first /\ Compact /\ first \in segs
        /\ size + Hdr < Word /\ size \in Nat /\ first \in Nat
    BY DEF SearchNext, WellFormed, Locals, FreeEnds, TypeOK
  <1>2. Tiling /\ Owned
    BY DEF WellFormed
  <1>3. End(first) = Top /\ (\A a \in segs : a <= first)
        /\ \A a \in segs : free[a] => a = first
    BY <1>1, FirstIsTail
  <1>4. len[first] <= size + Hdr
    BY <1>1, <1>2, SegmentTypes, ConstantTypes DEF SearchNext, Fits, Add
  <1>5. first + Hdr + size + Hdr >= Base + Length
    BY <1>1, <1>2, <1>3, <1>4, SegmentTypes, ConstantTypes DEF End
  <1>6. first \in {Base} \cup {p + live[p] : p \in DOMAIN live}
    <2> SUFFICES ASSUME first # Base
                 PROVE  \E p \in DOMAIN live : first = p + live[p]
      OBVIOUS
    <2>1. PICK a \in segs : End(a) = first
      BY <1>1, <1>2 DEF Tiling
    <2>2. a # first /\ a \in Nat
      BY <1>2, <2>1, SegmentTypes
    <2>3. a + Hdr \in DOMAIN live
      BY <1>2, <1>3, <2>2 DEF Owned
    <2>4. (a + Hdr) - Hdr = a
      BY <2>2, ConstantTypes
    <2>5. live[a + Hdr] = len[a]
      BY <1>2, <2>3, <2>4 DEF Owned
    <2> QED BY <2>1, <2>3, <2>5 DEF End
  <1>7. ASSUME NEW p \in DOMAIN live PROVE p + live[p] <= first
    <2> PICK d : d = p - Hdr
      OBVIOUS
    <2>1. /\ d \in segs /\ p = d + Hdr /\ len[d] = live[p] /\ ~ free[d]
      <3>1. p \in Nat
        BY DEF TypeOK
      <3>2. d \in segs /\ len[d] = live[p] /\ p = d + Hdr
        BY <1>2, <3>1, ConstantTypes DEF Owned
      <3> QED BY <1>2, <3>1, <3>2 DEF Owned
    <2>2. d < first
      BY <1>1, <1>2, <1>3, <2>1, SegmentTypes DEF WellFormed, FreeEnds
    <2>3. End(d) <= first
      BY <1>1, <1>2, <2>1, <2>2 DEF Tiling
    <2> QED BY <2>1, <2>3 DEF End
  <1>8. Base <= first
    BY <1>1, <1>2, SegmentTypes
  <1>9. exhausted' = TRUE /\ size # -1
    BY <1>1 DEF SearchNext
  <1>10. Abstract!GiveUp
    BY <1>1, <1>5, <1>6, <1>7, <1>8, <1>9 DEF Abstract!GiveUp, Abstract!Ends
  <1> QED BY <1>10 DEF Abstract!Next

\* Releasing a block is the abstract Free.
LEMMA ReleaseFrees ==
    ASSUME WellFormed, ~ exhausted, Release
    PROVE  Abstract!Next
  <1>1. /\ pc = "free" /\ old \in DOMAIN live /\ pc' = "linkNextFree"
        /\ live' = [q \in DOMAIN live \ {old} |-> live[q]]
        /\ exhausted' = exhausted
    BY DEF Release, WellFormed, Locals
  <1>2. Abstract!Free(old)
    BY <1>1 DEF Abstract!Free
  <1> QED BY <1>1, <1>2 DEF Abstract!Next

\* Entering kmalloc is the abstract Request.
LEMMA BeginSearchRequests ==
    ASSUME ~ exhausted, NEW n \in Requests, NEW p, BeginSearch(n, p)
    PROVE  Abstract!Next
  <1>1. /\ pc = "idle" /\ pc' = "search" /\ size' = RoundUp(n)
        /\ live' = live /\ exhausted' = exhausted
    BY DEF BeginSearch
  <1>2. Abstract!Request(RoundUp(n))
    BY <1>1 DEF Abstract!Request
  <1> QED BY <1>2 DEF Abstract!Next

\* The heap is an allocator: every step of kmalloc and kfree is a step the
\* abstract specification allows, or none of its business.
THEOREM ImplementsAllocator == CompactSpec => AllocatorSpec
  <1>1. Init => Abstract!Init
    BY DEF Init, Abstract!Init
  <1>2. TypeOK /\ HeapInv /\ [CompactNext]_vars
          => [Abstract!Next]_(Abstract!vars)
    <2> SUFFICES ASSUME TypeOK, HeapInv, [CompactNext]_vars,
                        ~ UNCHANGED Abstract!vars
                 PROVE  Abstract!Next
      OBVIOUS
    <2>1. CASE exhausted
      <3>1. exhausted' = exhausted
        BY <2>1 DEF CompactNext, Allocate, Internal, Kmalloc, Kcalloc, Krealloc,
               BeginSearch, Kfree, SearchTake, SearchNext, Release,
               LinkNextFree, LinkPrevFree, MergeNext, MergePrev, Fault, vars,
               TypeOK
      <3> QED BY <2>1, <3>1 DEF Abstract!vars
    <2>2. CASE ~ exhausted
      <3>1. WellFormed
        BY <2>2 DEF HeapInv
      <3>2. CASE Allocate
        <4>1. ASSUME NEW n \in Sizes, Kmalloc(n) PROVE Abstract!Next
          BY <2>2, <4>1, BeginSearchRequests DEF Kmalloc, Requests
        <4>2. ASSUME NEW k \in Counts, NEW n \in Sizes, Kcalloc(k, n)
              PROVE  Abstract!Next
          BY <2>2, <4>2, BeginSearchRequests DEF Kcalloc, Requests
        <4> QED BY <3>2, <4>1, <4>2 DEF Allocate
      <3>3. ASSUME NEW p \in DOMAIN live, NEW n \in Sizes, Krealloc(p, n)
            PROVE  Abstract!Next
        BY <2>2, <3>3, BeginSearchRequests DEF Krealloc, Requests
      <3>4. CASE SearchTake
        BY <2>2, <3>1, <3>4, SearchTakeAllocates
      <3>5. CASE SearchNext
        BY <2>2, <3>1, <3>5, SearchNextGivesUp
      <3>6. CASE Release
        BY <2>2, <3>1, <3>6, ReleaseFrees
      <3>7. CASE \E p \in DOMAIN live : Kfree(p)
        BY <2>2, <3>7 DEF Kfree, Abstract!vars
      <3>8. CASE LinkNextFree \/ LinkPrevFree \/ MergeNext \/ MergePrev
        BY <2>2, <3>8 DEF LinkNextFree, LinkPrevFree, MergeNext, MergePrev,
                          Abstract!vars
      <3>9. CASE Fault
        BY <3>1, <3>9, NoStepFaults
      <3>10. CASE UNCHANGED vars
        BY <3>10 DEF vars, Abstract!vars
      <3> QED BY <3>2, <3>3, <3>4, <3>5, <3>6, <3>7, <3>8, <3>9, <3>10
              DEF CompactNext, Internal
    <2> QED BY <2>1, <2>2
  <1> QED BY <1>1, <1>2, HeapInvariant, PTL
          DEF CompactSpec, AllocatorSpec, Abstract!Spec

-----------------------------------------------------------------------------
(***************************************************************************)
(* kmalloc's fifteen statements: the heap after k of them, field by field. *)
(***************************************************************************)
\* The addresses where a header is legible while the segment is cut.
Kept == {a \in Legible : a <= cur \/ a >= New + Hdr} \cup {New}

\* A field of the headers before the first statement.
Before(f) == [a \in Kept |-> IF a \in Legible THEN f[a] ELSE 0]

\* a is the neighbour b, which is told something unless it is null.
Told(a, b) == a = b /\ b # 0

LenAfter(k) ==
    [a \in Kept |-> IF a = cur /\ k >= 9 THEN size
                    ELSE IF a = New /\ k >= 2 THEN len[cur] - (Hdr + size)
                    ELSE Before(len)[a]]
NextAfter(k) ==
    [a \in Kept |-> IF a = cur /\ k >= 8 THEN New
                    ELSE IF a = New /\ k >= 4 THEN next[cur]
                    ELSE Before(next)[a]]
PrevAfter(k) ==
    [a \in Kept |-> IF a = New /\ k >= 6 THEN prev[cur] ELSE Before(prev)[a]]
NextFreeAfter(k) ==
    [a \in Kept |-> IF \/ a = cur /\ k >= 7
                       \/ Told(a, prevFree[cur]) /\ k >= 12
                       \/ Told(a, prev[cur]) /\ k >= 14
                    THEN New
                    ELSE IF a = New /\ k >= 3 THEN nextFree[cur]
                    ELSE Before(nextFree)[a]]
PrevFreeAfter(k) ==
    [a \in Kept |-> IF a = New /\ k >= 5 THEN prevFree[cur] ELSE Before(prevFree)[a]]
FreeAfter(k) ==
    [a \in Kept |-> IF a = cur /\ k >= 11 THEN FALSE
                    ELSE IF a = New /\ k >= 1 THEN TRUE
                    ELSE a \in Legible /\ free[a]]
FirstAfter(k) == IF cur = first /\ k >= 10 THEN New ELSE first

\* A heap from its fields.
HeapOf(l, n, p, nf, pf, fr, f) ==
    [len |-> l, next |-> n, prev |-> p, nextFree |-> nf, prevFree |-> pf,
     free |-> fr, first |-> f]

Done(k) == HeapOf(LenAfter(k), NextAfter(k), PrevAfter(k), NextFreeAfter(k),
                  PrevFreeAfter(k), FreeAfter(k), FirstAfter(k))

\* What the proofs need to know of the segment that is cut.
CutHere == cur \in Kept /\ cur \in Legible /\ New \in Kept /\ cur # New

LEMMA NoneDone == Done(0) = Start
<1>1. /\ LenAfter(0) = Before(len) /\ NextAfter(0) = Before(next)
      /\ PrevAfter(0) = Before(prev) /\ NextFreeAfter(0) = Before(nextFree)
      /\ PrevFreeAfter(0) = Before(prevFree)
      /\ FirstAfter(0) = first
  BY DEF LenAfter, NextAfter, PrevAfter, NextFreeAfter, PrevFreeAfter,
         FirstAfter, Before
<1>2. FreeAfter(0) = [a \in Kept |-> a \in Legible /\ free[a]]
  BY DEF FreeAfter
<1> QED BY Zenon, <1>1, <1>2 DEF Done, HeapOf, Start, Before, Kept

\* The fields of a heap.
LEMMA Fields ==
  ASSUME NEW l, NEW n, NEW p, NEW nf, NEW pf, NEW fr, NEW f
  PROVE  /\ HeapOf(l, n, p, nf, pf, fr, f).len = l
         /\ HeapOf(l, n, p, nf, pf, fr, f).next = n
         /\ HeapOf(l, n, p, nf, pf, fr, f).prev = p
         /\ HeapOf(l, n, p, nf, pf, fr, f).nextFree = nf
         /\ HeapOf(l, n, p, nf, pf, fr, f).prevFree = pf
         /\ HeapOf(l, n, p, nf, pf, fr, f).free = fr
         /\ HeapOf(l, n, p, nf, pf, fr, f).first = f
  BY DEF HeapOf

\* The fields of the heap after k statements.
LEMMA DoneFields ==
  ASSUME NEW k
  PROVE  /\ Done(k).len = LenAfter(k) /\ Done(k).next = NextAfter(k)
         /\ Done(k).prev = PrevAfter(k) /\ Done(k).nextFree = NextFreeAfter(k)
         /\ Done(k).prevFree = PrevFreeAfter(k) /\ Done(k).free = FreeAfter(k)
         /\ Done(k).first = FirstAfter(k)
  BY Fields DEF Done

\* Which fields a statement leaves alone.
LEMMA OthersStay ==
  ASSUME NEW k \in 1..15
  PROVE  /\ k \notin {2, 9} => LenAfter(k) = LenAfter(k - 1)
         /\ k \notin {4, 8} => NextAfter(k) = NextAfter(k - 1)
         /\ k # 6 => PrevAfter(k) = PrevAfter(k - 1)
         /\ k \notin {3, 7, 12, 14} => NextFreeAfter(k) = NextFreeAfter(k - 1)
         /\ k # 5 => PrevFreeAfter(k) = PrevFreeAfter(k - 1)
         /\ k \notin {1, 11} => FreeAfter(k) = FreeAfter(k - 1)
         /\ k # 10 => FirstAfter(k) = FirstAfter(k - 1)
<1>1. k \notin {2, 9} => LenAfter(k) = LenAfter(k - 1)
  BY DEF LenAfter
<1>2. k \notin {4, 8} => NextAfter(k) = NextAfter(k - 1)
  BY DEF NextAfter
<1>3. k # 6 => PrevAfter(k) = PrevAfter(k - 1)
  BY DEF PrevAfter
<1>4. k \notin {3, 7, 12, 14} => NextFreeAfter(k) = NextFreeAfter(k - 1)
  BY DEF NextFreeAfter
<1>5. k # 5 => PrevFreeAfter(k) = PrevFreeAfter(k - 1)
  BY DEF PrevFreeAfter
<1>6. k \notin {1, 11} => FreeAfter(k) = FreeAfter(k - 1)
  <2>1. k \notin {1, 11} => (k >= 1 <=> k - 1 >= 1) /\ (k >= 11 <=> k - 1 >= 11)
    OBVIOUS
  <2> QED BY Zenon, <2>1 DEF FreeAfter
<1>7. k # 10 => FirstAfter(k) = FirstAfter(k - 1)
  BY DEF FirstAfter
<1> QED BY Zenon, <1>1, <1>2, <1>3, <1>4, <1>5, <1>6, <1>7

\* g is f but for its value at x.
LEMMA OneValue ==
  ASSUME NEW S, NEW f, f = [a \in S |-> f[a]], NEW g, g = [a \in S |-> g[a]],
         NEW x \in S, NEW v, g[x] = v, \A a \in S : a # x => g[a] = f[a]
  PROVE  g = [f EXCEPT ![x] = v]
  OBVIOUS

\* Each field is a function of the legible addresses.
LEMMA FieldsAre ==
  ASSUME NEW k
  PROVE  /\ LenAfter(k) = [a \in Kept |-> LenAfter(k)[a]]
         /\ NextAfter(k) = [a \in Kept |-> NextAfter(k)[a]]
         /\ PrevAfter(k) = [a \in Kept |-> PrevAfter(k)[a]]
         /\ NextFreeAfter(k) = [a \in Kept |-> NextFreeAfter(k)[a]]
         /\ PrevFreeAfter(k) = [a \in Kept |-> PrevFreeAfter(k)[a]]
         /\ FreeAfter(k) = [a \in Kept |-> FreeAfter(k)[a]]
  BY Zenon DEF LenAfter, NextAfter, PrevAfter, NextFreeAfter, PrevFreeAfter, FreeAfter

\* What a statement changes.
LEMMA Written ==
  ASSUME CutHere
  PROVE  /\ FreeAfter(1) = [FreeAfter(0) EXCEPT ![New] = TRUE]
         /\ LenAfter(2) = [LenAfter(1) EXCEPT ![New] = LenAfter(1)[cur] - (Hdr + size)]
         /\ NextFreeAfter(3) = [NextFreeAfter(2) EXCEPT ![New] = NextFreeAfter(2)[cur]]
         /\ NextAfter(4) = [NextAfter(3) EXCEPT ![New] = NextAfter(3)[cur]]
         /\ PrevFreeAfter(5) = [PrevFreeAfter(4) EXCEPT ![New] = PrevFreeAfter(4)[cur]]
         /\ PrevAfter(6) = [PrevAfter(5) EXCEPT ![New] = PrevAfter(5)[cur]]
         /\ NextFreeAfter(7) = [NextFreeAfter(6) EXCEPT ![cur] = New]
         /\ NextAfter(8) = [NextAfter(7) EXCEPT ![cur] = New]
         /\ LenAfter(9) = [LenAfter(8) EXCEPT ![cur] = size]
         /\ FirstAfter(10) = IF cur = FirstAfter(9) THEN NextFreeAfter(9)[cur]
                             ELSE FirstAfter(9)
         /\ FreeAfter(11) = [FreeAfter(10) EXCEPT ![cur] = FALSE]
<1>1. FreeAfter(1) = [FreeAfter(0) EXCEPT ![New] = TRUE]
  <2>1. \A a \in Kept : a # New => FreeAfter(1)[a] = FreeAfter(0)[a]
    BY DEF FreeAfter, CutHere, Before
  <2>2. FreeAfter(1)[New] = TRUE
    BY DEF FreeAfter, CutHere, Before
  <2> QED BY <2>1, <2>2, FieldsAre, OneValue DEF CutHere
<1>2. LenAfter(2) = [LenAfter(1) EXCEPT ![New] = LenAfter(1)[cur] - (Hdr + size)]
  <2>1. \A a \in Kept : a # New => LenAfter(2)[a] = LenAfter(1)[a]
    BY DEF LenAfter, CutHere, Before
  <2>2. LenAfter(2)[New] = LenAfter(1)[cur] - (Hdr + size)
    BY DEF LenAfter, CutHere, Before
  <2> QED BY <2>1, <2>2, FieldsAre, OneValue DEF CutHere
<1>3. NextFreeAfter(3) = [NextFreeAfter(2) EXCEPT ![New] = NextFreeAfter(2)[cur]]
  <2>1. \A a \in Kept : a # New => NextFreeAfter(3)[a] = NextFreeAfter(2)[a]
    BY DEF NextFreeAfter, CutHere, Before
  <2>2. NextFreeAfter(3)[New] = NextFreeAfter(2)[cur]
    BY DEF NextFreeAfter, CutHere, Before
  <2> QED BY <2>1, <2>2, FieldsAre, OneValue DEF CutHere
<1>4. NextAfter(4) = [NextAfter(3) EXCEPT ![New] = NextAfter(3)[cur]]
  <2>1. \A a \in Kept : a # New => NextAfter(4)[a] = NextAfter(3)[a]
    BY DEF NextAfter, CutHere, Before
  <2>2. NextAfter(4)[New] = NextAfter(3)[cur]
    BY DEF NextAfter, CutHere, Before
  <2> QED BY <2>1, <2>2, FieldsAre, OneValue DEF CutHere
<1>5. PrevFreeAfter(5) = [PrevFreeAfter(4) EXCEPT ![New] = PrevFreeAfter(4)[cur]]
  <2>1. \A a \in Kept : a # New => PrevFreeAfter(5)[a] = PrevFreeAfter(4)[a]
    BY DEF PrevFreeAfter, CutHere, Before
  <2>2. PrevFreeAfter(5)[New] = PrevFreeAfter(4)[cur]
    BY DEF PrevFreeAfter, CutHere, Before
  <2> QED BY <2>1, <2>2, FieldsAre, OneValue DEF CutHere
<1>6. PrevAfter(6) = [PrevAfter(5) EXCEPT ![New] = PrevAfter(5)[cur]]
  <2>1. \A a \in Kept : a # New => PrevAfter(6)[a] = PrevAfter(5)[a]
    BY DEF PrevAfter, CutHere, Before
  <2>2. PrevAfter(6)[New] = PrevAfter(5)[cur]
    BY DEF PrevAfter, CutHere, Before
  <2> QED BY <2>1, <2>2, FieldsAre, OneValue DEF CutHere
<1>7. NextFreeAfter(7) = [NextFreeAfter(6) EXCEPT ![cur] = New]
  <2>1. \A a \in Kept : a # cur => NextFreeAfter(7)[a] = NextFreeAfter(6)[a]
    BY DEF NextFreeAfter, CutHere, Before
  <2>2. NextFreeAfter(7)[cur] = New
    BY DEF NextFreeAfter, CutHere, Before
  <2> QED BY <2>1, <2>2, FieldsAre, OneValue DEF CutHere
<1>8. NextAfter(8) = [NextAfter(7) EXCEPT ![cur] = New]
  <2>1. \A a \in Kept : a # cur => NextAfter(8)[a] = NextAfter(7)[a]
    BY DEF NextAfter, CutHere, Before
  <2>2. NextAfter(8)[cur] = New
    BY DEF NextAfter, CutHere, Before
  <2> QED BY <2>1, <2>2, FieldsAre, OneValue DEF CutHere
<1>9. LenAfter(9) = [LenAfter(8) EXCEPT ![cur] = size]
  <2>1. \A a \in Kept : a # cur => LenAfter(9)[a] = LenAfter(8)[a]
    BY DEF LenAfter, CutHere, Before
  <2>2. LenAfter(9)[cur] = size
    BY DEF LenAfter, CutHere, Before
  <2> QED BY <2>1, <2>2, FieldsAre, OneValue DEF CutHere
<1>10. FirstAfter(10) = IF cur = FirstAfter(9) THEN NextFreeAfter(9)[cur]
                        ELSE FirstAfter(9)
  BY DEF FirstAfter, NextFreeAfter, CutHere
<1>11. FreeAfter(11) = [FreeAfter(10) EXCEPT ![cur] = FALSE]
  <2>1. \A a \in Kept : a # cur => FreeAfter(11)[a] = FreeAfter(10)[a]
    BY DEF FreeAfter, CutHere, Before
  <2>2. FreeAfter(11)[cur] = FALSE
    BY DEF FreeAfter, CutHere, Before
  <2> QED BY <2>1, <2>2, FieldsAre, OneValue DEF CutHere
<1> QED BY Zenon, <1>1, <1>2, <1>3, <1>4, <1>5, <1>6, <1>7, <1>8, <1>9, <1>10, <1>11

\* What the segment that is cut says when its neighbours are told.
LEMMA CutSays ==
  ASSUME CutHere, NEW k \in 11..14
  PROVE  /\ NextFreeAfter(k)[cur] = New /\ NextAfter(k)[cur] = New
         /\ PrevAfter(k)[cur] = prev[cur] /\ PrevFreeAfter(k)[cur] = prevFree[cur]
         /\ PrevFreeAfter(k)[New] = prevFree[cur]
<1>1. NextFreeAfter(k)[cur] = New
  BY DEF NextFreeAfter, CutHere
<1>2. NextAfter(k)[cur] = New
  BY DEF NextAfter, CutHere
<1>3. PrevAfter(k)[cur] = prev[cur]
  BY DEF PrevAfter, CutHere, Before
<1>4. PrevFreeAfter(k)[cur] = prevFree[cur]
  BY DEF PrevFreeAfter, CutHere, Before
<1>5. PrevFreeAfter(k)[New] = prevFree[cur]
  BY DEF PrevFreeAfter, CutHere, Before
<1> QED BY Zenon, <1>1, <1>2, <1>3, <1>4, <1>5

LEMMA TellPrev ==
  ASSUME CutHere
  PROVE  /\ NextFreeAfter(12) = IF prevFree[cur] = 0 THEN NextFreeAfter(11)
              ELSE [NextFreeAfter(11) EXCEPT ![prevFree[cur]] = New]
         /\ NextFreeAfter(14) = IF prev[cur] = 0 THEN NextFreeAfter(13)
              ELSE [NextFreeAfter(13) EXCEPT ![prev[cur]] = New]
<1>1. NextFreeAfter(12) = IF prevFree[cur] = 0 THEN NextFreeAfter(11)
              ELSE [NextFreeAfter(11) EXCEPT ![prevFree[cur]] = New]
  BY DEF NextFreeAfter, CutHere, Told
<1>2. NextFreeAfter(14) = IF prev[cur] = 0 THEN NextFreeAfter(13)
              ELSE [NextFreeAfter(13) EXCEPT ![prev[cur]] = New]
  BY DEF NextFreeAfter, CutHere, Told
<1> QED BY Zenon, <1>1, <1>2

\* Telling the rest what it already says.
LEMMA TellRest ==
  ASSUME CutHere, NEW k \in 11..14
  PROVE  [PrevFreeAfter(k) EXCEPT ![New] = prevFree[cur]] = PrevFreeAfter(k)
<1>1. PrevFreeAfter(k)[New] = prevFree[cur]
  BY CutSays
<1>2. PrevFreeAfter(k) = [a \in Kept |-> PrevFreeAfter(k)[a]]
  BY DEF PrevFreeAfter
<1> QED BY <1>1, <1>2

\* Each of the fifteen statements leads from one heap to the next.
LEMMA StatementIs ==
  ASSUME NEW h
  PROVE  /\ Statement(1, h) = [h EXCEPT !.free[New] = TRUE]
         /\ Statement(2, h) = [h EXCEPT !.len[New] = h.len[cur] - (Hdr + size)]
         /\ Statement(3, h) = [h EXCEPT !.nextFree[New] = h.nextFree[cur]]
         /\ Statement(4, h) = [h EXCEPT !.next[New] = h.next[cur]]
         /\ Statement(5, h) = [h EXCEPT !.prevFree[New] = h.prevFree[cur]]
         /\ Statement(6, h) = [h EXCEPT !.prev[New] = h.prev[cur]]
         /\ Statement(7, h) = [h EXCEPT !.nextFree[cur] = New]
         /\ Statement(8, h) = [h EXCEPT !.next[cur] = New]
         /\ Statement(9, h) = [h EXCEPT !.len[cur] = size]
         /\ Statement(10, h) = Unlist(h)
         /\ Statement(11, h) = [h EXCEPT !.free[cur] = FALSE]
         /\ Statement(12, h) = LinkTo(h, h.prevFree[cur])
         /\ Statement(13, h) = LinkBack(h, h.nextFree[cur])
         /\ Statement(14, h) = LinkTo(h, h.prev[cur])
         /\ Statement(15, h) = LinkBack(h, h.next[cur])
<1>1. \A k \in 1..6 : Statement(k, h) = NewHeader(k, h)
  BY DEF Statement
<1>2. \A k \in 7..9 : Statement(k, h) = Cut(k, h)
  BY DEF Statement
<1>3. \A k \in 10..11 : Statement(k, h) = Take(k, h)
  BY DEF Statement
<1>4. \A k \in 12..15 : Statement(k, h) = Tell(k, h)
  BY DEF Statement
<1>5. /\ NewHeader(1, h) = [h EXCEPT !.free[New] = TRUE]
      /\ NewHeader(2, h) = [h EXCEPT !.len[New] = h.len[cur] - (Hdr + size)]
      /\ NewHeader(3, h) = [h EXCEPT !.nextFree[New] = h.nextFree[cur]]
      /\ NewHeader(4, h) = [h EXCEPT !.next[New] = h.next[cur]]
      /\ NewHeader(5, h) = [h EXCEPT !.prevFree[New] = h.prevFree[cur]]
      /\ NewHeader(6, h) = [h EXCEPT !.prev[New] = h.prev[cur]]
  BY DEF NewHeader
<1>6. /\ Cut(7, h) = [h EXCEPT !.nextFree[cur] = New]
      /\ Cut(8, h) = [h EXCEPT !.next[cur] = New]
      /\ Cut(9, h) = [h EXCEPT !.len[cur] = size]
  BY DEF Cut
<1>7. /\ Take(10, h) = Unlist(h)
      /\ Take(11, h) = [h EXCEPT !.free[cur] = FALSE]
  BY DEF Take, NotFree
<1>8. /\ Tell(12, h) = LinkTo(h, h.prevFree[cur])
      /\ Tell(13, h) = LinkBack(h, h.nextFree[cur])
      /\ Tell(14, h) = LinkTo(h, h.prev[cur])
      /\ Tell(15, h) = LinkBack(h, h.next[cur])
  BY DEF Tell
<1> QED BY <1>1, <1>2, <1>3, <1>4, <1>5, <1>6, <1>7, <1>8

\* One statement more leads from one heap to the next.
LEMMA OneMore ==
  ASSUME CutHere, NEW k \in 1..15
  PROVE  Done(k) = Statement(k, Done(k - 1))
<1>1. Done(1) = Statement(1, Done(0))
  <2>1. /\ LenAfter(1) = LenAfter(0) /\ NextAfter(1) = NextAfter(0)
        /\ PrevAfter(1) = PrevAfter(0) /\ NextFreeAfter(1) = NextFreeAfter(0)
        /\ PrevFreeAfter(1) = PrevFreeAfter(0) /\ FirstAfter(1) = FirstAfter(0)
    BY OthersStay, 1 \in 1..15, 1 - 1 = 0
  <2>2. Statement(1, Done(0)) = [Done(0) EXCEPT !.free[New] = TRUE]
    BY StatementIs
  <2>3. \A v : [Done(0) EXCEPT !.free[New] = v] =
               HeapOf(LenAfter(0), NextAfter(0), PrevAfter(0), NextFreeAfter(0),
                      PrevFreeAfter(0), [FreeAfter(0) EXCEPT ![New] = v], FirstAfter(0))
    BY DEF Done, HeapOf
  <2>4. FreeAfter(1) = [FreeAfter(0) EXCEPT ![New] = TRUE]
    BY Written
  <2>5. [Done(0) EXCEPT !.free[New] = TRUE] = Done(1)
    BY Zenon, <2>1, <2>3, <2>4 DEF Done
  <2> QED BY <2>2, <2>5
<1>2. Done(2) = Statement(2, Done(1))
  <2>1. /\ NextAfter(2) = NextAfter(1) /\ PrevAfter(2) = PrevAfter(1)
        /\ NextFreeAfter(2) = NextFreeAfter(1) /\ PrevFreeAfter(2) = PrevFreeAfter(1)
        /\ FreeAfter(2) = FreeAfter(1) /\ FirstAfter(2) = FirstAfter(1)
    BY OthersStay, 2 \in 1..15, 2 - 1 = 1
  <2>2. Statement(2, Done(1)) = [Done(1) EXCEPT !.len[New] = Done(1).len[cur] - (Hdr + size)]
    BY StatementIs
  <2>3. [Done(1) EXCEPT !.len[New] = Done(1).len[cur] - (Hdr + size)] = Done(2)
    BY Written, <2>1 DEF Done, HeapOf
  <2> QED BY <2>2, <2>3
<1>3. Done(3) = Statement(3, Done(2))
  <2>1. /\ LenAfter(3) = LenAfter(2) /\ NextAfter(3) = NextAfter(2)
        /\ PrevAfter(3) = PrevAfter(2) /\ PrevFreeAfter(3) = PrevFreeAfter(2)
        /\ FreeAfter(3) = FreeAfter(2) /\ FirstAfter(3) = FirstAfter(2)
    BY OthersStay, 3 \in 1..15, 3 - 1 = 2
  <2>2. Statement(3, Done(2)) = [Done(2) EXCEPT !.nextFree[New] = Done(2).nextFree[cur]]
    BY StatementIs
  <2>3. [Done(2) EXCEPT !.nextFree[New] = Done(2).nextFree[cur]] = Done(3)
    BY Written, <2>1 DEF Done, HeapOf
  <2> QED BY <2>2, <2>3
<1>4. Done(4) = Statement(4, Done(3))
  <2>1. /\ LenAfter(4) = LenAfter(3) /\ PrevAfter(4) = PrevAfter(3)
        /\ NextFreeAfter(4) = NextFreeAfter(3) /\ PrevFreeAfter(4) = PrevFreeAfter(3)
        /\ FreeAfter(4) = FreeAfter(3) /\ FirstAfter(4) = FirstAfter(3)
    BY OthersStay, 4 \in 1..15, 4 - 1 = 3
  <2>2. Statement(4, Done(3)) = [Done(3) EXCEPT !.next[New] = Done(3).next[cur]]
    BY StatementIs
  <2>3. [Done(3) EXCEPT !.next[New] = Done(3).next[cur]] = Done(4)
    BY Written, <2>1 DEF Done, HeapOf
  <2> QED BY <2>2, <2>3
<1>5. Done(5) = Statement(5, Done(4))
  <2>1. /\ LenAfter(5) = LenAfter(4) /\ NextAfter(5) = NextAfter(4)
        /\ PrevAfter(5) = PrevAfter(4) /\ NextFreeAfter(5) = NextFreeAfter(4)
        /\ FreeAfter(5) = FreeAfter(4) /\ FirstAfter(5) = FirstAfter(4)
    BY OthersStay, 5 \in 1..15, 5 - 1 = 4
  <2>2. Statement(5, Done(4)) = [Done(4) EXCEPT !.prevFree[New] = Done(4).prevFree[cur]]
    BY StatementIs
  <2>3. [Done(4) EXCEPT !.prevFree[New] = Done(4).prevFree[cur]] = Done(5)
    BY Written, <2>1 DEF Done, HeapOf
  <2> QED BY <2>2, <2>3
<1>6. Done(6) = Statement(6, Done(5))
  <2>1. /\ LenAfter(6) = LenAfter(5) /\ NextAfter(6) = NextAfter(5)
        /\ NextFreeAfter(6) = NextFreeAfter(5) /\ PrevFreeAfter(6) = PrevFreeAfter(5)
        /\ FreeAfter(6) = FreeAfter(5) /\ FirstAfter(6) = FirstAfter(5)
    BY OthersStay, 6 \in 1..15, 6 - 1 = 5
  <2>2. Statement(6, Done(5)) = [Done(5) EXCEPT !.prev[New] = Done(5).prev[cur]]
    BY StatementIs
  <2>3. [Done(5) EXCEPT !.prev[New] = Done(5).prev[cur]] = Done(6)
    BY Written, <2>1 DEF Done, HeapOf
  <2> QED BY <2>2, <2>3
<1>7. Done(7) = Statement(7, Done(6))
  <2>1. /\ LenAfter(7) = LenAfter(6) /\ NextAfter(7) = NextAfter(6)
        /\ PrevAfter(7) = PrevAfter(6) /\ PrevFreeAfter(7) = PrevFreeAfter(6)
        /\ FreeAfter(7) = FreeAfter(6) /\ FirstAfter(7) = FirstAfter(6)
    BY OthersStay, 7 \in 1..15, 7 - 1 = 6
  <2>2. Statement(7, Done(6)) = [Done(6) EXCEPT !.nextFree[cur] = New]
    BY StatementIs
  <2>3. [Done(6) EXCEPT !.nextFree[cur] = New] = Done(7)
    BY Written, <2>1 DEF Done, HeapOf
  <2> QED BY <2>2, <2>3
<1>8. Done(8) = Statement(8, Done(7))
  <2>1. /\ LenAfter(8) = LenAfter(7) /\ PrevAfter(8) = PrevAfter(7)
        /\ NextFreeAfter(8) = NextFreeAfter(7) /\ PrevFreeAfter(8) = PrevFreeAfter(7)
        /\ FreeAfter(8) = FreeAfter(7) /\ FirstAfter(8) = FirstAfter(7)
    BY OthersStay, 8 \in 1..15, 8 - 1 = 7
  <2>2. Statement(8, Done(7)) = [Done(7) EXCEPT !.next[cur] = New]
    BY StatementIs
  <2>3. [Done(7) EXCEPT !.next[cur] = New] = Done(8)
    BY Written, <2>1 DEF Done, HeapOf
  <2> QED BY <2>2, <2>3
<1>9. Done(9) = Statement(9, Done(8))
  <2>1. /\ NextAfter(9) = NextAfter(8) /\ PrevAfter(9) = PrevAfter(8)
        /\ NextFreeAfter(9) = NextFreeAfter(8) /\ PrevFreeAfter(9) = PrevFreeAfter(8)
        /\ FreeAfter(9) = FreeAfter(8) /\ FirstAfter(9) = FirstAfter(8)
    BY OthersStay, 9 \in 1..15, 9 - 1 = 8
  <2>2. Statement(9, Done(8)) = [Done(8) EXCEPT !.len[cur] = size]
    BY StatementIs
  <2>3. [Done(8) EXCEPT !.len[cur] = size] = Done(9)
    BY Written, <2>1 DEF Done, HeapOf
  <2> QED BY <2>2, <2>3
<1>10. Done(10) = Statement(10, Done(9))
  <2>1. /\ LenAfter(10) = LenAfter(9) /\ NextAfter(10) = NextAfter(9)
        /\ PrevAfter(10) = PrevAfter(9) /\ NextFreeAfter(10) = NextFreeAfter(9)
        /\ PrevFreeAfter(10) = PrevFreeAfter(9) /\ FreeAfter(10) = FreeAfter(9)
    BY OthersStay, 10 \in 1..15, 10 - 1 = 9
  <2>2. /\ Statement(10, Done(9)) = Unlist(Done(9))
        /\ Done(9).first = FirstAfter(9) /\ Done(9).nextFree = NextFreeAfter(9)
    BY StatementIs, DoneFields
  <2>3. CASE cur = FirstAfter(9)
    <3>1. Unlist(Done(9)) = [Done(9) EXCEPT !.first = NextFreeAfter(9)[cur]]
      BY <2>2, <2>3 DEF Unlist
    <3>2. [Done(9) EXCEPT !.first = NextFreeAfter(9)[cur]] = Done(10)
      BY <2>1, <2>3, Written DEF Done, HeapOf
    <3> QED BY <2>2, <3>1, <3>2
  <2>4. CASE cur # FirstAfter(9)
    BY <2>1, <2>2, <2>4, Written DEF Done, Unlist
  <2> QED BY <2>3, <2>4
<1>11. Done(11) = Statement(11, Done(10))
  <2>1. /\ LenAfter(11) = LenAfter(10) /\ NextAfter(11) = NextAfter(10)
        /\ PrevAfter(11) = PrevAfter(10) /\ NextFreeAfter(11) = NextFreeAfter(10)
        /\ PrevFreeAfter(11) = PrevFreeAfter(10) /\ FirstAfter(11) = FirstAfter(10)
    BY OthersStay, 11 \in 1..15, 11 - 1 = 10
  <2>2. Statement(11, Done(10)) = [Done(10) EXCEPT !.free[cur] = FALSE]
    BY StatementIs
  <2>3. \A v : [Done(10) EXCEPT !.free[cur] = v] =
               HeapOf(LenAfter(10), NextAfter(10), PrevAfter(10), NextFreeAfter(10),
                      PrevFreeAfter(10), [FreeAfter(10) EXCEPT ![cur] = v], FirstAfter(10))
    BY DEF Done, HeapOf
  <2>4. FreeAfter(11) = [FreeAfter(10) EXCEPT ![cur] = FALSE]
    BY Written
  <2>5. [Done(10) EXCEPT !.free[cur] = FALSE] = Done(11)
    BY Zenon, <2>1, <2>3, <2>4 DEF Done
  <2> QED BY <2>2, <2>5
<1>12. Done(12) = Statement(12, Done(11))
  <2>1. /\ LenAfter(12) = LenAfter(11) /\ NextAfter(12) = NextAfter(11)
        /\ PrevAfter(12) = PrevAfter(11) /\ PrevFreeAfter(12) = PrevFreeAfter(11)
        /\ FreeAfter(12) = FreeAfter(11) /\ FirstAfter(12) = FirstAfter(11)
    BY OthersStay, 12 \in 1..15, 12 - 1 = 11
  <2>2. /\ Done(11).prevFree[cur] = prevFree[cur] /\ Done(11).nextFree[cur] = New
    BY CutSays, DoneFields, 11 \in 11..14
  <2>3. Statement(12, Done(11)) = LinkTo(Done(11), prevFree[cur])
    BY <2>2, StatementIs
  <2>4. CASE prevFree[cur] = 0
    BY <2>1, <2>3, <2>4, TellPrev DEF LinkTo, Done
  <2>5. CASE prevFree[cur] # 0
    <3>1. Statement(12, Done(11)) = [Done(11) EXCEPT !.nextFree[prevFree[cur]] = Done(11).nextFree[cur]]
      BY <2>3, <2>5 DEF LinkTo
    <3>2. [Done(11) EXCEPT !.nextFree[prevFree[cur]] = New] = Done(12)
      BY <2>1, <2>5, TellPrev DEF Done, HeapOf
    <3> QED BY <2>2, <3>1, <3>2
  <2> QED BY <2>4, <2>5
<1>13. Done(13) = Statement(13, Done(12))
  <2>1. /\ LenAfter(13) = LenAfter(12) /\ NextAfter(13) = NextAfter(12)
        /\ PrevAfter(13) = PrevAfter(12) /\ NextFreeAfter(13) = NextFreeAfter(12)
        /\ FreeAfter(13) = FreeAfter(12) /\ FirstAfter(13) = FirstAfter(12)
    BY OthersStay, 13 \in 1..15, 13 - 1 = 12
  <2>2. /\ Done(12).nextFree[cur] = New /\ Done(12).prevFree[cur] = prevFree[cur]
    BY CutSays, DoneFields, 12 \in 11..14
  <2>3. Statement(13, Done(12)) = LinkBack(Done(12), New)
    BY <2>2, StatementIs
  <2>4. CASE New = 0
    BY <2>1, <2>3, <2>4, TellRest, OthersStay, 12 \in 11..14, 13 \in 1..15, 13 - 1 = 12 DEF LinkBack, Done
  <2>5. CASE New # 0
    <3>1. Statement(13, Done(12)) = [Done(12) EXCEPT !.prevFree[New] = Done(12).prevFree[cur]]
      BY <2>3, <2>5 DEF LinkBack
    <3>2. [Done(12) EXCEPT !.prevFree[New] = prevFree[cur]] = Done(13)
      BY <2>1, <2>5, TellRest, OthersStay, 12 \in 11..14, 13 \in 1..15, 13 - 1 = 12 DEF Done, HeapOf
    <3> QED BY <2>2, <3>1, <3>2
  <2> QED BY <2>4, <2>5
<1>14. Done(14) = Statement(14, Done(13))
  <2>1. /\ LenAfter(14) = LenAfter(13) /\ NextAfter(14) = NextAfter(13)
        /\ PrevAfter(14) = PrevAfter(13) /\ PrevFreeAfter(14) = PrevFreeAfter(13)
        /\ FreeAfter(14) = FreeAfter(13) /\ FirstAfter(14) = FirstAfter(13)
    BY OthersStay, 14 \in 1..15, 14 - 1 = 13
  <2>2. /\ Done(13).prev[cur] = prev[cur] /\ Done(13).nextFree[cur] = New
    BY CutSays, DoneFields, 13 \in 11..14
  <2>3. Statement(14, Done(13)) = LinkTo(Done(13), prev[cur])
    BY <2>2, StatementIs
  <2>4. CASE prev[cur] = 0
    BY <2>1, <2>3, <2>4, TellPrev DEF LinkTo, Done
  <2>5. CASE prev[cur] # 0
    <3>1. Statement(14, Done(13)) = [Done(13) EXCEPT !.nextFree[prev[cur]] = Done(13).nextFree[cur]]
      BY <2>3, <2>5 DEF LinkTo
    <3>2. [Done(13) EXCEPT !.nextFree[prev[cur]] = New] = Done(14)
      BY <2>1, <2>5, TellPrev DEF Done, HeapOf
    <3> QED BY <2>2, <3>1, <3>2
  <2> QED BY <2>4, <2>5
<1>15. Done(15) = Statement(15, Done(14))
  <2>1. /\ LenAfter(15) = LenAfter(14) /\ NextAfter(15) = NextAfter(14)
        /\ PrevAfter(15) = PrevAfter(14) /\ NextFreeAfter(15) = NextFreeAfter(14)
        /\ FreeAfter(15) = FreeAfter(14) /\ FirstAfter(15) = FirstAfter(14)
    BY OthersStay, 15 \in 1..15, 15 - 1 = 14
  <2>2. /\ Done(14).next[cur] = New /\ Done(14).prevFree[cur] = prevFree[cur]
    BY CutSays, DoneFields, 14 \in 11..14
  <2>3. Statement(15, Done(14)) = LinkBack(Done(14), New)
    BY <2>2, StatementIs
  <2>4. CASE New = 0
    BY <2>1, <2>3, <2>4, TellRest, OthersStay, 14 \in 11..14, 15 \in 1..15, 15 - 1 = 14 DEF LinkBack, Done
  <2>5. CASE New # 0
    <3>1. Statement(15, Done(14)) = [Done(14) EXCEPT !.prevFree[New] = Done(14).prevFree[cur]]
      BY <2>3, <2>5 DEF LinkBack
    <3>2. [Done(14) EXCEPT !.prevFree[New] = prevFree[cur]] = Done(15)
      BY <2>1, <2>5, TellRest, OthersStay, 14 \in 11..14, 15 \in 1..15, 15 - 1 = 14 DEF Done, HeapOf
    <3> QED BY <2>2, <3>1, <3>2
  <2> QED BY <2>4, <2>5
<1> QED BY <1>1, <1>2, <1>3, <1>4, <1>5, <1>6, <1>7, <1>8, <1>9, <1>10, <1>11, <1>12, <1>13, <1>14, <1>15

\* kmalloc after k statements is the heap after k statements.
LEMMA AfterIs ==
  ASSUME CutHere
  PROVE  \A k \in 0..15 : After[k] = Done(k)
<1> DEFINE F(f) == [k \in 0..15 |-> IF k = 0 THEN Start ELSE Statement(k, f[k - 1])]
           d == [k \in 0..15 |-> Done(k)]
<1>1. d = F(d)
  <2>1. ASSUME NEW k \in 0..15
        PROVE  Done(k) = IF k = 0 THEN Start ELSE Statement(k, d[k - 1])
    <3>1. CASE k = 0
      BY <3>1, NoneDone
    <3>2. CASE k # 0
      <4>1. k \in 1..15 /\ k - 1 \in 0..15
        BY <3>2
      <4> QED BY <3>2, <4>1, OneMore
    <3> QED BY <3>1, <3>2
  <2> QED BY <2>1
<1>2. After = CHOOSE f : f = F(f)
  BY DEF After, Statements
<1>3. After = F(After)
  BY <1>1, <1>2
<1>4. /\ After[0] = Start
      /\ \A k \in 1..15 : After[k] = Statement(k, After[k - 1])
  <2>1. \A k \in 0..15 : After[k] = IF k = 0 THEN Start ELSE Statement(k, After[k - 1])
    BY <1>3
  <2> QED BY <2>1
<1>5. ASSUME NEW k \in 1..15, After[k - 1] = Done(k - 1) PROVE After[k] = Done(k)
  BY <1>4, <1>5, OneMore
<1>6. After[0] = Done(0)
  BY <1>4, NoneDone
<1>7. After[1] = Done(1)
  BY <1>6, <1>5, 1 \in 1..15, 1 - 1 = 0
<1>8. After[2] = Done(2)
  BY <1>7, <1>5, 2 \in 1..15, 2 - 1 = 1
<1>9. After[3] = Done(3)
  BY <1>8, <1>5, 3 \in 1..15, 3 - 1 = 2
<1>10. After[4] = Done(4)
  BY <1>9, <1>5, 4 \in 1..15, 4 - 1 = 3
<1>11. After[5] = Done(5)
  BY <1>10, <1>5, 5 \in 1..15, 5 - 1 = 4
<1>12. After[6] = Done(6)
  BY <1>11, <1>5, 6 \in 1..15, 6 - 1 = 5
<1>13. After[7] = Done(7)
  BY <1>12, <1>5, 7 \in 1..15, 7 - 1 = 6
<1>14. After[8] = Done(8)
  BY <1>13, <1>5, 8 \in 1..15, 8 - 1 = 7
<1>15. After[9] = Done(9)
  BY <1>14, <1>5, 9 \in 1..15, 9 - 1 = 8
<1>16. After[10] = Done(10)
  BY <1>15, <1>5, 10 \in 1..15, 10 - 1 = 9
<1>17. After[11] = Done(11)
  BY <1>16, <1>5, 11 \in 1..15, 11 - 1 = 10
<1>18. After[12] = Done(12)
  BY <1>17, <1>5, 12 \in 1..15, 12 - 1 = 11
<1>19. After[13] = Done(13)
  BY <1>18, <1>5, 13 \in 1..15, 13 - 1 = 12
<1>20. After[14] = Done(14)
  BY <1>19, <1>5, 14 \in 1..15, 14 - 1 = 13
<1>21. After[15] = Done(15)
  BY <1>20, <1>5, 15 \in 1..15, 15 - 1 = 14
<1> QED
  BY <1>6, <1>7, <1>8, <1>9, <1>10, <1>11, <1>12, <1>13, <1>14, <1>15, <1>16, <1>17, <1>18, <1>19, <1>20, <1>21

-----------------------------------------------------------------------------
\* SearchTake's step is what the fifteen statements do, if cutting can be
\* spoken of.
LEMMA CutWhere ==
  ASSUME TypeOK, SearchTake, size + Hdr < Word
  PROVE  CutHere
<1>1. cur \in Legible /\ cur \in Nat /\ size \in Nat /\ Hdr \in Nat \ {0}
      /\ Word \in Nat
  BY ConstantTypes DEF SearchTake, SearchReads, TypeOK
<1>2. New # cur
  BY <1>1, size + Hdr < Word DEF New, Add
<1> QED BY <1>1, <1>2 DEF CutHere, Kept

LEMMA TakeIsDone ==
  ASSUME TypeOK, SearchTake, CutHere
  PROVE  HeapIs(Done(15))
<1>1. New = Add(cur + Hdr, size)
  BY DEF New
<1>2. /\ len' = [a \in Kept |-> IF a = New THEN len[cur] - (Hdr + size)
                                ELSE IF a = cur THEN size ELSE len[a]]
      /\ next' = [a \in Kept |-> IF a = New THEN next[cur]
                                 ELSE IF a = cur THEN New ELSE next[a]]
      /\ prev' = [a \in Kept |-> IF a = New THEN prev[cur] ELSE prev[a]]
      /\ nextFree' = [a \in Kept |-> IF a = cur \/ a \in Linkers(cur) THEN New
                                     ELSE IF a = New THEN nextFree[cur]
                                     ELSE nextFree[a]]
      /\ prevFree' = [a \in Kept |-> IF a = New THEN prevFree[cur]
                                     ELSE prevFree[a]]
      /\ free' = [a \in Kept |-> IF a = New THEN TRUE
                                 ELSE IF a = cur THEN FALSE ELSE free[a]]
      /\ first' = IF cur = first THEN New ELSE first
  BY <1>1 DEF SearchTake, Kept
<1>3. \A a \in Kept : a # New => a \in Legible
  BY DEF Kept
<1>4. cur # New
  BY DEF CutHere
<1>5. len' = LenAfter(15)
  BY <1>2, <1>3, <1>4 DEF LenAfter, Before
<1>6. next' = NextAfter(15)
  BY <1>2, <1>3, <1>4 DEF NextAfter, Before
<1>7. prev' = PrevAfter(15)
  BY <1>2, <1>3, <1>4 DEF PrevAfter, Before
<1>8. nextFree' = NextFreeAfter(15)
  <2>1. \A a : a \in Linkers(cur) <=> Told(a, prevFree[cur]) \/ Told(a, prev[cur])
    BY DEF Linkers, Told
  <2> QED BY <1>2, <1>3, <1>4, <2>1 DEF NextFreeAfter, Before
<1>9. prevFree' = PrevFreeAfter(15)
  BY <1>2, <1>3, <1>4 DEF PrevFreeAfter, Before
<1>10. free' = FreeAfter(15)
  <2>1. /\ free \in [Legible -> BOOLEAN]
        /\ free' = [a \in Kept |-> IF a = New THEN TRUE
                                 ELSE IF a = cur THEN FALSE ELSE free[a]]
    BY <1>2 DEF TypeOK
  <2>2. \A a \in Kept : FreeAfter(15)[a] =
                          IF a = cur THEN FALSE ELSE IF a = New THEN TRUE
                          ELSE a \in Legible /\ free[a]
    BY DEF FreeAfter
  <2>3. \A a \in Kept : free'[a] = FreeAfter(15)[a]
    BY <1>3, <1>4, <2>1, <2>2
  <2> QED BY <2>1, <2>3, FieldsAre
<1>11. first' = FirstAfter(15)
  BY <1>2 DEF FirstAfter
<1> QED BY Zenon, <1>5, <1>6, <1>7, <1>8, <1>9, <1>10, <1>11, DoneFields DEF HeapIs

-----------------------------------------------------------------------------
(***************************************************************************)
(* The reader: the block kcalloc returned has room for what is copied.     *)
(***************************************************************************)
\* The bytes that are copied.
Bytes(s, f) == IF f < s THEN 0 ELSE (f - s + 1) * SectorSize

LEMMA Remainder ==
  ASSUME NEW n \in Nat \ {0}, NEW q \in Int, NEW r \in 0..(n - 1)
  PROVE  (q * n + r) % n = r
<1> DEFINE a == q * n + r
           d == a \div n
           m == a % n
<1>1. a \in Int /\ d \in Int /\ m \in 0..(n - 1) /\ a = n * d + m
  OBVIOUS
<1>2. (q - d) * n = m - r
  BY <1>1
<1>3. q - d <= 0
  <2> SUFFICES ASSUME q - d >= 1 PROVE FALSE
    BY <1>1
  <2>1. (q - d) * n >= n
    BY <1>1
  <2> QED BY <1>1, <1>2, <2>1
<1>4. q - d >= 0
  <2> SUFFICES ASSUME q - d <= -1 PROVE FALSE
    BY <1>1
  <2>1. (q - d) * n <= -n
    BY <1>1
  <2> QED BY <1>1, <1>2, <2>1
<1>5. q = d
  BY <1>1, <1>3, <1>4
<1> QED BY <1>1, <1>2, <1>5

LEMMA Times ==
  ASSUME NEW a \in Int, NEW b \in Int, NEW c \in Nat, a <= b
  PROVE  a * c <= b * c
  OBVIOUS

LEMMA SectorType ==
  /\ SectorSize \in Nat /\ SectorSize < Word /\ SectorSize \in Sizes
  /\ Word \in Nat \ {0} /\ Word > 1
<1>1. SectorSize \in Sizes /\ SectorSize \in Requests
  BY DiskReadAssumption DEF Requests
<1> QED BY <1>1, HeapAssumption, ConstantTypes

\* kcalloc multiplies modulo the word, and the count of sectors may be
\* negative, but never is what it is asked for less than what is copied.
LEMMA AsksEnough ==
  ASSUME NEW r \in Ranges
  PROVE  Bytes(r[1], r[2]) <= Product(Count(r[1], r[2]), SectorSize)
<1> DEFINE s == r[1]
           f == r[2]
           g == f - s
           S == SectorSize
           P == Product(Count(s, f), S)
<1>1. /\ s \in Nat /\ f \in Nat /\ g \in Int /\ g # 1 /\ 2 * g * S <= Word
      /\ S \in Nat /\ S < Word /\ Word \in Nat \ {0} /\ Word > 1
  BY DiskReadAssumption, HeapPanicAssumption, SectorType
<1>2. s - f + 1 = 1 - g /\ f - s + 1 = g + 1
  BY <1>1
<1>3. Count(s, f) \in 0..(Word - 1)
  BY <1>1, <1>2 DEF Count
<1>4. P \in 0..(Word - 1)
  <2>1. Count(s, f) * S \in Int
    BY <1>1, <1>3
  <2> QED BY <1>1, <2>1 DEF Product
<1>5. CASE g < 0
  BY <1>1, <1>4, <1>5 DEF Bytes
<1>6. CASE g = 0
  <2> f = s
    BY <1>1, <1>6
  <2>1. Count(s, f) = 1
    <3>1. s - f + 1 = 1
      BY <1>1
    <3>2. 1 % Word = 1
      BY <1>1
    <3> QED BY <3>1, <3>2 DEF Count
  <2>2. P = S
    BY <1>1, <2>1 DEF Product
  <2>3. Bytes(s, f) = S
    <3>1. ~ f < s /\ f - s + 1 = 1
      BY <1>1
    <3>2. 1 * S = S
      BY <1>1
    <3> QED BY <3>1, <3>2 DEF Bytes
  <2> QED BY <1>1, <2>2, <2>3
<1>7. CASE g >= 2 /\ S = 0
  BY <1>1, <1>4, <1>7 DEF Bytes
<1>8. CASE g >= 2 /\ S >= 1
  <2>1. 2 * g <= 2 * g * S
    BY <1>1, <1>8, Times
  <2>2. g - 1 \in 1..(Word - 1)
    BY <1>1, <1>8, <2>1
  <2>3. Count(s, f) = Word - (g - 1)
    <3>1. /\ s - f + 1 = (-1) * Word + (Word - (g - 1))
          /\ Word - (g - 1) \in 0..(Word - 1) /\ -1 \in Int
      BY <1>1, <2>2
    <3>2. ((-1) * Word + (Word - (g - 1))) % Word = Word - (g - 1)
      BY <1>1, <3>1, Remainder
    <3> QED BY <3>1, <3>2 DEF Count
  <2>4. (g - 1) * S \in 1..(Word - 1)
    <3>1. (g - 1) * S \in Int /\ g * S \in Int /\ 2 * g * S = 2 * (g * S)
          /\ (g - 1) * S = g * S - S
      BY <1>1
    <3>2. 2 * S <= g * S
      BY <1>1, <1>8, Times
    <3> QED BY <1>1, <1>8, <3>1, <3>2
  <2>5. Count(s, f) * S = (S - 1) * Word + (Word - (g - 1) * S)
    BY <1>1, <2>3
  <2>6. P = Word - (g - 1) * S
    <3>1. Word - (g - 1) * S \in 0..(Word - 1) /\ S - 1 \in Int
      BY <1>1, <2>4
    <3>2. ((S - 1) * Word + (Word - (g - 1) * S)) % Word = Word - (g - 1) * S
      BY <1>1, <3>1, Remainder
    <3> QED BY <2>5, <3>2 DEF Product
  <2>7. Bytes(s, f) = (g + 1) * S
    BY <1>1, <1>2, <1>8 DEF Bytes
  <2>8. (g + 1) * S + (g - 1) * S = 2 * g * S
    BY <1>1
  <2> QED BY <1>1, <2>4, <2>6, <2>7, <2>8
<1> QED BY <1>1, <1>5, <1>6, <1>7, <1>8

-----------------------------------------------------------------------------
(***************************************************************************)
(* The inductive invariant: what holds while the kernel runs, and what     *)
(* holds once an exception handler does.                                   *)
(***************************************************************************)
\* A read that is under way has asked for enough, or has got enough.
ReaderInv ==
    /\ reading \in BOOLEAN
    /\ reading => \E r \in Ranges : from = r[1] /\ to = r[2]
    /\ reading /\ pc = "search" => at = from /\ Bytes(from, to) <= size
    /\ reading /\ pc = "idle" =>
         /\ buffer \in DOMAIN live /\ Bytes(from, to) <= live[buffer]
         /\ at = from \/ at \in from..(to + 1)

\* Nothing is freed, so the heap has no hole.
KernelInv ==
    /\ TypeOK /\ HeapInv
    /\ ~ exhausted => Compact
    /\ pc \in {"idle", "search", "fault"} /\ old = 0
    /\ pc = "search" => size + Hdr < Word
    /\ \A p \in DOMAIN live : p >= Hdr
    /\ ReaderInv

\* The segment the handler's search looks at has no neighbours before it, lies
\* inside the heap and behind every block, and is large enough if there was room.
Tail ==
    /\ cur \in Legible /\ cur \in Nat /\ len[cur] \in Int
    /\ prev[cur] = 0 /\ prevFree[cur] = 0
    /\ Base <= cur /\ End(cur) <= Top
    /\ \A p \in DOMAIN live :
         p \in Nat /\ live[p] \in Nat /\ p + live[p] <= cur /\ p <= cur
    /\ Fits(cur) \/ ~ room \/ Unreachable

HandlerInv ==
    /\ ~ reading /\ pc \in {"idle", "search", "fault"} /\ old = 0
    /\ ~ exhausted /\ pc = "search" =>
         Tail /\ size = RoundUp(MessageSize) /\ message = 0

PanicInv ==
    /\ ~ panicking => KernelInv /\ message = 0
    /\ panicking => HandlerInv
    /\ MessageFound

LEMMA InitPanic == PanicInit => PanicInv
<1> SUFFICES ASSUME PanicInit PROVE PanicInv
  OBVIOUS
<1>1. Init /\ reading = FALSE /\ panicking = FALSE /\ message = 0
  BY DEF PanicInit, DiskInit
<1>2. TypeOK /\ HeapInv
  BY <1>1, InitTypeOK, InitHeapInv
<1>3. pc = "idle" /\ old = 0 /\ DOMAIN live = {}
  BY <1>1 DEF Init
<1>4. KernelInv
  BY <1>1, <1>2, <1>3 DEF KernelInv, Compact, ReaderInv
<1> QED BY <1>1, <1>4 DEF PanicInv, MessageFound

\* A step of kmalloc's search.
LEMMA HeapStep ==
  ASSUME KernelInv, Heap
  PROVE  KernelInv'
<1>1. /\ TypeOK /\ HeapInv /\ Internal
      /\ ~ exhausted => Compact
      /\ pc \in {"idle", "search", "fault"} /\ old = 0
      /\ pc = "search" => size + Hdr < Word
      /\ \A p \in DOMAIN live : p >= Hdr
      /\ UNCHANGED <<reading, from, to, at>>
      /\ buffer' = IF SearchTake THEN Returned ELSE buffer
  BY DEF KernelInv, Heap
<1>2. TypeOK' /\ HeapInv'
  BY <1>1, StepTypeOK, StepHeapInv DEF Next, CompactNext
<1>3. /\ pc = "search"
      /\ SearchTake \/ SearchNext \/ Fault
  BY <1>1 DEF Internal, SearchTake, SearchNext, Release, LinkNextFree,
              LinkPrevFree, MergeNext, MergePrev, Fault
<1>4. /\ cur \in Nat /\ size \in Nat /\ Hdr \in Nat \ {0} /\ Word \in Nat
      /\ DOMAIN live \subseteq Nat
  BY <1>1, ConstantTypes DEF TypeOK
<1>5. CASE SearchTake
  <2>1. /\ pc' = "idle" /\ old' = 0 /\ exhausted' = exhausted
        /\ live' = [p \in DOMAIN live \cup {cur + Hdr} |->
                      IF p = cur + Hdr THEN size ELSE live[p]]
        /\ first' = IF cur = first THEN New ELSE first
        /\ Fits(cur)
    BY <1>1, <1>5 DEF SearchTake, New
  <2>2. buffer' = cur + Hdr
    BY <1>1, <1>5 DEF Returned
  <2>3. \A p \in DOMAIN live' : p >= Hdr
    BY <1>1, <1>4, <2>1
  <2>4. ~ exhausted => Compact'
    <3> SUFFICES ASSUME ~ exhausted PROVE Compact'
      OBVIOUS
    <3>1. WellFormed /\ Compact
      BY <1>1 DEF HeapInv
    <3>2. cur = first /\ first \in segs
      BY <1>3, <3>1 DEF WellFormed, Locals, FreeEnds
    <3>3. /\ len[cur] \in Nat /\ End(cur) <= Top /\ Top <= Word
      BY <1>1, <3>1, <3>2, SegmentTypes, ConstantTypes DEF WellFormed
    <3>4. New = cur + Hdr + size
      BY <1>1, <1>3, <1>4, <2>1, <3>3, ConstantTypes DEF Fits, Add, End, New
    <3>5. \A p \in DOMAIN live : p <= cur
      BY <3>1, <3>2 DEF Compact
    <3>6. \A p \in DOMAIN live' : p <= first'
      BY <1>4, <2>1, <3>2, <3>4, <3>5
    <3> QED BY <3>6 DEF Compact
  <2>5. ReaderInv'
    <3>1. reading => at = from /\ Bytes(from, to) <= size
      BY <1>3 DEF KernelInv, ReaderInv
    <3>2. cur + Hdr \in DOMAIN live' /\ live'[cur + Hdr] = size
      BY <2>1
    <3>3. /\ reading \in BOOLEAN
          /\ reading => \E r \in Ranges : from = r[1] /\ to = r[2]
      BY DEF KernelInv, ReaderInv
    <3> QED BY <1>1, <2>1, <2>2, <3>1, <3>2, <3>3 DEF ReaderInv, Bytes
  <2> QED BY <1>2, <2>1, <2>3, <2>4, <2>5 DEF KernelInv
<1>6. CASE SearchNext
  <2>1. /\ pc' = "search" /\ exhausted' /\ UNCHANGED <<size, old, live>>
    BY <1>3, <1>6 DEF SearchNext
  <2>2. ReaderInv'
    BY <1>1, <1>3, <2>1 DEF KernelInv, ReaderInv, Bytes
  <2> QED BY <1>1, <1>2, <1>3, <2>1, <2>2 DEF KernelInv
<1>7. CASE Fault
  <2>1. /\ pc' = "fault" /\ UNCHANGED <<first, old, live, exhausted>>
    BY <1>7 DEF Fault
  <2>2. ReaderInv'
    BY <1>1, <2>1 DEF KernelInv, ReaderInv
  <2> QED BY <1>1, <1>2, <2>1, <2>2 DEF KernelInv, Compact
<1> QED BY <1>3, <1>5, <1>6, <1>7

\* A call of kmalloc or kcalloc.
LEMMA CallStep ==
  ASSUME KernelInv, NEW n \in Requests, BeginSearch(n, 0), Allocate, ReaderInv'
  PROVE  KernelInv'
<1>1. /\ TypeOK /\ HeapInv /\ (~ exhausted => Compact)
      /\ \A p \in DOMAIN live : p >= Hdr
  BY DEF KernelInv
<1>2. /\ pc' = "search" /\ old' = 0 /\ ~ exhausted /\ size' = RoundUp(n)
      /\ UNCHANGED <<first, live, exhausted>>
  BY DEF BeginSearch
<1>3. TypeOK' /\ HeapInv'
  BY <1>1, <1>2, StepTypeOK, StepHeapInv DEF Next, CompactNext
<1>4. size' + Hdr < Word
  BY <1>2, RoundUpFacts
<1> QED BY <1>1, <1>2, <1>3, <1>4 DEF KernelInv, Compact

\* Headers elsewhere do not matter.
LEMMA SameSegments ==
  ASSUME TypeOK, WellFormed, pc = "idle",
         UNCHANGED <<first, pc, cur, size, old, live, segs>>,
         \A a \in segs : /\ a \in Legible'
                         /\ len'[a] = len[a] /\ next'[a] = next[a]
                         /\ prev'[a] = prev[a] /\ nextFree'[a] = nextFree[a]
                         /\ prevFree'[a] = prevFree[a] /\ free'[a] = free[a]
  PROVE  WellFormed'
<1>1. Tiling /\ Owned /\ BackLinks /\ Merged /\ FreeEnds /\ Locals
  BY DEF WellFormed
<1>2. /\ UNCHANGED <<first, pc, cur, size, old, live, segs>>
      /\ \A a \in segs : End(a)' = End(a)
      /\ \A a \in segs : \A S : Known(a, S)' = Known(a, S)
  BY DEF End, Known
<1>3. Tiling'
  BY <1>1, <1>2 DEF Tiling
<1>4. Owned'
  BY <1>1, <1>2 DEF Owned
<1>5. BackLinks'
  BY <1>1, <1>2 DEF BackLinks
<1>6. Merged'
  BY <1>1, <1>2 DEF Merged
<1>7. FreeEnds'
  BY <1>1, <1>2 DEF FreeEnds
<1>8. Locals'
  BY <1>1, <1>2 DEF Locals, Unmerged, Untold
<1> QED BY <1>3, <1>4, <1>5, <1>6, <1>7, <1>8 DEF WellFormed

\* memcpy stays inside the block, whose bytes are no header the heap still uses.
LEMMA CopyStep ==
  ASSUME KernelInv, Copy
  PROVE  KernelInv'
<1> DEFINE b == buffer + BufferPtr
           kept == {a \in Legible : a + Hdr <= b \/ a >= b + SectorSize}
<1>1. /\ TypeOK /\ HeapInv /\ (~ exhausted => Compact) /\ ReaderInv
      /\ \A p \in DOMAIN live : p >= Hdr
  BY DEF KernelInv
<1>2. /\ reading /\ pc = "idle" /\ at <= to /\ at' = at + 1
      /\ UNCHANGED <<first, pc, cur, size, old, live, segs, exhausted,
                     reading, from, to, buffer>>
  BY DEF Copy, Following
<1>3. /\ len' = [a \in kept |-> len[a]] /\ next' = [a \in kept |-> next[a]]
      /\ prev' = [a \in kept |-> prev[a]]
      /\ nextFree' = [a \in kept |-> nextFree[a]]
      /\ prevFree' = [a \in kept |-> prevFree[a]]
      /\ free' = [a \in kept |-> free[a]]
  BY DEF Copy, Overwrite
<1>4. PICK r \in Ranges : from = r[1] /\ to = r[2]
  BY <1>1, <1>2 DEF ReaderInv
<1>5. /\ from \in Nat /\ to \in Nat /\ at \in from..to
      /\ buffer \in DOMAIN live /\ buffer \in Nat /\ live[buffer] \in Nat
      /\ buffer >= Hdr /\ Hdr \in Nat \ {0} /\ SectorSize \in Nat
      /\ (to - from + 1) * SectorSize <= live[buffer]
  <2>1. from \in Nat /\ to \in Nat
    BY <1>4, DiskReadAssumption
  <2>2. at = from \/ at \in from..(to + 1)
    BY <1>1, <1>2 DEF ReaderInv
  <2>3. at \in from..to
    BY <1>2, <2>1, <2>2
  <2>4. buffer \in DOMAIN live /\ Bytes(from, to) <= live[buffer]
    BY <1>1, <1>2 DEF ReaderInv
  <2>5. ~ to < from
    BY <2>1, <2>3
  <2>6. buffer \in Nat /\ live[buffer] \in Nat
    BY <1>1, <2>4 DEF TypeOK
  <2> QED BY <1>1, <2>1, <2>3, <2>4, <2>5, <2>6, SectorType, ConstantTypes DEF Bytes
<1>6. /\ BufferPtr \in Nat
      /\ BufferPtr + SectorSize <= live[buffer]
  <2>1. /\ at - from \in Nat /\ at - from + 1 \in Int /\ to - from + 1 \in Int
        /\ at - from + 1 <= to - from + 1
    BY <1>5
  <2>2. (at - from + 1) * SectorSize <= (to - from + 1) * SectorSize
    BY <1>5, <2>1, Times
  <2>3. (at - from + 1) * SectorSize = BufferPtr + SectorSize
    BY <1>5, <2>1 DEF BufferPtr
  <2>4. BufferPtr \in Nat /\ (to - from + 1) * SectorSize \in Int
    BY <1>5, <2>1 DEF BufferPtr
  <2> QED BY <1>5, <2>2, <2>3, <2>4
<1>7. b \in Nat /\ b >= Hdr /\ b >= buffer /\ b + SectorSize <= buffer + live[buffer]
  BY <1>5, <1>6
<1> HIDE DEF b
<1>8. TypeOK'
  <2>1. 0 \in kept /\ kept \subseteq Legible
    BY <1>1, <1>5, <1>7 DEF TypeOK
  <2>2. Legible' = kept
    BY <1>3 DEF Legible
  <2>3. /\ len' \in [kept -> Int] /\ next' \in [kept -> Int]
        /\ prev' \in [kept -> Int] /\ nextFree' \in [kept -> Int]
        /\ prevFree' \in [kept -> Int] /\ free' \in [kept -> BOOLEAN]
    BY <1>1, <1>3 DEF TypeOK
  <2>4. pc \notin Unmerged
    BY <1>2 DEF Unmerged, Untold
  <2> HIDE DEF kept
  <2> QED BY <1>1, <1>2, <2>1, <2>2, <2>3, <2>4 DEF TypeOK
<1>9. HeapInv'
  <2> SUFFICES ASSUME ~ exhausted PROVE WellFormed'
    BY <1>2 DEF HeapInv
  <2>1. WellFormed /\ Tiling /\ Owned
    BY <1>1 DEF HeapInv, WellFormed
  <2>2. PICK c : c = buffer - Hdr
    OBVIOUS
  <2>3. c \in segs /\ len[c] = live[buffer] /\ c + Hdr = buffer /\ c \in Nat
    BY <1>5, <2>1, <2>2 DEF Owned
  <2>4. ASSUME NEW a \in segs PROVE a \in kept
    <3>1. a \in Legible /\ a \in Nat
      BY <1>1, <2>1, SegmentTypes
    <3>2. CASE a <= c
      BY <1>5, <1>7, <2>3, <3>1, <3>2
    <3>3. CASE a > c
      <4>1. End(c) <= a
        BY <2>1, <2>3, <3>1, <3>3 DEF Tiling
      <4> QED BY <1>5, <1>7, <2>3, <3>1, <4>1, SectorType DEF End
    <3> QED BY <2>3, <3>1, <3>2, <3>3
  <2>5. Legible' = kept
    BY <1>3 DEF Legible
  <2> HIDE DEF kept
  <2> QED BY <1>1, <1>2, <1>3, <2>1, <2>4, <2>5, SameSegments
<1>10. ReaderInv'
  <2>1. at' \in from..(to + 1)
    BY <1>2, <1>5
  <2>2. /\ reading' /\ pc' = "idle" /\ from' = from /\ to' = to
        /\ buffer' = buffer /\ live' = live
    BY <1>2
  <2>3. buffer \in DOMAIN live /\ Bytes(from, to) <= live[buffer]
        /\ reading \in BOOLEAN
    BY <1>1, <1>2 DEF ReaderInv
  <2> QED BY <1>2, <1>4, <2>1, <2>2, <2>3 DEF ReaderInv, Bytes
<1>11. pc' \in {"idle", "search", "fault"} /\ old' = 0 /\ pc' # "search"
       /\ (~ exhausted' => Compact')
  BY <1>1, <1>2 DEF KernelInv, Compact
<1> QED BY <1>1, <1>2, <1>8, <1>9, <1>10, <1>11 DEF KernelInv

\* A step of the kernel without exceptions.
LEMMA KernelStep ==
  ASSUME KernelInv, [DiskNext]_<<vars, reader>>
  PROVE  KernelInv'
<1>1. CASE Heap
  BY <1>1, HeapStep
<1>2. CASE Copy
  BY <1>2, CopyStep
<1>3. CASE Return \/ UNCHANGED <<vars, reader>>
  <2>1. UNCHANGED vars
    BY <1>3 DEF Return
  <2>2. TypeOK' /\ HeapInv'
    BY <2>1, StepTypeOK, StepHeapInv DEF KernelInv
  <2>3. UNCHANGED <<first, pc, old, size, live, exhausted>>
    BY <2>1 DEF vars
  <2>4. ReaderInv'
    <3>1. CASE Return
      BY <2>3, <3>1 DEF KernelInv, ReaderInv, Return
    <3>2. CASE UNCHANGED <<vars, reader>>
      BY <2>3, <3>2 DEF KernelInv, ReaderInv, reader, Bytes
    <3> QED BY <1>3, <3>1, <3>2
  <2> QED BY <2>2, <2>3, <2>4 DEF KernelInv, Compact
<1>4. ASSUME NEW r \in Ranges, readSectors(r[1], r[2]) PROVE KernelInv'
  <2> DEFINE n == Product(Count(r[1], r[2]), SectorSize)
  <2>1. Count(r[1], r[2]) \in Counts /\ SectorSize \in Sizes
    BY DiskReadAssumption
  <2>2. n \in Requests /\ BeginSearch(n, 0)
    BY <1>4, <2>1 DEF Requests, readSectors, Kcalloc
  <2>3. Allocate
    BY <1>4, <2>1 DEF Allocate, readSectors
  <2>4. /\ reading' = TRUE /\ from' = r[1] /\ to' = r[2] /\ at' = r[1]
        /\ pc' = "search" /\ size' = RoundUp(n)
    BY <1>4, <2>2 DEF readSectors, BeginSearch
  <2>5. Bytes(r[1], r[2]) <= RoundUp(n)
    <3>1. Bytes(r[1], r[2]) <= n /\ n <= RoundUp(n) /\ n \in Nat /\ RoundUp(n) \in Nat
      BY <2>2, AsksEnough, RoundUpFacts, HeapAssumption
    <3>2. Bytes(r[1], r[2]) \in Int
      BY SectorType, DiskReadAssumption DEF Bytes
    <3> HIDE DEF n
    <3> QED BY <3>1, <3>2
  <2>6. ReaderInv'
    BY <2>4, <2>5 DEF ReaderInv, Bytes
  <2> QED BY <2>2, <2>3, <2>6, CallStep
<1>5. CASE ~ reading /\ Allocate /\ UNCHANGED reader
  <2>1. PICK n \in Requests : BeginSearch(n, 0)
    BY <1>5 DEF Allocate, Kmalloc, Kcalloc, Requests
  <2>2. ReaderInv'
    BY <1>5 DEF KernelInv, ReaderInv, reader
  <2> QED BY <1>5, <2>1, <2>2, CallStep
<1> QED BY <1>1, <1>2, <1>3, <1>4, <1>5 DEF DiskNext, Running

\* The kernel's blocks lie before the first free segment, which ends the heap.
LEMMA BlocksBefore ==
  ASSUME TypeOK, WellFormed, Compact, pc \in {"idle", "search"}
  PROVE  /\ first \in Legible /\ first \in Nat /\ len[first] \in Nat
         /\ End(first) = Top /\ Base <= first
         /\ prev[first] = 0 /\ prevFree[first] = 0
         /\ \A p \in DOMAIN live :
              p \in Nat /\ live[p] \in Nat /\ p + live[p] <= first /\ p <= first
<1>1. /\ Tiling /\ Owned /\ first \in segs /\ free[first]
  BY DEF WellFormed, FreeEnds
<1>2. /\ first \in Legible /\ first \in Nat /\ len[first] \in Nat /\ Base <= first
  BY <1>1, SegmentTypes
<1>3. End(first) = Top /\ prev[first] = 0 /\ prevFree[first] = 0
  BY FirstIsTail
<1>4. ASSUME NEW p \in DOMAIN live
      PROVE  p \in Nat /\ live[p] \in Nat /\ p + live[p] <= first /\ p <= first
  <2>1. /\ p \in Nat /\ live[p] \in Nat /\ p <= first /\ Hdr \in Nat \ {0}
    BY ConstantTypes DEF TypeOK, Compact
  <2>2. PICK a : a = p - Hdr
    OBVIOUS
  <2>3. /\ a \in segs /\ a \in Nat /\ a < first /\ End(a) = p + live[p]
    BY <1>1, <2>1, <2>2, SegmentTypes DEF Owned, End
  <2>4. End(a) <= first
    BY <1>1, <2>3 DEF Tiling
  <2> QED BY <2>1, <2>3, <2>4
<1> QED BY <1>2, <1>3, <1>4

LEMMA MessageType ==
  /\ MessageSize \in Requests
  /\ RoundUp(MessageSize) \in Nat /\ RoundUp(MessageSize) + Hdr < Word
  /\ Add(RoundUp(MessageSize), Hdr) = RoundUp(MessageSize) + Hdr
<1>1. MessageSize \in Requests
  BY HeapPanicAssumption DEF Requests
<1> QED BY <1>1, RoundUpFacts DEF Add

\* The exception, after k of kmalloc's statements or outside it.
LEMMA ExceptionStep ==
  ASSUME KernelInv, Exception, message = 0
  PROVE  PanicInv'
<1>1. /\ TypeOK /\ WellFormed /\ Compact /\ pc \in {"idle", "search"}
      /\ ~ exhausted /\ (pc = "search" => size + Hdr < Word)
  BY DEF KernelInv, HeapInv, Exception
<1>2. /\ panicking' = TRUE /\ pc' = "search" /\ cur' = first' /\ old' = 0
      /\ size' = RoundUp(MessageSize) /\ reading' = FALSE
      /\ UNCHANGED <<live, exhausted, message>>
  BY DEF Exception
<1>3. /\ first \in Legible /\ first \in Nat /\ len[first] \in Nat
      /\ End(first) = Top /\ Base <= first
      /\ prev[first] = 0 /\ prevFree[first] = 0
      /\ \A p \in DOMAIN live :
           p \in Nat /\ live[p] \in Nat /\ p + live[p] <= first /\ p <= first
  BY <1>1, BlocksBefore
<1>4. Tail'
  <2>1. CASE done' = 0
    <3>1. /\ done' = 0 /\ room' = HasRoom(len[first])
          /\ UNCHANGED <<len, prev, prevFree, first>>
      BY <2>1 DEF Exception, header
    <3>2. Fits(cur)' \/ ~ room'
      BY <1>2, <3>1 DEF Fits, HasRoom
    <3>3. End(cur)' = Top
      BY <1>2, <1>3, <3>1 DEF End
    <3> QED BY <1>2, <1>3, <3>1, <3>2, <3>3, ConstantTypes DEF Tail, Legible
  <2>2. CASE done' # 0
    <3>1. PICK k \in 1..15 : k = done'
      BY <2>2 DEF Exception, Statements
    <3>2. /\ pc = "search" /\ cur \in Legible /\ Fits(cur) /\ cur = first
          /\ room' = HasRoom(len[cur] - (Hdr + size)) /\ HeapIs(After[k])
      BY <1>1, <2>2, <3>1
         DEF Exception, Cutting, SearchReads, WellFormed, Locals
    <3>3. /\ size \in Nat /\ Hdr \in Nat \ {0} /\ Word \in Nat
          /\ cur \in Nat /\ len[cur] \in Nat /\ End(cur) = Top /\ Top <= Word
          /\ Top \in Nat /\ Base \in Nat /\ Base <= cur
      BY <1>1, <1>3, <3>2, ConstantTypes DEF TypeOK
    <3>4. /\ len[cur] > size + Hdr /\ New = cur + Hdr + size
          /\ cur # New /\ New + Hdr + (len[cur] - (Hdr + size)) = Top
      BY <1>1, <3>2, <3>3 DEF Fits, Add, New, End
    <3>5. CutHere
      BY <3>2, <3>3, <3>4 DEF CutHere, Kept
    <3>6. After[k] = Done(k)
      BY <3>5, AfterIs
    <3>7. /\ len' = LenAfter(k) /\ prev' = PrevAfter(k)
          /\ prevFree' = PrevFreeAfter(k) /\ first' = FirstAfter(k)
      BY <3>2, <3>6, DoneFields DEF HeapIs
    <3>8. Legible' = Kept
      BY <3>7 DEF Legible, LenAfter
    <3>9. CASE k < 10
      <4>1. first' = cur /\ cur' = cur
        BY <1>2, <3>2, <3>7, <3>9 DEF FirstAfter
      <4>2. /\ len'[cur] = (IF k = 9 THEN size ELSE len[cur])
            /\ prev'[cur] = prev[cur] /\ prevFree'[cur] = prevFree[cur]
        <5>1. len'[cur] = IF k = 9 THEN size ELSE len[cur]
          BY <3>5, <3>7, <3>9 DEF LenAfter, CutHere, Before
        <5>2. prev'[cur] = prev[cur] /\ prevFree'[cur] = prevFree[cur]
          BY <3>5, <3>7 DEF PrevAfter, PrevFreeAfter, CutHere, Before
        <5> QED BY <5>1, <5>2
      <4>3. End(cur)' = cur + Hdr + len'[cur]
        BY <4>1 DEF End
      <4>4. End(cur)' <= Top /\ len'[cur'] \in Int
        BY <3>3, <3>4, <4>1, <4>2, <4>3 DEF End
      <4>5. Fits(cur)' \/ ~ room' \/ Unreachable'
        <5>1. Fits(cur)' <=> len'[cur] > RoundUp(MessageSize) + Hdr
          BY <1>2, <4>1, MessageType DEF Fits
        <5>2. room' <=> len[cur] - (Hdr + size) > RoundUp(MessageSize) + Hdr
          BY <3>2, MessageType DEF HasRoom
        <5>3. Unreachable' <=> k = 9
          BY <3>1 DEF Unreachable
        <5> QED BY <3>3, <4>2, <5>1, <5>2, <5>3, MessageType
      <4> QED BY <1>2, <1>3, <3>2, <3>3, <3>5, <3>8, <4>1, <4>2, <4>4, <4>5
             DEF Tail, CutHere
    <3>10. CASE k >= 10
      <4>1. first' = New /\ cur' = New
        BY <1>2, <3>2, <3>7, <3>10 DEF FirstAfter
      <4>2. /\ len'[New] = len[cur] - (Hdr + size)
            /\ prev'[New] = prev[cur] /\ prevFree'[New] = prevFree[cur]
        <5>1. len'[New] = len[cur] - (Hdr + size)
          BY <3>5, <3>7, <3>10 DEF LenAfter, CutHere
        <5>2. prev'[New] = prev[cur] /\ prevFree'[New] = prevFree[cur]
          BY <3>5, <3>7, <3>10 DEF PrevAfter, PrevFreeAfter, CutHere
        <5> QED BY <5>1, <5>2
      <4>3. New \in Nat /\ Base <= New /\ cur <= New /\ New \in Legible'
        BY <3>3, <3>4, <3>5, <3>8 DEF CutHere
      <4>4. End(cur)' = Top /\ len'[cur'] \in Int
        BY <3>3, <3>4, <4>1, <4>2 DEF End
      <4>5. Fits(cur)' \/ ~ room'
        <5>1. Fits(cur)' <=> len'[New] > Add(RoundUp(MessageSize), Hdr)
          BY <1>2, <4>1 DEF Fits
        <5>2. room' <=> len[cur] - (Hdr + size) > Add(RoundUp(MessageSize), Hdr)
          BY <3>2 DEF HasRoom
        <5> QED BY <4>2, <5>1, <5>2
      <4>6. \A p \in DOMAIN live :
              p \in Nat /\ live[p] \in Nat /\ p + live[p] <= New /\ p <= New
        BY <1>3, <3>2, <3>3, <4>3
      <4> QED BY <1>2, <1>3, <3>2, <3>3, <4>1, <4>2, <4>3, <4>4, <4>5, <4>6
             DEF Tail
    <3> QED BY <3>9, <3>10
  <2> QED BY <2>1, <2>2
<1>5. HandlerInv'
  BY <1>1, <1>2, <1>4 DEF HandlerInv
<1>6. MessageFound'
  BY <1>1, <1>2 DEF MessageFound
<1> QED BY <1>2, <1>5, <1>6 DEF PanicInv

\* The handler's search ends at the first segment it looks at, with a block
\* from it or past the list.
LEMMA HandlerStep ==
  ASSUME panicking, HandlerInv, MessageFound, Handler
  PROVE  PanicInv'
<1>1. /\ ~ reading /\ pc \in {"idle", "search", "fault"} /\ old = 0
      /\ Internal /\ panicking' /\ ~ reading'
      /\ UNCHANGED <<room, done>>
      /\ message' = IF SearchTake THEN Returned ELSE message
  BY DEF HandlerInv, Handler, reader
<1>2. /\ pc = "search"
      /\ SearchTake \/ SearchNext \/ Fault
  BY <1>1 DEF Internal, SearchTake, SearchNext, Release, LinkNextFree,
              LinkPrevFree, MergeNext, MergePrev, Fault
<1>3. exhausted => ~ room \/ Unreachable
  BY DEF MessageFound
<1>4. CASE exhausted
  <2>1. exhausted' /\ pc' \in {"idle", "search", "fault"} /\ old' = 0
    BY <1>1, <1>2, <1>4 DEF SearchTake, SearchNext, Fault
  <2> QED BY <1>1, <1>3, <1>4, <2>1 DEF PanicInv, HandlerInv, MessageFound, Unreachable
<1>5. CASE ~ exhausted
  <2>1. Tail /\ size = RoundUp(MessageSize) /\ message = 0
    BY <1>2, <1>5 DEF HandlerInv
  <2>2. SearchReads \subseteq Legible
    BY <2>1 DEF Tail, SearchReads, Linkers
  <2>3. CASE SearchTake
    <3>1. /\ pc' = "idle" /\ old' = 0 /\ ~ exhausted' /\ Fits(cur)
          /\ live' = [p \in DOMAIN live \cup {cur + Hdr} |->
                        IF p = cur + Hdr THEN size ELSE live[p]]
          /\ message' = cur + Hdr
      BY <1>1, <1>5, <2>3 DEF SearchTake, Returned
    <3>2. /\ cur \in Nat /\ len[cur] \in Int /\ size \in Nat /\ Hdr \in Nat \ {0}
          /\ Top \in Nat /\ Base \in Nat /\ Base <= cur /\ cur + Hdr + len[cur] <= Top
          /\ len[cur] > size + Hdr
      BY <2>1, <3>1, MessageType, ConstantTypes DEF Tail, End, Fits
    <3>3. live'[message'] = size
      BY <3>1
    <3>4. \A p \in DOMAIN live' : p = message' \/
            /\ p \in Nat /\ live'[p] \in Nat /\ p + live'[p] <= cur /\ p <= cur
      BY <2>1, <3>1 DEF Tail
    <3>5. /\ Base + Hdr <= message' /\ message' + live'[message'] <= Top
      BY <3>1, <3>2, <3>3
    <3>6. \A p \in DOMAIN live' :
            /\ p < message' => p + live'[p] + Hdr <= message'
            /\ ~ p > message'
      BY <3>1, <3>2, <3>4
    <3>7. MessageFound'
      BY <3>1, <3>5, <3>6 DEF MessageFound
    <3> QED BY <1>1, <3>1, <3>7 DEF PanicInv, HandlerInv
  <2>4. CASE SearchNext
    <3>1. /\ pc' = "search" /\ old' = 0 /\ exhausted' /\ ~ Fits(cur)
          /\ message' = message
      BY <1>1, <1>2, <2>4 DEF SearchNext, SearchTake
    <3>2. ~ room' \/ Unreachable'
      BY <1>1, <2>1, <3>1 DEF Tail, Unreachable
    <3> QED BY <1>1, <3>1, <3>2 DEF PanicInv, HandlerInv, MessageFound
  <2>5. CASE Fault
    BY <1>2, <2>2, <2>5 DEF Fault
  <2> QED BY <1>2, <2>3, <2>4, <2>5
<1> QED BY <1>4, <1>5

\* PanicInv is inductive.
LEMMA PanicStep == PanicInv /\ [PanicNext]_<<vars, reader, panic>> => PanicInv'
<1> SUFFICES ASSUME PanicInv, [PanicNext]_<<vars, reader, panic>> PROVE PanicInv'
  OBVIOUS
<1>1. CASE Kernel
  <2>1. /\ ~ panicking /\ DiskNext /\ UNCHANGED <<panicking, done, room, message>>
    BY <1>1 DEF Kernel, panic
  <2>2. KernelInv' /\ message' = 0 /\ ~ panicking'
    BY <2>1, KernelStep DEF PanicInv
  <2> QED BY <2>2 DEF PanicInv, MessageFound
<1>2. CASE Exception
  BY <1>2, ExceptionStep DEF PanicInv, Exception
<1>3. CASE Handler
  BY <1>3, HandlerStep DEF PanicInv, Handler
<1>4. CASE UNCHANGED <<vars, reader, panic>>
  <2>1. UNCHANGED <<vars, reader>> /\ UNCHANGED <<panicking, done, room, message>>
    BY <1>4 DEF panic
  <2>2. ~ panicking => KernelInv'
    BY <2>1, KernelStep DEF PanicInv
  <2>3. UNCHANGED <<len, prev, prevFree, pc, cur, size, old, live, exhausted, reading>>
    BY <2>1 DEF vars, header, reader
  <2>4. panicking => HandlerInv'
    BY <2>1, <2>3 DEF PanicInv, HandlerInv, Tail, End, Fits, Legible, Unreachable
  <2>5. MessageFound'
    BY <2>1, <2>3 DEF PanicInv, MessageFound, Unreachable
  <2> QED BY <2>1, <2>2, <2>4, <2>5 DEF PanicInv
<1> QED BY <1>1, <1>2, <1>3, <1>4 DEF PanicNext

-----------------------------------------------------------------------------
\* The heap stays in order while sectors are read into it, and the handler's
\* search starts at the end of it, whenever the exception comes.
THEOREM PanicInvariant == PanicSpec => []PanicInv
  BY InitPanic, PanicStep, PTL DEF PanicSpec

\* Every sector is copied into the block that was allocated for it.
THEOREM ReadsInside == PanicSpec => []InsideBlock
<1>1. PanicInv => InsideBlock
  <2> SUFFICES ASSUME PanicInv, reading, pc = "idle"
               PROVE  BufferPtr <= live[buffer]
    BY DEF InsideBlock
  <2>1. KernelInv
    BY DEF PanicInv, HandlerInv
  <2>2. PICK r \in Ranges : from = r[1] /\ to = r[2]
    BY <2>1 DEF KernelInv, ReaderInv
  <2>3. /\ from \in Nat /\ to \in Nat /\ SectorSize \in Nat
        /\ buffer \in DOMAIN live /\ live[buffer] \in Nat
        /\ Bytes(from, to) <= live[buffer]
        /\ at = from \/ at \in from..(to + 1)
    BY <2>1, <2>2, DiskReadAssumption, SectorType DEF KernelInv, ReaderInv, TypeOK
  <2>4. CASE at = from
    BY <2>3, <2>4 DEF BufferPtr
  <2>5. CASE at \in (from + 1)..(to + 1)
    <3>1. /\ at - from \in Int /\ to - from + 1 \in Int /\ at - from <= to - from + 1
          /\ ~ to < from
      BY <2>3, <2>5
    <3>2. (at - from) * SectorSize <= (to - from + 1) * SectorSize
      BY <2>3, <3>1, Times
    <3>3. (at - from) * SectorSize \in Int /\ (to - from + 1) * SectorSize \in Int
      BY <2>3, <3>1
    <3> QED BY <2>3, <3>1, <3>2, <3>3 DEF BufferPtr, Bytes
  <2> QED BY <2>3, <2>4, <2>5
<1> QED BY <1>1, PanicInvariant, PTL

\* Wherever the exception comes, the handler finds memory for its message
\* inside the heap and apart from every block, if there is any, except between
\* the two statements of Unreachable.
THEOREM MessageIsFound == PanicSpec => []MessageFound
<1>1. PanicInv => MessageFound
  BY DEF PanicInv
<1> QED BY <1>1, PanicInvariant, PTL

\* kmalloc's fifteen statements are SearchTake's one step.
THEOREM StatementsAgreeWithStep == PanicSpec => StatementsAgree
<1>1. PanicInv /\ [PanicNext]_<<vars, reader, panic>>
        => [Kernel /\ SearchTake => HeapIs(After[Statements])]_<<vars, reader, panic>>
  <2> SUFFICES ASSUME PanicInv, Kernel, SearchTake
               PROVE  HeapIs(After[Statements])
    OBVIOUS
  <2>1. TypeOK /\ size + Hdr < Word
    BY DEF PanicInv, Kernel, KernelInv, SearchTake
  <2>2. CutHere
    BY <2>1, CutWhere
  <2>3. After[Statements] = Done(15)
    BY <2>2, AfterIs DEF Statements
  <2> QED BY <2>1, <2>2, <2>3, TakeIsDone
<1> QED BY <1>1, PanicInvariant, PTL DEF PanicSpec, StatementsAgree
=============================================================================
