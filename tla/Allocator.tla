----------------------------- MODULE Allocator ------------------------------
(***************************************************************************)
(* What the kernel heap promises a client that never allocates while a     *)
(* block it freed lies below one it still owns: blocks that lie inside the *)
(* region, a header's room apart, and a request that is only given up when *)
(* it does not fit above the last block.  Giving up is final: the code has *)
(* no way to report it, see KernelHeap.                                    *)
(***************************************************************************)
EXTENDS Integers

CONSTANTS
    Base, Length,   \* the region
    Hdr,            \* what each block costs besides its bytes
    Requests,       \* the sizes that are asked for
    None            \* no request is being served

VARIABLES
    blocks,     \* the blocks clients own, address -> bytes
    want,       \* the request being served, or None
    gaveUp      \* a request could not be served

vars == <<blocks, want, gaveUp>>

Init ==
    /\ blocks = [p \in {} |-> 0]
    /\ want = None
    /\ gaveUp = FALSE

Request(n) ==
    /\ want = None
    /\ ~ gaveUp
    /\ want' = n
    /\ UNCHANGED <<blocks, gaveUp>>

\* p + n bytes are free, with room for a header on either side.
Room(p, n) ==
    /\ Base + Hdr <= p
    /\ p + n + Hdr <= Base + Length
    /\ \A q \in DOMAIN blocks : \/ p + n + Hdr <= q
                                \/ q + blocks[q] + Hdr <= p

Allocate(p) ==
    /\ want # None
    /\ Room(p, want)
    /\ blocks' = [q \in DOMAIN blocks \cup {p} |->
                    IF q = p THEN want ELSE blocks[q]]
    /\ want' = None
    /\ UNCHANGED gaveUp

Ends == {Base} \cup {p + blocks[p] : p \in DOMAIN blocks}

\* The request does not fit between the last block and the end of the region.
GiveUp ==
    /\ want # None
    /\ \E e \in Ends : /\ \A f \in Ends : f <= e
                       /\ e + Hdr + want + Hdr >= Base + Length
    /\ blocks' = [p \in {} |-> 0]
    /\ want' = None
    /\ gaveUp' = TRUE

Free(p) ==
    /\ want = None
    /\ blocks' = [q \in DOMAIN blocks \ {p} |-> blocks[q]]
    /\ UNCHANGED <<want, gaveUp>>

Next == \/ \E n \in Requests : Request(n)
        \/ \E p \in Base..(Base + Length) : Allocate(p)
        \/ GiveUp
        \/ \E p \in DOMAIN blocks : Free(p)

Spec == Init /\ [][Next]_vars

=============================================================================
