---------------------------- MODULE SectorDevice ----------------------------
(***************************************************************************)
(* What the floppy driver promises its callers: it comes up, and from then *)
(* on every sector asked for is answered with that sector's contents.      *)
(***************************************************************************)
CONSTANTS
    Sectors,    \* the sectors of the disk
    None        \* no sector

VARIABLES
    up,         \* the device takes requests
    want,       \* the sector asked for, or None
    got         \* the sector whose contents the last caller received

vars == <<up, want, got>>

Init == up = FALSE /\ want = None /\ got = None

ComeUp ==
    /\ ~ up
    /\ up' = TRUE
    /\ UNCHANGED <<want, got>>

Ask(s) ==
    /\ up
    /\ want = None
    /\ want' = s
    /\ UNCHANGED <<up, got>>

Answer ==
    /\ want # None
    /\ got' = want
    /\ want' = None
    /\ UNCHANGED up

Next == ComeUp \/ Answer \/ \E s \in Sectors : Ask(s)

Spec == Init /\ [][Next]_vars /\ WF_vars(ComeUp) /\ WF_vars(Answer)
=============================================================================
