------------------------------- MODULE Stdout -------------------------------
(***************************************************************************)
(* src/kernel/hal/stdout.cpp: the texts, which are Printf's, and the       *)
(* screen and the clock, which are Kpanic's.  Kpanic takes of a text only  *)
(* how many characters and newlines it has, and Printf has no screen, so   *)
(* that neither changes what the other sees: a behaviour is one of         *)
(* Printf's or one of Kpanic's.                                            *)
(***************************************************************************)
EXTENDS Kpanic, Printf

VARIABLE part   \* "printf" or "kpanic"

\* The part that rests is in any one of its initial states.
Rests(x, S) == x = CHOOSE y \in S : TRUE

StdoutInit ==
    /\ \/ part = "printf" /\ Rests(clock, Starts)
       \/ part = "kpanic" /\ Rests(format, Formats)
    /\ KpanicInit /\ PrintfInit

PrintfStep == part = "printf" /\ PrintfNext /\ UNCHANGED <<allVars, part>>

KpanicStep == part = "kpanic" /\ KpanicNext /\ UNCHANGED <<printfVars, part>>

\* While Printf runs no exception has come, and kpanic has nothing to do.
StdoutSpec ==
    /\ StdoutInit /\ [][PrintfStep \/ KpanicStep]_<<allVars, printfVars, part>>
    /\ KpanicFairness
=============================================================================
