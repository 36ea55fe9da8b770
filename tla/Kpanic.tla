------------------------------- MODULE Kpanic -------------------------------
(***************************************************************************)
(* kpanic of src/kernel/hal/stdout.cpp from the exception to the end:      *)
(* Console's screen and PowerOff's waits in the order kpanic has them.     *)
(* The message is printed, then the wait of sleepRTC(500), then the words  *)
(* POWER OFF after two newlines, then sleepRTC(20) and the power's end.    *)
(*                                                                         *)
(* Interrupts are off, so kpanic and the clock are all there is.  Of the   *)
(* clock only what kpanic sees of it matters: its time when the first      *)
(* reading starts is arbitrary.                                            *)
(***************************************************************************)
EXTENDS Console

CONSTANTS
    FarewellChars, FarewellLines,   \* of the second text, in MessageChars
    Minutes, Starts                 \* PowerOff's

ASSUME KpanicAssumption ==
    /\ FarewellChars \in 0..MessageChars /\ FarewellLines \in 0..MessageLines
    /\ Minutes \in 1..60
    /\ Starts \subseteq (0..(Minutes - 1)) \X (0..59)

VARIABLES clock, unread, timer, nap, first, currentTime, startTime, elapsedTime

sleepVars == <<clock, unread, timer, nap, first, currentTime, startTime,
               elapsedTime>>

Off == INSTANCE PowerOff WITH pc <- timer

KpanicInit == Init /\ Off!Init

\* What has been printed when sleepRTC is called for the nap-th time.
Chars == MessageChars - IF nap = 1 THEN FarewellChars ELSE 0
Lines == MessageLines - IF nap = 1 THEN FarewellLines ELSE 0

Said == pc = "message" /\ drawn = Chars /\ newlines = Lines

\* The kernel prints: the dump, kpanic's wiping, its two texts.
Show ==
    /\ ~ Said
    /\ Next
    /\ pc' = "message" => drawn' <= Chars /\ newlines' <= Lines
    /\ UNCHANGED sleepVars

\* sleepRTC, and the write to the power management port after the second.
Sleep == Said /\ Off!Cpu /\ UNCHANGED vars

Tick == Off!Tick /\ UNCHANGED vars

KpanicNext == Show \/ Sleep \/ Tick

allVars == <<vars, sleepVars>>

\* An exception may never come; kpanic, once begun, goes on, and so does the
\* clock.
KpanicFairness ==
    /\ WF_allVars(pc # "dump" /\ Show)
    /\ WF_allVars(Sleep) /\ WF_allVars(Tick)

KpanicSpec == KpanicInit /\ [][KpanicNext]_allVars /\ KpanicFairness

-----------------------------------------------------------------------------
\* Whenever the exception comes, kpanic wipes the screen, prints its texts and
\* turns the power off.  sleepRTC(500) is longer than any two sums differ: it
\* returns when the sum falls below its start and the difference wraps around,
\* at the full hour at the latest, unless the sum it started with was 0.
PoweredOff == pc = "fill" ~> timer = "off" \/ (~ first /\ startTime = 0)
=============================================================================
