------------------------------ MODULE PowerOff ------------------------------
(***************************************************************************)
(* The end of kpanic in src/kernel/hal/stdout.cpp: sleepRTC(500),          *)
(* sleepRTC(20) and the write to the power management port, against the    *)
(* real-time clock, which goes on while its registers are read.            *)
(*                                                                         *)
(* Interrupts are off, so main code and the clock are all there is.  The   *)
(* clock's registers are in BCD; sleepRTC adds up seconds (register 0) and *)
(* minutes (register 2).  The loop is much faster than the clock: it reads *)
(* both registers at least once between two ticks.  Minutes is the bound   *)
(* on the length of an hour.  Kpanic says when these actions run.          *)
(*                                                                         *)
(* SignedGap is not part of the model: it is a mistake the code could have *)
(* made.                                                                   *)
(***************************************************************************)
EXTENDS Integers, Sequences

CONSTANTS
    Minutes,    \* minutes of an hour
    Starts      \* when kpanic may start to wait

VARIABLES
    clock,      \* minute and second
    unread,     \* registers to be read before the next tick
    pc,         \* "second", "minute", "test" or "off"
    nap,        \* which call of sleepRTC
    first,      \* its first reading is not over
    currentTime, startTime, elapsedTime

vars == <<clock, unread, pc, nap, first, currentTime, startTime, elapsedTime>>

Bcd(n) == 16 * (n \div 10) + (n % 10)

Word(n) == n % 65536

Naps == <<500, 20>>

Init ==
    /\ clock \in Starts
    /\ unread = 2
    /\ pc = "second" /\ nap = 1 /\ first = TRUE
    /\ currentTime = 0 /\ startTime = 0 /\ elapsedTime = 0

ReadSecond ==
    /\ pc = "second"
    /\ currentTime' = Bcd(clock[2])
    /\ unread' = IF unread = 2 THEN 1 ELSE unread
    /\ pc' = "minute"
    /\ UNCHANGED <<clock, nap, first, startTime, elapsedTime>>

ReadMinute ==
    /\ pc = "minute"
    /\ currentTime' = Word(currentTime + Bcd(clock[1]))
    /\ unread' = IF unread = 1 THEN 0 ELSE unread
    /\ IF first THEN startTime' = currentTime' /\ elapsedTime' = 0
       ELSE UNCHANGED <<startTime, elapsedTime>>
    /\ first' = FALSE
    /\ pc' = "test"
    /\ UNCHANGED <<clock, nap>>

\* The difference of two words, as a word.
SignedGap(current, start) == current - start
Gap(current, start) == Word(current - start)

Wait ==
    /\ pc = "test"
    /\ elapsedTime < Naps[nap]
    /\ elapsedTime' = Gap(currentTime, startTime)
    /\ pc' = "second"
    /\ UNCHANGED <<clock, unread, nap, first, currentTime, startTime>>

\* sleepRTC returns: kpanic sleeps again, or turns the power off.
Return ==
    /\ pc = "test"
    /\ elapsedTime >= Naps[nap]
    /\ IF nap < Len(Naps)
       THEN nap' = nap + 1 /\ first' = TRUE /\ pc' = "second"
       ELSE pc' = "off" /\ UNCHANGED <<nap, first>>
    /\ UNCHANGED <<clock, unread, currentTime, startTime, elapsedTime>>

After(t) ==
    IF t[2] < 59 THEN <<t[1], t[2] + 1>> ELSE <<(t[1] + 1) % Minutes, 0>>

Tick ==
    /\ unread = 0
    /\ clock' = After(clock)
    /\ unread' = 2
    /\ UNCHANGED <<pc, nap, first, currentTime, startTime, elapsedTime>>

Cpu == ReadSecond \/ ReadMinute \/ Wait \/ Return
=============================================================================
