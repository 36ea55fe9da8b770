-------------------------------- MODULE Time --------------------------------
(***************************************************************************)
(* readRTC of debug/other/time.cpp against the real-time clock.  readRTC   *)
(* reads the clock's six registers again and again, each time when no      *)
(* update is under way, until two passes give the same; then it converts   *)
(* them from what the clock's registers hold to a time of the day and date.*)
(*                                                                         *)
(* The clock may start and end an update between any two reads.  A read    *)
(* during an update delivers the old byte, the new one or neither.  The    *)
(* registers are in BCD or binary, the hour of 24 or of 12 with a bit for  *)
(* the afternoon.  A second is long: between two updates a register is     *)
(* read at least Quiet times.  Updates bounds the updates during a call,   *)
(* and the clock stays within the century that two digits tell.            *)
(* TIME_T is not in the repository; its fields are wide enough for a year. *)
(*                                                                         *)
(* SecondsAgree and SavedNever are not part of the model: they are mistakes *)
(* the code could have made.                                               *)
(***************************************************************************)
EXTENDS Integers, Sequences

CONSTANTS
    Starts,         \* when readRTC may be called
    CURRENT_YEAR,   \* the year the code was built in
    Quiet, Updates

DaysOf(month, year) ==
    IF month = 2 THEN IF year % 4 = 0 THEN 29 ELSE 28
    ELSE IF month \in {4, 6, 9, 11} THEN 30 ELSE 31

\* A time: second, minute, hour, day, month and year.  The clock has two
\* digits of the year, which make a century from CURRENT_YEAR on.
IsTime(t) ==
    /\ t \in [1..6 -> Nat]
    /\ t[1] \in 0..59 /\ t[2] \in 0..59 /\ t[3] \in 0..23
    /\ t[5] \in 1..12 /\ t[4] \in 1..DaysOf(t[5], t[6])
    /\ t[6] \in CURRENT_YEAR..(CURRENT_YEAR + 99)

\* No update hits two of three passes in a row.
ASSUME TimeAssumption ==
    /\ CURRENT_YEAR \in Nat
    /\ \A t \in Starts : IsTime(t)
    /\ Updates \in Nat
    /\ Quiet \in Nat /\ Quiet >= 18

VARIABLES
    clock, began,       \* the time, and what it was when this pass began
    mode,               \* of the registers: fields bcd and half, half a day
    updating,           \* an update is under way
    unread, updates,    \* reads until the next update may come, and updates
    current, last,      \* what this pass has read, and what the one before
    reg,                \* the next register to read
    rtc                 \* "idle", "flag", "read", "compare" or "done"

clockVars == <<clock, mode, updating, unread, updates>>
timeVars == <<clockVars, began, current, last, reg, rtc>>

-----------------------------------------------------------------------------
(***************************************************************************)
(* The clock.                                                              *)
(***************************************************************************)
\* A second later: the fields below the first that does not overflow restart.
After(t) ==
    LET Last == <<59, 59, 23, DaysOf(t[5], t[6]), 12>>
        Least == <<0, 0, 0, 1, 1>>
        Overflows(k) == k <= 5 /\ \A j \in 1..k : t[j] = Last[j]
    IN  [k \in 1..6 |-> IF Overflows(k) THEN Least[k]
                        ELSE IF k = 1 \/ Overflows(k - 1) THEN t[k] + 1
                        ELSE t[k]]

Byte(n) == IF mode.bcd THEN 16 * (n \div 10) + (n % 10) ELSE n

HourByte(h) ==
    IF ~ mode.half THEN Byte(h)
    ELSE Byte(IF h % 12 = 0 THEN 12 ELSE h % 12) + (IF h >= 12 THEN 128 ELSE 0)

Register(t, k) ==
    CASE k = 3 -> HourByte(t[3])
      [] k = 6 -> Byte(t[6] % 100)
      [] OTHER -> Byte(t[k])

BeginUpdate ==
    /\ rtc \notin {"idle", "done"}
    /\ ~ updating /\ unread = 0 /\ updates < Updates
    /\ After(clock)[6] <= CURRENT_YEAR + 99
    /\ updating' = TRUE
    /\ UNCHANGED <<clock, began, mode, unread, updates, current, last, reg,
                   rtc>>

EndUpdate ==
    /\ rtc \notin {"idle", "done"}
    /\ updating
    /\ updating' = FALSE
    /\ clock' = After(clock)
    /\ unread' = Quiet /\ updates' = updates + 1
    /\ UNCHANGED <<began, mode, current, last, reg, rtc>>

-----------------------------------------------------------------------------
(***************************************************************************)
(* readRTC.                                                                *)
(***************************************************************************)
Zero == [k \in 1..6 |-> 0]

\* What the clock holds while nobody reads it is left out.
Unknown == <<>>

TimeInit ==
    /\ clock = Unknown /\ began = Unknown /\ mode = Unknown
    /\ updating = FALSE /\ unread = 0 /\ updates = 0
    /\ current = Zero /\ last = <<>> /\ reg = 1 /\ rtc = "idle"

\* The call comes at any time.
readRTC ==
    /\ rtc = "idle"
    /\ rtc' = "flag"
    /\ clock' \in Starts
    /\ mode' \in [bcd : BOOLEAN, half : BOOLEAN]
    /\ UNCHANGED <<began, updating, unread, updates, current, last, reg>>

\* The loop on getUpdateFlag ends, and a pass begins.
FlagClear ==
    /\ rtc = "flag" /\ ~ updating
    /\ rtc' = "read" /\ reg' = 1
    /\ began' = clock
    /\ UNCHANGED <<clockVars, current, last>>

getRTCReg(k) ==
    IF updating THEN {Register(clock, k), Register(After(clock), k), 255}
    ELSE {Register(clock, k)}

ReadRegister ==
    /\ rtc = "read"
    /\ \E b \in getRTCReg(reg) : current' = [current EXCEPT ![reg] = b]
    /\ reg' = reg + 1
    /\ rtc' = IF reg = 6 THEN "compare" ELSE "read"
    /\ unread' = IF unread > 0 THEN unread - 1 ELSE 0
    /\ UNCHANGED <<clock, began, mode, updating, updates, last>>

\* Before the first pass last is empty.
SecondsAgree(l, c) == l # <<>> /\ l[1] = c[1]
Agree(l, c) == l = c

SavedNever(l, c) == l
Saved(l, c) == c

AnotherPass ==
    /\ rtc = "compare" /\ ~ Agree(last, current)
    /\ last' = Saved(last, current)
    /\ rtc' = "flag"
    /\ UNCHANGED <<clockVars, began, current, reg>>

FromBcd(b) == (b % 16) + (b \div 16) * 10

\* The afternoon's bit is kept.
HourFromBcd(b) == (b % 16) + ((b \div 16) % 8) * 10 + 128 * (b \div 128)

Binary(c) ==
    [k \in 1..6 |-> IF ~ mode.bcd THEN c[k]
                    ELSE IF k = 3 THEN HourFromBcd(c[k]) ELSE FromBcd(c[k])]

OfDay(h) == IF mode.half /\ h >= 128 THEN ((h % 128) + 12) % 24 ELSE h

FullYear(y) ==
    LET full == y + (CURRENT_YEAR \div 100) * 100
    IN  IF full < CURRENT_YEAR THEN full + 100 ELSE full

Convert ==
    /\ rtc = "compare" /\ Agree(last, current)
    /\ LET b == Binary(current)
       IN  current' = [b EXCEPT ![3] = OfDay(b[3]), ![6] = FullYear(b[6])]
    /\ rtc' = "done"
    /\ UNCHANGED <<clockVars, began, last, reg>>

Reading == FlagClear \/ ReadRegister \/ AnotherPass \/ Convert

Clock == BeginUpdate \/ EndUpdate

\* The caller has the result: what was read no longer matters.
Forget ==
    /\ rtc = "done"
    /\ rtc' = "idle" /\ reg' = 1
    /\ updating' = FALSE /\ unread' = 0 /\ updates' = 0
    /\ current' = Zero /\ last' = <<>>
    /\ clock' = Unknown /\ began' = Unknown /\ mode' = Unknown

-----------------------------------------------------------------------------
\* The hour of a clock that counts to twelve is between twelve and one.
TwelveOClock(t) == mode.half /\ t[3] % 12 = 0

\* What readRTC returns is the time at which its last pass began, field by
\* field: never a mixture of two times, nor what stood in a register while the
\* clock moved on, nor the time of an earlier pass.  Nothing is said of the
\* hour at twelve o'clock if the clock counts to twelve.
ReadsTheTime ==
    rtc = "done" =>
      \A k \in 1..6 : current[k] = began[k] \/ (k = 3 /\ TwelveOClock(began))

\* time.cpp says of its last step but one: "Convert 12 current->hour clock to 24
\* current->hour clock if necessary".  A run shows that it does not.
HourOfTheDay == rtc = "done" /\ mode.half => current[3] = began[3]
=============================================================================
