---------------------------- MODULE ShellProofs ----------------------------
(***************************************************************************)
(* Proofs about Shell and Time, for every length of the line, set of       *)
(* commands and start of the clock: the command that runs is the one that  *)
(* is shown, no process is left over, and readRTC never returns a mixture  *)
(* of two times.                                                           *)
(***************************************************************************)
EXTENDS Shell, TLAPS

(***************************************************************************)
(* readRTC: what two passes that agree have read.                          *)
(***************************************************************************)
\* The byte of register k at time t, for registers in mode m.
ByteIn(m, n) == IF m.bcd THEN 16 * (n \div 10) + (n % 10) ELSE n

RegisterIn(m, t, k) ==
    IF k = 3 THEN IF ~ m.half THEN ByteIn(m, t[3])
                  ELSE ByteIn(m, IF t[3] % 12 = 0 THEN 12 ELSE t[3] % 12)
                         + (IF t[3] >= 12 THEN 128 ELSE 0)
    ELSE IF k = 6 THEN ByteIn(m, t[6] % 100)
    ELSE ByteIn(m, t[k])

\* The first r bytes of c are time t's.
Shows(c, m, t, r) == \A k \in 1..6 : k <= r => c[k] = RegisterIn(m, t, k)

\* The pass before this one, if any, has read time t.
LastIs(l, m, t) == l = <<>> \/ Shows(l, m, t, 6)

Modes == [bcd : BOOLEAN, half : BOOLEAN]
Bytes == [1..6 -> Nat]

\* What this pass has read.
Reads == IF rtc = "flag" THEN 0 ELSE reg - 1

\* No update has come since this pass began.  If the last pass met one, the
\* next one is still far.
Undisturbed ==
    /\ ~ updating
    /\ rtc # "flag" => began = clock
    /\ Shows(current, mode, clock, Reads)
    /\ LastIs(last, mode, clock) \/ unread + Reads >= 12

\* An update is under way.  If it began in this pass, the last one was read
\* from the clock as it is.
InUpdate ==
    /\ updating
    /\ After(clock)[6] <= CURRENT_YEAR + 99
    /\ rtc # "flag" => began = clock /\ LastIs(last, mode, clock)

\* An update that began in this pass is over: the last pass was read before.
Updated ==
    /\ ~ updating /\ rtc # "flag"
    /\ unread + Reads >= 18
    /\ LastIs(last, mode, began)

Passes ==
    /\ mode \in Modes /\ IsTime(clock)
    /\ rtc # "flag" => IsTime(began)
    /\ updating \in BOOLEAN /\ unread \in Nat
    /\ current \in Bytes /\ last \in Bytes \cup {<<>>}
    /\ rtc = "read" => reg \in 1..6
    /\ rtc = "compare" => reg = 7
    /\ Undisturbed \/ InUpdate \/ Updated

TimeInv ==
    /\ rtc \in {"idle", "flag", "read", "compare", "done"}
    /\ rtc = "idle" => /\ updating = FALSE /\ unread = 0
                       /\ current = Zero /\ last = <<>>
    /\ rtc \in {"flag", "read", "compare"} => Passes
    /\ ReadsTheTime

LEMMA Days ==
  ASSUME NEW m, NEW y
  PROVE  DaysOf(m, y) \in 28..31
  BY DEF DaysOf

\* A second after a time is a time, within the century.
LEMMA AfterIsTime ==
  ASSUME NEW t, IsTime(t), After(t)[6] <= CURRENT_YEAR + 99
  PROVE  IsTime(After(t))
<1> DEFINE u == After(t)
           days == DaysOf(t[5], t[6])
           o1 == t[1] = 59
           o2 == o1 /\ t[2] = 59
           o3 == o2 /\ t[3] = 23
           o4 == o3 /\ t[4] = days
           o5 == o4 /\ t[5] = 12
<1>1. /\ days \in 28..31 /\ CURRENT_YEAR \in Nat
  BY Days, TimeAssumption
<1>2. /\ u = [k \in 1..6 |-> u[k]]
      /\ u[1] = IF o1 THEN 0 ELSE t[1] + 1
      /\ u[2] = IF o2 THEN 0 ELSE IF o1 THEN t[2] + 1 ELSE t[2]
      /\ u[3] = IF o3 THEN 0 ELSE IF o2 THEN t[3] + 1 ELSE t[3]
      /\ u[4] = IF o4 THEN 1 ELSE IF o3 THEN t[4] + 1 ELSE t[4]
      /\ u[5] = IF o5 THEN 1 ELSE IF o4 THEN t[5] + 1 ELSE t[5]
      /\ u[6] = IF o5 THEN t[6] + 1 ELSE t[6]
  BY DEF After
<1>3. /\ t[1] \in 0..59 /\ t[2] \in 0..59 /\ t[3] \in 0..23
      /\ t[4] \in 1..days /\ t[5] \in 1..12
      /\ t[6] \in CURRENT_YEAR..(CURRENT_YEAR + 99)
      /\ t \in [1..6 -> Nat]
  BY DEF IsTime
<1>4. ~ o4 => u[5] = t[5] /\ u[6] = t[6]
  BY <1>2
<1>5. u[4] \in 1..DaysOf(u[5], u[6])
  <2> HIDE DEF u
  <2>1. CASE o4
    BY <2>1, <1>2, Days, DaysOf(u[5], u[6]) \in 28..31
  <2>2. CASE ~ o4
    <3>1. DaysOf(u[5], u[6]) = days
      BY <2>2, <1>4
    <3> QED BY <2>2, <3>1, <1>1, <1>2, <1>3
  <2> QED BY <2>1, <2>2
<1>6. /\ u[1] \in 0..59 /\ u[2] \in 0..59 /\ u[3] \in 0..23 /\ u[5] \in 1..12
      /\ u[6] \in CURRENT_YEAR..(CURRENT_YEAR + 99)
  <2> HIDE DEF u
  <2> QED BY <1>1, <1>2, <1>3, After(t)[6] <= CURRENT_YEAR + 99 DEF u
<1>7. u[4] \in Nat
  BY <1>1, <1>2, <1>3
<1>8. u \in [1..6 -> Nat]
  <2> HIDE DEF u
  <2>1. CURRENT_YEAR..(CURRENT_YEAR + 99) \subseteq Nat
    BY <1>1
  <2>2. \A k \in 1..6 : u[k] \in Nat
    BY <1>6, <1>7, <2>1
  <2> QED BY <1>2, <2>2
<1> QED BY <1>5, <1>6, <1>8 DEF IsTime

\* The registers' bytes, as the model's Register gives them.
LEMMA RegisterBytes ==
  ASSUME mode \in Modes, NEW t, IsTime(t), NEW k \in 1..6
  PROVE  /\ Register(t, k) = RegisterIn(mode, t, k)
         /\ Register(t, k) \in Nat
<1>1. /\ t[1] \in Nat /\ t[2] \in Nat /\ t[3] \in Nat /\ t[4] \in Nat
      /\ t[5] \in Nat /\ t[6] \in Nat
  BY DEF IsTime
<1>2. Register(t, k) = RegisterIn(mode, t, k)
  BY DEF Register, HourByte, Byte, RegisterIn, ByteIn
<1>3. \A n \in Nat : ByteIn(mode, n) \in Nat
  BY DEF ByteIn, Modes
<1>4. RegisterIn(mode, t, k) \in Nat
  BY <1>1, <1>3 DEF RegisterIn
<1> QED BY <1>2, <1>4

(***************************************************************************)
(* The line: what is in the buffer, and the word the line starts with.     *)
(***************************************************************************)
Characters == Letters \cup {Space}

\* What the buffer holds for a character.
Stored(c) == IF c = Space THEN Nul ELSE c

\* m is where the first word of the line s ends.
EndsAt(s, m) ==
    /\ m \in 0..Len(s)
    /\ m = Len(s) \/ s[m + 1] = Space
    /\ \A j \in 1..m : s[j] # Space

\* The buffer b starts with the line s.
Holds(b, s) ==
    /\ b \in [0..(Size - 1) -> Letters \cup {Nul}]
    /\ s \in Seq(Characters) /\ Len(s) <= Size
    /\ \A k \in 0..(Size - 1) : k < Len(s) => b[k] = Stored(s[k + 1])
    /\ \E m \in Nat : EndsAt(s, m)

\* Once it is entered, something ends it.
Terminated(b, s) == Len(s) < Size => b[Len(s)] = Nul

LineInv ==
    /\ Holds(commandBuffer, shown)
    /\ pc = "line" => i = Len(shown)
    /\ pc \in {"process", "run", "debug", "message", "time", "kill"} =>
         Terminated(commandBuffer, shown)

\* The command that runs has been checked against the line, and it has one
\* process, which is stopped before it is killed.
ProcInv ==
    /\ pc \in {"line", "process", "run", "debug", "message", "time", "kill",
               "outside"}
    /\ pc \in {"line", "process"} => command = "none" /\ allocated = 0
    /\ pc \in {"run", "debug", "message", "time", "kill"} =>
         /\ command \in Commands /\ cmdCheck(Names[command])
         /\ allocated = 1
    /\ pc = "outside" => command = "none" \/ Names[command] = ShownWord
    /\ pc = "kill" => state = "STOPPED"

IInv == TimeInv /\ LineInv /\ ProcInv

(***************************************************************************)
(* The steps of readRTC and the clock.                                     *)
(***************************************************************************)
LEMMA BeginTime == TimeInit => TimeInv
  BY DEF TimeInit, TimeInv, ReadsTheTime

LEMMA CallTime ==
  ASSUME TimeInv, readRTC
  PROVE  TimeInv'
<1>1. /\ rtc = "idle" /\ rtc' = "flag"
      /\ clock' \in Starts /\ mode' \in Modes
      /\ updating = FALSE /\ unread = 0 /\ current = Zero /\ last = <<>>
      /\ updating' = updating /\ unread' = unread /\ current' = current
      /\ last' = last
  BY DEF TimeInv, readRTC, Modes
<1>2. IsTime(clock')
  BY <1>1, TimeAssumption
<1>3. current' \in Bytes /\ last' \in Bytes \cup {<<>>}
  BY <1>1 DEF Zero, Bytes
<1>4. Undisturbed'
  <2>1. Reads' = 0
    BY <1>1 DEF Reads
  <2> QED BY <1>1, <2>1 DEF Undisturbed, Shows, LastIs
<1>5. Passes'
  BY <1>1, <1>2, <1>3, <1>4 DEF Passes
<1> QED BY <1>1, <1>5 DEF TimeInv, ReadsTheTime

LEMMA FlagStep ==
  ASSUME TimeInv, FlagClear
  PROVE  TimeInv'
<1>1. /\ rtc = "flag" /\ ~ updating /\ rtc' = "read" /\ reg' = 1
      /\ began' = clock
      /\ UNCHANGED <<clock, mode, updating, unread, current, last>>
  BY DEF FlagClear, clockVars
<1>2. Passes /\ Undisturbed
  BY <1>1 DEF TimeInv, Passes, InUpdate, Updated
<1>3. Reads = 0 /\ Reads' = 0
  BY <1>1 DEF Reads
<1>4. Undisturbed'
  BY <1>1, <1>2, <1>3 DEF Undisturbed, Shows, LastIs
<1>5. Passes'
  BY <1>1, <1>2, <1>4 DEF Passes
<1> QED BY <1>1, <1>5 DEF TimeInv, ReadsTheTime

LEMMA ReadStep ==
  ASSUME TimeInv, ReadRegister
  PROVE  TimeInv'
<1>1. /\ rtc = "read" /\ reg' = reg + 1
      /\ rtc' = IF reg = 6 THEN "compare" ELSE "read"
      /\ unread' = IF unread > 0 THEN unread - 1 ELSE 0
      /\ UNCHANGED <<clock, began, mode, updating, last>>
  BY DEF ReadRegister
<1>2. PICK b \in getRTCReg(reg) : current' = [current EXCEPT ![reg] = b]
  BY DEF ReadRegister
<1>3. Passes /\ reg \in 1..6
  BY <1>1 DEF TimeInv, Passes
<1>4. Register(clock, reg) = RegisterIn(mode, clock, reg)
  BY <1>3, RegisterBytes DEF Passes
<1>5. ~ updating => b = RegisterIn(mode, clock, reg)
  BY <1>2, <1>4 DEF getRTCReg
<1>6. b \in Nat
  <2>1. Register(clock, reg) \in Nat
    BY <1>3, RegisterBytes DEF Passes
  <2>2. updating => Register(After(clock), reg) \in Nat
    <3>1. updating => IsTime(After(clock))
      BY <1>3, AfterIsTime DEF Passes, Undisturbed, InUpdate, Updated
    <3> QED BY <1>3, <3>1, RegisterBytes DEF Passes
  <2> QED BY <2>1, <2>2 DEF getRTCReg
<1>7. current' \in Bytes
  BY <1>2, <1>3, <1>6 DEF Passes, Bytes
<1>8. Reads = reg - 1 /\ Reads' = reg
  BY <1>1, <1>3 DEF Reads
<1>9. /\ unread \in Nat /\ unread' \in Nat
      /\ unread' + reg >= unread + (reg - 1)
  <2>1. unread \in Nat
    BY <1>3 DEF Passes
  <2> QED BY <2>1, <1>1, <1>3
<1>10. Undisturbed => Undisturbed'
  <2> SUFFICES ASSUME Undisturbed PROVE Undisturbed'
    OBVIOUS
  <2>1. Shows(current', mode, clock, reg)
    <3> SUFFICES ASSUME NEW k \in 1..6, k <= reg
                 PROVE  current'[k] = RegisterIn(mode, clock, k)
      BY DEF Shows
    <3>1. CASE k = reg
      BY <3>1, <1>2, <1>3, <1>5 DEF Undisturbed, Passes, Bytes
    <3>2. CASE k # reg
      <4>1. k <= reg - 1
        BY <3>2, <1>3
      <4>2. current[k] = RegisterIn(mode, clock, k)
        BY <4>1, <1>8 DEF Undisturbed, Shows
      <4> QED BY <4>2, <3>2, <1>2, <1>3 DEF Passes, Bytes
    <3> QED BY <3>1, <3>2
  <2>2. Shows(current, mode, clock, Reads)'
    BY <2>1, <1>1, <1>8
  <2>3. (LastIs(last, mode, clock) \/ unread + Reads >= 12)'
    <3>1. LastIs(last, mode, clock) => LastIs(last, mode, clock)'
      BY <1>1
    <3>2. unread + Reads >= 12 => unread' + Reads' >= 12
      BY <1>1, <1>3, <1>9 DEF Reads
    <3> QED BY <3>1, <3>2 DEF Undisturbed
  <2> QED BY <2>2, <2>3, <1>1 DEF Undisturbed
<1>11. InUpdate => InUpdate'
  <2>1. LastIs(last, mode, clock) => LastIs(last, mode, clock)'
    BY <1>1
  <2> QED BY <2>1, <1>1 DEF InUpdate
<1>12. Updated => Updated'
  <2>1. LastIs(last, mode, began) => LastIs(last, mode, began)'
    BY <1>1
  <2>2. rtc' # "flag"
    BY <1>1
  <2>3. unread + Reads >= 18 => unread' + Reads' >= 18
    BY <1>1, <1>3, <1>9 DEF Reads
  <2> QED BY <2>1, <2>2, <2>3, <1>1 DEF Updated
<1>13. (Undisturbed \/ InUpdate \/ Updated)'
  BY <1>3, <1>10, <1>11, <1>12 DEF Passes
<1>14. Passes'
  BY <1>1, <1>3, <1>7, <1>9, <1>13 DEF Passes
<1>15. rtc' \in {"compare", "read"}
  BY <1>1
<1> QED BY <1>14, <1>15 DEF TimeInv, ReadsTheTime

\* Another pass begins, and this one is now the last.
LEMMA PassStep ==
  ASSUME TimeInv, AnotherPass
  PROVE  TimeInv'
<1>1. /\ rtc = "compare" /\ rtc' = "flag" /\ last' = current
      /\ UNCHANGED <<clock, began, mode, updating, unread, current, reg>>
  BY DEF AnotherPass, Saved, clockVars
<1>2. Passes /\ reg = 7
  BY <1>1 DEF TimeInv, Passes
<1>3. Reads = 6 /\ Reads' = 0
  BY <1>1, <1>2 DEF Reads
<1>4. CASE Undisturbed
  <2>1. LastIs(last, mode, clock)'
    BY <1>4, <1>1, <1>3 DEF Undisturbed, LastIs
  <2> QED BY <1>4, <1>1, <1>2, <1>3, <2>1 DEF Undisturbed, Shows, Passes, TimeInv, ReadsTheTime
<1>5. CASE InUpdate
  <2>1. InUpdate'
    BY <1>5, <1>1 DEF InUpdate
  <2> QED BY <1>1, <1>2, <2>1 DEF Passes, TimeInv, ReadsTheTime
<1>6. CASE Updated
  <2>1. unread >= 12
    BY <1>6, <1>2, <1>3 DEF Updated, Passes
  <2>2. Undisturbed'
    BY <1>6, <2>1, <1>1, <1>2, <1>3 DEF Updated, Undisturbed, Shows, Passes
  <2> QED BY <1>1, <1>2, <2>2 DEF Passes, TimeInv, ReadsTheTime
<1> QED BY <1>2, <1>4, <1>5, <1>6 DEF Passes

LEMMA BeginStep ==
  ASSUME TimeInv, BeginUpdate
  PROVE  TimeInv'
<1>1. /\ rtc \in {"flag", "read", "compare"} /\ ~ updating /\ unread = 0
      /\ updating' = TRUE
      /\ After(clock)[6] <= CURRENT_YEAR + 99
      /\ UNCHANGED <<clock, began, mode, unread, current, last, reg, rtc>>
  BY DEF BeginUpdate, TimeInv
<1>2. Passes
  BY <1>1 DEF TimeInv
<1>3. Reads \in 0..6
  BY <1>1, <1>2 DEF Reads, Passes
<1>4. Undisturbed
  BY <1>1, <1>2, <1>3 DEF Passes, InUpdate, Updated
<1>5. LastIs(last, mode, clock)
  BY <1>1, <1>3, <1>4 DEF Undisturbed
<1>6. InUpdate'
  <2>1. (After(clock)[6] <= CURRENT_YEAR + 99)'
    BY <1>1 DEF After, DaysOf
  <2>2. LastIs(last, mode, clock)'
    BY <1>1, <1>5
  <2>3. (rtc # "flag" => began = clock)'
    BY <1>1, <1>4 DEF Undisturbed
  <2> QED BY <1>1, <2>1, <2>2, <2>3 DEF InUpdate
<1>7. Passes'
  BY <1>1, <1>2, <1>6 DEF Passes
<1> QED BY <1>1, <1>7 DEF TimeInv, ReadsTheTime

LEMMA EndStep ==
  ASSUME TimeInv, EndUpdate
  PROVE  TimeInv'
<1>1. /\ rtc \in {"flag", "read", "compare"} /\ updating
      /\ updating' = FALSE /\ clock' = After(clock)
      /\ unread' = Quiet
      /\ UNCHANGED <<began, mode, current, last, reg, rtc>>
  BY DEF EndUpdate, TimeInv
<1>2. Passes
  BY <1>1 DEF TimeInv
<1>3. IsTime(clock') /\ (rtc # "flag" => IsTime(began'))
  BY <1>1, <1>2, AfterIsTime DEF Passes, InUpdate, Undisturbed, Updated
<1>4. Quiet \in Nat /\ Quiet >= 18
  BY TimeAssumption
<1>5. InUpdate
  BY <1>1, <1>2 DEF Passes, Undisturbed, Updated
<1>6. CASE rtc = "flag"
  <2>1. Reads' = 0
    BY <1>1, <1>6 DEF Reads
  <2>2. Undisturbed'
    BY <1>1, <1>4, <1>6, <2>1 DEF Undisturbed, Shows
  <2> QED BY <1>1, <1>2, <1>3, <1>4, <1>6, <2>2 DEF Passes, TimeInv, ReadsTheTime
<1>7. CASE rtc # "flag"
  <2>1. Reads' \in 0..6
    BY <1>1, <1>2, <1>7 DEF Reads, Passes
  <2>2. LastIs(last, mode, began)'
    BY <1>1, <1>5, <1>7 DEF InUpdate
  <2>3. unread' + Reads' >= 18
    <3>1. reg - 1 \in 0..6
      BY <1>1, <1>2, <1>7 DEF Passes
    <3> QED BY <1>1, <1>4, <1>7, <3>1 DEF Reads
  <2>4. Updated'
    BY <1>1, <1>7, <2>2, <2>3 DEF Updated
  <2> QED BY <1>1, <1>2, <1>3, <1>4, <1>7, <2>4 DEF Passes, TimeInv, ReadsTheTime
<1> QED BY <1>6, <1>7

LEMMA ForgetStep ==
  ASSUME TimeInv, Forget
  PROVE  TimeInv'
  BY DEF TimeInv, Forget, ReadsTheTime

(***************************************************************************)
(* The conversion gives back the time whose bytes the registers showed.    *)
(***************************************************************************)
LEMMA BcdBack ==
  ASSUME NEW n \in 0..99
  PROVE  /\ FromBcd(16 * (n \div 10) + (n % 10)) = n
         /\ n < 80 => /\ HourFromBcd(16 * (n \div 10) + (n % 10)) = n
                      /\ HourFromBcd(16 * (n \div 10) + (n % 10) + 128) = n + 128
<1>1. PICK q \in 0..9, d \in 0..9 : n = 10 * q + d
  <2>1. n \div 10 \in 0..9 /\ n % 10 \in 0..9 /\ n = 10 * (n \div 10) + (n % 10)
    OBVIOUS
  <2> QED BY <2>1
<1>2. n \div 10 = q /\ n % 10 = d
  BY <1>1
<1>3. (16 * q + d) % 16 = d /\ (16 * q + d) \div 16 = q
  OBVIOUS
<1>4. n < 80 => /\ q < 8
                /\ (16 * q + d) \div 128 = 0
                /\ (16 * q + d + 128) % 16 = d
                /\ (16 * q + d + 128) \div 16 = q + 8
                /\ (16 * q + d + 128) \div 128 = 1
  BY <1>1
<1>5. FromBcd(16 * q + d) = n
  BY <1>1, <1>3 DEF FromBcd
<1>6. n < 80 => HourFromBcd(16 * q + d) = n
  <2>1. q < 8 => q % 8 = q
    OBVIOUS
  <2> QED BY <1>1, <1>3, <1>4, <2>1 DEF HourFromBcd
<1>7. n < 80 => HourFromBcd(16 * q + d + 128) = n + 128
  <2>1. q < 8 => (q + 8) % 8 = q
    OBVIOUS
  <2> QED BY <1>1, <1>4, <2>1 DEF HourFromBcd
<1> QED BY <1>2, <1>5, <1>6, <1>7

\* The hour, but for the exchange of noon and midnight.
LEMMA HourBack ==
  ASSUME mode \in Modes, NEW h \in 0..23,
         NEW c, c = IF ~ mode.half THEN ByteIn(mode, h)
                    ELSE ByteIn(mode, IF h % 12 = 0 THEN 12 ELSE h % 12)
                           + (IF h >= 12 THEN 128 ELSE 0)
  PROVE  OfDay(IF mode.bcd THEN HourFromBcd(c) ELSE c)
           = IF mode.half /\ h % 12 = 0 THEN (h + 12) % 24 ELSE h
<1> DEFINE x == IF mode.half THEN IF h % 12 = 0 THEN 12 ELSE h % 12 ELSE h
           pm == mode.half /\ h >= 12
           y == IF mode.bcd THEN HourFromBcd(c) ELSE c
<1>1. x \in 0..99 /\ x < 80 /\ (mode.half => x \in 1..12)
  BY DEF Modes
<1>2. c = ByteIn(mode, x) + (IF pm THEN 128 ELSE 0)
  <2>1. ByteIn(mode, x) \in Nat
    <3> HIDE DEF x
    <3> QED BY <1>1 DEF ByteIn
  <2> QED BY <2>1
<1>3. y = x + (IF pm THEN 128 ELSE 0)
  <2> HIDE DEF x, pm
  <2>1. CASE ~ mode.bcd
    BY <2>1, <1>2 DEF ByteIn
  <2>2. CASE mode.bcd
    <3>1. c = 16 * (x \div 10) + (x % 10) + (IF pm THEN 128 ELSE 0)
      BY <2>2, <1>2 DEF ByteIn
    <3>2. /\ HourFromBcd(16 * (x \div 10) + (x % 10)) = x
          /\ HourFromBcd(16 * (x \div 10) + (x % 10) + 128) = x + 128
      BY <1>1, BcdBack
    <3>3. CASE pm
      <4>1. c = 16 * (x \div 10) + (x % 10) + 128
        BY <3>1, <3>3
      <4> QED BY <2>2, <3>2, <3>3, <4>1
    <3>4. CASE ~ pm
      <4>1. c = 16 * (x \div 10) + (x % 10)
        BY <3>1, <3>4, <1>1
      <4> QED BY <2>2, <3>2, <3>4, <4>1, <1>1
    <3> QED BY <3>3, <3>4
  <2> QED BY <2>1, <2>2
<1>4. CASE ~ mode.half
  <2>1. y = h
    BY <1>3, <1>4
  <2> HIDE DEF y
  <2> QED BY <2>1, <1>4 DEF OfDay, y
<1>5. CASE mode.half /\ h >= 12
  <2>1. y = x + 128
    BY <1>3, <1>5
  <2> HIDE DEF y
  <2>2. OfDay(y) = (((x + 128) % 128) + 12) % 24
    <3>1. y >= 128
      BY <2>1, <1>1, <1>5
    <3> QED BY <2>1, <3>1, <1>5 DEF OfDay
  <2>3. (((x + 128) % 128) + 12) % 24 = IF h % 12 = 0 THEN (h + 12) % 24 ELSE h
    BY <1>5
  <2> QED BY <2>2, <2>3, <1>5 DEF y
<1>6. CASE mode.half /\ h < 12
  <2>1. y = x
    BY <1>3, <1>6, <1>1
  <2> HIDE DEF y
  <2>2. OfDay(y) = y
    BY <2>1, <1>1, <1>6 DEF OfDay
  <2>3. x = IF h % 12 = 0 THEN (h + 12) % 24 ELSE h
    BY <1>6
  <2> QED BY <2>1, <2>2, <2>3, <1>6 DEF y
<1> QED BY <1>4, <1>5, <1>6

LEMMA YearBack ==
  ASSUME NEW y \in CURRENT_YEAR..(CURRENT_YEAR + 99)
  PROVE  FullYear(y % 100) = y
<1>1. CURRENT_YEAR \in Nat
  BY TimeAssumption
<1> QED BY <1>1 DEF FullYear

\* What the passes have read is converted to the time they show.
LEMMA Converted ==
  ASSUME mode \in Modes, NEW t, IsTime(t), NEW c \in Bytes,
         Shows(c, mode, t, 6)
  PROVE  [Binary(c) EXCEPT ![3] = OfDay(Binary(c)[3]), ![6] = FullYear(Binary(c)[6])]
           = IF mode.half /\ t[3] % 12 = 0
             THEN [t EXCEPT ![3] = (t[3] + 12) % 24] ELSE t
<1> DEFINE b == Binary(c)
           f == [b EXCEPT ![3] = OfDay(b[3]), ![6] = FullYear(b[6])]
           g == IF mode.half /\ t[3] % 12 = 0
                THEN [t EXCEPT ![3] = (t[3] + 12) % 24] ELSE t
<1>1. /\ t \in [1..6 -> Nat]
      /\ t[1] \in 0..59 /\ t[2] \in 0..59 /\ t[3] \in 0..23
      /\ t[5] \in 1..12 /\ t[4] \in 0..99
      /\ t[6] \in CURRENT_YEAR..(CURRENT_YEAR + 99)
  BY Days DEF IsTime
<1>2. \A k \in 1..6 : c[k] = RegisterIn(mode, t, k)
  BY DEF Shows
<1>3. \A n \in 0..99 : n = IF mode.bcd THEN FromBcd(ByteIn(mode, n)) ELSE ByteIn(mode, n)
  BY BcdBack DEF ByteIn
<1>4. \A k \in {1, 2, 4, 5} : b[k] = t[k]
  <2> SUFFICES ASSUME NEW k \in {1, 2, 4, 5} PROVE b[k] = t[k]
    OBVIOUS
  <2>1. c[k] = ByteIn(mode, t[k])
    BY <1>2 DEF RegisterIn
  <2>2. t[k] \in 0..99
    BY <1>1
  <2>3. b[k] = IF mode.bcd THEN FromBcd(c[k]) ELSE c[k]
    BY DEF Binary
  <2> QED BY <1>3, <2>1, <2>2, <2>3
<1>5. OfDay(b[3]) = IF mode.half /\ t[3] % 12 = 0 THEN (t[3] + 12) % 24 ELSE t[3]
  <2>1. c[3] = IF ~ mode.half THEN ByteIn(mode, t[3])
               ELSE ByteIn(mode, IF t[3] % 12 = 0 THEN 12 ELSE t[3] % 12)
                      + (IF t[3] >= 12 THEN 128 ELSE 0)
    BY <1>2 DEF RegisterIn
  <2>2. b[3] = IF mode.bcd THEN HourFromBcd(c[3]) ELSE c[3]
    BY DEF Binary
  <2> HIDE DEF b
  <2>3. OfDay(IF mode.bcd THEN HourFromBcd(c[3]) ELSE c[3])
          = IF mode.half /\ t[3] % 12 = 0 THEN (t[3] + 12) % 24 ELSE t[3]
    BY <1>1, <2>1, HourBack
  <2> QED BY <2>2, <2>3
<1>6. FullYear(b[6]) = t[6]
  <2>1. c[6] = ByteIn(mode, t[6] % 100)
    BY <1>2 DEF RegisterIn
  <2>2. t[6] % 100 \in 0..99
    BY <1>1, TimeAssumption
  <2>3. b[6] = IF mode.bcd THEN FromBcd(c[6]) ELSE c[6]
    BY DEF Binary
  <2>4. b[6] = t[6] % 100
    BY <1>3, <2>1, <2>2, <2>3
  <2> QED BY <1>1, <2>4, YearBack
<1>7. b = [k \in 1..6 |-> b[k]]
  BY DEF Binary
<1> HIDE DEF b
<1>8. f = [k \in 1..6 |-> f[k]] /\ g = [k \in 1..6 |-> g[k]]
  BY <1>1, <1>7
<1>9. \A k \in 1..6 : f[k] = g[k]
  BY <1>1, <1>4, <1>5, <1>6, <1>7
<1>10. f = g
  <2> HIDE DEF f, g
  <2> QED BY <1>8, <1>9
<1> QED BY <1>10 DEF b

LEMMA ConvertStep ==
  ASSUME TimeInv, Convert
  PROVE  TimeInv'
<1>1. /\ rtc = "compare" /\ last = current /\ rtc' = "done"
      /\ UNCHANGED <<clock, began, mode>>
      /\ current' = [Binary(current) EXCEPT ![3] = OfDay(Binary(current)[3]),
                                            ![6] = FullYear(Binary(current)[6])]
  BY DEF Convert, Agree, clockVars
<1>2. Passes
  BY <1>1 DEF TimeInv
<1>3. last # <<>>
  <2>1. DOMAIN last = 1..6
    BY <1>1, <1>2 DEF Passes, Bytes
  <2>2. Len(<<>>) = 0 /\ DOMAIN <<>> = 1..0
    OBVIOUS
  <2> QED BY <2>1, <2>2
<1>4. Reads = 6
  BY <1>1, <1>2 DEF Passes, Reads
<1>5. Shows(current, mode, began, 6)
  BY <1>1, <1>2, <1>3, <1>4 DEF Passes, Undisturbed, InUpdate, Updated, LastIs
<1>6. mode \in Modes /\ IsTime(began) /\ current \in Bytes
  BY <1>1, <1>2 DEF Passes
<1>7. current' = IF mode.half /\ began[3] % 12 = 0
                 THEN [began EXCEPT ![3] = (began[3] + 12) % 24] ELSE began
  BY <1>1, <1>5, <1>6, Converted
<1>8. ReadsTheTime'
  <2>1. began \in [1..6 -> Nat]
    BY <1>6 DEF IsTime
  <2> QED BY <1>1, <1>7, <2>1 DEF ReadsTheTime, TwelveOClock
<1> QED BY <1>1, <1>8 DEF TimeInv

LEMMA IdleTime ==
  ASSUME TimeInv, UNCHANGED timeVars
  PROVE  TimeInv'
<1>1. UNCHANGED <<clock, began, mode, updating, unread, current, last, reg, rtc>>
  BY DEF timeVars, clockVars
<1>2. UNCHANGED Passes
  BY <1>1 DEF Passes, Undisturbed, InUpdate, Updated, Shows, LastIs, Reads,
              IsTime, DaysOf, After, RegisterIn, ByteIn
<1>3. UNCHANGED ReadsTheTime
  BY <1>1 DEF ReadsTheTime, TwelveOClock
<1> QED BY <1>1, <1>2, <1>3 DEF TimeInv

(***************************************************************************)
(* The line.                                                               *)
(***************************************************************************)
LEMMA StoredKey ==
  ASSUME NEW c \in Characters
  PROVE  Stored(c) \in Letters \cup {Nul} /\ (Stored(c) = Nul <=> c = Space)
  BY ShellAssumption DEF Characters, Stored, Nul, Space

\* A line has a first word: so far m, or what is in the way of it.
LEMMA TypedWord ==
  ASSUME NEW s \in Seq(Characters), NEW c \in Characters,
         NEW m \in Nat, EndsAt(s, m)
  PROVE  \E n \in Nat : EndsAt(Append(s, c), n)
<1> DEFINE u == Append(s, c)
<1>1. /\ u \in Seq(Characters) /\ Len(u) = Len(s) + 1
      /\ u[Len(s) + 1] = c /\ \A j \in 1..Len(s) : u[j] = s[j]
  OBVIOUS
<1>2. Len(s) \in Nat
  OBVIOUS
<1> HIDE DEF u
<1>3. CASE m < Len(s) \/ c = Space
  <2>1. EndsAt(u, m)
    BY <1>1, <1>2, <1>3 DEF EndsAt
  <2> QED BY <2>1 DEF u
<1>4. CASE m = Len(s) /\ c # Space
  <2>1. EndsAt(u, m + 1)
    BY <1>1, <1>2, <1>4 DEF EndsAt
  <2> QED BY <2>1 DEF u
<1> QED BY <1>2, <1>3, <1>4 DEF EndsAt

LEMMA FrontIs ==
  ASSUME NEW s \in Seq(Characters), Len(s) > 0
  PROVE  /\ Front(s) \in Seq(Characters) /\ Len(Front(s)) = Len(s) - 1
         /\ \A j \in 1..(Len(s) - 1) : Front(s)[j] = s[j]
<1>1. Len(s) \in Nat /\ Front(s) = SubSeq(s, 1, Len(s) - 1)
  BY DEF Front
<1> DEFINE n == Len(s) - 1
<1>2. n \in Nat /\ n <= Len(s)
  BY <1>1
<1>3. /\ SubSeq(s, 1, n) \in Seq(Characters) /\ Len(SubSeq(s, 1, n)) = n
      /\ \A j \in 1..n : SubSeq(s, 1, n)[j] = s[j]
  <2> HIDE DEF n
  <2> QED BY <1>2
<1> QED BY <1>1, <1>3

LEMMA DeletedWord ==
  ASSUME NEW s \in Seq(Characters), Len(s) > 0, NEW m \in Nat, EndsAt(s, m)
  PROVE  \E n \in Nat : EndsAt(Front(s), n)
<1> DEFINE u == Front(s)
<1>1. /\ Len(u) = Len(s) - 1 /\ \A j \in 1..(Len(s) - 1) : u[j] = s[j]
  BY FrontIs
<1>2. Len(s) \in Nat
  OBVIOUS
<1> HIDE DEF u
<1>3. CASE m < Len(s)
  <2>1. EndsAt(u, m)
    BY <1>1, <1>2, <1>3 DEF EndsAt
  <2> QED BY <2>1 DEF u
<1>4. CASE m = Len(s)
  <2>1. EndsAt(u, m - 1)
    BY <1>1, <1>2, <1>4 DEF EndsAt
  <2> QED BY <2>1, <1>2, <1>4 DEF u
<1> QED BY <1>2, <1>3, <1>4 DEF EndsAt

\* The word a line starts with, if that is where it ends.
LEMMA WordIs ==
  ASSUME NEW m \in Nat, shown \in Seq(Characters), EndsAt(shown, m)
  PROVE  ShownWord = SubSeq(shown, 1, m)
<1> DEFINE Ends == {k \in 0..Len(shown) : k = Len(shown) \/ shown[k + 1] = Space}
<1>1. m \in Ends /\ Len(shown) \in Nat
  BY DEF EndsAt
<1>2. \A k \in Ends : m <= k
  <2> SUFFICES ASSUME NEW k \in Ends, k < m PROVE FALSE
    BY <1>1
  <2>1. k + 1 \in 1..m /\ k # Len(shown)
    BY <1>1 DEF EndsAt
  <2> QED BY <2>1 DEF EndsAt
<1>3. m = CHOOSE k \in Ends : \A j \in Ends : k <= j
  <2> DEFINE n == CHOOSE k \in Ends : \A j \in Ends : k <= j
  <2>1. n \in Ends /\ \A j \in Ends : n <= j
    BY <1>1, <1>2
  <2>2. n <= m /\ m <= n
    BY <1>1, <1>2, <2>1
  <2>3. n \in Nat
    BY <2>1
  <2> HIDE DEF n
  <2>4. n = m
    BY <2>2, <2>3
  <2> QED BY <2>4 DEF n
<1> QED BY <1>3 DEF ShownWord

\* A name is found at the start of the buffer exactly if it is the word.
LEMMA CheckedWord ==
  ASSUME Holds(commandBuffer, shown), Terminated(commandBuffer, shown),
         NEW c \in Commands
  PROVE  cmdCheck(Names[c]) <=> Names[c] = ShownWord
<1> DEFINE w == Names[c]
<1>1. /\ w \in Seq(Letters) /\ Len(w) < Size /\ Size \in Nat
      /\ Space \notin Letters /\ Nul \notin Letters
  BY ShellAssumption
<1>2. /\ shown \in Seq(Characters) /\ Len(shown) <= Size
      /\ \A k \in 0..(Size - 1) :
           k < Len(shown) => commandBuffer[k] = Stored(shown[k + 1])
      /\ Len(shown) < Size => commandBuffer[Len(shown)] = Nul
  BY DEF Holds, Terminated
<1>3. PICK m \in Nat : EndsAt(shown, m)
  BY DEF Holds
<1>4. ShownWord = SubSeq(shown, 1, m)
  BY <1>2, <1>3, WordIs
<1>5. /\ m <= Len(shown) /\ Len(shown) \in Nat /\ Len(w) \in Nat
      /\ m = Len(shown) \/ shown[m + 1] = Space
      /\ \A j \in 1..m : shown[j] # Space
  BY <1>1, <1>2, <1>3 DEF EndsAt
<1>6. \A j \in 1..Len(shown) : shown[j] \in Characters
  BY <1>2
<1>7. \A j \in 1..Len(w) : w[j] \in Letters
  BY <1>1
<1> HIDE DEF w
\* What the buffer holds up to the word's end, and there.
<1>8. \A k \in 0..(m - 1) : commandBuffer[k] = shown[k + 1] /\ shown[k + 1] # Nul
  <2> SUFFICES ASSUME NEW k \in 0..(m - 1)
               PROVE  commandBuffer[k] = shown[k + 1] /\ shown[k + 1] # Nul
    OBVIOUS
  <2>1. k + 1 \in 1..Len(shown) /\ k + 1 \in 1..m /\ k \in 0..(Size - 1)
    BY <1>1, <1>2, <1>5
  <2>2. commandBuffer[k] = Stored(shown[k + 1])
    BY <1>2, <1>5, <2>1
  <2>3. shown[k + 1] \in Characters /\ shown[k + 1] # Space
    BY <1>5, <1>6, <2>1
  <2> QED BY <1>1, <2>2, <2>3 DEF Stored, Characters
<1>9. m < Size => commandBuffer[m] = Nul
  <2> SUFFICES ASSUME m < Size PROVE commandBuffer[m] = Nul
    OBVIOUS
  <2>1. CASE m = Len(shown)
    BY <1>2, <2>1
  <2>2. CASE m # Len(shown)
    <3>1. shown[m + 1] = Space /\ m \in 0..(Size - 1) /\ m < Len(shown)
      BY <1>1, <1>5, <2>2
    <3>2. commandBuffer[m] = Stored(shown[m + 1])
      BY <1>2, <3>1
    <3> QED BY <3>1, <3>2 DEF Stored
  <2> QED BY <2>1, <2>2
<1>10. cmdCheck(w) <=>
         /\ \A k \in 0..(Len(w) - 1) : commandBuffer[k] = w[k + 1]
         /\ commandBuffer[Len(w)] = Nul
  BY DEF cmdCheck
<1>11. ASSUME cmdCheck(w) PROVE w = ShownWord
  <2>1. Len(w) = m
    <3>1. ASSUME Len(w) < m PROVE FALSE
      <4>1. Len(w) \in 0..(m - 1)
        BY <1>5, <3>1
      <4> QED BY <4>1, <1>8, <1>10, <1>11
    <3>2. ASSUME m < Len(w) PROVE FALSE
      <4>1. m \in 0..(Len(w) - 1) /\ m + 1 \in 1..Len(w) /\ m < Size
        BY <1>1, <1>5, <3>2
      <4>2. commandBuffer[m] = w[m + 1] /\ w[m + 1] \in Letters
        BY <1>7, <1>10, <1>11, <4>1
      <4> QED BY <1>1, <1>9, <4>1, <4>2
    <3> QED BY <1>5, <3>1, <3>2
  <2>2. \A j \in 1..m : w[j] = shown[j]
    <3> SUFFICES ASSUME NEW j \in 1..m PROVE w[j] = shown[j]
      OBVIOUS
    <3>1. j - 1 \in 0..(m - 1) /\ (j - 1) + 1 = j
      OBVIOUS
    <3>2. commandBuffer[j - 1] = w[j] /\ commandBuffer[j - 1] = shown[j]
      BY <3>1, <2>1, <1>8, <1>10, <1>11
    <3> QED BY <3>2
  <2>3. SubSeq(shown, 1, m) \in Seq(Characters) /\ Len(SubSeq(shown, 1, m)) = m
        /\ \A j \in 1..m : SubSeq(shown, 1, m)[j] = shown[j]
    BY <1>2, <1>5
  <2> QED BY <1>1, <1>4, <2>1, <2>2, <2>3 DEF w
<1>12. ASSUME w = ShownWord PROVE cmdCheck(w)
  <2>1. Len(w) = m /\ \A j \in 1..m : w[j] = shown[j]
    BY <1>2, <1>4, <1>5, <1>12
  <2>2. \A k \in 0..(Len(w) - 1) : commandBuffer[k] = w[k + 1]
    <3> SUFFICES ASSUME NEW k \in 0..(m - 1) PROVE commandBuffer[k] = w[k + 1]
      BY <2>1
    <3>1. k + 1 \in 1..m
      OBVIOUS
    <3> QED BY <1>8, <2>1, <3>1
  <2> QED BY <1>1, <1>9, <1>10, <2>1, <2>2
<1> QED BY <1>11, <1>12 DEF w

(***************************************************************************)
(* The steps of the shell.                                                 *)
(***************************************************************************)
LEMMA InitInv == Init => IInv
<1> SUFFICES ASSUME Init PROVE IInv
  OBVIOUS
<1>1. TimeInv
  BY BeginTime DEF Init
<1>2. shown \in Seq(Letters) /\ Len(shown) <= Size
  <2>1. shown \in Arguments \cup {<<>>}
    BY DEF Init
  <2>2. CASE shown \in Arguments
    BY <2>2, ShellAssumption
  <2>3. CASE shown = <<>>
    BY <2>3, ShellAssumption
  <2> QED BY <2>1, <2>2, <2>3
<1>3. Size \in Nat /\ Len(shown) \in Nat /\ Space \notin Letters
  BY <1>2, ShellAssumption
<1>4. shown \in Seq(Characters)
  BY <1>2 DEF Characters
<1>5. \A j \in 1..Len(shown) : shown[j] \in Letters
  BY <1>2
<1>6. commandBuffer = [k \in 0..(Size - 1) |-> IF k < Len(shown) THEN shown[k + 1] ELSE Nul]
  BY DEF Init, Padded
<1>7. \A k \in 0..(Size - 1) : k < Len(shown) =>
        shown[k + 1] \in Letters /\ commandBuffer[k] = Stored(shown[k + 1])
  <2> SUFFICES ASSUME NEW k \in 0..(Size - 1), k < Len(shown)
               PROVE  shown[k + 1] \in Letters /\ commandBuffer[k] = Stored(shown[k + 1])
    OBVIOUS
  <2>1. k + 1 \in 1..Len(shown)
    BY <1>3
  <2> QED BY <1>3, <1>5, <1>6, <2>1 DEF Stored
<1>8. commandBuffer \in [0..(Size - 1) -> Letters \cup {Nul}]
  BY <1>6, <1>7
<1>9. EndsAt(shown, Len(shown))
  BY <1>3, <1>5 DEF EndsAt
<1>10. Holds(commandBuffer, shown)
  BY <1>2, <1>3, <1>4, <1>7, <1>8, <1>9 DEF Holds
<1>11. Terminated(commandBuffer, shown)
  BY <1>3, <1>6 DEF Terminated
<1>12. pc = "line" => i = Len(shown)
  BY DEF Init
<1>13. LineInv
  BY <1>10, <1>11, <1>12 DEF LineInv
<1>14. ProcInv
  BY DEF ProcInv, Init
<1> QED BY <1>1, <1>13, <1>14 DEF IInv

\* The empty line, whatever the buffer holds.
LEMMA EmptyLine ==
  ASSUME NEW b \in [0..(Size - 1) -> Letters \cup {Nul}]
  PROVE  Holds(b, <<>>)
<1>1. Size \in Nat
  BY ShellAssumption
<1>2. EndsAt(<<>>, 0)
  BY DEF EndsAt
<1>3. <<>> \in Seq(Characters) /\ Len(<<>>) = 0
  OBVIOUS
<1> QED BY <1>1, <1>2, <1>3 DEF Holds

LEMMA TypeStep ==
  ASSUME LineInv, ProcInv, Type
  PROVE  LineInv' /\ ProcInv'
<1>1. PICK c \in Characters :
        /\ commandBuffer' = [commandBuffer EXCEPT ![i] = Stored(c)]
        /\ shown' = Append(shown, c)
  BY DEF Type, Put, Characters, Stored
<1>2. /\ pc = "line" /\ i < Size /\ i' = i + 1
      /\ UNCHANGED <<pc, command, state, allocated>>
  BY DEF Type, procVars
<1>3. /\ i = Len(shown) /\ Holds(commandBuffer, shown)
  BY <1>2 DEF LineInv
<1>4. /\ shown \in Seq(Characters) /\ Len(shown) \in Nat /\ Size \in Nat
      /\ commandBuffer \in [0..(Size - 1) -> Letters \cup {Nul}]
      /\ i \in 0..(Size - 1)
  BY <1>2, <1>3, ShellAssumption DEF Holds
<1>5. /\ shown' \in Seq(Characters) /\ Len(shown') = Len(shown) + 1
      /\ shown'[Len(shown) + 1] = c
      /\ \A j \in 1..Len(shown) : shown'[j] = shown[j]
  BY <1>1, <1>4
<1>6. Stored(c) \in Letters \cup {Nul}
  BY StoredKey
<1>7. commandBuffer' \in [0..(Size - 1) -> Letters \cup {Nul}]
  BY <1>1, <1>4, <1>6
<1>8. \A k \in 0..(Size - 1) : k < Len(shown') => commandBuffer'[k] = Stored(shown'[k + 1])
  <2> SUFFICES ASSUME NEW k \in 0..(Size - 1), k < Len(shown')
               PROVE  commandBuffer'[k] = Stored(shown'[k + 1])
    OBVIOUS
  <2>1. CASE k = i
    BY <2>1, <1>1, <1>3, <1>4, <1>5
  <2>2. CASE k # i
    <3>1. k < Len(shown) /\ k + 1 \in 1..Len(shown)
      BY <2>2, <1>3, <1>4, <1>5
    <3>2. commandBuffer[k] = Stored(shown[k + 1])
      BY <3>1, <1>3 DEF Holds
    <3> QED BY <2>2, <3>1, <3>2, <1>1, <1>4, <1>5
  <2> QED BY <2>1, <2>2
<1>9. \E m \in Nat : EndsAt(shown', m)
  BY <1>1, <1>3, <1>4, TypedWord DEF Holds
<1>10. Holds(commandBuffer', shown')
  BY <1>2, <1>3, <1>4, <1>5, <1>7, <1>8, <1>9 DEF Holds
<1>11. LineInv'
  BY <1>2, <1>3, <1>5, <1>10 DEF LineInv
<1> QED BY <1>2, <1>11 DEF ProcInv

LEMMA DeleteStep ==
  ASSUME LineInv, ProcInv, Delete
  PROVE  LineInv' /\ ProcInv'
<1>1. pc = "line" /\ i < Size /\ UNCHANGED <<command, state, allocated>>
  BY DEF Delete, procVars
<1>2. i = Len(shown) /\ Holds(commandBuffer, shown)
  BY <1>1 DEF LineInv
<1>3. CASE i = 0
  <2>1. pc' = "outside" /\ UNCHANGED <<commandBuffer, i, shown>>
    BY <1>3 DEF Delete, lineVars
  <2> QED BY <1>1, <1>2, <2>1 DEF LineInv, ProcInv
<1>4. CASE i # 0
  <2>1. /\ commandBuffer' = [commandBuffer EXCEPT ![i] = Nul, ![i - 1] = Nul]
        /\ i' = i - 1 /\ shown' = Front(shown) /\ pc' = pc
    BY <1>4 DEF Delete, Deleted
  <2>2. /\ shown \in Seq(Characters) /\ Len(shown) \in Nat /\ Len(shown) > 0
        /\ Len(shown) <= Size /\ Size \in Nat
        /\ commandBuffer \in [0..(Size - 1) -> Letters \cup {Nul}]
    BY <1>2, <1>4, ShellAssumption DEF Holds
  <2>3. /\ shown' \in Seq(Characters) /\ Len(shown') = Len(shown) - 1
        /\ \A j \in 1..(Len(shown) - 1) : shown'[j] = shown[j]
    BY <2>1, <2>2, FrontIs
  <2>4. commandBuffer' \in [0..(Size - 1) -> Letters \cup {Nul}]
    BY <2>1, <2>2
  <2>5. \A k \in 0..(Size - 1) :
          k < Len(shown') => commandBuffer'[k] = Stored(shown'[k + 1])
    <3> SUFFICES ASSUME NEW k \in 0..(Size - 1), k < Len(shown')
                 PROVE  commandBuffer'[k] = Stored(shown'[k + 1])
      OBVIOUS
    <3>1. k # i /\ k # i - 1 /\ k < Len(shown) /\ k + 1 \in 1..(Len(shown) - 1)
      BY <1>2, <2>2, <2>3
    <3>2. commandBuffer[k] = Stored(shown[k + 1])
      BY <1>2, <3>1 DEF Holds
    <3> QED BY <3>1, <3>2, <2>1, <2>2, <2>3
  <2>6. \E m \in Nat : EndsAt(shown', m)
    BY <1>2, <2>1, <2>2, DeletedWord DEF Holds
  <2>7. Holds(commandBuffer', shown')
    BY <2>2, <2>3, <2>4, <2>5, <2>6 DEF Holds
  <2>8. LineInv'
    BY <1>1, <1>2, <2>1, <2>3, <2>7 DEF LineInv
  <2> QED BY <1>1, <2>1, <2>8 DEF ProcInv
<1> QED BY <1>3, <1>4

LEMMA EnterStep ==
  ASSUME LineInv, ProcInv, Enter
  PROVE  LineInv' /\ ProcInv'
<1>1. /\ pc = "line" /\ i < Size /\ pc' = "process"
      /\ commandBuffer' = [commandBuffer EXCEPT ![i] = Nul]
      /\ UNCHANGED <<i, shown, command, state, allocated>>
  BY DEF Enter, Put, procVars
<1>2. i = Len(shown) /\ Holds(commandBuffer, shown)
  BY <1>1 DEF LineInv
<1>3. /\ Len(shown) \in Nat /\ Size \in Nat
      /\ commandBuffer \in [0..(Size - 1) -> Letters \cup {Nul}]
  BY <1>2, ShellAssumption DEF Holds
<1>4. /\ commandBuffer' \in [0..(Size - 1) -> Letters \cup {Nul}]
      /\ \A k \in 0..(Size - 1) : k # i => commandBuffer'[k] = commandBuffer[k]
      /\ commandBuffer'[i] = Nul
  BY <1>1, <1>2, <1>3
<1>5. Holds(commandBuffer', shown)
  BY <1>2, <1>3, <1>4 DEF Holds
<1>6. Terminated(commandBuffer', shown)
  BY <1>2, <1>4 DEF Terminated
<1>7. LineInv'
  BY <1>1, <1>5, <1>6 DEF LineInv
<1> QED BY <1>1, <1>7 DEF ProcInv

LEMMA FullStep ==
  ASSUME LineInv, ProcInv, LineFull
  PROVE  LineInv' /\ ProcInv'
<1>1. /\ pc = "line" /\ i = Size /\ pc' = "process"
      /\ UNCHANGED <<commandBuffer, i, shown, command, state, allocated>>
  BY DEF LineFull, lineVars, procVars
<1>2. i = Len(shown) /\ Holds(commandBuffer, shown)
  BY <1>1 DEF LineInv
<1>3. Terminated(commandBuffer, shown)
  BY <1>1, <1>2, ShellAssumption DEF Terminated
<1> QED BY <1>1, <1>2, <1>3 DEF LineInv, ProcInv

\* Steps that leave the line and what stands in the buffer alone.
Going == {"process", "run", "debug", "message", "time", "kill"}

LEMMA LineKept ==
  ASSUME LineInv, UNCHANGED <<commandBuffer, shown>>,
         pc \in Going, pc' \in Going \cup {"outside"}
  PROVE  LineInv'
<1>1. Holds(commandBuffer, shown) /\ Terminated(commandBuffer, shown)
  BY DEF LineInv, Going
<1> QED BY <1>1 DEF LineInv, Going

LEMMA NextLine ==
  ASSUME LineInv, NewLine
  PROVE  LineInv'
<1>1. /\ pc' = "line" /\ i' = 0 /\ shown' = <<>> /\ commandBuffer' = commandBuffer
  BY DEF NewLine
<1>2. Holds(commandBuffer', shown')
  BY <1>1, EmptyLine DEF LineInv, Holds
<1>3. i' = Len(shown')
  BY <1>1
<1> QED BY <1>1, <1>2, <1>3 DEF LineInv

LEMMA CreateStep ==
  ASSUME LineInv, ProcInv, Create
  PROVE  LineInv' /\ ProcInv'
<1>1. /\ pc = "process" /\ pc' = "run" /\ allocated' = allocated + 1
      /\ command' \in Entered
      /\ UNCHANGED <<commandBuffer, i, shown>>
  BY DEF Create, lineVars
<1>2. LineInv'
  BY <1>1, LineKept DEF Going
<1>3. command' \in Commands /\ cmdCheck(Names[command'])
  BY <1>1 DEF Entered
<1>4. cmdCheck(Names[command])'
  BY <1>1, <1>3 DEF cmdCheck
<1>5. allocated' = 1
  BY <1>1 DEF ProcInv
<1> QED BY <1>1, <1>2, <1>3, <1>4, <1>5 DEF ProcInv

LEMMA NotFoundStep ==
  ASSUME LineInv, ProcInv, NotFound
  PROVE  LineInv' /\ ProcInv'
<1>1. /\ pc = "process" /\ pc' = "line"
      /\ UNCHANGED <<command, state, allocated>>
  BY DEF NotFound, NewLine, procVars
<1>2. LineInv'
  BY NextLine DEF NotFound
<1> QED BY <1>1, <1>2 DEF ProcInv

LEMMA RunStep ==
  ASSUME LineInv, ProcInv, Run
  PROVE  LineInv' /\ ProcInv'
<1>1. /\ pc = "run" /\ pc' \in {"time", "debug", "run"}
      /\ UNCHANGED <<commandBuffer, i, shown, command, allocated>>
  BY DEF Run, lineVars
<1>2. LineInv'
  BY <1>1, LineKept DEF Going
<1>3. command \in Commands /\ cmdCheck(Names[command]) /\ allocated = 1
  BY <1>1 DEF ProcInv
<1>4. cmdCheck(Names[command])'
  BY <1>1, <1>3 DEF cmdCheck
<1> QED BY <1>1, <1>2, <1>3, <1>4 DEF ProcInv

LEMMA ReturnStep ==
  ASSUME LineInv, ProcInv, pc \in {"run", "time", "debug", "message"},
         NEW code, Returns(code)
  PROVE  LineInv' /\ ProcInv'
<1>1. /\ pc' = "kill" /\ state' = "STOPPED"
      /\ UNCHANGED <<commandBuffer, i, shown, command, allocated>>
  BY DEF Returns, Stopped, lineVars
<1>2. LineInv'
  BY <1>1, LineKept DEF Going
<1>3. command \in Commands /\ cmdCheck(Names[command]) /\ allocated = 1
  BY DEF ProcInv
<1>4. cmdCheck(Names[command])'
  BY <1>1, <1>3 DEF cmdCheck
<1> QED BY <1>1, <1>2, <1>3, <1>4 DEF ProcInv

\* While debug asks for a message its line stays as it was entered.
LEMMA AskStep ==
  ASSUME LineInv, ProcInv, pc \in {"debug", "message"}, pc' = "message",
         UNCHANGED <<commandBuffer, shown, command, state, allocated>>
  PROVE  LineInv' /\ ProcInv'
<1>1. LineInv'
  BY LineKept DEF Going
<1>2. command \in Commands /\ cmdCheck(Names[command]) /\ allocated = 1
  BY DEF ProcInv
<1>3. cmdCheck(Names[command])'
  BY <1>2 DEF cmdCheck
<1> QED BY <1>1, <1>2, <1>3 DEF ProcInv

\* debug has its message or asks for one.
LEMMA DebugStep ==
  ASSUME LineInv, ProcInv, Debug
  PROVE  LineInv' /\ ProcInv'
<1>1. pc = "debug"
  BY DEF Debug
<1>2. CASE Returns(0)
  BY <1>1, <1>2, ReturnStep
<1>3. CASE pc' = "message" /\ UNCHANGED <<commandBuffer, shown, procVars>>
  BY <1>1, <1>3, AskStep DEF procVars
<1> QED BY <1>2, <1>3 DEF Debug

\* getLine reads into another buffer.
LEMMA MessageStep ==
  ASSUME LineInv, ProcInv, TypeMessage \/ EnterMessage
  PROVE  LineInv' /\ ProcInv'
<1>1. pc = "message"
  BY DEF TypeMessage, EnterMessage
<1>2. CASE TypeMessage
  BY <1>1, <1>2, AskStep DEF TypeMessage, procVars
<1>3. CASE EnterMessage
  BY <1>1, <1>3, ReturnStep DEF EnterMessage
<1> QED BY <1>2, <1>3

\* A message without an end changes nothing of the line that asked for it.
LEMMA TooLongStep ==
  ASSUME LineInv, ProcInv, MessageFull
  PROVE  LineInv' /\ ProcInv'
<1>1. /\ pc = "message" /\ pc' = "outside"
      /\ UNCHANGED <<commandBuffer, i, shown, command, state, allocated>>
  BY DEF MessageFull, lineVars, procVars
<1>2. LineInv'
  BY <1>1, LineKept DEF Going
<1>3. Names[command] = ShownWord
  BY <1>1, CheckedWord DEF LineInv, ProcInv
<1>4. (Names[command] = ShownWord)'
  BY <1>1, <1>3 DEF ShownWord
<1> QED BY <1>1, <1>2, <1>4 DEF ProcInv

LEMMA KillStep ==
  ASSUME LineInv, ProcInv, Kill
  PROVE  LineInv' /\ ProcInv'
<1>1. pc = "kill" /\ pc' = "line" /\ command' = "none"
  BY DEF Kill, NewLine
<1>2. allocated' = 0
  BY <1>1 DEF Kill, ProcInv
<1>3. LineInv'
  BY NextLine DEF Kill
<1> QED BY <1>1, <1>2, <1>3 DEF ProcInv

LEMMA StillStep ==
  ASSUME LineInv, ProcInv, UNCHANGED <<lineVars, pc, procVars>>
  PROVE  LineInv' /\ ProcInv'
<1>1. UNCHANGED <<commandBuffer, i, shown, pc, command, state, allocated>>
  BY DEF lineVars, procVars
<1>2. LineInv'
  BY <1>1 DEF LineInv
<1>3. ProcInv'
  BY <1>1 DEF ProcInv, cmdCheck, ShownWord
<1> QED BY <1>2, <1>3

LEMMA NextInv == IInv /\ [Next]_vars => IInv'
<1> SUFFICES ASSUME IInv, [Next]_vars PROVE IInv'
  OBVIOUS
<1>1. TimeInv /\ LineInv /\ ProcInv
  BY DEF IInv
<1>2. CASE Type
  BY <1>1, <1>2, TypeStep, IdleTime DEF IInv, Type
<1>3. CASE Delete
  BY <1>1, <1>3, DeleteStep, IdleTime DEF IInv, Delete
<1>4. CASE Enter
  BY <1>1, <1>4, EnterStep, IdleTime DEF IInv, Enter
<1>5. CASE LineFull
  BY <1>1, <1>5, FullStep, IdleTime DEF IInv, LineFull
<1>6. CASE Create
  BY <1>1, <1>6, CreateStep, IdleTime DEF IInv, Create
<1>7. CASE NotFound
  BY <1>1, <1>7, NotFoundStep, IdleTime DEF IInv, NotFound
<1>8. CASE Run
  BY <1>1, <1>8, RunStep, CallTime, IdleTime DEF IInv, Run
<1>9. CASE End
  BY <1>1, <1>9, ReturnStep, IdleTime DEF IInv, End
<1>10. CASE EndTime
  BY <1>1, <1>10, ReturnStep, ForgetStep DEF IInv, EndTime
<1>11. CASE Debug
  BY <1>1, <1>11, DebugStep, IdleTime DEF IInv, Debug
<1>12. CASE Kill
  BY <1>1, <1>12, KillStep, IdleTime DEF IInv, Kill
<1>13. CASE Read
  <2>1. TimeInv'
    BY <1>1, <1>13, FlagStep, ReadStep, PassStep, ConvertStep DEF Read, Reading
  <2> QED BY <1>1, <1>13, <2>1, StillStep DEF IInv, Read
<1>14. CASE Update
  <2>1. TimeInv'
    BY <1>1, <1>14, BeginStep, EndStep DEF Update, Clock
  <2> QED BY <1>1, <1>14, <2>1, StillStep DEF IInv, Update
<1>15. CASE TypeMessage \/ EnterMessage
  BY <1>1, <1>15, MessageStep, IdleTime DEF IInv, TypeMessage, EnterMessage
<1>16. CASE MessageFull
  BY <1>1, <1>16, TooLongStep, IdleTime DEF IInv, MessageFull
<1>17. CASE UNCHANGED vars
  BY <1>1, <1>17, StillStep, IdleTime DEF IInv, vars
<1> QED
  BY <1>2, <1>3, <1>4, <1>5, <1>6, <1>7, <1>8, <1>9, <1>10, <1>11, <1>12,
     <1>13, <1>14, <1>15, <1>16, <1>17 DEF Next, Keys, Serve

\* The passes of readRTC, the line and its process are always as IInv says.
THEOREM IInvariant == Spec => []IInv
  BY InitInv, NextInv, PTL DEF Spec

\* The command that runs is the one that stands on the screen, and one that
\* stands there is found, for every length of the buffer and all names.
THEOREM RunsShown == Spec => []RunsWhatIsShown
<1>1. IInv => RunsWhatIsShown
  <2> SUFFICES ASSUME IInv PROVE RunsWhatIsShown
    OBVIOUS
  <2>1. LineInv /\ ProcInv
    BY DEF IInv
  <2>2. pc \in Going =>
          \A c \in Commands : cmdCheck(Names[c]) <=> Names[c] = ShownWord
    BY <2>1, CheckedWord DEF LineInv, Going
  <2>3. ASSUME command # "none" PROVE Names[command] = ShownWord
    BY <2>1, <2>2, <2>3 DEF ProcInv, Going
  <2>4. ASSUME pc = "process", Entered = {}
        PROVE  \A c \in Commands : Names[c] # ShownWord
    BY <2>2, <2>4 DEF Entered, Going
  <2> QED BY <2>3, <2>4 DEF RunsWhatIsShown
<1> QED BY <1>1, IInvariant, PTL

\* Whatever the commands return, none leaves its process behind.
THEOREM NoProcessLeft == Spec => []NothingLeft
<1>1. IInv => NothingLeft
  BY DEF IInv, ProcInv, NothingLeft
<1> QED BY <1>1, IInvariant, PTL

\* What readRTC returns is the time at which its last pass began, in every mode
\* and for any number of updates; of the hour only if it is not twelve o'clock
\* on a clock that counts to twelve.
THEOREM TimeRead == Spec => []ReadsTheTime
<1>1. IInv => ReadsTheTime
  BY DEF IInv, TimeInv
<1> QED BY <1>1, IInvariant, PTL
=============================================================================
