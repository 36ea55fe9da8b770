------------------------- MODULE FloppyDriverProofs -------------------------
(***************************************************************************)
(* Proofs about FloppyDriver, for any sectors, any number of attempts and  *)
(* any number of recalibrations that stop short, and about DiskGeometry,   *)
(* for every sector of the disk.                                           *)
(*                                                                         *)
(* FDCInitialize is a list of 30 instructions and readSector_int one of    *)
(* 36.  First comes what the lists are, then an invariant that says what   *)
(* the controller may be doing at each point of them, then one lemma for   *)
(* each step of the driver, by the instruction that is next, and one for   *)
(* what the controller and the interrupt handler do meanwhile.             *)
(***************************************************************************)
EXTENDS FloppyDriver, SequenceTheorems, TLAPS

(***************************************************************************)
(* DiskGeometry: the conversions and the end of the track.                 *)
(***************************************************************************)
\* convertToCHS is right for every sector of the disk: the place it names is
\* on the disk, no field of CHS overflows its byte, and that place holds the
\* sector asked for.
THEOREM ConvertToCHSCorrect ==
    ASSUME NEW lba \in Lbas
    PROVE  /\ CylOf(lba) \in 0..(Cylinders - 1)
           /\ HeadOf(lba) \in 0..(Heads - 1)
           /\ SectorOf(lba) \in 1..SectorsPerTrack
           /\ LbaAt(CylOf(lba), HeadOf(lba), SectorOf(lba)) = lba
  <1> DEFINE t == lba \div 36
             r == lba % 36
  <1>1. lba \in 0..2879
    BY DEF Lbas, Cylinders, Heads, SectorsPerTrack
  <1>2. t \in 0..79 /\ r \in 0..35 /\ lba = 36 * t + r
    BY <1>1
  <1>3. /\ r \div 18 \in 0..1 /\ r % 18 \in 0..17
        /\ r = 18 * (r \div 18) + (r % 18)
    BY <1>2
  <1>4. CylOf(lba) = t
    BY <1>2 DEF CylOf, Byte, Heads, SectorsPerTrack
  <1>5. HeadOf(lba) = r \div 18
    BY <1>3 DEF HeadOf, Byte, Heads, SectorsPerTrack
  <1>6. SectorOf(lba) = (r % 18) + 1
    BY <1>3 DEF SectorOf, Byte, Heads, SectorsPerTrack
  <1> QED
    BY <1>2, <1>3, <1>4, <1>5, <1>6
       DEF LbaAt, Cylinders, Heads, SectorsPerTrack

\* The boot sector and the drivers agree on where each sector of the disk is,
\* although one divides twice and the others by a cylinder's sectors.
THEOREM LBAtoCHSCorrect ==
    ASSUME NEW lba \in Lbas
    PROVE  LBAtoCHS(lba) = convertToCHS(lba)
  <1> DEFINE q == lba \div 18
             s == lba % 18
  <1>1. lba \in 0..2879
    BY DEF Lbas, Cylinders, Heads, SectorsPerTrack
  <1>2. q \in 0..159 /\ s \in 0..17 /\ lba = 18 * q + s
    BY <1>1
  <1>3. /\ q \div 2 \in 0..79 /\ q % 2 \in 0..1
        /\ q = 2 * (q \div 2) + (q % 2)
    BY <1>2
  <1>4. /\ lba \div 36 = q \div 2
        /\ lba % 36 = 18 * (q % 2) + s
    BY <1>2, <1>3
  <1>5. CylOf(lba) = q \div 2
    BY <1>3, <1>4 DEF CylOf, Byte, Heads, SectorsPerTrack
  <1>6. HeadOf(lba) = q % 2 /\ SectorOf(lba) = s + 1
    BY <1>2, <1>3, <1>4 DEF HeadOf, SectorOf, Byte, Heads, SectorsPerTrack
  <1>7. Byte(q \div 2) = q \div 2 /\ Byte(((q \div 2) \div 256) * 64) = 0
    BY <1>3 DEF Byte
  <1> QED
    BY <1>2, <1>5, <1>6, <1>7
       DEF LBAtoCHS, convertToCHS, Heads, SectorsPerTrack

\* The end-of-track parameter never passes the track, and the sector asked
\* for is transferred before it is reached.
THEOREM EndOfTrackCorrect ==
    ASSUME NEW sector \in 1..SectorsPerTrack
    PROVE  EndOfTrack(sector) \in sector..SectorsPerTrack
  BY DEF EndOfTrack, SectorsPerTrack

(***************************************************************************)
(* The driver's instructions.                                              *)
(***************************************************************************)

\* FDCInitialize and readSector_int, in the turn of their loop after which l
\* more may follow.
InitCode(l) ==
    Do("dmaInitialize")
      \o (Do("dorZero") \o Do("dorRun") \o waitForIRQ
            \o FDSenseInterrupt \o FDSenseInterrupt
            \o FDSenseInterrupt \o FDSenseInterrupt
            \o FDCSpecifyDrive(FALSE)
            \o (FDEnableMotor \o Attempt(<<RECALIBRATE, 0>>, l)
                  \o FDDisableMotor))

SpecifyBytes == <<SPECIFY, 48, 32>>
RecalibrateBytes == <<RECALIBRATE, 0>>
SenseBytes == <<SENSE_INTERRUPT>>
SeekBytes(s) == <<SEEK, 4 * HeadOf(s), CylOf(s)>>
ReadBytes(s) == <<READ, 4 * HeadOf(s), CylOf(s), HeadOf(s), SectorOf(s),
                  2, EndOfTrack(SectorOf(s)), 27, 255>>

ReadCode(s, l) ==
    (Do("setReadDMA")
       \o (FDEnableMotor \o Attempt(SeekBytes(s), l) \o FDDisableMotor)
       \o FDEnableMotor \o Command(ReadBytes(s))
       \o waitForIRQ \o Fetch(7) \o FDSenseInterrupt \o FDDisableMotor)
      \o Do("copyOut")

\* The instructions they are made of.
Plain == {"fetch", "fetchCyl", "await", "clear", "motorOn", "motorOff",
          "dmaInitialize", "setReadDMA", "dorZero", "dorRun", "copyOut"}

Instruction ==
    [op : Plain]
      \cup [op : {"send"}, byte : Int, opcode : BOOLEAN]
      \cup [op : {"retry"}, bytes : Seq(Int), left : Int]

Just(op) == [op |-> op]

\* Byte j of the command b, being sent.
Sent(b, j) == [op |-> "send", byte |-> b[j], opcode |-> j = 1]

\* s and t end to end, without \o, which the provers do not reason about well.
Joined(s, t, u) ==
    /\ u \in Seq(Instruction)
    /\ Len(u) = Len(s) + Len(t)
    /\ \A i \in 1..Len(s) : u[i] = s[i]
    /\ \A i \in Len(s) + 1 .. Len(s) + Len(t) : u[i] = t[i - Len(s)]

LEMMA Join ==
  ASSUME NEW s \in Seq(Instruction), NEW t \in Seq(Instruction)
  PROVE  Joined(s, t, s \o t)
<1>1. Len(s) \in Nat /\ Len(t) \in Nat
  OBVIOUS
<1> QED
  BY <1>1, ConcatProperties, Z3 DEF Joined

\* An instruction without operands.
LEMMA DoIs ==
  ASSUME NEW op \in Plain
  PROVE  Do(op) \in Seq(Instruction) /\ Len(Do(op)) = 1 /\ Do(op)[1] = Just(op)
  BY DEF Do, Just, Instruction

LEMMA CommandIs ==
  ASSUME NEW b \in Seq(Int)
  PROVE  /\ Command(b) \in Seq(Instruction)
         /\ Len(Command(b)) = Len(b)
         /\ \A j \in 1..Len(b) : Command(b)[j] = Sent(b, j)
<1>1. Len(b) \in Nat /\ DOMAIN b = 1..Len(b)
  OBVIOUS
<1>2. \A j \in 1..Len(b) : Sent(b, j) \in Instruction
  BY DEF Sent, Instruction
<1>3. Command(b) = [j \in 1..Len(b) |-> Sent(b, j)]
  BY <1>1, Zenon DEF Command, Sent
<1> QED
  BY <1>1, <1>2, <1>3, IsASeq

LEMMA FetchIs ==
  ASSUME NEW n \in Nat
  PROVE  /\ Fetch(n) \in Seq(Instruction)
         /\ Len(Fetch(n)) = n
         /\ \A j \in 1..n : Fetch(n)[j] = Just("fetch")
<1>1. [op |-> "fetch"] \in Instruction
  BY DEF Instruction, Plain
<1> QED
  BY <1>1, IsASeq DEF Fetch, Just

LEMMA WaitIs ==
  /\ waitForIRQ \in Seq(Instruction) /\ Len(waitForIRQ) = 2
  /\ waitForIRQ[1] = Just("await") /\ waitForIRQ[2] = Just("clear")
<1> DEFINE a == Do("await")
           c == Do("clear")
<1>1. /\ a \in Seq(Instruction) /\ Len(a) = 1 /\ a[1] = Just("await")
      /\ c \in Seq(Instruction) /\ Len(c) = 1 /\ c[1] = Just("clear")
  <2>1. "await" \in Plain /\ "clear" \in Plain
    BY DEF Plain
  <2> QED
    BY <2>1, DoIs
<1>2. waitForIRQ = a \o c
  BY DEF waitForIRQ
<1> HIDE DEF a, c
<1>3. Joined(a, c, waitForIRQ)
  BY <1>1, <1>2, Join
<1> QED
  BY <1>1, <1>3 DEF Joined

LEMMA SenseIs ==
  /\ FDSenseInterrupt \in Seq(Instruction) /\ Len(FDSenseInterrupt) = 3
  /\ FDSenseInterrupt[1] = Sent(SenseBytes, 1)
  /\ FDSenseInterrupt[2] = Just("fetch")
  /\ FDSenseInterrupt[3] = Just("fetchCyl")
<1> DEFINE a == Command(SenseBytes)
           f == Fetch(1)
           c == Do("fetchCyl")
           af == a \o f
<1>1. SenseBytes \in Seq(Int) /\ Len(SenseBytes) = 1
  BY DEF SenseBytes, SENSE_INTERRUPT
<1>2. a \in Seq(Instruction) /\ Len(a) = 1 /\ a[1] = Sent(SenseBytes, 1)
  BY <1>1, CommandIs
<1>3. f \in Seq(Instruction) /\ Len(f) = 1 /\ f[1] = Just("fetch")
  BY FetchIs, 1 \in 1..1
<1>4. c \in Seq(Instruction) /\ Len(c) = 1 /\ c[1] = Just("fetchCyl")
  <2>1. "fetchCyl" \in Plain
    BY DEF Plain
  <2> QED
    BY <2>1, DoIs
<1>5. FDSenseInterrupt = af \o c
  BY DEF FDSenseInterrupt, SenseBytes
<1> HIDE DEF a, f, c
<1>6. Joined(a, f, af)
  BY <1>2, <1>3, Join
<1> HIDE DEF af
<1>7. /\ af \in Seq(Instruction) /\ Len(af) = 2
      /\ af[1] = Sent(SenseBytes, 1) /\ af[2] = Just("fetch")
  BY <1>2, <1>3, <1>6 DEF Joined
<1>8. Joined(af, c, FDSenseInterrupt)
  BY <1>4, <1>5, <1>7, Join
<1> QED
  BY <1>4, <1>7, <1>8 DEF Joined

\* t is one turn of the loop of FDCalibrate or FDSeek, with the command b of n
\* bytes.
IsTurn(t, b, l, n) ==
    /\ t \in Seq(Instruction)
    /\ Len(t) = n + 6
    /\ \A j \in 1..n : t[j] = Sent(b, j)
    /\ t[n + 1] = Just("await")
    /\ t[n + 2] = Just("clear")
    /\ t[n + 3] = Sent(SenseBytes, 1)
    /\ t[n + 4] = Just("fetch")
    /\ t[n + 5] = Just("fetchCyl")
    /\ t[n + 6] = [op |-> "retry", bytes |-> b, left |-> l]

LEMMA AttemptIs ==
  ASSUME NEW b \in Seq(Int), NEW l \in Int, NEW n \in Nat, n = Len(b)
  PROVE  IsTurn(Attempt(b, l), b, l, n)
<1> DEFINE a == Command(b)
           w == waitForIRQ
           s == FDSenseInterrupt
           r == <<[op |-> "retry", bytes |-> b, left |-> l]>>
           aw == a \o w
           aws == aw \o s
           t == Attempt(b, l)
<1>1. /\ a \in Seq(Instruction) /\ Len(a) = n
      /\ w \in Seq(Instruction) /\ Len(w) = 2
      /\ s \in Seq(Instruction) /\ Len(s) = 3
      /\ r \in Seq(Instruction) /\ Len(r) = 1
  BY CommandIs, WaitIs, SenseIs DEF Instruction
<1>2. /\ \A j \in 1..n : a[j] = Sent(b, j)
      /\ w[1] = Just("await") /\ w[2] = Just("clear")
      /\ s[1] = Sent(SenseBytes, 1)
      /\ s[2] = Just("fetch") /\ s[3] = Just("fetchCyl")
      /\ r[1] = [op |-> "retry", bytes |-> b, left |-> l]
  BY CommandIs, WaitIs, SenseIs
<1>3. t = aws \o r
  BY DEF Attempt
<1> HIDE DEF a, w, s, r, t
<1>4. Joined(a, w, aw)
  BY <1>1, Join
<1> HIDE DEF aw
<1>5. /\ aw \in Seq(Instruction) /\ Len(aw) = n + 2
      /\ \A j \in 1..n : aw[j] = a[j]
      /\ aw[n + 1] = w[1] /\ aw[n + 2] = w[2]
  <2>1. /\ n + 1 \in Len(a) + 1 .. Len(a) + Len(w)
        /\ n + 2 \in Len(a) + 1 .. Len(a) + Len(w)
        /\ (n + 1) - Len(a) = 1 /\ (n + 2) - Len(a) = 2
        /\ Len(a) + Len(w) = n + 2
    BY <1>1
  <2>2. Len(a) = n
    BY <1>1
  <2> QED
    BY <1>4, <2>1, <2>2, Zenon DEF Joined
<1>6. Joined(aw, s, aws)
  BY <1>1, <1>5, Join
<1> HIDE DEF aws
<1>7. /\ aws \in Seq(Instruction) /\ Len(aws) = n + 5
      /\ \A j \in 1..(n + 2) : aws[j] = aw[j]
      /\ aws[n + 3] = s[1] /\ aws[n + 4] = s[2] /\ aws[n + 5] = s[3]
  <2>1. Len(aw) = n + 2
    BY <1>5
  <2>2. /\ n + 3 \in Len(aw) + 1 .. Len(aw) + Len(s)
        /\ n + 4 \in Len(aw) + 1 .. Len(aw) + Len(s)
        /\ n + 5 \in Len(aw) + 1 .. Len(aw) + Len(s)
        /\ (n + 3) - Len(aw) = 1 /\ (n + 4) - Len(aw) = 2
        /\ (n + 5) - Len(aw) = 3 /\ Len(aw) + Len(s) = n + 5
    BY <1>1, <2>1
  <2> QED
    BY <1>6, <2>1, <2>2, Zenon DEF Joined
<1>8. Joined(aws, r, t)
  BY <1>1, <1>3, <1>7, Join
<1>9. /\ t \in Seq(Instruction) /\ Len(t) = n + 6
      /\ \A j \in 1..(n + 5) : t[j] = aws[j]
      /\ t[n + 6] = r[1]
  BY <1>1, <1>7, <1>8 DEF Joined
<1>10. ASSUME NEW j \in 1..n
       PROVE  t[j] = Sent(b, j)
  <2>1. j \in 1..(n + 2) /\ j \in 1..(n + 5)
    OBVIOUS
  <2> QED
    BY <1>2, <1>5, <1>7, <1>9, <2>1, Zenon
<1>11. /\ t[n + 1] = w[1] /\ t[n + 2] = w[2]
       /\ t[n + 3] = s[1] /\ t[n + 4] = s[2] /\ t[n + 5] = s[3]
  <2>1. /\ n + 1 \in 1..(n + 2) /\ n + 2 \in 1..(n + 2)
        /\ n + 1 \in 1..(n + 5) /\ n + 2 \in 1..(n + 5)
        /\ n + 3 \in 1..(n + 5) /\ n + 4 \in 1..(n + 5)
        /\ n + 5 \in 1..(n + 5)
    OBVIOUS
  <2> QED
    BY <1>5, <1>7, <1>9, <2>1, Zenon
<1> QED
  BY <1>2, <1>9, <1>10, <1>11, Zenon DEF t, IsTurn

\* FDCInitialize, instruction by instruction.
LEMMA InitIs ==
  ASSUME NEW l \in Int
  PROVE  /\ InitCode(l) \in Seq(Instruction) /\ Len(InitCode(l)) = 30
         /\ InitCode(l)[1] = Just("dmaInitialize")
         /\ InitCode(l)[2] = Just("dorZero") /\ InitCode(l)[3] = Just("dorRun")
         /\ InitCode(l)[4] = Just("await") /\ InitCode(l)[5] = Just("clear")
         /\ \A k \in {6, 9, 12, 15} :
              /\ InitCode(l)[k] = Sent(SenseBytes, 1)
              /\ InitCode(l)[k + 1] = Just("fetch")
              /\ InitCode(l)[k + 2] = Just("fetchCyl")
         /\ \A j \in 1..3 : InitCode(l)[17 + j] = Sent(SpecifyBytes, j)
         /\ InitCode(l)[21] = Just("motorOn")
         /\ \A j \in 1..8 : InitCode(l)[21 + j]
                             = Attempt(RecalibrateBytes, l)[j]
         /\ InitCode(l)[30] = Just("motorOff")
<1> DEFINE d == Do("dmaInitialize")
           z == Do("dorZero")
           r == Do("dorRun")
           w == waitForIRQ
           s == FDSenseInterrupt
           p == FDCSpecifyDrive(FALSE)
           n == FDEnableMotor
           t == Attempt(RecalibrateBytes, l)
           f == FDDisableMotor
           c1 == z \o r
           c2 == c1 \o w
           c3 == c2 \o s
           c4 == c3 \o s
           c5 == c4 \o s
           c6 == c5 \o s
           c7 == c6 \o p
           a1 == n \o t
           a2 == a1 \o f
           c8 == c7 \o a2
           c9 == InitCode(l)
<1>1. /\ d \in Seq(Instruction) /\ Len(d) = 1 /\ d[1] = Just("dmaInitialize")
      /\ z \in Seq(Instruction) /\ Len(z) = 1 /\ z[1] = Just("dorZero")
      /\ r \in Seq(Instruction) /\ Len(r) = 1 /\ r[1] = Just("dorRun")
      /\ n \in Seq(Instruction) /\ Len(n) = 1 /\ n[1] = Just("motorOn")
      /\ f \in Seq(Instruction) /\ Len(f) = 1 /\ f[1] = Just("motorOff")
  <2>1. /\ "dmaInitialize" \in Plain /\ "dorZero" \in Plain
        /\ "dorRun" \in Plain /\ "motorOn" \in Plain /\ "motorOff" \in Plain
    BY DEF Plain
  <2> QED
    BY <2>1, DoIs, Zenon DEF FDEnableMotor, FDDisableMotor
<1>2. /\ w \in Seq(Instruction) /\ Len(w) = 2
      /\ w[1] = Just("await") /\ w[2] = Just("clear")
      /\ s \in Seq(Instruction) /\ Len(s) = 3
      /\ s[1] = Sent(SenseBytes, 1)
      /\ s[2] = Just("fetch") /\ s[3] = Just("fetchCyl")
  BY WaitIs, SenseIs, Zenon
<1>3. /\ p \in Seq(Instruction) /\ Len(p) = 3
      /\ \A j \in 1..3 : p[j] = Sent(SpecifyBytes, j)
  <2>1. SpecifyBytes \in Seq(Int) /\ Len(SpecifyBytes) = 3
    BY DEF SpecifyBytes, SPECIFY
  <2>2. p = Command(SpecifyBytes)
    BY DEF FDCSpecifyDrive, SpecifyBytes
  <2> QED
    BY <2>1, <2>2, CommandIs
<1>4. t \in Seq(Instruction) /\ Len(t) = 8
  <2>1. RecalibrateBytes \in Seq(Int) /\ Len(RecalibrateBytes) = 2
    BY DEF RecalibrateBytes, RECALIBRATE
  <2>2. 2 \in Nat /\ 2 = Len(RecalibrateBytes) /\ l \in Int
    BY <2>1
  <2>3. IsTurn(t, RecalibrateBytes, l, 2)
    BY <2>1, <2>2, AttemptIs, Zenon
  <2> QED
    BY <2>3 DEF IsTurn
<1>5. c9 = d \o c8
  BY Zenon DEF InitCode, RecalibrateBytes
<1> HIDE DEF d, z, r, w, s, p, n, t, f, c9
<1>jc1. Joined(z, r, c1)
  BY <1>1, Join
<1> HIDE DEF c1
<1>lc1. c1 \in Seq(Instruction) /\ Len(c1) = 2
  BY <1>1, <1>jc1 DEF Joined
<1>ec1. /\ c1[1] = z[1]
       /\ c1[2] = r[1]
  <2>1. Len(z) = 1 /\ Len(r) = 1
    BY <1>1, Zenon
  <2> QED
    BY <1>jc1, <2>1 DEF Joined
<1>jc2. Joined(c1, w, c2)
  BY <1>lc1, <1>2, Join
<1> HIDE DEF c2
<1>lc2. c2 \in Seq(Instruction) /\ Len(c2) = 4
  BY <1>lc1, <1>2, <1>jc2 DEF Joined
<1>ec2. /\ \A k \in 1..2 : c2[k] = c1[k]
       /\ c2[3] = w[1] /\ c2[4] = w[2]
  <2>1. Len(c1) = 2 /\ Len(w) = 2
    BY <1>lc1, <1>2, Zenon
  <2> QED
    BY <1>jc2, <2>1 DEF Joined
<1>jc3. Joined(c2, s, c3)
  BY <1>lc2, <1>2, Join
<1> HIDE DEF c3
<1>lc3. c3 \in Seq(Instruction) /\ Len(c3) = 7
  BY <1>lc2, <1>2, <1>jc3 DEF Joined
<1>ec3. /\ \A k \in 1..4 : c3[k] = c2[k]
       /\ c3[5] = s[1] /\ c3[6] = s[2] /\ c3[7] = s[3]
  <2>1. Len(c2) = 4 /\ Len(s) = 3
    BY <1>lc2, <1>2, Zenon
  <2> QED
    BY <1>jc3, <2>1 DEF Joined
<1>jc4. Joined(c3, s, c4)
  BY <1>lc3, <1>2, Join
<1> HIDE DEF c4
<1>lc4. c4 \in Seq(Instruction) /\ Len(c4) = 10
  BY <1>lc3, <1>2, <1>jc4 DEF Joined
<1>ec4. /\ \A k \in 1..7 : c4[k] = c3[k]
       /\ c4[8] = s[1] /\ c4[9] = s[2] /\ c4[10] = s[3]
  <2>1. Len(c3) = 7 /\ Len(s) = 3
    BY <1>lc3, <1>2, Zenon
  <2> QED
    BY <1>jc4, <2>1 DEF Joined
<1>jc5. Joined(c4, s, c5)
  BY <1>lc4, <1>2, Join
<1> HIDE DEF c5
<1>lc5. c5 \in Seq(Instruction) /\ Len(c5) = 13
  BY <1>lc4, <1>2, <1>jc5 DEF Joined
<1>ec5. /\ \A k \in 1..10 : c5[k] = c4[k]
       /\ c5[11] = s[1] /\ c5[12] = s[2] /\ c5[13] = s[3]
  <2>1. Len(c4) = 10 /\ Len(s) = 3
    BY <1>lc4, <1>2, Zenon
  <2> QED
    BY <1>jc5, <2>1 DEF Joined
<1>jc6. Joined(c5, s, c6)
  BY <1>lc5, <1>2, Join
<1> HIDE DEF c6
<1>lc6. c6 \in Seq(Instruction) /\ Len(c6) = 16
  BY <1>lc5, <1>2, <1>jc6 DEF Joined
<1>ec6. /\ \A k \in 1..13 : c6[k] = c5[k]
       /\ c6[14] = s[1] /\ c6[15] = s[2] /\ c6[16] = s[3]
  <2>1. Len(c5) = 13 /\ Len(s) = 3
    BY <1>lc5, <1>2, Zenon
  <2> QED
    BY <1>jc6, <2>1 DEF Joined
<1>jc7. Joined(c6, p, c7)
  BY <1>lc6, <1>3, Join
<1> HIDE DEF c7
<1>lc7. c7 \in Seq(Instruction) /\ Len(c7) = 19
  BY <1>lc6, <1>3, <1>jc7 DEF Joined
<1>ec7. /\ \A k \in 1..16 : c7[k] = c6[k]
       /\ c7[17] = p[1] /\ c7[18] = p[2] /\ c7[19] = p[3]
  <2>1. Len(c6) = 16 /\ Len(p) = 3
    BY <1>lc6, <1>3, Zenon
  <2> QED
    BY <1>jc7, <2>1 DEF Joined
<1>ja1. Joined(n, t, a1)
  BY <1>1, <1>4, Join
<1> HIDE DEF a1
<1>la1. a1 \in Seq(Instruction) /\ Len(a1) = 9
  BY <1>1, <1>4, <1>ja1 DEF Joined
<1>ea1. /\ a1[1] = n[1]
       /\ \A k \in 2..9 : a1[k] = t[k - 1]
  <2>1. Len(n) = 1 /\ Len(t) = 8
    BY <1>1, <1>4, Zenon
  <2> QED
    BY <1>ja1, <2>1 DEF Joined
<1>ja2. Joined(a1, f, a2)
  BY <1>la1, <1>1, Join
<1> HIDE DEF a2
<1>la2. a2 \in Seq(Instruction) /\ Len(a2) = 10
  BY <1>la1, <1>1, <1>ja2 DEF Joined
<1>ea2. /\ \A k \in 1..9 : a2[k] = a1[k]
       /\ a2[10] = f[1]
  <2>1. Len(a1) = 9 /\ Len(f) = 1
    BY <1>la1, <1>1, Zenon
  <2> QED
    BY <1>ja2, <2>1 DEF Joined
<1>jc8. Joined(c7, a2, c8)
  BY <1>lc7, <1>la2, Join
<1> HIDE DEF c8
<1>lc8. c8 \in Seq(Instruction) /\ Len(c8) = 29
  BY <1>lc7, <1>la2, <1>jc8 DEF Joined
<1>ec8. /\ \A k \in 1..19 : c8[k] = c7[k]
       /\ \A k \in 20..29 : c8[k] = a2[k - 19]
  <2>1. Len(c7) = 19 /\ Len(a2) = 10
    BY <1>lc7, <1>la2, Zenon
  <2> QED
    BY <1>jc8, <2>1 DEF Joined
<1>jc9. Joined(d, c8, c9)
  BY <1>1, <1>lc8, <1>5, Join
<1>lc9. c9 \in Seq(Instruction) /\ Len(c9) = 30
  BY <1>1, <1>lc8, <1>jc9 DEF Joined
<1>ec9. /\ c9[1] = d[1]
       /\ \A k \in 2..30 : c9[k] = c8[k - 1]
  <2>1. Len(d) = 1 /\ Len(c8) = 29
    BY <1>1, <1>lc8, Zenon
  <2> QED
    BY <1>jc9, <2>1 DEF Joined
<1>6. \A k \in 1..16 : c8[k] = c6[k]
  BY <1>ec7, <1>ec8
<1>7. /\ c8[1] = z[1] /\ c8[2] = r[1] /\ c8[3] = w[1] /\ c8[4] = w[2]
  <2>1. \A k \in 1..4 : c8[k] = c2[k]
    BY <1>ec3, <1>ec4, <1>ec5, <1>ec6, <1>6
  <2> QED
    BY <1>ec1, <1>ec2, <2>1
<1>8. /\ c8[5] = s[1] /\ c8[6] = s[2] /\ c8[7] = s[3]
       /\ c8[8] = s[1] /\ c8[9] = s[2] /\ c8[10] = s[3]
       /\ c8[11] = s[1] /\ c8[12] = s[2] /\ c8[13] = s[3]
       /\ c8[14] = s[1] /\ c8[15] = s[2] /\ c8[16] = s[3]
  BY <1>ec3, <1>ec4, <1>ec5, <1>ec6, <1>6
<1>9. c8[17] = p[1] /\ c8[18] = p[2] /\ c8[19] = p[3]
  BY <1>ec7, <1>ec8
<1>10. /\ c8[20] = n[1] /\ c8[29] = f[1]
       /\ \A j \in 1..8 : c8[20 + j] = t[j]
  <2>1. a2[1] = n[1] /\ a2[10] = f[1]
    BY <1>ea1, <1>ea2
  <2>2. ASSUME NEW j \in 1..8
        PROVE  c8[20 + j] = t[j]
    <3>1. /\ 20 + j \in 20..29 /\ (20 + j) - 19 = j + 1
          /\ j + 1 \in 1..9 /\ j + 1 \in 2..9 /\ (j + 1) - 1 = j
      OBVIOUS
    <3>2. c8[20 + j] = a2[j + 1]
      BY <1>ec8, <3>1, Zenon
    <3>3. a2[j + 1] = a1[j + 1]
      BY <1>ea2, <3>1, Zenon
    <3>4. a1[j + 1] = t[j]
      BY <1>ea1, <3>1, Zenon
    <3> QED
      BY <3>2, <3>3, <3>4
  <2>3. c8[20] = a2[1] /\ c8[29] = a2[10]
    BY <1>ec8
  <2> QED
    BY <2>1, <2>2, <2>3, Zenon
<1>11. c9[1] = d[1] /\ \A k \in 1..29 : c9[k + 1] = c8[k]
  <2>1. ASSUME NEW k \in 1..29
        PROVE  c9[k + 1] = c8[k]
    <3>1. k + 1 \in 2..30 /\ (k + 1) - 1 = k
      OBVIOUS
    <3> QED
      BY <1>ec9, <3>1, Zenon
  <2> QED
    BY <1>ec9, <2>1, Zenon
<1>12. \A j \in 1..8 : c9[21 + j] = t[j]
  <2> TAKE j \in 1..8
  <2>1. 20 + j \in 1..29 /\ (20 + j) + 1 = 21 + j
    OBVIOUS
  <2> QED
    BY <1>10, <1>11, <2>1, Zenon
<1>13. \A j \in 1..3 : c9[17 + j] = p[j]
  <2>1. c9[18] = c8[17] /\ c9[19] = c8[18] /\ c9[20] = c8[19]
    BY <1>11
  <2>2. c9[17 + 1] = p[1] /\ c9[17 + 2] = p[2] /\ c9[17 + 3] = p[3]
    BY <1>9, <2>1
  <2> QED
    BY <2>2
<1>14. /\ c9[2] = z[1] /\ c9[3] = r[1] /\ c9[4] = w[1] /\ c9[5] = w[2]
       /\ c9[21] = n[1] /\ c9[30] = f[1]
  <2>1. /\ c9[2] = c8[1] /\ c9[3] = c8[2] /\ c9[4] = c8[3] /\ c9[5] = c8[4]
        /\ c9[21] = c8[20] /\ c9[30] = c8[29]
    BY <1>11
  <2> QED
    BY <1>7, <1>10, <2>1, Zenon
<1>15. \A k \in {6, 9, 12, 15} :
         c9[k] = s[1] /\ c9[k + 1] = s[2] /\ c9[k + 2] = s[3]
  <2>1. \A k \in {5, 8, 11, 14} :
          c8[k] = s[1] /\ c8[k + 1] = s[2] /\ c8[k + 2] = s[3]
    BY <1>8
  <2> TAKE k \in {6, 9, 12, 15}
  <2>2. /\ k - 1 \in {5, 8, 11, 14} /\ (k - 1) + 1 = k /\ (k - 1) + 2 = k + 1
        /\ k - 1 \in 1..29 /\ k \in 1..29 /\ k + 1 \in 1..29
        /\ (k + 1) + 1 = k + 2
    OBVIOUS
  <2>3. c8[k - 1] = s[1] /\ c8[k] = s[2] /\ c8[k + 1] = s[3]
    BY <2>1, <2>2, Zenon
  <2> QED
    BY <1>11, <2>2, <2>3, Zenon
<1> HIDE DEF c9
<1>16. /\ c9 \in Seq(Instruction) /\ Len(c9) = 30
       /\ c9[1] = Just("dmaInitialize")
       /\ c9[2] = Just("dorZero") /\ c9[3] = Just("dorRun")
       /\ c9[4] = Just("await") /\ c9[5] = Just("clear")
       /\ c9[21] = Just("motorOn") /\ c9[30] = Just("motorOff")
  BY <1>1, <1>2, <1>lc9, <1>ec9, <1>11, <1>14, Zenon
<1>17. /\ \A k \in {6, 9, 12, 15} :
            /\ c9[k] = Sent(SenseBytes, 1)
            /\ c9[k + 1] = Just("fetch") /\ c9[k + 2] = Just("fetchCyl")
       /\ \A j \in 1..3 : c9[17 + j] = Sent(SpecifyBytes, j)
  BY <1>2, <1>3, <1>13, <1>15, Zenon
<1> QED
  BY <1>12, <1>16, <1>17, Zenon DEF c9, t

\* The commands of readSector_int.
LEMMA BytesAre ==
  ASSUME NEW s \in Lbas
  PROVE  /\ SeekBytes(s) \in Seq(Int) /\ Len(SeekBytes(s)) = 3
         /\ ReadBytes(s) \in Seq(Int) /\ Len(ReadBytes(s)) = 9
<1>1. CylOf(s) \in Int /\ HeadOf(s) \in Int /\ SectorOf(s) \in Int
  BY ConvertToCHSCorrect
<1>2. EndOfTrack(SectorOf(s)) \in Int
  BY <1>1 DEF EndOfTrack, SectorsPerTrack
<1> QED
  BY <1>1, <1>2 DEF SeekBytes, ReadBytes, SEEK, READ

\* readSector_int, instruction by instruction.
LEMMA ReadIs ==
  ASSUME NEW l \in Int, NEW x \in Lbas
  PROVE  /\ ReadCode(x, l) \in Seq(Instruction) /\ Len(ReadCode(x, l)) = 36
         /\ ReadCode(x, l)[1] = Just("setReadDMA")
         /\ ReadCode(x, l)[2] = Just("motorOn")
         /\ \A j \in 1..9 : ReadCode(x, l)[2 + j] = Attempt(SeekBytes(x), l)[j]
         /\ ReadCode(x, l)[12] = Just("motorOff")
         /\ ReadCode(x, l)[13] = Just("motorOn")
         /\ \A j \in 1..9 : ReadCode(x, l)[13 + j] = Sent(ReadBytes(x), j)
         /\ ReadCode(x, l)[23] = Just("await") /\ ReadCode(x, l)[24] = Just("clear")
         /\ \A j \in 1..7 : ReadCode(x, l)[24 + j] = Just("fetch")
         /\ ReadCode(x, l)[32] = Sent(SenseBytes, 1)
         /\ ReadCode(x, l)[33] = Just("fetch")
         /\ ReadCode(x, l)[34] = Just("fetchCyl")
         /\ ReadCode(x, l)[35] = Just("motorOff")
         /\ ReadCode(x, l)[36] = Just("copyOut")
<1> DEFINE d == Do("setReadDMA")
           n == FDEnableMotor
           t == Attempt(SeekBytes(x), l)
           f == FDDisableMotor
           a1 == n \o t
           a2 == a1 \o f
           b == Command(ReadBytes(x))
           w == waitForIRQ
           g == Fetch(7)
           s == FDSenseInterrupt
           o == Do("copyOut")
           c1 == d \o a2
           c2 == c1 \o n
           c3 == c2 \o b
           c4 == c3 \o w
           c5 == c4 \o g
           c6 == c5 \o s
           c7 == c6 \o f
           c8 == ReadCode(x, l)
<1>1. /\ d \in Seq(Instruction) /\ Len(d) = 1 /\ d[1] = Just("setReadDMA")
      /\ n \in Seq(Instruction) /\ Len(n) = 1 /\ n[1] = Just("motorOn")
      /\ f \in Seq(Instruction) /\ Len(f) = 1 /\ f[1] = Just("motorOff")
      /\ o \in Seq(Instruction) /\ Len(o) = 1 /\ o[1] = Just("copyOut")
  <2>1. /\ "setReadDMA" \in Plain /\ "copyOut" \in Plain
        /\ "motorOn" \in Plain /\ "motorOff" \in Plain
    BY DEF Plain
  <2> QED
    BY <2>1, DoIs, Zenon DEF FDEnableMotor, FDDisableMotor
<1>2. /\ w \in Seq(Instruction) /\ Len(w) = 2
      /\ w[1] = Just("await") /\ w[2] = Just("clear")
      /\ s \in Seq(Instruction) /\ Len(s) = 3
      /\ s[1] = Sent(SenseBytes, 1)
      /\ s[2] = Just("fetch") /\ s[3] = Just("fetchCyl")
  BY WaitIs, SenseIs, Zenon
<1>3. /\ b \in Seq(Instruction) /\ Len(b) = 9
      /\ \A j \in 1..9 : b[j] = Sent(ReadBytes(x), j)
  BY BytesAre, CommandIs
<1>4. t \in Seq(Instruction) /\ Len(t) = 9
  <2>1. SeekBytes(x) \in Seq(Int) /\ Len(SeekBytes(x)) = 3
    BY BytesAre, Zenon
  <2>2. 3 \in Nat /\ 3 = Len(SeekBytes(x)) /\ l \in Int
    BY <2>1
  <2>3. IsTurn(t, SeekBytes(x), l, 3)
    BY <2>1, <2>2, AttemptIs, Zenon
  <2> QED
    BY <2>3 DEF IsTurn
<1>5. /\ g \in Seq(Instruction) /\ Len(g) = 7
      /\ \A j \in 1..7 : g[j] = Just("fetch")
  BY FetchIs
<1>6. c8 = c7 \o o
  BY Zenon DEF ReadCode
<1> HIDE DEF d, n, t, f, b, w, g, s, o, c8
<1>ja1. Joined(n, t, a1)
  BY <1>1, <1>4, Join
<1> HIDE DEF a1
<1>la1. a1 \in Seq(Instruction) /\ Len(a1) = 10
  BY <1>1, <1>4, <1>ja1 DEF Joined
<1>ea1. /\ a1[1] = n[1]
       /\ \A k \in 2..10 : a1[k] = t[k - 1]
  <2>1. Len(n) = 1 /\ Len(t) = 9
    BY <1>1, <1>4, Zenon
  <2> QED
    BY <1>ja1, <2>1 DEF Joined
<1>ja2. Joined(a1, f, a2)
  BY <1>la1, <1>1, Join
<1> HIDE DEF a2
<1>la2. a2 \in Seq(Instruction) /\ Len(a2) = 11
  BY <1>la1, <1>1, <1>ja2 DEF Joined
<1>ea2. /\ \A k \in 1..10 : a2[k] = a1[k]
       /\ a2[11] = f[1]
  <2>1. Len(a1) = 10 /\ Len(f) = 1
    BY <1>la1, <1>1, Zenon
  <2> QED
    BY <1>ja2, <2>1 DEF Joined
<1>jc1. Joined(d, a2, c1)
  BY <1>1, <1>la2, Join
<1> HIDE DEF c1
<1>lc1. c1 \in Seq(Instruction) /\ Len(c1) = 12
  BY <1>1, <1>la2, <1>jc1 DEF Joined
<1>ec1. /\ c1[1] = d[1]
       /\ \A k \in 2..12 : c1[k] = a2[k - 1]
  <2>1. Len(d) = 1 /\ Len(a2) = 11
    BY <1>1, <1>la2, Zenon
  <2> QED
    BY <1>jc1, <2>1 DEF Joined
<1>jc2. Joined(c1, n, c2)
  BY <1>lc1, <1>1, Join
<1> HIDE DEF c2
<1>lc2. c2 \in Seq(Instruction) /\ Len(c2) = 13
  BY <1>lc1, <1>1, <1>jc2 DEF Joined
<1>ec2. /\ \A k \in 1..12 : c2[k] = c1[k]
       /\ c2[13] = n[1]
  <2>1. Len(c1) = 12 /\ Len(n) = 1
    BY <1>lc1, <1>1, Zenon
  <2> QED
    BY <1>jc2, <2>1 DEF Joined
<1>jc3. Joined(c2, b, c3)
  BY <1>lc2, <1>3, Join
<1> HIDE DEF c3
<1>lc3. c3 \in Seq(Instruction) /\ Len(c3) = 22
  BY <1>lc2, <1>3, <1>jc3 DEF Joined
<1>ec3. /\ \A k \in 1..13 : c3[k] = c2[k]
       /\ \A k \in 14..22 : c3[k] = b[k - 13]
  <2>1. Len(c2) = 13 /\ Len(b) = 9
    BY <1>lc2, <1>3, Zenon
  <2> QED
    BY <1>jc3, <2>1 DEF Joined
<1>jc4. Joined(c3, w, c4)
  BY <1>lc3, <1>2, Join
<1> HIDE DEF c4
<1>lc4. c4 \in Seq(Instruction) /\ Len(c4) = 24
  BY <1>lc3, <1>2, <1>jc4 DEF Joined
<1>ec4. /\ \A k \in 1..22 : c4[k] = c3[k]
       /\ c4[23] = w[1] /\ c4[24] = w[2]
  <2>1. Len(c3) = 22 /\ Len(w) = 2
    BY <1>lc3, <1>2, Zenon
  <2> QED
    BY <1>jc4, <2>1 DEF Joined
<1>jc5. Joined(c4, g, c5)
  BY <1>lc4, <1>5, Join
<1> HIDE DEF c5
<1>lc5. c5 \in Seq(Instruction) /\ Len(c5) = 31
  BY <1>lc4, <1>5, <1>jc5 DEF Joined
<1>ec5. /\ \A k \in 1..24 : c5[k] = c4[k]
       /\ \A k \in 25..31 : c5[k] = g[k - 24]
  <2>1. Len(c4) = 24 /\ Len(g) = 7
    BY <1>lc4, <1>5, Zenon
  <2> QED
    BY <1>jc5, <2>1 DEF Joined
<1>jc6. Joined(c5, s, c6)
  BY <1>lc5, <1>2, Join
<1> HIDE DEF c6
<1>lc6. c6 \in Seq(Instruction) /\ Len(c6) = 34
  BY <1>lc5, <1>2, <1>jc6 DEF Joined
<1>ec6. /\ \A k \in 1..31 : c6[k] = c5[k]
       /\ c6[32] = s[1] /\ c6[33] = s[2] /\ c6[34] = s[3]
  <2>1. Len(c5) = 31 /\ Len(s) = 3
    BY <1>lc5, <1>2, Zenon
  <2> QED
    BY <1>jc6, <2>1 DEF Joined
<1>jc7. Joined(c6, f, c7)
  BY <1>lc6, <1>1, Join
<1> HIDE DEF c7
<1>lc7. c7 \in Seq(Instruction) /\ Len(c7) = 35
  BY <1>lc6, <1>1, <1>jc7 DEF Joined
<1>ec7. /\ \A k \in 1..34 : c7[k] = c6[k]
       /\ c7[35] = f[1]
  <2>1. Len(c6) = 34 /\ Len(f) = 1
    BY <1>lc6, <1>1, Zenon
  <2> QED
    BY <1>jc7, <2>1 DEF Joined
<1>jc8. Joined(c7, o, c8)
  BY <1>lc7, <1>1, <1>6, Join
<1>lc8. c8 \in Seq(Instruction) /\ Len(c8) = 36
  BY <1>lc7, <1>1, <1>jc8 DEF Joined
<1>ec8. /\ \A k \in 1..35 : c8[k] = c7[k]
       /\ c8[36] = o[1]
  <2>1. Len(c7) = 35 /\ Len(o) = 1
    BY <1>lc7, <1>1, Zenon
  <2> QED
    BY <1>jc8, <2>1 DEF Joined
<1>7. c8[36] = o[1] /\ c8[35] = f[1]
  BY <1>ec7, <1>ec8
<1>8. c8[32] = s[1] /\ c8[33] = s[2] /\ c8[34] = s[3]
  BY <1>ec6, <1>ec7, <1>ec8
<1>9. \A k \in 1..31 : c8[k] = c5[k]
  BY <1>ec6, <1>ec7, <1>ec8
<1>10. \A k \in 1..24 : c8[k] = c4[k]
  BY <1>ec5, <1>9
<1>11. c8[23] = w[1] /\ c8[24] = w[2]
  BY <1>ec4, <1>10
<1>12. \A j \in 1..7 : c8[24 + j] = g[j]
  <2> TAKE j \in 1..7
  <2>1. 24 + j \in 25..31 /\ 24 + j \in 1..31 /\ (24 + j) - 24 = j
    OBVIOUS
  <2> QED
    BY <1>ec5, <1>9, <2>1, Zenon
<1>13. \A k \in 1..22 : c8[k] = c3[k]
  BY <1>ec4, <1>10
<1>14. \A j \in 1..9 : c8[13 + j] = b[j]
  <2> TAKE j \in 1..9
  <2>1. 13 + j \in 14..22 /\ 13 + j \in 1..22 /\ (13 + j) - 13 = j
    OBVIOUS
  <2> QED
    BY <1>ec3, <1>13, <2>1, Zenon
<1>15. c8[13] = n[1] /\ \A k \in 1..12 : c8[k] = c1[k]
  BY <1>ec2, <1>ec3, <1>13
<1>16. c8[1] = d[1] /\ c8[2] = n[1] /\ c8[12] = f[1]
  <2>1. c1[1] = d[1] /\ c1[2] = a2[1] /\ c1[12] = a2[11]
    BY <1>ec1
  <2>2. a2[1] = n[1] /\ a2[11] = f[1]
    BY <1>ea1, <1>ea2
  <2>3. c8[1] = c1[1] /\ c8[2] = c1[2] /\ c8[12] = c1[12]
    BY <1>15
  <2> QED
    BY <2>1, <2>2, <2>3, Zenon
<1>17. \A j \in 1..9 : c8[2 + j] = t[j]
  <2> TAKE j \in 1..9
  <2>1. /\ 2 + j \in 1..12 /\ 2 + j \in 2..12 /\ (2 + j) - 1 = j + 1
        /\ j + 1 \in 1..10 /\ j + 1 \in 2..10 /\ (j + 1) - 1 = j
    OBVIOUS
  <2>2. c8[2 + j] = c1[2 + j]
    BY <1>15, <2>1, Zenon
  <2>3. c1[2 + j] = a2[j + 1]
    BY <1>ec1, <2>1, Zenon
  <2>4. a2[j + 1] = a1[j + 1]
    BY <1>ea2, <2>1, Zenon
  <2>5. a1[j + 1] = t[j]
    BY <1>ea1, <2>1, Zenon
  <2> QED
    BY <2>2, <2>3, <2>4, <2>5
<1>18. /\ c8 \in Seq(Instruction) /\ Len(c8) = 36
       /\ c8[1] = Just("setReadDMA") /\ c8[2] = Just("motorOn")
       /\ c8[12] = Just("motorOff") /\ c8[13] = Just("motorOn")
       /\ c8[23] = Just("await") /\ c8[24] = Just("clear")
       /\ c8[32] = Sent(SenseBytes, 1)
       /\ c8[33] = Just("fetch") /\ c8[34] = Just("fetchCyl")
       /\ c8[35] = Just("motorOff") /\ c8[36] = Just("copyOut")
  BY <1>1, <1>2, <1>lc8, <1>ec8, <1>7, <1>8, <1>11, <1>15, <1>16, Zenon
<1>19. /\ \A j \in 1..9 : c8[13 + j] = Sent(ReadBytes(x), j)
       /\ \A j \in 1..7 : c8[24 + j] = Just("fetch")
  BY <1>3, <1>5, <1>12, <1>14, Zenon
<1> QED
  BY <1>17, <1>18, <1>19, Zenon DEF c8, t

-----------------------------------------------------------------------------
(***************************************************************************)
(* The loops.                                                              *)
(***************************************************************************)
\* The turn of the loop in FDCInitialize.
LEMMA InitTurn ==
  ASSUME NEW l \in Int
  PROVE  /\ InitCode(l)[22] = Sent(RecalibrateBytes, 1)
         /\ InitCode(l)[23] = Sent(RecalibrateBytes, 2)
         /\ InitCode(l)[24] = Just("await") /\ InitCode(l)[25] = Just("clear")
         /\ InitCode(l)[26] = Sent(SenseBytes, 1)
         /\ InitCode(l)[27] = Just("fetch")
         /\ InitCode(l)[28] = Just("fetchCyl")
         /\ InitCode(l)[29] = [op |-> "retry", bytes |-> RecalibrateBytes,
                               left |-> l]
<1> DEFINE t == Attempt(RecalibrateBytes, l)
           c == InitCode(l)
<1>1. \A j \in 1..8 : c[21 + j] = t[j]
  BY InitIs, Zenon
<1>2. IsTurn(t, RecalibrateBytes, l, 2)
  <2>1. RecalibrateBytes \in Seq(Int) /\ 2 = Len(RecalibrateBytes) /\ 2 \in Nat
    BY DEF RecalibrateBytes, RECALIBRATE
  <2> QED
    BY <2>1, AttemptIs, Zenon
<1> HIDE DEF t, c
<1>4. /\ c[22] = t[1] /\ c[23] = t[2] /\ c[24] = t[3] /\ c[25] = t[4]
      /\ c[26] = t[5] /\ c[27] = t[6] /\ c[28] = t[7] /\ c[29] = t[8]
  BY <1>1
<1>5. /\ t[1] = Sent(RecalibrateBytes, 1) /\ t[2] = Sent(RecalibrateBytes, 2)
      /\ t[3] = Just("await") /\ t[4] = Just("clear")
      /\ t[5] = Sent(SenseBytes, 1)
      /\ t[6] = Just("fetch") /\ t[7] = Just("fetchCyl")
      /\ t[8] = [op |-> "retry", bytes |-> RecalibrateBytes, left |-> l]
  BY <1>2 DEF IsTurn
<1> QED
  BY <1>4, <1>5, Zenon DEF c

\* The turn of the loop in readSector_int.
LEMMA ReadTurn ==
  ASSUME NEW l \in Int, NEW x \in Lbas
  PROVE  /\ ReadCode(x, l)[3] = Sent(SeekBytes(x), 1)
         /\ ReadCode(x, l)[4] = Sent(SeekBytes(x), 2)
         /\ ReadCode(x, l)[5] = Sent(SeekBytes(x), 3)
         /\ ReadCode(x, l)[6] = Just("await") /\ ReadCode(x, l)[7] = Just("clear")
         /\ ReadCode(x, l)[8] = Sent(SenseBytes, 1)
         /\ ReadCode(x, l)[9] = Just("fetch")
         /\ ReadCode(x, l)[10] = Just("fetchCyl")
         /\ ReadCode(x, l)[11] = [op |-> "retry", bytes |-> SeekBytes(x),
                                  left |-> l]
<1> DEFINE t == Attempt(SeekBytes(x), l)
           c == ReadCode(x, l)
<1>1. \A j \in 1..9 : c[2 + j] = t[j]
  BY ReadIs, Zenon
<1>2. IsTurn(t, SeekBytes(x), l, 3)
  <2>1. SeekBytes(x) \in Seq(Int) /\ 3 = Len(SeekBytes(x)) /\ 3 \in Nat
    BY BytesAre
  <2> QED
    BY <2>1, AttemptIs, Zenon
<1> HIDE DEF t, c
<1>4. /\ c[3] = t[1] /\ c[4] = t[2] /\ c[5] = t[3] /\ c[6] = t[4]
      /\ c[7] = t[5] /\ c[8] = t[6] /\ c[9] = t[7] /\ c[10] = t[8]
      /\ c[11] = t[9]
  BY <1>1
<1>5. /\ t[1] = Sent(SeekBytes(x), 1) /\ t[2] = Sent(SeekBytes(x), 2)
      /\ t[3] = Sent(SeekBytes(x), 3)
      /\ t[4] = Just("await") /\ t[5] = Just("clear")
      /\ t[6] = Sent(SenseBytes, 1)
      /\ t[7] = Just("fetch") /\ t[8] = Just("fetchCyl")
      /\ t[9] = [op |-> "retry", bytes |-> SeekBytes(x), left |-> l]
  BY <1>2 DEF IsTurn
<1> QED
  BY <1>4, <1>5, Zenon DEF c

\* A turn put before what follows another turn is the code from there on.
LEMMA TurnAgain ==
  ASSUME NEW c \in Seq(Instruction), NEW d \in Seq(Instruction),
         NEW t \in Seq(Instruction), NEW m \in Nat, NEW n \in Nat,
         m + Len(t) <= n, Len(c) = n, Len(d) = n,
         \A j \in 1..Len(t) : c[m + j] = t[j],
         \A k \in (m + Len(t) + 1)..n : c[k] = d[k]
  PROVE  t \o SubSeq(d, m + Len(t) + 1, n) = SubSeq(c, m + 1, n)
<1> DEFINE a == m + Len(t) + 1
           e == SubSeq(d, a, n)
           f == SubSeq(c, m + 1, n)
<1>1. Len(t) \in Nat
  OBVIOUS
<1>2. /\ e \in Seq(Instruction) /\ Len(e) = n - (m + Len(t))
      /\ \A i \in 1..Len(e) : e[i] = d[(m + Len(t)) + i]
  <2>1. a \in 1..(n + 1) /\ n \in (a - 1)..Len(d)
    BY <1>1
  <2> QED
    BY <2>1, <1>1, SubSeqProperties
<1>3. /\ f \in Seq(Instruction) /\ Len(f) = n - m
      /\ \A i \in 1..Len(f) : f[i] = c[m + i]
  <2>1. m + 1 \in 1..(n + 1) /\ n \in ((m + 1) - 1)..Len(c)
    BY <1>1
  <2> QED
    BY <2>1, <1>1, SubSeqProperties
<1> HIDE DEF a, e, f
<1> DEFINE u == t \o e
<1>4. Joined(t, e, u)
  BY <1>2, Join
<1> HIDE DEF u
<1>5. u \in Seq(Instruction) /\ Len(u) = Len(f)
  BY <1>1, <1>2, <1>3, <1>4 DEF Joined
<1>6. ASSUME NEW i \in 1..Len(u)
      PROVE  u[i] = f[i]
  <2>1. f[i] = c[m + i]
    BY <1>3, <1>5
  <2>2. CASE i \in 1..Len(t)
    BY <1>4, <2>1, <2>2 DEF Joined
  <2>3. CASE i \notin 1..Len(t)
    <3>1. /\ i \in Len(t) + 1 .. Len(t) + Len(e)
          /\ i - Len(t) \in 1..Len(e)
          /\ (m + Len(t)) + (i - Len(t)) = m + i
          /\ m + i \in (m + Len(t) + 1)..n
      BY <1>1, <1>2, <1>3, <1>5, <2>3
    <3>2. u[i] = e[i - Len(t)]
      BY <1>4, <3>1, Zenon DEF Joined
    <3>3. e[i - Len(t)] = d[m + i]
      BY <1>2, <3>1, Zenon
    <3>4. c[m + i] = d[m + i]
      BY <3>1
    <3> QED
      BY <2>1, <3>2, <3>3, <3>4
  <2> QED
    BY <2>2, <2>3
<1>7. u = f
  BY <1>3, <1>5, <1>6, SeqEqual
<1> QED
  BY <1>7 DEF u, e, f, a

-----------------------------------------------------------------------------
(***************************************************************************)
(* What the controller may be doing when the driver is about to carry out  *)
(* an instruction.                                                         *)
(***************************************************************************)
Quiet == ~ irq /\ ~ isr6

\* The flag is set and the interrupt is not requested again.
Flagged == isr6 /\ ~ irq

\* The interrupt has been raised, and not been seen yet.
Raised == (irq /\ ~ isr6) \/ Flagged

\* At rest, with p SENSE INTERRUPTs to answer.
Idle(p) ==
    /\ phase = "idle" /\ command = <<>> /\ result = <<>>
    /\ seeking = None /\ pending = p

Rest(p) == Idle(p) /\ Quiet

Woken(p) == Idle(p) /\ Flagged

Held ==
    /\ phase = "reset" /\ command = <<>> /\ result = <<>>
    /\ seeking = None /\ pending = 0 /\ Quiet

Starting ==
    \/ /\ phase = "resetting" /\ command = <<>> /\ result = <<>>
       /\ seeking = None /\ pending = 0 /\ Quiet
    \/ Idle(4) /\ Raised

\* It has taken j bytes of the command b, or all of them.
Taking(b, j) ==
    /\ phase = "command" /\ command = SubSeq(b, 1, j) /\ result = <<>>
    /\ seeking = None /\ pending = 0 /\ Quiet

Doing(b, p) ==
    /\ phase = "execute" /\ command = b /\ result = <<>>
    /\ seeking = None /\ pending = p /\ Quiet

\* It has something to say.
Said(p) ==
    /\ phase = "result" /\ command = <<>>
    /\ seeking = None /\ pending = p

Sensing(p) ==
    \/ Doing(SenseBytes, p)
    \/ p > 0 /\ Said(p - 1) /\ Quiet /\ result = <<0, track>>
    \/ p = 0 /\ Said(0) /\ Quiet /\ result \in {<<128>>, <<128, track>>}

CylinderNext(p) == Said(p) /\ Quiet /\ result = <<track>>

Specifying == Doing(SpecifyBytes, 0) \/ (Rest(0) /\ ~ nonDma)

\* Every turn before this one has ended short of cylinder 0, ...
Failed(c, l) == c = 0 => short >= Tries - 1 - l

\* ... and this one has arrived, or ended short as well.
Arrived(c, l) == track = c \/ (c = 0 /\ short >= Tries - l)

Stepping(b, c, l) ==
    \/ Doing(b, 0) /\ Failed(c, l)
    \/ /\ phase = "idle" /\ command = <<>> /\ result = <<>>
       /\ seeking = c /\ pending = 0 /\ Quiet /\ Failed(c, l)
    \/ Idle(1) /\ Raised /\ Arrived(c, l)

\* The sector is in the DMA buffer.
Delivered(s) == Short < Tries => dmaBuffer = s

\* m bytes of the answer to READ are left.
Left(m) == Said(0) /\ result \in Seq(Int) /\ Len(result) = m

Reading(s) ==
    \/ Doing(ReadBytes(s), 0) /\ Arrived(CylOf(s), 0)
    \/ Left(7) /\ Raised /\ Delivered(s)

-----------------------------------------------------------------------------
(***************************************************************************)
(* The inductive invariant: where the driver is in its code, and what the  *)
(* controller is doing there.                                              *)
(***************************************************************************)
InitDoing(k, l) ==
    /\ want = None /\ got = None
    /\ k \in {0, 1} => Rest(0)
    /\ k = 2 => Held
    /\ k = 3 => Starting
    /\ k = 4 => Woken(4)
    /\ k \in {5, 8, 11, 14, 17} => Rest((17 - k) \div 3)
    /\ k \in {6, 9, 12, 15} => Sensing((18 - k) \div 3)
    /\ k \in {7, 10, 13, 16} => CylinderNext((16 - k) \div 3)
    /\ k \in {18, 19} => Taking(SpecifyBytes, k - 17)
    /\ k \in {20, 21} => Specifying
    /\ k = 22 => Taking(RecalibrateBytes, 1)
    /\ k = 23 => Stepping(RecalibrateBytes, 0, l)
    /\ k = 24 => Woken(1)
    /\ k = 25 => Rest(1)
    /\ k = 26 => Sensing(1)
    /\ k = 27 => CylinderNext(0)
    /\ k \in {28, 29} => Rest(0)
    /\ k <= 22 => Failed(0, l)
    /\ k \in 24..28 => Arrived(0, l)
    /\ k = 28 => cyl = track
    /\ k = 29 => Arrived(0, 0)
    /\ k >= 22 => ~ nonDma
    /\ k >= 1 => dmaAtBuffer

InitAt(k, l) == todo = SubSeq(InitCode(l), k + 1, 30) /\ InitDoing(k, l)

ReadDoing(s, k, l) ==
    /\ want = s /\ ~ nonDma /\ dmaAtBuffer
    /\ k \in {0, 1, 2, 10, 11, 12, 13, 31, 34, 35} => Rest(0)
    /\ k \in {3, 4} => Taking(SeekBytes(s), k - 2)
    /\ k = 5 => Stepping(SeekBytes(s), CylOf(s), l)
    /\ k = 6 => Woken(1)
    /\ k = 7 => Rest(1)
    /\ k = 8 => Sensing(1)
    /\ k = 9 => CylinderNext(0)
    /\ k \in 14..21 => Taking(ReadBytes(s), k - 13)
    /\ k = 22 => Reading(s)
    /\ k = 23 => Left(7) /\ Flagged
    /\ k \in 24..30 => Left(31 - k) /\ Quiet
    /\ k = 32 => Sensing(0)
    /\ k = 33 => CylinderNext(0) \/ Rest(0)
    /\ k \in 0..4 => Failed(CylOf(s), l)
    /\ k \in 6..10 => Arrived(CylOf(s), l)
    /\ k = 10 => cyl = track
    /\ k \in 11..21 => Arrived(CylOf(s), 0)
    /\ k >= 23 => Delivered(s)
    /\ k >= 1 => dmaAuto
    /\ k \in 13..22 => motor
    /\ k = 35 => ~ motor

ReadAt(s, k, l) == todo = SubSeq(ReadCode(s, l), k + 1, 36) /\ ReadDoing(s, k, l)

Between ==
    /\ todo = <<>>
    /\ want = None /\ ~ nonDma /\ dmaAtBuffer
    /\ Rest(0) /\ ~ motor
    /\ Short < Tries /\ got = None => track = 0

Initializing == \E l \in 0..(Tries - 1), k \in 0..29 : InitAt(k, l)
ReadingSector ==
    \E s \in Sectors, l \in 0..(Tries - 1), k \in 0..35 : ReadAt(s, k, l)

\* What the driver and the hardware keep is of its type.
Values ==
    /\ cyl \in Tracks \cup {Garbage}
    /\ track \in Tracks
    /\ dmaBuffer \in Sectors \cup {None}

Flags ==
    /\ want \in Sectors \cup {None}
    /\ got \in Sectors \cup {None}
    /\ isr6 \in BOOLEAN /\ irq \in BOOLEAN
    /\ nonDma \in BOOLEAN /\ motor \in BOOLEAN
    /\ dmaAuto \in BOOLEAN /\ dmaAtBuffer \in BOOLEAN
    /\ short \in 0..Short

IInv == Values /\ Flags /\ (Initializing \/ ReadingSector \/ Between)

-----------------------------------------------------------------------------
(***************************************************************************)
(* One instruction of the driver, wherever it is.                          *)
(***************************************************************************)
\* What the driver's instructions leave alone, but those that are for it.
others == <<want, got, track, nonDma, motor, dmaAuto, dmaAtBuffer, dmaBuffer,
            short>>

\* The instruction at the head of what is left of a code.
LEMMA NextInstruction ==
  ASSUME NEW c \in Seq(Instruction), NEW n \in Nat, Len(c) = n,
         NEW k \in 0..(n - 1), todo = SubSeq(c, k + 1, n)
  PROVE  Head(todo) = c[k + 1] /\ Tail(todo) = SubSeq(c, k + 2, n)
<1>1. k + 1 \in 1..Len(c) /\ n \in (k + 1)..Len(c) /\ (k + 1) + 1 = k + 2
  OBVIOUS
<1> QED
  BY <1>1, HeadTailOfSubSeq

\* The driver carries out that instruction and no other.
LEMMA DriverActs ==
  ASSUME Driver
  PROVE  /\ Head(todo).op # "retry" => todo' = Tail(todo)
         /\ Head(todo).op = "send" => SendData
         /\ Head(todo).op = "fetch" => FetchByte
         /\ Head(todo).op = "fetchCyl" => FetchCyl
         /\ Head(todo).op = "await" => AwaitFlag
         /\ Head(todo).op = "clear" => ClearFlag
         /\ Head(todo).op = "retry" => Retry
         /\ Head(todo).op = "dorZero" => DorZero
         /\ Head(todo).op = "dorRun" => DorRun
         /\ Head(todo).op = "motorOn" => Motor(TRUE)
         /\ Head(todo).op = "motorOff" => Motor(FALSE)
         /\ Head(todo).op = "dmaInitialize" => DMAInitialize
         /\ Head(todo).op = "setReadDMA" => SetReadDMA
         /\ Head(todo).op = "copyOut" => CopyOut
<1> DEFINE op == Head(todo).op
<1>1. /\ SendData => op = "send" /\ todo' = Tail(todo)
      /\ FetchByte => op = "fetch" /\ todo' = Tail(todo)
      /\ FetchCyl => op = "fetchCyl" /\ todo' = Tail(todo)
      /\ AwaitFlag => op = "await" /\ todo' = Tail(todo)
      /\ ClearFlag => op = "clear" /\ todo' = Tail(todo)
      /\ Retry => op = "retry"
      /\ DorZero => op = "dorZero" /\ todo' = Tail(todo)
      /\ DorRun => op = "dorRun" /\ todo' = Tail(todo)
      /\ Motor(TRUE) => op = "motorOn" /\ todo' = Tail(todo)
      /\ Motor(FALSE) => op = "motorOff" /\ todo' = Tail(todo)
      /\ DMAInitialize => op = "dmaInitialize" /\ todo' = Tail(todo)
      /\ SetReadDMA => op = "setReadDMA" /\ todo' = Tail(todo)
      /\ CopyOut => op = "copyOut" /\ todo' = Tail(todo)
  BY DEF SendData, FetchByte, FetchCyl, AwaitFlag, ClearFlag, Retry, DorZero,
         DorRun, Motor, DMAInitialize, SetReadDMA, CopyOut, Next1
<1>2. \/ SendData \/ FetchByte \/ FetchCyl \/ AwaitFlag \/ ClearFlag
      \/ Retry \/ DorZero \/ DorRun \/ Motor(TRUE) \/ Motor(FALSE)
      \/ DMAInitialize \/ SetReadDMA \/ CopyOut
  BY Zenon DEF Driver
<1> QED
  BY <1>1, <1>2

\* A byte put after a prefix of a command is a longer prefix of it.
LEMMA Longer ==
  ASSUME NEW b \in Seq(Int), NEW j \in 0..(Len(b) - 1)
  PROVE  /\ Append(SubSeq(b, 1, j), b[j + 1]) = SubSeq(b, 1, j + 1)
         /\ Len(SubSeq(b, 1, j + 1)) = j + 1
         /\ SubSeq(b, 1, j + 1)[1] = b[1]
         /\ SubSeq(b, 1, Len(b)) = b
<1> DEFINE p == SubSeq(b, 1, j)
           q == SubSeq(b, 1, j + 1)
           a == Append(p, b[j + 1])
<1>1. p \in Seq(Int) /\ Len(p) = j /\ \A i \in 1..j : p[i] = b[i]
  BY SubSeqProperties
<1>2. q \in Seq(Int) /\ Len(q) = j + 1 /\ \A i \in 1..(j + 1) : q[i] = b[i]
  BY SubSeqProperties
<1>3. b[j + 1] \in Int
  OBVIOUS
<1> HIDE DEF p, q
<1>4. /\ a \in Seq(Int) /\ Len(a) = j + 1
      /\ \A i \in 1..j : a[i] = p[i]
      /\ a[j + 1] = b[j + 1]
  BY <1>1, <1>3, AppendProperties
<1> HIDE DEF a
<1>5. \A i \in 1..(j + 1) : a[i] = q[i]
  <2> TAKE i \in 1..(j + 1)
  <2>1. i \in 1..j \/ i = j + 1
    OBVIOUS
  <2> QED
    BY <1>1, <1>2, <1>4, <2>1
<1>6. a = q
  BY <1>2, <1>4, <1>5, SeqEqual
<1>7. SubSeq(b, 1, Len(b)) = b
  BY SubSeqFull
<1> QED
  BY <1>2, <1>6, <1>7 DEF a, p, q

\* The first byte of a command of two bytes or more.
LEMMA SendsOpcode ==
  ASSUME NEW b \in Seq(Int), Len(b) >= 2, Arity(b[1]) = Len(b),
         Rest(0), Head(todo) = Sent(b, 1), SendData
  PROVE  Taking(b, 1)' /\ UNCHANGED <<cyl, others>>
<1>1. Head(todo).byte = b[1]
  BY DEF Sent
<1>2. phase = "idle" /\ command = <<>>
  BY DEF Rest, Idle
<1>3. command' = Append(<<>>, b[1]) /\ SubSeq(b, 1, 0) = <<>>
  BY <1>1, <1>2, SubSeqEmpty DEF SendData
<1>4. /\ command' = SubSeq(b, 1, 1)
      /\ Len(command') = 1 /\ command'[1] = b[1]
  BY <1>3, Longer, 0 + 1 = 1, 0 \in 0..(Len(b) - 1)
<1>5. phase' = "command"
  BY <1>2, <1>4 DEF SendData
<1> QED
  BY <1>4, <1>5 DEF SendData, Rest, Idle, Quiet, Taking, others, dma

\* The bytes between the first and the last.
LEMMA SendsParameter ==
  ASSUME NEW b \in Seq(Int), Arity(b[1]) = Len(b), NEW j \in 1..(Len(b) - 2),
         Taking(b, j), Head(todo) = Sent(b, j + 1), SendData
  PROVE  Taking(b, j + 1)' /\ UNCHANGED <<cyl, others>>
<1>1. Head(todo).byte = b[j + 1]
  BY DEF Sent
<1>2. phase = "command" /\ command = SubSeq(b, 1, j)
  BY DEF Taking
<1>3. command' = Append(SubSeq(b, 1, j), b[j + 1])
  BY <1>1, <1>2 DEF SendData
<1>4. /\ command' = SubSeq(b, 1, j + 1)
      /\ Len(command') = j + 1 /\ command'[1] = b[1]
  BY <1>3, Longer
<1>5. phase' = "command"
  BY <1>2, <1>4 DEF SendData
<1> QED
  BY <1>4, <1>5, SMTT(30) DEF SendData, Quiet, Taking, others, dma

\* The last byte, with which the command is carried out.
LEMMA SendsLast ==
  ASSUME NEW b \in Seq(Int), Arity(b[1]) = Len(b), NEW j \in 1..(Len(b) - 1),
         j + 1 = Len(b),
         Taking(b, j), Head(todo) = Sent(b, j + 1), SendData
  PROVE  Doing(b, 0)' /\ UNCHANGED <<cyl, others>>
<1>1. Head(todo).byte = b[j + 1]
  BY DEF Sent
<1>2. phase = "command" /\ command = SubSeq(b, 1, j)
  BY DEF Taking
<1>3. command' = Append(SubSeq(b, 1, j), b[j + 1])
  BY <1>1, <1>2 DEF SendData
<1>4. /\ command' = b
      /\ Len(command') = j + 1 /\ command'[1] = b[1]
  BY <1>3, Longer
<1>5. phase' = "execute"
  BY <1>2, <1>4 DEF SendData
<1> QED
  BY <1>4, <1>5 DEF SendData, Quiet, Taking, Doing, others, dma

\* SENSE INTERRUPT has one byte.
LEMMA SendsSense ==
  ASSUME NEW p \in 0..4, Rest(p), Head(todo) = Sent(SenseBytes, 1), SendData
  PROVE  Doing(SenseBytes, p)' /\ UNCHANGED <<cyl, others>>
<1>1. Head(todo).byte = SENSE_INTERRUPT
  BY DEF Sent, SenseBytes
<1>2. phase = "idle" /\ command = <<>>
  BY DEF Rest, Idle
<1>3. command' = SenseBytes
  BY <1>1, <1>2 DEF SendData, SenseBytes
<1>4. Len(command') = 1 /\ Arity(command'[1]) = 1
  BY <1>3 DEF SenseBytes, Arity, SPECIFY, RECALIBRATE, SEEK, READ,
              SENSE_INTERRUPT
<1>5. phase' = "execute"
  BY <1>2, <1>4 DEF SendData
<1> QED
  BY <1>3, <1>5 DEF SendData, Rest, Idle, Quiet, Doing, others, dma

\* The status byte of SENSE INTERRUPT.
LEMMA FetchesStatus ==
  ASSUME NEW p \in 0..4, Sensing(p), FetchByte
  PROVE  /\ p > 0 => CylinderNext(p - 1)'
         /\ p = 0 => (CylinderNext(0) \/ Rest(0))'
         /\ UNCHANGED <<cyl, others>>
<1>1. ~ Doing(SenseBytes, p)
  BY DEF FetchByte, GetData, isDataAvalible, RequestForMaster, DataOut, Doing
<1>2. UNCHANGED <<cyl, others, irq, isr6, command, seeking, pending>>
  BY DEF FetchByte, GetData, others, dma
<1>3. CASE p > 0
  <2>1. Said(p - 1) /\ Quiet /\ result = <<0, track>>
    BY <1>1, <1>3 DEF Sensing
  <2>2. result' = <<track>> /\ phase' = phase
    BY <2>1 DEF FetchByte, GetData
  <2> QED
    BY <1>2, <1>3, <2>1, <2>2 DEF CylinderNext, Said, Quiet, others
<1>4. CASE p = 0
  <2>1. Said(0) /\ Quiet /\ result \in {<<128>>, <<128, track>>}
    BY <1>1, <1>4 DEF Sensing
  <2>2. CASE result = <<128>>
    <3>1. result' = <<>> /\ phase' = "idle"
      BY <2>2 DEF FetchByte, GetData
    <3> QED
      BY <1>2, <1>4, <2>1, <3>1 DEF Rest, Idle, Said, Quiet, others
  <2>3. CASE result = <<128, track>>
    <3>1. result' = <<track>> /\ phase' = phase
      BY <2>3 DEF FetchByte, GetData
    <3> QED
      BY <1>2, <1>4, <2>1, <3>1 DEF CylinderNext, Said, Quiet, others
  <2> QED
    BY <2>1, <2>2, <2>3
<1> QED
  BY <1>3, <1>4

\* Its cylinder, the last byte it has to say.
LEMMA FetchesCylinder ==
  ASSUME NEW p \in 0..3, CylinderNext(p), FetchCyl
  PROVE  Rest(p)' /\ cyl' = track /\ UNCHANGED others
<1>1. Said(p) /\ Quiet /\ result = <<track>>
  BY DEF CylinderNext
<1>2. result' = <<>> /\ phase' = "idle" /\ cyl' = track
  BY <1>1 DEF FetchCyl, GetData, DataByte
<1> QED
  BY <1>1, <1>2 DEF FetchCyl, GetData, Rest, Idle, Said, Quiet, others, dma

\* A byte fetched when there is none.
LEMMA FetchesGarbage ==
  ASSUME Rest(0), FetchCyl
  PROVE  Rest(0)' /\ cyl' = Garbage /\ UNCHANGED others
<1>1. phase = "idle" /\ result = <<>>
  BY DEF Rest, Idle
<1>2. result' = <<>> /\ phase' = "idle" /\ cyl' = Garbage
  BY <1>1 DEF FetchCyl, GetData, DataByte
<1> QED
  BY <1>1, <1>2 DEF FetchCyl, GetData, Rest, Idle, Quiet, others, dma

\* The bytes of the answer to READ.
LEMMA FetchesAnswer ==
  ASSUME NEW m \in 1..7, Left(m), Quiet, FetchByte
  PROVE  /\ m > 1 => Left(m - 1)' /\ Quiet'
         /\ m = 1 => Rest(0)'
         /\ UNCHANGED <<cyl, others>>
<1>1. result \in Seq(Int) /\ Len(result) = m /\ result # <<>>
  BY DEF Left
<1>2. result' = Tail(result) /\ Tail(result) \in Seq(Int)
      /\ Len(Tail(result)) = m - 1
  BY <1>1, HeadTailProperties DEF FetchByte, GetData
<1>3. UNCHANGED <<cyl, others, irq, isr6, command, seeking, pending>>
  BY DEF FetchByte, GetData, others, dma
<1>4. CASE m > 1
  <2>1. phase' = phase
    BY <1>1, <1>4 DEF FetchByte, GetData
  <2> QED
    BY <1>2, <1>3, <1>4, <2>1 DEF Left, Said, Quiet
<1>5. CASE m = 1
  <2>1. phase' = "idle"
    BY <1>1, <1>5 DEF FetchByte, GetData
  <2>2. Tail(result) = <<>>
    BY <1>2, <1>5, EmptySeq
  <2> QED
    BY <1>2, <1>3, <1>5, <2>1, <2>2 DEF Left, Said, Rest, Idle, Quiet
<1> QED
  BY <1>3, <1>4, <1>5

\* The flag is seen set: whatever was raised is over.
LEMMA Awaits ==
  ASSUME AwaitFlag
  PROVE  isr6 /\ UNCHANGED <<cyl, others, isr6, irq, controller>>
<1>1. isr6
  BY Zenon DEF AwaitFlag
<1>2. UNCHANGED <<cyl, want, got, isr6, irq, controller, motor, dma, short>>
  BY Zenon DEF AwaitFlag
<1> QED
  BY <1>1, <1>2 DEF others, controller, dma

LEMMA Clears ==
  ASSUME NEW p \in Int, Woken(p), ClearFlag
  PROVE  Rest(p)' /\ UNCHANGED <<cyl, others>>
  BY DEF ClearFlag, Woken, Rest, Idle, Flagged, Quiet, controller, others, dma

-----------------------------------------------------------------------------
(***************************************************************************)
(* The controller and the interrupt handler, while the driver waits.       *)
(***************************************************************************)
\* With nothing under way they do nothing.
LEMMA Still ==
  ASSUME phase \notin {"resetting", "execute"}, seeking = None, ~ irq
  PROVE  ~ (Isr6 \/ Controller)
  BY DEF Isr6, Controller, ResetDone, Specify, SenseInterrupt, StartSeek,
         SeekDone, Transfer, Executes

\* With the interrupt raised there is the handler to run and no more.
LEMMA OnlyHandled ==
  ASSUME phase \notin {"resetting", "execute"}, seeking = None, Raised,
         Isr6 \/ Controller
  PROVE  Raised' /\ UNCHANGED <<driver, controller, motor, dma, short>>
<1>1. Isr6
  BY DEF Controller, ResetDone, Specify, SenseInterrupt, StartSeek,
         SeekDone, Transfer, Executes
<1> QED
  BY <1>1 DEF Isr6, Raised, Flagged

\* With a command to execute, it is executed.
LEMMA OnlyExecutes ==
  ASSUME NEW b, NEW p, Doing(b, p), Isr6 \/ Controller
  PROVE  /\ command[1] = b[1]
         /\ Specify \/ SenseInterrupt \/ StartSeek \/ Transfer
  BY DEF Doing, Quiet, Isr6, Controller, ResetDone, SeekDone

\* A reset.
LEMMA StartingKept ==
  ASSUME Starting, Isr6 \/ Controller
  PROVE  Starting' /\ UNCHANGED <<driver, others>>
<1>1. CASE /\ phase = "resetting" /\ command = <<>> /\ result = <<>>
           /\ seeking = None /\ pending = 0 /\ Quiet
  <2>1. ResetDone
    BY <1>1 DEF Quiet, Isr6, Controller, Specify, SenseInterrupt, StartSeek,
                SeekDone, Transfer, Executes
  <2> QED
    BY <1>1, <2>1 DEF ResetDone, Starting, Idle, Raised, Flagged, Quiet,
                      driver, others, dma
<1>2. CASE Idle(4) /\ Raised
  <2>1. Raised' /\ UNCHANGED <<driver, controller, motor, dma, short>>
    BY <1>2, OnlyHandled DEF Idle
  <2> QED
    BY <1>2, <2>1 DEF Starting, Idle, controller, driver, others, dma
<1> QED
  BY <1>1, <1>2 DEF Starting

\* A SENSE INTERRUPT.
LEMMA SensingKept ==
  ASSUME NEW p \in 0..4, Sensing(p), Isr6 \/ Controller
  PROVE  Sensing(p)' /\ UNCHANGED <<driver, others>>
<1>1. Doing(SenseBytes, p)
  BY Still DEF Sensing, Said, Quiet
<1>2. command[1] = 8 /\ (Specify \/ SenseInterrupt \/ StartSeek \/ Transfer)
  BY <1>1, OnlyExecutes DEF SenseBytes, SENSE_INTERRUPT
<1>3. SenseInterrupt
  BY <1>2 DEF Specify, StartSeek, Transfer, Executes, SPECIFY, RECALIBRATE,
              SEEK, READ
<1>4. /\ command' = <<>> /\ phase' = "result"
      /\ UNCHANGED <<driver, others, isr6, irq, seeking>>
  BY <1>3 DEF SenseInterrupt, Executes, driver, others, dma
<1>5. pending = p /\ Quiet /\ seeking = None
  BY <1>1 DEF Doing
<1>6. CASE p > 0
  <2>1. pending' = p - 1 /\ result' = <<0, track>>
    BY <1>3, <1>5, <1>6 DEF SenseInterrupt
  <2> QED
    BY <1>4, <1>5, <1>6, <2>1 DEF Sensing, Said, Quiet, others
<1>7. CASE p = 0
  <2>1. pending' = 0 /\ result' \in {<<128>>, <<128, track>>}
    BY <1>3, <1>5, <1>7 DEF SenseInterrupt
  <2> QED
    BY <1>4, <1>5, <1>7, <2>1 DEF Sensing, Said, Quiet, others
<1> QED
  BY <1>6, <1>7

\* A SPECIFY.
LEMMA SpecifyingKept ==
  ASSUME Specifying, Isr6 \/ Controller
  PROVE  /\ Specifying' /\ nonDma' \in BOOLEAN
         /\ UNCHANGED <<driver, want, got, track, motor, dma, short>>
<1>1. Doing(SpecifyBytes, 0)
  BY Still DEF Specifying, Rest, Idle, Quiet
<1>2. command[1] = 3 /\ (Specify \/ SenseInterrupt \/ StartSeek \/ Transfer)
  BY <1>1, OnlyExecutes DEF SpecifyBytes, SPECIFY
<1>3. Specify
  BY <1>2 DEF SenseInterrupt, StartSeek, Transfer, Executes, SENSE_INTERRUPT,
              RECALIBRATE, SEEK, READ
<1>4. command[3] = 32
  BY <1>1 DEF Doing, SpecifyBytes
<1>5. nonDma' \in BOOLEAN /\ ~ nonDma'
  <2>1. nonDma' = (32 % 2 = 1)
    BY <1>3, <1>4, Zenon DEF Specify
  <2>2. ~ (32 % 2 = 1)
    OBVIOUS
  <2>3. (32 % 2 = 1) = FALSE
    BY <2>2, Zenon
  <2> QED
    BY <2>1, <2>3, Zenon
<1> QED
  BY <1>1, <1>3, <1>5 DEF Specify, Executes, Specifying, Doing, Rest, Idle,
                          Quiet, driver

\* A seek to the cylinder c, or a recalibration if c is 0.
LEMMA SteppingKept ==
  ASSUME NEW b \in Seq(Int), NEW c \in Tracks, NEW l \in Int,
         Stepping(b, c, l), Isr6 \/ Controller, Tracks \subseteq Nat,
         \/ b[1] = RECALIBRATE /\ c = 0
         \/ b[1] = SEEK /\ b[3] = c,
         Tries \in Nat, short \in Nat
  PROVE  /\ Stepping(b, c, l)' /\ track' \in Tracks \cup {track}
         /\ UNCHANGED <<driver, nonDma, motor, dma>>
<1>1. CASE Doing(b, 0) /\ Failed(c, l)
  <2>1. /\ command[1] \in {7, 15}
        /\ Specify \/ SenseInterrupt \/ StartSeek \/ Transfer
    BY <1>1, OnlyExecutes DEF RECALIBRATE, SEEK
  <2>2. StartSeek
    BY <2>1 DEF Specify, SenseInterrupt, Transfer, Executes, SENSE_INTERRUPT,
                SPECIFY, READ
  <2>3. command = b
    BY <1>1 DEF Doing
  <2>4. seeking' = c
    BY <2>2, <2>3 DEF StartSeek, Executes, RECALIBRATE, SEEK
  <2>5. /\ command' = <<>> /\ phase' = "idle"
        /\ UNCHANGED <<driver, isr6, irq, result, pending, track, nonDma,
                       motor, dma, short>>
    BY <2>2 DEF StartSeek, Executes
  <2> QED
    BY <1>1, <2>4, <2>5 DEF Stepping, Doing, Quiet, Failed
<1>2. CASE /\ phase = "idle" /\ command = <<>> /\ result = <<>>
           /\ seeking = c /\ pending = 0 /\ Quiet /\ Failed(c, l)
  <2>1. SeekDone
    BY <1>2 DEF Quiet, Isr6, Controller, ResetDone, Specify, SenseInterrupt,
                StartSeek, Transfer, Executes
  <2>2. /\ seeking' = None /\ pending' = 1 /\ irq' = TRUE
        /\ UNCHANGED <<driver, isr6, phase, command, result, nonDma, motor,
                       dma>>
    BY <1>2, <2>1 DEF SeekDone
  <2>3. Arrived(c, l)' /\ track' \in Tracks
    <3>1. CASE track' = seeking
      BY <1>2, <3>1 DEF Arrived
    <3>2. CASE seeking = 0 /\ short' = short + 1 /\ track' \in Tracks
      BY <1>2, <3>2 DEF Arrived, Failed
    <3> QED
      BY <2>1, <3>1, <3>2 DEF SeekDone
  <2> QED
    BY <1>2, <2>2, <2>3 DEF Stepping, Idle, Raised, Quiet
<1>3. CASE Idle(1) /\ Raised /\ Arrived(c, l)
  <2>1. Raised' /\ UNCHANGED <<driver, controller, motor, dma, short>>
    BY <1>3, OnlyHandled DEF Idle
  <2> QED
    BY <1>3, <2>1 DEF Stepping, Idle, Arrived, controller
<1> QED
  BY <1>1, <1>2, <1>3 DEF Stepping

\* READ DATA: the sector is transferred if the head is over its cylinder.
LEMMA ReadingKept ==
  ASSUME NEW s \in Sectors, Values, Flags,
         ~ nonDma, motor, dmaAtBuffer, dmaAuto,
         Reading(s), Isr6 \/ Controller
  PROVE  /\ Reading(s)' /\ dmaBuffer' \in Sectors \cup {None}
         /\ ~ nonDma' /\ motor' /\ dmaAtBuffer' /\ dmaAuto'
         /\ UNCHANGED <<driver, track, short>>
<1>1. CASE Doing(ReadBytes(s), 0) /\ Arrived(CylOf(s), 0)
  <2>1. s \in Lbas
    BY DriverAssumption
  <2>2. /\ CylOf(s) \in Int /\ HeadOf(s) \in Int /\ SectorOf(s) \in Int
        /\ LbaAt(CylOf(s), HeadOf(s), SectorOf(s)) = s
    BY <2>1, ConvertToCHSCorrect
  <2>3. /\ command[1] = 230
        /\ Specify \/ SenseInterrupt \/ StartSeek \/ Transfer
    BY <1>1, OnlyExecutes DEF ReadBytes, READ
  <2>4. Transfer
    BY <2>3 DEF Specify, SenseInterrupt, StartSeek, Executes, SENSE_INTERRUPT,
                SPECIFY, RECALIBRATE, SEEK
  <2>5. command = ReadBytes(s)
    BY <1>1 DEF Doing
  <2>6. /\ command[3] = CylOf(s) /\ command[4] = HeadOf(s)
        /\ command[5] = SectorOf(s)
    BY <2>5 DEF ReadBytes
  <2>7. /\ result' = <<0, 0, 0, CylOf(s), HeadOf(s), SectorOf(s), 2>>
        /\ command' = <<>> /\ phase' = "result" /\ irq' = TRUE
        /\ UNCHANGED <<driver, isr6, seeking, pending, track, nonDma, motor,
                       dmaAuto, short>>
    BY <2>4, <2>6 DEF Transfer, Executes
  <2>8. /\ dmaBuffer' = IF Readable(CylOf(s)) THEN s ELSE dmaBuffer
        /\ dmaAtBuffer' = IF Readable(CylOf(s)) THEN dmaAuto ELSE dmaAtBuffer
    BY <2>2, <2>4, <2>6 DEF Transfer
  <2>9. dmaBuffer' \in Sectors \cup {None}
    BY <2>8 DEF Values
  <2>10. Delivered(s)'
    <3>1. CASE Short < Tries
      <4>1. track = CylOf(s)
        BY <1>1, <3>1, DriverAssumption DEF Arrived, Flags
      <4>2. Readable(CylOf(s))
        BY <1>1, <4>1 DEF Readable, Doing
      <4> QED
        BY <2>8, <4>2 DEF Delivered
    <3>2. CASE ~ (Short < Tries)
      BY <3>2 DEF Delivered
    <3> QED
      BY <3>1, <3>2
  <2>11. Left(7)'
    <3>1. result' \in Seq(Int) /\ Len(result') = 7
      BY <2>2, <2>7
    <3> QED
      BY <1>1, <2>7, <3>1 DEF Left, Said, Doing
  <2>12. Raised'
    BY <1>1, <2>7 DEF Raised, Doing, Quiet
  <2>13. ~ nonDma' /\ motor' /\ dmaAtBuffer' /\ dmaAuto'
    BY <2>7, <2>8
  <2> QED
    BY <2>7, <2>9, <2>10, <2>11, <2>12, <2>13, Zenon DEF Reading
<1>2. CASE Left(7) /\ Raised /\ Delivered(s)
  <2>1. Raised' /\ UNCHANGED <<driver, controller, motor, dma, short>>
    BY <1>2, OnlyHandled DEF Left, Said
  <2>2. Left(7)' /\ Delivered(s)'
    BY <1>2, <2>1 DEF Left, Said, Delivered, controller, dma
  <2> QED
    BY <1>2, <2>1, <2>2 DEF Reading, Values, controller, dma
<1> QED
  BY <1>1, <1>2 DEF Reading

\* What every step keeps.
LEMMA FlagsKept ==
  ASSUME Values, Flags, Next
  PROVE  Flags'
<1> USE DEF Flags, others, driver, controller, dma
<1>1. CASE SendData
  BY <1>1 DEF SendData
<1>2. CASE FetchByte
  BY <1>2 DEF FetchByte, GetData
<1>3. CASE FetchCyl
  BY <1>3 DEF FetchCyl, GetData
<1>4. CASE AwaitFlag
  BY <1>4 DEF AwaitFlag
<1>5. CASE ClearFlag
  BY <1>5 DEF ClearFlag
<1>6. CASE Retry
  BY <1>6 DEF Retry
<1>7. CASE DorZero
  BY <1>7 DEF DorZero
<1>8. CASE DorRun
  BY <1>8 DEF DorRun
<1>9. CASE Motor(TRUE) \/ Motor(FALSE)
  BY <1>9 DEF Motor
<1>10. CASE DMAInitialize
  BY <1>10 DEF DMAInitialize
<1>11. CASE SetReadDMA
  BY <1>11 DEF SetReadDMA, Mode56
<1>12. CASE CopyOut
  BY <1>12 DEF CopyOut, Values
<1>13. CASE Isr6
  BY <1>13 DEF Isr6
<1>14. CASE ResetDone
  BY <1>14 DEF ResetDone
<1>15. CASE Specify
  BY <1>15 DEF Specify
<1>16. CASE SenseInterrupt
  BY <1>16 DEF SenseInterrupt
<1>17. CASE StartSeek
  BY <1>17 DEF StartSeek
<1>18. CASE SeekDone
  BY <1>18, DriverAssumption DEF SeekDone
<1>19. CASE Transfer
  BY <1>19 DEF Transfer
<1>20. ASSUME NEW s \in Sectors, Call(s)
       PROVE  Flags'
  BY <1>20 DEF Call
<1> QED
  BY <1>1, <1>2, <1>3, <1>4, <1>5, <1>6, <1>7, <1>8, <1>9, <1>10, <1>11,
     <1>12, <1>13, <1>14, <1>15, <1>16, <1>17, <1>18, <1>19, <1>20, Zenon
     DEF Next, Driver, Controller

-----------------------------------------------------------------------------
(***************************************************************************)
(* The steps of FDCInitialize.                                             *)
(***************************************************************************)
\* The instruction that is next after k of FDCInitialize.
InitHead(k, l) ==
    /\ k = 0 => Head(todo) = Just("dmaInitialize")
    /\ k = 1 => Head(todo) = Just("dorZero")
    /\ k = 2 => Head(todo) = Just("dorRun")
    /\ k \in {3, 23} => Head(todo) = Just("await")
    /\ k \in {4, 24} => Head(todo) = Just("clear")
    /\ k \in {5, 8, 11, 14, 25} => Head(todo) = Sent(SenseBytes, 1)
    /\ k \in {6, 9, 12, 15, 26} => Head(todo) = Just("fetch")
    /\ k \in {7, 10, 13, 16, 27} => Head(todo) = Just("fetchCyl")
    /\ k = 17 => Head(todo) = Sent(SpecifyBytes, 1)
    /\ k = 18 => Head(todo) = Sent(SpecifyBytes, 1 + 1)
    /\ k = 19 => Head(todo) = Sent(SpecifyBytes, 2 + 1)
    /\ k = 20 => Head(todo) = Just("motorOn")
    /\ k = 21 => Head(todo) = Sent(RecalibrateBytes, 1)
    /\ k = 22 => Head(todo) = Sent(RecalibrateBytes, 1 + 1)
    /\ k = 28 => Head(todo) = [op |-> "retry", bytes |-> RecalibrateBytes,
                               left |-> l]
    /\ k = 29 => Head(todo) = Just("motorOff")

LEMMA InitNext ==
  ASSUME NEW l \in Int, NEW k \in 0..29, todo = SubSeq(InitCode(l), k + 1, 30)
  PROVE  /\ Tail(todo) = SubSeq(InitCode(l), k + 2, 30)
         /\ InitHead(k, l)
<1> DEFINE c == InitCode(l)
<1>1. c \in Seq(Instruction) /\ Len(c) = 30
  BY InitIs, Zenon
<1>2. todo = SubSeq(c, k + 1, 30)
  OBVIOUS
<1>3. /\ c[1] = Just("dmaInitialize")
      /\ c[2] = Just("dorZero") /\ c[3] = Just("dorRun")
      /\ c[4] = Just("await") /\ c[5] = Just("clear")
      /\ c[21] = Just("motorOn") /\ c[30] = Just("motorOff")
  BY InitIs, Zenon
<1>4. /\ \A i \in {6, 9, 12, 15} : /\ c[i] = Sent(SenseBytes, 1)
                                   /\ c[i + 1] = Just("fetch")
                                   /\ c[i + 2] = Just("fetchCyl")
      /\ \A j \in 1..3 : c[17 + j] = Sent(SpecifyBytes, j)
  BY InitIs, Zenon
<1>5. /\ c[22] = Sent(RecalibrateBytes, 1)
      /\ c[23] = Sent(RecalibrateBytes, 2)
      /\ c[24] = Just("await") /\ c[25] = Just("clear")
      /\ c[26] = Sent(SenseBytes, 1)
      /\ c[27] = Just("fetch") /\ c[28] = Just("fetchCyl")
      /\ c[29] = [op |-> "retry", bytes |-> RecalibrateBytes, left |-> l]
  BY InitTurn, Zenon
<1> HIDE DEF c
<1>6. Head(todo) = c[k + 1] /\ Tail(todo) = SubSeq(c, k + 2, 30)
  BY <1>1, <1>2, NextInstruction
<1>7. /\ c[6] = Sent(SenseBytes, 1) /\ c[7] = Just("fetch")
      /\ c[8] = Just("fetchCyl")
      /\ c[9] = Sent(SenseBytes, 1) /\ c[10] = Just("fetch")
      /\ c[11] = Just("fetchCyl")
      /\ c[12] = Sent(SenseBytes, 1) /\ c[13] = Just("fetch")
      /\ c[14] = Just("fetchCyl")
      /\ c[15] = Sent(SenseBytes, 1) /\ c[16] = Just("fetch")
      /\ c[17] = Just("fetchCyl")
  BY <1>4
<1>8. /\ c[18] = Sent(SpecifyBytes, 1) /\ c[19] = Sent(SpecifyBytes, 1 + 1)
      /\ c[20] = Sent(SpecifyBytes, 2 + 1)
      /\ c[23] = Sent(RecalibrateBytes, 1 + 1)
  BY <1>4, <1>5
<1>9. /\ k = 0 => k + 1 = 1
      /\ k = 1 => k + 1 = 2
      /\ k = 2 => k + 1 = 3
      /\ k \in {3, 23} => k + 1 = 4 \/ k + 1 = 24
      /\ k \in {4, 24} => k + 1 = 5 \/ k + 1 = 25
      /\ k \in {5, 8, 11, 14, 25} => \/ k + 1 = 6 \/ k + 1 = 9 \/ k + 1 = 12
                                     \/ k + 1 = 15 \/ k + 1 = 26
      /\ k \in {6, 9, 12, 15, 26} => \/ k + 1 = 7 \/ k + 1 = 10 \/ k + 1 = 13
                                     \/ k + 1 = 16 \/ k + 1 = 27
      /\ k \in {7, 10, 13, 16, 27} => \/ k + 1 = 8 \/ k + 1 = 11 \/ k + 1 = 14
                                      \/ k + 1 = 17 \/ k + 1 = 28
      /\ k = 17 => k + 1 = 18
      /\ k = 18 => k + 1 = 19
      /\ k = 19 => k + 1 = 20
      /\ k = 20 => k + 1 = 21
      /\ k = 21 => k + 1 = 22
      /\ k = 22 => k + 1 = 23
      /\ k = 28 => k + 1 = 29
      /\ k = 29 => k + 1 = 30
  OBVIOUS
<1>10. /\ k = 0 => Head(todo) = Just("dmaInitialize")
       /\ k = 1 => Head(todo) = Just("dorZero")
       /\ k = 2 => Head(todo) = Just("dorRun")
       /\ k \in {3, 23} => Head(todo) = Just("await")
       /\ k \in {4, 24} => Head(todo) = Just("clear")
       /\ k = 20 => Head(todo) = Just("motorOn")
       /\ k = 29 => Head(todo) = Just("motorOff")
  BY <1>3, <1>5, <1>6, <1>9, Zenon
<1>11. k \in {5, 8, 11, 14, 25} => Head(todo) = Sent(SenseBytes, 1)
  BY <1>5, <1>6, <1>7, <1>9, Zenon
<1>12. k \in {6, 9, 12, 15, 26} => Head(todo) = Just("fetch")
  BY <1>5, <1>6, <1>7, <1>9, Zenon
<1>13. k \in {7, 10, 13, 16, 27} => Head(todo) = Just("fetchCyl")
  BY <1>5, <1>6, <1>7, <1>9, Zenon
<1>14. /\ k = 17 => Head(todo) = Sent(SpecifyBytes, 1)
       /\ k = 18 => Head(todo) = Sent(SpecifyBytes, 1 + 1)
       /\ k = 19 => Head(todo) = Sent(SpecifyBytes, 2 + 1)
       /\ k = 21 => Head(todo) = Sent(RecalibrateBytes, 1)
       /\ k = 22 => Head(todo) = Sent(RecalibrateBytes, 1 + 1)
       /\ k = 28 => Head(todo) = [op |-> "retry", bytes |-> RecalibrateBytes,
                                  left |-> l]
  BY <1>5, <1>6, <1>8, <1>9, Zenon
<1> QED
  BY <1>6, <1>10, <1>11, <1>12, <1>13, <1>14, Zenon DEF c, InitHead

LEMMA Arities ==
  /\ Arity(SPECIFY) = 3 /\ Arity(RECALIBRATE) = 2
  /\ Arity(SEEK) = 3 /\ Arity(READ) = 9
<1>1. /\ SPECIFY # RECALIBRATE /\ SPECIFY # SEEK /\ SPECIFY # READ
      /\ RECALIBRATE # SEEK /\ RECALIBRATE # READ /\ SEEK # READ
  BY DEF SPECIFY, RECALIBRATE, SEEK, READ
<1> QED
  BY <1>1, Zenon DEF Arity

\* The commands of FDCInitialize.
LEMMA InitBytes ==
  /\ SpecifyBytes \in Seq(Int) /\ Len(SpecifyBytes) >= 2
  /\ Arity(SpecifyBytes[1]) = Len(SpecifyBytes)
  /\ 1 \in 1..(Len(SpecifyBytes) - 2)
  /\ 2 \in 1..(Len(SpecifyBytes) - 1) /\ 2 + 1 = Len(SpecifyBytes)
  /\ RecalibrateBytes \in Seq(Int) /\ Len(RecalibrateBytes) >= 2
  /\ Arity(RecalibrateBytes[1]) = Len(RecalibrateBytes)
  /\ 1 \in 1..(Len(RecalibrateBytes) - 1) /\ 1 + 1 = Len(RecalibrateBytes)
  /\ RecalibrateBytes[1] = RECALIBRATE
<1>1. /\ SpecifyBytes \in Seq(Int) /\ Len(SpecifyBytes) = 3
      /\ SpecifyBytes[1] = 3
      /\ RecalibrateBytes \in Seq(Int) /\ Len(RecalibrateBytes) = 2
      /\ RecalibrateBytes[1] = 7
  BY DEF SpecifyBytes, RecalibrateBytes, SPECIFY, RECALIBRATE
<1>2. Arity(3) = 3 /\ Arity(7) = 2
  BY Arities DEF SPECIFY, RECALIBRATE
<1> QED
  BY <1>1, <1>2 DEF RECALIBRATE

LEMMA JustIs == ASSUME NEW op PROVE Just(op).op = op
  BY DEF Just

LEMMA SentIs == ASSUME NEW b, NEW j
                PROVE /\ Sent(b, j).op = "send"
                      /\ Sent(b, j).opcode = (j = 1)
  BY DEF Sent

\* Nothing in FDCInitialize but its loop and its return leaves the list.
LEMMA InitMoves ==
  ASSUME Values, Flags, NEW l \in 0..(Tries - 1), NEW k \in 0..27,
         InitAt(k, l), Driver
  PROVE  InitAt(k + 1, l)' /\ Values'
<1> DEFINE op == Head(todo).op
<1> USE DEF InitHead
<1>0. l \in Int
  BY DriverAssumption
<1>1. todo = SubSeq(InitCode(l), k + 1, 30) /\ InitDoing(k, l)
  BY DEF InitAt
<1>2. /\ Tail(todo) = SubSeq(InitCode(l), k + 2, 30)
      /\ InitHead(k, l)
  <2>1. k \in 0..29
    OBVIOUS
  <2> QED
    BY <1>0, <1>1, <2>1, InitNext, Zenon
<1>3. /\ k = 0 => DMAInitialize
      /\ k = 1 => DorZero
      /\ k = 2 => DorRun
      /\ k \in {3, 23} => AwaitFlag
      /\ k \in {4, 24} => ClearFlag
      /\ k \in {5, 8, 11, 14, 17, 18, 19, 21, 22, 25} => SendData
      /\ k \in {6, 9, 12, 15, 26} => FetchByte
      /\ k \in {7, 10, 13, 16, 27} => FetchCyl
      /\ k = 20 => Motor(TRUE)
  <2>1. /\ k = 0 => op = "dmaInitialize"
        /\ k = 1 => op = "dorZero"
        /\ k = 2 => op = "dorRun"
        /\ k \in {3, 23} => op = "await"
        /\ k \in {4, 24} => op = "clear"
        /\ k \in {5, 8, 11, 14, 17, 18, 19, 21, 22, 25} => op = "send"
        /\ k \in {6, 9, 12, 15, 26} => op = "fetch"
        /\ k \in {7, 10, 13, 16, 27} => op = "fetchCyl"
        /\ k = 20 => op = "motorOn"
    BY <1>2, JustIs, SentIs
  <2> QED
    BY <2>1, DriverActs, Zenon
<1>4. op # "retry"
  BY <1>2, JustIs, SentIs
<1>5. todo' = SubSeq(InitCode(l), (k + 1) + 1, 30)
  <2>1. (k + 1) + 1 = k + 2
    OBVIOUS
  <2> QED
    BY <1>2, <1>4, <2>1, DriverActs, Zenon
<1>6. InitDoing(k + 1, l)' /\ Values'
  <2> USE DEF Values, Failed, Arrived, others
  <2>1. CASE k = 0
    BY <1>1, <1>3, <2>1 DEF DMAInitialize, InitDoing, Rest, Idle, Quiet,
                            controller
  <2>2. CASE k = 1
    BY <1>1, <1>3, <2>2 DEF DorZero, InitDoing, Rest, Idle, Quiet, Held, dma
  <2>3. CASE k = 2
    BY <1>1, <1>3, <2>3 DEF DorRun, InitDoing, Held, Starting, Quiet, dma
  <2>4. CASE k = 3
    <3>1. Woken(4)'
      BY <1>1, <1>3, <2>4, Awaits DEF InitDoing, Starting, Quiet, Raised,
                            Flagged, Woken, Idle, controller
    <3> QED
      BY <1>1, <1>3, <2>4, <3>1, Awaits DEF InitDoing
  <2>5. CASE k = 4
    <3>1. Woken(4) /\ ClearFlag
      BY <1>1, <1>3, <2>5 DEF InitDoing
    <3>2. Rest(4)' /\ UNCHANGED <<cyl, others>>
      BY <3>1, Clears
    <3> QED
      BY <1>1, <2>5, <3>2 DEF InitDoing
  <2>6. CASE k \in {5, 8, 11, 14}
    <3> DEFINE p == (17 - k) \div 3
    <3>1. Rest(p) /\ p \in 1..4
      BY <1>1, <2>6 DEF InitDoing
    <3> HIDE DEF p
    <3>2. Doing(SenseBytes, p)' /\ UNCHANGED <<cyl, others>>
      BY <1>2, <1>3, <2>6, <3>1, SendsSense
    <3>3. Sensing(p)'
      BY <3>2 DEF Sensing
    <3> QED
      BY <1>1, <2>6, <3>2, <3>3 DEF InitDoing, p
  <2>7. CASE k \in {6, 9, 12, 15}
    <3> DEFINE p == (18 - k) \div 3
    <3>1. Sensing(p) /\ p \in 1..4
      BY <1>1, <2>7 DEF InitDoing
    <3> HIDE DEF p
    <3>2. CylinderNext(p - 1)' /\ UNCHANGED <<cyl, others>>
      BY <1>3, <2>7, <3>1, FetchesStatus
    <3>3. (16 - (k + 1)) \div 3 = p - 1
      BY <2>7 DEF p
    <3> QED
      BY <1>1, <2>7, <3>2, <3>3 DEF InitDoing
  <2>8. CASE k \in {7, 10, 13, 16}
    <3> DEFINE p == (16 - k) \div 3
    <3>1. CylinderNext(p) /\ p \in 0..3
      BY <1>1, <2>8 DEF InitDoing
    <3> HIDE DEF p
    <3>2. Rest(p)' /\ cyl' = track /\ UNCHANGED others
      BY <1>3, <2>8, <3>1, FetchesCylinder
    <3>3. (17 - (k + 1)) \div 3 = p
      BY <2>8 DEF p
    <3> QED
      BY <1>1, <2>8, <3>2, <3>3 DEF InitDoing
  <2>9. CASE k = 17
    <3>1. Rest(0)
      BY <1>1, <2>9 DEF InitDoing
    <3>3. Head(todo) = Sent(SpecifyBytes, 1) /\ SendData
      BY <1>2, <1>3, <2>9
    <3>2. Taking(SpecifyBytes, 1)' /\ UNCHANGED <<cyl, others>>
      BY <3>1, <3>3, InitBytes, SendsOpcode, Zenon
    <3> QED
      BY <1>1, <2>9, <3>2 DEF InitDoing
  <2>10. CASE k = 18
    <3>1. Taking(SpecifyBytes, 1)
      BY <1>1, <2>10 DEF InitDoing
    <3>3. Head(todo) = Sent(SpecifyBytes, 1 + 1) /\ SendData
      BY <1>2, <1>3, <2>10
    <3>2. Taking(SpecifyBytes, 1 + 1)' /\ UNCHANGED <<cyl, others>>
      BY <3>1, <3>3, InitBytes, SendsParameter, Zenon
    <3> QED
      BY <1>1, <2>10, <3>2 DEF InitDoing
  <2>11. CASE k = 19
    <3>1. Taking(SpecifyBytes, 2)
      BY <1>1, <2>11 DEF InitDoing
    <3>3. Head(todo) = Sent(SpecifyBytes, 2 + 1) /\ SendData
      BY <1>2, <1>3, <2>11
    <3>2. Doing(SpecifyBytes, 0)' /\ UNCHANGED <<cyl, others>>
      BY <3>1, <3>3, InitBytes, SendsLast, Zenon
    <3> QED
      BY <1>1, <2>11, <3>2 DEF InitDoing, Specifying
  <2>12. CASE k = 20
    BY <1>1, <1>3, <2>12 DEF Motor, InitDoing, Specifying, Doing, Rest, Idle,
                             Quiet, controller, dma
  <2>13. CASE k = 21
    <3>1. Rest(0) /\ ~ nonDma
      BY <1>1, <1>3, <2>13 DEF InitDoing, Specifying, Doing, SendData,
                               isFIFOAvalible, RequestForMaster
    <3>3. Head(todo) = Sent(RecalibrateBytes, 1) /\ SendData
      BY <1>2, <1>3, <2>13
    <3>2. Taking(RecalibrateBytes, 1)' /\ UNCHANGED <<cyl, others>>
      BY <3>1, <3>3, InitBytes, SendsOpcode, Zenon
    <3> QED
      BY <1>1, <2>13, <3>1, <3>2 DEF InitDoing
  <2>14. CASE k = 22
    <3>1. Taking(RecalibrateBytes, 1)
      BY <1>1, <2>14 DEF InitDoing
    <3>3. Head(todo) = Sent(RecalibrateBytes, 1 + 1) /\ SendData
      BY <1>2, <1>3, <2>14
    <3>2. Doing(RecalibrateBytes, 0)' /\ UNCHANGED <<cyl, others>>
      BY <3>1, <3>3, InitBytes, SendsLast, Zenon
    <3> QED
      BY <1>1, <2>14, <3>2 DEF InitDoing, Stepping
  <2>15. CASE k = 23
    <3>1. isr6 /\ UNCHANGED <<cyl, others, isr6, irq, controller>>
      BY <1>3, <2>15, Awaits
    <3>2. Idle(1) /\ Raised /\ Arrived(0, l)
      BY <1>1, <2>15, <3>1 DEF InitDoing, Stepping, Doing, Quiet
    <3>3. Woken(1)'
      BY <3>1, <3>2 DEF Raised, Flagged, Woken, Idle, controller
    <3> QED
      BY <1>1, <2>15, <3>1, <3>2, <3>3 DEF InitDoing
  <2>16. CASE k = 24
    <3>1. Woken(1) /\ ClearFlag
      BY <1>1, <1>3, <2>16 DEF InitDoing
    <3>2. Rest(1)' /\ UNCHANGED <<cyl, others>>
      BY <3>1, Clears
    <3> QED
      BY <1>1, <2>16, <3>2 DEF InitDoing
  <2>17. CASE k = 25
    <3>1. Rest(1) /\ Head(todo) = Sent(SenseBytes, 1) /\ SendData
      BY <1>1, <1>2, <1>3, <2>17 DEF InitDoing
    <3>2. Doing(SenseBytes, 1)' /\ UNCHANGED <<cyl, others>>
      BY <3>1, SendsSense
    <3> QED
      BY <1>1, <2>17, <3>2 DEF InitDoing, Sensing
  <2>18. CASE k = 26
    <3>1. Sensing(1)
      BY <1>1, <2>18 DEF InitDoing
    <3>2. CylinderNext(1 - 1)' /\ UNCHANGED <<cyl, others>>
      BY <1>3, <2>18, <3>1, FetchesStatus
    <3> QED
      BY <1>1, <2>18, <3>2 DEF InitDoing
  <2>19. CASE k = 27
    <3>1. CylinderNext(0)
      BY <1>1, <2>19 DEF InitDoing
    <3>2. Rest(0)' /\ cyl' = track /\ UNCHANGED others
      BY <1>3, <2>19, <3>1, FetchesCylinder
    <3> QED
      BY <1>1, <2>19, <3>2 DEF InitDoing
  <2> QED
    BY <2>1, <2>2, <2>3, <2>4, <2>5, <2>6, <2>7, <2>8, <2>9, <2>10, <2>11,
       <2>12, <2>13, <2>14, <2>15, <2>16, <2>17, <2>18, <2>19
<1> QED
  BY <1>5, <1>6, Zenon DEF InitAt

\* A cylinder number is never mistaken for the byte of a silent controller.
LEMMA TracksAre ==
  Tracks \subseteq Nat /\ Garbage \notin Tracks /\ 0 \in Tracks
  /\ \A s \in Sectors : CylOf(s) \in Tracks
<1>1. \A s \in Sectors : CylOf(s) \in Nat
  <2> TAKE s \in Sectors
  <2>1. s \in Lbas
    BY DriverAssumption
  <2>2. CylOf(s) \in 0..(Cylinders - 1)
    BY <2>1, ConvertToCHSCorrect
  <2> QED
    BY <2>2 DEF Cylinders
<1> QED
  BY <1>1 DEF Tracks, Garbage

\* The end of a turn of the loop: the head is there, or another turn follows,
\* and then the recalibration has stopped short.
LEMMA Retries ==
  ASSUME Values, Flags, NEW c \in Tracks, NEW b, NEW l \in 0..(Tries - 1),
         Head(todo) = [op |-> "retry", bytes |-> b, left |-> l],
         cyl = track, Arrived(c, l), Retry
  PROVE  /\ UNCHANGED <<cyl, want, got, isr6, irq, controller, motor, dma,
                        short>>
         /\ \/ todo' = Tail(todo) /\ Arrived(c, 0)
            \/ /\ l - 1 \in 0..(Tries - 1) /\ Failed(c, l - 1)
               /\ todo' = Attempt(b, l - 1) \o Tail(todo)
<1>1. UNCHANGED <<cyl, want, got, isr6, irq, controller, motor, dma, short>>
  BY DEF Retry
<1>2. Head(todo).bytes = b /\ Head(todo).left = l
  OBVIOUS
<1>3. cyl \in Nat /\ cyl # Garbage
  BY TracksAre DEF Values
<1>4. Tries \in Nat /\ short \in Nat
  BY DriverAssumption DEF Flags
<1>5. CASE (cyl = 0 \/ cyl = Garbage \/ l = 0) /\ todo' = Tail(todo)
  <2>1. Arrived(c, 0)
    BY <1>3, <1>4, <1>5 DEF Arrived
  <2> QED
    BY <1>1, <1>5, <2>1
<1>6. CASE cyl # 0 /\ l > 0 /\ todo' = Attempt(b, l - 1) \o Tail(todo)
  <2>1. Failed(c, l - 1) /\ l - 1 \in 0..(Tries - 1)
    BY <1>4, <1>6 DEF Arrived, Failed
  <2> QED
    BY <1>1, <1>6, <2>1
<1> QED
  BY <1>2, <1>5, <1>6 DEF Retry, Succeeded

LEMMA InitRetries ==
  ASSUME Values, Flags, NEW l \in 0..(Tries - 1), InitAt(28, l), Driver
  PROVE  Initializing' /\ Values'
<1>1. todo = SubSeq(InitCode(l), 28 + 1, 30) /\ InitDoing(28, l)
  BY DEF InitAt
<1>2. /\ Tail(todo) = SubSeq(InitCode(l), 28 + 2, 30)
      /\ Head(todo) = [op |-> "retry", bytes |-> RecalibrateBytes, left |-> l]
  <2>1. 28 \in 0..29 /\ l \in Int
    BY DriverAssumption
  <2> QED
    BY <1>1, <2>1, InitNext, Zenon DEF InitHead
<1>3. Retry
  <2>1. Head(todo).op = "retry"
    BY <1>2
  <2> QED
    BY <2>1, DriverActs, Zenon
<1>4. /\ Rest(0) /\ Arrived(0, l) /\ cyl = track /\ ~ nonDma /\ dmaAtBuffer
      /\ want = None /\ got = None
  BY <1>1 DEF InitDoing
<1>5. /\ UNCHANGED <<cyl, want, got, isr6, irq, controller, motor, dma, short>>
      /\ \/ todo' = Tail(todo) /\ Arrived(0, 0)
         \/ /\ l - 1 \in 0..(Tries - 1) /\ Failed(0, l - 1)
            /\ todo' = Attempt(RecalibrateBytes, l - 1) \o Tail(todo)
  BY <1>2, <1>3, <1>4, TracksAre, Retries, Zenon
<1>6. Values' /\ Rest(0)'
  BY <1>4, <1>5 DEF Values, Rest, Idle, Quiet, controller, dma
<1>7. CASE todo' = Tail(todo) /\ Arrived(0, 0)
  <2>1. todo' = SubSeq(InitCode(l), 29 + 1, 30)
    <3>1. 28 + 2 = 29 + 1
      OBVIOUS
    <3> QED
      BY <1>2, <1>7, <3>1, Zenon
  <2>2. InitDoing(29, l)'
    BY <1>4, <1>5, <1>6, <1>7 DEF InitDoing, Arrived, controller, dma
  <2>3. 29 \in 0..29
    OBVIOUS
  <2> QED
    BY <1>6, <2>1, <2>2, <2>3, Zenon DEF Initializing, InitAt
<1>8. CASE /\ l - 1 \in 0..(Tries - 1) /\ Failed(0, l - 1)
           /\ todo' = Attempt(RecalibrateBytes, l - 1) \o Tail(todo)
  <2> DEFINE c == InitCode(l - 1)
             d == InitCode(l)
             t == Attempt(RecalibrateBytes, l - 1)
  <2>1. l \in Int /\ l - 1 \in Int
    BY DriverAssumption
  <2>2. /\ c \in Seq(Instruction) /\ d \in Seq(Instruction)
        /\ Len(c) = 30 /\ Len(d) = 30 /\ c[30] = d[30]
        /\ \A j \in 1..8 : c[21 + j] = t[j]
    <3>1. /\ c \in Seq(Instruction) /\ Len(c) = 30
          /\ c[30] = Just("motorOff")
          /\ \A j \in 1..8 : c[21 + j] = t[j]
      BY <2>1, InitIs, Zenon
    <3>2. /\ d \in Seq(Instruction) /\ Len(d) = 30
          /\ d[30] = Just("motorOff")
      BY <2>1, InitIs, Zenon
    <3> QED
      BY <3>1, <3>2
  <2>3. t \in Seq(Instruction) /\ Len(t) = 8
    <3>1. RecalibrateBytes \in Seq(Int) /\ 2 = Len(RecalibrateBytes) /\ 2 \in Nat
      BY DEF RecalibrateBytes, RECALIBRATE
    <3>2. IsTurn(t, RecalibrateBytes, l - 1, 2)
      BY <2>1, <3>1, AttemptIs, Zenon
    <3> QED
      BY <3>2 DEF IsTurn
  <2>4. Tail(todo) = SubSeq(d, 30, 30)
    BY <1>2
  <2> HIDE DEF c, d, t
  <2>5. t \o SubSeq(d, 21 + Len(t) + 1, 30) = SubSeq(c, 21 + 1, 30)
    <3>1. /\ 21 + Len(t) <= 30 /\ 21 \in Nat /\ 30 \in Nat
          /\ \A k \in (21 + Len(t) + 1)..30 : c[k] = d[k]
      BY <2>2, <2>3
    <3>2. \A j \in 1..Len(t) : c[21 + j] = t[j]
      BY <2>2, <2>3, Zenon
    <3> QED
      BY <2>2, <2>3, <3>1, <3>2, TurnAgain, Zenon
  <2>6. t \o SubSeq(d, 30, 30) = SubSeq(c, 21 + 1, 30)
    BY <2>3, <2>5
  <2>7. todo' = SubSeq(c, 21 + 1, 30)
    BY <1>8, <2>4, <2>6 DEF t
  <2>8. InitDoing(21, l - 1)'
    BY <1>4, <1>5, <1>6, <1>8
       DEF InitDoing, Specifying, Failed, controller, dma
  <2>9. 21 \in 0..29
    OBVIOUS
  <2> QED
    BY <1>6, <1>8, <2>7, <2>8, <2>9, Zenon DEF Initializing, InitAt, c
<1> QED
  BY <1>5, <1>7, <1>8

LEMMA InitReturns ==
  ASSUME Values, Flags, NEW l \in 0..(Tries - 1), InitAt(29, l), Driver
  PROVE  Between' /\ Values'
<1>1. todo = SubSeq(InitCode(l), 29 + 1, 30) /\ InitDoing(29, l)
  BY DEF InitAt
<1>2. /\ Tail(todo) = SubSeq(InitCode(l), 29 + 2, 30)
      /\ Head(todo) = Just("motorOff")
  <2>1. 29 \in 0..29 /\ l \in Int
    BY DriverAssumption
  <2> QED
    BY <1>1, <2>1, InitNext, Zenon DEF InitHead
<1>3. Motor(FALSE) /\ todo' = Tail(todo)
  <2>1. Head(todo).op = "motorOff"
    BY <1>2, JustIs
  <2> QED
    BY <2>1, DriverActs
<1>4. todo' = <<>>
  BY <1>2, <1>3, SubSeqEmpty
<1>5. /\ Rest(0) /\ Arrived(0, 0) /\ ~ nonDma /\ dmaAtBuffer
      /\ want = None /\ got = None
  BY <1>1 DEF InitDoing
<1>6. /\ UNCHANGED <<cyl, want, got, isr6, irq, controller, dma, short>>
      /\ ~ motor'
  BY <1>3 DEF Motor
<1>7. Rest(0)' /\ Values' /\ ~ nonDma' /\ dmaAtBuffer'
  BY <1>5, <1>6 DEF Rest, Idle, Quiet, Values, controller, dma
<1>8. Short < Tries => track' = 0
  BY <1>5, <1>6, DriverAssumption DEF Arrived, Flags, controller
<1> QED
  BY <1>4, <1>5, <1>6, <1>7, <1>8 DEF Between

LEMMA InitWaits ==
  ASSUME Values, Flags, NEW l \in 0..(Tries - 1), NEW k \in 0..29,
         InitAt(k, l), Isr6 \/ Controller
  PROVE  InitAt(k, l)' /\ Values'
<1>1. todo = SubSeq(InitCode(l), k + 1, 30) /\ InitDoing(k, l)
  BY DEF InitAt
<1>2. UNCHANGED todo /\ InitDoing(k, l)' /\ Values'
  <2> USE DEF Values, Failed, Arrived, others, driver
  <2>1. CASE k = 3
    <3>1. Starting' /\ UNCHANGED <<driver, others>>
      BY <1>1, <2>1, StartingKept DEF InitDoing
    <3> QED
      BY <1>1, <2>1, <3>1 DEF InitDoing
  <2>2. CASE k \in {6, 9, 12, 15}
    <3> DEFINE p == (18 - k) \div 3
    <3>1. Sensing(p) /\ p \in 0..4
      BY <1>1, <2>2 DEF InitDoing
    <3> HIDE DEF p
    <3>2. Sensing(p)' /\ UNCHANGED <<driver, others>>
      BY <3>1, SensingKept
    <3> QED
      BY <1>1, <2>2, <3>2 DEF InitDoing, p
  <2>3. CASE k = 26
    <3>1. Sensing(1) /\ 1 \in 0..4
      BY <1>1, <2>3 DEF InitDoing
    <3>2. Sensing(1)' /\ UNCHANGED <<driver, others>>
      BY <3>1, SensingKept
    <3> QED
      BY <1>1, <2>3, <3>2 DEF InitDoing
  <2>4. CASE k \in {20, 21}
    <3>1. /\ Specifying'
          /\ UNCHANGED <<driver, want, got, track, motor, dma, short>>
      BY <1>1, <2>4, SpecifyingKept DEF InitDoing
    <3> QED
      BY <1>1, <2>4, <3>1 DEF InitDoing, dma
  <2>5. CASE k = 23
    <3>1. Stepping(RecalibrateBytes, 0, l) /\ l \in Int
      BY <1>1, <2>5, DriverAssumption DEF InitDoing
    <3>2. Tries \in Nat /\ short \in Nat
      BY DriverAssumption DEF Flags
    <3>3. /\ Stepping(RecalibrateBytes, 0, l)' /\ track' \in Tracks \cup {track}
          /\ UNCHANGED <<driver, nonDma, motor, dma>>
      BY <3>1, <3>2, InitBytes, TracksAre, SteppingKept, Zenon
    <3> QED
      BY <1>1, <2>5, <3>3 DEF InitDoing, dma
  <2>6. CASE k \notin {3, 6, 9, 12, 15, 20, 21, 23, 26}
    <3>1. /\ phase \notin {"resetting", "execute"} /\ seeking = None /\ ~ irq
      <4>1. \/ \E p \in Int : Rest(p) \/ Woken(p) \/ CylinderNext(p)
            \/ Held
            \/ \E b, j : Taking(b, j)
        <5>1. CASE k \in {5, 8, 11, 14, 17}
          BY <1>1, <5>1 DEF InitDoing
        <5>2. CASE k \in {7, 10, 13, 16}
          BY <1>1, <5>2 DEF InitDoing
        <5>3. CASE k \notin {5, 7, 8, 10, 11, 13, 14, 16, 17}
          BY <1>1, <2>6, <5>3 DEF InitDoing
        <5> QED
          BY <5>1, <5>2, <5>3
      <4> QED
        BY <4>1 DEF Rest, Woken, CylinderNext, Held, Taking, Idle, Said, Quiet,
                    Flagged
    <3> QED
      BY <3>1, Still
  <2> QED
    BY <2>1, <2>2, <2>3, <2>4, <2>5, <2>6
<1> QED
  BY <1>1, <1>2, Zenon DEF InitAt

-----------------------------------------------------------------------------
(***************************************************************************)
(* The steps of readSector_int.                                            *)
(***************************************************************************)
\* The instruction that is next after k of readSector_int.
ReadHead(x, k, l) ==
    /\ k = 0 => Head(todo) = Just("setReadDMA")
    /\ k \in {1, 12} => Head(todo) = Just("motorOn")
    /\ k = 2 => Head(todo) = Sent(SeekBytes(x), 1)
    /\ k = 3 => Head(todo) = Sent(SeekBytes(x), 1 + 1)
    /\ k = 4 => Head(todo) = Sent(SeekBytes(x), 2 + 1)
    /\ k \in {5, 22} => Head(todo) = Just("await")
    /\ k \in {6, 23} => Head(todo) = Just("clear")
    /\ k \in {7, 31} => Head(todo) = Sent(SenseBytes, 1)
    /\ k \in {8, 32} => Head(todo) = Just("fetch")
    /\ k \in {9, 33} => Head(todo) = Just("fetchCyl")
    /\ k = 10 => Head(todo) = [op |-> "retry", bytes |-> SeekBytes(x),
                               left |-> l]
    /\ k \in {11, 34} => Head(todo) = Just("motorOff")
    /\ k \in 13..21 => Head(todo) = Sent(ReadBytes(x), k - 12)
    /\ k \in 24..30 => Head(todo) = Just("fetch")
    /\ k = 35 => Head(todo) = Just("copyOut")

LEMMA ReadNext ==
  ASSUME NEW l \in Int, NEW x \in Lbas, NEW k \in 0..35,
         todo = SubSeq(ReadCode(x, l), k + 1, 36)
  PROVE  /\ Tail(todo) = SubSeq(ReadCode(x, l), k + 2, 36)
         /\ ReadHead(x, k, l)
<1> DEFINE c == ReadCode(x, l)
<1>1. c \in Seq(Instruction) /\ Len(c) = 36
  BY ReadIs, Zenon
<1>2. todo = SubSeq(c, k + 1, 36)
  OBVIOUS
<1>3. /\ c[1] = Just("setReadDMA") /\ c[2] = Just("motorOn")
      /\ c[12] = Just("motorOff") /\ c[13] = Just("motorOn")
      /\ c[23] = Just("await") /\ c[24] = Just("clear")
      /\ c[32] = Sent(SenseBytes, 1)
      /\ c[33] = Just("fetch") /\ c[34] = Just("fetchCyl")
      /\ c[35] = Just("motorOff") /\ c[36] = Just("copyOut")
  BY ReadIs, Zenon
<1>4. /\ \A j \in 1..9 : c[13 + j] = Sent(ReadBytes(x), j)
      /\ \A j \in 1..7 : c[24 + j] = Just("fetch")
  BY ReadIs, Zenon
<1>5. /\ c[3] = Sent(SeekBytes(x), 1) /\ c[4] = Sent(SeekBytes(x), 2)
      /\ c[5] = Sent(SeekBytes(x), 3)
      /\ c[6] = Just("await") /\ c[7] = Just("clear")
      /\ c[8] = Sent(SenseBytes, 1)
      /\ c[9] = Just("fetch") /\ c[10] = Just("fetchCyl")
      /\ c[11] = [op |-> "retry", bytes |-> SeekBytes(x), left |-> l]
  BY ReadTurn, Zenon
<1> HIDE DEF c
<1>6. Head(todo) = c[k + 1] /\ Tail(todo) = SubSeq(c, k + 2, 36)
  BY <1>1, <1>2, NextInstruction
<1>7. /\ k = 0 => k + 1 = 1
      /\ k \in {1, 12} => k + 1 = 2 \/ k + 1 = 13
      /\ k = 2 => k + 1 = 3
      /\ k = 3 => k + 1 = 4
      /\ k = 4 => k + 1 = 5
      /\ k \in {5, 22} => k + 1 = 6 \/ k + 1 = 23
      /\ k \in {6, 23} => k + 1 = 7 \/ k + 1 = 24
      /\ k \in {7, 31} => k + 1 = 8 \/ k + 1 = 32
      /\ k \in {8, 32} => k + 1 = 9 \/ k + 1 = 33
      /\ k \in {9, 33} => k + 1 = 10 \/ k + 1 = 34
      /\ k = 10 => k + 1 = 11
      /\ k \in {11, 34} => k + 1 = 12 \/ k + 1 = 35
      /\ k \in 13..21 => k - 12 \in 1..9 /\ 13 + (k - 12) = k + 1
      /\ k \in 24..30 => k - 23 \in 1..7 /\ 24 + (k - 23) = k + 1
      /\ k = 35 => k + 1 = 36
  OBVIOUS
<1>8. /\ k = 0 => Head(todo) = Just("setReadDMA")
      /\ k \in {1, 12} => Head(todo) = Just("motorOn")
      /\ k \in {5, 22} => Head(todo) = Just("await")
      /\ k \in {6, 23} => Head(todo) = Just("clear")
  BY <1>3, <1>5, <1>6, <1>7, Zenon
<1>9. /\ k = 2 => Head(todo) = Sent(SeekBytes(x), 1)
      /\ k = 3 => Head(todo) = Sent(SeekBytes(x), 1 + 1)
      /\ k = 4 => Head(todo) = Sent(SeekBytes(x), 2 + 1)
  <2>1. 1 + 1 = 2 /\ 2 + 1 = 3
    OBVIOUS
  <2> QED
    BY <1>5, <1>6, <1>7, <2>1, Zenon
<1>10. /\ k \in {7, 31} => Head(todo) = Sent(SenseBytes, 1)
       /\ k \in {8, 32} => Head(todo) = Just("fetch")
       /\ k \in {9, 33} => Head(todo) = Just("fetchCyl")
  BY <1>3, <1>5, <1>6, <1>7, Zenon
<1>11. /\ k = 10 => Head(todo) = [op |-> "retry", bytes |-> SeekBytes(x),
                                  left |-> l]
       /\ k \in {11, 34} => Head(todo) = Just("motorOff")
       /\ k = 35 => Head(todo) = Just("copyOut")
  BY <1>3, <1>5, <1>6, <1>7, Zenon
<1>12. /\ k \in 13..21 => Head(todo) = Sent(ReadBytes(x), k - 12)
       /\ k \in 24..30 => Head(todo) = Just("fetch")
  BY <1>4, <1>6, <1>7, Zenon
<1> QED
  BY <1>6, <1>8, <1>9, <1>10, <1>11, <1>12, Zenon DEF c, ReadHead

\* The commands of readSector_int.
LEMMA CallBytes ==
  ASSUME NEW s \in Lbas
  PROVE  /\ SeekBytes(s) \in Seq(Int) /\ Len(SeekBytes(s)) >= 2
         /\ Arity(SeekBytes(s)[1]) = Len(SeekBytes(s))
         /\ 1 \in 1..(Len(SeekBytes(s)) - 2)
         /\ 2 \in 1..(Len(SeekBytes(s)) - 1) /\ 2 + 1 = Len(SeekBytes(s))
         /\ SeekBytes(s)[1] = SEEK /\ SeekBytes(s)[3] = CylOf(s)
         /\ ReadBytes(s) \in Seq(Int) /\ Len(ReadBytes(s)) >= 2
         /\ Arity(ReadBytes(s)[1]) = Len(ReadBytes(s))
         /\ 1..7 = 1..(Len(ReadBytes(s)) - 2)
         /\ 8 \in 1..(Len(ReadBytes(s)) - 1) /\ 8 + 1 = Len(ReadBytes(s))
<1>1. /\ SeekBytes(s) \in Seq(Int) /\ Len(SeekBytes(s)) = 3
      /\ ReadBytes(s) \in Seq(Int) /\ Len(ReadBytes(s)) = 9
  BY BytesAre
<1>2. SeekBytes(s)[1] = SEEK /\ SeekBytes(s)[3] = CylOf(s)
  BY DEF SeekBytes
<1>3. ReadBytes(s)[1] = READ
  BY DEF ReadBytes
<1>4. Arity(SeekBytes(s)[1]) = 3 /\ Arity(ReadBytes(s)[1]) = 9
  BY <1>2, <1>3, Arities, Zenon
<1> QED
  BY <1>1, <1>2, <1>4

\* Nothing in readSector_int but its loop and its return leaves the list.
LEMMA ReadMoves ==
  ASSUME Values, Flags, NEW s \in Sectors, NEW l \in 0..(Tries - 1),
         NEW k \in 0..34, k # 10, ReadAt(s, k, l), Driver
  PROVE  ReadAt(s, k + 1, l)' /\ Values'
<1> DEFINE op == Head(todo).op
<1> USE DEF ReadHead
<1>0. l \in Int /\ s \in Lbas
  BY DriverAssumption
<1>1. todo = SubSeq(ReadCode(s, l), k + 1, 36) /\ ReadDoing(s, k, l)
  BY DEF ReadAt
<1>2. /\ Tail(todo) = SubSeq(ReadCode(s, l), k + 2, 36)
      /\ ReadHead(s, k, l)
  <2>1. k \in 0..35
    OBVIOUS
  <2> QED
    BY <1>0, <1>1, <2>1, ReadNext, Zenon
<1>3. /\ k = 0 => SetReadDMA
      /\ k \in {1, 12} => Motor(TRUE)
      /\ k \in {2, 3, 4} \cup 13..21 \cup {7, 31} => SendData
      /\ k \in {5, 22} => AwaitFlag
      /\ k \in {6, 23} => ClearFlag
      /\ k \in 24..30 \cup {8, 32} => FetchByte
      /\ k \in {9, 33} => FetchCyl
      /\ k \in {11, 34} => Motor(FALSE)
  <2>1. /\ k = 0 => op = "setReadDMA"
        /\ k \in {1, 12} => op = "motorOn"
        /\ k \in {2, 3, 4} \cup 13..21 \cup {7, 31} => op = "send"
        /\ k \in {5, 22} => op = "await"
        /\ k \in {6, 23} => op = "clear"
        /\ k \in 24..30 \cup {8, 32} => op = "fetch"
        /\ k \in {9, 33} => op = "fetchCyl"
        /\ k \in {11, 34} => op = "motorOff"
    BY <1>2, JustIs, SentIs
  <2> QED
    BY <2>1, DriverActs, Zenon
<1>4. op # "retry"
  BY <1>2, JustIs, SentIs
<1>5. todo' = SubSeq(ReadCode(s, l), (k + 1) + 1, 36)
  <2>1. (k + 1) + 1 = k + 2
    OBVIOUS
  <2> QED
    BY <1>2, <1>4, <2>1, DriverActs, Zenon
<1>6. ReadDoing(s, k + 1, l)' /\ Values'
  <2> USE DEF Values, Failed, Arrived, Delivered, others
  <2>1. CASE k = 0
    BY <1>1, <1>3, <2>1 DEF SetReadDMA, Mode56, ReadDoing, Rest, Idle, Quiet,
                            controller
  <2>2. CASE k \in {1, 12}
    <3>1. Rest(0) /\ Motor(TRUE)
      BY <1>1, <1>3, <2>2 DEF ReadDoing
    <3>2. /\ Rest(0)' /\ motor'
          /\ UNCHANGED <<cyl, want, got, track, nonDma, dma, short>>
      BY <3>1 DEF Motor, Rest, Idle, Quiet, controller
    <3>3. CASE k = 1
      BY <1>1, <3>2, <3>3 DEF ReadDoing, dma
    <3>4. CASE k = 12
      BY <1>1, <3>2, <3>4 DEF ReadDoing, dma
    <3> QED
      BY <2>2, <3>3, <3>4
  <2>3. CASE k = 2
    <3>1. Rest(0) /\ Head(todo) = Sent(SeekBytes(s), 1) /\ SendData
      BY <1>1, <1>2, <1>3, <2>3 DEF ReadDoing
    <3>2. Taking(SeekBytes(s), 1)' /\ UNCHANGED <<cyl, others>>
      BY <1>0, <3>1, CallBytes, SendsOpcode, Zenon
    <3> QED
      BY <1>1, <2>3, <3>2 DEF ReadDoing
  <2>4. CASE k = 3
    <3>1. /\ Taking(SeekBytes(s), 1) /\ Head(todo) = Sent(SeekBytes(s), 1 + 1)
          /\ SendData
      BY <1>1, <1>2, <1>3, <2>4 DEF ReadDoing
    <3>2. Taking(SeekBytes(s), 1 + 1)' /\ UNCHANGED <<cyl, others>>
      BY <1>0, <3>1, CallBytes, SendsParameter, Zenon
    <3> QED
      BY <1>1, <2>4, <3>2 DEF ReadDoing
  <2>5. CASE k = 4
    <3>1. /\ Taking(SeekBytes(s), 2) /\ Head(todo) = Sent(SeekBytes(s), 2 + 1)
          /\ SendData
      BY <1>1, <1>2, <1>3, <2>5 DEF ReadDoing
    <3>2. Doing(SeekBytes(s), 0)' /\ UNCHANGED <<cyl, others>>
      BY <1>0, <3>1, CallBytes, SendsLast, Zenon
    <3> QED
      BY <1>1, <2>5, <3>2 DEF ReadDoing, Stepping
  <2>6. CASE k = 5
    <3>1. isr6 /\ UNCHANGED <<cyl, others, isr6, irq, controller>>
      BY <1>3, <2>6, Awaits
    <3>2. Idle(1) /\ Raised /\ Arrived(CylOf(s), l)
      BY <1>1, <2>6, <3>1 DEF ReadDoing, Stepping, Doing, Quiet
    <3>3. Woken(1)'
      BY <3>1, <3>2 DEF Raised, Flagged, Woken, Idle, controller
    <3> QED
      BY <1>1, <2>6, <3>1, <3>2, <3>3 DEF ReadDoing
  <2>7. CASE k = 6
    <3>1. Woken(1) /\ ClearFlag
      BY <1>1, <1>3, <2>7 DEF ReadDoing
    <3>2. Rest(1)' /\ UNCHANGED <<cyl, others>>
      BY <3>1, Clears
    <3> QED
      BY <1>1, <2>7, <3>2 DEF ReadDoing
  <2>8. CASE k = 7
    <3>1. Rest(1) /\ Head(todo) = Sent(SenseBytes, 1) /\ SendData
      BY <1>1, <1>2, <1>3, <2>8 DEF ReadDoing
    <3>2. Doing(SenseBytes, 1)' /\ UNCHANGED <<cyl, others>>
      BY <3>1, SendsSense
    <3> QED
      BY <1>1, <2>8, <3>2 DEF ReadDoing, Sensing
  <2>9. CASE k = 8
    <3>1. Sensing(1) /\ FetchByte
      BY <1>1, <1>3, <2>9 DEF ReadDoing
    <3>2. CylinderNext(1 - 1)' /\ UNCHANGED <<cyl, others>>
      BY <3>1, FetchesStatus
    <3> QED
      BY <1>1, <2>9, <3>2 DEF ReadDoing
  <2>10. CASE k = 9
    <3>1. CylinderNext(0) /\ FetchCyl
      BY <1>1, <1>3, <2>10 DEF ReadDoing
    <3>2. Rest(0)' /\ cyl' = track /\ UNCHANGED others
      BY <3>1, FetchesCylinder
    <3> QED
      BY <1>1, <2>10, <3>2 DEF ReadDoing
  <2>11. CASE k \in {11, 34}
    <3>1. Rest(0) /\ Motor(FALSE)
      BY <1>1, <1>3, <2>11 DEF ReadDoing
    <3>2. /\ Rest(0)' /\ ~ motor'
          /\ UNCHANGED <<cyl, want, got, track, nonDma, dma, short>>
      BY <3>1 DEF Motor, Rest, Idle, Quiet, controller
    <3>3. CASE k = 11
      BY <1>1, <3>2, <3>3 DEF ReadDoing, dma
    <3>4. CASE k = 34
      BY <1>1, <3>2, <3>4 DEF ReadDoing, dma
    <3> QED
      BY <2>11, <3>3, <3>4
  <2>12. CASE k = 13
    <3>1. Rest(0) /\ Head(todo) = Sent(ReadBytes(s), 1) /\ SendData
      BY <1>1, <1>2, <1>3, <2>12 DEF ReadDoing
    <3>2. Taking(ReadBytes(s), 1)' /\ UNCHANGED <<cyl, others>>
      BY <1>0, <3>1, CallBytes, SendsOpcode, Zenon
    <3> QED
      BY <1>1, <2>12, <3>2 DEF ReadDoing
  <2>13. CASE k \in 14..20
    <3> DEFINE j == k - 13
    <3>1. /\ Taking(ReadBytes(s), j) /\ Head(todo) = Sent(ReadBytes(s), j + 1)
          /\ SendData /\ j \in 1..7
      <4>1. k - 12 = j + 1 /\ k \in 13..21
        BY <2>13
      <4> QED
        BY <1>1, <1>2, <1>3, <2>13, <4>1 DEF ReadDoing
    <3>2. Taking(ReadBytes(s), j + 1)' /\ UNCHANGED <<cyl, others>>
      <4>1. j \in 1..(Len(ReadBytes(s)) - 2)
        BY <1>0, <3>1, CallBytes, Zenon
      <4> QED
        BY <1>0, <3>1, <4>1, CallBytes, SendsParameter, Zenon
    <3>3. (k + 1) - 13 = j + 1
      OBVIOUS
    <3> HIDE DEF j
    <3> QED
      BY <1>1, <2>13, <3>2, <3>3 DEF ReadDoing
  <2>14. CASE k = 21
    <3>1. /\ Taking(ReadBytes(s), 8) /\ Head(todo) = Sent(ReadBytes(s), 8 + 1)
          /\ SendData
      BY <1>1, <1>2, <1>3, <2>14 DEF ReadDoing
    <3>2. Doing(ReadBytes(s), 0)' /\ UNCHANGED <<cyl, others>>
      BY <1>0, <3>1, CallBytes, SendsLast, Zenon
    <3> QED
      BY <1>1, <2>14, <3>2 DEF ReadDoing, Reading
  <2>15. CASE k = 22
    <3>1. isr6 /\ UNCHANGED <<cyl, others, isr6, irq, controller>>
      BY <1>3, <2>15, Awaits
    <3>2. Left(7) /\ Raised /\ Delivered(s)
      BY <1>1, <2>15, <3>1 DEF ReadDoing, Reading, Doing, Quiet
    <3>3. Left(7)' /\ Flagged'
      BY <3>1, <3>2 DEF Raised, Flagged, Left, Said, controller
    <3> QED
      BY <1>1, <2>15, <3>1, <3>2, <3>3 DEF ReadDoing
  <2>16. CASE k = 23
    <3>1. Left(7) /\ Flagged /\ ClearFlag
      BY <1>1, <1>3, <2>16 DEF ReadDoing
    <3>2. Left(7)' /\ Quiet' /\ UNCHANGED <<cyl, others>>
      BY <3>1 DEF ClearFlag, Left, Said, Flagged, Quiet, controller, dma
    <3> QED
      BY <1>1, <2>16, <3>2 DEF ReadDoing
  <2>17. CASE k \in 24..30
    <3> DEFINE m == 31 - k
    <3>1. Left(m) /\ Quiet /\ FetchByte /\ m \in 1..7
      BY <1>1, <1>3, <2>17 DEF ReadDoing
    <3>2. 31 - (k + 1) = m - 1 /\ (m = 1 <=> k = 30) /\ (m > 1 <=> k # 30)
      BY <2>17
    <3> HIDE DEF m
    <3>3. /\ m > 1 => Left(m - 1)' /\ Quiet'
          /\ m = 1 => Rest(0)'
          /\ UNCHANGED <<cyl, others>>
      BY <3>1, FetchesAnswer
    <3> QED
      BY <1>1, <2>17, <3>2, <3>3 DEF ReadDoing
  <2>18. CASE k = 31
    <3>1. Rest(0) /\ Head(todo) = Sent(SenseBytes, 1) /\ SendData
      BY <1>1, <1>2, <1>3, <2>18 DEF ReadDoing
    <3>2. Doing(SenseBytes, 0)' /\ UNCHANGED <<cyl, others>>
      BY <3>1, SendsSense
    <3> QED
      BY <1>1, <2>18, <3>2 DEF ReadDoing, Sensing
  <2>19. CASE k = 32
    <3>1. Sensing(0) /\ FetchByte
      BY <1>1, <1>3, <2>19 DEF ReadDoing
    <3>2. (CylinderNext(0) \/ Rest(0))' /\ UNCHANGED <<cyl, others>>
      BY <3>1, FetchesStatus
    <3> QED
      BY <1>1, <2>19, <3>2 DEF ReadDoing
  <2>20. CASE k = 33
    <3>1. (CylinderNext(0) \/ Rest(0)) /\ FetchCyl
      BY <1>1, <1>3, <2>20 DEF ReadDoing
    <3>2. Rest(0)' /\ cyl' \in {track, Garbage} /\ UNCHANGED others
      BY <3>1, FetchesCylinder, FetchesGarbage
    <3> QED
      BY <1>1, <2>20, <3>2 DEF ReadDoing
  <2> QED
    BY <2>1, <2>2, <2>3, <2>4, <2>5, <2>6, <2>7, <2>8, <2>9, <2>10, <2>11,
       <2>12, <2>13, <2>14, <2>15, <2>16, <2>17, <2>18, <2>19, <2>20
<1> QED
  BY <1>5, <1>6, Zenon DEF ReadAt

LEMMA ReadRetries ==
  ASSUME Values, Flags, NEW s \in Sectors, NEW l \in 0..(Tries - 1),
         ReadAt(s, 10, l), Driver
  PROVE  ReadingSector' /\ Values'
<1>0. l \in Int /\ s \in Lbas
  BY DriverAssumption
<1>1. todo = SubSeq(ReadCode(s, l), 10 + 1, 36) /\ ReadDoing(s, 10, l)
  BY DEF ReadAt
<1>2. /\ Tail(todo) = SubSeq(ReadCode(s, l), 10 + 2, 36)
      /\ Head(todo) = [op |-> "retry", bytes |-> SeekBytes(s), left |-> l]
  <2>1. 10 \in 0..35
    OBVIOUS
  <2> QED
    BY <1>0, <1>1, <2>1, ReadNext, Zenon DEF ReadHead
<1>3. Retry
  <2> DEFINE h == [op |-> "retry", bytes |-> SeekBytes(s), left |-> l]
  <2>0. h.op = "retry"
    OBVIOUS
  <2> HIDE DEF h
  <2>1. Head(todo).op = "retry"
    BY <1>2, <2>0, Zenon DEF h
  <2> QED
    BY <2>1, DriverActs, Zenon
<1>4. /\ Rest(0) /\ Arrived(CylOf(s), l) /\ cyl = track /\ ~ nonDma
      /\ dmaAtBuffer /\ dmaAuto /\ want = s
  BY <1>1 DEF ReadDoing
<1>5. /\ UNCHANGED <<cyl, want, got, isr6, irq, controller, motor, dma, short>>
      /\ \/ todo' = Tail(todo) /\ Arrived(CylOf(s), 0)
         \/ /\ l - 1 \in 0..(Tries - 1) /\ Failed(CylOf(s), l - 1)
            /\ todo' = Attempt(SeekBytes(s), l - 1) \o Tail(todo)
  BY <1>2, <1>3, <1>4, TracksAre, Retries, Zenon
<1>6. Values' /\ Rest(0)'
  BY <1>4, <1>5 DEF Values, Rest, Idle, Quiet, controller, dma
<1>7. CASE todo' = Tail(todo) /\ Arrived(CylOf(s), 0)
  <2>1. todo' = SubSeq(ReadCode(s, l), 11 + 1, 36)
    <3>1. 10 + 2 = 11 + 1
      OBVIOUS
    <3> QED
      BY <1>2, <1>7, <3>1, Zenon
  <2>2. ReadDoing(s, 11, l)'
    BY <1>4, <1>5, <1>6, <1>7 DEF ReadDoing, Arrived, controller, dma
  <2>3. 11 \in 0..35
    OBVIOUS
  <2> QED
    BY <1>6, <2>1, <2>2, <2>3, Zenon DEF ReadingSector, ReadAt
<1>8. CASE /\ l - 1 \in 0..(Tries - 1) /\ Failed(CylOf(s), l - 1)
           /\ todo' = Attempt(SeekBytes(s), l - 1) \o Tail(todo)
  <2> DEFINE c == ReadCode(s, l - 1)
             d == ReadCode(s, l)
             t == Attempt(SeekBytes(s), l - 1)
  <2>1. l - 1 \in Int
    BY <1>0
  <2>2. /\ c \in Seq(Instruction) /\ Len(c) = 36
        /\ \A j \in 1..9 : c[2 + j] = t[j]
        /\ c[12] = Just("motorOff") /\ c[13] = Just("motorOn")
        /\ c[23] = Just("await") /\ c[24] = Just("clear")
        /\ c[32] = Sent(SenseBytes, 1)
        /\ c[33] = Just("fetch") /\ c[34] = Just("fetchCyl")
        /\ c[35] = Just("motorOff") /\ c[36] = Just("copyOut")
        /\ \A j \in 1..9 : c[13 + j] = Sent(ReadBytes(s), j)
        /\ \A j \in 1..7 : c[24 + j] = Just("fetch")
    BY <1>0, <2>1, ReadIs, Zenon
  <2>3. /\ d \in Seq(Instruction) /\ Len(d) = 36
        /\ d[12] = Just("motorOff") /\ d[13] = Just("motorOn")
        /\ d[23] = Just("await") /\ d[24] = Just("clear")
        /\ d[32] = Sent(SenseBytes, 1)
        /\ d[33] = Just("fetch") /\ d[34] = Just("fetchCyl")
        /\ d[35] = Just("motorOff") /\ d[36] = Just("copyOut")
        /\ \A j \in 1..9 : d[13 + j] = Sent(ReadBytes(s), j)
        /\ \A j \in 1..7 : d[24 + j] = Just("fetch")
    BY <1>0, ReadIs, Zenon
  <2>4. t \in Seq(Instruction) /\ Len(t) = 9
    <3>1. SeekBytes(s) \in Seq(Int) /\ 3 = Len(SeekBytes(s)) /\ 3 \in Nat
      BY <1>0, BytesAre
    <3>2. IsTurn(t, SeekBytes(s), l - 1, 3)
      BY <2>1, <3>1, AttemptIs, Zenon
    <3> QED
      BY <3>2 DEF IsTurn
  <2>5. Tail(todo) = SubSeq(d, 12, 36)
    <3>1. 10 + 2 = 12
      OBVIOUS
    <3> QED
      BY <1>2, <3>1, Zenon
  <2> HIDE DEF c, d, t
  <2>6. \A k \in 12..36 : c[k] = d[k]
    <3> TAKE k \in 12..36
    <3>1. CASE k \in 14..22
      <4>1. k - 13 \in 1..9 /\ 13 + (k - 13) = k
        BY <3>1
      <4> QED
        BY <2>2, <2>3, <4>1, Zenon
    <3>2. CASE k \in 25..31
      <4>1. k - 24 \in 1..7 /\ 24 + (k - 24) = k
        BY <3>2
      <4> QED
        BY <2>2, <2>3, <4>1, Zenon
    <3>3. CASE k \in {12, 13, 23, 24, 32, 33, 34, 35, 36}
      BY <2>2, <2>3, <3>3, Zenon
    <3> QED
      BY <3>1, <3>2, <3>3
  <2>7. t \o SubSeq(d, 2 + Len(t) + 1, 36) = SubSeq(c, 2 + 1, 36)
    <3>1. /\ 2 + Len(t) <= 36 /\ 2 \in Nat /\ 36 \in Nat
          /\ 2 + Len(t) + 1 = 12
      BY <2>4
    <3>2. \A k \in (2 + Len(t) + 1)..36 : c[k] = d[k]
      BY <2>6, <3>1, Zenon
    <3>3. \A j \in 1..Len(t) : c[2 + j] = t[j]
      BY <2>2, <2>4, Zenon
    <3> QED
      BY <2>2, <2>3, <2>4, <3>1, <3>2, <3>3, TurnAgain, Zenon
  <2>8. t \o SubSeq(d, 12, 36) = SubSeq(c, 2 + 1, 36)
    <3>1. 2 + 9 + 1 = 12
      OBVIOUS
    <3> QED
      BY <2>4, <2>7, <3>1, Zenon
  <2>9. todo' = SubSeq(c, 2 + 1, 36)
    BY <1>8, <2>5, <2>8 DEF t
  <2>10. ReadDoing(s, 2, l - 1)'
    BY <1>4, <1>5, <1>6, <1>8 DEF ReadDoing, Failed, controller, dma
  <2>11. 2 \in 0..35
    OBVIOUS
  <2> QED
    BY <1>6, <1>8, <2>9, <2>10, <2>11, Zenon DEF ReadingSector, ReadAt, c
<1> QED
  BY <1>5, <1>7, <1>8

LEMMA ReadReturns ==
  ASSUME Values, Flags, NEW s \in Sectors, NEW l \in 0..(Tries - 1),
         ReadAt(s, 35, l), Driver
  PROVE  /\ Between' /\ Values'
         /\ want = s /\ got' = dmaBuffer /\ Delivered(s)
<1>1. todo = SubSeq(ReadCode(s, l), 35 + 1, 36) /\ ReadDoing(s, 35, l)
  BY DEF ReadAt
<1>2. /\ Tail(todo) = SubSeq(ReadCode(s, l), 35 + 2, 36)
      /\ Head(todo) = Just("copyOut")
  <2>1. 35 \in 0..35 /\ l \in Int /\ s \in Lbas
    BY DriverAssumption
  <2> QED
    BY <1>1, <2>1, ReadNext, Zenon DEF ReadHead
<1>3. CopyOut /\ todo' = Tail(todo)
  <2>1. Head(todo).op = "copyOut"
    BY <1>2, JustIs
  <2> QED
    BY <2>1, DriverActs
<1>4. todo' = <<>>
  BY <1>2, <1>3, SubSeqEmpty
<1>5. /\ Rest(0) /\ Delivered(s) /\ ~ nonDma /\ dmaAtBuffer /\ ~ motor
      /\ want = s
  BY <1>1 DEF ReadDoing
<1>6. /\ UNCHANGED <<cyl, isr6, irq, controller, motor, dma, short>>
      /\ got' = dmaBuffer /\ want' = None
  BY <1>3 DEF CopyOut
<1>7. Rest(0)' /\ Values' /\ ~ nonDma' /\ dmaAtBuffer' /\ ~ motor'
  BY <1>5, <1>6 DEF Rest, Idle, Quiet, Values, controller, dma
<1>8. Short < Tries => got' # None
  <2>1. s \in Lbas
    BY DriverAssumption
  <2>2. s # None
    BY <2>1 DEF Lbas, None
  <2> QED
    BY <1>5, <1>6, <2>2 DEF Delivered
<1> QED
  BY <1>4, <1>5, <1>6, <1>7, <1>8 DEF Between

LEMMA ReadWaits ==
  ASSUME Values, Flags, NEW s \in Sectors, NEW l \in 0..(Tries - 1),
         NEW k \in 0..35, ReadAt(s, k, l), Isr6 \/ Controller
  PROVE  ReadAt(s, k, l)' /\ Values'
<1>1. todo = SubSeq(ReadCode(s, l), k + 1, 36) /\ ReadDoing(s, k, l)
  BY DEF ReadAt
<1>2. UNCHANGED todo /\ ReadDoing(s, k, l)' /\ Values'
  <2> USE DEF Values, Failed, Arrived, Delivered, others, driver
  <2>1. CASE k = 5
    <3>1. Stepping(SeekBytes(s), CylOf(s), l) /\ l \in Int /\ s \in Lbas
      BY <1>1, <2>1, DriverAssumption DEF ReadDoing
    <3>2. Tries \in Nat /\ short \in Nat
      BY DriverAssumption DEF Flags
    <3>3. /\ Stepping(SeekBytes(s), CylOf(s), l)'
          /\ track' \in Tracks \cup {track}
          /\ UNCHANGED <<driver, nonDma, motor, dma>>
      BY <3>1, <3>2, CallBytes, TracksAre, SteppingKept, Zenon
    <3> QED
      BY <1>1, <2>1, <3>3 DEF ReadDoing, dma
  <2>2. CASE k = 8
    <3>1. Sensing(1) /\ 1 \in 0..4
      BY <1>1, <2>2 DEF ReadDoing
    <3>2. Sensing(1)' /\ UNCHANGED <<driver, others>>
      BY <3>1, SensingKept
    <3> QED
      BY <1>1, <2>2, <3>2 DEF ReadDoing
  <2>3. CASE k = 22
    <3>1. Reading(s) /\ ~ nonDma /\ motor /\ dmaAtBuffer /\ dmaAuto
      BY <1>1, <2>3 DEF ReadDoing
    <3>2. /\ Reading(s)' /\ dmaBuffer' \in Sectors \cup {None}
          /\ ~ nonDma' /\ motor' /\ dmaAtBuffer' /\ dmaAuto'
          /\ UNCHANGED <<driver, track, short>>
      BY <3>1, ReadingKept
    <3> QED
      BY <1>1, <2>3, <3>2 DEF ReadDoing
  <2>4. CASE k = 32
    <3>1. Sensing(0) /\ 0 \in 0..4
      BY <1>1, <2>4 DEF ReadDoing
    <3>2. Sensing(0)' /\ UNCHANGED <<driver, others>>
      BY <3>1, SensingKept
    <3> QED
      BY <1>1, <2>4, <3>2 DEF ReadDoing
  <2>5. CASE k \notin {5, 8, 22, 32}
    <3>1. /\ phase \notin {"resetting", "execute"} /\ seeking = None /\ ~ irq
      <4>1. \/ \E p \in Int : Rest(p) \/ Woken(p) \/ CylinderNext(p)
            \/ \E b, j : Taking(b, j)
            \/ \E m \in Int : Left(m) /\ (Quiet \/ Flagged)
        BY <1>1, <2>5 DEF ReadDoing
      <4> QED
        BY <4>1 DEF Rest, Woken, CylinderNext, Left, Taking, Idle, Said, Quiet,
                    Flagged
    <3> QED
      BY <3>1, Still
  <2> QED
    BY <2>1, <2>2, <2>3, <2>4, <2>5
<1> QED
  BY <1>1, <1>2, Zenon DEF ReadAt

-----------------------------------------------------------------------------
(***************************************************************************)
(* The beginning, and what comes between calls.                            *)
(***************************************************************************)
LEMMA Codes ==
  /\ FDCInitialize = InitCode(Tries - 1)
  /\ \A s : readSector_int(s) = ReadCode(s, Tries - 1)
<1>1. FDCInitialize = InitCode(Tries - 1)
  BY DEF FDCInitialize, FDCReset, FDCalibrate, InitCode
<1>2. ASSUME NEW s
      PROVE  readSector_int(s) = ReadCode(s, Tries - 1)
  <2>1. /\ convertToCHS(s).cyl = CylOf(s) /\ convertToCHS(s).head = HeadOf(s)
        /\ convertToCHS(s).sector = SectorOf(s)
    BY DEF convertToCHS
  <2> QED
    BY <2>1, Zenon DEF readSector_int, FDCReadSector_CHS, FDSeek, ReadCode,
                       SeekBytes, ReadBytes
<1> QED
  BY <1>1, <1>2

LEMMA Starts ==
  ASSUME Init
  PROVE  IInv
<1> DEFINE l == Tries - 1
<1>1. l \in 0..(Tries - 1) /\ l \in Int /\ Tries \in Nat /\ Short \in Nat
  BY DriverAssumption
<1>2. todo = SubSeq(InitCode(l), 0 + 1, 30)
  <2>1. InitCode(l) \in Seq(Instruction) /\ Len(InitCode(l)) = 30
    BY <1>1, InitIs, Zenon
  <2>2. todo = InitCode(l)
    BY Codes DEF Init
  <2> HIDE DEF l
  <2>3. SubSeq(InitCode(l), 1, 30) = InitCode(l)
    BY <2>1, SubSeqFull
  <2> QED
    BY <2>2, <2>3
<1>3. Values /\ Flags
  <2>1. Values
    BY DEF Init, Values
  <2>2. /\ isr6 \in BOOLEAN /\ irq \in BOOLEAN
        /\ nonDma \in BOOLEAN /\ motor \in BOOLEAN
        /\ dmaAuto \in BOOLEAN /\ dmaAtBuffer \in BOOLEAN
    BY Zenon DEF Init
  <2>3. /\ want \in Sectors \cup {None} /\ got \in Sectors \cup {None}
        /\ short \in 0..Short
    BY <1>1 DEF Init
  <2> QED
    BY <2>1, <2>2, <2>3, Zenon DEF Flags
<1>4. InitDoing(0, l)
  BY <1>1 DEF Init, InitDoing, Rest, Idle, Quiet, Failed
<1>5. 0 \in 0..29
  OBVIOUS
<1> QED
  BY <1>1, <1>2, <1>3, <1>4, <1>5, Zenon DEF IInv, Initializing, InitAt

LEMMA Calls ==
  ASSUME Values, Flags, Between, NEW s \in Sectors, Call(s)
  PROVE  ReadingSector' /\ Values' /\ want' = s /\ UNCHANGED got
<1> DEFINE l == Tries - 1
<1>1. /\ l \in 0..(Tries - 1) /\ l \in Int /\ s \in Lbas /\ short \in Nat
      /\ Tries \in Nat
  BY DriverAssumption DEF Flags
<1>2. todo' = SubSeq(ReadCode(s, l), 0 + 1, 36)
  <2>1. ReadCode(s, l) \in Seq(Instruction) /\ Len(ReadCode(s, l)) = 36
    BY <1>1, ReadIs, Zenon
  <2>2. todo' = ReadCode(s, l)
    BY Codes DEF Call
  <2> HIDE DEF l
  <2>3. SubSeq(ReadCode(s, l), 1, 36) = ReadCode(s, l)
    BY <2>1, SubSeqFull
  <2> QED
    BY <2>2, <2>3
<1>3. /\ want' = s
      /\ UNCHANGED <<cyl, got, isr6, irq, controller, motor, dma, short>>
  BY DEF Call
<1>4. Values'
  BY <1>3 DEF Values, controller, dma
<1>5. Rest(0)' /\ ~ nonDma' /\ dmaAtBuffer'
  BY <1>3 DEF Between, Rest, Idle, Quiet, controller, dma
<1>6. Failed(CylOf(s), l)'
  BY <1>1, <1>3 DEF Failed
<1>7. ReadDoing(s, 0, l)'
  BY <1>3, <1>5, <1>6 DEF ReadDoing
<1>8. 0 \in 0..35
  OBVIOUS
<1> QED
  BY <1>1, <1>2, <1>3, <1>4, <1>7, <1>8, Zenon DEF ReadingSector, ReadAt

\* Before the end of a code there is an instruction to carry out.
LEMMA Unfinished ==
  /\ \A l \in 0..(Tries - 1), k \in 0..29 :
       SubSeq(InitCode(l), k + 1, 30) # <<>>
  /\ \A s \in Sectors, l \in 0..(Tries - 1), k \in 0..35 :
       SubSeq(ReadCode(s, l), k + 1, 36) # <<>>
<1>1. ASSUME NEW c \in Seq(Instruction), NEW n \in Nat, Len(c) = n,
             NEW k \in 0..(n - 1)
      PROVE  SubSeq(c, k + 1, n) # <<>>
  <2> DEFINE d == SubSeq(c, k + 1, n)
  <2>1. \A i \in (k + 1)..n : c[i] \in Instruction
    BY <1>1
  <2>2. Len(d) = IF k + 1 <= n THEN n - (k + 1) + 1 ELSE 0
    BY <2>1, SubSeqProperties
  <2> HIDE DEF d
  <2>3. Len(d) # 0
    BY <2>2
  <2>4. d # <<>>
    BY <2>3
  <2> QED
    BY <2>4 DEF d
<1>2. ASSUME NEW l \in 0..(Tries - 1), NEW k \in 0..29
      PROVE  SubSeq(InitCode(l), k + 1, 30) # <<>>
  <2>1. l \in Int
    BY DriverAssumption
  <2>2. InitCode(l) \in Seq(Instruction) /\ Len(InitCode(l)) = 30
    BY <2>1, InitIs, Zenon
  <2>3. 30 \in Nat /\ 0..29 = 0..(30 - 1)
    OBVIOUS
  <2> QED
    BY <1>1, <2>2, <2>3, Zenon
<1>3. ASSUME NEW s \in Sectors, NEW l \in 0..(Tries - 1), NEW k \in 0..35
      PROVE  SubSeq(ReadCode(s, l), k + 1, 36) # <<>>
  <2>1. l \in Int /\ s \in Lbas
    BY DriverAssumption
  <2>2. ReadCode(s, l) \in Seq(Instruction) /\ Len(ReadCode(s, l)) = 36
    BY <2>1, ReadIs, Zenon
  <2>3. 36 \in Nat /\ 0..35 = 0..(36 - 1)
    OBVIOUS
  <2> QED
    BY <1>1, <2>2, <2>3, Zenon
<1> QED
  BY <1>2, <1>3, Zenon

LEMMA Busy ==
  ASSUME Initializing \/ ReadingSector
  PROVE  todo # <<>>
  BY Unfinished, Zenon DEF Initializing, InitAt, ReadingSector, ReadAt

LEMMA Stays ==
  ASSUME IInv, [Next]_vars
  PROVE  IInv'
<1>1. Values /\ Flags /\ (Initializing \/ ReadingSector \/ Between)
  BY Zenon DEF IInv
<1>2. CASE UNCHANGED vars
  <2>1. UNCHANGED <<todo, cyl, want, got, isr6, irq, phase, command, result,
                    seeking, pending, track, nonDma, motor, dmaAuto,
                    dmaAtBuffer, dmaBuffer, short>>
    BY <1>2 DEF vars, driver, controller, dma
  <2>2. Values' /\ Flags'
    BY <1>1, <2>1 DEF Values, Flags
  <2>3. /\ \A p : (Rest(p) => Rest(p)') /\ (Woken(p) => Woken(p)')
        /\ Held => Held'
        /\ Starting => Starting'
        /\ \A b, j : Taking(b, j) => Taking(b, j)'
        /\ \A p : Sensing(p) => Sensing(p)'
        /\ \A p : CylinderNext(p) => CylinderNext(p)'
        /\ Specifying => Specifying'
    BY <2>1 DEF Rest, Woken, Held, Starting, Idle, Quiet, Flagged, Raised,
                Taking, Doing, Said, Sensing, CylinderNext, Specifying
  <2>4. /\ \A c, l : Failed(c, l) => Failed(c, l)'
        /\ \A c, l : Arrived(c, l) => Arrived(c, l)'
        /\ \A s : Delivered(s) => Delivered(s)'
        /\ \A b, c, l : Stepping(b, c, l) => Stepping(b, c, l)'
        /\ \A m : Left(m) => Left(m)'
        /\ \A s : Reading(s) => Reading(s)'
        /\ Quiet => Quiet'
        /\ Flagged => Flagged'
    BY <2>1 DEF Failed, Arrived, Delivered, Stepping, Left, Reading, Quiet,
                Flagged, Raised, Doing, Said, Idle
  <2>5. ASSUME NEW l \in 0..(Tries - 1), NEW k \in 0..29, InitAt(k, l)
        PROVE  InitAt(k, l)'
    <3> DEFINE p == (17 - k) \div 3
               q == (18 - k) \div 3
               r == (16 - k) \div 3
               j == k - 17
    <3>1. InitDoing(k, l) /\ UNCHANGED todo
      BY <2>1, <2>5, Zenon DEF InitAt
    <3>2. /\ k \in {5, 8, 11, 14, 17} => Rest(p) /\ Rest(p)'
          /\ k \in {6, 9, 12, 15} => Sensing(q) /\ Sensing(q)'
          /\ k \in {7, 10, 13, 16} => CylinderNext(r) /\ CylinderNext(r)'
          /\ k \in {18, 19} => Taking(SpecifyBytes, j) /\ Taking(SpecifyBytes, j)'
      BY <2>3, <3>1, Zenon DEF InitDoing
    <3> HIDE DEF p, q, r, j
    <3>3. InitDoing(k, l)'
      BY <2>1, <2>3, <2>4, <3>1, <3>2 DEF InitDoing, p, q, r, j
    <3> QED
      BY <2>5, <3>1, <3>3, Zenon DEF InitAt
  <2>6. ASSUME NEW s, NEW l, NEW k, ReadAt(s, k, l)
        PROVE  ReadAt(s, k, l)'
    <3>1. ReadDoing(s, k, l)
      BY <2>6, Zenon DEF ReadAt
    <3>2. ReadDoing(s, k, l)'
      BY <2>1, <2>3, <2>4, <3>1 DEF ReadDoing
    <3> QED
      BY <2>1, <2>6, <3>2, Zenon DEF ReadAt
  <2>7. Between => Between'
    BY <2>1, <2>3 DEF Between
  <2>8. /\ Initializing => Initializing'
        /\ ReadingSector => ReadingSector'
    BY <2>5, <2>6, Zenon DEF Initializing, ReadingSector
  <2> QED
    BY <1>1, <2>2, <2>7, <2>8, Zenon DEF IInv
<1>3. CASE Next
  <2>1. Flags'
    BY <1>1, <1>3, FlagsKept, Zenon
  <2>2. Values' /\ (Initializing \/ ReadingSector \/ Between)'
    <3>1. ASSUME NEW l \in 0..(Tries - 1), NEW k \in 0..29, InitAt(k, l), Driver
          PROVE  Values' /\ (Initializing' \/ Between')
      <4>1. CASE k \in 0..27
        <5>1. InitAt(k + 1, l)' /\ Values'
          BY <1>1, <3>1, <4>1, InitMoves, Zenon
        <5>2. k + 1 \in 0..29
          BY <4>1
        <5> QED
          BY <5>1, <5>2, Zenon DEF Initializing
      <4>2. CASE k = 28
        BY <1>1, <3>1, <4>2, InitRetries, Zenon
      <4>3. CASE k = 29
        BY <1>1, <3>1, <4>3, InitReturns, Zenon
      <4>4. k \in 0..27 \/ k = 28 \/ k = 29
        OBVIOUS
      <4> QED
        BY <4>1, <4>2, <4>3, <4>4, Zenon
    <3>2. ASSUME NEW l \in 0..(Tries - 1), NEW k \in 0..29, InitAt(k, l),
                 Isr6 \/ Controller
          PROVE  Values' /\ Initializing'
      BY <1>1, <3>2, InitWaits, Zenon DEF Initializing
    <3>3. ASSUME NEW s \in Sectors, NEW l \in 0..(Tries - 1), NEW k \in 0..35,
                 ReadAt(s, k, l), Driver
          PROVE  Values' /\ (ReadingSector' \/ Between')
      <4>1. CASE k \in 0..34 /\ k # 10
        <5>1. ReadAt(s, k + 1, l)' /\ Values'
          BY <1>1, <3>3, <4>1, ReadMoves, Zenon
        <5>2. k + 1 \in 0..35
          BY <4>1
        <5> QED
          BY <5>1, <5>2, Zenon DEF ReadingSector
      <4>2. CASE k = 10
        BY <1>1, <3>3, <4>2, ReadRetries, Zenon
      <4>3. CASE k = 35
        BY <1>1, <3>3, <4>3, ReadReturns, Zenon
      <4>4. k \in 0..34 \/ k = 35
        OBVIOUS
      <4> QED
        BY <4>1, <4>2, <4>3, <4>4, Zenon
    <3>4. ASSUME NEW s \in Sectors, NEW l \in 0..(Tries - 1), NEW k \in 0..35,
                 ReadAt(s, k, l), Isr6 \/ Controller
          PROVE  Values' /\ ReadingSector'
      BY <1>1, <3>4, ReadWaits, Zenon DEF ReadingSector
    <3>5. CASE Between
      <4>1. ~ Driver
        <5>1. todo = <<>>
          BY <3>5 DEF Between
        <5> QED
          BY <5>1, Zenon DEF Driver, SendData, FetchByte, FetchCyl, AwaitFlag,
             ClearFlag, Retry, DorZero, DorRun, Motor, DMAInitialize,
             SetReadDMA, CopyOut, Next1
      <4>2. ~ (Isr6 \/ Controller)
        <5>1. phase \notin {"resetting", "execute"} /\ seeking = None /\ ~ irq
          BY <3>5 DEF Between, Rest, Idle, Quiet
        <5> QED
          BY <5>1, Still, Zenon
      <4>3. PICK s \in Sectors : Call(s)
        BY <1>3, <4>1, <4>2, Zenon DEF Next
      <4> QED
        BY <1>1, <3>5, <4>3, Calls, Zenon
    <3>6. ASSUME Initializing \/ ReadingSector, NEW s \in Sectors, Call(s)
          PROVE  FALSE
      <4>1. todo = <<>>
        BY <3>6 DEF Call
      <4>2. todo # <<>>
        BY <3>6, Busy, Zenon
      <4> QED
        BY <4>1, <4>2
    <3> QED
      BY <1>1, <1>3, <3>1, <3>2, <3>3, <3>4, <3>5, <3>6, Zenon
         DEF Next, Initializing, ReadingSector
  <2> QED
    BY <2>1, <2>2, Zenon DEF IInv
<1> QED
  BY <1>2, <1>3

\* The invariant holds always.
THEOREM IInvariant == Spec => []IInv
<1>1. Init => IInv
  BY Starts
<1>2. IInv /\ [Next]_vars => IInv'
  BY Stays
<1> QED
  BY <1>1, <1>2, PTL DEF Spec

-----------------------------------------------------------------------------
(***************************************************************************)
(* What the invariant says.                                                *)
(***************************************************************************)
\* The controller is of its type, and no interrupt overtakes the last one.
Sound ==
    /\ phase \in {"reset", "resetting", "idle", "command", "execute", "result"}
    /\ Len(command) <= 9 /\ Len(result) <= 7
    /\ seeking \in Tracks \cup {None}
    /\ pending \in 0..4
    /\ NoOverrun

\* In every situation it is.
LEMMA Executing ==
  ASSUME NEW b, NEW p \in 0..4, Doing(b, p), Len(b) <= 9
  PROVE  Sound
<1>1. Len(command) <= 9
  BY DEF Doing
<1>2. Len(result) <= 7
  BY DEF Doing
<1> QED
  BY <1>1, <1>2 DEF Doing, Quiet, NoOverrun, Sound

LEMMA Situations ==
  /\ \A p \in 0..4 : Rest(p) \/ Woken(p) \/ Sensing(p) => Sound
  /\ \A p \in 0..3 : CylinderNext(p) => Sound
  /\ Held \/ Starting \/ Specifying => Sound
  /\ \A b \in Seq(Int) : \A j \in 0..Len(b) :
       Len(b) <= 9 /\ Taking(b, j) => Sound
  /\ \A b \in Seq(Int) : \A c \in Tracks : \A l :
       Len(b) <= 9 /\ Stepping(b, c, l) => Sound
  /\ \A m \in 1..7 : Left(m) /\ (Quiet \/ Raised) => Sound
<1> USE DEF NoOverrun, Quiet, Flagged, Raised
<1>1. ASSUME NEW p \in 0..4, Rest(p) \/ Woken(p) \/ Sensing(p)
      PROVE  Sound
  <2>1. CASE Rest(p) \/ Woken(p)
    BY <2>1 DEF Rest, Woken, Idle, Sound
  <2>2. CASE Sensing(p)
    <3>1. CASE Doing(SenseBytes, p)
      <4>1. Len(SenseBytes) <= 9
        BY DEF SenseBytes
      <4> QED
        BY <3>1, <4>1, Executing, Zenon
    <3>2. CASE p > 0 /\ Said(p - 1) /\ Quiet /\ result = <<0, track>>
      BY <3>2 DEF Said, Sound
    <3>3. CASE Said(0) /\ Quiet /\ result = <<128>>
      BY <3>3 DEF Said, Sound
    <3>4. CASE Said(0) /\ Quiet /\ result = <<128, track>>
      BY <3>4 DEF Said, Sound
    <3> QED
      BY <2>2, <3>1, <3>2, <3>3, <3>4 DEF Sensing
  <2> QED
    BY <1>1, <2>1, <2>2
<1>2. ASSUME NEW p \in 0..3, CylinderNext(p)
      PROVE  Sound
  BY <1>2 DEF CylinderNext, Said, Sound
<1>3. ASSUME Held \/ Starting \/ Specifying
      PROVE  Sound
  <2>1. CASE Held
    BY <2>1 DEF Held, Sound
  <2>2. CASE Starting
    BY <2>2 DEF Starting, Idle, Sound
  <2>3. CASE Rest(0)
    BY <2>3 DEF Rest, Idle, Sound
  <2>4. CASE Doing(SpecifyBytes, 0)
    <3>1. Len(SpecifyBytes) <= 9 /\ 0 \in 0..4
      BY DEF SpecifyBytes
    <3> QED
      BY <2>4, <3>1, Executing, Zenon
  <2> QED
    BY <1>3, <2>1, <2>2, <2>3, <2>4 DEF Specifying
<1>4. ASSUME NEW b \in Seq(Int), NEW j \in 0..Len(b), Len(b) <= 9, Taking(b, j)
      PROVE  Sound
  <2>1. Len(SubSeq(b, 1, j)) <= 9
    BY <1>4
  <2> QED
    BY <1>4, <2>1 DEF Taking, Sound
<1>5. ASSUME NEW b \in Seq(Int), NEW c \in Tracks, NEW l, Len(b) <= 9,
             Stepping(b, c, l)
      PROVE  Sound
  BY <1>5 DEF Stepping, Doing, Idle, Sound
<1>6. ASSUME NEW m \in 1..7, Left(m), Quiet \/ Raised
      PROVE  Sound
  BY <1>6 DEF Left, Said, Sound
<1> QED
  BY <1>1, <1>2, <1>3, <1>4, <1>5, <1>6, Zenon

LEMMA InvariantSound ==
  ASSUME IInv
  PROVE  Sound
<1>1. CASE Initializing
  <2>1. PICK l \in 0..(Tries - 1), k \in 0..29 : InitAt(k, l)
    BY <1>1, Zenon DEF Initializing
  <2>2. InitDoing(k, l)
    BY <2>1, Zenon DEF InitAt
  <2>3. CASE k \in {5, 8, 11, 14, 17}
    <3>1. Rest((17 - k) \div 3) /\ (17 - k) \div 3 \in 0..4
      BY <2>2, <2>3 DEF InitDoing
    <3> QED
      BY <3>1, Situations, Zenon
  <2>4. CASE k \in {6, 9, 12, 15}
    <3>1. Sensing((18 - k) \div 3) /\ (18 - k) \div 3 \in 0..4
      BY <2>2, <2>4 DEF InitDoing
    <3> QED
      BY <3>1, Situations, Zenon
  <2>5. CASE k \in {7, 10, 13, 16}
    <3>1. CylinderNext((16 - k) \div 3) /\ (16 - k) \div 3 \in 0..3
      BY <2>2, <2>5 DEF InitDoing
    <3> QED
      BY <3>1, Situations, Zenon
  <2>6. CASE k \in {18, 19}
    <3>1. Taking(SpecifyBytes, k - 17) /\ k - 17 \in {1, 2}
      BY <2>2, <2>6 DEF InitDoing
    <3>2. SpecifyBytes \in Seq(Int) /\ Len(SpecifyBytes) = 3
      BY DEF SpecifyBytes, SPECIFY
    <3>3. k - 17 \in 0..Len(SpecifyBytes) /\ Len(SpecifyBytes) <= 9
      BY <3>1, <3>2
    <3> QED
      BY <3>1, <3>2, <3>3, Situations, Zenon
  <2>7. CASE k \in {22, 23}
    <3>1. /\ Taking(RecalibrateBytes, 1) \/ Stepping(RecalibrateBytes, 0, l)
      BY <2>2, <2>7 DEF InitDoing
    <3>2. RecalibrateBytes \in Seq(Int) /\ Len(RecalibrateBytes) = 2
      BY DEF RecalibrateBytes, RECALIBRATE
    <3>3. 1 \in 0..Len(RecalibrateBytes) /\ Len(RecalibrateBytes) <= 9
      BY <3>2
    <3> QED
      BY <3>1, <3>2, <3>3, Situations, TracksAre, Zenon
  <2>8. CASE k \in {0, 1, 2, 3, 4, 20, 21, 24, 25, 26, 27, 28, 29}
    <3>1. \/ Rest(0) \/ Rest(1) \/ Woken(4) \/ Woken(1) \/ Sensing(1)
          \/ CylinderNext(0) \/ Held \/ Starting \/ Specifying
      BY <2>2, <2>8 DEF InitDoing
    <3>2. 0 \in 0..4 /\ 1 \in 0..4 /\ 4 \in 0..4 /\ 0 \in 0..3
      OBVIOUS
    <3> QED
      BY <3>1, <3>2, Situations, Zenon
  <2> QED
    BY <2>3, <2>4, <2>5, <2>6, <2>7, <2>8
<1>2. CASE ReadingSector
  <2>1. PICK s \in Sectors, l \in 0..(Tries - 1), k \in 0..35 : ReadAt(s, k, l)
    BY <1>2, Zenon DEF ReadingSector
  <2>2. ReadDoing(s, k, l)
    BY <2>1, Zenon DEF ReadAt
  <2>3. /\ SeekBytes(s) \in Seq(Int) /\ Len(SeekBytes(s)) = 3
        /\ ReadBytes(s) \in Seq(Int) /\ Len(ReadBytes(s)) = 9
    BY BytesAre, DriverAssumption
  <2>4. CASE k \in {3, 4, 5}
    <3>1. \/ Taking(SeekBytes(s), k - 2) \/ Stepping(SeekBytes(s), CylOf(s), l)
      BY <2>2, <2>4 DEF ReadDoing
    <3>2. k - 2 \in 0..Len(SeekBytes(s)) /\ Len(SeekBytes(s)) <= 9
      BY <2>3, <2>4
    <3> QED
      BY <2>3, <3>1, <3>2, Situations, TracksAre, Zenon
  <2>5. CASE k \in 14..21
    <3>1. Taking(ReadBytes(s), k - 13)
      BY <2>2, <2>5 DEF ReadDoing
    <3>2. k - 13 \in 0..Len(ReadBytes(s)) /\ Len(ReadBytes(s)) <= 9
      BY <2>3, <2>5
    <3> QED
      BY <2>3, <3>1, <3>2, Situations, Zenon
  <2>6. CASE k \in 23..30
    <3> DEFINE m == IF k = 23 THEN 7 ELSE 31 - k
    <3>1. m \in 1..7 /\ Left(m) /\ (Quiet \/ Flagged)
      BY <2>2, <2>6 DEF ReadDoing
    <3> HIDE DEF m
    <3> QED
      BY <3>1, Situations, Zenon DEF Raised
  <2>7. CASE k = 22
    <3>1. Reading(s)
      BY <2>2, <2>7 DEF ReadDoing
    <3>2. CASE Doing(ReadBytes(s), 0)
      <4>1. Len(ReadBytes(s)) <= 9 /\ 0 \in 0..4
        BY <2>3
      <4> QED
        BY <3>2, <4>1, Executing, Zenon
    <3>3. CASE Left(7) /\ Raised
      <4>1. 7 \in 1..7
        OBVIOUS
      <4> QED
        BY <3>3, <4>1, Situations, Zenon
    <3> QED
      BY <3>1, <3>2, <3>3 DEF Reading
  <2>8. CASE k \in {0, 1, 2, 6, 7, 8, 9, 10, 11, 12, 13, 31, 32, 33, 34, 35}
    <3>1. \/ Rest(0) \/ Rest(1) \/ Woken(1) \/ Sensing(1) \/ Sensing(0)
          \/ CylinderNext(0)
      BY <2>2, <2>8 DEF ReadDoing
    <3>2. 0 \in 0..4 /\ 1 \in 0..4 /\ 0 \in 0..3
      OBVIOUS
    <3> QED
      BY <3>1, <3>2, Situations, Zenon
  <2> QED
    BY <2>4, <2>5, <2>6, <2>7, <2>8
<1>3. CASE Between
  <2>1. Rest(0) /\ 0 \in 0..4
    BY <1>3 DEF Between
  <2> QED
    BY <2>1, Situations, Zenon
<1> QED
  BY <1>1, <1>2, <1>3, Zenon DEF IInv

\* Every variable has its type: no more bytes than a command or an answer has
\* are in the controller, and no more interrupts pend than a reset leaves.
THEOREM TypeCorrect == Spec => []TypeOK
<1>1. IInv => TypeOK
  <2>1. Sectors \subseteq Lbas
    BY DriverAssumption
  <2> SUFFICES ASSUME IInv PROVE TypeOK
    OBVIOUS
  <2>2. Values /\ Flags /\ Sound
    BY InvariantSound, Zenon DEF IInv
  <2>3. dmaBuffer \in Lbas \cup {None}
    BY <2>1, <2>2 DEF Values
  <2> QED
    BY <2>2, <2>3, Zenon DEF TypeOK, Values, Flags, Sound
<1> QED
  BY <1>1, IInvariant, PTL

\* The handler never finds the flag of the last interrupt still set: the boot
\* loader's floppyHandler does not break into the debugger.
THEOREM NeverOverrun == Spec => []NoOverrun
<1>1. IInv => NoOverrun
  BY InvariantSound, Zenon DEF Sound
<1> QED
  BY <1>1, IInvariant, PTL

\* When waitForIRQ returns, what it waited for is over.
THEOREM NeverStale == Spec => []NoStaleWakeup
<1>1. ASSUME IInv, todo # <<>>, Head(todo).op = "clear"
      PROVE  seeking = None /\ (phase = "result" \/ pending > 0)
  <2>1. CASE Initializing
    <3>1. PICK l \in 0..(Tries - 1), k \in 0..29 : InitAt(k, l)
      BY <2>1, Zenon DEF Initializing
    <3>2. InitDoing(k, l) /\ todo = SubSeq(InitCode(l), k + 1, 30) /\ l \in Int
      BY <3>1, DriverAssumption DEF InitAt
    <3>3. k \in {4, 24}
      <4>1. InitHead(k, l)
        BY <3>2, InitNext, Zenon
      <4> QED
        BY <1>1, <4>1, JustIs, SentIs DEF InitHead
    <3>4. Woken(4) \/ Woken(1)
      BY <3>2, <3>3 DEF InitDoing
    <3> QED
      BY <3>4 DEF Woken, Idle
  <2>2. CASE ReadingSector
    <3>1. PICK s \in Sectors, l \in 0..(Tries - 1), k \in 0..35 :
            ReadAt(s, k, l)
      BY <2>2, Zenon DEF ReadingSector
    <3>2. /\ ReadDoing(s, k, l) /\ todo = SubSeq(ReadCode(s, l), k + 1, 36)
          /\ l \in Int /\ s \in Lbas
      BY <3>1, DriverAssumption DEF ReadAt
    <3>3. k \in {6, 23}
      <4>1. ReadHead(s, k, l)
        BY <3>2, ReadNext, Zenon
      <4> QED
        BY <1>1, <4>1, JustIs, SentIs DEF ReadHead
    <3>4. Woken(1) \/ (Left(7) /\ Flagged)
      BY <3>2, <3>3 DEF ReadDoing
    <3> QED
      BY <3>4 DEF Woken, Idle, Left, Said
  <2>3. CASE Between
    BY <1>1, <2>3 DEF Between
  <2> QED
    BY <1>1, <2>1, <2>2, <2>3, Zenon DEF IInv
<1>2. IInv => NoStaleWakeup
  BY <1>1 DEF NoStaleWakeup
<1> QED
  BY <1>2, IInvariant, PTL

\* Between calls nothing is left over from the last one, and FDCInitialize
\* leaves the head over cylinder 0 if fewer recalibrations than the attempts
\* it makes stop short.
THEOREM QuietThen == Spec => []QuietBetweenCalls
<1>1. ASSUME IInv, todo = <<>>
      PROVE  Between
  BY <1>1, Busy, Zenon DEF IInv
<1>2. IInv => QuietBetweenCalls
  BY <1>1 DEF QuietBetweenCalls, Between, Rest, Idle, Quiet
<1> QED
  BY <1>2, IInvariant, PTL

LEMMA OpcodeIs ==
  ASSUME NEW b, NEW j
  PROVE  /\ j = 1 => Sent(b, j).opcode = TRUE
         /\ j # 1 => Sent(b, j).opcode = FALSE
<1>1. Sent(b, j).opcode = (j = 1)
  BY DEF Sent
<1> QED
  BY <1>1, Zenon

\* The byte the driver sends is the one the controller takes it for.
LEMMA Agrees ==
  ASSUME IInv, SendData
  PROVE  phase = IF Head(todo).opcode THEN "idle" ELSE "command"
<1> DEFINE op == Head(todo).op
<1>1. op = "send" /\ todo # <<>> /\ phase # "execute"
  BY DEF SendData, Next1, isFIFOAvalible, RequestForMaster
<1>2. ASSUME NEW b, Head(todo) = Sent(b, 1), phase = "idle"
      PROVE  phase = IF Head(todo).opcode THEN "idle" ELSE "command"
  BY <1>2, OpcodeIs
<1>3. ASSUME NEW b, NEW j, j # 1, Head(todo) = Sent(b, j), phase = "command"
      PROVE  phase = IF Head(todo).opcode THEN "idle" ELSE "command"
  BY <1>3, OpcodeIs
<1>4. CASE Initializing
  <2>1. PICK l \in 0..(Tries - 1), k \in 0..29 : InitAt(k, l)
    BY <1>4, Zenon DEF Initializing
  <2>2. InitDoing(k, l) /\ todo = SubSeq(InitCode(l), k + 1, 30) /\ l \in Int
    BY <2>1, DriverAssumption DEF InitAt
  <2>3. InitHead(k, l)
    BY <2>2, InitNext, Zenon
  <2> USE DEF InitHead
  <2>4. k \in {5, 8, 11, 14, 25, 17, 18, 19, 21, 22}
    BY <1>1, <2>3, JustIs
  <2>5. CASE k \in {5, 8, 11, 14, 25}
    <3>1. phase = "idle"
      BY <2>2, <2>5 DEF InitDoing, Rest, Idle
    <3> QED
      BY <1>2, <2>3, <2>5, <3>1, Zenon
  <2>6. CASE k = 17
    <3>1. phase = "idle"
      BY <2>2, <2>6 DEF InitDoing, Rest, Idle
    <3> QED
      BY <1>2, <2>3, <2>6, <3>1, Zenon
  <2>7. CASE k = 21
    <3>1. phase = "idle"
      BY <1>1, <2>2, <2>7 DEF InitDoing, Specifying, Doing, Rest, Idle
    <3> QED
      BY <1>2, <2>3, <2>7, <3>1, Zenon
  <2>8. CASE k \in {18, 19, 22}
    <3>1. phase = "command"
      BY <2>2, <2>8 DEF InitDoing, Taking
    <3>2. /\ 1 + 1 # 1 /\ 2 + 1 # 1 /\ (k = 18 \/ k = 19 \/ k = 22)
      BY <2>8
    <3> QED
      BY <1>3, <2>3, <3>1, <3>2, Zenon
  <2> QED
    BY <2>4, <2>5, <2>6, <2>7, <2>8, Zenon
<1>5. CASE ReadingSector
  <2>1. PICK s \in Sectors, l \in 0..(Tries - 1), k \in 0..35 :
          ReadAt(s, k, l)
    BY <1>5, Zenon DEF ReadingSector
  <2>2. /\ ReadDoing(s, k, l) /\ todo = SubSeq(ReadCode(s, l), k + 1, 36)
        /\ l \in Int /\ s \in Lbas
    BY <2>1, DriverAssumption DEF ReadAt
  <2>3. ReadHead(s, k, l)
    BY <2>2, ReadNext, Zenon
  <2> USE DEF ReadHead
  <2>4. k \in {2, 3, 4, 7, 31} \cup 13..21
    BY <1>1, <2>3, JustIs
  <2>5. CASE k \in {7, 31}
    <3>1. phase = "idle"
      BY <2>2, <2>5 DEF ReadDoing, Rest, Idle
    <3> QED
      BY <1>2, <2>3, <2>5, <3>1, Zenon
  <2>6. CASE k = 2
    <3>1. phase = "idle"
      BY <2>2, <2>6 DEF ReadDoing, Rest, Idle
    <3> QED
      BY <1>2, <2>3, <2>6, <3>1, Zenon
  <2>7. CASE k \in {3, 4}
    <3>1. phase = "command"
      BY <2>2, <2>7 DEF ReadDoing, Taking
    <3>2. /\ 1 + 1 # 1 /\ 2 + 1 # 1 /\ (k = 3 \/ k = 4)
      BY <2>7
    <3> QED
      BY <1>3, <2>3, <3>1, <3>2, Zenon
  <2>8. CASE k = 13
    <3>1. phase = "idle"
      BY <2>2, <2>8 DEF ReadDoing, Rest, Idle
    <3>2. Head(todo) = Sent(ReadBytes(s), 1)
      <4>1. k - 12 = 1 /\ k \in 13..21
        BY <2>8
      <4> QED
        BY <2>3, <4>1, Zenon
    <3> QED
      BY <1>2, <3>1, <3>2, Zenon
  <2>9. CASE k \in 14..21
    <3>1. phase = "command"
      BY <2>2, <2>9 DEF ReadDoing, Taking
    <3>2. k - 12 # 1 /\ k \in 13..21
      BY <2>9
    <3> QED
      BY <1>3, <2>3, <3>1, <3>2, Zenon
  <2> QED
    BY <2>4, <2>5, <2>6, <2>7, <2>8, <2>9
<1>6. CASE Between
  BY <1>1, <1>6 DEF Between
<1> QED
  BY <1>4, <1>5, <1>6, Zenon DEF IInv

\* The driver and the controller agree where each command starts.
THEOREM AlwaysInStep == Spec => InStep
<1>1. IInv /\ [Next]_vars =>
        [SendData =>
           phase = IF Head(todo).opcode THEN "idle" ELSE "command"]_vars
  BY Agrees, Zenon
<1> QED
  BY <1>1, IInvariant, PTL DEF Spec, InStep

-----------------------------------------------------------------------------
(***************************************************************************)
(* What the driver promises its callers.                                   *)
(***************************************************************************)
\* Only the return of readSector_int touches what the callers see.
LEMMA DriverKeeps ==
  ASSUME Driver, Head(todo).op # "copyOut"
  PROVE  UNCHANGED <<want, got>>
<1>1. ~ CopyOut
  BY DEF CopyOut, Next1
<1> QED
  BY <1>1, Zenon DEF Driver, SendData, FetchByte, FetchCyl, GetData, AwaitFlag,
     ClearFlag, Retry, DorZero, DorRun, Motor, DMAInitialize, SetReadDMA

\* Each step is one of the abstract device or none of its business, as long
\* as fewer recalibrations stop short than the attempts the driver makes.
LEMMA DeviceSteps ==
  ASSUME IInv, IInv', [Next]_vars, Short < Tries
  PROVE  [Device!Next]_(Device!vars)
<1> DEFINE up == todo = <<>> \/ want # None
<1>1. Values /\ Flags /\ (Initializing \/ ReadingSector \/ Between)
  BY Zenon DEF IInv
<1>2. Initializing => ~ up
  <2>1. Initializing => want = None
    BY Zenon DEF Initializing, InitAt, InitDoing
  <2> QED
    BY <2>1, Busy, Zenon
<1>3. ReadingSector => up /\ want # None
  <2>1. ASSUME NEW s \in Sectors, NEW l, NEW k, ReadAt(s, k, l)
        PROVE  want # None
    <3>1. s \in Lbas /\ want = s
      BY <2>1, DriverAssumption DEF ReadAt, ReadDoing
    <3> QED
      BY <3>1 DEF Lbas, None
  <2> QED
    BY <2>1, Zenon DEF ReadingSector
<1>4. Between => up /\ want = None
  BY Zenon DEF Between
<1>5. ASSUME UNCHANGED <<want, got>>, up' <=> up
      PROVE  UNCHANGED (Device!vars)
  <2>1. up' = up
    BY <1>5, Zenon
  <2> QED
    BY <1>5, <2>1, Zenon DEF Device!vars
<1>6. CASE UNCHANGED vars
  BY <1>5, <1>6, Zenon DEF vars, driver
<1>7. CASE Isr6 \/ Controller
  <2>1. UNCHANGED driver
    BY <1>7, Zenon DEF Isr6, Controller, ResetDone, Specify, SenseInterrupt,
       StartSeek, SeekDone, Transfer
  <2> QED
    BY <1>5, <2>1, Zenon DEF driver
<1>8. CASE Driver /\ Initializing
  <2>1. PICK l \in 0..(Tries - 1), k \in 0..29 : InitAt(k, l)
    BY <1>8, Zenon DEF Initializing
  <2>2. CASE k # 29
    <3>1. Initializing'
      <4>1. k \in 0..27 \/ k = 28
        BY <2>2
      <4>2. CASE k \in 0..27
        <5>1. k + 1 \in 0..29
          BY <4>2
        <5> QED
          BY <1>1, <1>8, <2>1, <4>2, <5>1, InitMoves, Zenon DEF Initializing
      <4> QED
        BY <1>1, <1>8, <2>1, <4>1, <4>2, InitRetries, Zenon
    <3>2. UNCHANGED <<want, got>>
      BY <2>1, <3>1, Zenon DEF Initializing, InitAt, InitDoing
    <3>3. ~ up'
      <4>1. todo' # <<>> /\ want' = None
        BY <3>1, Unfinished, Zenon DEF Initializing, InitAt, InitDoing
      <4> QED
        BY <4>1, Zenon
    <3> QED
      BY <1>2, <1>5, <1>8, <3>2, <3>3, Zenon
  <2>3. CASE k = 29
    <3>1. Between' /\ InitAt(29, l)
      BY <1>1, <1>8, <2>1, <2>3, InitReturns, Zenon
    <3>2. Motor(FALSE)
      <4>1. Head(todo) = Just("motorOff")
        <5>1. 29 \in 0..29 /\ l \in Int
          BY DriverAssumption
        <5> QED
          BY <3>1, <5>1, InitNext, Zenon DEF InitAt, InitHead
      <4>2. Head(todo).op = "motorOff"
        BY <4>1, JustIs
      <4> QED
        BY <1>8, <4>2, DriverActs, Zenon
    <3>3. UNCHANGED <<want, got>>
      BY <3>2, Zenon DEF Motor
    <3>4. ~ up /\ up'
      BY <1>2, <1>8, <3>1, Zenon DEF Between
    <3>5. (~ up) = TRUE /\ up' = TRUE
      BY <3>4, Zenon
    <3> QED
      BY <3>3, <3>5, Zenon DEF Device!Next, Device!ComeUp
  <2> QED
    BY <2>2, <2>3
<1>9. CASE Driver /\ ReadingSector
  <2>1. PICK s \in Sectors, l \in 0..(Tries - 1), k \in 0..35 : ReadAt(s, k, l)
    BY <1>9, Zenon DEF ReadingSector
  <2>2. CASE k # 35
    <3>1. Head(todo).op # "copyOut"
      <4>1. l \in Int /\ s \in Lbas
        BY DriverAssumption
      <4>2. ReadHead(s, k, l)
        BY <2>1, <4>1, ReadNext, Zenon DEF ReadAt
      <4> QED
        BY <2>2, <4>2, JustIs, SentIs DEF ReadHead
    <3>2. UNCHANGED <<want, got>>
      BY <1>9, <3>1, DriverKeeps
    <3>3. up /\ up'
      BY <1>3, <1>9, <3>2
    <3> QED
      BY <1>5, <3>2, <3>3, Zenon
  <2>3. CASE k = 35
    <3>1. /\ Between' /\ want = s /\ got' = dmaBuffer /\ Delivered(s)
      BY <1>1, <1>9, <2>1, <2>3, ReadReturns, Zenon
    <3>2. dmaBuffer = s
      BY <3>1 DEF Delivered
    <3>3. want' = None /\ want # None /\ up' /\ up
      BY <1>3, <1>9, <3>1, Zenon DEF Between
    <3>4. up' = up
      BY <3>3, Zenon
    <3> QED
      BY <3>1, <3>2, <3>3, <3>4, Zenon DEF Device!Next, Device!Answer
  <2> QED
    BY <2>2, <2>3
<1>10. ASSUME NEW s \in Sectors, Call(s)
       PROVE  Device!Next
  <2>1. Between
    <3>1. todo = <<>>
      BY <1>10 DEF Call
    <3> QED
      BY <1>1, <3>1, Busy, Zenon
  <2>2. ReadingSector' /\ want' = s /\ UNCHANGED got
    BY <1>1, <1>10, <2>1, Calls, Zenon
  <2>3. up /\ want = None /\ up'
    <3>1. s # None
      <4>1. s \in Lbas
        BY DriverAssumption
      <4> QED
        BY <4>1 DEF Lbas, None
    <3> QED
      BY <1>4, <2>1, <2>2, <3>1, Zenon
  <2>4. up' = up
    BY <2>3, Zenon
  <2> QED
    BY <2>2, <2>3, <2>4, Zenon DEF Device!Next, Device!Ask
<1>11. Driver => ~ Between
  BY Zenon DEF Between, Driver, SendData, FetchByte, FetchCyl, AwaitFlag,
     ClearFlag, Retry, DorZero, DorRun, Motor, DMAInitialize, SetReadDMA,
     CopyOut, Next1
<1> QED
  BY <1>1, <1>6, <1>7, <1>8, <1>9, <1>10, <1>11, Zenon DEF Next

\* The driver implements the device that answers each request with the sector
\* asked for, if fewer recalibrations stop short than the driver makes.
THEOREM DeviceRefined ==
  ASSUME Short < Tries
  PROVE  Spec => Device!Init /\ [][Device!Next]_(Device!vars)
<1>1. Init => Device!Init
  <2> SUFFICES ASSUME Init PROVE Device!Init
    OBVIOUS
  <2>1. IInv
    BY Starts
  <2>2. todo # <<>>
    <3>1. InitCode(Tries - 1) \in Seq(Instruction) /\ Len(InitCode(Tries - 1)) = 30
      <4>1. Tries - 1 \in Int
        BY DriverAssumption
      <4> QED
        BY <4>1, InitIs, Zenon
    <3>2. todo = InitCode(Tries - 1)
      BY Codes DEF Init
    <3>3. Len(todo) = 30
      BY <3>1, <3>2, Zenon
    <3> QED
      BY <3>3
  <2>3. want = None /\ got = None
    BY DEF Init
  <2>4. (todo = <<>> \/ want # None) = FALSE
    BY <2>2, <2>3, Zenon
  <2> QED
    BY <2>3, <2>4, Zenon DEF Device!Init
<1>2. IInv /\ IInv' /\ [Next]_vars => [Device!Next]_(Device!vars)
  BY DeviceSteps
<1> QED
  BY <1>1, <1>2, IInvariant, PTL DEF Spec
=============================================================================
