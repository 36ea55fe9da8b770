---------------------------- MODULE FloppyDriver ----------------------------
(***************************************************************************)
(* The floppy driver, src/kernel/hal/disk.cpp (the boot loader carries the *)
(* same text in src/boot/amd64/fs/fdc.cpp, and the initialisation), with   *)
(* the controller, the DMA channel and the interrupt it polls for.         *)
(*                                                                         *)
(* The driver is one thread that talks to the controller a byte at a time. *)
(* Each of its functions is a sequence of instructions: the byte sent or   *)
(* fetched, the flag awaited, the register written.  `todo' holds what is  *)
(* left of the call being made, and the driver's actions each carry out    *)
(* its head.  Between any two of them the controller and the interrupt     *)
(* handler take steps of their own.                                        *)
(*                                                                         *)
(* The controller is external, modelled by what the driver relies on: it   *)
(* raises its interrupt when a reset, a seek or a transfer is over, a      *)
(* reset is followed by four SENSE INTERRUPTs and a seek by one, one with  *)
(* nothing pending is answered by one byte or by two, a recalibration may  *)
(* stop short of cylinder 0 and says so, a seek arrives.  A transfer runs  *)
(* until the DMA count is used up; Bochs, which the build targets, does    *)
(* the same.  The status bytes of READ DATA are not looked at.             *)
(*                                                                         *)
(* Only drive 0 exists and its motor needs no time to spin up.  Short is   *)
(* the bound on recalibrations that stop short.                            *)
(*                                                                         *)
(* The definitions whose comment starts "Mistake" are not part of the      *)
(* model: each is an error that would break a property.                    *)
(***************************************************************************)
EXTENDS DiskGeometry, Sequences

CONSTANTS
    Sectors,    \* the sectors that are read
    Tries,      \* attempts of FDCalibrate and FDSeek, 10 in the code
    Short       \* how many recalibrations may stop short of cylinder 0

ASSUME DriverAssumption ==
    /\ Sectors \subseteq Lbas
    /\ Tries \in Nat \ {0}
    /\ Short \in Nat

VARIABLES
    todo,       \* the instructions the driver has yet to carry out
    cyl,        \* data.cyl of FDCalibrate or FDSeek
    want,       \* the sector being read, or None
    got,        \* the sector last copied out of the DMA buffer
    isr6,       \* isrs[6]
    irq,        \* the interrupt has been requested and not delivered
    phase,      \* of the controller
    command,    \* the bytes of the command it has received
    result,     \* the bytes it has to say
    seeking,    \* the cylinder it is stepping to, or None
    pending,    \* SENSE INTERRUPTs it has an answer for
    track,      \* where the head is
    nonDma,     \* the ND bit of SPECIFY
    motor,      \* the motor bit of the digital output register
    dmaAuto,    \* the DMA channel starts over when its count is used up
    dmaAtBuffer,\* the DMA channel is about to write at the buffer's start
    dmaBuffer,  \* the sector at the start of the DMA buffer, 0x1000
    short       \* recalibrations that stopped short

driver == <<todo, cyl, want, got>>
controller == <<phase, command, result, seeking, pending, track, nonDma>>
dma == <<dmaAuto, dmaAtBuffer, dmaBuffer>>
vars == <<driver, isr6, irq, controller, motor, dma, short>>

None == -1

\* A byte read when the controller has nothing to say.
Garbage == -2

Tracks == {0} \cup {CylOf(s) : s \in Sectors}

-----------------------------------------------------------------------------
(***************************************************************************)
(* The driver's functions, as sequences of instructions.                   *)
(***************************************************************************)
SPECIFY == 3
RECALIBRATE == 7
SENSE_INTERRUPT == 8
SEEK == 15
READ == 230     \* READ_DATA | EXT_MULTITRACK | EXT_DENSITY | EXT_SKIP

Do(op) == <<[op |-> op]>>

\* FDSendData of the bytes of a command; the first is the opcode.
Command(bytes) ==
    [i \in DOMAIN bytes |-> [op |-> "send", byte |-> bytes[i],
                             opcode |-> i = 1]]

\* FDGetData n times, the byte being dropped.
Fetch(n) == [i \in 1..n |-> [op |-> "fetch"]]

\* Mistakes: the flag is left set, or not waited for.
WaitNoClear == Do("await")
WaitNot == Do("clear")
waitForIRQ == Do("await") \o Do("clear")

FDSenseInterrupt ==
    Command(<<SENSE_INTERRUPT>>) \o Fetch(1) \o Do("fetchCyl")

FDEnableMotor == Do("motorOn")
FDDisableMotor == Do("motorOff")

\* One turn of the loops of FDCalibrate and FDSeek, `left' more to go.
Attempt(bytes, left) ==
    Command(bytes) \o waitForIRQ \o FDSenseInterrupt
      \o <<[op |-> "retry", bytes |-> bytes, left |-> left]>>

FDCalibrate ==
    FDEnableMotor \o Attempt(<<RECALIBRATE, 0>>, Tries - 1) \o FDDisableMotor

FDSeek(c, h) ==
    FDEnableMotor \o Attempt(<<SEEK, 4 * h, c>>, Tries - 1) \o FDDisableMotor

\* The low bit of the last byte is ND, "no DMA".
FDCSpecifyDrive(dmaEnable) ==
    Command(<<SPECIFY, 48, 2 * 16 + (IF dmaEnable THEN 1 ELSE 0)>>)

\* Mistake: one SENSE INTERRUPT for the reset instead of four.
FDCResetOneSense ==
    Do("dorZero") \o Do("dorRun") \o waitForIRQ \o FDSenseInterrupt
      \o FDCSpecifyDrive(FALSE) \o FDCalibrate
FDCReset ==
    Do("dorZero") \o Do("dorRun") \o waitForIRQ
      \o FDSenseInterrupt \o FDSenseInterrupt
      \o FDSenseInterrupt \o FDSenseInterrupt
      \o FDCSpecifyDrive(FALSE) \o FDCalibrate

FDCInitialize == Do("dmaInitialize") \o FDCReset

\* Mistake: the last of the seven result bytes is left unread.
ReadSectorSixBytes(c, h, s) ==
    Do("setReadDMA") \o FDSeek(c, h) \o FDEnableMotor
      \o Command(<<READ, 4 * h, c, h, s, 2, EndOfTrack(s), 27, 255>>)
      \o waitForIRQ \o Fetch(6) \o FDSenseInterrupt \o FDDisableMotor
FDCReadSector_CHS(c, h, s) ==
    Do("setReadDMA") \o FDSeek(c, h) \o FDEnableMotor
      \o Command(<<READ, 4 * h, c, h, s, 2, EndOfTrack(s), 27, 255>>)
      \o waitForIRQ \o Fetch(7) \o FDSenseInterrupt \o FDDisableMotor

readSector_int(lba) ==
    LET chs == convertToCHS(lba)
    IN  FDCReadSector_CHS(chs.cyl, chs.head, chs.sector) \o Do("copyOut")

-----------------------------------------------------------------------------
\* The BIOS leaves the drive stopped anywhere, the DMA channel used up and
\* the controller as its own last command set it.
Init ==
    /\ todo = FDCInitialize
    /\ cyl = Garbage
    /\ want = None
    /\ got = None
    /\ isr6 = FALSE
    /\ irq = FALSE
    /\ phase = "idle"
    /\ command = <<>>
    /\ result = <<>>
    /\ seeking = None
    /\ pending = 0
    /\ track \in Tracks
    /\ nonDma \in BOOLEAN
    /\ motor = FALSE
    /\ dmaAuto = FALSE
    /\ dmaAtBuffer = FALSE
    /\ dmaBuffer = None
    /\ short = 0

(***************************************************************************)
(* The driver's instructions.                                              *)
(***************************************************************************)
Next1(op) ==
    /\ todo # <<>>
    /\ Head(todo).op = op
    /\ todo' = Tail(todo)

\* The main status register.
RequestForMaster == phase \in {"idle", "command", "result"}
DataOut == phase = "result"

isFIFOAvalible == RequestForMaster

\* Either bit will do.
isDataAvalible == RequestForMaster \/ DataOut

Arity(opcode) == CASE opcode = SPECIFY -> 3
                   [] opcode = RECALIBRATE -> 2
                   [] opcode = SEEK -> 3
                   [] opcode = READ -> 9
                   [] OTHER -> 1

\* The controller takes the byte if it is expecting one.
SendData ==
    /\ Next1("send")
    /\ isFIFOAvalible
    /\ IF phase = "result"
       THEN UNCHANGED <<phase, command>>
       ELSE /\ command' = Append(command, Head(todo).byte)
            /\ phase' = IF Len(command') = Arity(command'[1])
                        THEN "execute" ELSE "command"
    /\ UNCHANGED <<cyl, want, got, isr6, irq, result, seeking, pending, track,
                   nonDma, motor, dma, short>>

DataByte == IF result = <<>> THEN Garbage ELSE Head(result)

GetData ==
    /\ isDataAvalible
    /\ result' = IF result = <<>> THEN <<>> ELSE Tail(result)
    /\ phase' = IF Len(result) = 1 THEN "idle" ELSE phase
    /\ UNCHANGED <<want, got, isr6, irq, command, seeking, pending, track,
                   nonDma, motor, dma, short>>

FetchByte == Next1("fetch") /\ GetData /\ UNCHANGED cyl

FetchCyl == Next1("fetchCyl") /\ GetData /\ cyl' = DataByte

\* The two statements of waitForIRQ.
AwaitFlag ==
    /\ Next1("await")
    /\ isr6
    /\ UNCHANGED <<cyl, want, got, isr6, irq, controller, motor, dma, short>>

ClearFlag ==
    /\ Next1("clear")
    /\ isr6' = FALSE
    /\ UNCHANGED <<cyl, want, got, irq, controller, motor, dma, short>>

\* The loop goes on unless data.cyl is 0 or the attempts are used up.
Succeeded(c) == c = 0

Retry ==
    /\ todo # <<>>
    /\ Head(todo).op = "retry"
    /\ LET turn == Head(todo) IN
         \/ /\ Succeeded(cyl) \/ cyl = Garbage \/ turn.left = 0
            /\ todo' = Tail(todo)
         \/ /\ ~ Succeeded(cyl) /\ turn.left > 0
            /\ todo' = Attempt(turn.bytes, turn.left - 1) \o Tail(todo)
    /\ UNCHANGED <<cyl, want, got, isr6, irq, controller, motor, dma, short>>

\* FDWriteDOR(0): the controller is held in reset, its interrupt cut off.
DorZero ==
    /\ Next1("dorZero")
    /\ phase' = "reset"
    /\ command' = <<>>
    /\ result' = <<>>
    /\ seeking' = None
    /\ pending' = 0
    /\ motor' = FALSE
    /\ UNCHANGED <<cyl, want, got, isr6, irq, track, nonDma, dma, short>>

DorRun ==
    /\ Next1("dorRun")
    /\ phase' = "resetting"
    /\ motor' = FALSE
    /\ UNCHANGED <<cyl, want, got, isr6, irq, command, result, seeking,
                   pending, track, nonDma, dma, short>>

Motor(on) ==
    /\ Next1(IF on THEN "motorOn" ELSE "motorOff")
    /\ motor' = on
    /\ UNCHANGED <<cyl, want, got, isr6, irq, controller, dma, short>>

\* The address 0x1000 and the count 0x23ff.
DMAInitialize ==
    /\ Next1("dmaInitialize")
    /\ dmaAtBuffer' = TRUE
    /\ UNCHANGED <<cyl, want, got, isr6, irq, controller, motor,
                   dmaAuto, dmaBuffer, short>>

\* Mode 0x56 is auto-initialising.  Mistake: mode 0x46 is not.
Mode46 == FALSE
Mode56 == TRUE

SetReadDMA ==
    /\ Next1("setReadDMA")
    /\ dmaAuto' = Mode56
    /\ UNCHANGED <<cyl, want, got, isr6, irq, controller, motor,
                   dmaAtBuffer, dmaBuffer, short>>

\* memcpy from 0x1000; readSector_int returns.
CopyOut ==
    /\ Next1("copyOut")
    /\ got' = dmaBuffer
    /\ want' = None
    /\ UNCHANGED <<cyl, isr6, irq, controller, motor, dma, short>>

Call(lba) ==
    /\ todo = <<>>
    /\ todo' = readSector_int(lba)
    /\ want' = lba
    /\ UNCHANGED <<cyl, got, isr6, irq, controller, motor, dma, short>>

Driver == \/ SendData \/ FetchByte \/ FetchCyl \/ AwaitFlag \/ ClearFlag
          \/ Retry \/ DorZero \/ DorRun \/ Motor(TRUE) \/ Motor(FALSE)
          \/ DMAInitialize \/ SetReadDMA \/ CopyOut

-----------------------------------------------------------------------------
(***************************************************************************)
(* The interrupt.  Main code does not run while the handler does.          *)
(***************************************************************************)
Isr6 ==
    /\ irq
    /\ irq' = FALSE
    /\ isr6' = TRUE
    /\ UNCHANGED <<driver, controller, motor, dma, short>>

(***************************************************************************)
(* The controller.                                                         *)
(***************************************************************************)
ResetDone ==
    /\ phase = "resetting"
    /\ phase' = "idle"
    /\ pending' = 4
    /\ irq' = TRUE
    /\ UNCHANGED <<driver, isr6, command, result, seeking, track, nonDma,
                   motor, dma, short>>

Executes(opcode) ==
    /\ phase = "execute"
    /\ command[1] = opcode
    /\ command' = <<>>

Specify ==
    /\ Executes(SPECIFY)
    /\ nonDma' = (command[3] % 2 = 1)
    /\ phase' = "idle"
    /\ UNCHANGED <<driver, isr6, irq, result, seeking, pending, track,
                   motor, dma, short>>

\* Without an interrupt the answer is status 80, perhaps with a cylinder.
SenseInterrupt ==
    /\ Executes(SENSE_INTERRUPT)
    /\ \/ /\ pending > 0
          /\ pending' = pending - 1
          /\ result' = <<0, track>>
       \/ /\ pending = 0
          /\ pending' = pending
          /\ result' \in {<<128>>, <<128, track>>}
    /\ phase' = "result"
    /\ UNCHANGED <<driver, isr6, irq, seeking, track, nonDma, motor, dma,
                   short>>

\* A seek starts, and the controller takes commands again.
StartSeek ==
    /\ \/ Executes(RECALIBRATE) /\ seeking' = 0
       \/ Executes(SEEK) /\ seeking' = command[3]
    /\ phase' = "idle"
    /\ UNCHANGED <<driver, isr6, irq, result, pending, track, nonDma, motor,
                   dma, short>>

SeekDone ==
    /\ seeking # None
    /\ \/ /\ track' = seeking
          /\ UNCHANGED short
       \/ /\ seeking = 0 /\ short < Short
          /\ track' \in Tracks \ {0}
          /\ short' = short + 1
    /\ seeking' = None
    /\ pending' = pending + 1
    /\ irq' = TRUE
    /\ UNCHANGED <<driver, isr6, phase, command, result, nonDma, motor, dma>>

\* The head is over the cylinder and the disk turns; if not, no data comes.
Readable(c) == track = c /\ seeking = None /\ motor

Transfer ==
    /\ Executes(READ)
    /\ ~ nonDma
    /\ LET c == command[3]
           h == command[4]
           s == command[5]
       IN  /\ dmaBuffer' = IF Readable(c) /\ dmaAtBuffer
                            THEN LbaAt(c, h, s) ELSE dmaBuffer
           /\ dmaAtBuffer' = IF Readable(c) THEN dmaAuto ELSE dmaAtBuffer
    /\ result' = <<0, 0, 0, command[3], command[4], command[5], 2>>
    /\ phase' = "result"
    /\ irq' = TRUE
    /\ UNCHANGED <<driver, isr6, seeking, pending, track, nonDma, motor,
                   dmaAuto, short>>

Controller == \/ ResetDone \/ Specify \/ SenseInterrupt
              \/ StartSeek \/ SeekDone \/ Transfer

Next == Driver \/ Isr6 \/ Controller \/ \E lba \in Sectors : Call(lba)

\* The driver and the handler run, and the hardware finishes what it starts.
Fairness == WF_vars(Driver) /\ WF_vars(Isr6) /\ WF_vars(Controller)

Spec == Init /\ [][Next]_vars /\ Fairness

-----------------------------------------------------------------------------
(***************************************************************************)
(* Properties.                                                             *)
(***************************************************************************)
\* Every variable has its type, and no more interrupts pend than a reset
\* leaves.
TypeOK ==
    /\ cyl \in Tracks \cup {Garbage}
    /\ want \in Sectors \cup {None}
    /\ got \in Sectors \cup {None}
    /\ isr6 \in BOOLEAN /\ irq \in BOOLEAN
    /\ phase \in {"reset", "resetting", "idle", "command", "execute", "result"}
    /\ Len(command) <= 9 /\ Len(result) <= 7
    /\ seeking \in Tracks \cup {None}
    /\ pending \in 0..4
    /\ track \in Tracks
    /\ nonDma \in BOOLEAN /\ motor \in BOOLEAN
    /\ dmaAuto \in BOOLEAN /\ dmaAtBuffer \in BOOLEAN
    /\ dmaBuffer \in Lbas \cup {None}
    /\ short \in 0..Short

\* No interrupt comes while the last one is still flagged: the condition on
\* which the boot loader's floppyHandler breaks into the debugger.
NoOverrun == ~ (irq /\ isr6)

\* waitForIRQ never returns for an old interrupt: when it does, the reset,
\* seek or transfer it waited for is over and its outcome is there to read.
NoStaleWakeup ==
    todo # <<>> /\ Head(todo).op = "clear" =>
      /\ seeking = None
      /\ phase = "result" \/ pending > 0

\* The driver and the controller agree where a command starts: an opcode is
\* sent only when the controller is at rest, and a parameter only when the
\* controller takes parameters.
InStep ==
    [][SendData =>
         phase = IF Head(todo).opcode THEN "idle" ELSE "command"]_vars

\* Between calls nothing is left over from the last one: no byte unread, no
\* interrupt on its way, no motor running.  It is what lets the kernel take
\* the controller over from the boot loader without a reset.  After
\* FDCInitialize the head is over cylinder 0, if recalibrating works at all
\* within the attempts FDCalibrate makes.
QuietBetweenCalls ==
    todo = <<>> =>
      /\ phase = "idle" /\ command = <<>> /\ result = <<>>
      /\ seeking = None /\ pending = 0
      /\ ~ irq /\ ~ isr6 /\ ~ motor
      /\ Short < Tries /\ got = None => track = 0

\* FDCInitialize returns and every readSector_int returns the sector it was
\* asked for.
Device == INSTANCE SectorDevice WITH up <- todo = <<>> \/ want # None

DeviceSpec == Device!Spec
=============================================================================
