----------------------------- MODULE Interrupts -----------------------------
(***************************************************************************)
(* Interrupts from the boot loader's first instruction to the kernel's     *)
(* idle loop: x64IDT_INIT, PIC_remap and floppyHandler of                  *)
(* src/boot/amd64/int, then fillIDT, the handlers, sleep and the first     *)
(* statement of kpanic of src/kernel/hal.                                  *)
(*                                                                         *)
(* Set-up is straight-line code: `todo' holds the instructions left of it, *)
(* one per port or processor register it changes.  The two 8259s and the   *)
(* processor's part in taking an interrupt are external.  A handler runs   *)
(* with interrupts off and touches nothing that main code or the 8259s can *)
(* see halfway, so it is one action.                                       *)
(*                                                                         *)
(* Vectors above 47 have no source.  MaxTicks bounds countPIT: main code   *)
(* only ever compares it with less.  The definitions whose comment starts  *)
(* "Mistake" are not part of the model: each is an error that would break  *)
(* a property.                                                             *)
(***************************************************************************)
EXTENDS Integers, Sequences

CONSTANTS
    Sources,    \* the lines that devices raise
    Faults,     \* the exceptions that main code may cause
    Delays,     \* what sleep is called with, in milliseconds
    MaxTicks    \* countPIT stays here once it is reached

Lines == 0..15
Pics == {1, 2}
Pins == 0..7
Vectors == 0..47

\* Gates: the interrupt a handler is for, or one of these.
Nothing == -1
common_ISR == -2
ISR6 == -3
Exc(v) == 100 + v

ASSUME InterruptsAssumption ==
    /\ Sources \subseteq Lines \ {2}
    /\ Faults \subseteq 0..31
    /\ Delays \subseteq Nat
    /\ MaxTicks \in Nat /\ \A d \in Delays : d <= 10 * MaxTicks

VARIABLES
    todo,       \* the set-up instructions that are left
    iflag,      \* the processor takes interrupts
    gates,      \* the boot loader's and the kernel's table
    idt,        \* the table loaded: "bios", "boot" or "kernel"
    offset,     \* of each 8259: the vector of its first pin
    icw,        \* how many initialisation words it still expects
    imr,        \* its mask
    saved,      \* a1 and a2 of PIC_remap
    irr,        \* the lines whose request is waiting
    inService,  \* of each 8259: the pins being served
    irq6,       \* the boot loader's flag
    isrs,       \* the kernel's flags that are set
    countPIT,
    main,       \* what the kernel does: "run", "sleep", "exc" or "panic"
    until       \* sleep's millis, divided

cpu == <<iflag, gates, idt>>
pic == <<offset, icw, imr, inService>>
kernel == <<isrs, countPIT, main, until>>
vars == <<todo, cpu, pic, saved, irr, irq6, kernel>>

PicOf(line) == IF line < 8 THEN 1 ELSE 2
PinOf(line) == line % 8

-----------------------------------------------------------------------------
(***************************************************************************)
(* Set-up, as sequences of instructions.                                   *)
(***************************************************************************)
Do(op) == <<[op |-> op]>>
To(op, p) == <<[op |-> op, pic |-> p]>>

\* A byte, given by its bits, for the data port of an 8259.
Data(p, bits) == <<[op |-> "data", pic |-> p, bits |-> bits]>>

\* A loop over the sixteen lines.
ForAllLines(op) == [i \in 1..16 |-> [op |-> op, line |-> i - 1]]

Gate(table, vectors, handler) ==
    <<[op |-> "gate", table |-> table, vectors |-> vectors,
       handler |-> handler]>>

\* Mistakes: only the first 8259 is initialised; the masks are given back
\* while the 8259s still expect ICW4.
PIC_remapMaster(offset1, offset2) ==
    To("save", 1) \o To("save", 2) \o To("icw1", 1)
      \o Data(1, offset1) \o Data(1, {2}) \o Data(1, {0})
      \o To("restore", 1) \o To("restore", 2)
PIC_remapEarly(offset1, offset2) ==
    To("save", 1) \o To("save", 2) \o To("icw1", 1) \o To("icw1", 2)
      \o Data(1, offset1) \o Data(2, offset2)
      \o Data(1, {2}) \o Data(2, {1})
      \o To("restore", 1) \o To("restore", 2)
      \o Data(1, {0}) \o Data(2, {0})
PIC_remap(offset1, offset2) ==
    To("save", 1) \o To("save", 2) \o To("icw1", 1) \o To("icw1", 2)
      \o Data(1, offset1) \o Data(2, offset2)
      \o Data(1, {2}) \o Data(2, {1})
      \o Data(1, {0}) \o Data(2, {0})
      \o To("restore", 1) \o To("restore", 2)

maskAllInterrupts == ForAllLines("mask")

IRQ_clear_mask(line) == <<[op |-> "unmask", line |-> line]>>

x64IDT_INIT ==
    Gate("boot", Vectors, common_ISR)
      \o PIC_remap({5}, {3, 5})         \* 32 and 40
      \o maskAllInterrupts
      \o Gate("boot", {38}, ISR6) \o IRQ_clear_mask(6)
      \o <<[op |-> "lidt", table |-> "boot"]>> \o Do("sti")

\* Interrupts come after the 32 exceptions.
InterruptVector(n) == 32 + n

Exceptions == (0..30) \ {15, 22, 23, 24, 25, 26, 27}

setInterruptEntries ==
    [i \in 1..16 |-> [op |-> "gate", table |-> "kernel",
                      vectors |-> {InterruptVector(i - 1)},
                      handler |-> i - 1]]

\* One instruction sets the entries of all exceptions: interrupts are off.
setExceptionEntries == <<[op |-> "exceptions"]>>

\* Mistake: the timer, line 0, is left masked.
fillIDTFromOne ==
    Do("cli")
      \o setInterruptEntries \o setExceptionEntries
      \o <<[op |-> "lidt", table |-> "kernel"]>>
      \o Tail(ForAllLines("unmask"))
      \o Do("sti")
fillIDT ==
    Do("cli")
      \o setInterruptEntries \o setExceptionEntries
      \o <<[op |-> "lidt", table |-> "kernel"]>>
      \o ForAllLines("unmask")
      \o Do("sti")

-----------------------------------------------------------------------------
\* The BIOS leaves the first 8259 open, or with one line masked, and the second
\* closed.
BiosMasks == {<<m, n>> : m \in {{}, {7}}, n \in {Pins}}

\* Stage2 has turned interrupts off.
Init ==
    /\ todo = x64IDT_INIT \o fillIDT
    /\ iflag = FALSE
    /\ gates = [t \in {"bios", "boot", "kernel"} |->
                  [v \in Vectors |-> Nothing]]
    /\ idt = "bios"
    /\ offset = <<8, 112>>
    /\ icw = <<0, 0>>
    /\ imr \in BiosMasks
    /\ saved = <<{}, {}>>
    /\ irr = {}
    /\ inService = <<{}, {}>>
    /\ irq6 = FALSE
    /\ isrs = {}
    /\ countPIT = 0
    /\ main = "run"
    /\ until = 0

Next1(op) ==
    /\ todo # <<>>
    /\ Head(todo).op = op
    /\ todo' = Tail(todo)

SetGate ==
    /\ Next1("gate")
    /\ LET g == Head(todo) IN
         gates' = [gates EXCEPT ![g.table] =
                     [v \in Vectors |-> IF v \in g.vectors THEN g.handler
                                        ELSE @[v]]]
    /\ UNCHANGED <<iflag, idt, pic, saved, irr, irq6, kernel>>

SetExceptions ==
    /\ Next1("exceptions")
    /\ gates' = [gates EXCEPT !["kernel"] =
                   [v \in Vectors |-> IF v \in Exceptions THEN Exc(v)
                                      ELSE @[v]]]
    /\ UNCHANGED <<iflag, idt, pic, saved, irr, irq6, kernel>>

lidt ==
    /\ Next1("lidt")
    /\ idt' = Head(todo).table
    /\ UNCHANGED <<iflag, gates, pic, saved, irr, irq6, kernel>>

Flag(on) ==
    /\ Next1(IF on THEN "sti" ELSE "cli")
    /\ iflag' = on
    /\ UNCHANGED <<gates, idt, pic, saved, irr, irq6, kernel>>

\* A byte from its bits.
ByteOf(bits) ==
    LET Bit(b, weight) == IF b \in bits THEN weight ELSE 0
    IN  Bit(0, 1) + Bit(1, 2) + Bit(2, 4) + Bit(3, 8)
          + Bit(4, 16) + Bit(5, 32) + Bit(6, 64) + Bit(7, 128)

\* The data port of an 8259: while it expects initialisation words, the first
\* is the offset; otherwise it is the mask.
DataPort(p, bits) ==
    /\ offset' = IF icw[p] = 3
                 THEN [offset EXCEPT ![p] = ByteOf(bits)]
                 ELSE offset
    /\ imr' = IF icw[p] = 0 THEN [imr EXCEPT ![p] = bits] ELSE imr
    /\ icw' = IF icw[p] = 0 THEN icw ELSE [icw EXCEPT ![p] = @ - 1]
    /\ UNCHANGED <<cpu, inService, saved, irr, irq6, kernel>>

SaveMask ==
    /\ Next1("save")
    /\ saved' = [saved EXCEPT ![Head(todo).pic] = imr[Head(todo).pic]]
    /\ UNCHANGED <<cpu, pic, irr, irq6, kernel>>

RestoreMask == /\ Next1("restore")
               /\ DataPort(Head(todo).pic, saved[Head(todo).pic])

\* ICW1 forgets requests, services and the mask.
Icw1 ==
    /\ Next1("icw1")
    /\ LET p == Head(todo).pic IN
         /\ icw' = [icw EXCEPT ![p] = 3]
         /\ imr' = [imr EXCEPT ![p] = {}]
         /\ inService' = [inService EXCEPT ![p] = {}]
         /\ irr' = {i \in irr : PicOf(i) # p}
    /\ UNCHANGED <<cpu, offset, saved, irq6, kernel>>

SendWord == /\ Next1("data")
            /\ DataPort(Head(todo).pic, Head(todo).bits)

\* The mask is read, changed and written.
Mask == /\ Next1("mask")
        /\ LET i == Head(todo).line IN
             DataPort(PicOf(i), imr[PicOf(i)] \cup {PinOf(i)})

Unmask == /\ Next1("unmask")
          /\ LET i == Head(todo).line IN
               DataPort(PicOf(i), imr[PicOf(i)] \ {PinOf(i)})

SetUp == \/ SetGate \/ SetExceptions \/ lidt \/ Flag(TRUE) \/ Flag(FALSE)
         \/ SaveMask \/ RestoreMask \/ Icw1 \/ SendWord
         \/ Mask \/ Unmask

-----------------------------------------------------------------------------
(***************************************************************************)
(* Taking an interrupt.                                                    *)
(***************************************************************************)
\* The pin of the first 8259 a line comes in by, and its rank: lower first.
MasterPin(i) == IF i < 8 THEN i ELSE 2
Rank(i) == 10 * MasterPin(i) + (IF i < 8 THEN 0 ELSE i - 8)

Unmasked(i) == /\ PinOf(i) \notin imr[PicOf(i)]
               /\ MasterPin(i) \notin imr[1]

Requested(i) ==
    /\ i \in irr
    /\ Unmasked(i)
    /\ \A p \in inService[1] : MasterPin(i) < p
    /\ i >= 8 => \A p \in inService[2] : PinOf(i) < p
    /\ icw = <<0, 0>>

Acknowledge(i) ==
    [p \in Pics |-> IF p = 1 THEN inService[1] \cup {MasterPin(i)}
                    ELSE IF i >= 8 THEN inService[2] \cup {PinOf(i)}
                    ELSE inService[2]]

\* End of interrupt: the pin that ranks first is no longer in service.
Eoi(pins) == {p \in pins : \E q \in pins : q < p}

\* Mistake: the second 8259 is not told.
sendEOIMaster(irq, service) == [service EXCEPT ![1] = Eoi(service[1])]
sendEOI(irq, service) ==
    IF irq >= 8 THEN [p \in Pics |-> Eoi(service[p])]
    ELSE [service EXCEPT ![1] = Eoi(service[1])]

Tick(n) == IF n < MaxTicks THEN n + 1 ELSE n

\* isr0 to isr15, floppyHandler and common_ISR, with the pins in service.
Handle(handler, service) ==
    \/ /\ handler \in Lines
       /\ isrs' = isrs \cup {handler}
       /\ countPIT' = IF handler = 0 THEN Tick(countPIT) ELSE countPIT
       /\ inService' = sendEOI(handler, service)
       /\ UNCHANGED <<main, irq6>>
    \/ /\ handler = ISR6
       /\ irq6' = TRUE
       /\ inService' = sendEOI(6, service)
       /\ UNCHANGED <<isrs, countPIT, main>>
    \/ /\ handler = common_ISR
       /\ inService' = service
       /\ UNCHANGED <<isrs, countPIT, main, irq6>>

VectorOf(i) == offset[PicOf(i)] + PinOf(i)

GateOf(vector) == IF vector \in Vectors THEN gates[idt][vector] ELSE Nothing

Interrupt(i) ==
    /\ iflag
    /\ Requested(i)
    /\ \A j \in irr : Requested(j) => Rank(i) <= Rank(j)
    /\ irr' = irr \ {i}
    /\ Handle(GateOf(VectorOf(i)), Acknowledge(i))
    /\ UNCHANGED <<todo, cpu, offset, icw, imr, saved, until>>

\* A request withdrawn too late comes as the last pin, with nothing in service.
Spurious ==
    /\ iflag
    /\ inService = <<{}, {}>>
    /\ Handle(GateOf(offset[1] + 7), inService)
    /\ UNCHANGED <<todo, cpu, offset, icw, imr, saved, irr, until>>

Raise(i) ==
    /\ i \notin irr
    /\ irr' = irr \cup {i}
    /\ UNCHANGED <<todo, cpu, pic, saved, irq6, kernel>>

-----------------------------------------------------------------------------
(***************************************************************************)
(* The kernel, once it is up.                                              *)
(***************************************************************************)
Up == todo = <<>>

\* waitForIRQ takes a flag.
TakeFlag ==
    /\ Up /\ main = "run"
    /\ 6 \in isrs
    /\ isrs' = isrs \ {6}
    /\ UNCHANGED <<todo, cpu, pic, saved, irr, irq6, countPIT, main, until>>

\* Mistake: every millisecond is counted as a tick.
TicksEach(millis) == millis
Ticks(millis) == millis \div 10

sleep(millis) ==
    /\ Up /\ main = "run"
    /\ main' = "sleep"
    /\ countPIT' = 0
    /\ until' = Ticks(millis)
    /\ UNCHANGED <<todo, cpu, pic, saved, irr, irq6, isrs>>

Wake ==
    /\ main = "sleep"
    /\ countPIT >= until
    /\ main' = "run"
    /\ UNCHANGED <<todo, cpu, pic, saved, irr, irq6, isrs, countPIT, until>>

\* A trap gate: interrupts stay on while the message is put together.
Exception(v) ==
    /\ Up /\ main \in {"run", "sleep"}
    /\ GateOf(v) = Exc(v)
    /\ main' = "exc"
    /\ UNCHANGED <<todo, cpu, pic, saved, irr, irq6, isrs, countPIT, until>>

\* Mistake: kpanic leaves interrupts on.
PanicFlag == TRUE
PanicCli == FALSE

kpanic ==
    /\ main = "exc"
    /\ main' = "panic"
    /\ iflag' = PanicCli
    /\ UNCHANGED <<todo, gates, idt, pic, saved, irr, irq6,
                   isrs, countPIT, until>>

Next == \/ SetUp
        \/ \E i \in Sources : Interrupt(i)
        \/ Spurious
        \/ \E i \in Sources : Raise(i)
        \/ TakeFlag
        \/ \E d \in Delays : sleep(d)
        \/ Wake
        \/ \E v \in Faults : Exception(v)
        \/ kpanic

\* Main code runs, the timer ticks, and a line that is due again and again
\* gets its turn: handlers are shorter than the time between two ticks.
Fairness ==
    /\ WF_vars(SetUp) /\ WF_vars(Wake) /\ WF_vars(kpanic)
    /\ WF_vars(Raise(0))
    /\ \A i \in Sources : SF_vars(Interrupt(i))

Spec == Init /\ [][Next]_vars /\ Fairness

-----------------------------------------------------------------------------
(***************************************************************************)
(* Properties.                                                             *)
(***************************************************************************)
\* Every variable has its type, and initialisation words come three at a time.
TypeOK ==
    /\ iflag \in BOOLEAN /\ irq6 \in BOOLEAN
    /\ idt \in {"bios", "boot", "kernel"}
    /\ \A t \in {"boot", "kernel"} : \A v \in Vectors :
         gates[t][v] \in Lines \cup {Nothing, common_ISR, ISR6}
                         \cup {Exc(e) : e \in Exceptions}
    /\ \A p \in Pics : /\ icw[p] \in 0..3
                       /\ imr[p] \subseteq Pins /\ saved[p] \subseteq Pins
                       /\ inService[p] \subseteq Pins
                       /\ offset[p] \in Nat
    /\ irr \subseteq Lines /\ isrs \subseteq Lines
    /\ countPIT \in 0..MaxTicks /\ until \in 0..MaxTicks
    /\ main \in {"run", "sleep", "exc", "panic"}

\* Whenever the processor takes interrupts, each unmasked line leads to the
\* handler written for it: tables, offsets and masks agree at every point of
\* set-up where an interrupt can come.
RightHandler ==
    iflag => \A i \in Lines \ {2} :
               Unmasked(i) =>
                 GateOf(VectorOf(i)) \in {i} \cup (IF i = 6 THEN {ISR6} ELSE {})

\* When no handler runs, nothing is left in service: each handler has told
\* every 8259 its interrupt came through, and only those.
Acknowledged == inService = <<{}, {}>>

\* PIC_remap gives back the masks it found, those of the BIOS ("restore saved
\* masks"), and from then until maskAllInterrupts no line is open that was
\* closed.
MasksRestored ==
    (/\ todo # <<>> /\ Head(todo).op = "mask" /\ Head(todo).line = 0) =>
       imr = saved /\ imr \in BiosMasks /\ icw = <<0, 0>>

\* After kpanic no handler runs: the message on the screen is the last word.
PanicIsFinal == [][main = "panic" => UNCHANGED <<isrs, countPIT>>]_vars

\* A request is served, once the kernel is up, unless the kernel panics.
Served ==
    \A i \in Sources : (Up /\ i \in irr) ~> (i \notin irr \/ main = "panic")

\* sleep returns.
SleepReturns == main = "sleep" ~> main # "sleep"
=============================================================================
