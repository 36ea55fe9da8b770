-------------------------- MODULE InterruptsProofs --------------------------
(***************************************************************************)
(* Proofs about Interrupts: whatever lines devices raise and whenever they *)
(* raise them, no interrupt finds a wrong handler, none is left in         *)
(* service, PIC_remap gives the masks back, and a panic is final.          *)
(*                                                                         *)
(* Set-up is a list of 69 instructions.  First comes what the list is,     *)
(* then an invariant with a clause for every point of it, then one lemma   *)
(* per action.                                                             *)
(***************************************************************************)
EXTENDS Interrupts, SequenceTheorems, TLAPS

\* The instructions that set-up is made of.
Instruction ==
    [op : {"exceptions", "sti", "cli"}]
      \cup [op : {"save", "restore", "icw1"}, pic : Pics]
      \cup [op : {"data"}, pic : Pics, bits : SUBSET Pins]
      \cup [op : {"mask", "unmask"}, line : Lines]
      \cup [op : {"gate"}, table : {"boot", "kernel"},
            vectors : SUBSET Vectors, handler : Int]
      \cup [op : {"lidt"}, table : {"boot", "kernel"}]

\* PIC_remap, word by word.
LEMMA RemapIs ==
  ASSUME NEW a \in SUBSET Pins, NEW b \in SUBSET Pins
  PROVE  /\ PIC_remap(a,b) \in Seq(Instruction)
         /\ Len(PIC_remap(a,b)) = 12
         /\ PIC_remap(a,b)[1] = [op |-> "save", pic |-> 1]
         /\ PIC_remap(a,b)[2] = [op |-> "save", pic |-> 2]
         /\ PIC_remap(a,b)[3] = [op |-> "icw1", pic |-> 1]
         /\ PIC_remap(a,b)[4] = [op |-> "icw1", pic |-> 2]
         /\ PIC_remap(a,b)[5] = [op |-> "data", pic |-> 1, bits |-> a]
         /\ PIC_remap(a,b)[6] = [op |-> "data", pic |-> 2, bits |-> b]
         /\ PIC_remap(a,b)[7].op = "data" /\ PIC_remap(a,b)[7].pic = 1
         /\ PIC_remap(a,b)[8].op = "data" /\ PIC_remap(a,b)[8].pic = 2
         /\ PIC_remap(a,b)[9].op = "data" /\ PIC_remap(a,b)[9].pic = 1
         /\ PIC_remap(a,b)[10].op = "data" /\ PIC_remap(a,b)[10].pic = 2
         /\ PIC_remap(a,b)[11] = [op |-> "restore", pic |-> 1]
         /\ PIC_remap(a,b)[12] = [op |-> "restore", pic |-> 2]
<1>1. PIC_remap(a,b) \in Seq(Instruction)
  <2>1. /\ To("save", 1) \in Seq(Instruction)
        /\ To("save", 2) \in Seq(Instruction)
        /\ To("icw1", 1) \in Seq(Instruction)
        /\ To("icw1", 2) \in Seq(Instruction)
        /\ To("restore", 1) \in Seq(Instruction)
        /\ To("restore", 2) \in Seq(Instruction)
    BY DEF To, Instruction, Pics
  <2>2. \A p \in Pics, m \in SUBSET Pins : Data(p, m) \in Seq(Instruction)
    BY DEF Data, Instruction
  <2> QED BY <2>1, <2>2, ConcatProperties DEF PIC_remap, Pics, Pins
<1>2. Len(PIC_remap(a,b)) = 12
  BY DEF PIC_remap, To, Data
<1> QED BY <1>1, <1>2 DEF PIC_remap, To, Data

\* A loop over the lines.
LEMMA LinesAre ==
  ASSUME NEW op \in {"mask", "unmask"}
  PROVE  /\ ForAllLines(op) \in Seq(Instruction)
         /\ Len(ForAllLines(op)) = 16
         /\ \A i \in 1..16 : ForAllLines(op)[i] = [op |-> op, line |-> i - 1]
 BY DEF ForAllLines, Instruction, Lines

\* s and t end to end, without \o, which the provers do not reason about well.
Joined(s, t, u) ==
    /\ u \in Seq(Instruction)
    /\ Len(u) = Len(s) + Len(t)
    /\ \A i \in 1..Len(s) : u[i] = s[i]
    /\ \A i \in Len(s) + 1 .. Len(s) + Len(t) : u[i] = t[i - Len(s)]

\* Sequences end to end.
LEMMA Join ==
  ASSUME NEW s \in Seq(Instruction), NEW t \in Seq(Instruction)
  PROVE  Joined(s, t, s \o t)
<1>1. Len(s) \in Nat /\ Len(t) \in Nat
  OBVIOUS
<1> QED BY <1>1, ConcatProperties, Z3 DEF Joined

\* x64IDT_INIT, in 33 instructions.
LEMMA BootIs ==
  /\ x64IDT_INIT \in Seq(Instruction)
  /\ Len(x64IDT_INIT) = 33
  /\ x64IDT_INIT[1] = [op |-> "gate", table |-> "boot",
                       vectors |-> Vectors, handler |-> common_ISR]
  /\ \A k \in 2..13 : x64IDT_INIT[k] = PIC_remap({5}, {3, 5})[k - 1]
  /\ \A k \in 14..29 : x64IDT_INIT[k] = [op |-> "mask", line |-> k - 14]
  /\ x64IDT_INIT[30] = [op |-> "gate", table |-> "boot",
                        vectors |-> {38}, handler |-> ISR6]
  /\ x64IDT_INIT[31] = [op |-> "unmask", line |-> 6]
  /\ x64IDT_INIT[32] = [op |-> "lidt", table |-> "boot"]
  /\ x64IDT_INIT[33].op = "sti"
<1> DEFINE a == Gate("boot", Vectors, common_ISR)
           r == PIC_remap({5}, {3, 5})
           m == ForAllLines("mask")
           c == Gate("boot", {38}, ISR6)
           d == IRQ_clear_mask(6)
           e == <<[op |-> "lidt", table |-> "boot"]>>
           f == Do("sti")
           ar == a \o r
           arm == ar \o m
           armc == arm \o c
           armcd == armc \o d
           armcde == armcd \o e
<1>1. x64IDT_INIT = armcde \o f
  BY DEF x64IDT_INIT, maskAllInterrupts
<1>2. /\ a \in Seq(Instruction) /\ Len(a) = 1
      /\ a[1] = [op |-> "gate", table |-> "boot",
                 vectors |-> Vectors, handler |-> common_ISR]
  BY DEF Gate, Instruction, Vectors, common_ISR
<1>3. r \in Seq(Instruction) /\ Len(r) = 12
  <2>1. {5} \in SUBSET Pins /\ {3, 5} \in SUBSET Pins
    BY DEF Pins
  <2> QED BY <2>1, RemapIs
<1>4. /\ m \in Seq(Instruction) /\ Len(m) = 16
      /\ \A i \in 1..16 : m[i] = [op |-> "mask", line |-> i - 1]
  BY LinesAre
<1>5. /\ c \in Seq(Instruction) /\ Len(c) = 1
      /\ c[1] = [op |-> "gate", table |-> "boot",
                 vectors |-> {38}, handler |-> ISR6]
  BY DEF Gate, Instruction, Vectors, ISR6
<1>6. /\ d \in Seq(Instruction) /\ Len(d) = 1
      /\ d[1] = [op |-> "unmask", line |-> 6]
  BY DEF IRQ_clear_mask, Instruction, Lines
<1>7. /\ e \in Seq(Instruction) /\ Len(e) = 1
      /\ e[1] = [op |-> "lidt", table |-> "boot"]
  BY DEF Instruction
<1>8. f \in Seq(Instruction) /\ Len(f) = 1 /\ f[1].op = "sti"
  BY DEF Do, Instruction
<1> HIDE DEF a, r, m, c, d, e, f
<1>9. Joined(a, r, ar)
  BY <1>2, <1>3, Join
<1> HIDE DEF ar
<1>10. ar \in Seq(Instruction) /\ Len(ar) = 13
  BY <1>2, <1>3, <1>9 DEF Joined
<1>11. Joined(ar, m, arm)
  BY <1>4, <1>10, Join
<1> HIDE DEF arm
<1>12. arm \in Seq(Instruction) /\ Len(arm) = 29
  BY <1>4, <1>10, <1>11 DEF Joined
<1>13. Joined(arm, c, armc)
  BY <1>5, <1>12, Join
<1> HIDE DEF armc
<1>14. armc \in Seq(Instruction) /\ Len(armc) = 30
  BY <1>5, <1>12, <1>13 DEF Joined
<1>15. Joined(armc, d, armcd)
  BY <1>6, <1>14, Join
<1> HIDE DEF armcd
<1>16. armcd \in Seq(Instruction) /\ Len(armcd) = 31
  BY <1>6, <1>14, <1>15 DEF Joined
<1>17. Joined(armcd, e, armcde)
  BY <1>7, <1>16, Join
<1> HIDE DEF armcde
<1>18. armcde \in Seq(Instruction) /\ Len(armcde) = 32
  BY <1>7, <1>16, <1>17 DEF Joined
<1>19. Joined(armcde, f, x64IDT_INIT)
  BY <1>1, <1>8, <1>18, Join
<1>20. x64IDT_INIT \in Seq(Instruction) /\ Len(x64IDT_INIT) = 33
  BY <1>8, <1>18, <1>19 DEF Joined
<1>21. /\ x64IDT_INIT[33] = f[1] /\ x64IDT_INIT[32] = e[1]
       /\ x64IDT_INIT[31] = d[1] /\ x64IDT_INIT[30] = c[1]
  BY <1>5, <1>6, <1>7, <1>8, <1>12, <1>13, <1>14, <1>15, <1>16, <1>17,
     <1>18, <1>19 DEF Joined
<1>22. \A k \in 1..29 : x64IDT_INIT[k] = arm[k]
  <2>1. \A k \in 1..32 : x64IDT_INIT[k] = armcde[k]
    BY <1>8, <1>18, <1>19 DEF Joined
  <2>2. \A k \in 1..31 : armcde[k] = armcd[k]
    BY <1>7, <1>16, <1>17 DEF Joined
  <2>3. \A k \in 1..30 : armcd[k] = armc[k]
    BY <1>6, <1>14, <1>15 DEF Joined
  <2>4. \A k \in 1..29 : armc[k] = arm[k]
    BY <1>5, <1>12, <1>13 DEF Joined
  <2> QED BY <2>1, <2>2, <2>3, <2>4
<1>23. \A k \in 14..29 : arm[k] = [op |-> "mask", line |-> k - 14]
  <2> TAKE k \in 14..29
  <2>1. k - 13 \in 1..16 /\ (k - 13) - 1 = k - 14
    OBVIOUS
  <2>2. k \in Len(ar) + 1 .. Len(ar) + Len(m) /\ k - Len(ar) = k - 13
    BY <1>4, <1>10
  <2>3. arm[k] = m[k - 13]
    BY <1>11, <2>2, Zenon DEF Joined
  <2> QED BY <1>4, <2>1, <2>3
<1>24. \A k \in 1..13 : arm[k] = ar[k]
  BY <1>4, <1>10, <1>11 DEF Joined
<1>25. ar[1] = a[1] /\ \A k \in 2..13 : ar[k] = r[k - 1]
  BY <1>2, <1>3, <1>9 DEF Joined
<1>26. \A k \in 2..13 : x64IDT_INIT[k] = r[k - 1]
  BY <1>22, <1>24, <1>25
<1>27. x64IDT_INIT[1] = a[1]
  BY <1>22, <1>24, <1>25
<1>28. \A k \in 14..29 : x64IDT_INIT[k] = [op |-> "mask", line |-> k - 14]
  BY <1>22, <1>23
<1>29. \A k \in 2..13 : x64IDT_INIT[k] = PIC_remap({5}, {3, 5})[k - 1]
  BY <1>26 DEF r
<1> QED
  BY <1>2, <1>5, <1>6, <1>7, <1>8, <1>20, <1>21, <1>27, <1>28, <1>29, Zenon

\* fillIDT, in 36.
LEMMA KernelIs ==
  /\ fillIDT \in Seq(Instruction)
  /\ Len(fillIDT) = 36
  /\ fillIDT[1].op = "cli"
  /\ \A k \in 2..17 : fillIDT[k] = [op |-> "gate", table |-> "kernel",
                                    vectors |-> {30 + k}, handler |-> k - 2]
  /\ fillIDT[18].op = "exceptions"
  /\ fillIDT[19] = [op |-> "lidt", table |-> "kernel"]
  /\ \A k \in 20..35 : fillIDT[k] = [op |-> "unmask", line |-> k - 20]
  /\ fillIDT[36].op = "sti"
<1> DEFINE a == Do("cli")
           g == setInterruptEntries
           x == setExceptionEntries
           e == <<[op |-> "lidt", table |-> "kernel"]>>
           u == ForAllLines("unmask")
           f == Do("sti")
           ag == a \o g
           agx == ag \o x
           agxe == agx \o e
           agxeu == agxe \o u
<1>1. fillIDT = agxeu \o f
  BY DEF fillIDT
<1>2. a \in Seq(Instruction) /\ Len(a) = 1 /\ a[1].op = "cli"
  BY DEF Do, Instruction
<1>3. x \in Seq(Instruction) /\ Len(x) = 1 /\ x[1].op = "exceptions"
  BY DEF setExceptionEntries, Instruction
<1>4. /\ e \in Seq(Instruction) /\ Len(e) = 1
      /\ e[1] = [op |-> "lidt", table |-> "kernel"]
  BY DEF Instruction
<1>5. f \in Seq(Instruction) /\ Len(f) = 1 /\ f[1].op = "sti"
  BY DEF Do, Instruction
<1>6. /\ g \in Seq(Instruction) /\ Len(g) = 16
      /\ \A i \in 1..16 : g[i] = [op |-> "gate", table |-> "kernel",
                                  vectors |-> {31 + i}, handler |-> i - 1]
  BY DEF setInterruptEntries, InterruptVector, Instruction, Vectors
<1>7. /\ u \in Seq(Instruction) /\ Len(u) = 16
      /\ \A i \in 1..16 : u[i] = [op |-> "unmask", line |-> i - 1]
  BY LinesAre
<1> HIDE DEF a, g, x, e, u, f
<1>8. Joined(a, g, ag)
  BY <1>2, <1>6, Join
<1> HIDE DEF ag
<1>9. ag \in Seq(Instruction) /\ Len(ag) = 17
  BY <1>2, <1>6, <1>8 DEF Joined
<1>10. Joined(ag, x, agx)
  BY <1>3, <1>9, Join
<1> HIDE DEF agx
<1>11. agx \in Seq(Instruction) /\ Len(agx) = 18
  BY <1>3, <1>9, <1>10 DEF Joined
<1>12. Joined(agx, e, agxe)
  BY <1>4, <1>11, Join
<1> HIDE DEF agxe
<1>13. agxe \in Seq(Instruction) /\ Len(agxe) = 19
  BY <1>4, <1>11, <1>12 DEF Joined
<1>14. Joined(agxe, u, agxeu)
  BY <1>7, <1>13, Join
<1> HIDE DEF agxeu
<1>15. agxeu \in Seq(Instruction) /\ Len(agxeu) = 35
  BY <1>7, <1>13, <1>14 DEF Joined
<1>16. Joined(agxeu, f, fillIDT)
  BY <1>1, <1>5, <1>15, Join
<1>17. fillIDT \in Seq(Instruction) /\ Len(fillIDT) = 36
  BY <1>5, <1>15, <1>16 DEF Joined
<1>18. fillIDT[36] = f[1] /\ \A k \in 1..35 : fillIDT[k] = agxeu[k]
  BY <1>5, <1>15, <1>16 DEF Joined
<1>19. /\ \A k \in 1..19 : agxeu[k] = agxe[k]
       /\ \A k \in 20..35 : agxeu[k] = [op |-> "unmask", line |-> k - 20]
  BY <1>7, <1>13, <1>14 DEF Joined
<1>20. /\ agxe[19] = e[1] /\ agxe[18] = x[1]
       /\ \A k \in 1..17 : agxe[k] = ag[k]
  BY <1>3, <1>4, <1>9, <1>10, <1>11, <1>12 DEF Joined
<1>21. /\ ag[1] = a[1]
       /\ \A k \in 2..17 : ag[k] = [op |-> "gate", table |-> "kernel",
                                    vectors |-> {30 + k}, handler |-> k - 2]
  <2>1. ag[1] = a[1] /\ \A k \in 2..17 : ag[k] = g[k - 1]
    BY <1>2, <1>6, <1>8 DEF Joined
  <2>2. ASSUME NEW k \in 2..17
        PROVE  ag[k] = [op |-> "gate", table |-> "kernel",
                        vectors |-> {30 + k}, handler |-> k - 2]
    <3>1. k - 1 \in 1..16 /\ 31 + (k - 1) = 30 + k /\ (k - 1) - 1 = k - 2
      OBVIOUS
    <3> QED BY <1>6, <2>1, <3>1
  <2> QED BY <2>1, <2>2
<1>22. \A k \in 1..19 : fillIDT[k] = agxe[k]
  BY <1>18, <1>19
<1>23. /\ fillIDT[1] = a[1] /\ fillIDT[18] = x[1] /\ fillIDT[19] = e[1]
       /\ \A k \in 2..17 : fillIDT[k] = ag[k]
  BY <1>20, <1>21, <1>22
<1>24. \A k \in 20..35 : fillIDT[k] = [op |-> "unmask", line |-> k - 20]
  BY <1>18, <1>19
<1>25. \A k \in 2..17 : fillIDT[k] = [op |-> "gate", table |-> "kernel",
                                     vectors |-> {30 + k}, handler |-> k - 2]
  BY <1>21, <1>23
<1> QED
  BY <1>2, <1>3, <1>4, <1>5, <1>17, <1>18, <1>23, <1>24, <1>25, Zenon

\* All of set-up.
Program == x64IDT_INIT \o fillIDT

\* Every instruction of it.
LEMMA ProgramIs ==
  /\ Program \in Seq(Instruction)
  /\ Len(Program) = 69
  /\ Program[1] = [op |-> "gate", table |-> "boot",
                   vectors |-> Vectors, handler |-> common_ISR]
  /\ \A k \in 2..13 : Program[k] = PIC_remap({5}, {3, 5})[k - 1]
  /\ \A k \in 14..29 : Program[k] = [op |-> "mask", line |-> k - 14]
  /\ Program[30] = [op |-> "gate", table |-> "boot",
                    vectors |-> {38}, handler |-> ISR6]
  /\ Program[31] = [op |-> "unmask", line |-> 6]
  /\ Program[32] = [op |-> "lidt", table |-> "boot"]
  /\ Program[33].op = "sti"
  /\ Program[34].op = "cli"
  /\ \A k \in 35..50 : Program[k] = [op |-> "gate", table |-> "kernel",
                                     vectors |-> {k - 3}, handler |-> k - 35]
  /\ Program[51].op = "exceptions"
  /\ Program[52] = [op |-> "lidt", table |-> "kernel"]
  /\ \A k \in 53..68 : Program[k] = [op |-> "unmask", line |-> k - 53]
  /\ Program[69].op = "sti"
<1>1. Joined(x64IDT_INIT, fillIDT, Program)
  BY BootIs, KernelIs, Join DEF Program
<1>2. Program \in Seq(Instruction) /\ Len(Program) = 69
  BY <1>1, BootIs, KernelIs DEF Joined
<1>3. \A k \in 1..33 : Program[k] = x64IDT_INIT[k]
  <2>1. Len(x64IDT_INIT) = 33 /\ Len(fillIDT) = 36
    BY BootIs, KernelIs, Zenon
  <2> QED BY <1>1, <2>1 DEF Joined
<1>4. \A k \in 34..69 : Program[k] = fillIDT[k - 33]
  <2> TAKE k \in 34..69
  <2>1. Len(x64IDT_INIT) = 33 /\ Len(fillIDT) = 36
    BY BootIs, KernelIs, Zenon
  <2>2. /\ k \in Len(x64IDT_INIT) + 1 .. Len(x64IDT_INIT) + Len(fillIDT)
        /\ k - Len(x64IDT_INIT) = k - 33
    BY <2>1
  <2> QED BY <1>1, <2>2, Zenon DEF Joined
<1>5. \A k \in 35..50 : Program[k] = [op |-> "gate", table |-> "kernel",
                                     vectors |-> {k - 3}, handler |-> k - 35]
  <2> TAKE k \in 35..50
  <2>1. /\ k - 33 \in 2..17 /\ k \in 34..69
        /\ 30 + (k - 33) = k - 3 /\ (k - 33) - 2 = k - 35
    OBVIOUS
  <2> QED BY <1>4, <2>1, KernelIs
<1>6. \A k \in 53..68 : Program[k] = [op |-> "unmask", line |-> k - 53]
  <2> TAKE k \in 53..68
  <2>1. k - 33 \in 20..35 /\ k \in 34..69 /\ (k - 33) - 20 = k - 53
    OBVIOUS
  <2> QED BY <1>4, <2>1, KernelIs
<1>7. \A k \in 2..13 : Program[k] = PIC_remap({5}, {3, 5})[k - 1]
  <2> TAKE k \in 2..13
  <2>1. k \in 1..33
    OBVIOUS
  <2> QED BY <1>3, <2>1, BootIs, Zenon
<1>8. \A k \in 14..29 : Program[k] = [op |-> "mask", line |-> k - 14]
  <2> TAKE k \in 14..29
  <2>1. k \in 1..33
    OBVIOUS
  <2> QED BY <1>3, <2>1, BootIs, Zenon
<1>9. /\ Program[1] = x64IDT_INIT[1] /\ Program[30] = x64IDT_INIT[30]
      /\ Program[31] = x64IDT_INIT[31] /\ Program[32] = x64IDT_INIT[32]
      /\ Program[33] = x64IDT_INIT[33]
  BY <1>3
<1>10. /\ Program[34] = fillIDT[1] /\ Program[51] = fillIDT[18]
       /\ Program[52] = fillIDT[19] /\ Program[69] = fillIDT[36]
  BY <1>4
<1> QED
  BY <1>2, <1>5, <1>6, <1>7, <1>8, <1>9, <1>10, BootIs, KernelIs, Zenon

(***************************************************************************)
(* The inductive invariant.  Set-up has no counter of its own: Reached(k)  *)
(* says that k of its 69 instructions are done, and StateAt(k) what tables, *)
(* 8259s and processor are like then.                                      *)
(***************************************************************************)
Reached(k) == todo = SubSeq(Program, k + 1, 69)

Handlers == Lines \cup {Nothing, common_ISR, ISR6}
              \cup {Exc(e) : e \in Exceptions}

Typed ==
    /\ iflag \in BOOLEAN /\ irq6 \in BOOLEAN
    /\ gates \in [{"bios", "boot", "kernel"} -> [Vectors -> Handlers]]
    /\ offset \in [Pics -> Nat]
    /\ icw \in [Pics -> 0..3]
    /\ imr \in [Pics -> SUBSET Pins]
    /\ saved \in [Pics -> SUBSET Pins]
    /\ irr \subseteq Lines /\ isrs \subseteq Lines
    /\ countPIT \in 0..MaxTicks /\ until \in 0..MaxTicks
    /\ main \in {"run", "sleep", "exc", "panic"}

\* Which gates are written, and which table is loaded.
TablesAt(k) ==
    /\ k >= 1 => \A v \in Vectors :
         gates["boot"][v] = IF k >= 30 /\ v = 38 THEN ISR6 ELSE common_ISR
    /\ \A n \in Lines : k >= 35 + n => gates["kernel"][32 + n] = n
    /\ idt = IF k < 32 THEN "bios" ELSE IF k < 52 THEN "boot" ELSE "kernel"

\* How many initialisation words each 8259 expects, and the offset it has got.
WordsAt(k) ==
    /\ icw[1] = IF k < 4 \/ k >= 10 THEN 0
                ELSE IF k < 6 THEN 3 ELSE IF k < 8 THEN 2 ELSE 1
    /\ icw[2] = IF k < 5 \/ k >= 11 THEN 0
                ELSE IF k < 7 THEN 3 ELSE IF k < 9 THEN 2 ELSE 1
    /\ k >= 6 => offset[1] = 32
    /\ k >= 7 => offset[2] = 40

\* Both masks: the BIOS's, saved, lost, restored, then closed line by line
\* and opened for the floppy alone.
MasksAt(k) ==
    /\ k < 4 => imr[1] \in {{}, {7}} /\ imr[2] = Pins
    /\ k >= 2 => saved[1] \in {{}, {7}}
    /\ k >= 3 => saved[2] = Pins
    /\ k \in 12..13 => imr[1] = saved[1]
    /\ k = 13 => imr[2] = saved[2]
    /\ k \in 14..30 => \A n \in Lines :
                         n < k - 13 => PinOf(n) \in imr[PicOf(n)]
    /\ k \in 31..52 => imr[1] = Pins \ {6} /\ imr[2] = Pins

RunsAt(k) ==
    /\ iflag => k \in {33, 69}
    /\ main # "run" => k = 69
    /\ main = "panic" => ~iflag

StateAt(k) == /\ Typed /\ Acknowledged
              /\ Reached(k)
              /\ TablesAt(k) /\ WordsAt(k) /\ MasksAt(k) /\ RunsAt(k)

IInv == \E k \in 0..69 : StateAt(k)

-----------------------------------------------------------------------------
(***************************************************************************)
(* One instruction of set-up.                                              *)
(***************************************************************************)
\* The kind of each instruction.
LEMMA OpAt ==
  ASSUME NEW k \in 1..69
  PROVE  Program[k].op =
           IF k \in {1, 30} \cup 35..50 THEN "gate"
           ELSE IF k \in {2, 3} THEN "save"
           ELSE IF k \in {4, 5} THEN "icw1"
           ELSE IF k \in 6..11 THEN "data"
           ELSE IF k \in {12, 13} THEN "restore"
           ELSE IF k \in 14..29 THEN "mask"
           ELSE IF k \in {31} \cup 53..68 THEN "unmask"
           ELSE IF k \in {32, 52} THEN "lidt"
           ELSE IF k \in {33, 69} THEN "sti"
           ELSE IF k = 34 THEN "cli" ELSE "exceptions"
<1>1. CASE k \in 2..13
  <2> DEFINE r == PIC_remap({5}, {3, 5})
  <2>1. Program[k] = r[k - 1]
    BY <1>1, ProgramIs, Zenon
  <2>2. {5} \in SUBSET Pins /\ {3, 5} \in SUBSET Pins
    BY DEF Pins
  <2>3. /\ r[1] = [op |-> "save", pic |-> 1]
        /\ r[2] = [op |-> "save", pic |-> 2]
        /\ r[3] = [op |-> "icw1", pic |-> 1]
        /\ r[4] = [op |-> "icw1", pic |-> 2]
        /\ r[5] = [op |-> "data", pic |-> 1, bits |-> {5}]
        /\ r[6] = [op |-> "data", pic |-> 2, bits |-> {3, 5}]
        /\ r[7].op = "data" /\ r[8].op = "data"
        /\ r[9].op = "data" /\ r[10].op = "data"
        /\ r[11] = [op |-> "restore", pic |-> 1]
        /\ r[12] = [op |-> "restore", pic |-> 2]
    BY <2>2, RemapIs, Zenon
  <2> HIDE DEF r
  <2>4. /\ r[1].op = "save" /\ r[2].op = "save"
        /\ r[3].op = "icw1" /\ r[4].op = "icw1"
        /\ r[5].op = "data" /\ r[6].op = "data"
        /\ r[11].op = "restore" /\ r[12].op = "restore"
    BY <2>3
  <2>5. k - 1 \in 1..12
    BY <1>1
  <2> QED BY <1>1, <2>1, <2>3, <2>4, <2>5
<1>2. CASE k \in 14..29
  <2>1. Program[k] = [op |-> "mask", line |-> k - 14]
    BY <1>2, ProgramIs, Zenon
  <2> QED BY <1>2, <2>1
<1>3. CASE k \in 35..50
  <2>1. Program[k] = [op |-> "gate", table |-> "kernel",
                      vectors |-> {k - 3}, handler |-> k - 35]
    BY <1>3, ProgramIs, Zenon
  <2> QED BY <1>3, <2>1
<1>4. CASE k \in 53..68
  <2>1. Program[k] = [op |-> "unmask", line |-> k - 53]
    BY <1>4, ProgramIs, Zenon
  <2> QED BY <1>4, <2>1
<1>5. CASE k \in {1, 30, 31, 32, 33, 34, 51, 52, 69}
  <2>1. /\ Program[1] = [op |-> "gate", table |-> "boot",
                         vectors |-> Vectors, handler |-> common_ISR]
        /\ Program[30] = [op |-> "gate", table |-> "boot",
                          vectors |-> {38}, handler |-> ISR6]
        /\ Program[31] = [op |-> "unmask", line |-> 6]
        /\ Program[32] = [op |-> "lidt", table |-> "boot"]
        /\ Program[33].op = "sti" /\ Program[34].op = "cli"
        /\ Program[51].op = "exceptions"
        /\ Program[52] = [op |-> "lidt", table |-> "kernel"]
        /\ Program[69].op = "sti"
    BY ProgramIs, Zenon
  <2> QED BY <1>5, <2>1
<1> QED BY <1>1, <1>2, <1>3, <1>4, <1>5

\* An action of set-up executes the next instruction.
LEMMA Executes ==
  ASSUME NEW k \in 0..69, Reached(k), NEW op, Next1(op)
  PROVE  /\ k \in 0..68
         /\ Head(todo) = Program[k + 1] /\ Program[k + 1].op = op
         /\ Reached(k + 1)'
<1>1. k # 69
  <2>1. ASSUME k = 69 PROVE FALSE
    BY <2>1, SubSeqEmpty DEF Reached, Next1
  <2> QED BY <2>1
<1>2. /\ Program \in Seq(Instruction)
      /\ k + 1 \in 1..Len(Program) /\ 69 \in k + 1 .. Len(Program)
  <2>1. Program \in Seq(Instruction) /\ Len(Program) = 69
    BY ProgramIs, Zenon
  <2> QED BY <1>1, <2>1
<1>3. /\ Head(SubSeq(Program, k + 1, 69)) = Program[k + 1]
      /\ Tail(SubSeq(Program, k + 1, 69)) = SubSeq(Program, (k + 1) + 1, 69)
  BY <1>2, HeadTailOfSubSeq
<1> QED BY <1>1, <1>3 DEF Reached, Next1

\* Interrupts are off at every instruction but cli, and main code only runs.
LEMMA Quiet ==
  ASSUME NEW k \in 0..69, StateAt(k), NEW op, Next1(op)
  PROVE  /\ main = "run"
         /\ op # "cli" => ~iflag
<1>1. k \in 0..68 /\ Program[k + 1].op = op
  BY Executes DEF StateAt
<1>2. main = "run"
  BY <1>1 DEF StateAt, RunsAt
<1>3. ASSUME iflag, op # "cli" PROVE FALSE
  <2>1. k = 33
    BY <1>1, <1>3 DEF StateAt, RunsAt
  <2>2. Program[34].op = "cli"
    BY ProgramIs, Zenon
  <2> QED BY <1>1, <1>3, <2>1, <2>2
<1> QED BY <1>2, <1>3 DEF StateAt, Typed

\* The first gates of the boot loader, the floppy's, and the kernel's sixteen.
LEMMA SetGateStep ==
  ASSUME NEW k \in 0..69, StateAt(k), SetGate
  PROVE  k + 1 \in 0..69 /\ StateAt(k + 1)'
<1>1. Next1("gate")
  BY DEF SetGate
<1>2. /\ k \in 0..68 /\ Reached(k + 1)'
      /\ Head(todo) = Program[k + 1] /\ Program[k + 1].op = "gate"
  BY <1>1, Executes DEF StateAt
<1>3. k + 1 \in {1, 30} \cup 35..50
  <2>1. k + 1 \in 1..69
    BY <1>2
  <2> QED BY <1>2, <2>1, OpAt
<1>4. ~iflag /\ main = "run"
  <2>1. "gate" # "cli"
    OBVIOUS
  <2> QED BY <1>1, <2>1, Quiet
<1>5. /\ UNCHANGED <<iflag, idt, offset, icw, imr, inService, saved, irr,
                     irq6, isrs, countPIT, main, until>>
      /\ gates' = [gates EXCEPT ![Head(todo).table] =
                     [v \in Vectors |->
                        IF v \in Head(todo).vectors THEN Head(todo).handler
                        ELSE @[v]]]
  BY DEF SetGate, pic, kernel
<1>6. RunsAt(k + 1)'
  BY <1>4, <1>5 DEF RunsAt
<1>7. WordsAt(k + 1)' /\ MasksAt(k + 1)'
  <2>1. WordsAt(k + 1)'
    BY <1>2, <1>3, <1>5 DEF StateAt, WordsAt
  <2>2. CASE k + 1 # 30
    BY <1>2, <1>3, <1>5, <2>1, <2>2 DEF StateAt, MasksAt
  <2>3. CASE k + 1 = 30
    BY <1>2, <1>5, <2>1, <2>3 DEF StateAt, MasksAt, Lines
  <2> QED BY <2>1, <2>2, <2>3
<1>8. gates' \in [{"bios", "boot", "kernel"} -> [Vectors -> Handlers]]
      /\ TablesAt(k + 1)'
  <2>1. CASE k + 1 = 1
    <3>0. Head(todo) = Program[1]
      BY <1>2, <2>1, Zenon
    <3>1. Head(todo) = [op |-> "gate", table |-> "boot",
                        vectors |-> Vectors, handler |-> common_ISR]
      BY <3>0, ProgramIs, Zenon
    <3> QED BY <1>2, <1>5, <2>1, <3>1
            DEF StateAt, Typed, TablesAt, Handlers, Lines
  <2>2. CASE k + 1 = 30
    <3>0. Head(todo) = Program[30]
      BY <1>2, <2>2, Zenon
    <3>1. Head(todo) = [op |-> "gate", table |-> "boot",
                        vectors |-> {38}, handler |-> ISR6]
      BY <3>0, ProgramIs, Zenon
    <3> QED BY <1>2, <1>5, <2>2, <3>1
            DEF StateAt, Typed, TablesAt, Handlers, Lines
  <2>3. CASE k + 1 \in 35..50
    <3>1. Head(todo) = [op |-> "gate", table |-> "kernel",
                        vectors |-> {(k + 1) - 3}, handler |-> (k + 1) - 35]
      BY <1>2, <2>3, ProgramIs, Zenon
    <3>2. (k + 1) - 35 \in Lines /\ (k + 1) - 3 \in Vectors
      BY <1>2, <2>3 DEF Lines, Vectors
    <3>3. gates' \in [{"bios", "boot", "kernel"} -> [Vectors -> Handlers]]
      BY <1>5, <3>1, <3>2 DEF StateAt, Typed, Handlers
    <3>4. /\ gates'["boot"] = gates["boot"]
          /\ \A v \in Vectors : gates'["kernel"][v] =
               IF v = (k + 1) - 3 THEN (k + 1) - 35 ELSE gates["kernel"][v]
      BY <1>5, <3>1 DEF StateAt, Typed
    <3>5. \A v \in Vectors : gates'["boot"][v] =
            IF k + 1 >= 30 /\ v = 38 THEN ISR6 ELSE common_ISR
      BY <1>2, <2>3, <3>4 DEF StateAt, TablesAt
    <3>6. \A n \in Lines : k + 1 >= 35 + n => gates'["kernel"][32 + n] = n
      <4> TAKE n \in Lines
      <4> HAVE k + 1 >= 35 + n
      <4>1. 32 + n \in Vectors
        BY DEF Lines, Vectors
      <4>2. CASE n = (k + 1) - 35
        <5>1. 32 + n = (k + 1) - 3
          BY <1>2, <4>2
        <5> QED BY <3>4, <4>1, <4>2, <5>1
      <4>3. CASE n # (k + 1) - 35
        <5>1. 32 + n # (k + 1) - 3 /\ k >= 35 + n
          BY <1>2, <4>3 DEF Lines
        <5> QED BY <3>4, <4>1, <5>1 DEF StateAt, TablesAt
      <4> QED BY <4>2, <4>3
    <3>7. idt' = "boot"
      BY <1>2, <1>5, <2>3 DEF StateAt, TablesAt
    <3> QED BY <1>2, <2>3, <3>3, <3>5, <3>6, <3>7 DEF TablesAt
  <2> QED BY <1>3, <2>1, <2>2, <2>3
<1>9. Typed' /\ Acknowledged'
  BY <1>5, <1>8 DEF StateAt, Typed, Acknowledged
<1> QED BY <1>2, <1>6, <1>7, <1>8, <1>9 DEF StateAt

\* The exceptions' gates do not touch the sixteen.
LEMMA SetExceptionsStep ==
  ASSUME NEW k \in 0..69, StateAt(k), SetExceptions
  PROVE  k + 1 \in 0..69 /\ StateAt(k + 1)'
<1>1. Next1("exceptions")
  BY DEF SetExceptions
<1>2. k \in 0..68 /\ Reached(k + 1)' /\ Program[k + 1].op = "exceptions"
  BY <1>1, Executes DEF StateAt
<1>3. k = 50
  <2>1. k + 1 \in 1..69
    BY <1>2
  <2> QED BY <1>2, <2>1, OpAt
<1>4. ~iflag /\ main = "run"
  <2>1. "exceptions" # "cli"
    OBVIOUS
  <2> QED BY <1>1, <2>1, Quiet
<1>5. /\ UNCHANGED <<iflag, idt, offset, icw, imr, inService, saved, irr,
                     irq6, isrs, countPIT, main, until>>
      /\ gates' = [gates EXCEPT !["kernel"] =
                     [v \in Vectors |-> IF v \in Exceptions THEN Exc(v)
                                        ELSE @[v]]]
  BY DEF SetExceptions, pic, kernel
<1>6. RunsAt(k + 1)'
  BY <1>4, <1>5 DEF RunsAt
<1>7. WordsAt(k + 1)' /\ MasksAt(k + 1)'
  BY <1>3, <1>5 DEF StateAt, WordsAt, MasksAt
<1>8. gates' \in [{"bios", "boot", "kernel"} -> [Vectors -> Handlers]]
  BY <1>5 DEF StateAt, Typed, Handlers
<1>9. TablesAt(k + 1)'
  BY <1>3, <1>5 DEF StateAt, Typed, TablesAt, Exceptions, Lines, Vectors
<1>10. Typed' /\ Acknowledged'
  BY <1>5, <1>8 DEF StateAt, Typed, Acknowledged
<1> QED BY <1>2, <1>6, <1>7, <1>9, <1>10 DEF StateAt

\* Each table is loaded when it is complete.
LEMMA lidtStep ==
  ASSUME NEW k \in 0..69, StateAt(k), lidt
  PROVE  k + 1 \in 0..69 /\ StateAt(k + 1)'
<1>1. Next1("lidt")
  BY DEF lidt
<1>2. /\ k \in 0..68 /\ Reached(k + 1)'
      /\ Head(todo) = Program[k + 1] /\ Program[k + 1].op = "lidt"
  BY <1>1, Executes DEF StateAt
<1>3. k + 1 \in {32, 52}
  <2>1. k + 1 \in 1..69
    BY <1>2
  <2> QED BY <1>2, <2>1, OpAt
<1>4. ~iflag /\ main = "run"
  <2>1. "lidt" # "cli"
    OBVIOUS
  <2> QED BY <1>1, <2>1, Quiet
<1>5. /\ UNCHANGED <<iflag, gates, offset, icw, imr, inService, saved, irr,
                     irq6, isrs, countPIT, main, until>>
      /\ idt' = Head(todo).table
  BY DEF lidt, pic, kernel
<1>6. idt' = IF k + 1 = 32 THEN "boot" ELSE "kernel"
  <2>1. /\ Program[32] = [op |-> "lidt", table |-> "boot"]
        /\ Program[52] = [op |-> "lidt", table |-> "kernel"]
    BY ProgramIs, Zenon
  <2> QED BY <1>2, <1>3, <1>5, <2>1
<1>7. RunsAt(k + 1)'
  BY <1>4, <1>5 DEF RunsAt
<1>8. WordsAt(k + 1)' /\ MasksAt(k + 1)' /\ TablesAt(k + 1)'
  BY <1>2, <1>3, <1>5, <1>6 DEF StateAt, WordsAt, MasksAt, TablesAt, Lines
<1>9. Typed' /\ Acknowledged'
  BY <1>5 DEF StateAt, Typed, Acknowledged
<1> QED BY <1>2, <1>7, <1>8, <1>9 DEF StateAt

\* sti comes after the last unmasking, twice.
LEMMA FlagStep ==
  ASSUME NEW k \in 0..69, StateAt(k), NEW on \in BOOLEAN, Flag(on)
  PROVE  k + 1 \in 0..69 /\ StateAt(k + 1)'
<1>1. Next1(IF on THEN "sti" ELSE "cli")
  BY DEF Flag
<1>2. /\ k \in 0..68 /\ Reached(k + 1)'
      /\ Program[k + 1].op = IF on THEN "sti" ELSE "cli"
  BY <1>1, Executes DEF StateAt
<1>3. k + 1 \in 1..69
  BY <1>2
<1>4. IF on THEN k + 1 \in {33, 69} ELSE k + 1 = 34
  BY <1>2, <1>3, OpAt
<1>5. /\ UNCHANGED <<gates, idt, offset, icw, imr, inService, saved, irr,
                     irq6, isrs, countPIT, main, until>>
      /\ iflag' = on
  BY DEF Flag, pic, kernel
<1>6. main = "run"
  BY <1>1, Quiet
<1>7. RunsAt(k + 1)'
  BY <1>4, <1>5, <1>6 DEF RunsAt
<1>8. WordsAt(k + 1)' /\ MasksAt(k + 1)' /\ TablesAt(k + 1)'
  BY <1>2, <1>4, <1>5 DEF StateAt, WordsAt, MasksAt, TablesAt, Lines
<1>9. Typed' /\ Acknowledged'
  BY <1>5 DEF StateAt, Typed, Acknowledged
<1> QED BY <1>2, <1>7, <1>8, <1>9 DEF StateAt

-----------------------------------------------------------------------------
(***************************************************************************)
(* The instructions of PIC_remap and those that change masks.              *)
(***************************************************************************)
\* PIC_remap's place in set-up.
LEMMA RemapAt ==
  /\ Program[2] = [op |-> "save", pic |-> 1]
  /\ Program[3] = [op |-> "save", pic |-> 2]
  /\ Program[4] = [op |-> "icw1", pic |-> 1]
  /\ Program[5] = [op |-> "icw1", pic |-> 2]
  /\ Program[6] = [op |-> "data", pic |-> 1, bits |-> {5}]
  /\ Program[7] = [op |-> "data", pic |-> 2, bits |-> {3, 5}]
  /\ Program[8].pic = 1 /\ Program[9].pic = 2
  /\ Program[10].pic = 1 /\ Program[11].pic = 2
  /\ Program[12] = [op |-> "restore", pic |-> 1]
  /\ Program[13] = [op |-> "restore", pic |-> 2]
<1> DEFINE r == PIC_remap({5}, {3, 5})
<1>1. {5} \in SUBSET Pins /\ {3, 5} \in SUBSET Pins
  BY DEF Pins
<1>2. /\ r[1] = [op |-> "save", pic |-> 1]
      /\ r[2] = [op |-> "save", pic |-> 2]
      /\ r[3] = [op |-> "icw1", pic |-> 1]
      /\ r[4] = [op |-> "icw1", pic |-> 2]
      /\ r[5] = [op |-> "data", pic |-> 1, bits |-> {5}]
      /\ r[6] = [op |-> "data", pic |-> 2, bits |-> {3, 5}]
      /\ r[7].pic = 1 /\ r[8].pic = 2 /\ r[9].pic = 1 /\ r[10].pic = 2
      /\ r[11] = [op |-> "restore", pic |-> 1]
      /\ r[12] = [op |-> "restore", pic |-> 2]
  BY <1>1, RemapIs, Zenon
<1>3. \A k \in 2..13 : Program[k] = r[k - 1]
  BY ProgramIs, Zenon
<1> HIDE DEF r
<1>4. /\ Program[2] = r[1] /\ Program[3] = r[2] /\ Program[4] = r[3]
      /\ Program[5] = r[4] /\ Program[6] = r[5] /\ Program[7] = r[6]
      /\ Program[8] = r[7] /\ Program[9] = r[8] /\ Program[10] = r[9]
      /\ Program[11] = r[10] /\ Program[12] = r[11] /\ Program[13] = r[12]
  BY <1>3
<1> QED BY <1>2, <1>4, Zenon

\* The two offsets, as bytes.
LEMMA Bytes == /\ ByteOf({5}) = 32 /\ ByteOf({3, 5}) = 40
               /\ \A bits : ByteOf(bits) \in Nat
BY DEF ByteOf

\* The masks are saved before ICW1 clears them.
LEMMA SaveMaskStep ==
  ASSUME NEW k \in 0..69, StateAt(k), SaveMask
  PROVE  k + 1 \in 0..69 /\ StateAt(k + 1)'
<1>1. Next1("save")
  BY DEF SaveMask
<1>2. /\ k \in 0..68 /\ Reached(k + 1)'
      /\ Head(todo) = Program[k + 1] /\ Program[k + 1].op = "save"
  BY <1>1, Executes DEF StateAt
<1>3. k + 1 \in {2, 3}
  <2>1. k + 1 \in 1..69
    BY <1>2
  <2> QED BY <1>2, <2>1, OpAt
<1>4. ~iflag /\ main = "run"
  <2>1. "save" # "cli"
    OBVIOUS
  <2> QED BY <1>1, <2>1, Quiet
<1>5. /\ UNCHANGED <<iflag, gates, idt, offset, icw, imr, inService, irr,
                     irq6, isrs, countPIT, main, until>>
      /\ saved' = [saved EXCEPT ![Head(todo).pic] = imr[Head(todo).pic]]
  BY DEF SaveMask, cpu, pic, kernel
<1>6. Head(todo).pic = IF k + 1 = 2 THEN 1 ELSE 2
  BY <1>2, <1>3, RemapAt
<1>7. RunsAt(k + 1)'
  BY <1>4, <1>5 DEF RunsAt
<1>8. WordsAt(k + 1)' /\ TablesAt(k + 1)'
  BY <1>2, <1>3, <1>5 DEF StateAt, WordsAt, TablesAt, Lines
<1>9. Typed' /\ Acknowledged'
  BY <1>5, <1>6 DEF StateAt, Typed, Acknowledged, Pics
<1>10. MasksAt(k + 1)'
  BY <1>2, <1>3, <1>5, <1>6 DEF StateAt, MasksAt, Typed, Pics
<1> QED BY <1>2, <1>7, <1>8, <1>9, <1>10 DEF StateAt

\* ICW1 starts an initialisation: three words to come.
LEMMA Icw1Step ==
  ASSUME NEW k \in 0..69, StateAt(k), Icw1
  PROVE  k + 1 \in 0..69 /\ StateAt(k + 1)'
<1>1. Next1("icw1")
  BY DEF Icw1
<1>2. /\ k \in 0..68 /\ Reached(k + 1)'
      /\ Head(todo) = Program[k + 1] /\ Program[k + 1].op = "icw1"
  BY <1>1, Executes DEF StateAt
<1>3. k + 1 \in {4, 5}
  <2>1. k + 1 \in 1..69
    BY <1>2
  <2> QED BY <1>2, <2>1, OpAt
<1>4. ~iflag /\ main = "run"
  <2>1. "icw1" # "cli"
    OBVIOUS
  <2> QED BY <1>1, <2>1, Quiet
<1> DEFINE p == Head(todo).pic
<1>5. /\ UNCHANGED <<iflag, gates, idt, offset, saved,
                     irq6, isrs, countPIT, main, until>>
      /\ icw' = [icw EXCEPT ![p] = 3]
      /\ imr' = [imr EXCEPT ![p] = {}]
      /\ inService' = [inService EXCEPT ![p] = {}]
      /\ irr' = {i \in irr : PicOf(i) # p}
  BY DEF Icw1, cpu, kernel
<1>6. p = IF k + 1 = 4 THEN 1 ELSE 2
  BY <1>2, <1>3, RemapAt
<1> HIDE DEF p
<1>7. RunsAt(k + 1)'
  BY <1>4, <1>5 DEF RunsAt
<1>8. WordsAt(k + 1)' /\ TablesAt(k + 1)'
  BY <1>2, <1>3, <1>5, <1>6
     DEF StateAt, WordsAt, TablesAt, Lines, Typed, Pics
<1>9. Typed'
  BY <1>3, <1>5, <1>6 DEF StateAt, Typed, Pics
<1>10. Acknowledged'
  BY <1>3, <1>5, <1>6 DEF StateAt, Acknowledged
<1>11. MasksAt(k + 1)'
  BY <1>2, <1>3, <1>5, <1>6 DEF StateAt, MasksAt, Typed, Pics
<1> QED BY <1>2, <1>7, <1>8, <1>9, <1>10, <1>11 DEF StateAt

\* Each of the six words is taken for a word, and the first for the offset.
LEMMA SendWordStep ==
  ASSUME NEW k \in 0..69, StateAt(k), SendWord
  PROVE  k + 1 \in 0..69 /\ StateAt(k + 1)'
<1> DEFINE p == Head(todo).pic
           b == Head(todo).bits
<1>1. Next1("data") /\ DataPort(p, b)
  BY DEF SendWord
<1>2. /\ k \in 0..68 /\ Reached(k + 1)'
      /\ Head(todo) = Program[k + 1] /\ Program[k + 1].op = "data"
  BY <1>1, Executes DEF StateAt
<1>3. k + 1 \in 6..11
  <2>1. k + 1 \in 1..69
    BY <1>2
  <2> QED BY <1>2, <2>1, OpAt
<1>4. ~iflag /\ main = "run"
  <2>1. "data" # "cli"
    OBVIOUS
  <2> QED BY <1>1, <2>1, Quiet
<1>5. p = IF k + 1 \in {6, 8, 10} THEN 1 ELSE 2
  BY <1>2, <1>3, RemapAt
<1>6. (k + 1 = 6 => b = {5}) /\ (k + 1 = 7 => b = {3, 5})
  BY <1>2, RemapAt
<1>7. /\ UNCHANGED <<iflag, gates, idt, inService, saved, irr, irq6,
                     isrs, countPIT, main, until>>
      /\ offset' = IF icw[p] = 3
                   THEN [offset EXCEPT ![p] = ByteOf(b)] ELSE offset
      /\ imr' = IF icw[p] = 0 THEN [imr EXCEPT ![p] = b] ELSE imr
      /\ icw' = IF icw[p] = 0 THEN icw ELSE [icw EXCEPT ![p] = @ - 1]
  BY <1>1 DEF DataPort, cpu, kernel
<1> HIDE DEF p, b
<1>8. icw[p] = IF k + 1 \in {6, 7} THEN 3
               ELSE IF k + 1 \in {8, 9} THEN 2 ELSE 1
  BY <1>2, <1>3, <1>5 DEF StateAt, WordsAt
<1>9. /\ imr' = imr /\ icw' = [icw EXCEPT ![p] = @ - 1]
      /\ offset' = IF k + 1 \in {6, 7}
                   THEN [offset EXCEPT ![p] = ByteOf(b)] ELSE offset
  BY <1>3, <1>7, <1>8
<1>10. RunsAt(k + 1)'
  BY <1>4, <1>7 DEF RunsAt
<1>11. TablesAt(k + 1)' /\ MasksAt(k + 1)'
  BY <1>2, <1>3, <1>7, <1>9 DEF StateAt, TablesAt, MasksAt, Lines
<1>12. offset' \in [Pics -> Nat] /\ icw' \in [Pics -> 0..3]
  BY <1>3, <1>5, <1>8, <1>9, Bytes DEF StateAt, Typed, Pics
<1>13. WordsAt(k + 1)'
  <2>1. CASE k + 1 = 6
    <3>1. ByteOf(b) = 32
      BY <1>6, <2>1, Bytes
    <3>2. offset' = [offset EXCEPT ![1] = 32]
      BY <1>5, <1>9, <2>1, <3>1
    <3>3. icw'[1] = icw[1] - 1 /\ icw'[2] = icw[2]
      BY <1>5, <1>9, <2>1 DEF StateAt, Typed, Pics
    <3> QED BY <1>2, <2>1, <3>2, <3>3 DEF StateAt, WordsAt, Typed, Pics
  <2>2. CASE k + 1 = 7
    <3>1. ByteOf(b) = 40
      BY <1>6, <2>2, Bytes
    <3>2. offset' = [offset EXCEPT ![2] = 40]
      <4>1. p = 2 /\ k + 1 \in {6, 7}
        BY <1>5, <2>2
      <4> QED BY <1>9, <3>1, <4>1
    <3>3. icw'[2] = icw[2] - 1 /\ icw'[1] = icw[1]
      BY <1>5, <1>9, <2>2 DEF StateAt, Typed, Pics
    <3> QED BY <1>2, <2>2, <3>2, <3>3 DEF StateAt, WordsAt, Typed, Pics
  <2>3. CASE k + 1 \in 8..11
    <3>1. offset' = offset
      BY <1>9, <2>3
    <3>2. icw'[1] = IF p = 1 THEN icw[1] - 1 ELSE icw[1]
      BY <1>3, <1>5, <1>9 DEF StateAt, Typed, Pics
    <3>3. icw'[2] = IF p = 2 THEN icw[2] - 1 ELSE icw[2]
      BY <1>3, <1>5, <1>9 DEF StateAt, Typed, Pics
    <3> QED BY <1>2, <1>5, <2>3, <3>1, <3>2, <3>3 DEF StateAt, WordsAt
  <2> QED BY <1>3, <2>1, <2>2, <2>3
<1>14. Typed' /\ Acknowledged'
  BY <1>7, <1>9, <1>12 DEF StateAt, Typed, Acknowledged
<1> QED BY <1>2, <1>10, <1>11, <1>13, <1>14 DEF StateAt

\* Outside PIC_remap a byte for the data port is the mask.
LEMMA SetsMask ==
  ASSUME NEW k \in 0..69, StateAt(k), NEW op, Next1(op),
         k + 1 \in 12..31 \cup 53..68, k + 1 # 30,
         NEW p \in Pics, NEW bits \in SUBSET Pins, DataPort(p, bits)
  PROVE  /\ imr' = [imr EXCEPT ![p] = bits] /\ saved' = saved
         /\ Reached(k + 1)' /\ Typed' /\ Acknowledged'
         /\ TablesAt(k + 1)' /\ WordsAt(k + 1)' /\ RunsAt(k + 1)'
<1>1. k \in 0..68 /\ Reached(k + 1)' /\ Program[k + 1].op = op
  BY Executes DEF StateAt
<1>2. op # "cli"
  <2>1. k + 1 \in 1..69
    BY <1>1
  <2> QED BY <1>1, <2>1, OpAt
<1>3. ~iflag /\ main = "run"
  BY <1>2, Quiet
<1>4. icw[1] = 0 /\ icw[2] = 0
  BY <1>1 DEF StateAt, WordsAt
<1>5. /\ UNCHANGED <<iflag, gates, idt, offset, icw, inService, saved, irr,
                     irq6, isrs, countPIT, main, until>>
      /\ imr' = [imr EXCEPT ![p] = bits]
  BY <1>4 DEF DataPort, cpu, kernel, Pics
<1>6. RunsAt(k + 1)'
  BY <1>3, <1>5 DEF RunsAt
<1>7. TablesAt(k + 1)' /\ WordsAt(k + 1)'
  BY <1>1, <1>5 DEF StateAt, TablesAt, WordsAt, Lines
<1>8. Typed' /\ Acknowledged'
  BY <1>5 DEF StateAt, Typed, Acknowledged
<1> QED BY <1>1, <1>5, <1>6, <1>7, <1>8

\* The masks are written when no word is expected any more.
LEMMA RestoreMaskStep ==
  ASSUME NEW k \in 0..69, StateAt(k), RestoreMask
  PROVE  k + 1 \in 0..69 /\ StateAt(k + 1)'
<1> DEFINE p == Head(todo).pic
<1>1. Next1("restore") /\ DataPort(p, saved[p])
  BY DEF RestoreMask
<1>2. /\ k \in 0..68 /\ Head(todo) = Program[k + 1]
      /\ Program[k + 1].op = "restore"
  BY <1>1, Executes DEF StateAt
<1>3. k + 1 \in {12, 13}
  <2>1. k + 1 \in 1..69
    BY <1>2
  <2> QED BY <1>2, <2>1, OpAt
<1>4. p = IF k + 1 = 12 THEN 1 ELSE 2
  BY <1>2, <1>3, RemapAt
<1> HIDE DEF p
<1>5. p \in Pics /\ saved[p] \in SUBSET Pins
  BY <1>3, <1>4 DEF StateAt, Typed, Pics
<1>6. /\ imr' = [imr EXCEPT ![p] = saved[p]] /\ saved' = saved
      /\ Reached(k + 1)' /\ Typed' /\ Acknowledged'
      /\ TablesAt(k + 1)' /\ WordsAt(k + 1)' /\ RunsAt(k + 1)'
  BY <1>1, <1>3, <1>5, SetsMask
<1>7. MasksAt(k + 1)'
  BY <1>2, <1>3, <1>4, <1>6 DEF StateAt, MasksAt, Typed, Pics
<1> QED BY <1>2, <1>6, <1>7 DEF StateAt

\* One more line is closed.
LEMMA MaskStep ==
  ASSUME NEW k \in 0..69, StateAt(k), Mask
  PROVE  k + 1 \in 0..69 /\ StateAt(k + 1)'
<1> DEFINE i == Head(todo).line
<1>1. /\ Next1("mask")
      /\ DataPort(PicOf(i), imr[PicOf(i)] \cup {PinOf(i)})
  BY DEF Mask
<1>2. /\ k \in 0..68 /\ Head(todo) = Program[k + 1]
      /\ Program[k + 1].op = "mask"
  BY <1>1, Executes DEF StateAt
<1>3. k + 1 \in 14..29
  <2>1. k + 1 \in 1..69
    BY <1>2
  <2> QED BY <1>2, <2>1, OpAt
<1>4. i = (k + 1) - 14
  <2>1. Program[k + 1] = [op |-> "mask", line |-> (k + 1) - 14]
    BY <1>3, ProgramIs, Zenon
  <2> QED BY <1>2, <2>1
<1> HIDE DEF i
<1>5. i \in Lines /\ PicOf(i) \in Pics /\ PinOf(i) \in Pins
  BY <1>2, <1>3, <1>4 DEF Lines, PicOf, Pics, PinOf, Pins
<1>6. imr[PicOf(i)] \cup {PinOf(i)} \in SUBSET Pins
  BY <1>5 DEF StateAt, Typed
<1>7. /\ imr' = [imr EXCEPT ![PicOf(i)] = imr[PicOf(i)] \cup {PinOf(i)}]
      /\ saved' = saved
      /\ Reached(k + 1)' /\ Typed' /\ Acknowledged'
      /\ TablesAt(k + 1)' /\ WordsAt(k + 1)' /\ RunsAt(k + 1)'
  BY <1>1, <1>3, <1>5, <1>6, SetsMask
<1>8. \A n \in Lines : n < (k + 1) - 13 => PinOf(n) \in imr'[PicOf(n)]
  <2> TAKE n \in Lines
  <2> HAVE n < (k + 1) - 13
  <2>1. PicOf(n) \in Pics
    BY DEF PicOf, Pics
  <2>2. imr[PicOf(n)] \subseteq imr'[PicOf(n)]
    BY <1>5, <1>7, <2>1 DEF StateAt, Typed
  <2>3. CASE n < k - 13
    <3>1. PinOf(n) \in imr[PicOf(n)]
      BY <1>2, <1>3, <2>3 DEF StateAt, MasksAt, Lines
    <3> QED BY <2>2, <3>1
  <2>4. CASE n = k - 13
    <3>1. n = i
      BY <1>2, <1>4, <2>4
    <3> QED BY <1>5, <1>7, <3>1 DEF StateAt, Typed
  <2> QED BY <1>2, <2>3, <2>4 DEF Lines
<1>9. MasksAt(k + 1)'
  BY <1>2, <1>3, <1>7, <1>8 DEF StateAt, MasksAt
<1> QED BY <1>2, <1>7, <1>9 DEF StateAt

\* The floppy's line is opened, later all of them.
LEMMA UnmaskStep ==
  ASSUME NEW k \in 0..69, StateAt(k), Unmask
  PROVE  k + 1 \in 0..69 /\ StateAt(k + 1)'
<1> DEFINE i == Head(todo).line
<1>1. /\ Next1("unmask")
      /\ DataPort(PicOf(i), imr[PicOf(i)] \ {PinOf(i)})
  BY DEF Unmask
<1>2. /\ k \in 0..68 /\ Head(todo) = Program[k + 1]
      /\ Program[k + 1].op = "unmask"
  BY <1>1, Executes DEF StateAt
<1>3. k + 1 \in {31} \cup 53..68
  <2>1. k + 1 \in 1..69
    BY <1>2
  <2> QED BY <1>2, <2>1, OpAt
<1>4. i = IF k + 1 = 31 THEN 6 ELSE (k + 1) - 53
  <2>1. CASE k + 1 = 31
    <3>1. Program[k + 1] = [op |-> "unmask", line |-> 6]
      BY <2>1, ProgramIs, Zenon
    <3> QED BY <1>2, <2>1, <3>1
  <2>2. CASE k + 1 \in 53..68
    <3>1. Program[k + 1] = [op |-> "unmask", line |-> (k + 1) - 53]
      BY <2>2, ProgramIs, Zenon
    <3> QED BY <1>2, <2>2, <3>1
  <2> QED BY <1>3, <2>1, <2>2
<1> HIDE DEF i
<1>5. i \in Lines /\ PicOf(i) \in Pics /\ PinOf(i) \in Pins
  BY <1>2, <1>3, <1>4 DEF Lines, PicOf, Pics, PinOf, Pins
<1>6. imr[PicOf(i)] \ {PinOf(i)} \in SUBSET Pins
  BY <1>5 DEF StateAt, Typed
<1>7. /\ imr' = [imr EXCEPT ![PicOf(i)] = imr[PicOf(i)] \ {PinOf(i)}]
      /\ saved' = saved
      /\ Reached(k + 1)' /\ Typed' /\ Acknowledged'
      /\ TablesAt(k + 1)' /\ WordsAt(k + 1)' /\ RunsAt(k + 1)'
  BY <1>1, <1>3, <1>5, <1>6, SetsMask
<1>8. CASE k + 1 = 31
  <2>1. imr[1] = Pins /\ imr[2] = Pins
    <3>1. \A n \in Lines : PinOf(n) \in imr[PicOf(n)]
      BY <1>8, <1>2 DEF StateAt, MasksAt, Lines
    <3>2. ASSUME NEW pin \in Pins PROVE pin \in imr[1] /\ pin \in imr[2]
      <4>1. /\ pin \in Lines /\ PinOf(pin) = pin /\ PicOf(pin) = 1
            /\ pin + 8 \in Lines /\ PinOf(pin + 8) = pin
            /\ PicOf(pin + 8) = 2
        BY DEF Pins, Lines, PinOf, PicOf
      <4> QED BY <3>1, <4>1
    <3> QED BY <3>2 DEF StateAt, Typed, Pics
  <2>2. PicOf(i) = 1 /\ PinOf(i) = 6
    BY <1>4, <1>8 DEF PicOf, PinOf
  <2>3. imr'[1] = Pins \ {6} /\ imr'[2] = Pins
    BY <1>7, <2>1, <2>2 DEF StateAt, Typed, Pics
  <2>4. MasksAt(k + 1)'
    BY <1>2, <1>7, <1>8, <2>3 DEF StateAt, MasksAt
  <2> QED BY <1>2, <1>7, <2>4 DEF StateAt
<1>9. CASE k + 1 \in 53..68
  <2>1. MasksAt(k + 1)'
    BY <1>2, <1>7, <1>9 DEF StateAt, MasksAt
  <2> QED BY <1>2, <1>7, <2>1 DEF StateAt
<1> QED BY <1>3, <1>8, <1>9

\* Every instruction of set-up keeps the invariant.
LEMMA SetUpStep ==
  ASSUME IInv, SetUp
  PROVE  IInv'
<1>1. PICK k \in 0..69 : StateAt(k)
  BY DEF IInv
<1>2. k + 1 \in 0..69 /\ StateAt(k + 1)'
  <2>1. CASE SetGate
    BY <1>1, <2>1, SetGateStep
  <2>2. CASE SetExceptions
    BY <1>1, <2>2, SetExceptionsStep
  <2>3. CASE lidt
    BY <1>1, <2>3, lidtStep
  <2>4. CASE Flag(TRUE)
    BY <1>1, <2>4, FlagStep
  <2>5. CASE Flag(FALSE)
    BY <1>1, <2>5, FlagStep
  <2>6. CASE SaveMask
    BY <1>1, <2>6, SaveMaskStep
  <2>7. CASE RestoreMask
    BY <1>1, <2>7, RestoreMaskStep
  <2>8. CASE Icw1
    BY <1>1, <2>8, Icw1Step
  <2>9. CASE SendWord
    BY <1>1, <2>9, SendWordStep
  <2>10. CASE Mask
    BY <1>1, <2>10, MaskStep
  <2>11. CASE Unmask
    BY <1>1, <2>11, UnmaskStep
  <2> QED BY <2>1, <2>2, <2>3, <2>4, <2>5, <2>6, <2>7, <2>8, <2>9, <2>10,
             <2>11 DEF SetUp
<1> QED BY <1>2 DEF IInv

-----------------------------------------------------------------------------
(***************************************************************************)
(* What the invariant says when interrupts can come.                       *)
(***************************************************************************)
\* The two places where interrupts are on: gates, offsets and masks agree.
LEMMA InvRightHandler ==
  ASSUME IInv
  PROVE  RightHandler
<1>1. PICK k \in 0..69 : StateAt(k)
  BY DEF IInv
<1>2. SUFFICES ASSUME iflag, NEW i \in Lines \ {2}, Unmasked(i)
               PROVE  GateOf(VectorOf(i)) \in
                        {i} \cup (IF i = 6 THEN {ISR6} ELSE {})
  BY DEF RightHandler
<1>3. k \in {33, 69}
  BY <1>1, <1>2 DEF StateAt, RunsAt
<1>4. VectorOf(i) = 32 + i /\ VectorOf(i) \in Vectors
  <2>1. offset[1] = 32 /\ offset[2] = 40
    BY <1>1, <1>3 DEF StateAt, WordsAt
  <2> QED BY <2>1 DEF VectorOf, PicOf, PinOf, Lines, Vectors
<1>5. CASE k = 33
  <2>1. i = 6
    <3>1. imr[1] = Pins \ {6} /\ imr[2] = Pins
      BY <1>1, <1>5 DEF StateAt, MasksAt
    <3> QED BY <1>2, <3>1 DEF Unmasked, PinOf, PicOf, Lines, Pins
  <2>2. gates["boot"][38] = ISR6 /\ idt = "boot"
    BY <1>1, <1>5 DEF StateAt, TablesAt, Vectors
  <2> QED BY <1>4, <2>1, <2>2 DEF GateOf
<1>6. CASE k = 69
  <2>1. gates["kernel"][32 + i] = i /\ idt = "kernel"
    BY <1>1, <1>6 DEF StateAt, TablesAt, Lines
  <2> QED BY <1>4, <2>1 DEF GateOf
<1> QED BY <1>3, <1>5, <1>6

\* The handler of a spurious interrupt is there.
LEMMA SpuriousHandler ==
  ASSUME IInv, iflag
  PROVE  GateOf(offset[1] + 7) \in {7, common_ISR}
<1>1. PICK k \in 0..69 : StateAt(k)
  BY DEF IInv
<1>2. k \in {33, 69}
  BY <1>1 DEF StateAt, RunsAt
<1>3. offset[1] + 7 = 39 /\ 39 \in Vectors /\ 7 \in Lines /\ 39 = 32 + 7
  BY <1>1, <1>2 DEF StateAt, WordsAt, Vectors, Lines
<1>4. CASE k = 33
  BY <1>1, <1>3, <1>4 DEF StateAt, TablesAt, GateOf
<1>5. CASE k = 69
  <2>1. gates["kernel"][32 + 7] = 7 /\ idt = "kernel"
    BY <1>1, <1>3, <1>5 DEF StateAt, TablesAt
  <2> QED BY <1>3, <2>1 DEF GateOf
<1> QED BY <1>2, <1>4, <1>5

\* The end of the one pin in service, and of none.
LEMMA EoiOne == \A p \in Pins : Eoi({p}) = {}
BY DEF Eoi, Pins

LEMMA EoiNone == Eoi({}) = {}
BY DEF Eoi

-----------------------------------------------------------------------------
(***************************************************************************)
(* Interrupts and main code.                                               *)
(***************************************************************************)
\* A function on the two 8259s is a pair.
LEMMA Pair ==
  ASSUME NEW S, NEW f \in [Pics -> S], NEW x, NEW y, f[1] = x, f[2] = y
  PROVE  f = <<x, y>>
BY DEF Pics

\* What sendEOI makes of the pins in service, given one by one.
LEMMA Ends ==
  ASSUME NEW i \in Lines, NEW service \in [Pics -> SUBSET Pins],
         NEW p \in Pins, service[1] = {p},
         service[2] = {} \/ (i >= 8 /\ \E q \in Pins : service[2] = {q})
  PROVE  sendEOI(i, service) = <<{}, {}>>
<1>1. Eoi(service[1]) = {} /\ Eoi(service[2]) = {}
  BY EoiOne, EoiNone
<1>2. CASE i >= 8
  <2>1. sendEOI(i, service) = [c \in Pics |-> Eoi(service[c])]
    BY <1>2 DEF sendEOI
  <2> QED BY <1>1, <2>1, Pair DEF Pics
<1>3. CASE ~(i >= 8)
  <2>1. sendEOI(i, service) = [service EXCEPT ![1] = Eoi(service[1])]
    BY <1>3 DEF sendEOI
  <2>2. sendEOI(i, service) = [service EXCEPT ![1] = {}] /\ service[2] = {}
    BY <1>1, <1>3, <2>1
  <2> QED BY <2>2, Pair DEF Pics
<1> QED BY <1>2, <1>3

\* A handler ends every service it was called in.
LEMMA HandlerEnds ==
  ASSUME IInv, iflag, NEW i \in Sources, Requested(i)
  PROVE  LET h == GateOf(VectorOf(i))
         IN  /\ h \in Lines \cup {ISR6}
             /\ sendEOI(IF h = ISR6 THEN 6 ELSE h, Acknowledge(i)) = <<{}, {}>>
<1>1. i \in Lines \ {2} /\ inService = <<{}, {}>>
  BY InterruptsAssumption DEF IInv, StateAt, Acknowledged
<1> DEFINE h == GateOf(VectorOf(i))
           line == IF h = ISR6 THEN 6 ELSE h
           a == Acknowledge(i)
<1>2. h \in {i} \cup (IF i = 6 THEN {ISR6} ELSE {})
  BY <1>1, InvRightHandler DEF RightHandler, Requested
<1>3. line = i /\ h \in Lines \cup {ISR6}
  BY <1>1, <1>2 DEF ISR6, Lines
<1>4. /\ a \in [Pics -> SUBSET Pins] /\ MasterPin(i) \in Pins
      /\ a[1] = {MasterPin(i)}
      /\ a[2] = IF i >= 8 THEN {PinOf(i)} ELSE {}
  BY <1>1 DEF Acknowledge, MasterPin, PinOf, Pics, Pins, Lines
<1>5. PinOf(i) \in Pins
  BY <1>1 DEF PinOf, Pins, Lines
<1> HIDE DEF a
<1>6. sendEOI(i, a) = <<{}, {}>>
  BY <1>1, <1>4, <1>5, Ends
<1> QED BY <1>3, <1>6 DEF a

\* Interrupts and main code leave set-up's part of the state alone.
Kept == UNCHANGED <<todo, gates, idt, offset, icw, imr, saved>>

\* A step that leaves set-up alone keeps the invariant.
LEMMA StateKept ==
  ASSUME IInv, Kept, Typed', Acknowledged',
         iflag' => iflag, main' # "run" => main # "run" \/ Up,
         main' = "panic" => ~iflag'
  PROVE  IInv'
<1>1. PICK k \in 0..69 : StateAt(k)
  BY DEF IInv
<1>2. Reached(k)' /\ TablesAt(k)' /\ WordsAt(k)' /\ MasksAt(k)'
  BY <1>1 DEF Kept, StateAt, Reached, TablesAt, WordsAt, MasksAt
<1>3. Up => k = 69
  <2>1. SUFFICES ASSUME Up, k # 69 PROVE FALSE
    OBVIOUS
  <2>2. \A i \in k + 1 .. 69 : Program[i] \in Instruction
    <3>1. Program \in Seq(Instruction) /\ Len(Program) = 69
      BY ProgramIs, Zenon
    <3>2. k + 1 .. 69 \subseteq 1..Len(Program)
      BY <3>1
    <3> QED BY <3>1, <3>2, ElementOfSeq, Zenon
  <2>3. Len(SubSeq(Program, k + 1, 69)) = 69 - (k + 1) + 1
    <3>1. k + 1 \in Int /\ 69 \in Int /\ k + 1 <= 69
      BY <2>1
    <3> QED BY <2>2, <3>1, SubSeqProperties
  <2>4. todo = <<>> /\ todo = SubSeq(Program, k + 1, 69)
    BY <1>1, <2>1 DEF Up, StateAt, Reached
  <2> QED BY <2>1, <2>3, <2>4
<1>4. RunsAt(k)'
  BY <1>1, <1>3 DEF StateAt, RunsAt
<1> QED BY <1>2, <1>4 DEF IInv, StateAt

\* A handler is the right one, so what it was called in ends with it.
LEMMA InterruptStep ==
  ASSUME IInv, NEW i \in Sources, Interrupt(i)
  PROVE  IInv'
<1> DEFINE h == GateOf(VectorOf(i))
           a == Acknowledge(i)
<1>1. iflag /\ Requested(i) /\ Handle(h, a)
  BY DEF Interrupt
<1>2. Typed
  BY DEF IInv, StateAt
<1>3. /\ h \in Lines \cup {ISR6}
      /\ sendEOI(IF h = ISR6 THEN 6 ELSE h, a) = <<{}, {}>>
  BY <1>1, HandlerEnds
<1> HIDE DEF h, a
<1>4. /\ inService' = <<{}, {}>>
      /\ isrs' \subseteq Lines /\ countPIT' \in 0..MaxTicks
      /\ main' = main /\ irq6' \in BOOLEAN
  <2>1. CASE h \in Lines
    <3>1. h # ISR6 /\ h # common_ISR
      BY <2>1 DEF Lines, ISR6, common_ISR
    <3>2. Tick(countPIT) \in 0..MaxTicks
      BY <1>2, InterruptsAssumption DEF Typed, Tick
    <3> QED BY <1>1, <1>2, <1>3, <2>1, <3>1, <3>2 DEF Handle, Typed
  <2>2. CASE h = ISR6
    <3>1. h \notin Lines /\ h # common_ISR
      BY <2>2 DEF Lines, ISR6, common_ISR
    <3> QED BY <1>1, <1>2, <1>3, <2>2, <3>1 DEF Handle, Typed
  <2> QED BY <1>3, <2>1, <2>2
<1>5. /\ Kept /\ iflag' = iflag /\ until' = until
      /\ irr' = irr \ {i}
  BY DEF Interrupt, Kept, cpu
<1>6. Typed' /\ Acknowledged'
  BY <1>2, <1>4, <1>5 DEF Typed, Acknowledged, Kept
<1>7. main = "panic" => ~iflag
  BY DEF IInv, StateAt, RunsAt
<1> QED BY <1>4, <1>5, <1>6, <1>7, StateKept

\* A spurious interrupt ends nothing and leaves nothing.
LEMMA SpuriousStep ==
  ASSUME IInv, Spurious
  PROVE  IInv'
<1> DEFINE h == GateOf(offset[1] + 7)
<1>1. iflag /\ Handle(h, inService) /\ inService = <<{}, {}>>
  BY DEF Spurious
<1>2. Typed
  BY DEF IInv, StateAt
<1>3. h \in {7, common_ISR}
  BY <1>1, SpuriousHandler
<1> HIDE DEF h
<1>4. /\ inService' = <<{}, {}>>
      /\ isrs' \subseteq Lines /\ countPIT' = countPIT
      /\ main' = main /\ irq6' = irq6
  <2>1. CASE h = 7
    <3>1. sendEOI(7, inService) = [inService EXCEPT ![1] = Eoi(inService[1])]
      <4>1. ~(7 >= 8)
        OBVIOUS
      <4> QED BY <4>1, Zenon DEF sendEOI
    <3>2. inService[1] = {}
      BY <1>1
    <3>3. sendEOI(7, inService) = [inService EXCEPT ![1] = {}]
      BY <3>1, <3>2, EoiNone
    <3>4. sendEOI(7, inService) = <<{}, {}>>
      BY <1>1, <3>3
    <3>5. h # ISR6 /\ h # common_ISR /\ 7 # 0 /\ 7 \in Lines
      BY <2>1 DEF Lines, ISR6, common_ISR
    <3>6. /\ inService' = sendEOI(7, inService) /\ isrs' = isrs \cup {7}
          /\ UNCHANGED <<countPIT, main, irq6>>
      BY <1>1, <2>1, <3>5 DEF Handle
    <3> QED BY <1>2, <3>4, <3>5, <3>6 DEF Typed
  <2>2. CASE h = common_ISR
    <3>1. h # ISR6 /\ h \notin Lines
      BY <2>2 DEF Lines, ISR6, common_ISR
    <3>2. inService' = inService /\ UNCHANGED <<isrs, countPIT, main, irq6>>
      BY <1>1, <2>2, <3>1 DEF Handle
    <3> QED BY <1>1, <1>2, <3>2 DEF Typed
  <2> QED BY <1>3, <2>1, <2>2
<1>5. Kept /\ iflag' = iflag /\ until' = until /\ irr' = irr
  BY DEF Spurious, Kept, cpu
<1>6. Typed' /\ Acknowledged'
  BY <1>2, <1>4, <1>5 DEF Typed, Acknowledged, Kept
<1>7. main = "panic" => ~iflag
  BY DEF IInv, StateAt, RunsAt
<1> QED BY <1>4, <1>5, <1>6, <1>7, StateKept

\* Requests and main code do not touch what set-up has made.
LEMMA MainStep ==
  ASSUME IInv,
         \/ \E i \in Sources : Raise(i)
         \/ TakeFlag
         \/ \E d \in Delays : sleep(d)
         \/ Wake
         \/ \E v \in Faults : Exception(v)
         \/ kpanic
  PROVE  IInv'
<1>1. Typed /\ inService = <<{}, {}>> /\ (main = "panic" => ~iflag)
  BY DEF IInv, StateAt, RunsAt, Acknowledged
<1>2. Kept /\ inService' = inService /\ irq6' = irq6
  BY DEF Kept, Raise, TakeFlag, sleep, Wake, Exception, kpanic,
         cpu, pic, kernel
<1>3. ASSUME NEW i \in Sources, Raise(i)
      PROVE  IInv'
  <2>1. i \in Lines
    BY InterruptsAssumption
  <2>2. UNCHANGED <<iflag, isrs, countPIT, main, until>> /\ irr' = irr \cup {i}
    BY <1>3 DEF Raise, cpu, kernel
  <2>3. Typed' /\ Acknowledged'
    BY <1>1, <1>2, <2>1, <2>2 DEF Typed, Acknowledged, Kept
  <2> QED BY <1>1, <1>2, <2>2, <2>3, StateKept
<1>4. CASE TakeFlag
  <2>1. UNCHANGED <<iflag, countPIT, main, until, irr>> /\ isrs' = isrs \ {6}
    BY <1>4 DEF TakeFlag, cpu
  <2>2. Typed' /\ Acknowledged'
    BY <1>1, <1>2, <2>1 DEF Typed, Acknowledged, Kept
  <2> QED BY <1>1, <1>2, <2>1, <2>2, StateKept
<1>5. ASSUME NEW d \in Delays, sleep(d)
      PROVE  IInv'
  <2>1. Ticks(d) \in 0..MaxTicks
    BY InterruptsAssumption DEF Ticks
  <2>2. /\ UNCHANGED <<iflag, irr, isrs>> /\ Up
        /\ main' = "sleep" /\ countPIT' = 0 /\ until' = Ticks(d)
    BY <1>5 DEF sleep, cpu
  <2>3. 0 \in 0..MaxTicks
    BY InterruptsAssumption
  <2>4. Typed' /\ Acknowledged'
    BY <1>1, <1>2, <2>1, <2>2, <2>3 DEF Typed, Acknowledged, Kept
  <2> QED BY <1>2, <2>2, <2>4, StateKept
<1>6. CASE Wake
  <2>1. UNCHANGED <<iflag, irr, isrs, countPIT, until>> /\ main' = "run"
    BY <1>6 DEF Wake, cpu
  <2>2. Typed' /\ Acknowledged'
    BY <1>1, <1>2, <2>1 DEF Typed, Acknowledged, Kept
  <2> QED BY <1>2, <2>1, <2>2, StateKept
<1>7. ASSUME NEW v \in Faults, Exception(v)
      PROVE  IInv'
  <2>1. /\ UNCHANGED <<iflag, irr, isrs, countPIT, until>>
        /\ main' = "exc" /\ Up
    BY <1>7 DEF Exception, cpu
  <2>2. Typed' /\ Acknowledged'
    BY <1>1, <1>2, <2>1 DEF Typed, Acknowledged, Kept
  <2> QED BY <1>2, <2>1, <2>2, StateKept
<1>8. CASE kpanic
  <2>1. /\ UNCHANGED <<irr, isrs, countPIT, until>>
        /\ main = "exc" /\ main' = "panic" /\ iflag' = FALSE
    BY <1>8 DEF kpanic, PanicCli
  <2>2. Typed' /\ Acknowledged'
    BY <1>1, <1>2, <2>1 DEF Typed, Acknowledged, Kept
  <2> QED BY <1>2, <2>1, <2>2, StateKept
<1> QED BY <1>3, <1>4, <1>5, <1>6, <1>7, <1>8

-----------------------------------------------------------------------------
(***************************************************************************)
(* The invariant, and the properties.                                      *)
(***************************************************************************)
\* The first state.
LEMMA InitInv == Init => IInv
<1> SUFFICES ASSUME Init PROVE StateAt(0)
  BY DEF IInv
<1>1. Reached(0)
  <2>1. Program \in Seq(Instruction) /\ Len(Program) = 69
    BY ProgramIs, Zenon
  <2>2. SubSeq(Program, 1, 69) = Program
    BY <2>1, SubSeqFull
  <2>3. todo = Program
    BY DEF Init, Program
  <2> QED BY <2>2, <2>3 DEF Reached
<1>2. Typed
  <2>1. gates \in [{"bios", "boot", "kernel"} -> [Vectors -> Handlers]]
    BY DEF Init, Handlers
  <2>2. offset \in [Pics -> Nat] /\ icw \in [Pics -> 0..3]
    BY DEF Init, Pics
  <2>3. imr \in [Pics -> SUBSET Pins] /\ saved \in [Pics -> SUBSET Pins]
    BY DEF Init, BiosMasks, Pics, Pins
  <2>4. 0 \in 0..MaxTicks
    BY InterruptsAssumption
  <2> QED BY <2>1, <2>2, <2>3, <2>4 DEF Init, Typed
<1>3. TablesAt(0) /\ WordsAt(0) /\ MasksAt(0) /\ RunsAt(0)
  BY DEF Init, TablesAt, WordsAt, MasksAt, RunsAt, BiosMasks, Lines
<1> QED BY <1>1, <1>2, <1>3 DEF StateAt, Acknowledged, Init

\* Every step.
LEMMA NextInv == IInv /\ [Next]_vars => IInv'
<1> SUFFICES ASSUME IInv, [Next]_vars PROVE IInv'
  OBVIOUS
<1>1. CASE SetUp
  BY <1>1, SetUpStep
<1>2. ASSUME NEW i \in Sources, Interrupt(i) PROVE IInv'
  BY <1>2, InterruptStep
<1>3. CASE Spurious
  BY <1>3, SpuriousStep
<1>4. CASE UNCHANGED vars
  <2>1. Kept /\ Typed' /\ Acknowledged' /\ iflag' = iflag /\ main' = main
    BY <1>4 DEF IInv, StateAt, Kept, Typed, Acknowledged,
                vars, cpu, pic, kernel
  <2>2. main = "panic" => ~iflag
    BY DEF IInv, StateAt, RunsAt
  <2> QED BY <2>1, <2>2, StateKept
<1> QED BY <1>1, <1>2, <1>3, <1>4, MainStep DEF Next

\* At every state some number of set-up's instructions is done, and tables, 8259s,
\* masks and processor are as that number says.
THEOREM IInvariant == Spec => []IInv
BY InitInv, NextInv, PTL DEF Spec

\* Every variable has its type, and an 8259 never expects more than three words.
THEOREM TypeCorrect == Spec => []TypeOK
<1>1. IInv => TypeOK
  <2> SUFFICES ASSUME IInv PROVE TypeOK
    OBVIOUS
  <2>1. Typed /\ inService = <<{}, {}>>
    BY DEF IInv, StateAt, Acknowledged
  <2>2. PICK k \in 0..69 : StateAt(k)
    BY DEF IInv
  <2>3. idt \in {"bios", "boot", "kernel"}
    BY <2>2 DEF StateAt, TablesAt
  <2> QED BY <2>1, <2>3 DEF Typed, TypeOK, Handlers, Pics
<1> QED BY <1>1, IInvariant, PTL

\* Whenever the processor takes interrupts, every line that is open leads to the
\* handler written for it: x64IDT_INIT and fillIDT do things in the right order.
THEOREM RightHandlers == Spec => []RightHandler
BY InvRightHandler, IInvariant, PTL

\* Between handlers no 8259 has a pin in service: sendEOI tells each one that
\* took part, and no other handler than its own ever gets an interrupt.
THEOREM AlwaysAcknowledged == Spec => []Acknowledged
<1>1. IInv => Acknowledged
  BY DEF IInv, StateAt
<1> QED BY <1>1, IInvariant, PTL

\* When maskAllInterrupts starts, the masks are the BIOS's again, as PIC_remap
\* found them, and neither 8259 expects a word.
THEOREM MasksGivenBack == Spec => []MasksRestored
<1>1. IInv => MasksRestored
  <2>1. SUFFICES ASSUME IInv, todo # <<>>, Head(todo).op = "mask",
                        Head(todo).line = 0
                 PROVE  imr = saved /\ imr \in BiosMasks /\ icw = <<0, 0>>
    BY DEF MasksRestored
  <2>2. PICK k \in 0..69 : StateAt(k)
    BY <2>1 DEF IInv
  <2>3. k = 13
    <3>1. k # 69
      <4>1. ASSUME k = 69 PROVE FALSE
        BY <2>1, <2>2, <4>1, SubSeqEmpty DEF StateAt, Reached
      <4> QED BY <4>1
    <3>2. k + 1 \in 1..69 /\ 69 \in k + 1 .. 69
      BY <3>1
    <3>3. Program \in Seq(Instruction) /\ Len(Program) = 69
      BY ProgramIs, Zenon
    <3>4. Head(todo) = Program[k + 1]
      BY <2>2, <3>2, <3>3, HeadTailOfSubSeq DEF StateAt, Reached
    <3>5. k + 1 \in 14..29
      BY <2>1, <3>2, <3>4, OpAt
    <3>6. Program[k + 1] = [op |-> "mask", line |-> (k + 1) - 14]
      BY <3>5, ProgramIs, Zenon
    <3>7. Head(todo).line = (k + 1) - 14
      BY <3>4, <3>6
    <3> QED BY <2>1, <3>7
  <2>4. /\ imr[1] = saved[1] /\ imr[2] = saved[2]
        /\ saved[1] \in {{}, {7}} /\ saved[2] = Pins
        /\ icw[1] = 0 /\ icw[2] = 0
    BY <2>2, <2>3 DEF StateAt, MasksAt, WordsAt
  <2>5. /\ imr \in [Pics -> SUBSET Pins] /\ saved \in [Pics -> SUBSET Pins]
        /\ icw \in [Pics -> 0..3]
    BY <2>2 DEF StateAt, Typed
  <2>6. imr = saved
    BY <2>4, <2>5 DEF Pics
  <2>7. imr = <<saved[1], Pins>>
    <3>1. imr[1] = saved[1] /\ imr[2] = Pins
      BY <2>4
    <3> QED BY <2>5, <3>1 DEF Pics
  <2>8. icw = <<0, 0>>
    BY <2>4, <2>5 DEF Pics
  <2> QED BY <2>4, <2>6, <2>7, <2>8 DEF BiosMasks
<1> QED BY <1>1, IInvariant, PTL

\* After kpanic no handler changes what the kernel has counted or flagged.
THEOREM PanicIsFinalAlways == Spec => PanicIsFinal
<1>1. IInv /\ [Next]_vars => [main = "panic" => UNCHANGED <<isrs, countPIT>>]_vars
  <2> SUFFICES ASSUME IInv, [Next]_vars, main = "panic"
               PROVE  UNCHANGED <<isrs, countPIT>>
    OBVIOUS
  <2>1. ~iflag
    BY DEF IInv, StateAt, RunsAt
  <2>2. CASE SetUp
    BY <2>2 DEF SetUp, SetGate, SetExceptions, lidt, Flag, SaveMask,
                RestoreMask, Icw1, SendWord, Mask, Unmask, DataPort, kernel
  <2>3. ~Spurious /\ \A i \in Sources : ~Interrupt(i)
    BY <2>1 DEF Spurious, Interrupt
  <2>4. ~TakeFlag /\ ~Wake /\ \A d \in Delays : ~sleep(d)
    BY DEF TakeFlag, Wake, sleep
  <2>5. ASSUME NEW i \in Sources, Raise(i) PROVE UNCHANGED <<isrs, countPIT>>
    BY <2>5 DEF Raise, kernel
  <2>6. CASE kpanic
    BY <2>6 DEF kpanic
  <2>7. ASSUME NEW v \in Faults, Exception(v)
        PROVE  UNCHANGED <<isrs, countPIT>>
    BY <2>7 DEF Exception
  <2>8. CASE UNCHANGED vars
    BY <2>8 DEF vars, kernel
  <2> QED BY <2>2, <2>3, <2>4, <2>5, <2>6, <2>7, <2>8 DEF Next
<1> QED BY <1>1, IInvariant, PTL DEF Spec, PanicIsFinal
=============================================================================
