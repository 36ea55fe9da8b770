------------------------------- MODULE Memory -------------------------------
(***************************************************************************)
(* memset and memcpy, the same text in the kernel (hal/mem.cpp) and in the *)
(* boot loader (amd64/mem/mem.cpp).  At most eight bytes are written one   *)
(* by one; of more, first all whole qwords and then the rest byte by byte. *)
(*                                                                         *)
(* One call is modelled, a turn of a loop being an action.  A pointer is   *)
(* destination or source plus done, the bytes before it; no area wraps     *)
(* around the end of the address space.                                    *)
(***************************************************************************)
EXTENDS Integers

CONSTANT Address    \* addresses of bytes

Byte == 0..255

VARIABLES
    function,               \* "memset" or "memcpy"
    destination, source, num,
    value,                  \* memset's qword, byte by byte
    memory,
    before,                 \* history: memory when the function was called
    done,
    tail,                   \* where the bytes start that are written singly
    pc                      \* "call", "qwords", "bytes" or "return"

call == <<function, destination, source, num, value, before>>
vars == <<call, memory, done, tail, pc>>

Area(start, size) == start..(start + size - 1)

Init ==
    /\ function \in {"memset", "memcpy"}
    /\ destination \in Nat /\ source \in Nat /\ num \in Nat
    /\ Area(destination, num) \subseteq Address
    /\ function = "memcpy" => Area(source, num) \subseteq Address
    /\ value \in [0..7 -> Byte]
    /\ memory \in [Address -> Byte]
    /\ before = memory
    /\ done = 0 /\ tail = 0 /\ pc = "call"

newnum == num - (num % 8)

Short ==
    /\ pc = "call" /\ num <= 8
    /\ pc' = "bytes"
    /\ UNCHANGED <<call, memory, done, tail>>

Long ==
    /\ pc = "call" /\ num > 8
    /\ pc' = "qwords"
    /\ UNCHANGED <<call, memory, done, tail>>

\* The byte that goes to address a, in an area written from first on.
Source(a, first) ==
    IF function = "memset" THEN value[a - (destination + first)]
    ELSE memory[source + (a - destination)]

\* A qword is read before it is written.
WriteQword ==
    /\ pc = "qwords" /\ done < newnum
    /\ memory' = [a \in Address |-> IF a \in Area(destination + done, 8)
                                    THEN Source(a, done) ELSE memory[a]]
    /\ done' = done + 8
    /\ UNCHANGED <<call, tail, pc>>

Remainder ==
    /\ pc = "qwords" /\ done >= newnum
    /\ done' = newnum /\ tail' = newnum
    /\ pc' = "bytes"
    /\ UNCHANGED <<call, memory>>

WriteByte ==
    /\ pc = "bytes" /\ done < num
    /\ memory' = [memory EXCEPT ![destination + done] =
                    Source(destination + done, tail)]
    /\ done' = done + 1
    /\ UNCHANGED <<call, tail, pc>>

Return ==
    /\ pc = "bytes" /\ done >= num
    /\ pc' = "return"
    /\ UNCHANGED <<call, memory, done, tail>>

Next == Short \/ Long \/ WriteQword \/ Remainder \/ WriteByte \/ Return

Spec == Init /\ [][Next]_vars

-----------------------------------------------------------------------------
\* What is copied upwards must not reach into where it goes.
Separate ==
    function = "memcpy" => destination <= source \/ source + num <= destination

\* The byte that belongs at address a.
Wanted(a) ==
    IF a \notin Area(destination, num) THEN before[a]
    ELSE IF function = "memset" THEN value[(a - destination) % 8]
    ELSE before[source + (a - destination)]

\* The function's promise, whatever the length and wherever the areas are:
\* the area holds the source's bytes as they were, or the value again and
\* again, and no other byte is changed.  memcpy may even move bytes down.
Delivers ==
    pc = "return" /\ Separate => \A a \in Address : memory[a] = Wanted(a)

\* No byte outside the area is ever written, not even for a while, be the
\* source where it may.
StaysInArea ==
    \A a \in Address : a \notin Area(destination, num) => memory[a] = before[a]

(***************************************************************************)
(* The inductive invariant.                                                *)
(***************************************************************************)
CallTypes ==
    /\ function \in {"memset", "memcpy"}
    /\ destination \in Nat /\ source \in Nat /\ num \in Nat
    /\ Area(destination, num) \subseteq Address
    /\ function = "memcpy" => Area(source, num) \subseteq Address
    /\ value \in [0..7 -> Byte]
    /\ before \in [Address -> Byte]

TypeOK ==
    /\ CallTypes
    /\ memory \in [Address -> Byte]
    /\ done \in 0..num /\ tail \in 0..num
    /\ pc \in {"call", "qwords", "bytes", "return"}

\* Bytes are written singly from a multiple of eight on, and at most eight.
Progress ==
    /\ pc = "call" => done = 0 /\ tail = 0
    /\ pc = "qwords" => done % 8 = 0 /\ done <= newnum
    /\ pc = "bytes" => tail % 8 = 0 /\ tail <= done /\ num - tail <= 8
    /\ pc = "return" => done = num

\* What is behind the pointer is as wanted, the rest as it was.
Written ==
    /\ \A a \in Address : a \notin Area(destination, done) => memory[a] = before[a]
    /\ Separate => \A a \in Area(destination, done) : memory[a] = Wanted(a)

Inv == TypeOK /\ Progress /\ Written
=============================================================================
