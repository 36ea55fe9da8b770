------------------------------ MODULE Console ------------------------------
(***************************************************************************)
(* The screen: putc and the newline of printf in src/kernel/hal/stdout.cpp,*)
(* as the kernel uses them, that is for _start's dump of two sectors and   *)
(* for kpanic, which an exception may call at any time.                    *)
(*                                                                         *)
(* A character is eight pixels by eight.  The screen is a table of cells;  *)
(* a character whose cell is not on it goes to the memory after the frame  *)
(* buffer, which sets `outside'.  The cursor is kept in words; they do not *)
(* wrap while it stays on the screen.  drawn and newlines are history:     *)
(* what was printed since the cursor was last put at the origin.           *)
(*                                                                         *)
(* WrapLate, FillShort and OriginColumn are not part of the model: they    *)
(* are mistakes the code could have made.                                  *)
(***************************************************************************)
EXTENDS Integers

CONSTANTS
    Columns, Rows,      \* SCREEN_WIDTH / 8 and SCREEN_HEIGHT / 8: 80 and 60
    Bytes,              \* bytes that _start dumps: 1024
    MessageChars,       \* of the texts kpanic prints: characters
    MessageLines        \* and newlines

SCREEN_WIDTH == 8 * Columns
SCREEN_HEIGHT == 8 * Rows

\* A dumped byte takes three characters, so the dump fits; so does a message.
ASSUME ConsoleAssumption ==
    /\ Columns \in Nat \ {0} /\ Rows \in Nat \ {0}
    /\ Bytes \in Nat /\ 3 * Bytes <= Columns * Rows
    /\ MessageChars \in Nat /\ MessageLines \in Nat
    /\ MessageChars + Columns * MessageLines <= Columns * Rows

Cells == (0..(Rows - 1)) \X (0..(Columns - 1))

VARIABLES
    screenX, screenY,
    screen,     \* what each cell shows: "", "#" or "text"
    outside,    \* a character went outside the screen
    pc,         \* "dump", "fill" or "message"
    counter,    \* i of the loop that runs
    due,        \* characters left of the byte being dumped
    drawn, newlines

vars == <<screenX, screenY, screen, outside, pc, counter, due, drawn,
          newlines>>

Init ==
    /\ screenX = 0 /\ screenY = 0
    /\ screen = [c \in Cells |-> ""]
    /\ outside = FALSE
    /\ pc = "dump" /\ counter = 0 /\ due = 0
    /\ drawn = 0 /\ newlines = 0

WrapLate(x) == x > SCREEN_WIDTH
AtEnd(x) == x = SCREEN_WIDTH

\* A character: at the end of a line the cursor first goes to the next.
putc(glyph) ==
    LET x == IF AtEnd(screenX) THEN 0 ELSE screenX
        y == IF AtEnd(screenX) THEN screenY + 8 ELSE screenY
        cell == <<y \div 8, x \div 8>>
    IN  /\ screenX' = x + 8
        /\ screenY' = y
        /\ screen' = [c \in Cells |-> IF c = cell THEN glyph ELSE screen[c]]
        /\ outside' = (outside \/ cell \notin Cells)
        /\ drawn' = drawn + 1
        /\ UNCHANGED newlines

newline ==
    /\ screenX' = 0
    /\ screenY' = screenY + 8
    /\ newlines' = newlines + 1
    /\ UNCHANGED <<screen, outside, drawn>>

\* The two assignments kpanic makes twice.
OriginColumn ==
    /\ screenX' = 0 /\ screenY' = screenY
    /\ drawn' = 0 /\ newlines' = 0
    /\ UNCHANGED <<screen, outside>>
Origin ==
    /\ screenX' = 0 /\ screenY' = 0
    /\ drawn' = 0 /\ newlines' = 0
    /\ UNCHANGED <<screen, outside>>

-----------------------------------------------------------------------------
\* _start: printf("%x ", *data) is at most two digits and a space.
DumpByte ==
    /\ pc = "dump" /\ due = 0
    /\ counter < Bytes
    /\ counter' = counter + 1
    /\ due' \in 1..3
    /\ UNCHANGED <<screenX, screenY, screen, outside, pc, drawn, newlines>>

DumpChar ==
    /\ pc = "dump" /\ due > 0
    /\ putc("text")
    /\ due' = due - 1
    /\ UNCHANGED <<pc, counter>>

\* An exception: kpanic starts.
kpanic ==
    /\ pc = "dump"
    /\ Origin
    /\ pc' = "fill" /\ counter' = 0 /\ due' = 0

FillShort == (SCREEN_WIDTH * SCREEN_HEIGHT) \div 64 - 1
FillCount == (SCREEN_WIDTH * SCREEN_HEIGHT) \div 64

Fill ==
    /\ pc = "fill"
    /\ counter < FillCount
    /\ putc("#")
    /\ counter' = counter + 1
    /\ UNCHANGED <<pc, due>>

EndFill ==
    /\ pc = "fill"
    /\ counter >= FillCount
    /\ Origin
    /\ pc' = "message"
    /\ UNCHANGED <<counter, due>>

\* printf(msg) and printf("\n\nPOWER OFF").
Message ==
    /\ pc = "message"
    /\ \/ drawn < MessageChars /\ putc("text")
       \/ newlines < MessageLines /\ newline
    /\ UNCHANGED <<pc, counter, due>>

Next == DumpByte \/ DumpChar \/ kpanic \/ Fill \/ EndFill \/ Message

Spec == Init /\ [][Next]_vars

-----------------------------------------------------------------------------
(***************************************************************************)
(* Properties.                                                             *)
(***************************************************************************)
\* Every variable has its type; the cursor is at a multiple of eight, at most
\* at a line's end.
TypeOK ==
    /\ \E col \in 0..Columns : screenX = 8 * col
    /\ screenY % 8 = 0 /\ screenY \in Nat
    /\ screen \in [Cells -> {"", "#", "text"}]
    /\ outside \in BOOLEAN
    /\ pc \in {"dump", "fill", "message"}
    /\ counter \in Nat /\ due \in 0..3
    /\ drawn \in Nat /\ newlines \in Nat

\* Nothing is ever written outside the frame buffer, although putc does not
\* look at SCREEN_HEIGHT.
OnScreen == ~ outside

\* kpanic's message is printed on a screen it has filled: every cell shows #
\* unless the message has been printed over it.
Wiped == pc = "message" =>
           \A c \in Cells : screen[c] = "#" \/ (screen[c] = "text" /\ drawn > 0)

\* The cursor keeps count: the cells before it are no more than were printed,
\* and what each part prints fits the screen.
CursorKeepsCount ==
    /\ (screenY \div 8 - newlines) * Columns + screenX \div 8 <= drawn
    /\ pc = "dump" => /\ newlines = 0
                      /\ drawn + due <= 3 * counter /\ counter <= Bytes
    /\ pc = "fill" => newlines = 0 /\ drawn = counter /\ counter <= FillCount
    /\ pc = "message" => drawn <= MessageChars /\ newlines <= MessageLines
=============================================================================
