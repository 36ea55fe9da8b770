--------------------------- MODULE ConsoleProofs ---------------------------
(***************************************************************************)
(* Whatever the size of the screen, the dump and kpanic stay on it, and    *)
(* kpanic has filled all of it before it prints.  Kpanic's waits leave the *)
(* screen alone, so this holds of it from the exception to the power's     *)
(* end.                                                                    *)
(***************************************************************************)
EXTENDS Kpanic, TLAPS

\* A product that is smaller has the smaller factor.
LEMMA Cancel ==
  ASSUME NEW c \in Nat, NEW a \in Int, NEW b \in Int, a * c < b * c
  PROVE  a < b
<1> SUFFICES ASSUME a >= b PROVE FALSE
  OBVIOUS
<1>1. (a - b) * c >= 0
  OBVIOUS
<1>2. (a - b) * c = a * c - b * c
  OBVIOUS
<1> QED
  BY <1>1, <1>2

\* kpanic's loop is as long as the screen has cells.
LEMMA FillsScreen == FillCount = Columns * Rows
  BY ConsoleAssumption DEF FillCount, SCREEN_WIDTH, SCREEN_HEIGHT

\* The cursor as a row and a column.
Col == screenX \div 8
Row == screenY \div 8

\* What the proof is by induction on.
CursorInv ==
    /\ TypeOK
    /\ CursorKeepsCount
    /\ OnScreen

\* The part of it about the cursor's position and the screen.
ScreenOK ==
    /\ OnScreen
    /\ \E col \in 0..Columns : screenX = 8 * col
    /\ screenY % 8 = 0 /\ screenY \in Nat
    /\ screen \in [Cells -> {"", "#", "text"}]
    /\ outside \in BOOLEAN

\* And that about the loops.
LoopsOK ==
    /\ pc \in {"dump", "fill", "message"}
    /\ counter \in Nat /\ due \in 0..3
    /\ drawn \in Nat /\ newlines \in Nat

\* The invariant is made of these and the account.
LEMMA Parts == CursorInv <=> ScreenOK /\ LoopsOK /\ CursorKeepsCount
  BY Zenon DEF CursorInv, TypeOK, ScreenOK, LoopsOK
LEMMA PartsNext == CursorInv' <=> ScreenOK' /\ LoopsOK' /\ CursorKeepsCount'
  BY Zenon DEF CursorInv, TypeOK, ScreenOK, LoopsOK

\* A character that is still within what a part may print lands on the screen
\* and moves the cursor by one cell.
LEMMA PutcStays ==
  ASSUME CursorInv, NEW g \in {"#", "text"}, putc(g),
         NEW room \in Nat, drawn < room,
         room + Columns * newlines <= Columns * Rows
  PROVE  /\ ScreenOK'
         /\ (screenY' \div 8 - newlines) * Columns + screenX' \div 8
              <= drawn + 1
         /\ drawn' = drawn + 1 /\ newlines' = newlines
<1>1. PICK col \in 0..Columns : screenX = 8 * col
  BY DEF CursorInv, TypeOK
<1>2. PICK row \in Nat : screenY = 8 * row
  <2>1. screenY \in Nat /\ screenY % 8 = 0
    BY DEF CursorInv, TypeOK
  <2>2. screenY = 8 * (screenY \div 8) /\ screenY \div 8 \in Nat
    BY <2>1
  <2> QED
    BY <2>2
<1>3. /\ Columns \in Nat \ {0} /\ Rows \in Nat
      /\ drawn \in Nat /\ newlines \in Nat
  BY ConsoleAssumption DEF CursorInv, TypeOK
<1>11. outside = FALSE
  BY DEF CursorInv, TypeOK, OnScreen
<1>12. screen \in [Cells -> {"", "#", "text"}]
  BY DEF CursorInv, TypeOK
<1>4. screenX \div 8 = col /\ screenY \div 8 = row
  BY <1>1, <1>2, <1>3
<1>5. (row - newlines) * Columns + col <= drawn
  BY <1>4 DEF CursorInv, CursorKeepsCount
<1>6. (Rows - newlines) * Columns = Columns * Rows - Columns * newlines
  BY <1>3
<1>7. drawn' = drawn + 1 /\ newlines' = newlines
  BY DEF putc
<1>8. \A r \in Nat, x \in Nat :
        /\ (r - newlines) * Columns + x <= drawn
        /\ x < Columns
        => <<r, x>> \in Cells
  <2> SUFFICES ASSUME NEW r \in Nat, NEW x \in Nat,
                      (r - newlines) * Columns + x <= drawn, x < Columns
               PROVE  r < Rows
    BY <1>3 DEF Cells
  <2>0. r - newlines \in Int /\ Rows - newlines \in Int
    BY <1>3
  <2>1. (r - newlines) * Columns \in Int /\ (Rows - newlines) * Columns \in Int
        /\ Columns * Rows \in Int /\ Columns * newlines \in Int
    BY <1>3, <2>0
  <2>2. (r - newlines) * Columns < (Rows - newlines) * Columns
    BY <1>3, <1>6, <2>1
  <2>3. r - newlines < Rows - newlines
    BY <1>3, <2>0, <2>2, Cancel
  <2> QED
    BY <1>3, <2>3
<1>9. CASE col = Columns
  <2>1. AtEnd(screenX)
    BY <1>1, <1>9 DEF AtEnd, SCREEN_WIDTH
  <2>2. /\ screenX' = 8 /\ screenY' = 8 * row + 8
        /\ screen' = [c \in Cells |->
                        IF c = <<(8 * row + 8) \div 8, 0 \div 8>>
                        THEN g ELSE screen[c]]
        /\ outside' = (outside \/ <<(8 * row + 8) \div 8, 0 \div 8>> \notin Cells)
    BY <1>2, <2>1 DEF putc
  <2>3. (8 * row + 8) \div 8 = row + 1 /\ 0 \div 8 = 0
    OBVIOUS
  <2>4. (row + 1 - newlines) * Columns = (row - newlines) * Columns + Columns
    BY <1>3
  <2>5. (row + 1 - newlines) * Columns + 0 <= drawn
    BY <1>3, <1>5, <1>9, <2>4
  <2>6. <<row + 1, 0>> \in Cells
    BY <1>3, <1>8, <2>5
  <2>7. OnScreen' /\ outside' \in BOOLEAN
    BY <1>11, <2>2, <2>3, <2>6 DEF OnScreen
  <2>8. screen' \in [Cells -> {"", "#", "text"}]
    BY <1>12, <2>2
  <2>9. screenX' = 8 * 1 /\ 1 \in 0..Columns
    BY <1>3, <2>2
  <2>10. /\ screenY' \in Nat /\ screenY' % 8 = 0
         /\ screenY' \div 8 = row + 1 /\ screenX' \div 8 = 1
    BY <2>2
  <2>11. (screenY' \div 8 - newlines) * Columns + screenX' \div 8 <= drawn + 1
    <3> DEFINE r == row + 1
    <3>1. (screenY' \div 8 - newlines) * Columns + screenX' \div 8
            = (r - newlines) * Columns + 1
      <4>1. screenY' \div 8 = r /\ screenX' \div 8 = 1
        BY <2>10
      <4> HIDE DEF r
      <4> QED
        BY <4>1, Zenon
    <3>2. (r - newlines) * Columns + 1 <= drawn + 1
      BY <1>3, <2>5
    <3> HIDE DEF r
    <3> QED
      BY <3>1, <3>2, Zenon
  <2>12. ScreenOK'
    BY <2>7, <2>8, <2>9, <2>10, Zenon DEF ScreenOK
  <2> QED
    BY <1>7, <2>11, <2>12
<1>10. CASE col < Columns
  <2>1. ~ AtEnd(screenX)
    BY <1>1, <1>3, <1>10 DEF AtEnd, SCREEN_WIDTH
  <2>2. /\ screenX' = 8 * col + 8 /\ screenY' = 8 * row
        /\ screen' = [c \in Cells |->
                        IF c = <<(8 * row) \div 8, (8 * col) \div 8>>
                        THEN g ELSE screen[c]]
        /\ outside' = (outside
                         \/ <<(8 * row) \div 8, (8 * col) \div 8>> \notin Cells)
    BY <1>1, <1>2, <2>1 DEF putc
  <2>3. (8 * row) \div 8 = row /\ (8 * col) \div 8 = col /\ col \in Nat
    BY <1>1, <1>2, <1>3
  <2>6. <<row, col>> \in Cells
    BY <1>5, <1>8, <1>10, <2>3
  <2>7. OnScreen' /\ outside' \in BOOLEAN
    BY <1>11, <2>2, <2>3, <2>6 DEF OnScreen
  <2>8. screen' \in [Cells -> {"", "#", "text"}]
    BY <1>12, <2>2
  <2>9. screenX' = 8 * (col + 1) /\ col + 1 \in 0..Columns
    BY <1>3, <1>10, <2>2, <2>3
  <2>10. /\ screenY' \in Nat /\ screenY' % 8 = 0
         /\ screenY' \div 8 = row /\ screenX' \div 8 = col + 1
    BY <2>2, <2>3
  <2>11. (screenY' \div 8 - newlines) * Columns + screenX' \div 8 <= drawn + 1
    <3>1. (row - newlines) * Columns \in Int
      BY <1>3
    <3>2. (screenY' \div 8 - newlines) * Columns + screenX' \div 8
            = (row - newlines) * Columns + (col + 1)
      BY <2>10, Zenon
    <3>3. (row - newlines) * Columns + (col + 1) <= drawn + 1
      BY <1>3, <1>5, <2>3, <3>1
    <3> QED
      BY <3>2, <3>3, Zenon
  <2>12. ScreenOK'
    BY <2>7, <2>8, <2>9, <2>10, Zenon DEF ScreenOK
  <2> QED
    BY <1>7, <2>11, <2>12
<1>13. col = Columns \/ col < Columns
  BY <1>1, <1>3
<1> QED
  BY <1>9, <1>10, <1>13

\* Moving the cursor to the origin keeps its type and what is on the screen.
LEMMA OriginStays ==
  ASSUME CursorInv, Origin
  PROVE  /\ ScreenOK'
         /\ drawn' = 0 /\ newlines' = 0
         /\ (screenY' \div 8 - newlines') * Columns + screenX' \div 8 <= drawn'
<1>1. /\ screenX' = 0 /\ screenY' = 0 /\ drawn' = 0 /\ newlines' = 0
      /\ screen' = screen /\ outside' = outside
  BY DEF Origin
<1>2. Columns \in Nat
  BY ConsoleAssumption
<1>3. \E col \in 0..Columns : screenX' = 8 * col
  <2>1. 0 \in 0..Columns /\ screenX' = 8 * 0
    BY <1>1, <1>2
  <2> QED
    BY <2>1
<1>4. screenY' % 8 = 0 /\ screenY' \in Nat
  BY <1>1
<1>5. /\ screen' \in [Cells -> {"", "#", "text"}]
      /\ outside' \in BOOLEAN /\ OnScreen'
  BY <1>1 DEF CursorInv, TypeOK, OnScreen
<1>6. (screenY' \div 8 - newlines') * Columns + screenX' \div 8 <= drawn'
  BY <1>1, <1>2
<1>7. ScreenOK'
  BY <1>3, <1>4, <1>5, Zenon DEF ScreenOK
<1> QED
  BY <1>1, <1>6, <1>7

\* Before anything is printed the cursor is at the origin.
LEMMA InitCursor == Init => CursorInv
<1> SUFFICES ASSUME Init PROVE CursorInv
  OBVIOUS
<1>1. Columns \in Nat /\ Bytes \in Nat
  BY ConsoleAssumption
<1>2. /\ screenX = 0 /\ screenY = 0 /\ outside = FALSE
      /\ pc = "dump" /\ counter = 0 /\ due = 0 /\ drawn = 0 /\ newlines = 0
  BY Zenon DEF Init
<1>3. \E col \in 0..Columns : screenX = 8 * col
  <2>1. 0 \in 0..Columns /\ screenX = 8 * 0
    BY <1>1, <1>2
  <2> QED
    BY <2>1
<1>4. screenY % 8 = 0 /\ screenY \in Nat
  BY <1>2
<1>5. screen \in [Cells -> {"", "#", "text"}]
  BY DEF Init
<1>6. ScreenOK
  BY <1>2, <1>3, <1>4, <1>5, Zenon DEF ScreenOK, OnScreen
<1>7. LoopsOK /\ CursorKeepsCount
  BY <1>1, <1>2 DEF LoopsOK, CursorKeepsCount
<1> QED
  BY <1>6, <1>7, Parts

\* One more byte makes room for its characters.
LEMMA ByteFits ==
  ASSUME NEW p \in Nat, NEW k \in Nat, NEW l \in 1..3, p <= 3 * k
  PROVE  p + l <= 3 * (k + 1)
  OBVIOUS

\* Every action keeps the cursor's account.
LEMMA NextCursor == CursorInv /\ [Next]_vars => CursorInv'
<1> SUFFICES ASSUME CursorInv, [Next]_vars PROVE CursorInv'
  OBVIOUS
<1>1. /\ Columns \in Nat \ {0} /\ Rows \in Nat \ {0} /\ Bytes \in Nat
      /\ MessageChars \in Nat /\ MessageLines \in Nat
      /\ 3 * Bytes <= Columns * Rows
      /\ MessageChars + Columns * MessageLines <= Columns * Rows
  BY ConsoleAssumption
<1>2. ScreenOK /\ LoopsOK /\ CursorKeepsCount
  BY Parts
<1>3. CASE DumpByte
  <2>1. ScreenOK'
    BY <1>2, <1>3, Zenon DEF ScreenOK, OnScreen, DumpByte
  <2>2. LoopsOK'
    BY <1>2, <1>3 DEF LoopsOK, DumpByte
  <2>3. (screenY' \div 8 - newlines') * Columns + screenX' \div 8 <= drawn'
    BY <1>2, <1>3, Zenon DEF CursorKeepsCount, DumpByte
  <2>4. /\ pc' = "dump" /\ newlines' = 0
        /\ drawn' + due' <= 3 * counter' /\ counter' <= Bytes
    <3>1. /\ pc = "dump" /\ due = 0 /\ counter < Bytes /\ counter' = counter + 1
          /\ due' \in 1..3
          /\ pc' = pc /\ drawn' = drawn /\ newlines' = newlines
      BY <1>3, Zenon DEF DumpByte
    <3>2. newlines = 0 /\ drawn + due <= 3 * counter
      BY <1>2, <3>1, Zenon DEF CursorKeepsCount
    <3>3. drawn \in Nat /\ counter \in Nat
      BY <1>2, Zenon DEF LoopsOK
    <3>4. drawn <= 3 * counter
      BY <3>1, <3>2, <3>3
    <3>5. drawn' + due' <= 3 * counter'
      <4>1. drawn + due' <= 3 * (counter + 1)
        BY <3>1, <3>3, <3>4, ByteFits
      <4> QED
        BY <3>1, <4>1, Zenon
    <3>6. counter' <= Bytes
      BY <1>1, <3>1, <3>3
    <3> QED
      BY <3>1, <3>2, <3>5, <3>6, Zenon
  <2>5. CursorKeepsCount'
    BY <2>3, <2>4 DEF CursorKeepsCount
  <2> QED
    BY <2>1, <2>2, <2>5, PartsNext
<1>4. CASE DumpChar
  <2>1. /\ putc("text") /\ drawn < Columns * Rows /\ newlines = 0
        /\ Columns * Rows + Columns * newlines <= Columns * Rows
        /\ Columns * Rows \in Nat
    BY <1>1, <1>2, <1>4 DEF DumpChar, LoopsOK, CursorKeepsCount
  <2>2. /\ ScreenOK'
        /\ (screenY' \div 8 - newlines) * Columns + screenX' \div 8 <= drawn + 1
        /\ drawn' = drawn + 1 /\ newlines' = newlines
    BY <2>1, PutcStays
  <2>3. LoopsOK' /\ CursorKeepsCount'
    BY <1>1, <1>2, <1>4, <2>2 DEF LoopsOK, CursorKeepsCount, DumpChar
  <2> QED
    BY <2>2, <2>3, PartsNext
<1>5. CASE kpanic
  <2>1. /\ ScreenOK' /\ drawn' = 0 /\ newlines' = 0
        /\ (screenY' \div 8 - newlines') * Columns + screenX' \div 8 <= drawn'
    BY <1>5, OriginStays DEF kpanic
  <2>2. 0 <= FillCount
    BY <1>1, FillsScreen
  <2>3. LoopsOK' /\ CursorKeepsCount'
    BY <1>1, <1>5, <2>1, <2>2 DEF LoopsOK, CursorKeepsCount, kpanic
  <2> QED
    BY <2>1, <2>3, PartsNext
<1>6. CASE Fill
  <2>1. /\ putc("#") /\ drawn < Columns * Rows
        /\ Columns * Rows + Columns * newlines <= Columns * Rows
        /\ Columns * Rows \in Nat
    BY <1>1, <1>2, <1>6, FillsScreen DEF Fill, LoopsOK, CursorKeepsCount
  <2>2. /\ ScreenOK'
        /\ (screenY' \div 8 - newlines) * Columns + screenX' \div 8 <= drawn + 1
        /\ drawn' = drawn + 1 /\ newlines' = newlines
    BY <2>1, PutcStays
  <2>3. LoopsOK' /\ CursorKeepsCount'
    BY <1>1, <1>2, <1>6, <2>2, FillsScreen DEF LoopsOK, CursorKeepsCount, Fill
  <2> QED
    BY <2>2, <2>3, PartsNext
<1>7. CASE EndFill
  <2>1. /\ ScreenOK' /\ drawn' = 0 /\ newlines' = 0
        /\ (screenY' \div 8 - newlines') * Columns + screenX' \div 8 <= drawn'
    BY <1>7, OriginStays DEF EndFill
  <2>2. LoopsOK' /\ CursorKeepsCount'
    BY <1>1, <1>2, <1>7, <2>1 DEF LoopsOK, CursorKeepsCount, EndFill
  <2> QED
    BY <2>1, <2>2, PartsNext
<1>8. CASE Message
  <2>1. CASE drawn < MessageChars /\ putc("text")
    <3>1. MessageChars + Columns * newlines <= Columns * Rows
      <4>1. Columns * newlines <= Columns * MessageLines
        BY <1>1, <1>2, <1>8 DEF Message, LoopsOK, CursorKeepsCount
      <4>2. Columns * newlines \in Int /\ Columns * MessageLines \in Int
        BY <1>1, <1>2 DEF LoopsOK
      <4> QED
        BY <1>1, <4>1, <4>2
    <3>2. /\ ScreenOK'
          /\ (screenY' \div 8 - newlines) * Columns + screenX' \div 8
               <= drawn + 1
          /\ drawn' = drawn + 1 /\ newlines' = newlines
      BY <1>1, <2>1, <3>1, PutcStays
    <3>3. LoopsOK' /\ CursorKeepsCount'
      BY <1>1, <1>2, <1>8, <2>1, <3>2 DEF LoopsOK, CursorKeepsCount, Message
    <3> QED
      BY <3>2, <3>3, PartsNext
  <2>2. CASE newlines < MessageLines /\ newline
    <3>1. /\ screenX' = 0 /\ screenY' = screenY + 8
          /\ newlines' = newlines + 1 /\ drawn' = drawn
          /\ screen' = screen /\ outside' = outside
          /\ pc = "message" /\ pc' = pc /\ counter' = counter /\ due' = due
      BY <1>8, <2>2, Zenon DEF newline, Message
    <3>2. screenY \in Nat /\ screenY % 8 = 0
      BY <1>2, Zenon DEF ScreenOK
    <3>3. PICK col \in 0..Columns : screenX = 8 * col
      BY <1>2 DEF ScreenOK
    <3>4. /\ screenY' \in Nat /\ screenY' % 8 = 0
          /\ screenY' \div 8 = screenY \div 8 + 1
      BY <3>1, <3>2
    <3>5. \E c \in 0..Columns : screenX' = 8 * c
      <4>1. 0 \in 0..Columns /\ screenX' = 8 * 0
        BY <1>1, <3>1
      <4> QED
        BY <4>1
    <3>6. ScreenOK'
      BY <1>2, <3>1, <3>4, <3>5, Zenon DEF ScreenOK, OnScreen
    <3>7. drawn \in Nat /\ newlines \in Nat
      BY <1>2, Zenon DEF LoopsOK
    <3>8. (screenY' \div 8 - newlines') * Columns + screenX' \div 8 <= drawn'
      <4>1. screenY' \div 8 - newlines' = screenY \div 8 - newlines
        BY <3>1, <3>2, <3>4, <3>7
      <4>2. (screenY \div 8 - newlines) * Columns + screenX \div 8 <= drawn
        BY <1>2, Zenon DEF CursorKeepsCount
      <4>3. screenX \div 8 >= 0 /\ screenX \div 8 \in Int
        BY <1>1, <3>3
      <4>4. screenX' \div 8 = 0
        BY <3>1
      <4>5. (screenY \div 8 - newlines) * Columns \in Int
        BY <1>1, <3>2, <3>7
      <4>6. (screenY \div 8 - newlines) * Columns + 0 <= drawn
        BY <3>7, <4>2, <4>3, <4>5
      <4> QED
        BY <3>1, <4>1, <4>4, <4>6, Zenon
    <3>9. LoopsOK'
      BY <1>2, <3>1 DEF LoopsOK
    <3>10. drawn' <= MessageChars /\ newlines' <= MessageLines
      BY <1>1, <1>2, <2>2, <3>1, <3>7 DEF CursorKeepsCount
    <3>11. CursorKeepsCount'
      BY <3>1, <3>8, <3>10 DEF CursorKeepsCount
    <3> QED
      BY <3>6, <3>9, <3>11, PartsNext
  <2> QED
    BY <1>8, <2>1, <2>2, Zenon DEF Message
<1>9. CASE UNCHANGED vars
  BY <1>9 DEF CursorInv, TypeOK, CursorKeepsCount, OnScreen, vars
<1> QED
  BY <1>3, <1>4, <1>5, <1>6, <1>7, <1>8, <1>9 DEF Next

\* The type invariant and the account, for every size of the screen.
THEOREM CursorCorrect == Spec => [](TypeOK /\ CursorKeepsCount)
<1>1. CursorInv => TypeOK /\ CursorKeepsCount
  BY DEF CursorInv
<1> QED
  BY <1>1, InitCursor, NextCursor, PTL DEF Spec

\* Nothing is written outside the frame buffer, for every size of the screen,
\* as long as dump and message fit it.
THEOREM StaysOnScreen == Spec => []OnScreen
<1>1. CursorInv => OnScreen
  BY DEF CursorInv
<1> QED
  BY <1>1, InitCursor, NextCursor, PTL DEF Spec

-----------------------------------------------------------------------------
(***************************************************************************)
(* kpanic wipes the screen before it prints.                               *)
(***************************************************************************)
\* While kpanic fills the screen the cursor is at cell number counter, line
\* by line, and the cells before it show #.
FillInv ==
    /\ pc = "fill" =>
         /\ Row * Columns + Col = counter
         /\ \A c \in Cells : c[1] * Columns + c[2] < counter => screen[c] = "#"
    /\ Wiped

\* Cells have different numbers.
LEMMA SameCell ==
  ASSUME NEW r \in Nat, NEW s \in Nat,
         NEW x \in 0..(Columns - 1), NEW y \in 0..(Columns - 1),
         r * Columns + x = s * Columns + y
  PROVE  r = s /\ x = y
<1>1. Columns \in Nat \ {0}
  BY ConsoleAssumption
<1>2. /\ r * Columns \in Int /\ s * Columns \in Int
      /\ (r + 1) * Columns = r * Columns + Columns
      /\ (s + 1) * Columns = s * Columns + Columns
  BY <1>1
<1>3. r * Columns < (s + 1) * Columns /\ s * Columns < (r + 1) * Columns
  BY <1>1, <1>2
<1>4. r < s + 1 /\ s < r + 1
  BY <1>1, <1>3, Cancel
<1>5. r = s
  BY <1>4
<1> QED
  BY <1>1, <1>2, <1>5

\* The last cell's number is one less than what kpanic's loop counts to.
LEMMA CellNumber ==
  ASSUME NEW c \in Cells
  PROVE  c[1] * Columns + c[2] < FillCount
<1>1. Columns \in Nat \ {0} /\ Rows \in Nat \ {0}
  BY ConsoleAssumption
<1>2. c[1] \in 0..(Rows - 1) /\ c[2] \in 0..(Columns - 1)
  BY DEF Cells
<1> DEFINE r == c[1]
           x == c[2]
<1> HIDE DEF r, x
<1>3. r \in 0..(Rows - 1) /\ x \in 0..(Columns - 1)
  BY <1>2 DEF r, x
<1>4. /\ r * Columns \in Int /\ Columns * Rows \in Int
      /\ (r + 1) * Columns = r * Columns + Columns
      /\ (r + 1) * Columns <= Columns * Rows
  <2>1. (Rows - (r + 1)) * Columns >= 0
    BY <1>1, <1>3
  <2>2. (Rows - (r + 1)) * Columns = Columns * Rows - (r + 1) * Columns
    BY <1>1, <1>3
  <2> QED
    BY <1>1, <1>3, <2>1, <2>2
<1>5. r * Columns + x < Columns * Rows
  BY <1>1, <1>3, <1>4
<1> QED
  BY <1>5, FillsScreen DEF r, x

\* One more # leaves one cell less to fill.
LEMMA FillOne ==
  ASSUME CursorInv, FillInv, Fill
  PROVE  FillInv'
<1>1. /\ pc = "fill" /\ counter < FillCount
      /\ counter' = counter + 1 /\ pc' = "fill"
      /\ putc("#")
  BY DEF Fill
<1>2. /\ Row * Columns + Col = counter /\ counter \in Nat
      /\ \A c \in Cells : c[1] * Columns + c[2] < counter => screen[c] = "#"
  BY <1>1 DEF FillInv, CursorInv, TypeOK
<1>3. Columns \in Nat \ {0} /\ Rows \in Nat \ {0}
  BY ConsoleAssumption
<1>4. PICK col \in 0..Columns : screenX = 8 * col
  BY DEF CursorInv, TypeOK
<1>5. PICK row \in Nat : screenY = 8 * row
  <2>1. screenY \in Nat /\ screenY % 8 = 0
    BY DEF CursorInv, TypeOK
  <2>2. screenY = 8 * (screenY \div 8) /\ screenY \div 8 \in Nat
    BY <2>1
  <2> QED
    BY <2>2
<1>6. Col = col /\ Row = row
  BY <1>3, <1>4, <1>5 DEF Col, Row
<1>7. row * Columns + col = counter
  BY <1>2, <1>6, Zenon
<1> DEFINE x == IF col = Columns THEN 0 ELSE col
           y == IF col = Columns THEN row + 1 ELSE row
<1>8. x \in 0..(Columns - 1) /\ y \in Nat /\ y * Columns + x = counter
  <2>1. CASE col = Columns
    <3>1. (row + 1) * Columns = row * Columns + Columns
      BY <1>3
    <3> QED
      BY <1>3, <1>7, <2>1, <3>1
  <2>2. CASE col # Columns
    BY <1>3, <1>7, <2>2
  <2> QED
    BY <2>1, <2>2
<1>9. /\ screenX' = 8 * x + 8 /\ screenY' = 8 * y
      /\ screen' = [c \in Cells |->
                      IF c = <<(8 * y) \div 8, (8 * x) \div 8>>
                      THEN "#" ELSE screen[c]]
  <2>1. AtEnd(screenX) <=> col = Columns
    BY <1>3, <1>4 DEF AtEnd, SCREEN_WIDTH
  <2>2. /\ (IF AtEnd(screenX) THEN 0 ELSE screenX) = 8 * x
        /\ (IF AtEnd(screenX) THEN screenY + 8 ELSE screenY) = 8 * y
    BY <1>4, <1>5, <2>1
  <2> QED
    BY <1>1, <2>2 DEF putc
<1> HIDE DEF x, y
<1>10. (8 * y) \div 8 = y /\ (8 * x) \div 8 = x /\ (8 * x + 8) \div 8 = x + 1
  BY <1>3, <1>8
<1>11. Row' * Columns + Col' = counter'
  <2>1. Row' = y /\ Col' = x + 1
    BY <1>9, <1>10 DEF Row, Col
  <2>2. y * Columns + (x + 1) = counter + 1
    <3>1. y * Columns \in Int
      BY <1>3, <1>8
    <3> QED
      BY <1>3, <1>8, <3>1
  <2> QED
    BY <1>1, <2>1, <2>2, Zenon
<1>12. ASSUME NEW c \in Cells, c[1] * Columns + c[2] < counter'
       PROVE  screen'[c] = "#"
  <2>1. /\ c[1] \in 0..(Rows - 1) /\ c[2] \in 0..(Columns - 1)
        /\ c = <<c[1], c[2]>>
    BY DEF Cells
  <2>2. screen'[c] = IF c = <<y, x>> THEN "#" ELSE screen[c]
    BY <1>9, <1>10
  <2>3. CASE c[1] * Columns + c[2] < counter
    BY <1>2, <2>2, <2>3
  <2>4. CASE c[1] * Columns + c[2] = counter
    <3>1. c[1] \in Nat
      BY <1>3, <2>1
    <3>2. c[1] = y /\ c[2] = x
      <4>1. c[1] * Columns + c[2] = y * Columns + x
        BY <1>8, <2>4, Zenon
      <4> QED
        BY <1>8, <2>1, <3>1, <4>1, SameCell
    <3> QED
      BY <2>1, <2>2, <3>2, Zenon
  <2>5. c[1] * Columns + c[2] \in Int
    BY <1>3, <2>1
  <2> QED
    BY <1>1, <1>2, <1>12, <2>3, <2>4, <2>5
<1>13. Wiped'
  BY <1>1 DEF Wiped
<1> QED
  BY <1>11, <1>12, <1>13 DEF FillInv

\* Before kpanic there is nothing to say.
LEMMA InitFill == Init => FillInv
  BY DEF Init, FillInv, Wiped

\* Every action keeps what is filled.
LEMMA NextFill == CursorInv /\ FillInv /\ [Next]_vars => FillInv'
<1> SUFFICES ASSUME CursorInv, FillInv, [Next]_vars PROVE FillInv'
  OBVIOUS
<1>1. CASE DumpByte
  BY <1>1 DEF DumpByte, FillInv, Wiped
<1>2. CASE DumpChar
  BY <1>2 DEF DumpChar, FillInv, Wiped
<1>3. CASE kpanic
  <2>1. /\ pc' = "fill" /\ counter' = 0 /\ screenX' = 0 /\ screenY' = 0
    BY <1>3 DEF kpanic, Origin
  <2>2. Columns \in Nat
    BY ConsoleAssumption
  <2>3. Row' * Columns + Col' = counter'
    BY <2>1, <2>2 DEF Row, Col
  <2>4. \A c \in Cells : ~(c[1] * Columns + c[2] < counter')
    <3> TAKE c \in Cells
    <3>1. c[1] \in Nat /\ c[2] \in Nat
      BY DEF Cells
    <3>2. c[1] * Columns \in Nat
      BY <2>2, <3>1
    <3> QED
      BY <2>1, <3>1, <3>2
  <2> QED
    BY <2>1, <2>3, <2>4 DEF FillInv, Wiped
<1>4. CASE Fill
  BY <1>4, FillOne
<1>5. CASE EndFill
  <2>1. /\ pc = "fill" /\ counter >= FillCount /\ pc' = "message"
        /\ screen' = screen
    BY <1>5 DEF EndFill, Origin
  <2>2. counter \in Int /\ Columns \in Nat /\ FillCount \in Int
    <3>1. Columns \in Nat /\ Rows \in Nat /\ counter \in Nat
      BY ConsoleAssumption DEF CursorInv, TypeOK
    <3>2. Columns * Rows \in Int
      BY <3>1
    <3>3. FillCount \in Int
      BY <3>2, FillsScreen, Zenon
    <3> QED
      BY <3>1, <3>3
  <2>3. ASSUME NEW c \in Cells PROVE screen[c] = "#"
    <3>1. c[1] * Columns + c[2] < FillCount
      BY CellNumber
    <3>2. c[1] * Columns + c[2] \in Int
      <4>1. c[1] \in Int /\ c[2] \in Int
        BY DEF Cells
      <4> QED
        BY <2>2, <4>1
    <3>3. c[1] * Columns + c[2] < counter
      BY <2>1, <2>2, <3>1, <3>2
    <3> QED
      BY <2>1, <3>3 DEF FillInv
  <2> QED
    BY <2>1, <2>3 DEF FillInv, Wiped
<1>6. CASE Message
  <2>1. pc = "message" /\ pc' = "message" /\ drawn \in Nat
    BY <1>6 DEF Message, CursorInv, TypeOK
  <2>2. \A c \in Cells :
           screen[c] = "#" \/ (screen[c] = "text" /\ drawn > 0)
    BY <2>1 DEF FillInv, Wiped
  <2>3. CASE putc("text")
    <3>1. /\ drawn' = drawn + 1
          /\ \A c \in Cells : screen'[c] \in {"text", screen[c]}
      BY <2>3 DEF putc
    <3>2. drawn' > 0
      BY <2>1, <3>1
    <3> QED
      BY <2>1, <2>2, <3>1, <3>2 DEF FillInv, Wiped
  <2>4. CASE newline
    BY <2>1, <2>2, <2>4 DEF newline, FillInv, Wiped
  <2> QED
    BY <1>6, <2>3, <2>4 DEF Message
<1>7. CASE UNCHANGED vars
  BY <1>7 DEF vars, FillInv, Wiped, Row, Col
<1> QED
  BY <1>1, <1>2, <1>3, <1>4, <1>5, <1>6, <1>7 DEF Next

\* kpanic's message is printed on a screen that shows nothing else, for every
\* size of the screen and wherever the dump was when the exception came.
THEOREM MessageOnWipedScreen == Spec => []Wiped
<1>1. FillInv => Wiped
  BY DEF FillInv
<1> QED
  BY <1>1, InitCursor, NextCursor, InitFill, NextFill, PTL DEF Spec

(***************************************************************************)
(* Kpanic implements Console.                                              *)
(***************************************************************************)
\* Every step of kpanic and the clock is a step of the screen or none.
LEMMA KpanicSteps == [KpanicNext]_allVars => [Next]_vars
  BY Zenon DEF KpanicNext, Show, Sleep, Tick, allVars

\* The composition implements Console, whatever the waits do.
THEOREM KpanicIsConsole == KpanicSpec => Spec
<1>1. KpanicInit => Init
  BY DEF KpanicInit
<1> QED
  BY <1>1, KpanicSteps, PTL DEF KpanicSpec, Spec

\* Nothing is written outside the frame buffer until the power is off, for
\* every size of the screen.
THEOREM KpanicStaysOnScreen == KpanicSpec => []OnScreen
  BY KpanicIsConsole, StaysOnScreen, PTL

\* The cursor keeps count of what was printed until the power is off.
THEOREM KpanicKeepsCount == KpanicSpec => [](TypeOK /\ CursorKeepsCount)
  BY KpanicIsConsole, CursorCorrect, PTL

\* Both texts are printed on a screen that shows nothing else but #, until the
\* power is off, for every size of the screen.
THEOREM KpanicWipes == KpanicSpec => []Wiped
  BY KpanicIsConsole, MessageOnWipedScreen, PTL
=============================================================================
