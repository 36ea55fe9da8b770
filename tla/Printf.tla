------------------------------- MODULE Printf -------------------------------
(***************************************************************************)
(* printf, fprintf and IntegerToString of src/kernel/hal/stdout.cpp, and   *)
(* how the exception handlers put them together: fprintf composes a        *)
(* message, kpanic hands it to printf as a format.                         *)
(*                                                                         *)
(* A character is its code.  A format is put together from pieces; each    *)
(* run formats one with printf, then with fprintf, then prints fprintf's   *)
(* result the way kpanic does.  One turn of a function's loop is one       *)
(* action.  What setColor is given shows in the text as a negative number. *)
(* fprintf does not know colours and is not given any.  Only a character   *)
(* may come after a stray percent sign: what follows it in a format that   *)
(* has had a conversion is passed over, were it the format's end.          *)
(*                                                                         *)
(* Definitions whose comment starts "Mistake" are not part of the model:   *)
(* each is an error that would break a property.                           *)
(***************************************************************************)
EXTENDS Integers, Sequences

CONSTANTS
    Formats,
    MaxInt, QwordRange,     \* the largest int, how many qwords there are
    NumberSize,             \* bytes of integerToStringOutput: 128
    Tens, Sixteens          \* the powers of 10 and 16, from 1 on

Int32 == -(MaxInt + 1)..MaxInt

\* That the powers ascend follows, but only by induction; so do the bounds of
\* offsets below.
IsPowers(powers, base) ==
    /\ Len(powers) > 1 /\ powers[1] = 1
    /\ \A k \in 1..(Len(powers) - 1) : powers[k + 1] = base * powers[k]
    /\ \A j, k \in 1..Len(powers) : j < k => powers[j] < powers[k]

\* A qword's digits, a sign and the end have room.
ASSUME NumberAssumption ==
    /\ MaxInt \in Nat /\ QwordRange \in Nat /\ QwordRange > 2 * MaxInt + 2
    /\ Tens \in Seq(Nat) /\ IsPowers(Tens, 10)
    /\ Sixteens \in Seq(Nat) /\ IsPowers(Sixteens, 16)
    /\ QwordRange <= Tens[Len(Tens)] /\ MaxInt < Sixteens[Len(Sixteens)]
    /\ NumberSize \in Nat /\ Len(Tens) < NumberSize

Percent == 37
NewLine == 10
Minus == 45
Letter == [d |-> 100, s |-> 115, x |-> 120, c |-> 99]
Letters == {Letter[kind] : kind \in DOMAIN Letter}

-----------------------------------------------------------------------------
(***************************************************************************)
(* Formats.  A format has a text, the arguments that are passed with it,   *)
(* and the pieces the text is made of; a piece starts at the offset `from' *)
(* of the text, where `nth' arguments have been taken.                     *)
(***************************************************************************)
\* A piece as it is written in the source.
Source(piece) ==
    CASE piece.kind = "char" -> <<piece.arg>>
      [] piece.kind = "stray" -> <<Percent>>
      [] OTHER -> <<Percent, Letter[piece.kind]>>

Taken(piece) == IF piece.kind \in DOMAIN Letter THEN 1 ELSE 0

From(f, k) == IF k \in DOMAIN f.pieces THEN f.pieces[k].from ELSE Len(f.text)
Nth(f, k) == IF k \in DOMAIN f.pieces THEN f.pieces[k].nth ELSE Len(f.args)

\* kind is "char", "d", "s", "x", "c" (a colour) or "stray"; a string holds
\* neither a percent sign nor its end.
IsPiece(p) ==
    /\ p.kind \in {"char", "stray"} \cup DOMAIN Letter
    /\ p.from \in Nat /\ p.nth \in Nat
    /\ p.kind = "char" => p.arg \in Nat \ {0, Percent}
    /\ p.kind = "s" => p.arg \in Seq(Nat \ {0, Percent})
    /\ p.kind \in {"d", "x"} => p.arg \in Int32
    /\ p.kind = "c" => p.arg \in Nat

ASSUME PrintfAssumption ==
    \A f \in Formats :
      /\ f.text \in Seq(Nat) /\ Len(f.args) \in Nat
      /\ Len(f.pieces) \in Nat /\ DOMAIN f.pieces = 1..Len(f.pieces)
      /\ From(f, 1) = 0 /\ Nth(f, 1) = 0
      /\ \A k \in DOMAIN f.pieces :
           LET p == f.pieces[k] IN
           /\ IsPiece(p)
           /\ From(f, k + 1) = p.from + Len(Source(p))
           /\ From(f, k + 1) <= Len(f.text)
           /\ \A j \in 1..Len(Source(p)) : f.text[p.from + j] = Source(p)[j]
           /\ Nth(f, k + 1) = p.nth + Taken(p) /\ Nth(f, k + 1) <= Len(f.args)
           /\ p.kind \in DOMAIN Letter => f.args[p.nth + 1] = p.arg
           /\ p.kind = "stray" => /\ k < Len(f.pieces)
                                  /\ f.pieces[k + 1].kind = "char"
                                  /\ f.pieces[k + 1].arg \notin Letters

VARIABLES
    format,
    call,       \* "printf", "fprintf", "kpanic" or "done"
    turn,       \* "scan", or the loop inside it: "size", "digit" or "hex"
    i,          \* characters of the format that are done
    used,       \* arguments that va_arg has handed out
    found,
    isNegative, value,      \* value as a qword, without its sign
    left,       \* sizeTester, newValue or num: what the divisions leave
    size, index,
    base16,     \* the digits as they are read, from the array's end
    printed,    \* what printf has printed
    buffer,     \* what fprintf returns
    message,    \* what kpanic has printed
    integerToStringOutput

texts == <<printed, buffer, message>>
number == <<isNegative, value, left, size, index, base16>>
printfVars == <<format, call, turn, i, used, found, number, texts,
                integerToStringOutput>>

-----------------------------------------------------------------------------
(***************************************************************************)
(* Numbers.                                                                *)
(***************************************************************************)
WrapInt(v) == IF v = MaxInt + 1 THEN -v ELSE v
Qword(v) == v % QwordRange

\* Mistake: the end is put where it belongs if there is no sign.
EndUnsigned(negative, digits) == digits + 1
End(negative, digits) == negative + digits + 1

strlen(text) == CHOOSE l \in 0..(NumberSize - 1) :
                  text[l] = 0 /\ \A k \in 0..(l - 1) : text[k] # 0

StringOf(text) == [k \in 1..strlen(text) |-> text[k - 1]]

\* C's quotient and remainder.
Quotient(a, b) == IF a >= 0 THEN a \div b ELSE -((-a) \div b)
Remainder(a, b) == a - b * Quotient(a, b)

HexDigit(temp) == IF temp < 10 THEN temp + 48 ELSE temp + 55

-----------------------------------------------------------------------------
(***************************************************************************)
(* The font.  stdoutINIT draws the characters below, row by row of the     *)
(* keyboard; putc shows any other as a blank cell, among them at sign,     *)
(* dollar, percent sign and ampersand.                                     *)
(***************************************************************************)
HomeCapitals == {65, 83, 68} \cup 70..72 \cup 74..76
LowCapitals == {90, 88, 67, 86, 66, 78, 77}
HighCapitals == {81, 87, 69, 82, 84, 89, 85, 73, 79, 80}
DigitRow == {32, 96, 126, 33} \cup 48..57
Brackets == {45, 95, 61, 43, 59} \cup 91..93 \cup 123..125
Punctuation == {58, 44, 46, 60, 62, 47, 63, 94} \cup {34} \cup 39..42
HighLetters == {113, 119, 101, 114, 116, 121, 117, 105, 111, 112}
\* Mistake: the row ends before l.
HomeLettersShort == {97, 115, 100} \cup 102..104 \cup 106..107
HomeLetters == {97, 115, 100} \cup 102..104 \cup 106..108
LowLetters == {122, 120, 99, 118, 98, 110, 109} \cup {35}

Glyphs == HomeCapitals \cup LowCapitals \cup HighCapitals \cup DigitRow
            \cup Brackets \cup Punctuation \cup HighLetters \cup HomeLetters
            \cup LowLetters

\* What the kernel's own texts are made of: the exceptions' names, the lines
\* under them, and what kpanic and the sector dump print.
NameCharacters == {32, Minus, 55, 56} \cup 65..73 \cup 77..80
                    \cup {82, 83, 84, 86} \cup ((97..122) \ {113})
FrameCharacters == {NewLine, 32, 58, 65, 67, 68, 69, 70, 71, 73, 76, 79, 80,
                    82, 83, 114}
PowerOffCharacters == {NewLine, 32, 69, 70, 79, 80, 82, 87}

KernelCharacters == NameCharacters \cup FrameCharacters \cup PowerOffCharacters

-----------------------------------------------------------------------------
PrintfInit ==
    /\ format \in Formats
    /\ call = "printf" /\ turn = "scan"
    /\ i = 0 /\ used = 0 /\ found = FALSE
    /\ isNegative = 0 /\ value = 0 /\ left = 0 /\ size = 0 /\ index = 0
    /\ base16 = <<>>
    /\ printed = <<>> /\ buffer = <<>> /\ message = <<>>
    /\ integerToStringOutput = [k \in 0..(NumberSize - 1) |-> 0]

\* What the running function reads; its end reads as 0.
Text == IF call = "kpanic" THEN buffer ELSE format.text
CharAt(k) == IF k < Len(Text) THEN Text[k + 1] ELSE 0

\* memcpy of strlen(text) characters.  Mistake: the end is copied too.
CopiedWithEnd(text) == text \o <<0>>
Copied(text) == text

\* The running function's text grows.
Output(text) ==
    /\ printed' = IF call = "printf" THEN printed \o text ELSE printed
    /\ buffer' = IF call = "fprintf" THEN buffer \o Copied(text) ELSE buffer
    /\ message' = IF call = "kpanic" THEN message \o text ELSE message

At(letter) ==
    /\ turn = "scan" /\ CharAt(i) = Percent /\ CharAt(i + 1) = Letter[letter]

\* kpanic passes no arguments: an int or a colour taken there is any.
Handed == IF call = "kpanic" THEN Int32 ELSE {format.args[used + 1]}

Take ==
    /\ used' = used + 1
    /\ found' = TRUE
    /\ UNCHANGED <<format, call>>

\* IntegerToString is called.
Decimal ==
    /\ At("d")
    /\ \E v \in Handed :
         /\ isNegative' = IF v < 0 THEN 1 ELSE 0
         /\ value' = Qword(IF v < 0 THEN WrapInt(-v) ELSE v)
         /\ integerToStringOutput' =
              IF v < 0 THEN [integerToStringOutput EXCEPT ![0] = Minus]
              ELSE integerToStringOutput
    /\ turn' = "size" /\ left' = value' /\ size' = 0 /\ index' = 0
    /\ Take
    /\ UNCHANGED <<i, base16, texts>>

CountDigit ==
    /\ turn = "size"
    /\ IF left \div 10 > 0
       THEN left' = left \div 10 /\ size' = size + 1 /\ UNCHANGED turn
       ELSE left' = value /\ turn' = "digit" /\ UNCHANGED size
    /\ UNCHANGED <<format, call, i, used, found, isNegative, value, index,
                   base16, texts, integerToStringOutput>>

WithDigit == [integerToStringOutput EXCEPT
                ![isNegative + size - index] = (left % 10) + 48]

WriteDigit ==
    /\ turn = "digit" /\ left \div 10 > 0
    /\ integerToStringOutput' = WithDigit
    /\ left' = left \div 10
    /\ index' = index + 1
    /\ UNCHANGED <<format, call, turn, i, used, found, isNegative, value, size,
                   base16, texts>>

Converted == turn' = "scan" /\ i' = i + 2

WriteLast ==
    /\ turn = "digit" /\ left \div 10 = 0
    /\ integerToStringOutput' =
         [WithDigit EXCEPT ![End(isNegative, size)] = 0]
    /\ Output(StringOf(integerToStringOutput'))
    /\ Converted
    /\ UNCHANGED <<format, call, used, found, number>>

\* What a string read through an argument nobody passed is, is left open.
String ==
    /\ call # "kpanic" /\ At("s")
    /\ Output(format.args[used + 1])
    /\ Take /\ Converted
    /\ UNCHANGED <<number, integerToStringOutput>>

Hexadecimal ==
    /\ At("x")
    /\ left' \in Handed
    /\ turn' = "hex" /\ base16' = <<>>
    /\ Take
    /\ UNCHANGED <<i, isNegative, value, size, index, texts,
                   integerToStringOutput>>

DivideBy16 ==
    /\ turn = "hex" /\ left # 0
    /\ base16' = <<HexDigit(Remainder(left, 16))>> \o base16
    /\ left' = Quotient(left, 16)
    /\ UNCHANGED <<format, call, turn, i, used, found, isNegative, value, size,
                   index, texts, integerToStringOutput>>

PrintBase16 ==
    /\ turn = "hex" /\ left = 0
    /\ Output(base16)
    /\ Converted
    /\ UNCHANGED <<format, call, used, found, number, integerToStringOutput>>

Colour ==
    /\ At("c")
    /\ \E colour \in Handed : Output(<<-1 - colour>>)
    /\ Take /\ Converted
    /\ UNCHANGED <<number, integerToStringOutput>>

\* A percent sign before anything else: once a conversion has been found both
\* characters are passed over; before, printf prints the sign and fprintf
\* drops it.
Stray ==
    /\ turn = "scan" /\ CharAt(i) = Percent /\ CharAt(i + 1) \notin Letters
    /\ \/ /\ found
          /\ i' = i + 2
          /\ Output(<<>>)
       \/ /\ ~ found
          /\ i' = i + 1
          /\ Output(IF call = "fprintf" THEN <<>> ELSE <<Percent>>)
    /\ UNCHANGED <<format, call, turn, used, found, number,
                   integerToStringOutput>>

\* newline and putc; to fprintf they are the same.
Plain ==
    /\ turn = "scan" /\ CharAt(i) \notin {0, Percent}
    /\ i' = i + 1
    /\ Output(<<CharAt(i)>>)
    /\ UNCHANGED <<format, call, turn, used, found, number,
                   integerToStringOutput>>

HasColour == \E k \in DOMAIN format.pieces : format.pieces[k].kind = "c"

Following == [printf |-> IF HasColour THEN "done" ELSE "fprintf",
              fprintf |-> "kpanic", kpanic |-> "done"]

Return ==
    /\ turn = "scan" /\ CharAt(i) = 0
    /\ call' = Following[call]
    /\ i' = 0 /\ used' = 0 /\ found' = FALSE
    /\ UNCHANGED <<format, turn, number, texts, integerToStringOutput>>

PrintfNext ==
    /\ call # "done"
    /\ \/ Decimal \/ CountDigit \/ WriteDigit \/ WriteLast
       \/ Hexadecimal \/ DivideBy16 \/ PrintBase16
       \/ String \/ Colour \/ Stray \/ Plain \/ Return

PrintfSpec == PrintfInit /\ [][PrintfNext]_printfVars

-----------------------------------------------------------------------------
(***************************************************************************)
(* What a format means.                                                    *)
(***************************************************************************)
Digits == <<48, 49, 50, 51, 52, 53, 54, 55, 56, 57, 65, 66, 67, 68, 69, 70>>

\* How many digits n has, and n written with them.
Width(n, powers) == CHOOSE w \in 1..(Len(powers) - 1) :
                      (w = 1 \/ powers[w] <= n) /\ n < powers[w + 1]

Numeral(n, base, powers) ==
    [k \in 1..Width(n, powers) |->
       Digits[((n \div powers[Width(n, powers) + 1 - k]) % base) + 1]]

Meaning(piece) ==
    CASE piece.kind = "char" -> <<piece.arg>>
      [] piece.kind = "s" -> piece.arg
      [] piece.kind = "d" -> IF piece.arg < 0
                             THEN <<Minus>> \o Numeral(-piece.arg, 10, Tens)
                             ELSE Numeral(piece.arg, 10, Tens)
      [] piece.kind = "x" -> Numeral(piece.arg, 16, Sixteens)
      [] piece.kind = "c" -> <<-1 - piece.arg>>

\* The pieces printf does justice to: no stray sign, no %x of 0 or less, and
\* not the one int whose negative is none.
Sound(piece) ==
    /\ piece.kind # "stray"
    /\ piece.kind = "x" => piece.arg > 0
    /\ piece.kind = "d" => piece.arg # -(MaxInt + 1)

AllSound == \A k \in DOMAIN format.pieces : Sound(format.pieces[k])

\* A piece whose text is the kernel's.
OfKernel(piece) ==
    /\ piece.kind = "char" => piece.arg \in KernelCharacters
    /\ piece.kind = "s" => \A j \in DOMAIN piece.arg : piece.arg[j] \in KernelCharacters

-----------------------------------------------------------------------------
(***************************************************************************)
(* Properties.                                                             *)
(***************************************************************************)
\* Every variable has its type, and no more arguments are taken than were
\* passed.
PrintfTypeOK ==
    /\ format \in Formats
    /\ call \in {"printf", "fprintf", "kpanic", "done"}
    /\ turn \in {"scan", "size", "digit", "hex"}
    /\ i \in Nat /\ used \in Nat /\ found \in BOOLEAN
    /\ isNegative \in {0, 1} /\ value \in 0..(QwordRange - 1)
    /\ left \in Int /\ size \in Nat /\ index \in Nat
    /\ \A text \in {base16, printed, buffer, message} : text \in Seq(Int)
    /\ integerToStringOutput \in
         [0..(NumberSize - 1) -> {0, Minus} \cup 48..57]
    /\ call \in {"printf", "fprintf"} => /\ i <= Len(format.text)
                                         /\ used <= Len(format.args)

\* printf prints what the format means, whatever numbers were converted into
\* the same static array before: it goes through the format piece by piece, a
\* turn of the loop that ends one prints its meaning, and no other turn prints
\* anything or goes on.
PrintsMeaning ==
    [][call = "printf" /\ AllSound =>
         \/ \E k \in DOMAIN format.pieces :
              /\ i = From(format, k) /\ i' = From(format, k + 1)
              /\ printed' = printed \o Meaning(format.pieces[k])
         \/ /\ UNCHANGED printed
            /\ \/ UNCHANGED <<call, i>>
               \/ call' # "printf" /\ i = Len(format.text)]_printfVars

\* Whatever the kernel puts together from its own texts and from numbers can
\* be read: every character that comes to the screen has a glyph.
Legible ==
    AllSound /\ (\A k \in DOMAIN format.pieces : OfKernel(format.pieces[k])) =>
      \A text \in {printed, message} : \A k \in DOMAIN text :
        text[k] \in Glyphs \/ text[k] = NewLine \/ text[k] < 0

\* The pieces whose text does not look like a format: a stray sign does, and
\* the digit -11 of a number below 0 printed as %x is a percent sign; the
\* handlers' addresses and flags are not below 0.
Inert(piece) ==
    /\ piece.kind \notin {"stray", "c"}
    /\ piece.kind = "x" => piece.arg >= 0

\* What kpanic prints of fprintf's text is what printf would have printed of
\* the same format and arguments.
SameText ==
    call = "done" /\ (\A k \in DOMAIN format.pieces : Inert(format.pieces[k]))
      => message = printed
=============================================================================
