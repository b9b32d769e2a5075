--------------------------------- MODULE Utf ---------------------------------
(***************************************************************************)
(* The two conversions of utils.cpp, loop by loop: Utils::utf16to8 on what *)
(* the user typed and Utils::utf8To16 on the title of the dialog.  In this *)
(* module the result of the first one can go on to the second, which the   *)
(* program never does; it shows that they fit each other.                  *)
(*                                                                         *)
(* Units and bytes are numbers, a mask of bits is a remainder and a shift  *)
(* a quotient.  Sequences are counted from 1, the indices of the code from *)
(* 0.  The terminating zero is not part of a sequence.                     *)
(***************************************************************************)
EXTENDS Naturals, Sequences

CONSTANTS Texts,         \* what can be typed
          Titles,        \* byte strings that could be titles
          MaxTextLength, \* SceImeDialogParam::maxTextLength
          BufferSize     \* bytes of requestInputFromImeDialog's buffer

MaxUnit == 65535
Unit == 0 .. MaxUnit
Byte == 0 .. 255

\* SCE_IME_DIALOG_MAX_TEXT_LENGTH, which is external, is far above 61.
ASSUME UtfAssumption ==
    /\ Texts \subseteq Seq(Unit \ {0}) /\ Titles \subseteq Seq(Byte \ {0})
    /\ MaxTextLength \in Nat /\ BufferSize \in Nat
    /\ \A t \in Texts : Len(t) <= MaxTextLength
    /\ 3 * MaxTextLength + 1 <= BufferSize

VARIABLES pc,     \* the function that runs, "done" after them
          text,   \* src of utf16to8
          bytes,  \* its dst, and src of utf8To16
          units,  \* dst of utf8To16
          i       \* the index of the loop

vars == <<pc, text, bytes, units, i>>

-----------------------------------------------------------------------------
(* Utils::utf16to8. *)

\* The text is followed by zeros: imeInputBuffer was cleared and is far longer.
UnitAt(k) == IF k < Len(text) THEN text[k + 1] ELSE 0

\* Mutant of Surrogates: the second unit is not looked at.
FirstSurrogate == UnitAt(i) \div 1024 = 54

Surrogates == UnitAt(i) \div 1024 = 54 /\ UnitAt(i + 1) \div 1024 = 55

Encode(encoding, consumed) ==
    /\ pc = "utf16to8" /\ UnitAt(i) # 0
    /\ bytes' = bytes \o encoding
    /\ i' = i + consumed
    /\ UNCHANGED <<pc, text, units>>

OneByte == UnitAt(i) < 128 /\ Encode(<<UnitAt(i)>>, 1)

TwoBytes ==
    /\ UnitAt(i) \in 128 .. 2047
    /\ Encode(<<192 + UnitAt(i) \div 64, 128 + (UnitAt(i) % 64)>>, 1)

\* The bits of a pair are not the ones UTF-8 asks for.
FourBytes ==
    /\ UnitAt(i) >= 2048 /\ Surrogates
    /\ Encode(<<240 + (((UnitAt(i) + 64) \div 256) % 4),
                128 + ((UnitAt(i) \div 4 + 16) % 64),
                128 + 16 * ((UnitAt(i) \div 256) % 4) + 4 * (UnitAt(i + 1) % 4),
                128 + (UnitAt(i + 1) % 64)>>, 2)

ThreeBytes ==
    /\ UnitAt(i) >= 2048 /\ ~Surrogates
    /\ Encode(<<224 + UnitAt(i) \div 4096, 128 + ((UnitAt(i) \div 64) % 64),
                128 + (UnitAt(i) % 64)>>, 1)

Encoded ==
    /\ pc = "utf16to8" /\ UnitAt(i) = 0
    /\ pc' = "utf8To16" /\ i' = 0
    /\ UNCHANGED <<text, bytes, units>>

-----------------------------------------------------------------------------
(* Utils::utf8To16. *)

\* Mutant of Left: one byte fewer than there are.
LeftButOne == Len(bytes) - i - 1

Left == Len(bytes) - i

Decode(unit, consumed) ==
    /\ pc = "utf8To16" /\ i < Len(bytes)
    /\ units' = Append(units, unit)
    /\ i' = i + consumed
    /\ UNCHANGED <<pc, text, bytes>>

LeadOfThree == bytes[i + 1] \div 32 = 7 /\ Left > 2
LeadOfTwo   == bytes[i + 1] \div 64 = 3 /\ Left > 1 /\ ~LeadOfThree

\* The lead of four bytes is taken for one of three.
FromThree ==
    /\ i < Len(bytes) /\ LeadOfThree
    /\ Decode((bytes[i + 1] % 16) * 4096 + (bytes[i + 2] % 64) * 64 + (bytes[i + 3] % 64), 3)

FromTwo ==
    /\ i < Len(bytes) /\ LeadOfTwo
    /\ Decode((bytes[i + 1] % 32) * 64 + (bytes[i + 2] % 64), 2)

\* Mutant of FromOne: a terminator follows each character.
FromOneTerminated ==
    /\ i < Len(bytes) /\ ~LeadOfThree /\ ~LeadOfTwo
    /\ pc = "utf8To16"
    /\ units' = units \o <<bytes[i + 1], 0>>
    /\ i' = i + 1
    /\ UNCHANGED <<pc, text, bytes>>

FromOne ==
    /\ i < Len(bytes) /\ ~LeadOfThree /\ ~LeadOfTwo
    /\ Decode(bytes[i + 1], 1)

Decoded ==
    /\ pc = "utf8To16" /\ i >= Len(bytes)
    /\ pc' = "done"
    /\ UNCHANGED <<text, bytes, units, i>>

-----------------------------------------------------------------------------

Init ==
    /\ \/ pc = "utf16to8" /\ text \in Texts /\ bytes = <<>>
       \/ pc = "utf8To16" /\ text = <<>> /\ bytes \in Titles
    /\ units = <<>>
    /\ i = 0

Terminated == pc = "done" /\ UNCHANGED vars

Next ==
    \/ OneByte \/ TwoBytes \/ ThreeBytes \/ FourBytes
    \/ Encoded
    \/ FromOne \/ FromTwo \/ FromThree
    \/ Decoded
    \/ Terminated

Spec == Init /\ [][Next]_vars

-----------------------------------------------------------------------------
(* Properties. *)

\* Every variable has its type: a byte and a unit hold what is assigned to them
\* without losing a bit.
TypeOK ==
    /\ pc \in {"utf16to8", "utf8To16", "done"}
    /\ text \in Seq(Unit) /\ units \in Seq(Unit)
    /\ bytes \in Seq(Byte)
    /\ i \in Nat

\* What is typed, with its terminator, fits the buffer.  The code tests sizes
\* that allow half a byte per unit where three can be needed; only the limit
\* given to the dialog keeps the loop inside.
TypedTextFits == text # <<>> => Len(bytes) + 1 <= BufferSize

\* Neither loop passes the end of its source, though both advance by more than
\* one and the index is unsigned.
LoopsStayInside ==
    /\ pc = "utf16to8" => i <= Len(text)
    /\ pc # "utf16to8" => i <= Len(bytes)

\* titleBuffer has one unit for each byte of the title, and a terminator is
\* written behind the characters: one unit too many, and never more, exactly for
\* titles in which no byte begins a character of several, as in "Feed URL".
StandAlone == \A k \in 1 .. Len(bytes) - 1 : bytes[k] < 192
TitleOverrunsByOne ==
    pc = "done" =>
        /\ Len(units) + 1 <= Len(bytes) + 1
        /\ (Len(units) + 1 > Len(bytes)) <=> StandAlone

\* The character a sequence of UTF-8 stands for, by its definition: the bits
\* below the lead's marks and the six of each continuation.
Continuation == 128 .. 191
Scalar(s) ==
    CASE Len(s) = 1 -> s[1]
      [] Len(s) = 2 -> (s[1] - 192) * 64 + (s[2] - 128)
      [] Len(s) = 3 -> (s[1] - 224) * 4096 + (s[2] - 128) * 64 + (s[3] - 128)

Shortest(c) == IF c < 128 THEN 1 ELSE IF c < 2048 THEN 2 ELSE 3

\* A character reaches from a byte that continues nothing to the next one; start
\* says where each character of the text begins, in order and leaving out none.
Begins == {b \in 1 .. Len(bytes) : bytes[b] \notin Continuation}
EndOf(start, k) == IF k = Len(text) THEN Len(bytes) ELSE start[k + 1] - 1
IsUtf8By(start) ==
    /\ \A j, k \in DOMAIN text : j < k => start[j] < start[k]
    /\ {start[k] : k \in DOMAIN text} = Begins
    /\ \A k \in DOMAIN text :
          LET character == SubSeq(bytes, start[k], EndOf(start, k))
          IN  /\ Len(character) = Shortest(text[k])
              /\ Scalar(character) = text[k]
IsUtf8 == \E start \in [DOMAIN text -> Begins] : IsUtf8By(start)

Surrogate == 55296 .. 57343
Plain == text # <<>> /\ \A k \in DOMAIN text : text[k] \notin Surrogate

\* A text without surrogates becomes UTF-8, each unit the shortest sequence that
\* stands for it, and utf8To16 takes it back to what it was, its last character
\* included.
RoundTrip == pc = "done" /\ Plain => IsUtf8 /\ units = text
=============================================================================
