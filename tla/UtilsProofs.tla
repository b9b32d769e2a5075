----------------------------- MODULE UtilsProofs -----------------------------
(***************************************************************************)
(* Theorems about the two conversions for texts and titles of any length   *)
(* and content: no byte or unit is cut, no loop passes the end of its      *)
(* source, what is typed fits the buffer and comes back as the units that  *)
(* were typed, and a title overruns its own buffer by one unit exactly     *)
(* when none of its bytes begins a longer character.  And about the lines  *)
(* of any buffer: each loop has cut off the lines in front of where it is. *)
(***************************************************************************)
EXTENDS Utf, Lines, SequenceTheorems, TLAPS

\* No unit becomes more than three bytes.
SizeInv ==
    /\ Len(text) <= MaxTextLength
    /\ pc = "utf16to8" => Len(bytes) <= 3 * i /\ units = <<>>
    /\ pc # "utf16to8" /\ text # <<>> => Len(bytes) <= 3 * Len(text)

StandAloneTo(n) == \A k \in 1 .. Len(bytes) - 1 : k <= n => bytes[k] < 192

\* utf8To16 has one unit for each byte it has passed unless it has passed the
\* first byte of a longer character.
AlignedInv ==
    /\ pc # "utf16to8" => /\ Len(units) <= i
                          /\ Len(units) = i => StandAloneTo(i)
                          /\ StandAloneTo(i) => Len(units) = i
    /\ pc = "done" => i = Len(bytes)

UInv == TypeOK /\ LoopsStayInside /\ SizeInv /\ AlignedInv

-----------------------------------------------------------------------------
(* Sequences and masks. *)

LEMMA Joined ==
    ASSUME NEW S, NEW s \in Seq(S), NEW t \in Seq(S)
    PROVE  s \o t \in Seq(S) /\ Len(s \o t) = Len(s) + Len(t)
OBVIOUS

LEMMA LiteralsAreSeqs ==
    \A S : \A a, b, c, d \in S :
        /\ <<a>> \in Seq(S) /\ Len(<<a>>) = 1
        /\ <<a, b>> \in Seq(S) /\ Len(<<a, b>>) = 2
        /\ <<a, b, c>> \in Seq(S) /\ Len(<<a, b, c>>) = 3
        /\ <<a, b, c, d>> \in Seq(S) /\ Len(<<a, b, c, d>>) = 4
OBVIOUS

LEMMA Ranges ==
    /\ \A u \in Unit : u \in Nat /\ u <= 65535
    /\ \A b \in Byte : b \in Nat /\ b <= 255
    /\ \A n \in Nat : (n <= 65535 => n \in Unit) /\ (n <= 255 => n \in Byte)
<1>1. /\ MaxUnit \in Nat
      /\ \A n \in Nat : n <= MaxUnit <=> n <= 65535
  BY DEF MaxUnit
<1>2. \A k, n \in Nat : n \in 0 .. k <=> n <= k
  OBVIOUS
<1>3. \A u \in Unit : u \in Nat
  BY <1>1 DEF Unit
<1>4. \A n \in Nat : n \in Unit <=> n <= 65535
  BY <1>1, <1>2 DEF Unit
<1>5. \A b \in Byte : b \in Nat /\ b <= 255
  BY DEF Byte
<1>6. \A n \in Nat : n <= 255 => n \in Byte
  BY DEF Byte
<1> QED
  BY <1>3, <1>4, <1>5, <1>6

\* Reading behind the end gives zero.
LEMMA UnitFacts ==
    ASSUME TypeOK, NEW k \in Nat
    PROVE  UnitAt(k) \in Unit /\ (UnitAt(k) # 0 => k < Len(text))
<1>1. text \in Seq(Unit) /\ Len(text) \in Nat /\ 0 \in Unit
  BY Ranges DEF TypeOK
<1>2. CASE k < Len(text)
  <2>1. k + 1 \in 1 .. Len(text)
    BY <1>1, <1>2
  <2> QED
    BY <1>1, <1>2, <2>1, ElementOfSeq DEF UnitAt
<1>3. CASE ~(k < Len(text))
  BY <1>1, <1>3 DEF UnitAt
<1> QED
  BY <1>2, <1>3

\* The bytes of every encoding are bytes.
LEMMA EncodingsAreBytes ==
    ASSUME NEW u \in Unit, NEW v \in Unit
    PROVE  /\ u < 128 => u \in Byte
           /\ u < 2048 => 192 + u \div 64 \in Byte
           /\ 128 + (u % 64) \in Byte
           /\ 224 + u \div 4096 \in Byte
           /\ 128 + ((u \div 64) % 64) \in Byte
           /\ 240 + (((u + 64) \div 256) % 4) \in Byte
           /\ 128 + ((u \div 4 + 16) % 64) \in Byte
           /\ 128 + 16 * ((u \div 256) % 4) + 4 * (v % 4) \in Byte
           /\ 128 + (v % 64) \in Byte
<1>1. u \in Nat /\ u <= 65535 /\ v \in Nat /\ v <= 65535
  BY Ranges
<1>2. u < 128 => u \in Byte
  BY <1>1, Ranges
<1>3. u < 2048 => 192 + u \div 64 \in Byte
  <2>1. u < 2048 => u \div 64 \in Nat /\ u \div 64 <= 31
    BY <1>1
  <2> QED
    BY <2>1, Ranges
<1>4. 128 + (u % 64) \in Byte /\ 128 + (v % 64) \in Byte
  <2>1. u % 64 \in 0 .. 63 /\ v % 64 \in 0 .. 63
    BY <1>1
  <2> QED
    BY <2>1, Ranges
<1>5. 224 + u \div 4096 \in Byte
  <2>1. u \div 4096 \in Nat /\ u \div 4096 <= 15
    BY <1>1
  <2> QED
    BY <2>1, Ranges
<1>6. 128 + ((u \div 64) % 64) \in Byte
  <2>1. (u \div 64) % 64 \in 0 .. 63
    BY <1>1
  <2> QED
    BY <2>1, Ranges
<1>7. 240 + (((u + 64) \div 256) % 4) \in Byte
  <2>1. ((u + 64) \div 256) % 4 \in 0 .. 3
    BY <1>1
  <2> QED
    BY <2>1, Ranges
<1>8. 128 + ((u \div 4 + 16) % 64) \in Byte
  <2>1. (u \div 4 + 16) % 64 \in 0 .. 63
    BY <1>1
  <2> QED
    BY <2>1, Ranges
<1>9. 128 + 16 * ((u \div 256) % 4) + 4 * (v % 4) \in Byte
  <2>1. (u \div 256) % 4 \in 0 .. 3 /\ v % 4 \in 0 .. 3
    BY <1>1
  <2>2. \A x, y \in 0 .. 3 : 128 + 16 * x + 4 * y \in Nat /\ 128 + 16 * x + 4 * y <= 255
    OBVIOUS
  <2> QED
    BY <2>1, <2>2, Ranges
<1> QED
  BY <1>2, <1>3, <1>4, <1>5, <1>6, <1>7, <1>8, <1>9

\* Whatever the bytes are, what they are decoded to is a unit.
LEMMA DecodingsAreUnits ==
    ASSUME NEW a \in Byte, NEW b \in Byte, NEW c \in Byte
    PROVE  /\ a \in Unit
           /\ (a % 32) * 64 + (b % 64) \in Unit
           /\ (a % 16) * 4096 + (b % 64) * 64 + (c % 64) \in Unit
<1>1. a \in Nat /\ a <= 255 /\ b \in Nat /\ c \in Nat
  BY Ranges
<1>2. a \in Unit
  BY <1>1, Ranges
<1>3. a % 32 \in 0 .. 31 /\ a % 16 \in 0 .. 15 /\ b % 64 \in 0 .. 63 /\ c % 64 \in 0 .. 63
  BY <1>1
<1>4. (a % 32) * 64 + (b % 64) \in Unit
  <2>1. \A x \in 0 .. 31, y \in 0 .. 63 : x * 64 + y \in Nat /\ x * 64 + y <= 65535
    OBVIOUS
  <2> QED
    BY <1>3, <2>1, Ranges
<1>5. (a % 16) * 4096 + (b % 64) * 64 + (c % 64) \in Unit
  <2>1. \A x \in 0 .. 15, y, z \in 0 .. 63 :
           x * 4096 + y * 64 + z \in Nat /\ x * 4096 + y * 64 + z <= 65535
    OBVIOUS
  <2> QED
    BY <1>3, <2>1, Ranges
<1> QED
  BY <1>2, <1>4, <1>5

-----------------------------------------------------------------------------
(* utf16to8. *)

\* What an encoding of n bytes for m units does to the invariant.
LEMMA EncodeStays ==
    ASSUME UInv, NEW s \in Seq(Byte), NEW m \in 1 .. 2, Encode(s, m),
           Len(s) <= 3 * m, i + m <= Len(text)
    PROVE  UInv'
<1>1. /\ TypeOK /\ LoopsStayInside /\ SizeInv /\ AlignedInv
      /\ pc = "utf16to8" /\ bytes' = bytes \o s /\ i' = i + m
      /\ pc' = pc /\ text' = text /\ units' = units
  BY DEF UInv, Encode
<1>2. /\ bytes \in Seq(Byte) /\ i \in Nat /\ Len(bytes) \in Nat /\ Len(s) \in Nat
      /\ bytes' \in Seq(Byte) /\ Len(bytes') = Len(bytes) + Len(s)
  BY <1>1, Joined DEF TypeOK
<1>3. TypeOK'
  BY <1>1, <1>2 DEF TypeOK
<1>4. LoopsStayInside'
  BY <1>1 DEF LoopsStayInside
<1>5. SizeInv'
  BY <1>1, <1>2 DEF SizeInv
<1>6. AlignedInv'
  BY <1>1 DEF AlignedInv
<1> QED
  BY <1>3, <1>4, <1>5, <1>6 DEF UInv

LEMMA EncodeStaysOne ==
    UInv /\ i + 1 <= Len(text)
      => \A s \in Seq(Byte) : Len(s) \in {1, 2, 3} /\ Encode(s, 1) => UInv'
<1> SUFFICES ASSUME UInv, i + 1 <= Len(text),
                    NEW s \in Seq(Byte), Len(s) \in {1, 2, 3}, Encode(s, 1)
             PROVE  UInv'
  OBVIOUS
<1>1. 1 \in 1 .. 2
  OBVIOUS
<1>2. Len(s) <= 3 * 1
  <2>1. \A n : n \in {1, 2, 3} => n <= 3 * 1
    OBVIOUS
  <2> QED
    BY <2>1
<1> QED
  BY <1>1, <1>2, EncodeStays

LEMMA EncodeStaysTwo ==
    UInv /\ i + 2 <= Len(text)
      => \A s \in Seq(Byte) : Len(s) = 4 /\ Encode(s, 2) => UInv'
<1> SUFFICES ASSUME UInv, i + 2 <= Len(text),
                    NEW s \in Seq(Byte), Len(s) = 4, Encode(s, 2)
             PROVE  UInv'
  OBVIOUS
<1>1. 2 \in 1 .. 2 /\ Len(s) <= 3 * 2
  OBVIOUS
<1> QED
  BY <1>1, EncodeStays

\* Each encoding consumes units of the text only.
LEMMA EncodersStay ==
    ASSUME UInv, OneByte \/ TwoBytes \/ ThreeBytes \/ FourBytes
    PROVE  UInv'
<1> DEFINE u == UnitAt(i)
           v == UnitAt(i + 1)
<1>1. /\ TypeOK /\ i \in Nat /\ i + 1 \in Nat /\ Len(text) \in Nat
      /\ pc = "utf16to8" /\ u # 0
  BY DEF UInv, TypeOK, OneByte, TwoBytes, ThreeBytes, FourBytes, Encode
<1>2. u \in Unit /\ v \in Unit /\ i < Len(text) /\ (v # 0 => i + 1 < Len(text))
  BY <1>1, UnitFacts
<1>3. i + 1 <= Len(text)
  BY <1>1, <1>2
<1> HIDE DEF u, v
<1>4. CASE OneByte
  <2>1. u \in Byte
    BY <1>2, <1>4, EncodingsAreBytes DEF OneByte, u
  <2>2. <<u>> \in Seq(Byte) /\ Len(<<u>>) = 1 /\ Encode(<<u>>, 1)
    BY <1>4, <2>1, LiteralsAreSeqs DEF OneByte, u
  <2> HIDE DEF u
  <2> QED
    BY <1>3, <2>2, EncodeStaysOne
<1>5. CASE TwoBytes
  <2> DEFINE s == <<192 + u \div 64, 128 + (u % 64)>>
  <2>1. u < 2048
    BY <1>5 DEF TwoBytes, u
  <2>2. 192 + u \div 64 \in Byte /\ 128 + (u % 64) \in Byte
    BY <1>2, <2>1, EncodingsAreBytes
  <2>3. s \in Seq(Byte) /\ Len(s) = 2
    BY <2>2, LiteralsAreSeqs
  <2>4. Encode(s, 1)
    BY <1>5 DEF TwoBytes, u
  <2> HIDE DEF s
  <2> QED
    BY <1>3, <2>3, <2>4, EncodeStaysOne
<1>6. CASE ThreeBytes
  <2> DEFINE s == <<224 + u \div 4096, 128 + ((u \div 64) % 64), 128 + (u % 64)>>
  <2>1. /\ 224 + u \div 4096 \in Byte /\ 128 + ((u \div 64) % 64) \in Byte
        /\ 128 + (u % 64) \in Byte
    BY <1>2, EncodingsAreBytes
  <2>2. s \in Seq(Byte) /\ Len(s) = 3
    BY <2>1, LiteralsAreSeqs
  <2>3. Encode(s, 1)
    BY <1>6 DEF ThreeBytes, u
  <2> HIDE DEF s
  <2> QED
    BY <1>3, <2>2, <2>3, EncodeStaysOne
<1>7. CASE FourBytes
  <2> DEFINE s == <<240 + (((u + 64) \div 256) % 4), 128 + ((u \div 4 + 16) % 64),
                    128 + 16 * ((u \div 256) % 4) + 4 * (v % 4), 128 + (v % 64)>>
  <2>1. /\ 240 + (((u + 64) \div 256) % 4) \in Byte
        /\ 128 + ((u \div 4 + 16) % 64) \in Byte
        /\ 128 + 16 * ((u \div 256) % 4) + 4 * (v % 4) \in Byte
        /\ 128 + (v % 64) \in Byte
    BY <1>2, EncodingsAreBytes
  <2>2. s \in Seq(Byte) /\ Len(s) = 4
    BY <2>1, LiteralsAreSeqs
  <2>3. Encode(s, 2) /\ v \div 1024 = 55
    BY <1>7 DEF FourBytes, Surrogates, u, v
  <2>4. v # 0
    BY <2>3
  <2>5. i + 2 <= Len(text)
    BY <1>1, <1>2, <2>4
  <2> HIDE DEF s
  <2> QED
    BY <2>2, <2>3, <2>5, EncodeStaysTwo
<1> QED
  BY <1>4, <1>5, <1>6, <1>7

LEMMA EncodedStays == ASSUME UInv, Encoded PROVE UInv'
<1>1. /\ TypeOK /\ LoopsStayInside /\ SizeInv
      /\ pc = "utf16to8" /\ pc' = "utf8To16" /\ i' = 0
      /\ text' = text /\ bytes' = bytes /\ units' = units
  BY DEF UInv, Encoded
<1>2. i \in Nat /\ Len(bytes) \in Nat /\ Len(text) \in Nat
  BY <1>1 DEF TypeOK
<1>3. TypeOK' /\ LoopsStayInside'
  BY <1>1, <1>2 DEF TypeOK, LoopsStayInside
<1>4. SizeInv'
  BY <1>1, <1>2 DEF SizeInv, LoopsStayInside
<1>5. AlignedInv'
  <2>1. Len(units') = 0
    BY <1>1 DEF SizeInv
  <2> QED
    BY <1>1, <1>2, <2>1 DEF AlignedInv, StandAloneTo
<1> QED
  BY <1>3, <1>4, <1>5 DEF UInv

-----------------------------------------------------------------------------
(* utf8To16. *)

\* One more unit for n bytes, of which the first stands alone exactly if n is 1
\* or the title ends with it.
LEMMA DecodeStays ==
    ASSUME UInv, NEW unit \in Unit, NEW n \in 1 .. 3, Decode(unit, n),
           i + n <= Len(bytes),
           n = 1 => i + 1 = Len(bytes) \/ bytes[i + 1] < 192,
           n > 1 => bytes[i + 1] >= 192
    PROVE  UInv'
<1>1. /\ TypeOK /\ SizeInv /\ AlignedInv
      /\ pc = "utf8To16" /\ units' = Append(units, unit) /\ i' = i + n
      /\ pc' = pc /\ text' = text /\ bytes' = bytes
  BY DEF UInv, Decode
<1>2. /\ i \in Nat /\ Len(bytes) \in Nat /\ Len(units) \in Nat /\ units \in Seq(Unit)
      /\ units' \in Seq(Unit) /\ Len(units') = Len(units) + 1
  BY <1>1, AppendProperties DEF TypeOK
<1>3. TypeOK' /\ LoopsStayInside' /\ SizeInv'
  BY <1>1, <1>2 DEF TypeOK, LoopsStayInside, SizeInv
<1>4. \A k \in 1 .. Len(bytes) - 1 : bytes[k] \in Nat
  <2>1. bytes \in Seq(Byte)
    BY <1>1 DEF TypeOK
  <2> QED
    BY <1>2, <2>1, ElementOfSeq, Ranges
<1>5. CASE n = 1
  <2>1. StandAloneTo(i + 1) <=> StandAloneTo(i)
    BY <1>2, <1>5 DEF StandAloneTo
  <2> QED
    BY <1>1, <1>2, <1>3, <1>5, <2>1 DEF UInv, AlignedInv, StandAloneTo
<1>6. CASE n > 1
  <2>1. i + 1 \in 1 .. Len(bytes) - 1 /\ ~(bytes[i + 1] < 192) /\ i + 1 <= i + n
    BY <1>2, <1>4, <1>6
  <2>2. ~StandAloneTo(i + n)
    BY <2>1 DEF StandAloneTo
  <2>3. Len(units') < i + n
    BY <1>1, <1>2, <1>6 DEF AlignedInv
  <2> QED
    BY <1>1, <1>2, <1>3, <2>2, <2>3 DEF UInv, AlignedInv, StandAloneTo
<1> QED
  BY <1>2, <1>5, <1>6

LEMMA DecodersStay ==
    ASSUME UInv, FromOne \/ FromTwo \/ FromThree
    PROVE  UInv'
<1>1. /\ TypeOK /\ i \in Nat /\ Len(bytes) \in Nat /\ i < Len(bytes)
      /\ bytes \in Seq(Byte)
  BY DEF UInv, TypeOK, FromOne, FromTwo, FromThree
<1>2. \A k \in 1 .. Len(bytes) : bytes[k] \in Byte
  BY <1>1, ElementOfSeq
<1>3. bytes[i + 1] \in Byte
  BY <1>1, <1>2
<1> DEFINE b == bytes[i + 1]
<1>4. /\ b \div 64 = 3 <=> b >= 192
      /\ b \div 32 = 7 => b >= 192
  <2> HIDE DEF b
  <2>1. b \in Byte
    BY <1>3 DEF b
  <2> QED
    BY <2>1 DEF Byte
<1>5. CASE FromThree
  <2>1. LeadOfThree /\ i + 3 <= Len(bytes)
    BY <1>1, <1>5 DEF FromThree, LeadOfThree, Left
  <2>2. bytes[i + 2] \in Byte /\ bytes[i + 3] \in Byte
    BY <1>1, <1>2, <2>1
  <2> DEFINE unit == (b % 16) * 4096 + (bytes[i + 2] % 64) * 64 + (bytes[i + 3] % 64)
  <2>3. unit \in Unit
    BY <1>3, <2>2, DecodingsAreUnits
  <2>4. Decode(unit, 3) /\ b >= 192
    BY <1>4, <1>5, <2>1 DEF FromThree, LeadOfThree
  <2> HIDE DEF unit
  <2> QED
    BY <2>1, <2>3, <2>4, DecodeStays
<1>6. CASE FromTwo
  <2>1. LeadOfTwo /\ i + 2 <= Len(bytes)
    BY <1>1, <1>6 DEF FromTwo, LeadOfTwo, Left
  <2>2. bytes[i + 2] \in Byte
    BY <1>1, <1>2, <2>1
  <2> DEFINE unit == (b % 32) * 64 + (bytes[i + 2] % 64)
  <2>3. unit \in Unit
    BY <1>3, <2>2, DecodingsAreUnits
  <2>4. Decode(unit, 2) /\ b >= 192
    BY <1>4, <1>6, <2>1 DEF FromTwo, LeadOfTwo
  <2> HIDE DEF unit
  <2> QED
    BY <2>1, <2>3, <2>4, DecodeStays
<1>7. CASE FromOne
  <2>1. i + 1 = Len(bytes) \/ b < 192
    <3>1. ~(b \div 64 = 3 /\ Len(bytes) - i > 1)
      BY <1>7 DEF FromOne, LeadOfTwo, Left
    <3> QED
      <4>1. b \in Nat /\ Len(bytes) - i \in Nat
        BY <1>1, <1>3, Ranges
      <4> HIDE DEF b
      <4> QED
        BY <1>1, <1>4, <3>1, <4>1
  <2>2. b \in Unit /\ Decode(b, 1)
    BY <1>3, <1>7, DecodingsAreUnits DEF FromOne
  <2> QED
    BY <1>1, <2>1, <2>2, DecodeStays
<1> QED
  BY <1>5, <1>6, <1>7

LEMMA DecodedStays == ASSUME UInv, Decoded PROVE UInv'
<1>1. /\ TypeOK /\ LoopsStayInside /\ SizeInv /\ AlignedInv
      /\ pc = "utf8To16" /\ pc' = "done" /\ i >= Len(bytes)
      /\ text' = text /\ bytes' = bytes /\ units' = units /\ i' = i
  BY DEF UInv, Decoded
<1>2. i = Len(bytes)
  BY <1>1 DEF LoopsStayInside, TypeOK
<1> QED
  BY <1>1, <1>2 DEF UInv, TypeOK, LoopsStayInside, SizeInv, AlignedInv, StandAloneTo

-----------------------------------------------------------------------------

LEMMA InitUInv == Init => UInv
<1> SUFFICES ASSUME Init PROVE UInv
  OBVIOUS
<1>1. \A S : <<>> \in Seq(S) /\ Len(<<>>) = 0
  OBVIOUS
<1>2. \A S, T : S \subseteq T => Seq(S) \subseteq Seq(T)
  OBVIOUS
<1>3. Texts \subseteq Seq(Unit) /\ Titles \subseteq Seq(Byte)
  <2>1. Unit \ {0} \subseteq Unit /\ Byte \ {0} \subseteq Byte
    OBVIOUS
  <2>2. Seq(Unit \ {0}) \subseteq Seq(Unit) /\ Seq(Byte \ {0}) \subseteq Seq(Byte)
    BY <1>2, <2>1
  <2> QED
    BY <2>2, UtfAssumption DEF UtfAssumption
<1>4. MaxTextLength \in Nat /\ \A t \in Texts : Len(t) <= MaxTextLength
  BY UtfAssumption DEF UtfAssumption
<1>5. units = <<>> /\ i = 0
  BY DEF Init
<1>6. CASE pc = "utf16to8" /\ text \in Texts /\ bytes = <<>>
  <2>1. TypeOK /\ LoopsStayInside
    BY <1>1, <1>3, <1>5, <1>6 DEF TypeOK, LoopsStayInside
  <2>2. SizeInv /\ AlignedInv
    BY <1>1, <1>4, <1>5, <1>6 DEF SizeInv, AlignedInv
  <2> QED
    BY <2>1, <2>2 DEF UInv
<1>7. CASE pc = "utf8To16" /\ text = <<>> /\ bytes \in Titles
  <2>1. TypeOK /\ LoopsStayInside
    BY <1>1, <1>3, <1>5, <1>7 DEF TypeOK, LoopsStayInside
  <2>2. SizeInv /\ AlignedInv
    BY <1>1, <1>4, <1>5, <1>7 DEF SizeInv, AlignedInv, StandAloneTo
  <2> QED
    BY <2>1, <2>2 DEF UInv
<1> QED
  BY <1>6, <1>7 DEF Init

LEMMA NextUInv == UInv /\ [Next]_vars => UInv'
<1> SUFFICES ASSUME UInv, [Next]_vars PROVE UInv'
  OBVIOUS
<1>1. CASE UNCHANGED vars
  BY <1>1 DEF vars, UInv, TypeOK, LoopsStayInside, UnitAt, SizeInv, AlignedInv, StandAloneTo
<1> QED
  BY <1>1, EncodersStay, EncodedStays, DecodersStay, DecodedStays DEF Next, Terminated

LEMMA ConversionInvariant == Spec => []UInv
BY InitUInv, NextUInv, PTL DEF Spec

\* No byte and no unit loses a bit when it is stored, whatever is converted.
THEOREM ConversionTypeCorrect == Spec => []TypeOK
<1>1. UInv => TypeOK
  BY DEF UInv
<1> QED
  BY <1>1, ConversionInvariant, PTL

\* Both loops end at the end of their source, however it is cut.
THEOREM NoLoopRunsOver == Spec => []LoopsStayInside
<1>1. UInv => LoopsStayInside
  BY DEF UInv
<1> QED
  BY <1>1, ConversionInvariant, PTL

\* What the dialog lets the user type fits the buffer it is converted to,
\* though the sizes the code tests do not say so.
THEOREM TypedTextAlwaysFits == Spec => []TypedTextFits
<1>1. UInv => TypedTextFits
  <2> SUFFICES ASSUME UInv, text # <<>> PROVE Len(bytes) + 1 <= BufferSize
    BY DEF TypedTextFits
  <2>1. /\ MaxTextLength \in Nat /\ BufferSize \in Nat
        /\ 3 * MaxTextLength + 1 <= BufferSize
    BY UtfAssumption DEF UtfAssumption
  <2>2. Len(text) \in Nat /\ Len(bytes) \in Nat /\ i \in Nat /\ Len(text) <= MaxTextLength
    BY DEF UInv, TypeOK, SizeInv
  <2>3. Len(bytes) <= 3 * Len(text)
    BY <2>2 DEF UInv, SizeInv, LoopsStayInside
  <2> QED
    BY <2>1, <2>2, <2>3
<1> QED
  BY <1>1, ConversionInvariant, PTL

\* A title writes at most one unit behind titleBuffer, and writes that one
\* exactly when no byte but the last could begin a longer character.
THEOREM TitleOverrun == Spec => []TitleOverrunsByOne
<1>1. UInv => TitleOverrunsByOne
  <2> SUFFICES ASSUME UInv, pc = "done"
               PROVE  /\ Len(units) + 1 <= Len(bytes) + 1
                      /\ (Len(units) + 1 > Len(bytes)) <=> StandAlone
    BY DEF TitleOverrunsByOne
  <2>1. /\ Len(units) \in Nat /\ Len(bytes) \in Nat /\ i = Len(bytes)
        /\ Len(units) <= i /\ (Len(units) = i <=> StandAloneTo(i))
    BY DEF UInv, TypeOK, AlignedInv
  <2>2. StandAloneTo(Len(bytes)) <=> StandAlone
    BY <2>1 DEF StandAloneTo, StandAlone
  <2> QED
    BY <2>1, <2>2
<1> QED
  BY <1>1, ConversionInvariant, PTL

-----------------------------------------------------------------------------
(* There and back. *)

\* The bytes of b from position p on encode the unit c.
IsCode(c, b, p) ==
    /\ c < 128 => b[p] = c
    /\ c \in 128 .. 2047 => b[p] = 192 + c \div 64 /\ b[p + 1] = 128 + (c % 64)
    /\ c >= 2048 => /\ b[p] = 224 + c \div 4096
                    /\ b[p + 1] = 128 + ((c \div 64) % 64)
                    /\ b[p + 2] = 128 + (c % 64)

\* b holds the encodings of the first n units of t and nothing else; start[k] is
\* where the k-th one begins, start[n + 1] where the next one would.
EncodedTo(start, n, t, b) ==
    /\ start \in [1 .. n + 1 -> 1 .. Len(b) + 1]
    /\ start[1] = 1 /\ start[n + 1] = Len(b) + 1
    /\ \A j, k \in 1 .. n + 1 : j < k => start[j] < start[k]
    /\ \A k \in 1 .. n : /\ start[k + 1] = start[k] + Shortest(t[k])
                         /\ IsCode(t[k], b, start[k])
    /\ \A p \in 1 .. Len(b) : (\E k \in 1 .. n : start[k] = p) \/ b[p] \in Continuation

\* The first n characters have been decoded to what they were encoded from.
DecodedTo(start, n) ==
    /\ i = start[n + 1] - 1
    /\ Len(units) = n /\ \A k \in 1 .. n : units[k] = text[k]

RoundInv ==
    /\ text \in Seq(Unit \ {0})
    /\ Plain => /\ pc = "utf16to8" => \E start : EncodedTo(start, i, text, bytes)
                /\ pc # "utf16to8" =>
                     \E start : /\ EncodedTo(start, Len(text), text, bytes)
                                /\ \E n \in 0 .. Len(text) : DecodedTo(start, n)

\* What encoding and decoding compute.
LEMMA CodesAndUnits ==
    ASSUME NEW c \in Unit
    PROVE  /\ c < 128 => c \div 32 # 7 /\ c \div 64 # 3
           /\ c \in 128 .. 2047 =>
                /\ 192 + c \div 64 >= 192
                /\ (192 + c \div 64) \div 32 # 7 /\ (192 + c \div 64) \div 64 = 3
                /\ ((192 + c \div 64) % 32) * 64 + ((128 + (c % 64)) % 64) = c
                /\ (192 + c \div 64 - 192) * 64 + (128 + (c % 64) - 128) = c
           /\ c >= 2048 =>
                /\ 224 + c \div 4096 >= 192
                /\ (224 + c \div 4096) \div 32 = 7
                /\ ((224 + c \div 4096) % 16) * 4096 + ((128 + ((c \div 64) % 64)) % 64) * 64
                       + ((128 + (c % 64)) % 64) = c
                /\ (224 + c \div 4096 - 224) * 4096 + (128 + ((c \div 64) % 64) - 128) * 64
                       + (128 + (c % 64) - 128) = c
           /\ 128 + (c % 64) \in 128 .. 191 /\ 128 + ((c \div 64) % 64) \in 128 .. 191
<1>1. c \in Nat /\ c <= 65535
  BY Ranges
<1>2. c < 128 => c \div 32 # 7 /\ c \div 64 # 3
  BY <1>1
<1>3. PICK h \in 0 .. 1023, l \in 0 .. 63 : c = 64 * h + l /\ c \div 64 = h /\ c % 64 = l
  <2>1. c \div 64 \in Nat /\ c % 64 \in 0 .. 63 /\ c = 64 * (c \div 64) + (c % 64)
    BY <1>1
  <2>2. \A x \in Nat, y \in 0 .. 63 : 64 * x + y <= 65535 => x \in 0 .. 1023
    OBVIOUS
  <2>3. c \div 64 \in 0 .. 1023
    BY <1>1, <2>1, <2>2
  <2> QED
    BY <2>1, <2>3
<1>4. PICK g \in 0 .. 15, m \in 0 .. 63 : h = 64 * g + m /\ h % 64 = m /\ c \div 4096 = g
  BY <1>1, <1>3
<1>5. c \in 128 .. 2047 =>
        /\ 192 + c \div 64 >= 192
        /\ (192 + c \div 64) \div 32 # 7 /\ (192 + c \div 64) \div 64 = 3
        /\ ((192 + c \div 64) % 32) * 64 + ((128 + (c % 64)) % 64) = c
        /\ (192 + c \div 64 - 192) * 64 + (128 + (c % 64) - 128) = c
  <2> SUFFICES ASSUME c \in 128 .. 2047
               PROVE  /\ 192 + h >= 192
                      /\ (192 + h) \div 32 # 7 /\ (192 + h) \div 64 = 3
                      /\ ((192 + h) % 32) * 64 + ((128 + l) % 64) = c
                      /\ (192 + h - 192) * 64 + (128 + l - 128) = c
    BY <1>3
  <2>1. h \in 2 .. 31
    BY <1>1, <1>3
  <2>2. (192 + h) % 32 = h /\ (128 + l) % 64 = l
    BY <1>3, <2>1
  <2>3. (192 + h) \div 32 # 7 /\ (192 + h) \div 64 = 3
    BY <2>1
  <2> QED
    BY <1>3, <2>1, <2>2, <2>3
<1>6. c >= 2048 =>
        /\ 224 + c \div 4096 >= 192
        /\ (224 + c \div 4096) \div 32 = 7
        /\ ((224 + c \div 4096) % 16) * 4096 + ((128 + ((c \div 64) % 64)) % 64) * 64
               + ((128 + (c % 64)) % 64) = c
        /\ (224 + c \div 4096 - 224) * 4096 + (128 + ((c \div 64) % 64) - 128) * 64
               + (128 + (c % 64) - 128) = c
  <2> SUFFICES /\ 224 + g >= 192
               /\ (224 + g) \div 32 = 7
               /\ ((224 + g) % 16) * 4096 + ((128 + m) % 64) * 64 + ((128 + l) % 64) = c
               /\ (224 + g - 224) * 4096 + (128 + m - 128) * 64 + (128 + l - 128) = c
    BY <1>3, <1>4
  <2>1. (224 + g) % 16 = g /\ (128 + m) % 64 = m /\ (128 + l) % 64 = l
    BY <1>3, <1>4
  <2>2. 224 + g >= 192 /\ (224 + g) \div 32 = 7
    BY <1>4
  <2> QED
    BY <1>3, <1>4, <2>1, <2>2
<1>7. 128 + (c % 64) \in 128 .. 191 /\ 128 + ((c \div 64) % 64) \in 128 .. 191
  BY <1>3, <1>4
<1> QED
  BY <1>2, <1>5, <1>6, <1>7

LEMMA CodeOfOne ==
    ASSUME NEW c \in Nat, NEW b, NEW p, c < 128, b[p] = c
    PROVE  IsCode(c, b, p)
<1>1. ~(c \in 128 .. 2047) /\ ~(c >= 2048)
  OBVIOUS
<1> QED
  BY <1>1 DEF IsCode

LEMMA CodeOfTwo ==
    ASSUME NEW c \in Nat, NEW b, NEW p, c \in 128 .. 2047,
           b[p] = 192 + c \div 64, b[p + 1] = 128 + (c % 64)
    PROVE  IsCode(c, b, p)
<1>1. ~(c < 128) /\ ~(c >= 2048)
  OBVIOUS
<1> QED
  BY <1>1 DEF IsCode

LEMMA CodeOfThree ==
    ASSUME NEW c \in Nat, NEW b, NEW p, c >= 2048,
           b[p] = 224 + c \div 4096, b[p + 1] = 128 + ((c \div 64) % 64),
           b[p + 2] = 128 + (c % 64)
    PROVE  IsCode(c, b, p)
<1>1. ~(c < 128) /\ ~(c \in 128 .. 2047)
  OBVIOUS
<1> QED
  BY <1>1 DEF IsCode

LEMMA ShortestIs ==
    \A c \in Nat : /\ c < 128 => Shortest(c) = 1
                   /\ c \in 128 .. 2047 => Shortest(c) = 2
                   /\ c >= 2048 => Shortest(c) = 3
BY DEF Shortest

LEMMA ShortestIsTwo == \A c \in 128 .. 2047 : Shortest(c) = 2
BY ShortestIs

\* One more unit is encoded behind the others.
LEMMA OneMoreCode ==
    ASSUME NEW t \in Seq(Unit), NEW b \in Seq(Byte), NEW s \in Seq(Byte),
           NEW n \in Nat, n < Len(t),
           NEW start, EncodedTo(start, n, t, b),
           Len(s) = Shortest(t[n + 1]), Len(s) >= 1,
           IsCode(t[n + 1], s, 1),
           \A q \in 2 .. Len(s) : s[q] \in Continuation
    PROVE  \E g : EncodedTo(g, n + 1, t, b \o s)
<1> DEFINE L == Len(b)
           all == b \o s
           g == [k \in 1 .. n + 2 |-> IF k = n + 2 THEN L + Len(s) + 1 ELSE start[k]]
           c == t[n + 1]
<1>1. /\ L \in Nat /\ Len(s) \in Nat /\ Len(all) = L + Len(s)
      /\ \A p \in 1 .. L : all[p] = b[p]
      /\ \A q \in 1 .. Len(s) : all[L + q] = s[q]
  <2>1. L \in Nat /\ Len(s) \in Nat /\ Len(all) = L + Len(s)
    BY Joined
  <2>2. \A p \in 1 .. L + Len(s) : all[p] = IF p <= L THEN b[p] ELSE s[p - L]
    BY ConcatProperties
  <2>3. \A p \in 1 .. L : all[p] = b[p]
    <3> HIDE DEF all, L
    <3> QED
      BY <2>1, <2>2
  <2>4. \A q \in 1 .. Len(s) : all[L + q] = s[q]
    <3> HIDE DEF all, L
    <3> SUFFICES ASSUME NEW q \in 1 .. Len(s) PROVE all[L + q] = s[q]
      OBVIOUS
    <3>1. L + q \in 1 .. L + Len(s) /\ ~(L + q <= L) /\ (L + q) - L = q
      BY <2>1
    <3> QED
      BY <2>2, <3>1
  <2> QED
    BY <2>1, <2>3, <2>4
<1>2. /\ start \in [1 .. n + 1 -> 1 .. L + 1]
      /\ start[1] = 1 /\ start[n + 1] = L + 1
      /\ \A j, k \in 1 .. n + 1 : j < k => start[j] < start[k]
      /\ \A k \in 1 .. n : /\ start[k + 1] = start[k] + Shortest(t[k])
                           /\ IsCode(t[k], b, start[k])
      /\ \A p \in 1 .. L : (\E k \in 1 .. n : start[k] = p) \/ b[p] \in Continuation
  BY DEF EncodedTo
<1>3. g \in [1 .. n + 2 -> 1 .. Len(all) + 1]
  BY <1>1, <1>2
<1>4. /\ \A k \in 1 .. n + 1 : g[k] = start[k] /\ start[k] \in 1 .. L + 1
      /\ g[n + 2] = L + Len(s) + 1
      /\ \A k \in 1 .. n + 2 : k \in 1 .. n + 1 \/ k = n + 2
      /\ \A k \in 1 .. n + 1 : k \in 1 .. n \/ k = n + 1
  BY <1>1, <1>2
<1> HIDE DEF g, all, L, c
<1>5. g[1] = 1
  <2>1. 1 \in 1 .. n + 1
    OBVIOUS
  <2> QED
    BY <1>2, <1>4, <2>1
<1>6. \A j, k \in 1 .. n + 2 : j < k => g[j] < g[k]
  <2> SUFFICES ASSUME NEW j \in 1 .. n + 2, NEW k \in 1 .. n + 2, j < k PROVE g[j] < g[k]
    OBVIOUS
  <2>1. j \in 1 .. n + 1
    OBVIOUS
  <2>2. CASE k \in 1 .. n + 1
    BY <1>2, <1>4, <2>1, <2>2
  <2>3. CASE k = n + 2
    <3>1. g[j] \in 1 .. L + 1 /\ g[k] = L + Len(s) + 1
      BY <1>4, <2>1, <2>3
    <3> QED
      BY <1>1, <3>1
  <2> QED
    BY <1>4, <2>2, <2>3
<1>7. \A k \in 1 .. n : Shortest(t[k]) \in {1, 2, 3}
  BY DEF Shortest
<1>8. \A k \in 1 .. n + 1 : /\ g[k + 1] = g[k] + Shortest(t[k])
                            /\ IsCode(t[k], all, g[k])
  <2> SUFFICES ASSUME NEW k \in 1 .. n + 1
               PROVE  /\ g[k + 1] = g[k] + Shortest(t[k])
                      /\ IsCode(t[k], all, g[k])
    OBVIOUS
  <2>1. CASE k \in 1 .. n
    <3>1. k \in 1 .. n + 1 /\ k + 1 \in 1 .. n + 1
      BY <2>1
    <3>2. /\ g[k] = start[k] /\ g[k + 1] = start[k + 1]
          /\ start[k + 1] = start[k] + Shortest(t[k])
          /\ start[k] \in 1 .. L + 1 /\ start[k + 1] \in 1 .. L + 1
          /\ IsCode(t[k], b, start[k])
      BY <1>2, <1>4, <2>1, <3>1
    <3> DEFINE p == start[k]
               d == t[k]
    <3>3. d \in Nat /\ p \in Nat /\ p >= 1 /\ p + Shortest(d) <= L + 1
      <4>1. d \in Unit
        BY <2>1, ElementOfSeq
      <4>2. p \in 1 .. L + 1 /\ p + Shortest(d) \in 1 .. L + 1
        BY <3>2
      <4> HIDE DEF p, d
      <4> QED
        BY <1>1, <4>1, <4>2, Ranges
    <3>4. IsCode(d, b, p)
      BY <3>2
    <3> HIDE DEF p, d
    <3>5. IsCode(d, all, p)
      <4>1. CASE d < 128
        <5>1. p \in 1 .. L
          BY <1>1, <3>3, <4>1, ShortestIs
        <5> QED
          BY <1>1, <3>3, <3>4, <4>1, <5>1 DEF IsCode
      <4>2. CASE d \in 128 .. 2047
        <5>1. p \in 1 .. L /\ p + 1 \in 1 .. L
          BY <1>1, <3>3, <4>2, ShortestIs
        <5> QED
          BY <1>1, <3>4, <4>2, <5>1 DEF IsCode
      <4>3. CASE d >= 2048
        <5>1. p \in 1 .. L /\ p + 1 \in 1 .. L /\ p + 2 \in 1 .. L
          BY <1>1, <3>3, <4>3, ShortestIs
        <5> QED
          BY <1>1, <3>3, <3>4, <4>3, <5>1 DEF IsCode
      <4> QED
        BY <3>3, <4>1, <4>2, <4>3
    <3> QED
      BY <3>2, <3>5 DEF p, d
  <2>2. CASE k = n + 1
    <3>1. k \in 1 .. n + 1 /\ g[k] = L + 1 /\ g[k + 1] = L + Len(s) + 1
      BY <1>2, <1>4, <2>2
    <3>2. g[k + 1] = g[k] + Shortest(t[k])
      BY <1>1, <2>2, <3>1
    <3>3. c \in Nat
      <4>1. c \in Unit
        BY ElementOfSeq DEF c
      <4> QED
        BY <4>1, Ranges
    <3>4. Len(s) = Shortest(c) /\ IsCode(c, s, 1)
      BY DEF c
    <3>5. IsCode(c, all, L + 1)
      <4>1. CASE c < 128
        <5>1. all[L + 1] = s[1]
          BY <1>1
        <5> QED
          BY <3>3, <3>4, <4>1, <5>1 DEF IsCode
      <4>2. CASE c \in 128 .. 2047
        <5>1. Len(s) = 2
          BY <3>3, <3>4, <4>2, ShortestIs
        <5>2. all[L + 1] = s[1] /\ all[(L + 1) + 1] = s[1 + 1]
          BY <1>1, <5>1
        <5> QED
          BY <3>3, <3>4, <4>2, <5>2 DEF IsCode
      <4>3. CASE c >= 2048
        <5>1. Len(s) = 3
          BY <3>3, <3>4, <4>3, ShortestIs
        <5>2. all[L + 1] = s[1] /\ all[(L + 1) + 1] = s[1 + 1] /\ all[(L + 1) + 2] = s[1 + 2]
          BY <1>1, <5>1
        <5> QED
          BY <3>3, <3>4, <4>3, <5>2 DEF IsCode
      <4> QED
        BY <3>3, <4>1, <4>2, <4>3
    <3> QED
      BY <2>2, <3>1, <3>2, <3>5 DEF c
  <2> QED
    BY <1>4, <2>1, <2>2
<1>9. \A p \in 1 .. Len(all) : (\E k \in 1 .. n + 1 : g[k] = p) \/ all[p] \in Continuation
  <2> SUFFICES ASSUME NEW p \in 1 .. Len(all)
               PROVE  (\E k \in 1 .. n + 1 : g[k] = p) \/ all[p] \in Continuation
    OBVIOUS
  <2>1. CASE p \in 1 .. L
    <3>1. \A k \in 1 .. n : k \in 1 .. n + 1 /\ g[k] = start[k]
      BY <1>4
    <3> QED
      BY <1>1, <1>2, <2>1, <3>1
  <2>2. CASE p = L + 1
    <3>1. n + 1 \in 1 .. n + 1
      OBVIOUS
    <3> QED
      BY <1>2, <1>4, <2>2, <3>1
  <2>3. CASE p \in L + 2 .. L + Len(s)
    <3>1. p - L \in 2 .. Len(s) /\ p - L \in 1 .. Len(s) /\ L + (p - L) = p
      BY <1>1, <2>3
    <3> QED
      BY <1>1, <3>1
  <2>4. \A a, m \in Nat : \A x \in 1 .. a + m : x \in 1 .. a \/ x = a + 1 \/ x \in a + 2 .. a + m
    OBVIOUS
  <2> QED
    BY <1>1, <2>1, <2>2, <2>3, <2>4
<1>10. EncodedTo(g, n + 1, t, all)
  <2>1. (n + 1) + 1 = n + 2 /\ Len(all) + 1 = L + Len(s) + 1
    BY <1>1
  <2> QED
    BY <1>3, <1>4, <1>5, <1>6, <1>8, <1>9, <2>1 DEF EncodedTo
<1> QED
  BY <1>10 DEF all

LEMMA InitRoundInv == Init => RoundInv
<1> SUFFICES ASSUME Init PROVE RoundInv
  OBVIOUS
<1>1. \A S : <<>> \in Seq(S) /\ Len(<<>>) = 0
  OBVIOUS
<1>2. text \in Seq(Unit \ {0})
  BY <1>1, UtfAssumption DEF Init, UtfAssumption
<1>3. Plain => \E start : EncodedTo(start, 0, text, <<>>)
  <2> DEFINE start == [k \in 1 .. 1 |-> 1]
             b == <<>>
  <2>1. /\ start \in [1 .. 0 + 1 -> 1 .. Len(b) + 1] /\ start[1] = 1 /\ Len(b) = 0
        /\ 1 .. 0 = {} /\ start[0 + 1] = Len(b) + 1
    BY <1>1
  <2>2. \A j, k \in 1 .. 0 + 1 : ~(j < k)
    OBVIOUS
  <2> HIDE DEF start, b
  <2>3. EncodedTo(start, 0, text, b)
    BY <2>1, <2>2 DEF EncodedTo
  <2> QED
    BY <2>3 DEF b
<1>4. Plain => pc = "utf16to8" /\ bytes = <<>> /\ i = 0
  BY DEF Init, Plain
<1> QED
  BY <1>2, <1>3, <1>4 DEF RoundInv

\* One unit of a text without surrogates is encoded by its own rule.
LEMMA EncodersKeepRoundInv ==
    ASSUME UInv, RoundInv, OneByte \/ TwoBytes \/ ThreeBytes \/ FourBytes
    PROVE  RoundInv'
<1> DEFINE u == UnitAt(i)
<1>1. /\ text \in Seq(Unit) /\ bytes \in Seq(Byte) /\ i \in Nat /\ Len(text) \in Nat
      /\ pc = "utf16to8" /\ pc' = pc /\ text' = text /\ u # 0
  BY DEF UInv, TypeOK, OneByte, TwoBytes, ThreeBytes, FourBytes, Encode
<1>2. u \in Unit /\ i < Len(text)
  BY <1>1, UnitFacts DEF UInv
<1>3. u = text[i + 1] /\ i + 1 \in DOMAIN text /\ u \in Nat
  BY <1>1, <1>2, Ranges DEF UnitAt
<1>4. Plain' = Plain
  BY <1>1 DEF Plain
<1> SUFFICES ASSUME Plain PROVE \E g : EncodedTo(g, i', text, bytes')
  BY <1>1, <1>4 DEF RoundInv
<1>5. PICK start : EncodedTo(start, i, text, bytes)
  BY <1>1 DEF RoundInv
<1>6. u \notin Surrogate
  <2> DEFINE k == i + 1
  <2>1. k \in DOMAIN text
    BY <1>3
  <2> HIDE DEF k
  <2>2. text[k] \notin Surrogate
    BY <2>1 DEF Plain
  <2> HIDE DEF u
  <2> QED
    BY <1>3, <2>2 DEF k
<1>7. ASSUME NEW s \in Seq(Byte), Encode(s, 1), Len(s) = Shortest(u), Len(s) >= 1,
             IsCode(u, s, 1), \A q \in 2 .. Len(s) : s[q] \in Continuation
      PROVE  \E g : EncodedTo(g, i', text, bytes')
  <2>1. bytes' = bytes \o s /\ i' = i + 1
    BY <1>7 DEF Encode
  <2>2. \E g : EncodedTo(g, i + 1, text, bytes \o s)
    <3> HIDE DEF u
    <3> QED
      BY <1>1, <1>2, <1>3, <1>5, <1>7, OneMoreCode
  <2> QED
    BY <2>1, <2>2
<1>8. /\ 128 + (u % 64) \in Byte /\ 128 + ((u \div 64) % 64) \in Byte
      /\ 224 + u \div 4096 \in Byte
      /\ u < 2048 => 192 + u \div 64 \in Byte
      /\ u < 128 => u \in Byte
      /\ 128 + (u % 64) \in Continuation /\ 128 + ((u \div 64) % 64) \in Continuation
  BY <1>2, EncodingsAreBytes, CodesAndUnits DEF Continuation
<1> HIDE DEF u
<1>9. CASE OneByte
  <2>1. u < 128 /\ Encode(<<u>>, 1)
    BY <1>9 DEF OneByte, u
  <2>2. <<u>> \in Seq(Byte) /\ Len(<<u>>) = 1 /\ <<u>>[1] = u
    BY <1>8, <2>1, LiteralsAreSeqs
  <2>3. Shortest(u) = 1 /\ IsCode(u, <<u>>, 1)
    <3>1. Shortest(u) = 1
      BY <1>3, <2>1, ShortestIs
    <3>2. IsCode(u, <<u>>, 1)
      BY <1>3, <2>1, <2>2, CodeOfOne, Zenon
    <3> QED
      BY <3>1, <3>2
  <2>4. (\A q \in 2 .. Len(<<u>>) : <<u>>[q] \in Continuation) /\ Len(<<u>>) >= 1
    BY <2>2
  <2> QED
    BY <1>7, <2>1, <2>2, <2>3, <2>4
<1>10. CASE TwoBytes
  <2> DEFINE s == <<192 + u \div 64, 128 + (u % 64)>>
  <2>1. u \in 128 .. 2047 /\ Encode(s, 1)
    BY <1>10 DEF TwoBytes, u
  <2>2. s \in Seq(Byte) /\ Len(s) = 2
    BY <1>3, <1>8, <2>1, LiteralsAreSeqs
  <2>3. s[1] = 192 + u \div 64 /\ s[2] = 128 + (u % 64)
    OBVIOUS
  <2> HIDE DEF s
  <2>4. Shortest(u) = 2 /\ IsCode(u, s, 1)
    <3>1. s[1 + 1] = 128 + (u % 64)
      BY <2>3
    <3>2. Shortest(u) = 2
      BY <2>1, ShortestIsTwo
    <3>3. u \in Nat /\ u \in 128 .. 2047
      BY <2>1
    <3>4. IsCode(u, s, 1)
      BY <2>3, <3>1, <3>3, CodeOfTwo
    <3> QED
      BY <3>2, <3>4
  <2>5. \A q \in 2 .. Len(s) : s[q] \in Continuation
    <3>1. \A q \in 2 .. 2 : q = 2
      OBVIOUS
    <3> QED
      BY <1>8, <2>2, <2>3, <3>1
  <2>6. Len(s) >= 1
    BY <2>2
  <2> QED
    BY <1>7, <2>1, <2>2, <2>4, <2>5, <2>6
<1>11. CASE ThreeBytes
  <2> DEFINE s == <<224 + u \div 4096, 128 + ((u \div 64) % 64), 128 + (u % 64)>>
  <2>1. u >= 2048 /\ Encode(s, 1)
    BY <1>11 DEF ThreeBytes, u
  <2>2. s \in Seq(Byte) /\ Len(s) = 3
    BY <1>8, LiteralsAreSeqs
  <2>3. s[1] = 224 + u \div 4096 /\ s[2] = 128 + ((u \div 64) % 64) /\ s[3] = 128 + (u % 64)
    OBVIOUS
  <2> HIDE DEF s
  <2>4. Shortest(u) = 3 /\ IsCode(u, s, 1)
    <3>1. s[1 + 1] = 128 + ((u \div 64) % 64) /\ s[1 + 2] = 128 + (u % 64)
      BY <2>3
    <3>2. Shortest(u) = 3
      BY <1>3, <2>1, ShortestIs
    <3>3. u \in Nat /\ u >= 2048
      BY <1>3, <2>1
    <3>4. IsCode(u, s, 1)
      BY <2>3, <3>1, <3>3, CodeOfThree
    <3> QED
      BY <3>2, <3>4
  <2>5. \A q \in 2 .. Len(s) : s[q] \in Continuation
    <3>1. \A q \in 2 .. 3 : q = 2 \/ q = 3
      OBVIOUS
    <3> QED
      BY <1>8, <2>2, <2>3, <3>1
  <2>6. Len(s) >= 1
    BY <2>2
  <2> QED
    BY <1>7, <2>1, <2>2, <2>4, <2>5, <2>6
<1>12. ~FourBytes
  <2>1. \A x \in Nat : x \div 1024 = 54 => x \in Surrogate
    BY SMT DEF Surrogate
  <2>2. FourBytes => u \div 1024 = 54
    BY DEF FourBytes, Surrogates, u
  <2>3. u \in Nat /\ u \notin Surrogate
    BY <1>3, <1>6
  <2> QED
    BY <2>1, <2>2, <2>3
<1> QED
  BY <1>9, <1>10, <1>11, <1>12

LEMMA EncodedKeepsRoundInv == ASSUME UInv, RoundInv, Encoded PROVE RoundInv'
<1>1. /\ text \in Seq(Unit \ {0}) /\ Len(text) \in Nat /\ i \in Nat /\ i <= Len(text)
      /\ pc = "utf16to8" /\ pc' = "utf8To16" /\ i' = 0 /\ UnitAt(i) = 0
      /\ units = <<>>
      /\ text' = text /\ bytes' = bytes /\ units' = units
  BY DEF UInv, TypeOK, LoopsStayInside, SizeInv, RoundInv, Encoded
<1>2. i = Len(text)
  <2> SUFFICES ASSUME i < Len(text) PROVE FALSE
    BY <1>1
  <2>1. text[i + 1] \in Unit \ {0}
    BY <1>1, ElementOfSeq
  <2> QED
    BY <1>1, <2>1 DEF UnitAt
<1>3. Plain' = Plain
  BY <1>1 DEF Plain
<1> SUFFICES ASSUME Plain
             PROVE  \E start : /\ EncodedTo(start, Len(text), text, bytes)
                               /\ \E n \in 0 .. Len(text) : DecodedTo(start, n)'
  BY <1>1, <1>3 DEF RoundInv, DecodedTo
<1>4. PICK start : EncodedTo(start, Len(text), text, bytes)
  BY <1>1, <1>2 DEF RoundInv
<1>5. start[0 + 1] - 1 = 0 /\ Len(units') = 0 /\ 0 \in 0 .. Len(text)
  BY <1>1, <1>4 DEF EncodedTo
<1>6. DecodedTo(start, 0)'
  BY <1>1, <1>5 DEF DecodedTo
<1> QED
  BY <1>4, <1>5, <1>6

\* Whatever rule decodes next, it takes the next code and gives its unit.
LEMMA DecodersTakeACode ==
    ASSUME UInv, FromOne \/ FromTwo \/ FromThree,
           NEW c \in Unit, IsCode(c, bytes, i + 1), i + Shortest(c) <= Len(bytes)
    PROVE  Decode(c, Shortest(c))
<1> DEFINE b == bytes[i + 1]
           L == Len(bytes)
<1>1. /\ i \in Nat /\ L \in Nat /\ i < L /\ c \in Nat
      /\ FromOne => ~LeadOfThree /\ ~LeadOfTwo
      /\ FromTwo => LeadOfTwo
      /\ FromThree => LeadOfThree
      /\ LeadOfTwo => ~LeadOfThree
  BY Ranges DEF UInv, TypeOK, FromOne, FromTwo, FromThree, LeadOfTwo
<1>2. /\ LeadOfThree <=> b \div 32 = 7 /\ L - i > 2
      /\ LeadOfTwo <=> b \div 64 = 3 /\ L - i > 1 /\ ~LeadOfThree
  BY DEF LeadOfThree, LeadOfTwo, Left
<1>3. /\ FromOne => Decode(b, 1)
      /\ FromTwo => Decode((b % 32) * 64 + (bytes[i + 2] % 64), 2)
      /\ FromThree => Decode((b % 16) * 4096 + (bytes[i + 2] % 64) * 64
                                 + (bytes[i + 3] % 64), 3)
  BY DEF FromOne, FromTwo, FromThree
<1>4. bytes[(i + 1) + 1] = bytes[i + 2] /\ bytes[(i + 1) + 2] = bytes[i + 3]
  BY <1>1
<1> HIDE DEF b, L
<1>5. CASE c < 128
  <2>1. b = c /\ Shortest(c) = 1
    BY <1>1, <1>5, ShortestIs DEF IsCode, b
  <2>2. ~LeadOfThree /\ ~LeadOfTwo
    BY <1>2, <1>5, <2>1, CodesAndUnits
  <2> QED
    BY <1>1, <1>3, <2>1, <2>2
<1>6. CASE c \in 128 .. 2047
  <2>1. b = 192 + c \div 64 /\ bytes[i + 2] = 128 + (c % 64) /\ Shortest(c) = 2
    BY <1>1, <1>4, <1>6, ShortestIs DEF IsCode, b
  <2>2. L - i > 1
    BY <1>1, <2>1 DEF L
  <2>3. ~LeadOfThree /\ LeadOfTwo
    BY <1>2, <1>6, <2>1, <2>2, CodesAndUnits
  <2>4. (b % 32) * 64 + (bytes[i + 2] % 64) = c
    BY <1>6, <2>1, CodesAndUnits
  <2> QED
    BY <1>1, <1>3, <2>1, <2>3, <2>4
<1>7. CASE c >= 2048
  <2>1. /\ b = 224 + c \div 4096 /\ bytes[i + 2] = 128 + ((c \div 64) % 64)
        /\ bytes[i + 3] = 128 + (c % 64) /\ Shortest(c) = 3
    BY <1>1, <1>4, <1>7, ShortestIs DEF IsCode, b
  <2>2. L - i > 2
    BY <1>1, <2>1 DEF L
  <2>3. LeadOfThree
    BY <1>2, <1>7, <2>1, <2>2, CodesAndUnits
  <2>4. (b % 16) * 4096 + (bytes[i + 2] % 64) * 64 + (bytes[i + 3] % 64) = c
    BY <1>7, <2>1, CodesAndUnits
  <2> QED
    BY <1>1, <1>3, <2>1, <2>3, <2>4
<1> QED
  BY <1>1, <1>5, <1>6, <1>7

LEMMA DecodersKeepRoundInv ==
    ASSUME UInv, RoundInv, FromOne \/ FromTwo \/ FromThree
    PROVE  RoundInv'
<1>1. /\ text \in Seq(Unit) /\ units \in Seq(Unit) /\ i \in Nat
      /\ Len(text) \in Nat /\ Len(bytes) \in Nat /\ Len(units) \in Nat
      /\ pc = "utf8To16" /\ pc' = pc /\ text' = text /\ bytes' = bytes /\ i < Len(bytes)
  BY DEF UInv, TypeOK, FromOne, FromTwo, FromThree, Decode
<1>2. Plain' = Plain
  BY <1>1 DEF Plain
<1> SUFFICES ASSUME Plain
             PROVE  \E start : /\ EncodedTo(start, Len(text), text, bytes)
                               /\ \E n \in 0 .. Len(text) : DecodedTo(start, n)'
  BY <1>1, <1>2 DEF RoundInv, DecodedTo
<1>3. PICK start : /\ EncodedTo(start, Len(text), text, bytes)
                   /\ \E n \in 0 .. Len(text) : DecodedTo(start, n)
  BY <1>1 DEF RoundInv
<1>4. PICK n \in 0 .. Len(text) : DecodedTo(start, n)
  BY <1>3
<1>5. /\ i = start[n + 1] - 1 /\ Len(units) = n
      /\ \A k \in 1 .. n : units[k] = text[k]
  BY <1>4 DEF DecodedTo
<1>6. /\ start \in [1 .. Len(text) + 1 -> 1 .. Len(bytes) + 1]
      /\ start[Len(text) + 1] = Len(bytes) + 1
      /\ \A k \in 1 .. Len(text) : /\ start[k + 1] = start[k] + Shortest(text[k])
                                   /\ IsCode(text[k], bytes, start[k])
  BY <1>3 DEF EncodedTo
<1>7. n < Len(text)
  BY <1>1, <1>5, <1>6
<1> DEFINE c == text[n + 1]
<1>8. c \in Unit /\ n + 1 \in 1 .. Len(text)
  BY <1>1, <1>7, ElementOfSeq
<1>9. /\ start[n + 1] \in 1 .. Len(bytes) + 1 /\ i + 1 = start[n + 1]
      /\ start[(n + 1) + 1] \in 1 .. Len(bytes) + 1
      /\ start[(n + 1) + 1] = start[n + 1] + Shortest(c)
      /\ IsCode(c, bytes, start[n + 1])
  <2>1. n + 1 \in 1 .. Len(text) + 1 /\ (n + 1) + 1 \in 1 .. Len(text) + 1
    BY <1>1, <1>7
  <2>2. start[n + 1] \in 1 .. Len(bytes) + 1 /\ start[(n + 1) + 1] \in 1 .. Len(bytes) + 1
    BY <1>6, <2>1
  <2>3. i + 1 = start[n + 1]
    BY <1>1, <1>5, <2>2
  <2> QED
    BY <1>6, <1>8, <2>2, <2>3
<1> HIDE DEF c
<1>10. Shortest(c) \in Nat /\ IsCode(c, bytes, i + 1) /\ i + Shortest(c) <= Len(bytes)
  <2>1. Shortest(c) \in {1, 2, 3}
    BY DEF Shortest
  <2> QED
    BY <1>1, <1>9, <2>1
<1>11. units' = Append(units, c) /\ i' = i + Shortest(c)
  BY <1>8, <1>10, DecodersTakeACode DEF Decode
<1>12. DecodedTo(start, n + 1)'
  <2>1. i' = start[(n + 1) + 1] - 1
    BY <1>1, <1>9, <1>10, <1>11
  <2>2. Len(units') = n + 1 /\ \A k \in 1 .. n + 1 : units'[k] = text[k]
    <3>1. /\ Len(units') = n + 1 /\ units'[n + 1] = c
          /\ \A k \in 1 .. n : units'[k] = units[k]
      BY <1>1, <1>5, <1>8, <1>11, AppendProperties
    <3>2. \A k \in 1 .. n + 1 : k \in 1 .. n \/ k = n + 1
      BY <1>7
    <3> QED
      BY <1>5, <3>1, <3>2 DEF c
  <2> QED
    BY <1>1, <2>1, <2>2 DEF DecodedTo
<1> QED
  BY <1>3, <1>8, <1>12

LEMMA NextRoundInv == UInv /\ RoundInv /\ [Next]_vars => RoundInv'
<1> SUFFICES ASSUME UInv, RoundInv, [Next]_vars PROVE RoundInv'
  OBVIOUS
<1>1. CASE Decoded \/ UNCHANGED vars
  <2>1. /\ UNCHANGED <<text, bytes, units, i>>
        /\ pc' = "utf16to8" => pc = "utf16to8"
        /\ pc' # "utf16to8" => pc # "utf16to8"
    BY <1>1 DEF Decoded, vars
  <2>2. Plain' = Plain /\ \A start, n : DecodedTo(start, n)' <=> DecodedTo(start, n)
    BY <2>1 DEF Plain, DecodedTo
  <2> QED
    BY <2>1, <2>2 DEF RoundInv
<1> QED
  BY <1>1, EncodersKeepRoundInv, EncodedKeepsRoundInv, DecodersKeepRoundInv
  DEF Next, Terminated

LEMMA RoundInvariant == Spec => [](UInv /\ RoundInv)
<1>1. Init => UInv /\ RoundInv
  BY InitUInv, InitRoundInv
<1>2. UInv /\ RoundInv /\ [Next]_vars => (UInv /\ RoundInv)'
  BY NextUInv, NextRoundInv
<1> QED
  BY <1>1, <1>2, PTL DEF Spec

LEMMA CodesAreUtf8 ==
    ASSUME TypeOK, NEW start, EncodedTo(start, Len(text), text, bytes)
    PROVE  IsUtf8
<1> DEFINE N == Len(text)
           L == Len(bytes)
           f == [k \in DOMAIN text |-> start[k]]
<1>1. /\ N \in Nat /\ L \in Nat /\ DOMAIN text = 1 .. N
      /\ \A k \in 1 .. N : text[k] \in Unit
  BY ElementOfSeq DEF TypeOK
<1>2. /\ start \in [1 .. N + 1 -> 1 .. L + 1]
      /\ start[N + 1] = L + 1
      /\ \A j, k \in 1 .. N + 1 : j < k => start[j] < start[k]
      /\ \A k \in 1 .. N : /\ start[k + 1] = start[k] + Shortest(text[k])
                           /\ IsCode(text[k], bytes, start[k])
      /\ \A p \in 1 .. L : (\E k \in 1 .. N : start[k] = p) \/ bytes[p] \in Continuation
  BY DEF EncodedTo
<1>3. \A k \in 1 .. N : f[k] = start[k]
  BY <1>1
<1> HIDE DEF f, N, L
<1>4. \A k \in 1 .. N : start[k] \in 1 .. L /\ start[k] + Shortest(text[k]) <= L + 1
  <2> SUFFICES ASSUME NEW k \in 1 .. N
               PROVE  start[k] \in 1 .. L /\ start[k] + Shortest(text[k]) <= L + 1
    OBVIOUS
  <2>1. k \in 1 .. N + 1 /\ k + 1 \in 1 .. N + 1 /\ k < k + 1
    BY <1>1
  <2>2. start[k] \in 1 .. L + 1 /\ start[k + 1] \in 1 .. L + 1 /\ start[k] < start[k + 1]
    BY <1>2, <2>1
  <2>3. start[k + 1] = start[k] + Shortest(text[k])
    BY <1>2
  <2> QED
    BY <1>1, <2>2, <2>3
<1>5. \A k \in 1 .. N : bytes[start[k]] \notin Continuation
  <2> SUFFICES ASSUME NEW k \in 1 .. N PROVE bytes[start[k]] \notin Continuation
    OBVIOUS
  <2> DEFINE c == text[k]
             b == bytes[start[k]]
  <2>1. IsCode(c, bytes, start[k]) /\ c \in Unit /\ c \in Nat
    BY <1>1, <1>2, Ranges
  <2>2. c < 128 => b = c
    BY <2>1 DEF IsCode
  <2>3. c \in 128 .. 2047 => b = 192 + c \div 64
    BY <2>1 DEF IsCode
  <2>4. c >= 2048 => b = 224 + c \div 4096
    BY <2>1 DEF IsCode
  <2> HIDE DEF b, c
  <2>5. \A x \in Continuation : x >= 128 /\ x < 192
    BY DEF Continuation
  <2>6. CASE c < 128
    BY <2>1, <2>2, <2>5, <2>6 DEF b
  <2>7. CASE c \in 128 .. 2047
    <3>1. ~(b < 192)
      BY <2>1, <2>3, <2>7
    <3> QED
      BY <2>5, <3>1 DEF b
  <2>8. CASE c >= 2048
    <3>1. ~(b < 192)
      BY <2>1, <2>4, <2>8
    <3> QED
      BY <2>5, <3>1 DEF b
  <2> QED
    BY <2>1, <2>6, <2>7, <2>8
<1>6. f \in [DOMAIN text -> Begins]
  BY <1>1, <1>4, <1>5 DEF f, Begins, L
<1>7. \A j, k \in DOMAIN text : j < k => f[j] < f[k]
  <2>1. \A k \in 1 .. N : k \in 1 .. N + 1
    BY <1>1
  <2> QED
    BY <1>1, <1>2, <1>3, <2>1
<1>8. {f[k] : k \in DOMAIN text} = Begins
  <2>1. \A k \in DOMAIN text : f[k] \in Begins
    BY <1>6
  <2>2. \A p \in Begins : \E k \in DOMAIN text : f[k] = p
    BY <1>1, <1>2, <1>3 DEF Begins, L
  <2> QED
    BY <2>1, <2>2
<1>9. ASSUME NEW k \in DOMAIN text
      PROVE  LET character == SubSeq(bytes, f[k], EndOf(f, k))
             IN  /\ Len(character) = Shortest(text[k])
                 /\ Scalar(character) = text[k]
  <2> SUFFICES /\ Len(SubSeq(bytes, f[k], EndOf(f, k))) = Shortest(text[k])
               /\ Scalar(SubSeq(bytes, f[k], EndOf(f, k))) = text[k]
    OBVIOUS
  <2> DEFINE c == text[k]
             b == start[k]
             piece == SubSeq(bytes, b, b + Shortest(c) - 1)
  <2>1. k \in 1 .. N /\ c \in Unit /\ c \in Nat /\ f[k] = b /\ b \in 1 .. L
    BY <1>1, <1>3, <1>4, <1>9, Ranges
  <2>2. EndOf(f, k) = b + Shortest(c) - 1
    <3>1. start[k + 1] = b + Shortest(c)
      BY <1>2, <2>1
    <3>2. Shortest(c) \in Nat
      BY DEF Shortest
    <3>3. CASE k = N
      <4>1. EndOf(f, k) = L
        BY <3>3 DEF EndOf, N, L
      <4>2. b + Shortest(c) = L + 1
        BY <1>2, <3>1, <3>3
      <4> HIDE DEF b, c
      <4> QED
        BY <1>1, <2>1, <3>2, <4>1, <4>2
    <3>4. CASE k # N
      <4>1. k + 1 \in 1 .. N
        BY <1>1, <2>1, <3>4
      <4>2. EndOf(f, k) = start[k + 1] - 1
        BY <1>3, <3>4, <4>1 DEF EndOf, N
      <4> HIDE DEF b, c
      <4> QED
        BY <2>1, <3>1, <3>2, <4>2
    <3> QED
      BY <3>3, <3>4
  <2>3. b + Shortest(c) - 1 <= L /\ IsCode(c, bytes, b)
    <3>1. Shortest(c) \in {1, 2, 3}
      BY DEF Shortest
    <3> QED
      BY <1>1, <1>2, <1>4, <2>1, <3>1
  <2> HIDE DEF c, b
  <2>4. \A m, n \in Nat : m >= 1 /\ m <= n /\ n <= L
            => /\ Len(SubSeq(bytes, m, n)) = n - m + 1
               /\ \A q \in 1 .. n - m + 1 : SubSeq(bytes, m, n)[q] = bytes[m + q - 1]
    <3> SUFFICES ASSUME NEW m \in Nat, NEW n \in Nat, m >= 1, m <= n, n <= L
                 PROVE  /\ Len(SubSeq(bytes, m, n)) = n - m + 1
                        /\ \A q \in 1 .. n - m + 1 : SubSeq(bytes, m, n)[q] = bytes[m + q - 1]
      OBVIOUS
    <3>1. \A q \in m .. n : bytes[q] \in Byte
      <4>1. \A q \in m .. n : q \in 1 .. L
        BY <1>1
      <4> QED
        BY <4>1, ElementOfSeq DEF TypeOK, L
    <3> QED
      BY <3>1, SubSeqProperties
  <2>5. CASE c < 128
    <3>1. Shortest(c) = 1 /\ b + Shortest(c) - 1 = b /\ bytes[b] = c
      BY <1>1, <2>1, <2>3, <2>5, ShortestIs DEF IsCode
    <3>2. Len(piece) = 1 /\ piece[1] = c
      BY <1>1, <2>1, <2>4, <3>1
    <3> QED
      BY <2>1, <2>2, <3>1, <3>2 DEF Scalar, c
  <2>6. CASE c \in 128 .. 2047
    <3>1. /\ Shortest(c) = 2 /\ b + Shortest(c) - 1 = b + 1
          /\ bytes[b] = 192 + c \div 64 /\ bytes[b + 1] = 128 + (c % 64)
      BY <1>1, <2>1, <2>3, <2>6, ShortestIs DEF IsCode
    <3>2. Len(piece) = 2 /\ piece[1] = bytes[b] /\ piece[2] = bytes[b + 1]
      BY <1>1, <2>1, <2>3, <2>4, <3>1
    <3>3. (piece[1] - 192) * 64 + (piece[2] - 128) = c
      BY <2>1, <2>6, <3>1, <3>2, CodesAndUnits
    <3> HIDE DEF piece
    <3>4. Scalar(piece) = c
      BY <3>2, <3>3 DEF Scalar
    <3> QED
      BY <2>1, <2>2, <3>1, <3>2, <3>4 DEF c, piece
  <2>7. CASE c >= 2048
    <3>1. /\ Shortest(c) = 3 /\ b + Shortest(c) - 1 = b + 2
          /\ bytes[b] = 224 + c \div 4096 /\ bytes[b + 1] = 128 + ((c \div 64) % 64)
          /\ bytes[b + 2] = 128 + (c % 64)
      BY <1>1, <2>1, <2>3, <2>7, ShortestIs DEF IsCode
    <3>2. /\ Len(piece) = 3
          /\ piece[1] = bytes[b] /\ piece[2] = bytes[b + 1]
          /\ piece[3] = bytes[b + 2]
      BY <1>1, <2>1, <2>3, <2>4, <3>1
    <3> HIDE DEF piece
    <3>3. (piece[1] - 224) * 4096 + (piece[2] - 128) * 64 + (piece[3] - 128) = c
      BY <2>1, <2>7, <3>1, <3>2, CodesAndUnits
    <3>4. Scalar(piece) = c
      BY <3>2, <3>3 DEF Scalar
    <3> QED
      BY <2>1, <2>2, <3>1, <3>2, <3>4 DEF c, piece
  <2>8. c < 128 \/ c \in 128 .. 2047 \/ c >= 2048
    BY <2>1
  <2> DEFINE Right == /\ Len(SubSeq(bytes, f[k], EndOf(f, k))) = Shortest(text[k])
                      /\ Scalar(SubSeq(bytes, f[k], EndOf(f, k))) = text[k]
  <2>9. /\ c < 128 => Right
        /\ c \in 128 .. 2047 => Right
        /\ c >= 2048 => Right
    BY <2>5, <2>6, <2>7
  <2> HIDE DEF Right
  <2>10. Right
    BY <2>1, <2>8, <2>9
  <2> QED
    BY <2>10 DEF Right
<1>10. IsUtf8By(f)
  BY <1>7, <1>8, <1>9 DEF IsUtf8By
<1> QED
  BY <1>6, <1>10 DEF IsUtf8

\* A text of any length without surrogates becomes UTF-8 whose k-th character is
\* the shortest that stands for its k-th unit, and decoding gives it back.
THEOREM TextsGoRound == Spec => []RoundTrip
<1>1. UInv /\ RoundInv => RoundTrip
  <2> SUFFICES ASSUME UInv, RoundInv, pc = "done", Plain PROVE IsUtf8 /\ units = text
    BY DEF RoundTrip
  <2>1. PICK start : /\ EncodedTo(start, Len(text), text, bytes)
                     /\ \E n \in 0 .. Len(text) : DecodedTo(start, n)
    BY DEF RoundInv
  <2>2. IsUtf8
    BY <2>1, CodesAreUtf8 DEF UInv
  <2>3. PICK n \in 0 .. Len(text) : DecodedTo(start, n)
    BY <2>1
  <2>4. /\ text \in Seq(Unit) /\ units \in Seq(Unit) /\ Len(text) \in Nat
        /\ Len(bytes) \in Nat /\ i = Len(bytes)
    BY DEF UInv, TypeOK, AlignedInv
  <2>5. n = Len(text)
    <3>1. /\ n + 1 \in 1 .. Len(text) + 1 /\ Len(text) + 1 \in 1 .. Len(text) + 1
          /\ n + 1 < Len(text) + 1 \/ n = Len(text)
      BY <2>4
    <3>2. /\ n + 1 < Len(text) + 1 => start[n + 1] < start[Len(text) + 1]
          /\ start[Len(text) + 1] = Len(bytes) + 1
          /\ start[n + 1] \in 1 .. Len(bytes) + 1
      BY <2>1, <3>1 DEF EncodedTo
    <3>3. start[n + 1] = Len(bytes) + 1
      BY <2>3, <2>4, <3>2 DEF DecodedTo
    <3> QED
      BY <2>4, <3>1, <3>2, <3>3
  <2>6. Len(units) = Len(text) /\ \A k \in 1 .. Len(text) : units[k] = text[k]
    BY <2>3, <2>5 DEF DecodedTo
  <2>7. units = text
    BY <2>4, <2>6, SeqEqual
  <2> QED
    BY <2>2, <2>7
<1> QED
  BY <1>1, RoundInvariant, PTL

-----------------------------------------------------------------------------
(* getLinesFromFile. *)

\* The lines made so far are those of the first m characters of the buffer.
SplitTo(ends, ls, s, m) ==
    /\ ends \in [DOMAIN ls -> 1 .. m]
    /\ \A j, k \in DOMAIN ls : j < k => ends[j] < ends[k]
    /\ {ends[k] : k \in DOMAIN ls} = {p \in 1 .. m : s[p] = NL}
    /\ \A k \in DOMAIN ls : ls[k] = SubSeq(s, BeforeLine(ends, k) + 1, ends[k] - 1)

LinesTypeInv ==
    /\ linesPc \in {"open", "split", "done", "crashed"}
    /\ file \in Seq(Characters) /\ buffer \in Seq(Characters)
    /\ lines \in Seq(Seq(Characters))
    /\ index \in Nat /\ past_index \in Nat
    /\ readAll \in BOOLEAN

IndexInv ==
    /\ past_index <= index /\ index <= Len(buffer)
    /\ linesPc = "open" => buffer = <<>>
    /\ linesPc = "done" => index = Len(buffer)
    /\ linesPc \in {"split", "done"} /\ readAll => buffer = file
    /\ linesPc \in {"open", "crashed"} => ~readAll

SplitInv ==
    \E ends : /\ SplitTo(ends, lines, buffer, index)
              /\ past_index = BeforeLine(ends, Len(lines) + 1)

LinesInv == LinesTypeInv /\ IndexInv /\ SplitInv

LEMMA NothingIsSplit ==
    ASSUME NEW s
    PROVE  \E ends : SplitTo(ends, <<>>, s, 0) /\ BeforeLine(ends, Len(<<>>) + 1) = 0
<1> DEFINE ends == [k \in {} |-> 0]
<1>1. DOMAIN <<>> = {} /\ Len(<<>>) = 0 /\ 1 .. 0 = {}
  OBVIOUS
<1>2. ends \in [{} -> 1 .. 0]
  OBVIOUS
<1> HIDE DEF ends
<1>3. {ends[k] : k \in {}} = {}
  OBVIOUS
<1>4. {p \in 1 .. 0 : s[p] = NL} = {}
  BY <1>1
<1>5. SplitTo(ends, <<>>, s, 0)
  BY <1>1, <1>2, <1>3, <1>4 DEF SplitTo
<1>6. BeforeLine(ends, Len(<<>>) + 1) = 0
  BY <1>1 DEF BeforeLine
<1> QED
  BY <1>5, <1>6

\* A newline ends one more line, which begins behind the one before it.
LEMMA OneMoreLine ==
    ASSUME NEW ls \in Seq(Seq(Characters)), NEW s, NEW m \in Nat,
           NEW ends, SplitTo(ends, ls, s, m), s[m + 1] = NL,
           NEW line \in Seq(Characters),
           line = SubSeq(s, BeforeLine(ends, Len(ls) + 1) + 1, m)
    PROVE  \E g : /\ SplitTo(g, Append(ls, line), s, m + 1)
                  /\ BeforeLine(g, Len(Append(ls, line)) + 1) = m + 1
<1> DEFINE n == Len(ls)
           g == [k \in 1 .. n + 1 |-> IF k = n + 1 THEN m + 1 ELSE ends[k]]
           all == Append(ls, line)
<1>1. /\ n \in Nat /\ DOMAIN ls = 1 .. n
      /\ DOMAIN all = 1 .. n + 1 /\ Len(all) = n + 1
      /\ \A k \in 1 .. n : all[k] = ls[k]
      /\ all[n + 1] = line
  BY AppendProperties
<1>2. /\ ends \in [1 .. n -> 1 .. m]
      /\ \A j, k \in 1 .. n : j < k => ends[j] < ends[k]
      /\ {ends[k] : k \in 1 .. n} = {p \in 1 .. m : s[p] = NL}
      /\ \A k \in 1 .. n : ls[k] = SubSeq(s, BeforeLine(ends, k) + 1, ends[k] - 1)
  BY <1>1 DEF SplitTo
<1>3. g \in [1 .. n + 1 -> 1 .. m + 1]
  BY <1>1, <1>2
<1>4. /\ g[n + 1] = m + 1
      /\ \A k \in 1 .. n : g[k] = ends[k] /\ ends[k] \in 1 .. m
      /\ \A k \in 1 .. n + 1 : k \in 1 .. n \/ k = n + 1
  BY <1>1, <1>2
<1> HIDE DEF g, all
<1>5. \A j, k \in 1 .. n + 1 : j < k => g[j] < g[k]
  <2> SUFFICES ASSUME NEW j \in 1 .. n + 1, NEW k \in 1 .. n + 1, j < k PROVE g[j] < g[k]
    OBVIOUS
  <2>1. j \in 1 .. n
    BY <1>1
  <2>2. CASE k \in 1 .. n
    BY <1>2, <1>4, <2>1, <2>2
  <2>3. CASE k = n + 1
    <3>1. g[j] \in 1 .. m /\ g[k] = m + 1
      BY <1>4, <2>1, <2>3
    <3> QED
      BY <3>1
  <2> QED
    BY <1>4, <2>2, <2>3
<1>6. {g[k] : k \in 1 .. n + 1} = {ends[k] : k \in 1 .. n} \cup {m + 1}
  <2>1. 1 .. n + 1 = (1 .. n) \cup {n + 1}
    BY <1>1
  <2>2. {g[k] : k \in 1 .. n + 1} = {g[k] : k \in 1 .. n} \cup {g[n + 1]}
    BY <2>1
  <2> QED
    BY <1>4, <2>2
<1>7. {p \in 1 .. m + 1 : s[p] = NL} = {p \in 1 .. m : s[p] = NL} \cup {m + 1}
  OBVIOUS
<1>8. \A k \in 1 .. n + 1 : BeforeLine(g, k) = BeforeLine(ends, k)
  BY <1>1, <1>4 DEF BeforeLine
<1>9. \A k \in 1 .. n + 1 : all[k] = SubSeq(s, BeforeLine(g, k) + 1, g[k] - 1)
  <2> SUFFICES ASSUME NEW k \in 1 .. n + 1
               PROVE  all[k] = SubSeq(s, BeforeLine(g, k) + 1, g[k] - 1)
    OBVIOUS
  <2>1. CASE k \in 1 .. n
    BY <1>1, <1>2, <1>4, <1>8, <2>1
  <2>2. CASE k = n + 1
    <3>1. g[k] - 1 = m
      BY <1>4, <2>2
    <3> QED
      BY <1>1, <1>8, <2>2, <3>1
  <2> QED
    BY <1>4, <2>1, <2>2
<1>10. SplitTo(g, all, s, m + 1)
  BY <1>1, <1>2, <1>3, <1>5, <1>6, <1>7, <1>9 DEF SplitTo
<1>11. BeforeLine(g, Len(all) + 1) = m + 1
  BY <1>1, <1>4 DEF BeforeLine
<1> QED
  BY <1>10, <1>11 DEF all

\* A piece of a sequence has the elements of the sequence.
LEMMA PieceIsTyped ==
    ASSUME NEW S, NEW s \in Seq(S), NEW m \in Nat \ {0}, NEW n \in Nat, n <= Len(s)
    PROVE  SubSeq(s, m, n) \in Seq(S)
<1>1. \A k \in m .. n : s[k] \in S
  <2>1. \A k \in m .. n : k \in 1 .. Len(s)
    OBVIOUS
  <2> QED
    BY <2>1, ElementOfSeq
<1> QED
  BY <1>1, SubSeqProperties

LEMMA InitLinesInv == LinesInit => LinesInv
<1> SUFFICES ASSUME LinesInit PROVE LinesInv
  OBVIOUS
<1>1. \A S : <<>> \in Seq(S) /\ Len(<<>>) = 0
  OBVIOUS
<1>2. LinesTypeInv /\ IndexInv
  <2>1. file \in Seq(Characters) /\ <<>> \in Seq(Characters) /\ <<>> \in Seq(Seq(Characters))
    BY <1>1, LinesAssumption DEF LinesInit, LinesAssumption
  <2>2. Len(buffer) = 0
    BY <1>1 DEF LinesInit
  <2>3. LinesTypeInv
    BY <2>1 DEF LinesInit, LinesTypeInv
  <2>4. IndexInv
    BY <2>2 DEF LinesInit, IndexInv
  <2> QED
    BY <2>3, <2>4
<1>3. SplitInv
  BY NothingIsSplit DEF LinesInit, SplitInv
<1> QED
  BY <1>2, <1>3 DEF LinesInv

LEMMA OpeningKeepsLinesInv ==
    ASSUME LinesInv, NothingToRead \/ SeekFails \/ Read
    PROVE  LinesInv'
<1>1. /\ LinesTypeInv /\ linesPc = "open" /\ buffer = <<>> /\ index = 0 /\ past_index = 0
      /\ SplitInv /\ ~readAll
      /\ UNCHANGED <<file, index, past_index, lines>>
  BY DEF LinesInv, LinesTypeInv, IndexInv, NothingToRead, SeekFails, Read
<1>2. CASE NothingToRead \/ SeekFails
  <2>1. UNCHANGED buffer /\ linesPc' \in {"done", "crashed"} /\ readAll' \in BOOLEAN
        /\ (linesPc' = "done" /\ readAll' => file = <<>>)
        /\ (linesPc' = "crashed" => ~readAll')
    <3>1. CASE NothingToRead
      BY <3>1 DEF NothingToRead
    <3>2. CASE SeekFails
      BY <1>1, <3>2 DEF SeekFails, LinesTypeInv
    <3> QED
      BY <1>2, <3>1, <3>2
  <2>2. Len(buffer) = 0
    BY <1>1
  <2> QED
    BY <1>1, <2>1, <2>2 DEF LinesInv, LinesTypeInv, IndexInv, SplitInv
<1>3. CASE Read
  <2>1. PICK n \in 0 .. Len(file) :
            /\ buffer' \in {b \in [1 .. Len(file) -> Characters] : \A k \in 1 .. n : b[k] = file[k]}
            /\ readAll' = (n = Len(file))
    BY <1>3 DEF Read
  <2>2. Len(file) \in Nat /\ DOMAIN file = 1 .. Len(file) /\ file \in Seq(Characters)
    BY <1>1 DEF LinesTypeInv
  <2>3. buffer' \in Seq(Characters) /\ Len(buffer') = Len(file) /\ DOMAIN buffer' = 1 .. Len(file)
    <3>1. buffer' \in [1 .. Len(file) -> Characters]
      BY <2>1
    <3>2. \A S : \A l \in Nat : \A b \in [1 .. l -> S] : b \in Seq(S) /\ Len(b) = l /\ DOMAIN b = 1 .. l
      OBVIOUS
    <3> QED
      BY <2>2, <3>1, <3>2
  <2>4. readAll' => buffer' = file
    <3> SUFFICES ASSUME readAll' PROVE buffer' = file
      OBVIOUS
    <3>1. \A k \in 1 .. Len(file) : buffer'[k] = file[k]
      BY <2>1
    <3> QED
      BY <2>2, <2>3, <3>1, SeqEqual
  <2>5. linesPc' = "split" /\ readAll' \in BOOLEAN
    BY <1>3, <2>1 DEF Read
  <2>6. lines = <<>>
    BY <1>1 DEF SplitInv, SplitTo, LinesTypeInv
  <2>7. SplitInv'
    BY <1>1, <2>6, NothingIsSplit DEF SplitInv
  <2> QED
    BY <1>1, <2>2, <2>3, <2>4, <2>5, <2>7 DEF LinesInv, LinesTypeInv, IndexInv
<1> QED
  BY <1>2, <1>3

LEMMA NewlineKeepsLinesInv == ASSUME LinesInv, Newline PROVE LinesInv'
<1>1. /\ LinesTypeInv /\ IndexInv /\ SplitInv
      /\ linesPc = "split" /\ index < Len(buffer) /\ buffer[index + 1] = NL
      /\ lines' = Append(lines, Line) /\ past_index' = index + 1 /\ index' = index + 1
      /\ UNCHANGED <<linesPc, file, buffer, readAll>>
  BY DEF LinesInv, Newline, NextLine, fs
<1>2. PICK ends : /\ SplitTo(ends, lines, buffer, index)
                  /\ past_index = BeforeLine(ends, Len(lines) + 1)
  BY <1>1 DEF SplitInv
<1>3. /\ index \in Nat /\ past_index \in Nat /\ Len(buffer) \in Nat
      /\ buffer \in Seq(Characters) /\ lines \in Seq(Seq(Characters))
  BY <1>1 DEF LinesTypeInv
<1>4. Line \in Seq(Characters)
  BY <1>1, <1>3, PieceIsTyped DEF Line
<1>5. Append(lines, Line) \in Seq(Seq(Characters))
  BY <1>3, <1>4, AppendProperties
<1>6. LinesTypeInv' /\ IndexInv'
  BY <1>1, <1>3, <1>5 DEF LinesTypeInv, IndexInv
<1>7. SplitInv'
  <2>1. Line = SubSeq(buffer, BeforeLine(ends, Len(lines) + 1) + 1, index)
    BY <1>2 DEF Line
  <2>2. PICK g : /\ SplitTo(g, Append(lines, Line), buffer, index + 1)
                 /\ BeforeLine(g, Len(Append(lines, Line)) + 1) = index + 1
    BY <1>1, <1>2, <1>3, <1>4, <2>1, OneMoreLine
  <2> QED
    BY <1>1, <2>2 DEF SplitInv
<1> QED
  BY <1>6, <1>7 DEF LinesInv

LEMMA OtherCharacterKeepsLinesInv == ASSUME LinesInv, OtherCharacter PROVE LinesInv'
<1>1. /\ LinesTypeInv /\ IndexInv /\ SplitInv
      /\ linesPc = "split" /\ index < Len(buffer) /\ buffer[index + 1] # NL
      /\ index' = index + 1
      /\ UNCHANGED <<linesPc, file, buffer, past_index, lines, readAll>>
  BY DEF LinesInv, OtherCharacter, fs
<1>2. PICK ends : /\ SplitTo(ends, lines, buffer, index)
                  /\ past_index = BeforeLine(ends, Len(lines) + 1)
  BY <1>1 DEF SplitInv
<1>3. index \in Nat /\ past_index \in Nat /\ Len(buffer) \in Nat
  BY <1>1 DEF LinesTypeInv
<1>4. {p \in 1 .. index + 1 : buffer[p] = NL} = {p \in 1 .. index : buffer[p] = NL}
  BY <1>1, <1>3
<1>5. ends \in [DOMAIN lines -> 1 .. index + 1]
  BY <1>2, <1>3 DEF SplitTo
<1>6. SplitTo(ends, lines, buffer, index + 1)
  BY <1>2, <1>4, <1>5 DEF SplitTo
<1> QED
  BY <1>1, <1>2, <1>3, <1>6 DEF LinesInv, LinesTypeInv, IndexInv, SplitInv

LEMMA NextLinesInv == LinesInv /\ [LinesNext]_linesVars => LinesInv'
<1> SUFFICES ASSUME LinesInv, [LinesNext]_linesVars PROVE LinesInv'
  OBVIOUS
<1>1. CASE Return
  BY <1>1 DEF Return, fs, LinesInv, LinesTypeInv, IndexInv, SplitInv
<1>2. CASE UNCHANGED linesVars
  BY <1>2 DEF linesVars, LinesInv, LinesTypeInv, IndexInv, SplitInv
<1> QED
  BY <1>1, <1>2, OpeningKeepsLinesInv, NewlineKeepsLinesInv, OtherCharacterKeepsLinesInv
  DEF LinesNext, LinesTerminated

LEMMA LinesInvariant == LinesSpec => []LinesInv
BY InitLinesInv, NextLinesInv, PTL DEF LinesSpec

LEMMA LastOrBefore ==
    \A n \in Nat : /\ \A k \in 1 .. n : k = n \/ (k < n /\ k \in 1 .. n - 1)
                   /\ n >= 1 => n - 1 \in Nat
OBVIOUS

\* What stands behind the first a characters, up to the b-th.
LEMMA PartIs ==
    ASSUME NEW S, NEW w \in Seq(S), NEW a \in Nat, NEW b \in Nat, a <= b, b <= Len(w)
    PROVE  /\ SubSeq(w, a + 1, b) \in Seq(S) /\ Len(SubSeq(w, a + 1, b)) = b - a
           /\ DOMAIN SubSeq(w, a + 1, b) = 1 .. b - a
           /\ \A p \in 1 .. b - a : SubSeq(w, a + 1, b)[p] = w[a + p]
<1>1. /\ a + 1 \in Int /\ b \in Int /\ Len(w) \in Nat
      /\ \A p \in a + 1 .. b : w[p] \in S
  BY LenProperties, ElementOfSeq
<1>2. /\ SubSeq(w, a + 1, b) \in Seq(S)
      /\ Len(SubSeq(w, a + 1, b)) = IF a + 1 <= b THEN b - (a + 1) + 1 ELSE 0
      /\ \A p \in 1 .. b - (a + 1) + 1 : SubSeq(w, a + 1, b)[p] = w[a + 1 + p - 1]
  BY <1>1, SubSeqProperties
<1>3. PICK part \in Seq(S) : part = SubSeq(w, a + 1, b)
  BY <1>2
<1>4. b - (a + 1) + 1 = b - a /\ \A p \in 1 .. b - a : a + 1 + p - 1 = a + p
  OBVIOUS
<1>5. Len(part) = b - a
  BY <1>2, <1>3
<1>6. DOMAIN part = 1 .. b - a
  BY <1>5, LenProperties
<1> QED
  BY <1>2, <1>3, <1>4, <1>5, <1>6


\* The lines of a text that ends with a newline are those of any part of it up
\* to its last line, and one more.
LEMMA AppendedLineFollows ==
    ASSUME NEW whole \in Seq(Characters), lines \in Seq(Seq(Characters)),
           AreLinesOf(lines, whole)
    PROVE  AppendedLine(whole)
<1> DEFINE L == Len(whole)
           N == Len(lines)
<1>1. PICK ends : IsSplit(ends, lines, whole)
  BY DEF AreLinesOf
<1>2. /\ L \in Nat /\ N \in Nat /\ DOMAIN whole = 1 .. L /\ DOMAIN lines = 1 .. N
      /\ \A p \in 1 .. L : whole[p] \in Characters
      /\ L = Len(whole) /\ N = Len(lines)
  BY ElementOfSeq
<1>3. /\ ends \in [1 .. N -> Newlines(whole)]
      /\ \A j, k \in 1 .. N : j < k => ends[j] < ends[k]
      /\ {ends[k] : k \in 1 .. N} = Newlines(whole)
      /\ \A k \in 1 .. N : lines[k] = SubSeq(whole, BeforeLine(ends, k) + 1, ends[k] - 1)
  BY <1>1, <1>2 DEF IsSplit
<1> SUFFICES ASSUME NEW n \in 0 .. L - 1,
                    whole[L] = NL, Newlines(SubSeq(whole, n + 1, L - 1)) = {}
             PROVE  /\ lines # <<>>
                    /\ AreLinesOf(SubSeq(lines, 1, N - 1), SubSeq(whole, 1, n))
                    /\ lines[N] = Rest(SubSeq(whole, 1, n)) \o SubSeq(whole, n + 1, L - 1)
  BY DEF AppendedLine
<1> HIDE DEF L, N
<1> DEFINE old   == SubSeq(whole, 1, n)
           added == SubSeq(whole, n + 1, L - 1)
           front == SubSeq(lines, 1, N - 1)
<1>4. old \in Seq(Characters) /\ Len(old) = n /\ DOMAIN old = 1 .. n
      /\ \A p \in 1 .. n : old[p] = whole[p]
  <2>1. 0 \in Nat /\ n \in Nat /\ 0 <= n /\ n <= Len(whole)
    BY <1>2
  <2>2. 0 + 1 = 1 /\ n - 0 = n /\ \A p \in 1 .. n : 0 + p = p
    BY <2>1
  <2> HIDE DEF old
  <2>3. /\ SubSeq(whole, 0 + 1, n) \in Seq(Characters) /\ Len(SubSeq(whole, 0 + 1, n)) = n - 0
        /\ DOMAIN SubSeq(whole, 0 + 1, n) = 1 .. n - 0
        /\ \A p \in 1 .. n - 0 : SubSeq(whole, 0 + 1, n)[p] = whole[0 + p]
    BY <2>1, PartIs
  <2> QED
    BY <2>2, <2>3 DEF old
<1>5. /\ DOMAIN added = 1 .. L - 1 - n
      /\ \A p \in 1 .. L - 1 - n : added[p] = whole[n + p]
  <2>1. n \in Nat /\ L - 1 \in Nat /\ n <= L - 1 /\ L - 1 <= Len(whole)
    BY <1>2
  <2> QED
    BY <2>1, PartIs
<1> HIDE DEF old, added
<1>6. \A p \in n + 1 .. L - 1 : whole[p] # NL
  <2> SUFFICES ASSUME NEW p \in n + 1 .. L - 1, whole[p] = NL PROVE FALSE
    OBVIOUS
  <2>1. p - n \in 1 .. L - 1 - n /\ n + (p - n) = p
    BY <1>2
  <2>2. p - n \in Newlines(added)
    BY <1>5, <2>1 DEF Newlines
  <2> QED
    BY <2>2 DEF added
<1>7. /\ L \in Newlines(whole)
      /\ \A p \in Newlines(whole) : p = L \/ p \in Newlines(old)
      /\ Newlines(old) \subseteq Newlines(whole)
      /\ Newlines(old) \subseteq 1 .. n
      /\ Newlines(whole) \subseteq 1 .. L
  BY <1>2, <1>4, <1>6 DEF Newlines
<1>8. N >= 1 /\ ends[N] = L
  <2>1. PICK k \in 1 .. N : ends[k] = L
    BY <1>3, <1>7
  <2>2. N \in 1 .. N /\ ends[N] \in 1 .. L
    BY <1>2, <1>3, <1>7, <2>1
  <2>3. k < N => ends[k] < ends[N]
    BY <1>3, <2>1, <2>2
  <2>4. k = N
    <3>1. ~(k < N)
      <4>1. k < N => L < ends[N]
        BY <2>1, <2>3
      <4> QED
        BY <1>2, <2>2, <4>1
    <3> QED
      BY <1>2, <2>1, <3>1, LastOrBefore
  <2> QED
    BY <1>2, <2>1, <2>4
<1>9. \A k \in 1 .. N - 1 : k \in 1 .. N /\ ends[k] < L /\ ends[k] \in Newlines(old)
  <2> SUFFICES ASSUME NEW k \in 1 .. N - 1
               PROVE  k \in 1 .. N /\ ends[k] < L /\ ends[k] \in Newlines(old)
    OBVIOUS
  <2>1. k \in 1 .. N /\ N \in 1 .. N /\ k < N
    BY <1>2, <1>8
  <2>2. ends[k] < L /\ ends[k] \in Newlines(whole)
    BY <1>3, <1>8, <2>1
  <2> QED
    BY <1>7, <2>1, <2>2
<1>10. \A q \in Newlines(old) : \E k \in 1 .. N - 1 : q = ends[k]
  <2> SUFFICES ASSUME NEW q \in Newlines(old) PROVE \E k \in 1 .. N - 1 : q = ends[k]
    OBVIOUS
  <2>1. q \in 1 .. n /\ q \in Newlines(whole)
    BY <1>7
  <2>2. PICK k \in 1 .. N : q = ends[k]
    BY <1>3, <2>1
  <2>3. k # N
    BY <1>8, <2>1, <2>2
  <2> QED
    BY <1>2, <2>2, <2>3, LastOrBefore
<1>11. lines # <<>>
  BY <1>2, <1>8
<1>12. /\ front \in Seq(Seq(Characters)) /\ DOMAIN front = 1 .. N - 1
       /\ \A k \in 1 .. N - 1 : front[k] = lines[k]
  <2>1. \A k \in 1 .. N - 1 : lines[k] \in Seq(Characters)
    BY <1>2, ElementOfSeq
  <2>2. /\ SubSeq(lines, 1, N - 1) \in Seq(Seq(Characters))
        /\ Len(SubSeq(lines, 1, N - 1)) = N - 1
        /\ \A k \in 1 .. N - 1 : SubSeq(lines, 1, N - 1)[k] = lines[k]
    BY <1>2, <1>8, <2>1, SubSeqProperties
  <2> QED
    BY <2>2
<1> HIDE DEF front
<1> DEFINE B == BeforeLine(ends, N)
           f == [k \in 1 .. N - 1 |-> ends[k]]
<1>13. B \in 0 .. n /\ B \in Newlines(old) \cup {0} /\ \A q \in Newlines(old) : q <= B
  <2>1. CASE N = 1
    <3>1. B = 0 /\ Newlines(old) = {}
      BY <1>10, <2>1 DEF BeforeLine
    <3> QED
      BY <3>1
  <2>2. CASE N # 1
    <3>1. N - 1 \in 1 .. N - 1 /\ B = ends[N - 1] /\ N - 1 \in 1 .. N
      BY <1>2, <1>8, <2>2 DEF BeforeLine
    <3>2. B \in Newlines(old) /\ B \in 1 .. n
      BY <1>7, <1>9, <3>1
    <3>3. \A k \in 1 .. N - 1 : k = N - 1 \/ ends[k] < ends[N - 1]
      <4> SUFFICES ASSUME NEW k \in 1 .. N - 1, k # N - 1 PROVE ends[k] < ends[N - 1]
        OBVIOUS
      <4>1. k \in 1 .. N /\ k < N - 1
        <5>1. N - 1 \in Nat
          BY <1>2, <1>8, LastOrBefore
        <5> QED
          BY <1>9, <5>1, LastOrBefore
      <4> QED
        BY <1>3, <3>1, <4>1
    <3>4. \A q \in Newlines(old) : q = B \/ q < B
      BY <1>10, <3>1, <3>3
    <3> QED
      BY <1>7, <3>2, <3>4
  <2> QED
    BY <2>1, <2>2
<1>14. LastNewline(old) = B
  <2>1. \A p \in Newlines(old) \cup {0} : (\A q \in Newlines(old) : q <= p) => p = B
    BY <1>7, <1>13
  <2> HIDE DEF B
  <2> QED
    BY <1>13, <2>1 DEF LastNewline
<1>15. lines[N] = Rest(old) \o added
  <2>1. lines[N] = SubSeq(whole, B + 1, L - 1)
    <3>1. N \in 1 .. N
      BY <1>2, <1>8
    <3> QED
      BY <1>3, <1>8, <3>1
  <2>2. Rest(old) = SubSeq(old, B + 1, n)
    BY <1>4, <1>14 DEF Rest
  <2> HIDE DEF B
  <2>3. SubSeq(old, B + 1, n) = SubSeq(whole, B + 1, n)
    <3>1. CASE B = n
      BY <1>2, <3>1, SubSeqEmpty
    <3>2. CASE B < n
      <4>1. /\ 1 \in 1 .. Len(whole) /\ n \in 1 .. Len(whole)
            /\ B + 1 \in 1 .. n - 1 + 1 /\ n \in 1 .. n - 1 + 1
        BY <1>2, <1>13, <3>2
      <4> QED
        BY <4>1, <1>13, SubSeqOfSubSeq DEF old
    <3> QED
      BY <1>13, <3>1, <3>2
  <2>4. SubSeq(whole, B + 1, n) \o SubSeq(whole, n + 1, L - 1) = SubSeq(whole, B + 1, L - 1)
    <3>1. /\ B + 1 \in 1 .. Len(whole) + 1 /\ n \in (B + 1) - 1 .. Len(whole)
          /\ L - 1 \in n .. Len(whole)
      BY <1>2, <1>13
    <3> QED
      BY <3>1, ConcatAdjacentSubSeq
  <2> QED
    BY <2>1, <2>2, <2>3, <2>4 DEF added
<1>16. AreLinesOf(front, old)
  <2>1. f \in [1 .. N - 1 -> Newlines(old)] /\ \A k \in 1 .. N - 1 : f[k] = ends[k]
    BY <1>9
  <2> HIDE DEF f
  <2>2. \A j, k \in 1 .. N - 1 : j < k => f[j] < f[k]
    BY <1>3, <1>9, <2>1
  <2>3. {f[k] : k \in 1 .. N - 1} = Newlines(old)
    BY <1>9, <1>10, <2>1
  <2>4. \A k \in 1 .. N - 1 : front[k] = SubSeq(old, BeforeLine(f, k) + 1, f[k] - 1)
    <3> SUFFICES ASSUME NEW k \in 1 .. N - 1
                 PROVE  front[k] = SubSeq(old, BeforeLine(f, k) + 1, f[k] - 1)
      OBVIOUS
    <3> DEFINE b == BeforeLine(ends, k)
               e == ends[k]
    <3>1. front[k] = SubSeq(whole, b + 1, e - 1)
      BY <1>3, <1>9, <1>12
    <3>2. e \in 1 .. n
      BY <1>7, <1>9
    <3>3. b \in 0 .. n /\ BeforeLine(f, k) = b
      <4>1. CASE k = 1
        BY <1>2, <4>1 DEF BeforeLine
      <4>2. CASE k # 1
        <5>1. k - 1 \in 1 .. N - 1
          BY <1>2, <4>2
        <5>2. ends[k - 1] \in 1 .. n
          BY <1>7, <1>9, <5>1
        <5> QED
          BY <1>2, <2>1, <4>2, <5>1, <5>2 DEF BeforeLine
      <4> QED
        BY <4>1, <4>2
    <3> HIDE DEF b, e
    <3>4. SubSeq(old, b + 1, e - 1) = SubSeq(whole, b + 1, e - 1)
      <4>1. CASE e - 1 < b + 1
        BY <3>2, <3>3, <4>1, SubSeqEmpty
      <4>2. CASE ~(e - 1 < b + 1)
        <5>1. /\ 1 \in 1 .. Len(whole) /\ n \in 1 .. Len(whole)
              /\ b + 1 \in 1 .. n - 1 + 1 /\ e - 1 \in 1 .. n - 1 + 1
          BY <1>2, <3>2, <3>3, <4>2
        <5> QED
          BY <3>2, <3>3, <5>1, SubSeqOfSubSeq DEF old
      <4> QED
        BY <4>1, <4>2
    <3> QED
      BY <2>1, <3>1, <3>3, <3>4 DEF e
  <2>5. IsSplit(f, front, old)
    BY <1>12, <2>1, <2>2, <2>3, <2>4 DEF IsSplit
  <2> QED
    BY <1>12, <2>1, <2>5 DEF AreLinesOf
<1> QED
  BY <1>11, <1>15, <1>16 DEF old, added, front

\* The lines are cut out of the buffer at exactly its newlines, for a file of any
\* length, however much of it the read brought; and if it brought everything, a
\* line that is appended continues what follows the last newline.
THEOREM LinesAreCut == LinesSpec => []LinesOfBuffer
<1>1. LinesInv => LinesOfBuffer
  <2> SUFFICES ASSUME LinesInv PROVE LinesOfBuffer
    OBVIOUS
  <2>1. LinesTypeInv /\ IndexInv /\ SplitInv
    BY DEF LinesInv
  <2>2. past_index <= index /\ index <= fs
    BY <2>1 DEF IndexInv, fs
  <2>3. linesPc = "done" => AreLinesOf(lines, buffer)
    <3> SUFFICES ASSUME linesPc = "done" PROVE AreLinesOf(lines, buffer)
      OBVIOUS
    <3>1. PICK ends : SplitTo(ends, lines, buffer, index)
      BY <2>1 DEF SplitInv
    <3>2. index = Len(buffer) /\ DOMAIN buffer = 1 .. Len(buffer)
      BY <2>1 DEF IndexInv, LinesTypeInv
    <3>3. {p \in 1 .. index : buffer[p] = NL} = Newlines(buffer)
      BY <3>2 DEF Newlines
    <3>4. \A k \in DOMAIN lines : ends[k] \in Newlines(buffer)
      BY <3>1, <3>3 DEF SplitTo
    <3>5. ends \in [DOMAIN lines -> Newlines(buffer)]
      BY <3>1, <3>4 DEF SplitTo
    <3>6. IsSplit(ends, lines, buffer)
      BY <3>1, <3>3, <3>5 DEF SplitTo, IsSplit
    <3> QED
      BY <3>5, <3>6 DEF AreLinesOf
  <2>4. linesPc = "done" /\ readAll => buffer = file /\ AppendedLine(file)
    BY <2>1, <2>3, AppendedLineFollows DEF IndexInv, LinesTypeInv
  <2> QED
    BY <2>2, <2>3, <2>4 DEF LinesOfBuffer
<1> QED
  BY <1>1, LinesInvariant, PTL
=============================================================================
