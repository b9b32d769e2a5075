---------------------------- MODULE FeedppProofs -----------------------------
(***************************************************************************)
(* What the parsers find is what the document holds, for any documents,    *)
(* items and entries: each loop over children carries what it has found    *)
(* among the children before the next one.                                 *)
(***************************************************************************)
EXTENDS FeedItem, FeedParser, SequenceTheorems, WellFoundedInduction, TLAPS

-----------------------------------------------------------------------------
(* Sequences and sets of positions. *)

\* A greatest element is the one Max chooses.
LEMMA MaxIs ==
    ASSUME NEW S \in SUBSET Nat, NEW m \in S, \A i \in S : m >= i
    PROVE  Max(S) = m
<1> DEFINE Greatest(x) == x \in S /\ \A i \in S : x >= i
<1>1. Greatest(m)
  OBVIOUS
<1>2. Max(S) = CHOOSE x : Greatest(x)
  BY DEF Max
<1>3. Greatest(Max(S))
  <2> HIDE DEF Greatest
  <2> QED
    BY <1>1, <1>2, Zenon
<1>4. \A x \in S : x >= m /\ m >= x => x = m
  OBVIOUS
<1> QED
  BY <1>3, <1>4, Zenon

Less == {pair \in Nat \X Nat : pair[1] < pair[2]}

\* The order of the numbers is well-founded, so that there is a least number of
\* any kind, and a greatest one up to a bound.
LEMMA LeastNumber ==
    ASSUME NEW S \in SUBSET Nat, S # {}
    PROVE  \E m \in S : \A i \in S : m <= i
<1>1. IsWellFoundedOn(Less, Nat)
  <2>1. Less = OpToRel(<, Nat)
    BY DEF OpToRel, Less
  <2> QED
    BY <2>1, NatLessThanWellFounded
<1>2. PICK m \in S : \A i \in S : ~ (<<i, m>> \in Less)
  BY <1>1, WFMin
<1>3. ASSUME NEW i \in S PROVE m <= i
  <2>1. i \in Nat /\ m \in Nat /\ (i < m => <<i, m>> \in Less)
    BY DEF Less
  <2>2. ~(i < m)
    BY <1>2, <2>1
  <2> QED
    BY <2>1, <2>2
<1> QED
  BY <1>3

LEMMA GreatestNumber ==
    ASSUME NEW n \in Nat, NEW S \in SUBSET (0 .. n), S # {}
    PROVE  \E m \in S : \A i \in S : m >= i
<1> DEFINE R == {r \in 0 .. n : n - r \in S}
<1>1. R \in SUBSET Nat
  OBVIOUS
<1>2. PICK s \in S : TRUE
  OBVIOUS
<1>3. n - s \in R
  OBVIOUS
<1>4. PICK m \in R : \A i \in R : m <= i
  BY <1>1, <1>3, LeastNumber
<1>5. n - m \in S
  OBVIOUS
<1>6. \A i \in S : n - i \in R /\ i \in Nat
  OBVIOUS
<1>7. ASSUME NEW i \in S PROVE n - m >= i
  <2> HIDE DEF R
  <2>1. m <= n - i /\ i \in Nat /\ m \in Nat
    BY <1>1, <1>4, <1>6
  <2> QED
    BY <2>1
<1> QED
  BY <1>5, <1>7

\* Max of such a set is in it and bounds it.
LEMMA MaxOf ==
    ASSUME NEW n \in Nat, NEW S \in SUBSET (0 .. n), S # {}
    PROVE  Max(S) \in S /\ \A i \in S : Max(S) >= i
<1>1. PICK m \in S : \A i \in S : m >= i
  BY GreatestNumber
<1>2. Max(S) = m
  BY <1>1, MaxIs
<1> QED
  BY <1>1, <1>2

\* What follows the first k elements.
LEMMA RestOf ==
    ASSUME NEW S, NEW s \in Seq(S), NEW k \in 0 .. Len(s), SubSeq(s, k + 1, Len(s)) # <<>>
    PROVE  /\ k + 1 \in DOMAIN s
           /\ Head(SubSeq(s, k + 1, Len(s))) = s[k + 1]
           /\ Tail(SubSeq(s, k + 1, Len(s))) = SubSeq(s, k + 2, Len(s))
OBVIOUS

LEMMA NoRest ==
    ASSUME NEW S, NEW s \in Seq(S), NEW k \in 0 .. Len(s), SubSeq(s, k + 1, Len(s)) = <<>>
    PROVE  k = Len(s)
OBVIOUS

LEMMA RestIsSeq ==
    ASSUME NEW S, NEW s \in Seq(S), NEW k \in 0 .. Len(s)
    PROVE  /\ SubSeq(s, k + 1, Len(s)) \in Seq(S)
           /\ k # Len(s) => SubSeq(s, k + 1, Len(s)) # <<>>
           /\ k = Len(s) => SubSeq(s, k + 1, Len(s)) = <<>>
<1>1. Len(s) \in Nat /\ k + 1 \in Int /\ Len(s) \in Int /\ k \in Int
  OBVIOUS
<1>2. \A i \in (k + 1) .. Len(s) : s[i] \in S
  OBVIOUS
<1>3. /\ SubSeq(s, k + 1, Len(s)) \in Seq(S)
      /\ Len(SubSeq(s, k + 1, Len(s))) = IF k + 1 <= Len(s) THEN Len(s) - (k + 1) + 1 ELSE 0
  BY <1>1, <1>2, SubSeqProperties
<1>4. k # Len(s) => SubSeq(s, k + 1, Len(s)) # <<>>
  <2>1. k # Len(s) => Len(SubSeq(s, k + 1, Len(s))) # 0
    BY <1>1, <1>3
  <2> QED
    BY <2>1, EmptySeq
<1>5. k = Len(s) => SubSeq(s, k + 1, Len(s)) = <<>>
  BY <1>1, SubSeqEmpty
<1> QED
  BY <1>3, <1>4, <1>5

LEMMA LastIsElement ==
    ASSUME NEW S, NEW s \in Seq(S), s # <<>>
    PROVE  Last(s) \in S
BY DEF Last

LEMMA PartIsSeq ==
    ASSUME NEW S, NEW s \in Seq(S), NEW a \in 1 .. Len(s) + 1, NEW b \in 0 .. Len(s)
    PROVE  SubSeq(s, a, b) \in Seq(S)
OBVIOUS

-----------------------------------------------------------------------------
(* FeedItem: the author. *)

LEMMA WidthIs == Width \in Nat /\ Width > 1
BY FeedItemAssumption, Zenon

LEMMA ClosingIsText == Closing \in Characters
BY FeedItemAssumption, Zenon

LEMMA BracketNotLast ==
    ASSUME NEW field \in Text, InBrackets(field)
    PROVE  /\ Len(field) \in Nat \ {0}
           /\ field[Len(field)] = Closing
BY DEF Text, InBrackets, Last

\* Without wrapping round the position before the bracket is what it should be.
LEMMA EndIs ==
    ASSUME NEW n \in 0 .. Width - 1
    PROVE  /\ n = 1 => (n + Width - 2) % Width = Width - 1
           /\ n >= 2 => (n + Width - 2) % Width = n - 2
<1> Width \in Nat /\ Width > 1
  BY WidthIs
<1>1. ASSUME NEW x \in 0 .. Width - 1 PROVE x % Width = x /\ (x + Width) % Width = x
  BY <1>1
<1> QED
  BY <1>1

LEMMA LoneBracketIs ==
    ASSUME NEW field \in Text
    PROVE  field = <<Closing>> <=> InBrackets(field) /\ Len(field) = 1
<1>1. /\ <<Closing>> \in Seq(Characters) /\ <<Closing>> # <<>>
      /\ Len(<<Closing>>) = 1 /\ <<Closing>>[1] = Closing
  BY ClosingIsText
<1>2. Len(field) = 1 /\ field[1] = Closing => field = <<Closing>>
  BY <1>1, SeqEqual DEF Text
<1>3. Len(field) = 1 => field # <<>>
  BY <1>1
<1> QED
  BY <1>1, <1>2, <1>3, Zenon DEF InBrackets, Last

\* Where the walk begins.
LEMMA EndOfField ==
    ASSUME NEW field \in Text, Len(field) < Width, InBrackets(field)
    PROVE  /\ Len(field) \in Nat \ {0}
           /\ Len(field) = 1 <=> End(field) >= Len(field)
           /\ Len(field) >= 2 => End(field) = Len(field) - 2
<1>1. Width \in Nat /\ Width > 1 /\ Len(field) \in Nat /\ Len(field) < Width
  BY WidthIs DEF Text
<1>2. Len(field) # 0
  BY DEF Text, InBrackets
<1>3. Len(field) = 1 => End(field) = Width - 1
  BY <1>1, EndIs DEF End
<1>4. Len(field) >= 2 => End(field) = Len(field) - 2
  BY <1>1, EndIs DEF End
<1>5. Len(field) = 1 \/ Len(field) >= 2
  BY <1>1, <1>2
<1> QED
  BY <1>1, <1>2, <1>3, <1>4, <1>5

\* The walk begins outside a field exactly when it is a lone bracket.
LEMMA WalksAwayIs ==
    ASSUME NEW c \in ItemChild, Len(c.text) < Width
    PROVE  WalksAway(c) <=> c.name = "author" /\ c.text = <<Closing>>
<1>1. c.text \in Text
  BY DEF ItemChild
<1>2. InBrackets(c.text) => (Len(c.text) = 1 <=> End(c.text) >= Len(c.text))
  BY <1>1, EndOfField
<1> QED
  BY <1>1, <1>2, LoneBracketIs DEF WalksAway

\* The name the parser cuts out is one the document holds.
LEMMA AuthorIsName ==
    ASSUME NEW field \in Text, Len(field) < Width, field # <<Closing>>
    PROVE  Author(field) \in NamesIn(field)
<1>1. CASE ~InBrackets(field)
  BY <1>1 DEF Author, NamesIn
<1>2. CASE InBrackets(field)
  <2>1. PICK n \in Nat : n = Len(field) /\ n >= 2 /\ End(field) = n - 2
    <3>1. Len(field) \in Nat \ {0} /\ Len(field) # 1
      BY <1>2, LoneBracketIs, EndOfField
    <3>2. Len(field) >= 2
      BY <3>1
    <3>3. End(field) = Len(field) - 2
      BY <1>2, <3>2, EndOfField
    <3> QED
      BY <3>1, <3>2, <3>3
  <2>2. PICK start : start = Start(field)
    OBVIOUS
  <2>3. /\ start \in 0 .. n - 2
        /\ start = 0 \/ field[start + 1] = Opening
        /\ \A i \in start + 1 .. n - 2 : field[i + 1] # Opening
    <3> DEFINE open == {i \in 0 .. n - 2 : field[i + 1] = Opening}
    <3>1. start = IF open = {} THEN 0 ELSE Max(open)
      BY <2>1, <2>2 DEF Start
    <3>2. open \in SUBSET (0 .. n - 2) /\ n - 2 \in Nat
      BY <2>1
    <3>3. open # {} => start \in open /\ \A i \in open : start >= i
      <4> HIDE DEF open
      <4> QED
        BY <3>1, <3>2, MaxOf
    <3>4. start \in 0 .. n - 2
      BY <2>1, <3>1, <3>3
    <3>5. start = 0 \/ field[start + 1] = Opening
      BY <3>1, <3>3
    <3>6. ASSUME NEW i \in start + 1 .. n - 2 PROVE field[i + 1] # Opening
      <4>1. i \in 0 .. n - 2 /\ ~(start >= i)
        BY <2>1, <3>4
      <4>2. i \notin open
        <5> HIDE DEF open
        <5> QED
          BY <3>3, <4>1
      <4> QED
        BY <4>1, <4>2
    <3> QED
      BY <3>4, <3>5, <3>6
  <2>4. start + 2 \in NameStarts(field)
    <3>1. PICK first \in 2 .. n : first = start + 2
      BY <2>1, <2>3
    <3>2. first = 2 \/ field[first - 1] = Opening
      <4>1. first = 2 <=> start = 0
        BY <2>3, <3>1
      <4>2. first - 1 = start + 1
        BY <2>3, <3>1
      <4> QED
        BY <2>3, <4>1, <4>2
    <3>3. ASSUME NEW j \in first .. n - 1 PROVE field[j] # Opening
      <4>1. j - 1 \in start + 1 .. n - 2 /\ (j - 1) + 1 = j
        BY <2>1, <2>3, <3>1
      <4> QED
        BY <2>3, <4>1
    <3>4. first \in NameStarts(field)
      BY <2>1, <3>2, <3>3, Zenon DEF NameStarts
    <3> QED
      BY <3>1, <3>4
  <2>5. Author(field) = SubSeq(field, start + 2, n - 2 + 1)
    BY <1>2, <2>1, <2>2 DEF Author
  <2>6. n - 2 + 1 = Len(field) - 1
    BY <2>1
  <2> QED
    BY <1>2, <2>4, <2>5, <2>6 DEF NamesIn
<1> QED
  BY <1>1, <1>2

-----------------------------------------------------------------------------
(* FeedItem: the types. *)

LEMMA NoTextIsText == <<>> \in Text
BY DEF Text

LEMMA MinOf ==
    ASSUME NEW S \in SUBSET Nat, S # {}
    PROVE  Min(S) \in S
<1>1. PICK m \in S : \A i \in S : m <= i
  BY LeastNumber
<1> QED
  BY <1>1 DEF Min

\* A field with a bracket is not blank, so that its first word begins somewhere.
LEMMA FirstWordIsText ==
    ASSUME NEW field \in Text, InBrackets(field)
    PROVE  FirstWord(field) \in Text
<1> DEFINE first == SelectInSeq(field, LAMBDA c : c # Blank)
           rest == SubSeq(field, first, Len(field))
           space == SelectInSeq(rest, LAMBDA c : c = Blank)
<1>1. Closing # Blank
  BY Zenon DEF Closing, Blank
<1>2. first \in 1 .. Len(field)
  <2> DEFINE S == {i \in 1 .. Len(field) : field[i] # Blank}
  <2>1. Len(field) \in S
    BY <1>1, BracketNotLast
  <2>2. first = Min(S)
    BY <2>1 DEF SelectInSeq
  <2>3. S \in SUBSET Nat
    OBVIOUS
  <2>4. Min(S) \in S
    <3> HIDE DEF S
    <3> QED
      BY <2>1, <2>3, MinOf
  <2> QED
    BY <2>2, <2>4
<1>3. rest \in Text
  <2> HIDE DEF first
  <2> QED
    BY <1>2 DEF Text
<1>4. ASSUME space # 0 PROVE space \in 1 .. Len(rest)
  <2> HIDE DEF rest
  <2> DEFINE S == {i \in 1 .. Len(rest) : rest[i] = Blank}
  <2>1. space = IF S # {} THEN Min(S) ELSE 0
    BY DEF SelectInSeq
  <2>2. S \in SUBSET Nat
    OBVIOUS
  <2>3. S # {} /\ Min(S) \in S
    <3> HIDE DEF S, space
    <3> QED
      BY <1>4, <2>1, <2>2, MinOf
  <2> QED
    BY <2>1, <2>3
<1>5. FirstWord(field) = IF space = 0 THEN rest ELSE SubSeq(rest, 1, space - 1)
  BY DEF FirstWord
<1> HIDE DEF rest, space
<1>6. space # 0 => SubSeq(rest, 1, space - 1) \in Text
  BY <1>3, <1>4 DEF Text
<1> QED
  BY <1>3, <1>5, <1>6

LEMMA AuthorIsText ==
    ASSUME NEW field \in Text, Len(field) < Width, field # <<Closing>>
    PROVE  Author(field) \in Text /\ AuthorEmail(field) \in Text
<1>1. \A i \in NameStarts(field) : SubSeq(field, i, Len(field) - 1) \in Text
  BY DEF NameStarts, Text
<1>2. Author(field) \in Text
  BY <1>1, AuthorIsName DEF NamesIn
<1> QED
  BY <1>2, FirstWordIsText DEF AuthorEmail

LEMMA FormatIsText == ASSUME NEW text \in Text PROVE format(text) \in Text
<1>1. <<"asctime">> \in Seq(Characters)
  <2>1. "asctime" \in Characters
    BY FeedItemAssumption, Zenon
  <2> QED
    BY <2>1
<1> QED
  BY <1>1, ConcatProperties DEF format, Text

LEMMA XmlIsText == ASSUME NEW text \in Text PROVE Xml(text) \in Text
<1>1. <<"markup">> \in Seq(Characters)
  <2>1. "markup" \in Characters
    BY FeedItemAssumption, Zenon
  <2> QED
    BY <2>1
<1> QED
  BY <1>1, ConcatProperties DEF Xml, Text

LEMMA ContentIsText ==
    ASSUME NEW c \in ItemChild, NEW old \in Text
    PROVE  Content(c, old) \in Text
BY XmlIsText DEF Content, ItemChild

LEMMA TypeOfIsType == ASSUME NEW c \in ItemChild PROVE TypeOf(c) \in Attributes
BY FeedItemAssumption DEF TypeOf, ItemChild

\* What a child does to the fields of an item that the properties are about.
LEMMA RssFieldIs ==
    ASSUME it \in ItemType, NEW c \in ItemChild, Len(c.text) < Width, ~WalksAway(c)
    PROVE  /\ RssField(c) \in ItemType
           /\ RssField(c).author = IF c.name = "author" THEN Author(c.text) ELSE it.author
           /\ RssField(c).pubDate = IF c.name = "pubDate" THEN format(c.text) ELSE it.pubDate
           /\ RssField(c).enclosure =
                IF \/ c.name \in {"enclosure", "media:content"}
                   \/ c.name = "media:group" /\ c.inside # <<>>
                THEN Offer(c) ELSE it.enclosure
<1> USE DEF ItemType
<1>1. c.text \in Text /\ c.inside \in Seq(Text)
  BY DEF ItemChild
<1>2. CASE c.name \in PlainFields
  BY <1>1, <1>2 DEF RssField, PlainFields, Offer
<1>3. CASE c.name = "pubDate"
  BY <1>1, <1>3, FormatIsText DEF RssField, PlainFields, Offer
<1>4. CASE c.name = "author"
  <2>1. Author(c.text) \in Text /\ AuthorEmail(c.text) \in Text
    BY <1>1, <1>4, WalksAwayIs, AuthorIsText
  <2> QED
    BY <1>1, <1>4, <2>1 DEF RssField, PlainFields, Offer
<1>5. CASE c.name \in {"enclosure", "media:content"}
  BY <1>1, <1>5 DEF RssField, PlainFields, Offer
<1>6. CASE c.name = "media:group"
  BY <1>1, <1>6, LastIsElement DEF RssField, PlainFields, Offer
<1>7. CASE c.name \notin PlainFields \cup {"pubDate", "author", "enclosure", "media:content",
                                           "media:group"}
  BY <1>1, <1>7 DEF RssField, PlainFields, Offer
<1> QED
  BY <1>2, <1>3, <1>4, <1>5, <1>6, <1>7

LEMMA RssSecondIs ==
    ASSUME second \in [author : Text, date : Text, summary : Text, summary_type : Attributes],
           NEW c \in ItemChild
    PROVE  /\ RssSecond(c) \in [author : Text, date : Text, summary : Text,
                                summary_type : Attributes]
           /\ RssSecond(c).author = IF c.name = "dc:creator" THEN c.text ELSE second.author
           /\ RssSecond(c).date = IF c.name = "dc:date" THEN format(c.text) ELSE second.date
<1>1. c.text \in Text
  BY DEF ItemChild
<1> QED
  BY <1>1, FormatIsText DEF RssSecond

LEMMA AtomFieldIs ==
    ASSUME it \in ItemType, NEW c \in ItemChild
    PROVE  /\ AtomField(c) \in ItemType
           /\ AtomField(c).description = IF c.name = "content" THEN Content(c, it.description)
                                         ELSE it.description
           /\ AtomField(c).description_type = IF c.name = "content" THEN TypeOf(c)
                                              ELSE it.description_type
<1> USE DEF ItemType
<1>1. c.text \in Text /\ c.inside \in Seq(Text)
  BY DEF ItemChild
<1>2. CASE c.name = "content"
  BY <1>2, ContentIsText, TypeOfIsType DEF AtomField
<1>3. CASE c.name = "author"
  BY <1>1, <1>3, LastIsElement DEF AtomField
<1>4. CASE c.name = "published"
  BY <1>1, <1>4, FormatIsText DEF AtomField
<1>5. CASE c.name \in {"title", "id", "link"}
  BY <1>1, <1>5 DEF AtomField
<1>7. CASE c.name = "label"
  <2>1. Append(it.labels, c.text) \in Seq(Text)
    BY <1>1
  <2> QED
    BY <1>7, <2>1 DEF AtomField
<1>6. CASE c.name \notin {"content", "author", "published", "title", "id", "link", "label"}
  BY <1>6 DEF AtomField
<1> QED
  BY <1>2, <1>3, <1>4, <1>5, <1>6, <1>7

LEMMA AtomSecondIs ==
    ASSUME second \in [author : Text, date : Text, summary : Text, summary_type : Attributes],
           NEW c \in ItemChild
    PROVE  /\ AtomSecond(c) \in [author : Text, date : Text, summary : Text,
                                 summary_type : Attributes]
           /\ AtomSecond(c).summary = IF c.name = "summary" THEN Content(c, second.summary)
                                      ELSE second.summary
           /\ AtomSecond(c).summary_type = IF c.name = "summary" THEN TypeOf(c)
                                           ELSE second.summary_type
<1>1. c.text \in Text
  BY DEF ItemChild
<1> QED
  BY <1>1, FormatIsText, ContentIsText, TypeOfIsType DEF AtomSecond

-----------------------------------------------------------------------------
(* FeedItem: what the loops have found among the first k children. *)

NamedBy(element, k, names) == {i \in 1 .. k : element[i].name \in names}
TextBy(element, k, names) ==
    IF NamedBy(element, k, names) = {} THEN <<>> ELSE element[Max(NamedBy(element, k, names))].text

OfferingBy(element, k) ==
    {i \in 1 .. k : \/ element[i].name \in {"enclosure", "media:content"}
                    \/ element[i].name = "media:group" /\ element[i].inside # <<>>}
OfferBy(element, k) == IF OfferingBy(element, k) = {} THEN <<>> ELSE Offer(element[Max(OfferingBy(element, k))])

LEMMA NothingNamed == \A element, names : NamedBy(element, 0, names) = {}
BY DEF NamedBy

LEMMA NamedGrows ==
    ASSUME NEW element, NEW k \in Nat, NEW names
    PROVE  IF element[k + 1].name \in names
           THEN NamedBy(element, k + 1, names) # {} /\ Max(NamedBy(element, k + 1, names)) = k + 1
           ELSE NamedBy(element, k + 1, names) = NamedBy(element, k, names)
<1>1. CASE element[k + 1].name \in names
  <2>1. k + 1 \in NamedBy(element, k + 1, names) /\ NamedBy(element, k + 1, names) \in SUBSET Nat
        /\ \A i \in NamedBy(element, k + 1, names) : k + 1 >= i
    BY <1>1 DEF NamedBy
  <2> QED
    BY <1>1, <2>1, MaxIs
<1>2. CASE element[k + 1].name \notin names
  BY <1>2 DEF NamedBy
<1> QED
  BY <1>1, <1>2

LEMMA TextGrows ==
    ASSUME NEW element, NEW k \in Nat, NEW names
    PROVE  TextBy(element, k + 1, names) = IF element[k + 1].name \in names THEN element[k + 1].text
                                  ELSE TextBy(element, k, names)
BY NamedGrows DEF TextBy

LEMMA OfferGrows ==
    ASSUME NEW element, NEW k \in Nat
    PROVE  OfferBy(element, k + 1) =
             IF \/ element[k + 1].name \in {"enclosure", "media:content"}
                \/ element[k + 1].name = "media:group" /\ element[k + 1].inside # <<>>
             THEN Offer(element[k + 1]) ELSE OfferBy(element, k)
<1>1. CASE k + 1 \in OfferingBy(element, k + 1)
  <2>1. OfferingBy(element, k + 1) \in SUBSET Nat /\ \A i \in OfferingBy(element, k + 1) : k + 1 >= i
    BY DEF OfferingBy
  <2>2. OfferBy(element, k + 1) = Offer(element[k + 1])
    BY <1>1, <2>1, MaxIs DEF OfferBy
  <2> QED
    BY <1>1, <2>2 DEF OfferingBy
<1>2. CASE k + 1 \notin OfferingBy(element, k + 1)
  <2>1. OfferingBy(element, k + 1) = OfferingBy(element, k)
    BY <1>2 DEF OfferingBy
  <2>2. OfferBy(element, k + 1) = OfferBy(element, k)
    BY <2>1 DEF OfferBy
  <2> QED
    BY <1>2, <2>2 DEF OfferingBy
<1> QED
  BY <1>1, <1>2

\* All element are the first so many of them.
LEMMA AllOfThem ==
    ASSUME children \in Seq(ItemChild)
    PROVE  /\ \A names : Named(names) = NamedBy(children, Len(children), names)
           /\ \A names : LastText(names) = TextBy(children, Len(children), names)
           /\ Offering = OfferingBy(children, Len(children))
<1>1. DOMAIN children = 1 .. Len(children)
  OBVIOUS
<1>2. \A names : Named(names) = NamedBy(children, Len(children), names)
  BY <1>1 DEF Named, NamedBy
<1>3. Offering = OfferingBy(children, Len(children))
  BY <1>1 DEF Offering, OfferingBy, Named
<1> QED
  BY <1>2, <1>3 DEF LastText, TextBy

DescriptionBy(element, k, names) ==
    IF NamedBy(element, k, names) = {} THEN <<>>
    ELSE Content(element[Max(NamedBy(element, k, names))], <<>>)
TypeBy(element, k, names) ==
    IF NamedBy(element, k, names) = {} THEN "" ELSE TypeOf(element[Max(NamedBy(element, k, names))])

LEMMA DescriptionGrows ==
    ASSUME NEW element, NEW k \in Nat, NEW names
    PROVE  /\ DescriptionBy(element, k + 1, names) =
                IF element[k + 1].name \in names THEN Content(element[k + 1], <<>>)
                ELSE DescriptionBy(element, k, names)
           /\ TypeBy(element, k + 1, names) =
                IF element[k + 1].name \in names THEN TypeOf(element[k + 1])
                ELSE TypeBy(element, k, names)
BY NamedGrows DEF DescriptionBy, TypeBy

-----------------------------------------------------------------------------
(* FeedItem: the invariant. *)

AllKnown(element) == \A i \in DOMAIN element : KnownMode(element[i])

RssWalk(k) ==
    /\ \A i \in 1 .. k : ~WalksAway(children[i])
    /\ it.author = Author(TextBy(children, k, {"author"}))
    /\ it.pubDate = format(TextBy(children, k, {"pubDate"}))
    /\ it.enclosure = OfferBy(children, k)
    /\ second.author = TextBy(children, k, {"dc:creator"})
    /\ second.date = format(TextBy(children, k, {"dc:date"}))

AtomWalk(k) ==
    AllKnown(children) =>
        /\ it.description = DescriptionBy(children, k, {"content"})
        /\ it.description_type = TypeBy(children, k, {"content"})
        /\ second.summary = DescriptionBy(children, k, {"summary"})
        /\ second.summary_type = TypeBy(children, k, {"summary"})

\* The loop is behind the child k, and has found what there is up to it.
ItemWalk ==
    \E k \in 0 .. Len(children) :
        /\ ahead = SubSeq(children, k + 1, Len(children))
        /\ itemPc = "rss" => RssWalk(k)
        /\ itemPc = "atom" => AtomWalk(k)

ItemInv ==
    /\ ItemTypeOK
    /\ itemPc \in {"rss", "atom"} => ItemWalk
    /\ RssFieldsFound /\ OnlyLoneBracketFails /\ EntryDescriptionFound

LEMMA ItemNodesAreSeqs ==
    ASSUME ItemTypeOK
    PROVE  /\ children \in Seq(ItemChild)
           /\ itemPc \in {"rss", "rssDone"} =>
                \A i \in DOMAIN children : Len(children[i].text) < Width
BY FeedItemAssumption, Zenon DEF ItemTypeOK

LEMMA NoTextFound ==
    /\ Author(<<>>) = <<>> /\ format(<<>>) = <<>>
    /\ \A element, names : TextBy(element, 0, names) = <<>> /\ DescriptionBy(element, 0, names) = <<>>
                        /\ TypeBy(element, 0, names) = ""
    /\ \A element : OfferBy(element, 0) = <<>>
<1>1. Author(<<>>) = <<>>
  BY DEF Author, InBrackets
<1>2. format(<<>>) = <<>>
  BY FeedItemAssumption, Zenon DEF format
<1>3. \A element, names : NamedBy(element, 0, names) = {}
  BY NothingNamed
<1>4. \A element : OfferingBy(element, 0) = {}
  BY DEF OfferingBy
<1> QED
  BY <1>1, <1>2, <1>3, <1>4 DEF TextBy, DescriptionBy, TypeBy, OfferBy

LEMMA BlankItem ==
    ASSUME NEW e \in Text, e \in Seq(Text), NEW a \in Attributes
    PROVE  [title |-> e, link |-> e, description |-> e, guid |-> e, content_encoded |-> e,
            itunes_summary |-> e, pubDate |-> e, author |-> e, author_email |-> e,
            enclosure |-> e, description_type |-> a, labels |-> e] \in ItemType
BY DEF ItemType

LEMMA InitItemInv == ItemInit => ItemInv
<1> SUFFICES ASSUME ItemInit PROVE ItemInv
  OBVIOUS
<1>1. ItemTypeOK
  <2>1. children \in Seq(ItemChild)
    BY FeedItemAssumption, Zenon DEF ItemInit
  <2>2. "" \in Attributes
    BY FeedItemAssumption, Zenon
  <2>3. <<>> \in Seq(Text)
    OBVIOUS
  <2>4. NoItem \in ItemType
    BY <2>2, <2>3, NoTextIsText, BlankItem, Zenon DEF NoItem
  <2>5. NoSecond \in [author : Text, date : Text, summary : Text, summary_type : Attributes]
    BY <2>2, NoTextIsText DEF NoSecond
  <2> QED
    BY <2>1, <2>4, <2>5 DEF ItemInit, ItemTypeOK
<1>2. children \in Seq(ItemChild) /\ 0 \in 0 .. Len(children)
      /\ SubSeq(children, 0 + 1, Len(children)) = children
  BY <1>1, ItemNodesAreSeqs
<1>3. RssWalk(0)
  <2>1. \A i \in 1 .. 0 : ~WalksAway(children[i])
    OBVIOUS
  <2>2. it.author = <<>> /\ it.pubDate = <<>> /\ it.enclosure = <<>>
        /\ second.author = <<>> /\ second.date = <<>>
    BY DEF ItemInit, NoItem, NoSecond
  <2> QED
    BY <2>1, <2>2, NoTextFound, Zenon DEF RssWalk
<1>4. AtomWalk(0)
  BY NoTextFound DEF ItemInit, AtomWalk, NoItem, NoSecond
<1>5. ItemWalk
  BY <1>2, <1>3, <1>4 DEF ItemInit, ItemWalk
<1> QED
  BY <1>1, <1>5 DEF ItemInit, ItemInv, RssFieldsFound, OnlyLoneBracketFails, EntryDescriptionFound

\* The next child, and how far the loop is behind it.
LEMMA NextChild ==
    ASSUME ItemInv, itemPc \in {"rss", "atom"}, ahead # <<>>
    PROVE  \E k \in 0 .. Len(children) :
             /\ k + 1 \in DOMAIN children /\ k + 1 \in 0 .. Len(children) /\ k \in Nat
             /\ Head(ahead) = children[k + 1] /\ Head(ahead) \in ItemChild
             /\ Tail(ahead) = SubSeq(children, (k + 1) + 1, Len(children))
             /\ itemPc = "rss" => RssWalk(k)
             /\ itemPc = "atom" => AtomWalk(k)
<1>1. PICK k \in 0 .. Len(children) :
        /\ ahead = SubSeq(children, k + 1, Len(children))
        /\ itemPc = "rss" => RssWalk(k)
        /\ itemPc = "atom" => AtomWalk(k)
  BY DEF ItemInv, ItemWalk
<1>2. children \in Seq(ItemChild)
  BY ItemNodesAreSeqs DEF ItemInv
<1>3. /\ k + 1 \in DOMAIN children
      /\ Head(ahead) = children[k + 1]
      /\ Tail(ahead) = SubSeq(children, k + 2, Len(children))
  BY <1>1, <1>2, RestOf
<1>4. children[k + 1] \in ItemChild /\ k + 1 \in 0 .. Len(children) /\ (k + 1) + 1 = k + 2
  BY <1>2, <1>3
<1>5. k \in Nat /\ Tail(ahead) = SubSeq(children, (k + 1) + 1, Len(children))
  BY <1>3, <1>4
<1> QED
  BY <1>1, <1>3, <1>4, <1>5

LEMMA ReadRssInv == ASSUME ItemInv, ReadRss PROVE ItemInv'
<1> DEFINE c == Head(ahead)
<1>1. itemPc = "rss" /\ ahead # <<>> /\ ~WalksAway(c) /\ it' = RssField(c)
      /\ second' = RssSecond(c) /\ ahead' = Tail(ahead) /\ itemPc' = itemPc
      /\ children' = children
  BY DEF ReadRss
<1>2. PICK k \in 0 .. Len(children) :
        /\ k + 1 \in DOMAIN children /\ k + 1 \in 0 .. Len(children) /\ k \in Nat
        /\ c = children[k + 1] /\ c \in ItemChild
        /\ Tail(ahead) = SubSeq(children, (k + 1) + 1, Len(children))
        /\ RssWalk(k)
  BY <1>1, NextChild
<1>3. Len(c.text) < Width
  BY <1>1, <1>2, ItemNodesAreSeqs DEF ItemInv
<1>4. ItemTypeOK'
  <2>1. it' \in ItemType
    BY <1>1, <1>2, <1>3, RssFieldIs DEF ItemInv, ItemTypeOK
  <2>2. second' \in [author : Text, date : Text, summary : Text, summary_type : Attributes]
    BY <1>1, <1>2, RssSecondIs DEF ItemInv, ItemTypeOK
  <2>3. ahead' \in Seq(ItemChild)
    BY <1>1, HeadTailProperties DEF ItemInv, ItemTypeOK
  <2> QED
    BY <1>1, <2>1, <2>2, <2>3 DEF ItemInv, ItemTypeOK
<1>5. RssWalk(k + 1)'
  <2>1. it \in ItemType
        /\ second \in [author : Text, date : Text, summary : Text, summary_type : Attributes]
    BY DEF ItemInv, ItemTypeOK
  <2>2. \A i \in 1 .. k + 1 : ~WalksAway(children[i])
    <3>1. \A i \in 1 .. k + 1 : i \in 1 .. k \/ i = k + 1
      BY <1>2
    <3> QED
      BY <1>1, <1>2, <3>1 DEF RssWalk
  <2>7. /\ it'.author = IF c.name = "author" THEN Author(c.text) ELSE it.author
        /\ it'.pubDate = IF c.name = "pubDate" THEN format(c.text) ELSE it.pubDate
        /\ it'.enclosure =
             IF \/ c.name \in {"enclosure", "media:content"}
                \/ c.name = "media:group" /\ c.inside # <<>>
             THEN Offer(c) ELSE it.enclosure
    BY <1>1, <1>2, <1>3, <2>1, RssFieldIs
  <2>8. c = children[k + 1] /\ k \in Nat /\ RssWalk(k)
    BY <1>2
  <2> HIDE DEF c
  <2>3. it'.author = Author(TextBy(children, k + 1, {"author"}))
    BY <2>7, <2>8, TextGrows DEF RssWalk
  <2>4. it'.pubDate = format(TextBy(children, k + 1, {"pubDate"}))
    BY <2>7, <2>8, TextGrows DEF RssWalk
  <2>5. it'.enclosure = OfferBy(children, k + 1)
    BY <2>7, <2>8, OfferGrows DEF RssWalk
  <2>6. /\ second'.author = TextBy(children, k + 1, {"dc:creator"})
        /\ second'.date = format(TextBy(children, k + 1, {"dc:date"}))
    BY <1>1, <1>2, <2>1, RssSecondIs, TextGrows DEF RssWalk
  <2> QED
    BY <1>1, <2>2, <2>3, <2>4, <2>5, <2>6 DEF RssWalk
<1>6. ItemWalk'
  <2> HIDE DEF c
  <2> QED
    BY <1>1, <1>2, <1>5 DEF ItemWalk
<1> QED
  BY <1>1, <1>4, <1>6 DEF ItemInv, RssFieldsFound, OnlyLoneBracketFails, EntryDescriptionFound

LEMMA ReadAtomInv == ASSUME ItemInv, ReadAtom PROVE ItemInv'
<1> DEFINE c == Head(ahead)
<1>1. itemPc = "atom" /\ ahead # <<>> /\ it' = AtomField(c)
      /\ second' = AtomSecond(c) /\ ahead' = Tail(ahead) /\ itemPc' = itemPc
      /\ children' = children
  BY DEF ReadAtom
<1>2. PICK k \in 0 .. Len(children) :
        /\ k + 1 \in DOMAIN children /\ k + 1 \in 0 .. Len(children) /\ k \in Nat
        /\ c = children[k + 1] /\ c \in ItemChild
        /\ Tail(ahead) = SubSeq(children, (k + 1) + 1, Len(children))
        /\ AtomWalk(k)
  BY <1>1, NextChild
<1>3. it \in ItemType
      /\ second \in [author : Text, date : Text, summary : Text, summary_type : Attributes]
  BY DEF ItemInv, ItemTypeOK
<1>4. ItemTypeOK'
  <2>1. it' \in ItemType
    BY <1>1, <1>2, <1>3, AtomFieldIs
  <2>2. second' \in [author : Text, date : Text, summary : Text, summary_type : Attributes]
    BY <1>1, <1>2, <1>3, AtomSecondIs
  <2>3. ahead' \in Seq(ItemChild)
    BY <1>1, HeadTailProperties DEF ItemInv, ItemTypeOK
  <2> QED
    BY <1>1, <2>1, <2>2, <2>3 DEF ItemInv, ItemTypeOK
<1>5. AtomWalk(k + 1)'
  <2> SUFFICES ASSUME AllKnown(children)
               PROVE  /\ it'.description = DescriptionBy(children, k + 1, {"content"})
                      /\ it'.description_type = TypeBy(children, k + 1, {"content"})
                      /\ second'.summary = DescriptionBy(children, k + 1, {"summary"})
                      /\ second'.summary_type = TypeBy(children, k + 1, {"summary"})
    BY <1>1 DEF AtomWalk, AllKnown
  <2>1. \A old : Content(c, old) = Content(c, <<>>)
    <3>1. c.mode \in {"escaped", "xml", ""}
      BY <1>2 DEF AllKnown, KnownMode
    <3> QED
      BY <3>1 DEF Content
  <2>2. /\ it.description = DescriptionBy(children, k, {"content"})
        /\ it.description_type = TypeBy(children, k, {"content"})
        /\ second.summary = DescriptionBy(children, k, {"summary"})
        /\ second.summary_type = TypeBy(children, k, {"summary"})
    BY <1>2 DEF AtomWalk
  <2>3. /\ it'.description = IF c.name = "content" THEN Content(c, <<>>) ELSE it.description
        /\ it'.description_type = IF c.name = "content" THEN TypeOf(c) ELSE it.description_type
    BY <1>1, <1>2, <1>3, <2>1, AtomFieldIs
  <2>4. /\ second'.summary = IF c.name = "summary" THEN Content(c, <<>>) ELSE second.summary
        /\ second'.summary_type = IF c.name = "summary" THEN TypeOf(c) ELSE second.summary_type
    BY <1>1, <1>2, <1>3, <2>1, AtomSecondIs
  <2> HIDE DEF c
  <2> QED
    BY <1>2, <2>2, <2>3, <2>4, DescriptionGrows
<1>6. ItemWalk'
  <2> HIDE DEF c
  <2> QED
    BY <1>1, <1>2, <1>5 DEF ItemWalk
<1> QED
  BY <1>1, <1>4, <1>6 DEF ItemInv, RssFieldsFound, OnlyLoneBracketFails, EntryDescriptionFound

LEMMA WalkAwayInv == ASSUME ItemInv, WalkAway PROVE ItemInv'
<1>1. itemPc = "rss" /\ ahead # <<>> /\ WalksAway(Head(ahead))
      /\ itemPc' \in {"exception", "crash"} /\ UNCHANGED <<children, ahead, it, second>>
  BY DEF WalkAway
<1>2. PICK k \in 0 .. Len(children) :
        k + 1 \in DOMAIN children /\ Head(ahead) = children[k + 1] /\ Head(ahead) \in ItemChild
  BY <1>1, NextChild
<1>3. Len(children[k + 1].text) < Width
  BY <1>1, <1>2, ItemNodesAreSeqs DEF ItemInv
<1>4. HasLoneBracket
  BY <1>1, <1>2, <1>3, WalksAwayIs DEF HasLoneBracket
<1>5. HasLoneBracket'
  BY <1>1, <1>4 DEF HasLoneBracket
<1>6. ItemTypeOK'
  BY <1>1 DEF ItemInv, ItemTypeOK
<1> QED
  BY <1>1, <1>5, <1>6 DEF ItemInv, RssFieldsFound, OnlyLoneBracketFails, EntryDescriptionFound

\* At the end of the loop all children have been read.
LEMMA LastChild ==
    ASSUME ItemInv, itemPc \in {"rss", "atom"}, ahead = <<>>
    PROVE  /\ itemPc = "rss" => RssWalk(Len(children))
           /\ itemPc = "atom" => AtomWalk(Len(children))
<1>1. PICK k \in 0 .. Len(children) :
        /\ ahead = SubSeq(children, k + 1, Len(children))
        /\ itemPc = "rss" => RssWalk(k)
        /\ itemPc = "atom" => AtomWalk(k)
  BY DEF ItemInv, ItemWalk
<1>2. k = Len(children)
  BY <1>1, NoRest, ItemNodesAreSeqs DEF ItemInv
<1> QED
  BY <1>1, <1>2

LEMMA TextByIsText ==
    ASSUME NEW element \in Seq(ItemChild), NEW names
    PROVE  TextBy(element, Len(element), names) = <<>>
           \/ \E i \in DOMAIN element : TextBy(element, Len(element), names) = element[i].text
                                     /\ element[i].name \in names
<1>1. NamedBy(element, Len(element), names) \in SUBSET (0 .. Len(element))
  BY DEF NamedBy
<1>2. NamedBy(element, Len(element), names) # {} =>
        Max(NamedBy(element, Len(element), names)) \in NamedBy(element, Len(element), names)
  <2>1. Len(element) \in Nat
    OBVIOUS
  <2> QED
    BY <1>1, <2>1, MaxOf, Zenon
<1>3. \A i \in NamedBy(element, Len(element), names) : i \in DOMAIN element /\ element[i].name \in names
  BY DEF NamedBy
<1> QED
  BY <1>2, <1>3 DEF TextBy

LEMMA FinishRssInv == ASSUME ItemInv, FinishRss PROVE ItemInv'
<1>1. /\ itemPc = "rss" /\ ahead = <<>> /\ itemPc' = "rssDone"
      /\ it' = [it EXCEPT !.author = IF @ = <<>> THEN second.author ELSE @,
                          !.pubDate = IF @ = <<>> THEN second.date ELSE @]
      /\ UNCHANGED <<children, ahead, second>>
  BY DEF FinishRss
<1>2. it \in ItemType
      /\ second \in [author : Text, date : Text, summary : Text, summary_type : Attributes]
  BY DEF ItemInv, ItemTypeOK
<1>3. /\ it' \in ItemType
      /\ it'.author = FirstChoice(it.author, second.author)
      /\ it'.pubDate = FirstChoice(it.pubDate, second.date)
      /\ it'.enclosure = it.enclosure
  BY <1>1, <1>2 DEF ItemType, FirstChoice
<1>4. children \in Seq(ItemChild) /\ \A i \in DOMAIN children : Len(children[i].text) < Width
  BY <1>1, ItemNodesAreSeqs DEF ItemInv
<1>5. RssWalk(Len(children))
  BY <1>1, LastChild
<1>6. ItemTypeOK'
  BY <1>1, <1>3 DEF ItemInv, ItemTypeOK
<1>7. ~HasLoneBracket
  <2> SUFFICES ASSUME NEW i \in DOMAIN children, children[i].name = "author",
                      children[i].text = <<Closing>>
               PROVE  FALSE
    BY DEF HasLoneBracket
  <2>1. i \in 1 .. Len(children) /\ children[i] \in ItemChild /\ Len(children[i].text) < Width
    BY <1>4, LenProperties, ElementOfSeq
  <2>2. WalksAway(children[i])
    BY <2>1, WalksAwayIs
  <2> QED
    BY <1>5, <2>1, <2>2 DEF RssWalk
<1>8. \E name \in NamesIn(LastText({"author"})) :
        it'.author = FirstChoice(name, LastText({"dc:creator"}))
  <2> DEFINE text == TextBy(children, Len(children), {"author"})
  <2>1. /\ LastText({"author"}) = text
        /\ LastText({"dc:creator"}) = TextBy(children, Len(children), {"dc:creator"})
    BY <1>4, AllOfThem
  <2>2. text \in Text /\ Len(text) < Width /\ text # <<Closing>>
    <3>1. CASE text = <<>>
      <4>1. Len(<<>>) = 0 /\ <<>> # <<Closing>>
        OBVIOUS
      <4> HIDE DEF text
      <4> QED
        BY <3>1, <4>1, NoTextIsText, WidthIs
    <3>2. ASSUME NEW i \in DOMAIN children, text = children[i].text, children[i].name \in {"author"}
          PROVE  text \in Text /\ Len(text) < Width /\ text # <<Closing>>
      <4>1. children[i] \in ItemChild /\ children[i].text \in Text
        <5>1. i \in 1 .. Len(children)
          BY <1>4, LenProperties
        <5>2. children[i] \in ItemChild
          BY <1>4, <5>1, ElementOfSeq
        <5> QED
          BY <5>2 DEF ItemChild
      <4> HIDE DEF text
      <4> QED
        BY <1>4, <1>7, <3>2, <4>1 DEF HasLoneBracket
    <3> HIDE DEF text
    <3> QED
      BY <1>4, <3>1, <3>2, TextByIsText DEF text
  <2>3. Author(text) \in NamesIn(text)
    <3> HIDE DEF text
    <3> QED
      BY <2>2, AuthorIsName
  <2> QED
    BY <1>3, <1>5, <2>1, <2>3 DEF RssWalk
<1>9. /\ it'.pubDate = FirstChoice(format(LastText({"pubDate"})), format(LastText({"dc:date"})))
      /\ it'.enclosure = (IF Offering = {} THEN <<>> ELSE Offer(children[Max(Offering)]))
  BY <1>3, <1>4, <1>5, AllOfThem DEF RssWalk, OfferBy
<1>10. RssFieldsFound'
  <2>1. /\ \A names : LastText(names)' = LastText(names)
        /\ Offering' = Offering
    BY <1>1 DEF LastText, Named, Offering
  <2> QED
    BY <1>1, <1>8, <1>9, <2>1 DEF RssFieldsFound
<1>11. OnlyLoneBracketFails'
  BY <1>1, <1>7 DEF OnlyLoneBracketFails, HasLoneBracket
<1> QED
  BY <1>1, <1>6, <1>10, <1>11 DEF ItemInv, EntryDescriptionFound

LEMMA FinishAtomInv == ASSUME ItemInv, FinishAtom PROVE ItemInv'
<1> DEFINE n == Len(children)
           content == {"content"}
           summary == {"summary"}
<1>1. /\ itemPc = "atom" /\ ahead = <<>> /\ itemPc' = "atomDone"
      /\ it' = [it EXCEPT
                  !.description = IF @ = <<>> THEN second.summary ELSE @,
                  !.description_type = IF it.description = <<>> THEN second.summary_type ELSE @,
                  !.pubDate = IF @ = <<>> THEN second.date ELSE @]
      /\ UNCHANGED <<children, ahead, second>>
  BY DEF FinishAtom
<1>2. it \in ItemType
      /\ second \in [author : Text, date : Text, summary : Text, summary_type : Attributes]
  BY DEF ItemInv, ItemTypeOK
<1>3. /\ it' \in ItemType
      /\ it'.description = FirstChoice(it.description, second.summary)
      /\ it'.description_type = IF it.description = <<>> THEN second.summary_type
                                ELSE it.description_type
  BY <1>1, <1>2 DEF ItemType, FirstChoice
<1>4. children \in Seq(ItemChild)
  BY ItemNodesAreSeqs DEF ItemInv
<1>5. ItemTypeOK'
  BY <1>1, <1>3 DEF ItemInv, ItemTypeOK
<1>6. EntryDescriptionFound'
  <2> SUFFICES ASSUME AllKnown(children) PROVE EntryDescriptionFound'
    BY <1>1 DEF EntryDescriptionFound, AllKnown
  <2>1. /\ it.description = DescriptionBy(children, n, content)
        /\ it.description_type = TypeBy(children, n, content)
        /\ second.summary = DescriptionBy(children, n, summary)
        /\ second.summary_type = TypeBy(children, n, summary)
    BY <1>1, LastChild DEF AtomWalk
  <2>2. /\ Named(content) = NamedBy(children, n, content)
        /\ Named(summary) = NamedBy(children, n, summary)
        /\ LastText(content) = TextBy(children, n, content)
    BY <1>4, AllOfThem
  \* The content is empty exactly when its element is.
  <2>3. ASSUME NEW names, Named(names) = NamedBy(children, n, names), Named(names) # {}
        PROVE  LET c == children[Max(Named(names))]
                   plain == c.mode = "escaped" \/ c.type \in {"html", "text"}
               IN  /\ DescriptionBy(children, n, names) =
                        (IF plain \/ c.text = <<>> THEN c.text ELSE <<"markup">> \o c.text)
                   /\ TypeBy(children, n, names) = TypeOf(c)
                   /\ TextBy(children, n, names) = c.text
                   /\ DescriptionBy(children, n, names) = <<>> <=> c.text = <<>>
    <3> DEFINE c == children[Max(Named(names))]
    <3>1. Named(names) \in SUBSET (0 .. n) /\ n \in Nat
      BY <1>4 DEF Named
    <3>2. Max(Named(names)) \in Named(names)
      <4> HIDE DEF n
      <4> QED
        BY <2>3, <3>1, MaxOf, Zenon
    <3>3. Max(Named(names)) \in DOMAIN children /\ c \in ItemChild
      BY <1>4, <3>2, LenProperties, ElementOfSeq DEF Named
    <3>4. c.mode \in {"escaped", "xml", ""} /\ c.text \in Text
      BY <3>3 DEF AllKnown, KnownMode, ItemChild
    <3>5. /\ DescriptionBy(children, n, names) = Content(c, <<>>)
          /\ TypeBy(children, n, names) = TypeOf(c)
          /\ TextBy(children, n, names) = c.text
      BY <2>3 DEF DescriptionBy, TypeBy, TextBy
    <3> HIDE DEF c
    <3>6. c.text # <<>> => <<"markup">> \o c.text # <<>>
      <4>1. "markup" \in Characters
        BY FeedItemAssumption, Zenon
      <4>2. <<"markup">> \in Seq(Characters) /\ Len(<<"markup">>) = 1
        BY <4>1
      <4>3. Len(<<"markup">> \o c.text) = 1 + Len(c.text) /\ Len(c.text) \in Nat
        <5>1. c.text \in Seq(Characters)
          BY <3>4 DEF Text
        <5>2. Len(c.text) \in Nat
          BY <5>1, LenProperties
        <5> QED
          BY <4>2, <5>1, <5>2, ConcatProperties
      <4> QED
        BY <4>3
    <3>7. Content(c, <<>>) = (IF (c.mode = "escaped" \/ c.type \in {"html", "text"})
                                 \/ c.text = <<>>
                              THEN c.text ELSE <<"markup">> \o c.text)
      BY <3>4 DEF Content, Xml
    <3> QED
      BY <3>5, <3>6, <3>7 DEF c
  <2>4. \A names : Named(names)' = Named(names) /\ LastText(names)' = LastText(names)
    BY <1>1 DEF Named, LastText
  <2>5. Named(summary) = {} => second.summary = <<>> /\ second.summary_type = ""
    BY <2>1, <2>2 DEF DescriptionBy, TypeBy
  <2>6. Named(content) = {} => it.description = <<>> /\ LastText(content) = <<>>
    BY <2>1, <2>2 DEF DescriptionBy, TextBy
  <2> DEFINE Good(names) ==
               LET c == children[Max(Named(names))]
                   plain == c.mode = "escaped" \/ c.type \in {"html", "text"}
               IN  /\ it'.description = (IF plain \/ c.text = <<>> THEN c.text
                                         ELSE <<"markup">> \o c.text)
                   /\ it'.description_type = TypeOf(c)
  <2>7. CASE LastText(content) # <<>>
    <3>1. Named(content) # {} /\ it.description # <<>>
      BY <2>1, <2>2, <2>3, <2>6, <2>7
    <3>2. it'.description = it.description /\ it'.description_type = it.description_type
      BY <1>3, <3>1 DEF FirstChoice
    <3>3. Good(content)
      BY <2>1, <2>2, <2>3, <3>1, <3>2
    <3> HIDE DEF Good
    <3> QED
      BY <1>1, <2>4, <2>7, <3>1, <3>3 DEF EntryDescriptionFound, Good
  <2>8. CASE LastText(content) = <<>>
    <3>1. it.description = <<>>
      BY <2>1, <2>2, <2>3, <2>6, <2>8
    <3>2. it'.description = second.summary /\ it'.description_type = second.summary_type
      BY <1>3, <3>1 DEF FirstChoice
    <3>3. Named(summary) # {} => Good(summary)
      BY <2>1, <2>2, <2>3, <3>2
    <3> HIDE DEF Good
    <3> QED
      BY <1>1, <2>4, <2>5, <2>8, <3>2, <3>3 DEF EntryDescriptionFound, Good
  <2> QED
    BY <2>7, <2>8
<1> QED
  BY <1>1, <1>5, <1>6 DEF ItemInv, RssFieldsFound, OnlyLoneBracketFails

LEMMA NextItemInv == ItemInv /\ [ItemNext]_itemVars => ItemInv'
<1>1. ItemInv /\ UNCHANGED itemVars => ItemInv'
  <2> SUFFICES ASSUME ItemInv, UNCHANGED itemVars PROVE ItemInv'
    OBVIOUS
  <2> USE DEF ItemInv, itemVars
  <2>1. ItemTypeOK' /\ OnlyLoneBracketFails'
    BY DEF ItemTypeOK, OnlyLoneBracketFails, HasLoneBracket
  <2>2. itemPc \in {"rss", "atom"} => ItemWalk'
    BY DEF ItemWalk, RssWalk, AtomWalk, AllKnown
  <2>3. RssFieldsFound'
    BY DEF RssFieldsFound, Named, LastText, Offering
  <2>4. EntryDescriptionFound'
    BY DEF EntryDescriptionFound, Named, LastText
  <2> QED
    BY <2>1, <2>2, <2>3, <2>4
<1> QED
  BY <1>1, ReadRssInv, WalkAwayInv, FinishRssInv, ReadAtomInv, FinishAtomInv
  DEF ItemNext, ItemTerminated

LEMMA SpecItemInv == ItemSpec => []ItemInv
BY InitItemInv, NextItemInv, PTL DEF ItemSpec

\* Whatever the elements of an item or an entry are, its fields are texts.
THEOREM ItemTypeCorrect == ItemSpec => []ItemTypeOK
<1>1. ItemInv => ItemTypeOK
  BY DEF ItemInv
<1> QED
  BY <1>1, SpecItemInv, PTL

\* Second choices are taken only in want of first ones, in whatever order they
\* stand, and the name is cut out of the author as the document has it.
THEOREM FieldsAreFound == ItemSpec => []RssFieldsFound
<1>1. ItemInv => RssFieldsFound
  BY DEF ItemInv
<1> QED
  BY <1>1, SpecItemInv, PTL

\* A lone bracket as an author fails the feed, and nothing else does.
THEOREM LoneBracketFails == ItemSpec => []OnlyLoneBracketFails
<1>1. ItemInv => OnlyLoneBracketFails
  BY DEF ItemInv
<1> QED
  BY <1>1, SpecItemInv, PTL

\* Text and type of an entry's description come from the same element.
THEOREM DescriptionIsFound == ItemSpec => []EntryDescriptionFound
<1>1. ItemInv => EntryDescriptionFound
  BY DEF ItemInv
<1> QED
  BY <1>1, SpecItemInv, PTL

-----------------------------------------------------------------------------
(* FeedParser: texts at places, in the order of a document. *)

\* IsLastText and AreTexts with the texts of the places as a function.
LastOf(texts, text, places) ==
    IF places = {} THEN text = ""
    ELSE \E p \in places : texts[p] = text /\ \A q \in places : q = p \/ Before(q, p)
AllOf(texts, list, places) ==
    \E f \in [DOMAIN list -> places] :
        /\ \A i \in DOMAIN list : texts[f[i]] = list[i]
        /\ \A i, j \in DOMAIN list : i < j => Before(f[i], f[j])
        /\ \A p \in places : \E i \in DOMAIN list : f[i] = p

UpTo(places, p) == {q \in places : q = p \/ Before(q, p)}
NoneBetween(places, p, r) == \A q \in places : ~(Before(p, q) /\ Before(q, r))

LEMMA BeforeIsOrder ==
    ASSUME NEW p \in Nat \X Nat, NEW q \in Nat \X Nat, NEW r \in Nat \X Nat
    PROVE  /\ p = q \/ Before(p, q) \/ Before(q, p)
           /\ ~Before(p, p)
           /\ Before(p, q) => ~Before(q, p)
           /\ Before(p, q) /\ Before(q, r) => Before(p, r)
<1>1. p[1] \in Nat /\ p[2] \in Nat /\ q[1] \in Nat /\ q[2] \in Nat /\ r[1] \in Nat /\ r[2] \in Nat
  OBVIOUS
<1>2. p[1] = q[1] /\ p[2] = q[2] => p = q
  OBVIOUS
<1> QED
  BY <1>1, <1>2 DEF Before

\* The next place adds itself.
LEMMA UpToNext ==
    ASSUME NEW places \in SUBSET (Nat \X Nat), NEW p \in Nat \X Nat, NEW r \in Nat \X Nat,
           Before(p, r), NoneBetween(places, p, r)
    PROVE  /\ r \notin UpTo(places, p)
           /\ \A q \in UpTo(places, p) : Before(q, r)
           /\ UpTo(places, r) = IF r \in places THEN UpTo(places, p) \cup {r} ELSE UpTo(places, p)
<1>1. \A q \in UpTo(places, p) : q \in Nat \X Nat /\ (q = p \/ Before(q, p))
  BY DEF UpTo
<1>2. \A q \in UpTo(places, p) : Before(q, r)
  BY <1>1, BeforeIsOrder
<1>3. r \notin UpTo(places, p)
  BY <1>1, BeforeIsOrder
<1>4. ASSUME NEW q \in places, Before(q, r) PROVE q \in UpTo(places, p)
  BY <1>4, BeforeIsOrder DEF NoneBetween, UpTo
<1> QED
  BY <1>2, <1>3, <1>4 DEF UpTo

LEMMA LastGrows ==
    ASSUME NEW places \in SUBSET (Nat \X Nat), NEW p \in Nat \X Nat, NEW r \in Nat \X Nat,
           Before(p, r), NoneBetween(places, p, r),
           NEW texts, NEW text, LastOf(texts, text, UpTo(places, p))
    PROVE  LastOf(texts, IF r \in places THEN texts[r] ELSE text, UpTo(places, r))
<1>1. CASE r \in places
  <2>1. UpTo(places, r) = UpTo(places, p) \cup {r} /\ \A q \in UpTo(places, p) : Before(q, r)
    BY <1>1, UpToNext
  <2> QED
    BY <1>1, <2>1 DEF LastOf
<1>2. CASE r \notin places
  BY <1>2, UpToNext
<1> QED
  BY <1>1, <1>2

LEMMA AllGrow ==
    ASSUME NEW places \in SUBSET (Nat \X Nat), NEW p \in Nat \X Nat, NEW r \in Nat \X Nat,
           Before(p, r), NoneBetween(places, p, r),
           NEW texts, NEW list \in Seq(STRING), texts[r] \in STRING,
           AllOf(texts, list, UpTo(places, p))
    PROVE  AllOf(texts, IF r \in places THEN Append(list, texts[r]) ELSE list, UpTo(places, r))
<1>1. CASE r \in places
  <2>1. UpTo(places, r) = UpTo(places, p) \cup {r} /\ \A q \in UpTo(places, p) : Before(q, r)
    BY <1>1, UpToNext
  <2>2. PICK f \in [DOMAIN list -> UpTo(places, p)] :
          /\ \A i \in DOMAIN list : texts[f[i]] = list[i]
          /\ \A i, j \in DOMAIN list : i < j => Before(f[i], f[j])
          /\ \A q \in UpTo(places, p) : \E i \in DOMAIN list : f[i] = q
    BY DEF AllOf
  <2> DEFINE n == Len(list)
             more == Append(list, texts[r])
             g == [i \in 1 .. n + 1 |-> IF i = n + 1 THEN r ELSE f[i]]
  <2>3. /\ n \in Nat /\ DOMAIN list = 1 .. n /\ DOMAIN more = 1 .. n + 1
        /\ more[n + 1] = texts[r] /\ \A i \in 1 .. n : more[i] = list[i]
    OBVIOUS
  <2>4. \A i \in 1 .. n + 1 : i = n + 1 \/ (i \in 1 .. n /\ i # n + 1)
    BY <2>3
  <2>5. \A i \in 1 .. n : i \in 1 .. n + 1 /\ i # n + 1
    BY <2>3
  <2>6. /\ g[n + 1] = r /\ n + 1 \in 1 .. n + 1
        /\ \A i \in 1 .. n : g[i] = f[i]
    BY <2>3, <2>5
  <2>7. g \in [DOMAIN more -> UpTo(places, r)]
    <3> HIDE DEF n, more
    <3> QED
      BY <2>1, <2>2, <2>3, <2>4
  <2> HIDE DEF n, more, g
  <2>8. \A i \in DOMAIN more : texts[g[i]] = more[i]
    BY <2>2, <2>3, <2>4, <2>6
  <2>9. ASSUME NEW i \in DOMAIN more, NEW j \in DOMAIN more, i < j
        PROVE  Before(g[i], g[j])
    <3>1. i \in 1 .. n
      BY <2>3, <2>9
    <3>2. CASE j = n + 1
      BY <2>1, <2>2, <2>3, <2>6, <3>1, <3>2
    <3>3. CASE j \in 1 .. n
      BY <2>2, <2>3, <2>6, <2>9, <3>1, <3>3
    <3> QED
      BY <2>3, <2>4, <3>2, <3>3
  <2>10. \A q \in UpTo(places, r) : \E i \in DOMAIN more : g[i] = q
    BY <2>1, <2>2, <2>3, <2>5, <2>6
  <2>11. AllOf(texts, more, UpTo(places, r))
    BY <2>7, <2>8, <2>9, <2>10 DEF AllOf
  <2> QED
    BY <1>1, <2>11 DEF more
<1>2. CASE r \notin places
  BY <1>2, UpToNext
<1> QED
  BY <1>1, <1>2

-----------------------------------------------------------------------------
(* FeedParser: formats and namespaces. *)

VersionInv ==
    /\ node \in Documents
    /\ pc \in {"detect", "create", "walk", "podcast", "exception"}
    /\ pc \in {"detect", "create"} => feed = NoPodcast
    /\ Known => rss_version \in {"uninitialised", VersionOf(node)}
    /\ Known /\ pc \in {"create", "walk", "podcast"} =>
         rss_version = VersionOf(node) /\ rss_version \in Versions

\* The version of a document says its format.
Detected == Known /\ rss_version = VersionOf(node) /\ rss_version \in Versions

LEMMA VersionsAre ==
    ASSUME Known
    PROVE  VersionOf(node) \in Versions \cup {"exception"}
BY DEF Known, VersionOf, RssVersion, AtomVersion, Versions

LEMMA FormatIs ==
    ASSUME Detected
    PROVE  /\ rss_version \in Rss09xVersions <=> node.name = "rss"
           /\ rss_version = "RSS_1_0" <=> node.name = "RDF"
           /\ rss_version \in AtomVersions <=> node.name = "feed"
BY DEF Detected, Known, VersionOf, RssVersion, AtomVersion, Versions, Rss09xVersions, AtomVersions

LEMMA NsIs == ASSUME Detected PROVE ns = ExpectedNs
BY DEF Detected, Known, VersionOf, RssVersion, AtomVersion, Versions, ns, ExpectedNs, NULL,
       ATOM_0_3_URI, ATOM_1_0_URI, RSS20USERLAND_URI, RSS_1_0_NS

-----------------------------------------------------------------------------
(* FeedParser: the places of a document. *)

LEMMA DocumentsAre ==
    ASSUME node \in Documents
    PROVE  /\ node.children \in Seq(Element)
           /\ \A i \in DOMAIN node.children :
                /\ i \in Nat \ {0}
                /\ node.children[i] \in Element /\ node.children[i].children \in Seq(Leaf)
           /\ Seq(Leaf) \subseteq Seq(Element)
<1>1. node.children \in Seq(Element)
  BY FeedParserAssumption, Zenon
<1>2. Leaf \subseteq Element
  <2>1. <<>> \in Seq(Leaf)
    OBVIOUS
  <2> QED
    BY <2>1 DEF Leaf, Element
<1>3. Seq(Leaf) \subseteq Seq(Element)
  BY <1>2, SeqMonotonic
<1>4. ASSUME NEW i \in DOMAIN node.children
      PROVE  /\ i \in Nat \ {0}
             /\ node.children[i] \in Element /\ node.children[i].children \in Seq(Leaf)
  <2>1. i \in 1 .. Len(node.children) /\ Len(node.children) \in Nat
    BY <1>1, LenProperties
  <2>2. node.children[i] \in Element
    BY <1>1, <2>1, ElementOfSeq
  <2> QED
    BY <2>1, <2>2 DEF Element
<1> QED
  BY <1>1, <1>3, <1>4

LEMMA PlacesAre ==
    ASSUME node \in Documents
    PROVE  /\ \A p : p \in Places <=>
                /\ p = <<p[1], p[2]>> /\ p[1] \in DOMAIN node.children
                /\ p[2] \in 0 .. Len(node.children[p[1]].children)
           /\ Places \in SUBSET (Nat \X Nat)
<1>1. \A p : p \in Places <=>
        \E i \in DOMAIN node.children : p \in {i} \X (0 .. Len(node.children[i].children))
  BY DEF Places
<1>2. \A p, i, n : p \in {i} \X (0 .. n) <=> p = <<p[1], p[2]>> /\ p[1] = i /\ p[2] \in 0 .. n
  OBVIOUS
<1>3. \A p : p \in Places <=>
        /\ p = <<p[1], p[2]>> /\ p[1] \in DOMAIN node.children
        /\ p[2] \in 0 .. Len(node.children[p[1]].children)
  BY <1>1, <1>2
<1>4. ASSUME NEW p \in Places PROVE p \in Nat \X Nat
  <2>1. p = <<p[1], p[2]>> /\ p[1] \in Nat
    BY <1>3, DocumentsAre
  <2>2. p[2] \in Nat
    BY <1>3
  <2> QED
    BY <2>1, <2>2
<1> QED
  BY <1>3, <1>4

Sought == ItemPlaces \cup TitlePlaces \cup CreatorPlaces

LEMMA SoughtAre ==
    ASSUME node \in Documents, Known
    PROVE  /\ ItemPlaces \subseteq Places /\ TitlePlaces \subseteq Places
           /\ CreatorPlaces \subseteq Places
           /\ \A p \in Sought : p[2] = 0 \/ InChannel(p)
           /\ node.name = "rss" => \A p \in Sought : InChannel(p)
BY DEF Known, Sought, ItemPlaces, TitlePlaces, CreatorPlaces

\* What the parser makes of the element at a place.
LEMMA ElementIsRead ==
    ASSUME node \in Documents, Detected, NEW p \in Places, NEW t, t.node = At(p),
           \/ t.in = "channel" /\ InChannel(p)
           \/ t.in = "root" /\ p[2] = 0 /\ node.name # "rss"
    PROVE  /\ ItemIn(t) <=> p \in ItemPlaces
           /\ TitleIn(t) <=> p \in TitlePlaces
           /\ CreatorIn(t) <=> p \in CreatorPlaces
           /\ ChannelIn(t) <=> t.in = "root" /\ p[1] \in ChannelsRead
<1>1. ns = ExpectedNs
  BY NsIs
<1>2. InChannel(p) => p[2] # 0
  BY PlacesAre DEF InChannel
<1>3. p[1] \in DOMAIN node.children
  BY PlacesAre
<1>4. CASE node.name = "rss"
  <2>1. rss_version \in Rss09xVersions /\ rss_version # "RSS_1_0" /\ rss_version \notin AtomVersions
    BY <1>4, FormatIs
  <2> QED
    BY <1>1, <1>2, <1>4, <2>1
    DEF ItemIn, TitleIn, CreatorIn, ChannelIn, ItemPlaces, TitlePlaces, CreatorPlaces
<1>5. CASE node.name = "RDF"
  <2>1. rss_version \notin Rss09xVersions /\ rss_version = "RSS_1_0" /\ rss_version \notin AtomVersions
    BY <1>5, FormatIs
  <2>2. ExpectedNs = RSS_1_0_NS
    BY <1>5 DEF ExpectedNs
  <2>3. t.in = "root" => t.node = node.children[p[1]]
    BY <1>2 DEF At
  <2>4. ItemIn(t) <=> p \in ItemPlaces
    BY <1>1, <1>2, <1>5, <2>1 DEF ItemIn, ItemPlaces
  <2>5. TitleIn(t) <=> p \in TitlePlaces
    BY <1>1, <1>2, <1>5, <2>1 DEF TitleIn, TitlePlaces
  <2>6. CreatorIn(t) <=> p \in CreatorPlaces
    BY <1>1, <1>2, <1>5, <2>1 DEF CreatorIn, CreatorPlaces
  <2>7. ChannelIn(t) <=> t.in = "root" /\ p[1] \in ChannelsRead
    BY <1>1, <1>3, <1>5, <2>1, <2>2, <2>3 DEF ChannelIn, ChannelsRead, Channels, node_is
  <2> QED
    BY <2>4, <2>5, <2>6, <2>7
<1>6. CASE node.name = "feed"
  <2>1. rss_version \notin Rss09xVersions /\ rss_version # "RSS_1_0" /\ rss_version \in AtomVersions
    BY <1>6, FormatIs
  <2>2. ChannelsRead = {}
    BY <1>6 DEF ChannelsRead
  <2>3. t.in = "root" /\ p[2] = 0
    BY <2>2 DEF InChannel
  <2> QED
    BY <1>1, <1>6, <2>1, <2>2, <2>3
    DEF ItemIn, TitleIn, CreatorIn, ChannelIn, ItemPlaces, TitlePlaces, CreatorPlaces
<1> QED
  BY <1>4, <1>5, <1>6 DEF Detected, Known

-----------------------------------------------------------------------------
(* FeedParser: what is left to walk over. *)

Entries == [in : {"root", "channel"}, node : Element]

LEMMA InIsSeq ==
    ASSUME NEW parent \in {"root", "channel"}, NEW s \in Seq(Element)
    PROVE  /\ In(parent, s) \in Seq(Entries)
           /\ Len(In(parent, s)) = Len(s)
           /\ \A i \in 1 .. Len(s) : In(parent, s)[i] = [in |-> parent, node |-> s[i]]
<1>1. DOMAIN s = 1 .. Len(s) /\ Len(s) \in Nat /\ \A i \in 1 .. Len(s) : s[i] \in Element
  BY LenProperties, ElementOfSeq
<1>2. In(parent, s) = [i \in 1 .. Len(s) |-> [in |-> parent, node |-> s[i]]]
  BY <1>1 DEF In
<1>3. \A i \in 1 .. Len(s) : [in |-> parent, node |-> s[i]] \in Entries
  BY <1>1 DEF Entries
<1> QED
  BY <1>1, <1>2, <1>3

\* The children of one element and then those of another.
LEMMA TwoParts ==
    ASSUME NEW a \in {"root", "channel"}, NEW b \in {"root", "channel"},
           NEW s \in Seq(Element), NEW t \in Seq(Element)
    PROVE  LET todos == In(a, s) \o In(b, t)
           IN  /\ todos \in Seq(Entries)
               /\ todos = <<>> <=> s = <<>> /\ t = <<>>
               /\ s # <<>> => /\ Head(todos) = [in |-> a, node |-> Head(s)]
                              /\ Tail(todos) = In(a, Tail(s)) \o In(b, t)
               /\ s = <<>> /\ t # <<>> => /\ Head(todos) = [in |-> b, node |-> Head(t)]
                                          /\ Tail(todos) = In(b, Tail(t))
<1> DEFINE x == In(a, s)
           y == In(b, t)
<1>1. x \in Seq(Entries) /\ Len(x) = Len(s) /\ y \in Seq(Entries) /\ Len(y) = Len(t)
  BY InIsSeq
<1>2. ASSUME NEW c \in {"root", "channel"}, NEW u \in Seq(Element), u # <<>>
      PROVE  /\ In(c, u) # <<>> /\ Head(In(c, u)) = [in |-> c, node |-> Head(u)]
             /\ Tail(In(c, u)) = In(c, Tail(u))
  <2>1. Len(u) \in Nat \ {0} /\ 1 \in 1 .. Len(u) /\ Head(u) = u[1]
    BY <1>2, LenProperties
  <2>2. In(c, u) \in Seq(Entries) /\ Len(In(c, u)) = Len(u) /\ In(c, u) # <<>>
    BY <2>1, InIsSeq
  <2>3. Head(In(c, u)) = [in |-> c, node |-> u[1]]
    <3>1. In(c, u)[1] = [in |-> c, node |-> u[1]]
      BY <2>1, InIsSeq
    <3> QED
      BY <2>2, <3>1
  <2>4. Tail(u) \in Seq(Element) /\ Len(Tail(u)) = Len(u) - 1
        /\ \A i \in 1 .. Len(Tail(u)) : Tail(u)[i] = u[i + 1]
    BY <1>2, HeadTailProperties
  <2>5. /\ Tail(In(c, u)) \in Seq(Entries)
        /\ Len(Tail(In(c, u))) = Len(u) - 1
        /\ \A i \in 1 .. Len(Tail(In(c, u))) : Tail(In(c, u))[i] = In(c, u)[i + 1]
    BY <2>2, HeadTailProperties
  <2>6. /\ In(c, Tail(u)) \in Seq(Entries) /\ Len(In(c, Tail(u))) = Len(u) - 1
        /\ \A i \in 1 .. Len(u) - 1 : In(c, Tail(u))[i] = [in |-> c, node |-> Tail(u)[i]]
    BY <2>4, InIsSeq
  <2>7. \A i \in 1 .. Len(u) - 1 : i + 1 \in 1 .. Len(u)
    BY <2>1
  <2>8. \A i \in 1 .. Len(u) - 1 : Tail(In(c, u))[i] = In(c, Tail(u))[i]
    <3>1. \A i \in 1 .. Len(u) : In(c, u)[i] = [in |-> c, node |-> u[i]]
      BY InIsSeq
    <3> QED
      BY <2>4, <2>5, <2>6, <2>7, <3>1
  <2>9. Tail(In(c, u)) = In(c, Tail(u))
    BY <2>5, <2>6, <2>8, SeqEqual
  <2> QED
    BY <2>1, <2>2, <2>3, <2>9
<1>3. s = <<>> <=> x = <<>>
  BY <1>1
<1>4. t = <<>> <=> y = <<>>
  BY <1>1
<1>5. s # <<>> => Head(x) = [in |-> a, node |-> Head(s)] /\ Tail(x) = In(a, Tail(s))
  BY <1>2
<1>6. t # <<>> => Head(y) = [in |-> b, node |-> Head(t)] /\ Tail(y) = In(b, Tail(t))
  BY <1>2
<1> HIDE DEF x, y
<1>7. x \o y \in Seq(Entries) /\ (x \o y = <<>> <=> x = <<>> /\ y = <<>>)
  BY <1>1, ConcatProperties, ConcatEqualIffEmpty
<1>8. x # <<>> => Head(x \o y) = Head(x) /\ Tail(x \o y) = Tail(x) \o y
  BY <1>1
<1>9. x = <<>> => x \o y = y
  BY <1>1, ConcatEmptySeq
<1> QED
  BY <1>3, <1>4, <1>5, <1>6, <1>7, <1>8, <1>9 DEF x, y

\* The children of child i that are walked over, and the children after it.
Kids(i) == IF i \in ChannelsRead THEN node.children[i].children ELSE <<>>
After(i) == IF node.name = "rss" THEN <<>> ELSE SubSeq(node.children, i + 1, Len(node.children))

LEMMA KidsAre ==
    ASSUME node \in Documents, Known
    PROVE  /\ ChannelsRead \subseteq DOMAIN node.children
           /\ \A i : Kids(i) \in Seq(Element)
           /\ \A i \in 0 .. Len(node.children) : After(i) \in Seq(Element)
<1>1. ChannelsRead \subseteq Channels
  BY DEF Known, ChannelsRead
<1>2. ChannelsRead \subseteq DOMAIN node.children
  BY <1>1 DEF Channels
<1>3. ASSUME NEW i PROVE Kids(i) \in Seq(Element)
  <2>1. <<>> \in Seq(Element)
    OBVIOUS
  <2> QED
    BY <1>2, <2>1, DocumentsAre DEF Kids
<1>4. ASSUME NEW i \in 0 .. Len(node.children) PROVE After(i) \in Seq(Element)
  BY DocumentsAre DEF After
<1> QED
  BY <1>2, <1>3, <1>4

TextAt == [p \in Places |-> At(p).text]

Shape(f) == f = [title |-> f.title, creator |-> f.creator, items |-> f.items]
            /\ f.items \in Seq(STRING)

FoundBy(p) ==
    /\ Shape(feed)
    /\ LastOf(TextAt, feed.title, UpTo(TitlePlaces, p))
    /\ LastOf(TextAt, feed.creator, UpTo(CreatorPlaces, p))
    /\ AllOf(TextAt, feed.items, UpTo(ItemPlaces, p))

\* The walk is behind the place <<i, j>>, and has found what there is up to it.
WalkedTo(i, j) ==
    /\ i \in 0 .. Len(node.children) /\ j \in 0 .. Len(Kids(i))
    /\ node.name = "rss" => i \in ChannelsRead
    /\ todo = In("channel", SubSeq(Kids(i), j + 1, Len(Kids(i)))) \o In("root", After(i))
    /\ FoundBy(<<i, j>>)

FeedWalk == \E i \in 0 .. Len(node.children) : \E j \in 0 .. Len(Kids(i)) : WalkedTo(i, j)

ParserInv ==
    /\ VersionInv
    /\ Known /\ pc = "walk" => FeedWalk
    /\ pc = "podcast" /\ Known => Shape(podcast)
    /\ ReadsWholeFeed

LEMMA TextIsThere ==
    ASSUME node \in Documents, NEW p \in Places
    PROVE  TextAt[p] = At(p).text /\ At(p).text \in STRING /\ At(p) \in Element
<1>1. p[1] \in DOMAIN node.children /\ p[2] \in 0 .. Len(node.children[p[1]].children)
  BY PlacesAre
<1>2. node.children[p[1]] \in Element /\ node.children[p[1]].children \in Seq(Element)
  BY <1>1, DocumentsAre
<1>3. p[2] # 0 => p[2] \in 1 .. Len(node.children[p[1]].children)
  BY <1>1
<1>4. p[2] # 0 => node.children[p[1]].children[p[2]] \in Element
  BY <1>2, <1>3, ElementOfSeq
<1>5. At(p) \in Element
  BY <1>2, <1>4 DEF At
<1> QED
  BY <1>5 DEF TextAt, Element

LEMMA SameDocument ==
    ASSUME node' = node
    PROVE  /\ TextAt' = TextAt /\ TitlePlaces' = TitlePlaces /\ CreatorPlaces' = CreatorPlaces
           /\ ItemPlaces' = ItemPlaces /\ ChannelsRead' = ChannelsRead
           /\ \A i : Kids(i)' = Kids(i) /\ After(i)' = After(i)
<1>1. Places' = Places /\ (\A p : At(p)' = At(p)) /\ Channels' = Channels /\ ExpectedNs' = ExpectedNs
  BY DEF Places, At, Channels, ExpectedNs
<1>2. \A i : IsFirst(i)' <=> IsFirst(i)
  BY <1>1 DEF IsFirst
<1>3. ChannelsRead' = ChannelsRead
  BY <1>1, <1>2 DEF ChannelsRead
<1>4. \A p : InChannel(p)' <=> InChannel(p)
  BY <1>3 DEF InChannel
<1>5. TextAt' = TextAt
  BY <1>1 DEF TextAt
<1>6. TitlePlaces' = TitlePlaces
  BY <1>1, <1>4 DEF TitlePlaces
<1>7. CreatorPlaces' = CreatorPlaces
  BY <1>1, <1>4 DEF CreatorPlaces
<1>8. ItemPlaces' = ItemPlaces
  BY <1>1, <1>4 DEF ItemPlaces
<1>9. \A i : Kids(i)' = Kids(i) /\ After(i)' = After(i)
  BY <1>3 DEF Kids, After
<1> QED
  BY <1>3, <1>5, <1>6, <1>7, <1>8, <1>9

\* What one more element adds to the feed.
LEMMA FoundGrows ==
    ASSUME node \in Documents, Detected, NEW p \in Nat \X Nat, NEW r \in Places, Before(p, r),
           NoneBetween(Sought, p, r), FoundBy(p), NEW t, t.node = At(r),
           \/ t.in = "channel" /\ InChannel(r)
           \/ t.in = "root" /\ r[2] = 0 /\ node.name # "rss",
           feed' = Read(t), node' = node
    PROVE  FoundBy(r)'
<1>1. /\ ItemIn(t) <=> r \in ItemPlaces
      /\ TitleIn(t) <=> r \in TitlePlaces
      /\ CreatorIn(t) <=> r \in CreatorPlaces
  BY ElementIsRead
<1>2. /\ r \in ItemPlaces => t.node.name \in {"item", "entry"}
      /\ r \in TitlePlaces => t.node.name = "title"
      /\ r \in CreatorPlaces => t.node.name = "creator"
  BY <1>1 DEF ItemIn, TitleIn, CreatorIn, node_is
<1>3. t.node.text = TextAt[r] /\ TextAt[r] \in STRING
  BY TextIsThere
<1>4. /\ feed'.title = IF r \in TitlePlaces THEN TextAt[r] ELSE feed.title
      /\ feed'.creator = IF r \in CreatorPlaces THEN TextAt[r] ELSE feed.creator
      /\ feed'.items = IF r \in ItemPlaces THEN Append(feed.items, TextAt[r]) ELSE feed.items
      /\ Shape(feed')
  <2>1. Shape(feed)
    BY DEF FoundBy
  <2>2. PICK items \in Seq(STRING), text \in STRING :
          /\ feed = [title |-> feed.title, creator |-> feed.creator, items |-> items]
          /\ items = feed.items /\ text = TextAt[r]
          /\ Append(items, text) \in Seq(STRING)
    BY <1>3, <2>1 DEF Shape
  <2>3. CASE r \in ItemPlaces
    <3>1. r \notin TitlePlaces /\ r \notin CreatorPlaces
      BY <1>2, <2>3
    <3>2. feed' = [feed EXCEPT !.items = Append(@, text)]
      BY <1>1, <1>3, <2>2, <2>3 DEF Read
    <3> QED
      BY <2>2, <2>3, <3>1, <3>2 DEF Shape
  <2>4. CASE r \in TitlePlaces
    <3>1. r \notin ItemPlaces /\ r \notin CreatorPlaces
      BY <1>2, <2>4
    <3>2. feed' = [feed EXCEPT !.title = text]
      BY <1>1, <1>3, <2>2, <2>4, <3>1 DEF Read
    <3> QED
      BY <2>2, <2>4, <3>1, <3>2 DEF Shape
  <2>5. CASE r \in CreatorPlaces
    <3>1. r \notin ItemPlaces /\ r \notin TitlePlaces
      BY <1>2, <2>5
    <3>2. feed' = [feed EXCEPT !.creator = text]
      BY <1>1, <1>3, <2>2, <2>5, <3>1 DEF Read
    <3> QED
      BY <2>2, <2>5, <3>1, <3>2 DEF Shape
  <2>6. CASE r \notin ItemPlaces /\ r \notin TitlePlaces /\ r \notin CreatorPlaces
    BY <1>1, <2>1, <2>6 DEF Read
  <2> QED
    BY <2>3, <2>4, <2>5, <2>6
<1>5. /\ TitlePlaces \in SUBSET (Nat \X Nat) /\ CreatorPlaces \in SUBSET (Nat \X Nat)
      /\ ItemPlaces \in SUBSET (Nat \X Nat) /\ r \in Nat \X Nat
  BY SoughtAre, PlacesAre DEF Detected
<1>6. NoneBetween(TitlePlaces, p, r) /\ NoneBetween(CreatorPlaces, p, r)
      /\ NoneBetween(ItemPlaces, p, r)
  BY DEF NoneBetween, Sought
<1>7. LastOf(TextAt, feed'.title, UpTo(TitlePlaces, r))
  BY <1>4, <1>5, <1>6, LastGrows DEF FoundBy
<1>8. LastOf(TextAt, feed'.creator, UpTo(CreatorPlaces, r))
  BY <1>4, <1>5, <1>6, LastGrows DEF FoundBy
<1>9. AllOf(TextAt, feed'.items, UpTo(ItemPlaces, r))
  BY <1>3, <1>4, <1>5, <1>6, AllGrow DEF FoundBy, Shape
<1> QED
  BY <1>4, <1>7, <1>8, <1>9, SameDocument DEF FoundBy

\* A child of a channel is read.
LEMMA WalkOverKid ==
    ASSUME node \in Documents, Detected, Walk,
           NEW i \in 0 .. Len(node.children), NEW j \in 0 .. Len(Kids(i)), WalkedTo(i, j),
           j # Len(Kids(i))
    PROVE  WalkedTo(i, j + 1)'
<1> DEFINE kids == Kids(i)
           t == Head(todo)
<1>1. /\ kids \in Seq(Element) /\ After(i) \in Seq(Element)
      /\ ChannelsRead \subseteq DOMAIN node.children
  BY KidsAre DEF Detected
<1>2. Len(kids) \in Nat /\ j \in Nat /\ j + 1 \in 1 .. Len(kids) /\ j + 1 \in 0 .. Len(kids)
      /\ (j + 1) + 1 = j + 2
  BY <1>1, LenProperties
<1>3. SubSeq(kids, j + 1, Len(kids)) # <<>> /\ SubSeq(kids, j + 1, Len(kids)) \in Seq(Element)
  <2> HIDE DEF kids
  <2>1. j \in 0 .. Len(kids) /\ j # Len(kids)
    BY DEF kids
  <2> QED
    BY <1>1, <2>1, RestIsSeq
<1>4. /\ Head(SubSeq(kids, j + 1, Len(kids))) = kids[j + 1]
      /\ Tail(SubSeq(kids, j + 1, Len(kids))) = SubSeq(kids, j + 2, Len(kids))
  <2> HIDE DEF kids
  <2> QED
    BY <1>1, <1>2, <1>3, RestOf
<1>5. todo = In("channel", SubSeq(kids, j + 1, Len(kids))) \o In("root", After(i))
  BY DEF WalkedTo
<1>6. /\ t = [in |-> "channel", node |-> kids[j + 1]]
      /\ Tail(todo) = In("channel", SubSeq(kids, j + 2, Len(kids))) \o In("root", After(i))
      /\ Tail(todo) \in Seq(Entries)
  <2> HIDE DEF kids
  <2>1. SubSeq(kids, j + 2, Len(kids)) \in Seq(Element)
    BY <1>1, <1>2, RestIsSeq
  <2>2. PICK part \in Seq(Element), rest \in Seq(Element) :
          part = SubSeq(kids, j + 1, Len(kids)) /\ part # <<>> /\ rest = After(i)
    BY <1>1, <1>3
  <2>3. todo = In("channel", part) \o In("root", rest)
    BY <1>5, <2>2
  <2>4. /\ todo \in Seq(Entries) /\ Head(todo) = [in |-> "channel", node |-> Head(part)]
        /\ Tail(todo) = In("channel", Tail(part)) \o In("root", rest)
    BY <2>2, <2>3, TwoParts
  <2>5. Tail(part) \in Seq(Element)
    BY <2>2
  <2>6. Tail(todo) \in Seq(Entries)
    <3>1. PICK others \in Seq(Element) : others = Tail(part)
      BY <2>5
    <3>2. In("channel", others) \o In("root", rest) \in Seq(Entries)
      BY <2>2, TwoParts
    <3> QED
      BY <2>4, <3>1, <3>2
  <2> QED
    BY <1>4, <2>2, <2>4, <2>6
<1> DEFINE r == <<i, j + 1>>
<1>7. i \in ChannelsRead /\ kids = node.children[i].children
  BY <1>2 DEF Kids
<1>8. /\ r \in Places /\ r[1] = i /\ r[2] = j + 1 /\ r \in Nat \X Nat /\ <<i, j>> \in Nat \X Nat
      /\ InChannel(r) /\ At(r) = kids[j + 1]
  <2>1. r[1] = i /\ r[2] = j + 1 /\ r = <<r[1], r[2]>> /\ r[2] # 0 /\ r[2] > 0
    BY <1>2
  <2>2. i \in DOMAIN node.children /\ r[2] \in 0 .. Len(node.children[r[1]].children)
    BY <1>1, <1>2, <1>7, <2>1
  <2>3. r \in Places /\ r \in Nat \X Nat
    BY <2>1, <2>2, PlacesAre
  <2>4. InChannel(r)
    BY <1>7, <2>1 DEF InChannel
  <2>5. At(r) = kids[j + 1]
    BY <1>7, <2>1 DEF At
  <2>6. i \in Nat /\ j \in Nat
    BY <1>2
  <2> QED
    BY <2>1, <2>3, <2>4, <2>5, <2>6
<1>9. Before(<<i, j>>, r) /\ NoneBetween(Sought, <<i, j>>, r)
  <2>1. Before(<<i, j>>, r)
    BY <1>2, <1>8 DEF Before
  <2>2. ASSUME NEW q \in Sought, Before(<<i, j>>, q), Before(q, r) PROVE FALSE
    <3>1. q[1] \in Nat /\ q[2] \in Nat
      BY SoughtAre, PlacesAre DEF Sought, Detected
    <3>2. i \in Nat /\ <<i, j>>[1] = i /\ <<i, j>>[2] = j
      OBVIOUS
    <3> QED
      BY <1>2, <1>8, <2>2, <3>1, <3>2 DEF Before
  <2> QED
    BY <2>1, <2>2 DEF NoneBetween
<1>10. feed' = Read(t) /\ node' = node /\ todo' = (IF ChannelIn(t) THEN In("channel", t.node.children)
                                                   ELSE <<>>) \o Tail(todo)
  BY DEF Walk
<1>11. ~ChannelIn(t) /\ t.in = "channel" /\ t.node = At(r)
  BY <1>6, <1>8 DEF ChannelIn
<1>12. todo' = Tail(todo)
  BY <1>6, <1>10, <1>11, ConcatEmptySeq
<1>13. FoundBy(<<i, j>>)
  BY DEF WalkedTo
<1>14. FoundBy(r)'
  <2> HIDE DEF r, t
  <2> QED
    BY <1>8, <1>9, <1>10, <1>11, <1>13, FoundGrows
<1>15. Kids(i)' = Kids(i) /\ After(i)' = After(i) /\ ChannelsRead' = ChannelsRead
  BY <1>10, SameDocument
<1> QED
  BY <1>2, <1>6, <1>7, <1>10, <1>12, <1>14, <1>15 DEF WalkedTo

\* Whatever is looked for is a child of the root or one that is walked over.
LEMMA SoughtStand ==
    ASSUME node \in Documents, Known, NEW q \in Sought
    PROVE  /\ q = <<q[1], q[2]>> /\ q[1] \in DOMAIN node.children /\ q[1] \in Nat \ {0}
           /\ q[1] <= Len(node.children) /\ Len(node.children) \in Nat
           /\ q[2] \in Nat /\ q[2] <= Len(Kids(q[1])) /\ Len(Kids(q[1])) \in Nat
           /\ node.name = "rss" => q[1] \in ChannelsRead /\ q[2] > 0
<1>1. q \in Places
  BY SoughtAre DEF Sought
<1>2. /\ q = <<q[1], q[2]>> /\ q[1] \in DOMAIN node.children
      /\ q[2] \in 0 .. Len(node.children[q[1]].children)
  BY <1>1, PlacesAre
<1>3. q[1] \in Nat \ {0} /\ node.children \in Seq(Element)
  BY <1>2, DocumentsAre
<1>4. q[1] <= Len(node.children) /\ Len(node.children) \in Nat
  BY <1>2, <1>3, LenProperties
<1>5. Kids(q[1]) \in Seq(Element) /\ Len(Kids(q[1])) \in Nat
  BY KidsAre, LenProperties
<1>6. q[2] \in Nat
  BY <1>2
<1>7. q[2] = 0 \/ InChannel(q)
  BY SoughtAre
<1>8. InChannel(q) => Kids(q[1]) = node.children[q[1]].children
  BY DEF InChannel, Kids
<1>9. q[2] <= Len(Kids(q[1]))
  BY <1>2, <1>5, <1>6, <1>7, <1>8
<1>10. node.name = "rss" => q[1] \in ChannelsRead /\ q[2] > 0
  BY SoughtAre DEF InChannel
<1> QED
  BY <1>2, <1>3, <1>4, <1>5, <1>6, <1>9, <1>10

\* An RSS feed is read from one channel.
LEMMA OneChannel ==
    ASSUME node \in Documents, node.name = "rss", NEW a \in ChannelsRead, NEW b \in ChannelsRead
    PROVE  a = b
<1>1. IsFirst(a) /\ IsFirst(b) /\ a \in Channels /\ b \in Channels
  BY DEF ChannelsRead, IsFirst
<1>2. a \in Nat /\ b \in Nat
  BY <1>1, DocumentsAre DEF Channels
<1>3. a <= b /\ b <= a
  BY <1>1 DEF IsFirst
<1> QED
  BY <1>2, <1>3

\* A child of the root is read, and its children put in front if it is a channel.
LEMMA WalkOverChild ==
    ASSUME node \in Documents, Detected, Walk,
           NEW i \in 0 .. Len(node.children), WalkedTo(i, Len(Kids(i)))
    PROVE  i # Len(node.children) /\ WalkedTo(i + 1, 0)'
<1> DEFINE kids == Kids(i)
           roots == node.children
           t == Head(todo)
           r == <<i + 1, 0>>
<1>1. /\ kids \in Seq(Element) /\ After(i) \in Seq(Element) /\ roots \in Seq(Element)
      /\ \A k : Kids(k) \in Seq(Element)
      /\ Len(roots) \in Nat /\ i \in Nat /\ i \in 0 .. Len(roots)
      /\ Len(kids) \in 0 .. Len(kids) /\ Len(kids) \in Nat
  BY KidsAre, DocumentsAre, LenProperties DEF Detected
<1>2. SubSeq(kids, Len(kids) + 1, Len(kids)) = <<>>
  <2> HIDE DEF kids
  <2> QED
    BY <1>1, RestIsSeq
<1>3. todo = In("channel", <<>>) \o In("root", After(i)) /\ todo # <<>>
  BY <1>2 DEF WalkedTo, Walk
<1>4. <<>> \in Seq(Element)
  OBVIOUS
<1>5. After(i) # <<>> /\ t = [in |-> "root", node |-> Head(After(i))]
      /\ Tail(todo) = In("root", Tail(After(i)))
  BY <1>1, <1>3, <1>4, TwoParts
<1>6. node.name # "rss" /\ After(i) = SubSeq(roots, i + 1, Len(roots))
  BY <1>5 DEF After
<1>7. i # Len(roots)
  <2> HIDE DEF roots
  <2> QED
    BY <1>1, <1>5, <1>6, RestIsSeq
<1>8. /\ i + 1 \in DOMAIN roots /\ Head(After(i)) = roots[i + 1]
      /\ Tail(After(i)) = SubSeq(roots, i + 2, Len(roots))
  <2> HIDE DEF roots
  <2> QED
    BY <1>1, <1>5, <1>6, RestOf
<1>9. Tail(After(i)) = After(i + 1) /\ i + 1 \in 0 .. Len(roots) /\ After(i + 1) \in Seq(Element)
  <2>1. (i + 1) + 1 = i + 2 /\ i + 1 \in 0 .. Len(roots)
    BY <1>1, <1>7
  <2> QED
    BY <1>6, <1>8, <2>1, KidsAre DEF After, Detected
<1>10. /\ r \in Places /\ r[1] = i + 1 /\ r[2] = 0 /\ At(r) = roots[i + 1]
       /\ <<i, Len(kids)>> \in Nat \X Nat
  <2>1. r = <<r[1], r[2]>> /\ r[1] = i + 1 /\ r[2] = 0
    OBVIOUS
  <2>2. Len(roots[i + 1].children) \in Nat
    BY <1>8, DocumentsAre, LenProperties
  <2>3. r[2] \in 0 .. Len(roots[r[1]].children)
    BY <2>1, <2>2
  <2>4. r \in Places
    BY <1>8, <2>1, <2>3, PlacesAre
  <2> QED
    BY <1>1, <2>1, <2>4 DEF At
<1>11. Before(<<i, Len(kids)>>, r) /\ NoneBetween(Sought, <<i, Len(kids)>>, r)
  <2>1. /\ <<i, Len(kids)>>[1] = i /\ <<i, Len(kids)>>[2] = Len(kids)
        /\ r[1] = i + 1 /\ r[2] = 0
    OBVIOUS
  <2> HIDE DEF kids, r
  <2>2. Before(<<i, Len(kids)>>, r)
    BY <1>1, <2>1 DEF Before
  <2>3. ASSUME NEW q \in Sought, Before(<<i, Len(kids)>>, q), Before(q, r) PROVE FALSE
    <3>1. q[1] \in Nat /\ q[2] \in Nat /\ q[2] <= Len(Kids(q[1]))
      BY SoughtStand DEF Detected
    <3>2. q[1] = i
      BY <1>1, <2>1, <2>3, <3>1 DEF Before
    <3>3. q[2] > Len(kids)
      BY <1>1, <2>1, <2>3, <3>1, <3>2 DEF Before
    <3> QED
      BY <1>1, <3>1, <3>2, <3>3 DEF kids
  <2> QED
    BY <2>2, <2>3 DEF NoneBetween
<1>12. /\ feed' = Read(t) /\ node' = node
       /\ todo' = (IF ChannelIn(t) THEN In("channel", t.node.children) ELSE <<>>) \o Tail(todo)
  BY DEF Walk
<1>13. t.in = "root" /\ t.node = At(r)
  BY <1>5, <1>8, <1>10
<1>14. FoundBy(<<i, Len(kids)>>)
  BY DEF WalkedTo
<1>15. FoundBy(r)'
  <2> HIDE DEF r, t, kids
  <2> QED
    BY <1>6, <1>10, <1>11, <1>12, <1>13, <1>14, FoundGrows
<1>16. ChannelIn(t) <=> i + 1 \in ChannelsRead
  <2> HIDE DEF r, t
  <2> QED
    BY <1>6, <1>10, <1>13, ElementIsRead
<1>17. todo' = In("channel", Kids(i + 1)) \o In("root", After(i + 1))
  <2>1. CASE i + 1 \in ChannelsRead
    <3>1. Kids(i + 1) = t.node.children
      BY <1>10, <1>13, <2>1 DEF Kids
    <3> QED
      BY <1>5, <1>9, <1>12, <1>16, <2>1, <3>1
  <2>2. CASE i + 1 \notin ChannelsRead
    <3>1. Kids(i + 1) = <<>> /\ In("channel", <<>>) = <<>>
      BY <2>2 DEF Kids, In
    <3> QED
      BY <1>5, <1>9, <1>12, <1>16, <2>2, <3>1
  <2> QED
    BY <2>1, <2>2
<1>18. PICK more \in Seq(Element) : more = Kids(i + 1)
  BY <1>1
<1>19. SubSeq(more, 0 + 1, Len(more)) = more /\ Len(more) \in Nat /\ 0 \in 0 .. Len(more)
  OBVIOUS
<1>20. /\ Kids(i + 1)' = Kids(i + 1) /\ After(i + 1)' = After(i + 1)
       /\ ChannelsRead' = ChannelsRead
  BY <1>12, SameDocument
<1> QED
  BY <1>6, <1>7, <1>9, <1>12, <1>15, <1>17, <1>18, <1>19, <1>20 DEF WalkedTo

\* A list that has not been walked over.
LEMMA WholeRest ==
    ASSUME NEW S, NEW s \in Seq(S)
    PROVE  SubSeq(s, 0 + 1, Len(s)) = s /\ Len(s) \in Nat /\ 0 \in 0 .. Len(s)
OBVIOUS

\* Nothing was found in front of the first place.
LEMMA NothingFound ==
    ASSUME NEW places, NEW p, \A q \in places : q # p /\ ~Before(q, p), feed = NoPodcast
    PROVE  /\ Shape(feed)
           /\ LastOf(TextAt, feed.title, UpTo(places, p))
           /\ LastOf(TextAt, feed.creator, UpTo(places, p))
           /\ AllOf(TextAt, feed.items, UpTo(places, p))
<1>1. UpTo(places, p) = {}
  BY DEF UpTo
<1>2. feed.title = "" /\ feed.creator = "" /\ feed.items = <<>>
  BY DEF NoPodcast
<1>3. Shape(feed)
  <2>1. <<>> \in Seq(STRING)
    BY EmptySeq
  <2> QED
    BY <1>2, <2>1 DEF NoPodcast, Shape
<1>4. AllOf(TextAt, feed.items, {})
  <2>1. DOMAIN feed.items = {}
    <3>1. PICK list \in Seq(STRING) : list = <<>> /\ Len(list) = 0
      BY EmptySeq
    <3>2. DOMAIN list = {}
      BY <3>1
    <3> QED
      BY <1>2, <3>1, <3>2
  <2>2. [i \in {} |-> 0] \in [{} -> {}]
    OBVIOUS
  <2> QED
    BY <2>1, <2>2 DEF AllOf
<1> QED
  BY <1>1, <1>2, <1>3, <1>4 DEF LastOf

LEMMA CreateWalk ==
    ASSUME node \in Documents, Detected, feed = NoPodcast, Create
    PROVE  FeedWalk'
<1>1. /\ node.children \in Seq(Element) /\ \A i : Kids(i) \in Seq(Element)
      /\ Len(node.children) \in Nat
  BY DocumentsAre, KidsAre, LenProperties DEF Detected
<1>2. node' = node /\ feed' = feed
  BY DEF Create
<1>3. CASE node.name = "rss"
  <2>1. PICK i \in Channels : IsFirst(i) /\ todo' = In("channel", node.children[i].children)
    <3>1. rss_version \in Rss09xVersions /\ rss_version \notin AtomVersions
          /\ rss_version # "RSS_1_0"
      BY <1>3, FormatIs
    <3> QED
      BY <3>1 DEF Create
  <2>2. i \in ChannelsRead /\ i \in DOMAIN node.children /\ i \in Nat \ {0}
        /\ i \in 0 .. Len(node.children)
    <3>1. i \in ChannelsRead /\ i \in DOMAIN node.children
      BY <1>3, <2>1 DEF ChannelsRead, Channels
    <3> QED
      BY <1>1, <3>1, DocumentsAre, LenProperties
  <2>3. Kids(i) = node.children[i].children
    BY <2>2 DEF Kids
  <2>4. PICK kids \in Seq(Element) : kids = Kids(i)
    BY <1>1
  <2>5. SubSeq(kids, 0 + 1, Len(kids)) = kids /\ 0 \in 0 .. Len(kids)
    BY WholeRest
  <2>6. todo' = In("channel", kids) \o In("root", <<>>)
    <3>1. In("root", <<>>) = <<>>
      BY DEF In
    <3>2. In("channel", kids) \in Seq(Entries)
      BY InIsSeq
    <3> QED
      BY <2>1, <2>3, <2>4, <3>1, <3>2, ConcatEmptySeq
  <2>7. After(i) = <<>>
    BY <1>3 DEF After
  <2>8. \A q \in Sought : q # <<i, 0>> /\ ~Before(q, <<i, 0>>)
    <3> SUFFICES ASSUME NEW q \in Sought PROVE q # <<i, 0>> /\ ~Before(q, <<i, 0>>)
      OBVIOUS
    <3>1. q[1] \in ChannelsRead /\ q[2] > 0 /\ q[2] \in Nat
      BY <1>3, SoughtStand DEF Detected
    <3>2. q[1] = i
      BY <1>3, <2>2, <3>1, OneChannel
    <3>3. <<i, 0>>[1] = i /\ <<i, 0>>[2] = 0
      OBVIOUS
    <3> QED
      BY <2>2, <3>1, <3>2, <3>3 DEF Before
  <2>9. FoundBy(<<i, 0>>)
    BY <2>8, NothingFound DEF FoundBy, Sought
  <2>10. FoundBy(<<i, 0>>)'
    BY <1>2, <2>9, SameDocument DEF FoundBy
  <2>11. Kids(i)' = Kids(i) /\ After(i)' = After(i) /\ ChannelsRead' = ChannelsRead
    BY <1>2, SameDocument
  <2>12. WalkedTo(i, 0)'
    BY <1>2, <2>2, <2>4, <2>5, <2>6, <2>7, <2>10, <2>11 DEF WalkedTo
  <2> QED
    BY <2>12 DEF FeedWalk, WalkedTo
<1>4. CASE node.name # "rss"
  <2>1. todo' = In("root", node.children)
    <3>1. rss_version \notin Rss09xVersions
      BY <1>4, FormatIs
    <3> QED
      BY <3>1 DEF Create
  <2>2. 0 \in 0 .. Len(node.children) /\ 0 \notin DOMAIN node.children
    BY <1>1, DocumentsAre
  <2>3. Kids(0) = <<>>
    BY <2>2, KidsAre DEF Kids, Detected
  <2>4. SubSeq(Kids(0), 0 + 1, Len(Kids(0))) = <<>> /\ 0 \in 0 .. Len(Kids(0))
    <3>1. <<>> \in Seq(Element)
      OBVIOUS
    <3> QED
      BY <2>3, <3>1, WholeRest
  <2>5. After(0) = node.children
    BY <1>1, <1>4, WholeRest DEF After
  <2>6. todo' = In("channel", <<>>) \o In("root", After(0))
    <3>1. In("channel", <<>>) = <<>>
      BY DEF In
    <3>2. In("root", node.children) \in Seq(Entries)
      BY <1>1, InIsSeq
    <3> QED
      BY <2>1, <2>5, <3>1, <3>2, ConcatEmptySeq
  <2>7. \A q \in Sought : q # <<0, 0>> /\ ~Before(q, <<0, 0>>)
    <3> SUFFICES ASSUME NEW q \in Sought PROVE q # <<0, 0>> /\ ~Before(q, <<0, 0>>)
      OBVIOUS
    <3>1. q[1] \in Nat \ {0} /\ q[2] \in Nat
      BY SoughtStand DEF Detected
    <3>2. <<0, 0>>[1] = 0 /\ <<0, 0>>[2] = 0
      OBVIOUS
    <3> QED
      BY <3>1, <3>2 DEF Before
  <2>8. FoundBy(<<0, 0>>)
    BY <2>7, NothingFound DEF FoundBy, Sought
  <2>9. FoundBy(<<0, 0>>)'
    BY <1>2, <2>8, SameDocument DEF FoundBy
  <2>10. Kids(0)' = Kids(0) /\ After(0)' = After(0)
    BY <1>2, SameDocument
  <2>11. WalkedTo(0, 0)'
    BY <1>2, <1>4, <2>2, <2>4, <2>6, <2>9, <2>10 DEF WalkedTo
  <2> QED
    BY <2>11 DEF FeedWalk, WalkedTo
<1> QED
  BY <1>3, <1>4

LEMMA WalkWalk ==
    ASSUME node \in Documents, Detected, Walk, FeedWalk
    PROVE  FeedWalk'
<1>1. PICK i \in 0 .. Len(node.children) : \E j \in 0 .. Len(Kids(i)) : WalkedTo(i, j)
  BY DEF FeedWalk
<1>2. PICK j \in 0 .. Len(Kids(i)) : WalkedTo(i, j)
  BY <1>1
<1>3. CASE j # Len(Kids(i))
  <2>1. WalkedTo(i, j + 1)'
    BY <1>2, <1>3, WalkOverKid
  <2> QED
    BY <2>1 DEF FeedWalk, WalkedTo
<1>4. CASE j = Len(Kids(i))
  <2>1. WalkedTo(i + 1, 0)'
    BY <1>2, <1>4, WalkOverChild
  <2> QED
    BY <2>1 DEF FeedWalk, WalkedTo
<1> QED
  BY <1>3, <1>4

\* When nothing is left, everything has been found.
LEMMA WholeFeedFound ==
    ASSUME node \in Documents, Detected, FeedWalk, todo = <<>>
    PROVE  /\ Shape(feed)
           /\ IsLastText(feed.title, TitlePlaces)
           /\ IsLastText(feed.creator, CreatorPlaces)
           /\ AreTexts(feed.items, ItemPlaces)
<1>1. PICK i \in 0 .. Len(node.children) : \E j \in 0 .. Len(Kids(i)) : WalkedTo(i, j)
  BY DEF FeedWalk
<1>2. PICK j \in 0 .. Len(Kids(i)) : WalkedTo(i, j)
  BY <1>1
<1>3. PICK kids \in Seq(Element), rest \in Seq(Element) : kids = Kids(i) /\ rest = After(i)
  BY KidsAre DEF Detected
<1>4. SubSeq(kids, j + 1, Len(kids)) \in Seq(Element) /\ j \in 0 .. Len(kids)
  BY <1>3, RestIsSeq
<1>5. PICK part \in Seq(Element) : part = SubSeq(kids, j + 1, Len(kids))
  BY <1>4
<1>6. In("channel", part) \o In("root", rest) = <<>>
  BY <1>2, <1>3, <1>5 DEF WalkedTo
<1>7. part = <<>> /\ rest = <<>>
  BY <1>6, TwoParts
<1>8. j = Len(kids)
  BY <1>4, <1>5, <1>7, NoRest
<1>9. node.name # "rss" => i = Len(node.children)
  <2>1. node.name # "rss" => SubSeq(node.children, i + 1, Len(node.children)) = <<>>
    BY <1>3, <1>7 DEF After
  <2>2. PICK s \in Seq(Element) : s = node.children
    BY DocumentsAre
  <2>3. SubSeq(s, i + 1, Len(s)) = <<>> => i = Len(s)
    BY <2>2, NoRest
  <2> QED
    BY <2>1, <2>2, <2>3
<1>10. ASSUME NEW q \in Sought PROVE q = <<i, j>> \/ Before(q, <<i, j>>)
  <2>1. /\ q = <<q[1], q[2]>> /\ q[1] \in Nat /\ q[1] <= Len(node.children)
        /\ Len(node.children) \in Nat /\ q[2] \in Nat /\ q[2] <= Len(Kids(q[1]))
        /\ node.name = "rss" => q[1] \in ChannelsRead
    BY SoughtStand DEF Detected
  <2>2. node.name = "rss" => q[1] = i
    BY <1>2, <2>1, OneChannel DEF WalkedTo
  <2>3. i \in Nat /\ j \in Nat /\ <<i, j>>[1] = i /\ <<i, j>>[2] = j
    BY <1>4
  <2>4. q[1] = i => q[2] <= j
    BY <1>3, <1>8, <2>1
  <2>5. q[1] <= i
    BY <1>9, <2>1, <2>2, <2>3
  <2>6. q[1] = i /\ q[2] = j => q = <<i, j>>
    BY <2>1
  <2> QED
    BY <2>1, <2>3, <2>4, <2>5, <2>6 DEF Before
<1>11. ASSUME NEW places \in SUBSET Sought PROVE UpTo(places, <<i, j>>) = places
  BY <1>10 DEF UpTo
<1>12. /\ Shape(feed)
       /\ LastOf(TextAt, feed.title, TitlePlaces)
       /\ LastOf(TextAt, feed.creator, CreatorPlaces)
       /\ AllOf(TextAt, feed.items, ItemPlaces)
  <2>1. /\ UpTo(TitlePlaces, <<i, j>>) = TitlePlaces
        /\ UpTo(CreatorPlaces, <<i, j>>) = CreatorPlaces
        /\ UpTo(ItemPlaces, <<i, j>>) = ItemPlaces
    BY <1>11 DEF Sought
  <2> QED
    BY <1>2, <2>1 DEF WalkedTo, FoundBy
<1>13. TitlePlaces \subseteq Places /\ CreatorPlaces \subseteq Places /\ ItemPlaces \subseteq Places
  BY SoughtAre DEF Detected
<1>14. IsLastText(feed.title, TitlePlaces) /\ IsLastText(feed.creator, CreatorPlaces)
  BY <1>12, <1>13 DEF IsLastText, LastOf, TextAt
<1>15. AreTexts(feed.items, ItemPlaces)
  <2>1. PICK f \in [DOMAIN feed.items -> ItemPlaces] :
          /\ \A k \in DOMAIN feed.items : TextAt[f[k]] = feed.items[k]
          /\ \A k, l \in DOMAIN feed.items : k < l => Before(f[k], f[l])
          /\ \A p \in ItemPlaces : \E k \in DOMAIN feed.items : f[k] = p
    BY <1>12 DEF AllOf
  <2>2. \A k \in DOMAIN feed.items : At(f[k]).text = feed.items[k]
    BY <1>13, <2>1 DEF TextAt
  <2> QED
    BY <2>1, <2>2 DEF AreTexts
<1> QED
  BY <1>12, <1>14, <1>15

-----------------------------------------------------------------------------
(* FeedParser: the invariant of the whole parser. *)

LEMMA InitParserInv == Init => ParserInv
<1> SUFFICES ASSUME Init PROVE ParserInv
  OBVIOUS
<1>1. VersionInv
  BY DEF Init, VersionInv
<1>2. pc = "detect"
  BY DEF Init
<1> QED
  BY <1>1, <1>2 DEF ParserInv, ReadsWholeFeed

LEMMA FailParserInv ==
    ASSUME ParserInv, Fail
    PROVE  ParserInv'
<1>1. pc' = "exception" /\ node' = node /\ rss_version' = rss_version /\ feed' = feed
  BY DEF Fail
<1>2. VersionInv'
  BY <1>1 DEF ParserInv, VersionInv, Known, VersionOf
<1> QED
  BY <1>1, <1>2 DEF ParserInv, ReadsWholeFeed

LEMMA DetectVersionInv ==
    ASSUME ParserInv, DetectVersion
    PROVE  ParserInv'
<1>1. pc = "detect" /\ pc' = "create" /\ node' = node /\ feed' = feed /\ (Known' <=> Known)
      /\ VersionOf(node)' = VersionOf(node)
  BY DEF DetectVersion, Known, VersionOf
<1>2. ASSUME Known
      PROVE  rss_version' = VersionOf(node) /\ VersionOf(node) \in Versions
  <2>1. VersionOf(node) \in Versions /\ VersionOf(node) # "uninitialised"
    BY <1>2, VersionsAre DEF DetectVersion, Versions
  <2> QED
    BY <2>1 DEF DetectVersion
<1>3. VersionInv'
  BY <1>1, <1>2 DEF ParserInv, VersionInv
<1> QED
  BY <1>1, <1>3 DEF ParserInv, ReadsWholeFeed

\* An action that leaves the document and its version alone.
LEMMA SameVersion ==
    ASSUME VersionInv, pc \in {"create", "walk"}, pc' \in {"walk", "podcast"},
           node' = node, rss_version' = rss_version
    PROVE  VersionInv' /\ (Known' <=> Known) /\ (Known => Detected)
<1>1. (Known' <=> Known) /\ VersionOf(node)' = VersionOf(node)
  BY DEF Known, VersionOf
<1> QED
  BY <1>1 DEF VersionInv, Detected

LEMMA CreateInv ==
    ASSUME ParserInv, Create
    PROVE  ParserInv'
<1>1. /\ pc = "create" /\ pc' = "walk" /\ node' = node /\ rss_version' = rss_version
      /\ node \in Documents /\ feed = NoPodcast
  BY DEF Create, ParserInv, VersionInv
<1>2. VersionInv' /\ (Known' <=> Known) /\ (Known => Detected)
  BY <1>1, SameVersion DEF ParserInv
<1>3. Known => FeedWalk'
  BY <1>1, <1>2, CreateWalk
<1> QED
  BY <1>1, <1>2, <1>3 DEF ParserInv, ReadsWholeFeed

LEMMA WalkInv ==
    ASSUME ParserInv, Walk
    PROVE  ParserInv'
<1>1. /\ pc = "walk" /\ pc' = "walk" /\ node' = node /\ rss_version' = rss_version
      /\ node \in Documents
  BY DEF Walk, ParserInv, VersionInv
<1>2. VersionInv' /\ (Known' <=> Known) /\ (Known => Detected)
  BY <1>1, SameVersion DEF ParserInv
<1>3. Known => FeedWalk'
  BY <1>1, <1>2, WalkWalk DEF ParserInv
<1> QED
  BY <1>1, <1>2, <1>3 DEF ParserInv, ReadsWholeFeed

LEMMA FinishInv ==
    ASSUME ParserInv, Finish
    PROVE  ParserInv'
<1>1. /\ pc = "walk" /\ pc' = "podcast" /\ node' = node /\ rss_version' = rss_version
      /\ node \in Documents /\ podcast' = feed /\ todo = <<>>
  BY DEF Finish, ParserInv, VersionInv
<1>2. VersionInv' /\ (Known' <=> Known) /\ (Known => Detected)
  BY <1>1, SameVersion DEF ParserInv
<1>3. ASSUME Known
      PROVE  /\ Shape(feed)
             /\ IsLastText(feed.title, TitlePlaces)
             /\ IsLastText(feed.creator, CreatorPlaces)
             /\ AreTexts(feed.items, ItemPlaces)
  BY <1>1, <1>2, <1>3, WholeFeedFound DEF ParserInv
<1>4. /\ TitlePlaces' = TitlePlaces /\ CreatorPlaces' = CreatorPlaces /\ ItemPlaces' = ItemPlaces
      /\ \A p : At(p)' = At(p)
  BY <1>1, SameDocument DEF At
<1>5. ASSUME Known
      PROVE  /\ Shape(podcast)'
             /\ IsLastText(podcast.title, TitlePlaces)'
             /\ IsLastText(podcast.creator, CreatorPlaces)'
             /\ AreTexts(podcast.items, ItemPlaces)'
  BY <1>1, <1>3, <1>4, <1>5 DEF Shape, IsLastText, AreTexts
<1>6. Known => rss_version' \in Versions
  BY <1>1, <1>2 DEF Detected
<1> QED
  BY <1>1, <1>2, <1>5, <1>6 DEF ParserInv, ReadsWholeFeed

LEMMA SameParserInv == ASSUME ParserInv, UNCHANGED vars PROVE ParserInv'
<1>1. /\ pc' = pc /\ node' = node /\ rss_version' = rss_version /\ todo' = todo
      /\ feed' = feed /\ podcast' = podcast
  BY DEF vars
<1>2. VersionInv' /\ (Known' <=> Known)
  BY <1>1 DEF ParserInv, VersionInv, Known, VersionOf
<1>3. /\ TitlePlaces' = TitlePlaces /\ CreatorPlaces' = CreatorPlaces /\ ItemPlaces' = ItemPlaces
      /\ ChannelsRead' = ChannelsRead /\ TextAt' = TextAt
      /\ \A i : Kids(i)' = Kids(i) /\ After(i)' = After(i)
      /\ \A p : At(p)' = At(p)
  BY <1>1, SameDocument DEF At
<1>4. ReadsWholeFeed => ReadsWholeFeed'
  BY <1>1, <1>2, <1>3 DEF ReadsWholeFeed, IsLastText, AreTexts
<1>5. \A i, j : WalkedTo(i, j) => WalkedTo(i, j)'
  BY <1>1, <1>3 DEF WalkedTo, FoundBy
<1>6. FeedWalk => FeedWalk'
  BY <1>1, <1>3, <1>5 DEF FeedWalk
<1> QED
  BY <1>1, <1>2, <1>4, <1>6 DEF ParserInv, Shape

LEMMA NextParserInv == ParserInv /\ [Next]_vars => ParserInv'
<1> SUFFICES ASSUME ParserInv, [Next]_vars PROVE ParserInv'
  OBVIOUS
<1>1. CASE NoDocument \/ InvalidVersion \/ Unsupported \/ NoChannel
  BY <1>1, FailParserInv DEF NoDocument, InvalidVersion, Unsupported, NoChannel
<1>2. CASE DetectVersion
  BY <1>2, DetectVersionInv
<1>3. CASE Create
  BY <1>3, CreateInv
<1>4. CASE Walk
  BY <1>4, WalkInv
<1>5. CASE Finish
  BY <1>5, FinishInv
<1>6. CASE Terminated \/ UNCHANGED vars
  BY <1>6, SameParserInv DEF Terminated
<1> QED
  BY <1>1, <1>2, <1>3, <1>4, <1>5, <1>6 DEF Next

LEMMA SpecParserInv == Spec => []ParserInv
<1> QED
  BY InitParserInv, NextParserInv, PTL DEF Spec

\* A document of a known format is read completely, in order and with nothing
\* else, whatever document it is (factory.cpp, parser.cpp, rss_*_parser.cpp,
\* atom_parser.cpp, Podcast::parseFromXmlStream).
THEOREM FeedIsRead == Spec => []ReadsWholeFeed
<1>1. ParserInv => ReadsWholeFeed
  BY DEF ParserInv
<1> QED
  BY <1>1, SpecParserInv, PTL

LEMMA NothingInForeignNamespace ==
    ASSUME ParserInv, Known, pc = "podcast", node.ns \notin {ExpectedNs, DC_URI}, AllIn(node.ns)
    PROVE  podcast = NoPodcast
<1>1. node \in Documents /\ Detected
  BY DEF ParserInv, VersionInv, Detected
<1>2. ASSUME NEW p \in Places PROVE At(p).ns = node.ns
  <2>1. p[1] \in DOMAIN node.children /\ p[2] \in 0 .. Len(node.children[p[1]].children)
    BY <1>1, PlacesAre
  <2>2. p[2] # 0 => p[2] \in DOMAIN node.children[p[1]].children
    BY <1>1, <2>1, DocumentsAre
  <2> QED
    BY <2>1, <2>2 DEF AllIn, At
<1>3. TitlePlaces = {} /\ CreatorPlaces = {} /\ ItemPlaces = {}
  BY <1>2 DEF Known, TitlePlaces, CreatorPlaces, ItemPlaces, node_is
<1>4. /\ IsLastText(podcast.title, {}) /\ IsLastText(podcast.creator, {})
      /\ AreTexts(podcast.items, {}) /\ Shape(podcast)
  BY <1>3 DEF ParserInv, ReadsWholeFeed
<1>5. podcast.title = "" /\ podcast.creator = ""
  BY <1>4 DEF IsLastText
<1>6. podcast.items = <<>>
  <2>1. DOMAIN podcast.items = {}
    BY <1>4 DEF AreTexts
  <2>2. PICK list \in Seq(STRING) : list = podcast.items
    BY <1>4 DEF Shape
  <2>3. Len(list) = 0
    <3>1. Len(list) \in Nat /\ DOMAIN list = 1 .. Len(list)
      BY LenProperties
    <3>2. 1 \notin 1 .. Len(list)
      BY <2>1, <2>2, <3>1
    <3> QED
      BY <3>1, <3>2
  <2> QED
    BY <2>2, <2>3, EmptySeq
<1> QED
  BY <1>4, <1>5, <1>6 DEF Shape, NoPodcast

\* A feed in a foreign namespace is an empty podcast, and Atom 0.3 without a
\* namespace is always one (rsspp_internal.h, atom_parser.cpp).
THEOREM ForeignFeedIsEmpty == Spec => []ForeignNamespaceHidesFeed
<1>1. ASSUME ParserInv PROVE ForeignNamespaceHidesFeed
  <2>1. Known /\ pc = "podcast" /\ node.ns \notin {ExpectedNs, DC_URI} /\ AllIn(node.ns)
          => podcast = NoPodcast
    BY <1>1, NothingInForeignNamespace
  <2>2. Known /\ rss_version = "ATOM_0_3_NONS" => node.ns # ExpectedNs
    BY <1>1 DEF ParserInv, VersionInv, Known, VersionOf, RssVersion, AtomVersion, ExpectedNs,
                NULL, ATOM_0_3_URI, ATOM_1_0_URI
  <2> QED
    BY <2>1, <2>2 DEF ForeignNamespaceHidesFeed
<1> QED
  BY <1>1, SpecParserInv, PTL
=============================================================================
