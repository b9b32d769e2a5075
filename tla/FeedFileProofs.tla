--------------------------- MODULE FeedFileProofs ---------------------------
(***************************************************************************)
(* feeds.txt for any set of URLs and a file of any length: what the code   *)
(* writes is never in the file unless the read before it failed, and, as   *)
(* long as no write falls short, every line is a whole URL; no URL is ever *)
(* lost.                                                                   *)
(***************************************************************************)
EXTENDS FeedFile, SequenceTheorems, TLAPS

\* The text typed is an URL when the code goes on to write it, and until then the
\* list in memory is the file's, unless the read of this dialog failed.
InputInv ==
    /\ pc = "dialog" /\ ~misread => feed_urls = lines
    /\ pc \in {"open", "write"} => input \in Urls
    /\ misread => blind

FInv == TypeOK /\ NoDuplicates /\ DamageNeedsTear /\ HeaderIsRight /\ InputInv

LEMMA EmptyIsText == <<>> \in Text
BY EmptySeq DEF Text

LEMMA GluedIsText ==
    ASSUME NEW t \in Text, NEW u \in Text PROVE t \o u \in Text
BY ConcatProperties DEF Text

LEMMA PartIsText ==
    ASSUME NEW u \in Text, NEW n \in 0 .. Len(u) PROVE SubSeq(u, 1, n) \in Text
<1>1. u \in Seq(Letters) /\ Len(u) \in Nat
  BY LenProperties DEF Text
<1>2. n \in Int /\ \A i \in 1 .. n : u[i] \in Letters
  BY <1>1, ElementOfSeq
<1> QED
  BY <1>2, SubSeqProperties DEF Text

LEMMA UrlIsText == \A u \in Urls : u \in Text /\ u # <<>>
BY FeedFileAssumption DEF NoUrl

\* A whole line appended to the file: it may list the URL typed, and keeps the
\* lines there were.
LEMMA AppendedLine ==
    ASSUME TypeOK, input \in Urls, lines' = Append(lines, tail \o input)
    PROVE  /\ lines' \in Seq(Text)
           /\ DOMAIN lines' = 1 .. Len(lines) + 1
           /\ \A i \in DOMAIN lines : lines'[i] = lines[i] /\ i # Len(lines) + 1
           /\ \A i \in DOMAIN lines' : i \in DOMAIN lines \/ i = Len(lines) + 1
           /\ lines'[Len(lines) + 1] = tail \o input
<1>1. tail \o input \in Text
  BY UrlIsText, GluedIsText DEF TypeOK
<1>2. lines \in Seq(Text)
  BY DEF TypeOK
<1> HIDE DEF Text
<1> QED
  BY <1>1, <1>2

LEMMA InitFInv == Init => FInv
<1> SUFFICES ASSUME Init PROVE FInv
  OBVIOUS
<1>1. PICK ls \in {<<>>} \cup {<<u>> : u \in Urls} : lines = ls
  BY DEF Init
<1>2. lines \in Seq(Text) /\ \A i \in DOMAIN lines : i = 1 /\ lines[i] \in Urls
  <2>1. CASE ls = <<>>
    BY <1>1, <2>1, EmptySeq
  <2>2. CASE \E u \in Urls : ls = <<u>>
    BY <1>1, <2>2, UrlIsText
  <2> QED
    BY <1>1, <2>1, <2>2
<1>3. tail \in Text
  BY EmptyIsText, UrlIsText DEF Init
<1>4. TypeOK
  BY <1>2, <1>3, EmptySeq DEF Init, TypeOK
<1>5. NoDuplicates
  BY <1>2 DEF Init, NoDuplicates
<1>6. DamageNeedsTear
  BY <1>2 DEF Init, DamageNeedsTear
<1> QED
  BY <1>4, <1>5, <1>6 DEF Init, FInv, HeaderIsRight, InputInv

\* Whatever a write leaves, good lines stay good, and unique while no write falls
\* short.
LEMMA WriteKeepsFile ==
    ASSUME FInv, pc = "write", WholeLine \/ PartOfLine, UNCHANGED reads, pc' = "menu"
    PROVE  /\ lines' \in Seq(Text) /\ tail' \in Text /\ torn' \in BOOLEAN
           /\ NoDuplicates' /\ DamageNeedsTear'
           /\ \A u \in Urls : Listed(u) => Listed(u)'
           /\ ~torn' => \E i \in DOMAIN lines' : lines'[i] = input
<1>1. /\ TypeOK /\ input \in Urls /\ tail \in Text
      /\ ~misread => ~Listed(input)
      /\ ~blind => ~misread
  BY DEF FInv, NoDuplicates, InputInv, TypeOK
<1>2. misread' = misread /\ blind' = blind
  BY DEF reads
<1>3. CASE PartOfLine
  <2>1. PICK n \in 0 .. Len(input) : tail' = tail \o SubSeq(input, 1, n)
    BY <1>3 DEF PartOfLine
  <2>2. tail' \in Text
    BY <1>1, <2>1, UrlIsText, PartIsText, GluedIsText
  <2>3. lines' = lines /\ torn' = TRUE
    BY <1>3 DEF PartOfLine
  <2> QED
    BY <1>1, <2>2, <2>3 DEF TypeOK, NoDuplicates, DamageNeedsTear, Listed
<1>4. CASE WholeLine
  <2> DEFINE new == tail \o input
             n == Len(lines) + 1
  <2>1. /\ lines' \in Seq(Text)
        /\ DOMAIN lines' = 1 .. n
        /\ \A i \in DOMAIN lines : lines'[i] = lines[i] /\ i # n
        /\ \A i \in DOMAIN lines' : i \in DOMAIN lines \/ i = n
        /\ lines'[n] = new
    BY <1>1, <1>4, AppendedLine DEF WholeLine
  <2>2. tail' = <<>> /\ tail' \in Text /\ torn' = torn
    BY <1>4, EmptyIsText DEF WholeLine
  <2>3. /\ DOMAIN lines = 1 .. Len(lines) /\ Len(lines) \in Nat
        /\ n \in DOMAIN lines' /\ DOMAIN lines \subseteq DOMAIN lines'
    BY <1>1, <2>1, LenProperties DEF TypeOK
  <2>4. ~torn => new = input
    <3>1. ~torn => tail = <<>>
      BY DEF FInv, DamageNeedsTear
    <3> QED
      BY <1>1, <3>1, UrlIsText, ConcatEmptySeq DEF Text
  <2> HIDE DEF n, new
  <2>5. NoDuplicates'
    <3> SUFFICES ASSUME ~blind, ~torn, NEW i \in DOMAIN lines', NEW j \in DOMAIN lines',
                        lines'[i] = lines'[j]
                 PROVE  i = j
      BY <1>2, <2>2 DEF NoDuplicates
    <3>1. CASE i \in DOMAIN lines /\ j \in DOMAIN lines
      BY <2>1, <3>1 DEF FInv, NoDuplicates
    <3>2. CASE i = n \/ j = n
      <4>1. i \notin DOMAIN lines /\ j \notin DOMAIN lines
        BY <1>1, <2>1, <2>4, <3>2 DEF Listed
      <4> QED
        BY <2>1, <4>1
    <3> QED
      BY <2>1, <3>1, <3>2
  <2>6. DamageNeedsTear'
    BY <1>1, <2>1, <2>2, <2>4 DEF FInv, DamageNeedsTear
  <2>7. \A u \in Urls : Listed(u) => Listed(u)'
    BY <2>1, <2>3 DEF Listed
  <2>8. ~torn' => \E i \in DOMAIN lines' : lines'[i] = input
    BY <2>1, <2>2, <2>3, <2>4
  <2> QED
    BY <1>1, <2>1, <2>2, <2>5, <2>6, <2>7, <2>8 DEF TypeOK
<1> QED
  BY <1>3, <1>4

\* A read that succeeds shows the file; one that fails is remembered.
LEMMA ReadingIsTyped ==
    ASSUME TypeOK, updateFeedFile
    PROVE  /\ exists' \in BOOLEAN /\ feed_urls' \in Seq(Text)
           /\ misread' \in BOOLEAN /\ blind' \in BOOLEAN
           /\ blind => blind'
           /\ (misread => blind) => (misread' => blind')
           /\ ~misread' => feed_urls' = lines
<1>1. CASE /\ exists' = TRUE /\ feed_urls' = getLinesFromFile
           /\ misread' = FALSE /\ UNCHANGED blind
  BY <1>1 DEF TypeOK, getLinesFromFile
<1>2. CASE /\ exists' \in {exists, TRUE}
           /\ feed_urls' \in {<<>>} \cup {ls \in Misreads : Bytes(ls) <= FileSize}
           /\ misread' = TRUE /\ blind' = TRUE
  <2>1. feed_urls' \in Seq(Text)
    BY <1>2, FeedFileAssumption, EmptySeq
  <2> QED
    BY <1>2, <2>1 DEF TypeOK
<1> QED
  BY <1>1, <1>2 DEF updateFeedFile

\* Steps that leave the file and the header alone.
LEMMA SameFile ==
    ASSUME FInv, UNCHANGED <<contents, torn>>, header' = header \/ header'.msg \in {"none", "cannotOpen"},
           blind => blind', pc' \in {"open", "write"} => pc \in {"open", "write"} /\ UNCHANGED <<input, misread>>
    PROVE  NoDuplicates' /\ DamageNeedsTear' /\ HeaderIsRight'
<1>1. lines' = lines /\ tail' = tail /\ torn' = torn
  BY DEF contents
<1>2. NoDuplicates' /\ DamageNeedsTear'
  BY <1>1 DEF FInv, NoDuplicates, DamageNeedsTear, Listed
<1>3. HeaderIsRight'
  BY <1>1 DEF FInv, HeaderIsRight, Listed
<1> QED
  BY <1>2, <1>3

LEMMA AddUrlFInv == FInv /\ (AddUrl \/ UpdateReads) => FInv'
<1> SUFFICES ASSUME FInv, AddUrl \/ UpdateReads PROVE FInv'
  OBVIOUS
<1>1. /\ updateFeedFile /\ UNCHANGED <<contents, input, header, torn>>
      /\ pc' \in {"dialog", "menu"}
  BY DEF AddUrl, UpdateReads
<1>2. TypeOK /\ lines' = lines
  BY <1>1 DEF FInv, contents
<1>3. TypeOK'
  BY <1>1, <1>2, ReadingIsTyped DEF TypeOK, contents
<1>4. NoDuplicates' /\ DamageNeedsTear' /\ HeaderIsRight'
  BY <1>1, <1>2, ReadingIsTyped, SameFile
<1>5. InputInv'
  BY <1>1, <1>2, ReadingIsTyped DEF FInv, InputInv
<1> QED
  BY <1>3, <1>4, <1>5 DEF FInv

LEMMA TypedFInv ==
    ASSUME FInv, NothingTyped \/ \E u \in Urls : AlreadyListed(u) \/ NewUrl(u)
    PROVE  FInv'
<1>1. TypeOK /\ pc = "dialog" /\ (~misread => feed_urls = lines)
  BY DEF FInv, NothingTyped, AlreadyListed, NewUrl, Typed, InputInv
<1>2. CASE NothingTyped
  <2>1. TypeOK' /\ InputInv'
    BY <1>1, <1>2 DEF NothingTyped, Typed, FInv, TypeOK, InputInv, contents, reads
  <2>2. NoDuplicates' /\ DamageNeedsTear' /\ HeaderIsRight'
    BY <1>2, SameFile DEF NothingTyped, Typed, reads
  <2> QED
    BY <2>1, <2>2 DEF FInv
<1>3. ASSUME NEW u \in Urls, AlreadyListed(u) PROVE FInv'
  <2>1. /\ UNCHANGED <<exists, contents, feed_urls, misread, blind, torn>> /\ input' = u /\ pc' = "menu"
        /\ header' = [msg |-> "alreadyListed", url |-> u]
        /\ \E i \in DOMAIN feed_urls : feed_urls[i] = u
    BY <1>3 DEF AlreadyListed, Typed, Message, reads
  <2>2. TypeOK' /\ InputInv'
    BY <1>1, <2>1 DEF FInv, TypeOK, InputInv, contents
  <2>3. NoDuplicates' /\ DamageNeedsTear'
    BY <2>1 DEF FInv, NoDuplicates, DamageNeedsTear, contents
  <2>4. HeaderIsRight'
    BY <1>1, <2>1 DEF FInv, InputInv, HeaderIsRight, Listed, contents
  <2> QED
    BY <2>2, <2>3, <2>4 DEF FInv
<1>4. ASSUME NEW u \in Urls, NewUrl(u) PROVE FInv'
  <2>1. /\ UNCHANGED <<exists, contents, feed_urls, misread, blind, torn, header>>
        /\ input' = u /\ pc' = "open"
        /\ \A i \in DOMAIN feed_urls : feed_urls[i] # u
    BY <1>4 DEF NewUrl, Typed, reads
  <2>2. TypeOK'
    BY <1>1, <2>1 DEF TypeOK, contents
  <2>3. InputInv'
    BY <1>1, <2>1 DEF FInv, InputInv, contents
  <2>4. NoDuplicates' /\ DamageNeedsTear' /\ HeaderIsRight'
    BY <1>1, <2>1 DEF FInv, NoDuplicates, DamageNeedsTear, HeaderIsRight, Listed, contents
  <2> QED
    BY <2>2, <2>3, <2>4 DEF FInv
<1> QED
  BY <1>2, <1>3, <1>4

LEMMA OpenFInv == FInv /\ (CannotOpen \/ Open) => FInv'
<1> SUFFICES ASSUME FInv, CannotOpen \/ Open PROVE FInv'
  OBVIOUS
<1>1. /\ UNCHANGED <<exists, contents, feed_urls, input, misread, blind, torn>> /\ pc = "open"
      /\ pc' \in {"menu", "write"}
      /\ header' = header \/ header' = [msg |-> "cannotOpen", url |-> NoUrl]
  BY DEF CannotOpen, Open, Message, reads
<1>2. TypeOK'
  BY <1>1 DEF FInv, TypeOK, contents
<1>3. NoDuplicates' /\ DamageNeedsTear' /\ HeaderIsRight'
  BY <1>1, SameFile
<1>4. InputInv'
  BY <1>1 DEF FInv, InputInv, contents
<1> QED
  BY <1>2, <1>3, <1>4 DEF FInv

LEMMA WriteFInv == FInv /\ Write => FInv'
<1> SUFFICES ASSUME FInv, Write PROVE FInv'
  OBVIOUS
<1>1. /\ pc = "write" /\ (WholeLine \/ PartOfLine) /\ pc' = "menu"
      /\ header' = [msg |-> "appended", url |-> input]
      /\ UNCHANGED <<exists, feed_urls, input, reads>>
  BY DEF Write, Message
<1>2. /\ lines' \in Seq(Text) /\ tail' \in Text /\ torn' \in BOOLEAN
      /\ NoDuplicates' /\ DamageNeedsTear'
      /\ ~torn' => \E i \in DOMAIN lines' : lines'[i] = input
  BY <1>1, WriteKeepsFile
<1>3. TypeOK'
  BY <1>1, <1>2 DEF FInv, TypeOK, reads
<1>4. HeaderIsRight'
  BY <1>1, <1>2 DEF HeaderIsRight, Listed
<1>5. InputInv'
  BY <1>1 DEF FInv, InputInv, reads
<1> QED
  BY <1>2, <1>3, <1>4, <1>5 DEF FInv

LEMMA KilledFInv == FInv /\ Killed => FInv'
<1> SUFFICES ASSUME FInv, Killed PROVE FInv'
  OBVIOUS
<1>1. /\ pc' = "menu" /\ feed_urls' = <<>> /\ input' = NoUrl
      /\ header' = [msg |-> "none", url |-> NoUrl] /\ UNCHANGED <<exists, reads>>
  BY DEF Killed, Message
<1>2. /\ lines' \in Seq(Text) /\ tail' \in Text /\ torn' \in BOOLEAN
      /\ NoDuplicates' /\ DamageNeedsTear'
  <2>1. CASE UNCHANGED <<contents, torn>>
    BY <1>1, <2>1, SameFile DEF FInv, TypeOK, contents, reads
  <2>2. CASE pc = "write" /\ (WholeLine \/ PartOfLine)
    BY <1>1, <2>2, WriteKeepsFile
  <2> QED
    BY <2>1, <2>2 DEF Killed
<1>3. TypeOK'
  BY <1>1, <1>2, EmptySeq DEF FInv, TypeOK, reads
<1>4. HeaderIsRight' /\ InputInv'
  BY <1>1 DEF FInv, HeaderIsRight, InputInv, reads
<1> QED
  BY <1>2, <1>3, <1>4 DEF FInv

LEMMA NextFInv == FInv /\ [Next]_vars => FInv'
<1>1. FInv /\ UNCHANGED vars => FInv'
  BY DEF FInv, vars, contents, reads, TypeOK, NoDuplicates, DamageNeedsTear, HeaderIsRight, InputInv, Listed
<1> QED
  BY <1>1, AddUrlFInv, TypedFInv, OpenFInv, WriteFInv, KilledFInv DEF Next

LEMMA SpecFInv == Spec => []FInv
BY InitFInv, NextFInv, PTL DEF Spec

-----------------------------------------------------------------------------
(* The theorems. *)

\* The state keeps its types through every failure: however writes end, the file
\* is lines of characters.
THEOREM FeedFileTypeCorrect == Spec => []TypeOK
<1>1. FInv => TypeOK
  BY DEF FInv
<1> QED
  BY <1>1, SpecFInv, PTL

\* Through any sessions, crashes and short writes: what is written is not in the
\* file unless the read before it failed, and no line is there twice unless a read
\* failed or a write fell short.
THEOREM NoUrlTwice == Spec => []NoDuplicates
<1>1. FInv => NoDuplicates
  BY DEF FInv
<1> QED
  BY <1>1, SpecFInv, PTL

\* Every line is one whole URL unless a write fell short.
THEOREM LinesAreUrls == Spec => []DamageNeedsTear
<1>1. FInv => DamageNeedsTear
  BY DEF FInv
<1> QED
  BY <1>1, SpecFInv, PTL

\* The header tells the truth about an URL unless a read failed or a write fell
\* short.
THEOREM HeaderTellsTheTruth == Spec => []HeaderIsRight
<1>1. FInv => HeaderIsRight
  BY DEF FInv
<1> QED
  BY <1>1, SpecFInv, PTL

\* No step, a crash in the middle of a write included, loses a listed URL.
THEOREM NoUrlIsLost == Spec => ListedStaysListed
<1>1. FInv /\ [Next]_vars => [\A u \in Urls : Listed(u) => Listed(u)']_vars
  <2> SUFFICES ASSUME FInv, Next, NEW u \in Urls, Listed(u) PROVE Listed(u)'
    OBVIOUS
  <2>1. CASE Write \/ Killed
    <3>1. CASE UNCHANGED contents
      BY <3>1 DEF Listed, contents
    <3>2. CASE pc = "write" /\ (WholeLine \/ PartOfLine) /\ UNCHANGED reads /\ pc' = "menu"
      BY <3>2, WriteKeepsFile
    <3> QED
      BY <2>1, <3>1, <3>2 DEF Write, Killed
  <2>2. CASE UNCHANGED contents
    BY <2>2 DEF Listed, contents
  <2> QED
    BY <2>1, <2>2
    DEF Next, AddUrl, UpdateReads, NothingTyped, AlreadyListed, NewUrl, Typed, CannotOpen, Open
<1> QED
  BY <1>1, SpecFInv, PTL DEF Spec, ListedStaysListed
=============================================================================
