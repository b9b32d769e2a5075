------------------------------ MODULE FeedItem ------------------------------
(***************************************************************************)
(* The fields of one item: rss_09x_parser::parse_item and                  *)
(* atom_parser::parse_entry (libraries/feedpp) go once through the         *)
(* children of an element, the later of two alike wins, and fill what is   *)
(* still empty from second choices at the end.                             *)
(*                                                                         *)
(* A text is the sequence of its characters, and is empty for an element   *)
(* without content.  A child that a parser does not look for changes       *)
(* nothing and is left out.                                                *)
(***************************************************************************)
EXTENDS Naturals, SequencesExt, FiniteSetsExt

CONSTANTS ItemNodes,   \* the items: sequences of children
          EntryNodes,  \* the entries: sequences of children
          Dates,       \* the texts date::format recognises
          Characters,  \* what texts are made of
          Attributes,  \* what a type or a rel can say
          Width        \* 2^32 with the program's unsigned int; no text is as long

Blank == " "
Opening == "("
Closing == ")"

Text == Seq(Characters)
ItemChild == [name : STRING, text : Text, inside : Seq(Text), mode : STRING, type : Attributes]

\* "asctime" and "markup" stand for what those two write besides a text.
ASSUME FeedItemAssumption ==
    /\ {Blank, Opening, Closing, "asctime", "markup"} \subseteq Characters
    /\ {"", "text"} \subseteq Attributes
    /\ ItemNodes \cup EntryNodes \subseteq Seq(ItemChild)
    /\ Dates \subseteq Text \ {<<>>}
    /\ Width \in Nat /\ Width > 1
    /\ \A node \in ItemNodes : \A i \in DOMAIN node : Len(node[i].text) < Width

VARIABLES itemPc,    \* "rss" or "atom": which parser reads; or how it ended
          children,  \* all children, for the properties
          ahead,     \* the ones not read yet
          it,        \* the item
          second     \* the local variables that hold second choices

itemVars == <<itemPc, children, ahead, it, second>>

NoItem == [title |-> <<>>, link |-> <<>>, description |-> <<>>, guid |-> <<>>,
           content_encoded |-> <<>>, itunes_summary |-> <<>>, pubDate |-> <<>>,
           author |-> <<>>, author_email |-> <<>>, enclosure |-> <<>>,
           description_type |-> "", labels |-> <<>>]
NoSecond == [author |-> <<>>, date |-> <<>>, summary |-> <<>>, summary_type |-> ""]

\* date::format: asctime's form of the date, nothing for any other text.
format(text) == IF text \in Dates THEN <<"asctime">> \o text ELSE <<>>

-----------------------------------------------------------------------------
(* rss_09x_parser::parse_item. *)

\* utils::tokenize(field, " ")[0].
FirstWord(field) ==
    LET first == SelectInSeq(field, LAMBDA c : c # Blank)
        rest  == SubSeq(field, first, Len(field))
        space == SelectInSeq(rest, LAMBDA c : c = Blank)
    IN  IF space = 0 THEN rest ELSE SubSeq(rest, 1, space - 1)

InBrackets(field) == field # <<>> /\ Last(field) = Closing

\* Mutant of End: the closing bracket itself.
EndAtBracket(field) == Len(field) - 1

\* The position, from 0, of the character before the closing bracket: unsigned,
\* so that in front of a lone bracket it wraps round.
End(field) == (Len(field) + Width - 2) % Width

\* Where the walk to the left from there stops: at an opening bracket, or at the
\* first character whatever it is.
Start(field) ==
    LET open == {i \in 0 .. End(field) : field[i + 1] = Opening}
    IN  IF open = {} THEN 0 ELSE Max(open)

\* The name is what stands between.  (The last character of an empty field lies
\* outside it, and is 0 with this library's strings: not a bracket.)
Author(field) ==
    IF InBrackets(field) THEN SubSeq(field, Start(field) + 2, End(field) + 1) ELSE field
AuthorEmail(field) == IF InBrackets(field) THEN FirstWord(field) ELSE field

\* The walk begins outside the field: it crashes or ends where substr throws
\* out_of_range.
WalksAway(c) == c.name = "author" /\ InBrackets(c.text) /\ End(c.text) >= Len(c.text)

PlainFields == {"title", "link", "description", "guid", "content_encoded", "itunes_summary"}

RssField(c) ==
    CASE c.name \in PlainFields -> [it EXCEPT ![c.name] = c.text]
      [] c.name = "pubDate" -> [it EXCEPT !.pubDate = format(c.text)]
      [] c.name = "author" -> [it EXCEPT !.author = Author(c.text),
                                         !.author_email = AuthorEmail(c.text)]
      [] c.name \in {"enclosure", "media:content"} -> [it EXCEPT !.enclosure = c.text]
      [] c.name = "media:group" /\ c.inside # <<>> -> [it EXCEPT !.enclosure = Last(c.inside)]
      [] OTHER -> it

RssSecond(c) ==
    CASE c.name = "dc:date" -> [second EXCEPT !.date = format(c.text)]
      [] c.name = "dc:creator" -> [second EXCEPT !.author = c.text]
      [] OTHER -> second

ReadRss ==
    /\ itemPc = "rss" /\ ahead # <<>>
    /\ ~WalksAway(Head(ahead))
    /\ it' = RssField(Head(ahead))
    /\ second' = RssSecond(Head(ahead))
    /\ ahead' = Tail(ahead)
    /\ UNCHANGED <<itemPc, children>>

\* The exception leaves parse_item, and with it the feed.
WalkAway ==
    /\ itemPc = "rss" /\ ahead # <<>>
    /\ WalksAway(Head(ahead))
    /\ itemPc' \in {"exception", "crash"}
    /\ UNCHANGED <<children, ahead, it, second>>

\* Mutant of FinishRss: an author field without a name is good enough.
FinishKeepingAuthor ==
    /\ itemPc = "rss" /\ ahead = <<>>
    /\ it' = [it EXCEPT !.author = IF @ = <<>> /\ it.author_email = <<>> THEN second.author ELSE @,
                        !.pubDate = IF @ = <<>> THEN second.date ELSE @]
    /\ itemPc' = "rssDone"
    /\ UNCHANGED <<children, ahead, second>>

FinishRss ==
    /\ itemPc = "rss" /\ ahead = <<>>
    /\ it' = [it EXCEPT !.author = IF @ = <<>> THEN second.author ELSE @,
                        !.pubDate = IF @ = <<>> THEN second.date ELSE @]
    /\ itemPc' = "rssDone"
    /\ UNCHANGED <<children, ahead, second>>

-----------------------------------------------------------------------------
(* atom_parser::parse_entry. *)

\* get_xml_content writes the child elements out, get_content their text only.
Xml(text) == IF text = <<>> THEN <<>> ELSE <<"markup">> \o text

\* Mutant of Content: whatever is not escaped is written out.
ContentWithoutType(c, old) == IF c.mode = "escaped" THEN c.text ELSE Xml(c.text)

\* The text of a content or a summary; a mode that is not known leaves what an
\* earlier one said.
Content(c, old) ==
    CASE c.mode = "escaped" -> c.text
      [] c.mode \in {"xml", ""} /\ c.type \in {"html", "text"} -> c.text
      [] c.mode \in {"xml", ""} /\ c.type \notin {"html", "text"} -> Xml(c.text)
      [] OTHER -> old

TypeOf(c) == IF c.type = "" THEN "text" ELSE c.type

\* The type of a link is its rel.
AtomField(c) ==
    CASE c.name = "title" -> [it EXCEPT !.title = c.text]
      [] c.name = "author" /\ c.inside # <<>> -> [it EXCEPT !.author = Last(c.inside)]
      [] c.name = "content" -> [it EXCEPT !.description = Content(c, @),
                                          !.description_type = TypeOf(c)]
      [] c.name = "id" -> [it EXCEPT !.guid = c.text]
      [] c.name = "published" -> [it EXCEPT !.pubDate = format(c.text)]
      [] c.name = "link" /\ c.type \in {"", "alternate"} -> [it EXCEPT !.link = c.text]
      [] c.name = "link" /\ c.type = "enclosure" -> [it EXCEPT !.enclosure = c.text]
      [] c.name = "label" -> [it EXCEPT !.labels = Append(@, c.text)]
      [] OTHER -> it

AtomSecond(c) ==
    CASE c.name = "updated" -> [second EXCEPT !.date = format(c.text)]
      [] c.name = "summary" -> [second EXCEPT !.summary = Content(c, @),
                                              !.summary_type = TypeOf(c)]
      [] OTHER -> second

ReadAtom ==
    /\ itemPc = "atom" /\ ahead # <<>>
    /\ it' = AtomField(Head(ahead))
    /\ second' = AtomSecond(Head(ahead))
    /\ ahead' = Tail(ahead)
    /\ UNCHANGED <<itemPc, children>>

FinishAtom ==
    /\ itemPc = "atom" /\ ahead = <<>>
    /\ it' = [it EXCEPT
                !.description = IF @ = <<>> THEN second.summary ELSE @,
                !.description_type = IF it.description = <<>> THEN second.summary_type ELSE @,
                !.pubDate = IF @ = <<>> THEN second.date ELSE @]
    /\ itemPc' = "atomDone"
    /\ UNCHANGED <<children, ahead, second>>

-----------------------------------------------------------------------------

ItemInit ==
    /\ \/ itemPc = "rss" /\ children \in ItemNodes
       \/ itemPc = "atom" /\ children \in EntryNodes
    /\ ahead = children
    /\ it = NoItem
    /\ second = NoSecond

ItemTerminated == itemPc \in {"rssDone", "atomDone", "exception", "crash"} /\ UNCHANGED itemVars

ItemNext == \/ ReadRss \/ WalkAway \/ FinishRss
        \/ ReadAtom \/ FinishAtom
        \/ ItemTerminated

ItemSpec == ItemInit /\ [][ItemNext]_itemVars

-----------------------------------------------------------------------------
(* Properties. *)

ItemType ==
    [title : Text, link : Text, description : Text, guid : Text, content_encoded : Text,
     itunes_summary : Text, pubDate : Text, author : Text, author_email : Text,
     enclosure : Text, description_type : Attributes, labels : Seq(Text)]

\* Texts are texts, and rss_09x_parser gets items, atom_parser entries.
ItemTypeOK ==
    /\ \/ itemPc \in {"rss", "rssDone", "exception", "crash"} /\ children \in ItemNodes
       \/ itemPc \in {"atom", "atomDone"} /\ children \in EntryNodes
    /\ ahead \in Seq(ItemChild)
    /\ it \in ItemType
    /\ second \in [author : Text, date : Text, summary : Text, summary_type : Attributes]

\* Where the children of these names stand, and the text of the last one.
Named(names) == {i \in DOMAIN children : children[i].name \in names}
LastText(names) == IF Named(names) = {} THEN <<>> ELSE children[Max(Named(names))].text
FirstChoice(a, b) == IF a # <<>> THEN a ELSE b

\* Where something is offered as the enclosure of an item, and what.
Offering ==
    Named({"enclosure", "media:content"})
        \cup {i \in Named({"media:group"}) : children[i].inside # <<>>}
Offer(c) == IF c.name = "media:group" THEN Last(c.inside) ELSE c.text

\* The name in "address (name)": between the last bracket that opens and the end.
\* Without one the first character is taken for it and lost.
NameStarts(field) ==
    {i \in 2 .. Len(field) :
        /\ i = 2 \/ field[i - 1] = Opening
        /\ \A j \in i .. Len(field) - 1 : field[j] # Opening}
NamesIn(field) ==
    IF InBrackets(field) THEN {SubSeq(field, i, Len(field) - 1) : i \in NameStarts(field)}
    ELSE {field}

\* The creator and the date of Dublin Core are taken wherever they stand, and
\* only when the item's own author names nobody or its own date cannot be read;
\* an enclosure is replaced by any media that follows it.
RssFieldsFound ==
    itemPc = "rssDone" =>
        /\ \E name \in NamesIn(LastText({"author"})) :
             it.author = FirstChoice(name, LastText({"dc:creator"}))
        /\ it.pubDate = FirstChoice(format(LastText({"pubDate"})), format(LastText({"dc:date"})))
        /\ it.enclosure = (IF Offering = {} THEN <<>> ELSE Offer(children[Max(Offering)]))

HasLoneBracket == \E i \in DOMAIN children : children[i].name = "author" /\ children[i].text = <<Closing>>

\* One item can take the whole feed down, for the exception is caught only
\* around the whole download: exactly a lone closing bracket as the author of an
\* item does it, even when another author of the item follows.
OnlyLoneBracketFails ==
    /\ itemPc = "rssDone" => ~HasLoneBracket
    /\ itemPc \in {"exception", "crash"} => HasLoneBracket

KnownMode(c) == c.mode \in {"escaped", "xml", ""}

\* An entry whose modes are all known has the description of its last content,
\* or of its last summary when that one is empty, and the type that goes with
\* the text: escaped text and text of a type that is plain is never written out
\* as XML.
EntryDescriptionFound ==
    itemPc = "atomDone" /\ (\A i \in DOMAIN children : KnownMode(children[i])) =>
        LET from == IF LastText({"content"}) # <<>> THEN Named({"content"}) ELSE Named({"summary"})
        IN  /\ from = {} => it.description = <<>> /\ it.description_type = ""
            /\ from # {} =>
                 LET c == children[Max(from)]
                     plain == c.mode = "escaped" \/ c.type \in {"html", "text"}
                 IN  /\ it.description = (IF plain \/ c.text = <<>> THEN c.text
                                          ELSE <<"markup">> \o c.text)
                     /\ it.description_type = TypeOf(c)
=============================================================================
