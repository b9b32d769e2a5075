------------------------------ MODULE FeedFile ------------------------------
(***************************************************************************)
(* feeds.txt, the list of feeds that outlives the program: how             *)
(* App::appendUrlToFeed adds an URL to it and Utils::getLinesFromFile      *)
(* reads it back (app.cpp, utils.cpp), while the program may be killed at  *)
(* any moment and every call to the file system may fail.                  *)
(*                                                                         *)
(* A text is a sequence of characters other than the newline, so that      *)
(* pieces of URLs which writes have left behind each other may spell       *)
(* another URL.                                                            *)
(***************************************************************************)
EXTENDS Naturals, Sequences

CONSTANTS Letters,    \* characters, without the newline
          Urls,       \* what the user types
          Misreads,   \* lists that a buffer nobody has filled may be cut into
          MaxLines,   \* bound: lines in the file
          MaxTail     \* bound: characters behind the last newline

Text == Seq(Letters)
NoUrl == <<>>

ASSUME FeedFileAssumption ==
    /\ \A u \in Urls : u \in Text /\ u # NoUrl
    /\ \A ls \in Misreads : ls \in Seq(Text)
    /\ MaxLines \in Nat /\ MaxTail \in Nat

VARIABLES
    pc,         \* what appendUrlToFeed does next
    exists,     \* is there a feeds.txt?
    lines,      \* its lines
    tail,       \* what follows the last newline
    feed_urls,  \* App::feed_urls
    input,      \* the text of the dialog
    header,     \* the last message about feeds.txt and the URL it names
    misread,    \* history: has the last read failed?
    blind,      \* history: has any read failed?
    torn        \* history: has a write fallen short, the user's last line included?

contents == <<lines, tail>>
reads    == <<misread, blind>>
vars     == <<pc, exists, contents, feed_urls, input, header, reads, torn>>

Message(m, u) == header' = [msg |-> m, url |-> u]

-----------------------------------------------------------------------------
(* Reading. *)

\* Utils::getLinesFromFile drops what follows the last newline.
getLinesFromFile == lines

\* Mutant of updateFeedFile: the URLs read before are kept.
FeedUrlsKept == exists' = TRUE /\ UNCHANGED <<feed_urls, reads>>

\* The characters of some lines, newlines included.
Bytes(ls) ==
    LET upTo[i \in 0 .. Len(ls)] == IF i = 0 THEN 0 ELSE upTo[i - 1] + Len(ls[i]) + 1
    IN  upTo[Len(ls)]

FileSize == Bytes(lines) + Len(tail)

\* App::updateFeedFile.  The file is created when there is none.  Without a
\* descriptor the list is empty.  When sceIoRead fails or falls short, what malloc
\* found is cut into lines, in a buffer of the size of the file: some of its
\* lines, parts of them, lines of an earlier read, or anything else.
updateFeedFile ==
    \/ /\ exists' = TRUE
       /\ feed_urls' = getLinesFromFile
       /\ misread' = FALSE
       /\ UNCHANGED blind
    \/ /\ exists' \in {exists, TRUE}
       /\ feed_urls' \in {<<>>} \cup {ls \in Misreads : Bytes(ls) <= FileSize}
       /\ misread' = TRUE
       /\ blind' = TRUE

-----------------------------------------------------------------------------
(* App::appendUrlToFeed. *)

AddUrl ==
    /\ pc = "menu"
    /\ updateFeedFile
    /\ pc' = "dialog"
    /\ UNCHANGED <<contents, input, header, torn>>

\* The dialog has finished.  The code never asks the system how: the result it
\* looks at is the one it has just cleared, so a cancelled dialog yields what
\* had been typed in it as a confirmed one does.
Typed(text) ==
    /\ pc = "dialog"
    /\ input' = text
    /\ UNCHANGED <<exists, contents, feed_urls, reads, torn>>

NothingTyped ==
    /\ Typed(NoUrl)
    /\ pc' = "menu"
    /\ UNCHANGED header

AlreadyListed(u) ==
    /\ Typed(u)
    /\ \E i \in DOMAIN feed_urls : feed_urls[i] = u
    /\ Message("alreadyListed", u)
    /\ pc' = "menu"

NewUrl(u) ==
    /\ Typed(u)
    /\ \A i \in DOMAIN feed_urls : feed_urls[i] # u
    /\ pc' = "open"
    /\ UNCHANGED header

\* The file is opened to append but not to create.
CannotOpen ==
    /\ pc = "open"
    /\ Message("cannotOpen", NoUrl)
    /\ pc' = "menu"
    /\ UNCHANGED <<exists, contents, feed_urls, input, reads, torn>>

\* Mutant of Open: O_TRUNC in place of O_APPEND.
OpenAndTruncate ==
    /\ pc = "open" /\ exists
    /\ lines' = <<>> /\ tail' = <<>>
    /\ pc' = "write"
    /\ UNCHANGED <<exists, feed_urls, input, header, reads, torn>>

Open ==
    /\ pc = "open" /\ exists
    /\ pc' = "write"
    /\ UNCHANGED <<exists, contents, feed_urls, input, header, reads, torn>>

\* Mutant of WholeLine: the newline is forgotten.
NewlineForgotten ==
    /\ tail' = tail \o input
    /\ UNCHANGED <<lines, torn>>

\* What a write can leave: the line, or the text up to some point of it.
WholeLine ==
    /\ lines' = Append(lines, tail \o input)
    /\ tail' = <<>>
    /\ UNCHANGED torn

PartOfLine ==
    /\ \E n \in 0 .. Len(input) : tail' = tail \o SubSeq(input, 1, n)
    /\ torn' = TRUE
    /\ UNCHANGED lines

\* sceIoWrite's result is not looked at: the header says "appended" whatever
\* was written.
Write ==
    /\ pc = "write"
    /\ WholeLine \/ PartOfLine
    /\ Message("appended", input)
    /\ pc' = "menu"
    /\ UNCHANGED <<exists, feed_urls, input, reads>>

-----------------------------------------------------------------------------

\* App::updateFromFeedFile reads the file too, and may create it.
UpdateReads ==
    /\ pc = "menu"
    /\ updateFeedFile
    /\ UNCHANGED <<pc, contents, input, header, torn>>

\* The program is killed, in the middle of a write too, and started again.
Killed ==
    /\ \/ UNCHANGED <<contents, torn>>
       \/ pc = "write" /\ (WholeLine \/ PartOfLine)
    /\ pc' = "menu"
    /\ feed_urls' = <<>>
    /\ input' = NoUrl
    /\ Message("none", NoUrl)
    /\ UNCHANGED <<exists, reads>>

\* The user may have written the file, without repeating a line and with or
\* without a last newline.
Init ==
    /\ pc = "menu"
    /\ exists \in BOOLEAN
    /\ \E ls \in {<<>>} \cup {<<u>> : u \in Urls}, t \in {<<>>} \cup Urls :
          /\ exists \/ (ls = <<>> /\ t = <<>>)
          /\ lines = ls
          /\ tail = t
    /\ feed_urls = <<>>
    /\ input = NoUrl
    /\ header = [msg |-> "none", url |-> NoUrl]
    /\ misread = FALSE /\ blind = FALSE
    /\ torn = (tail # <<>>)

WithinBounds == Len(lines) < MaxLines /\ Len(tail) < MaxTail

Next ==
    \/ WithinBounds /\ AddUrl
    \/ NothingTyped
    \/ \E u \in Urls : AlreadyListed(u) \/ NewUrl(u)
    \/ CannotOpen \/ Open
    \/ Write
    \/ UpdateReads
    \/ Killed

Spec == Init /\ [][Next]_vars

-----------------------------------------------------------------------------
(* Properties. *)

TypeOK ==
    /\ pc \in {"menu", "dialog", "open", "write"}
    /\ exists \in BOOLEAN
    /\ lines \in Seq(Text) /\ tail \in Text
    /\ feed_urls \in Seq(Text)
    /\ input \in Urls \cup {NoUrl}
    /\ header \in [msg : {"none", "alreadyListed", "cannotOpen", "appended"},
                   url : Urls \cup {NoUrl}]
    /\ {misread, blind, torn} \subseteq BOOLEAN

Listed(u) == \E i \in DOMAIN lines : lines[i] = u

\* The list is read again before each dialog: what the code goes on to write is
\* not in the file, whatever writes, reads and crashes have done to it before,
\* unless the read of this very dialog failed.  So an URL is listed twice only if
\* a read has failed, or if pieces that short writes left have spelt it.
NoDuplicates ==
    /\ pc \in {"open", "write"} /\ ~misread => ~Listed(input)
    /\ ~blind /\ ~torn => \A i, j \in DOMAIN lines : lines[i] = lines[j] => i = j

\* A line is one whole URL unless a write fell short: one of the user's editor,
\* one that failed, or one a crash cut off.
DamageNeedsTear ==
    ~torn => tail = <<>> /\ \A i \in DOMAIN lines : lines[i] \in Urls

\* An URL that the file lists is listed for good, whatever fails or crashes
\* later: the file is only ever appended to.
ListedStaysListed == [][\A u \in Urls : Listed(u) => Listed(u)']_vars

\* The header's claims about an URL: "alreadyListed" is true unless a read
\* failed; "appended" unless this write or an earlier one fell short.
HeaderIsRight ==
    /\ header.msg = "alreadyListed" /\ ~blind => Listed(header.url)
    /\ header.msg = "appended" /\ ~torn => Listed(header.url)

\* What the header says of every append, `appended "<url>" to feed list`.
AppendedIsListed == header.msg = "appended" => Listed(header.url)
=============================================================================
