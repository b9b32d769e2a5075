---------------------------- MODULE SessionProofs ----------------------------
(***************************************************************************)
(* The whole program, kills and restarts included, for any heap, URLs and  *)
(* feeds: what Menu and FeedFile promise holds in it, the screen shows the *)
(* podcasts, and what the user sees implements Catalogue.                  *)
(***************************************************************************)
EXTENDS Session, MenuProofs

\* The feed list is appended to, or read, while the menu waits in the callback.
FileInv ==
    /\ F!TypeOK
    /\ filePc \in {"open", "write"} => input \in Urls
    /\ filePc # "menu" => pc = "callback" /\ callback = "addUrl" /\ Len(lines) < MaxLines
    /\ callback = "addUrl" /\ filePc = "menu" => F!WithinBounds
    /\ Len(lines) <= MaxLines

\* The update has had the first Len(pages) URLs of a list that is the file's
\* unless the read failed.
UpdateInv ==
    updating =>
        /\ pc = "callback" /\ callback = "update"
        /\ feed_urls = lines \/ misread
        /\ Len(feed_urls) <= MaxLines
        /\ Len(pages) <= Len(feed_urls)

Podcasts == [url : F!Text, episodes : EpisodeCounts, is_valid : {FALSE}]
Pages    == EpisodeCounts \cup {NoFeed}

ShelfTypes ==
    /\ updating \in BOOLEAN
    /\ pages \in Seq(Pages)
    /\ podcasts \in Seq(Podcasts)
    /\ labels \in Seq(F!Text)

OriginInv ==
    updating => Len(podcasts) <= Len(pages) /\ EveryGoodFeedIsShelved

LabelsInv ==
    /\ Len(labels) = Len(episode_lists)
    /\ ~updating => /\ labels = [i \in DOMAIN podcasts |-> podcasts[i].url]
                    /\ Shelf = [i \in DOMAIN podcasts |-> podcasts[i].episodes]

SInv == IInv /\ FileInv /\ ShelfTypes /\ UpdateInv /\ OriginInv /\ LabelsInv

-----------------------------------------------------------------------------
(* Every step, seen by the menu and by the feed list. *)

LEMMA SessionConstants ==
    /\ MaxLines \in Nat /\ MaxLines >= 1
    /\ EpisodeCounts \subseteq Nat
    /\ NoFeed \notin EpisodeCounts
    /\ \A u \in Urls : u \in F!Text /\ u # <<>>
    /\ \A ls \in Misreads : ls \in Seq(F!Text) /\ Len(ls) <= MaxLines
BY SessionAssumption DEF SessionAssumption, F!Text

LEMMA EmptyIsTyped == \A S : <<>> \in Seq(S) /\ Len(<<>>) = 0 /\ DOMAIN <<>> = {}
OBVIOUS

\* What the podcasts bring is a shelf Menu allows.
LEMMA PodcastsAreAShelf ==
    ASSUME podcasts \in Seq(Podcasts), Len(podcasts) <= MaxLines
    PROVE  [i \in DOMAIN podcasts |-> podcasts[i].episodes] \in Shelves
<1>1. /\ DOMAIN podcasts = 1 .. Len(podcasts) /\ Len(podcasts) \in 0 .. MaxLines
      /\ \A i \in DOMAIN podcasts : podcasts[i] \in Podcasts
  BY SessionConstants, ElementOfSeq
<1>2. [i \in DOMAIN podcasts |-> podcasts[i].episodes] \in [1 .. Len(podcasts) -> EpisodeCounts]
  BY <1>1 DEF Podcasts
<1> QED
  BY <1>1, <1>2, SessionAssumption DEF SessionAssumption

LEMMA FinishIsUpdate == ASSUME SInv, FinishUpdate PROVE Update
<1>1. /\ updating /\ Len(pages) = Len(feed_urls) /\ Len(podcasts) <= MaxLines
      /\ callback = "update"
  <2>1. Len(pages) \in Nat /\ Len(podcasts) \in Nat
    BY DEF SInv, ShelfTypes
  <2> QED
    BY <2>1, SessionConstants DEF SInv, UpdateInv, OriginInv, FinishUpdate
<1>2. [i \in DOMAIN podcasts |-> podcasts[i].episodes] \in Shelves
  BY <1>1, PodcastsAreAShelf DEF SInv, ShelfTypes
<1> QED
  BY <1>1, <1>2 DEF FinishUpdate, Update

LEMMA RestartIsInit == MenuStartsAgain => Init'
BY DEF MenuStartsAgain, Init

\* The menu sees one of its own steps, none, or a new start.
LEMMA MenuSees ==
    ASSUME SInv, [SessionNext]_sessionVars
    PROVE  [Next]_vars \/ (Killed /\ Init')
<1>1. CASE Turn
  BY <1>1 DEF Turn, Next
<1>2. CASE Navigate
  BY <1>2 DEF Navigate, Next
<1>3. CASE OpenDialog \/ AppendToFile \/ DialogEnds
  BY <1>3 DEF OpenDialog, AppendToFile, DialogEnds, FeedListStep, Next
<1>4. CASE StartUpdate
  <2>1. Update \/ UNCHANGED vars
    BY <1>4 DEF StartUpdate, Update, vars, frameVars
  <2> QED
    BY <2>1 DEF Next
<1>5. CASE FinishUpdate
  BY <1>5, FinishIsUpdate DEF Next
<1>6. CASE Download
  BY <1>6 DEF Download, Fetch
<1>7. CASE Killed
  BY <1>7, RestartIsInit DEF Killed
<1>8. CASE UNCHANGED sessionVars
  BY <1>8 DEF sessionVars
<1> QED
  BY <1>1, <1>2, <1>3, <1>4, <1>5, <1>6, <1>7, <1>8 DEF SessionNext, Program

LEMMA IInvStays == SInv /\ [SessionNext]_sessionVars => IInv'
<1>1. Init' => IInv'
  BY InitIInv, PTL
<1> QED
  BY <1>1, MenuSees, NextIInv DEF SInv

\* The feed list sees one of its own steps or none.
LEMMA FileSees ==
    ASSUME SInv, [SessionNext]_sessionVars
    PROVE  [F!Next]_(F!vars)
<1>1. CASE Turn \/ Navigate \/ Download \/ FinishUpdate \/ UNCHANGED sessionVars
  BY <1>1 DEF Turn, Navigate, Download, Fetch, FinishUpdate, sessionVars, fileVars,
            F!vars, F!contents, F!reads
<1>2. CASE OpenDialog
  BY <1>2 DEF OpenDialog, FeedListStep, F!Next, F!AddUrl, SInv, FileInv
<1>3. CASE AppendToFile \/ DialogEnds
  BY <1>3 DEF AppendToFile, DialogEnds, FeedListStep, F!Next
<1>4. CASE StartUpdate
  BY <1>4 DEF StartUpdate, F!Next
<1>5. CASE Killed
  BY <1>5 DEF Killed, F!Next
<1> QED
  BY <1>1, <1>2, <1>3, <1>4, <1>5 DEF SessionNext, Program

-----------------------------------------------------------------------------
(* The feed list. *)

LEMMA PiecesAreText ==
    ASSUME NEW t \in F!Text, NEW u \in F!Text
    PROVE  t \o u \in F!Text /\ \A n \in 0 .. Len(u) : SubSeq(u, 1, n) \in F!Text
<1>1. t \o u \in F!Text
  BY ConcatProperties DEF F!Text
<1>2. ASSUME NEW n \in 0 .. Len(u) PROVE SubSeq(u, 1, n) \in F!Text
  <2>1. u \in Seq(Letters) /\ Len(u) \in Nat
    BY LenProperties DEF F!Text
  <2>2. n \in Int /\ \A i \in 1 .. n : u[i] \in Letters
    BY <2>1, ElementOfSeq
  <2> QED
    BY <2>2, SubSeqProperties DEF F!Text
<1> QED
  BY <1>1, <1>2

\* What is left in the file by a write, whole or not.
LEMMA WrittenFile ==
    ASSUME F!TypeOK, input \in Urls, F!WholeLine \/ F!PartOfLine
    PROVE  /\ lines' \in Seq(F!Text) /\ tail' \in F!Text /\ torn' \in BOOLEAN
           /\ \/ lines' = lines
              \/ /\ Len(lines') = Len(lines) + 1
                 /\ lines = SubSeq(lines', 1, Len(lines))
<1>1. /\ lines \in Seq(F!Text) /\ tail \in F!Text /\ torn \in BOOLEAN
      /\ input \in F!Text
  BY SessionConstants DEF F!TypeOK
<1>2. <<>> \in F!Text
  BY EmptyIsTyped DEF F!Text
<1>3. CASE F!WholeLine
  <2>1. /\ lines' = Append(lines, tail \o input) /\ tail' = <<>> /\ torn' = torn
    BY <1>3 DEF F!WholeLine
  <2>2. tail \o input \in F!Text
    BY <1>1, PiecesAreText
  <2>3. \A T : \A s \in Seq(T) : \A t \in T :
            /\ Append(s, t) \in Seq(T) /\ Len(Append(s, t)) = Len(s) + 1
            /\ s = SubSeq(Append(s, t), 1, Len(s))
    BY AppendProperties
  <2> QED
    BY <1>1, <1>2, <2>1, <2>2, <2>3
<1>4. CASE F!PartOfLine
  <2>1. PICK n \in 0 .. Len(input) : tail' = tail \o SubSeq(input, 1, n)
    BY <1>4 DEF F!PartOfLine
  <2>2. tail' \in F!Text
    BY <1>1, <2>1, PiecesAreText
  <2> QED
    BY <1>1, <1>4, <2>2 DEF F!PartOfLine
<1> QED
  BY <1>3, <1>4

LEMMA ReadList ==
    ASSUME F!TypeOK, F!updateFeedFile
    PROVE  /\ feed_urls' \in Seq(F!Text) /\ exists' \in BOOLEAN
           /\ misread' \in BOOLEAN /\ blind' \in BOOLEAN
           /\ feed_urls' = lines \/ (misread' /\ Len(feed_urls') <= MaxLines)
<1>1. CASE /\ exists' = TRUE /\ feed_urls' = F!getLinesFromFile
           /\ misread' = FALSE /\ UNCHANGED blind
  BY <1>1 DEF F!getLinesFromFile, F!TypeOK
<1>2. CASE /\ exists' \in {exists, TRUE}
           /\ feed_urls' \in {<<>>} \cup {ls \in Misreads : F!Bytes(ls) <= F!FileSize}
           /\ misread' = TRUE /\ blind' = TRUE
  <2>1. feed_urls' \in Seq(F!Text) /\ Len(feed_urls') <= MaxLines
    <3>1. CASE feed_urls' = <<>>
      BY <3>1, EmptyIsTyped, SessionConstants
    <3>2. CASE feed_urls' \in Misreads
      BY <3>2, SessionConstants
    <3> QED
      BY <1>2, <3>1, <3>2
  <2> QED
    BY <1>2, <2>1 DEF F!TypeOK
<1> QED
  BY <1>1, <1>2 DEF F!updateFeedFile

InputIsUrl == filePc \in {"open", "write"} => input \in Urls

LEMMA FileTypes ==
    F!TypeOK /\ InputIsUrl /\ [F!Next]_(F!vars) => F!TypeOK' /\ InputIsUrl'
<1> SUFFICES ASSUME F!TypeOK, InputIsUrl, [F!Next]_(F!vars) PROVE F!TypeOK' /\ InputIsUrl'
  OBVIOUS
<1> USE DEF F!contents, F!reads, F!Message
<1>1. CASE F!AddUrl \/ F!UpdateReads
  BY <1>1, ReadList DEF F!AddUrl, F!UpdateReads, F!TypeOK, InputIsUrl
<1>2. CASE F!NothingTyped \/ \E u \in Urls : F!AlreadyListed(u) \/ F!NewUrl(u)
  BY <1>2 DEF F!NothingTyped, F!AlreadyListed, F!NewUrl, F!Typed, F!TypeOK, InputIsUrl
<1>3. CASE F!CannotOpen \/ F!Open
  BY <1>3 DEF F!CannotOpen, F!Open, F!TypeOK, InputIsUrl
<1>4. CASE F!Write
  BY <1>4, WrittenFile DEF F!Write, F!TypeOK, InputIsUrl
<1>5. CASE F!Killed
  <2>1. lines' \in Seq(F!Text) /\ tail' \in F!Text /\ torn' \in BOOLEAN
    BY <1>5, WrittenFile DEF F!Killed, F!TypeOK, InputIsUrl
  <2> QED
    BY <1>5, <2>1, EmptyIsTyped DEF F!Killed, F!TypeOK, InputIsUrl
<1>6. CASE UNCHANGED F!vars
  BY <1>6 DEF F!vars, F!TypeOK, InputIsUrl
<1> QED
  BY <1>1, <1>2, <1>3, <1>4, <1>5, <1>6 DEF F!Next

\* While the callback of "add url" runs nothing else touches the file, so that
\* the room there was when it was accepted is there when it writes.
LEMMA FileInvStays == SInv /\ [SessionNext]_sessionVars => FileInv'
<1> SUFFICES ASSUME SInv, [SessionNext]_sessionVars PROVE FileInv'
  OBVIOUS
<1>1. F!TypeOK' /\ InputIsUrl'
  BY FileSees, FileTypes DEF SInv, FileInv, InputIsUrl
<1>2. /\ Len(lines) \in Nat /\ MaxLines \in Nat
      /\ filePc # "menu" => pc = "callback" /\ callback = "addUrl" /\ Len(lines) < MaxLines
      /\ callback = "addUrl" /\ filePc = "menu" => Len(lines) < MaxLines /\ F!WithinBounds
      /\ Len(lines) <= MaxLines
      /\ InputIsUrl /\ F!TypeOK
  BY SessionConstants DEF SInv, FileInv, F!TypeOK, F!WithinBounds, InputIsUrl
<1>3. CASE Turn
  <2>1. filePc = "menu" /\ filePc' = filePc /\ lines' = lines /\ tail' = tail
    BY <1>2, <1>3 DEF Turn, HandleInput, fileVars
  <2>2. callback' = "addUrl" => F!WithinBounds
    BY <1>3 DEF Turn
  <2> QED
    BY <1>1, <1>2, <2>1, <2>2 DEF FileInv, InputIsUrl, F!WithinBounds
<1>4. CASE Navigate
  <2>1. callback' = callback \/ callback' = "nullptr"
    BY <1>4 DEF Navigate, ConstructMenu, ConstructLists, OpenList, OtherCallback, CallbackReturns,
                Draw, frameVars
  <2>2. filePc' = filePc /\ lines' = lines /\ tail' = tail
    BY <1>4 DEF Navigate, fileVars
  <2>3. filePc = "menu"
    <3>1. CASE ConstructMenu \/ ConstructLists \/ Draw
      BY <1>2, <3>1 DEF ConstructMenu, ConstructLists, Draw
    <3>2. CASE OpenList \/ (callback = "nullptr" /\ OtherCallback)
      BY <1>2, <3>2, Distinct DEF OpenList, Actions
    <3> QED
      BY <1>4, <3>1, <3>2 DEF Navigate
  <2> QED
    BY <1>1, <1>2, <2>1, <2>2, <2>3 DEF FileInv, InputIsUrl, F!WithinBounds
<1>5. CASE OpenDialog
  BY <1>1, <1>2, <1>5
  DEF OpenDialog, FeedListStep, F!AddUrl, F!contents, FileInv, InputIsUrl, vars, frameVars
<1>6. CASE DialogEnds \/ AppendToFile
  <2>1. CASE filePc' = "menu"
    <3>1. callback' = "nullptr"
      BY <1>6, <2>1 DEF DialogEnds, AppendToFile, FeedListStep, OtherCallback, CallbackReturns
    <3>2. Len(lines') <= MaxLines
      <4>1. lines' = lines \/ (filePc = "write" /\ (F!WholeLine \/ F!PartOfLine))
        BY <1>6 DEF DialogEnds, AppendToFile, FeedListStep, F!NothingTyped, F!AlreadyListed,
                    F!NewUrl, F!Typed, F!CannotOpen, F!Open, F!Write, F!contents
      <4> QED
        BY <1>2, <4>1, WrittenFile DEF InputIsUrl
    <3> QED
      BY <1>1, <2>1, <3>1, <3>2 DEF FileInv, InputIsUrl
  <2>2. CASE filePc' # "menu"
    <3>1. UNCHANGED <<pc, callback>> /\ filePc # "menu" /\ lines' = lines
      BY <1>6, <2>2 DEF DialogEnds, AppendToFile, FeedListStep, F!NothingTyped, F!AlreadyListed,
                 F!NewUrl, F!Typed, F!CannotOpen, F!Open, F!Write, F!contents, vars, frameVars
    <3> QED
      BY <1>1, <1>2, <2>2, <3>1 DEF FileInv, InputIsUrl
  <2> QED
    BY <2>1, <2>2
<1>7. CASE StartUpdate
  <2>1. /\ filePc = "menu" /\ filePc' = "menu" /\ lines' = lines /\ tail' = tail
        /\ callback' \in {"update", "nullptr"}
    BY <1>7 DEF StartUpdate, F!UpdateReads, F!contents, CallbackReturns
  <2> QED
    BY <1>1, <1>2, <2>1 DEF FileInv, InputIsUrl
<1>8. CASE FinishUpdate \/ Download \/ UNCHANGED sessionVars
  <2>1. filePc' = filePc /\ lines' = lines /\ tail' = tail
    BY <1>8 DEF FinishUpdate, Download, Fetch, sessionVars, fileVars
  <2>2. (pc' = pc /\ callback' = callback) \/ (callback' = "nullptr" /\ filePc = "menu")
    BY <1>2, <1>8 DEF FinishUpdate, CallbackReturns, Download, Fetch, sessionVars, vars, frameVars,
                      SInv, UpdateInv
  <2> QED
    BY <1>1, <1>2, <2>1, <2>2 DEF FileInv, InputIsUrl, F!WithinBounds
<1>9. CASE Killed
  <2>1. filePc' = "menu" /\ callback' = "nullptr"
    BY <1>9 DEF Killed, F!Killed, MenuStartsAgain
  <2>2. Len(lines') <= MaxLines
    BY <1>2, <1>9, WrittenFile DEF Killed, F!Killed, F!contents, InputIsUrl
  <2> QED
    BY <1>1, <2>1, <2>2 DEF FileInv, InputIsUrl
<1> QED
  BY <1>3, <1>4, <1>5, <1>6, <1>7, <1>8, <1>9 DEF SessionNext, Program

-----------------------------------------------------------------------------
(* The update. *)

\* While an update runs only downloads, its end and a kill can happen.
LEMMA UpdatingSteps ==
    ASSUME SInv, updating, [SessionNext]_sessionVars
    PROVE  Download \/ FinishUpdate \/ Killed \/ UNCHANGED sessionVars
<1>1. pc = "callback" /\ callback = "update" /\ filePc = "menu"
  BY DEF SInv, UpdateInv, FileInv
<1>2. callback \notin Lists
  BY <1>1, Distinct DEF Actions
<1>3. ~Turn /\ ~OpenDialog /\ ~StartUpdate
  BY <1>1 DEF Turn, HandleInput, OpenDialog, StartUpdate
<1>4. ~Navigate
  BY <1>1, <1>2 DEF Navigate, ConstructMenu, ConstructLists, OpenList, Draw
<1>5. ~AppendToFile /\ ~DialogEnds
  BY <1>1 DEF AppendToFile, DialogEnds, FeedListStep, F!CannotOpen, F!Open, F!Write,
              F!NothingTyped, F!AlreadyListed, F!NewUrl, F!Typed
<1> QED
  BY <1>3, <1>4, <1>5 DEF SessionNext, Program

\* A copy differs in its is_valid alone.
LEMMA CopyForgets ==
    ASSUME NEW r \in [url : F!Text, episodes : EpisodeCounts, is_valid : BOOLEAN]
    PROVE  Copy(r) \in Podcasts /\ Copy(r).url = r.url /\ Copy(r).episodes = r.episodes
BY Zenon DEF Copy, Podcasts

\* What one more download makes of the podcasts.
LEMMA FetchFacts ==
    ASSUME SInv, NEW page \in Pages, Fetch(page)
    PROVE  /\ pages' = Append(pages, page) /\ pages' \in Seq(Pages)
           /\ Len(pages') = Len(pages) + 1 /\ Len(pages) + 1 <= Len(feed_urls)
           /\ \/ podcasts' = podcasts /\ page = NoFeed
              \/ /\ page # NoFeed
                 /\ \E p \in Podcasts : /\ p.url = feed_urls[Len(pages) + 1]
                                        /\ p.episodes = page
                                        /\ podcasts' = Append(podcasts, p)
<1>1. /\ pages \in Seq(Pages) /\ feed_urls \in Seq(F!Text)
      /\ Len(pages) \in Nat /\ Len(feed_urls) \in Nat
  BY DEF SInv, ShelfTypes, FileInv, F!TypeOK
<1>2. pages' = Append(pages, page) /\ Len(pages) < Len(feed_urls)
  BY DEF Fetch
<1>3. \A S : \A s \in Seq(S) : \A x \in S :
          Append(s, x) \in Seq(S) /\ Len(Append(s, x)) = Len(s) + 1
  BY AppendProperties
<1>4. CASE page # NoFeed
  <2> DEFINE p == downloadAndParseFeed(feed_urls[Len(pages) + 1], page)
  <2>1. p.is_valid
    BY <1>4 DEF downloadAndParseFeed, Returned
  <2>2. podcasts' = Append(podcasts, Copy(p))
    BY <2>1 DEF Fetch
  <2>3. feed_urls[Len(pages) + 1] \in F!Text
    BY <1>1, <1>2, ElementOfSeq
  <2>4. /\ p \in [url : F!Text, episodes : EpisodeCounts, is_valid : BOOLEAN]
        /\ p.url = feed_urls[Len(pages) + 1] /\ p.episodes = page
    <3>1. p = [url |-> feed_urls[Len(pages) + 1], episodes |-> page, is_valid |-> TRUE]
      BY <1>4 DEF downloadAndParseFeed, Returned
    <3>2. page \in EpisodeCounts
      BY <1>4 DEF Pages
    <3> QED
      BY <2>3, <3>1, <3>2
  <2>5. /\ Copy(p) \in Podcasts
        /\ Copy(p).url = feed_urls[Len(pages) + 1] /\ Copy(p).episodes = page
    <3> HIDE DEF p
    <3> QED
      BY <2>4, CopyForgets
  <2> HIDE DEF p
  <2> QED
    BY <1>1, <1>2, <1>3, <1>4, <2>2, <2>5
<1>5. CASE page = NoFeed
  <2>1. podcasts' = podcasts
    BY <1>5 DEF Fetch, downloadAndParseFeed, Returned
  <2> QED
    BY <1>1, <1>2, <1>3, <1>5, <2>1
<1> QED
  BY <1>4, <1>5

LEMMA ShelfTypesStay == SInv /\ [SessionNext]_sessionVars => ShelfTypes'
<1> SUFFICES ASSUME SInv, [SessionNext]_sessionVars PROVE ShelfTypes'
  OBVIOUS
<1>1. ShelfTypes
  BY DEF SInv
<1>2. CASE Turn \/ Navigate \/ OpenDialog \/ AppendToFile \/ DialogEnds \/ UNCHANGED sessionVars
  BY <1>1, <1>2 DEF Turn, Navigate, OpenDialog, AppendToFile, DialogEnds, FeedListStep,
                    sessionVars, shelfVars, ShelfTypes
<1>3. CASE StartUpdate
  BY <1>1, <1>3, EmptyIsTyped DEF StartUpdate, ShelfTypes
<1>4. CASE Download
  <2>1. PICK page \in Pages : Fetch(page)
    BY <1>4 DEF Download, Pages
  <2>2. pages' \in Seq(Pages)
    BY <2>1, FetchFacts
  <2>3. podcasts' \in Seq(Podcasts)
    <3>1. \A S : \A s \in Seq(S) : \A x \in S : Append(s, x) \in Seq(S)
      BY AppendProperties
    <3> QED
      BY <1>1, <2>1, <3>1, FetchFacts DEF ShelfTypes
  <2> QED
    BY <1>1, <2>1, <2>2, <2>3 DEF Fetch, ShelfTypes
<1>5. CASE FinishUpdate
  <2>1. /\ podcasts \in Seq(Podcasts) /\ DOMAIN podcasts = 1 .. Len(podcasts)
        /\ Len(podcasts) \in Nat
    BY <1>1 DEF ShelfTypes
  <2>2. \A i \in DOMAIN podcasts : podcasts[i].url \in F!Text
    <3>1. \A i \in DOMAIN podcasts : podcasts[i] \in Podcasts
      BY <2>1, ElementOfSeq
    <3> QED
      BY <3>1 DEF Podcasts
  <2>3. labels' \in Seq(F!Text)
    <3>1. labels' \in [1 .. Len(podcasts) -> F!Text]
      BY <1>5, <2>1, <2>2 DEF FinishUpdate
    <3>2. \A S : \A n \in Nat : \A s \in [1 .. n -> S] : s \in Seq(S)
      OBVIOUS
    <3> QED
      BY <2>1, <3>1, <3>2
  <2> QED
    BY <1>1, <1>5, <2>3 DEF FinishUpdate, ShelfTypes
<1>6. CASE Killed
  BY <1>6, EmptyIsTyped DEF Killed, ShelfTypes
<1> QED
  BY <1>2, <1>3, <1>4, <1>5, <1>6 DEF SessionNext, Program

LEMMA UpdateInvStays == SInv /\ [SessionNext]_sessionVars => UpdateInv'
<1> SUFFICES ASSUME SInv, [SessionNext]_sessionVars, updating' PROVE UpdateInv'
  BY DEF UpdateInv
<1>1. CASE updating
  <2>1. Download \/ UNCHANGED sessionVars
    BY <1>1, UpdatingSteps DEF FinishUpdate, Killed
  <2>2. UNCHANGED <<vars, fileVars>>
    BY <2>1 DEF Download, Fetch, sessionVars
  <2>3. UNCHANGED <<pc, callback, lines, feed_urls, misread>>
    BY <2>2 DEF vars, frameVars, fileVars
  <2>4. Len(pages') <= Len(feed_urls)
    <3>1. CASE Download
      <4>1. PICK page \in Pages : Fetch(page)
        BY <3>1 DEF Download, Pages
      <4> QED
        BY <4>1, FetchFacts
    <3>2. CASE UNCHANGED sessionVars
      BY <1>1, <3>2 DEF sessionVars, SInv, UpdateInv
    <3> QED
      BY <2>1, <3>1, <3>2
  <2> QED
    BY <1>1, <2>3, <2>4 DEF SInv, UpdateInv
<1>2. CASE ~updating
  <2>1. StartUpdate
    BY <1>2 DEF SessionNext, Program, Turn, Navigate, OpenDialog, AppendToFile, DialogEnds,
                FeedListStep, Download, Fetch, FinishUpdate, Killed, sessionVars
  <2>2. /\ F!updateFeedFile /\ feed_urls' # <<>> /\ pages' = <<>>
        /\ pc' = "callback" /\ callback' = "update" /\ lines' = lines
    BY <1>2, <2>1 DEF StartUpdate, F!UpdateReads, F!contents
  <2>3. feed_urls' = lines' \/ (misread' /\ Len(feed_urls') <= MaxLines)
    BY <2>2, ReadList DEF SInv, FileInv
  <2>4. feed_urls' \in Seq(F!Text) /\ Len(lines) <= MaxLines
    BY <2>2, ReadList DEF SInv, FileInv
  <2>5. Len(feed_urls') \in Nat /\ Len(pages') = 0
    BY <2>2, <2>4, EmptyIsTyped
  <2>6. Len(feed_urls') <= MaxLines
    BY <2>2, <2>3, <2>4, <2>5
  <2> QED
    BY <2>2, <2>3, <2>5, <2>6 DEF UpdateInv
<1> QED
  BY <1>1, <1>2

\* Every podcast keeps the line it came from; a new one comes from the last
\* line fetched.
LEMMA OriginGrows ==
    ASSUME SInv, NEW page \in Pages, Fetch(page),
           NEW f, IsOrigin(f, podcasts, feed_urls, pages)
    PROVE  \E g \in [DOMAIN podcasts' -> DOMAIN pages'] :
               IsOrigin(g, podcasts', feed_urls, pages')
<1> DEFINE n == Len(podcasts)
           k == Len(pages) + 1
<1>1. /\ podcasts \in Seq(Podcasts) /\ n \in Nat /\ DOMAIN podcasts = 1 .. n
      /\ pages \in Seq(Pages) /\ Len(pages) \in Nat /\ DOMAIN pages = 1 .. Len(pages)
  BY DEF SInv, ShelfTypes
<1>2. /\ pages' = Append(pages, page) /\ DOMAIN pages' = 1 .. k
      /\ \A i \in 1 .. Len(pages) : pages'[i] = pages[i]
      /\ pages'[k] = page
  BY <1>1, FetchFacts, AppendProperties
<1>3. /\ f \in [1 .. n -> 1 .. Len(pages)]
      /\ \A i \in 1 .. n : podcasts[i].url = feed_urls[f[i]] /\ podcasts[i].episodes = pages[f[i]]
      /\ \A i, j \in 1 .. n : i < j => f[i] < f[j]
      /\ {f[i] : i \in 1 .. n} = {l \in 1 .. Len(pages) : pages[l] # NoFeed}
  BY <1>1 DEF IsOrigin
<1>4. CASE page = NoFeed
  <2>1. podcasts' = podcasts
    BY <1>4, FetchFacts
  <2>2. f \in [DOMAIN podcasts' -> DOMAIN pages']
    BY <1>1, <1>2, <1>3, <2>1
  <2>3. \A i \in 1 .. n : f[i] \in 1 .. Len(pages) /\ pages'[f[i]] = pages[f[i]]
    BY <1>2, <1>3
  <2>4. {l \in 1 .. k : pages'[l] # NoFeed} = {l \in 1 .. Len(pages) : pages[l] # NoFeed}
    BY <1>1, <1>2, <1>4
  <2>5. IsOrigin(f, podcasts', feed_urls, pages')
    BY <1>1, <1>2, <1>3, <2>1, <2>2, <2>3, <2>4 DEF IsOrigin
  <2> QED
    BY <2>2, <2>5
<1>5. CASE page # NoFeed
  <2>1. PICK p \in Podcasts : /\ p.url = feed_urls[k] /\ p.episodes = page
                              /\ podcasts' = Append(podcasts, p)
    BY <1>5, FetchFacts
  <2>2. /\ DOMAIN podcasts' = 1 .. n + 1
        /\ \A i \in 1 .. n : podcasts'[i] = podcasts[i]
        /\ podcasts'[n + 1] = p
    BY <1>1, <2>1, AppendProperties
  <2> DEFINE g == [i \in 1 .. n + 1 |-> IF i = n + 1 THEN k ELSE f[i]]
  <2>3. g \in [1 .. n + 1 -> 1 .. k]
    BY <1>1, <1>3
  <2>4. g[n + 1] = k /\ \A i \in 1 .. n : g[i] = f[i] /\ f[i] \in 1 .. Len(pages)
    BY <1>1, <1>3
  <2>5. \A i \in 1 .. n + 1 : i \in 1 .. n \/ i = n + 1
    BY <1>1
  <2> HIDE DEF g
  <2>6. \A i \in 1 .. n + 1 : /\ podcasts'[i].url = feed_urls[g[i]]
                              /\ podcasts'[i].episodes = pages'[g[i]]
    BY <1>2, <1>3, <2>1, <2>2, <2>4, <2>5
  <2>7. \A i, j \in 1 .. n + 1 : i < j => g[i] < g[j]
    BY <1>1, <1>3, <2>4, <2>5
  <2>8. {g[i] : i \in 1 .. n + 1} = {f[i] : i \in 1 .. n} \cup {k}
    BY <1>1, <2>4, <2>5
  <2>9. {l \in 1 .. k : pages'[l] # NoFeed}
            = {l \in 1 .. Len(pages) : pages[l] # NoFeed} \cup {k}
    BY <1>1, <1>2, <1>5
  <2>10. IsOrigin(g, podcasts', feed_urls, pages')
    BY <1>2, <1>3, <2>2, <2>3, <2>6, <2>7, <2>8, <2>9 DEF IsOrigin
  <2> QED
    BY <1>2, <2>2, <2>3, <2>10
<1> QED
  BY <1>4, <1>5

LEMMA OriginInvStays == SInv /\ [SessionNext]_sessionVars => OriginInv'
<1> SUFFICES ASSUME SInv, [SessionNext]_sessionVars, updating' PROVE OriginInv'
  BY DEF OriginInv
<1>1. CASE ~updating
  <2>1. StartUpdate
    BY <1>1 DEF SessionNext, Program, Turn, Navigate, OpenDialog, AppendToFile, DialogEnds,
                FeedListStep, Download, Fetch, FinishUpdate, Killed, sessionVars
  <2>2. podcasts' = <<>> /\ pages' = <<>>
    BY <1>1, <2>1 DEF StartUpdate
  <2>3. /\ DOMAIN podcasts' = {} /\ DOMAIN pages' = {}
        /\ Len(podcasts') = 0 /\ Len(pages') = 0
    BY <2>2, EmptyIsTyped
  <2> DEFINE f == [i \in {} |-> 1]
  <2>4. /\ f \in [DOMAIN podcasts' -> DOMAIN pages'] /\ DOMAIN f = {}
    BY <2>3
  <2> HIDE DEF f
  <2>5. IsOrigin(f, podcasts', feed_urls', pages')
    BY <2>3, <2>4 DEF IsOrigin
  <2>6. EveryGoodFeedIsShelved'
    BY <2>4, <2>5 DEF EveryGoodFeedIsShelved
  <2> QED
    BY <2>3, <2>6 DEF OriginInv
<1>2. CASE updating /\ UNCHANGED sessionVars
  BY <1>2 DEF SInv, OriginInv, EveryGoodFeedIsShelved, sessionVars, shelfVars, fileVars
<1>3. CASE updating /\ Download
  <2>1. PICK page \in Pages : Fetch(page)
    BY <1>3 DEF Download, Pages
  <2>2. PICK f \in [DOMAIN podcasts -> DOMAIN pages] : IsOrigin(f, podcasts, feed_urls, pages)
    BY <1>3 DEF SInv, OriginInv, EveryGoodFeedIsShelved
  <2>3. feed_urls' = feed_urls
    BY <2>1 DEF Fetch, fileVars
  <2>4. EveryGoodFeedIsShelved'
    BY <2>1, <2>2, <2>3, OriginGrows DEF EveryGoodFeedIsShelved
  <2>5. Len(podcasts') <= Len(pages')
    <3>1. /\ podcasts \in Seq(Podcasts) /\ Len(podcasts) \in Nat /\ Len(pages) \in Nat
          /\ Len(podcasts) <= Len(pages) /\ Len(pages') = Len(pages) + 1
      BY <1>3, <2>1, FetchFacts DEF SInv, ShelfTypes, OriginInv
    <3>2. podcasts' = podcasts \/ \E p \in Podcasts : podcasts' = Append(podcasts, p)
      BY <2>1, FetchFacts
    <3> QED
      BY <3>1, <3>2, AppendProperties
  <2> QED
    BY <2>4, <2>5 DEF OriginInv
<1> QED
  BY <1>1, <1>2, <1>3, UpdatingSteps DEF FinishUpdate, Killed

-----------------------------------------------------------------------------
(* The shelf. *)

\* What the end of an update leaves on the screen.
LEMMA FinishFacts ==
    ASSUME SInv, FinishUpdate
    PROVE  /\ Shelf' = [i \in DOMAIN podcasts |-> podcasts[i].episodes]
           /\ labels' = [i \in DOMAIN podcasts |-> podcasts[i].url]
           /\ Len(labels') = Len(podcasts) /\ Len(episode_lists') = Len(podcasts)
           /\ podcasts' = podcasts
<1> DEFINE shelf == [i \in DOMAIN podcasts |-> podcasts[i].episodes]
<1>1. podcasts \in Seq(Podcasts) /\ Len(podcasts) <= MaxLines
  BY SessionConstants DEF SInv, ShelfTypes, UpdateInv, OriginInv, FinishUpdate
<1>2. shelf \in Shelves
  BY <1>1, PodcastsAreAShelf
<1>3. live \ Elements(episode_lists) = {}
  BY DEF SInv, IInv, HeapIsOwned
<1>4. Rebuild(shelf, {}, <<>>)
  BY <1>3 DEF FinishUpdate, updatePodcastsList
<1> HIDE DEF shelf
<1>5. Shelf' = shelf /\ episode_lists' \in Seq(Heap)
  BY <1>2, <1>4, RebuildFacts DEF SInv, IInv
<1>6. DOMAIN Shelf' = DOMAIN episode_lists'
  BY DEF Shelf
<1>7. DOMAIN shelf = 1 .. Len(podcasts) /\ Len(podcasts) \in Nat
  BY <1>1 DEF shelf
<1>8. Len(episode_lists') = Len(podcasts)
  <2>1. \A S : \A s \in Seq(S) : \A n \in Nat : DOMAIN s = 1 .. n => Len(s) = n
    BY LenProperties
  <2> QED
    BY <1>5, <1>6, <1>7, <2>1
<1>9. /\ podcasts' = podcasts
      /\ labels' = [i \in DOMAIN podcasts |-> podcasts[i].url]
  BY DEF FinishUpdate
<1>10. Len(labels') = Len(podcasts)
  BY <1>1, <1>9
<1> QED
  BY <1>5, <1>8, <1>9, <1>10 DEF shelf

LEMMA ConstructListsShelf == IInv /\ ConstructLists => Shelf' = Shelf
<1> SUFFICES ASSUME IInv, ConstructLists PROVE Shelf' = Shelf
  OBVIOUS
<1>1. episode_lists = <<>> /\ episode_lists' = <<>>
  BY DEF IInv, ConstructionInv, ConstructLists
<1> QED
  BY <1>1, NoElements DEF Shelf

LEMMA LabelsInvStays == SInv /\ [SessionNext]_sessionVars => LabelsInv'
<1> SUFFICES ASSUME SInv, [SessionNext]_sessionVars PROVE LabelsInv'
  OBVIOUS
<1>1. LabelsInv /\ IInv
  BY DEF SInv
<1>2. CASE FinishUpdate
  BY <1>2, FinishFacts DEF LabelsInv
<1>3. CASE Killed
  <2>1. /\ labels' = <<>> /\ podcasts' = <<>> /\ episode_lists' = <<>>
    BY <1>3 DEF Killed, MenuStartsAgain
  <2>2. Shelf' = <<>>
    BY <2>1, NoElements DEF Shelf
  <2> QED
    BY <2>1, <2>2, EmptyIsTyped DEF LabelsInv
<1>4. CASE StartUpdate
  <2>1. /\ UNCHANGED <<entries, episode_lists, labels>>
        /\ updating' \/ (podcasts' = podcasts /\ ~updating)
    BY <1>4 DEF StartUpdate, listVars
  <2>2. Shelf' = Shelf
    BY <2>1, SameShelf
  <2> QED
    BY <1>1, <2>1, <2>2 DEF LabelsInv
<1>5. CASE Turn \/ Navigate \/ OpenDialog \/ AppendToFile \/ DialogEnds \/ Download
           \/ UNCHANGED sessionVars
  <2>1. /\ labels' = labels /\ episode_lists' = episode_lists /\ updating' = updating
        /\ podcasts' = podcasts \/ updating'
    BY <1>5 DEF Turn, HandleInput, Navigate, ConstructMenu, ConstructLists, OpenList,
                OtherCallback, Draw, OpenDialog, AppendToFile, DialogEnds, FeedListStep, listVars,
                Download, Fetch, sessionVars, shelfVars, vars
  <2>2. Shelf' = Shelf
    <3>1. entries' = entries \/ ConstructLists
      BY <1>5 DEF Turn, HandleInput, Navigate, ConstructMenu, OpenList,
                OtherCallback, Draw, OpenDialog, AppendToFile, DialogEnds, FeedListStep, listVars,
                Download, Fetch, sessionVars, vars
    <3> QED
      BY <1>1, <2>1, <3>1, SameShelf, ConstructListsShelf
  <2> QED
    BY <1>1, <2>1, <2>2 DEF LabelsInv
<1> QED
  BY <1>2, <1>3, <1>4, <1>5 DEF SessionNext, Program

-----------------------------------------------------------------------------
(* The invariant. *)

LEMMA InitFileInv == SessionInit => FileInv
<1> SUFFICES ASSUME SessionInit PROVE FileInv
  OBVIOUS
<1>1. F!Init /\ callback = "nullptr"
  BY DEF SessionInit, Init
<1>2. \A T : \A t \in T : <<t>> \in Seq(T) /\ Len(<<t>>) = 1
  OBVIOUS
<1>3. \A u \in Urls : u \in F!Text /\ <<u>> \in Seq(F!Text) /\ Len(<<u>>) = 1
  BY <1>2, SessionConstants
<1>4. PICK ls \in {<<>>} \cup {<<u>> : u \in Urls}, t \in {<<>>} \cup Urls :
          lines = ls /\ tail = t
  BY <1>1 DEF F!Init
<1>5. lines \in Seq(F!Text) /\ Len(lines) <= MaxLines
  <2>1. CASE ls = <<>>
    BY <1>4, <2>1, EmptyIsTyped, SessionConstants
  <2>2. CASE \E u \in Urls : ls = <<u>>
    BY <1>3, <1>4, <2>2, SessionConstants
  <2> QED
    BY <1>4, <2>1, <2>2
<1>6. tail \in F!Text
  <2>1. CASE t = <<>>
    BY <1>4, <2>1, EmptyIsTyped DEF F!Text
  <2>2. CASE t \in Urls
    BY <1>3, <1>4, <2>2
  <2> QED
    BY <1>4, <2>1, <2>2
<1>7. torn \in BOOLEAN
  BY <1>1 DEF F!Init
<1>8. F!TypeOK
  BY <1>1, <1>5, <1>6, <1>7, EmptyIsTyped DEF F!Init, F!TypeOK
<1> QED
  BY <1>1, <1>5, <1>8 DEF F!Init, FileInv

LEMMA InitSInv == SessionInit => SInv
<1> SUFFICES ASSUME SessionInit PROVE SInv
  OBVIOUS
<1>1. IInv
  BY InitIInv DEF SessionInit
<1>2. /\ ~updating /\ updating \in BOOLEAN
      /\ pages = <<>> /\ podcasts = <<>> /\ labels = <<>> /\ episode_lists = <<>>
  BY DEF SessionInit, Init
<1>3. ShelfTypes /\ UpdateInv /\ OriginInv
  BY <1>2, EmptyIsTyped DEF ShelfTypes, UpdateInv, OriginInv
<1>4. Shelf = <<>>
  BY <1>2, NoElements DEF Shelf
<1>5. LabelsInv
  BY <1>2, <1>4, EmptyIsTyped DEF LabelsInv
<1> QED
  BY <1>1, <1>3, <1>5, InitFileInv DEF SInv

LEMMA NextSInv == SInv /\ [SessionNext]_sessionVars => SInv'
<1> SUFFICES ASSUME SInv, [SessionNext]_sessionVars PROVE SInv'
  OBVIOUS
<1>1. IInv' /\ FileInv' /\ ShelfTypes'
  BY IInvStays, FileInvStays, ShelfTypesStay
<1>2. UpdateInv' /\ OriginInv' /\ LabelsInv'
  BY UpdateInvStays, OriginInvStays, LabelsInvStays
<1> QED
  BY <1>1, <1>2 DEF SInv

LEMMA SessionInvariant == SessionSpec => []SInv
BY InitSInv, NextSInv, PTL DEF SessionSpec

-----------------------------------------------------------------------------
(* The theorems. *)

\* Every variable of the program keeps its type through updates and restarts.
THEOREM SessionTypeCorrect == SessionSpec => []SessionTypeOK
<1>1. SInv => SessionTypeOK
  BY IInvIsTyped DEF SInv, FileInv, ShelfTypes, SessionTypeOK, Pages, Podcasts
<1> QED
  BY <1>1, SessionInvariant, PTL

\* The updates that updateFromFeedFile really makes, and kills at any moment,
\* leave the menu without a pointer to a deleted list.
THEOREM SessionNeverDangling == SessionSpec => []NoDanglingList
<1>1. SInv => NoDanglingList
  BY IInvNoDangling DEF SInv
<1> QED
  BY <1>1, SessionInvariant, PTL

\* Outside an update the lists of the screen are App::podcasts, name by name
\* and episode by episode.
THEOREM ShelfShowsPodcasts == SessionSpec => []ShelfIsPodcasts
<1>1. SInv => ShelfIsPodcasts
  BY DEF SInv, LabelsInv, ShelfIsPodcasts
<1> QED
  BY <1>1, SessionInvariant, PTL

\* A feed that fails to load or to parse takes no other one with it: the podcasts
\* are the URLs read so far that brought a feed, in their order, with their episodes.
THEOREM EveryGoodFeed == SessionSpec => []EveryGoodFeedIsShelved
<1>1. SInv => EveryGoodFeedIsShelved
  BY DEF SInv, OriginInv, EveryGoodFeedIsShelved
<1> QED
  BY <1>1, SessionInvariant, PTL

\* The menu uses the feed list as FeedFile says: every theorem about the file
\* holds of the whole program.
THEOREM SessionImplementsFeedFile == SessionSpec => F!Spec
<1>1. SessionInit => F!Init
  BY DEF SessionInit
<1>2. SInv /\ [SessionNext]_sessionVars => [F!Next]_(F!vars)
  BY FileSees
<1> QED
  BY <1>1, <1>2, SessionInvariant, PTL DEF SessionSpec, F!Spec

\* FeedFile's theorems, for the file of the whole program.
FileTheorems == INSTANCE FeedFileProofs WITH pc <- filePc

\* Both instances are the same specification.
LEMMA SameFileInit == FileTheorems!Init <=> F!Init
BY DEF F!NoUrl, F!Init, FileTheorems!NoUrl, FileTheorems!Init

LEMMA SameBytes == \A ls : FileTheorems!Bytes(ls) = F!Bytes(ls)
BY DEF F!Bytes, FileTheorems!Bytes

LEMMA SameFileNext == [FileTheorems!Next]_(FileTheorems!vars) <=> [F!Next]_(F!vars)
<1>1. FileTheorems!FileSize = F!FileSize
  BY SameBytes DEF F!FileSize, FileTheorems!FileSize
<1>2. FileTheorems!updateFeedFile <=> F!updateFeedFile
  BY <1>1, SameBytes DEF F!updateFeedFile, F!getLinesFromFile,
                         FileTheorems!updateFeedFile, FileTheorems!getLinesFromFile
<1> QED
  BY <1>2 DEF F!NoUrl, F!contents, F!reads, F!vars, F!Message,
       F!AddUrl, F!Typed, F!NothingTyped, F!AlreadyListed, F!NewUrl,
       F!CannotOpen, F!Open, F!WholeLine, F!PartOfLine, F!Write, F!UpdateReads, F!Killed,
       F!WithinBounds, F!Next, FileTheorems!NoUrl,
       FileTheorems!contents, FileTheorems!reads, FileTheorems!vars, FileTheorems!Message,
       FileTheorems!AddUrl,
       FileTheorems!Typed, FileTheorems!NothingTyped, FileTheorems!AlreadyListed,
       FileTheorems!NewUrl, FileTheorems!CannotOpen, FileTheorems!Open, FileTheorems!WholeLine,
       FileTheorems!PartOfLine, FileTheorems!Write, FileTheorems!UpdateReads, FileTheorems!Killed,
       FileTheorems!WithinBounds, FileTheorems!Next

\* Through updates, dialogs, failing calls and kills of the whole program: what is
\* written is not in the file unless the read before it failed, lines are whole
\* while writes are, no line is there twice and the header tells the truth while
\* reads and writes succeed, and a listed URL stays listed (app.cpp).
THEOREM SessionKeepsTheFeedList ==
    SessionSpec => /\ [](F!NoDuplicates /\ F!DamageNeedsTear /\ F!HeaderIsRight)
                   /\ F!ListedStaysListed
<1>1. SessionSpec => FileTheorems!Spec
  BY SameFileInit, SameFileNext, SessionImplementsFeedFile, PTL DEF F!Spec, FileTheorems!Spec
<1>2. FileTheorems!FeedFileAssumption
  BY SessionAssumption DEF SessionAssumption, FileTheorems!FeedFileAssumption, FileTheorems!Text,
     FileTheorems!NoUrl
<1>3. /\ FileTheorems!Spec => []FileTheorems!NoDuplicates
      /\ FileTheorems!Spec => []FileTheorems!DamageNeedsTear
      /\ FileTheorems!Spec => []FileTheorems!HeaderIsRight
      /\ FileTheorems!Spec => FileTheorems!ListedStaysListed
  BY <1>2, FileTheorems!NoUrlTwice, FileTheorems!LinesAreUrls, FileTheorems!HeaderTellsTheTruth,
     FileTheorems!NoUrlIsLost
<1>4. /\ FileTheorems!NoDuplicates => F!NoDuplicates
      /\ FileTheorems!DamageNeedsTear => F!DamageNeedsTear
      /\ FileTheorems!HeaderIsRight => F!HeaderIsRight
  BY DEF F!NoDuplicates, F!DamageNeedsTear, F!HeaderIsRight, F!Listed,
         FileTheorems!NoDuplicates, FileTheorems!DamageNeedsTear, FileTheorems!HeaderIsRight,
         FileTheorems!Listed
<1>5. FileTheorems!ListedStaysListed => F!ListedStaysListed
  BY PTL DEF F!ListedStaysListed, F!Listed, F!vars, F!contents, F!reads,
             FileTheorems!ListedStaysListed, FileTheorems!Listed,
             FileTheorems!vars, FileTheorems!contents, FileTheorems!reads
<1> QED
  BY <1>1, <1>3, <1>4, <1>5, PTL

-----------------------------------------------------------------------------
(* The refinement. *)

Seen == [i \in DOMAIN labels |->
           [url |-> labels[i], episodes |-> size(episode_lists[i])]]
Frozen == back_target \in Heap

LEMMA NothingSeen == DOMAIN labels = {} => Seen = <<>>
BY NoElements DEF Seen

LEMMA QuietStep ==
    ASSUME UNCHANGED <<labels, entries, episode_lists, lines, misread>>, Frozen' <=> Frozen
    PROVE  UNCHANGED Cat!vars
<1>1. Seen' = Seen
  BY DEF Seen, size
<1>2. Frozen' = Frozen
  BY DEF Frozen
<1> QED
  BY <1>1, <1>2 DEF Cat!vars, Seen, Frozen

\* "addUrl" and "update" are entries of the main menu alone, and that is never
\* on the screen once a list of episodes has been opened.
LEMMA MainIsNotFrozen ==
    ASSUME SInv, pc = "callback", callback \in {"addUrl", "update"}
    PROVE  ~Frozen
<1>1. Running
  BY DEF Running
<1>2. /\ EntriesInv /\ PlaceInv /\ HeapIsOwned /\ Types
      /\ callback \in Elements(entries[menu_list])
  BY <1>1, RunningFacts DEF SInv, CallbackInv
<1>3. live \subseteq Heap
  BY <1>2 DEF Types
<1>4. menu_list \notin live /\ menu_list \notin {"options", "podcasts"}
  BY <1>2, <1>3, Distinct DEF EntriesInv, HeapIsOwned, Lists, Actions
<1>5. menu_list = "main"
  BY <1>2, <1>4 DEF PlaceInv, Valid, MemberLists
<1> QED
  BY <1>5, EpisodesKeepOutOfMain DEF Frozen, SInv

LEMMA OpenListCat ==
    ASSUME SInv, OpenList, UNCHANGED <<fileVars, updating, pages, shelfVars>>
    PROVE  [Cat!Next]_(Cat!vars)
<1>1. UNCHANGED <<labels, entries, episode_lists, lines, misread>> /\ back_target' = callback
  BY DEF OpenList, goToList, fileVars, shelfVars
<1>2. Frozen => Frozen'
  BY EpisodesStayOnButton DEF Frozen, SInv, Next
<1>3. CASE Frozen' <=> Frozen
  BY <1>1, <1>3, QuietStep
<1>4. CASE Frozen' /\ ~Frozen
  <2>1. callback \in Heap
    BY <1>1, <1>4 DEF Frozen
  <2>2. /\ EntriesInv /\ PlaceInv /\ HeapIsOwned /\ Types
        /\ callback \in Elements(entries[menu_list])
    <3>1. Running /\ pc = "callback"
      BY DEF OpenList, CallbackReturns, Running
    <3>2. callback # "nullptr"
      BY <2>1, Distinct DEF Lists, Actions
    <3> QED
      BY <3>1, <3>2, RunningFacts DEF SInv, CallbackInv
  <2>3. live \subseteq Heap /\ callback \notin MemberLists \cup Actions
    BY <2>1, <2>2, Distinct DEF Types, Lists
  <2>4. callback \in Elements(episode_lists)
    BY <2>2, <2>3 DEF EntriesInv, PlaceInv, Valid, MemberLists, Actions
  <2>5. DOMAIN labels # {}
    <3>1. DOMAIN episode_lists # {}
      BY <2>4 DEF Elements
    <3>2. /\ episode_lists \in Seq(Heap) /\ labels \in Seq(F!Text)
          /\ Len(labels) = Len(episode_lists)
      BY DEF SInv, IInv, Types, ShelfTypes, LabelsInv
    <3> QED
      BY <3>1, <3>2
  <2>6. Seen # <<>>
    BY <2>5, NoElements DEF Seen
  <2>7. Seen' = Seen
    BY <1>1 DEF Seen, size
  <2>8. Cat!OpenEpisodes
    BY <1>1, <1>4, <2>6, <2>7 DEF Cat!OpenEpisodes, Seen, Frozen
  <2> QED
    BY <2>8 DEF Cat!Next
<1> QED
  BY <1>2, <1>3, <1>4

LEMMA WriteCat == ASSUME SInv, FeedListStep(F!Write) PROVE [Cat!Next]_(Cat!vars)
<1>1. /\ F!WholeLine \/ F!PartOfLine
      /\ filePc = "write" /\ filePc' = "menu" /\ OtherCallback
      /\ UNCHANGED <<labels, entries, episode_lists, back_target, misread>>
  BY DEF FeedListStep, F!Write, F!reads, OtherCallback, listVars, menuVars, shelfVars
<1>2. F!TypeOK /\ input \in Urls /\ pc = "callback" /\ callback = "addUrl"
  BY <1>1 DEF SInv, FileInv
<1>3. ~Frozen /\ Frozen' = Frozen
  BY <1>1, <1>2, MainIsNotFrozen DEF Frozen
<1>4. CASE lines' = lines
  BY <1>1, <1>3, <1>4, QuietStep
<1>5. CASE Len(lines') = Len(lines) + 1 /\ lines = SubSeq(lines', 1, Len(lines))
  <2>1. Seen' = Seen
    BY <1>1 DEF Seen, size
  <2>2. Cat!Subscribe
    BY <1>1, <1>3, <1>5, <2>1 DEF Cat!Subscribe, Cat!Grows, Seen, Frozen
  <2> QED
    BY <2>2 DEF Cat!Next
<1> QED
  BY <1>1, <1>2, <1>4, <1>5, WrittenFile

LEMMA FinishCat == ASSUME SInv, FinishUpdate PROVE [Cat!Next]_(Cat!vars)
<1>1. /\ updating /\ Len(pages) = Len(feed_urls)
      /\ lines' = lines /\ misread' = misread /\ back_target' = back_target /\ podcasts' = podcasts
      /\ labels' = [i \in DOMAIN podcasts |-> podcasts[i].url]
  BY DEF FinishUpdate, fileVars, menuVars
<1>2. ~Frozen /\ Frozen' = Frozen
  BY <1>1, MainIsNotFrozen DEF SInv, UpdateInv, Frozen
<1>3. DOMAIN Seen' = DOMAIN podcasts /\ \A i \in DOMAIN podcasts : Seen'[i].url = podcasts[i].url
  BY <1>1 DEF Seen
<1>4. /\ podcasts \in Seq(Podcasts) /\ lines \in Seq(F!Text)
      /\ Len(podcasts) <= Len(pages) /\ Len(podcasts) \in Nat
      /\ feed_urls = lines \/ misread
  BY <1>1 DEF SInv, ShelfTypes, UpdateInv, OriginInv, FileInv, F!TypeOK
<1>5. CASE feed_urls = lines
  <2>1. PICK f \in [DOMAIN podcasts -> DOMAIN pages] : IsOrigin(f, podcasts, feed_urls, pages)
    BY <1>1 DEF SInv, OriginInv, EveryGoodFeedIsShelved
  <2>2. DOMAIN lines = DOMAIN pages
    BY <1>1, <1>4, <1>5 DEF SInv, ShelfTypes
  <2>3. Cat!IsPartOf(Seen', lines)
    BY <1>3, <1>5, <2>1, <2>2 DEF Cat!IsPartOf, IsOrigin
  <2>4. Cat!Refresh
    BY <1>1, <1>2, <2>3 DEF Cat!Refresh, Seen, Frozen
  <2> QED
    BY <2>4 DEF Cat!Next
<1>6. CASE misread
  BY <1>1, <1>2, <1>6 DEF Cat!Next, Cat!Refresh, Seen, Frozen
<1> QED
  BY <1>4, <1>5, <1>6

\* A step that reads the list, or one that leaves even that alone.
LEMMA ReadCat ==
    ASSUME SInv, UNCHANGED <<labels, entries, episode_lists, lines, back_target>>,
           misread' = misread \/ (pc = "callback" /\ callback \in {"addUrl", "update"}
                                  /\ misread' \in BOOLEAN)
    PROVE  [Cat!Next]_(Cat!vars)
<1>1. Frozen' <=> Frozen
  BY DEF Frozen
<1>2. CASE misread' = misread
  BY <1>1, <1>2, QuietStep
<1>3. CASE pc = "callback" /\ callback \in {"addUrl", "update"} /\ misread' \in BOOLEAN
  <2>1. ~Frozen
    BY <1>3, MainIsNotFrozen
  <2>2. Seen' = Seen
    BY DEF Seen, size
  <2> QED
    BY <1>1, <1>3, <2>1, <2>2 DEF Cat!Next, Cat!Read, Seen, Frozen
<1> QED
  BY <1>2, <1>3

LEMMA KilledCat == ASSUME SInv, Killed PROVE [Cat!Next]_(Cat!vars)
<1>1. labels' = <<>> /\ back_target' = NoList /\ F!Killed /\ misread' = misread
  BY DEF Killed, MenuStartsAgain, F!Killed, F!reads
<1>2. Seen' = <<>>
  BY <1>1, NoElements DEF Seen
<1>3. ~Frozen'
  BY <1>1, Distinct DEF Frozen, Lists
<1>4. CASE lines' = lines
  <2>1. Cat!Restart
    BY <1>1, <1>2, <1>3, <1>4 DEF Cat!Restart, Seen, Frozen
  <2> QED
    BY <2>1 DEF Cat!Next
<1>5. CASE filePc = "write" /\ (F!WholeLine \/ F!PartOfLine) /\ lines' # lines
  <2>1. F!TypeOK /\ input \in Urls /\ pc = "callback" /\ callback = "addUrl"
    BY <1>5 DEF SInv, FileInv
  <2>2. Len(lines') = Len(lines) + 1 /\ lines = SubSeq(lines', 1, Len(lines))
    BY <1>5, <2>1, WrittenFile
  <2>3. ~Frozen
    BY <2>1, MainIsNotFrozen
  <2>4. Cat!Restart
    BY <1>1, <1>2, <1>3, <2>2, <2>3 DEF Cat!Restart, Cat!Grows, Seen, Frozen
  <2> QED
    BY <2>4 DEF Cat!Next
<1> QED
  BY <1>1, <1>4, <1>5 DEF F!Killed, F!contents

LEMMA NextCat == SInv /\ [SessionNext]_sessionVars => [Cat!Next]_(Cat!vars)
<1> SUFFICES ASSUME SInv, [SessionNext]_sessionVars PROVE [Cat!Next]_(Cat!vars)
  OBVIOUS
<1>1. CASE Turn
  <2>1. UNCHANGED <<labels, entries, episode_lists, lines, misread, back_target>>
    BY <1>1 DEF Turn, HandleInput, backButtonCallback, menuVars, fileVars, shelfVars
  <2> QED
    BY <2>1, QuietStep DEF Frozen
<1>2. CASE Navigate /\ ~OpenList
  <2>1. UNCHANGED <<labels, lines, misread, episode_lists>> /\ (Frozen' <=> Frozen)
    <3>1. CASE ConstructMenu
      BY <1>2, <3>1, Distinct DEF ConstructMenu, goToList, Navigate, fileVars, shelfVars, Frozen,
         Lists, MemberLists, SInv, IInv, ConstructionInv
    <3>2. CASE ~ConstructMenu
      BY <1>2, <3>2 DEF ConstructLists, OtherCallback, Draw, Navigate, fileVars,
         shelfVars, Frozen, menuVars, listVars
    <3> QED
      BY <3>1, <3>2
  <2>2. CASE entries' = entries
    BY <2>1, <2>2, QuietStep
  <2>3. CASE ConstructLists
    <3>1. episode_lists = <<>> /\ Len(labels) = 0 /\ labels \in Seq(F!Text)
      BY <2>3, EmptyIsTyped
      DEF SInv, IInv, ConstructionInv, ConstructLists, LabelsInv, ShelfTypes
    <3>2. DOMAIN labels = {} /\ DOMAIN labels' = {}
      BY <2>1, <3>1
    <3>3. Seen = <<>> /\ Seen' = <<>>
      BY <3>2, NothingSeen, NoElements DEF Seen
    <3>4. Frozen' = Frozen
      BY <2>1 DEF Frozen
    <3> QED
      BY <2>1, <3>3, <3>4 DEF Cat!vars, Seen, Frozen
  <2> QED
    BY <1>2, <2>2, <2>3 DEF Navigate, ConstructMenu, OtherCallback, Draw, listVars
<1>3. CASE Navigate /\ OpenList
  BY <1>3, OpenListCat DEF Navigate
<1>4. CASE FeedListStep(F!Write)
  BY <1>4, WriteCat
<1>5. CASE OpenDialog \/ DialogEnds \/ FeedListStep(F!CannotOpen \/ F!Open)
  <2>1. lines' = lines
    BY <1>5 DEF OpenDialog, DialogEnds, FeedListStep, F!AddUrl, F!NothingTyped, F!AlreadyListed,
                F!NewUrl, F!Typed, F!CannotOpen, F!Open, F!contents
  <2>2. UNCHANGED <<labels, entries, episode_lists, back_target>>
    BY <1>5 DEF OpenDialog, DialogEnds, FeedListStep, OtherCallback, vars, listVars, menuVars,
                shelfVars
  <2>3. misread' = misread \/ (OpenDialog /\ misread' \in BOOLEAN)
    BY <1>5, ReadList DEF OpenDialog, DialogEnds, FeedListStep, F!AddUrl, F!NothingTyped,
       F!AlreadyListed, F!NewUrl, F!Typed, F!CannotOpen, F!Open, F!reads, SInv, FileInv
  <2> QED
    BY <2>1, <2>2, <2>3, ReadCat DEF OpenDialog
<1>6. CASE StartUpdate \/ Download \/ UNCHANGED sessionVars
  <2>1. UNCHANGED <<labels, entries, episode_lists, lines, back_target>>
    BY <1>6 DEF StartUpdate, F!UpdateReads, F!contents, Download, Fetch, sessionVars, vars,
                listVars, menuVars, fileVars, shelfVars
  <2>2. misread' = misread \/ (StartUpdate /\ misread' \in BOOLEAN)
    BY <1>6, ReadList DEF StartUpdate, F!UpdateReads, Download, Fetch, sessionVars, fileVars,
                          SInv, FileInv
  <2> QED
    BY <2>1, <2>2, ReadCat DEF StartUpdate
<1>7. CASE FinishUpdate
  BY <1>7, FinishCat
<1>8. CASE Killed
  BY <1>8, KilledCat
<1>9. AppendToFile => FeedListStep(F!Write) \/ FeedListStep(F!CannotOpen \/ F!Open)
  BY DEF AppendToFile, FeedListStep
<1> QED
  BY <1>1, <1>2, <1>3, <1>4, <1>5, <1>6, <1>7, <1>8, <1>9 DEF SessionNext, Program

LEMMA InitCat == SessionInit => Cat!Init
<1> SUFFICES ASSUME SessionInit PROVE Cat!Init
  OBVIOUS
<1>1. labels = <<>> /\ back_target = NoList /\ misread = FALSE
  BY DEF SessionInit, Init, F!Init
<1>2. Seen = <<>> /\ ~Frozen
  BY <1>1, NothingSeen, NoElements, Distinct DEF Frozen, Lists
<1> QED
  BY <1>1, <1>2 DEF Cat!Init, Seen, Frozen

\* What the user sees of the program, through kills and restarts, is a list of
\* subscriptions that only grows and a shelf each refresh fills from it, unless the
\* read of that very refresh failed (app.cpp, utils.cpp).
THEOREM SessionIsACatalogue == SessionSpec => ImplementsCatalogue
BY InitCat, NextCat, SessionInvariant, PTL DEF SessionSpec, ImplementsCatalogue, Cat!Spec
=============================================================================
