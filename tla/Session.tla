------------------------------ MODULE Session -------------------------------
(***************************************************************************)
(* The program from start to kill, again and again: the menu of Menu, the  *)
(* feed list of FeedFile, and between them App::updateFromFeedFile, which  *)
(* reads the list, downloads and parses one URL after another and puts the *)
(* podcasts on the shelf (app.cpp, podcast.hpp).                           *)
(*                                                                         *)
(* Menu's nondeterministic Update becomes what the code does: its shelf    *)
(* comes from the lines of the file.  What a download brings is a number   *)
(* of episodes or NoFeed; Download and the parsers say when it is which.   *)
(***************************************************************************)
EXTENDS Menu

CONSTANTS Letters, Urls, Misreads, MaxLines, MaxTail,  \* those of FeedFile
          EpisodeCounts,                   \* sizes of the feeds on the servers
          NoFeed                           \* what fails to load or to parse

\* MaxLines bounds the lines that a failed read makes up as well.
ASSUME SessionAssumption ==
    /\ \A u \in Urls : u \in Seq(Letters) /\ u # <<>>
    /\ \A ls \in Misreads : ls \in Seq(Seq(Letters)) /\ Len(ls) <= MaxLines
    /\ MaxLines \in Nat \ {0} /\ MaxTail \in Nat
    /\ EpisodeCounts \subseteq Nat
    /\ NoFeed \notin EpisodeCounts
    /\ Shelves = UNION {[1 .. n -> EpisodeCounts] : n \in 0 .. MaxLines}

VARIABLES
    filePc, exists, lines, tail, feed_urls, input, header, misread, blind, torn,
              \* FeedFile's; filePc is what appendUrlToFeed does next
    updating, \* is updateFromFeedFile past the reading of the file?
    pages,    \* what the URLs downloaded in this update brought
    podcasts, \* App::podcasts
    labels    \* which podcast each entry of podcast_list names

F == INSTANCE FeedFile WITH pc <- filePc

fileVars    == <<filePc, exists, lines, tail, feed_urls, input, header, misread, blind, torn>>
shelfVars   == <<podcasts, labels>>
sessionVars == <<vars, fileVars, updating, pages, shelfVars>>

-----------------------------------------------------------------------------
(* The menu and the feed list, each while the other one waits. *)

\* Bound: nobody adds an URL to a feed list that has reached FeedFile's bounds.
Turn ==
    /\ \E pressed \in SUBSET Buttons : HandleInput(pressed)
    /\ callback' = "addUrl" => F!WithinBounds
    /\ UNCHANGED <<fileVars, updating, pages, shelfVars>>

Navigate ==
    /\ \/ ConstructMenu \/ ConstructLists
       \/ OpenList
       \/ callback = "nullptr" /\ OtherCallback
       \/ Draw
    /\ UNCHANGED <<fileVars, updating, pages, shelfVars>>

\* appendUrlToFeed returns to the menu wherever it returns.
FeedListStep(step) ==
    /\ step
    /\ IF filePc' = "menu" THEN OtherCallback ELSE UNCHANGED vars
    /\ UNCHANGED <<updating, pages, shelfVars>>

OpenDialog == callback = "addUrl" /\ pc = "callback" /\ FeedListStep(F!AddUrl)

DialogEnds ==
    FeedListStep(F!NothingTyped \/ \E u \in Urls : F!AlreadyListed(u) \/ F!NewUrl(u))

AppendToFile == FeedListStep(F!CannotOpen \/ F!Open \/ F!Write)

-----------------------------------------------------------------------------
(* App::updateFromFeedFile. *)

\* Mutant of StartUpdate: the podcasts are dropped before the list is read.
ClearBeforeReading ==
    /\ pc = "callback" /\ callback = "update" /\ ~updating
    /\ F!UpdateReads
    /\ podcasts' = <<>>
    /\ IF feed_urls' = <<>>
       THEN CallbackReturns /\ UNCHANGED <<updating, pages>>
       ELSE updating' = TRUE /\ pages' = <<>> /\ UNCHANGED <<pc, callback>>
    /\ UNCHANGED <<listVars, menuVars, frame_index, shown, labels>>

\* Without an URL the update ends here and everything stays as it was.
StartUpdate ==
    /\ pc = "callback" /\ callback = "update" /\ ~updating
    /\ F!UpdateReads
    /\ IF feed_urls' = <<>>
       THEN CallbackReturns /\ UNCHANGED <<updating, pages, podcasts>>
       ELSE /\ updating' = TRUE /\ pages' = <<>> /\ podcasts' = <<>>
            /\ UNCHANGED <<pc, callback>>
    /\ UNCHANGED <<listVars, menuVars, frame_index, shown, labels>>

\* Podcast's copy constructor leaves is_valid at its default.
Copy(podcast) == [podcast EXCEPT !.is_valid = FALSE]

\* Mutant of Returned: the compiler copies what it may as well elide.
ReturnedByCopy(podcast) == Copy(podcast)

\* downloadAndParseFeed's two returns name its one local variable, which every
\* build of the project makes the caller's object.
Returned(podcast) == podcast

\* downloadAndParseFeed catches every exception: it returns a podcast that is
\* valid, or one that is not.
downloadAndParseFeed(url, page) ==
    Returned([url |-> url,
              episodes |-> IF page = NoFeed THEN 0 ELSE page,
              is_valid |-> page # NoFeed])

\* Mutant of Fetch: after a failure the whole list is tried again.
FetchFromTheStart(page) ==
    LET p == downloadAndParseFeed(feed_urls[Len(pages) + 1], page)
    IN  /\ updating /\ Len(pages) < Len(feed_urls)
        /\ pages' = IF p.is_valid THEN Append(pages, page) ELSE <<>>
        /\ podcasts' = IF p.is_valid THEN Append(podcasts, Copy(p)) ELSE <<>>
        /\ UNCHANGED <<vars, fileVars, updating, labels>>

Fetch(page) ==
    LET p == downloadAndParseFeed(feed_urls[Len(pages) + 1], page)
    IN  /\ updating /\ Len(pages) < Len(feed_urls)
        /\ pages' = Append(pages, page)
        /\ podcasts' = IF p.is_valid THEN Append(podcasts, Copy(p)) ELSE podcasts
        /\ UNCHANGED <<vars, fileVars, updating, labels>>

Download == \E page \in EpisodeCounts \cup {NoFeed} : Fetch(page)

FinishUpdate ==
    /\ updating /\ Len(pages) = Len(feed_urls)
    /\ updatePodcastsList([i \in DOMAIN podcasts |-> podcasts[i].episodes])
    /\ labels' = [i \in DOMAIN podcasts |-> podcasts[i].url]
    /\ updating' = FALSE
    /\ CallbackReturns
    /\ UNCHANGED <<menuVars, frame_index, shown, fileVars, pages, podcasts>>

-----------------------------------------------------------------------------

SessionInit ==
    /\ Init /\ F!Init
    /\ updating = FALSE /\ pages = <<>>
    /\ podcasts = <<>> /\ labels = <<>>

\* Menu's Init once more.
MenuStartsAgain ==
    /\ pc' = "constructMenu"
    /\ entries' = [l \in Lists |-> <<>>]
    /\ parent' \in {[l \in Lists |-> p] : p \in {NoList, WildList}}
    /\ index' = [l \in Lists |-> 0]
    /\ live' = {}
    /\ episode_lists' = <<>>
    /\ menu_list' = NoList /\ current_list' = NoList /\ back_target' = NoList
    /\ frame_index' = 0
    /\ callback' = "nullptr"
    /\ shown' = [list |-> NoList, index |-> 0, rows |-> {}]

\* The program is killed at any moment and started again; only the file is left.
Killed ==
    /\ F!Killed
    /\ MenuStartsAgain
    /\ updating' = FALSE /\ pages' = <<>>
    /\ podcasts' = <<>> /\ labels' = <<>>

\* What the program does of its own accord.
Program == Turn \/ Navigate \/ OpenDialog \/ AppendToFile \/ StartUpdate \/ FinishUpdate

SessionNext == Program \/ DialogEnds \/ Download \/ Killed

SessionSpec == SessionInit /\ [][SessionNext]_sessionVars

\* The one thread runs on.  Nothing is assumed of the user, who may leave the
\* dialog open, nor of a server, which may never end its answer.
FairSession == SessionSpec /\ WF_sessionVars(Program)

-----------------------------------------------------------------------------
(* Properties. *)

SessionTypeOK ==
    /\ TypeOK /\ F!TypeOK
    /\ updating \in BOOLEAN
    /\ pages \in Seq(EpisodeCounts \cup {NoFeed})
    /\ podcasts \in Seq([url : F!Text, episodes : EpisodeCounts, is_valid : {FALSE}])
    /\ labels \in Seq(F!Text)

\* Outside an update the screen and App::podcasts agree, label by label and
\* episode by episode, also after updates that found no URL or no feed.
ShelfIsPodcasts ==
    ~updating /\ pc \notin {"constructMenu", "constructLists"} =>
        /\ labels = [i \in DOMAIN podcasts |-> podcasts[i].url]
        /\ Shelf = [i \in DOMAIN podcasts |-> podcasts[i].episodes]

\* f says which of the URLs downloaded each podcast came from: it is made of what
\* the URL brought, in the order of the list, and every page that is a feed has one.
IsOrigin(f, made, urls, fetched) ==
    /\ f \in [DOMAIN made -> DOMAIN fetched]
    /\ \A i \in DOMAIN made : made[i].url = urls[f[i]] /\ made[i].episodes = fetched[f[i]]
    /\ \A i, j \in DOMAIN made : i < j => f[i] < f[j]
    /\ {f[i] : i \in DOMAIN made} = {k \in DOMAIN fetched : fetched[k] # NoFeed}

\* One URL that fails spares the others: the podcasts are those of the URLs
\* read whose download and parse went well, each with what it brought, in the
\* order of the list, however often their Podcast objects were copied.
EveryGoodFeedIsShelved ==
    updating => \E f \in [DOMAIN podcasts -> DOMAIN pages] :
                    IsOrigin(f, podcasts, feed_urls, pages)

\* The menu polls again and again unless the program is killed over and over,
\* provided that every dialog is closed and every download ends: no callback
\* goes round in circles.
MenuComesBack ==
    WF_sessionVars(DialogEnds) /\ WF_sessionVars(Download)
        => []<>(pc \in {"input", "constructMenu"})

\* What the user sees implements the catalogue.
Cat == INSTANCE Catalogue WITH
    subscriptions <- lines,
    shelf         <- [i \in DOMAIN labels |->
                        [url |-> labels[i], episodes |-> size(episode_lists[i])]],
    frozen        <- back_target \in Heap
ImplementsCatalogue == Cat!Spec
=============================================================================
