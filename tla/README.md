# psCast in TLA+

psCast is a podcast client for the PS Vita. It is one thread: `main` constructs
`App`, and `App::run` polls the buttons and draws a frame for ever. Everything
else (reading `feeds.txt`, downloading, parsing, the input dialog) runs inside
the callback of a menu entry, in the middle of a frame. What makes the program
hard is therefore not a lock but what happens around that thread: the user
pushes buttons while nobody polls, every call to the system may fail and most
results are not looked at, the program is killed at any moment, callbacks hold
raw pointers to lists that other callbacks delete, and values read before a
callback are used after it.

## 1. Inventory

| component | code | state | operations |
|---|---|---|---|
| menu and lists | `menu.cpp`, `menu.hpp` | `MenuList`: entries, parent, index; `Menu`: menu_list, current_list, the captured back callback | `goToList`, the back callback, `goDownOnList`/`goUpOnList`, `draw`, `drawList` |
| podcast lists of App | `app.cpp` 7-39, 158-181 | the three member lists, `podcast_episodes_lists` | constructor, `updatePodcastsList` |
| main loop and buttons | `gui.cpp`, `gui.hpp`, `App::run` | `old_data`, `pressed_buttons` | `update`, `updateInput` |
| feed list file | `app.cpp` 132-144, 242-268, `utils.cpp` 60-97 | `feeds.txt`, `feed_urls` | `appendUrlToFeed`, `updateFeedFile`, `getLinesFromFile` |
| input dialog | `app.cpp` 183-240 | the text buffer, the dialog's status | `requestInputFromImeDialog` |
| network and transfers | `http.cpp`, `http.hpp` | `is_init`, what is up, handles, `current_page` | `HttpBase::init`, `Http::download`, `Https::download` |
| update of the podcasts | `app.cpp` 84-156 | `podcasts`, the header message | `downloadAndParseFeed`, `updateFromFeedFile` |
| feed formats | `libraries/feedpp`, `podcast.cpp` | the `feed` under construction | `parse_xmlnode`, `get_object`, `parse_feed`, `parseFromXmlStream` |
| dates, text helpers | `libraries/feedpp/date.cpp`, `utils.cpp` | none | `format`, `tokenize`, `absolute_url` |
| conversions | `utils.cpp` 7-58 | none | `utf8To16`, `utf16to8` |
| logger, start-up, settings | `logger.cpp`, `main.cpp`, `App::init`, `settings.hpp` | a log file | `log` |

How they interact:

- `App::run` -> `GUI::cycleActiveGUI` -> `GUI::update`: poll, then `Menu::draw`.
- `Menu::draw` moves the selection, then runs the callback of the entry (accept)
  or the back callback, then draws. The entries' callbacks call `goToList`,
  `appendUrlToFeed` or `updateFromFeedFile` of App.
- `updateFromFeedFile` reads the file, downloads and parses each URL, and calls
  `updatePodcastsList`, which deletes and rebuilds lists the menu may point to.
- `feeds.txt` is the only state that outlives a run.

Hard behaviours and the property each component owes:

- **Menu.** Pointers to lists that are deleted (`NoDanglingList`, `HeapIsOwned`);
  a callback that stays bound to an old list (`MainUnreachableAfterEpisodes`); an
  index that survives `clear()` (`OnlyUpdateStrandsSelection`); an index read
  before and used after a callback (`HighlightLagsAtMostOneFrame`,
  `AcceptRunsHighlightedEntry`); pages (`PageHoldsSelection`); the constructor's
  order of members (`TypeOK`).
- **Buttons.** Polls that come too late (`EveryPushCounts`, `NoTriggerTwice`,
  `ReleaseTriggers`).
- **Feed list.** Short writes, failed reads, kills, a list that is read before a
  dialog and used after it (`NoDuplicates`, `DamageNeedsTear`, `HeaderIsRight`,
  `ListedStaysListed`).
- **Input dialog.** A loop inside a callback, a dialog that could not be opened, a
  result nobody fetches, buttons that the dialog has had (`AnswerIsTyped`,
  `OpenNeedsNewPush`, `DialogKeepsItsPushes`, `NotOpenedIsForever`,
  `WaitsOnlyForDialog`).
- **Network.** Half-done initialisation, handles and memory that are never given
  back, broken transfers, chunks that replace the page (`FailedInitIsForever`,
  `NoHttpAfterPool`, `NoHttpsAfterHeap`, `WholeFeedNeedsOneChunk`,
  `DownloadEnds`).
- **Update.** One URL of several that fails, an update that reads nothing, copies of
  `Podcast` that lose `is_valid`, a kill in the middle (`EveryGoodFeedIsShelved`,
  `ShelfIsPodcasts`, `ImplementsCatalogue`, `MenuComesBack`).
- **Conversions and lines.** Buffers sized by rules of thumb, unsigned indices that
  advance by more than one, reads that fall short (`TypedTextFits`,
  `LoopsStayInside`, `TitleOverrunsByOne`, `RoundTrip`, `LinesOfBuffer`).
- **Formats.** Namespaces, missing channels, elements in any order
  (`ReadsWholeFeed`, `ForeignNamespaceHidesFeed`, `UnsupportedFormatIsRefused`);
  fields with several sources and unsigned positions (`RssFieldsFound`,
  `EntryDescriptionFound`, `OnlyLoneBracketFails`).

`PROJECT.json` lists the hazards one by one, each at its line, with the
properties that would catch it going wrong.

## 2. Modules

```
Navigation             Catalogue          what the user is promised (abstract)
   ^ refined by           ^ refined by
Menu <------------------ Session -------> FeedFile
  ^ (lists, pointers,    (updates, kills  (feeds.txt, appends, reads)
  |  App's callbacks)     and restarts)
App ----> Gui <--- GuiHistory             (the loop, polling, accounts of pushes)
           ^------ ImeDialog              (the dialog and the buttons around it)
Download                                  network stack, transfers, what reaches the parser
FeedParser, FeedItem                      formats, namespaces, Podcast; fields of one item
Utf, Lines                                the functions of Utils
*Proofs                                   theorems
MC*                                       instances for TLC
```

`MenuProofs`, `AppProofs`, `FeedFileProofs`, `SessionProofs` and `DownloadProofs` are
about the module they are named after, `GuiProofs` about GuiHistory and ImeDialog,
`UtilsProofs` about Utf and Lines, `FeedppProofs` about FeedItem and FeedParser.
Modules whose theorems share a proof module name their variables and formulas
apart: `HistorySpec`, `ItemSpec`, `linesVars`.

### Menu

A pointer is the identity of a list. `MemberLists` are the members of App;
`Heap` holds the addresses `new` can return, and an address that was deleted can
be returned again, which is where a stale pointer would be silently wrong rather
than crash. `entries[l]` keeps of each entry its callback: a list to go to,
"addUrl", "update" or "nullptr". `back_target` is the `next_list` that the
lambda of `goToList` captured.

One turn of the loop is cut where a callback runs: `HandleInput` (buttons, the
index, the back callback), then `OpenList`, `Update` or `OtherCallback` for an
accepted entry, then `Draw`. `shown` is the frame that was drawn.

`Init` is the moment before `Menu`'s constructor: `menu` is declared before the
lists in `app.hpp`, so that constructor goes to a list whose parent holds
anything. `ConstructMenu` and `ConstructLists` follow.

`Update` rebuilds the lists from a shelf, the number of episodes of each podcast
(`Shelves`), or leaves them when `feeds.txt` is empty. Which shelf it is, Session
says.

`RowsDrawn` is the loop of `drawList`, which goes on as long as there are entries and
the next row begins on the screen: `Top` is where a row begins, `entry_height` the
quotient the code computes from the heights of the screen, of the header and the
number of rows. Where that division leaves a remainder a row of the next page is
drawn too; with the code's numbers it does not, and `PageHoldsSelection` says both.

### Gui, GuiHistory, App

`Gui` has the two assignments of `updateInput` and a user who pushes and lets go
of buttons at any time. `GuiHistory` adds counters, which the program does not
have, to say what happened to every push. Its liveness, `ReleaseTriggers`, has the
loop's going on as its premise: a turn runs callbacks, and whether these return is
the subject of ImeDialog, Download and Session. `App` joins `Gui` and `Menu`: a turn
polls and handles the input in one step, the user acts between any two steps,
for a callback can take as long as a download.

### FeedFile

A line is a sequence of characters (`Letters`, a few that stand for all but the
newline). A short write leaves the first characters of an URL behind the last newline
(`tail`), where the next append continues: what is glued together may spell another
URL, a listed one too. A read that succeeds gives the lines of the file. One that
fails or falls short leaves what `malloc` found in the buffer to be cut into lines:
`Misreads` are the lists this may give, any that fit a buffer of the size of the file
(`Bytes`, `FileSize`); a failed open gives none. `misread`, `blind` and `torn` are
history variables: has the last read failed, has any, has a write fallen short. They
make the properties exact, for the program really repeats an URL after a failed read,
and really breaks lines, and can make two of them the same, after a short write.
`Killed` may happen in every state, in the middle of a write too.

### Session, Catalogue

`Session` is the program from start to kill, again and again. It extends Menu and
instantiates FeedFile: `FeedListStep` lets the steps of `appendUrlToFeed` happen
while the menu waits in the callback of "add url", and Menu's `Update` gives way to
the code of `updateFromFeedFile`. `StartUpdate` reads the list, and ends there when
it is empty; `Fetch` downloads and parses one URL, keeps a copy of a podcast that is
valid, and takes its result from outside, a number of episodes or `NoFeed`;
`FinishUpdate` calls `updatePodcastsList`. `Copy` is the copy constructor of
`Podcast`, which leaves `is_valid` out. `Killed` throws everything away but the
file, in every state.

`Catalogue` is what all this amounts to for the user: subscriptions that only grow
and outlive the program, a shelf that a refresh replaces by some of the
subscriptions in their order (or by anything, if its read of the list failed), and nothing that changes any more after a list of
episodes has been opened. The mapping reads `subscriptions` off the file, `shelf` off
the labels and lists on the screen, `frozen` off the captured list of the back
callback.

### ImeDialog

`ImeDialog` puts `Gui`'s polls around the loop of `requestInputFromImeDialog`. While
the loop waits nobody polls, so `old_data` ages; the user goes on pushing buttons,
types, and closes the dialog by either button. `InitDialog` may fail, and since
`showDial` is cleared all the same there is no second attempt. `rstButton` is the
result: cleared, never fetched.

### Download

The stages of `HttpBase::init` with the possibility that each fails, that a
stage refuses to be brought up twice (`RepeatFails`) and that the memory for
`sceNetInit`, which nobody frees, is used up. The handles of `sceHttp` come from
a pool of `PoolSize`. A body is a sequence of chunks; `Keep` is where `Http`
appends and `Https`'s callback assigns. An https answer first brings a header, for
which `writefunc` needs memory, more or less of it (`HeaderSizes`). Nobody frees that,
nor the other strings and the list of headers of `Https::download`; `leaked` is the
memory lost in this way. The heap is the one of the whole program: `HeapRoom` is all
of it, and since pages, podcasts and lists come and go, a header may be refused at
any moment (`HeaderRefused`), while one is certainly refused only when `leaked` leaves
no room for it. `Parse` takes any page that is not empty, as the code does.

### FeedParser

Documents are records (name, namespace, version, children). `DetectVersion`,
`Create` and `Walk` are the three phases of `parse_xmlnode`; `Walk` takes one
element at a time and `ItemIn`, `TitleIn`, ... say where each of the three
parsers looks for it. An uninitialised `rss_version` is a choice among all
versions. `Documents` is a constant: any root elements whose children have
children.

What a document holds is said without loops: `Places` are the positions of its
children and of theirs, `ItemPlaces`, `TitlePlaces` and `CreatorPlaces` those where
its format has items, titles and creators, and `ReadsWholeFeed` compares what
Podcast shows with the texts at these places in the order of the document.

### FeedItem

A text is a sequence of `Characters`, for the author field is cut at brackets with
unsigned positions (`Width` stands for 2^32; no text is as long). `Attributes` are
what a type can say, `Dates` the texts `date::format` recognises. `ReadRss` and
`ReadAtom` take one child, `FinishRss` and `FinishAtom` fill what is empty from
the second choices. `WalkAway` is what happens to an author that is a lone
bracket: `substr` throws, or the program crashes.

### Utf, Lines

The loops of `utils.cpp` one turn at a time. In `Utf` masks are remainders and shifts
are quotients; `utf16to8` starts from what was typed, `utf8To16` from a title or,
to show that the two fit each other, from the result of the first. `Lines` is
`getLinesFromFile` character by character, over a buffer that a short read fills in
part; FeedFile builds on what it returns. Its `AppendedLine` is the law by which
FeedFile's `WholeLine` adds to the file.

## 3. Runs

| run | instance | what it shows |
|---|---|---|
| `menu` | three addresses, shelves of up to two podcasts with 0, 1 or 3 episodes, pages of 2 rows | every property of Menu, and that it implements Navigation |
| `gui` | two buttons, three pushes of each | the account of every push; a release that stays is answered while the loop goes on |
| `app` | one address, shelf of none or one podcast, up to two buttons held | accept runs the entry that is highlighted |
| `feedFile` | three URLs, of which one is spelt by the other two, three lines, two characters behind the last newline, misread lists of up to two lines | the list through failures and kills |
| `feedFileAppended` | the same | **violated**: the header says `appended` of a write that fell short |
| `download` | bodies of up to three chunks, a pool of 7 handles, two blocks of memory, a heap of 5 units for headers of 2 or 3, a `sceNetInit` that cannot be repeated | which feeds arrive whole, after what nothing arrives, and that only a server keeps a download from ending |
| `session` | two URLs, of which one is the other one twice, lists of two lines, nothing behind the last newline when an URL is added, misread lists that are empty or have two lines, feeds of none or one episode, two addresses | what becomes of every URL through updates and kills, that Session implements Catalogue, and that every callback comes back |
| `imeDialog` | two buttons, accept among them, one text besides the empty one | what the dialog answers, which pushes reach the menu, and when the program waits for ever |
| `utils` | texts of up to three units from both sides of every limit and both kinds of surrogates; byte strings of up to four; files of up to four characters | the conversions and their buffers, the lines of a file |
| `feedParser` | every root format, version and namespace with up to two children, a channel of up to two among them | the parsers find all of a feed and nothing else |
| `feedItem` | items of up to three, entries of up to two children; authors up to four characters | first and second choices in any order; one item that takes the feed down |
| `feedParserFormat` | the same | **violated**: a document that is no feed can become a podcast |

Why the bounds are enough. *Menu*: two podcasts are needed for one list of
episodes to be deleted while another one's address is reused, a third address so
that `new` has a choice; three episodes on pages of two give a full page, a page
that is not full and an empty list. The code has pages of eight rows: `EntryCount` is a
constant and the theorems hold for every value. *Gui*: buttons do not influence
each other, two show that; three pushes let an answered push be followed by one
lost between polls and one merged with its neighbour. *App*: two buttons let go
of before the same poll cover the priorities of `draw`. *FeedFile*: three lines
hold a duplicate beside another line; URLs `a`, `b` and `ab` are the least with which
two damaged writes spell a listed URL; a misread list of two lines has a listed URL
behind a line that is none, or in front of it. `MaxLines` and `MaxTail` only stop new
dialogs. *Download*: three chunks distinguish the first, the last and one in
between; seven handles hold two downloads and a template of a third; on a heap of five
a long header may still fit when a second one does not, a short one twice, and the
other allocations take what is left. *FeedParser*:
parsers treat children one by one, two children show their order and
overwriting. *FeedItem*: a first choice before or after a second one, and a
repeated one, take three children. *Session*: two lines give an update a URL that
fails beside one that does not, in either order, and the same URL twice; an empty
feed is told from a failed one; the misread list has an URL that the file need not
have, behind a blank line that no undamaged file has; two updates in a row, and so a reused address, happen
within the bounds; the run is the largest, about two minutes. *ImeDialog*: pushes are
not counted, so nothing bounds them. *Utils*: the three units around a limit are
neighbours once each; four bytes hold every lead with too few and enough
continuations; `BufferSize` is the least the assumption allows.

Fairness. `GuiHistory` assumes none: that polls go on is a premise of `ReleaseTriggers`.
`WF(Program)` in `Session` and `ImeDialog` is the same thread, which runs on
through every callback; `Download`'s `FairSpec` has the steps the thread takes without
a server. Neither the user nor a server is ever assumed fair: nothing in the code
ends a transfer whose server stopped sending, and nobody must close a dialog. Where
a property needs one of them it says so as a premise: `MenuComesBack` of dialogs
that are closed and downloads that end, `DownloadEnds` of a server that sends what it
has. `WaitsOnlyForDialog` has no premise and names what can keep the program waiting.
`FailedInitIsForever`, `NoHttpAfterPool`, `NoHttpsAfterHeap`, `NotOpenedIsForever` and
`MainUnreachableAfterEpisodes` are safety: once, then always.
Deadlock is checked in every run; FeedParser, FeedItem, Utf and Lines, which end,
have an explicit `Terminated` step.

Type invariants are proved where a component has theorems (section 4), so that only
`menu` runs one: Menu's, which is about the uninitialised parent in the constructor.

## 4. Proofs

TLAPS proves, for every value of the constants that meets the named
assumptions:

- **MenuProofs** (assumption `MenuAssumption`: the constants are distinct values,
  shelves are sequences of numbers, a page has a row, and each row a pixel). `NoDanglingList` is not
  inductive. What makes it true is that deleting happens only from the main
  menu, and that by then the menu cannot hold a list of episodes. The inductive
  invariant `IInv` says so: where `current_list` stands relative to
  `menu_list`; that a captured list of episodes implies that the menu shows the
  podcasts or that list and never the main menu; which parents are possible; that
  the entries of the podcasts are exactly the lists on the heap, that the
  callback about to run is one of the drawn list. From `IInv` follow type
  correctness (`Types`, and `Constructed`, when pointers have been set), the three invariants, two action properties, and, with one lemma
  per action, the refinement of Navigation.
- **AppProofs** (no further assumption). `AppImplementsMenu`: every step of the main
  loop is a step of Menu or leaves it alone, so that Menu's theorems, `NoDanglingList`
  among them, hold in the program (`AppNeverDangling`). `AcceptIsHonest`
  rests on `FrameInv`: a button acts on its release, so the turn before the one
  that accepts saw the button down, hence ran no callback, and its frame
  highlights what is selected.
- **GuiProofs** (`GuiAssumption`). `EveryPushCounts` needs the types and is
  inductive with them.
- **FeedFileProofs** (`FeedFileAssumption`). `NoDuplicates` needs to know that
  an URL about to be written is not in the file although it was compared with
  the copy read before the dialog; the invariant (`InputInv`) ties `feed_urls` to
  `lines` while a dialog is open, unless the read before it failed. That no line is
  there twice holds while no read fails and no write falls short, for then every line
  is an URL that was compared (`DamageNeedsTear`). `HeaderIsRight` and
  `ListedStaysListed` follow with it; of glued characters the proofs need only that
  they are characters (`GluedIsText`, `PartIsText`), not what they spell.
- **MenuProofs** also has `PageHoldsEntry`, by arithmetic on the pixels of `RowsDrawn`
  for any `EntryCount` and screen, from `ShownInv` (a frame shows the rows its list and
  index call for until the next turn), and `LagsOneFrame`, from `LagInv` (the index
  drawn is the selection of the list drawn unless that list has just come to the
  screen, and no list leads to itself).
- **SessionProofs** (`SessionAssumption`). `SInv` is Menu's `IInv`, `FileInv` (the
  file is used only while the menu waits in the callback, so that FeedFile and
  Menu cannot disagree), `UpdateInv` (the list an update works on is the file's unless
  the read of this update failed), `ShelfTypes`, `OriginInv` (which line
  each podcast came from, in increasing order) and `LabelsInv` (what the screen
  shows). `IInv` is carried over from MenuProofs: a `FinishUpdate` is an `Update`,
  a kill is an `Init`. `SessionImplementsFeedFile` and `SessionNeverDangling` carry
  over theorems of the parts, and `SessionKeepsTheFeedList` states those of
  FeedFileProofs of the whole program; `ShelfShowsPodcasts` is `LabelsInv`; and
  `SessionIsACatalogue` maps every step, the refresh by the witness of `OriginInv`,
  which is also `EveryGoodFeed`: podcasts and pages are tied by the position each came
  from (`IsOrigin`), which a further page extends.
- **DownloadProofs** (`DownloadAssumption`). Three sets that no step leaves, each with
  the types: the stack is lost, there is no room for three handles, what is leaked leaves no
  room for any header, whatever else is freed (`StackIsLost`, `HttpIsOver`, `HttpsIsOver`). `WholeFeeds` is from
  `PageInv`: the page is all chunks received, or over https the last one.
- **GuiProofs** also has the dialog (`ImeDialogAssumption`). `DInv` adds three facts:
  there is a dialog only while the program waits for it, accept can be answered only
  for a fresh push, and what `old_data` has seen pushed was down when the dialog
  opened. All safety properties follow.
- **UtilsProofs** (`UtfAssumption`; `maxTextLength`, 20 in the code, is what makes the
  buffer large enough, for three bytes a character and a zero). `UInv` bounds the
  bytes by three per unit consumed (`SizeInv`) and says that `utf8To16` has fallen
  behind exactly when it passed the lead of a longer character (`AlignedInv`).
  Theorems: every byte and unit fits its type, no loop runs over, what is typed fits,
  and which titles overrun. `RoundTrip` needs to know where each character begins
  among the bytes: `RoundInv` says that there is a list of such positions, one after
  the other, at each of which stands the encoding of its unit, and that `utf8To16` is
  at one of them and has given back the units in front of it. That this is UTF-8, and
  the only way to cut it, is `CodesAreUtf8`. Lines (`LinesAssumption`) is cut in the
  same way: `LinesInv` ties the list to the positions of the newlines in front of
  `index`, and `past_index` to the last of them.
- **FeedppProofs** (`FeedItemAssumption`, `FeedParserAssumption`). The loops
  of the parsers are proved by what each has found among the children it has passed.
  For FeedItem, `ItemInv` says so of the first k children, for every field and for
  the local variables that hold second choices, and the last child of a kind is
  carried from k to k + 1. What the author's walk finds is a greatest position:
  that there is one is the well-foundedness of the numbers (`GreatestNumber`), which
  stands in for an induction. For FeedParser, `WalkedTo(i, j)` says that what is left
  to walk over begins behind place <<i, j>> and that title, creator and items are
  those up to this place; `WalkOverKid` and `WalkOverChild` take it to the next place,
  which no place that matters lies in front of (`NoneBetween`). `VersionInv` ties
  the version to the root element, so that the parser's namespace and elements are
  the format's (`NsIs`, `ElementIsRead`). `ForeignFeedIsEmpty` follows from
  `FeedIsRead`: without any such places nothing is found.

Every safety property that a passing run checks is a theorem, invariants, action
properties and the two refinements. Only model-checked is liveness (`ReleaseTriggers`,
`DownloadEnds`, `MenuComesBack`, `WaitsOnlyForDialog`): it rests on fairness and so on
ENABLED, which is beyond the prover. The two runs that expect a violation have
their counterexamples.

## 5. What the code does that one would not expect

- After a list of episodes has been opened the main menu cannot be reached again
  in this session (`menu.cpp:151-161`). This is also the only reason why
  `updatePodcastsList` never deletes a list that is in use: a repair of the back
  button has to tell the menu about deleted lists at the same time. The mutant
  `BackRearmed` is that repair done naively.
- The list of feeds may hold an URL twice: after a read that failed, since the test
  for a repeated URL looks at what that read left (`utils.cpp:81`, `app.cpp:249`), and
  after a write that fell short, since the next append continues its line and may
  spell a listed URL (`app.cpp:265`). A failed read can also make an update download
  pieces of whatever was in memory.
- `appended ... to feed list` is shown whatever `sceIoWrite` did
  (`app.cpp:265-266`, run `feedFileAppended`).
- An https feed that arrives in more than one chunk is parsed from its last
  chunk alone (`http.cpp:77-81`), a broken one like a whole one (`app.cpp:100`).
- `http` feeds stop working for the session when the handle pool is used up
  (`http.cpp:206`), and so does the network after some failed initialisations.
  `https` feeds leak their strings and header list (`http.cpp:149`) and stop for good
  when that leaves no room for a header on the heap, whatever else is freed.
- No URL longer than 20 characters can be added: `maxTextLength` is 20
  (`app.cpp:202`). It is also what keeps the typed text inside its buffer, for
  `utf16to8` tests its sizes by half a byte per character (`utils.cpp:35`).
- The dialog's title overruns its buffer by one unit whenever it has no accented
  character, as "Feed URL" (`app.cpp:194`, `TitleOverrun`).
- A cancelled dialog counts as a confirmed one, since its result is cleared and
  never fetched (`app.cpp:220`); a dialog that could not be opened is waited for
  for ever (`app.cpp:207`).
- `utf16to8` does not encode pairs of surrogates as UTF-8 does, and `utf8To16` takes
  a lead of four bytes for one of three; `RoundTrip` is about texts without them.
- The shelf is filled only because compilers elide the copy of what
  `downloadAndParseFeed` returns: the copy constructor of `Podcast` leaves
  `is_valid` out (`podcast.hpp:42`). The mutant `ReturnedByCopy` is a compiler that
  does not.
- An item whose author is `)` makes the whole feed fail
  (`rss_09x_parser.cpp:125`).
- A document that is no feed chooses its parser by uninitialised memory
  (`parser.cpp:223`, run `feedParserFormat`).

## 6. Not modelled, and why

- Dates: they never reach `Podcast`; `strptime` and `std::regex` do the work. The
  text helpers of `feedpp/utils.cpp` are pure, and what `tokenize` and the cutting
  of an author mean to an item is in FeedItem.
- `parse_url`, `parse_file`, `HttpBase::end`, `MenuList::erase`,
  `setEntryActive`, the destructors: never called.
- Logger, start-up, settings, build files: no state the program reads back.
- Colours and text layout, `vita2d_clear_screen` inside the loop over the rows
  (`menu.cpp:64`) among them: `shown.rows` are the rows the loop draws; the options and headers given to libcurl.
- The result of libxml2's recovery: any part of a page may parse or not.

- The tests of the sizes that open `utf8To16` and `utf16to8`: psCast's calls always
  pass them. Closing the file and freeing the buffer in `getLinesFromFile`, which
  happen on every path.
- What a page is between `Download` and `Session`: `Session` takes any number of
  episodes or a failure for each URL, which covers every page Download leaves and
  every document FeedParser reads.

## 7. Plan

1. *First stage*: Menu with Navigation, Gui, App, FeedFile, Download, FeedParser,
   FeedItem, and the theorems of MenuProofs, AppProofs, GuiProofs and
   FeedFileProofs about them.
2. *Second stage*: Session with Catalogue, ImeDialog, Utf, Lines, the memory and the
   header of https in Download, liveness, and the theorems of SessionProofs,
   DownloadProofs, UtilsProofs and, about the dialog, of GuiProofs.
3. *Third stage*: what had only been model-checked of safety: `EveryGoodFeed`,
   `TextsGoRound`, `LinesAreCut`, and FeedppProofs; FeedFile's theorems of the whole
   program.
4. *Fourth stage*: the texts of feeds.txt character by character, reads that give
   anything, the pixels of a page, and the heap that https shares with the program.
5. *Left*: the composition of ImeDialog with App, so that `DialogKeepsItsPushes` is
   about every entry of the menu.
