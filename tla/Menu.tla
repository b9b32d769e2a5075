-------------------------------- MODULE Menu --------------------------------
(***************************************************************************)
(* The menu of psCast: the MenuList objects, the Menu that walks over them *)
(* through raw pointers, and the part of App that builds the lists, wires  *)
(* the entries' callbacks and rebuilds the podcasts (menu.hpp, menu.cpp,   *)
(* app.cpp).                                                               *)
(*                                                                         *)
(* One turn of the main loop is up to three steps: Menu::draw handles the  *)
(* buttons, runs the selected entry's callback if there is one, and draws. *)
(* A pointer is the identity of a list.  The lists that are members of App *)
(* are always there; a list of episodes lives at an address of Heap, which *)
(* `delete` gives back to the allocator and `new` may hand out again.      *)
(***************************************************************************)
EXTENDS Naturals, Sequences

CONSTANTS Heap,        \* addresses at which `new MenuList` can put a list
          NoList,      \* nullptr
          WildList,    \* the value of a pointer nobody has initialised
          Shelves,     \* podcasts an update can bring: episodes of each one
          EntryCount,  \* rows of a page, Menu::entry_count
          DisplayHeight, \* pixels of the screen
          HeaderHeight   \* those above the list: info_height + current_context_height

MemberLists == {"main", "options", "podcasts"}
Lists == MemberLists \cup Heap
Actions == {"addUrl", "update", "nullptr"}
Buttons == {"down", "up", "accept", "back"}

ASSUME MenuAssumption ==
    /\ Heap \cap (MemberLists \cup Actions) = {}
    /\ {NoList, WildList} \cap (Lists \cup Actions) = {}
    /\ NoList # WildList
    /\ Shelves \subseteq Seq(Nat) /\ <<>> \in Shelves
    /\ EntryCount \in Nat \ {0}
    /\ {DisplayHeight, HeaderHeight} \subseteq Nat
    /\ HeaderHeight + EntryCount <= DisplayHeight

VARIABLES
    pc,             \* what App::App or the main loop does next
    entries,        \* MenuList::entries: the callback of every entry
    parent,         \* MenuList::parent
    index,          \* MenuList::index, the selected entry, from 0
    live,           \* addresses that hold a MenuList now
    episode_lists,  \* App::podcast_episodes_lists
    menu_list,      \* Menu::menu_list, the list that is drawn
    current_list,   \* Menu::current_list
    back_target,    \* the next_list captured by backButtonCallback
    frame_index,    \* `index` in Menu::draw, read before the callback runs
    callback,       \* the callback Menu::draw is about to run
    shown           \* the last frame: its list, the index drawList was given
                    \* and the rows it drew

listVars  == <<entries, parent, index, live, episode_lists>>
menuVars  == <<menu_list, current_list, back_target>>
frameVars == <<frame_index, callback, shown>>
vars      == <<pc, listVars, menuVars, frameVars>>

-----------------------------------------------------------------------------
(* MenuList. *)

size(list) == Len(entries[list])

\* Mutant of increaseIndex: the bound is off by one.
IncreasePastTheEnd(list) ==
    IF index[list] < size(list) THEN index[list] + 1 ELSE index[list]

increaseIndex(list) ==
    IF index[list] + 1 < size(list) THEN index[list] + 1 ELSE index[list]

decreseIndex(list) == IF index[list] > 0 THEN index[list] - 1 ELSE index[list]

\* MenuList::at answers an entry without a callback outside the list.
at(list, i) == IF i < size(list) THEN entries[list][i + 1] ELSE "nullptr"

-----------------------------------------------------------------------------
(* Menu::drawList. *)

\* Menu::entry_height, a quotient of integers.
entry_height == (DisplayHeight - HeaderHeight) \div EntryCount

\* Where a row begins, in pixels, on a page that begins with the entry first.
Top(row, first) == HeaderHeight + (row - first) * entry_height

\* Mutant of RowsDrawn: the page is the one of the next entry.
RowsOfNextPage(list, i) ==
    LET first == ((i + 1) \div EntryCount) * EntryCount
    IN  {row \in 0 .. size(list) :
            first <= row /\ row < size(list) /\ Top(row, first) < DisplayHeight}

\* The rows the loop draws for entry i: from the first one of its page on, as
\* long as there are entries and a row begins on the screen.
RowsDrawn(list, i) ==
    LET first == (i \div EntryCount) * EntryCount
    IN  {row \in 0 .. size(list) :
            first <= row /\ row < size(list) /\ Top(row, first) < DisplayHeight}

-----------------------------------------------------------------------------
(* Navigation: Menu::goToList and the callback it installs. *)

goToList(next) ==
    /\ parent' = IF parent[next] = NoList
                 THEN [parent EXCEPT ![next] = current_list]
                 ELSE parent
    /\ back_target' = next
    /\ menu_list' = next
    /\ current_list' = next

\* Mutant of backButtonCallback: the list returned to becomes the one the
\* button leaves next.
BackRearmed ==
    IF parent[back_target] = NoList
    THEN UNCHANGED <<parent, menuVars>>
    ELSE /\ menu_list' = parent[back_target]
         /\ current_list' = parent[back_target]
         /\ back_target' = parent[back_target]
         /\ parent' = [parent EXCEPT ![back_target] = NoList]

\* The callback keeps the list it was made for: after it has returned to that
\* list's parent nothing but another goToList makes the button work again.
backButtonCallback ==
    /\ IF parent[back_target] = NoList
       THEN UNCHANGED <<parent, menu_list, current_list>>
       ELSE /\ menu_list' = parent[back_target]
            /\ current_list' = parent[back_target]
            /\ parent' = [parent EXCEPT ![back_target] = NoList]
    /\ UNCHANGED back_target

-----------------------------------------------------------------------------
(* App::updatePodcastsList. *)

Elements(s) == {s[i] : i \in DOMAIN s}

\* The addresses `new` returns for n lists while those in `taken` are held.
Allocations(n, taken) ==
    {a \in [1 .. n -> Heap \ taken] : \A i, j \in 1 .. n : a[i] = a[j] => i = j}

\* One new list for each podcast, beside the lists `kept`, and after the entries
\* `old` of the list of podcasts one entry that goes to it.
Rebuild(shelf, kept, old) ==
    \E a \in Allocations(Len(shelf), kept) :
        LET new == Elements(a)
            Episodes(l) == shelf[CHOOSE i \in DOMAIN a : a[i] = l]
        IN  /\ live' = kept \cup new
            /\ episode_lists' = a
            /\ entries' = [l \in Lists |->
                             CASE l = "podcasts" -> old \o a
                               [] l \in new -> [e \in 1 .. Episodes(l) |-> "nullptr"]
                               [] OTHER -> entries[l]]
            /\ parent' = [l \in Lists |-> IF l \in new THEN NoList ELSE parent[l]]
            /\ index' = [l \in Lists |-> IF l \in new THEN 0 ELSE index[l]]

\* Mutants of updatePodcastsList: the old lists are not deleted;
\* podcast_list.clear() is forgotten.
UpdateWithoutDelete(shelf) == Rebuild(shelf, live, <<>>)
UpdateWithoutClear(shelf) ==
    Rebuild(shelf, live \ Elements(episode_lists), entries["podcasts"])

\* The list of podcasts is cleared (its index stays) and every list of episodes
\* deleted before the new ones are made, so `new` may reuse their addresses.
updatePodcastsList(shelf) == Rebuild(shelf, live \ Elements(episode_lists), <<>>)

-----------------------------------------------------------------------------
(* App::App.  `menu` is declared, and so constructed, before the lists: its
   constructor goes to a main_menu_list whose members hold whatever was in
   memory, and then the list's own constructor sets them. *)

Init ==
    /\ pc = "constructMenu"
    /\ entries = [l \in Lists |-> <<>>]
    /\ parent \in {[l \in Lists |-> p] : p \in {NoList, WildList}}
    /\ index = [l \in Lists |-> 0]
    /\ live = {}
    /\ episode_lists = <<>>
    /\ menu_list = NoList /\ current_list = NoList /\ back_target = NoList
    /\ frame_index = 0
    /\ callback = "nullptr"
    /\ shown = [list |-> NoList, index |-> 0, rows |-> {}]

ConstructMenu ==
    /\ pc = "constructMenu"
    /\ goToList("main")
    /\ pc' = "constructLists"
    /\ UNCHANGED <<entries, index, live, episode_lists, frameVars>>

\* Mutant of ConstructLists: the constructor of MenuList leaves `parent` as it
\* found it.
ParentNotInitialised ==
    /\ pc = "constructLists"
    /\ entries' = [entries EXCEPT
                     !["main"] = <<"podcasts", "addUrl", "update", "options">>,
                     !["options"] = <<"nullptr">>]
    /\ pc' = "input"
    /\ UNCHANGED <<parent, index, live, episode_lists, menuVars, frameVars>>

ConstructLists ==
    /\ pc = "constructLists"
    /\ entries' = [entries EXCEPT
                     !["main"] = <<"podcasts", "addUrl", "update", "options">>,
                     !["options"] = <<"nullptr">>]
    /\ parent' = [l \in Lists |-> NoList]
    /\ pc' = "input"
    /\ UNCHANGED <<index, live, episode_lists, menuVars, frameVars>>

-----------------------------------------------------------------------------
(* One frame: Menu::draw. *)

\* Down wins over up.
MovedIndex(pressed) ==
    CASE "down" \in pressed -> increaseIndex(menu_list)
      [] "up" \in pressed \ {"down"} -> decreseIndex(menu_list)
      [] OTHER -> index[menu_list]

\* Mutant of FrameIndex: the index is read before the selection moves.
IndexBeforeMove(pressed) == index[menu_list]

FrameIndex(pressed) == MovedIndex(pressed)

\* The accept button wins over the back button.  The other two buttons the
\* code looks at have no callback.  There is always a list: without one the
\* code would go on to drawHeader, which dereferences it all the same.
HandleInput(pressed) ==
    /\ pc = "input"
    /\ menu_list # NoList
    /\ index' = [index EXCEPT ![menu_list] = MovedIndex(pressed)]
    /\ frame_index' = FrameIndex(pressed)
    /\ \/ /\ "accept" \in pressed
          /\ pc' = "callback"
          /\ callback' = at(menu_list, FrameIndex(pressed))
          /\ UNCHANGED <<parent, menuVars>>
       \/ /\ pressed \cap {"accept", "back"} = {"back"}
          /\ backButtonCallback
          /\ pc' = "draw"
          /\ UNCHANGED callback
       \/ /\ pressed \cap {"accept", "back"} = {}
          /\ pc' = "draw"
          /\ UNCHANGED <<parent, menuVars, callback>>
    /\ UNCHANGED <<entries, live, episode_lists, shown>>

CallbackReturns == pc = "callback" /\ pc' = "draw" /\ callback' = "nullptr"

OpenList ==
    /\ CallbackReturns
    /\ callback \in Lists
    /\ goToList(callback)
    /\ UNCHANGED <<entries, index, live, episode_lists, frame_index, shown>>

\* App::updateFromFeedFile: the lists stay as they are when feeds.txt is empty.
Update ==
    /\ CallbackReturns
    /\ callback = "update"
    /\ \/ \E shelf \in Shelves : updatePodcastsList(shelf)
       \/ UNCHANGED listVars
    /\ UNCHANGED <<menuVars, frame_index, shown>>

\* App::appendUrlToFeed and an entry without callback leave the menu alone.
OtherCallback ==
    /\ CallbackReturns
    /\ callback \in {"addUrl", "nullptr"}
    /\ UNCHANGED <<listVars, menuVars, frame_index, shown>>

\* The header names menu_list as it is now; drawList gets the index that was
\* read before the callback ran.
Draw ==
    /\ pc = "draw"
    /\ shown' = [list |-> menu_list, index |-> frame_index,
                 rows |-> RowsDrawn(menu_list, frame_index)]
    /\ pc' = "input"
    /\ UNCHANGED <<listVars, menuVars, frame_index, callback>>

Next ==
    \/ ConstructMenu
    \/ ConstructLists
    \/ \E pressed \in SUBSET Buttons : HandleInput(pressed)
    \/ OpenList
    \/ Update
    \/ OtherCallback
    \/ Draw

Spec == Init /\ [][Next]_vars

-----------------------------------------------------------------------------
(* Properties. *)

Types ==
    /\ pc \in {"constructMenu", "constructLists", "input", "callback", "draw"}
    /\ entries \in [Lists -> Seq(Lists \cup Actions)]
    /\ parent \in [Lists -> Lists \cup {NoList, WildList}]
    /\ index \in [Lists -> Nat]
    /\ live \subseteq Heap
    /\ episode_lists \in Seq(Heap)
    /\ {menu_list, current_list, back_target} \subseteq Lists \cup {NoList}
    /\ frame_index \in Nat
    /\ callback \in Lists \cup Actions
    /\ shown.list \in Lists \cup {NoList}
    /\ shown.index \in Nat
    /\ shown.rows \subseteq Nat

\* Menu's constructor has given the menu a list to draw, one to stand on and one
\* to leave, and those of the lists have replaced every uninitialised parent.
Constructed ==
    /\ pc # "constructMenu" => {menu_list, current_list, back_target} \subseteq Lists
    /\ pc \notin {"constructMenu", "constructLists"} =>
          parent \in [Lists -> Lists \cup {NoList}]

\* Every variable has its type.  A menu without a list is seen only before its
\* constructor has run, and a parent nobody has set only before those of the
\* lists have, although the menu's constructor reads one.
TypeOK == Types /\ Constructed

\* The lists that may be dereferenced.
Valid == MemberLists \cup live

\* No pointer the menu can follow leads to a deleted list: not the list that is
\* drawn, the one the back button captured, a parent, an entry of a list that
\* exists, nor the callback that is about to run.  updatePodcastsList deletes
\* lists without telling the menu; that is safe only because by then the back
\* button cannot hold one of them.
NoDanglingList ==
    pc \notin {"constructMenu", "constructLists"} =>
        /\ {menu_list, current_list, back_target} \subseteq Valid
        /\ callback \in Valid \cup Actions
        /\ \A l \in Valid : /\ parent[l] \in Valid \cup {NoList}
                            /\ Elements(entries[l]) \subseteq Valid \cup Actions

\* Every list on the heap is in podcast_episodes_lists, exactly once: an update
\* leaks no list and no list can be deleted twice.
HeapIsOwned ==
    /\ live = Elements(episode_lists)
    /\ \A i, j \in DOMAIN episode_lists : episode_lists[i] = episode_lists[j] => i = j

\* Once a list of episodes has been opened the main menu, and with it "update",
\* "addUrl" and "options", is never on the screen again: the back button stays
\* bound to the list of episodes, whose parent the first return has cleared.
MainUnreachableAfterEpisodes ==
    [](back_target \in Heap => [](menu_list # "main"))

SelectionInList(l) == index[l] < size(l) \/ (index[l] = 0 /\ size(l) = 0)

SelectionStep ==
    \A l \in Valid \cap Valid' :
      SelectionInList(l) /\ ~SelectionInList(l)' =>
          /\ callback = "update"
          /\ l = "podcasts"
          /\ size(l)' < size(l)

\* Moving the selection, navigating and drawing keep a selection inside its
\* list; only an update that leaves fewer podcasts than before strands the
\* index of the list of podcasts beyond its end, for clear() does not reset it.
OnlyUpdateStrandsSelection == [][SelectionStep]_vars

\* Every frame holds the entry drawList was asked to highlight, whenever the list
\* has that entry.  It holds one page, no row of which ends below the screen, if
\* the rows divide the screen without remainder, as the code's eight do; if not,
\* the loop goes on to rows of the next page.
PageHoldsSelection ==
    LET drawn == shown.rows
        first == (shown.index \div EntryCount) * EntryCount
    IN  pc = "input" /\ shown.list # NoList =>
          /\ shown.index < size(shown.list) => shown.index \in drawn
          /\ EntryCount * entry_height = DisplayHeight - HeaderHeight =>
               \A row \in drawn : /\ row < first + EntryCount
                                  /\ Top(row, first) + entry_height <= DisplayHeight

\* A frame may highlight the wrong entry, because draw() keeps the index of the
\* list it came from, but only the first frame of a list: every frame that shows
\* the list the frame before it showed highlights its selection.
HighlightLagsAtMostOneFrame ==
    [][pc = "draw" /\ pc' = "input" /\ shown'.list = shown.list
         => shown'.index = index[shown'.list]]_vars

\* Every behaviour of the menu is one Navigation allows.
Shelf == [i \in DOMAIN episode_lists |-> size(episode_lists[i])]
Nav == INSTANCE Navigation WITH
    place   <- CASE menu_list \in Heap -> "episodes"
                 [] menu_list \in MemberLists -> menu_list
                 [] OTHER -> "main",
    open    <- IF menu_list \in Heap
               THEN CHOOSE i \in DOMAIN episode_lists : episode_lists[i] = menu_list
               ELSE 0,
    wayBack <- back_target \notin Heap,
    shelf   <- Shelf

\* The pointers, the parent links and the captured callback together implement
\* the navigation a user sees.
ImplementsNavigation == Nav!Spec
=============================================================================
