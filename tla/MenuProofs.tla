----------------------------- MODULE MenuProofs -----------------------------
(***************************************************************************)
(* Theorems about Menu for every heap, shelf and page size: its state is   *)
(* well typed, the menu never follows a pointer to a deleted list, every   *)
(* list on the heap has one owner, and the main menu is out of reach once  *)
(* a list of episodes has been opened.                                     *)
(***************************************************************************)
EXTENDS Menu, SequenceTheorems, TLAPS

\* Before the lists are constructed there is nothing on the heap.
ConstructionInv ==
    /\ pc = "constructMenu" => menu_list = NoList /\ back_target = NoList
    /\ pc = "constructLists" => {menu_list, current_list, back_target} = {"main"}
    /\ pc \in {"constructMenu", "constructLists"} =>
         /\ episode_lists = <<>>
         /\ entries = [l \in Lists |-> <<>>]
         /\ callback = "nullptr"

Running == pc \notin {"constructMenu", "constructLists"}

\* Which callbacks each list's entries hold.
EntriesInv ==
    /\ Elements(entries["main"]) = {"podcasts", "addUrl", "update", "options"}
    /\ Elements(entries["options"]) = {"nullptr"}
    /\ entries["podcasts"] = episode_lists
    /\ \A h \in live : Elements(entries[h]) \subseteq {"nullptr"}

\* A list was opened from main or, a list of episodes, from the podcasts; what a
\* deleted list leaves in memory is no other parent.
ParentInv ==
    /\ parent["main"] = NoList
    /\ parent["options"] \in {NoList, "main"}
    /\ parent["podcasts"] \in {NoList, "main"}
    /\ \A h \in Heap : parent[h] \in {NoList, "podcasts"}

\* Where the menu can be, given the list the back button captured.
PlaceInv ==
    /\ menu_list \in Valid
    /\ current_list = menu_list
    /\ back_target \in Valid
    /\ menu_list \in Heap => back_target = menu_list
    /\ back_target \in Heap => menu_list \in {"podcasts", back_target}

\* The callback about to run is one of the list on the screen.
CallbackInv ==
    /\ pc = "callback" => callback \in Elements(entries[menu_list]) \cup {"nullptr"}
    /\ pc # "callback" => callback = "nullptr"

IInv ==
    /\ Types
    /\ HeapIsOwned
    /\ ConstructionInv
    /\ Running => EntriesInv /\ ParentInv /\ PlaceInv /\ CallbackInv

-----------------------------------------------------------------------------
(* The helpers of the model. *)

\* Lists, actions and the two special pointers never coincide.
LEMMA Distinct ==
    /\ Heap \cap MemberLists = {}
    /\ Lists \cap Actions = {}
    /\ NoList \notin Lists \cup Actions
    /\ WildList \notin Lists \cup Actions
    /\ NoList # WildList
BY MenuAssumption DEF MenuAssumption, Lists, MemberLists, Actions

\* Whatever is pressed the selection stays a natural number.
LEMMA MovedIndexType ==
    ASSUME Types, menu_list \in Lists, NEW pressed
    PROVE  MovedIndex(pressed) \in Nat
<1>1. index[menu_list] \in Nat
  BY DEF Types
<1>2. increaseIndex(menu_list) \in Nat
  BY <1>1 DEF increaseIndex
<1>3. decreseIndex(menu_list) \in Nat
  BY <1>1 DEF decreseIndex
<1> QED
  BY <1>1, <1>2, <1>3 DEF MovedIndex

\* at() answers the callback of an entry of the list, or none.
LEMMA AtIsElement ==
    ASSUME Types, NEW l \in Lists, NEW i \in Nat
    PROVE  /\ at(l, i) \in Elements(entries[l]) \cup {"nullptr"}
           /\ at(l, i) \in Lists \cup Actions
<1>1. entries[l] \in Seq(Lists \cup Actions)
  BY DEF Types
<1>2. CASE i < Len(entries[l])
  <2>1. i + 1 \in 1 .. Len(entries[l]) /\ DOMAIN entries[l] = 1 .. Len(entries[l])
    BY <1>1, <1>2
  <2>2. entries[l][i + 1] \in Lists \cup Actions
    BY <1>1, <2>1, ElementOfSeq
  <2>3. entries[l][i + 1] \in Elements(entries[l])
    BY <2>1 DEF Elements
  <2> QED
    BY <1>2, <2>2, <2>3 DEF at, size
<1>3. CASE ~(i < Len(entries[l]))
  BY <1>3 DEF at, size, Actions
<1> QED
  BY <1>2, <1>3

\* The rows of a page are row numbers.
LEMMA RowsType == \A l \in Lists : \A i : RowsDrawn(l, i) \in SUBSET Nat
BY DEF RowsDrawn

\* A literal is a sequence over any set that holds its elements.
LEMMA LiteralIsSeq ==
    \A S : /\ \A a \in S : <<a>> \in Seq(S)
           /\ \A a, b, c, d \in S : <<a, b, c, d>> \in Seq(S)
OBVIOUS

\* The entries App::App gives the two lists it fills.
LEMMA ConstructedEntries ==
    ASSUME NEW main, main = <<"podcasts", "addUrl", "update", "options">>,
           NEW options, options = <<"nullptr">>
    PROVE  /\ {main, options} \subseteq Seq(Lists \cup Actions)
           /\ Elements(main) = {"podcasts", "addUrl", "update", "options"}
           /\ Elements(options) = {"nullptr"}
<1>1. {"podcasts", "addUrl", "update", "options", "nullptr"} \subseteq Lists \cup Actions
  BY DEF Lists, MemberLists, Actions
<1>2. main \in Seq(Lists \cup Actions) /\ options \in Seq(Lists \cup Actions)
  BY <1>1, LiteralIsSeq
<1>3. Elements(main) = {"podcasts", "addUrl", "update", "options"}
  <2>1. /\ DOMAIN main = {1, 2, 3, 4}
        /\ main[1] = "podcasts" /\ main[2] = "addUrl"
        /\ main[3] = "update" /\ main[4] = "options"
    OBVIOUS
  <2> QED
    BY <2>1 DEF Elements
<1>4. Elements(options) = {"nullptr"}
  <2>1. DOMAIN options = {1} /\ options[1] = "nullptr"
    OBVIOUS
  <2> QED
    BY <2>1 DEF Elements
<1> QED
  BY <1>2, <1>3, <1>4

\* The empty sequence has no elements.
LEMMA NoElements == DOMAIN <<>> = {} /\ Elements(<<>>) = {}
BY DEF Elements

-----------------------------------------------------------------------------
(* The inductive invariant. *)

LEMMA InitIInv == Init => IInv
<1> SUFFICES ASSUME Init PROVE IInv
  OBVIOUS
<1> USE DEF Init
<1>1. Types
  <2>1. <<>> \in Seq(Lists \cup Actions) /\ <<>> \in Seq(Heap)
    BY EmptySeq
  <2> QED
    BY <2>1 DEF Types, Actions, Lists
<1>2. HeapIsOwned
  <2>1. DOMAIN episode_lists = {} /\ live = Elements(episode_lists)
    BY NoElements
  <2> QED
    BY <2>1 DEF HeapIsOwned
<1>3. ConstructionInv
  BY DEF ConstructionInv
<1>4. ~Running
  BY DEF Running
<1> QED
  BY <1>1, <1>2, <1>3, <1>4 DEF IInv

LEMMA ConstructMenuIInv == IInv /\ ConstructMenu => IInv'
<1> SUFFICES ASSUME IInv, ConstructMenu PROVE IInv'
  OBVIOUS
<1>1. "main" \in Lists
  BY DEF Lists, MemberLists
<1>2. Types'
  BY <1>1 DEF IInv, Types, ConstructMenu, goToList, frameVars
<1>3. HeapIsOwned'
  BY DEF IInv, HeapIsOwned, ConstructMenu, frameVars, Elements
<1>4. ConstructionInv'
  BY DEF IInv, ConstructionInv, ConstructMenu, goToList, frameVars
<1>5. ~Running'
  BY DEF Running, ConstructMenu
<1> QED
  BY <1>2, <1>3, <1>4, <1>5 DEF IInv

LEMMA ConstructListsIInv == IInv /\ ConstructLists => IInv'
<1> SUFFICES ASSUME IInv, ConstructLists PROVE IInv'
  OBVIOUS
<1> USE DEF ConstructLists, menuVars, frameVars
<1>1. {"main", "options", "podcasts"} \subseteq Lists
  BY DEF Lists, MemberLists
<1>2. <<"podcasts", "addUrl", "update", "options">> \in Seq(Lists \cup Actions)
      /\ <<"nullptr">> \in Seq(Lists \cup Actions)
  BY ConstructedEntries
<1>3. Types'
  BY <1>1, <1>2 DEF IInv, Types
<1>4. HeapIsOwned'
  BY DEF IInv, HeapIsOwned, Elements
<1>5. /\ episode_lists = <<>>
      /\ entries = [l \in Lists |-> <<>>]
      /\ menu_list = "main" /\ current_list = "main" /\ back_target = "main"
      /\ callback = "nullptr"
  BY DEF IInv, ConstructionInv
<1>6. live = {}
  BY <1>5, NoElements DEF IInv, HeapIsOwned
<1>10. EntriesInv'
  <2>1. /\ entries'["main"] = <<"podcasts", "addUrl", "update", "options">>
        /\ entries'["options"] = <<"nullptr">>
        /\ entries'["podcasts"] = <<>>
    BY <1>1, <1>5
  <2>2. /\ Elements(entries'["main"]) = {"podcasts", "addUrl", "update", "options"}
        /\ Elements(entries'["options"]) = {"nullptr"}
    BY <2>1, ConstructedEntries
  <2> QED
    BY <1>5, <1>6, <2>1, <2>2 DEF EntriesInv
<1>7. ParentInv'
  BY <1>1, <1>6 DEF ParentInv, Lists
<1>8. PlaceInv'
  BY <1>5, Distinct DEF PlaceInv, Valid, MemberLists
<1>9. CallbackInv'
  BY <1>5 DEF CallbackInv
<1> QED
  BY <1>3, <1>4, <1>7, <1>8, <1>9, <1>10 DEF IInv, ConstructionInv

\* Facts about a state in which the main loop runs.
LEMMA RunningFacts ==
    ASSUME IInv, Running
    PROVE  /\ Types /\ HeapIsOwned /\ EntriesInv /\ ParentInv /\ PlaceInv /\ CallbackInv
           /\ Valid \subseteq Lists
           /\ menu_list \in Lists /\ back_target \in Lists
<1>1. Types /\ PlaceInv
  BY DEF IInv
<1>2. Valid \subseteq Lists
  BY <1>1 DEF Types, Valid, Lists
<1> QED
  BY <1>1, <1>2 DEF IInv, PlaceInv

\* Back: the list it leaves for is the parent of the captured list, so it
\* never leads out of the lists that exist.
LEMMA BackPreserves ==
    ASSUME IInv, Running, backButtonCallback, UNCHANGED live
    PROVE  ParentInv' /\ PlaceInv'
           /\ parent' \in [Lists -> Lists \cup {NoList, WildList}]
           /\ {menu_list, current_list, back_target}' \subseteq Lists \cup {NoList}
<1>1. /\ Types /\ ParentInv /\ PlaceInv
      /\ back_target \in Lists /\ menu_list \in Lists
  BY RunningFacts
<1>2. back_target' = back_target /\ live' = live
  BY DEF backButtonCallback
<1>3. CASE parent[back_target] = NoList
  BY <1>1, <1>3, <1>2 DEF backButtonCallback, ParentInv, PlaceInv, Types, Valid
<1>4. CASE parent[back_target] # NoList
  <2>1. /\ menu_list' = parent[back_target] /\ current_list' = menu_list'
        /\ parent' = [parent EXCEPT ![back_target] = NoList]
    BY <1>4 DEF backButtonCallback
  <2>2. parent[back_target] = IF back_target \in Heap THEN "podcasts" ELSE "main"
    <3>1. live \subseteq Heap
      BY <1>1 DEF Types
    <3> QED
      BY <1>1, <1>4, <3>1, Distinct DEF ParentInv, PlaceInv, Valid, MemberLists
  <2>3. ParentInv'
    BY <1>1, <1>2, <2>1, Distinct DEF ParentInv, Types, MemberLists, Lists
  <2>4. PlaceInv'
    BY <1>1, <1>2, <2>1, <2>2, Distinct DEF PlaceInv, Valid, MemberLists
  <2>5. parent' \in [Lists -> Lists \cup {NoList, WildList}]
    BY <1>1, <2>1 DEF Types
  <2> QED
    BY <1>1, <1>2, <2>1, <2>2, <2>3, <2>4, <2>5 DEF Lists, MemberLists
<1> QED
  BY <1>3, <1>4

LEMMA HandleInputIInv ==
    ASSUME IInv, NEW pressed \in SUBSET Buttons, HandleInput(pressed)
    PROVE  IInv'
<1>1. Running /\ Running'
  BY DEF HandleInput, Running
<1>2. /\ Types /\ HeapIsOwned /\ EntriesInv /\ ParentInv /\ PlaceInv /\ CallbackInv
      /\ menu_list \in Lists
  BY <1>1, RunningFacts
<1>3. UNCHANGED <<entries, live, episode_lists, shown>>
  BY DEF HandleInput
<1>4. frame_index' \in Nat /\ index' \in [Lists -> Nat]
  <2>1. MovedIndex(pressed) \in Nat
    BY <1>2, MovedIndexType
  <2> QED
    BY <1>2, <2>1 DEF HandleInput, FrameIndex, Types
<1>5. HeapIsOwned' /\ EntriesInv'
  BY <1>2, <1>3 DEF HeapIsOwned, EntriesInv
<1>6. CASE /\ "accept" \in pressed /\ pc' = "callback"
           /\ callback' = at(menu_list, FrameIndex(pressed))
           /\ UNCHANGED <<parent, menuVars>>
  <2>1. /\ callback' \in Elements(entries[menu_list]) \cup {"nullptr"}
        /\ callback' \in Lists \cup Actions
    BY <1>2, <1>6, MovedIndexType, AtIsElement DEF FrameIndex
  <2>2. Types'
    BY <1>2, <1>3, <1>4, <1>6, <2>1 DEF Types, menuVars
  <2>3. ParentInv' /\ PlaceInv'
    BY <1>2, <1>3, <1>6 DEF ParentInv, PlaceInv, Valid, menuVars
  <2>4. CallbackInv'
    BY <1>3, <1>6, <2>1 DEF CallbackInv, menuVars
  <2> QED
    BY <1>1, <1>5, <1>6, <2>2, <2>3, <2>4 DEF IInv, ConstructionInv
<1>7. CASE backButtonCallback /\ pc' = "draw" /\ UNCHANGED callback
  <2>1. Types' /\ ParentInv' /\ PlaceInv'
    BY <1>1, <1>2, <1>3, <1>4, <1>7, BackPreserves DEF Types
  <2>2. CallbackInv'
    BY <1>2, <1>7 DEF CallbackInv, HandleInput
  <2> QED
    BY <1>1, <1>5, <1>7, <2>1, <2>2 DEF IInv, ConstructionInv
<1>8. CASE pc' = "draw" /\ UNCHANGED <<parent, menuVars, callback>>
  <2>1. Types'
    BY <1>2, <1>3, <1>4, <1>8 DEF Types, menuVars
  <2>2. ParentInv' /\ PlaceInv'
    BY <1>2, <1>3, <1>8 DEF ParentInv, PlaceInv, Valid, menuVars
  <2>3. CallbackInv'
    BY <1>2, <1>8 DEF CallbackInv, HandleInput
  <2> QED
    BY <1>1, <1>5, <1>8, <2>1, <2>2, <2>3 DEF IInv, ConstructionInv
<1> QED
  BY <1>6, <1>7, <1>8 DEF HandleInput

\* A list opens from the list that shows an entry for it: the members of App
\* from main, a list of episodes from the podcasts.
LEMMA OpenListIInv == IInv /\ OpenList => IInv'
<1> SUFFICES ASSUME IInv, OpenList PROVE IInv'
  OBVIOUS
<1>1. Running /\ Running'
  BY DEF OpenList, CallbackReturns, Running
<1>2. /\ Types /\ HeapIsOwned /\ EntriesInv /\ ParentInv /\ PlaceInv /\ CallbackInv
  BY <1>1, RunningFacts
<1>3. /\ pc = "callback" /\ pc' = "draw" /\ callback' = "nullptr"
      /\ UNCHANGED <<entries, index, live, episode_lists, frame_index, shown>>
      /\ menu_list' = callback /\ current_list' = callback /\ back_target' = callback
      /\ parent' = IF parent[callback] = NoList
                   THEN [parent EXCEPT ![callback] = current_list] ELSE parent
      /\ callback \in Lists
  BY DEF OpenList, CallbackReturns, goToList
<1>4. callback \in Elements(entries[menu_list])
  BY <1>2, <1>3, Distinct DEF CallbackInv, Actions
<1>5. \/ menu_list = "main" /\ callback \in {"podcasts", "options"}
      \/ menu_list = "podcasts" /\ callback \in live
  <2>1. CASE menu_list = "main"
    BY <1>2, <1>3, <1>4, <2>1, Distinct DEF EntriesInv, Actions
  <2>2. CASE menu_list = "podcasts"
    BY <1>2, <1>4, <2>2 DEF EntriesInv, HeapIsOwned
  <2>3. CASE menu_list = "options" \/ menu_list \in live
    BY <1>2, <1>3, <1>4, <2>3, Distinct DEF EntriesInv, Actions
  <2> QED
    BY <1>2, <2>1, <2>2, <2>3 DEF PlaceInv, Valid, MemberLists
<1>6. live \subseteq Heap
  BY <1>2 DEF Types
<1>7. Types'
  <2>1. parent' \in [Lists -> Lists \cup {NoList, WildList}]
    BY <1>2, <1>3 DEF Types
  <2> QED
    BY <1>2, <1>3, <2>1 DEF Types, Actions
<1>8. HeapIsOwned' /\ EntriesInv'
  BY <1>2, <1>3 DEF HeapIsOwned, EntriesInv
<1>9. ParentInv'
  BY <1>2, <1>3, <1>5, <1>6, Distinct DEF ParentInv, PlaceInv, MemberLists, Types
<1>10. PlaceInv'
  BY <1>2, <1>3, <1>5, <1>6, Distinct DEF PlaceInv, Valid, MemberLists
<1>11. CallbackInv'
  BY <1>3 DEF CallbackInv
<1> QED
  BY <1>1, <1>3, <1>7, <1>8, <1>9, <1>10, <1>11 DEF IInv, ConstructionInv

\* What a rebuild without lists to keep leaves on the heap: one list for each
\* podcast, which the list of podcasts leads to.
LEMMA RebuildFacts ==
    ASSUME Types, NEW shelf \in Shelves, Rebuild(shelf, {}, <<>>)
    PROVE  /\ live' = Elements(episode_lists') /\ live' \subseteq Heap
           /\ episode_lists' \in Seq(Heap)
           /\ \A i, j \in DOMAIN episode_lists' :
                 episode_lists'[i] = episode_lists'[j] => i = j
           /\ entries' \in [Lists -> Seq(Lists \cup Actions)]
           /\ entries'["podcasts"] = episode_lists'
           /\ entries'["main"] = entries["main"]
           /\ entries'["options"] = entries["options"]
           /\ \A h \in live' : Elements(entries'[h]) \subseteq {"nullptr"}
           /\ parent' = [l \in Lists |-> IF l \in live' THEN NoList ELSE parent[l]]
           /\ index' \in [Lists -> Nat]
           /\ Shelf' = shelf
<1> DEFINE Episodes(a, l) == shelf[CHOOSE i \in DOMAIN a : a[i] = l]
<1>1. PICK a \in Allocations(Len(shelf), {}) :
        /\ live' = {} \cup Elements(a)
        /\ episode_lists' = a
        /\ entries' = [l \in Lists |->
                         CASE l = "podcasts" -> <<>> \o a
                           [] l \in Elements(a) -> [e \in 1 .. Episodes(a, l) |-> "nullptr"]
                           [] OTHER -> entries[l]]
        /\ parent' = [l \in Lists |-> IF l \in Elements(a) THEN NoList ELSE parent[l]]
        /\ index' = [l \in Lists |-> IF l \in Elements(a) THEN 0 ELSE index[l]]
  BY DEF Rebuild
<1>2. /\ shelf \in Seq(Nat) /\ Len(shelf) \in Nat /\ DOMAIN shelf = 1 .. Len(shelf)
  BY MenuAssumption, LenProperties DEF MenuAssumption
<1>3. /\ a \in [1 .. Len(shelf) -> Heap]
      /\ \A i, j \in 1 .. Len(shelf) : a[i] = a[j] => i = j
  BY <1>1 DEF Allocations
<1>4. a \in Seq(Heap) /\ DOMAIN a = 1 .. Len(shelf)
  BY <1>2, <1>3, SeqDef
<1>5. <<>> \o a = a
  BY <1>4, ConcatEmptySeq
<1>6. Elements(a) \subseteq Heap
  BY <1>3, <1>4 DEF Elements
<1>7. {"podcasts", "main", "options"} \subseteq Lists
      /\ {"podcasts", "main", "options"} \cap Elements(a) = {}
  BY <1>6, Distinct DEF Lists, MemberLists
<1>8. ASSUME NEW l \in Elements(a)
      PROVE  /\ [e \in 1 .. Episodes(a, l) |-> "nullptr"] \in Seq(Lists \cup Actions)
             /\ Elements([e \in 1 .. Episodes(a, l) |-> "nullptr"]) \subseteq {"nullptr"}
  <2>1. (CHOOSE i \in DOMAIN a : a[i] = l) \in DOMAIN a
    BY DEF Elements
  <2>2. Episodes(a, l) \in Nat
    BY <1>2, <1>4, <2>1, ElementOfSeq
  <2> DEFINE n == Episodes(a, l)
             s == [e \in 1 .. n |-> "nullptr"]
  <2>3. n \in Nat
    BY <2>2
  <2> HIDE DEF n
  <2>4. s \in [1 .. n -> Lists \cup Actions]
    BY DEF Actions
  <2>5. s \in Seq(Lists \cup Actions)
    BY <2>3, <2>4, SeqDef
  <2>6. Elements(s) \subseteq {"nullptr"}
    BY DEF Elements
  <2> QED
    BY <2>5, <2>6 DEF n
<1>9. entries' \in [Lists -> Seq(Lists \cup Actions)]
  <2>1. a \in Seq(Lists \cup Actions)
    BY <1>4, SeqMonotonic DEF Lists
  <2>2. ASSUME NEW l \in Lists PROVE entries'[l] \in Seq(Lists \cup Actions)
    BY <1>1, <1>5, <1>8, <2>1 DEF Types
  <2> QED
    BY <1>1, <2>2
<1>10. /\ entries'["podcasts"] = a
       /\ entries'["main"] = entries["main"]
       /\ entries'["options"] = entries["options"]
  BY <1>1, <1>5, <1>7
<1>11. \A h \in Elements(a) : Elements(entries'[h]) \subseteq {"nullptr"}
  BY <1>1, <1>6, <1>7, <1>8 DEF Lists
<1>12. index' \in [Lists -> Nat]
  BY <1>1 DEF Types
<1>13. Shelf' = shelf
  <2>1. ASSUME NEW i \in 1 .. Len(shelf) PROVE Len(entries'[a[i]]) = shelf[i]
    <3>1. a[i] \in Elements(a) /\ a[i] \in Lists /\ a[i] # "podcasts"
      BY <1>4, <1>6, <1>7 DEF Elements, Lists
    <3>2. (CHOOSE j \in DOMAIN a : a[j] = a[i]) = i
      BY <1>3, <1>4
    <3>3. entries'[a[i]] = [e \in 1 .. shelf[i] |-> "nullptr"]
      BY <1>1, <3>1, <3>2
    <3>4. shelf[i] \in Nat
      BY <1>2, ElementOfSeq
    <3> QED
      BY <3>3, <3>4
  <2>2. shelf = [i \in 1 .. Len(shelf) |-> shelf[i]]
    BY <1>2, LenProperties
  <2>3. Shelf' = [i \in 1 .. Len(shelf) |-> Len(entries'[a[i]])]
    BY <1>1, <1>4 DEF Shelf, size
  <2> QED
    BY <2>1, <2>2, <2>3
<1> QED
  BY <1>1, <1>3, <1>4, <1>6, <1>9, <1>10, <1>11, <1>12, <1>13

\* An update runs from the main menu, where the back button cannot hold a list
\* of episodes.
LEMMA UpdateFromMain ==
    ASSUME IInv, Update
    PROVE  menu_list = "main" /\ back_target \in MemberLists
<1>1. Running
  BY DEF Update, CallbackReturns, Running
<1>2. /\ Types /\ HeapIsOwned /\ EntriesInv /\ PlaceInv /\ CallbackInv
  BY <1>1, RunningFacts
<1>3. live \subseteq Heap
  BY <1>2 DEF Types
<1>4. "update" \in Elements(entries[menu_list])
  BY <1>2 DEF CallbackInv, Update, CallbackReturns
<1>5. menu_list \notin live /\ menu_list \notin {"options", "podcasts"}
  BY <1>2, <1>3, <1>4, Distinct DEF EntriesInv, HeapIsOwned, Lists, Actions
<1> QED
  BY <1>2, <1>3, <1>5, Distinct DEF PlaceInv, Valid, MemberLists

\* So the lists an update deletes are nobody's target.
LEMMA UpdateIInv == IInv /\ Update => IInv'
<1> SUFFICES ASSUME IInv, Update PROVE IInv'
  OBVIOUS
<1>1. Running /\ Running'
  BY DEF Update, CallbackReturns, Running
<1>2. /\ Types /\ HeapIsOwned /\ EntriesInv /\ ParentInv /\ PlaceInv /\ CallbackInv
  BY <1>1, RunningFacts
<1>3. /\ pc = "callback" /\ pc' = "draw" /\ callback = "update" /\ callback' = "nullptr"
      /\ UNCHANGED <<menu_list, current_list, back_target, frame_index, shown>>
  BY DEF Update, CallbackReturns, menuVars
<1>5. menu_list = "main" /\ back_target \in MemberLists
  BY UpdateFromMain
<1>6. CASE UNCHANGED listVars
  <2>1. Types' /\ HeapIsOwned' /\ EntriesInv' /\ ParentInv' /\ PlaceInv'
    BY <1>2, <1>3, <1>6
    DEF listVars, Types, Actions, HeapIsOwned, EntriesInv, ParentInv, PlaceInv, Valid
  <2> QED
    BY <1>1, <1>3, <2>1 DEF IInv, ConstructionInv, CallbackInv
<1>7. CASE \E shelf \in Shelves : updatePodcastsList(shelf)
  <2>1. PICK shelf \in Shelves : Rebuild(shelf, {}, <<>>)
    BY <1>2, <1>7 DEF updatePodcastsList, HeapIsOwned
  <2> HIDE DEF Rebuild
  <2>2. Types'
    <3>1. parent' \in [Lists -> Lists \cup {NoList, WildList}]
      BY <1>2, <2>1, RebuildFacts DEF Types
    <3> QED
      BY <1>2, <1>3, <2>1, <3>1, RebuildFacts DEF Types, Actions
  <2>3. HeapIsOwned'
    BY <1>2, <2>1, RebuildFacts DEF HeapIsOwned
  <2>4. EntriesInv'
    BY <1>2, <2>1, RebuildFacts DEF EntriesInv
  <2>5. ParentInv'
    BY <1>2, <2>1, RebuildFacts, Distinct DEF ParentInv, Lists, MemberLists
  <2>6. PlaceInv'
    BY <1>2, <1>3, <1>5, Distinct DEF PlaceInv, Valid, MemberLists
  <2> QED
    BY <1>1, <1>3, <2>2, <2>3, <2>4, <2>5, <2>6 DEF IInv, ConstructionInv, CallbackInv
<1> QED
  BY <1>6, <1>7 DEF Update

LEMMA OtherCallbackIInv == IInv /\ OtherCallback => IInv'
<1> SUFFICES ASSUME IInv, OtherCallback PROVE IInv'
  OBVIOUS
<1> USE DEF OtherCallback, CallbackReturns, listVars, menuVars
<1>1. Running /\ Running'
  BY DEF Running
<1>2. Types' /\ HeapIsOwned'
  BY DEF IInv, Types, HeapIsOwned, Actions
<1>3. EntriesInv' /\ ParentInv' /\ PlaceInv' /\ CallbackInv'
  BY <1>1 DEF IInv, EntriesInv, ParentInv, PlaceInv, Valid, CallbackInv
<1> QED
  BY <1>1, <1>2, <1>3 DEF IInv, ConstructionInv

LEMMA DrawIInv == IInv /\ Draw => IInv'
<1> SUFFICES ASSUME IInv, Draw PROVE IInv'
  OBVIOUS
<1> USE DEF Draw, listVars, menuVars
<1>1. Running /\ Running'
  BY DEF Running
<1>2. Types'
  <2>1. RowsDrawn(menu_list, frame_index) \in SUBSET Nat
    BY <1>1, RowsType, RunningFacts DEF IInv, Types, PlaceInv
  <2> QED
    BY <1>1, <2>1, RunningFacts DEF IInv, Types
<1>3. HeapIsOwned' /\ EntriesInv' /\ ParentInv' /\ PlaceInv' /\ CallbackInv'
  BY <1>1 DEF IInv, HeapIsOwned, EntriesInv, ParentInv, PlaceInv, Valid, CallbackInv
<1> QED
  BY <1>1, <1>2, <1>3 DEF IInv, ConstructionInv

LEMMA StutterIInv == IInv /\ UNCHANGED vars => IInv'
<1> SUFFICES ASSUME IInv, UNCHANGED vars PROVE IInv'
  OBVIOUS
<1> USE DEF vars, listVars, menuVars, frameVars
<1>1. Types' /\ HeapIsOwned' /\ ConstructionInv'
  BY DEF IInv, Types, HeapIsOwned, ConstructionInv
<1>2. Running' => EntriesInv' /\ ParentInv' /\ PlaceInv' /\ CallbackInv'
  BY DEF IInv, Running, EntriesInv, ParentInv, PlaceInv, Valid, CallbackInv
<1> QED
  BY <1>1, <1>2 DEF IInv

\* Every step of the program keeps the inductive invariant.
LEMMA NextIInv == IInv /\ [Next]_vars => IInv'
BY ConstructMenuIInv, ConstructListsIInv, HandleInputIInv, OpenListIInv, UpdateIInv,
   OtherCallbackIInv, DrawIInv, StutterIInv DEF Next

\* The inductive invariant holds of every reachable state.
LEMMA SpecIInv == Spec => []IInv
BY InitIInv, NextIInv, PTL DEF Spec

-----------------------------------------------------------------------------
(* The theorems. *)

LEMMA IInvIsTyped == IInv => TypeOK
<1> SUFFICES ASSUME IInv PROVE Constructed
  BY DEF IInv, TypeOK
<1>1. CASE ~Running
  BY <1>1 DEF IInv, ConstructionInv, Constructed, Running, Lists, MemberLists
<1>2. CASE Running
  <2>1. Types /\ PlaceInv /\ ParentInv /\ Valid \subseteq Lists
    BY <1>2, RunningFacts
  <2>2. \A l \in Lists : parent[l] \in Lists \cup {NoList}
    BY <2>1 DEF ParentInv, Lists, MemberLists
  <2> QED
    BY <2>1, <2>2 DEF Types, PlaceInv, Constructed
<1> QED
  BY <1>1, <1>2

\* The menu is well typed: once the lists are constructed no variable holds an
\* uninitialised pointer, although App::App starts from one.
THEOREM TypeCorrect == Spec => []TypeOK
BY IInvIsTyped, SpecIInv, PTL

LEMMA IInvNoDangling == IInv => NoDanglingList
<1> SUFFICES ASSUME IInv, Running PROVE NoDanglingList
  BY DEF NoDanglingList, Running
<1>1. /\ Types /\ HeapIsOwned /\ EntriesInv /\ ParentInv /\ PlaceInv /\ CallbackInv
  BY RunningFacts
<1>2. {menu_list, current_list, back_target} \subseteq Valid
  BY <1>1 DEF PlaceInv
<1>3. ASSUME NEW l \in Valid PROVE Elements(entries[l]) \subseteq Valid \cup Actions
  BY <1>1 DEF EntriesInv, HeapIsOwned, Valid, MemberLists, Actions
<1>4. ASSUME NEW l \in Valid PROVE parent[l] \in Valid \cup {NoList}
  BY <1>1 DEF ParentInv, Valid, MemberLists, Types
<1>5. callback \in Valid \cup Actions
  BY <1>1, <1>3 DEF CallbackInv, PlaceInv, Actions
<1> QED
  BY <1>2, <1>3, <1>4, <1>5 DEF NoDanglingList

\* The menu never holds, and so never follows, a pointer to a list that
\* updatePodcastsList has deleted.
THEOREM NeverDangling == Spec => []NoDanglingList
BY IInvNoDangling, SpecIInv, PTL

\* updatePodcastsList leaks no list and deletes none twice.
THEOREM EveryListHasOneOwner == Spec => []HeapIsOwned
<1>1. IInv => HeapIsOwned
  BY DEF IInv
<1> QED
  BY <1>1, SpecIInv, PTL

\* A list of episodes on the back button keeps the menu out of main ...
LEMMA EpisodesKeepOutOfMain == IInv /\ back_target \in Heap => menu_list # "main"
<1> SUFFICES ASSUME IInv, back_target \in Heap PROVE menu_list # "main"
  OBVIOUS
<1>1. Running
  BY Distinct DEF IInv, ConstructionInv, Running, Lists, MemberLists
<1> QED
  BY <1>1, RunningFacts, Distinct DEF PlaceInv, MemberLists

\* ... and no step takes it off the button.
LEMMA EpisodesStayOnButton ==
    IInv /\ back_target \in Heap /\ [Next]_vars => back_target' \in Heap
<1> SUFFICES ASSUME IInv, back_target \in Heap, [Next]_vars PROVE back_target' \in Heap
  OBVIOUS
<1>1. Running /\ menu_list # "main"
  BY EpisodesKeepOutOfMain, Distinct
  DEF IInv, ConstructionInv, Running, Lists, MemberLists
<1>2. CASE OpenList
  <2>1. menu_list = "podcasts" \/ menu_list \in live
    BY <1>1, RunningFacts, Distinct DEF PlaceInv, HeapIsOwned, MemberLists, Valid, Types
  <2>2. callback \in Elements(entries[menu_list])
    BY <1>1, <1>2, RunningFacts, Distinct
    DEF CallbackInv, OpenList, CallbackReturns, Actions
  <2>3. callback \in Heap
    BY <1>1, <1>2, <2>1, <2>2, RunningFacts, Distinct
    DEF EntriesInv, HeapIsOwned, OpenList, Types, Actions
  <2> QED
    BY <1>2, <2>3 DEF OpenList, goToList
<1>3. CASE ConstructMenu \/ ConstructLists
  BY <1>1, <1>3 DEF ConstructMenu, ConstructLists, Running
<1>4. CASE \E pressed \in SUBSET Buttons : HandleInput(pressed)
  BY <1>4 DEF HandleInput, backButtonCallback, menuVars
<1>5. CASE Update \/ OtherCallback \/ Draw \/ UNCHANGED vars
  BY <1>5 DEF Update, OtherCallback, Draw, vars, menuVars
<1> QED
  BY <1>2, <1>3, <1>4, <1>5 DEF Next

\* The main menu is never shown again after a list of episodes was opened.
THEOREM MainIsLost == Spec => MainUnreachableAfterEpisodes
<1>1. IInv /\ back_target \in Heap /\ [Next]_vars => (back_target \in Heap)'
  BY EpisodesStayOnButton
<1> QED
  BY <1>1, EpisodesKeepOutOfMain, SpecIInv, PTL DEF Spec, MainUnreachableAfterEpisodes

\* Moving the selection keeps it in its list.
LEMMA MoveStaysInList ==
    ASSUME Types, menu_list \in Lists, SelectionInList(menu_list), NEW pressed
    PROVE  \/ MovedIndex(pressed) < size(menu_list)
           \/ MovedIndex(pressed) = 0 /\ size(menu_list) = 0
<1>1. index[menu_list] \in Nat /\ size(menu_list) \in Nat
  BY DEF Types, size
<1>2. CASE MovedIndex(pressed) = increaseIndex(menu_list)
  BY <1>1, <1>2 DEF SelectionInList, increaseIndex
<1>3. CASE MovedIndex(pressed) = decreseIndex(menu_list)
  BY <1>1, <1>3 DEF SelectionInList, decreseIndex
<1>4. CASE MovedIndex(pressed) = index[menu_list]
  BY <1>4 DEF SelectionInList
<1> QED
  BY <1>2, <1>3, <1>4 DEF MovedIndex

\* A selection leaves its list only when an update shortens the podcasts.
LEMMA StepKeepsSelection ==
    ASSUME IInv, [Next]_vars,
           NEW l \in Valid, l \in Valid', SelectionInList(l), ~SelectionInList(l)'
    PROVE  callback = "update" /\ l = "podcasts" /\ size(l)' < size(l)
<1>1. Types /\ HeapIsOwned /\ l \in Lists
  BY DEF IInv, Valid, Types, Lists
<1>2. CASE \E pressed \in SUBSET Buttons : HandleInput(pressed)
  <2>1. PICK pressed \in SUBSET Buttons : HandleInput(pressed)
    BY <1>2
  <2>2. /\ index' = [index EXCEPT ![menu_list] = MovedIndex(pressed)]
        /\ entries' = entries /\ menu_list \in Lists
    BY <2>1, RunningFacts DEF HandleInput, Running
  <2>3. CASE l = menu_list
    BY <1>1, <2>2, <2>3, MoveStaysInList DEF SelectionInList, size, Types
  <2>4. CASE l # menu_list
    BY <1>1, <2>2, <2>4 DEF SelectionInList, size, Types
  <2> QED
    BY <2>3, <2>4
<1>3. CASE ConstructLists
  <2>1. pc = "constructLists" /\ index' = index /\ live' = live
    BY <1>3 DEF ConstructLists
  <2>2. entries = [m \in Lists |-> <<>>] /\ live = {}
    BY <1>1, <2>1, NoElements DEF IInv, ConstructionInv, HeapIsOwned
  <2>3. index[l] = 0
    BY <1>1, <2>2, EmptySeq DEF SelectionInList, size, Types
  <2>4. Len(entries'[l]) \in Nat
    BY <1>1, ConstructListsIInv, <1>3 DEF IInv, Types
  <2> QED
    BY <2>1, <2>3, <2>4 DEF SelectionInList, size
<1>4. CASE ConstructMenu \/ OpenList \/ OtherCallback \/ Draw \/ UNCHANGED vars
  <2>1. UNCHANGED <<entries, index>>
    BY <1>4 DEF ConstructMenu, OpenList, OtherCallback, Draw, vars, listVars
  <2> QED
    BY <2>1 DEF SelectionInList, size
<1>5. CASE Update
  <2>1. callback = "update" /\ live \subseteq Heap
    BY <1>1, <1>5 DEF Update, Types
  <2>2. PICK shelf \in Shelves : Rebuild(shelf, {}, <<>>)
    BY <1>1, <1>5 DEF Update, updatePodcastsList, HeapIsOwned, SelectionInList, size, listVars
  <2>3. /\ entries'["podcasts"] \in Seq(Lists \cup Actions)
        /\ entries'["main"] = entries["main"] /\ entries'["options"] = entries["options"]
        /\ live' \subseteq Heap
    BY <1>1, <2>2, RebuildFacts DEF Lists, MemberLists
  <2>4. index' = [m \in Lists |-> IF m \in live' THEN 0 ELSE index[m]]
    BY <2>2 DEF Rebuild
  <2>5. l \notin live'
    <3>1. SUFFICES ASSUME l \in live' PROVE SelectionInList(l)'
      OBVIOUS
    <3>2. index'[l] = 0 /\ Len(entries'[l]) \in Nat
      BY <1>1, <2>2, <2>4, <3>1, RebuildFacts
    <3> QED
      BY <3>2 DEF SelectionInList, size
  <2>6. index'[l] = index[l] /\ l \in MemberLists
    BY <1>1, <2>4, <2>5 DEF Valid
  <2>7. l = "podcasts"
    BY <2>3, <2>6 DEF MemberLists, SelectionInList, size
  <2>8. /\ index[l] \in Nat /\ Len(entries[l]) \in Nat /\ Len(entries'[l]) \in Nat
    BY <1>1, <2>3, <2>7 DEF Types
  <2> QED
    BY <2>1, <2>6, <2>7, <2>8 DEF SelectionInList, size
<1> QED
  BY <1>2, <1>3, <1>4, <1>5 DEF Next

\* Only an update that leaves fewer podcasts strands a selection.
THEOREM SelectionStaysInList == Spec => OnlyUpdateStrandsSelection
<1>1. IInv /\ [Next]_vars => [SelectionStep]_vars
  BY StepKeepsSelection DEF SelectionStep
<1> QED
  BY <1>1, SpecIInv, PTL DEF Spec, OnlyUpdateStrandsSelection

-----------------------------------------------------------------------------
(* The frame. *)

\* Between a frame and the next turn of the loop nothing it shows changes.
ShownInv ==
    /\ ~Running => shown.list = NoList
    /\ pc = "input" /\ shown.list # NoList => shown.rows = RowsDrawn(shown.list, shown.index)

LEMMA InitShownInv == Init => ShownInv
BY DEF Init, ShownInv, Running

LEMMA NextShownInv == IInv /\ ShownInv /\ [Next]_vars => ShownInv'
<1> SUFFICES ASSUME IInv, ShownInv, [Next]_vars PROVE ShownInv'
  OBVIOUS
<1>1. CASE ConstructMenu \/ ConstructLists
  BY <1>1 DEF ConstructMenu, ConstructLists, ShownInv, Running, frameVars
<1>2. CASE \E pressed \in SUBSET Buttons : HandleInput(pressed)
  BY <1>2 DEF HandleInput, ShownInv, Running
<1>3. CASE OpenList \/ Update \/ OtherCallback
  BY <1>3 DEF OpenList, Update, OtherCallback, CallbackReturns, ShownInv, Running
<1>4. CASE Draw
  <2>1. /\ shown' = [list |-> menu_list, index |-> frame_index,
                     rows |-> RowsDrawn(menu_list, frame_index)]
        /\ entries' = entries /\ pc' = "input"
    BY <1>4 DEF Draw, listVars
  <2>2. shown'.list = menu_list /\ shown'.index = frame_index
        /\ shown'.rows = RowsDrawn(menu_list, frame_index)
    BY <2>1
  <2> QED
    BY <2>1, <2>2 DEF ShownInv, Running, RowsDrawn, size
<1>5. CASE UNCHANGED vars
  BY <1>5 DEF vars, listVars, menuVars, frameVars, ShownInv, Running, RowsDrawn, size
<1> QED
  BY <1>1, <1>2, <1>3, <1>4, <1>5 DEF Next

\* The page of an entry starts at or before it and ends after it.
LEMMA PageOf ==
    ASSUME NEW i \in Nat, NEW n \in Nat \ {0}
    PROVE  (i \div n) * n \in Nat /\ (i \div n) * n <= i /\ i < (i \div n) * n + n
OBVIOUS

\* n rows of the height a page of p pixels allows take no more than the page.
LEMMA RowHeight ==
    ASSUME NEW p \in Nat, NEW n \in Nat \ {0}, n <= p
    PROVE  p \div n \in Nat \ {0} /\ n * (p \div n) <= p
OBVIOUS

\* More rows are higher, and the other way round.
LEMMA RowsGrow ==
    ASSUME NEW a \in Nat, NEW b \in Nat, NEW h \in Nat \ {0}
    PROVE  a * h \in Nat /\ (a < b <=> a * h < b * h) /\ (a < b => a * h + h <= b * h)
<1>1. a * h \in Nat /\ b * h \in Nat
  OBVIOUS
<1>2. ASSUME a < b PROVE a * h + h <= b * h
  <2>1. PICK d \in Nat : b = a + 1 + d
    BY <1>2
  <2>2. b * h = a * h + h + d * h /\ d * h \in Nat
    BY <2>1
  <2> QED
    BY <1>1, <2>2
<1>3. ASSUME ~(a < b) PROVE b * h <= a * h
  <2>1. PICK d \in Nat : a = b + d
    BY <1>3
  <2>2. a * h = b * h + d * h /\ d * h \in Nat
    BY <2>1
  <2> QED
    BY <1>1, <2>2
<1> QED
  BY <1>1, <1>2, <1>3

LEMMA Layout ==
    /\ EntryCount \in Nat \ {0} /\ entry_height \in Nat \ {0}
    /\ DisplayHeight \in Nat /\ HeaderHeight \in Nat
    /\ HeaderHeight + EntryCount * entry_height <= DisplayHeight
<1>1. /\ EntryCount \in Nat \ {0} /\ DisplayHeight \in Nat /\ HeaderHeight \in Nat
      /\ HeaderHeight + EntryCount <= DisplayHeight
  BY MenuAssumption DEF MenuAssumption
<1> DEFINE p == DisplayHeight - HeaderHeight
<1>2. p \in Nat /\ EntryCount <= p
  BY <1>1
<1>3. p \div EntryCount \in Nat \ {0} /\ EntryCount * (p \div EntryCount) <= p
  BY <1>1, <1>2, RowHeight
<1>4. entry_height = p \div EntryCount
  BY DEF entry_height
<1> DEFINE whole == EntryCount * entry_height
<1>5. whole \in Nat /\ whole <= p
  BY <1>1, <1>3, <1>4
<1> HIDE DEF whole
<1>6. HeaderHeight + whole <= DisplayHeight
  BY <1>1, <1>5
<1> QED
  BY <1>1, <1>3, <1>4, <1>6 DEF whole

\* Whatever the page size, the frame holds the entry to highlight and, where the
\* rows divide the screen without remainder, no row of another page.
THEOREM PageHoldsEntry == Spec => []PageHoldsSelection
<1>1. IInv /\ ShownInv => PageHoldsSelection
  <2> DEFINE i == shown.index
             first == (i \div EntryCount) * EntryCount
             n == size(shown.list)
  <2> SUFFICES ASSUME IInv, ShownInv, pc = "input", shown.list # NoList
               PROVE  /\ i < n => i \in shown.rows
                      /\ EntryCount * entry_height = DisplayHeight - HeaderHeight =>
                           \A row \in shown.rows :
                               /\ row < first + EntryCount
                               /\ Top(row, first) + entry_height <= DisplayHeight
    BY DEF PageHoldsSelection
  <2>1. shown.rows = {row \in 0 .. n :
                        first <= row /\ row < n /\ Top(row, first) < DisplayHeight}
    BY DEF ShownInv, RowsDrawn
  <2>2. i \in Nat /\ n \in Nat
    BY LenProperties DEF IInv, Types, size
  <2>3. first \in Nat /\ first <= i /\ i < first + EntryCount
    BY <2>2, Layout, PageOf
  <2> HIDE DEF first, n, i
  <2>4. ASSUME NEW row \in Nat, first <= row
        PROVE  /\ row < first + EntryCount => Top(row, first) + entry_height <= DisplayHeight
               /\ EntryCount * entry_height = DisplayHeight - HeaderHeight
                     /\ Top(row, first) < DisplayHeight => row < first + EntryCount
    <3> DEFINE k == row - first
               above == k * entry_height
               whole == EntryCount * entry_height
    <3>1. k \in Nat /\ (k < EntryCount <=> row < first + EntryCount)
      BY <2>3, <2>4, Layout
    <3>2. /\ above \in Nat /\ (k < EntryCount <=> above < whole)
          /\ k < EntryCount => above + entry_height <= whole
      BY <3>1, Layout, RowsGrow
    <3>3. whole \in Nat /\ HeaderHeight + whole <= DisplayHeight
      BY Layout
    <3>4. Top(row, first) = HeaderHeight + above
      BY DEF Top
    <3> HIDE DEF k, above, whole
    <3>5. k < EntryCount => HeaderHeight + above + entry_height <= DisplayHeight
      BY <3>2, <3>3, Layout
    <3>6. whole = DisplayHeight - HeaderHeight /\ HeaderHeight + above < DisplayHeight
            => k < EntryCount
      BY <3>1, <3>2, <3>3, Layout
    <3> QED
      BY <3>1, <3>4, <3>5, <3>6 DEF whole
  <2>5. ASSUME i < n PROVE i \in shown.rows
    <3>1. Top(i, first) + entry_height <= DisplayHeight
      BY <2>2, <2>3, <2>4
    <3>2. Top(i, first) \in Nat
      <4>1. i - first \in Nat
        BY <2>2, <2>3
      <4>2. (i - first) * entry_height \in Nat
        BY <4>1, Layout, RowsGrow
      <4> QED
        BY <4>2, Layout DEF Top
    <3>3. Top(i, first) < DisplayHeight
      BY <3>1, <3>2, Layout
    <3> QED
      BY <2>1, <2>2, <2>3, <2>5, <3>3
  <2>6. ASSUME EntryCount * entry_height = DisplayHeight - HeaderHeight, NEW row \in shown.rows
        PROVE  row < first + EntryCount /\ Top(row, first) + entry_height <= DisplayHeight
    <3>1. row \in Nat /\ first <= row /\ Top(row, first) < DisplayHeight
      BY <2>1, <2>2
    <3> QED
      BY <2>4, <2>6, <3>1
  <2> QED
    BY <2>5, <2>6
<1> QED
  BY <1>1, InitShownInv, NextShownInv, SpecIInv, PTL DEF Spec

\* The index drawn is the selection of the list drawn, unless that list has just
\* come to the screen; no list leads back or forward to itself.
LagInv ==
    /\ ~Running => shown.list = NoList
    /\ Running =>
         /\ parent[back_target] # NoList => menu_list = back_target
         /\ pc \in {"input", "callback"} => shown.list \in {NoList, menu_list}
         /\ pc = "callback" => frame_index = index[menu_list]
         /\ pc = "draw" /\ shown.list = menu_list => frame_index = index[menu_list]

LEMMA HandleInputLagInv ==
    ASSUME IInv, LagInv, NEW pressed \in SUBSET Buttons, HandleInput(pressed)
    PROVE  LagInv'
<1>1. Running /\ Running' /\ pc = "input" /\ pc' \in {"callback", "draw"}
  BY DEF HandleInput, Running
<1>2. /\ index \in [Lists -> Nat] /\ parent \in [Lists -> Lists \cup {NoList, WildList}]
      /\ menu_list \in Lists /\ back_target \in Lists /\ menu_list # NoList
      /\ ParentInv /\ PlaceInv /\ live \subseteq Heap
  BY <1>1, RunningFacts, Distinct DEF Types
<1>3. /\ index' = [index EXCEPT ![menu_list] = MovedIndex(pressed)]
      /\ frame_index' = MovedIndex(pressed) /\ shown' = shown
  BY DEF HandleInput, FrameIndex
<1>4. shown.list \in {NoList, menu_list} /\ (parent[back_target] # NoList => menu_list = back_target)
  BY <1>1 DEF LagInv
<1>5. frame_index' = index'[menu_list]
  BY <1>2, <1>3
<1>6. CASE UNCHANGED <<parent, menuVars>>
  BY <1>1, <1>3, <1>4, <1>5, <1>6 DEF LagInv, menuVars
<1>7. CASE backButtonCallback /\ pc' = "draw"
  <2>1. CASE parent[back_target] = NoList
    BY <1>1, <1>3, <1>4, <1>5, <1>7, <2>1 DEF LagInv, backButtonCallback
  <2>2. CASE parent[back_target] # NoList
    <3>1. /\ menu_list = back_target /\ menu_list' = parent[back_target]
          /\ parent' = [parent EXCEPT ![back_target] = NoList] /\ back_target' = back_target
      BY <1>4, <1>7, <2>2 DEF backButtonCallback
    <3>2. parent'[back_target'] = NoList
      BY <1>2, <3>1
    <3>3. parent[back_target] # back_target
      BY <1>2, <2>2, Distinct DEF ParentInv, PlaceInv, Valid, MemberLists
    <3>4. parent[back_target] # NoList /\ shown.list # menu_list'
      BY <1>4, <2>2, <3>1, <3>3
    <3> QED
      BY <1>1, <1>3, <1>7, <3>2, <3>4 DEF LagInv
  <2> QED
    BY <2>1, <2>2
<1> QED
  BY <1>6, <1>7 DEF HandleInput

LEMMA OpenListLagInv == ASSUME IInv, LagInv, OpenList PROVE LagInv'
<1>1. Running /\ Running' /\ pc = "callback" /\ pc' = "draw"
  BY DEF OpenList, CallbackReturns, Running
<1>2. /\ menu_list \in Lists /\ live \subseteq Heap
      /\ EntriesInv /\ PlaceInv /\ CallbackInv /\ HeapIsOwned
  BY <1>1, RunningFacts DEF Types
<1>3. /\ menu_list' = callback /\ back_target' = callback /\ callback \in Lists
      /\ shown' = shown
  BY DEF OpenList, goToList
<1>4. callback \in Elements(entries[menu_list])
  BY <1>1, <1>2, <1>3, Distinct DEF CallbackInv, Actions
<1>5. callback # menu_list
  <2>1. "nullptr" \notin Lists
    BY Distinct DEF Actions
  <2>2. CASE menu_list \in live
    BY <1>2, <1>3, <1>4, <2>1, <2>2 DEF EntriesInv
  <2>3. CASE menu_list = "podcasts"
    BY <1>2, <1>4, <2>3, Distinct DEF EntriesInv, HeapIsOwned, MemberLists
  <2>4. CASE menu_list \in {"main", "options"}
    BY <1>2, <1>3, <1>4, <2>1, <2>4 DEF EntriesInv, Actions
  <2> QED
    BY <1>2, <2>2, <2>3, <2>4 DEF PlaceInv, Valid, MemberLists
<1>6. shown.list \in {NoList, menu_list} /\ callback # NoList
  BY <1>1, <1>3, Distinct DEF LagInv
<1> QED
  BY <1>1, <1>3, <1>5, <1>6 DEF LagInv

LEMMA UpdateLagInv == ASSUME IInv, LagInv, Update PROVE LagInv'
<1>1. Running /\ Running' /\ pc = "callback" /\ pc' = "draw"
  BY DEF Update, CallbackReturns, Running
<1>2. /\ Types /\ HeapIsOwned /\ live \subseteq Heap
      /\ menu_list = "main" /\ back_target \in MemberLists
  BY <1>1, UpdateFromMain, RunningFacts DEF Types
<1>3. UNCHANGED <<menu_list, back_target, frame_index, shown>>
  BY DEF Update, menuVars
<1>4. CASE UNCHANGED listVars
  BY <1>1, <1>3, <1>4 DEF LagInv, listVars
<1>5. CASE \E shelf \in Shelves : updatePodcastsList(shelf)
  <2>1. PICK shelf \in Shelves : Rebuild(shelf, {}, <<>>)
    BY <1>2, <1>5 DEF updatePodcastsList, HeapIsOwned
  <2>2. PICK new \in SUBSET Heap :
          /\ parent' = [l \in Lists |-> IF l \in new THEN NoList ELSE parent[l]]
          /\ index' = [l \in Lists |-> IF l \in new THEN 0 ELSE index[l]]
    <3>1. live' \subseteq Heap
      BY <1>2, <2>1, RebuildFacts
    <3> QED
      BY <2>1, <3>1 DEF Rebuild
  <2>3. {"main", back_target} \subseteq Lists \ Heap
    BY <1>2, Distinct DEF Lists, MemberLists
  <2>4. parent'[back_target] = parent[back_target] /\ index'["main"] = index["main"]
    BY <2>2, <2>3
  <2> QED
    BY <1>1, <1>2, <1>3, <2>4 DEF LagInv
<1> QED
  BY <1>4, <1>5 DEF Update

LEMMA NextLagInv == IInv /\ LagInv /\ [Next]_vars => LagInv'
<1> SUFFICES ASSUME IInv, LagInv, [Next]_vars PROVE LagInv'
  OBVIOUS
<1>1. CASE ConstructMenu
  BY <1>1 DEF ConstructMenu, LagInv, Running, frameVars
<1>2. CASE ConstructLists
  <2>1. back_target = "main" /\ back_target' = back_target
    BY <1>2 DEF IInv, ConstructionInv, ConstructLists, menuVars
  <2>2. parent'["main"] = NoList
    BY <1>2 DEF ConstructLists, Lists, MemberLists
  <2> QED
    BY <1>2, <2>1, <2>2 DEF ConstructLists, LagInv, Running, frameVars
<1>3. CASE OtherCallback
  BY <1>3 DEF OtherCallback, CallbackReturns, LagInv, Running, listVars, menuVars
<1>4. CASE Draw
  BY <1>4 DEF Draw, LagInv, Running, listVars, menuVars
<1>5. CASE UNCHANGED vars
  BY <1>5 DEF vars, listVars, menuVars, frameVars, LagInv, Running
<1> QED
  BY <1>1, <1>2, <1>3, <1>4, <1>5, HandleInputLagInv, OpenListLagInv, UpdateLagInv DEF Next

\* A frame highlights the selection of its list unless it is the first frame of
\* that list, for any lists and however they were reached.
THEOREM LagsOneFrame == Spec => HighlightLagsAtMostOneFrame
<1>1. Init => LagInv
  BY DEF Init, LagInv, Running
<1>2. IInv /\ LagInv /\ [Next]_vars
        => [pc = "draw" /\ pc' = "input" /\ shown'.list = shown.list
              => shown'.index = index[shown'.list]]_vars
  <2> SUFFICES ASSUME LagInv, Next, pc = "draw", shown'.list = shown.list
               PROVE  shown'.index = index[shown'.list]
    OBVIOUS
  <2>1. Draw
    BY DEF Next, ConstructMenu, ConstructLists, HandleInput, OpenList, Update, OtherCallback,
           CallbackReturns
  <2>2. shown'.list = menu_list /\ shown'.index = frame_index /\ pc = "draw"
    BY <2>1 DEF Draw
  <2> QED
    BY <2>2 DEF LagInv, Running
<1> QED
  BY <1>1, <1>2, NextLagInv, SpecIInv, PTL DEF Spec, HighlightLagsAtMostOneFrame

-----------------------------------------------------------------------------
(* The refinement. *)

LEMMA InitNav == Init => Nav!Init
<1> SUFFICES ASSUME Init PROVE Nav!Init
  OBVIOUS
<1>1. menu_list \notin Heap /\ back_target \notin Heap /\ menu_list \notin MemberLists
  BY Distinct DEF Init, Lists
<1>2. Shelf = <<>>
  BY NoElements DEF Init, Shelf
<1> QED
  BY <1>1, <1>2 DEF Nav!Init

\* The podcasts an abstract shelf holds depend on the episode lists alone.
LEMMA SameShelf == UNCHANGED <<entries, episode_lists>> => Shelf' = Shelf
BY DEF Shelf, size

\* Steps that neither navigate nor rebuild are stutters.
LEMMA StutterNav ==
    UNCHANGED <<menu_list, back_target, entries, episode_lists>> => UNCHANGED Nav!vars
BY SameShelf DEF Nav!vars

LEMMA ConstructMenuNav == IInv /\ ConstructMenu => UNCHANGED Nav!vars
<1> SUFFICES ASSUME IInv, ConstructMenu PROVE UNCHANGED Nav!vars
  OBVIOUS
<1>1. /\ menu_list = NoList /\ back_target = NoList
      /\ menu_list' = "main" /\ back_target' = "main"
      /\ UNCHANGED <<entries, episode_lists>>
  BY DEF ConstructMenu, goToList, IInv, ConstructionInv
<1> QED
  BY <1>1, SameShelf, Distinct DEF Nav!vars, MemberLists, Lists

LEMMA ConstructListsNav == IInv /\ ConstructLists => UNCHANGED Nav!vars
<1> SUFFICES ASSUME IInv, ConstructLists PROVE UNCHANGED Nav!vars
  OBVIOUS
<1>1. /\ UNCHANGED <<menu_list, back_target, episode_lists>> /\ episode_lists = <<>>
  BY DEF ConstructLists, menuVars, IInv, ConstructionInv
<1>2. Shelf' = Shelf
  BY <1>1, NoElements DEF Shelf
<1> QED
  BY <1>1, <1>2 DEF Nav!vars

\* Back is BackToMain or BackToPodcasts, or shows the list already shown.
LEMMA BackNav ==
    ASSUME IInv, Running, backButtonCallback, UNCHANGED <<entries, episode_lists, live>>
    PROVE  Nav!Next \/ UNCHANGED Nav!vars
<1>1. Types /\ ParentInv /\ PlaceInv /\ Shelf' = Shelf /\ back_target' = back_target
  BY RunningFacts, SameShelf DEF backButtonCallback
<1>2. live \subseteq Heap
  BY <1>1 DEF Types
<1>3. CASE menu_list' = menu_list
  BY <1>1, <1>3, StutterNav
<1>4. CASE menu_list' # menu_list /\ back_target \in Heap
  <2>1. menu_list' = "podcasts"
    BY <1>1, <1>4, Distinct DEF backButtonCallback, ParentInv, PlaceInv, Valid
  <2>2. menu_list \in Heap
    BY <1>1, <1>4, <2>1 DEF PlaceInv
  <2>3. Nav!BackToPodcasts
    BY <1>1, <1>4, <2>1, <2>2, Distinct DEF Nav!BackToPodcasts, MemberLists
  <2> QED
    BY <2>3 DEF Nav!Next
<1>5. CASE menu_list' # menu_list /\ back_target \notin Heap
  <2>1. menu_list' = "main" /\ menu_list \in {"options", "podcasts"}
    BY <1>1, <1>2, <1>5 DEF backButtonCallback, ParentInv, PlaceInv, Valid, MemberLists
  <2>2. Nav!BackToMain
    BY <1>1, <1>5, <2>1, Distinct DEF Nav!BackToMain, MemberLists
  <2> QED
    BY <2>2 DEF Nav!Next
<1> QED
  BY <1>3, <1>4, <1>5

LEMMA HandleInputNav ==
    ASSUME IInv, NEW pressed \in SUBSET Buttons, HandleInput(pressed)
    PROVE  Nav!Next \/ UNCHANGED Nav!vars
<1>1. Running /\ UNCHANGED <<entries, episode_lists, live>>
  BY DEF HandleInput, Running
<1>2. CASE backButtonCallback
  BY <1>1, <1>2, BackNav
<1>3. CASE UNCHANGED menuVars
  BY <1>1, <1>3, StutterNav DEF menuVars
<1> QED
  BY <1>2, <1>3 DEF HandleInput

LEMMA OpenListNav == IInv /\ OpenList => Nav!Next
<1> SUFFICES ASSUME IInv, OpenList PROVE Nav!Next
  OBVIOUS
<1>1. Running
  BY DEF OpenList, CallbackReturns, Running
<1>2. /\ Types /\ HeapIsOwned /\ EntriesInv /\ PlaceInv /\ CallbackInv
  BY <1>1, RunningFacts
<1>3. /\ menu_list' = callback /\ back_target' = callback
      /\ callback \in Elements(entries[menu_list]) /\ callback \notin Actions
      /\ UNCHANGED <<entries, episode_lists>>
  BY <1>2, Distinct DEF OpenList, CallbackReturns, goToList, CallbackInv, Actions
<1>4. Shelf' = Shelf
  BY <1>3, SameShelf
<1>5. CASE menu_list = "main"
  <2>1. callback \in {"options", "podcasts"}
    BY <1>2, <1>3, <1>5 DEF EntriesInv, Actions
  <2>2. back_target \notin Heap
    BY <1>5, EpisodesKeepOutOfMain
  <2>3. Nav!OpenFromMain(callback)
    BY <1>3, <1>4, <1>5, <2>1, <2>2, Distinct DEF Nav!OpenFromMain, MemberLists
  <2> QED
    BY <2>1, <2>3 DEF Nav!Next
<1>6. CASE menu_list = "podcasts"
  <2>1. callback \in Elements(episode_lists) /\ callback \in Heap
    BY <1>2, <1>3, <1>6 DEF EntriesInv, HeapIsOwned, Types
  <2> DEFINE i == CHOOSE j \in DOMAIN episode_lists : episode_lists[j] = callback
  <2>2. i \in DOMAIN episode_lists
    BY <2>1 DEF Elements
  <2>3. i \in 1 .. Len(Shelf)
    BY <1>2, <2>2, LenProperties DEF Shelf, Types
  <2> HIDE DEF i
  <2>4. (IF menu_list' \in Heap
         THEN CHOOSE j \in DOMAIN episode_lists' : episode_lists'[j] = menu_list' ELSE 0) = i
    BY <1>3, <2>1 DEF i
  <2>5. Nav!OpenEpisodes(i)
    BY <1>3, <1>4, <1>6, <2>1, <2>4, Distinct DEF Nav!OpenEpisodes, MemberLists
  <2>6. \E j \in 1 .. Len(Shelf) : Nav!OpenEpisodes(j)
    BY <2>3, <2>5 DEF Nav!OpenEpisodes
  <2> QED
    BY <2>6 DEF Nav!Next
<1>7. CASE menu_list \in live \/ menu_list = "options"
  BY <1>2, <1>3, <1>7 DEF EntriesInv, Actions
<1> QED
  BY <1>2, <1>5, <1>6, <1>7 DEF PlaceInv, Valid, MemberLists

LEMMA UpdateNav == IInv /\ Update => Nav!Next \/ UNCHANGED Nav!vars
<1> SUFFICES ASSUME IInv, Update PROVE Nav!Next \/ UNCHANGED Nav!vars
  OBVIOUS
<1>1. menu_list = "main" /\ back_target \in MemberLists
  BY UpdateFromMain
<1>2. UNCHANGED <<menu_list, back_target>>
  BY DEF Update, menuVars
<1>3. CASE UNCHANGED listVars
  BY <1>2, <1>3, StutterNav DEF listVars
<1>4. CASE \E shelf \in Shelves : updatePodcastsList(shelf)
  <2>1. PICK shelf \in Shelves : Rebuild(shelf, {}, <<>>)
    BY <1>4 DEF updatePodcastsList, HeapIsOwned, IInv
  <2>2. Shelf' \in Shelves
    BY <2>1, RebuildFacts DEF IInv
  <2>3. Nav!Refresh
    BY <1>1, <1>2, <2>2, Distinct DEF Nav!Refresh, MemberLists
  <2> QED
    BY <2>3 DEF Nav!Next
<1> QED
  BY <1>3, <1>4 DEF Update

LEMMA NextNav == IInv /\ [Next]_vars => [Nav!Next]_(Nav!vars)
<1>1. OtherCallback \/ Draw \/ UNCHANGED vars => UNCHANGED Nav!vars
  BY StutterNav DEF OtherCallback, Draw, vars, listVars, menuVars
<1> QED
  BY <1>1, ConstructMenuNav, ConstructListsNav, HandleInputNav, OpenListNav, UpdateNav DEF Next

\* The pointers, parents and callbacks of Menu implement Navigation.
THEOREM MenuImplementsNavigation == Spec => ImplementsNavigation
BY InitNav, NextNav, SpecIInv, PTL DEF Spec, ImplementsNavigation, Nav!Spec
=============================================================================
