----------------------------- MODULE AppProofs ------------------------------
(***************************************************************************)
(* Theorems about the main loop for every heap, shelf and page size, and   *)
(* however many buttons the user holds: it drives the menu as Menu allows, *)
(* so that Menu's invariants hold in the program, and the accept button    *)
(* runs the entry that is highlighted.                                     *)
(***************************************************************************)
EXTENDS App, MenuProofs

-----------------------------------------------------------------------------
(* App implements Menu. *)

LEMMA PadTypeInit == AppInit => G!GuiTypeOK
BY DEF AppInit, G!GuiInit, G!GuiTypeOK

LEMMA PadTypeNext == G!GuiTypeOK /\ [AppNext]_appVars => G!GuiTypeOK'
<1> SUFFICES ASSUME G!GuiTypeOK, [AppNext]_appVars PROVE G!GuiTypeOK'
  OBVIOUS
<1>1. CASE Turn
  BY <1>1 DEF Turn, G!update, G!updateInput, G!GuiTypeOK
<1>2. CASE Continue
  BY <1>2 DEF Continue, padVars, G!GuiTypeOK
<1>3. CASE UserActs
  BY <1>3 DEF UserActs, G!User, G!Push, G!LetGo, G!GuiTypeOK
<1>4. CASE UNCHANGED appVars
  BY <1>4 DEF appVars, padVars, G!GuiTypeOK
<1> QED
  BY <1>1, <1>2, <1>3, <1>4 DEF AppNext

LEMMA AppNextIsNext == [AppNext]_appVars => [Next]_vars
<1> SUFFICES ASSUME [AppNext]_appVars PROVE [Next]_vars
  OBVIOUS
<1>1. CASE Turn
  <2>1. pressed_buttons' \in SUBSET Buttons
    BY <1>1 DEF Turn, G!update, G!updateInput
  <2>2. HandleInput(pressed_buttons')
    BY <1>1 DEF Turn
  <2>3. Next
    BY <2>1, <2>2 DEF Next
  <2> QED
    BY <2>3
<1>2. CASE Continue
  BY <1>2 DEF Continue, Next
<1>3. CASE UserActs
  BY <1>3 DEF UserActs
<1>4. CASE UNCHANGED appVars
  BY <1>4 DEF appVars
<1> QED
  BY <1>1, <1>2, <1>3, <1>4 DEF AppNext

\* The main loop is one way to use the menu: whatever the user does with the
\* buttons, App's lists and the menu behave as Menu specifies.
THEOREM AppImplementsMenu == AppSpec => Spec
<1>1. AppInit => Init
  BY DEF AppInit
<1> QED
  BY <1>1, AppNextIsNext, PTL DEF AppSpec, Spec

\* Every variable of the program has its type.
THEOREM AppTypeCorrect == AppSpec => []AppTypeOK
<1>1. AppSpec => []G!GuiTypeOK
  BY PadTypeInit, PadTypeNext, PTL DEF AppSpec
<1>2. TypeOK /\ G!GuiTypeOK => AppTypeOK
  BY DEF AppTypeOK
<1> QED
  BY <1>1, <1>2, AppImplementsMenu, TypeCorrect, PTL

\* With the real main loop too no pointer leads to a deleted list.
THEOREM AppNeverDangling == AppSpec => []NoDanglingList
BY AppImplementsMenu, NeverDangling, PTL

-----------------------------------------------------------------------------
(* The accept button. *)

\* The last poll saw the accept button down and no release of the back button.
Calm == "accept" \notin old_data /\ "back" \notin pressed_buttons

\* A turn that ends with the accept button down ran no callback, so that its
\* frame highlights what is selected.
FrameInv ==
    /\ pressed_buttons \subseteq old_data
    /\ ~Running => old_data = Buttons
    /\ pc = "callback" => "accept" \in pressed_buttons
    /\ Calm /\ pc = "draw" => frame_index = index[menu_list]
    /\ Calm /\ pc = "input" => shown.list = menu_list /\ shown.index = index[menu_list]

LEMMA InitFrameInv == AppInit => FrameInv
BY DEF AppInit, Init, G!GuiInit, FrameInv, Running

LEMMA TurnFrameInv == IInv /\ FrameInv /\ Turn => FrameInv'
<1> SUFFICES ASSUME IInv, FrameInv, Turn PROVE FrameInv'
  OBVIOUS
<1>1. /\ pressed_buttons' = (Buttons \ held) \ old_data
      /\ old_data' = Buttons \ held
      /\ HandleInput(pressed_buttons')
  BY DEF Turn, G!update, G!updateInput
<1>2. "accept" \in Buttons /\ menu_list \in Lists /\ index \in [Lists -> Nat]
  BY <1>1 DEF Buttons, IInv, Types, HandleInput
<1>3. pressed_buttons' \subseteq old_data'
  BY <1>1
<1>4. Running'
  BY <1>1 DEF HandleInput, Running
<1>5. pc' \in {"callback", "draw"}
  BY <1>1 DEF HandleInput
<1>6. pc' = "callback" => "accept" \in pressed_buttons'
  BY <1>1 DEF HandleInput
<1>7. ASSUME Calm', pc' = "draw" PROVE frame_index' = index'[menu_list']
  <2>1. pressed_buttons' \cap {"accept", "back"} = {}
    BY <1>3, <1>7 DEF Calm
  <2>2. UNCHANGED menu_list
    BY <1>1, <2>1 DEF HandleInput, menuVars
  <2>3. /\ index' = [index EXCEPT ![menu_list] = MovedIndex(pressed_buttons')]
        /\ frame_index' = MovedIndex(pressed_buttons')
    BY <1>1 DEF HandleInput, FrameIndex
  <2> QED
    BY <1>2, <2>2, <2>3
<1> QED
  BY <1>3, <1>4, <1>5, <1>6, <1>7 DEF FrameInv

LEMMA ContinueFrameInv == FrameInv /\ Continue => FrameInv'
<1> SUFFICES ASSUME FrameInv, Continue PROVE FrameInv'
  OBVIOUS
<1>1. UNCHANGED padVars /\ (Calm' <=> Calm)
  BY DEF Continue, padVars, Calm
<1>2. CASE ConstructMenu \/ ConstructLists
  <2>1. ~Calm /\ old_data = Buttons /\ pc' # "callback"
    BY <1>2 DEF ConstructMenu, ConstructLists, FrameInv, Running, Calm, Buttons
  <2> QED
    BY <1>1, <2>1 DEF FrameInv, padVars
<1>3. CASE OpenList \/ Update \/ OtherCallback
  <2>1. pc = "callback" /\ pc' = "draw"
    BY <1>3 DEF OpenList, Update, OtherCallback, CallbackReturns
  <2>2. ~Calm
    BY <2>1 DEF FrameInv, Calm
  <2> QED
    BY <1>1, <2>1, <2>2 DEF FrameInv, padVars, Running
<1>4. CASE Draw
  BY <1>1, <1>4 DEF Draw, FrameInv, padVars, listVars, menuVars, Running
<1> QED
  BY <1>2, <1>3, <1>4 DEF Continue

LEMMA NextFrameInv == IInv /\ FrameInv /\ [AppNext]_appVars => FrameInv'
<1> SUFFICES ASSUME IInv, FrameInv, [AppNext]_appVars PROVE FrameInv'
  OBVIOUS
<1>1. CASE UserActs \/ UNCHANGED appVars
  <2>1. UNCHANGED <<vars, old_data, pressed_buttons>>
    BY <1>1 DEF UserActs, G!User, G!Push, G!LetGo, appVars, padVars
  <2> QED
    BY <2>1 DEF FrameInv, Calm, Running, vars, listVars, menuVars, frameVars
<1> QED
  BY <1>1, TurnFrameInv, ContinueFrameInv DEF AppNext

\* The accept button runs the entry that is highlighted, unless this very turn
\* moves the selection or the one before answered the back button.
THEOREM AcceptIsHonest == AppSpec => AcceptRunsHighlightedEntry
<1>1. IInv /\ FrameInv /\ [AppNext]_appVars =>
        [Turn /\ pressed_buttons' \cap {"accept", "down", "up"} = {"accept"}
              /\ "back" \notin pressed_buttons
           => shown.list = menu_list /\ shown.index = frame_index']_appVars
  <2> SUFFICES ASSUME FrameInv, Turn,
                      pressed_buttons' \cap {"accept", "down", "up"} = {"accept"},
                      "back" \notin pressed_buttons
               PROVE  shown.list = menu_list /\ shown.index = frame_index'
    OBVIOUS
  <2>1. pc = "input" /\ frame_index' = index[menu_list]
    BY DEF Turn, HandleInput, FrameIndex, MovedIndex
  <2>2. Calm
    BY DEF Turn, G!update, G!updateInput, Calm
  <2> QED
    BY <2>1, <2>2 DEF FrameInv
<1>2. AppSpec => []IInv
  BY AppImplementsMenu, SpecIInv, PTL
<1> QED
  BY <1>1, <1>2, InitFrameInv, NextFrameInv, PTL DEF AppSpec, AcceptRunsHighlightedEntry
=============================================================================
