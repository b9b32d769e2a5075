--------------------------------- MODULE Gui ---------------------------------
(***************************************************************************)
(* Reading the buttons (gui.hpp, gui.cpp).  GUI::update polls the pad once *)
(* per turn of the main loop; the user pushes and lets go of the buttons   *)
(* whenever they like.  sceCtrlPeekBufferNegative sets the bit of a button *)
(* that is up, so `data & ~old_data` holds the buttons that were let go of *)
(* since the poll before: a button acts on its release.                    *)
(***************************************************************************)
EXTENDS Naturals

CONSTANT Buttons         \* the buttons of the pad

VARIABLES held,            \* buttons that are down now
          old_data,        \* bits of the last poll: the buttons that were up
          pressed_buttons  \* what Menu::draw is told

guiVars == <<held, old_data, pressed_buttons>>

-----------------------------------------------------------------------------
(* The program. *)

\* Mutant of updateInput: the buttons of the last poll stay pressed.
PressedAccumulates ==
    /\ pressed_buttons' = pressed_buttons \cup ((Buttons \ held) \ old_data)
    /\ old_data' = Buttons \ held

\* Mutant of updateInput: the data is taken for positive logic.
PositiveLogic ==
    /\ pressed_buttons' = held \ old_data
    /\ old_data' = held

updateInput ==
    /\ pressed_buttons' = (Buttons \ held) \ old_data
    /\ old_data' = Buttons \ held

\* GUI::update up to the call of draw.
update == updateInput /\ UNCHANGED held

-----------------------------------------------------------------------------
(* The user. *)

Push(b) ==
    /\ b \notin held
    /\ held' = held \cup {b}
    /\ UNCHANGED <<old_data, pressed_buttons>>

LetGo(b) ==
    /\ b \in held
    /\ held' = held \ {b}
    /\ UNCHANGED <<old_data, pressed_buttons>>

User == \E b \in Buttons : Push(b) \/ LetGo(b)

-----------------------------------------------------------------------------

\* Mutant of GuiInit: old_data starts at 0, as if every button had been down.
OldDataZero ==
    /\ held \in SUBSET Buttons
    /\ old_data = {}
    /\ pressed_buttons = {}

\* old_data starts at 0xffffffff: every button up.  The user may hold buttons
\* while the program starts.
GuiInit ==
    /\ held \in SUBSET Buttons
    /\ old_data = Buttons
    /\ pressed_buttons = {}

GuiTypeOK ==
    /\ held \subseteq Buttons
    /\ old_data \subseteq Buttons
    /\ pressed_buttons \subseteq Buttons
=============================================================================
