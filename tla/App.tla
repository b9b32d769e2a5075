--------------------------------- MODULE App ---------------------------------
(***************************************************************************)
(* The main loop (app.cpp, App::run): the buttons of Gui drive the Menu.   *)
(* A turn polls the pad and hands what it found to Menu::draw in one step; *)
(* the user goes on pushing buttons while a callback runs or a frame is    *)
(* drawn, for the whole program is one thread and polls once per turn.     *)
(***************************************************************************)
EXTENDS Menu, FiniteSets

CONSTANT MaxHeld   \* bound: buttons the user holds down at the same time

ASSUME AppAssumption == MaxHeld \in Nat

VARIABLES held, old_data, pressed_buttons

G == INSTANCE Gui

padVars == <<held, old_data, pressed_buttons>>
appVars == <<vars, padVars>>

AppInit == Init /\ G!GuiInit /\ Cardinality(held) <= MaxHeld

Turn == G!update /\ HandleInput(pressed_buttons')

\* The rest of App::App and of Menu::draw.
Continue ==
    /\ ConstructMenu \/ ConstructLists \/ OpenList \/ Update \/ OtherCallback \/ Draw
    /\ UNCHANGED padVars

UserActs ==
    /\ G!User
    /\ Cardinality(held') <= MaxHeld
    /\ UNCHANGED vars

AppNext == Turn \/ Continue \/ UserActs

AppSpec == AppInit /\ [][AppNext]_appVars

-----------------------------------------------------------------------------
(* Properties. *)

AppTypeOK == TypeOK /\ G!GuiTypeOK

\* The accept button runs the entry the user sees highlighted, although
\* draw() can highlight another one (HighlightLagsAtMostOneFrame): a button
\* acts on its release, a whole turn after the poll that saw it down, and the
\* frame of that turn is right unless that very turn answered the back button
\* or this one moves the selection as well.
AcceptRunsHighlightedEntry ==
    [][Turn /\ pressed_buttons' \cap {"accept", "down", "up"} = {"accept"}
            /\ "back" \notin pressed_buttons
         => shown.list = menu_list /\ shown.index = frame_index']_appVars
=============================================================================
