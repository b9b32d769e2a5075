------------------------------ MODULE ImeDialog ------------------------------
(***************************************************************************)
(* The dialog in which the user types an URL (app.cpp,                     *)
(* App::requestInputFromImeDialog), with the polls of Gui around it.  The  *)
(* dialog belongs to the system.  While it is open the program's one       *)
(* thread loops inside the callback of "add url" and polls no buttons, so  *)
(* old_data is as old as the dialog when the polls go on.                  *)
(*                                                                         *)
(* "add url" is the selected entry of the menu throughout.                 *)
(***************************************************************************)
EXTENDS Gui

CONSTANTS Accept,     \* the button that opens the dialog
          Texts,      \* what can be typed
          NoText,     \* the empty text
          Garbage     \* what an uninitialised buffer holds

ASSUME ImeDialogAssumption ==
    /\ Accept \in Buttons
    /\ NoText \in Texts /\ Garbage \notin Texts

VARIABLES
    pc,        \* "menu": the main loop; "init" and "status": the dialog's loop
    dialog,    \* what sceImeDialogGetStatus answers
    closedBy,  \* the button of the dialog that closed it
    typed,     \* imeInputBuffer
    answer,    \* what requestInputFromImeDialog returned last
    fresh,     \* history: was Accept pushed since the dialog was opened?
    before     \* history: the buttons down at the poll that opened the dialog,
               \* until the first poll after it, and then all

dialogVars == <<dialog, closedBy, typed, answer>>
vars == <<pc, guiVars, dialogVars, fresh, before>>

-----------------------------------------------------------------------------
(* The program. *)

\* A turn of App::run.  The accept button calls appendUrlToFeed, whose buffers
\* are new at every call.
Turn ==
    /\ pc = "menu"
    /\ update
    /\ IF Accept \in pressed_buttons'
       THEN /\ pc' = "init"
            /\ typed' = NoText
            /\ fresh' = FALSE
            /\ before' = held
       ELSE /\ before' = Buttons
            /\ UNCHANGED <<pc, typed, fresh>>
    /\ UNCHANGED <<dialog, closedBy, answer>>

\* sceImeDialogInit may fail.  Its result is not looked at, and showDial makes
\* the first attempt the only one.
InitDialog ==
    /\ pc = "init"
    /\ dialog' \in {"running", "none"}
    /\ pc' = "status"
    /\ UNCHANGED <<guiVars, closedBy, typed, answer, fresh, before>>

\* Mutant of rstButton: the result is fetched from the dialog.
FetchedButton == closedBy

\* rst is cleared and never fetched: its button is neither CLOSE nor ENTER.
rstButton == "none"

\* For CLOSE the buffer the function returns would be left uninitialised.
EndDialog ==
    /\ answer' = IF rstButton = "close" THEN Garbage ELSE typed
    /\ dialog' = "none"
    /\ pc' = "menu"
    /\ UNCHANGED <<held, pressed_buttons, closedBy, typed, fresh, before>>

\* Mutants of SeesFinished: an empty text does not end the dialog; a dialog that
\* is not running counts as finished; old_data is cleared after the dialog.
FinishedWithText ==
    /\ pc = "status" /\ dialog = "finished" /\ typed # NoText
    /\ EndDialog /\ UNCHANGED old_data
FinishedWhenNotRunning ==
    /\ pc = "status" /\ dialog # "running"
    /\ EndDialog /\ UNCHANGED old_data
FinishedAndInputReset ==
    /\ pc = "status" /\ dialog = "finished"
    /\ EndDialog /\ old_data' = {}

\* A turn of the loop that finds any other status changes nothing.
SeesFinished ==
    /\ pc = "status" /\ dialog = "finished"
    /\ EndDialog /\ UNCHANGED old_data

-----------------------------------------------------------------------------
(* The user. *)

Type(text) ==
    /\ dialog = "running"
    /\ typed' = text
    /\ UNCHANGED <<pc, guiVars, dialog, closedBy, answer, fresh, before>>

\* By a touch or by a button, which may still be down afterwards.
CloseDialog(button) ==
    /\ dialog = "running"
    /\ dialog' = "finished"
    /\ closedBy' = button
    /\ UNCHANGED <<pc, guiVars, typed, answer, fresh, before>>

PushOrLetGo(b) ==
    /\ Push(b) \/ LetGo(b)
    /\ fresh' = (fresh \/ (b = Accept /\ b \in held'))
    /\ UNCHANGED <<pc, dialogVars, before>>

-----------------------------------------------------------------------------

Init ==
    /\ GuiInit
    /\ pc = "menu"
    /\ dialog = "none" /\ closedBy = "none"
    /\ typed = NoText /\ answer = NoText
    /\ fresh = (Accept \in held)
    /\ before = Buttons

Program == Turn \/ InitDialog \/ SeesFinished

Next ==
    \/ Program
    \/ \E text \in Texts : Type(text)
    \/ \E button \in {"close", "enter"} : CloseDialog(button)
    \/ \E b \in Buttons : PushOrLetGo(b)

Spec == Init /\ [][Next]_vars

\* The program runs on; nothing is assumed of the user.
FairSpec == Spec /\ WF_vars(Program)

-----------------------------------------------------------------------------
(* Properties. *)

TypeOK ==
    /\ GuiTypeOK
    /\ pc \in {"menu", "init", "status"}
    /\ dialog \in {"none", "running", "finished"}
    /\ closedBy \in {"none", "close", "enter"}
    /\ {typed, answer} \subseteq Texts
    /\ fresh \in BOOLEAN
    /\ before \subseteq Buttons

\* The answer is the text the user left in the dialog, whichever button closed
\* it: a cancelled dialog is taken for a confirmed one, but the uninitialised
\* buffer of app.cpp:205 is never returned, and neither is the text of an
\* earlier dialog.
AnswerIsTyped == pc = "menu" => answer = typed

\* One push of accept never opens the dialog twice, however long the dialog was
\* open and whatever the user pushed meanwhile.  (A push that closed the dialog
\* may open it again: it began while the dialog was open.)
OpenNeedsNewPush == [][pc = "menu" /\ pc' = "init" => fresh]_vars

\* old_data is as old as the dialog, and yet nothing that was both pushed and
\* let go of in the dialog reaches the menu: the first poll after it triggers
\* no button but those that were down when it was opened.
DialogKeepsItsPushes == [][Turn => pressed_buttons' \subseteq before]_vars

\* A dialog that could not be opened is waited for till the program is killed.
NotOpenedIsForever ==
    [](pc = "status" /\ dialog = "none" => [](pc = "status"))

\* There is no other wait: the program polls its buttons for ever, or the user
\* leaves a dialog open, or a dialog could not be opened.
WaitsOnlyForDialog ==
    []<>(pc = "menu") \/ <>[](dialog = "running") \/ <>[](pc = "status" /\ dialog = "none")
=============================================================================
