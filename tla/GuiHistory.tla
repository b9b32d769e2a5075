----------------------------- MODULE GuiHistory -----------------------------
(***************************************************************************)
(* What the polling of Gui owes the user: an account of every push.  The   *)
(* counters are history variables, the program counts nothing; they do not *)
(* restrict the program, and MaxPushes bounds the user for TLC.            *)
(***************************************************************************)
EXTENDS Gui

CONSTANT MaxPushes   \* bound: how often the user pushes each button

ASSUME GuiAssumption == MaxPushes \in Nat

VARIABLES pushes,    \* times each button was pushed
          triggers,  \* times each button was in pressed_buttons
          lost       \* pushes that the polls cannot tell from no push

historyVars == <<guiVars, pushes, triggers, lost>>

Bump(counter, buttons) ==
    [b \in Buttons |-> IF b \in buttons THEN counter[b] + 1 ELSE counter[b]]

Poll ==
    /\ update
    /\ triggers' = Bump(triggers, pressed_buttons')
    /\ UNCHANGED <<pushes, lost>>

\* A push that follows a release no poll has seen looks like the same push
\* going on.
CountedPush(b) ==
    /\ pushes[b] < MaxPushes
    /\ Push(b)
    /\ pushes' = Bump(pushes, {b})
    /\ lost' = Bump(lost, {b} \ old_data)
    /\ UNCHANGED triggers

\* The release of a button that no poll has seen down goes unnoticed.
CountedLetGo(b) ==
    /\ LetGo(b)
    /\ lost' = Bump(lost, {b} \cap old_data)
    /\ UNCHANGED <<pushes, triggers>>

HistoryInit ==
    /\ GuiInit
    /\ pushes = [b \in Buttons |-> IF b \in held THEN 1 ELSE 0]
    /\ triggers = [b \in Buttons |-> 0]
    /\ lost = [b \in Buttons |-> 0]

HistoryNext == Poll \/ \E b \in Buttons : CountedPush(b) \/ CountedLetGo(b)

HistorySpec == HistoryInit /\ [][HistoryNext]_historyVars

-----------------------------------------------------------------------------
(* Properties. *)

HistoryTypeOK == GuiTypeOK /\ {pushes, triggers, lost} \subseteq [Buttons -> Nat]

\* A push that has not been answered yet: the button is down, or its release
\* has not been polled.
InFlight(b) == b \in held \/ b \notin old_data

\* Every push triggers its button once, and only once, unless it begins and
\* ends between two polls or follows a release that no poll saw.
EveryPushCounts ==
    \A b \in Buttons :
        pushes[b] = triggers[b] + lost[b] + (IF InFlight(b) THEN 1 ELSE 0)

\* A button never triggers at two polls in a row: it has to be seen down in
\* between.
NoTriggerTwice ==
    [][Poll => pressed_buttons \cap pressed_buttons' = {}]_historyVars

\* A button that a poll has seen down and that is let go of for good triggers,
\* provided that App::run goes on polling.  That is not its own to promise: a turn
\* runs the callback of the entry, which may never return (ImeDialog's
\* NotOpenedIsForever, Session's MenuComesBack say when).
ReleaseTriggers ==
    WF_historyVars(Poll) =>
        \A b \in Buttons :
            <>[](b \notin held) => [](b \notin old_data => <>(b \in pressed_buttons))
=============================================================================
