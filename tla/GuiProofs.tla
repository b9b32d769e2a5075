------------------------------ MODULE GuiProofs ------------------------------
(***************************************************************************)
(* What the polling of the buttons guarantees, for any buttons: the        *)
(* account of the pushes balances and no button triggers at two polls in a *)
(* row; and around the input dialog, for any texts: what it answers, what  *)
(* pushes made while it is open do to the menu, and that one which could   *)
(* not be opened is waited for for ever.                                   *)
(***************************************************************************)
EXTENDS GuiHistory, ImeDialog, TLAPS

-----------------------------------------------------------------------------
(* GuiHistory. *)

\* What HistoryTypeOK and EveryPushCounts need of the past: a button that has just
\* triggered was up at the last poll.
TriggeredIsUp == pressed_buttons \subseteq old_data

GInv == HistoryTypeOK /\ EveryPushCounts /\ TriggeredIsUp

LEMMA InitGInv == HistoryInit => GInv
<1> SUFFICES ASSUME HistoryInit PROVE GInv
  OBVIOUS
<1>1. HistoryTypeOK
  BY DEF HistoryInit, GuiInit, HistoryTypeOK, GuiTypeOK
<1>2. EveryPushCounts
  <2> SUFFICES ASSUME NEW b \in Buttons
               PROVE  pushes[b] = triggers[b] + lost[b] + (IF InFlight(b) THEN 1 ELSE 0)
    BY DEF EveryPushCounts
  <2>1. InFlight(b) <=> b \in held
    BY DEF HistoryInit, GuiInit, InFlight
  <2>2. pushes[b] = (IF b \in held THEN 1 ELSE 0) /\ triggers[b] = 0 /\ lost[b] = 0
    BY DEF HistoryInit
  <2> QED
    BY <2>1, <2>2
<1> QED
  BY <1>1, <1>2 DEF GInv, TriggeredIsUp, HistoryInit, GuiInit

\* A poll turns each push whose end it sees into a trigger.
LEMMA PollGInv == GInv /\ Poll => GInv'
<1> SUFFICES ASSUME GInv, Poll PROVE GInv'
  OBVIOUS
<1> USE DEF GInv, Poll, update, updateInput, Bump
<1>1. HistoryTypeOK'
  BY DEF HistoryTypeOK, GuiTypeOK
<1>2. ASSUME NEW b \in Buttons
      PROVE  pushes'[b] = triggers'[b] + lost'[b] + (IF InFlight(b)' THEN 1 ELSE 0)
  <2>1. pushes[b] = triggers[b] + lost[b] + (IF InFlight(b) THEN 1 ELSE 0)
    BY DEF EveryPushCounts
  <2>2. pushes[b] \in Nat /\ triggers[b] \in Nat /\ lost[b] \in Nat
    BY DEF HistoryTypeOK
  <2>3. pushes' = pushes /\ lost' = lost /\ held' = held
    OBVIOUS
  <2>4. CASE b \in pressed_buttons'
    <3>1. InFlight(b) /\ ~InFlight(b)' /\ triggers'[b] = triggers[b] + 1
      BY <2>3, <2>4 DEF InFlight
    <3> QED
      BY <2>1, <2>2, <2>3, <3>1
  <2>5. CASE b \notin pressed_buttons'
    <3>1. (InFlight(b)' <=> InFlight(b)) /\ triggers'[b] = triggers[b]
      BY <2>3, <2>5 DEF InFlight
    <3> QED
      BY <2>1, <2>2, <2>3, <3>1
  <2> QED
    BY <2>4, <2>5
<1> QED
  BY <1>1, <1>2 DEF EveryPushCounts, TriggeredIsUp

LEMMA PushGInv == ASSUME GInv, NEW c \in Buttons, CountedPush(c) PROVE GInv'
<1> USE DEF GInv, CountedPush, Push, Bump
<1>1. HistoryTypeOK'
  BY DEF HistoryTypeOK, GuiTypeOK
<1>2. ASSUME NEW b \in Buttons
      PROVE  pushes'[b] = triggers'[b] + lost'[b] + (IF InFlight(b)' THEN 1 ELSE 0)
  <2>1. pushes[b] = triggers[b] + lost[b] + (IF InFlight(b) THEN 1 ELSE 0)
    BY DEF EveryPushCounts
  <2>2. pushes[b] \in Nat /\ triggers[b] \in Nat /\ lost[b] \in Nat
    BY DEF HistoryTypeOK
  <2>3. CASE b # c
    <3>1. (InFlight(b)' <=> InFlight(b)) /\ pushes'[b] = pushes[b] /\ lost'[b] = lost[b]
      BY <2>3 DEF InFlight
    <3> QED
      BY <2>1, <3>1
  <2>4. CASE b = c
    <3>1. InFlight(b)' /\ pushes'[b] = pushes[b] + 1
      BY <2>4 DEF InFlight
    <3>2. lost'[b] = lost[b] + (IF InFlight(b) THEN 1 ELSE 0)
      BY <2>2, <2>4 DEF InFlight
    <3> QED
      BY <2>1, <2>2, <3>1, <3>2
  <2> QED
    BY <2>3, <2>4
<1> QED
  BY <1>1, <1>2 DEF EveryPushCounts, TriggeredIsUp

LEMMA LetGoGInv == ASSUME GInv, NEW c \in Buttons, CountedLetGo(c) PROVE GInv'
<1> USE DEF GInv, CountedLetGo, LetGo, Bump
<1>1. HistoryTypeOK'
  BY DEF HistoryTypeOK, GuiTypeOK
<1>2. ASSUME NEW b \in Buttons
      PROVE  pushes'[b] = triggers'[b] + lost'[b] + (IF InFlight(b)' THEN 1 ELSE 0)
  <2>1. pushes[b] = triggers[b] + lost[b] + (IF InFlight(b) THEN 1 ELSE 0)
    BY DEF EveryPushCounts
  <2>2. pushes[b] \in Nat /\ triggers[b] \in Nat /\ lost[b] \in Nat
    BY DEF HistoryTypeOK
  <2>3. CASE b # c \/ b \notin old_data
    <3>1. (InFlight(b)' <=> InFlight(b)) /\ pushes'[b] = pushes[b] /\ lost'[b] = lost[b]
      BY <2>3 DEF InFlight
    <3> QED
      BY <2>1, <3>1
  <2>4. CASE b = c /\ b \in old_data
    <3>1. InFlight(b) /\ ~InFlight(b)' /\ lost'[b] = lost[b] + 1
      BY <2>4 DEF InFlight
    <3> QED
      BY <2>1, <2>2, <3>1
  <2> QED
    BY <2>3, <2>4
<1> QED
  BY <1>1, <1>2 DEF EveryPushCounts, TriggeredIsUp

LEMMA NextGInv == GInv /\ [HistoryNext]_historyVars => GInv'
<1>1. GInv /\ UNCHANGED historyVars => GInv'
  BY DEF GInv, historyVars, guiVars, HistoryTypeOK, GuiTypeOK, EveryPushCounts, InFlight, TriggeredIsUp
<1> QED
  BY <1>1, PollGInv, PushGInv, LetGoGInv DEF HistoryNext

LEMMA SpecGInv == HistorySpec => []GInv
BY InitGInv, NextGInv, PTL DEF HistorySpec

\* Every push is answered once unless the polls cannot tell it from no push:
\* none is answered twice and none is lost in another way.
THEOREM PushesBalance == HistorySpec => []EveryPushCounts
<1>1. GInv => EveryPushCounts
  BY DEF GInv
<1> QED
  BY <1>1, SpecGInv, PTL

\* A button that triggers does not trigger at the next poll.
THEOREM NeverTwiceInARow == HistorySpec => NoTriggerTwice
<1>1. GInv /\ [HistoryNext]_historyVars => [Poll => pressed_buttons \cap pressed_buttons' = {}]_historyVars
  BY DEF GInv, TriggeredIsUp, Poll, update, updateInput
<1> QED
  BY <1>1, SpecGInv, PTL DEF HistorySpec, NoTriggerTwice

-----------------------------------------------------------------------------
(* ImeDialog. *)

USE ImeDialogAssumption

\* There is a dialog only while the program waits for it.
DialogIsWaitedFor == dialog # "none" => pc = "status"

\* Accept can be answered only for a push the dialog has not had: old_data has
\* it up from the release that opened the dialog on.
AcceptIsFresh == Accept \in held \/ Accept \notin old_data => fresh

\* The first poll after the dialog compares with the poll that opened it.
OldDataIsBefore == Buttons \ old_data \subseteq before

DInv == TypeOK /\ DialogIsWaitedFor /\ AnswerIsTyped /\ AcceptIsFresh /\ OldDataIsBefore

-----------------------------------------------------------------------------

LEMMA InitDInv == Init => DInv
<1> SUFFICES ASSUME Init PROVE DInv
  OBVIOUS
<1> USE DEF Init, GuiInit
<1>1. fresh = (Accept \in held)
  BY Zenon
<1>2. fresh \in BOOLEAN /\ AcceptIsFresh
  <2>1. fresh \in BOOLEAN
    BY <1>1
  <2>2. Accept \in old_data
    OBVIOUS
  <2> QED
    BY <1>1, <2>1, <2>2, Zenon DEF AcceptIsFresh
<1>3. TypeOK
  BY <1>2 DEF TypeOK, GuiTypeOK
<1>4. DialogIsWaitedFor /\ AnswerIsTyped /\ OldDataIsBefore
  BY DEF DialogIsWaitedFor, AnswerIsTyped, OldDataIsBefore
<1> QED
  BY <1>2, <1>3, <1>4 DEF DInv

LEMMA TurnDInv == DInv /\ Turn => DInv'
<1> SUFFICES ASSUME DInv, Turn PROVE DInv'
  OBVIOUS
<1> USE DEF DInv, Turn, update, updateInput, dialogVars
<1>1. TypeOK'
  BY DEF TypeOK, GuiTypeOK
<1>2. DialogIsWaitedFor' /\ AnswerIsTyped'
  BY DEF DialogIsWaitedFor, AnswerIsTyped
<1>3. AcceptIsFresh'
  BY DEF AcceptIsFresh, TypeOK, GuiTypeOK
<1>4. OldDataIsBefore'
  BY DEF OldDataIsBefore, TypeOK, GuiTypeOK
<1> QED
  BY <1>1, <1>2, <1>3, <1>4

LEMMA InitDialogDInv == DInv /\ InitDialog => DInv'
BY DEF DInv, InitDialog, guiVars, TypeOK, GuiTypeOK, DialogIsWaitedFor, AnswerIsTyped,
       AcceptIsFresh, OldDataIsBefore

LEMMA SeesFinishedDInv == DInv /\ SeesFinished => DInv'
BY DEF DInv, SeesFinished, EndDialog, rstButton, TypeOK, GuiTypeOK, DialogIsWaitedFor,
       AnswerIsTyped, AcceptIsFresh, OldDataIsBefore

LEMMA TypeDInv == ASSUME DInv, NEW text \in Texts, Type(text) PROVE DInv'
BY DEF DInv, Type, guiVars, TypeOK, GuiTypeOK, DialogIsWaitedFor, AnswerIsTyped,
       AcceptIsFresh, OldDataIsBefore

LEMMA CloseDInv ==
    ASSUME DInv, NEW button \in {"close", "enter"}, CloseDialog(button) PROVE DInv'
BY DEF DInv, CloseDialog, guiVars, TypeOK, GuiTypeOK, DialogIsWaitedFor, AnswerIsTyped,
       AcceptIsFresh, OldDataIsBefore

LEMMA PushDInv == ASSUME DInv, NEW b \in Buttons, PushOrLetGo(b) PROVE DInv'
<1> USE DEF DInv, PushOrLetGo, Push, LetGo, dialogVars
<1>1. fresh' \in BOOLEAN
  OBVIOUS
<1>2. held' \subseteq Buttons
  BY DEF TypeOK, GuiTypeOK
<1>3. TypeOK'
  BY <1>1, <1>2 DEF TypeOK, GuiTypeOK
<1>4. DialogIsWaitedFor' /\ AnswerIsTyped' /\ OldDataIsBefore'
  BY DEF DialogIsWaitedFor, AnswerIsTyped, OldDataIsBefore
<1>5. AcceptIsFresh'
  <2>1. old_data' = old_data /\ (Accept \in held' => Accept \in held \/ b = Accept)
    OBVIOUS
  <2>2. fresh => fresh'
    OBVIOUS
  <2>3. b = Accept /\ Accept \in held' => fresh'
    OBVIOUS
  <2> QED
    BY <2>1, <2>2, <2>3 DEF AcceptIsFresh
<1> QED
  BY <1>3, <1>4, <1>5

LEMMA NextDInv == DInv /\ [Next]_vars => DInv'
<1>1. DInv /\ UNCHANGED vars => DInv'
  BY DEF DInv, vars, guiVars, dialogVars, TypeOK, GuiTypeOK, DialogIsWaitedFor,
         AnswerIsTyped, AcceptIsFresh, OldDataIsBefore
<1> QED
  BY <1>1, TurnDInv, InitDialogDInv, SeesFinishedDInv, TypeDInv, CloseDInv, PushDInv
  DEF Next, Program

LEMMA SpecDInv == Spec => []DInv
BY InitDInv, NextDInv, PTL DEF Spec

-----------------------------------------------------------------------------

\* Every variable has its type, the answer among them: the buffer that nobody
\* has written is never returned.
THEOREM DialogTypeCorrect == Spec => []TypeOK
<1>1. DInv => TypeOK
  BY DEF DInv
<1> QED
  BY <1>1, SpecDInv, PTL

\* The answer is what was typed into this dialog, whichever button closed it.
THEOREM AnswersWhatWasTyped == Spec => []AnswerIsTyped
<1>1. DInv => AnswerIsTyped
  BY DEF DInv
<1> QED
  BY <1>1, SpecDInv, PTL

\* A dialog that has been closed is opened again only after a push made since it
\* was opened.
THEOREM OnePushOneDialog == Spec => OpenNeedsNewPush
<1>1. DInv /\ [Next]_vars => [pc = "menu" /\ pc' = "init" => fresh]_vars
  <2> SUFFICES ASSUME DInv, Next, pc = "menu", pc' = "init" PROVE fresh
    OBVIOUS
  <2>1. Turn
    BY DEF Next, Program, InitDialog, SeesFinished, EndDialog, Type, CloseDialog, PushOrLetGo
  <2>2. Accept \notin old_data
    BY <2>1 DEF Turn, update, updateInput
  <2> QED
    BY <2>2 DEF DInv, AcceptIsFresh
<1> QED
  BY <1>1, SpecDInv, PTL DEF Spec, OpenNeedsNewPush

\* Nothing that was both pushed and let go of in the dialog reaches the menu.
THEOREM DialogIsOpaque == Spec => DialogKeepsItsPushes
<1>1. DInv /\ [Next]_vars => [Turn => pressed_buttons' \subseteq before]_vars
  BY DEF DInv, OldDataIsBefore, Turn, update, updateInput
<1> QED
  BY <1>1, SpecDInv, PTL DEF Spec, DialogKeepsItsPushes

\* A dialog that could not be opened is waited for till the program is killed.
THEOREM WaitsForEver == Spec => NotOpenedIsForever
<1>1. pc = "status" /\ dialog = "none" /\ [Next]_vars
          => (pc = "status" /\ dialog = "none")'
  BY DEF Next, Program, Turn, InitDialog, SeesFinished, Type, CloseDialog, PushOrLetGo,
         vars, dialogVars
<1> QED
  BY <1>1, PTL DEF Spec, NotOpenedIsForever
=============================================================================
