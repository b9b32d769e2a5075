------------------------------- MODULE MCGui --------------------------------
(***************************************************************************)
(* GuiHistory with two buttons, each pushed up to three times: enough for  *)
(* a push to be answered, to be lost between two polls and to merge with   *)
(* the next one while the other button is in any state.                    *)
(***************************************************************************)
EXTENDS GuiHistory
=============================================================================
