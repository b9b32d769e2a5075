---------------------------- MODULE MCImeDialog -----------------------------
(***************************************************************************)
(* ImeDialog with two buttons and one text beside the empty one.           *)
(***************************************************************************)
EXTENDS ImeDialog
=============================================================================
