------------------------------- MODULE MCApp --------------------------------
(***************************************************************************)
(* App with at most one podcast of two episodes and up to two buttons held *)
(* at a time: every pair of buttons can be let go of before the same poll. *)
(***************************************************************************)
EXTENDS App

MCShelves == {<<>>, <<2>>}
=============================================================================
