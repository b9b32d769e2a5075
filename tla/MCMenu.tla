------------------------------- MODULE MCMenu -------------------------------
(***************************************************************************)
(* Menu on a small instance: up to two podcasts of none, one or three      *)
(* episodes and pages of two rows, so that lists are empty, fill one page  *)
(* or need a second one, and updates grow and shrink the shelf.            *)
(***************************************************************************)
EXTENDS Menu

MCShelves == UNION {[1 .. n -> {0, 1, 3}] : n \in 0 .. 2}
=============================================================================
