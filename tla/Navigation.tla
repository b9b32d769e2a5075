----------------------------- MODULE Navigation -----------------------------
(***************************************************************************)
(* What psCast's menu promises its user, without pointers, callbacks or    *)
(* frames: a main menu, an options list, a list of podcasts and one list   *)
(* of episodes for each podcast.  Menu.tla, which follows the code, is     *)
(* shown to implement this specification.                                  *)
(*                                                                         *)
(* The promise has a one-way door.  Until a list of episodes has been      *)
(* opened the back button returns to the main menu; afterwards it only     *)
(* leads from the episodes to the podcasts.  The shelf of podcasts is      *)
(* replaced from the main menu alone.                                      *)
(***************************************************************************)
EXTENDS Naturals, Sequences

CONSTANT Shelves   \* the podcasts an update can bring, each a sequence that
                   \* holds the number of episodes of every podcast

VARIABLES place,   \* the list on the screen
          open,    \* which podcast's episodes are shown, 0 when none are
          wayBack, \* does the back button still lead to the main menu?
          shelf    \* the podcasts that can be opened

vars == <<place, open, wayBack, shelf>>

TypeOK == /\ place \in {"main", "options", "podcasts", "episodes"}
          /\ open \in Nat
          /\ wayBack \in BOOLEAN
          /\ shelf \in Shelves

Init == /\ place = "main"
        /\ open = 0
        /\ wayBack = TRUE
        /\ shelf = <<>>

OpenFromMain(list) == /\ place = "main"
                      /\ place' = list
                      /\ UNCHANGED <<open, wayBack, shelf>>

OpenEpisodes(i) == /\ place = "podcasts"
                   /\ place' = "episodes"
                   /\ open' = i
                   /\ wayBack' = FALSE
                   /\ UNCHANGED shelf

BackToMain == /\ wayBack
              /\ place \in {"options", "podcasts"}
              /\ place' = "main"
              /\ UNCHANGED <<open, wayBack, shelf>>

BackToPodcasts == /\ place = "episodes"
                  /\ place' = "podcasts"
                  /\ open' = 0
                  /\ UNCHANGED <<wayBack, shelf>>

Refresh == /\ place = "main"
           /\ wayBack
           /\ shelf' \in Shelves
           /\ UNCHANGED <<place, open, wayBack>>

Next == \/ \E list \in {"options", "podcasts"} : OpenFromMain(list)
        \/ \E i \in 1 .. Len(shelf) : OpenEpisodes(i)
        \/ BackToMain
        \/ BackToPodcasts
        \/ Refresh

Spec == Init /\ [][Next]_vars
=============================================================================
