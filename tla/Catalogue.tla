----------------------------- MODULE Catalogue ------------------------------
(***************************************************************************)
(* What psCast promises of its podcasts, without menus, dialogs, downloads *)
(* or files: a list of subscriptions that only grows and outlives the      *)
(* program, and a shelf of podcasts that every refresh replaces.  Session  *)
(* is shown to implement this specification.                               *)
(*                                                                         *)
(* The promise is a weak one.  A refresh brings some of the subscriptions, *)
(* in their order, unless the reading of the list before it failed: then   *)
(* anything may have been taken for its URLs.  And once an episode list    *)
(* has been opened nothing changes any more until the program is started   *)
(* again.                                                                  *)
(***************************************************************************)
EXTENDS Naturals, Sequences

VARIABLES subscriptions, \* the lines of the list
          shelf,         \* the podcasts on the screen
          misread,       \* has the last reading of the list failed?
          frozen         \* has a list of episodes been opened?

vars == <<subscriptions, shelf, misread, frozen>>

Init == shelf = <<>> /\ misread = FALSE /\ frozen = FALSE

\* podcasts has one element for some of the lines of list, in their order.
IsPartOf(podcasts, list) ==
    \E f \in [DOMAIN podcasts -> DOMAIN list] :
        /\ \A i \in DOMAIN podcasts : podcasts[i].url = list[f[i]]
        /\ \A i, j \in DOMAIN podcasts : i < j => f[i] < f[j]

Grows == /\ Len(subscriptions') = Len(subscriptions) + 1
         /\ subscriptions = SubSeq(subscriptions', 1, Len(subscriptions))

Subscribe == /\ ~frozen
             /\ Grows
             /\ UNCHANGED <<shelf, misread, frozen>>

Read == /\ ~frozen
        /\ misread' \in BOOLEAN
        /\ UNCHANGED <<subscriptions, shelf, frozen>>

Refresh == /\ ~frozen
           /\ IsPartOf(shelf', subscriptions) \/ misread
           /\ UNCHANGED <<subscriptions, misread, frozen>>

OpenEpisodes == /\ shelf # <<>>
                /\ frozen' = TRUE
                /\ UNCHANGED <<subscriptions, shelf, misread>>

\* The program may die while a line is being added.
Restart == /\ shelf' = <<>>
           /\ frozen' = FALSE
           /\ UNCHANGED misread
           /\ UNCHANGED subscriptions \/ (~frozen /\ Grows)

Next == Subscribe \/ Read \/ Refresh \/ OpenEpisodes \/ Restart

Spec == Init /\ [][Next]_vars
=============================================================================
