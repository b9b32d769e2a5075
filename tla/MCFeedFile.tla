----------------------------- MODULE MCFeedFile ------------------------------
(***************************************************************************)
(* FeedFile with URLs of which one is spelt by two others, and a file of   *)
(* at most three lines: an URL can be repeated, glued to another one and   *)
(* to the first part of itself, before and after good lines.  A misread    *)
(* buffer holds none, one or two lines, good and damaged ones.             *)
(***************************************************************************)
EXTENDS FeedFile

CONSTANTS a, b

MCLetters == {a, b}
MCUrls == {<<a>>, <<b>>, <<a, b>>}
MCMisreads == {<<l>> : l \in MCUrls \cup {<<>>}}
                \cup {<<l, m>> : l \in {<<>>, <<a, b>>}, m \in {<<a>>, <<a, b>>}}
=============================================================================
