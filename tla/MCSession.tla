----------------------------- MODULE MCSession ------------------------------
(***************************************************************************)
(* Session with two URLs of which one is spelt by the other one twice, a   *)
(* list of up to two lines, nothing behind the last newline when an URL is *)
(* added, and feeds of none or one episode.  A misread list is empty or    *)
(* has two lines, the first one blank.                                     *)
(***************************************************************************)
EXTENDS Session

CONSTANT a

MCLetters == {a}
MCUrls == {<<a>>, <<a, a>>}
MCMisreads == {<< <<>>, <<a>> >>}

MCShelves == UNION {[1 .. n -> EpisodeCounts] : n \in 0 .. MaxLines}
=============================================================================
