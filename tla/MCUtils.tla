------------------------------- MODULE MCUtils -------------------------------
(***************************************************************************)
(* The functions of Utils, one call in each behaviour: a conversion, or    *)
(* the cutting of a file into lines.                                       *)
(*                                                                         *)
(* Texts of up to three units are taken from both sides of every limit of  *)
(* the encodings and from both kinds of surrogates; byte strings have up   *)
(* to four bytes, well formed or cut short; files have up to four          *)
(* characters, two of which are not the newline.                           *)
(***************************************************************************)
EXTENDS Utf, Lines

allVars == <<vars, linesVars>>

Strings(chars, n) == UNION {[1 .. k -> chars] : k \in 1 .. n}

MCTexts == Strings({65, 127, 128, 2047, 2048, 65535, 55357, 56832}, 3)
MCTitles == Strings({70, 195, 169, 226, 240}, 4)
MCFiles == {<<>>} \cup Strings(Characters, 4)

NoConversion == pc = "done" /\ text = <<>> /\ bytes = <<>> /\ units = <<>> /\ i = 0
NoFile ==
    /\ linesPc = "done" /\ file = <<>> /\ buffer = <<>>
    /\ index = 0 /\ past_index = 0 /\ lines = <<>> /\ readAll = TRUE

UtilsInit == (Init /\ NoFile) \/ (NoConversion /\ LinesInit)

UtilsNext == (Next /\ UNCHANGED linesVars) \/ (LinesNext /\ UNCHANGED vars)

UtilsSpec == UtilsInit /\ [][UtilsNext]_allVars
=============================================================================
