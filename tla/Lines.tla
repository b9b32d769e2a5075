-------------------------------- MODULE Lines --------------------------------
(***************************************************************************)
(* Utils::getLinesFromFile character by character (utils.cpp): the size    *)
(* that lseek tells, the buffer, the read, and the loop that cuts the      *)
(* buffer into lines.  No call is checked after the file has been opened.  *)
(* FeedFile takes from this module that reading yields the lines and drops *)
(* what follows the last newline.                                          *)
(*                                                                         *)
(* Sequences are counted from 1, the indices of the code from 0.           *)
(***************************************************************************)
EXTENDS Naturals, Sequences

CONSTANTS Characters,  \* what a file holds, the newline included
          NL,          \* '\n'
          Files        \* contents of the file: sequences of characters

ASSUME LinesAssumption == NL \in Characters /\ Files \subseteq Seq(Characters)

VARIABLES linesPc,     \* "open", "split", "done" or "crashed"
          file,        \* what the file holds
          buffer,      \* the first fs characters of the memory at `buffer`
          index, past_index,
          lines,       \* the strings made
          readAll      \* history: did the read bring the whole file?

linesVars == <<linesPc, file, buffer, index, past_index, lines, readAll>>

fs == Len(buffer)

-----------------------------------------------------------------------------

\* Without a descriptor, and for an empty file, the list is empty.
NothingToRead ==
    /\ linesPc = "open"
    /\ linesPc' = "done"
    /\ readAll' = (file = <<>>)
    /\ UNCHANGED <<file, buffer, index, past_index, lines>>

\* lseek fails: the error is a size that malloc cannot give, and the loop reads
\* from a null pointer.
SeekFails ==
    /\ linesPc = "open"
    /\ linesPc' = "crashed"
    /\ UNCHANGED <<file, buffer, index, past_index, lines, readAll>>

\* sceIoRead fills a first part of the buffer; the rest is what malloc found.
Read ==
    /\ linesPc = "open" /\ file # <<>>
    /\ \E n \in 0 .. Len(file) :
          /\ buffer' \in {b \in [1 .. Len(file) -> Characters] :
                              \A k \in 1 .. n : b[k] = file[k]}
          /\ readAll' = (n = Len(file))
    /\ linesPc' = "split"
    /\ UNCHANGED <<file, index, past_index, lines>>

\* Mutant of NextLine: the next line begins with the newline.
NextLineOnNewline == index

NextLine == index + 1

\* std::string(&buffer[past_index], index - past_index)
Line == SubSeq(buffer, past_index + 1, index)

Newline ==
    /\ linesPc = "split" /\ index < fs
    /\ buffer[index + 1] = NL
    /\ lines' = Append(lines, Line)
    /\ past_index' = NextLine
    /\ index' = index + 1
    /\ UNCHANGED <<linesPc, file, buffer, readAll>>

OtherCharacter ==
    /\ linesPc = "split" /\ index < fs
    /\ buffer[index + 1] # NL
    /\ index' = index + 1
    /\ UNCHANGED <<linesPc, file, buffer, past_index, lines, readAll>>

Return ==
    /\ linesPc = "split" /\ index = fs
    /\ linesPc' = "done"
    /\ UNCHANGED <<file, buffer, index, past_index, lines, readAll>>

LinesInit ==
    /\ linesPc = "open"
    /\ file \in Files
    /\ buffer = <<>>
    /\ index = 0 /\ past_index = 0
    /\ lines = <<>>
    /\ readAll = FALSE

LinesTerminated == linesPc \in {"done", "crashed"} /\ UNCHANGED linesVars

LinesNext ==
    \/ NothingToRead \/ SeekFails \/ Read
    \/ Newline \/ OtherCharacter
    \/ Return
    \/ LinesTerminated

LinesSpec == LinesInit /\ [][LinesNext]_linesVars

-----------------------------------------------------------------------------
(* Properties. *)

\* The lines of a text, by definition: ends says which newline ends each line,
\* in order and leaving out none, and a line is what lies between the newlines
\* before and after it.  What follows the last newline is the rest.
Newlines(s) == {p \in DOMAIN s : s[p] = NL}
BeforeLine(ends, k) == IF k = 1 THEN 0 ELSE ends[k - 1]
IsSplit(ends, ls, s) ==
    /\ ends \in [DOMAIN ls -> Newlines(s)]
    /\ \A j, k \in DOMAIN ls : j < k => ends[j] < ends[k]
    /\ {ends[k] : k \in DOMAIN ls} = Newlines(s)
    /\ \A k \in DOMAIN ls : ls[k] = SubSeq(s, BeforeLine(ends, k) + 1, ends[k] - 1)
AreLinesOf(ls, s) == \E ends \in [DOMAIN ls -> Newlines(s)] : IsSplit(ends, ls, s)

LastNewline(s) == CHOOSE p \in Newlines(s) \cup {0} : \A q \in Newlines(s) : q <= p
Rest(s) == SubSeq(s, LastNewline(s) + 1, Len(s))

\* What appending a text and a newline to a file does to its lines: the rest
\* behind the last newline and the text become one line after the others.
AppendedLine(whole) ==
    \A n \in 0 .. Len(whole) - 1 :
        LET old   == SubSeq(whole, 1, n)
            added == SubSeq(whole, n + 1, Len(whole) - 1)
        IN  whole[Len(whole)] = NL /\ Newlines(added) = {}
                => /\ lines # <<>>
                   /\ AreLinesOf(SubSeq(lines, 1, Len(lines) - 1), old)
                   /\ lines[Len(lines)] = Rest(old) \o added

\* The two unsigned indices cut exactly the lines out of the buffer, whatever
\* the read has left in it: they do not cross, so that no length wraps round,
\* and no line holds a newline or reaches beyond the buffer.  If the read
\* brought everything these are the lines of the file: a line its writer did not
\* end is not among them, and appending continues it, which is what FeedFile
\* assumes of files in getLinesFromFile and WholeLine.
LinesOfBuffer ==
    /\ past_index <= index /\ index <= fs
    /\ linesPc = "done" => AreLinesOf(lines, buffer)
    /\ linesPc = "done" /\ readAll => buffer = file /\ AppendedLine(file)
=============================================================================
