------------------------------ MODULE QueryText ------------------------------
(***************************************************************************)
(* QueryList.jsx, stripQueryTextWhitespace: the text of a query in the     *)
(* list, without blank lines and common indentation, and cut after the     *)
(* maxLines-th line.  A line is its indentation and whether it is blank;   *)
(* the trailing white space that the code strips is left out.              *)
(***************************************************************************)
EXTENDS Integers, Sequences, SequencesExt

CONSTANTS
    maxLines,     \* 6 in the code
    MaxIndent,    \* bound: spaces before the text of a line
    MaxText       \* bound: lines of a query

VARIABLE lines    \* of the query, as the user types it

Line == [indent : 0..MaxIndent, blank : BOOLEAN]

(* Mutant: blank lines count as well. *)
stepBlank(min, line) == IF line.indent < min \/ min = -1 THEN line.indent ELSE min

(* One line after the other: the least so far, -1 before the first, and 0  *)
(* ends the search.                                                        *)
step(min, line) ==
    IF min = 0 \/ line.blank THEN min
    ELSE IF line.indent < min \/ min = -1 THEN line.indent ELSE min

minLeadingWhitespace == FoldLeft(step, -1, lines)

(* substring: what is left of the indentation, and whether text is cut off *)
trimmed(i) ==
    [line |-> i, indent |-> lines[i].indent - minLeadingWhitespace, cut |-> lines[i].indent < minLeadingWhitespace]

text == {i \in DOMAIN lines : ~lines[i].blank}

(* The lines with text from the maxLines-th on: the first of them is the   *)
(* last one shown, and "..." follows it.                                   *)
lastShown == {i \in text : i >= maxLines}
shownLines == {i \in text : \A j \in lastShown : i <= j}
formattedQueryText == [i \in 1..Len(SetToSortSeq(shownLines, <)) |-> trimmed(SetToSortSeq(shownLines, <)[i])]
ellipsis == lastShown # {}

Init == lines = <<>>

Type(line) ==
    /\ Len(lines) < MaxText
    /\ lines' = Append(lines, line)

Next == \E line \in Line : Type(line)

Spec == Init /\ [][Next]_lines

-----------------------------------------------------------------------------
(* No text is lost unless "..." says so, at most maxLines lines are shown, *)
(* and never is a line cut off at its beginning.                           *)
NothingLostSilently ==
    /\ ~ellipsis => Len(formattedQueryText) = Len(SelectSeq(lines, LAMBDA l : ~l.blank))
    /\ Len(formattedQueryText) <= maxLines
    /\ \A i \in DOMAIN formattedQueryText : ~formattedQueryText[i].cut

(* The lines keep their indentation relative to each other, and when all   *)
(* are shown, one of them starts at the margin, although the search for    *)
(* the common indentation stops early.                                     *)
IndentationKept ==
    /\ \A i, j \in DOMAIN formattedQueryText :
            formattedQueryText[i].indent - formattedQueryText[j].indent =
                lines[formattedQueryText[i].line].indent - lines[formattedQueryText[j].line].indent
    /\ (~ellipsis /\ formattedQueryText # <<>>) => \E i \in DOMAIN formattedQueryText : formattedQueryText[i].indent = 0
=============================================================================
