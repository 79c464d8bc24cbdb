------------------------------- MODULE LineStarts -----------------------------
(***************************************************************************)
(* How CodeChunker turns the parser's positions into offsets               *)
(* (src/src/chunker.py): _line_start_helper adds up the lines that         *)
(* str.splitlines finds, and an offset is the start of a line plus the     *)
(* parser's column.                                                        *)
(*                                                                         *)
(* A character is a newline; a "feed", standing for the other characters   *)
(* str.splitlines ends a line at (form feed, vertical tab, ...), which are *)
(* blanks to the parser; a "wide" one, of two bytes in UTF-8; or "plain".  *)
(***************************************************************************)
EXTENDS Integers, Sequences, FiniteSets

CONSTANT Texts    \* the contents a file may have, sequences over Char

Char == {"newline", "feed", "wide", "plain"}

ASSUME TextsAssumption == Texts \subseteq Seq(Char)

VARIABLES
  content,        \* the file's text
  starts,         \* line_starts, as far as the helper has built it
  pc              \* "loop" in the helper, "done" once it has returned

vars == <<content, starts, pc>>

-----------------------------------------------------------------------------
\* content[p], and the positions lo .. hi-1 that hold a character of kinds.
CharAt(p) == content[p + 1]
At(kinds, lo, hi) == {p \in lo .. hi - 1 : CharAt(p) \in kinds}

Last == starts[Len(starts)]

\* Mutant: lines are split at characters that the parser takes for blanks.
LineEndAtFeed(lo, hi) ==
  IF At({"feed"}, lo, Len(content)) = {} THEN hi = Len(content)
  ELSE /\ hi \in lo + 1 .. Len(content)
       /\ CharAt(hi - 1) = "feed"
       /\ At({"feed"}, lo, hi - 1) = {}

\* str.splitlines(keepends=True): a line runs up to the first boundary from
\* where it starts, or to the end of the text.
LineEnd(lo, hi) ==
  IF At({"newline", "feed"}, lo, Len(content)) = {} THEN hi = Len(content)
  ELSE /\ hi \in lo + 1 .. Len(content)
       /\ CharAt(hi - 1) \in {"newline", "feed"}
       /\ At({"newline", "feed"}, lo, hi - 1) = {}

\* Mutant: offsets are counted from 1.
InitFromOne ==
  /\ content \in Texts
  /\ starts = <<1>>
  /\ pc = "loop"

Init ==
  /\ content \in Texts
  /\ starts = <<0>>
  /\ pc = "loop"

\* Mutant: an empty line is measured but gets no entry of its own.
AddLineUnlessEmpty ==
  /\ pc = "loop"
  /\ Last < Len(content)
  /\ \E end \in Last + 1 .. Len(content) :
       /\ LineEnd(Last, end)
       /\ starts' = IF end = Last + 1 /\ CharAt(Last) \in {"newline", "feed"}
                      THEN [starts EXCEPT ![Len(starts)] = end]
                      ELSE Append(starts, end)
  /\ UNCHANGED <<content, pc>>

\* `for line in content.splitlines(keepends=True)`
AddLine ==
  /\ pc = "loop"
  /\ Last < Len(content)
  /\ \E end \in Last + 1 .. Len(content) :
       /\ LineEnd(Last, end)
       /\ starts' = Append(starts, Last + (end - Last))
  /\ UNCHANGED <<content, pc>>

\* The lines are exhausted and the list is returned.
Return ==
  /\ pc = "loop"
  /\ Last = Len(content)
  /\ pc' = "done"
  /\ UNCHANGED <<content, starts>>

Next == AddLine \/ Return

Spec == Init /\ [][Next]_vars

-----------------------------------------------------------------------------
\* The parser's position of offset p: the number of its line, which only a
\* newline ends, and the bytes of the line before p.
lineno(p) == Cardinality(At({"newline"}, 0, p)) + 1

LineStart(p) ==
  CHOOSE lo \in 0 .. p :
    /\ At({"newline"}, lo, p) = {}
    /\ lo > 0 => CharAt(lo - 1) = "newline"

WideBefore(p) == Cardinality(At({"wide"}, LineStart(p), p))

col_offset(p) == p - LineStart(p) + WideBefore(p)

\* Mutant: the list is taken for 1-based.
absoluteOneOff(p) == starts[lineno(p) + 1] + col_offset(p)

\* line_starts[lineno - 1] + col_offset
absolute(p) == starts[lineno(p)] + col_offset(p)

\* The offsets a statement may start and end at: never between a wide
\* character, which only names, strings and comments hold, and its neighbour.
Starts == {p \in At({"plain", "wide"}, 0, Len(content)) : p = 0 \/ CharAt(p - 1) # "wide"}
Ends   == {p + 1 : p \in {q \in At({"plain", "wide"}, 0, Len(content)) :
                            q + 1 = Len(content) \/ CharAt(q + 1) # "wide"}}
Positions == Starts \cup Ends

-----------------------------------------------------------------------------
TypeOK ==
  /\ content \in Texts
  /\ starts \in Seq(0 .. Len(content))
  /\ pc \in {"loop", "done"}

\* The lookup of a line the parser reports never misses the list, although
\* the list is built from other line boundaries than the parser's
\* (chunker.py:149-150).
LookupsInRange ==
  pc = "done" => \A p \in Positions : lineno(p) \in 1 .. Len(starts)

\* As long as no earlier line holds another line boundary than a newline, the
\* offset computed is too large by just the wide characters of the line
\* before the statement (chunker.py:107-110, 148-150).
OffsetsExact ==
  pc = "done" =>
    \A p \in Positions :
      At({"feed"}, 0, LineStart(p)) = {} => absolute(p) = p + WideBefore(p)

\* The other line boundaries only ever take an offset back: nothing else
\* makes a statement start behind where it does.
OffsetsNeverAhead ==
  pc = "done" => \A p \in Positions : absolute(p) <= p + WideBefore(p)

\* The inductive invariant behind these.
Boundaries == {"newline", "feed"}

\* The table increases;
Increasing == \A i, j \in 1 .. Len(starts) : i < j => starts[i] < starts[j]

\* the start of a line that has text behind it is counted right;
Counted ==
  \A i \in 1 .. Len(starts) :
    starts[i] < Len(content) => Cardinality(At(Boundaries, 0, starts[i])) = i - 1

\* and behind every boundary passed starts a line.
Complete ==
  \A q \in At(Boundaries, 0, Last) : \E i \in 1 .. Len(starts) : starts[i] = q + 1

IInv ==
  /\ TypeOK
  /\ starts # << >> /\ starts[1] = 0
  /\ Increasing /\ Counted /\ Complete
  /\ pc = "done" => Last = Len(content)

\* What is computed is the absolute character ("line number is not the
\* absolute character, and thats what we need", chunker.py:103).
AbsoluteCharacter ==
  pc = "done" => \A p \in Positions : absolute(p) = p
=============================================================================
