------------------------------ MODULE RowHeading -------------------------------
(***************************************************************************)
(* The heading that Indexer._make_corpus puts before the text of a         *)
(* documentation chunk (_find_nearest_heading, src/src/indexer.py): the    *)
(* chunk's own first line or, looking back, the nearest line that opens    *)
(* with a '#'.  A chunk may start in the middle of a line, and the line    *)
(* is then seen as its two parts.                                          *)
(*                                                                         *)
(* A heading is given by where its '#' is and where its line ends; the '#' *)
(* and the blanks that are stripped from its two ends are left on.         *)
(***************************************************************************)
EXTENDS TextChunker

Heading(first, last) == [first |-> first, last |-> last]
NoHeading == Heading(0, 0)

\* content[lo:].split('\n')[0] ends here.
LineEnd(lo) ==
  IF Lines(content, lo, content_length) = {} THEN content_length
  ELSE Min(Lines(content, lo, content_length))

\* Where content[lo:hi], stripped, starts with a '#'.
Opening(lo, hi) ==
  {p \in lo .. hi - 1 : /\ CharAt(content, p) = "hash"
                        /\ \A q \in lo .. p - 1 : CharAt(content, q) = "blank"}

\* Where the lines of content[:char_idx] start.
LineStarts(char_idx) == {0} \cup {p + 1 : p \in Lines(content, 0, char_idx)}

LineHeading(lo, hi) == Heading(Min(Opening(lo, hi)), hi)

\* Mutant: the lines are not reversed.
FirstHeading(char_idx) ==
  LET own  == LineEnd(char_idx)
      End(lo) == IF LineEnd(lo) < char_idx THEN LineEnd(lo) ELSE char_idx
      marked == {lo \in LineStarts(char_idx) : Opening(lo, End(lo)) # {}}
  IN  IF Opening(char_idx, own) # {} THEN LineHeading(char_idx, own)
      ELSE IF marked # {} THEN LineHeading(Min(marked), End(Min(marked)))
      ELSE NoHeading

\* The chunk's own first line; otherwise the last line before it.
_find_nearest_heading(char_idx) ==
  LET own  == LineEnd(char_idx)
      End(lo) == IF LineEnd(lo) < char_idx THEN LineEnd(lo) ELSE char_idx
      marked == {lo \in LineStarts(char_idx) : Opening(lo, End(lo)) # {}}
  IN  IF Opening(char_idx, own) # {} THEN LineHeading(char_idx, own)
      ELSE IF marked # {} THEN LineHeading(Max(marked), End(Max(marked)))
      ELSE NoHeading

-----------------------------------------------------------------------------
\* The lines of the whole text that open with a '#'.
HeadingLines ==
  {lo \in LineStarts(content_length) : Opening(lo, LineEnd(lo)) # {}}

\* Those that start at or before a place in the text.
HeadingsUpTo(start) == {lo \in HeadingLines : lo <= start}

NearestFor(start) ==
  LET nearest == Max(HeadingsUpTo(start))
      given   == _find_nearest_heading(start)
  IN  \/ HeadingsUpTo(start) = {} /\ given = NoHeading
      \/ /\ HeadingsUpTo(start) # {}
         /\ given.first \in nearest .. LineEnd(nearest)
         /\ \/ given = LineHeading(nearest, LineEnd(nearest))
            \/ start \in nearest + 1 .. LineEnd(nearest)
      \/ /\ given.first >= start
         /\ \A lo \in HeadingLines : given.first \notin lo .. LineEnd(lo)

\* A chunk is given the nearest heading line that starts at or before it, and
\* all of it unless the chunk starts inside that line; it goes without only if
\* there is none.  The exception is a chunk that starts, after stepping back
\* into the middle of a line, at a '#' which opens no line of the text: that
\* is taken for a heading (indexer.py:181-195, chunker.py:86-90).
HeadingIsNearest == \A i \in 1 .. Len(chunks) : NearestFor(chunks[i].first)
=============================================================================
