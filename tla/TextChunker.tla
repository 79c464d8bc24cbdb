----------------------------- MODULE TextChunker ------------------------------
(***************************************************************************)
(* TextChunker.chunk (src/src/chunker.py): the loop that splits a Markdown *)
(* or plain text, and every code node too long for one chunk, at the       *)
(* rightmost separator of each window.                                     *)
(*                                                                         *)
(* A character is kept only as far as the separators tell characters       *)
(* apart: a newline, a '#', a blank, anything else.  Positions are         *)
(* Python's, 0-based.                                                      *)
(***************************************************************************)
EXTENDS Integers, Sequences, FiniteSetsExt

CONSTANTS
  Texts,          \* the texts a call may be given, sequences over Char
  MaxChunkSize,   \* self.max_chunk_size
  ChunkOverlap    \* config.CHUNK_OVERLAP

Char == {"newline", "hash", "blank", "other"}

ASSUME TextsAssumption ==
  /\ Texts \subseteq Seq(Char)
  /\ MaxChunkSize \in Nat
  /\ ChunkOverlap \in Nat

VARIABLES
  content,        \* the text being split
  current_idx,    \* where the next window starts
  chunks,         \* the chunks appended so far
  pc              \* "loop" while the call runs, "done" once it has returned

vars == <<content, current_idx, chunks, pc>>

-----------------------------------------------------------------------------
Chunk(first, last) == [first |-> first, last |-> last]

content_length == Len(content)

\* text[p]
CharAt(text, p) == text[p + 1]

\* max_end: the window is current_idx .. max_end-1.
max_end ==
  IF current_idx + MaxChunkSize < content_length
    THEN current_idx + MaxChunkSize ELSE content_length

\* The positions at which rfind could report each separator in text[lo:hi].
Headings(text, lo, hi) ==
  {p \in lo .. hi - 2 : CharAt(text, p) = "newline" /\ CharAt(text, p + 1) = "hash"}

Paragraphs(text, lo, hi) ==
  {p \in lo .. hi - 2 : CharAt(text, p) = "newline" /\ CharAt(text, p + 1) = "newline"}

Lines(text, lo, hi) == {p \in lo .. hi - 1 : CharAt(text, p) = "newline"}

Words(text, lo, hi) == {p \in lo .. hi - 1 : CharAt(text, p) = "blank"}

\* Mutant: a paragraph break is preferred wherever the heading is.
SemanticParagraphsFirst(text, lo, hi) ==
  IF Paragraphs(text, lo, hi) # {} THEN Paragraphs(text, lo, hi) ELSE Headings(text, lo, hi)

\* The larger of the two rfinds is the rightmost element of the union.
Semantic(text, lo, hi) == Headings(text, lo, hi) \cup Paragraphs(text, lo, hi)

\* The separators the loop breaks at: those of the first kind that occurs.
Breaks(text, lo, hi) ==
  IF Semantic(text, lo, hi) # {} THEN Semantic(text, lo, hi)
  ELSE IF Lines(text, lo, hi) # {} THEN Lines(text, lo, hi)
  ELSE Words(text, lo, hi)

\* absolute_end: just after the first character of the rightmost separator,
\* or the whole window when it has none.
AbsoluteEnd(text, lo, hi) ==
  IF Breaks(text, lo, hi) # {} THEN Max(Breaks(text, lo, hi)) + 1 ELSE hi

\* Mutants: the step back is unconditional; it may end where it began; the
\* next window starts behind a character it takes for the separator.
NextStartAlwaysBack(start, end) == end - ChunkOverlap

NextStartInPlace(start, end) ==
  IF end - ChunkOverlap >= start THEN end - ChunkOverlap ELSE end

NextStartSkips(start, end) ==
  IF end - ChunkOverlap > start THEN end - ChunkOverlap ELSE end + 1

\* One overlap before the end of the chunk, unless that is no progress.
NextStart(start, end) ==
  IF end - ChunkOverlap > start THEN end - ChunkOverlap ELSE end

-----------------------------------------------------------------------------
Init ==
  /\ content \in Texts
  /\ current_idx = 0
  /\ chunks = << >>
  /\ pc = "loop"

\* Mutant: the `break` is missing.
LastWindowGoesOn ==
  /\ pc = "loop"
  /\ current_idx < content_length
  /\ max_end = content_length
  /\ chunks' = Append(chunks, Chunk(current_idx, max_end))
  /\ current_idx' = NextStart(current_idx, max_end)
  /\ UNCHANGED <<content, pc>>

\* `if max_end == content_length`: take everything remaining and break.
LastWindow ==
  /\ pc = "loop"
  /\ current_idx < content_length
  /\ max_end = content_length
  /\ chunks' = Append(chunks, Chunk(current_idx, max_end))
  /\ pc' = "done"
  /\ UNCHANGED <<content, current_idx>>

\* A window with text behind it: cut it at its best separator, step back.
FullWindow ==
  LET absolute_end == AbsoluteEnd(content, current_idx, max_end)
  IN  /\ pc = "loop"
      /\ current_idx < content_length
      /\ max_end # content_length
      /\ chunks' = Append(chunks, Chunk(current_idx, absolute_end))
      /\ current_idx' = NextStart(current_idx, absolute_end)
      /\ UNCHANGED <<content, pc>>

\* `while current_idx < content_length` fails and the list is returned.
LoopEnds ==
  /\ pc = "loop"
  /\ current_idx >= content_length
  /\ pc' = "done"
  /\ UNCHANGED <<content, current_idx, chunks>>

Next == LastWindow \/ FullWindow \/ LoopEnds

Spec == Init /\ [][Next]_vars

-----------------------------------------------------------------------------
TypeOK ==
  /\ content \in Texts
  /\ current_idx \in 0 .. content_length
  /\ chunks \in Seq([first : Nat, last : Nat])
  /\ pc \in {"loop", "done"}

\* A chunk that is followed by another ends after a newline or a blank; it
\* ends inside a word only if it fills its window and the window has neither;
\* and it never leaves a heading that its window holds behind the cut, where the
\* chunk could have ended ("any heading level, preserves section boundaries",
\* chunker.py:34, 65-77).
CutsAtSeparator ==
  \A i \in 1 .. Len(chunks) - 1 :
    LET c == chunks[i]
    IN  /\ \/ CharAt(content, c.last - 1) \in {"newline", "blank"}
           \/ /\ c.last - c.first = MaxChunkSize
              /\ \A p \in c.first .. c.last - 1 :
                   CharAt(content, p) \notin {"newline", "blank"}
        /\ Headings(content, c.last, c.first + MaxChunkSize) = {}

\* A window that starts before the end of the last chunk never ends before
\* it, and ends there at most once: stepping back can produce a chunk inside
\* the one before it, but every second chunk reaches new text, however short
\* the pieces between separators are (chunker.py:89-90).
EndsAdvance ==
  /\ \A i \in 1 .. Len(chunks) - 1 : chunks[i].last <= chunks[i+1].last
  /\ \A i \in 1 .. Len(chunks) - 2 : chunks[i].last < chunks[i+2].last

\* Every iteration moves the window strictly forward, or is the last: the
\* loop ends whatever the text (chunker.py:39, 90).
Progress == [][current_idx' > current_idx \/ pc' = "done"]_vars

\* The inductive invariant behind the two: a chunk that was cut was cut as its
\* own window says, and each window starts where the chunk before leaves it.
WasCut(c) ==
  /\ c.first + MaxChunkSize < content_length
  /\ c.last = AbsoluteEnd(content, c.first, c.first + MaxChunkSize)

CutsInv ==
  /\ \A i \in 1 .. Len(chunks) :
       \/ WasCut(chunks[i])
       \/ /\ i = Len(chunks) /\ pc = "done"
          /\ chunks[i].first < content_length /\ chunks[i].last = content_length
  /\ \A i \in 1 .. Len(chunks) - 1 :
       chunks[i+1].first = NextStart(chunks[i].first, chunks[i].last)
  /\ pc = "loop" /\ chunks # << >> =>
       current_idx = NextStart(chunks[Len(chunks)].first, chunks[Len(chunks)].last)

\* Whatever the text, this is a run of the chunk cover.
Cover == INSTANCE ChunkCover WITH Lengths <- Nat

CoverSpec == Cover!Spec

\* No chunk is empty or too long, and the chunks of a call that has returned
\* leave out no character of the text (chunker.py:49-92).
ChunksCoverText == Cover!SizesBounded /\ Cover!EverythingCovered
=============================================================================
