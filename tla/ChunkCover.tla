------------------------------ MODULE ChunkCover ------------------------------
(***************************************************************************)
(* What TextChunker.chunk (src/src/chunker.py) promises whatever the text  *)
(* is: a run of windows over a text of content_length characters, each     *)
(* ended somewhere inside its size limit, the next one stepping back over  *)
(* the end of the last.  The characters themselves are abstracted away:    *)
(* the end of a window is any position the window allows.  TextChunker     *)
(* implements this module, and CodeChunker falls back on it.               *)
(*                                                                         *)
(* Offsets are Python's: 0-based, and a chunk is the half-open interval    *)
(* first .. last-1.                                                        *)
(***************************************************************************)
EXTENDS Integers, Sequences

CONSTANTS
  Lengths,        \* lengths of the texts a run may start from
  MaxChunkSize,   \* self.max_chunk_size
  ChunkOverlap    \* config.CHUNK_OVERLAP

VARIABLES
  content_length, \* len(content), fixed when the call starts
  current_idx,    \* where the next window starts
  chunks,         \* the chunks appended so far
  pc              \* "loop" while the call runs, "done" once it has returned

vars == <<content_length, current_idx, chunks, pc>>

-----------------------------------------------------------------------------
Chunk(first, last) == [first |-> first, last |-> last]
ChunkType == [first : Nat, last : Nat]

\* min(start + max_chunk_size, length)
WindowEnd(start, length) ==
  IF start + MaxChunkSize < length THEN start + MaxChunkSize ELSE length

\* Where the window after start .. end-1 begins: one overlap before its end,
\* unless that would not be progress.
NextStart(start, end) ==
  IF end - ChunkOverlap > start THEN end - ChunkOverlap ELSE end

Init ==
  /\ content_length \in Lengths
  /\ current_idx = 0
  /\ chunks = << >>
  /\ pc = "loop"

\* The last window: everything that remains becomes a chunk.
TakeRest ==
  /\ pc = "loop"
  /\ current_idx < content_length
  /\ WindowEnd(current_idx, content_length) = content_length
  /\ chunks' = Append(chunks, Chunk(current_idx, content_length))
  /\ pc' = "done"
  /\ UNCHANGED <<content_length, current_idx>>

\* A full window, ended at `end`.
CutAt(end) ==
  /\ pc = "loop"
  /\ WindowEnd(current_idx, content_length) < content_length
  /\ chunks' = Append(chunks, Chunk(current_idx, end))
  /\ current_idx' = NextStart(current_idx, end)
  /\ UNCHANGED <<content_length, pc>>

Cut ==
  \E end \in current_idx + 1 .. WindowEnd(current_idx, content_length) : CutAt(end)

\* The loop condition fails.
Exhaust ==
  /\ pc = "loop"
  /\ current_idx >= content_length
  /\ pc' = "done"
  /\ UNCHANGED <<content_length, current_idx, chunks>>

Next == TakeRest \/ Cut \/ Exhaust

Spec == Init /\ [][Next]_vars

-----------------------------------------------------------------------------
LastChunk == chunks[Len(chunks)]

TypeOK ==
  /\ content_length \in Lengths
  /\ current_idx \in 0 .. content_length
  /\ chunks \in Seq(ChunkType)
  /\ pc \in {"loop", "done"}

\* No chunk is empty and none is longer than max_chunk_size: the limit the
\* embedding model and the evaluation are configured for (chunker.py:50).
SizesBounded ==
  \A i \in 1 .. Len(chunks) :
    /\ chunks[i].first < chunks[i].last
    /\ chunks[i].last - chunks[i].first <= MaxChunkSize

\* Two neighbours share exactly ChunkOverlap characters or touch, and each
\* starts after the one before it: chunk starts identify chunks, which is
\* what Indexer.search keys its fusion on (chunker.py:89-90).
StepsBackByOverlap ==
  \A i \in 1 .. Len(chunks) - 1 :
    /\ chunks[i+1].first > chunks[i].first
    /\ chunks[i].last - chunks[i+1].first \in {0, ChunkOverlap}

\* Position p of the text lies in some chunk.
CoveredAt(p) ==
  \E i \in 1 .. Len(chunks) : chunks[i].first <= p /\ p < chunks[i].last

\* When the call returns every character of the text is in some chunk: no
\* cut, step back or last window ever loses one (chunker.py:49-92).
EverythingCovered ==
  pc = "done" => \A p \in 0 .. content_length - 1 : CoveredAt(p)

\* Every step of the loop either moves the window strictly forward or
\* returns (chunker.py:90).
Progress == [][current_idx' > current_idx \/ pc' = "done"]_vars

-----------------------------------------------------------------------------
\* The inductive invariant behind the safety properties.  CursorFollows ties
\* the cursor to the last chunk; CoveredSoFar is coverage while the loop runs.
CursorFollows ==
  /\ chunks = << >> => current_idx = 0
  /\ (chunks # << >> /\ pc = "loop") =>
        /\ LastChunk.first < current_idx /\ current_idx < content_length
        /\ LastChunk.last - current_idx \in {0, ChunkOverlap}

CoveredSoFar ==
  /\ chunks # << >> => \A p \in 0 .. LastChunk.last - 1 : CoveredAt(p)
  /\ pc = "done" => \/ content_length = 0
                    \/ chunks # << >> /\ LastChunk.last = content_length

IInv ==
  /\ TypeOK
  /\ SizesBounded
  /\ StepsBackByOverlap
  /\ CursorFollows
  /\ CoveredSoFar
=============================================================================
