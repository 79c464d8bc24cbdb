--------------------------- MODULE TextChunkerProofs --------------------------
(***************************************************************************)
(* TextChunker implements ChunkCover for every set of texts, every size    *)
(* but 0 and every overlap: what has to be shown of the characters for     *)
(* that is only that the cut AbsoluteEnd picks lies inside its window.     *)
(* The cover in turn covers every text, wherever its windows are cut.      *)
(*                                                                         *)
(* Where the cuts are, that the ends of the chunks move on, and which      *)
(* heading each chunk is given (RowHeading) follow from a second           *)
(* invariant, CutsInv: every chunk but the last is the one its own window  *)
(* gives, and every window starts where the chunk before leaves it.        *)
(***************************************************************************)
EXTENDS RowHeading, WellFoundedInduction, TLAPS

\* Max is defined by CHOOSE: on a non-empty set of integers between two
\* bounds there is something to choose.
LEMMA MaxOfBounded ==
  ASSUME NEW S, NEW lo \in Int, NEW hi \in Int, S \subseteq lo .. hi, S # {}
  PROVE  Max(S) \in S /\ \A y \in S : y =< Max(S)
<1> DEFINE R == OpToRel(<, Nat)
           T == {n \in Nat : hi - n \in S}
<1>1. IsWellFoundedOn(R, Nat)
  BY NatLessThanWellFounded
<1>2. T \subseteq Nat /\ T # {}
  <2>1. PICK s \in S : TRUE
    OBVIOUS
  <2>2. s \in Int /\ hi - s \in Nat /\ hi - (hi - s) = s
    BY <2>1
  <2>3. hi - s \in T
    BY <2>1, <2>2
  <2> QED BY <2>3
<1>3. PICK m \in T : \A y \in T : <<y, m>> \notin R
  <2> HIDE DEF T, R
  <2> QED BY <1>1, <1>2, WFMin
<1>4. \A y \in T : ~(y < m)
  BY <1>2, <1>3 DEF OpToRel
<1>5. hi - m \in S /\ \A y \in S : y =< hi - m
  <2>1. \A y \in S : hi - y \in Nat /\ hi - (hi - y) = y
    OBVIOUS
  <2>2. \A y \in S : hi - y \in T
    BY <2>1
  <2>3. hi - m \in S
    BY <1>3
  <2> SUFFICES ASSUME NEW y \in S PROVE y =< hi - m
    BY <2>3
  <2>4. y \in Int /\ m \in Nat
    BY <1>2
  <2>5. ~(hi - y < m)
    BY <1>4, <2>2
  <2> HIDE DEF T, R
  <2> QED BY <2>4, <2>5
<1> QED BY <1>5 DEF Max

\* The cut lies inside a non-empty window, after its first character.
LEMMA AbsoluteEndInWindow ==
  ASSUME NEW text, NEW lo \in Nat, NEW hi \in Nat, lo < hi
  PROVE  AbsoluteEnd(text, lo, hi) \in lo + 1 .. hi
<1> DEFINE B == Breaks(text, lo, hi)
<1>1. B \subseteq lo .. hi - 1
  BY DEF Breaks, Semantic, Headings, Paragraphs, Lines, Words
<1>2. CASE B = {}
  BY <1>2 DEF AbsoluteEnd
<1>3. CASE B # {}
  <2>1. Max(B) \in lo .. hi - 1
    <3>1. lo \in Int /\ hi - 1 \in Int
      OBVIOUS
    <3> HIDE DEF B
    <3>2. Max(B) \in B
      BY <1>1, <1>3, <3>1, MaxOfBounded
    <3> QED BY <1>1, <3>2
  <2>2. AbsoluteEnd(text, lo, hi) = Max(B) + 1
    BY <1>3 DEF AbsoluteEnd
  <2> HIDE DEF B
  <2> QED BY <2>1, <2>2
<1> QED BY <1>2, <1>3

\* What FullWindow's cut and step back amount to.
LEMMA FullWindowFacts ==
  ASSUME TypeOK, MaxChunkSize > 0, pc = "loop",
         current_idx < content_length, max_end # content_length
  PROVE  /\ content_length \in Nat /\ current_idx \in Nat
         /\ max_end = current_idx + MaxChunkSize /\ max_end < content_length
         /\ AbsoluteEnd(content, current_idx, max_end) \in current_idx + 1 .. max_end
         /\ NextStart(current_idx, AbsoluteEnd(content, current_idx, max_end))
              \in current_idx + 1 .. AbsoluteEnd(content, current_idx, max_end)
<1>1. content_length \in Nat /\ current_idx \in Nat
  BY TextsAssumption DEF TypeOK, content_length
<1>2. /\ max_end = current_idx + MaxChunkSize
      /\ max_end < content_length /\ max_end \in Nat
  BY <1>1, TextsAssumption DEF max_end
<1>3. AbsoluteEnd(content, current_idx, max_end) \in current_idx + 1 .. max_end
  BY <1>1, <1>2, TextsAssumption, AbsoluteEndInWindow
<1> QED BY <1>1, <1>2, <1>3, TextsAssumption DEF NextStart

LEMMA InitTypeOK == Init => TypeOK
<1> SUFFICES ASSUME Init PROVE TypeOK
  OBVIOUS
<1>1. content_length \in Nat
  BY TextsAssumption DEF Init, content_length
<1> QED BY <1>1 DEF Init, TypeOK

LEMMA NextTypeOK ==
  ASSUME MaxChunkSize > 0
  PROVE  TypeOK /\ [Next]_vars => TypeOK'
<1> SUFFICES ASSUME TypeOK, [Next]_vars PROVE TypeOK'
  OBVIOUS
<1>1. content_length \in Nat /\ current_idx \in Nat
  BY TextsAssumption DEF TypeOK, content_length
<1>2. content_length' = content_length /\ content' = content
  BY DEF Next, LastWindow, FullWindow, LoopEnds, vars, content_length
<1>3. CASE LastWindow
  <2>1. Chunk(current_idx, max_end) \in [first : Nat, last : Nat]
    BY <1>1, <1>3 DEF LastWindow, Chunk
  <2> QED BY <1>2, <1>3, <2>1 DEF LastWindow, TypeOK
<1>4. CASE FullWindow
  <2> DEFINE end == AbsoluteEnd(content, current_idx, max_end)
  <2>1. /\ end \in Nat
        /\ current_idx' \in 0 .. content_length
    BY <1>1, <1>4, FullWindowFacts, TextsAssumption DEF FullWindow
  <2>2. Chunk(current_idx, end) \in [first : Nat, last : Nat]
    BY <1>1, <2>1 DEF Chunk
  <2> QED BY <1>2, <1>4, <2>1, <2>2 DEF FullWindow, TypeOK
<1>5. CASE LoopEnds
  BY <1>2, <1>5 DEF LoopEnds, TypeOK
<1>6. CASE UNCHANGED vars
  BY <1>2, <1>6 DEF vars, TypeOK
<1> QED BY <1>3, <1>4, <1>5, <1>6 DEF Next

\* Type correctness; the cursor stays inside the text.
THEOREM TypeCorrect ==
  ASSUME MaxChunkSize > 0
  PROVE  Spec => []TypeOK
  BY InitTypeOK, NextTypeOK, PTL DEF Spec

\* No iteration leaves the window where it was: the loop cannot run forever.
THEOREM Advance ==
  ASSUME MaxChunkSize > 0
  PROVE  Spec => Progress
<1>1. TypeOK /\ [Next]_vars => [current_idx' > current_idx \/ pc' = "done"]_vars
  <2> SUFFICES ASSUME TypeOK, Next
               PROVE  current_idx' > current_idx \/ pc' = "done"
    OBVIOUS
  <2>1. CASE FullWindow
    BY <2>1, FullWindowFacts, TextsAssumption DEF FullWindow
  <2> QED BY <2>1 DEF Next, LastWindow, LoopEnds
<1> QED BY <1>1, TypeCorrect, PTL DEF Spec, Progress

\* Every step of the loop is a step of the cover.
LEMMA StepSimulation ==
  ASSUME MaxChunkSize > 0, TypeOK, [Next]_vars
  PROVE  [Cover!Next]_Cover!vars
<1>1. content_length \in Nat /\ current_idx \in Nat
  BY TextsAssumption DEF TypeOK, content_length
<1>2. content_length' = content_length
  BY DEF Next, LastWindow, FullWindow, LoopEnds, vars, content_length
<1>3. max_end = Cover!WindowEnd(current_idx, content_length)
  BY DEF max_end, Cover!WindowEnd
<1>4. CASE LastWindow
  BY <1>2, <1>3, <1>4
     DEF LastWindow, Chunk, Cover!Next, Cover!TakeRest, Cover!Chunk
<1>5. CASE FullWindow
  <2> DEFINE end == AbsoluteEnd(content, current_idx, max_end)
  <2>1. end \in current_idx + 1 .. max_end /\ max_end < content_length
    BY <1>5, FullWindowFacts DEF FullWindow
  <2>2. Cover!CutAt(end)
    BY <1>2, <1>3, <1>5, <2>1
       DEF FullWindow, Chunk, NextStart, Cover!CutAt, Cover!Chunk, Cover!NextStart
  <2> HIDE DEF end
  <2> QED BY <1>3, <2>1, <2>2 DEF Cover!Next, Cover!Cut
<1>6. CASE LoopEnds
  BY <1>2, <1>6 DEF LoopEnds, Cover!Next, Cover!Exhaust
<1>7. CASE UNCHANGED vars
  BY <1>2, <1>7 DEF vars, Cover!vars
<1> QED BY <1>4, <1>5, <1>6, <1>7 DEF Next

\* The chunk loop, characters and separators included, is a chunk cover.
THEOREM ImplementsCover ==
  ASSUME MaxChunkSize > 0
  PROVE  Spec => CoverSpec
<1>1. Init => Cover!Init
  <2> SUFFICES ASSUME Init PROVE Cover!Init
    OBVIOUS
  <2>1. content_length \in Nat
    BY TextsAssumption DEF Init, content_length
  <2> QED BY <2>1 DEF Init, Cover!Init
<1>2. TypeOK /\ [Next]_vars => [Cover!Next]_Cover!vars
  BY StepSimulation
<1> QED BY <1>1, <1>2, TypeCorrect, PTL DEF Spec, CoverSpec, Cover!Spec

-----------------------------------------------------------------------------
\* The cover itself, for texts of every length.  Its invariant Cover!IInv is
\* inductive: SizesBounded and StepsBackByOverlap say nothing of the cursor, so
\* that they would not survive a cut alone; CursorFollows fixes the cursor
\* relative to the last chunk, and CoveredSoFar carries coverage through the
\* loop.

\* A window lies inside the text and is no longer than max_chunk_size.
LEMMA CoverWindow ==
  ASSUME NEW start \in Nat, NEW length \in Nat, start <= length
  PROVE  /\ Cover!WindowEnd(start, length) \in start .. length
         /\ Cover!WindowEnd(start, length) - start <= MaxChunkSize
  BY TextsAssumption DEF Cover!WindowEnd

\* The step back always leaves the cursor after the start of the chunk, at
\* its end or one overlap before it.
LEMMA CoverStep ==
  ASSUME NEW start \in Nat, NEW end \in Nat, start < end
  PROVE  /\ Cover!NextStart(start, end) \in start + 1 .. end
         /\ end - Cover!NextStart(start, end) \in {0, ChunkOverlap}
  BY TextsAssumption DEF Cover!NextStart

\* Appending a chunk that starts no later than the covered prefix ends
\* extends the covered prefix to the end of the new chunk (or keeps it).
LEMMA AppendCovers ==
  ASSUME NEW s \in Seq(Cover!ChunkType), NEW a \in Nat, NEW b \in Nat,
         \A p \in 0 .. a - 1 : \E i \in 1 .. Len(s) : s[i].first <= p /\ p < s[i].last
  PROVE  \A p \in 0 .. b - 1 :
            \E i \in 1 .. Len(Append(s, Cover!Chunk(a, b))) :
               /\ Append(s, Cover!Chunk(a, b))[i].first <= p
               /\ p < Append(s, Cover!Chunk(a, b))[i].last
<1> DEFINE t == Append(s, Cover!Chunk(a, b))
<1>1. /\ Len(t) = Len(s) + 1
      /\ \A i \in 1 .. Len(s) : t[i] = s[i]
      /\ t[Len(s) + 1] = Cover!Chunk(a, b)
      /\ Len(s) \in Nat
  OBVIOUS
<1> SUFFICES ASSUME NEW p \in 0 .. b - 1
             PROVE  \E i \in 1 .. Len(t) : t[i].first <= p /\ p < t[i].last
  OBVIOUS
<1>2. CASE p < a
  BY <1>1, <1>2
<1>3. CASE p >= a
  BY <1>1, <1>3 DEF Cover!Chunk
<1> QED BY <1>2, <1>3

\* The initial states satisfy the invariant.
LEMMA CoverInit == Cover!Init => Cover!IInv
  BY TextsAssumption
     DEF Cover!Init, Cover!IInv, Cover!TypeOK, Cover!SizesBounded, Cover!StepsBackByOverlap, Cover!CursorFollows,
         Cover!CoveredSoFar, Cover!ChunkType, Cover!LastChunk

\* Where the next chunk may start: never beyond the covered prefix.
LEMMA CursorCovered ==
  ASSUME Cover!IInv, pc = "loop"
  PROVE  /\ current_idx \in Nat
         /\ \A p \in 0 .. current_idx - 1 : Cover!CoveredAt(p)
<1>1. current_idx \in Nat
  BY DEF Cover!IInv, Cover!TypeOK
<1>2. CASE chunks = << >>
  BY <1>1, <1>2 DEF Cover!IInv, Cover!CursorFollows
<1>3. CASE chunks # << >>
  <2>1. Cover!LastChunk \in Cover!ChunkType
    BY <1>3 DEF Cover!IInv, Cover!TypeOK, Cover!LastChunk
  <2>2. current_idx <= Cover!LastChunk.last
    BY <1>1, <1>3, <2>1, TextsAssumption DEF Cover!IInv, Cover!CursorFollows, Cover!ChunkType
  <2> QED BY <1>1, <1>3, <2>1, <2>2 DEF Cover!IInv, Cover!CoveredSoFar, Cover!ChunkType
<1> QED BY <1>2, <1>3

\* Appending the chunk current_idx .. end-1 keeps every conjunct that speaks
\* of the chunks, whichever action appends it.
LEMMA AppendKeeps ==
  ASSUME Cover!IInv, pc = "loop", NEW end \in Nat,
         current_idx < end, end - current_idx <= MaxChunkSize,
         chunks' = Append(chunks, Cover!Chunk(current_idx, end))
  PROVE  /\ chunks' \in Seq(Cover!ChunkType)
         /\ chunks' # << >> /\ Cover!LastChunk' = Cover!Chunk(current_idx, end)
         /\ Cover!SizesBounded'
         /\ Cover!StepsBackByOverlap'
         /\ \A p \in 0 .. end - 1 : Cover!CoveredAt(p)'
<1>1. /\ current_idx \in Nat
      /\ chunks \in Seq(Cover!ChunkType)
      /\ Len(chunks) \in Nat
  BY CursorCovered DEF Cover!IInv, Cover!TypeOK
<1>2. Cover!Chunk(current_idx, end) \in Cover!ChunkType
  BY <1>1 DEF Cover!Chunk, Cover!ChunkType
<1>3. /\ chunks' \in Seq(Cover!ChunkType)
      /\ Len(chunks') = Len(chunks) + 1
      /\ \A i \in 1 .. Len(chunks) : chunks'[i] = chunks[i]
      /\ chunks'[Len(chunks) + 1] = Cover!Chunk(current_idx, end)
  BY <1>1, <1>2
<1>4. chunks' # << >> /\ Cover!LastChunk' = Cover!Chunk(current_idx, end)
  BY <1>1, <1>3 DEF Cover!LastChunk
<1>5. Cover!SizesBounded'
  <2> SUFFICES ASSUME NEW i \in 1 .. Len(chunks')
               PROVE  /\ chunks'[i].first < chunks'[i].last
                      /\ chunks'[i].last - chunks'[i].first <= MaxChunkSize
    BY DEF Cover!SizesBounded
  <2>1. CASE i \in 1 .. Len(chunks)
    BY <1>3, <2>1 DEF Cover!IInv, Cover!SizesBounded
  <2>2. CASE i = Len(chunks) + 1
    BY <1>1, <1>3, <2>2 DEF Cover!Chunk
  <2> QED BY <1>1, <1>3, <2>1, <2>2
<1>6. Cover!StepsBackByOverlap'
  <2> SUFFICES ASSUME NEW i \in 1 .. Len(chunks') - 1
               PROVE  /\ chunks'[i+1].first > chunks'[i].first
                      /\ chunks'[i].last - chunks'[i+1].first \in {0, ChunkOverlap}
    BY DEF Cover!StepsBackByOverlap
  <2>1. CASE i \in 1 .. Len(chunks) - 1
    BY <1>1, <1>3, <2>1 DEF Cover!IInv, Cover!StepsBackByOverlap
  <2>2. CASE i = Len(chunks)
    <3>1. chunks # << >> /\ Cover!LastChunk = chunks[i]
      BY <1>1, <2>2 DEF Cover!LastChunk
    <3>2. /\ current_idx > chunks[i].first
          /\ chunks[i].last - current_idx \in {0, ChunkOverlap}
      BY <3>1 DEF Cover!IInv, Cover!CursorFollows
    <3>3. chunks'[i] = chunks[i] /\ chunks'[i+1].first = current_idx
      BY <1>1, <1>3, <2>2 DEF Cover!Chunk
    <3> QED BY <3>2, <3>3
  <2> QED BY <1>1, <1>3, <2>1, <2>2
<1>7. \A p \in 0 .. end - 1 : Cover!CoveredAt(p)'
  <2>1. \A p \in 0 .. current_idx - 1 :
           \E i \in 1 .. Len(chunks) : chunks[i].first <= p /\ p < chunks[i].last
    BY CursorCovered DEF Cover!CoveredAt
  <2>2. \A p \in 0 .. end - 1 :
           \E i \in 1 .. Len(Append(chunks, Cover!Chunk(current_idx, end))) :
              /\ Append(chunks, Cover!Chunk(current_idx, end))[i].first <= p
              /\ p < Append(chunks, Cover!Chunk(current_idx, end))[i].last
    BY <1>1, <2>1, AppendCovers
  <2> QED BY <2>2 DEF Cover!CoveredAt
<1> QED BY <1>3, <1>4, <1>5, <1>6, <1>7

\* Every step keeps the invariant.
LEMMA CoverNext == Cover!IInv /\ [Cover!Next]_Cover!vars => Cover!IInv'
<1> SUFFICES ASSUME Cover!IInv, [Cover!Next]_Cover!vars PROVE Cover!IInv'
  OBVIOUS
<1>1. content_length \in Nat /\ current_idx \in 0 .. content_length
  BY DEF Cover!IInv, Cover!TypeOK
<1>2. CASE Cover!TakeRest
  <2>1. content_length - current_idx <= MaxChunkSize
    BY <1>1, <1>2, CoverWindow DEF Cover!TakeRest
  <2>2. /\ chunks' \in Seq(Cover!ChunkType)
        /\ chunks' # << >> /\ Cover!LastChunk' = Cover!Chunk(current_idx, content_length)
        /\ Cover!SizesBounded' /\ Cover!StepsBackByOverlap'
        /\ \A p \in 0 .. content_length - 1 : Cover!CoveredAt(p)'
    BY <1>1, <1>2, <2>1, AppendKeeps DEF Cover!TakeRest
  <2>3. Cover!TypeOK'
    BY <1>2, <2>2 DEF Cover!TakeRest, Cover!IInv, Cover!TypeOK
  <2>4. Cover!CursorFollows'
    BY <1>2, <2>2 DEF Cover!TakeRest, Cover!CursorFollows
  <2>5. Cover!CoveredSoFar'
    BY <1>2, <2>2 DEF Cover!TakeRest, Cover!CoveredSoFar, Cover!Chunk
  <2> QED BY <2>2, <2>3, <2>4, <2>5 DEF Cover!IInv
<1>3. CASE Cover!Cut
  <2>1. PICK end \in current_idx + 1 .. Cover!WindowEnd(current_idx, content_length) :
               Cover!CutAt(end)
    BY <1>3 DEF Cover!Cut
  <2>2. /\ end \in Nat /\ current_idx < end /\ end < content_length
        /\ end - current_idx <= MaxChunkSize
    BY <1>1, <2>1, TextsAssumption, CoverWindow DEF Cover!CutAt
  <2>3. /\ chunks' \in Seq(Cover!ChunkType)
        /\ chunks' # << >> /\ Cover!LastChunk' = Cover!Chunk(current_idx, end)
        /\ Cover!SizesBounded' /\ Cover!StepsBackByOverlap'
        /\ \A p \in 0 .. end - 1 : Cover!CoveredAt(p)'
    BY <2>1, <2>2, AppendKeeps DEF Cover!CutAt
  <2>4. /\ current_idx' \in current_idx + 1 .. end
        /\ end - current_idx' \in {0, ChunkOverlap}
    BY <1>1, <2>1, <2>2, CoverStep DEF Cover!CutAt
  <2>5. Cover!TypeOK'
    BY <1>1, <2>1, <2>2, <2>3, <2>4 DEF Cover!CutAt, Cover!IInv, Cover!TypeOK
  <2>6. Cover!CursorFollows'
    BY <1>1, <2>1, <2>2, <2>3, <2>4 DEF Cover!CutAt, Cover!CursorFollows, Cover!Chunk
  <2>7. Cover!CoveredSoFar'
    BY <2>1, <2>3 DEF Cover!CutAt, Cover!CoveredSoFar, Cover!Chunk
  <2> QED BY <2>3, <2>5, <2>6, <2>7 DEF Cover!IInv
<1>4. CASE Cover!Exhaust
  <2>1. Cover!TypeOK' /\ Cover!SizesBounded' /\ Cover!StepsBackByOverlap' /\ Cover!CursorFollows'
    BY <1>4 DEF Cover!Exhaust, Cover!IInv, Cover!TypeOK, Cover!SizesBounded, Cover!StepsBackByOverlap,
                Cover!CursorFollows
  <2>2. chunks = << >> /\ current_idx = 0
    BY <1>1, <1>4 DEF Cover!Exhaust, Cover!IInv, Cover!CursorFollows
  <2>3. Cover!CoveredSoFar'
    BY <1>1, <1>4, <2>2 DEF Cover!Exhaust, Cover!CoveredSoFar
  <2> QED BY <2>1, <2>3 DEF Cover!IInv
<1>5. CASE UNCHANGED Cover!vars
  BY <1>5 DEF Cover!vars, Cover!IInv, Cover!TypeOK, Cover!SizesBounded, Cover!StepsBackByOverlap,
              Cover!CursorFollows, Cover!CoveredSoFar, Cover!CoveredAt, Cover!LastChunk
<1> QED BY <1>2, <1>3, <1>4, <1>5 DEF Cover!Next

\* Every reachable state satisfies the inductive invariant.
THEOREM CoverInvariance == Cover!Spec => []Cover!IInv
  BY CoverInit, CoverNext, PTL DEF Cover!Spec

\* Type correctness: the variables keep their types, the cursor stays inside
\* the text (chunker.py:49-92).
THEOREM CoverTypes == Cover!Spec => []Cover!TypeOK
<1>1. Cover!IInv => Cover!TypeOK
  BY DEF Cover!IInv
<1> QED BY <1>1, CoverInvariance, PTL

\* No chunk is empty or longer than max_chunk_size (chunker.py:50-61, 83-89).
THEOREM CoverSizes == Cover!Spec => []Cover!SizesBounded
<1>1. Cover!IInv => Cover!SizesBounded
  BY DEF Cover!IInv
<1> QED BY <1>1, CoverInvariance, PTL

\* Neighbours touch or share ChunkOverlap characters, and starts increase
\* (chunker.py:84-89).
THEOREM CoverOverlaps == Cover!Spec => []Cover!StepsBackByOverlap
<1>1. Cover!IInv => Cover!StepsBackByOverlap
  BY DEF Cover!IInv
<1> QED BY <1>1, CoverInvariance, PTL

\* No character of the text is missing from the chunks a call returns
\* (chunker.py:49-92).
THEOREM CoverWhole == Cover!Spec => []Cover!EverythingCovered
<1>1. Cover!IInv => Cover!EverythingCovered
  <2> SUFFICES ASSUME Cover!IInv, pc = "done", NEW p \in 0 .. content_length - 1
               PROVE  Cover!CoveredAt(p)
    BY DEF Cover!EverythingCovered
  <2>1. content_length \in Nat
    BY DEF Cover!IInv, Cover!TypeOK
  <2>2. chunks # << >> /\ Cover!LastChunk.last = content_length
    BY <2>1 DEF Cover!IInv, Cover!CoveredSoFar
  <2> QED BY <2>2 DEF Cover!IInv, Cover!CoveredSoFar
<1> QED BY <1>1, CoverInvariance, PTL

\* Each iteration advances the window or is the last one (chunker.py:84-91).
THEOREM CoverAdvance == Cover!Spec => Cover!Progress
<1>1. Cover!IInv /\ [Cover!Next]_Cover!vars => [current_idx' > current_idx \/ pc' = "done"]_Cover!vars
  <2> SUFFICES ASSUME Cover!IInv, Cover!Next
               PROVE  current_idx' > current_idx \/ pc' = "done"
    OBVIOUS
  <2>1. content_length \in Nat /\ current_idx \in 0 .. content_length
    BY DEF Cover!IInv, Cover!TypeOK
  <2>2. CASE Cover!Cut
    <3>1. PICK end \in current_idx + 1 .. Cover!WindowEnd(current_idx, content_length) :
                 Cover!CutAt(end)
      BY <2>2 DEF Cover!Cut
    <3>2. end \in Nat /\ current_idx < end
      BY <2>1, <3>1, TextsAssumption, CoverWindow
    <3> QED BY <2>1, <3>1, <3>2, CoverStep DEF Cover!CutAt
  <2> QED BY <2>2 DEF Cover!Next, Cover!TakeRest, Cover!Exhaust
<1> QED BY <1>1, CoverInvariance, PTL DEF Cover!Spec, Cover!Progress

\* So, whatever the text, no chunk is empty or longer than max_chunk_size, and
\* the chunks of a returned call leave out no character (chunker.py:49-92).
THEOREM Coverage ==
  ASSUME MaxChunkSize > 0
  PROVE  Spec => []ChunksCoverText
BY ImplementsCover, CoverSizes, CoverWhole, PTL DEF CoverSpec, ChunksCoverText

-----------------------------------------------------------------------------
\* Where the cuts are.

\* The cut is behind the rightmost break, or there is none in the window.
LEMMA AbsoluteEndIs ==
  ASSUME NEW text, NEW lo \in Nat, NEW hi \in Nat, lo < hi
  PROVE  \/ Breaks(text, lo, hi) = {} /\ AbsoluteEnd(text, lo, hi) = hi
         \/ \E p \in Breaks(text, lo, hi) :
              /\ AbsoluteEnd(text, lo, hi) = p + 1 /\ p \in lo .. hi - 1
              /\ \A q \in Breaks(text, lo, hi) : q <= p
<1> DEFINE B == Breaks(text, lo, hi)
<1>1. B \subseteq lo .. hi - 1
  BY DEF Breaks, Semantic, Headings, Paragraphs, Lines, Words
<1>2. CASE B = {}
  BY <1>2 DEF AbsoluteEnd
<1>3. CASE B # {}
  <2>1. AbsoluteEnd(text, lo, hi) = Max(B) + 1
    BY <1>3 DEF AbsoluteEnd
  <2> HIDE DEF B
  <2>2. lo \in Int /\ hi - 1 \in Int
    OBVIOUS
  <2>3. Max(B) \in B /\ \A q \in B : q =< Max(B)
    BY <1>1, <1>3, <2>2, MaxOfBounded
  <2> QED BY <1>1, <2>1, <2>3 DEF B
<1> QED BY <1>2, <1>3

\* A cut is behind a newline or a blank, or the window has neither; no heading
\* of the window is behind it.
LEMMA CutIsAtSeparator ==
  ASSUME NEW text, NEW lo \in Nat, NEW hi \in Nat, lo < hi
  PROVE  LET end == AbsoluteEnd(text, lo, hi)
         IN  /\ \/ CharAt(text, end - 1) \in {"newline", "blank"}
                \/ /\ end = hi
                   /\ \A p \in lo .. hi - 1 : CharAt(text, p) \notin {"newline", "blank"}
             /\ Headings(text, end, hi) = {}
<1> DEFINE end == AbsoluteEnd(text, lo, hi)
<1>1. CASE Breaks(text, lo, hi) = {}
  <2>1. end = hi
    BY <1>1 DEF AbsoluteEnd
  <2>2. Lines(text, lo, hi) = {} /\ Words(text, lo, hi) = {}
    BY <1>1 DEF Breaks
  <2>3. \A p \in lo .. hi - 1 : CharAt(text, p) \notin {"newline", "blank"}
    BY <2>2 DEF Lines, Words
  <2>4. Headings(text, end, hi) = {}
    BY <2>1 DEF Headings
  <2> QED BY <2>1, <2>3, <2>4
<1>2. CASE Breaks(text, lo, hi) # {}
  <2>1. PICK p \in Breaks(text, lo, hi) :
          /\ end = p + 1 /\ p \in lo .. hi - 1
          /\ \A q \in Breaks(text, lo, hi) : q <= p
    BY <1>2, AbsoluteEndIs
  <2>2. CharAt(text, p) \in {"newline", "blank"}
    BY <2>1 DEF Breaks, Semantic, Headings, Paragraphs, Lines, Words
  <2>3. end - 1 = p
    BY <2>1
  <2>4. ASSUME NEW q \in Headings(text, end, hi)
        PROVE  FALSE
    <3>1. q \in end .. hi - 2 /\ q \in Headings(text, lo, hi)
      BY <2>1 DEF Headings
    <3>2. q \in Breaks(text, lo, hi)
      BY <3>1 DEF Breaks, Semantic
    <3> QED BY <2>1, <3>1, <3>2
  <2> QED BY <2>2, <2>3, <2>4
<1> QED BY <1>1, <1>2

\* A later window that still holds the last character before a cut is cut
\* there or behind: it has the break, and any better one lies further on.
LEMMA LaterCutIsNoEarlier ==
  ASSUME NEW text, NEW lo \in Nat, NEW hi \in Nat, NEW lo2 \in Nat, NEW hi2 \in Nat,
         lo < lo2, hi < hi2, lo2 < hi2, lo < hi, lo2 < AbsoluteEnd(text, lo, hi)
  PROVE  AbsoluteEnd(text, lo, hi) <= AbsoluteEnd(text, lo2, hi2)
<1> DEFINE end == AbsoluteEnd(text, lo, hi)
           later == AbsoluteEnd(text, lo2, hi2)
<1>1. end \in lo + 1 .. hi /\ later \in lo2 + 1 .. hi2
  BY AbsoluteEndInWindow
<1>2. \/ Breaks(text, lo2, hi2) = {} /\ later = hi2
      \/ \E p \in Breaks(text, lo2, hi2) :
           later = p + 1 /\ \A q \in Breaks(text, lo2, hi2) : q <= p
  BY AbsoluteEndIs
<1>3. \/ Breaks(text, lo, hi) = {} /\ end = hi
      \/ end - 1 \in Breaks(text, lo, hi)
  <2>1. CASE Breaks(text, lo, hi) = {}
    BY <2>1, AbsoluteEndIs
  <2>2. CASE Breaks(text, lo, hi) # {}
    <3>1. PICK p \in Breaks(text, lo, hi) : end = p + 1 /\ p \in lo .. hi - 1
      BY <2>2, AbsoluteEndIs
    <3>2. end - 1 = p
      BY <3>1
    <3> QED BY <3>1, <3>2
  <2> QED BY <2>1, <2>2
<1> SUFFICES end <= later
  OBVIOUS
<1> HIDE DEF end, later
<1>4. ASSUME NEW q \in Breaks(text, lo2, hi2), end - 1 <= q
      PROVE  end <= later
  <2>1. q \in Int
    BY DEF Breaks, Semantic, Headings, Paragraphs, Lines, Words
  <2>2. PICK p \in Breaks(text, lo2, hi2) : later = p + 1 /\ q <= p
    BY <1>2, <1>4
  <2>3. p \in Int
    BY <2>2 DEF Breaks, Semantic, Headings, Paragraphs, Lines, Words
  <2> QED BY <1>1, <1>4, <2>1, <2>2, <2>3
<1>5. CASE Semantic(text, lo, hi) # {}
  <2>1. end - 1 \in Semantic(text, lo, hi)
    BY <1>3, <1>5 DEF Breaks
  <2>2. end - 1 \in Semantic(text, lo2, hi2)
    BY <1>1, <2>1 DEF Semantic, Headings, Paragraphs, end
  <2>3. end - 1 \in Breaks(text, lo2, hi2)
    BY <2>2 DEF Breaks
  <2> QED BY <1>1, <1>4, <2>3
<1>6. CASE Semantic(text, lo, hi) = {} /\ Semantic(text, lo2, hi2) # {}
  <2>1. PICK q \in Semantic(text, lo2, hi2) : TRUE
    BY <1>6
  <2>2. q \in Breaks(text, lo2, hi2) /\ q \in Int
    BY <2>1 DEF Breaks, Semantic, Headings, Paragraphs
  <2>3. q \notin lo .. hi - 2 /\ q >= lo2
    <3>1. q \notin Headings(text, lo, hi) /\ q \notin Paragraphs(text, lo, hi)
      BY <1>6 DEF Semantic
    <3> QED BY <2>1, <3>1 DEF Semantic, Headings, Paragraphs
  <2>4. end - 1 <= q
    BY <1>1, <2>2, <2>3
  <2> QED BY <1>4, <2>2, <2>4
<1>7. CASE Semantic(text, lo, hi) = {} /\ Semantic(text, lo2, hi2) = {}
  <2>1. CASE Lines(text, lo, hi) # {}
    <3>1. end - 1 \in Lines(text, lo, hi)
      BY <1>3, <1>7, <2>1 DEF Breaks
    <3>2. end - 1 \in Lines(text, lo2, hi2)
      BY <1>1, <3>1 DEF Lines, end
    <3>3. end - 1 \in Breaks(text, lo2, hi2)
      BY <1>7, <3>2 DEF Breaks
    <3> QED BY <1>1, <1>4, <3>3
  <2>2. CASE Lines(text, lo, hi) = {} /\ Lines(text, lo2, hi2) # {}
    <3>1. PICK q \in Lines(text, lo2, hi2) : TRUE
      BY <2>2
    <3>2. q \in Breaks(text, lo2, hi2) /\ q \in Int /\ q >= lo2 /\ q \notin lo .. hi - 1
      BY <1>7, <2>2, <3>1 DEF Breaks, Lines
    <3>3. end - 1 <= q
      BY <1>1, <3>2
    <3> QED BY <1>4, <3>2, <3>3
  <2>3. CASE Lines(text, lo, hi) = {} /\ Lines(text, lo2, hi2) = {}
    <3>1. CASE Words(text, lo, hi) # {}
      <4>1. end - 1 \in Words(text, lo, hi)
        BY <1>3, <1>7, <2>3, <3>1 DEF Breaks
      <4>2. end - 1 \in Words(text, lo2, hi2)
        BY <1>1, <4>1 DEF Words, end
      <4>3. end - 1 \in Breaks(text, lo2, hi2)
        BY <1>7, <2>3, <4>2 DEF Breaks
      <4> QED BY <1>1, <1>4, <4>3
    <3>2. CASE Words(text, lo, hi) = {} /\ Words(text, lo2, hi2) # {}
      <4>1. PICK q \in Words(text, lo2, hi2) : TRUE
        BY <3>2
      <4>2. q \in Breaks(text, lo2, hi2) /\ q \in Int /\ q >= lo2 /\ q \notin lo .. hi - 1
        BY <1>7, <2>3, <3>2, <4>1 DEF Breaks, Words
      <4>3. end - 1 <= q
        BY <1>1, <4>2
      <4> QED BY <1>4, <4>2, <4>3
    <3>3. CASE Words(text, lo2, hi2) = {}
      <4>1. Breaks(text, lo2, hi2) = {}
        BY <1>7, <2>3, <3>3 DEF Breaks
      <4>2. later = hi2
        BY <1>2, <4>1
      <4> QED BY <1>1, <4>2
    <3> QED BY <3>1, <3>2, <3>3
  <2> QED BY <2>1, <2>2, <2>3
<1> QED BY <1>5, <1>6, <1>7

\* The chunks are pairs of naturals, each of them.
LEMMA ChunkTypes ==
  ASSUME TypeOK, NEW i \in 1 .. Len(chunks)
  PROVE  chunks[i] \in [first : Nat, last : Nat]
<1>1. \A S : \A s \in Seq(S) : \A j \in 1 .. Len(s) : s[j] \in S
  OBVIOUS
<1> QED BY <1>1 DEF TypeOK

\* One chunk more.
LEMMA AppendedChunk ==
  ASSUME TypeOK, NEW c, chunks' = Append(chunks, c), c \in [first : Nat, last : Nat]
  PROVE  /\ Len(chunks) \in Nat /\ Len(chunks') = Len(chunks) + 1 /\ chunks' # << >>
         /\ \A i \in 1 .. Len(chunks) : chunks'[i] = chunks[i]
         /\ chunks'[Len(chunks) + 1] = c
BY DEF TypeOK

\* A window that is cut, or taken whole, keeps the invariant.
LEMMA CutsInvAppend ==
  ASSUME TypeOK, CutsInv, pc = "loop", content' = content,
         NEW c \in [first : Nat, last : Nat], chunks' = Append(chunks, c),
         c.first = current_idx,
         \/ WasCut(c) /\ pc' = "loop" /\ current_idx' = NextStart(c.first, c.last)
         \/ pc' = "done" /\ c.first < content_length /\ c.last = content_length
  PROVE  CutsInv'
<1>1. /\ Len(chunks) \in Nat /\ Len(chunks') = Len(chunks) + 1 /\ chunks' # << >>
      /\ \A i \in 1 .. Len(chunks) : chunks'[i] = chunks[i]
      /\ chunks'[Len(chunks) + 1] = c
  BY AppendedChunk
<1>2. \A i \in 1 .. Len(chunks) : WasCut(chunks[i])
  BY DEF CutsInv
<1>3. ASSUME NEW d PROVE WasCut(d)' = WasCut(d)
  BY DEF WasCut, content_length
<1>4. ASSUME NEW i \in 1 .. Len(chunks')
      PROVE  \/ WasCut(chunks'[i])
             \/ /\ i = Len(chunks') /\ pc' = "done"
                /\ chunks'[i].first < content_length /\ chunks'[i].last = content_length
  <2>1. i = Len(chunks) + 1 \/ i \in 1 .. Len(chunks)
    BY <1>1
  <2> QED BY <1>1, <1>2, <2>1
<1>5. ASSUME NEW i \in 1 .. Len(chunks') - 1
      PROVE  chunks'[i+1].first = NextStart(chunks'[i].first, chunks'[i].last)
  <2>1. CASE i = Len(chunks)
    <3>1. chunks # << >> /\ i \in 1 .. Len(chunks)
      BY <1>1, <1>5, <2>1 DEF TypeOK
    <3> QED BY <1>1, <2>1, <3>1 DEF CutsInv
  <2>2. CASE i # Len(chunks)
    <3>1. i \in 1 .. Len(chunks) - 1 /\ i \in 1 .. Len(chunks) /\ i + 1 \in 1 .. Len(chunks)
      BY <1>1, <2>2
    <3> QED BY <1>1, <3>1 DEF CutsInv
  <2> QED BY <2>1, <2>2
<1>6. pc' = "loop" =>
        current_idx' = NextStart(chunks'[Len(chunks')].first, chunks'[Len(chunks')].last)
  BY <1>1
<1>7. ASSUME NEW i \in 1 .. Len(chunks'), WasCut(chunks'[i])
      PROVE  /\ chunks'[i].first + MaxChunkSize < content_length'
             /\ chunks'[i].last = AbsoluteEnd(content', chunks'[i].first,
                                              chunks'[i].first + MaxChunkSize)
  BY <1>7 DEF WasCut, content_length
<1>8. content_length' = content_length
  BY DEF content_length
<1> QED BY <1>4, <1>5, <1>6, <1>7, <1>8 DEF CutsInv, WasCut

LEMMA NextCutsInv ==
  ASSUME MaxChunkSize > 0
  PROVE  TypeOK /\ CutsInv /\ [Next]_vars => CutsInv'
<1> SUFFICES ASSUME TypeOK, CutsInv, [Next]_vars PROVE CutsInv'
  OBVIOUS
<1>1. content_length \in Nat /\ current_idx \in Nat
  BY TextsAssumption DEF TypeOK, content_length
<1>2. CASE LastWindow
  <2>1. Chunk(current_idx, max_end) \in [first : Nat, last : Nat]
    BY <1>1, <1>2 DEF LastWindow, Chunk
  <2>2. Chunk(current_idx, max_end).first = current_idx
        /\ Chunk(current_idx, max_end).last = content_length
    BY <1>2 DEF LastWindow, Chunk
  <2> QED BY <1>2, <2>1, <2>2, CutsInvAppend DEF LastWindow
<1>3. CASE FullWindow
  <2> DEFINE end == AbsoluteEnd(content, current_idx, max_end)
             c == Chunk(current_idx, end)
  <2>1. max_end = current_idx + MaxChunkSize /\ max_end < content_length
        /\ end \in current_idx + 1 .. max_end
    BY <1>3, FullWindowFacts DEF FullWindow
  <2>2. c \in [first : Nat, last : Nat]
    BY <1>1, <2>1 DEF Chunk
  <2>3. c.first = current_idx /\ c.last = end
    BY DEF Chunk
  <2>4. WasCut(c)
    BY <2>1, <2>3 DEF WasCut
  <2>5. /\ chunks' = Append(chunks, c) /\ pc' = "loop" /\ content' = content
        /\ current_idx' = NextStart(c.first, c.last)
    BY <1>3, <2>3 DEF FullWindow
  <2> HIDE DEF c, end
  <2> QED BY <1>3, <2>2, <2>3, <2>4, <2>5, CutsInvAppend DEF FullWindow
<1>4. CASE LoopEnds
  BY <1>4 DEF LoopEnds, CutsInv, WasCut, content_length
<1>5. CASE UNCHANGED vars
  BY <1>5 DEF vars, CutsInv, WasCut, content_length
<1> QED BY <1>2, <1>3, <1>4, <1>5 DEF Next

\* Every chunk that was cut was cut as its window says, and windows are linked.
THEOREM CutsInvariance ==
  ASSUME MaxChunkSize > 0
  PROVE  Spec => [](TypeOK /\ CutsInv)
<1>1. Init => CutsInv
  BY DEF Init, CutsInv
<1> QED BY <1>1, NextCutsInv, TypeCorrect, PTL DEF Spec

\* A chunk ends behind a newline or a blank unless its window has neither, and
\* no heading of its window is left behind the cut.
THEOREM Separators ==
  ASSUME MaxChunkSize > 0
  PROVE  Spec => []CutsAtSeparator
<1>1. TypeOK /\ CutsInv => CutsAtSeparator
  <2> SUFFICES ASSUME TypeOK, CutsInv, NEW i \in 1 .. Len(chunks) - 1
               PROVE  LET c == chunks[i]
                      IN  /\ \/ CharAt(content, c.last - 1) \in {"newline", "blank"}
                             \/ /\ c.last - c.first = MaxChunkSize
                                /\ \A p \in c.first .. c.last - 1 :
                                     CharAt(content, p) \notin {"newline", "blank"}
                          /\ Headings(content, c.last, c.first + MaxChunkSize) = {}
    BY DEF CutsAtSeparator
  <2>1. i \in 1 .. Len(chunks) /\ i # Len(chunks) /\ chunks[i] \in [first : Nat, last : Nat]
    <3>1. chunks \in Seq([first : Nat, last : Nat]) /\ Len(chunks) \in Nat
      BY DEF TypeOK
    <3>2. i \in 1 .. Len(chunks) /\ i # Len(chunks)
      BY <3>1
    <3> QED BY <3>2, ChunkTypes
  <2>2. chunks[i].first \in Nat /\ WasCut(chunks[i])
    BY <2>1 DEF CutsInv
  <2> DEFINE lo == chunks[i].first
             hi == lo + MaxChunkSize
  <2>3. lo \in Nat /\ hi \in Nat /\ lo < hi /\ hi - lo = MaxChunkSize
    BY <2>2, TextsAssumption
  <2>4. chunks[i].last = AbsoluteEnd(content, lo, hi)
    BY <2>2 DEF WasCut
  <2> HIDE DEF lo, hi
  <2>5. /\ \/ CharAt(content, chunks[i].last - 1) \in {"newline", "blank"}
           \/ /\ chunks[i].last = hi
              /\ \A p \in lo .. hi - 1 : CharAt(content, p) \notin {"newline", "blank"}
        /\ Headings(content, chunks[i].last, hi) = {}
    BY <2>3, <2>4, CutIsAtSeparator
  <2> QED BY <2>3, <2>5 DEF lo, hi
<1> QED BY <1>1, CutsInvariance, PTL

\* What two chunks in a row have in common: the second ends no earlier, and if
\* it ends at the same place it stepped back.
LEMMA NeighbourEnds ==
  ASSUME TypeOK, CutsInv, MaxChunkSize > 0, NEW i \in 1 .. Len(chunks) - 1
  PROVE  LET c == chunks[i]
             d == chunks[i+1]
         IN  /\ c.first \in Nat /\ c.last \in Nat /\ d.first \in Nat /\ d.last \in Nat
             /\ c.first < c.last /\ d.first < d.last
             /\ c.last <= d.last /\ d.first = NextStart(c.first, c.last)
             /\ d.first = c.last => c.last < d.last
<1> DEFINE c == chunks[i]
           d == chunks[i+1]
<1>1. /\ i \in 1 .. Len(chunks) /\ i # Len(chunks) /\ i + 1 \in 1 .. Len(chunks)
      /\ c \in [first : Nat, last : Nat] /\ d \in [first : Nat, last : Nat]
      /\ content_length \in Nat
  <2>1. chunks \in Seq([first : Nat, last : Nat]) /\ Len(chunks) \in Nat
    BY DEF TypeOK
  <2>2. i \in 1 .. Len(chunks) /\ i # Len(chunks) /\ i + 1 \in 1 .. Len(chunks)
    BY <2>1
  <2>3. content_length \in Nat
    BY TextsAssumption DEF TypeOK, content_length
  <2> QED BY <2>2, <2>3, ChunkTypes
<1>2. WasCut(c) /\ d.first = NextStart(c.first, c.last)
      /\ (WasCut(d) \/ (d.first < content_length /\ d.last = content_length))
  BY <1>1 DEF CutsInv
<1>3. c.first \in Nat /\ c.last \in Nat /\ d.first \in Nat /\ d.last \in Nat
  BY <1>1
<1> HIDE DEF c, d
<1>4. /\ c.first + MaxChunkSize < content_length
      /\ c.last = AbsoluteEnd(content, c.first, c.first + MaxChunkSize)
      /\ c.last \in c.first + 1 .. c.first + MaxChunkSize
  BY <1>2, <1>3, TextsAssumption, AbsoluteEndInWindow DEF WasCut
<1>5. d.first \in c.first + 1 .. c.last
  BY <1>2, <1>3, <1>4, TextsAssumption DEF NextStart
<1>6. CASE WasCut(d)
  <2>1. d.last = AbsoluteEnd(content, d.first, d.first + MaxChunkSize)
        /\ d.last \in d.first + 1 .. d.first + MaxChunkSize
    BY <1>3, <1>6, TextsAssumption, AbsoluteEndInWindow DEF WasCut
  <2>2. d.first < c.last => c.last <= d.last
    <3>1. /\ c.first < c.first + MaxChunkSize /\ d.first < d.first + MaxChunkSize
          /\ c.first < d.first /\ c.first + MaxChunkSize < d.first + MaxChunkSize
          /\ c.first + MaxChunkSize \in Nat /\ d.first + MaxChunkSize \in Nat
      BY <1>3, <1>5, TextsAssumption
    <3> QED BY <1>3, <1>4, <2>1, <3>1, LaterCutIsNoEarlier
  <2> QED BY <1>2, <1>3, <1>4, <1>5, <2>1, <2>2 DEF c, d
<1>7. CASE d.first < content_length /\ d.last = content_length
  BY <1>1, <1>2, <1>3, <1>4, <1>5, <1>7, TextsAssumption DEF c, d
<1> QED BY <1>2, <1>6, <1>7

\* Ends never move back, and stay where they are at most once.
THEOREM EndsMoveOn ==
  ASSUME MaxChunkSize > 0
  PROVE  Spec => []EndsAdvance
<1>1. TypeOK /\ CutsInv => EndsAdvance
  <2> SUFFICES ASSUME TypeOK, CutsInv PROVE EndsAdvance
    OBVIOUS
  <2>1. \A i \in 1 .. Len(chunks) - 1 : chunks[i].last <= chunks[i+1].last
    BY NeighbourEnds
  <2>2. ASSUME NEW i \in 1 .. Len(chunks) - 2
        PROVE  chunks[i].last < chunks[i+2].last
    <3>1. Len(chunks) \in Nat /\ i \in 1 .. Len(chunks) - 1 /\ i + 1 \in 1 .. Len(chunks) - 1
          /\ (i + 1) + 1 = i + 2
      BY DEF TypeOK
    <3>2. /\ chunks[i].first \in Nat /\ chunks[i].last \in Nat
          /\ chunks[i+1].first \in Nat /\ chunks[i+1].last \in Nat
          /\ chunks[i].first < chunks[i].last /\ chunks[i].last <= chunks[i+1].last
          /\ chunks[i+1].first = NextStart(chunks[i].first, chunks[i].last)
          /\ chunks[i+1].first = chunks[i].last => chunks[i].last < chunks[i+1].last
      BY <3>1, NeighbourEnds
    <3>3. /\ chunks[i+2].first \in Nat /\ chunks[i+2].last \in Nat
          /\ chunks[i+1].last <= chunks[i+2].last
          /\ chunks[i+2].first = NextStart(chunks[i+1].first, chunks[i+1].last)
          /\ chunks[i+2].first = chunks[i+1].last => chunks[i+1].last < chunks[i+2].last
      BY <3>1, NeighbourEnds
    <3>4. CASE chunks[i+1].last # chunks[i].last
      BY <3>2, <3>3, <3>4
    <3>5. CASE chunks[i+1].last = chunks[i].last
      <4>1. chunks[i+1].first = chunks[i].last - ChunkOverlap
        BY <3>2, <3>5 DEF NextStart
      <4>2. chunks[i+2].first = chunks[i+1].last
        BY <3>2, <3>3, <3>5, <4>1, TextsAssumption DEF NextStart
      <4> QED BY <3>2, <3>3, <3>5, <4>2
    <3> QED BY <3>4, <3>5
  <2> QED BY <2>1, <2>2 DEF EndsAdvance
<1> QED BY <1>1, CutsInvariance, PTL

-----------------------------------------------------------------------------
\* Which heading a chunk is given.

LEMMA MinOfBounded ==
  ASSUME NEW S, NEW lo \in Int, NEW hi \in Int, S \subseteq lo .. hi, S # {}
  PROVE  Min(S) \in S /\ \A y \in S : Min(S) =< y
<1> DEFINE T == {- y : y \in S}
<1>1. T \subseteq - hi .. - lo /\ T # {} /\ - hi \in Int /\ - lo \in Int
  <2>1. \A y \in S : - y \in - hi .. - lo
    OBVIOUS
  <2>2. PICK s \in S : TRUE
    OBVIOUS
  <2>3. - s \in T
    OBVIOUS
  <2>4. T \subseteq - hi .. - lo
    BY <2>1
  <2>5. - hi \in Int /\ - lo \in Int
    OBVIOUS
  <2> HIDE DEF T
  <2> QED BY <2>3, <2>4, <2>5
<1>2. Max(T) \in T /\ \A y \in T : y =< Max(T)
  <2> HIDE DEF T
  <2> QED BY <1>1, MaxOfBounded
<1>3. PICK m \in S : Max(T) = - m
  BY <1>2
<1>4. \A y \in S : m =< y
  <2> SUFFICES ASSUME NEW y \in S PROVE m =< y
    OBVIOUS
  <2>1. - y =< - m /\ y \in Int /\ m \in Int
    BY <1>2, <1>3
  <2> QED BY <2>1
<1> QED BY <1>4 DEF Min

\* A line goes on to the first newline, or to the end.
LEMMA LineEndFacts ==
  ASSUME content_length \in Nat, NEW lo \in 0 .. content_length
  PROVE  /\ LineEnd(lo) \in lo .. content_length
         /\ \A p \in lo .. LineEnd(lo) - 1 : CharAt(content, p) # "newline"
         /\ LineEnd(lo) # content_length => CharAt(content, LineEnd(lo)) = "newline"
<1> DEFINE S == Lines(content, lo, content_length)
<1>1. CASE S = {}
  BY <1>1 DEF LineEnd, Lines
<1>2. CASE S # {}
  <2>1. LineEnd(lo) = Min(S)
    BY <1>2 DEF LineEnd
  <2>2. S \subseteq lo .. content_length - 1 /\ lo \in Int /\ content_length - 1 \in Int
    BY DEF Lines
  <2>3. Min(S) \in S /\ \A y \in S : Min(S) =< y
    <3> HIDE DEF S
    <3> QED BY <1>2, <2>2, MinOfBounded
  <2>4. LineEnd(lo) \in lo .. content_length - 1 /\ CharAt(content, LineEnd(lo)) = "newline"
    BY <2>1, <2>3 DEF Lines
  <2>5. ASSUME NEW p \in lo .. LineEnd(lo) - 1
        PROVE  CharAt(content, p) # "newline"
    <3>1. p \in lo .. content_length - 1 /\ p < LineEnd(lo)
      BY <2>4
    <3> QED BY <2>1, <2>3, <3>1 DEF Lines
  <2> QED BY <2>4, <2>5
<1> QED BY <1>1, <1>2

LEMMA LineEndIs ==
  ASSUME content_length \in Nat, NEW lo \in 0 .. content_length, NEW end \in lo .. content_length,
         \A p \in lo .. end - 1 : CharAt(content, p) # "newline",
         end # content_length => CharAt(content, end) = "newline"
  PROVE  LineEnd(lo) = end
<1>1. /\ LineEnd(lo) \in lo .. content_length
      /\ \A p \in lo .. LineEnd(lo) - 1 : CharAt(content, p) # "newline"
      /\ LineEnd(lo) # content_length => CharAt(content, LineEnd(lo)) = "newline"
  BY LineEndFacts
<1>2. ~(LineEnd(lo) < end)
  <2> SUFFICES ASSUME LineEnd(lo) < end PROVE FALSE
    OBVIOUS
  <2>1. LineEnd(lo) \in lo .. end - 1 /\ LineEnd(lo) # content_length
    BY <1>1
  <2> QED BY <1>1, <2>1
<1>3. ~(end < LineEnd(lo))
  <2> SUFFICES ASSUME end < LineEnd(lo) PROVE FALSE
    OBVIOUS
  <2>1. end \in lo .. LineEnd(lo) - 1 /\ end # content_length
    BY <1>1
  <2> QED BY <1>1, <2>1
<1> QED BY <1>1, <1>2, <1>3

\* All of a line has the same end.
LEMMA SameLine ==
  ASSUME content_length \in Nat, NEW lo \in 0 .. content_length, NEW p \in lo .. LineEnd(lo)
  PROVE  LineEnd(p) = LineEnd(lo)
<1>1. /\ LineEnd(lo) \in lo .. content_length
      /\ \A q \in lo .. LineEnd(lo) - 1 : CharAt(content, q) # "newline"
      /\ LineEnd(lo) # content_length => CharAt(content, LineEnd(lo)) = "newline"
  BY LineEndFacts
<1>2. /\ p \in 0 .. content_length /\ LineEnd(lo) \in p .. content_length
      /\ \A q \in p .. LineEnd(lo) - 1 : q \in lo .. LineEnd(lo) - 1
  BY <1>1
<1> QED BY <1>1, <1>2, LineEndIs

\* Every place is in a line.
LEMMA LineOf ==
  ASSUME content_length \in Nat, NEW s \in 0 .. content_length
  PROVE  \E lo \in LineStarts(content_length) : lo \in 0 .. s /\ s \in lo .. LineEnd(lo)
<1> DEFINE S == LineStarts(s)
<1>1. S \subseteq 0 .. s /\ S # {}
  BY DEF LineStarts, Lines
<1>2. Max(S) \in S /\ \A y \in S : y =< Max(S)
  <2>1. 0 \in Int /\ s \in Int
    OBVIOUS
  <2> HIDE DEF S
  <2> QED BY <1>1, <2>1, MaxOfBounded
<1>3. Max(S) \in 0 .. s
  BY <1>1, <1>2
<1>4. Max(S) \in LineStarts(content_length)
  BY <1>2 DEF LineStarts, Lines
<1>5. ~(LineEnd(Max(S)) < s)
  <2> SUFFICES ASSUME LineEnd(Max(S)) < s PROVE FALSE
    OBVIOUS
  <2> DEFINE end == LineEnd(Max(S))
  <2>1. Max(S) \in 0 .. content_length
    BY <1>3
  <2>2. end \in Max(S) .. content_length /\ (end # content_length => CharAt(content, end) = "newline")
    <3> HIDE DEF S
    <3> QED BY <2>1, LineEndFacts
  <2>3. end \in 0 .. s - 1 /\ CharAt(content, end) = "newline" /\ Max(S) < end + 1
    <3> HIDE DEF S, end
    <3> QED BY <1>3, <2>2 DEF end
  <2>4. end + 1 \in S
    <3> HIDE DEF end
    <3> QED BY <2>3 DEF LineStarts, Lines
  <2>5. end + 1 =< Max(S)
    <3> HIDE DEF S, end
    <3> QED BY <1>2, <2>4
  <2> HIDE DEF S, end
  <2> QED BY <1>3, <2>3, <2>5
<1>6. LineEnd(Max(S)) \in Max(S) .. content_length
  <2> HIDE DEF S
  <2>1. Max(S) \in 0 .. content_length
    BY <1>3
  <2> QED BY <2>1, LineEndFacts
<1> HIDE DEF S
<1>7. s \in Max(S) .. LineEnd(Max(S))
  BY <1>3, <1>5, <1>6
<1> QED BY <1>3, <1>4, <1>7

\* A line begins behind the end of every line before it.
LEMMA LinesApart ==
  ASSUME content_length \in Nat, NEW lo \in 0 .. content_length,
         NEW next \in LineStarts(content_length), lo < next
  PROVE  LineEnd(lo) < next /\ next \in 0 .. content_length
<1>1. next - 1 \in lo .. content_length - 1 /\ CharAt(content, next - 1) = "newline"
      /\ next \in 0 .. content_length
  BY DEF LineStarts, Lines
<1>2. /\ LineEnd(lo) \in lo .. content_length
      /\ \A q \in lo .. LineEnd(lo) - 1 : CharAt(content, q) # "newline"
  BY LineEndFacts
<1>3. ~(next - 1 \in lo .. LineEnd(lo) - 1)
  BY <1>1, <1>2
<1> QED BY <1>1, <1>2, <1>3

\* A line opens with one '#' at most.
LEMMA OneOpening ==
  ASSUME NEW lo \in Nat, NEW hi \in Nat, NEW p \in Opening(lo, hi)
  PROVE  Min(Opening(lo, hi)) = p /\ p \in lo .. hi - 1
<1>1. Opening(lo, hi) \subseteq lo .. hi - 1 /\ lo \in Int /\ hi - 1 \in Int
  BY DEF Opening
<1>2. Min(Opening(lo, hi)) \in Opening(lo, hi) /\ Min(Opening(lo, hi)) =< p
  BY <1>1, MinOfBounded
<1>3. ASSUME NEW q \in Opening(lo, hi), q < p
      PROVE  FALSE
  <2>1. q \in lo .. p - 1 /\ CharAt(content, q) = "hash"
    BY <1>1, <1>3 DEF Opening
  <2>2. CharAt(content, q) = "blank"
    BY <2>1 DEF Opening
  <2> QED BY <2>1, <2>2
<1>4. Min(Opening(lo, hi)) \in Int /\ p \in Int
  BY <1>1, <1>2
<1> QED BY <1>1, <1>2, <1>3, <1>4

\* What _find_nearest_heading searches behind the chunk's own line: the lines
\* that open with a '#' before the chunk starts.
HeadingsBefore(start) ==
  {lo \in LineStarts(start) :
     Opening(lo, IF LineEnd(lo) < start THEN LineEnd(lo) ELSE start) # {}}

\* The one the chunk starts in is the nearest.
LEMMA NearestIs ==
  ASSUME content_length \in Nat, NEW start \in 0 .. content_length,
         NEW L \in HeadingLines, L <= start, start <= LineEnd(L)
  PROVE  Max(HeadingsUpTo(start)) = L
<1>1. L \in HeadingsUpTo(start) /\ L \in 0 .. content_length
  BY DEF HeadingsUpTo, HeadingLines, LineStarts, Lines
<1>2. ASSUME NEW lo \in HeadingsUpTo(start)
      PROVE  lo <= L /\ lo \in 0 .. start
  <2>1. lo \in LineStarts(content_length) /\ lo \in 0 .. start
    BY DEF HeadingsUpTo, HeadingLines, LineStarts, Lines
  <2>2. ~(L < lo)
    <3> SUFFICES ASSUME L < lo PROVE FALSE
      OBVIOUS
    <3>1. LineEnd(L) < lo
      BY <1>1, <2>1, LinesApart
    <3>2. LineEnd(L) \in L .. content_length
      BY <1>1, LineEndFacts
    <3> QED BY <2>1, <3>1, <3>2
  <2> QED BY <1>1, <2>1, <2>2
<1>3. HeadingsUpTo(start) \subseteq 0 .. start /\ 0 \in Int /\ start \in Int
  BY <1>2
<1>4. Max(HeadingsUpTo(start)) \in HeadingsUpTo(start) /\ L =< Max(HeadingsUpTo(start))
  BY <1>1, <1>3, MaxOfBounded
<1> QED BY <1>1, <1>2, <1>3, <1>4

\* If the chunk's own first line is no heading, the search sees exactly the
\* heading lines up to the chunk, and the '#' of each.
LEMMA SearchSeesHeadings ==
  ASSUME content_length \in Nat, NEW start \in 0 .. content_length,
         Opening(start, LineEnd(start)) = {}
  PROVE  /\ HeadingsBefore(start) = HeadingsUpTo(start)
         /\ \A lo \in HeadingsUpTo(start) : lo < start
<1>1. ASSUME NEW lo \in HeadingsUpTo(start)
      PROVE  lo \in HeadingsBefore(start) /\ lo < start
  <2>1. /\ lo \in LineStarts(content_length) /\ lo \in 0 .. start
        /\ Opening(lo, LineEnd(lo)) # {}
    BY DEF HeadingsUpTo, HeadingLines, LineStarts, Lines
  <2>2. PICK p \in Opening(lo, LineEnd(lo)) : TRUE
    BY <2>1
  <2>3. LineEnd(lo) \in lo .. content_length
    BY <2>1, LineEndFacts
  <2>4. p \in lo .. LineEnd(lo) - 1 /\ CharAt(content, p) = "hash"
        /\ \A q \in lo .. p - 1 : CharAt(content, q) = "blank"
    BY <2>2 DEF Opening
  <2>5. p < start
    <3> SUFFICES ASSUME start <= p PROVE FALSE
      BY <2>3, <2>4
    <3>1. start \in lo .. LineEnd(lo) /\ lo \in 0 .. content_length
      BY <2>1, <2>3, <2>4
    <3>2. LineEnd(start) = LineEnd(lo)
      BY <3>1, SameLine
    <3>3. p \in start .. LineEnd(start) - 1
          /\ \A q \in start .. p - 1 : q \in lo .. p - 1
      BY <2>1, <2>3, <2>4, <3>2
    <3>4. p \in Opening(start, LineEnd(start))
      BY <2>4, <3>3 DEF Opening
    <3> QED BY <3>4
  <2>6. lo < start /\ lo \in LineStarts(start)
    BY <2>1, <2>3, <2>4, <2>5 DEF LineStarts, Lines
  <2> DEFINE end == IF LineEnd(lo) < start THEN LineEnd(lo) ELSE start
  <2>7. p \in lo .. end - 1
    BY <2>1, <2>3, <2>4, <2>5
  <2>8. p \in Opening(lo, end)
    BY <2>4, <2>7 DEF Opening
  <2> QED BY <2>6, <2>8 DEF HeadingsBefore
<1>2. ASSUME NEW lo \in HeadingsBefore(start)
      PROVE  lo \in HeadingsUpTo(start)
  <2> DEFINE end == IF LineEnd(lo) < start THEN LineEnd(lo) ELSE start
  <2>1. lo \in LineStarts(start) /\ Opening(lo, end) # {}
    BY DEF HeadingsBefore
  <2>2. lo \in LineStarts(content_length) /\ lo \in 0 .. start
    BY <2>1 DEF LineStarts, Lines
  <2>3. LineEnd(lo) \in lo .. content_length
    BY <2>2, LineEndFacts
  <2>4. PICK p \in Opening(lo, end) : TRUE
    BY <2>1
  <2>5. p \in lo .. end - 1 /\ CharAt(content, p) = "hash"
        /\ \A q \in lo .. p - 1 : CharAt(content, q) = "blank"
    BY <2>4 DEF Opening
  <2>6. p \in lo .. LineEnd(lo) - 1
    BY <2>2, <2>3, <2>5
  <2>7. p \in Opening(lo, LineEnd(lo))
    BY <2>5, <2>6 DEF Opening
  <2> QED BY <2>2, <2>7 DEF HeadingsUpTo, HeadingLines
<1> QED BY <1>1, <1>2

\* The chunk's own first line opens with a '#': the line of the text it
\* starts in is the nearest heading, or no line of the text has that '#'.
LEMMA OwnHeading ==
  ASSUME content_length \in Nat, NEW start \in 0 .. content_length,
         Opening(start, LineEnd(start)) # {}
  PROVE  NearestFor(start)
<1> DEFINE own == LineEnd(start)
<1>1. own \in start .. content_length
  BY LineEndFacts
<1>2. PICK p \in Opening(start, own) : TRUE
  OBVIOUS
<1>3. p \in start .. own - 1 /\ Min(Opening(start, own)) = p
  BY <1>1, <1>2, OneOpening
<1>4. _find_nearest_heading(start) = LineHeading(start, own)
  BY DEF _find_nearest_heading
<1>5. LineHeading(start, own) = Heading(p, own)
  BY <1>3 DEF LineHeading
<1>6. PICK L \in LineStarts(content_length) : L \in 0 .. start /\ start \in L .. LineEnd(L)
  BY LineOf
<1>7. L \in 0 .. content_length /\ LineEnd(L) = own
  BY <1>1, <1>6, SameLine
<1>8. CASE L \in HeadingLines
  <2>1. Max(HeadingsUpTo(start)) = L
    BY <1>6, <1>8, NearestIs
  <2>2. HeadingsUpTo(start) # {}
    BY <1>6, <1>8 DEF HeadingsUpTo
  <2>3. p \in L .. LineEnd(L)
    BY <1>1, <1>3, <1>6, <1>7
  <2>4. start = L \/ start \in L + 1 .. LineEnd(L)
    BY <1>6
  <2> QED BY <1>4, <1>5, <1>7, <2>1, <2>2, <2>3, <2>4 DEF NearestFor, Heading
<1>9. CASE L \notin HeadingLines
  <2>1. ASSUME NEW lo \in HeadingLines
        PROVE  p \notin lo .. LineEnd(lo)
    <3>1. lo \in LineStarts(content_length) /\ lo # L /\ lo \in 0 .. content_length
      BY <1>9 DEF HeadingLines, LineStarts, Lines
    <3>2. CASE lo < L
      <4>1. LineEnd(lo) < L /\ LineEnd(lo) \in lo .. content_length
        BY <1>6, <3>1, <3>2, LinesApart, LineEndFacts
      <4> QED BY <1>1, <1>3, <1>6, <4>1
    <3>3. CASE L < lo
      <4>1. LineEnd(L) < lo
        BY <1>7, <3>1, <3>3, LinesApart
      <4> QED BY <1>1, <1>3, <1>7, <3>1, <4>1
    <3> QED BY <1>6, <3>1, <3>2, <3>3
  <2>2. p >= start
    BY <1>1, <1>3
  <2> QED BY <1>4, <1>5, <2>1, <2>2 DEF NearestFor, Heading
<1> QED BY <1>8, <1>9

\* It does not: the search finds the nearest heading line, if there is one.
LEMMA EarlierHeading ==
  ASSUME content_length \in Nat, NEW start \in 0 .. content_length,
         Opening(start, LineEnd(start)) = {}
  PROVE  NearestFor(start)
<1> DEFINE m == Max(HeadingsUpTo(start))
           end == IF LineEnd(m) < start THEN LineEnd(m) ELSE start
<1>1. /\ HeadingsBefore(start) = HeadingsUpTo(start)
      /\ \A lo \in HeadingsUpTo(start) : lo < start
  BY SearchSeesHeadings
<1>2. _find_nearest_heading(start) =
        IF HeadingsUpTo(start) # {} THEN LineHeading(m, end) ELSE NoHeading
  BY <1>1 DEF _find_nearest_heading, HeadingsBefore
<1>3. CASE HeadingsUpTo(start) = {}
  BY <1>2, <1>3 DEF NearestFor
<1>4. CASE HeadingsUpTo(start) # {}
  <2>1. HeadingsUpTo(start) \subseteq 0 .. start /\ 0 \in Int /\ start \in Int
    BY DEF HeadingsUpTo, HeadingLines, LineStarts, Lines
  <2>2. m \in HeadingsUpTo(start)
    BY <1>4, <2>1, MaxOfBounded
  <2> HIDE DEF m
  <2>3. m \in 0 .. start /\ m < start /\ m \in 0 .. content_length
    BY <1>1, <2>1, <2>2
  <2>4. LineEnd(m) \in m .. content_length
    BY <2>3, LineEndFacts
  <2>5. end \in Nat /\ m \in Nat /\ LineEnd(m) \in Nat
    BY <2>3, <2>4
  <2>6. Opening(m, end) # {}
    BY <1>1, <2>2 DEF HeadingsBefore
  <2>7. PICK p \in Opening(m, end) : TRUE
    BY <2>6
  <2> HIDE DEF end
  <2>8. Min(Opening(m, end)) = p /\ p \in m .. end - 1
    BY <2>5, <2>7, OneOpening
  <2>9. _find_nearest_heading(start) = LineHeading(m, end)
        /\ LineHeading(m, end).first = p
    BY <1>2, <1>4, <2>8 DEF LineHeading, Heading
  <2>10. p \in m .. LineEnd(m)
    BY <2>3, <2>4, <2>8 DEF end
  <2>11. end = LineEnd(m) \/ start \in m + 1 .. LineEnd(m)
    BY <2>3, <2>4 DEF end
  <2> QED BY <1>4, <2>9, <2>10, <2>11 DEF NearestFor, m
<1> QED BY <1>3, <1>4

\* A row is given the nearest heading line at or before its chunk.
THEOREM NearestHeading ==
  ASSUME MaxChunkSize > 0
  PROVE  Spec => []HeadingIsNearest
<1>1. TypeOK /\ CutsInv => HeadingIsNearest
  <2> SUFFICES ASSUME TypeOK, CutsInv, NEW i \in 1 .. Len(chunks)
               PROVE  NearestFor(chunks[i].first)
    BY DEF HeadingIsNearest
  <2>1. content_length \in Nat
    BY TextsAssumption DEF TypeOK, content_length
  <2>2. chunks[i] \in [first : Nat, last : Nat]
    BY ChunkTypes DEF TypeOK
  <2>3. WasCut(chunks[i]) \/ chunks[i].first < content_length
    BY DEF CutsInv
  <2>4. chunks[i].first \in 0 .. content_length
    BY <2>1, <2>2, <2>3, TextsAssumption DEF WasCut
  <2> QED BY <2>1, <2>4, OwnHeading, EarlierHeading
<1> QED BY <1>1, CutsInvariance, PTL

=============================================================================
