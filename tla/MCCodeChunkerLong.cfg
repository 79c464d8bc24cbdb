\* Functions of one statement, simple or a block, with or without a clause (else,
\* except, finally) of two characters behind the block's own statement.  The
\* clause of a block longer than a chunk is in no chunk.
CONSTANTS
  SimpleLengths = {2}
  HeaderLengths = {1}
  Gaps = {}
  Tails = {0, 2}
  Asts <- MCAsts
  MaxChunkSize = 3
  ChunkOverlap = 1
SPECIFICATION Spec
INVARIANT LongFunctionsKept
CHECK_DEADLOCK FALSE
