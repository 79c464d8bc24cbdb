\* Chunks of 3 characters with 1 shared: every statement, header and text
\* can be shorter than, as long as, or longer than a chunk.
CONSTANTS
  SimpleLengths = {2, 4}
  HeaderLengths = {1, 4}
  Gaps = {1}
  Tails = {0, 2}
  Asts <- MCAsts
  MaxChunkSize = 3
  ChunkOverlap = 1
SPECIFICATION Spec
INVARIANTS
  TypeOK
  SizesBounded
  StatementsStored
  OrderedUpToDecorators
  StartsIdentify
\* The recursion ends.
CHECK_DEADLOCK FALSE
