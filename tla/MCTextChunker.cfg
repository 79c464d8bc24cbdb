\* Every text of up to 7 characters, windows of 4 stepping back by 2.
CONSTANTS
  MaxLength = 7
  Texts <- MCTexts
  MaxChunkSize = 4
  ChunkOverlap = 2
SPECIFICATION Spec
INVARIANTS
  TypeOK
  CutsAtSeparator
  EndsAdvance
  ChunksCoverText
  HeadingIsNearest
PROPERTIES
  Progress
  CoverSpec
\* The call returns.
CHECK_DEADLOCK FALSE
