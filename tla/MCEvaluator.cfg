CONSTANTS
  a = a
  b = b
  Files = {a, b}
  SearchResults <- MCSearchResults
  RagQuestions <- MCRagQuestions
  Ks <- MCKs
  OVERLAP_THRESHOLD <- MCOverlap
  DOCS_PASS_THRESHOLD <- MCDocs
  CODE_PASS_THRESHOLD <- MCCode
SPECIFICATION Spec
INVARIANTS
  TypeOK
  PerfectRecall
  HitsAgree
  RecallGrowsWithK
\* The call returns.
CHECK_DEADLOCK FALSE
