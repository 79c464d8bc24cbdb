CONSTANTS
  a = a
  b = b
  q1 = q1
  q2 = q2
  Files = {a, b}
  Questions = {q1, q2}
  Contents <- MCContents
  Unreadable = Unreadable
  Frame <- MCFrame
  MAX_CONTEXT_CHARS = 5
  MAX_CONTEXT_SOURCES = 2
  Names = {"docs", "code"}
  Folders = {"UnansweredQuestions", "search_results", "search_results_and_answer"}
  Expanded <- MCExpanded
  Hits <- MCHits
  Datasets <- MCDatasets
  Leftovers <- MCLeftovers
  NameOrder <- MCNameOrder
  MaxRuns = 1
  MaxEdits = 1
SPECIFICATION FairSpec
INVARIANTS
  TypeOK
  FreshWhenComplete
  AnswersFromOwnSources
  OneVersionPerFile
PROPERTIES
  PipelineEnds
\* Users need not go on.
CHECK_DEADLOCK FALSE
