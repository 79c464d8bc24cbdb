\* Two search commands, run one by one in three ways or beside index commands.
CONSTANTS
  Searchers = {search, answer}
  Usages <- MCUsages
SPECIFICATION FairSpec
INVARIANTS
  TypeOK
  LexicalSearchWhole
  FinishedBuildWhole
PROPERTIES
  LoadsAfterBuildSucceed
  AtomicSpec
  CommandsEnd
\* Users need not go on.
CHECK_DEADLOCK FALSE
