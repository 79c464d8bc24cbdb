\* A file that becomes unreadable between its chunking and its second read
\* takes its rows with it, and every later row answers for another chunk.
CONSTANTS
  Files = {guide, setup, engine, bench}
  PyFiles = {setup, engine, bench}
  RootFiles = {setup}
  ExcludedFiles = {bench}
  ChunkCounts = {0, 2}
  MaxChanges = 1
SPECIFICATION Spec
INVARIANT RowsAligned
CHECK_DEADLOCK FALSE
