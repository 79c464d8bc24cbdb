\* A document, a root script in both indices, a package file and an excluded
\* one; files of no chunk and of two; two changes while the command runs.
CONSTANTS
  Files = {guide, setup, engine, bench}
  PyFiles = {setup, engine, bench}
  RootFiles = {setup}
  ExcludedFiles = {bench}
  ChunkCounts = {0, 2}
  MaxChanges = 2
SPECIFICATION FairSpec
INVARIANTS
  TypeOK
  AlignedUpToSkips
  UntouchedFilesIndexed
PROPERTIES
  Ends
\* The command ends.
CHECK_DEADLOCK FALSE
