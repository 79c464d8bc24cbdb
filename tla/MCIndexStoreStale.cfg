\* One command at a time and to its end, with and without --semantic: a build
\* without it leaves the FAISS file of an earlier build in place.
CONSTANTS
  Searchers = {search}
  Usages <- Alternating
SPECIFICATION Spec
INVARIANT LoadedIndexWhole
CHECK_DEADLOCK FALSE
