\* Five chunks, four candidates for k = 2: a chunk can be found by one
\* ranker, by both near the top, or by both further down.  FAISS indices
\* smaller than the corpus, as large, and larger (of another build).
CONSTANTS
  CorpusSize = 5
  FaissSizes = {3, 5, 6}
  Ks = {0, 1, 2, 3}
  CANDIDATE_MULT = 2
  RRF_CONSTANT = 1
SPECIFICATION Spec
INVARIANTS
  TypeOK
  ExactlyK
  AgreementKept
  NearTopOfBothWins
\* The search returns or raises, and stops.
CHECK_DEADLOCK FALSE
