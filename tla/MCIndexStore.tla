----------------------------- MODULE MCIndexStore -----------------------------
EXTENDS IndexStore

\* One command at a time and to its end: all with the same --semantic, or with
\* either (`make pipeline` and `make bonus` in turn).  Three builds: an index
\* replaces one that replaced another.
OneByOne(flags) ==
  [searchers |-> Searchers, flags |-> flags, concurrent |-> FALSE, builds |-> 3, crashes |-> 0]

\* Searches beside index commands, up to two of which die; a fourth build can
\* follow two dead ones and one that ran to its end.
SideBySide ==
  {[searchers |-> {s}, flags |-> BOOLEAN, concurrent |-> TRUE, builds |-> 4, crashes |-> 2] :
     s \in Searchers}

MCUsages == {OneByOne({FALSE}), OneByOne({TRUE}), OneByOne(BOOLEAN)} \cup SideBySide

Alternating == {OneByOne(BOOLEAN)}
=============================================================================
