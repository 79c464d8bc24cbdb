------------------------------ MODULE AtomicIndex -----------------------------
(***************************************************************************)
(* What save_index and load_index (src/src/indexer.py) promise to whoever  *)
(* uses them: an index is saved as a whole and loaded as a whole.  The     *)
(* generation of an index is the number of the build it comes from.        *)
(***************************************************************************)
EXTENDS Integers

CONSTANTS
  Dirs,           \* the index directories
  Searchers       \* the commands that load an index

VARIABLES
  index,          \* the generation each directory holds, 0 for none
  view            \* the generations each searcher works with

Init ==
  /\ index = [d \in Dirs |-> 0]
  /\ view = [s \in Searchers |-> {}]

\* An index is replaced by one of a later build.
Publish(d) ==
  /\ index'[d] > index[d]
  /\ index' = [index EXCEPT ![d] = index'[d]]
  /\ view' = view

\* A searcher takes the index a directory holds, all of it.
Look(s, d) ==
  /\ index[d] # 0
  /\ view' = [view EXCEPT ![s] = {index[d]}]
  /\ UNCHANGED index

Forget(s) ==
  /\ view' = [view EXCEPT ![s] = {}]
  /\ UNCHANGED index

Next ==
  \/ \E d \in Dirs : Publish(d)
  \/ \E s \in Searchers, d \in Dirs : Look(s, d)
  \/ \E s \in Searchers : Forget(s)

Spec == Init /\ [][Next]_<<index, view>>
=============================================================================
