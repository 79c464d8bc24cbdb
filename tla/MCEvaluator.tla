------------------------------ MODULE MCEvaluator ------------------------------
EXTENDS Evaluator

CONSTANTS a, b

S(f, first, last) == [file |-> f, first |-> first, last |-> last]

\* Expected: 20 characters, 21, none.  Retrieved: one that hits the first by
\* just a twentieth, one that hits the second by less, one of another file.
e20 == S(a, 0, 20)
e21 == S(a, 0, 21)
e0  == S(a, 5, 5)
hit  == S(a, 19, 30)
near == S(a, 20, 30)
far  == S(b, 0, 30)

Expecteds  == {<< >>, <<e20>>, <<e21>>, <<e0>>, <<e20, e21>>, <<e20, e0>>}
Retrieveds == {<< >>, <<hit>>, <<near>>, <<far, hit>>, <<hit, hit>>, <<near, hit>>, <<hit, far>>}

Rows(ids, sources) == {[i \in DOMAIN ids |-> [id |-> ids[i], sources |-> s[i]]] :
                         s \in [DOMAIN ids -> sources]}

MCSearchResults == UNION {Rows(ids, Retrieveds) : ids \in {<< >>, <<1>>, <<1, 2>>}}

MCRagQuestions ==
  UNION {Rows(ids, Expecteds) : ids \in {<<1>>, <<2, 1>>}}
    \cup Rows(<<1, 1>>, {<<e20>>, <<e21>>})

MCKs == {-1, 0, 1, 2}
MCOverlap == [num |-> 1, den |-> 20]
MCDocs == [num |-> 4, den |-> 5]
MCCode == [num |-> 1, den |-> 2]
=============================================================================
