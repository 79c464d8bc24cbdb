------------------------------ MODULE MCPipeline -------------------------------
EXTENDS Pipeline

CONSTANTS a, b, q1, q2

Question(id, q) == [id |-> id, question |-> q]
QuestionsOf(rows) == [kind |-> "questions", rows |-> rows]

MCDatasets ==
  {QuestionsOf(<<Question(1, q1), Question(2, q1)>>),
   QuestionsOf(<<Question(1, q1), Question(2, q2)>>),
   QuestionsOf(<< >>), Missing}

S(f, first, last) == [file |-> f, first |-> first, last |-> last]

\* Sources that fit beside each other, that do not, and one that never fits.
MCHits ==
  [n \in Names |-> [g \in 1 .. 2 |-> [q \in Questions |->
     IF q = q1 THEN IF n = "docs" THEN <<S(a, 0, 2), S(b, 1, 3), S(b, 0, g)>> ELSE <<S(b, g, 3)>>
     ELSE <<S(a, 0, 9), S(b, 1, 2)>>]]]

MCExpanded == [q \in Questions |-> q2]
MCContents == {[version |-> 1, length |-> 5], [version |-> 2, length |-> 2]}
MCFrame == [f \in Files |-> 1]
MCNameOrder == <<"docs", "code">>

Old == [kind |-> "results",
        rows |-> <<Result(1, q1, <<S(a, 0, 1)>>), Result(7, q1, <<S(b, 0, 1)>>)>>]

\* Nothing; what an index command that died and an answer command that died
\* have left; what two whole runs on other datasets have left.
Left(docs, code, file) ==
  [index |-> [n \in Names |-> IF n = "docs" THEN docs ELSE code],
   output |-> [search_results |-> file, search_results_and_answer |-> file]]

MCLeftovers == {Left(0, 0, Missing), Left(1, 0, Torn), Left(1, 1, Old)}
=============================================================================
