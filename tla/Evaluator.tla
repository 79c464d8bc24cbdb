------------------------------- MODULE Evaluator -------------------------------
(***************************************************************************)
(* Evaluator.evaluate (src/src/evaluate.py): Recall@k and Precision@k of a *)
(* file of search results against the sources a dataset expects.           *)
(*                                                                         *)
(* Means are kept as exact fractions.  Where the recall is just a pass     *)
(* threshold, the verdict of the code's sum of floats is left open.        *)
(***************************************************************************)
EXTENDS Integers, Sequences, FiniteSets, FiniteSetsExt

CONSTANTS
  Files,
  SearchResults,      \* the contents a results file may have: [id, sources]
  RagQuestions,       \* those of a dataset: [id, sources]
  Ks,                 \* the values of k evaluations ask for
  OVERLAP_THRESHOLD,  \* fractions: the share of an expected source to be hit,
  DOCS_PASS_THRESHOLD, CODE_PASS_THRESHOLD  \* and the recalls that pass

Source == [file : Files, first : Nat, last : Nat]
Row == [id : Nat, sources : Seq(Source)]
Fraction == [num : Nat, den : Nat \ {0}]

ASSUME EvaluatorAssumption ==
  /\ SearchResults \subseteq Seq(Row) /\ RagQuestions \subseteq Seq(Row)
  /\ Ks \subseteq Int
  /\ {OVERLAP_THRESHOLD, DOCS_PASS_THRESHOLD, CODE_PASS_THRESHOLD} \subseteq Fraction
  /\ OVERLAP_THRESHOLD.num > 0

VARIABLES
  search_results, rag_questions, k,
  next,               \* the result the loop looks at next
  total_recall, total_precision,
  verdict,            \* what is printed last
  pc

inputs == <<search_results, rag_questions, k>>
vars == <<inputs, next, total_recall, total_precision, verdict, pc>>

-----------------------------------------------------------------------------
Lesser(a, b)  == IF a < b THEN a ELSE b
Greater(a, b) == IF a > b THEN a ELSE b

Zero == [num |-> 0, den |-> 1]
Whole(n) == [num |-> n, den |-> 1]
Plus(x, y) == [num |-> x.num * y.den + y.num * x.den, den |-> x.den * y.den]
AtMost(x, y) == x.num * y.den <= y.num * x.den
Over(x, n) == [num |-> x.num, den |-> x.den * n]

\* truth_map.get(id, []): of two questions with one id the last counts.
expected_sources(id) ==
  LET same == {i \in DOMAIN rag_questions : rag_questions[i].id = id}
  IN  IF same = {} THEN << >> ELSE rag_questions[Max(same)].sources

\* Mutant: sources[-n:], all of them for 0.
TopFromEnd(sources, n) ==
  SubSeq(sources, IF n > 0 THEN Greater(1, Len(sources) - n + 1) ELSE 1 - n, Len(sources))

\* sources[:n]; a negative n counts from the end.
Top(sources, n) ==
  SubSeq(sources, 1, IF n < 0 THEN Len(sources) + n ELSE Lesser(n, Len(sources)))

overlap_len(exp, pred) ==
  Greater(0, Lesser(exp.last, pred.last) - Greater(exp.first, pred.first))
exp_len(exp) == exp.last - exp.first

\* The retrieved source covers enough of the expected one: once for recall,
Finds(pred, exp) ==
  /\ exp.file = pred.file
  /\ exp_len(exp) > 0
  /\ overlap_len(exp, pred) * OVERLAP_THRESHOLD.den >= OVERLAP_THRESHOLD.num * exp_len(exp)

\* Mutant: more than the threshold, not as much.
RelevantAbove(pred, exp) ==
  /\ exp.file = pred.file
  /\ exp_len(exp) > 0
  /\ overlap_len(exp, pred) * OVERLAP_THRESHOLD.den > OVERLAP_THRESHOLD.num * exp_len(exp)

\* ... and once more for precision.
Relevant(pred, exp) ==
  /\ exp.file = pred.file
  /\ exp_len(exp) > 0
  /\ overlap_len(exp, pred) * OVERLAP_THRESHOLD.den >= OVERLAP_THRESHOLD.num * exp_len(exp)

found_count(preds, exps) ==
  Cardinality({e \in DOMAIN exps : \E p \in DOMAIN preds : Finds(preds[p], exps[e])})

relevant_retrieved(preds, exps) ==
  Cardinality({p \in DOMAIN preds : \E e \in DOMAIN exps : Relevant(preds[p], exps[e])})

\* Mutant: recall is counted in retrieved sources.
question_recall_of_hits(preds, exps) ==
  [num |-> relevant_retrieved(preds, exps), den |-> Len(exps)]

question_recall(preds, exps) == [num |-> found_count(preds, exps), den |-> Len(exps)]

question_precision(preds, exps) ==
  IF k > 0 THEN [num |-> relevant_retrieved(preds, exps), den |-> k] ELSE Zero

-----------------------------------------------------------------------------
Init ==
  /\ search_results \in SearchResults /\ rag_questions \in RagQuestions
  /\ k \in Ks
  /\ next = 1
  /\ total_recall = Zero /\ total_precision = Zero
  /\ verdict = "none"
  /\ pc = "load"

\* A file is missing: a message, and the call returns.
NoFile ==
  /\ pc = "load"
  /\ pc' = "returned"
  /\ UNCHANGED <<inputs, next, total_recall, total_precision, verdict>>

\* One is no JSON.
NoJson ==
  /\ pc = "load"
  /\ pc' = "raised"
  /\ UNCHANGED <<inputs, next, total_recall, total_precision, verdict>>

Load ==
  /\ pc = "load"
  /\ pc' = "loop"
  /\ UNCHANGED <<inputs, next, total_recall, total_precision, verdict>>

Looping == pc = "loop" /\ next <= Len(search_results)
Expected == expected_sources(search_results[next].id)

\* No ground truth: continue.
SkipResult ==
  /\ Looping
  /\ Expected = << >>
  /\ next' = next + 1
  /\ UNCHANGED <<inputs, total_recall, total_precision, verdict, pc>>

EvaluateResult ==
  /\ Looping
  /\ Expected # << >>
  /\ LET preds == Top(search_results[next].sources, k)
     IN  /\ total_recall' = Plus(total_recall, question_recall(preds, Expected))
         /\ total_precision' = Plus(total_precision, question_precision(preds, Expected))
  /\ next' = next + 1
  /\ UNCHANGED <<inputs, verdict, pc>>

\* Mutant: only results with ground truth are counted.
num_questions_known ==
  Cardinality({i \in DOMAIN search_results : expected_sources(search_results[i].id) # << >>})

num_questions == Len(search_results)
final_recall == Over(total_recall, num_questions)

\* total_recall / num_questions, of no questions.
DivideByZero ==
  /\ pc = "loop" /\ num_questions = 0
  /\ pc' = "raised"
  /\ UNCHANGED <<inputs, next, total_recall, total_precision, verdict>>

\* The dataset's path names a threshold, or none.
Report ==
  /\ pc = "loop" /\ next > num_questions /\ num_questions > 0
  /\ \/ verdict' = "none"
     \/ \E threshold \in {DOCS_PASS_THRESHOLD, CODE_PASS_THRESHOLD} :
          \/ AtMost(threshold, final_recall) /\ verdict' = "pass"
          \/ AtMost(final_recall, threshold) /\ verdict' = "fail"
  /\ pc' = "done"
  /\ UNCHANGED <<inputs, next, total_recall, total_precision>>

Next == NoFile \/ NoJson \/ Load \/ SkipResult \/ EvaluateResult \/ DivideByZero \/ Report

Spec == Init /\ [][Next]_vars

-----------------------------------------------------------------------------
\* Types, and that the sums are sums of that many shares: no recall or
\* precision is above 1, whatever k, and however sources repeat.
TypeOK ==
  /\ search_results \in SearchResults /\ rag_questions \in RagQuestions /\ k \in Ks
  /\ next \in 1 .. num_questions + 1
  /\ total_recall \in Fraction /\ AtMost(total_recall, Whole(next - 1))
  /\ total_precision \in Fraction /\ AtMost(total_precision, Whole(next - 1))
  /\ verdict \in {"none", "pass", "fail"}
  /\ pc \in {"load", "loop", "done", "returned", "raised"}

\* Result i has ground truth, and all of it is hit by one of the first k.
PerfectFor(i) ==
  LET exps  == expected_sources(search_results[i].id)
      preds == Top(search_results[i].sources, k)
  IN  /\ exps # << >>
      /\ \A e \in DOMAIN exps : \E p \in DOMAIN preds : Finds(preds[p], exps[e])

\* A recall of 1 means that every question of the results has ground truth and
\* every expected source was hit by one of the first k, and nothing less does:
\* a question that is skipped still counts (evaluate.py:49-52, 94-95, 125).
PerfectRecall ==
  pc = "done" =>
    (AtMost(Whole(1), final_recall) <=> \A i \in DOMAIN search_results : PerfectFor(i))

\* Recall and precision speak of the same hits, which the code looks for in
\* two separate loops: for a k above 0 one is 0 only if the other is
\* (evaluate.py:56-91, 98-120).
HitsAgree ==
  pc = "done" /\ k > 0 => (total_recall.num = 0 <=> total_precision.num = 0)

\* The recall of result i, and of the first results, had k been n.
Share(n, i) ==
  LET exps == expected_sources(search_results[i].id)
  IN  IF exps = << >> THEN Zero
      ELSE question_recall(Top(search_results[i].sources, n), exps)

RecallUpTo(n) ==
  LET sum[i \in 0 .. num_questions] ==
        IF i = 0 THEN Zero ELSE Plus(sum[i - 1], Share(n, i))
  IN  sum

\* Looking at more of the retrieved sources never lowers the recall: that of
\* the first n is at most that of the first k (evaluate.py:47-48).
RecallGrowsWithK ==
  pc = "done" => \A n \in 0 .. k : AtMost(RecallUpTo(n)[num_questions], total_recall)

\* The inductive invariant behind these: what they say of all results holds of
\* those before the next one.
IInv ==
  /\ TypeOK
  /\ AtMost(Whole(next - 1), total_recall) <=> \A i \in 1 .. next - 1 : PerfectFor(i)
  /\ k > 0 => (total_recall.num = 0 <=> total_precision.num = 0)
  /\ \A n \in 0 .. k :
       RecallUpTo(n)[next - 1] \in Fraction /\ AtMost(RecallUpTo(n)[next - 1], total_recall)
  /\ pc = "done" => next > num_questions /\ num_questions > 0
=============================================================================
