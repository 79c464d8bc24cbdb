---------------------------- MODULE EvaluatorProofs ----------------------------
(***************************************************************************)
(* What a recall says, for all results, datasets, thresholds and k: it is  *)
(* at most 1, it is 1 only if everything was found, it is 0 only if the    *)
(* precision is, and looking at more sources never lowers it.              *)
(*                                                                         *)
(* The sums are fractions whose denominators multiply, so that each claim  *)
(* is one about products; the arithmetic comes first.                      *)
(***************************************************************************)
EXTENDS Evaluator, FiniteSetTheorems, WellFoundedInduction, TLAPS

-----------------------------------------------------------------------------
\* Products of natural numbers.

LEMMA Products ==
  ASSUME NEW a \in Nat, NEW b \in Nat, NEW c \in Nat
  PROVE  /\ a * c \in Nat
         /\ a <= b => a * c <= b * c
         /\ a < b /\ c > 0 => a * c < b * c
         /\ a > 0 /\ c > 0 => a * c > 0
OBVIOUS

\* a/b is at most m and c/d at most 1: so is their sum at most m + 1, and no
\* less unless one of them is.
LEMMA SumAtMost ==
  ASSUME NEW a \in Nat, NEW c \in Nat, NEW m \in Nat, NEW b \in Nat \ {0}, NEW d \in Nat \ {0},
         a <= m * b, c <= d
  PROVE  /\ a * d + c * b <= (m + 1) * (b * d)
         /\ (m + 1) * (b * d) <= a * d + c * b <=> m * b <= a /\ d <= c
<1>1. m * b \in Nat /\ a * d \in Nat /\ c * b \in Nat /\ b * d \in Nat /\ d * b \in Nat
      /\ (m * b) * d \in Nat
  BY Products
<1>2. a * d <= (m * b) * d /\ c * b <= d * b
  BY <1>1, Products
<1>3. (a < m * b => a * d < (m * b) * d) /\ (c < d => c * b < d * b)
  BY <1>1, Products
<1>4. (m + 1) * (b * d) = (m * b) * d + d * b
  OBVIOUS
<1>5. (m * b <= a => a = m * b) /\ (d <= c => c = d)
  BY <1>1
<1> QED BY <1>1, <1>2, <1>3, <1>4, <1>5

\* a/b is at most e/f, and c/d at most g/d: so are their sums.
LEMMA SumsAtMost ==
  ASSUME NEW a \in Nat, NEW c \in Nat, NEW e \in Nat, NEW g \in Nat,
         NEW b \in Nat \ {0}, NEW d \in Nat \ {0}, NEW f \in Nat \ {0},
         a * f <= e * b, c <= g
  PROVE  (a * d + c * b) * (f * d) <= (e * d + g * f) * (b * d)
<1>1. a * f \in Nat /\ e * b \in Nat /\ d * d \in Nat /\ b * (f * d) \in Nat /\ f * d \in Nat
  BY Products
<1>2. (a * f) * (d * d) <= (e * b) * (d * d) /\ c * (b * (f * d)) <= g * (b * (f * d))
  BY <1>1, Products
<1>3. /\ (a * d + c * b) * (f * d) = (a * f) * (d * d) + c * (b * (f * d))
      /\ (e * d + g * f) * (b * d) = (e * b) * (d * d) + g * (b * (f * d))
  OBVIOUS
<1>4. /\ (a * f) * (d * d) \in Nat /\ (e * b) * (d * d) \in Nat
      /\ c * (b * (f * d)) \in Nat /\ g * (b * (f * d)) \in Nat
  BY <1>1, Products
<1> QED BY <1>2, <1>3, <1>4

-----------------------------------------------------------------------------
\* Fractions.

LEMMA PlusIs ==
  ASSUME NEW x \in Fraction, NEW y \in Fraction
  PROVE  /\ Plus(x, y) \in Fraction
         /\ Plus(x, y).num = x.num * y.den + y.num * x.den
         /\ Plus(x, y).den = x.den * y.den
         /\ Plus(x, y).num = 0 <=> x.num = 0 /\ y.num = 0
<1>1. x.num \in Nat /\ y.num \in Nat /\ x.den \in Nat \ {0} /\ y.den \in Nat \ {0}
  BY DEF Fraction
<1>2. /\ x.num * y.den \in Nat /\ y.num * x.den \in Nat /\ x.den * y.den \in Nat \ {0}
      /\ x.num > 0 => x.num * y.den > 0
      /\ y.num > 0 => y.num * x.den > 0
      /\ 0 * y.den = 0 /\ 0 * x.den = 0
  BY <1>1, Products
<1>3. /\ Plus(x, y).num = x.num * y.den + y.num * x.den
      /\ Plus(x, y).den = x.den * y.den
      /\ Plus(x, y) = [num |-> x.num * y.den + y.num * x.den, den |-> x.den * y.den]
  BY DEF Plus
<1>4. Plus(x, y) \in Fraction
  BY <1>2, <1>3 DEF Fraction
<1>5. Plus(x, y).num = 0 <=> x.num = 0 /\ y.num = 0
  <2>1. x.num = 0 \/ x.num > 0
    BY <1>1
  <2>2. y.num = 0 \/ y.num > 0
    BY <1>1
  <2> QED BY <1>2, <1>3, <2>1, <2>2
<1> QED BY <1>3, <1>4, <1>5

LEMMA PlusOne ==
  ASSUME NEW x \in Fraction, NEW y \in Fraction, NEW m \in Nat,
         AtMost(x, Whole(m)), AtMost(y, Whole(1))
  PROVE  /\ AtMost(Plus(x, y), Whole(m + 1))
         /\ AtMost(Whole(m + 1), Plus(x, y)) <=> AtMost(Whole(m), x) /\ AtMost(Whole(1), y)
<1>1. x.num \in Nat /\ y.num \in Nat /\ x.den \in Nat \ {0} /\ y.den \in Nat \ {0}
  BY DEF Fraction
<1>2. x.num <= m * x.den /\ y.num <= y.den
  <2>1. x.num * 1 <= m * x.den /\ y.num * 1 <= 1 * y.den
    BY DEF AtMost, Whole
  <2> QED BY <1>1, <2>1
<1>3. LET p == x.num * y.den + y.num * x.den
          q == x.den * y.den
      IN  /\ p <= (m + 1) * q
          /\ (m + 1) * q <= p <=> m * x.den <= x.num /\ y.den <= y.num
  BY <1>1, <1>2, SumAtMost
<1>4. LET p == Plus(x, y).num
          q == Plus(x, y).den
      IN  /\ p \in Nat /\ q \in Nat
          /\ p <= (m + 1) * q
          /\ (m + 1) * q <= p <=> m * x.den <= x.num /\ y.den <= y.num
  BY <1>3, PlusIs DEF Fraction
<1>5. /\ AtMost(Plus(x, y), Whole(m + 1)) <=> Plus(x, y).num * 1 <= (m + 1) * Plus(x, y).den
      /\ AtMost(Whole(m + 1), Plus(x, y)) <=> (m + 1) * Plus(x, y).den <= Plus(x, y).num * 1
      /\ AtMost(Whole(m), x) <=> m * x.den <= x.num * 1
      /\ AtMost(Whole(1), y) <=> 1 * y.den <= y.num * 1
  BY DEF AtMost, Whole
<1>6. /\ Plus(x, y).num * 1 = Plus(x, y).num /\ x.num * 1 = x.num
      /\ 1 * y.den = y.den /\ y.num * 1 = y.num
  BY <1>1, <1>4
<1> QED BY ONLY <1>4, <1>5, <1>6

LEMMA PlusShares ==
  ASSUME NEW x \in Fraction, NEW y \in Fraction, NEW u \in Fraction, NEW v \in Fraction,
         AtMost(x, y), u.den = v.den, u.num <= v.num
  PROVE  AtMost(Plus(x, u), Plus(y, v))
<1>1. /\ x.num \in Nat /\ y.num \in Nat /\ x.den \in Nat \ {0} /\ y.den \in Nat \ {0}
      /\ u.num \in Nat /\ v.num \in Nat /\ u.den \in Nat \ {0}
  BY DEF Fraction
<1>2. x.num * y.den <= y.num * x.den
  BY DEF AtMost
<1>3. (x.num * u.den + u.num * x.den) * (y.den * u.den) <=
      (y.num * u.den + v.num * y.den) * (x.den * u.den)
  BY <1>1, <1>2, SumsAtMost
<1>4. Plus(x, u).num = x.num * u.den + u.num * x.den /\ Plus(x, u).den = x.den * u.den
      /\ Plus(y, v).num = y.num * u.den + v.num * y.den /\ Plus(y, v).den = y.den * u.den
  BY PlusIs
<1> QED BY <1>3, <1>4 DEF AtMost

\* A share of nothing changes no sum.
LEMMA PlusZero ==
  ASSUME NEW x \in Fraction
  PROVE  Plus(x, Zero) = x /\ Zero \in Fraction
<1>1. x.num \in Nat /\ x.den \in Nat \ {0} /\ x = [num |-> x.num, den |-> x.den]
  BY DEF Fraction
<1>2. x.num * 1 + 0 * x.den = x.num /\ x.den * 1 = x.den
  BY <1>1
<1> QED BY <1>1, <1>2 DEF Plus, Zero, Fraction

\* A sum at most m is less than m + 1.
LEMMA OneMore ==
  ASSUME NEW x \in Fraction, NEW m \in Nat, AtMost(x, Whole(m))
  PROVE  AtMost(x, Whole(m + 1)) /\ ~AtMost(Whole(m + 1), x)
<1>1. x.num \in Nat /\ x.den \in Nat \ {0} /\ x.num * 1 <= m * x.den
  BY DEF Fraction, AtMost, Whole
<1>2. (m + 1) * x.den = m * x.den + x.den /\ m * x.den \in Nat
  BY <1>1, Products
<1>3. x.num * 1 < (m + 1) * x.den
  BY <1>1, <1>2
<1>4. /\ AtMost(x, Whole(m + 1)) <=> x.num * 1 <= (m + 1) * x.den
      /\ AtMost(Whole(m + 1), x) <=> (m + 1) * x.den <= x.num * 1
  BY DEF AtMost, Whole
<1>5. (m + 1) * x.den \in Nat /\ x.num * 1 \in Nat
  BY <1>1, <1>2
<1> QED BY <1>3, <1>4, <1>5

-----------------------------------------------------------------------------
\* Sources.

LEMMA GreatestOf ==
  ASSUME NEW n \in Nat, NEW S \in SUBSET (0 .. n), S # {}
  PROVE  \E m \in S : \A s \in S : m >= s
<1> DEFINE T == {n - s : s \in S}
<1>1. T \subseteq Nat /\ T # {}
  <2>1. \A s \in S : s \in 0 .. n /\ n - s \in Nat
    OBVIOUS
  <2> QED BY <2>1
<1>2. PICK t \in T : \A u \in T : <<u, t>> \notin OpToRel(<, Nat)
  <2> HIDE DEF T
  <2> QED BY <1>1, NatLessThanWellFounded, WFMin
<1>3. \A u \in T : u \in Nat /\ t \in Nat /\ ~(u < t)
  <2> HIDE DEF T
  <2> QED BY <1>1, <1>2 DEF OpToRel
<1>4. PICK m \in S : t = n - m
  OBVIOUS
<1>5. ASSUME NEW s \in S PROVE m >= s
  <2>1. s \in 0 .. n /\ m \in 0 .. n
    BY <1>4
  <2>2. n - s \in T
    BY <1>5
  <2>3. ~(n - s < n - m)
    BY <1>3, <1>4, <2>2
  <2> QED BY <2>1, <2>3
<1> QED BY <1>5

\* What is expected of a question are sources.
LEMMA ExpectedIs ==
  ASSUME rag_questions \in RagQuestions, NEW id
  PROVE  expected_sources(id) \in Seq(Source)
<1> DEFINE same == {i \in DOMAIN rag_questions : rag_questions[i].id = id}
<1>1. rag_questions \in Seq(Row)
  BY EvaluatorAssumption
<1>2. Len(rag_questions) \in Nat /\ DOMAIN rag_questions = 1 .. Len(rag_questions)
  BY <1>1
<1>3. same \in SUBSET (0 .. Len(rag_questions)) /\ same \subseteq 1 .. Len(rag_questions)
  BY <1>2
<1>4. expected_sources(id) = IF same = {} THEN << >> ELSE rag_questions[Max(same)].sources
  BY DEF expected_sources
<1> HIDE DEF same
<1>5. CASE same = {}
  BY <1>4, <1>5
<1>6. CASE same # {}
  <2>1. \E m \in same : \A s \in same : m >= s
    BY <1>2, <1>3, <1>6, GreatestOf
  <2>2. Max(same) \in same
    BY <2>1 DEF Max
  <2>3. rag_questions[Max(same)] \in Row
    <3> DEFINE m == Max(same)
    <3>1. m \in 1 .. Len(rag_questions)
      BY <1>3, <2>2
    <3> HIDE DEF m
    <3>2. rag_questions[m] \in Row
      BY <1>1, <3>1
    <3> QED BY <3>2 DEF m
  <2> QED BY <1>4, <1>6, <2>3 DEF Row
<1> QED BY <1>5, <1>6

LEMMA TopIs ==
  ASSUME NEW sources \in Seq(Source), NEW n \in Nat
  PROVE  /\ Top(sources, n) \in Seq(Source)
         /\ Len(Top(sources, n)) = Lesser(n, Len(sources)) /\ Lesser(n, Len(sources)) \in 0 .. n
         /\ \A i \in 1 .. Lesser(n, Len(sources)) : Top(sources, n)[i] = sources[i]
<1> DEFINE m == Lesser(n, Len(sources))
<1>1. m \in 0 .. n /\ m \in 0 .. Len(sources) /\ ~(n < 0)
  BY DEF Lesser
<1>2. Top(sources, n) = SubSeq(sources, 1, m)
  BY <1>1 DEF Top
<1> HIDE DEF m
<1>3. /\ SubSeq(sources, 1, m) \in Seq(Source) /\ Len(SubSeq(sources, 1, m)) = m
      /\ \A i \in 1 .. m : SubSeq(sources, 1, m)[i] = sources[i]
  BY <1>1
<1> QED BY <1>1, <1>2, <1>3 DEF m

\* A hit among the sources looked at; precision takes the same ones for hits.
Hit(preds, exps) == \E p \in DOMAIN preds, e \in DOMAIN exps : Finds(preds[p], exps[e])
AllHit(preds, exps) == \A e \in DOMAIN exps : \E p \in DOMAIN preds : Finds(preds[p], exps[e])

LEMMA SameHits ==
  \A pred, exp : Relevant(pred, exp) <=> Finds(pred, exp)
BY DEF Relevant, Finds

\* A part of the places of a list is counted.
LEMMA PlacesIs ==
  ASSUME NEW S, NEW s \in Seq(S), NEW part \in SUBSET DOMAIN s
  PROVE  /\ Cardinality(part) \in 0 .. Len(s)
         /\ Cardinality(part) = 0 <=> part = {}
         /\ Cardinality(part) = Len(s) <=> part = DOMAIN s
         /\ \A less \in SUBSET part : Cardinality(less) <= Cardinality(part)
<1>1. Len(s) \in Nat /\ DOMAIN s = 1 .. Len(s)
  OBVIOUS
<1>2. IsFiniteSet(1 .. Len(s)) /\ Cardinality(1 .. Len(s)) = Len(s)
  <2> DEFINE n == Len(s)
  <2>1. n \in Nat
    BY <1>1
  <2> HIDE DEF n
  <2>2. IsFiniteSet(1 .. n) /\ Cardinality(1 .. n) = IF 1 > n THEN 0 ELSE n - 1 + 1
    BY <2>1, FS_Interval
  <2>3. IsFiniteSet(1 .. n) /\ Cardinality(1 .. n) = n
    BY <2>1, <2>2
  <2> QED BY <2>3 DEF n
<1>3. /\ IsFiniteSet(part) /\ Cardinality(part) <= Len(s)
      /\ Cardinality(part) = Len(s) => part = DOMAIN s
  BY <1>1, <1>2, FS_Subset
<1>4. Cardinality(part) \in Nat /\ (Cardinality(part) = 0 <=> part = {})
  BY <1>3, FS_CardinalityType, FS_EmptySet
<1>5. \A less \in SUBSET part : Cardinality(less) <= Cardinality(part)
  BY <1>3, FS_Subset
<1> QED BY <1>1, <1>2, <1>3, <1>4, <1>5

LEMMA RecallIs ==
  ASSUME NEW exps \in Seq(Source), exps # << >>, NEW preds
  PROVE  LET y == question_recall(preds, exps)
         IN  /\ y \in Fraction /\ y.den = Len(exps) /\ AtMost(y, Whole(1))
             /\ AtMost(Whole(1), y) <=> AllHit(preds, exps)
             /\ y.num = 0 <=> ~Hit(preds, exps)
<1> DEFINE found == {e \in DOMAIN exps : \E p \in DOMAIN preds : Finds(preds[p], exps[e])}
           n == Cardinality(found)
           len == Len(exps)
<1>1. len \in Nat \ {0}
  OBVIOUS
<1>2. n \in 0 .. len /\ (n = 0 <=> found = {}) /\ (n = len <=> found = DOMAIN exps)
  BY PlacesIs
<1>3. question_recall(preds, exps) = [num |-> n, den |-> len]
  BY DEF question_recall, found_count
<1>4. (found = {} <=> ~Hit(preds, exps)) /\ (found = DOMAIN exps <=> AllHit(preds, exps))
  BY DEF Hit, AllHit
<1> HIDE DEF found, n, len
<1> DEFINE y == question_recall(preds, exps)
<1>5. y.num = n /\ y.den = len /\ y \in Fraction
  BY <1>1, <1>2, <1>3 DEF Fraction
<1>6. (AtMost(y, Whole(1)) <=> n * 1 <= 1 * len) /\ (AtMost(Whole(1), y) <=> 1 * len <= n * 1)
  BY <1>5 DEF AtMost, Whole
<1>7. n * 1 <= 1 * len /\ (1 * len <= n * 1 <=> n = len)
  BY <1>1, <1>2
<1> QED BY <1>2, <1>4, <1>5, <1>6, <1>7 DEF len

LEMMA PrecisionIs ==
  ASSUME k \in Int, NEW exps, NEW sources \in Seq(Source)
  PROVE  LET y == question_precision(Top(sources, k), exps)
         IN  /\ y \in Fraction /\ AtMost(y, Whole(1))
             /\ k > 0 => (y.num = 0 <=> ~Hit(Top(sources, k), exps))
<1> DEFINE preds == Top(sources, k)
           y == question_precision(preds, exps)
<1>1. CASE ~(k > 0)
  <2>1. y = Zero
    BY <1>1 DEF question_precision
  <2>2. Zero \in Fraction /\ AtMost(Zero, Whole(1))
    BY DEF Zero, Fraction, AtMost, Whole
  <2> QED BY <1>1, <2>1, <2>2
<1>2. CASE k > 0
  <2> DEFINE relevant == {p \in DOMAIN preds : \E e \in DOMAIN exps : Relevant(preds[p], exps[e])}
             n == Cardinality(relevant)
  <2>1. k \in Nat \ {0}
    BY <1>2
  <2>2. preds \in Seq(Source) /\ Len(preds) \in 0 .. k
    BY <2>1, TopIs
  <2>3. n \in 0 .. Len(preds) /\ (n = 0 <=> relevant = {})
    <3>1. relevant \in SUBSET DOMAIN preds
      OBVIOUS
    <3> HIDE DEF relevant, preds
    <3> QED BY <2>2, <3>1, PlacesIs
  <2>4. y = [num |-> n, den |-> k]
    BY <1>2 DEF question_precision, relevant_retrieved
  <2>5. relevant = {} <=> ~Hit(preds, exps)
    BY SameHits DEF Hit
  <2> HIDE DEF relevant, n, y, preds
  <2>6. n \in Nat /\ n <= k
    BY <2>1, <2>2, <2>3
  <2>7. y.num = n /\ y.den = k /\ y \in Fraction
    BY <2>1, <2>4, <2>6 DEF Fraction
  <2>8. AtMost(y, Whole(1))
    <3>1. n * 1 <= 1 * k
      BY <2>1, <2>6
    <3> QED BY <2>7, <3>1 DEF AtMost, Whole
  <2> QED BY <2>3, <2>5, <2>7, <2>8 DEF y, preds
<1> QED BY <1>1, <1>2

-----------------------------------------------------------------------------
\* The sums the last property speaks of.

LEMMA SumsExist ==
  ASSUME NEW m \in Nat, NEW share
  PROVE  \E f : f = [i \in 0 .. m |-> IF i = 0 THEN Zero ELSE Plus(f[i - 1], share[i])]
<1> DEFINE Good(n, f) == f = [i \in 0 .. n |-> IF i = 0 THEN Zero ELSE Plus(f[i - 1], share[i])]
           T == {n \in Nat : ~ \E f : Good(n, f)}
<1>1. ASSUME T # {} PROVE FALSE
  <2>1. PICK n \in T : \A y \in T : <<y, n>> \notin OpToRel(<, Nat)
    <3>1. T \subseteq Nat
      OBVIOUS
    <3> HIDE DEF T
    <3> QED BY <1>1, <3>1, NatLessThanWellFounded, WFMin
  <2>2. n \in Nat /\ ~ \E f : Good(n, f)
    BY <2>1
  <2>3. CASE n = 0
    <3> DEFINE f == [i \in 0 .. 0 |-> Zero]
    <3>1. Good(0, f)
      OBVIOUS
    <3> QED BY <2>2, <2>3, <3>1
  <2>4. CASE n # 0
    <3>1. n - 1 \in Nat /\ n - 1 < n
      BY <2>2, <2>4
    <3>2. n - 1 \notin T
      BY <2>1, <2>2, <3>1 DEF OpToRel
    <3>3. PICK g : Good(n - 1, g)
      BY <3>1, <3>2
    <3> DEFINE f == [i \in 0 .. n |-> IF i = n THEN Plus(g[n - 1], share[n]) ELSE g[i]]
    <3>4. ASSUME NEW i \in 0 .. n
          PROVE  f[i] = IF i = 0 THEN Zero ELSE Plus(f[i - 1], share[i])
      <4>1. CASE i = n
        BY <2>2, <2>4, <4>1
      <4>2. CASE i # n
        BY <2>2, <2>4, <3>3, <4>2
      <4> QED BY <4>1, <4>2
    <3>5. Good(n, f)
      BY <3>4
    <3> QED BY <2>2, <3>5
  <2> QED BY <2>3, <2>4
<1>2. \E f : Good(m, f)
  BY <1>1
<1> QED BY <1>2

LEMMA RecallUpToIs ==
  ASSUME num_questions \in Nat, NEW n
  PROVE  /\ RecallUpTo(n)[0] = Zero
         /\ \A i \in 1 .. num_questions : RecallUpTo(n)[i] = Plus(RecallUpTo(n)[i - 1], Share(n, i))
<1> DEFINE m == num_questions
           share == [i \in 1 .. m |-> Share(n, i)]
           Good(f) == f = [i \in 0 .. m |-> IF i = 0 THEN Zero ELSE Plus(f[i - 1], Share(n, i))]
           R == RecallUpTo(n)
<1>1. \A i \in 0 .. m : i # 0 => i \in 1 .. m
  OBVIOUS
<1>2. PICK f : f = [i \in 0 .. m |-> IF i = 0 THEN Zero ELSE Plus(f[i - 1], share[i])]
  <2> HIDE DEF m, share
  <2>1. m \in Nat
    BY DEF m
  <2> QED BY <2>1, SumsExist
<1>3. \A i \in 1 .. m : share[i] = Share(n, i)
  OBVIOUS
<1> HIDE DEF share, m
<1>4. Good(f)
  BY <1>1, <1>2, <1>3
<1>5. R = CHOOSE g : Good(g)
  BY DEF RecallUpTo, m
<1> HIDE DEF R
<1>6. Good(R)
  BY <1>4, <1>5
<1>7. m \in Nat /\ 0 \in 0 .. m /\ \A i \in 1 .. m : i \in 0 .. m /\ i # 0
  BY DEF m
<1>8. R[0] = Zero /\ \A i \in 1 .. m : R[i] = Plus(R[i - 1], Share(n, i))
  BY <1>6, <1>7
<1> QED BY <1>8 DEF R, m

\* Nothing but the loop's variables changes.
LEMMA SameInputs ==
  ASSUME UNCHANGED inputs
  PROVE  /\ num_questions' = num_questions
         /\ \A i : PerfectFor(i)' <=> PerfectFor(i)
         /\ \A n : RecallUpTo(n)' = RecallUpTo(n)
<1>1. \A id : expected_sources(id)' = expected_sources(id)
  BY DEF inputs, expected_sources
<1>2. num_questions' = num_questions
  BY DEF inputs, num_questions
<1>3. \A i : PerfectFor(i)' <=> PerfectFor(i)
  BY <1>1 DEF inputs, PerfectFor
<1>4. \A n, i : Share(n, i)' = Share(n, i)
  BY <1>1 DEF inputs, Share
<1>5. \A n : RecallUpTo(n)' = RecallUpTo(n)
  BY <1>2, <1>4 DEF RecallUpTo
<1> QED BY <1>2, <1>3, <1>5

-----------------------------------------------------------------------------
\* The loop.

LEMMA InputTypes ==
  ASSUME TypeOK
  PROVE  /\ search_results \in Seq(Row) /\ num_questions \in Nat /\ k \in Int
         /\ DOMAIN search_results = 1 .. num_questions
         /\ next \in 1 .. num_questions + 1 /\ next - 1 \in Nat /\ (next - 1) + 1 = next
         /\ total_recall \in Fraction /\ total_precision \in Fraction
<1>1. search_results \in Seq(Row) /\ k \in Int
  BY EvaluatorAssumption DEF TypeOK
<1>2. num_questions \in Nat /\ DOMAIN search_results = 1 .. num_questions
  BY <1>1 DEF num_questions
<1> QED BY <1>1, <1>2 DEF TypeOK

LEMMA InitIInv == Init => IInv
<1> SUFFICES ASSUME Init PROVE IInv
  OBVIOUS
<1>1. search_results \in Seq(Row) /\ num_questions \in Nat
  BY EvaluatorAssumption DEF Init, num_questions
<1>2. Zero \in Fraction /\ AtMost(Zero, Whole(0)) /\ AtMost(Whole(0), Zero) /\ AtMost(Zero, Zero)
      /\ Zero.num = 0
  BY DEF Zero, Fraction, AtMost, Whole
<1>3. next = 1 /\ next - 1 = 0 /\ next \in 1 .. num_questions + 1
  BY <1>1 DEF Init
<1>4. TypeOK
  BY <1>2, <1>3 DEF Init, TypeOK
<1>5. \A n : RecallUpTo(n)[0] = Zero
  BY <1>1, RecallUpToIs
<1> QED BY <1>2, <1>3, <1>4, <1>5 DEF Init, IInv

\* A result without ground truth.
LEMMA SkipKeeps ==
  ASSUME IInv, SkipResult
  PROVE  IInv'
<1>1. TypeOK
  BY DEF IInv
<1>2. /\ num_questions \in Nat /\ next \in 1 .. num_questions /\ next - 1 \in Nat /\ (next - 1) + 1 = next
      /\ total_recall \in Fraction /\ total_precision \in Fraction
  BY <1>1, InputTypes DEF SkipResult, Looping, num_questions
<1>3. /\ next' = next + 1 /\ next' - 1 = next /\ next' \in 1 .. num_questions + 1
      /\ total_recall' = total_recall /\ total_precision' = total_precision
      /\ UNCHANGED <<search_results, rag_questions, k, verdict, pc>> /\ pc = "loop"
  BY <1>2 DEF SkipResult, inputs, Looping
<1>4. /\ num_questions' = num_questions
      /\ \A i : PerfectFor(i)' <=> PerfectFor(i)
      /\ \A n : RecallUpTo(n)' = RecallUpTo(n)
  BY SameInputs DEF SkipResult
<1>5. expected_sources(search_results[next].id) = << >>
  BY DEF SkipResult, Expected
<1>6. /\ AtMost(total_recall, Whole(next)) /\ ~AtMost(Whole(next), total_recall)
      /\ AtMost(total_precision, Whole(next))
  <2>1. AtMost(total_recall, Whole(next - 1)) /\ AtMost(total_precision, Whole(next - 1))
    BY <1>1 DEF TypeOK
  <2>2. AtMost(total_recall, Whole((next - 1) + 1)) /\ ~AtMost(Whole((next - 1) + 1), total_recall)
        /\ AtMost(total_precision, Whole((next - 1) + 1))
    BY <1>2, <2>1, OneMore
  <2> QED BY <1>2, <2>2
<1>7. TypeOK'
  BY <1>1, <1>3, <1>4, <1>6 DEF TypeOK
<1>8. ~PerfectFor(next)
  BY <1>5 DEF PerfectFor
<1>9. \A n : RecallUpTo(n)[next] = Plus(RecallUpTo(n)[next - 1], Zero)
  BY <1>2, <1>5, RecallUpToIs DEF Share
<1>10. \A n \in 0 .. k :
         RecallUpTo(n)[next] \in Fraction /\ AtMost(RecallUpTo(n)[next], total_recall)
  BY <1>9, PlusZero DEF IInv
<1>11. ~ \A i \in 1 .. next : PerfectFor(i)
  BY <1>2, <1>8
<1> QED BY <1>3, <1>4, <1>6, <1>7, <1>10, <1>11 DEF IInv

\* What the first n of the sources give is no more than what the first k give.
LEMMA ShareGrows ==
  ASSUME TypeOK, NEW i \in 1 .. num_questions, NEW n \in 0 .. k,
         expected_sources(search_results[i].id) # << >>
  PROVE  LET exps == expected_sources(search_results[i].id)
             y == question_recall(Top(search_results[i].sources, k), exps)
         IN  Share(n, i) \in Fraction /\ Share(n, i).den = y.den /\ Share(n, i).num <= y.num
<1> DEFINE exps == expected_sources(search_results[i].id)
           sources == search_results[i].sources
           all == Top(sources, k)
           some == Top(sources, n)
           Found(preds) == {e \in DOMAIN exps : \E p \in DOMAIN preds : Finds(preds[p], exps[e])}
<1>1. sources \in Seq(Source)
  <2>1. search_results[i] \in Row
    BY InputTypes
  <2> QED BY <2>1 DEF Row
<1>2. exps \in Seq(Source)
  BY ExpectedIs DEF TypeOK
<1>3. k \in Nat /\ n \in Nat /\ n <= k /\ Len(sources) \in Nat
  BY <1>1, InputTypes
<1>4. /\ all \in Seq(Source) /\ Len(all) = Lesser(k, Len(sources))
      /\ \A p \in 1 .. Lesser(k, Len(sources)) : all[p] = sources[p]
  BY <1>1, <1>3, TopIs
<1>5. /\ some \in Seq(Source) /\ Len(some) = Lesser(n, Len(sources))
      /\ \A p \in 1 .. Lesser(n, Len(sources)) : some[p] = sources[p]
  BY <1>1, <1>3, TopIs
<1>6. Lesser(n, Len(sources)) \in Nat /\ Lesser(n, Len(sources)) <= Lesser(k, Len(sources))
      /\ Lesser(k, Len(sources)) \in Nat
  BY <1>3 DEF Lesser
<1>7. Share(n, i) = question_recall(some, exps)
  BY DEF Share
<1> HIDE DEF all, some, sources, exps
<1>8. \A p \in DOMAIN some : p \in DOMAIN all /\ all[p] = some[p]
  BY <1>4, <1>5, <1>6
<1>9. Found(some) \in SUBSET Found(all) /\ Found(all) \in SUBSET DOMAIN exps
      /\ Found(some) \in SUBSET DOMAIN exps
  BY <1>8
<1>10. Cardinality(Found(some)) <= Cardinality(Found(all))
  <2> HIDE DEF Found
  <2> QED BY <1>2, <1>9, PlacesIs
<1>11. question_recall(some, exps) \in Fraction
  BY <1>2, RecallIs DEF exps
<1>12. /\ question_recall(some, exps) = [num |-> Cardinality(Found(some)), den |-> Len(exps)]
       /\ question_recall(all, exps) = [num |-> Cardinality(Found(all)), den |-> Len(exps)]
  BY DEF question_recall, found_count
<1> HIDE DEF Found
<1>13. Share(n, i) \in Fraction /\ Share(n, i).den = question_recall(all, exps).den
       /\ Share(n, i).num <= question_recall(all, exps).num
  BY <1>7, <1>10, <1>11, <1>12
<1> QED BY <1>13 DEF all, exps, sources

LEMMA EvaluateKeeps ==
  ASSUME IInv, EvaluateResult
  PROVE  IInv'
<1> DEFINE exps == expected_sources(search_results[next].id)
           sources == search_results[next].sources
           preds == Top(sources, k)
           y == question_recall(preds, exps)
           z == question_precision(preds, exps)
<1>1. TypeOK
  BY DEF IInv
<1>2. /\ num_questions \in Nat /\ next \in 1 .. num_questions /\ next - 1 \in Nat /\ (next - 1) + 1 = next
      /\ total_recall \in Fraction /\ total_precision \in Fraction /\ k \in Int
  BY <1>1, InputTypes DEF EvaluateResult, Looping, num_questions
<1>3. exps \in Seq(Source) /\ exps # << >>
  BY <1>1, ExpectedIs DEF EvaluateResult, Expected, TypeOK
<1>4. sources \in Seq(Source)
  <2>1. search_results[next] \in Row
    BY <1>1, <1>2, InputTypes
  <2> QED BY <2>1 DEF Row
<1>5. /\ y \in Fraction /\ AtMost(y, Whole(1))
      /\ AtMost(Whole(1), y) <=> AllHit(preds, exps)
      /\ y.num = 0 <=> ~Hit(preds, exps)
  BY <1>3, RecallIs
<1>6. /\ z \in Fraction /\ AtMost(z, Whole(1))
      /\ k > 0 => (z.num = 0 <=> ~Hit(preds, exps))
  BY <1>2, <1>4, PrecisionIs
<1>7. /\ total_recall' = Plus(total_recall, y) /\ total_precision' = Plus(total_precision, z)
      /\ next' = next + 1 /\ next' - 1 = next /\ next' \in 1 .. num_questions + 1
      /\ UNCHANGED <<search_results, rag_questions, k, verdict, pc>> /\ pc = "loop"
  BY <1>2 DEF EvaluateResult, Expected, inputs, Looping
<1>8. /\ num_questions' = num_questions
      /\ \A i : PerfectFor(i)' <=> PerfectFor(i)
      /\ \A n : RecallUpTo(n)' = RecallUpTo(n)
  BY SameInputs DEF EvaluateResult
<1>9. PerfectFor(next) <=> AllHit(preds, exps)
  BY <1>3 DEF PerfectFor, AllHit
<1>10. \A n \in 0 .. k : Share(n, next) \in Fraction /\ Share(n, next).den = y.den
                          /\ Share(n, next).num <= y.num
  BY <1>1, <1>2, <1>3, ShareGrows
<1> HIDE DEF exps, sources, preds, y, z
<1>11. /\ AtMost(total_recall', Whole(next))
       /\ AtMost(Whole(next), total_recall') <=>
            AtMost(Whole(next - 1), total_recall) /\ AtMost(Whole(1), y)
  <2>1. AtMost(total_recall, Whole(next - 1))
    BY <1>1 DEF TypeOK
  <2>2. /\ AtMost(Plus(total_recall, y), Whole((next - 1) + 1))
        /\ AtMost(Whole((next - 1) + 1), Plus(total_recall, y)) <=>
             AtMost(Whole(next - 1), total_recall) /\ AtMost(Whole(1), y)
    BY <1>2, <1>5, <2>1, PlusOne
  <2> QED BY <1>2, <1>7, <2>2
<1>12. AtMost(total_precision', Whole(next))
  <2>1. AtMost(total_precision, Whole(next - 1))
    BY <1>1 DEF TypeOK
  <2>2. AtMost(Plus(total_precision, z), Whole((next - 1) + 1))
    BY <1>2, <1>6, <2>1, PlusOne
  <2> QED BY <1>2, <1>7, <2>2
<1>13. total_recall' \in Fraction /\ total_precision' \in Fraction
       /\ (total_recall'.num = 0 <=> total_recall.num = 0 /\ y.num = 0)
       /\ (total_precision'.num = 0 <=> total_precision.num = 0 /\ z.num = 0)
  BY <1>2, <1>5, <1>6, <1>7, PlusIs
<1>14. TypeOK'
  BY <1>1, <1>7, <1>8, <1>11, <1>12, <1>13 DEF TypeOK
<1>15. AtMost(Whole(next), total_recall') <=> \A i \in 1 .. next : PerfectFor(i)
  <2>1. \A i \in 1 .. next : i \in 1 .. next - 1 \/ i = next
    BY <1>2
  <2>2. (\A i \in 1 .. next : PerfectFor(i)) <=>
          (\A i \in 1 .. next - 1 : PerfectFor(i)) /\ PerfectFor(next)
    BY <1>2, <2>1
  <2>3. AtMost(Whole(next - 1), total_recall) <=> \A i \in 1 .. next - 1 : PerfectFor(i)
    BY DEF IInv
  <2> QED BY <1>5, <1>9, <1>11, <2>2, <2>3
<1>16. k > 0 => (total_recall'.num = 0 <=> total_precision'.num = 0)
  BY <1>5, <1>6, <1>13 DEF IInv
<1>17. ASSUME NEW n \in 0 .. k
       PROVE  RecallUpTo(n)[next] \in Fraction /\ AtMost(RecallUpTo(n)[next], total_recall')
  <2>1. RecallUpTo(n)[next] = Plus(RecallUpTo(n)[next - 1], Share(n, next))
    BY <1>2, RecallUpToIs
  <2>2. RecallUpTo(n)[next - 1] \in Fraction /\ AtMost(RecallUpTo(n)[next - 1], total_recall)
    BY <1>17 DEF IInv
  <2>3. Share(n, next) \in Fraction /\ Share(n, next).den = y.den /\ Share(n, next).num <= y.num
    BY <1>10, <1>17
  <2> DEFINE x == RecallUpTo(n)[next - 1]
             u == Share(n, next)
  <2> HIDE DEF x, u
  <2>4. x \in Fraction /\ AtMost(x, total_recall) /\ u \in Fraction /\ u.den = y.den /\ u.num <= y.num
    BY <2>2, <2>3 DEF x, u
  <2>5. Plus(x, u) \in Fraction /\ AtMost(Plus(x, u), Plus(total_recall, y))
    BY ONLY <1>2, <1>5, <2>4, PlusIs, PlusShares
  <2> QED BY <1>7, <2>1, <2>5 DEF x, u
<1> QED BY <1>7, <1>8, <1>14, <1>15, <1>16, <1>17 DEF IInv

LEMMA NextIInv ==
  ASSUME IInv, [Next]_vars
  PROVE  IInv'
<1>1. TypeOK
  BY DEF IInv
<1>2. CASE SkipResult
  BY <1>2, SkipKeeps
<1>3. CASE EvaluateResult
  BY <1>3, EvaluateKeeps
<1>4. CASE UNCHANGED vars \/ NoFile \/ NoJson \/ Load \/ DivideByZero \/ Report
  <2>1. UNCHANGED inputs /\ UNCHANGED <<next, total_recall, total_precision>>
    BY <1>4 DEF vars, NoFile, NoJson, Load, DivideByZero, Report
  <2>2. /\ num_questions' = num_questions
        /\ \A i : PerfectFor(i)' <=> PerfectFor(i)
        /\ \A n : RecallUpTo(n)' = RecallUpTo(n)
    BY <2>1, SameInputs
  <2>3. k' = k /\ search_results' = search_results /\ rag_questions' = rag_questions
    BY <2>1 DEF inputs
  <2>4. verdict' \in {"none", "pass", "fail"} /\ pc' \in {"load", "loop", "done", "returned", "raised"}
    BY <1>1, <1>4 DEF vars, NoFile, NoJson, Load, DivideByZero, Report, TypeOK
  <2>5. TypeOK'
    BY <1>1, <2>1, <2>2, <2>3, <2>4 DEF TypeOK
  <2>6. pc' = "done" => next' > num_questions' /\ num_questions' > 0
    BY <1>4, <2>1, <2>2 DEF vars, NoFile, NoJson, Load, DivideByZero, Report, IInv
  <2> QED BY <2>1, <2>2, <2>3, <2>5, <2>6 DEF IInv
<1> QED BY <1>2, <1>3, <1>4 DEF Next

-----------------------------------------------------------------------------
\* The inductive invariant of the loop over the results (evaluate.py:44-123).
THEOREM Invariance == Spec => []IInv
BY InitIInv, NextIInv, PTL DEF Spec

\* Recall and precision are fractions of at most 1 for each result, whatever
\* k and however sources repeat (evaluate.py:40-123).
THEOREM TypeCorrect == Spec => []TypeOK
<1>1. IInv => TypeOK
  BY DEF IInv
<1> QED BY <1>1, Invariance, PTL

LEMMA AtTheEnd ==
  ASSUME IInv, pc = "done"
  PROVE  next - 1 = num_questions /\ num_questions \in Nat \ {0}
         /\ DOMAIN search_results = 1 .. num_questions /\ total_recall \in Fraction
<1>1. TypeOK /\ next > num_questions /\ num_questions > 0
  BY DEF IInv
<1> QED BY <1>1, InputTypes

\* The recall is 1 only if everything expected was found for every question
\* (evaluate.py:49-52, 94-95, 125).
THEOREM Perfect == Spec => []PerfectRecall
<1>1. ASSUME IInv, pc = "done"
      PROVE  AtMost(Whole(1), final_recall) <=> \A i \in DOMAIN search_results : PerfectFor(i)
  <2>1. next - 1 = num_questions /\ num_questions \in Nat \ {0}
        /\ DOMAIN search_results = 1 .. num_questions /\ total_recall \in Fraction
    BY <1>1, AtTheEnd
  <2>2. total_recall.num \in Nat /\ total_recall.den \in Nat \ {0}
    BY <2>1 DEF Fraction
  <2>3. AtMost(Whole(num_questions), total_recall) <=> \A i \in 1 .. num_questions : PerfectFor(i)
    BY <1>1, <2>1 DEF IInv
  <2>4. /\ AtMost(Whole(1), final_recall) <=>
             1 * (total_recall.den * num_questions) <= total_recall.num * 1
        /\ AtMost(Whole(num_questions), total_recall) <=>
             num_questions * total_recall.den <= total_recall.num * 1
    BY DEF AtMost, Whole, final_recall, Over
  <2>5. 1 * (total_recall.den * num_questions) = num_questions * total_recall.den
    BY <2>1, <2>2
  <2> QED BY <2>1, <2>3, <2>4, <2>5
<1>2. IInv => PerfectRecall
  BY <1>1 DEF PerfectRecall
<1> QED BY <1>2, Invariance, PTL

\* Recall and precision are 0 together (evaluate.py:56-91, 98-120).
THEOREM SameZero == Spec => []HitsAgree
<1>1. IInv => HitsAgree
  BY DEF IInv, HitsAgree
<1> QED BY <1>1, Invariance, PTL

\* A larger k never lowers the recall (evaluate.py:47-48).
THEOREM Grows == Spec => []RecallGrowsWithK
<1>1. ASSUME IInv, pc = "done", NEW n \in 0 .. k
      PROVE  AtMost(RecallUpTo(n)[num_questions], total_recall)
  <2>1. next - 1 = num_questions
    BY <1>1, AtTheEnd
  <2> QED BY <1>1, <2>1 DEF IInv
<1>2. IInv => RecallGrowsWithK
  BY <1>1 DEF RecallGrowsWithK
<1> QED BY <1>2, Invariance, PTL
=============================================================================
