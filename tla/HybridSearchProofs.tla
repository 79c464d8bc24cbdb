--------------------------- MODULE HybridSearchProofs --------------------------
(***************************************************************************)
(* What Indexer.search returns, for every size of the corpus and of the    *)
(* FAISS index, every k, CANDIDATE_MULT and RRF_CONSTANT, and whatever the *)
(* two rankers return.                                                     *)
(*                                                                         *)
(* The invariant says of the dict of scores exactly what the two loops     *)
(* have put into it so far; what is proved of a result is then arithmetic  *)
(* about sums of one or two reciprocal ranks.                              *)
(***************************************************************************)
EXTENDS HybridSearch, TLAPS

Positive == Nat \ {0}

Score == [num : Positive, den : Positive]

Entries == [row : Rows, score : Score]

-----------------------------------------------------------------------------
\* Products of naturals.

LEMMA ProductPositive ==
  ASSUME NEW x \in Positive, NEW y \in Positive
  PROVE  x * y \in Positive
BY DEF Positive

LEMMA ProductMonotone ==
  ASSUME NEW x \in Nat, NEW y \in Nat, NEW z \in Nat, x <= y
  PROVE  x * z <= y * z
<1> DEFINE d == y - x
<1>1. d \in Nat /\ y = x + d
  OBVIOUS
<1>2. d * z \in Nat
  BY <1>1
<1>3. y * z = x * z + d * z
  BY <1>1
<1> QED BY <1>2, <1>3

LEMMA ProductStrict ==
  ASSUME NEW x \in Nat, NEW y \in Nat, NEW z \in Positive, x < y
  PROVE  x * z < y * z
<1> DEFINE d == y - x
<1>1. d \in Positive /\ y = x + d
  BY DEF Positive
<1>2. d * z \in Positive
  BY <1>1, ProductPositive
<1>3. y * z = x * z + d * z
  BY <1>1 DEF Positive
<1>4. x * z \in Nat
  BY DEF Positive
<1> HIDE DEF d
<1> QED BY <1>2, <1>3, <1>4 DEF Positive

LEMMA PlusTypes ==
  ASSUME NEW x \in Score, NEW y \in Score
  PROVE  Plus(x, y) \in Score
<1>1. /\ x.num \in Positive /\ x.den \in Positive
      /\ y.num \in Positive /\ y.den \in Positive
  BY DEF Score
<1>2. /\ x.num * y.den \in Positive /\ y.num * x.den \in Positive
      /\ x.den * y.den \in Positive
  BY <1>1, ProductPositive
<1>3. x.num * y.den + y.num * x.den \in Positive
  BY <1>2 DEF Positive
<1> QED BY <1>2, <1>3 DEF Plus, Score

LEMMA ShareTypes ==
  ASSUME NEW r \in Nat
  PROVE  /\ Share(r) \in Score /\ Share(r).num = 1
         /\ Share(r).den = RRF_CONSTANT + r + 1
BY SizesAssumption DEF Share, Score, Positive

-----------------------------------------------------------------------------
\* One addition to the dict.

LEMMA CreditTypes ==
  ASSUME NEW dict \in Seq(Entries), NEW row \in Rows, NEW share \in Score
  PROVE  Credit(dict, row, share) \in Seq(Entries)
<1>1. Entry(row, share) \in Entries
  BY DEF Entry, Entries
<1>2. CASE \E i \in DOMAIN dict : dict[i].row = row
  <2> DEFINE new == [i \in DOMAIN dict |->
                       IF dict[i].row = row THEN Entry(row, Plus(dict[i].score, share)) ELSE dict[i]]
  <2>1. ASSUME NEW i \in DOMAIN dict
        PROVE  new[i] \in Entries
    <3>0. dict[i] \in Entries
      OBVIOUS
    <3>1. dict[i] \in Entries /\ dict[i].score \in Score
      BY <3>0 DEF Entries
    <3>2. Plus(dict[i].score, share) \in Score
      BY <3>1, PlusTypes
    <3>3. Entry(row, Plus(dict[i].score, share)) \in Entries
      BY <3>2 DEF Entry, Entries
    <3> QED BY <3>1, <3>3
  <2>2. DOMAIN dict = 1 .. Len(dict) /\ Len(dict) \in Nat
    OBVIOUS
  <2>3. new \in [1 .. Len(dict) -> Entries]
    BY <2>1, <2>2
  <2>4. Credit(dict, row, share) = new
    BY <1>2 DEF Credit
  <2> HIDE DEF new
  <2> QED BY <2>2, <2>3, <2>4
<1>3. CASE ~ \E i \in DOMAIN dict : dict[i].row = row
  BY <1>1, <1>3 DEF Credit
<1> QED BY <1>2, <1>3

\* A row that is there keeps its place and is credited;
LEMMA CreditOld ==
  ASSUME NEW dict \in Seq(Entries), NEW row \in Rows, NEW share \in Score,
         NEW at \in 1 .. Len(dict), dict[at].row = row
  PROVE  LET new == Credit(dict, row, share)
         IN  /\ Len(new) = Len(dict)
             /\ \A i \in 1 .. Len(dict) :
                  /\ new[i].row = dict[i].row
                  /\ dict[i].row # row => new[i].score = dict[i].score
                  /\ dict[i].row = row => new[i].score = Plus(dict[i].score, share)
<1>1. at \in DOMAIN dict /\ DOMAIN dict = 1 .. Len(dict) /\ Len(dict) \in Nat
  OBVIOUS
<1>2. Credit(dict, row, share) =
        [i \in 1 .. Len(dict) |->
           IF dict[i].row = row THEN Entry(row, Plus(dict[i].score, share)) ELSE dict[i]]
  BY <1>1 DEF Credit
<1> QED BY <1>1, <1>2 DEF Entry

\* and one that is not is added at the end.
LEMMA CreditNew ==
  ASSUME NEW dict \in Seq(Entries), NEW row \in Rows, NEW share \in Score,
         \A i \in 1 .. Len(dict) : dict[i].row # row
  PROVE  LET new == Credit(dict, row, share)
         IN  /\ Len(new) = Len(dict) + 1
             /\ \A i \in 1 .. Len(dict) : new[i] = dict[i]
             /\ new[Len(dict) + 1].row = row /\ new[Len(dict) + 1].score = share
<1>1. Credit(dict, row, share) = Append(dict, Entry(row, share))
  BY DEF Credit
<1> QED BY <1>1 DEF Entry

-----------------------------------------------------------------------------
\* One iteration of each loop.

\* A ranking has no row twice.
Ranking(s, n) ==
  /\ \A i \in 1 .. n : s[i] \in Rows
  /\ \A i, j \in 1 .. n : s[i] = s[j] => i = j

LEMMA RankingIs ==
  ASSUME NEW n \in Nat, NEW s \in Rankings(Rows, n)
  PROVE  Len(s) = n /\ s \in Seq(Rows) /\ Ranking(s, n)
<1>1. s \in [1 .. n -> Rows] /\ \A i, j \in DOMAIN s : s[i] = s[j] => i = j
  BY DEF Rankings, IsInjective
<1>2. DOMAIN s = 1 .. n
  BY <1>1
<1> QED BY <1>1, <1>2 DEF Ranking

\* The entries of ScoreIs: what the score must be if the row is b[i] and s[j],
\* or only one of the two.
LEMMA ScoreOfBoth ==
  ASSUME NEW e, NEW b, NEW n \in Nat, NEW s, NEW m \in Nat,
         Ranking(b, n), Ranking(s, m),
         NEW i \in 1 .. n, NEW j \in 1 .. m, b[i] = e.row, s[j] = e.row,
         e.score = Plus(Share(i - 1), Share(j - 1))
  PROVE  ScoreIs(e, b, n, s, m)
<1>1. \A h \in 1 .. n : b[h] = e.row => h = i
  BY DEF Ranking
<1>2. \A h \in 1 .. m : s[h] = e.row => h = j
  BY DEF Ranking
<1> QED BY <1>1, <1>2 DEF ScoreIs

LEMMA ScoreOfFirst ==
  ASSUME NEW e, NEW b, NEW n \in Nat, NEW s, NEW m \in Nat, Ranking(b, n),
         NEW i \in 1 .. n, b[i] = e.row, \A j \in 1 .. m : s[j] # e.row,
         e.score = Share(i - 1)
  PROVE  ScoreIs(e, b, n, s, m)
<1>1. \A h \in 1 .. n : b[h] = e.row => h = i
  BY DEF Ranking
<1> QED BY <1>1 DEF ScoreIs

LEMMA ScoreOfSecond ==
  ASSUME NEW e, NEW b, NEW n \in Nat, NEW s, NEW m \in Nat, Ranking(s, m),
         NEW j \in 1 .. m, s[j] = e.row, \A i \in 1 .. n : b[i] # e.row,
         e.score = Share(j - 1)
  PROVE  ScoreIs(e, b, n, s, m)
<1>1. \A h \in 1 .. m : s[h] = e.row => h = j
  BY DEF Ranking
<1> QED BY <1>1 DEF ScoreIs

\* The first loop only ever adds rows.
LEMMA FuseFirst ==
  ASSUME NEW dict \in Seq(Entries), NEW b, NEW s, NEW n \in Nat,
         Ranking(b, n + 1), Fused(dict, b, n, s, 0)
  PROVE  Fused(Credit(dict, b[n + 1], Share(n)), b, n + 1, s, 0)
<1> DEFINE row == b[n + 1]
           new == Credit(dict, row, Share(n))
<1>1. Len(dict) = n
  <2>1. Len(dict) \in Nat /\ n <= Len(dict)
    BY DEF Fused
  <2>2. ~ \E i \in n + 1 .. Len(dict) : TRUE
    BY DEF Fused
  <2>3. n < Len(dict) => n + 1 \in n + 1 .. Len(dict)
    BY <2>1
  <2> QED BY <2>1, <2>2, <2>3
<1>2. \A i \in 1 .. n : dict[i].row = b[i] /\ b[i] # row
  <2>1. \A i \in 1 .. n : i \in 1 .. n + 1 /\ n + 1 \in 1 .. n + 1 /\ i # n + 1
    OBVIOUS
  <2> QED BY <2>1 DEF Fused, Ranking
<1>3. row \in Rows /\ Share(n) \in Score
  BY ShareTypes DEF Ranking
<1>4. /\ Len(new) = n + 1
      /\ \A i \in 1 .. n : new[i] = dict[i]
      /\ new[n + 1].row = row /\ new[n + 1].score = Share(n)
  BY <1>1, <1>2, <1>3, CreditNew
<1> HIDE DEF new
<1>5. \A i \in 1 .. n + 1 : new[i].row = b[i]
  <2>1. \A i \in 1 .. n + 1 : i \in 1 .. n \/ i = n + 1
    OBVIOUS
  <2> QED BY <1>2, <1>4, <2>1
<1>6. ASSUME NEW i \in 1 .. n + 1
      PROVE  ScoreIs(new[i], b, n + 1, s, 0)
  <2>1. new[i].score = Share(i - 1)
    <3>1. CASE i = n + 1
      BY <1>4, <3>1
    <3>2. CASE i # n + 1
      <4>1. i \in 1 .. n /\ ScoreIs(dict[i], b, n, s, 0)
        BY <1>1, <3>2 DEF Fused
      <4>2. dict[i].score = Share(i - 1)
        BY <1>2, <4>1 DEF ScoreIs
      <4> QED BY <1>4, <4>1, <4>2
    <3> QED BY <3>1, <3>2
  <2>2. n + 1 \in Nat /\ 0 \in Nat /\ \A j \in 1 .. 0 : s[j] # new[i].row
    OBVIOUS
  <2> QED BY <1>5, <2>1, <2>2, ScoreOfFirst
<1>7. \A i, j \in 1 .. n + 1 : new[i].row = new[j].row => i = j
  BY <1>5 DEF Ranking
<1>8. \A i \in (n + 1) + 1 .. n + 1 : FALSE
  OBVIOUS
<1>9. \A j \in 1 .. 0 : FALSE
  OBVIOUS
<1> QED BY <1>4, <1>5, <1>6, <1>7, <1>8, <1>9 DEF Fused, new

\* The second adds a row at the end, or credits one the first has put there.
LEMMA FuseSecond ==
  ASSUME NEW dict \in Seq(Entries), NEW b, NEW s, NEW n \in Nat, NEW m \in Nat,
         Ranking(b, n), Ranking(s, m + 1), Fused(dict, b, n, s, m)
  PROVE  Fused(Credit(dict, s[m + 1], Share(m)), b, n, s, m + 1)
<1> DEFINE row == s[m + 1]
           new == Credit(dict, row, Share(m))
           len == Len(dict)
<1>1. len \in Nat /\ n <= len /\ m + 1 \in Nat /\ m + 1 \in 1 .. m + 1
  BY DEF Fused
<1>2. /\ \A j \in 1 .. m : j \in 1 .. m + 1 /\ s[j] # row
      /\ \A j \in 1 .. m + 1 : j \in 1 .. m \/ j = m + 1
  BY DEF Ranking
<1>3. row \in Rows /\ Share(m) \in Score
  BY <1>1, ShareTypes DEF Ranking
<1>4. /\ \A i \in 1 .. n : dict[i].row = b[i]
      /\ \A i \in n + 1 .. len : \E j \in 1 .. m : dict[i].row = s[j]
      /\ \A j \in 1 .. m : \E i \in 1 .. len : dict[i].row = s[j]
      /\ \A i, j \in 1 .. len : dict[i].row = dict[j].row => i = j
      /\ \A i \in 1 .. len : ScoreIs(dict[i], b, n, s, m)
  BY DEF Fused
<1>5. \A i \in 1 .. len : i \in 1 .. n \/ i \in n + 1 .. len
  BY <1>1
<1>6. ASSUME NEW e, NEW i \in 1 .. len, e.row = dict[i].row, e.score = dict[i].score,
             dict[i].row # row
      PROVE  ScoreIs(e, b, n, s, m + 1)
  <2>1. ScoreIs(dict[i], b, n, s, m)
    BY <1>4
  <2> QED BY <1>2, <1>6, <2>1 DEF ScoreIs
<1>7. CASE \A i \in 1 .. len : dict[i].row # row
  <2>1. /\ Len(new) = len + 1
        /\ \A i \in 1 .. len : new[i] = dict[i]
        /\ new[len + 1].row = row /\ new[len + 1].score = Share(m)
    BY <1>3, <1>7, CreditNew
  <2> HIDE DEF new
  <2>2. /\ \A i \in 1 .. len + 1 : i \in 1 .. len \/ i = len + 1
        /\ len + 1 \in 1 .. len + 1
        /\ \A i \in 1 .. len : i \in 1 .. len + 1
        /\ \A i \in n + 1 .. len + 1 : i \in n + 1 .. len \/ i = len + 1
        /\ \A i \in n + 1 .. len : i \in 1 .. len
        /\ \A i \in 1 .. n : i \in 1 .. len
        /\ n <= len + 1
    BY <1>1
  <2> HIDE DEF len
  <2>3. \A i \in 1 .. n : new[i].row = b[i] /\ b[i] # row
    BY <1>4, <1>7, <2>1, <2>2
  <2>4. \A i \in n + 1 .. len + 1 : \E j \in 1 .. m + 1 : new[i].row = s[j]
    BY <1>1, <1>2, <1>4, <2>1, <2>2
  <2>5. \A j \in 1 .. m + 1 : \E i \in 1 .. len + 1 : new[i].row = s[j]
    BY <1>2, <1>4, <2>1, <2>2
  <2>6. \A i, j \in 1 .. len + 1 : new[i].row = new[j].row => i = j
    BY <1>4, <1>7, <2>1, <2>2
  <2>7. ScoreIs(new[len + 1], b, n, s, m + 1)
    <3>1. new[len + 1].score = Share((m + 1) - 1) /\ \A i \in 1 .. n : b[i] # new[len + 1].row
      BY <2>1, <2>3
    <3> QED BY <1>1, <2>1, <3>1, ScoreOfSecond
  <2>8. \A i \in 1 .. len : ScoreIs(new[i], b, n, s, m + 1)
    BY <1>6, <1>7, <2>1
  <2>9. \A i \in 1 .. len + 1 : ScoreIs(new[i], b, n, s, m + 1)
    BY <2>2, <2>7, <2>8
  <2> QED BY <2>1, <2>2, <2>3, <2>4, <2>5, <2>6, <2>9 DEF Fused, new
<1>8. CASE \E i \in 1 .. len : dict[i].row = row
  <2>1. PICK at \in 1 .. len : dict[at].row = row
    BY <1>8
  <2>2. at \in 1 .. n /\ b[at] = row
    BY <1>2, <1>4, <1>5, <2>1
  <2>3. dict[at].score = Share(at - 1)
    BY <1>2, <1>4, <2>1, <2>2 DEF ScoreIs
  <2>4. /\ Len(new) = len
        /\ \A i \in 1 .. len :
             /\ new[i].row = dict[i].row
             /\ dict[i].row # row => new[i].score = dict[i].score
             /\ dict[i].row = row => new[i].score = Plus(dict[i].score, Share(m))
    BY <1>3, <2>1, CreditOld
  <2> HIDE DEF new
  <2>5. \A i \in 1 .. n : i \in 1 .. len
    BY <1>1
  <2>6. \A i \in n + 1 .. len : i \in 1 .. len
    BY <1>1
  <2> HIDE DEF len
  <2>7. \A i \in 1 .. n : new[i].row = b[i]
    BY <1>4, <2>4, <2>5
  <2>8. \A i \in n + 1 .. len : \E j \in 1 .. m + 1 : new[i].row = s[j]
    BY <1>2, <1>4, <2>4, <2>6
  <2>9. \A j \in 1 .. m + 1 : \E i \in 1 .. len : new[i].row = s[j]
    BY <1>2, <1>4, <2>1, <2>4
  <2>10. \A i, j \in 1 .. len : new[i].row = new[j].row => i = j
    BY <1>4, <2>4
  <2>11. ASSUME NEW i \in 1 .. len
         PROVE  ScoreIs(new[i], b, n, s, m + 1)
    <3>1. CASE i = at
      <4>1. /\ new[i].row = row /\ b[at] = new[i].row /\ s[m + 1] = new[i].row
            /\ new[i].score = Plus(Share(at - 1), Share((m + 1) - 1))
        BY <2>1, <2>2, <2>3, <2>4, <3>1
      <4> QED BY <1>1, <2>2, <4>1, ScoreOfBoth
    <3>2. CASE i # at
      <4>1. dict[i].row # row
        BY <1>4, <2>1, <3>2
      <4> QED BY <1>6, <2>4, <4>1
    <3> QED BY <3>1, <3>2
  <2> QED BY <1>1, <2>4, <2>7, <2>8, <2>9, <2>10, <2>11 DEF Fused, new, len
<1> QED BY <1>7, <1>8

-----------------------------------------------------------------------------
\* The invariant.

LEMMA Candidates ==
  ASSUME NEW n \in Int, n > 0
  PROVE  n * CANDIDATE_MULT \in Nat /\ n <= n * CANDIDATE_MULT
<1>1. n \in Nat /\ n \in Positive /\ CANDIDATE_MULT \in Positive /\ CANDIDATE_MULT \in Nat
      /\ 1 \in Nat /\ 1 <= CANDIDATE_MULT
  BY SizesAssumption DEF Positive
<1>2. n * CANDIDATE_MULT \in Nat
  BY <1>1
<1>3. 1 * n <= CANDIDATE_MULT * n
  BY <1>1, ProductMonotone
<1>4. CANDIDATE_MULT * n = n * CANDIDATE_MULT /\ 1 * n = n
  BY <1>1
<1> QED BY <1>2, <1>3, <1>4

LEMMA SmallerIs ==
  ASSUME NEW x \in Nat, NEW y \in Nat, x <= y
  PROVE  Smaller(x, y) = x
BY DEF Smaller

\* In a search that is served, both lists are rankings of these lengths.
LEMMA ListsAre ==
  ASSUME TypeOK, RankingsOK, Served
  PROVE  /\ k \in Nat \ {0} /\ k <= Len(bm25_results) /\ Len(bm25_results) <= CorpusSize
         /\ Len(bm25_results) = k * CANDIDATE_MULT /\ Len(bm25_results) \in Nat
         /\ Ranking(bm25_results, Len(bm25_results))
         /\ Fusing => /\ Len(semantic_results) \in Nat
                      /\ Len(semantic_results) <= Len(bm25_results)
                      /\ Ranking(semantic_results, Len(semantic_results))
<1>1. k \in Int /\ k > 0 /\ faiss_rows \in Nat
  BY SizesAssumption DEF TypeOK, RankingsOK
<1>2. k * CANDIDATE_MULT \in Nat /\ k <= k * CANDIDATE_MULT
  BY <1>1, Candidates
<1>3. k \in Nat \ {0}
  BY <1>1
<1> DEFINE wanted == k * CANDIDATE_MULT
           fewer == Smaller(wanted, faiss_rows)
<1>4. wanted \in Nat /\ k <= wanted /\ k * CANDIDATE_MULT = wanted
  BY <1>2
<1>5. /\ wanted <= CorpusSize
      /\ bm25_results \in Rankings(Rows, wanted)
      /\ Fusing => semantic_results \in Rankings(Rows, fewer)
  BY DEF RankingsOK
<1> HIDE DEF wanted
<1>6. fewer \in Nat /\ fewer <= wanted
  BY <1>1, <1>4 DEF Smaller
<1> HIDE DEF fewer
<1>7. Len(bm25_results) = wanted /\ Ranking(bm25_results, wanted)
  BY <1>4, <1>5, RankingIs
<1>8. Fusing => Len(semantic_results) = fewer /\ Ranking(semantic_results, fewer)
  BY <1>5, <1>6, RankingIs
<1> QED BY <1>3, <1>4, <1>5, <1>6, <1>7, <1>8

LEMMA InitIInv == Init => IInv
<1> SUFFICES ASSUME Init PROVE IInv
  OBVIOUS
<1>1. TypeOK
  BY DEF Init, TypeOK
<1> QED BY <1>1 DEF Init, IInv, RankingsOK, DictOK, ResultOK, Served, Fusing

LEMMA NextTypeOK ==
  ASSUME IInv, [Next]_vars
  PROVE  TypeOK'
<1>1. TypeOK /\ RankingsOK /\ DictOK
  BY DEF IInv
<1>2. CASE UNCHANGED vars
  BY <1>1, <1>2 DEF TypeOK, vars
<1>3. CASE Reject \/ TooFewRows \/ NoSuchChunk
  BY <1>1, <1>3 DEF TypeOK, Reject, TooFewRows, NoSuchChunk
<1>4. CASE RetrieveBM25
  <2>1. k * CANDIDATE_MULT \in Nat
    BY <1>1, <1>4, Candidates, SizesAssumption DEF TypeOK, RetrieveBM25
  <2>2. bm25_results' \in Seq(Rows)
    BY <1>4, <2>1, RankingIs DEF RetrieveBM25
  <2> QED BY <1>1, <1>4, <2>2 DEF TypeOK, RetrieveBM25
<1>5. CASE LexicalOnly
  <2>1. Served
    BY <1>5 DEF LexicalOnly, Served
  <2>2. SubSeq(bm25_results, 1, k) \in Seq(Rows)
    BY <1>1, <2>1, ListsAre DEF TypeOK
  <2> QED BY <1>1, <1>5, <2>2 DEF TypeOK, LexicalOnly
<1>6. CASE RetrieveSemantic
  <2>1. k \in Int /\ k > 0 /\ faiss_rows \in Nat
    BY <1>1, <1>6, SizesAssumption DEF TypeOK, RankingsOK, Served, RetrieveSemantic
  <2>2. PICK found \in FaissRankings : ToSet(found) \subseteq Rows /\ semantic_results' = found
    BY <1>6 DEF RetrieveSemantic
  <2> DEFINE n == Smaller(k * CANDIDATE_MULT, faiss_rows)
  <2>3. n \in Nat
    BY <2>1, Candidates DEF Smaller
  <2> HIDE DEF n
  <2>4. found \in [1 .. n -> 0 .. faiss_rows - 1]
    BY DEF FaissRankings, Rankings, n
  <2>5. \A i \in 1 .. n : found[i] \in Rows
    BY <2>2, <2>4 DEF ToSet
  <2>6. found \in Seq(Rows)
    BY <2>3, <2>4, <2>5
  <2> QED BY <1>1, <1>6, <2>2, <2>6 DEF TypeOK, RetrieveSemantic
<1>7. CASE FuseBM25
  <2>1. Served
    BY <1>7 DEF FuseBM25, Served
  <2>2. rank + 1 \in 1 .. Len(bm25_results) /\ rank \in Nat /\ bm25_results[rank + 1] \in Rows
    BY <1>1, <1>7, <2>1, ListsAre DEF TypeOK, FuseBM25, Smaller, Ranking
  <2>3. Credit(rrf_scores, bm25_results[rank + 1], Share(rank)) \in Seq(Entries)
    BY <1>1, <2>2, CreditTypes, ShareTypes DEF TypeOK, Entries, Score, Positive
  <2>4. rank + 1 \in 0 .. Smaller(k * CANDIDATE_MULT, CorpusSize) \cup {0}
    BY <1>1, <2>1, <2>2, ListsAre, SizesAssumption DEF Smaller
  <2> QED BY <1>1, <1>7, <2>3, <2>4 DEF TypeOK, FuseBM25, Entries, Score, Positive
<1>8. CASE BM25Fused
  BY <1>1, <1>8 DEF TypeOK, BM25Fused
<1>9. CASE FuseSemantic
  <2>1. Served /\ Fusing
    BY <1>9 DEF FuseSemantic, Served, Fusing
  <2>2. rank + 1 \in 1 .. Len(semantic_results) /\ rank \in Nat /\ semantic_results[rank + 1] \in Rows
    BY <1>1, <1>9, <2>1, ListsAre DEF TypeOK, FuseSemantic, Smaller, Ranking
  <2>3. Credit(rrf_scores, semantic_results[rank + 1], Share(rank)) \in Seq(Entries)
    BY <1>1, <2>2, CreditTypes, ShareTypes DEF TypeOK, Entries, Score, Positive
  <2>4. rank + 1 \in 0 .. Smaller(k * CANDIDATE_MULT, CorpusSize) \cup {0}
    BY <1>1, <2>1, <2>2, ListsAre, SizesAssumption DEF Smaller
  <2> QED BY <1>1, <1>9, <2>3, <2>4 DEF TypeOK, FuseSemantic, Entries, Score, Positive
<1>10. CASE TakeBest
  <2>1. PICK picks \in Rankings(DOMAIN rrf_scores, Smaller(k, Len(rrf_scores))) :
          result' = [i \in DOMAIN picks |-> rrf_scores[picks[i]].row]
    BY <1>10 DEF TakeBest
  <2> DEFINE n == Smaller(k, Len(rrf_scores))
  <2>2. Served
    BY <1>10 DEF TakeBest, Served
  <2>3. rrf_scores \in Seq(Entries)
    BY <1>1 DEF TypeOK, Entries, Score, Positive
  <2>4. n \in Nat
    BY <1>1, <2>2, <2>3, ListsAre DEF Smaller
  <2> HIDE DEF n
  <2>5. picks \in [1 .. n -> DOMAIN rrf_scores]
    BY <2>1 DEF Rankings, n
  <2>6. \A i \in DOMAIN rrf_scores : rrf_scores[i].row \in Rows
    <3>1. \A i \in DOMAIN rrf_scores : rrf_scores[i] \in Entries
      BY <2>3
    <3> QED BY <3>1 DEF Entries
  <2>7. result' \in [1 .. n -> Rows]
    BY <2>1, <2>5, <2>6
  <2>8. result' \in Seq(Rows)
    BY <2>4, <2>7
  <2> QED BY <1>1, <1>10, <2>8 DEF TypeOK, TakeBest
<1> QED BY <1>2, <1>3, <1>4, <1>5, <1>6, <1>7, <1>8, <1>9, <1>10 DEF Next

LEMMA NextRankingsOK ==
  ASSUME IInv, [Next]_vars
  PROVE  RankingsOK'
<1>1. TypeOK /\ RankingsOK
  BY DEF IInv
<1>0. k \in Int /\ (k <= 0 => ~(k > 0)) /\ (~(k <= 0) => k > 0)
  BY <1>1, SizesAssumption DEF TypeOK
<1>2. CASE UNCHANGED vars
  BY <1>1, <1>2 DEF RankingsOK, Served, Fusing, vars
<1>3. CASE Reject \/ TooFewRows \/ NoSuchChunk
  BY <1>0, <1>1, <1>3 DEF RankingsOK, Served, Fusing, Reject, TooFewRows, NoSuchChunk
<1>4. CASE RetrieveBM25
  BY <1>1, <1>4 DEF RankingsOK, Served, Fusing, RetrieveBM25
<1>5. CASE LexicalOnly
  BY <1>1, <1>5 DEF RankingsOK, Served, Fusing, LexicalOnly
<1>6. CASE RetrieveSemantic
  <2>1. PICK found \in FaissRankings : ToSet(found) \subseteq Rows /\ semantic_results' = found
    BY <1>6 DEF RetrieveSemantic
  <2> DEFINE n == Smaller(k * CANDIDATE_MULT, faiss_rows)
  <2>2. found \in [1 .. n -> 0 .. faiss_rows - 1] /\ IsInjective(found)
    BY DEF FaissRankings, Rankings
  <2> HIDE DEF n
  <2>3. \A i \in 1 .. n : found[i] \in Rows
    BY <2>1, <2>2 DEF ToSet
  <2>4. found \in Rankings(Rows, n)
    BY <2>2, <2>3 DEF Rankings
  <2> QED BY <1>1, <1>6, <2>1, <2>4 DEF RankingsOK, Served, Fusing, RetrieveSemantic, n
<1>7. CASE FuseBM25 \/ BM25Fused \/ FuseSemantic
  BY <1>1, <1>7 DEF RankingsOK, Served, Fusing, FuseBM25, BM25Fused, FuseSemantic
<1>8. CASE TakeBest
  BY <1>1, <1>8 DEF RankingsOK, Served, Fusing, TakeBest
<1> QED BY <1>2, <1>3, <1>4, <1>5, <1>6, <1>7, <1>8 DEF Next

LEMMA NextDictOK ==
  ASSUME IInv, [Next]_vars
  PROVE  DictOK'
<1>1. TypeOK /\ RankingsOK /\ DictOK
  BY DEF IInv
<1>0. k \in Int /\ (k <= 0 => ~(k > 0)) /\ (~(k <= 0) => k > 0)
  BY <1>1, SizesAssumption DEF TypeOK
<1>2. CASE UNCHANGED vars
  BY <1>1, <1>2 DEF DictOK, Fusing, vars
<1>3. CASE Reject \/ TooFewRows \/ NoSuchChunk \/ RetrieveBM25 \/ LexicalOnly
  BY <1>0, <1>1, <1>3 DEF DictOK, Fusing, Reject, TooFewRows, NoSuchChunk, RetrieveBM25, LexicalOnly
<1>4. CASE RetrieveSemantic
  <2>1. rank' = 0 /\ rrf_scores' = << >> /\ pc' = "fuse_bm25" /\ bm25_results' = bm25_results
    BY <1>1, <1>4 DEF DictOK, RetrieveSemantic
  <2>2. \A b, s : Fused(<< >>, b, 0, s, 0)
    BY DEF Fused
  <2>3. Len(bm25_results) \in Nat
    BY <1>1 DEF TypeOK
  <2>4. Fused(rrf_scores', bm25_results', rank', semantic_results', 0)
    BY <2>1, <2>2
  <2> QED BY <2>1, <2>3, <2>4 DEF DictOK
<1>5. CASE FuseBM25
  <2>1. Served /\ pc' = "fuse_bm25" /\ rank < Len(bm25_results) /\ rank' = rank + 1
        /\ rrf_scores' = Credit(rrf_scores, bm25_results[rank + 1], Share(rank))
        /\ UNCHANGED <<bm25_results, semantic_results>>
        /\ Fused(rrf_scores, bm25_results, rank, semantic_results, 0)
    BY <1>1, <1>5 DEF FuseBM25, Served, DictOK
  <2>2. rank \in Nat /\ Len(bm25_results) \in Nat /\ Ranking(bm25_results, Len(bm25_results))
        /\ rrf_scores \in Seq(Entries)
    BY <1>1, <2>1, ListsAre DEF TypeOK, Entries, Score, Positive
  <2>3. Ranking(bm25_results, rank + 1)
    BY <2>1, <2>2 DEF Ranking
  <2>4. Fused(Credit(rrf_scores, bm25_results[rank + 1], Share(rank)),
              bm25_results, rank + 1, semantic_results, 0)
    BY <2>1, <2>2, <2>3, FuseFirst
  <2> QED BY <2>1, <2>2, <2>4 DEF DictOK
<1>6. CASE BM25Fused
  <2>1. /\ pc' = "fuse_semantic" /\ rank' = 0 /\ rank = Len(bm25_results)
        /\ UNCHANGED <<bm25_results, semantic_results, rrf_scores>>
        /\ Fused(rrf_scores, bm25_results, rank, semantic_results, 0)
    BY <1>1, <1>6 DEF BM25Fused, DictOK
  <2>2. Len(semantic_results) \in Nat
    BY <1>1 DEF TypeOK
  <2> QED BY <2>1, <2>2 DEF DictOK
<1>7. CASE FuseSemantic
  <2>1. Served /\ Fusing /\ pc' = "fuse_semantic" /\ rank < Len(semantic_results) /\ rank' = rank + 1
        /\ rrf_scores' = Credit(rrf_scores, semantic_results[rank + 1], Share(rank))
        /\ UNCHANGED <<bm25_results, semantic_results>>
        /\ Fused(rrf_scores, bm25_results, Len(bm25_results), semantic_results, rank)
    BY <1>1, <1>7 DEF FuseSemantic, Served, Fusing, DictOK
  <2>2. rank \in Nat /\ Len(bm25_results) \in Nat /\ Ranking(bm25_results, Len(bm25_results))
        /\ Len(semantic_results) \in Nat /\ Ranking(semantic_results, Len(semantic_results))
        /\ rrf_scores \in Seq(Entries)
    BY <1>1, <2>1, ListsAre DEF TypeOK, Entries, Score, Positive
  <2>3. Ranking(semantic_results, rank + 1)
    BY <2>1, <2>2 DEF Ranking
  <2>4. Fused(Credit(rrf_scores, semantic_results[rank + 1], Share(rank)),
              bm25_results, Len(bm25_results), semantic_results, rank + 1)
    BY <2>1, <2>2, <2>3, FuseSecond
  <2> QED BY <2>1, <2>2, <2>4 DEF DictOK
<1>8. CASE TakeBest
  BY <1>1, <1>8 DEF DictOK, Fusing, TakeBest
<1> QED BY <1>2, <1>3, <1>4, <1>5, <1>6, <1>7, <1>8 DEF Next

LEMMA NextResultOK ==
  ASSUME IInv, [Next]_vars
  PROVE  ResultOK'
<1>1. TypeOK /\ RankingsOK /\ DictOK /\ ResultOK
  BY DEF IInv
<1>0. k \in Int /\ (k <= 0 => ~(k > 0)) /\ (~(k <= 0) => k > 0)
  BY <1>1, SizesAssumption DEF TypeOK
<1>2. CASE UNCHANGED vars
  BY <1>1, <1>2 DEF ResultOK, Best, Sorted, vars
<1>3. CASE pc' # "done"
  BY <1>3 DEF ResultOK
<1>4. CASE Reject
  BY <1>0, <1>1, <1>4 DEF ResultOK, DictOK, Reject
<1>5. CASE LexicalOnly
  BY <1>0, <1>1, <1>5 DEF ResultOK, RankingsOK, Served, LexicalOnly
<1>6. CASE TakeBest
  <2>1. Served /\ Fusing /\ rank = Len(semantic_results)
        /\ Fused(rrf_scores, bm25_results, Len(bm25_results), semantic_results, rank)
    BY <1>1, <1>6 DEF TakeBest, Served, Fusing, DictOK
  <2>2. k > 0 /\ ~blank /\ faiss_rows # 0
    BY <1>1, <2>1 DEF RankingsOK
  <2>3. k \in Nat \ {0} /\ k <= Len(bm25_results) /\ Len(bm25_results) \in Nat
    BY <1>1, <2>1, ListsAre
  <2>4. Len(rrf_scores) \in Nat /\ DOMAIN rrf_scores = 1 .. Len(rrf_scores)
    BY <1>1 DEF TypeOK
  <2>5. Smaller(k, Len(rrf_scores)) = k
    <3>1. Len(bm25_results) <= Len(rrf_scores)
      BY <2>1 DEF Fused
    <3>2. k \in Nat /\ k <= Len(rrf_scores)
      BY <2>3, <2>4, <3>1
    <3> QED BY <2>4, <3>2, SmallerIs
  <2>6. PICK picks \in Rankings(1 .. Len(rrf_scores), k) :
          Sorted(picks) /\ result' = [i \in DOMAIN picks |-> rrf_scores[picks[i]].row]
    BY <1>6, <2>4, <2>5 DEF TakeBest
  <2>7. picks \in [1 .. k -> 1 .. Len(rrf_scores)] /\ DOMAIN picks = 1 .. k
    BY DEF Rankings
  <2>8. UNCHANGED <<blank, k, faiss_rows, rrf_scores>> /\ pc' = "done"
    BY <1>6 DEF TakeBest
  <2>9. Best(picks)'
    BY <2>6, <2>7, <2>8 DEF Best, Sorted
  <2> QED BY <1>0, <2>2, <2>7, <2>8, <2>9 DEF ResultOK
<1>7. Next => pc' # "done" \/ Reject \/ LexicalOnly \/ TakeBest
  BY DEF Next, RetrieveBM25, TooFewRows, RetrieveSemantic, NoSuchChunk, FuseBM25, BM25Fused,
         FuseSemantic
<1> QED BY <1>2, <1>3, <1>4, <1>5, <1>6, <1>7

THEOREM Invariance == Spec => []IInv
<1>1. IInv /\ [Next]_vars => IInv'
  BY NextTypeOK, NextRankingsOK, NextDictOK, NextResultOK DEF IInv
<1> QED BY InitIInv, <1>1, PTL DEF Spec

THEOREM TypeCorrect == Spec => []TypeOK
<1>1. IInv => TypeOK
  BY DEF IInv
<1> QED BY <1>1, Invariance, PTL

-----------------------------------------------------------------------------
\* How scores compare.

LEMMA BothSharesIs ==
  ASSUME NEW a \in Nat, NEW b \in Nat
  PROVE  LET u == RRF_CONSTANT + a + 1
             v == RRF_CONSTANT + b + 1
         IN  Plus(Share(a), Share(b)) = [num |-> v + u, den |-> u * v]
<1> DEFINE u == RRF_CONSTANT + a + 1
           v == RRF_CONSTANT + b + 1
<1>1. u \in Nat /\ v \in Nat
  BY SizesAssumption
<1>2. Share(a).num = 1 /\ Share(b).num = 1 /\ Share(a).den = u /\ Share(b).den = v
  BY DEF Share
<1> HIDE DEF u, v
<1>3. 1 * v + 1 * u = v + u
  BY <1>1
<1>4. Plus(Share(a), Share(b)) = [num |-> v + u, den |-> u * v]
  BY <1>2, <1>3 DEF Plus
<1> QED BY <1>4 DEF u, v

\* Two better places are worth more than two worse ones,
LEMMA BetterInBoth ==
  ASSUME NEW a \in Nat, NEW b \in Nat, NEW c \in Nat, NEW d \in Nat, a < c, b < d
  PROVE  Above(Plus(Share(a), Share(b)), Plus(Share(c), Share(d)))
<1> DEFINE u == RRF_CONSTANT + a + 1
           v == RRF_CONSTANT + b + 1
           w == RRF_CONSTANT + c + 1
           x == RRF_CONSTANT + d + 1
<1>1. u \in Positive /\ v \in Positive /\ w \in Positive /\ x \in Positive /\ u < w /\ v < x
  BY SizesAssumption DEF Positive
<1>2. /\ Plus(Share(a), Share(b)) = [num |-> v + u, den |-> u * v]
      /\ Plus(Share(c), Share(d)) = [num |-> x + w, den |-> w * x]
  BY BothSharesIs
<1> HIDE DEF u, v, w, x
<1>3. u \in Nat /\ v \in Nat /\ w \in Nat /\ x \in Nat
  BY <1>1 DEF Positive
<1>4. u * (v * x) < w * (v * x) /\ v * (u * w) < x * (u * w)
  <2>1. v * x \in Positive /\ u * w \in Positive
    BY <1>1, ProductPositive
  <2> QED BY <1>1, <1>3, <2>1, ProductStrict
<1>5. (x + w) * (u * v) = u * (v * x) + v * (u * w)
  BY <1>3
<1>6. (v + u) * (w * x) = w * (v * x) + x * (u * w)
  BY <1>3
<1>7. /\ u * (v * x) \in Nat /\ w * (v * x) \in Nat /\ v * (u * w) \in Nat /\ x * (u * w) \in Nat
  BY <1>3
<1>8. (v + u) * (w * x) > (x + w) * (u * v)
  BY <1>4, <1>5, <1>6, <1>7
<1> QED BY <1>2, <1>8 DEF Above

\* two places more than one that is no better than either of them,
LEMMA BetterInOne ==
  ASSUME NEW a \in Nat, NEW b \in Nat, NEW c \in Nat, a <= c \/ b <= c
  PROVE  Above(Plus(Share(a), Share(b)), Share(c))
<1> DEFINE u == RRF_CONSTANT + a + 1
           v == RRF_CONSTANT + b + 1
           w == RRF_CONSTANT + c + 1
<1>1. u \in Positive /\ v \in Positive /\ w \in Positive /\ (u <= w \/ v <= w)
  BY SizesAssumption DEF Positive
<1>2. /\ Plus(Share(a), Share(b)) = [num |-> v + u, den |-> u * v]
      /\ Share(c) = [num |-> 1, den |-> w]
  BY BothSharesIs DEF Share
<1> HIDE DEF u, v, w
<1>3. u \in Nat /\ v \in Nat /\ w \in Nat
  BY <1>1 DEF Positive
<1>4. u * v \in Nat /\ v * w \in Positive /\ u * w \in Positive
  BY <1>1, <1>3, ProductPositive
<1>5. u * v <= v * w \/ u * v <= u * w
  <2>1. CASE u <= w
    <3>1. u * v <= w * v /\ w * v = v * w
      BY <1>3, <2>1, ProductMonotone
    <3> QED BY <3>1
  <2>2. CASE v <= w
    <3>1. v * u <= w * u /\ w * u = u * w /\ v * u = u * v
      BY <1>3, <2>2, ProductMonotone
    <3> QED BY <3>1
  <2> QED BY <1>1, <2>1, <2>2
<1>6. (v + u) * w = v * w + u * w
  BY <1>3
<1>7. (v + u) * w > 1 * (u * v)
  BY <1>4, <1>5, <1>6 DEF Positive
<1> QED BY <1>2, <1>7 DEF Above

\* and two places among the first RRF_CONSTANT + 1 more than any one place.
LEMMA NearTopInBoth ==
  ASSUME NEW a \in Nat, NEW b \in Nat, NEW c \in Nat, a <= RRF_CONSTANT, b <= RRF_CONSTANT
  PROVE  Above(Plus(Share(a), Share(b)), Share(c))
<1> DEFINE u == RRF_CONSTANT + a + 1
           v == RRF_CONSTANT + b + 1
           w == RRF_CONSTANT + c + 1
           r == RRF_CONSTANT + 1
<1>1. /\ u \in Positive /\ v \in Positive /\ w \in Nat /\ r \in Nat
      /\ u < 2 * r /\ v < 2 * r /\ r <= w
  BY SizesAssumption DEF Positive
<1>2. /\ Plus(Share(a), Share(b)) = [num |-> v + u, den |-> u * v]
      /\ Share(c) = [num |-> 1, den |-> w]
  BY BothSharesIs DEF Share
<1> HIDE DEF u, v, w, r
<1>3. u \in Nat /\ v \in Nat /\ 2 * r \in Nat /\ v + u \in Nat
  BY <1>1 DEF Positive
<1>4. u * v < (2 * r) * v /\ v * u < (2 * r) * u
  BY <1>1, <1>3, ProductStrict
<1>5. v * u = u * v /\ (2 * r) * v = 2 * (r * v) /\ (2 * r) * u = 2 * (r * u)
      /\ r * (v + u) = r * v + r * u /\ w * (v + u) = (v + u) * w
  BY <1>1, <1>3
<1>6. r * (v + u) <= w * (v + u)
  BY <1>1, <1>3, ProductMonotone
<1>7. u * v \in Nat /\ r * v \in Nat /\ r * u \in Nat /\ (v + u) * w \in Nat
  BY <1>1, <1>3
<1>8. (v + u) * w > 1 * (u * v)
  BY <1>4, <1>5, <1>6, <1>7
<1> QED BY <1>2, <1>8 DEF Above

\* The same of the entries of the dict: one both lists have is above one that
\* comes later in each list that has it,
LEMMA AgreedIsAbove ==
  ASSUME NEW e, NEW f, NEW b, NEW n \in Nat, NEW s, NEW m \in Nat,
         ScoreIs(e, b, n, s, m), ScoreIs(f, b, n, s, m),
         NEW i \in 1 .. n, NEW j \in 1 .. m, b[i] = e.row, s[j] = e.row,
         \A h \in 1 .. i : b[h] # f.row, \A h \in 1 .. j : s[h] # f.row,
         (\E h \in 1 .. n : b[h] = f.row) \/ (\E h \in 1 .. m : s[h] = f.row)
  PROVE  Above(e.score, f.score)
<1>1. e.score = Plus(Share(i - 1), Share(j - 1)) /\ i - 1 \in Nat /\ j - 1 \in Nat
  BY DEF ScoreIs
<1>2. \A h \in 1 .. n : b[h] = f.row => h - 1 \in Nat /\ i - 1 < h - 1 /\ i - 1 <= h - 1
  <2> SUFFICES ASSUME NEW h \in 1 .. n, b[h] = f.row PROVE i < h
    OBVIOUS
  <2> QED OBVIOUS
<1>3. \A h \in 1 .. m : s[h] = f.row => h - 1 \in Nat /\ j - 1 < h - 1 /\ j - 1 <= h - 1
  <2> SUFFICES ASSUME NEW h \in 1 .. m, s[h] = f.row PROVE j < h
    OBVIOUS
  <2> QED OBVIOUS
<1>4. CASE \E g \in 1 .. n : \E h \in 1 .. m : b[g] = f.row /\ s[h] = f.row
  <2>1. PICK g \in 1 .. n : \E h \in 1 .. m : b[g] = f.row /\ s[h] = f.row
    BY <1>4
  <2>2. PICK h \in 1 .. m : s[h] = f.row
    BY <2>1
  <2>3. f.score = Plus(Share(g - 1), Share(h - 1))
    BY <2>1, <2>2 DEF ScoreIs
  <2>4. g - 1 \in Nat /\ h - 1 \in Nat /\ i - 1 < g - 1 /\ j - 1 < h - 1
    BY <1>2, <1>3, <2>1, <2>2
  <2> QED BY <1>1, <2>3, <2>4, BetterInBoth
<1>5. CASE (\E g \in 1 .. n : b[g] = f.row) /\ \A h \in 1 .. m : s[h] # f.row
  <2>1. PICK g \in 1 .. n : b[g] = f.row
    BY <1>5
  <2>2. f.score = Share(g - 1)
    BY <1>5, <2>1 DEF ScoreIs
  <2>3. g - 1 \in Nat /\ i - 1 <= g - 1
    BY <1>2, <2>1
  <2> QED BY <1>1, <2>2, <2>3, BetterInOne
<1>6. CASE (\E h \in 1 .. m : s[h] = f.row) /\ \A g \in 1 .. n : b[g] # f.row
  <2>1. PICK h \in 1 .. m : s[h] = f.row
    BY <1>6
  <2>2. f.score = Share(h - 1)
    BY <1>6, <2>1 DEF ScoreIs
  <2>3. h - 1 \in Nat /\ j - 1 <= h - 1
    BY <1>3, <2>1
  <2> QED BY <1>1, <2>2, <2>3, BetterInOne
<1> QED BY <1>4, <1>5, <1>6

\* and one near the top of both is above one only one list has.
LEMMA NearTopIsAbove ==
  ASSUME NEW e, NEW f, NEW b, NEW n \in Nat, NEW s, NEW m \in Nat,
         ScoreIs(e, b, n, s, m), ScoreIs(f, b, n, s, m),
         NEW i \in 1 .. n, NEW j \in 1 .. m, b[i] = e.row, s[j] = e.row,
         i <= RRF_CONSTANT + 1, j <= RRF_CONSTANT + 1,
         (\E h \in 1 .. n : b[h] = f.row) \/ (\E h \in 1 .. m : s[h] = f.row),
         (\A h \in 1 .. n : b[h] # f.row) \/ (\A h \in 1 .. m : s[h] # f.row)
  PROVE  Above(e.score, f.score)
<1>1. e.score = Plus(Share(i - 1), Share(j - 1)) /\ i - 1 \in Nat /\ j - 1 \in Nat
      /\ i - 1 <= RRF_CONSTANT /\ j - 1 <= RRF_CONSTANT
  BY SizesAssumption DEF ScoreIs
<1>2. PICK c \in Nat : f.score = Share(c)
  <2>1. CASE (\E g \in 1 .. n : b[g] = f.row) /\ \A h \in 1 .. m : s[h] # f.row
    <3>1. PICK g \in 1 .. n : b[g] = f.row
      BY <2>1
    <3>2. f.score = Share(g - 1) /\ g - 1 \in Nat
      BY <2>1, <3>1 DEF ScoreIs
    <3> QED BY <3>2
  <2>2. CASE (\E h \in 1 .. m : s[h] = f.row) /\ \A g \in 1 .. n : b[g] # f.row
    <3>1. PICK h \in 1 .. m : s[h] = f.row
      BY <2>2
    <3>2. f.score = Share(h - 1) /\ h - 1 \in Nat
      BY <2>2, <3>1 DEF ScoreIs
    <3> QED BY <3>2
  <2> QED BY <2>1, <2>2
<1> QED BY <1>1, <1>2, NearTopInBoth

-----------------------------------------------------------------------------
\* What a search returns.

\* The rows of the k best entries, all different.
LEMMA FusedResult ==
  ASSUME IInv, pc = "done", Fusing, NEW picks \in [1 .. k -> 1 .. Len(rrf_scores)], Best(picks)
  PROVE  /\ k \in Nat \ {0} /\ Len(result) = k /\ DOMAIN result = 1 .. k
         /\ \A c \in 1 .. k : result[c] = rrf_scores[picks[c]].row
         /\ \A c, d \in 1 .. k : result[c] = result[d] => c = d
<1>1. TypeOK /\ RankingsOK /\ Served
  BY DEF IInv, Fusing, Served
<1>2. k \in Nat \ {0}
  BY <1>1, ListsAre
<1>3. result = [c \in 1 .. k |-> rrf_scores[picks[c]].row]
      /\ \A c, d \in 1 .. k : picks[c] = picks[d] => c = d
  BY DEF Best, Rankings, IsInjective
<1>4. \A e, f \in 1 .. Len(rrf_scores) : rrf_scores[e].row = rrf_scores[f].row => e = f
  BY DEF IInv, DictOK, Fused
<1>5. \A c \in 1 .. k : picks[c] \in 1 .. Len(rrf_scores)
  OBVIOUS
<1>6. Len(result) = k /\ DOMAIN result = 1 .. k
  <2>1. result \in Seq(Rows)
    BY <1>1 DEF TypeOK
  <2>2. DOMAIN result = 1 .. Len(result) /\ Len(result) \in Nat
    BY <2>1
  <2>3. DOMAIN result = 1 .. k
    BY <1>3
  <2>4. k \in Nat /\ 1 .. k = 1 .. Len(result)
    BY <1>2, <2>2, <2>3
  <2>5. k \in 1 .. Len(result) /\ Len(result) <= k
    <3>1. k \in 1 .. k
      BY <1>2
    <3>2. k \in 1 .. Len(result)
      BY <2>4, <3>1
    <3>3. Len(result) \in 1 .. Len(result)
      BY <2>2, <3>2
    <3>4. Len(result) \in 1 .. k
      BY <2>4, <3>3
    <3> QED BY <2>2, <3>2, <3>4
  <2>6. \A l \in Nat : k \in 1 .. l /\ l <= k => l = k
    BY <2>4
  <2> QED BY <2>2, <2>3, <2>5, <2>6
<1> QED BY <1>2, <1>3, <1>4, <1>5, <1>6

\* In a fused search, an entry above that of a chunk returned is returned
\* before it.
LEMMA AboveIsBefore ==
  ASSUME IInv, pc = "done", Fusing, NEW y \in ToSet(result)
  PROVE  \E f \in 1 .. Len(rrf_scores) :
           /\ rrf_scores[f].row = y
           /\ \A e \in 1 .. Len(rrf_scores) :
                Above(rrf_scores[e].score, rrf_scores[f].score) =>
                  Before(result, rrf_scores[e].row, y)
<1>0. TypeOK /\ RankingsOK /\ ResultOK /\ k > 0 /\ ~blank /\ faiss_rows # 0
  BY DEF IInv, Fusing, RankingsOK
<1>1. PICK picks \in [1 .. k -> 1 .. Len(rrf_scores)] : Best(picks)
  BY <1>0 DEF ResultOK
<1>2. /\ k \in Nat \ {0} /\ Len(result) = k /\ DOMAIN result = 1 .. k
      /\ \A c \in 1 .. k : result[c] = rrf_scores[picks[c]].row
      /\ \A c, d \in 1 .. k : result[c] = result[d] => c = d
  BY <1>1, FusedResult
<1>3. PICK c \in 1 .. k : result[c] = y
  BY <1>2 DEF ToSet
<1>4. picks[c] \in 1 .. Len(rrf_scores) /\ rrf_scores[picks[c]].row = y
  BY <1>2, <1>3
<1>5. ASSUME NEW e \in 1 .. Len(rrf_scores),
             Above(rrf_scores[e].score, rrf_scores[picks[c]].score)
      PROVE  Before(result, rrf_scores[e].row, y)
  <2>1. e \in DOMAIN rrf_scores /\ c \in DOMAIN picks
    BY <1>0 DEF TypeOK
  <2>2. PICK d \in 1 .. c - 1 : picks[d] = e
    BY <1>1, <1>5, <2>1 DEF Best, Sorted
  <2>3. d \in 1 .. k /\ d < c /\ \A h \in 1 .. d : h \in 1 .. k /\ h # c
    BY <1>2
  <2>4. result[d] = rrf_scores[e].row /\ \A h \in 1 .. d : result[h] # y
    BY <1>2, <1>3, <2>2, <2>3
  <2> QED BY <1>2, <2>3, <2>4 DEF Before
<1> QED BY <1>4, <1>5

\* A search that returns for a real query returns k chunks, all different.
THEOREM KDifferent == Spec => []ExactlyK
<1>1. IInv => ExactlyK
  <2> SUFFICES ASSUME IInv, pc = "done"
               PROVE  /\ Len(result) = IF k <= 0 \/ blank THEN 0 ELSE k
                      /\ IsInjective(result)
    BY DEF ExactlyK
  <2>1. TypeOK /\ RankingsOK /\ ResultOK /\ k \in Int
    BY SizesAssumption DEF IInv, TypeOK
  <2>2. CASE k <= 0 \/ blank
    <3>1. result = << >>
      BY <2>1, <2>2 DEF ResultOK
    <3>2. Len(result) = 0 /\ IsInjective(result)
      BY <3>1 DEF IsInjective
    <3> QED BY <2>2, <3>2
  <2>3. CASE ~(k <= 0) /\ ~blank /\ faiss_rows = 0
    <3>1. Served
      BY <2>1, <2>3 DEF Served
    <3>2. /\ k \in Nat \ {0} /\ k <= Len(bm25_results) /\ Len(bm25_results) \in Nat
          /\ Ranking(bm25_results, Len(bm25_results)) /\ bm25_results \in Seq(Rows)
      BY <2>1, <3>1, ListsAre DEF TypeOK
    <3>3. result = SubSeq(bm25_results, 1, k)
      BY <2>1, <2>3 DEF ResultOK
    <3>4. DOMAIN result = 1 .. k /\ Len(result) = k
          /\ \A c \in 1 .. k : c \in 1 .. Len(bm25_results) /\ result[c] = bm25_results[c]
      BY <3>2, <3>3
    <3> QED BY <2>3, <3>2, <3>4 DEF Ranking, IsInjective
  <2>4. CASE ~(k <= 0) /\ ~blank /\ faiss_rows # 0
    <3>1. Fusing /\ k > 0
      BY <2>1, <2>4 DEF Fusing
    <3>2. PICK picks \in [1 .. k -> 1 .. Len(rrf_scores)] : Best(picks)
      BY <2>1, <2>4, <3>1 DEF ResultOK
    <3>3. /\ Len(result) = k /\ DOMAIN result = 1 .. k
          /\ \A c, d \in 1 .. k : result[c] = result[d] => c = d
      BY <3>1, <3>2, FusedResult
    <3> QED BY <2>4, <3>3 DEF IsInjective
  <2> QED BY <2>2, <2>3, <2>4
<1> QED BY <1>1, Invariance, PTL

\* The lists of a fused search, and its dict.
LEMMA FusedLists ==
  ASSUME IInv, pc = "done", faiss_rows # 0, NEW y \in ToSet(result)
  PROVE  /\ Fusing
         /\ Len(bm25_results) \in Nat /\ DOMAIN bm25_results = 1 .. Len(bm25_results)
         /\ Len(semantic_results) \in Nat /\ DOMAIN semantic_results = 1 .. Len(semantic_results)
         /\ Len(rrf_scores) \in Nat
         /\ Fused(rrf_scores, bm25_results, Len(bm25_results),
                  semantic_results, Len(semantic_results))
<1>1. TypeOK /\ ResultOK /\ DictOK /\ k \in Int
  BY SizesAssumption DEF IInv, TypeOK
<1>2. Fusing
  <2>1. result # << >>
    BY DEF ToSet
  <2>2. ~(k <= 0 \/ blank)
    BY <1>1, <2>1 DEF ResultOK
  <2> QED BY <1>1, <2>2 DEF Fusing
<1>3. Fused(rrf_scores, bm25_results, Len(bm25_results),
            semantic_results, Len(semantic_results))
  BY <1>1, <1>2 DEF DictOK
<1>4. bm25_results \in Seq(Rows) /\ semantic_results \in Seq(Rows) /\ Len(rrf_scores) \in Nat
  BY <1>1 DEF TypeOK
<1> QED BY <1>2, <1>3, <1>4

\* What an entry of the dict knows of the two lists.
LEMMA EntryIs ==
  ASSUME NEW dict, NEW b, NEW n \in Nat, NEW s, NEW m \in Nat, Len(dict) \in Nat,
         Fused(dict, b, n, s, m)
  PROVE  /\ \A i \in 1 .. n : i \in 1 .. Len(dict) /\ dict[i].row = b[i]
         /\ \A f \in 1 .. Len(dict) :
              /\ ScoreIs(dict[f], b, n, s, m)
              /\ \/ \E h \in 1 .. n : b[h] = dict[f].row
                 \/ \E h \in 1 .. m : s[h] = dict[f].row
<1>1. n <= Len(dict) /\ \A i \in 1 .. n : i \in 1 .. Len(dict)
  BY DEF Fused
<1>2. \A f \in 1 .. Len(dict) : f \in 1 .. n \/ f \in n + 1 .. Len(dict)
  BY <1>1
<1> QED BY <1>1, <1>2 DEF Fused

\* What both rankers agree on, the fusion keeps.
THEOREM Agreement == Spec => []AgreementKept
<1>1. IInv => AgreementKept
  <2> SUFFICES ASSUME IInv, pc = "done", faiss_rows # 0, NEW y \in ToSet(result), NEW x,
                      Before(bm25_results, x, y), Before(semantic_results, x, y)
               PROVE  Before(result, x, y)
    BY DEF AgreementKept
  <2> DEFINE b == bm25_results
             s == semantic_results
             n == Len(bm25_results)
             m == Len(semantic_results)
             dict == rrf_scores
  <2>1. Fusing /\ n \in Nat /\ m \in Nat /\ Len(dict) \in Nat /\ Fused(dict, b, n, s, m)
        /\ DOMAIN b = 1 .. n /\ DOMAIN s = 1 .. m
    BY FusedLists
  <2>2. PICK i \in 1 .. n : b[i] = x /\ \A h \in 1 .. i : b[h] # y
    BY <2>1 DEF Before
  <2>3. PICK j \in 1 .. m : s[j] = x /\ \A h \in 1 .. j : s[h] # y
    BY <2>1 DEF Before
  <2>4. PICK f \in 1 .. Len(dict) :
          /\ dict[f].row = y
          /\ \A e \in 1 .. Len(dict) :
               Above(dict[e].score, dict[f].score) => Before(result, dict[e].row, y)
    BY <2>1, AboveIsBefore
  <2> HIDE DEF b, s, n, m, dict
  <2>5. /\ i \in 1 .. Len(dict) /\ dict[i].row = x
        /\ ScoreIs(dict[i], b, n, s, m) /\ ScoreIs(dict[f], b, n, s, m)
        /\ (\E h \in 1 .. n : b[h] = dict[f].row) \/ (\E h \in 1 .. m : s[h] = dict[f].row)
    BY <2>1, <2>2, EntryIs
  <2>6. /\ b[i] = dict[i].row /\ s[j] = dict[i].row
        /\ \A h \in 1 .. i : b[h] # dict[f].row
        /\ \A h \in 1 .. j : s[h] # dict[f].row
    BY <2>2, <2>3, <2>4, <2>5
  <2>7. Above(dict[i].score, dict[f].score)
    <3> DEFINE dx == dict[i]
               dy == dict[f]
    <3>1. /\ ScoreIs(dx, b, n, s, m) /\ ScoreIs(dy, b, n, s, m)
          /\ (\E h \in 1 .. n : b[h] = dy.row) \/ (\E h \in 1 .. m : s[h] = dy.row)
      BY <2>5
    <3>2. /\ b[i] = dx.row /\ s[j] = dx.row
          /\ \A h \in 1 .. i : b[h] # dy.row
          /\ \A h \in 1 .. j : s[h] # dy.row
      BY <2>6
    <3>3. n \in Nat /\ m \in Nat /\ i \in 1 .. n /\ j \in 1 .. m
      BY <2>1
    <3> HIDE DEF dx, dy
    <3>4. Above(dx.score, dy.score)
      BY ONLY <3>1, <3>2, <3>3, AgreedIsAbove
    <3> QED BY <3>4 DEF dx, dy
  <2> QED BY <2>4, <2>5, <2>7
<1> QED BY <1>1, Invariance, PTL

\* A chunk near the top of both lists comes before every chunk that one of
\* them does not have.
THEOREM NearTopWins == Spec => []NearTopOfBothWins
<1>1. IInv => NearTopOfBothWins
  <2> SUFFICES ASSUME IInv, pc = "done", faiss_rows # 0, NEW y \in ToSet(result), NEW x,
                      NearTop(bm25_results, x), NearTop(semantic_results, x),
                      y \notin ToSet(bm25_results) \/ y \notin ToSet(semantic_results)
               PROVE  Before(result, x, y)
    BY DEF NearTopOfBothWins
  <2> DEFINE b == bm25_results
             s == semantic_results
             n == Len(bm25_results)
             m == Len(semantic_results)
             dict == rrf_scores
  <2>1. Fusing /\ n \in Nat /\ m \in Nat /\ Len(dict) \in Nat /\ Fused(dict, b, n, s, m)
        /\ DOMAIN b = 1 .. n /\ DOMAIN s = 1 .. m
    BY FusedLists
  <2>2. PICK i \in 1 .. n : b[i] = x /\ i <= RRF_CONSTANT + 1
    BY <2>1 DEF NearTop
  <2>3. PICK j \in 1 .. m : s[j] = x /\ j <= RRF_CONSTANT + 1
    BY <2>1 DEF NearTop
  <2>4. PICK f \in 1 .. Len(dict) :
          /\ dict[f].row = y
          /\ \A e \in 1 .. Len(dict) :
               Above(dict[e].score, dict[f].score) => Before(result, dict[e].row, y)
    BY <2>1, AboveIsBefore
  <2>5. (\A h \in 1 .. n : b[h] # y) \/ (\A h \in 1 .. m : s[h] # y)
    BY <2>1 DEF ToSet
  <2> HIDE DEF b, s, n, m, dict
  <2>6. /\ i \in 1 .. Len(dict) /\ dict[i].row = x
        /\ ScoreIs(dict[i], b, n, s, m) /\ ScoreIs(dict[f], b, n, s, m)
        /\ (\E h \in 1 .. n : b[h] = dict[f].row) \/ (\E h \in 1 .. m : s[h] = dict[f].row)
    BY <2>1, <2>2, EntryIs
  <2>7. /\ b[i] = dict[i].row /\ s[j] = dict[i].row
        /\ (\A h \in 1 .. n : b[h] # dict[f].row) \/ (\A h \in 1 .. m : s[h] # dict[f].row)
    BY <2>2, <2>3, <2>4, <2>5, <2>6
  <2>8. Above(dict[i].score, dict[f].score)
    <3> DEFINE dx == dict[i]
               dy == dict[f]
    <3>1. /\ ScoreIs(dx, b, n, s, m) /\ ScoreIs(dy, b, n, s, m)
          /\ (\E h \in 1 .. n : b[h] = dy.row) \/ (\E h \in 1 .. m : s[h] = dy.row)
      BY <2>6
    <3>2. /\ b[i] = dx.row /\ s[j] = dx.row
          /\ (\A h \in 1 .. n : b[h] # dy.row) \/ (\A h \in 1 .. m : s[h] # dy.row)
      BY <2>7
    <3>3. n \in Nat /\ m \in Nat /\ i \in 1 .. n /\ j \in 1 .. m
          /\ i <= RRF_CONSTANT + 1 /\ j <= RRF_CONSTANT + 1
      BY <2>1, <2>2, <2>3
    <3> HIDE DEF dx, dy
    <3>4. Above(dx.score, dy.score)
      BY ONLY <3>1, <3>2, <3>3, NearTopIsAbove
    <3> QED BY <3>4 DEF dx, dy
  <2> QED BY <2>4, <2>6, <2>8
<1> QED BY <1>1, Invariance, PTL
=============================================================================
