------------------------------ MODULE HybridSearch ----------------------------
(***************************************************************************)
(* Indexer.search (src/src/indexer.py): the candidates of BM25 and, with a *)
(* FAISS index, those of the dense search, fused by the sum of their       *)
(* reciprocal ranks.                                                       *)
(*                                                                         *)
(* A chunk is known by its row in corpus_chunks, which the fusion key      *)
(* (file and start offset) identifies.  Ranks count from 0.  Scores are    *)
(* exact fractions; where two are equal the order the code's sum of floats *)
(* gives is left open.                                                     *)
(***************************************************************************)
EXTENDS Integers, Sequences, SequencesExt

CONSTANTS
  CorpusSize,     \* len(corpus_chunks), and the rows of the BM25 index
  FaissSizes,     \* how many rows the FAISS index that was loaded may have
  Ks,             \* the values of k searches ask for
  CANDIDATE_MULT,
  RRF_CONSTANT

ASSUME SizesAssumption ==
  /\ CorpusSize \in Nat
  /\ FaissSizes \subseteq Nat
  /\ Ks \subseteq Int
  /\ CANDIDATE_MULT \in Nat \ {0} /\ RRF_CONSTANT \in Nat

VARIABLES
  blank,          \* the query is empty or all blanks
  k,
  faiss_rows,     \* rows of faiss_index; 0 if there is none, or no --semantic
  bm25_results,
  semantic_results,
  rank,           \* where the loop over the current list of results stands
  rrf_scores,     \* the dict: its keys in the order of insertion, with scores
  result,
  pc

vars == <<blank, k, faiss_rows, bm25_results, semantic_results, rank, rrf_scores, result, pc>>

-----------------------------------------------------------------------------
Rows == 0 .. CorpusSize - 1

Smaller(a, b) == IF a < b THEN a ELSE b

\* Everything a ranker may return: n different rows out of rows.
Rankings(rows, n) == {s \in [1 .. n -> rows] : IsInjective(s)}

\* Scores as fractions.
Plus(x, y) == [num |-> x.num * y.den + y.num * x.den, den |-> x.den * y.den]
Above(x, y) == x.num * y.den > y.num * x.den

\* Mutant: 1.0 / rank.
ShareOfRank(r) == [num |-> 1, den |-> r]

\* 1.0 / (RRF_CONSTANT + rank + 1)
Share(r) == [num |-> 1, den |-> RRF_CONSTANT + r + 1]

Entry(row, score) == [row |-> row, score |-> score]

\* Mutants: every result adds an entry; the second share replaces the first.
CreditTwice(dict, row, share) == Append(dict, Entry(row, share))

CreditLast(dict, row, share) ==
  IF \E i \in DOMAIN dict : dict[i].row = row
    THEN [i \in DOMAIN dict |->
            IF dict[i].row = row THEN Entry(row, share) ELSE dict[i]]
    ELSE Append(dict, Entry(row, share))

\* rrf_scores[cid] += share: an entry of its own at the end for a new key.
Credit(dict, row, share) ==
  IF \E i \in DOMAIN dict : dict[i].row = row
    THEN [i \in DOMAIN dict |->
            IF dict[i].row = row THEN Entry(row, Plus(dict[i].score, share)) ELSE dict[i]]
    ELSE Append(dict, Entry(row, share))

Init ==
  /\ blank \in BOOLEAN
  /\ k \in Ks
  /\ faiss_rows \in {0} \cup FaissSizes
  /\ bm25_results = << >> /\ semantic_results = << >>
  /\ rank = 0
  /\ rrf_scores = << >>
  /\ result = << >>
  /\ pc = "start"

\* `if k <= 0 or not query.strip(): return []`
Reject ==
  /\ pc = "start" /\ (k <= 0 \/ blank)
  /\ pc' = "done"
  /\ UNCHANGED <<blank, k, faiss_rows, bm25_results, semantic_results, rank, rrf_scores, result>>

\* bm25s returns exactly as many rows as it is asked for ...
RetrieveBM25 ==
  /\ pc = "start" /\ k > 0 /\ ~blank
  /\ k * CANDIDATE_MULT <= CorpusSize
  /\ bm25_results' \in Rankings(Rows, k * CANDIDATE_MULT)
  /\ pc' = "ranked"
  /\ UNCHANGED <<blank, k, faiss_rows, semantic_results, rank, rrf_scores, result>>

\* ... and raises if it does not have them.
TooFewRows ==
  /\ pc = "start" /\ k > 0 /\ ~blank
  /\ k * CANDIDATE_MULT > CorpusSize
  /\ pc' = "raised"
  /\ UNCHANGED <<blank, k, faiss_rows, bm25_results, semantic_results, rank, rrf_scores, result>>

\* `return bm25_results[:k]`
LexicalOnly ==
  /\ pc = "ranked" /\ faiss_rows = 0
  /\ result' = SubSeq(bm25_results, 1, k)
  /\ pc' = "done"
  /\ UNCHANGED <<blank, k, faiss_rows, bm25_results, semantic_results, rank, rrf_scores>>

\* FAISS returns as many rows as it has and pads with -1, which is dropped.
FaissRankings == Rankings(0 .. faiss_rows - 1, Smaller(k * CANDIDATE_MULT, faiss_rows))

RetrieveSemantic ==
  /\ pc = "ranked" /\ faiss_rows # 0
  /\ \E found \in FaissRankings :
       /\ ToSet(found) \subseteq Rows
       /\ semantic_results' = found
  /\ pc' = "fuse_bm25"
  /\ UNCHANGED <<blank, k, faiss_rows, bm25_results, rank, rrf_scores, result>>

\* A row of a FAISS index larger than the corpus: corpus_chunks[idx] raises.
NoSuchChunk ==
  /\ pc = "ranked" /\ faiss_rows # 0
  /\ \E found \in FaissRankings : ~(ToSet(found) \subseteq Rows)
  /\ pc' = "raised"
  /\ UNCHANGED <<blank, k, faiss_rows, bm25_results, semantic_results, rank, rrf_scores, result>>

\* `for rank, chunk in enumerate(bm25_results)`
FuseBM25 ==
  /\ pc = "fuse_bm25" /\ rank < Len(bm25_results)
  /\ rrf_scores' = Credit(rrf_scores, bm25_results[rank + 1], Share(rank))
  /\ rank' = rank + 1
  /\ UNCHANGED <<blank, k, faiss_rows, bm25_results, semantic_results, result, pc>>

BM25Fused ==
  /\ pc = "fuse_bm25" /\ rank = Len(bm25_results)
  /\ rank' = 0
  /\ pc' = "fuse_semantic"
  /\ UNCHANGED <<blank, k, faiss_rows, bm25_results, semantic_results, rrf_scores, result>>

\* `for rank, chunk in enumerate(semantic_results)`
FuseSemantic ==
  /\ pc = "fuse_semantic" /\ rank < Len(semantic_results)
  /\ rrf_scores' = Credit(rrf_scores, semantic_results[rank + 1], Share(rank))
  /\ rank' = rank + 1
  /\ UNCHANGED <<blank, k, faiss_rows, bm25_results, semantic_results, result, pc>>

\* Mutant: sorted without reverse.
SortedUpwards(picks) ==
  \A i \in DOMAIN picks : \A e \in DOMAIN rrf_scores :
    Above(rrf_scores[picks[i]].score, rrf_scores[e].score) =>
      \E j \in 1 .. i - 1 : picks[j] = e

\* sorted(..., reverse=True)[:k]: picks lists entries of the dict by score,
\* and no entry left out is above one picked.
Sorted(picks) ==
  \A i \in DOMAIN picks : \A e \in DOMAIN rrf_scores :
    Above(rrf_scores[e].score, rrf_scores[picks[i]].score) =>
      \E j \in 1 .. i - 1 : picks[j] = e

TakeBest ==
  /\ pc = "fuse_semantic" /\ rank = Len(semantic_results)
  /\ \E picks \in Rankings(DOMAIN rrf_scores, Smaller(k, Len(rrf_scores))) :
       /\ Sorted(picks)
       /\ result' = [i \in DOMAIN picks |-> rrf_scores[picks[i]].row]
  /\ pc' = "done"
  /\ UNCHANGED <<blank, k, faiss_rows, bm25_results, semantic_results, rank, rrf_scores>>

Next == \/ Reject \/ RetrieveBM25 \/ TooFewRows \/ LexicalOnly
        \/ RetrieveSemantic \/ NoSuchChunk
        \/ FuseBM25 \/ BM25Fused \/ FuseSemantic \/ TakeBest

Spec == Init /\ [][Next]_vars

-----------------------------------------------------------------------------
TypeOK ==
  /\ blank \in BOOLEAN /\ k \in Ks /\ faiss_rows \in {0} \cup FaissSizes
  /\ bm25_results \in Seq(Rows) /\ semantic_results \in Seq(Rows)
  /\ rank \in 0 .. Smaller(k * CANDIDATE_MULT, CorpusSize) \cup {0}
  /\ rrf_scores \in Seq([row : Rows, score : [num : Nat \ {0}, den : Nat \ {0}]])
  /\ result \in Seq(Rows)
  /\ pc \in {"start", "ranked", "fuse_bm25", "fuse_semantic", "done", "raised"}

\* Place of a row in a list, and whether x comes before y in it, y perhaps
\* not being there at all.
Before(s, x, y) ==
  \E i \in DOMAIN s : s[i] = x /\ \A j \in 1 .. i : s[j] # y

\* A search that returns for a real query returns k different chunks: fusion
\* neither repeats a chunk both rankers found nor comes out short
\* (indexer.py:356-357, 369-375, 397-413).
ExactlyK ==
  pc = "done" =>
    /\ Len(result) = IF k <= 0 \/ blank THEN 0 ELSE k
    /\ IsInjective(result)

\* A chunk both rankers place before another comes before it (indexer.py:400-412).
AgreementKept ==
  pc = "done" /\ faiss_rows # 0 =>
    \A y \in ToSet(result) : \A x \in ToSet(bm25_results) :
      Before(bm25_results, x, y) /\ Before(semantic_results, x, y) => Before(result, x, y)

\* "A chunk that appears near the top of both BM25 and FAISS accumulates the
\* highest score" (indexer.py:391-392): one among the first RRF_CONSTANT + 1 of
\* both comes before every chunk that only one of them found.
NearTop(s, x) == \E i \in DOMAIN s : s[i] = x /\ i <= RRF_CONSTANT + 1

NearTopOfBothWins ==
  pc = "done" /\ faiss_rows # 0 =>
    \A y \in ToSet(result) : \A x \in ToSet(bm25_results) :
      /\ NearTop(bm25_results, x) /\ NearTop(semantic_results, x)
      /\ y \notin ToSet(bm25_results) \/ y \notin ToSet(semantic_results)
      => Before(result, x, y)

\* The inductive invariant behind these.  In a search that is served, the
\* lists are rankings;
Served == pc \in {"ranked", "fuse_bm25", "fuse_semantic"} \/ (pc = "done" /\ k > 0 /\ ~blank)

Fusing == pc \in {"fuse_bm25", "fuse_semantic"} \/ (pc = "done" /\ k > 0 /\ ~blank /\ faiss_rows # 0)

RankingsOK ==
  /\ Served => /\ k > 0 /\ ~blank /\ k * CANDIDATE_MULT <= CorpusSize
               /\ bm25_results \in Rankings(Rows, k * CANDIDATE_MULT)
  /\ Fusing => /\ faiss_rows # 0
               /\ semantic_results \in Rankings(Rows, Smaller(k * CANDIDATE_MULT, faiss_rows))

\* the dict holds the first n of b and the first m of s, each row once, those
\* of b first and in their order, with the shares of its places;
ScoreIs(e, b, n, s, m) ==
  /\ \A i \in 1 .. n : \A j \in 1 .. m :
       b[i] = e.row /\ s[j] = e.row => e.score = Plus(Share(i - 1), Share(j - 1))
  /\ \A i \in 1 .. n :
       b[i] = e.row /\ (\A j \in 1 .. m : s[j] # e.row) => e.score = Share(i - 1)
  /\ \A j \in 1 .. m :
       s[j] = e.row /\ (\A i \in 1 .. n : b[i] # e.row) => e.score = Share(j - 1)

Fused(dict, b, n, s, m) ==
  /\ n <= Len(dict)
  /\ \A i \in 1 .. n : dict[i].row = b[i]
  /\ \A i \in n + 1 .. Len(dict) : \E j \in 1 .. m : dict[i].row = s[j]
  /\ \A j \in 1 .. m : \E i \in 1 .. Len(dict) : dict[i].row = s[j]
  /\ \A i, j \in 1 .. Len(dict) : dict[i].row = dict[j].row => i = j
  /\ \A i \in 1 .. Len(dict) : ScoreIs(dict[i], b, n, s, m)

DictOK ==
  /\ pc \in {"start", "ranked"} => rank = 0 /\ rrf_scores = << >> /\ result = << >>
  /\ pc = "fuse_bm25" => /\ rank <= Len(bm25_results)
                         /\ Fused(rrf_scores, bm25_results, rank, semantic_results, 0)
  /\ pc = "fuse_semantic" =>
       /\ rank <= Len(semantic_results)
       /\ Fused(rrf_scores, bm25_results, Len(bm25_results), semantic_results, rank)
  /\ pc = "done" /\ Fusing =>
       Fused(rrf_scores, bm25_results, Len(bm25_results),
             semantic_results, Len(semantic_results))

\* and the result is the k best.
Best(picks) ==
  /\ picks \in Rankings(1 .. Len(rrf_scores), k)
  /\ Sorted(picks)
  /\ result = [i \in 1 .. k |-> rrf_scores[picks[i]].row]

ResultOK ==
  pc = "done" =>
    /\ k <= 0 \/ blank => result = << >>
    /\ k > 0 /\ ~blank /\ faiss_rows = 0 => result = SubSeq(bm25_results, 1, k)
    /\ k > 0 /\ ~blank /\ faiss_rows # 0 =>
         \E picks \in [1 .. k -> 1 .. Len(rrf_scores)] : Best(picks)

IInv == TypeOK /\ RankingsOK /\ DictOK /\ ResultOK
=============================================================================
