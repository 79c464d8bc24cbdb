---------------------------- MODULE LineStartsProofs ---------------------------
(***************************************************************************)
(* What the table of line starts gives for the parser's positions, for     *)
(* every text.                                                             *)
(*                                                                         *)
(* The table is built from the line boundaries of str.splitlines, the      *)
(* parser counts newlines only.  The start of line number i of the table   *)
(* has i - 1 boundaries before it (Counted), and the table misses none     *)
(* (Complete); newlines being boundaries, the number the parser gives a    *)
(* line is at most its place in the table, and is that place where every   *)
(* boundary so far is a newline.                                           *)
(***************************************************************************)
EXTENDS LineStarts, FiniteSetTheorems, WellFoundedInduction, TLAPS

-----------------------------------------------------------------------------
\* Sets of positions.

LEMMA AtIs ==
  ASSUME NEW kinds, NEW lo \in Nat, NEW hi \in Nat
  PROVE  /\ At(kinds, lo, hi) = {p \in lo .. hi - 1 : CharAt(p) \in kinds}
         /\ At(kinds, lo, hi) \subseteq Nat
         /\ IsFiniteSet(At(kinds, lo, hi))
         /\ Cardinality(At(kinds, lo, hi)) \in Nat
<1>1. At(kinds, lo, hi) \subseteq lo .. hi - 1
  BY DEF At
<1>2. lo \in Int /\ hi - 1 \in Int
  OBVIOUS
<1>3. IsFiniteSet(lo .. hi - 1)
  BY <1>2, FS_Interval
<1>4. IsFiniteSet(At(kinds, lo, hi))
  BY <1>1, <1>3, FS_Subset
<1> QED BY <1>1, <1>4, FS_CardinalityType DEF At

LEMMA GreatestOf ==
  ASSUME NEW n \in Nat, NEW S \in SUBSET (0 .. n), S # {}
  PROVE  \E m \in S : \A s \in S : s <= m
<1> DEFINE T == {n - s : s \in S}
<1>1. T \subseteq Nat /\ T # {}
  <2>1. \A s \in S : s \in 0 .. n /\ n - s \in Nat
    OBVIOUS
  <2> QED BY <2>1
<1>2. PICK t \in T : \A u \in T : <<u, t>> \notin OpToRel(<, Nat)
  <2> HIDE DEF T
  <2> QED BY <1>1, NatLessThanWellFounded, WFMin
<1>3. \A u \in T : u \in Nat /\ t \in Nat /\ ~(u < t)
  <2> HIDE DEF T
  <2> QED BY <1>1, <1>2 DEF OpToRel
<1>4. PICK m \in S : t = n - m
  OBVIOUS
<1>5. ASSUME NEW s \in S PROVE s <= m
  <2>1. s \in 0 .. n /\ m \in 0 .. n
    BY <1>4
  <2>2. n - s \in T
    BY <1>5
  <2>3. ~(n - s < n - m)
    BY <1>3, <1>4, <2>2
  <2> QED BY <2>1, <2>3
<1> QED BY <1>5

\* The line of a position is found.
LEMMA LineStartIs ==
  ASSUME NEW p \in Nat
  PROVE  LET lo == LineStart(p)
         IN  /\ lo \in 0 .. p
             /\ At({"newline"}, lo, p) = {}
             /\ lo > 0 => CharAt(lo - 1) = "newline"
<1> DEFINE S == At({"newline"}, 0, p)
           Found(lo) == At({"newline"}, lo, p) = {} /\ (lo > 0 => CharAt(lo - 1) = "newline")
<1>1. S \in SUBSET (0 .. p)
  BY DEF At
<1>2. \E lo \in 0 .. p : Found(lo)
  <2>1. CASE S = {}
    <3>1. Found(0) /\ 0 \in 0 .. p
      BY <2>1
    <3> QED BY <3>1
  <2>2. CASE S # {}
    <3>1. PICK m \in S : \A s \in S : s <= m
      BY <1>1, <2>2, GreatestOf
    <3>2. m \in 0 .. p - 1 /\ CharAt(m) = "newline"
      BY DEF At
    <3>3. At({"newline"}, m + 1, p) = {}
      <4> SUFFICES ASSUME NEW q \in At({"newline"}, m + 1, p) PROVE FALSE
        OBVIOUS
      <4>1. q \in S /\ q > m
        BY <3>2 DEF At
      <4>2. q <= m
        BY <3>1, <4>1
      <4> QED BY <3>2, <4>1, <4>2 DEF At
    <3>4. Found(m + 1) /\ m + 1 \in 0 .. p
      BY <3>2, <3>3
    <3> QED BY <3>4
  <2> QED BY <2>1, <2>2
<1>3. LineStart(p) = CHOOSE lo \in 0 .. p : Found(lo)
  BY DEF LineStart
<1> HIDE DEF Found
<1>4. LineStart(p) \in 0 .. p /\ Found(LineStart(p))
  BY <1>2, <1>3
<1> QED BY <1>4 DEF Found

-----------------------------------------------------------------------------
\* The table.

LEMMA InitIInv == Init => IInv
<1> SUFFICES ASSUME Init PROVE IInv
  OBVIOUS
<1>1. content \in Texts /\ Len(content) \in Nat /\ starts = <<0>> /\ pc = "loop"
  BY TextsAssumption DEF Init
<1>2. Len(starts) = 1 /\ starts[1] = 0 /\ Last = 0 /\ starts # << >>
  BY <1>1 DEF Last
<1>3. starts \in Seq(0 .. Len(content))
  BY <1>1
<1>4. At(Boundaries, 0, 0) = {}
  BY DEF At
<1>5. Cardinality(At(Boundaries, 0, 0)) = 0
  BY <1>4, FS_EmptySet
<1>6. \A i \in 1 .. Len(starts) : i = 1
  BY <1>2
<1>7. Increasing /\ Counted /\ Complete
  BY <1>2, <1>4, <1>5, <1>6 DEF Increasing, Counted, Complete
<1> QED BY <1>1, <1>2, <1>3, <1>7 DEF IInv, TypeOK

LEMMA AppendIs ==
  ASSUME NEW S, NEW s \in Seq(S), NEW e \in S
  PROVE  LET t == Append(s, e)
         IN  /\ t \in Seq(S) /\ Len(t) = Len(s) + 1 /\ t # << >>
             /\ \A i \in 1 .. Len(s) : t[i] = s[i]
             /\ t[Len(s) + 1] = e
OBVIOUS

\* A step over a line that a boundary ends passes one boundary, the last line
\* without one passes none.
LEMMA NextIInv ==
  ASSUME IInv, [Next]_vars
  PROVE  IInv'
<1>1. CASE UNCHANGED vars
  BY <1>1 DEF vars, IInv, TypeOK, Increasing, Counted, Complete, Last, At, CharAt
<1>2. CASE Return
  BY <1>2 DEF Return, IInv, TypeOK, Increasing, Counted, Complete, Last, At, CharAt
<1>3. CASE AddLine
  <2> DEFINE n == Len(starts)
             lo == Last
             len == Len(content)
  <2>1. PICK end \in lo + 1 .. len : LineEnd(lo, end) /\ starts' = Append(starts, lo + (end - lo))
    BY <1>3 DEF AddLine
  <2>2. content' = content /\ pc = "loop" /\ pc' = "loop"
    BY <1>3 DEF AddLine
  <2>3. /\ content \in Texts /\ len \in Nat /\ starts \in Seq(0 .. len) /\ n \in Nat /\ n \in 1 .. n
        /\ lo = starts[n] /\ lo \in 0 .. len /\ lo < len
    <3>1. content \in Texts /\ starts \in Seq(0 .. len) /\ starts # << >>
      BY DEF IInv, TypeOK
    <3>2. len \in Nat
      BY <3>1, TextsAssumption
    <3> QED BY <1>3, <3>1, <3>2 DEF AddLine, Last
  <2>4. end \in Nat /\ lo < end /\ end <= len /\ lo + (end - lo) = end /\ end \in 0 .. len
    BY <2>1, <2>3
  <2>5. /\ starts' \in Seq(0 .. len) /\ Len(starts') = n + 1 /\ starts' # << >>
        /\ \A i \in 1 .. n : starts'[i] = starts[i]
        /\ starts'[n + 1] = end
    <3>1. starts' = Append(starts, end)
      BY <2>1, <2>4
    <3> HIDE DEF n, lo, len
    <3>2. Len(starts) = n
      BY DEF n
    <3>3. starts \in Seq(0 .. len) /\ end \in 0 .. len
      BY <2>3, <2>4
    <3>4. LET t == Append(starts, end)
          IN  /\ t \in Seq(0 .. len) /\ Len(t) = Len(starts) + 1 /\ t # << >>
              /\ \A i \in 1 .. Len(starts) : t[i] = starts[i]
              /\ t[Len(starts) + 1] = end
      BY ONLY <3>3, AppendIs
    <3> QED BY ONLY <3>1, <3>2, <3>4
  <2>6. Last' = end
    BY <2>5 DEF Last
  <2>7. TypeOK' /\ starts'[1] = 0
    BY <2>2, <2>3, <2>5 DEF IInv, TypeOK
  <2> HIDE DEF n, lo, len
  <2>8. \A i \in 1 .. n + 1 : i \in 1 .. n \/ i = n + 1
    BY <2>3
  <2>9. \A i \in 1 .. n : starts[i] <= lo /\ starts[i] \in 0 .. len
    <3> SUFFICES ASSUME NEW i \in 1 .. n PROVE starts[i] <= lo /\ starts[i] \in 0 .. len
      OBVIOUS
    <3>1. starts[i] \in 0 .. len
      BY <2>3 DEF n
    <3>2. i = n \/ i < n
      BY <2>3
    <3> QED BY <2>3, <3>1, <3>2 DEF IInv, Increasing, n
  <2>10. Increasing'
    <3> SUFFICES ASSUME NEW i \in 1 .. n + 1, NEW j \in 1 .. n + 1, i < j
                 PROVE  starts'[i] < starts'[j]
      BY <2>5 DEF Increasing
    <3>1. i \in 1 .. n
      BY <2>3
    <3>2. CASE j \in 1 .. n
      BY <2>5, <3>1, <3>2 DEF IInv, Increasing, n
    <3>3. CASE j = n + 1
      BY <2>3, <2>4, <2>5, <2>9, <3>1, <3>3
    <3> QED BY <2>8, <3>2, <3>3
  <2>11. \A kinds, a, b : At(kinds, a, b)' = At(kinds, a, b)
    BY <2>2 DEF At, CharAt
  <2>12. CASE At(Boundaries, lo, len) = {}
    <3>1. end = len
      BY <2>1, <2>12 DEF LineEnd, Boundaries, len
    <3>2. At(Boundaries, 0, end) = At(Boundaries, 0, lo)
      <4>1. ASSUME NEW q \in At(Boundaries, 0, end) PROVE q \in At(Boundaries, 0, lo)
        <5>1. q \in 0 .. len - 1 /\ CharAt(q) \in Boundaries
          BY <3>1 DEF At
        <5>2. q \notin lo .. len - 1
          BY <2>12, <5>1 DEF At
        <5> QED BY <2>3, <5>1, <5>2 DEF At
      <4>2. At(Boundaries, 0, lo) \subseteq At(Boundaries, 0, end)
        BY <2>3, <2>4 DEF At
      <4> QED BY <4>1, <4>2
    <3>3. Counted'
      <4> SUFFICES ASSUME NEW i \in 1 .. n + 1, starts'[i] < len
                   PROVE  Cardinality(At(Boundaries, 0, starts'[i])) = i - 1
        BY <2>2, <2>5, <2>11 DEF Counted, len
      <4>1. i \in 1 .. n
        BY <2>3, <2>5, <2>8, <3>1
      <4> QED BY <2>5, <4>1 DEF IInv, Counted, n, len
    <3>4. Complete'
      BY <2>3, <2>5, <2>6, <2>8, <2>11, <3>2 DEF IInv, Complete, n, lo
    <3> QED BY <2>2, <2>5, <2>7, <2>10, <3>3, <3>4 DEF IInv
  <2>13. CASE At(Boundaries, lo, len) # {}
    <3>1. end - 1 \in lo .. len - 1 /\ CharAt(end - 1) \in Boundaries /\ At(Boundaries, lo, end - 1) = {}
      BY <2>1, <2>3, <2>4, <2>13 DEF LineEnd, Boundaries, len
    <3>2. At(Boundaries, 0, end) = At(Boundaries, 0, lo) \cup {end - 1}
      <4>1. ASSUME NEW q \in At(Boundaries, 0, end), q # end - 1 PROVE q \in At(Boundaries, 0, lo)
        <5>1. q \in 0 .. end - 2 /\ CharAt(q) \in Boundaries
          BY <2>4, <4>1 DEF At
        <5>2. q \notin lo .. (end - 1) - 1
          BY <3>1, <5>1 DEF At
        <5> QED BY <2>3, <2>4, <5>1, <5>2 DEF At
      <4>2. At(Boundaries, 0, lo) \subseteq At(Boundaries, 0, end)
        BY <2>3, <2>4 DEF At
      <4>3. end - 1 \in At(Boundaries, 0, end)
        BY <2>3, <2>4, <3>1 DEF At
      <4> QED BY <4>1, <4>2, <4>3
    <3>3. Cardinality(At(Boundaries, 0, end)) = n
      <4>1. Cardinality(At(Boundaries, 0, lo)) = n - 1
        BY <2>3 DEF IInv, Counted, n, len
      <4>2. end - 1 \notin At(Boundaries, 0, lo)
        BY <2>3, <2>4 DEF At
      <4>3. IsFiniteSet(At(Boundaries, 0, lo))
        <5>1. lo \in Nat /\ 0 \in Nat
          BY <2>3
        <5> QED BY <5>1, AtIs
      <4>4. Cardinality(At(Boundaries, 0, lo) \cup {end - 1}) = n - 1 + 1
        BY <4>1, <4>2, <4>3, FS_AddElement
      <4>5. n - 1 + 1 = n
        BY <2>3
      <4> QED BY <3>2, <4>4, <4>5
    <3>4. Counted'
      <4> SUFFICES ASSUME NEW i \in 1 .. n + 1, starts'[i] < len
                   PROVE  Cardinality(At(Boundaries, 0, starts'[i])) = i - 1
        BY <2>2, <2>5, <2>11 DEF Counted, len
      <4>1. CASE i \in 1 .. n
        BY <2>5, <4>1 DEF IInv, Counted, n, len
      <4>2. CASE i = n + 1
        BY <2>3, <2>5, <3>3, <4>2
      <4> QED BY <2>8, <4>1, <4>2
    <3>5. Complete'
      <4> SUFFICES ASSUME NEW q \in At(Boundaries, 0, end)
                   PROVE  \E i \in 1 .. n + 1 : starts'[i] = q + 1
        BY <2>5, <2>6, <2>11 DEF Complete
      <4>1. CASE q \in At(Boundaries, 0, lo)
        <5>1. PICK i \in 1 .. n : starts[i] = q + 1
          BY <4>1 DEF IInv, Complete, n, lo
        <5> QED BY <2>3, <2>5, <5>1
      <4>2. CASE q = end - 1
        <5>1. starts'[n + 1] = q + 1 /\ n + 1 \in 1 .. n + 1
          BY <2>3, <2>4, <2>5, <4>2
        <5> QED BY <5>1
      <4> QED BY <3>2, <4>1, <4>2
    <3> QED BY <2>2, <2>5, <2>7, <2>10, <3>4, <3>5 DEF IInv
  <2> QED BY <2>12, <2>13
<1> QED BY <1>1, <1>2, <1>3 DEF Next

-----------------------------------------------------------------------------
\* What the finished table says of a position: the line before it starts at
\* an entry, and the parser's number is no larger.
LEMMA Lookup ==
  ASSUME IInv, pc = "done", NEW p \in Positions
  PROVE  /\ p \in Nat /\ lineno(p) \in 1 .. Len(starts) /\ WideBefore(p) \in Nat
         /\ LineStart(p) \in 0 .. p
         /\ starts[lineno(p)] \in Nat /\ starts[lineno(p)] <= LineStart(p)
         /\ At({"feed"}, 0, LineStart(p)) = {} => starts[lineno(p)] = LineStart(p)
<1> DEFINE lo == LineStart(p)
           len == Len(content)
           n == Len(starts)
<1>1. content \in Seq(Char) /\ len \in Nat /\ starts \in Seq(0 .. len) /\ n \in Nat /\ n \in 1 .. n
      /\ 1 \in 1 .. n
  BY TextsAssumption DEF IInv, TypeOK
<1>2. p \in 0 .. len /\ (p < len => CharAt(p) \in {"plain", "wide"} \/ p > 0)
      /\ (p < len \/ (p > 0 /\ CharAt(p - 1) \in {"plain", "wide"}))
  BY <1>1 DEF Positions, Starts, Ends, At
<1>3. lo \in 0 .. p /\ At({"newline"}, lo, p) = {} /\ (lo > 0 => CharAt(lo - 1) = "newline")
  BY <1>2, LineStartIs
<1>4. lo \in Nat /\ lo < len
  BY <1>1, <1>2, <1>3
<1>5. Last = len
  BY DEF IInv
<1>6. \E j \in 1 .. n : starts[j] = lo
  <2>1. CASE lo = 0
    BY <1>1, <2>1 DEF IInv
  <2>2. CASE lo > 0
    <3>1. lo - 1 \in At(Boundaries, 0, len) /\ (lo - 1) + 1 = lo
      BY <1>1, <1>3, <1>4, <2>2 DEF At, Boundaries
    <3> QED BY <1>5, <3>1 DEF IInv, Complete
  <2> QED BY <1>4, <2>1, <2>2
<1>7. PICK j \in 1 .. n : starts[j] = lo
  BY <1>6
<1>8. Cardinality(At(Boundaries, 0, lo)) = j - 1
  BY <1>4, <1>7 DEF IInv, Counted
<1>9. At({"newline"}, 0, p) = At({"newline"}, 0, lo)
  <2>1. ASSUME NEW q \in At({"newline"}, 0, p) PROVE q \in At({"newline"}, 0, lo)
    <3>1. q \in 0 .. p - 1 /\ CharAt(q) = "newline"
      BY DEF At
    <3>2. q \notin lo .. p - 1
      BY <1>3, <3>1 DEF At
    <3> QED BY <1>2, <1>4, <3>1, <3>2 DEF At
  <2>2. At({"newline"}, 0, lo) \subseteq At({"newline"}, 0, p)
    BY <1>2, <1>3 DEF At
  <2> QED BY <2>1, <2>2
<1>10. lineno(p) = Cardinality(At({"newline"}, 0, lo)) + 1
  BY <1>9 DEF lineno
<1>11. At({"newline"}, 0, lo) \subseteq At(Boundaries, 0, lo)
  BY DEF At, Boundaries
<1>12. /\ Cardinality(At({"newline"}, 0, lo)) \in Nat
       /\ Cardinality(At({"newline"}, 0, lo)) <= j - 1
  BY <1>4, <1>8, <1>11, AtIs, FS_Subset
<1>13. lineno(p) \in 1 .. j /\ lineno(p) \in 1 .. n
  BY <1>1, <1>10, <1>12
<1>14. starts[lineno(p)] \in 0 .. len /\ starts[lineno(p)] <= lo
  <2> HIDE DEF lo, len, n
  <2>1. starts[lineno(p)] \in 0 .. len
    BY <1>1, <1>13 DEF n
  <2>2. lineno(p) = j \/ lineno(p) < j
    BY <1>13
  <2> QED BY <1>4, <1>7, <1>13, <2>1, <2>2 DEF IInv, Increasing, n
<1>15. ASSUME At({"feed"}, 0, lo) = {} PROVE starts[lineno(p)] = lo
  <2>1. At(Boundaries, 0, lo) = At({"newline"}, 0, lo)
    BY <1>11, <1>15 DEF At, Boundaries
  <2>2. lineno(p) = j
    BY <1>8, <1>10, <2>1
  <2> QED BY <1>7, <2>2
<1>16. WideBefore(p) \in Nat
  <2>1. p \in Nat /\ lo \in Nat
    BY <1>1, <1>2, <1>4
  <2> HIDE DEF lo
  <2>2. Cardinality(At({"wide"}, lo, p)) \in Nat
    BY <2>1, AtIs
  <2> QED BY <2>2 DEF WideBefore, lo
<1> QED BY <1>1, <1>2, <1>3, <1>13, <1>14, <1>15, <1>16

-----------------------------------------------------------------------------
\* The inductive invariant of _line_start_helper (chunker.py:107-110).
THEOREM Invariance == Spec => []IInv
BY InitIInv, NextIInv, PTL DEF Spec

\* The starts stay inside the text (chunker.py:134-146).
THEOREM TypeCorrect == Spec => []TypeOK
<1>1. IInv => TypeOK
  BY DEF IInv
<1> QED BY <1>1, Invariance, PTL

\* No position of the parser is looked up outside the table
\* (chunker.py:149-150).
THEOREM InRange == Spec => []LookupsInRange
<1>1. IInv => LookupsInRange
  BY Lookup DEF LookupsInRange
<1> QED BY <1>1, Invariance, PTL

\* An offset is exact but for wide characters as long as no earlier line has
\* another boundary than a newline (chunker.py:107-110, 148-150).
THEOREM Exact == Spec => []OffsetsExact
<1>1. ASSUME IInv, pc = "done", NEW p \in Positions, At({"feed"}, 0, LineStart(p)) = {}
      PROVE  absolute(p) = p + WideBefore(p)
  <2>1. p \in Nat /\ WideBefore(p) \in Nat /\ LineStart(p) \in Nat /\ starts[lineno(p)] = LineStart(p)
    BY <1>1, Lookup
  <2> QED BY <2>1 DEF absolute, col_offset
<1>2. IInv => OffsetsExact
  BY <1>1 DEF OffsetsExact
<1> QED BY <1>2, Invariance, PTL

\* Other boundaries never take an offset forward (chunker.py:107-110, 148-150).
THEOREM NeverAhead == Spec => []OffsetsNeverAhead
<1>1. ASSUME IInv, pc = "done", NEW p \in Positions
      PROVE  absolute(p) <= p + WideBefore(p)
  <2>1. p \in Nat /\ WideBefore(p) \in Nat /\ LineStart(p) \in Nat
        /\ starts[lineno(p)] \in Nat /\ starts[lineno(p)] <= LineStart(p)
    BY <1>1, Lookup
  <2> QED BY <2>1 DEF absolute, col_offset
<1>2. IInv => OffsetsNeverAhead
  BY <1>1 DEF OffsetsNeverAhead
<1> QED BY <1>2, Invariance, PTL
=============================================================================
