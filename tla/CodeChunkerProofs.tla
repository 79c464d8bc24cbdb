--------------------------- MODULE CodeChunkerProofs --------------------------
(***************************************************************************)
(* For every syntax tree, chunk size and overlap: chunks are well formed   *)
(* and within the limit, and when the recursion ends every statement and   *)
(* every signature is in them.  StatementsStored speaks of the end only;   *)
(* OwnTextHeld is its inductive form: a statement's text is, at any time,  *)
(* in a chunk or in something still to visit.                              *)
(*                                                                         *)
(* Chunks come in order, up to the decorators of first children, because   *)
(* what is still to visit does (OrderInv): a step puts in the place of the *)
(* head of todo what lies inside it, in order (ReplaceOrder).              *)
(***************************************************************************)
EXTENDS CodeChunker, SequenceTheorems, TLAPS

\* A statement starts no later than its keyword, and at a natural offset.
LEMMA StartFacts ==
  ASSUME NEW n, NodeOK(n)
  PROVE  Start(n) \in Nat /\ n.kw \in Nat /\ n.end \in Nat
         /\ Start(n) <= n.kw /\ n.kw < n.end
  BY DEF NodeOK, Start

\* The first child's keyword lies behind its parent's start.
LEMMA HeaderFacts ==
  ASSUME AstOK(ast), NEW n \in ast.nodes, n.body # << >>
  PROVE  FirstBodyStart(n) \in Nat /\ Start(n) < FirstBodyStart(n)
<1>1. n.body \in Seq(ast.nodes) /\ 1 \in 1 .. Len(n.body)
  BY DEF AstOK
<1>2. n.body[1] \in ast.nodes /\ n.kw < Start(n.body[1])
  BY <1>1 DEF AstOK
<1>3. NodeOK(n) /\ NodeOK(n.body[1])
  BY <1>2 DEF AstOK
<1> HIDE DEF AstOK
<1> QED BY <1>2, <1>3, StartFacts DEF FirstBodyStart

\* Replacing the head of a sequence by another sequence.
LEMMA ReplaceHead ==
  ASSUME NEW S, NEW s \in Seq(S), NEW t \in Seq(S), t # << >>
  PROVE  /\ s \o Tail(t) \in Seq(S)
         /\ Len(s \o Tail(t)) = Len(s) + Len(t) - 1
         /\ \A i \in 1 .. Len(s) : (s \o Tail(t))[i] = s[i]
         /\ \A i \in 2 .. Len(t) : (s \o Tail(t))[Len(s) + i - 1] = t[i]
<1>1. Tail(t) \in Seq(S) /\ Len(Tail(t)) = Len(t) - 1 /\ Len(t) \in Nat
  OBVIOUS
<1>2. \A i \in 2 .. Len(t) : Tail(t)[i - 1] = t[i]
  OBVIOUS
<1>3. \A i \in 1 .. Len(s) : (s \o Tail(t))[i] = s[i]
  BY <1>1
<1>4. \A i \in 2 .. Len(t) : (s \o Tail(t))[Len(s) + i - 1] = t[i]
  <2> SUFFICES ASSUME NEW i \in 2 .. Len(t)
               PROVE  (s \o Tail(t))[Len(s) + i - 1] = t[i]
    OBVIOUS
  <2>1. i - 1 \in 1 .. Len(Tail(t)) /\ Len(s) \in Nat
    BY <1>1
  <2>2. (s \o Tail(t))[Len(s) + (i - 1)] = Tail(t)[i - 1]
    BY <1>1, <2>1
  <2> QED BY <1>2, <2>1, <2>2
<1> QED BY <1>1, <1>3, <1>4

\* The entries of the visits of a body.
LEMMA VisitAllFacts ==
  ASSUME NEW body \in Seq(ast.nodes)
  PROVE  /\ VisitAll(body) \in Seq(Item)
         /\ Len(VisitAll(body)) = Len(body)
         /\ \A i \in 1 .. Len(body) : VisitAll(body)[i] = Visit(body[i])
<1>1. \A i \in 1 .. Len(body) : Visit(body[i]) \in Item
  BY DEF Visit, Item
<1> QED BY <1>1 DEF VisitAll

\* The text the two kinds of entries hold.
LEMMA VisitHolds ==
  ASSUME NEW n
  PROVE  Visit(n).kind # "text" /\ \A p : HeldBy(Visit(n), p) <=> p \in Start(n) .. n.end - 1
<1>1. Visit(n).kind = "visit" /\ Visit(n).node = n
  BY DEF Visit
<1> QED BY <1>1 DEF HeldBy, Extent, From, Upto

LEMMA TextHolds ==
  ASSUME NEW lo, NEW hi
  PROVE  /\ Text(lo, hi).kind = "text" /\ Text(lo, hi).lo = lo /\ Text(lo, hi).hi = hi
         /\ \A p : HeldBy(Text(lo, hi), p) <=> p \in lo .. hi - 1
<1>1. Text(lo, hi).kind = "text" /\ Text(lo, hi).lo = lo /\ Text(lo, hi).hi = hi
  BY DEF Text
<1> QED BY <1>1 DEF HeldBy, Extent, From, Upto

\* What appending the chunk a .. b-1 keeps and adds.
LEMMA AppendChunk ==
  ASSUME TypeOK, SizesBounded, NEW a \in Nat, NEW b \in Nat,
         a < b, Fits(a, b), chunks' = Append(chunks, Chunk(a, b))
  PROVE  /\ chunks' \in Seq(ChunkType)
         /\ SizesBounded'
         /\ \A p : CoveredAt(p) => CoveredAt(p)'
         /\ \A p \in a .. b - 1 : CoveredAt(p)'
<1>1. chunks \in Seq(ChunkType) /\ Len(chunks) \in Nat
  BY DEF TypeOK
<1>2. Chunk(a, b) \in ChunkType
  BY DEF Chunk, ChunkType
<1>3. /\ chunks' \in Seq(ChunkType)
      /\ Len(chunks') = Len(chunks) + 1
      /\ \A i \in 1 .. Len(chunks) : chunks'[i] = chunks[i]
      /\ chunks'[Len(chunks) + 1] = Chunk(a, b)
  BY <1>1, <1>2
<1>4. SizesBounded'
  <2> SUFFICES ASSUME NEW i \in 1 .. Len(chunks')
               PROVE  /\ chunks'[i].first < chunks'[i].last
                      /\ chunks'[i].last - chunks'[i].first <= MaxChunkSize
    BY DEF SizesBounded
  <2>1. CASE i \in 1 .. Len(chunks)
    BY <1>3, <2>1 DEF SizesBounded
  <2>2. CASE i = Len(chunks) + 1
    BY <1>3, <2>2 DEF Chunk, Fits
  <2> QED BY <1>1, <1>3, <2>1, <2>2
<1>5. \A p : CoveredAt(p) => CoveredAt(p)'
  BY <1>1, <1>3 DEF CoveredAt
<1>6. \A p \in a .. b - 1 : CoveredAt(p)'
  BY <1>1, <1>3 DEF CoveredAt, Chunk
<1> QED BY <1>3, <1>4, <1>5, <1>6

\* A step that visits the head of todo keeps OwnTextHeld if it covers, or
\* keeps to visit, what the head held of statements' texts.
LEMMA HeldStep ==
  ASSUME TypeOK, OwnTextHeld, ast' = ast, todo # << >>,
         \A p : CoveredAt(p) => CoveredAt(p)',
         \A i \in 2 .. Len(todo) : \E j \in 1 .. Len(todo') : todo'[j] = todo[i],
         \A n \in ast.nodes : \A p \in Own(n) : HeldBy(Head(todo), p) => HeldAt(p)'
  PROVE  OwnTextHeld'
<1> SUFFICES ASSUME NEW n \in ast.nodes, NEW p \in Own(n)
             PROVE  HeldAt(p)'
  BY DEF OwnTextHeld
<1>1. HeldAt(p)
  BY DEF OwnTextHeld
<1>2. CASE CoveredAt(p)
  BY <1>2 DEF HeldAt
<1>3. ASSUME NEW i \in 1 .. Len(todo), HeldBy(todo[i], p)
      PROVE  HeldAt(p)'
  <2>1. CASE i = 1
    BY <1>3, <2>1 DEF TypeOK
  <2>2. CASE i # 1
    <3>1. i \in 2 .. Len(todo)
      BY <2>2 DEF TypeOK
    <3>2. PICK j \in 1 .. Len(todo') : todo'[j] = todo[i]
      BY <3>1
    <3>3. HeldBy(todo'[j], p)
      BY <1>3, <3>2
    <3> QED BY <3>3 DEF HeldAt
  <2> QED BY <2>1, <2>2
<1> QED BY <1>1, <1>2, <1>3 DEF HeldAt

-----------------------------------------------------------------------------
\* The initial states satisfy the invariant: everything is still to visit.
LEMMA InitIInv == Init => IInv
<1> SUFFICES ASSUME Init PROVE IInv
  OBVIOUS
<1>1. ast \in Asts /\ AstOK(ast)
  BY AstsAssumption DEF Init
<1>2. ast.body \in Seq(ast.nodes)
  BY <1>1 DEF AstOK
<1>3. /\ todo \in Seq(Item)
      /\ Len(todo) = Len(ast.body)
      /\ \A i \in 1 .. Len(ast.body) : todo[i] = Visit(ast.body[i])
  BY <1>2, VisitAllFacts DEF Init
<1>4. TypeOK /\ SizesBounded
  BY <1>3 DEF Init, TypeOK, SizesBounded
<1>5. TextsNotEmpty
  BY <1>3, VisitHolds DEF TextsNotEmpty
<1>6. OwnTextHeld
  <2> SUFFICES ASSUME NEW n \in ast.nodes, NEW p \in Own(n)
               PROVE  HeldAt(p)
    BY DEF OwnTextHeld
  <2>1. PICK i \in 1 .. Len(ast.body) : p \in Start(ast.body[i]) .. ast.body[i].end - 1
    BY <1>1 DEF AstOK
  <2>2. HeldBy(todo[i], p)
    BY <1>3, <2>1, VisitHolds
  <2> QED BY <1>3, <2>2 DEF HeldAt
<1> QED BY <1>1, <1>4, <1>5, <1>6 DEF IInv, HeldText

\* A visit that ends with todo' = items followed by the rest of todo.
LEMMA VisitFacts ==
  ASSUME IInv, NEW n \in ast.nodes, Visiting(n)
  PROVE  /\ AstOK(ast) /\ n.body \in Seq(ast.nodes)
         /\ Start(n) \in Nat /\ n.end \in Nat /\ Start(n) < n.end
         /\ todo \in Seq(Item) /\ todo # << >> /\ Head(todo) = todo[1]
         /\ \A p : HeldBy(Head(todo), p) <=> p \in Start(n) .. n.end - 1
<1>1. AstOK(ast)
  BY AstsAssumption DEF IInv, HeldText
<1>2. n.body \in Seq(ast.nodes) /\ NodeOK(n)
  BY <1>1 DEF AstOK
<1>3. Start(n) \in Nat /\ n.end \in Nat /\ Start(n) < n.end
  BY <1>2, StartFacts
<1>4. todo \in Seq(Item) /\ todo # << >> /\ Head(todo) = todo[1]
  BY DEF IInv, HeldText, TypeOK, Visiting
<1>5. \A p : HeldBy(Head(todo), p) <=> p \in Start(n) .. n.end - 1
  BY DEF HeldBy, Extent, From, Upto, Visiting
<1> HIDE DEF AstOK
<1> QED BY <1>1, <1>2, <1>3, <1>4, <1>5

\* Case A keeps the invariant.
LEMMA TakeNodeIInv ==
  ASSUME IInv, NEW n \in ast.nodes, TakeNode(n)
  PROVE  IInv'
<1>1. Visiting(n) /\ ast' = ast /\ todo' = Tail(todo)
  BY DEF TakeNode
<1>2. /\ chunks' \in Seq(ChunkType) /\ SizesBounded'
      /\ \A p : CoveredAt(p) => CoveredAt(p)'
      /\ \A p \in Start(n) .. n.end - 1 : CoveredAt(p)'
  BY <1>1, VisitFacts, AppendChunk DEF TakeNode, IInv, HeldText
<1>3. /\ todo' \in Seq(Item) /\ Len(todo') = Len(todo) - 1
      /\ \A i \in 2 .. Len(todo) : todo'[i - 1] = todo[i]
      /\ \A j \in 1 .. Len(todo') : todo'[j] = todo[j + 1]
  BY <1>1, VisitFacts
<1>4. TypeOK'
  BY <1>1, <1>2, <1>3 DEF TypeOK, Item
<1>5. TextsNotEmpty'
  BY <1>1, <1>3, VisitFacts DEF IInv, HeldText, TextsNotEmpty
<1>6. OwnTextHeld'
  <2>1. \A i \in 2 .. Len(todo) : \E j \in 1 .. Len(todo') : todo'[j] = todo[i]
    <3> SUFFICES ASSUME NEW i \in 2 .. Len(todo)
                 PROVE  \E j \in 1 .. Len(todo') : todo'[j] = todo[i]
      OBVIOUS
    <3>1. Len(todo) \in Nat
      BY <1>1, VisitFacts
    <3>2. i - 1 \in 1 .. Len(todo')
      BY <1>3, <3>1
    <3> QED BY <1>3, <3>2
  <2>2. \A p : HeldBy(Head(todo), p) => HeldAt(p)'
    BY <1>1, <1>2, VisitFacts DEF HeldAt
  <2> QED BY <1>1, <1>2, <2>1, <2>2, VisitFacts, HeldStep DEF IInv, HeldText
<1> QED BY <1>1, <1>2, <1>4, <1>5, <1>6 DEF IInv, HeldText

\* A step that replaces the head of todo by the entries of a sequence s,
\* each a visit or a non-empty text, keeps the invariant if s and the chunks
\* hold of statements' texts what the head held.
LEMMA PushIInv ==
  ASSUME IInv, ast' = ast, todo # << >>,
         NEW s \in Seq(Item), todo' = s \o Tail(todo),
         \A i \in 1 .. Len(s) : s[i].kind = "text" => s[i].lo < s[i].hi,
         chunks' \in Seq(ChunkType), SizesBounded',
         \A p : CoveredAt(p) => CoveredAt(p)',
         \A n \in ast.nodes : \A p \in Own(n) :
           HeldBy(Head(todo), p) =>
             CoveredAt(p)' \/ \E i \in 1 .. Len(s) : HeldBy(s[i], p)
  PROVE  IInv'
<1>1. todo \in Seq(Item) /\ Len(todo) \in Nat /\ Len(s) \in Nat
  BY DEF IInv, HeldText, TypeOK
<1>2. /\ todo' \in Seq(Item)
      /\ Len(todo') = Len(s) + Len(todo) - 1
      /\ \A i \in 1 .. Len(s) : todo'[i] = s[i]
      /\ \A i \in 2 .. Len(todo) : todo'[Len(s) + i - 1] = todo[i]
  BY <1>1, ReplaceHead
<1>3. TypeOK'
  BY <1>2 DEF TypeOK, Item
<1>4. TextsNotEmpty'
  <2> SUFFICES ASSUME NEW j \in 1 .. Len(todo'), todo'[j].kind = "text"
               PROVE  todo'[j].lo < todo'[j].hi
    BY DEF TextsNotEmpty
  <2>1. CASE j \in 1 .. Len(s)
    BY <1>2, <2>1
  <2>2. CASE j \notin 1 .. Len(s)
    <3> DEFINE i == j - Len(s) + 1
    <3>1. i \in 2 .. Len(todo) /\ Len(s) + i - 1 = j
      BY <1>1, <1>2, <2>2
    <3>2. todo'[j] = todo[i]
      BY <1>2, <3>1
    <3>3. i \in 1 .. Len(todo)
      BY <3>1
    <3> HIDE DEF i
    <3> QED BY <3>2, <3>3 DEF IInv, HeldText, TextsNotEmpty
  <2> QED BY <2>1, <2>2
<1>5. OwnTextHeld'
  <2>1. \A i \in 2 .. Len(todo) : \E j \in 1 .. Len(todo') : todo'[j] = todo[i]
    <3> SUFFICES ASSUME NEW i \in 2 .. Len(todo)
                 PROVE  \E j \in 1 .. Len(todo') : todo'[j] = todo[i]
      OBVIOUS
    <3>1. Len(s) + i - 1 \in 1 .. Len(todo')
      BY <1>1, <1>2
    <3> QED BY <1>2, <3>1
  <2>2. ASSUME NEW n \in ast.nodes, NEW p \in Own(n), HeldBy(Head(todo), p)
        PROVE  HeldAt(p)'
    <3>1. CASE CoveredAt(p)'
      BY <3>1 DEF HeldAt
    <3>2. ASSUME NEW i \in 1 .. Len(s), HeldBy(s[i], p)
          PROVE  HeldAt(p)'
      <4>1. i \in 1 .. Len(todo') /\ todo'[i] = s[i]
        BY <1>1, <1>2
      <4>2. HeldBy(todo'[i], p)
        BY <3>2, <4>1
      <4> QED BY <4>1, <4>2 DEF HeldAt
    <3> QED BY <2>2, <3>1, <3>2
  <2> QED BY <2>1, <2>2, HeldStep DEF IInv, HeldText
<1> QED BY <1>3, <1>4, <1>5 DEF IInv, HeldText

\* Case B with a short header: the header becomes a chunk, the rest of the
\* statements below is to visit.
LEMMA SplitNodeIInv ==
  ASSUME IInv, NEW n \in ast.nodes, SplitNode(n)
  PROVE  IInv'
<1> DEFINE s == VisitAll(n.body)
<1>1. Visiting(n) /\ ast' = ast /\ todo' = s \o Tail(todo) /\ n.body # << >>
  BY DEF SplitNode
<1>2. FirstBodyStart(n) \in Nat /\ Start(n) < FirstBodyStart(n)
  BY <1>1, VisitFacts, HeaderFacts
<1>3. /\ chunks' \in Seq(ChunkType) /\ SizesBounded'
      /\ \A p : CoveredAt(p) => CoveredAt(p)'
      /\ \A p \in Start(n) .. FirstBodyStart(n) - 1 : CoveredAt(p)'
  BY <1>1, <1>2, VisitFacts, AppendChunk DEF SplitNode, IInv, HeldText
<1>4. /\ s \in Seq(Item) /\ Len(s) = Len(n.body)
      /\ \A i \in 1 .. Len(n.body) : s[i] = Visit(n.body[i])
  BY <1>1, VisitFacts, VisitAllFacts
<1>5. ASSUME NEW m \in ast.nodes, NEW p \in Own(m), HeldBy(Head(todo), p)
      PROVE  CoveredAt(p)' \/ \E i \in 1 .. Len(s) : HeldBy(s[i], p)
  <2>1. p \in Start(n) .. n.end - 1
    BY <1>1, <1>5, VisitFacts
  <2>2. \/ p < FirstBodyStart(n)
        \/ \E i \in 1 .. Len(n.body) : p \in Start(n.body[i]) .. n.body[i].end - 1
    BY <1>1, <2>1, VisitFacts DEF AstOK
  <2>3. CASE p < FirstBodyStart(n)
    BY <1>1, <1>2, <1>3, <2>1, <2>3, VisitFacts
  <2>4. ASSUME NEW i \in 1 .. Len(n.body), p \in Start(n.body[i]) .. n.body[i].end - 1
        PROVE  \E j \in 1 .. Len(s) : HeldBy(s[j], p)
    BY <1>4, <2>4, VisitHolds
  <2> QED BY <2>2, <2>3, <2>4
<1>6. \A i \in 1 .. Len(s) : s[i].kind = "text" => s[i].lo < s[i].hi
  BY <1>4, VisitHolds
<1> HIDE DEF s
<1> QED BY <1>1, <1>3, <1>4, <1>5, <1>6, VisitFacts, PushIInv

\* Case B with a long header: header and statements below are to visit.
LEMMA SplitNodeAndHeaderIInv ==
  ASSUME IInv, NEW n \in ast.nodes, SplitNodeAndHeader(n)
  PROVE  IInv'
<1> DEFINE header == Text(Start(n), FirstBodyStart(n))
           below  == VisitAll(n.body)
           s      == <<header>> \o below
<1>1. /\ Visiting(n) /\ ast' = ast /\ chunks' = chunks
      /\ todo' = s \o Tail(todo) /\ n.body # << >>
  BY DEF SplitNodeAndHeader
<1>2. FirstBodyStart(n) \in Nat /\ Start(n) < FirstBodyStart(n)
  BY <1>1, VisitFacts, HeaderFacts
<1>3. /\ below \in Seq(Item) /\ Len(below) = Len(n.body)
      /\ \A i \in 1 .. Len(n.body) : below[i] = Visit(n.body[i])
  BY <1>1, VisitFacts, VisitAllFacts
<1>4. header \in Item
  BY <1>1, <1>2, VisitFacts DEF Text, Item
<1>5. /\ s \in Seq(Item) /\ Len(s) = Len(n.body) + 1 /\ Len(n.body) \in Nat
      /\ s[1] = header
      /\ \A i \in 1 .. Len(n.body) : s[i + 1] = Visit(n.body[i])
  <2> HIDE DEF header, below
  <2>1. Len(below) \in Nat
    BY <1>3
  <2> QED BY <1>3, <1>4, <2>1
<1>6. ASSUME NEW m \in ast.nodes, NEW p \in Own(m), HeldBy(Head(todo), p)
      PROVE  \E i \in 1 .. Len(s) : HeldBy(s[i], p)
  <2>1. p \in Start(n) .. n.end - 1
    BY <1>1, <1>6, VisitFacts
  <2>2. \/ p < FirstBodyStart(n)
        \/ \E i \in 1 .. Len(n.body) : p \in Start(n.body[i]) .. n.body[i].end - 1
    BY <1>1, <2>1, VisitFacts DEF AstOK
  <2>3. CASE p < FirstBodyStart(n)
    <3>1. p \in Start(n) .. FirstBodyStart(n) - 1
      BY <1>1, <1>2, <2>1, <2>3, VisitFacts
    <3>2. HeldBy(s[1], p)
      BY <1>5, <3>1, TextHolds
    <3> HIDE DEF s
    <3> QED BY <1>5, <3>2
  <2>4. ASSUME NEW i \in 1 .. Len(n.body), p \in Start(n.body[i]) .. n.body[i].end - 1
        PROVE  \E j \in 1 .. Len(s) : HeldBy(s[j], p)
    <3>1. HeldBy(s[i + 1], p)
      BY <1>5, <2>4, VisitHolds
    <3> HIDE DEF s
    <3> QED BY <1>5, <3>1
  <2> QED BY <2>2, <2>3, <2>4
<1>7. \A i \in 1 .. Len(s) : s[i].kind = "text" => s[i].lo < s[i].hi
  <2> SUFFICES ASSUME NEW i \in 1 .. Len(s), s[i].kind = "text"
               PROVE  s[i].lo < s[i].hi
    OBVIOUS
  <2>1. CASE i = 1
    BY <1>2, <1>5, <2>1, TextHolds
  <2>2. CASE i # 1
    <3>1. i - 1 \in 1 .. Len(n.body) /\ (i - 1) + 1 = i
      BY <1>5, <2>2
    <3>2. s[i] = Visit(n.body[i - 1])
      BY <1>5, <3>1
    <3> QED BY <3>2, VisitHolds
  <2> QED BY <2>1, <2>2
<1>8. \A p : CoveredAt(p) => CoveredAt(p)'
  BY <1>1 DEF CoveredAt
<1>9. chunks' \in Seq(ChunkType) /\ SizesBounded'
  BY <1>1 DEF IInv, HeldText, TypeOK, SizesBounded
<1> HIDE DEF s
<1> QED BY <1>1, <1>5, <1>6, <1>7, <1>8, <1>9, VisitFacts, PushIInv

\* A step that puts one text, non-empty, in the place of the head of todo.
LEMMA PushText ==
  ASSUME IInv, ast' = ast, todo # << >>,
         NEW lo \in Nat, NEW hi \in Nat, lo < hi,
         todo' = <<Text(lo, hi)>> \o Tail(todo),
         chunks' \in Seq(ChunkType), SizesBounded',
         \A p : CoveredAt(p) => CoveredAt(p)',
         \A p : HeldBy(Head(todo), p) => CoveredAt(p)' \/ p \in lo .. hi - 1
  PROVE  IInv'
<1> DEFINE s == <<Text(lo, hi)>>
<1>1. Text(lo, hi) \in Item
  BY DEF Text, Item
<1>2. s \in Seq(Item) /\ Len(s) = 1 /\ s[1] = Text(lo, hi)
  BY <1>1
<1>3. \A i \in 1 .. Len(s) : s[i].kind = "text" => s[i].lo < s[i].hi
  <2>1. s[1].lo < s[1].hi
    BY <1>2, TextHolds
  <2> HIDE DEF s
  <2> QED BY <1>2, <2>1
<1>4. ASSUME NEW n \in ast.nodes, NEW p \in Own(n), HeldBy(Head(todo), p)
      PROVE  CoveredAt(p)' \/ \E i \in 1 .. Len(s) : HeldBy(s[i], p)
  <2>1. CASE CoveredAt(p)'
    BY <2>1
  <2>2. CASE p \in lo .. hi - 1
    <3>1. HeldBy(s[1], p)
      BY <1>2, <2>2, TextHolds
    <3> HIDE DEF s
    <3> QED BY <1>2, <3>1
  <2> QED BY <1>4, <2>1, <2>2
<1> HIDE DEF s
<1> QED BY <1>2, <1>3, <1>4, PushIInv DEF s

\* Case C: the text of the statement is to split.
LEMMA SplitAsTextIInv ==
  ASSUME IInv, NEW n \in ast.nodes, SplitAsText(n)
  PROVE  IInv'
<1>1. /\ Visiting(n) /\ ast' = ast /\ chunks' = chunks
      /\ todo' = <<Text(Start(n), n.end)>> \o Tail(todo)
  BY DEF SplitAsText
<1>2. \A p : HeldBy(Head(todo), p) => p \in Start(n) .. n.end - 1
  BY <1>1, VisitFacts
<1>3. \A p : CoveredAt(p) => CoveredAt(p)'
  BY <1>1 DEF CoveredAt
<1>4. chunks' \in Seq(ChunkType) /\ SizesBounded'
  BY <1>1 DEF IInv, HeldText, TypeOK, SizesBounded
<1> QED BY <1>1, <1>2, <1>3, <1>4, VisitFacts, PushText

-----------------------------------------------------------------------------
\* The text at the head of todo.
LEMMA SplittingFacts ==
  ASSUME IInv, Splitting
  PROVE  /\ todo \in Seq(Item) /\ todo # << >>
         /\ Head(todo).lo \in Nat /\ Head(todo).hi \in Nat
         /\ Head(todo).lo < Head(todo).hi
         /\ \A p : HeldBy(Head(todo), p) <=> p \in Head(todo).lo .. Head(todo).hi - 1
<1>1. todo \in Seq(Item) /\ todo # << >> /\ 1 \in 1 .. Len(todo) /\ Head(todo) = todo[1]
  BY DEF IInv, HeldText, TypeOK, Splitting
<1>2. Head(todo) \in Item /\ Head(todo).kind = "text"
  BY <1>1 DEF Splitting
<1>3. Head(todo).lo \in Nat /\ Head(todo).hi \in Nat
  BY <1>2 DEF Item
<1>4. Head(todo).lo < Head(todo).hi
  BY <1>1, <1>2 DEF IInv, HeldText, TextsNotEmpty
<1>5. \A p : HeldBy(Head(todo), p) <=> p \in Head(todo).lo .. Head(todo).hi - 1
  BY <1>2 DEF HeldBy, Extent, From, Upto
<1> QED BY <1>1, <1>3, <1>4, <1>5

\* The last window takes the whole text.
LEMMA LastWindowIInv ==
  ASSUME IInv, LastWindow
  PROVE  IInv'
<1> DEFINE s == << >>
<1>1. ast' = ast /\ todo' = Tail(todo) /\ Splitting
  BY DEF LastWindow
<1>2. /\ chunks' \in Seq(ChunkType) /\ SizesBounded'
      /\ \A p : CoveredAt(p) => CoveredAt(p)'
      /\ \A p \in Head(todo).lo .. Head(todo).hi - 1 : CoveredAt(p)'
  BY <1>1, SplittingFacts, AppendChunk DEF LastWindow, IInv, HeldText
<1>3. s \in Seq(Item) /\ Len(s) = 0 /\ todo' = s \o Tail(todo)
  BY <1>1, SplittingFacts
<1>4. \A p : HeldBy(Head(todo), p) => CoveredAt(p)'
  BY <1>1, <1>2, SplittingFacts
<1>5. todo # << >>
  BY <1>1, SplittingFacts
<1> HIDE DEF s
<1>6. \A i \in 1 .. Len(s) : s[i].kind = "text" => s[i].lo < s[i].hi
  BY <1>3
<1>7. \A n \in ast.nodes : \A p \in Own(n) :
        HeldBy(Head(todo), p) =>
          CoveredAt(p)' \/ \E i \in 1 .. Len(s) : HeldBy(s[i], p)
  BY <1>4
<1> QED BY <1>1, <1>2, <1>3, <1>5, <1>6, <1>7, PushIInv

\* A full window is taken up to its cut, and the text behind the step back
\* is still to split: nothing between the two is lost.
LEMMA FullWindowIInv ==
  ASSUME IInv, FullWindow
  PROVE  IInv'
<1> DEFINE lo == Head(todo).lo
           hi == Head(todo).hi
<1>1. ast' = ast /\ Splitting /\ ~Fits(lo, hi)
  BY DEF FullWindow
<1>2. PICK end \in lo + 1 .. lo + MaxChunkSize :
        /\ chunks' = Append(chunks, Chunk(lo, end))
        /\ todo' = <<Text(NextStart(lo, end), hi)>> \o Tail(todo)
  BY DEF FullWindow
<1>3. lo \in Nat /\ hi \in Nat /\ todo # << >>
  BY <1>1, SplittingFacts
<1>4. /\ end \in Nat /\ lo < end /\ Fits(lo, end) /\ end < hi
      /\ NextStart(lo, end) \in lo + 1 .. end
  BY <1>1, <1>2, <1>3, AstsAssumption DEF Fits, NextStart
<1>5. /\ chunks' \in Seq(ChunkType) /\ SizesBounded'
      /\ \A p : CoveredAt(p) => CoveredAt(p)'
      /\ \A p \in lo .. end - 1 : CoveredAt(p)'
  BY <1>2, <1>3, <1>4, AppendChunk DEF IInv, HeldText
<1>6. \A p : HeldBy(Head(todo), p) => CoveredAt(p)' \/ p \in NextStart(lo, end) .. hi - 1
  <2> SUFFICES ASSUME NEW p, p \in lo .. hi - 1
               PROVE  CoveredAt(p)' \/ p \in NextStart(lo, end) .. hi - 1
    BY <1>1, SplittingFacts
  <2> QED BY <1>3, <1>4, <1>5
<1>7. NextStart(lo, end) \in Nat /\ NextStart(lo, end) < hi
  BY <1>3, <1>4
<1> HIDE DEF lo, hi
<1> QED BY <1>1, <1>2, <1>3, <1>5, <1>6, <1>7, PushText

-----------------------------------------------------------------------------
\* Every step keeps the invariant.
LEMMA NextIInv == IInv /\ [Next]_vars => IInv'
<1> SUFFICES ASSUME IInv, [Next]_vars PROVE IInv'
  OBVIOUS
<1>1. CASE VisitNode
  <2>1. PICK n \in ast.nodes :
          TakeNode(n) \/ SplitNode(n) \/ SplitNodeAndHeader(n) \/ SplitAsText(n)
    BY <1>1 DEF VisitNode
  <2> QED BY <2>1, TakeNodeIInv, SplitNodeIInv, SplitNodeAndHeaderIInv, SplitAsTextIInv
<1>2. CASE LastWindow
  BY <1>2, LastWindowIInv
<1>3. CASE FullWindow
  BY <1>3, FullWindowIInv
<1>4. CASE UNCHANGED vars
  BY <1>4 DEF vars, IInv, HeldText, TypeOK, Item, SizesBounded, TextsNotEmpty, OwnTextHeld,
              HeldAt, CoveredAt
<1> QED BY <1>1, <1>2, <1>3, <1>4 DEF Next

\* Every reachable state satisfies the inductive invariant.
THEOREM Invariance == Spec => []IInv
  BY InitIInv, NextIInv, PTL DEF Spec

\* Type correctness.
THEOREM TypeCorrect == Spec => []TypeOK
<1>1. IInv => TypeOK
  BY DEF IInv, HeldText
<1> QED BY <1>1, Invariance, PTL

\* Whatever case emitted it, no chunk is empty or above max_chunk_size.
THEOREM ChunkSizes == Spec => []SizesBounded
<1>1. IInv => SizesBounded
  BY DEF IInv, HeldText
<1> QED BY <1>1, Invariance, PTL

\* When the recursion ends every simple statement that is reached through
\* bodies and every signature is stored.
THEOREM NothingOwnedIsLost == Spec => []StatementsStored
<1>1. IInv => StatementsStored
  <2> SUFFICES ASSUME IInv, todo = << >>, NEW n \in ast.nodes, NEW p \in Own(n)
               PROVE  CoveredAt(p)
    BY DEF StatementsStored
  <2>1. HeldAt(p)
    BY DEF IInv, HeldText, OwnTextHeld
  <2>2. 1 .. Len(todo) = {}
    OBVIOUS
  <2> QED BY <2>1, <2>2 DEF HeldAt
<1> QED BY <1>1, Invariance, PTL

-----------------------------------------------------------------------------
\* The order of the chunks.

\* What may follow is settled by the tree alone.
LEMMA FollowsStays ==
  ASSUME ast' = ast
  PROVE  /\ InLongHeaders' = InLongHeaders
         /\ \A p, hi : Behind(p, hi)' <=> Behind(p, hi)
         /\ \A p, c : Follows(p, c)' <=> Follows(p, c)
<1>1. Split' = Split
  BY DEF Split
<1>2. SharedDecorators' = SharedDecorators
  BY <1>1 DEF SharedDecorators
<1>3. InLongHeaders' = InLongHeaders
  BY <1>1 DEF InLongHeaders
<1> QED BY <1>2, <1>3 DEF Behind, Follows, StartsBehind, RepeatsLittle

\* What is behind an end is behind any earlier one, and follows a chunk that
\* ends there.
LEMMA BehindFollows ==
  ASSUME NEW p \in Nat, NEW hi \in Nat, Behind(p, hi), NEW b \in Nat, b <= hi
  PROVE  /\ Behind(p, b)
         /\ \A a \in Nat : a < hi => Follows(p, Chunk(a, b))
<1>1. CASE p >= hi
  <2>1. b - p <= ChunkOverlap
    BY <1>1, AstsAssumption
  <2> QED BY <1>1, <2>1 DEF Behind, Follows, StartsBehind, RepeatsLittle, Chunk
<1>2. CASE p \in InLongHeaders /\ p .. hi - 1 \subseteq SharedDecorators
  <2>1. p .. b - 1 \subseteq p .. hi - 1
    OBVIOUS
  <2> QED BY <1>2, <2>1 DEF Behind, Follows, StartsBehind, RepeatsLittle, Chunk
<1> QED BY <1>1, <1>2 DEF Behind

\* The decorators of a first child up to its keyword are shared ones, and lie
\* in a long header if its parent has one.
LEMMA DecoratorsAreShared ==
  ASSUME AstOK(ast), NEW n \in ast.nodes, n.body # << >>,
         NEW p \in Decorators(n.body[1])
  PROVE  /\ p .. FirstBodyStart(n) - 1 \subseteq SharedDecorators
         /\ ~Fits(Start(n), FirstBodyStart(n)) => Behind(p, FirstBodyStart(n))
<1>1. n \in Split /\ FirstBodyStart(n) = n.body[1].kw
  BY DEF Split, FirstBodyStart
<1>2. Decorators(n.body[1]) \subseteq SharedDecorators
  BY <1>1 DEF SharedDecorators
<1>3. p .. FirstBodyStart(n) - 1 \subseteq Decorators(n.body[1])
  <2>1. n.body \in Seq(ast.nodes)
    BY DEF AstOK
  <2>2. n.body[1] \in ast.nodes
    BY <2>1
  <2>3. NodeOK(n.body[1])
    BY <2>2 DEF AstOK
  <2>4. Start(n.body[1]) \in Nat /\ n.body[1].kw \in Nat
    BY <2>3, StartFacts DEF NodeOK
  <2>5. p \in Start(n.body[1]) .. n.body[1].kw - 1
    BY DEF Decorators
  <2> QED BY <1>1, <2>4, <2>5 DEF Decorators
<1>4. ~Fits(Start(n), FirstBodyStart(n)) => p \in InLongHeaders
  BY <1>1 DEF InLongHeaders
<1> QED BY <1>2, <1>3, <1>4 DEF Behind

\* Where the two kinds of entries begin and end.
LEMMA VisitExtent ==
  ASSUME NEW n
  PROVE  Upto(Visit(n)) = n.end /\ Extent(Visit(n)) = Start(n) .. n.end - 1
BY DEF Visit, Upto, From, Extent

LEMMA TextExtent ==
  ASSUME NEW lo, NEW hi
  PROVE  Upto(Text(lo, hi)) = hi /\ Extent(Text(lo, hi)) = lo .. hi - 1
BY DEF Text, Upto, From, Extent

\* Entries begin and end at natural offsets, and do not begin behind their end.
LEMMA ExtentType ==
  ASSUME AstOK(ast), NEW item \in Item
  PROVE  From(item) \in Nat /\ Upto(item) \in Nat /\ Extent(item) \subseteq Nat
<1>1. CASE item.kind = "visit"
  <2>1. item.node \in ast.nodes
    BY <1>1 DEF Item
  <2>2. NodeOK(item.node)
    BY <2>1 DEF AstOK
  <2>3. Start(item.node) \in Nat /\ item.node.end \in Nat
    BY <2>2, StartFacts
  <2> QED BY <1>1, <2>3 DEF Upto, From, Extent
<1>2. CASE item.kind = "text"
  <2>1. item.lo \in Nat /\ item.hi \in Nat
    BY <1>2 DEF Item
  <2> QED BY <1>2, <2>1 DEF Upto, From, Extent
<1> QED BY <1>1, <1>2 DEF Item

\* A step that replaces the head of todo by the entries of a sequence s inside
\* it, in order, and appends at most one chunk inside it, which they follow,
\* keeps the order.
LEMMA ReplaceOrder ==
  ASSUME IInv, OrderInv, ast' = ast, todo # << >>,
         NEW s \in Seq(Item), todo' = s \o Tail(todo),
         \A i \in 1 .. Len(s) : Upto(s[i]) <= Upto(Head(todo))
                                /\ Extent(s[i]) \subseteq Extent(Head(todo)),
         \A i, j \in 1 .. Len(s) : i < j =>
           \A p \in Extent(s[j]) : Behind(p, Upto(s[i])),
         \/ chunks' = chunks
         \/ \E a \in Extent(Head(todo)) : \E b \in Nat :
              /\ chunks' = Append(chunks, Chunk(a, b))
              /\ b <= Upto(Head(todo))
              /\ \A i \in 1 .. Len(s) : \A p \in Extent(s[i]) : Follows(p, Chunk(a, b))
  PROVE  OrderInv'
<1>1. /\ todo \in Seq(Item) /\ Len(todo) \in Nat /\ Len(s) \in Nat /\ 1 \in 1 .. Len(todo)
      /\ Head(todo) = todo[1] /\ AstOK(ast)
      /\ chunks \in Seq(ChunkType) /\ Len(chunks) \in Nat
  BY AstsAssumption DEF IInv, TypeOK
<1>2. /\ Len(todo') = Len(s) + Len(todo) - 1
      /\ \A i \in 1 .. Len(s) : todo'[i] = s[i]
      /\ \A i \in 2 .. Len(todo) : todo'[Len(s) + i - 1] = todo[i]
  BY <1>1, ReplaceHead
<1>3. /\ \A i \in 1 .. Len(todo) :
           From(todo[i]) \in Nat /\ Upto(todo[i]) \in Nat /\ Extent(todo[i]) \subseteq Nat
      /\ \A i \in 1 .. Len(s) : Upto(s[i]) \in Nat /\ Extent(s[i]) \subseteq Nat
  <2>1. (\A i \in 1 .. Len(todo) : todo[i] \in Item) /\ (\A i \in 1 .. Len(s) : s[i] \in Item)
    BY <1>1
  <2> QED BY <1>1, <2>1, ExtentType
\* An entry of the new todo is of s, or was behind the head.
<1>4. ASSUME NEW j \in 1 .. Len(todo')
      PROVE  \/ j \in 1 .. Len(s) /\ todo'[j] = s[j]
             \/ \E i \in 2 .. Len(todo) :
                  j = Len(s) + i - 1 /\ todo'[j] = todo[i]
  <2>1. CASE j <= Len(s)
    BY <1>1, <1>2, <2>1
  <2>2. CASE j > Len(s)
    <3>1. j - Len(s) + 1 \in 2 .. Len(todo) /\ Len(s) + (j - Len(s) + 1) - 1 = j
      BY <1>1, <1>2, <2>2
    <3> QED BY <1>2, <3>1
  <2> QED BY <1>1, <1>2, <2>1, <2>2
<1>5. /\ \A p, hi : Behind(p, hi)' <=> Behind(p, hi)
      /\ \A p, c : Follows(p, c)' <=> Follows(p, c)
  BY FollowsStays
\* What lies in the head lies before the entries behind it.
<1>6. ASSUME NEW i \in 2 .. Len(todo), NEW p \in Extent(todo[i])
      PROVE  Behind(p, Upto(Head(todo)))
  <2>1. i \in 1 .. Len(todo) /\ 1 < i
    BY <1>1
  <2> QED BY <1>1, <1>6, <2>1 DEF OrderInv, ItemsInOrder
<1>7. ItemsInOrder'
  <2> SUFFICES ASSUME NEW i \in 1 .. Len(todo'), NEW j \in 1 .. Len(todo'), i < j,
                      NEW p \in Extent(todo'[j])
               PROVE  Behind(p, Upto(todo'[i]))
    BY <1>5 DEF ItemsInOrder
  <2>1. CASE j \in 1 .. Len(s) /\ todo'[j] = s[j]
    <3>1. i \in 1 .. Len(s) /\ todo'[i] = s[i]
      BY <1>1, <1>2, <2>1
    <3> QED BY <2>1, <3>1
  <2>2. ASSUME NEW l \in 2 .. Len(todo), j = Len(s) + l - 1, todo'[j] = todo[l]
        PROVE  Behind(p, Upto(todo'[i]))
    <3>1. p \in Nat /\ p \in Extent(todo[l]) /\ l \in 1 .. Len(todo)
      BY <1>1, <1>3, <2>2
    <3>2. CASE i \in 1 .. Len(s) /\ todo'[i] = s[i]
      <4>1. Upto(s[i]) <= Upto(Head(todo)) /\ Upto(s[i]) \in Nat /\ Upto(Head(todo)) \in Nat
        BY <1>1, <1>3, <3>2
      <4>2. Behind(p, Upto(Head(todo)))
        BY <1>6, <3>1
      <4> QED BY <3>1, <3>2, <4>1, <4>2, BehindFollows
    <3>3. ASSUME NEW h \in 2 .. Len(todo), i = Len(s) + h - 1, todo'[i] = todo[h]
          PROVE  Behind(p, Upto(todo'[i]))
      <4>1. Len(s) \in Nat /\ Len(todo) \in Nat /\ h \in Int /\ l \in Int
        BY <1>1
      <4>2. h \in 1 .. Len(todo) /\ h < l
        BY <2>2, <3>3, <4>1
      <4> QED BY <3>1, <3>3, <4>2 DEF OrderInv, ItemsInOrder
    <3> QED BY <1>4, <3>2, <3>3
  <2> QED BY <1>4, <2>1, <2>2
\* The chunks there were.
<1>8. ASSUME NEW i \in 1 .. Len(chunks), NEW j \in 1 .. Len(todo'), NEW p \in Extent(todo'[j])
      PROVE  Follows(p, chunks[i])
  <2>1. ASSUME NEW l \in 1 .. Len(todo), p \in Extent(todo[l])
        PROVE  Follows(p, chunks[i])
    BY <2>1 DEF OrderInv, ItemsFollow
  <2>2. CASE j \in 1 .. Len(s) /\ todo'[j] = s[j]
    <3>1. p \in Extent(todo[1])
      BY <1>1, <1>8, <2>2
    <3> QED BY <1>1, <2>1, <3>1
  <2>3. ASSUME NEW l \in 2 .. Len(todo), todo'[j] = todo[l]
        PROVE  Follows(p, chunks[i])
    BY <1>1, <1>8, <2>1, <2>3
  <2> QED BY <1>4, <2>2, <2>3
<1>9. CASE chunks' = chunks
  <2>1. ItemsFollow' /\ ChunksFollow'
    BY <1>5, <1>8, <1>9 DEF OrderInv, ItemsFollow, ChunksFollow
  <2> QED BY <1>7, <2>1 DEF OrderInv
<1>10. ASSUME NEW a \in Extent(Head(todo)), NEW b \in Nat,
              chunks' = Append(chunks, Chunk(a, b)), b <= Upto(Head(todo)),
              \A i \in 1 .. Len(s) : \A p \in Extent(s[i]) : Follows(p, Chunk(a, b))
       PROVE  OrderInv'
  <2>1. a \in Nat /\ a < Upto(Head(todo)) /\ Upto(Head(todo)) \in Nat
    <3>1. /\ Extent(Head(todo)) \subseteq Nat
          /\ From(Head(todo)) \in Nat /\ Upto(Head(todo)) \in Nat
      BY <1>1, <1>3
    <3> QED BY <3>1 DEF Extent
  <2>2. /\ Len(chunks') = Len(chunks) + 1
        /\ \A i \in 1 .. Len(chunks) : chunks'[i] = chunks[i]
        /\ chunks'[Len(chunks) + 1] = Chunk(a, b)
    BY <1>1, <1>10
  <2>3. ASSUME NEW j \in 1 .. Len(todo'), NEW p \in Extent(todo'[j])
        PROVE  Follows(p, Chunk(a, b))
    <3>1. CASE j \in 1 .. Len(s) /\ todo'[j] = s[j]
      BY <1>10, <2>3, <3>1
    <3>2. ASSUME NEW l \in 2 .. Len(todo), todo'[j] = todo[l]
          PROVE  Follows(p, Chunk(a, b))
      <4>1. p \in Extent(todo[l])
        BY <2>3, <3>2
      <4>2. Behind(p, Upto(Head(todo)))
        BY <1>6, <4>1
      <4>3. Extent(todo[l]) \subseteq Nat
        BY <1>1, <1>3
      <4>4. p \in Nat
        BY <4>1, <4>3
      <4> QED BY <1>10, <2>1, <4>2, <4>4, BehindFollows
    <3> QED BY <1>4, <3>1, <3>2
  <2>4. ItemsFollow'
    <3> SUFFICES ASSUME NEW i \in 1 .. Len(chunks'), NEW j \in 1 .. Len(todo'),
                        NEW p \in Extent(todo'[j])
                 PROVE  Follows(p, chunks'[i])
      BY <1>5 DEF ItemsFollow
    <3>1. CASE i \in 1 .. Len(chunks)
      BY <1>8, <2>2, <3>1
    <3>2. CASE i = Len(chunks) + 1
      BY <2>2, <2>3, <3>2
    <3> QED BY <1>1, <2>2, <3>1, <3>2
  <2>5. ChunksFollow'
    <3> SUFFICES ASSUME NEW i \in 1 .. Len(chunks'), NEW j \in 1 .. Len(chunks'), i < j
                 PROVE  Follows(chunks'[j].first, chunks'[i])
      BY <1>5 DEF ChunksFollow
    <3>1. i \in 1 .. Len(chunks) /\ chunks'[i] = chunks[i]
      BY <1>1, <2>2
    <3>2. CASE j \in 1 .. Len(chunks)
      BY <2>2, <3>1, <3>2 DEF OrderInv, ChunksFollow
    <3>3. CASE j = Len(chunks) + 1
      <4>1. chunks'[j].first = a
        BY <2>2, <3>3 DEF Chunk
      <4>2. Follows(a, chunks[i])
        BY <1>1, <1>10, <3>1 DEF OrderInv, ItemsFollow
      <4> QED BY <3>1, <4>1, <4>2
    <3>4. j \in 1 .. Len(chunks) \/ j = Len(chunks) + 1
      BY <1>1, <2>2
    <3> QED BY <3>2, <3>3, <3>4
  <2> QED BY <1>7, <2>4, <2>5 DEF OrderInv
<1> QED BY <1>9, <1>10

\* The empty sequence in the place of the head: the head is done.
LEMMA DropHead ==
  ASSUME IInv, todo # << >>, todo' = Tail(todo)
  PROVE  << >> \in Seq(Item) /\ Len(<< >>) = 0 /\ todo' = << >> \o Tail(todo)
BY DEF IInv, TypeOK

\* The initial states are in order, as the parser's statements are.
LEMMA InitOrder == Init => OrderInv
<1> SUFFICES ASSUME Init PROVE OrderInv
  OBVIOUS
<1>1. AstOK(ast)
  BY AstsAssumption DEF Init
<1>2. ast.body \in Seq(ast.nodes)
  BY <1>1 DEF AstOK
<1>3. /\ Len(todo) = Len(ast.body)
      /\ \A i \in 1 .. Len(ast.body) : todo[i] = Visit(ast.body[i])
  BY <1>2, VisitAllFacts DEF Init
<1>4. ItemsInOrder
  <2> SUFFICES ASSUME NEW i \in 1 .. Len(ast.body), NEW j \in 1 .. Len(ast.body), i < j,
                      NEW p \in Extent(Visit(ast.body[j]))
               PROVE  p >= Upto(Visit(ast.body[i]))
    BY <1>3 DEF ItemsInOrder, Behind
  <2>1. ast.body[i].end <= Start(ast.body[j])
    BY <1>1, <1>2 DEF AstOK
  <2>2. NodeOK(ast.body[i]) /\ NodeOK(ast.body[j])
    BY <1>1, <1>2 DEF AstOK
  <2>3. Start(ast.body[j]) \in Nat /\ ast.body[j].end \in Nat /\ ast.body[i].end \in Nat
    BY <2>2, StartFacts
  <2>4. Start(ast.body[j]) <= p /\ p \in Int
    BY <2>3, VisitExtent
  <2> QED BY <2>1, <2>3, <2>4, VisitExtent
<1>5. ItemsFollow /\ ChunksFollow
  BY DEF Init, ItemsFollow, ChunksFollow
<1> QED BY <1>4, <1>5 DEF OrderInv

\* The extent of the statement that is visited.
LEMMA VisitedExtent ==
  ASSUME NEW n, Visiting(n)
  PROVE  Upto(Head(todo)) = n.end /\ Extent(Head(todo)) = Start(n) .. n.end - 1
BY DEF Visiting, Upto, From, Extent

\* Case A: the chunk is the statement.
LEMMA TakeNodeOrder ==
  ASSUME IInv, OrderInv, NEW n \in ast.nodes, TakeNode(n)
  PROVE  OrderInv'
<1> DEFINE s == << >>
<1>1. /\ Visiting(n) /\ ast' = ast /\ todo' = Tail(todo)
      /\ chunks' = Append(chunks, Chunk(Start(n), n.end))
  BY DEF TakeNode
<1>2. todo # << >> /\ Start(n) \in Nat /\ n.end \in Nat /\ Start(n) < n.end
  BY <1>1, VisitFacts
<1>3. s \in Seq(Item) /\ Len(s) = 0 /\ todo' = s \o Tail(todo)
  BY <1>1, <1>2, DropHead
<1>4. Start(n) \in Extent(Head(todo)) /\ n.end <= Upto(Head(todo))
  BY <1>1, <1>2, VisitedExtent
<1> HIDE DEF s
<1>5. \A i \in 1 .. Len(s) : FALSE
  BY <1>3
<1>6. /\ \A i \in 1 .. Len(s) : /\ Upto(s[i]) <= Upto(Head(todo))
                                /\ Extent(s[i]) \subseteq Extent(Head(todo))
                                /\ \A c : \A p \in Extent(s[i]) : Follows(p, c)
      /\ \A i, j \in 1 .. Len(s) : ~(i < j)
  BY <1>5
<1> QED BY <1>1, <1>2, <1>3, <1>4, <1>6, ReplaceOrder

\* The statements of a body lie inside their parent, behind one another, and
\* behind its header, up to the decorators of the first.
LEMMA BodyInOrder ==
  ASSUME AstOK(ast), NEW n \in ast.nodes, NEW i \in 1 .. Len(n.body)
  PROVE  /\ NodeOK(n.body[i]) /\ n.body[i].end <= n.end
         /\ Start(n) < Start(n.body[i])
         /\ Extent(Visit(n.body[i])) \subseteq Start(n) .. n.end - 1
         /\ \A p \in Extent(Visit(n.body[i])) :
              /\ p \in Nat /\ p > Start(n)
              /\ p >= FirstBodyStart(n) \/ p \in Decorators(n.body[1])
              /\ \A j \in 1 .. i - 1 : p >= n.body[j].end
<1>1. /\ n.body \in Seq(ast.nodes) /\ NodeOK(n) /\ n.body # << >> /\ 1 \in 1 .. Len(n.body)
      /\ Len(n.body) \in Nat
  BY DEF AstOK
<1>2. /\ n.body[i] \in ast.nodes /\ n.body[1] \in ast.nodes
      /\ n.kw < Start(n.body[i]) /\ n.body[i].end <= n.end
  BY <1>1 DEF AstOK
<1>3. NodeOK(n.body[i]) /\ NodeOK(n.body[1])
  BY <1>2 DEF AstOK
<1>4. /\ Start(n) \in Nat /\ n.kw \in Nat /\ n.end \in Nat /\ Start(n) <= n.kw
      /\ Start(n.body[i]) \in Nat /\ n.body[i].end \in Nat
      /\ Start(n.body[1]) \in Nat /\ n.body[1].kw \in Nat /\ n.body[1].end \in Nat
      /\ n.body[1].kw < n.body[1].end
  BY <1>1, <1>3, StartFacts
<1>5. \A j \in 1 .. i - 1 : n.body[j].end \in Nat /\ n.body[j].end <= Start(n.body[i])
  <2> SUFFICES ASSUME NEW j \in 1 .. i - 1
               PROVE  n.body[j].end \in Nat /\ n.body[j].end <= Start(n.body[i])
    OBVIOUS
  <2>1. j \in 1 .. Len(n.body) /\ i \in j + 1 .. Len(n.body)
    BY <1>1
  <2>2. n.body[j].end <= Start(n.body[i]) /\ n.body[j] \in ast.nodes
    BY <1>1, <2>1 DEF AstOK
  <2>3. NodeOK(n.body[j])
    BY <2>2 DEF AstOK
  <2> QED BY <2>2, <2>3, StartFacts
<1>6. ASSUME NEW p \in Extent(Visit(n.body[i]))
      PROVE  p \in Nat /\ p >= Start(n.body[i]) /\ p < n.body[i].end
  BY <1>4, <1>6, VisitExtent
<1>7. ASSUME NEW p \in Extent(Visit(n.body[i]))
      PROVE  p >= FirstBodyStart(n) \/ p \in Decorators(n.body[1])
  <2>1. CASE i = 1
    <3>1. CASE p < n.body[1].kw
      BY <1>4, <1>6, <1>7, <2>1, <3>1 DEF Decorators
    <3>2. CASE p >= n.body[1].kw
      BY <3>2 DEF FirstBodyStart
    <3> QED BY <1>4, <1>6, <1>7, <3>1, <3>2
  <2>2. CASE i # 1
    <3>1. 1 \in 1 .. i - 1
      BY <1>1, <2>2
    <3>2. n.body[1].end <= Start(n.body[i])
      BY <1>5, <3>1
    <3> QED BY <1>4, <1>6, <1>7, <3>2 DEF FirstBodyStart
  <2> QED BY <2>1, <2>2
<1>8. Extent(Visit(n.body[i])) \subseteq Start(n) .. n.end - 1
  <2> SUFFICES ASSUME NEW p \in Extent(Visit(n.body[i]))
               PROVE  p \in Start(n) .. n.end - 1
    OBVIOUS
  <2> QED BY <1>2, <1>4, <1>6
<1>9. ASSUME NEW p \in Extent(Visit(n.body[i]))
      PROVE  p > Start(n) /\ \A j \in 1 .. i - 1 : p >= n.body[j].end
  <2>1. p \in Nat /\ p >= Start(n.body[i])
    BY <1>6, <1>9
  <2> QED BY <1>2, <1>4, <1>5, <2>1
<1> QED BY <1>2, <1>3, <1>4, <1>6, <1>7, <1>8, <1>9

\* Case B with a short header: the statements of the body follow its chunk.
LEMMA SplitNodeOrder ==
  ASSUME IInv, OrderInv, NEW n \in ast.nodes, SplitNode(n)
  PROVE  OrderInv'
<1> DEFINE s == VisitAll(n.body)
           header == Chunk(Start(n), FirstBodyStart(n))
<1>1. /\ Visiting(n) /\ ast' = ast /\ todo' = s \o Tail(todo) /\ n.body # << >>
      /\ chunks' = Append(chunks, header)
  BY DEF SplitNode
<1>2. /\ todo # << >> /\ AstOK(ast) /\ n.body \in Seq(ast.nodes) /\ Len(n.body) \in Nat
      /\ Start(n) \in Nat /\ n.end \in Nat /\ Start(n) < n.end
      /\ FirstBodyStart(n) \in Nat
  BY <1>1, VisitFacts, HeaderFacts
<1>3. /\ s \in Seq(Item) /\ Len(s) = Len(n.body)
      /\ \A i \in 1 .. Len(n.body) : s[i] = Visit(n.body[i])
  BY <1>2, VisitAllFacts
<1>4. FirstBodyStart(n) <= n.end
  <2>1. 1 \in 1 .. Len(n.body)
    BY <1>1, <1>2
  <2>2. NodeOK(n.body[1]) /\ n.body[1].end <= n.end
    BY <1>2, <2>1, BodyInOrder
  <2> QED BY <1>2, <2>2, StartFacts DEF FirstBodyStart
<1>5. /\ Upto(Head(todo)) = n.end /\ Extent(Head(todo)) = Start(n) .. n.end - 1
      /\ Start(n) \in Extent(Head(todo))
  BY <1>1, <1>2, VisitedExtent
<1> HIDE DEF s
<1>6. \A i \in 1 .. Len(s) :
        Upto(s[i]) <= Upto(Head(todo)) /\ Extent(s[i]) \subseteq Extent(Head(todo))
  <2> SUFFICES ASSUME NEW i \in 1 .. Len(n.body)
               PROVE  /\ Upto(Visit(n.body[i])) <= n.end
                      /\ Extent(Visit(n.body[i])) \subseteq Start(n) .. n.end - 1
    BY <1>3, <1>5
  <2>1. /\ n.body[i].end <= n.end
        /\ Extent(Visit(n.body[i])) \subseteq Start(n) .. n.end - 1
    BY <1>2, BodyInOrder
  <2> QED BY <2>1, VisitExtent
<1>7. ASSUME NEW i \in 1 .. Len(s), NEW j \in 1 .. Len(s), i < j, NEW p \in Extent(s[j])
      PROVE  Behind(p, Upto(s[i]))
  <2>1. i \in 1 .. j - 1 /\ j \in 1 .. Len(n.body) /\ i \in 1 .. Len(n.body)
    BY <1>2, <1>3, <1>7
  <2>2. p \in Extent(Visit(n.body[j])) /\ Upto(s[i]) = n.body[i].end
    BY <1>3, <1>7, <2>1, VisitExtent
  <2>3. \A h \in 1 .. j - 1 : p >= n.body[h].end
    BY <1>2, <2>1, <2>2, BodyInOrder
  <2> QED BY <2>1, <2>2, <2>3 DEF Behind
<1>8. ASSUME NEW i \in 1 .. Len(s), NEW p \in Extent(s[i])
      PROVE  Follows(p, header)
  <2>1. /\ p \in Nat /\ p > Start(n)
        /\ p >= FirstBodyStart(n) \/ p \in Decorators(n.body[1])
    BY <1>2, <1>3, <1>8, BodyInOrder
  <2>2. CASE p >= FirstBodyStart(n)
    <3>1. FirstBodyStart(n) - p <= ChunkOverlap
      BY <1>2, <2>1, <2>2, AstsAssumption
    <3> QED BY <2>1, <3>1 DEF Follows, StartsBehind, RepeatsLittle, Chunk
  <2>3. CASE p \in Decorators(n.body[1])
    <3>1. p .. FirstBodyStart(n) - 1 \subseteq SharedDecorators
      BY <1>1, <1>2, <2>3, DecoratorsAreShared
    <3> QED BY <2>1, <3>1 DEF Follows, StartsBehind, RepeatsLittle, Chunk
  <2> QED BY <2>1, <2>2, <2>3
<1> QED BY <1>1, <1>2, <1>3, <1>4, <1>5, <1>6, <1>7, <1>8, ReplaceOrder

\* Case B with a long header: its text comes before the body.
LEMMA SplitNodeAndHeaderOrder ==
  ASSUME IInv, OrderInv, NEW n \in ast.nodes, SplitNodeAndHeader(n)
  PROVE  OrderInv'
<1> DEFINE header == Text(Start(n), FirstBodyStart(n))
           below  == VisitAll(n.body)
           s      == <<header>> \o below
<1>1. /\ Visiting(n) /\ ast' = ast /\ chunks' = chunks
      /\ todo' = s \o Tail(todo) /\ n.body # << >>
      /\ ~Fits(Start(n), FirstBodyStart(n))
  BY DEF SplitNodeAndHeader
<1>2. /\ todo # << >> /\ AstOK(ast) /\ n.body \in Seq(ast.nodes) /\ Len(n.body) \in Nat
      /\ Start(n) \in Nat /\ n.end \in Nat /\ Start(n) < n.end
      /\ FirstBodyStart(n) \in Nat
  BY <1>1, VisitFacts, HeaderFacts
<1>3. /\ below \in Seq(Item) /\ Len(below) = Len(n.body)
      /\ \A i \in 1 .. Len(n.body) : below[i] = Visit(n.body[i])
  BY <1>2, VisitAllFacts
<1>4. header \in Item
  BY <1>2 DEF Text, Item
<1>5. /\ s \in Seq(Item) /\ Len(s) = Len(n.body) + 1 /\ s[1] = header
      /\ \A i \in 1 .. Len(n.body) : s[i + 1] = Visit(n.body[i])
  <2> HIDE DEF header, below
  <2>1. Len(below) \in Nat
    BY <1>3
  <2> QED BY <1>3, <1>4, <2>1
<1>6. FirstBodyStart(n) <= n.end
  <2>1. 1 \in 1 .. Len(n.body)
    BY <1>1, <1>2
  <2>2. NodeOK(n.body[1]) /\ n.body[1].end <= n.end
    BY <1>2, <2>1, BodyInOrder
  <2> QED BY <1>2, <2>2, StartFacts DEF FirstBodyStart
<1>7. Upto(Head(todo)) = n.end /\ Extent(Head(todo)) = Start(n) .. n.end - 1
  BY <1>1, VisitedExtent
<1>8. Upto(s[1]) = FirstBodyStart(n) /\ Extent(s[1]) = Start(n) .. FirstBodyStart(n) - 1
  BY <1>5, TextExtent
<1> HIDE DEF s
\* An entry is the header or a statement of the body.
<1>9. ASSUME NEW i \in 1 .. Len(s)
      PROVE  i = 1 \/ \E l \in 1 .. Len(n.body) : i = l + 1 /\ s[i] = Visit(n.body[l])
  <2>1. i = 1 \/ (i - 1 \in 1 .. Len(n.body) /\ (i - 1) + 1 = i)
    BY <1>2, <1>5
  <2> QED BY <1>5, <2>1
<1>10. ASSUME NEW i \in 1 .. Len(s)
       PROVE  Upto(s[i]) <= Upto(Head(todo)) /\ Extent(s[i]) \subseteq Extent(Head(todo))
  <2>1. CASE i = 1
    BY <1>2, <1>6, <1>7, <1>8, <2>1
  <2>2. ASSUME NEW l \in 1 .. Len(n.body), s[i] = Visit(n.body[l])
        PROVE  Upto(s[i]) <= Upto(Head(todo)) /\ Extent(s[i]) \subseteq Extent(Head(todo))
    <3>1. /\ n.body[l].end <= n.end
          /\ Extent(Visit(n.body[l])) \subseteq Start(n) .. n.end - 1
      BY <1>2, BodyInOrder
    <3> QED BY <1>7, <2>2, <3>1, VisitExtent
  <2> QED BY <1>9, <2>1, <2>2
<1>11. ASSUME NEW i \in 1 .. Len(s), NEW j \in 1 .. Len(s), i < j, NEW p \in Extent(s[j])
       PROVE  Behind(p, Upto(s[i]))
  <2>1. PICK l \in 1 .. Len(n.body) : j = l + 1 /\ s[j] = Visit(n.body[l])
    BY <1>9, <1>11
  <2>2. /\ p >= FirstBodyStart(n) \/ p \in Decorators(n.body[1])
        /\ \A h \in 1 .. l - 1 : p >= n.body[h].end
    BY <1>2, <1>11, <2>1, BodyInOrder
  <2>3. CASE i = 1
    BY <1>1, <1>2, <1>8, <2>2, <2>3, DecoratorsAreShared DEF Behind
  <2>4. ASSUME NEW h \in 1 .. Len(n.body), i = h + 1, s[i] = Visit(n.body[h])
        PROVE  Behind(p, Upto(s[i]))
    <3>1. h \in 1 .. l - 1
      BY <1>11, <2>1, <2>4
    <3> QED BY <2>2, <2>4, <3>1, VisitExtent DEF Behind
  <2> QED BY <1>9, <2>3, <2>4
<1> QED BY <1>1, <1>2, <1>5, <1>10, <1>11, ReplaceOrder

\* Case C: the text is the statement's.
LEMMA SplitAsTextOrder ==
  ASSUME IInv, OrderInv, NEW n \in ast.nodes, SplitAsText(n)
  PROVE  OrderInv'
<1> DEFINE s == <<Text(Start(n), n.end)>>
<1>1. Visiting(n) /\ ast' = ast /\ chunks' = chunks /\ todo' = s \o Tail(todo)
  BY DEF SplitAsText
<1>2. todo # << >> /\ Start(n) \in Nat /\ n.end \in Nat
  BY <1>1, VisitFacts
<1>3. Text(Start(n), n.end) \in Item
  BY <1>2 DEF Text, Item
<1>4. s \in Seq(Item) /\ Len(s) = 1 /\ s[1] = Text(Start(n), n.end)
  BY <1>3
<1>5. Upto(s[1]) = Upto(Head(todo)) /\ Extent(s[1]) = Extent(Head(todo))
  BY <1>1, <1>4, TextExtent, VisitedExtent
<1>6. Upto(Head(todo)) = n.end
  BY <1>1, VisitedExtent
<1> HIDE DEF s
<1>7. \A i \in 1 .. Len(s) :
        Upto(s[i]) <= Upto(Head(todo)) /\ Extent(s[i]) \subseteq Extent(Head(todo))
  BY <1>2, <1>4, <1>5, <1>6
<1>8. \A i, j \in 1 .. Len(s) : ~(i < j)
  BY <1>4
<1> QED BY <1>1, <1>2, <1>4, <1>7, <1>8, ReplaceOrder

\* The extent of the text that is split.
LEMMA SplitExtent ==
  ASSUME IInv, Splitting
  PROVE  /\ Upto(Head(todo)) = Head(todo).hi
         /\ Extent(Head(todo)) = Head(todo).lo .. Head(todo).hi - 1
BY DEF Splitting, Upto, From, Extent

\* The last window takes the text.
LEMMA LastWindowOrder ==
  ASSUME IInv, OrderInv, LastWindow
  PROVE  OrderInv'
<1> DEFINE s == << >>
<1>1. /\ ast' = ast /\ todo' = Tail(todo) /\ Splitting
      /\ chunks' = Append(chunks, Chunk(Head(todo).lo, Head(todo).hi))
  BY DEF LastWindow
<1>2. /\ todo # << >> /\ Head(todo).lo \in Nat /\ Head(todo).hi \in Nat
      /\ Head(todo).lo < Head(todo).hi
  BY <1>1, SplittingFacts
<1>3. s \in Seq(Item) /\ Len(s) = 0 /\ todo' = s \o Tail(todo)
  BY <1>1, <1>2, DropHead
<1>4. Head(todo).lo \in Extent(Head(todo)) /\ Head(todo).hi <= Upto(Head(todo))
  BY <1>1, <1>2, SplitExtent
<1> HIDE DEF s
<1>5. \A i \in 1 .. Len(s) : FALSE
  BY <1>3
<1>6. /\ \A i \in 1 .. Len(s) : /\ Upto(s[i]) <= Upto(Head(todo))
                                /\ Extent(s[i]) \subseteq Extent(Head(todo))
                                /\ \A c : \A p \in Extent(s[i]) : Follows(p, c)
      /\ \A i, j \in 1 .. Len(s) : ~(i < j)
  BY <1>5
<1> QED BY <1>1, <1>2, <1>3, <1>4, <1>6, ReplaceOrder

\* What is left of a text starts behind the start of the window, and at most
\* the overlap before its end.
LEMMA FullWindowOrder ==
  ASSUME IInv, OrderInv, FullWindow
  PROVE  OrderInv'
<1> DEFINE lo == Head(todo).lo
           hi == Head(todo).hi
<1>1. ast' = ast /\ Splitting /\ ~Fits(lo, hi)
  BY DEF FullWindow
<1>2. PICK end \in lo + 1 .. lo + MaxChunkSize :
        /\ chunks' = Append(chunks, Chunk(lo, end))
        /\ todo' = <<Text(NextStart(lo, end), hi)>> \o Tail(todo)
  BY DEF FullWindow
<1>3. lo \in Nat /\ hi \in Nat /\ todo # << >>
  BY <1>1, SplittingFacts
<1>4. /\ end \in Nat /\ end < hi
      /\ NextStart(lo, end) \in lo + 1 .. end
      /\ end - NextStart(lo, end) <= ChunkOverlap
  BY <1>1, <1>2, <1>3, AstsAssumption DEF Fits, NextStart
<1>5. Upto(Head(todo)) = hi /\ Extent(Head(todo)) = lo .. hi - 1
  BY <1>1, SplitExtent
<1> DEFINE next == NextStart(lo, end)
           s    == <<Text(next, hi)>>
<1> HIDE DEF lo, hi, next
<1>6. next \in Nat /\ lo < next /\ next <= end /\ end - next <= ChunkOverlap
  BY <1>3, <1>4 DEF next
<1>7. Text(next, hi) \in Item
  BY <1>3, <1>6 DEF Text, Item
<1>8. s \in Seq(Item) /\ Len(s) = 1 /\ s[1] = Text(next, hi) /\ todo' = s \o Tail(todo)
  BY <1>2, <1>7 DEF next
<1>9. Upto(s[1]) = hi /\ Extent(s[1]) = next .. hi - 1
  BY <1>8, TextExtent
<1> HIDE DEF s
<1>10. \A i \in 1 .. Len(s) :
         Upto(s[i]) <= Upto(Head(todo)) /\ Extent(s[i]) \subseteq Extent(Head(todo))
  BY <1>3, <1>5, <1>6, <1>8, <1>9
<1>11. \A i, j \in 1 .. Len(s) : ~(i < j)
  BY <1>8
<1>12. ASSUME NEW i \in 1 .. Len(s), NEW p \in Extent(s[i])
       PROVE  Follows(p, Chunk(lo, end))
  <2>1. p \in Nat /\ p >= next
    BY <1>3, <1>6, <1>8, <1>9, <1>12
  <2> QED BY <1>3, <1>4, <1>6, <2>1, AstsAssumption
          DEF Follows, StartsBehind, RepeatsLittle, Chunk
<1>13. lo \in Extent(Head(todo)) /\ end <= Upto(Head(todo))
  BY <1>3, <1>4, <1>5, <1>6
<1> QED BY <1>1, <1>2, <1>3, <1>4, <1>8, <1>10, <1>11, <1>12, <1>13, ReplaceOrder

\* Every step keeps the order.
LEMMA NextOrder == IInv /\ OrderInv /\ [Next]_vars => OrderInv'
<1> SUFFICES ASSUME IInv, OrderInv, [Next]_vars PROVE OrderInv'
  OBVIOUS
<1>1. CASE VisitNode
  <2>1. PICK n \in ast.nodes :
          TakeNode(n) \/ SplitNode(n) \/ SplitNodeAndHeader(n) \/ SplitAsText(n)
    BY <1>1 DEF VisitNode
  <2> QED BY <2>1, TakeNodeOrder, SplitNodeOrder, SplitNodeAndHeaderOrder, SplitAsTextOrder
<1>2. CASE LastWindow
  BY <1>2, LastWindowOrder
<1>3. CASE FullWindow
  BY <1>3, FullWindowOrder
<1>4. CASE UNCHANGED vars
  <2>1. ast' = ast /\ todo' = todo /\ chunks' = chunks
    BY <1>4 DEF vars
  <2> QED BY <2>1, FollowsStays DEF OrderInv, ItemsInOrder, ItemsFollow, ChunksFollow
<1> QED BY <1>1, <1>2, <1>3, <1>4 DEF Next

\* Chunks start at natural offsets.
LEMMA StartTypes ==
  ASSUME IInv, NEW i \in 1 .. Len(chunks)
  PROVE  chunks[i].first \in Nat
<1>1. chunks[i] \in ChunkType
  BY DEF IInv, TypeOK
<1> QED BY <1>1 DEF ChunkType

\* Chunks come in the order of the file and share at most CHUNK_OVERLAP
\* characters, and otherwise only text of decorators that the header of the
\* enclosing node holds as well (chunker.py:175-186).
THEOREM InOrder == Spec => []OrderedUpToDecorators
<1>1. IInv /\ OrderInv => OrderedUpToDecorators
  <2> SUFFICES ASSUME IInv, OrderInv,
                      NEW i \in 1 .. Len(chunks), NEW j \in 1 .. Len(chunks), i < j
               PROVE  /\ \/ chunks[i].first <= chunks[j].first
                         \/ chunks[j].first \in InLongHeaders
                      /\ RepeatsLittle(chunks[j].first, chunks[i].last)
    BY DEF OrderedUpToDecorators
  <2>1. chunks[i].first \in Nat /\ chunks[j].first \in Nat
    BY StartTypes
  <2>2. Follows(chunks[j].first, chunks[i])
    BY DEF OrderInv, ChunksFollow
  <2> QED BY <2>1, <2>2 DEF Follows, StartsBehind
<1> QED BY <1>1, InitOrder, NextOrder, Invariance, PTL DEF Spec

\* File and start offset identify a chunk (indexer.py:394-395), except where a
\* window of a header longer than a chunk starts in a first child's decorators.
THEOREM Identify == Spec => []StartsIdentify
<1>1. IInv /\ OrderInv => StartsIdentify
  <2> SUFFICES ASSUME IInv, OrderInv,
                      NEW i \in 1 .. Len(chunks), NEW j \in 1 .. Len(chunks),
                      i # j, chunks[i].first = chunks[j].first
               PROVE  chunks[i].first \in InLongHeaders
    BY DEF StartsIdentify
  <2>1. chunks[i].first \in Nat
    BY StartTypes
  <2>2. \A m, l \in 1 .. Len(chunks) : m < l => StartsBehind(chunks[l].first, chunks[m])
    BY DEF OrderInv, ChunksFollow, Follows
  <2>3. i < j \/ j < i
    OBVIOUS
  <2> QED BY <2>1, <2>2, <2>3 DEF StartsBehind
<1> QED BY <1>1, InitOrder, NextOrder, Invariance, PTL DEF Spec
=============================================================================
