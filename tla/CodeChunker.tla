------------------------------ MODULE CodeChunker -----------------------------
(***************************************************************************)
(* CodeChunker.chunk (src/src/chunker.py): the recursion _process_node     *)
(* over a Python syntax tree.  It visits the tree in source order and      *)
(* emits into one list, so that its call stack is the sequence todo of     *)
(* what is still to be visited, its head first: statements, and the texts  *)
(* TextChunker has still to split.                                         *)
(*                                                                         *)
(* A statement is kept as the offsets the recursion compares.  Where       *)
(* TextChunker ends a window is left open, as in ChunkCover, which         *)
(* TextChunker implements.                                                 *)
(***************************************************************************)
EXTENDS Integers, Sequences

CONSTANTS
  Asts,           \* the parsed files: [body, nodes], body the top-level
                  \* statements, nodes every statement reached through `body`
                  \* (those of else, except and finally clauses are not)
  MaxChunkSize,   \* self.max_chunk_size
  ChunkOverlap    \* config.CHUNK_OVERLAP

VARIABLES
  ast,            \* the file being chunked
  todo,           \* statements and texts still to visit, in order
  chunks          \* the chunks emitted so far

vars == <<ast, todo, chunks>>

-----------------------------------------------------------------------------
\* A statement: kw is its own offset (that of `def`, `class`, `if`, ...),
\* dec the offset of its first decorator's expression, kw if it has none, at
\* whether a '@' stands just before that.  body is empty for a simple
\* statement; clauses behind a body (else, except, finally) are not part of it.
\* absolute_start: the first decorator if there is one, and the '@' before it.
Start(n) == IF n.dec < n.kw /\ n.at THEN n.dec - 1 ELSE n.dec

\* first_body_start: the first child's own offset, its decorators ignored.
FirstBodyStart(n) == n.body[1].kw

\* What a statement holds that none of the statements below it does: all of
\* a simple statement, everything up to the first child of a compound one.
Own(n) ==
  Start(n) .. (IF n.body = << >> THEN n.end ELSE Start(n.body[1])) - 1

NodeOK(n) ==
  /\ n.kw \in Nat /\ n.dec \in Nat /\ n.end \in Nat /\ n.at \in BOOLEAN
  /\ n.dec <= n.kw /\ n.kw < n.end
  /\ n.at /\ n.dec < n.kw => n.dec > 0

\* What the parser guarantees of offsets: statements come in order, children lie
\* behind the keyword of their parent, and whatever text of a statement lies inside a
\* compound one lies before its body or in one of its children.
AstOK(a) ==
  /\ a.body \in Seq(a.nodes)
  /\ \A i \in 1 .. Len(a.body) : \A j \in i + 1 .. Len(a.body) :
       a.body[i].end <= Start(a.body[j])
  /\ \A n \in a.nodes :
       /\ NodeOK(n)
       /\ n.body \in Seq(a.nodes)
       /\ \A i \in 1 .. Len(n.body) :
            /\ n.kw < Start(n.body[i]) /\ n.body[i].end <= n.end
            /\ \A j \in i + 1 .. Len(n.body) : n.body[i].end <= Start(n.body[j])
  /\ \A n \in a.nodes : \A p \in Own(n) :
       \E i \in 1 .. Len(a.body) : p \in Start(a.body[i]) .. a.body[i].end - 1
  /\ \A m \in a.nodes : m.body # << >> => \A n \in a.nodes : \A p \in Own(n) :
       p \in Start(m) .. m.end - 1 =>
         \/ p < FirstBodyStart(m)
         \/ \E i \in 1 .. Len(m.body) : p \in Start(m.body[i]) .. m.body[i].end - 1

ASSUME AstsAssumption ==
  /\ \A a \in Asts : AstOK(a)
  /\ MaxChunkSize \in Nat \ {0}
  /\ ChunkOverlap \in Nat

-----------------------------------------------------------------------------
Chunk(first, last) == [first |-> first, last |-> last]
ChunkType == [first : Nat, last : Nat]

\* An entry of todo is a statement to visit or a text to split.
Visit(n)      == [kind |-> "visit", node |-> n]
Text(lo, hi)  == [kind |-> "text", lo |-> lo, hi |-> hi]
Item == [kind : {"visit"}, node : ast.nodes] \cup [kind : {"text"}, lo : Nat, hi : Nat]

\* `for child in body: self._process_node(child, ...)`
VisitAll(body) == [i \in 1 .. Len(body) |-> Visit(body[i])]

\* The module node has no coordinates: only its body is visited.
Init ==
  /\ ast \in Asts
  /\ todo = VisitAll(ast.body)
  /\ chunks = << >>

\* A statement is next, and node_length is as the guard says.
Visiting(n) == todo # << >> /\ Head(todo).kind = "visit" /\ n = Head(todo).node

\* Mutant: the size limit is off by one.
FitsLoosely(lo, hi) == hi - lo <= MaxChunkSize + 1

Fits(lo, hi) == hi - lo <= MaxChunkSize

\* Case A: the statement fits in one chunk.
TakeNode(n) ==
  /\ Visiting(n)
  /\ Fits(Start(n), n.end)
  /\ chunks' = Append(chunks, Chunk(Start(n), n.end))
  /\ todo' = Tail(todo)
  /\ UNCHANGED ast

\* Case B, header no longer than a chunk: emit it, then visit the children.
SplitNode(n) ==
  /\ Visiting(n)
  /\ ~Fits(Start(n), n.end)
  /\ n.body # << >>
  /\ Fits(Start(n), FirstBodyStart(n))
  /\ chunks' = Append(chunks, Chunk(Start(n), FirstBodyStart(n)))
  /\ todo' = VisitAll(n.body) \o Tail(todo)
  /\ UNCHANGED ast

\* Mutants: the header is split after the children; only its first chunk is kept.
HeaderLast(n) ==
  /\ Visiting(n)
  /\ ~Fits(Start(n), n.end)
  /\ n.body # << >>
  /\ ~Fits(Start(n), FirstBodyStart(n))
  /\ todo' = VisitAll(n.body) \o <<Text(Start(n), FirstBodyStart(n))>> \o Tail(todo)
  /\ UNCHANGED <<ast, chunks>>

HeaderCutOff(n) ==
  /\ Visiting(n)
  /\ ~Fits(Start(n), n.end)
  /\ n.body # << >>
  /\ ~Fits(Start(n), FirstBodyStart(n))
  /\ todo' = <<Text(Start(n), Start(n) + MaxChunkSize)>> \o VisitAll(n.body) \o Tail(todo)
  /\ UNCHANGED <<ast, chunks>>

\* Case B, header too long: its text is split first.
SplitNodeAndHeader(n) ==
  /\ Visiting(n)
  /\ ~Fits(Start(n), n.end)
  /\ n.body # << >>
  /\ ~Fits(Start(n), FirstBodyStart(n))
  /\ todo' = <<Text(Start(n), FirstBodyStart(n))>> \o VisitAll(n.body) \o Tail(todo)
  /\ UNCHANGED <<ast, chunks>>

\* Case C: too long and without a body, so split as text.
SplitAsText(n) ==
  /\ Visiting(n)
  /\ ~Fits(Start(n), n.end)
  /\ n.body = << >>
  /\ todo' = <<Text(Start(n), n.end)>> \o Tail(todo)
  /\ UNCHANGED <<ast, chunks>>

VisitNode ==
  \E n \in ast.nodes :
    TakeNode(n) \/ SplitNode(n) \/ SplitNodeAndHeader(n) \/ SplitAsText(n)

-----------------------------------------------------------------------------
\* One iteration of TextChunker.chunk over the text at the head of todo, its
\* offsets shifted back to those of the file.
Splitting == todo # << >> /\ Head(todo).kind = "text"

\* Mutants: the step back is unconditional and twice as far; it may end where
\* the window began.
NextStartTwiceBack(start, end) == end - 2 * ChunkOverlap

NextStartInPlace(start, end) ==
  IF end - ChunkOverlap >= start THEN end - ChunkOverlap ELSE end

NextStart(start, end) ==
  IF end - ChunkOverlap > start THEN end - ChunkOverlap ELSE end

LastWindow ==
  /\ Splitting
  /\ Fits(Head(todo).lo, Head(todo).hi)
  /\ chunks' = Append(chunks, Chunk(Head(todo).lo, Head(todo).hi))
  /\ todo' = Tail(todo)
  /\ UNCHANGED ast

FullWindow ==
  /\ Splitting
  /\ ~Fits(Head(todo).lo, Head(todo).hi)
  /\ \E end \in Head(todo).lo + 1 .. Head(todo).lo + MaxChunkSize :
       /\ chunks' = Append(chunks, Chunk(Head(todo).lo, end))
       /\ todo' = <<Text(NextStart(Head(todo).lo, end), Head(todo).hi)>> \o Tail(todo)
  /\ UNCHANGED ast

Next == VisitNode \/ LastWindow \/ FullWindow

Spec == Init /\ [][Next]_vars

-----------------------------------------------------------------------------
TypeOK ==
  /\ todo \in Seq(Item)
  /\ chunks \in Seq(ChunkType)

\* No chunk is empty and none exceeds max_chunk_size, whichever of the cases
\* emitted it (chunker.py:163-227).
SizesBounded ==
  \A i \in 1 .. Len(chunks) :
    /\ chunks[i].first < chunks[i].last
    /\ chunks[i].last - chunks[i].first <= MaxChunkSize

CoveredAt(p) ==
  \E i \in 1 .. Len(chunks) : chunks[i].first <= p /\ p < chunks[i].last

\* Once the recursion ends, every simple statement that is reached through
\* bodies, at every depth, and every signature with its decorators is in the
\* chunks: splitting a node never loses the text before its body ("Without this,
\* chars between def/class and the first body statement are never stored in any
\* chunk", chunker.py:171-174).  It says nothing of the statements in the else,
\* except and finally clauses of a node that is split: they are not in ast.nodes,
\* because they are never visited (chunker.py:203; LongFunctionsKept).
StatementsStored ==
  todo = << >> => \A n \in ast.nodes : \A p \in Own(n) : CoveredAt(p)

\* The decorators of a first child, which also belong to its parent's header;
\* those where that header is itself split as text.
Decorators(n) == Start(n) .. n.kw - 1

Split == {n \in ast.nodes : n.body # << >>}

SharedDecorators == UNION {Decorators(n.body[1]) : n \in Split}

InLongHeaders ==
  UNION {Decorators(n.body[1]) : n \in {m \in Split : ~Fits(Start(m), FirstBodyStart(m))}}

\* Text from p on that lies before hi may be stored again: the last
\* CHUNK_OVERLAP characters before hi, or nothing but such decorators.
RepeatsLittle(p, hi) == hi - p <= ChunkOverlap \/ p .. hi - 1 \subseteq SharedDecorators

\* Chunks come in the order of the file and share at most CHUNK_OVERLAP
\* characters; the one exception is text of decorators, which the header of
\* the enclosing node holds as well as the child's own chunks: no other text is
\* stored twice or out of order (chunker.py:175-186).
OrderedUpToDecorators ==
  \A i, j \in 1 .. Len(chunks) : i < j =>
    /\ chunks[i].first <= chunks[j].first \/ chunks[j].first \in InLongHeaders
    /\ RepeatsLittle(chunks[j].first, chunks[i].last)

\* "Unique string key for a chunk - file + start offset" (indexer.py:394-395):
\* no two chunks of a file start at the same place, except in the decorators of
\* a first child whose parent's header is longer than a chunk, where a window
\* of the header may happen to start as well (chunker.py:163-202).
StartsIdentify ==
  \A i, j \in 1 .. Len(chunks) :
    i # j /\ chunks[i].first = chunks[j].first => chunks[i].first \in InLongHeaders

\* The text of an entry of todo.
From(item)   == IF item.kind = "visit" THEN Start(item.node) ELSE item.lo
Upto(item)   == IF item.kind = "visit" THEN item.node.end ELSE item.hi
Extent(item) == From(item) .. Upto(item) - 1

\* The text a state still holds: in a chunk, or in something to visit.
HeldBy(item, p) == p \in Extent(item)

HeldAt(p) == CoveredAt(p) \/ \E i \in 1 .. Len(todo) : HeldBy(todo[i], p)

\* A function too long for one chunk falls back on the text chunker
\* (README.md:61), so that none of its text is lost.
LongFunctionsKept ==
  todo = << >> =>
    \A n \in ast.nodes :
      n.kind = "function" => \A p \in Start(n) .. n.end - 1 : CoveredAt(p)

-----------------------------------------------------------------------------
\* The invariant behind StatementsStored, for its proof: no step lets go of a statement's
\* text before a chunk holds it, and no text waits that has nothing in it.
OwnTextHeld == \A n \in ast.nodes : \A p \in Own(n) : HeldAt(p)

TextsNotEmpty ==
  \A i \in 1 .. Len(todo) : todo[i].kind = "text" => todo[i].lo < todo[i].hi

HeldText == TextsNotEmpty /\ OwnTextHeld

IInv == ast \in Asts /\ TypeOK /\ SizesBounded /\ HeldText

\* The invariant behind the order of chunks and their starts, with IInv:
\* wherever a chunk may still start, it follows the chunks there are, and
\* entries follow each other.
StartsBehind(p, c) == c.first < p \/ p \in InLongHeaders

Follows(p, c) == StartsBehind(p, c) /\ RepeatsLittle(p, c.last)

Behind(p, hi) == p >= hi \/ (p \in InLongHeaders /\ p .. hi - 1 \subseteq SharedDecorators)

ItemsInOrder ==
  \A i, j \in 1 .. Len(todo) :
    i < j => \A p \in Extent(todo[j]) : Behind(p, Upto(todo[i]))

ItemsFollow ==
  \A i \in 1 .. Len(chunks), j \in 1 .. Len(todo) :
    \A p \in Extent(todo[j]) : Follows(p, chunks[i])

ChunksFollow ==
  \A i, j \in 1 .. Len(chunks) : i < j => Follows(chunks[j].first, chunks[i])

OrderInv == ItemsInOrder /\ ItemsFollow /\ ChunksFollow
=============================================================================
