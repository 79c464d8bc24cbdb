---------------------------- MODULE MCCodeChunker -----------------------------
(***************************************************************************)
(* Small syntax trees laid out in a text: a simple statement, a compound   *)
(* one around simple ones, one around those, each with or without          *)
(* decorators, with or without text behind its body.                       *)
(***************************************************************************)
EXTENDS CodeChunker, FiniteSets

CONSTANTS
  SimpleLengths,  \* lengths of a simple statement
  HeaderLengths,  \* from the keyword to the first child's first character
  Gaps,           \* between two statements of a body; none: one statement each
  Tails           \* length of the clauses behind a body

Simple(at) ==
  {[kw |-> at, dec |-> at, at |-> FALSE, end |-> at + l, kind |-> "simple", body |-> << >>] :
     l \in SimpleLengths}

\* How a statement at `at` may be decorated: not, by "@d ", by "@ d ".
Decorations(at) ==
  {[kw |-> at, dec |-> at, at |-> FALSE],
   [kw |-> at + 2, dec |-> at + 1, at |-> TRUE],
   [kw |-> at + 2, dec |-> at, at |-> FALSE]}

\* A function or class has no text behind its body, another block is not decorated.
Compound(d, body, tail) ==
  [kw |-> d.kw, dec |-> d.dec, at |-> d.at, end |-> body[Len(body)].end + tail,
   kind |-> IF tail = 0 THEN "function" ELSE "block", body |-> body]

\* Bodies of one statement, or of a statement, a gap and a simple statement.
Bodies(statements) ==
  {<<s>> : s \in statements} \cup
  UNION {{<<s, t>> : t \in Simple(s.end + g)} : s \in statements, g \in Gaps}

Around(at, BodiesAt(_)) ==
  UNION {{Compound(d, b, t) : t \in IF d.dec = d.kw THEN Tails ELSE {0},
                              b \in UNION {BodiesAt(d.kw + h) : h \in HeaderLengths}} :
         d \in Decorations(at)}

Flat(at)   == Around(at, LAMBDA at2 : Bodies(Simple(at2)))
Nested(at) == Around(at, LAMBDA at2 : {<<s>> : s \in Flat(at2)})

RECURSIVE NodesOf(_)
NodesOf(n) == {n} \cup UNION {NodesOf(n.body[i]) : i \in 1 .. Len(n.body)}

MCAsts ==
  {[body |-> b, nodes |-> UNION {NodesOf(b[i]) : i \in 1 .. Len(b)}] :
     b \in Bodies(Simple(0) \cup Flat(0)) \cup {<<n>> : n \in Nested(0)}}
=============================================================================
