----------------------------- MODULE MCLineStarts -----------------------------
EXTENDS LineStarts

CONSTANTS
  Alphabet,       \* the kinds of characters texts are made of
  MaxLength       \* bound on the length of a text

MCTexts == UNION {[1 .. n -> Alphabet] : n \in 0 .. MaxLength}
=============================================================================
