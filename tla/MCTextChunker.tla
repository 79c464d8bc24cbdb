---------------------------- MODULE MCTextChunker -----------------------------
EXTENDS RowHeading

CONSTANT MaxLength  \* bound on the length of a text

MCTexts == UNION {[1 .. n -> Char] : n \in 0 .. MaxLength}
=============================================================================
