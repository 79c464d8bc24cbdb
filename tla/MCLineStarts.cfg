\* Every text of up to 6 characters: three lines with every kind of
\* character before, in and behind each.
CONSTANTS
  Alphabet = {"newline", "feed", "wide", "plain"}
  MaxLength = 6
  Texts <- MCTexts
SPECIFICATION Spec
INVARIANTS
  TypeOK
  LookupsInRange
  OffsetsExact
  OffsetsNeverAhead
\* The helper returns.
CHECK_DEADLOCK FALSE
