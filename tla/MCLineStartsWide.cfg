\* Texts whose only line boundary is the newline, with wide characters.
CONSTANTS
  Alphabet = {"newline", "wide", "plain"}
  MaxLength = 4
  Texts <- MCTexts
SPECIFICATION Spec
INVARIANT AbsoluteCharacter
CHECK_DEADLOCK FALSE
