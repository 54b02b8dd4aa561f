\* Every text is read, formatted and read again.
CONSTANTS
  Texts <- MCTexts
  Names <- MCNames
  Numbers = {"1"}
  Strings = {"s"}
  Aliases = {"@m"}
  BlockStrings = {"text"}
  Comments = {"// one", "// two"}
  MaxRounds = 1
SPECIFICATION Spec
INVARIANTS
  MeaningKept
  NothingDiscarded
  PrecedenceRespected
PROPERTY ParserEnds
\* A text that was read again, or rejected, is the end.
CHECK_DEADLOCK FALSE
