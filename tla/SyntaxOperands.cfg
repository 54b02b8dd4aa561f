\* Expressions with one of several parts in parentheses in them, read, formatted and read again.
CONSTANTS
  Texts <- MCNestedExpressions
  Names <- MCNames
  Numbers = {"1"}
  Strings = {"s"}
  Aliases = {"@m"}
  BlockStrings = {"text"}
  Comments = {"// one", "// two"}
  MaxRounds = 1
SPECIFICATION Spec
INVARIANT ParseFormatParseKeepsTree
\* A text that was read again, or rejected, is the end.
CHECK_DEADLOCK FALSE
