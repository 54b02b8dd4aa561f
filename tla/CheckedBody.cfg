\* Three names and three statements, blocks or matches of every kind.
CONSTANTS
  x = x
  p = p
  y = y
  Names <- MCNames
  Variants = {}
  Bodies <- MCBodies
  ReturnType <- MCReturnType
  Forms <- MCForms
  Copying <- AllCopying
  MaxStatements = 3
  MaxWraps = 1
  NoName = NoName
SPECIFICATION BodySpec
INVARIANTS
  NamesMeanTheSame
  OneOwner
  SpentIsUnavailable
\* A body ends with its final return, a run where it stops.
CHECK_DEADLOCK FALSE
