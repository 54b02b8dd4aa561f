\* Bodies that read no affine part out of a value.
CONSTANTS
  x = x
  p = p
  y = y
  Names <- MCNames
  Variants = {}
  Bodies <- MCBodies
  ReturnType <- MCReturnType
  Forms <- MCForms
  Copying = {}
  MaxStatements = 3
  MaxWraps = 2
  NoName = NoName
SPECIFICATION BodySpec
INVARIANT ConsumedIsUnavailable
CHECK_DEADLOCK FALSE
