\* Two parameters, up to four routines; branches and matches of every kind, one level
\* nested.
CONSTANTS
  x = x
  y = y
  main = main
  helper = helper
  other = other
  third = third
  NoName = NoName
  Main = main
  Parameters <- MCParameters
  Programs <- MCPrograms
SPECIFICATION Spec
INVARIANTS
  NoMachineErrors
  EffectsInSourceOrder
  NoRecursion
