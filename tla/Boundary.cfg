SPECIFICATION Spec
CONSTANTS
  Sources <- MCSources
  Samples <- MCSamples
  Documents <- MCDocuments
  Arms <- MCArms
  Shifts <- MCShifts
  MaxShifts = 2
INVARIANTS OnlyAllowedCrosses DecodedHasType MatchFindsItsArm InstantsAddUp
PROPERTY ValuesKept
CHECK_DEADLOCK FALSE
