\* Two receipts for equal proposals, and an observation before its commit.
CONSTANTS
  note = note
  other = other
  Data <- MCData
  Slots <- MCSlots
  Fields <- MCFields
  StartRequests <- DocumentedRequests
  Declarations <- MCDeclarations
  MaxUsage = 2
  MaxSnapshots = 3
  MaxRestarts = 1
  NoEffect = NoEffect
  NoOutcome = NoOutcome
SPECIFICATION Spec
INVARIANT EachReceiptReconciled
