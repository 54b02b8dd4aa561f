\* All programs, with usage reservations up to two units, three snapshots and two
\* crashes, each followed by a restore of any of them; the machine's own steps are
\* weakly fair, its caller may stop at any point.
CONSTANTS
  note = note
  other = other
  Data <- MCData
  Slots <- MCSlots
  Fields <- MCFields
  StartRequests <- MCStartRequests
  Declarations <- MCDeclarations
  MaxUsage = 2
  MaxSnapshots = 3
  MaxRestarts = 2
  NoEffect = NoEffect
  NoOutcome = NoOutcome
SPECIFICATION FairSpec
INVARIANTS
  TypeOK
  BudgetConserved
  NoReservationOutlivesItsEffect
  CommitsSpendDistinctPermits
  CommitsWereDecided
  OneEffectAtATime
  CompletionReconciled
  AdmittedWritesStayConsumed
  AdmittedWritesWithinBudget
PROPERTIES
  RefinesGovernedEffects
  KeepsMoving
