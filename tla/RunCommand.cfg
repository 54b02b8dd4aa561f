CONSTANTS
  yes = yes
  no = no
  bad = bad
  None = None
  Runs <- MCRuns
  Requests <- MCRequests
  Payloads <- MCPayloads
  Maximums <- MCMaximums
  Usages <- MCUsages
  FixtureSets <- MCFixtureSets
  MaxRestarts = 3
SPECIFICATION CommandSpec
INVARIANTS
  DriverIsAccountable
  EqualTemplatesInOrder
  LatestEffectIsResumable
PROPERTIES
  CommandsEnd
