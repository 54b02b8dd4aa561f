CONSTANTS
  yes = yes
  no = no
  bad = bad
  None = None
  RunId = "run"
  SessionIds = {"run", "another"}
  Runs <- MCRuns
  Requests <- MCRequests
  Payloads <- MCPayloads
  Maximums <- MCMaximums
  Usages <- MCUsages
  MaxRestarts = 1
SPECIFICATION HostSpec
INVARIANTS
  OutstandingMatchesSession
  ResolutionsApplyToTheirGrants
  CompletedRunReplays
  SnapshotsMatchTheirTrace
PROPERTY RefinesHostProtocol
