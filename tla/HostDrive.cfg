CONSTANTS
  yes = yes
  no = no
  bad = bad
  None = None
  RunId = "run"
  SessionIds = {"run"}
  Runs <- MCRuns
  Requests <- MCRequests
  Payloads <- MCPayloads
  Maximums <- MCMaximums
  Usages <- MCUsages
  MaxRestarts = 2
SPECIFICATION DriveFairSpec
INVARIANTS
  GrantIsDurable
  OneEffectInDoubt
  ResumableFilesMatchTheTrace
PROPERTIES
  PublishedStateReplays
  ConversationEnds
