\* One address and one conversation; requests of up to three messages; a process
\* that may end at any moment.
SPECIFICATION Spec
CONSTANTS
  ip1 = ip1
  c1 = c1
  Client = {ip1}
  WindowMs = 1
  MaxRequests = 2
  BlockDuration = 3
  Second = 2
  CleanEvery = 2
  MaxTime = 4
  Conversation = {c1}
  Tokens = {0, 2}
  Lists = {{}, {1, 2, 3}}
  PerRequest = 3
  MaxMessages = 6
  MaxTokens = 1
  KeepRecent = 5
  ArchiveAge = 1
  RequestBound = 3
INVARIANTS
  RateKept
  RetryHonoured
  AcknowledgedIsKept
  UsageAccounts
PROPERTY ArchivedWasIdle
