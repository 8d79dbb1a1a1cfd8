SPECIFICATION MCSpec
CONSTANTS
  Workers = {lane}
  Process <- MCProcess
  Nodes = {node1, node2}
  ToolNodes = {node1}
  MinSuccess = 1
  GraphParallel = 1
  RunParallel = 2
  MaxRounds = 2
  Budgets <- MCBudgets
  MaxCrashes = 1
  Choices = {"commit", "scout", "graph", "proposal", "memo", "round", "fail", "correct", "abandon"}
  Sources = {s1}
  RecoveryDaemons = {d1}
  Facts = {f1, f2}
  Granted <- MCGranted
  ToolBudget = 1
  ToolCrashes = 1
  Records = {"first", "second"}
  Digests = {"x1", "x2"}
  Requests <- MCRequests
  BlobWriters = {w1, w2}
  BlobReaders = {n1}
  BlobFaults = 1
INVARIANTS FactsAgree CommittedIsReadable
PROPERTIES RunEnds EndsOrStranded WebFetchSettles CommitSettles
CHECK_DEADLOCK FALSE
