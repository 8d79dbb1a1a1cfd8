SPECIFICATION MCSpec
CONSTANTS
  Controls = {c1}
  Replayers = {r1}
  Values = {0, 2}
  Threshold = 1
  Comparators = {"gte", "crosses_below"}
  Cooldowns = {1, 2}
  AdmitFor = 1
  ListFor = 1
  FrameValue <- MCFrames
  RevisionBound = 2
  SampleBound = 2
  ClockBound = 1
  TriggerFaults = 1
  k1 = k1
  k2 = k2
  PaperCandidates = {k1, k2}
  PaperHandlers = {h1}
  StartingCash = 4
  Ask = 2
  Bid = 1
  ListLimit = 1
  ModeBound = 3
  PaperFaults = 1
INVARIANTS WakesAreSpaced SettledAtMostOnce
PROPERTIES RejectionStands FiringSettles AuthorizedIsReceipted
CHECK_DEADLOCK FALSE
