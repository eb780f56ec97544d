SPECIFICATION MCFairSpec
CONSTANTS
  n1 = n1 n2 = n2 n3 = n3 n4 = n4 c1 = c1 c2 = c2
  Clients = {c1, c2}
  Refresher = rf
  NoThread = NoThread
  Nodes = {n1, n2, n3, n4}
  OrigList <- OrigThree
  PriorityThreads = {c1}
  Rands = {0}
  Answers <- AnswersLong
  MaxCN = 3
  RefreshLimit = 0
  StepMod = 6
INVARIANTS OnlyConfigured VisitedExact
PROPERTIES InitOnce ReadersSeeStableTable GiveUpComplete WaitersReturn
CHECK_DEADLOCK FALSE
