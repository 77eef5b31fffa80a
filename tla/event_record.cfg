SPECIFICATION FairSpec
CONSTANTS
  t1 = t1
  t2 = t2
  q1 = q1
  e1 = e1
  e2 = e2
  NoThread = NoThread
  Threads <- TwoThreads
  Queues <- OneQueue
  Events <- TwoEvents
  Uses <- Observer
  ReRecord = FALSE
  MayFail = TRUE
  MaxRecords = 2
  MaxTail = 5
INVARIANTS StateOK FinishedCoversWork TimestampIsOwn NoStrayWrite
PROPERTY WaitReturns
