SPECIFICATION FairSpec
CONSTANTS
  t1 = t1
  t2 = t2
  q1 = q1
  e1 = e1
  e2 = e2
  NoThread = NoThread
  Threads <- OneThread
  Queues <- OneQueue
  Events <- OneEvent
  Uses <- Observer
  ReRecord = FALSE
  MayFail = FALSE
  MaxRecords = 1
  MaxTail = 2
PROPERTY PollReturns
