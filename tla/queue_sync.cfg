SPECIFICATION FairSpec
CONSTANTS
  t1 = t1
  t2 = t2
  q1 = q1
  q2 = q2
  Threads <- TwoThreads
  Queues <- TwoQueues
  Uses <- Everything
  Waits <- OneWaits
  Syncers <- OneThread
  Faults = {"append"}
  MaxPending = 3
INVARIANTS IInv ReturnsDrained
PROPERTIES ImplementsStreamSync FinishReturns
