SPECIFICATION Spec
CONSTANTS
  t1 = t1
  t2 = t2
  q1 = q1
  q2 = q2
  Threads <- TwoThreads
  Queues <- OneQueue
  Uses <- Everything
  Waits <- Everything
  Syncers <- Nobody
  Faults = {}
  MaxPending = 2
INVARIANT ReturnsDrained
