SPECIFICATION Spec
CONSTANTS
  t1 = t1
  t2 = t2
  d1 = d1
  d2 = d2
  q1 = q1
  q2 = q2
  s1 = s1
  s2 = s2
  s3 = s3
  Context = Context
  Threads <- TwoThreads
  Devices <- TwoDevices
  Queues <- FiveQueues
  Primary <- TwoPrimaries
  Creators <- OneThread
  Setters <- Nobody
  MayFail = FALSE
INVARIANT DestroyedIsGone
