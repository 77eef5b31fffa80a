SPECIFICATION WorkSpec
CONSTANTS
  t1 = t1
  t2 = t2
  d1 = d1
  d2 = d2
  q1 = q1
  q2 = q2
  s1 = s1
  s2 = s2
  Context = Context
  Threads <- TwoThreads
  Devices <- TwoDevices
  Queues <- FourQueues
  Primary <- TwoPrimaries
  Creators <- OneThread
  Setters <- OtherThread
  MayFail = TRUE
  Workers <- TwoThreads
  Syncers <- OtherThread
  Positions = {1}
  MaxRows = 2
INVARIANTS StateOK StreamsAreFound ContextKnowsStreams ActiveIsPrimary   FinishesBuiltQueues
