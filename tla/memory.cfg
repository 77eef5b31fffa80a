SPECIFICATION Spec
CONSTANTS
  t1 = t1
  t2 = t2
  t3 = t3
  NoThread = NoThread
  Threads <- ThreeThreads
  Sizes = {0, 1, 3}
  global_mem_size = 4
  Word = 16
  Resetters <- OneThread
  MaxLive = 3
INVARIANTS IInv NotOvercommitted NoLeak
PROPERTY ResetReleases
