SPECIFICATION Spec
CONSTANTS
  t1 = t1
  t2 = t2
  t3 = t3
  NoThread = NoThread
  Threads <- OneThread
  Sizes = {1, 3}
  global_mem_size = 4
  Word = 16
  Resetters <- Nobody
  MaxLive = 9
INVARIANT NeverOvercommitted
