SPECIFICATION Spec
CONSTANTS
  t1 = t1
  t2 = t2
  q1 = q1
  q2 = q2
  k1 = k1
  k2 = k2
  k3 = k3
  c1 = c1
  c2 = c2
  c3 = c3
  c4 = c4
  NoTicket = NoTicket
  Threads <- TwoThreads
  Queues <- TwoQueues
  ActiveQueue = q1
  Kernels <- ThreeKernels
  Registered <- TwoKernels
  Uses <- OwnKernels
  API <- Ways
  Serial = TRUE
  Tickets <- FourTickets
  MaxNested = 2
INVARIANTS StateOK LaunchAsConfigured LaunchOnStream
