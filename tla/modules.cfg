SPECIFICATION Spec
CONSTANTS
  b1 = b1
  b2 = b2
  b3 = b3
  n1 = n1
  n2 = n2
  d1 = d1
  d2 = d2
  p1 = p1
  p2 = p2
  p3 = p3
  Null = Null
  Binaries = {b1, b2, b3}
  Names = {n1, n2}
  KernelsOf <- Kernels
  Rejected = {b3}
  DeviceList <- TwoDevices
  Addresses = {p1, p2, p3}
  Indeterminate = {p1}
  MayFail = TRUE
  MaxModules = 3
  MaxOutside = 2
INVARIANTS StateOK LookupFindsOwn StringsLive
CHECK_DEADLOCK FALSE
SYMMETRY Symmetry
