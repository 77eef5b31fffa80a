SPECIFICATION Spec
CONSTANTS
  FunctionIds = {f1, f2}
  Kinds = {"void", "scalar", "vector", "array", "struct", "pointer", "opaque", "forward"}
  Storages = {"Function", "CrossWorkgroup", "Workgroup"}
  MaxTypes = 5
  MaxParts = 2
  Backends = {"level0", "opencl"}
  ArgSizes = {0, 1, 2}
  Offsets = {0, 1, 2}
  MaxArgs = 2
  Shared = {0, 1}
INVARIANTS StateOK TableIsRight ArgumentsInPlace RightlyRefused
SYMMETRY Symmetry
CHECK_DEADLOCK FALSE
