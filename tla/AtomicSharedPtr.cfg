SPECIFICATION Spec
CONSTANTS
  Threads = {t1, t2}
  Objects = {o1, o2, o3}
  NULL = null
  MaxCalls = 2
SYMMETRY PtrSymmetry
INVARIANTS
  CountsInv
PROPERTIES
  DestroyIsSafe
  PointerSpec
