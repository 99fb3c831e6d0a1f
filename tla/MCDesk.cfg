SPECIFICATION DeskSpec
CONSTANTS
  j1 = j1
  j2 = j2
  u1 = u1
  u2 = u2
  Jobs = {j1, j2}
  Load = Load
  Customers = {u1, u2}
  Nil = Nil
SYMMETRY Symmetric
INVARIANTS
  
  FrozenAsShown
  ReplayedOnce
  
CHECK_DEADLOCK FALSE
