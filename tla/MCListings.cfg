SPECIFICATION Spec
CONSTANTS
  r1 = r1
  r2 = r2
  r3 = r3
  Rows = {r1, r2, r3}
  Limit = 1
  all = all
  done = done
  failed = failed
  Filters = {all, done, failed}
  First = all
  NoFilter = NoFilter
  MaxAsked = 3
SYMMETRY Symmetric
INVARIANTS
  
  ListIsOfFilter
CHECK_DEADLOCK FALSE
