SPECIFICATION Spec
CONSTANTS
  c1 = c1
  c2 = c2
  i1 = i1
  i2 = i2
  Calls = {c1, c2}
  Ids = {i1, i2}
  Amounts = {1, 2}
  Opening = 3
  Debt = 2
  Fee = 1
  PageLimit = 1
  ServerLimit = 0
  MaxWants = 2
  Restore = Restore
  None = None
SYMMETRY Symmetric
INVARIANTS
  PostedOncePerWant
  
  
  DebtHiddenOnlyByFailure
CHECK_DEADLOCK FALSE
