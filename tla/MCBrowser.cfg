SPECIFICATION Spec
CONSTANTS
  t1 = t1
  t2 = t2
  anna = anna
  ben = ben
  Tabs = {t1, t2}
  Users = {anna, ben}
  MfaUsers = {ben}
  MaxCalls = 2
  None = None
  Stale = Stale
SYMMETRY Symmetric
INVARIANTS
  
  
  SignedOutStays
