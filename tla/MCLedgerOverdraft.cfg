SPECIFICATION Spec
CONSTANTS
  a1 = a1  a2 = a2  u1 = u1  u2 = u2
  h1 = h1  h2 = h2  h3 = h3  r1 = r1  r2 = r2
  external = external  nowhere = nowhere  none = none
  Accounts <- MCAccounts
  Users <- MCUsers
  Owner <- MCOwner
  Handlers <- TwoHandlers
  RequestIds <- MCRequestIds
  Inputs <- TwoBills
  InitialBalance <- MCBalance
  SingleLimit = 4
  DailyLimit = 4
  StepUpThreshold = 2
  External = external
  NoSuchAccount = nowhere
  None = none
INVARIANTS NoOverdraft
