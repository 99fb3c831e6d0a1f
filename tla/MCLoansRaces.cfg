SPECIFICATION Spec
CONSTANTS
  a1 = a1  a2 = a2  u1 = u1  u2 = u2
  h1 = h1  h2 = h2  h3 = h3  r1 = r1  r2 = r2  r3 = r3  l1 = l1  l2 = l2
  Accounts <- MCAccounts
  Users <- MCUsers
  Owner <- MCOwner
  Handlers = {h1, h2, h3}
  RequestIds = {r1, r2, r3}
  Loans <- MCLoans
  LoanAccount <- MCLoanAccount
  Principal <- MCPrincipal
  Entries = 2
  Inputs <- RaceInputs
  InitialBalance <- MCBalance
  MaxSpent = 2
INVARIANTS DebtNeverUnderstated EntryPerRepayment NeverOvercharged OneRowPerRequest NoWaitCycle
SYMMETRY HandlerSymmetry
