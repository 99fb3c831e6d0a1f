SPECIFICATION EnrolSpec
CONSTANTS
  a1 = a1
  a2 = a2
  a3 = a3
  p1 = p1
  p2 = p2
  e1 = e1
  e2 = e2
  n1 = n1
  n2 = n2
  Attempts = {a1, a2, a3}
  Persons = {p1, p2}
  Emails = {e1, e2}
  Backup = {p1, p2}
  Numbers = {n1, n2}
  Nil = Nil
SYMMETRY Symmetric
INVARIANTS
  AccountlessOnlyByCall
  ClashOnlyByRace
CHECK_DEADLOCK FALSE
