\* An administrator moves a tenant to a number no callback uses.
CONSTANTS
  Phones = {p1, p2}
  NoPhone = NoPhone
  acme = acme
  Words = {acme}
  Bases <- MCBases
  Deliveries = {d1, d2}
  Operators = {}
  SignupPhones = {p1}
  AdminPhones = {p2}
  MaxTenants = 2
SPECIFICATION Spec
SYMMETRY MCSymmetry
INVARIANTS
  SignupNumbersUnique
CHECK_DEADLOCK FALSE
