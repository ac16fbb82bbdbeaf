\* The spawner fails, and Meta repeats the callback it was answered 500 for.
CONSTANTS
  Phones = {p1, p2}
  NoPhone = NoPhone
  acme = acme
  Words = {acme}
  Bases <- MCBases
  Deliveries = {d1, d2}
  Operators = {}
  SignupPhones = {p1}
  AdminPhones = {}
  MaxTenants = 2
SPECIFICATION OneAtATimeSpec
SYMMETRY MCSymmetry
INVARIANTS
  ReplayMeansOnboarded
CHECK_DEADLOCK FALSE
