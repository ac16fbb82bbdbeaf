\* Overlapping callbacks for two numbers, an operator who starts and stops
\* tenants, and an administrator who creates them and writes one of the numbers.
CONSTANTS
  Phones = {p1, p2}
  NoPhone = NoPhone
  acme = acme
  Words = {acme}
  Bases <- MCBases
  Deliveries = {d1, d2}
  Operators = {o1}
  SignupPhones = {p1, p2}
  AdminPhones = {p1}
  MaxTenants = 2
SPECIFICATION Spec
SYMMETRY MCSymmetry
INVARIANTS
  TypeOK
  SlugsUnique
  NeverRejected
  UntouchedNumbersUnique
  AnnouncedOnce
  CreatedMeansOnboarded
  StatusTellsLiveness
PROPERTIES
  TenantsPersist
  RoutesStick
