\* Two workers, one restart, windows of two ticks; three messages, of which a
\* window admits two.
CONSTANTS
  n1 = n1
  Workers = {w1, w2}
  Numbers = {n1}
  Messages = {m1, m2, m3}
  NumberOf <- MCNumberOf
  Limit <- MCLimit
  Window = 2
  MaxRestarts = 1
  MaxErrors = 1
SPECIFICATION FairSpec
INVARIANTS
  AcceptedPerWindow
  OneTenantPerLife
PROPERTIES
  EventuallyAnswered
