\* Two workers, no restart: Meta repeats a callback.
CONSTANTS
  n1 = n1
  Workers = {w1, w2}
  Numbers = {n1}
  Messages = {m1}
  NumberOf <- MCNumberOf
  Limit <- MCLimit
  Window = 2
  MaxRestarts = 0
  MaxErrors = 0
SPECIFICATION Spec
INVARIANTS
  SignupsIdempotent
