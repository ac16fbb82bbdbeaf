\* Two deliveries of a batch of two messages overlap; the gateway fails twice.
CONSTANTS
  b1 = b1
  m1 = m1
  m2 = m2
  n1 = n1
  s1 = s1
  Messages = {m1, m2}
  Batches = {b1}
  Content <- MCContent
  Numbers = {n1}
  NumberOf <- MCNumberOf
  Senders = {s1}
  SenderOf <- MCSenderOf
  Handlers = {h1, h2}
  HistoryTurns = 1
  MaxItems = 2
  MaxDeliveries = 2
  MaxErrors = 2
  CannedReplies = 2
SPECIFICATION AdaptersSpec
SYMMETRY MCSymmetry
INVARIANTS
  VendorIdsAreTrue
  OnlyErrorsHideReplies
