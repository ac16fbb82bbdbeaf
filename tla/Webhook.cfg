\* Overlapping and repeated deliveries of two batches from one buyer: Meta
\* delivers a batch up to twice, the gateway fails once.
CONSTANTS
  b1 = b1
  b2 = b2
  m1 = m1
  m2 = m2
  m3 = m3
  n1 = n1
  s1 = s1
  Messages = {m1, m2, m3}
  Batches = {b1, b2}
  Content <- MCContent
  Numbers = {n1}
  NumberOf <- MCNumberOf
  Senders = {s1}
  SenderOf <- MCSenderOf
  Handlers = {h1, h2}
  HistoryTurns = 2
  MaxItems = 3
  MaxDeliveries = 2
  MaxErrors = 1
SPECIFICATION FairSpec
INVARIANTS
  TypeOK
  RingHoldsLatest
  AckedIsAnswered
  MemoryTellsTheTruth
  AnsweredInOrder
  AnswersWithinDeliveries
PROPERTIES
  EventuallyAnswered
