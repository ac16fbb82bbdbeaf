\* Two daemons and a drainer; one failure.
CONSTANTS
  catalog = catalog
  manual = manual
  empty = empty
  unknown = unknown
  NoJob = NoJob
  Jobs = {catalog, manual, empty, unknown}
  Chunks <- MCChunks
  Unsupported = {unknown}
  Daemons = {d1, d2}
  Drainers = {r1}
  Heeding = {r1}
  MaxFailures = 1
SPECIFICATION FairSpec
INVARIANTS
  TypeOK
  UnfinishedCounts
  TakenInOrder
  FactsAreAPrefix
PROPERTIES
  JobsAreTaken
  StopEndsDaemons
  ImplementsJobQueue
CHECK_DEADLOCK FALSE
