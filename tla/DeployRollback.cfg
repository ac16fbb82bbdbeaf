\* The second commit is broken; no command fails.
CONSTANTS
  MaxCommit = 2
  Broken = {2}
  MaxFailures = 0
SPECIFICATION Spec
INVARIANTS
  RollbackLeavesGood
