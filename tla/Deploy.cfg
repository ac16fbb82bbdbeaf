\* Four commits, two of them broken.
CONSTANTS
  MaxCommit = 4
  Broken = {2, 3}
  MaxFailures = 3
SPECIFICATION Spec
INVARIANTS
  TypeOK
  RunsWhatIsCheckedOut
  RollbackUndoesUpdate
