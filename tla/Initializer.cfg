\* Two placeholder files and two importing ones, three slugs, any number of early stops.
CONSTANTS
  Forms = {readme, pyproject}
  Sources = {test, api}
  Slugs = {"sample", "shop", "store"}
SPECIFICATION Spec
INVARIANTS
  DestroyedMeansDone
  OnlyPatchingBreaksImports
  SameAnswersConverge
CHECK_DEADLOCK FALSE
