SPECIFICATION Spec
CONSTANT Ids <- MCIds
INVARIANTS
  ReferencesAreLive
  ReplaceDropsNothing
  ShownIsCurrent
  ReaderHasScratch
  RunningIsFresh
