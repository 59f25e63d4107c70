SPECIFICATION BenchSpec
CONSTANTS
  Programs <- MCPrograms
  MaxTrials = 9
  TableSize = 40
  Unset = Unset
INVARIANTS
  SoundLists
  FreshOperands
  FilesComplete
  FailsOnlyWhen
CHECK_DEADLOCK FALSE
