SPECIFICATION Spec
CONSTANTS
  a = a
  b = b
  empty = empty
  old = old
  then = then
  now = now
  Words <- MCWords
  Blank = empty
  Times <- MCTimes
  Now = now
  Null = Null
  Unset = Unset
  Zero = Zero
  Ids = {1, 2}
  Starts <- MCStarts
  WordSets <- MCWordSets
  TimeSets <- MCTimeSets
  IdSets <- MCIdSets
INVARIANTS
  StoredRowsValid
PROPERTIES
  SavedAsSaid
  ImmutableStays
  OnlyCommitsShow
  LoadedIsStored
CHECK_DEADLOCK FALSE
