SPECIFICATION FairSpec
CONSTANTS
  Styles = {"plain", "farm"}
  MaxChanges = 4
INVARIANT WatchesOneFile
INVARIANT NothingMissed
PROPERTY NeverBack
PROPERTY CatchesUp
CHECK_DEADLOCK FALSE
