\* A download that is killed between two of its steps and then repeated.
SPECIFICATION SnapSpec
CONSTANTS
  Revisions = {"r1", "r2"}
  Home = "r1"
  Published <- MCPublished
  FileOrder <- MCFileOrder
  Loading = {f1}
  Mine = Mine
  Garbage = Garbage
  Gone = Gone
  MaxEdits = 0
  MaxKills = 1
  f1 = f1
  f2 = f2
  f3 = f3
  c1 = c1
  c2 = c2
  c3 = c3
  c4 = c4
CHECK_DEADLOCK FALSE
INVARIANT FinishedIsReady
