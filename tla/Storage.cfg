\* The benchmark history, the runtime directory, a model snapshot, and two instances of
\* the application at the owner key of one submission.
SPECIFICATION MCSpec
CONSTANTS
  Runs = {run1, run2}
  Procs = {p1, p2}
  Receipts = {x1}
  CacheLimit = 1
  MaxRows = 1
  MaxFaults = 1
  NoFile = NoFile
  Installers = {j1, j2}
  JobKindsRun = {"source", "bundle", "export", "uninstall"}
  Commits = {k1, k2}
  Absent = Absent
  Revisions = {"r1", "r2"}
  Home = "r1"
  Published <- MCPublished
  FileOrder <- MCFileOrder
  Loading = {f1}
  Mine = Mine
  Garbage = Garbage
  Gone = Gone
  MaxEdits = 2
  MaxKills = 1
  f1 = f1
  f2 = f2
  f3 = f3
  c1 = c1
  c2 = c2
  c3 = c3
  c4 = c4
  Instances = {i1, i2}
  Bodies = {b1, b2}
  Origins = {o1, o2}
  Keys = {key1, key2}
  Unknown = Unknown
  Nothing = Nothing
SYMMETRY MCSymmetry
CHECK_DEADLOCK FALSE
INVARIANTS
  LiveRunsAreSafe NoMeasurementLost AcceptanceIsForever EvictedStaysGone DeletionIsFinal
  ActiveIsApproved FailureKeepsOld
  CompleteIsVerified FailedUpdateKeepsModel
  OneAuthority NoOrphanKey
PROPERTIES LastCopyStays EditsSurvive BindingNeverDrifts
