\* Two operations of any one registry, one slot, one remembered cancellation, both
\* exits; two sharing commands of four kinds against a measurement and a cancel.
SPECIFICATION MCFairSpec
CONSTANTS
  c1 = c1
  c2 = c2
  Ops = {c1, c2}
  MaxActive = 1
  MaxTombstones = 1
  q1 = q1
  q2 = q2
  Commands = {q1, q2}
  Submissions = {u1}
  ShareKinds = {"verify", "submit", "import", "poll"}
  NoOne = NoOne
  MaxTracked = 1
  MaxOrder = 1
  MaxEpoch = 1
  MaxCancels = 1
CHECK_DEADLOCK FALSE
INVARIANTS
  TombstonesInStep CancelHonoured SweepIsFinal UnownedWorkIsFlagged
  InFlightIsLive MeasurementUndisturbed
PROPERTIES CancelEnds StaleCommandsEnd
