\* Two starts against two resource jobs of every kind, against a job and an unload, or
\* while the application quits and an update fails.
SPECIFICATION MCSpec
CONSTANTS
  None = None
  Default = default
  Starts = {s1, s2}
  Ids = {default, a}
  Stoppers = {w1}
  Requests = {}
  Chats = {}
  Jobs = {j1, j2}
  JobKinds = {"install", "register", "exclusive"}
  Exits = {"quit", "update"}
SYMMETRY MCSymmetry
INVARIANTS ResourceExclusion ExitLeavesNothing
PROPERTIES ImplementsResourceUse ExitIsFinal
