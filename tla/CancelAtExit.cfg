\* A job admitted beside the cleanup: a benchmark, download or verification just before it,
\* an installation during it.
SPECIFICATION AppSpec
CONSTANTS
  None = None
  Default = default
  Starts = {s1}
  Ids = {default, a}
  Stoppers = {}
  Requests = {}
  Chats = {}
  Jobs = {j1}
  JobKinds = {"exclusive", "install"}
  Exits = {"update"}
SYMMETRY MCSymmetry
INVARIANT CleanupCancelsJobs
