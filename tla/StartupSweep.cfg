\* An installation over another that is killed between its two renames.
SPECIFICATION InstallSpec
CONSTANTS
  Installers = {j1}
  JobKindsRun = {"release", "uninstall"}
  Commits = {k1}
  Absent = Absent
CHECK_DEADLOCK FALSE
PROPERTY SweepSparesRuntimes
