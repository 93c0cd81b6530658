\* One key of an earlier version while its registry.json is migrated.
SPECIFICATION KeysSpec
CONSTANTS
  Instances = {p1, p2}
  Bodies = {b1, b2}
  Origins = {o1, o2}
  Keys = {k1, k2}
  Unknown = Unknown
  Nothing = Nothing
CHECK_DEADLOCK FALSE
INVARIANT MigrationKeepsTrace
