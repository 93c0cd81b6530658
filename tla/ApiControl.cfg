\* Two starts on two ports, a stop and one connection, both exits, under fairness.
SPECIFICATION FairSpec
CONSTANTS
  None = None
  Starts = {s1, s2}
  Stops = {w1}
  Clients = {k1}
  Ports = {p1, p2}
INVARIANTS NoStrayListener OneListener ExitClosesApi
PROPERTIES StopClosesApi CommandsReturn ConnectionsEnd
CHECK_DEADLOCK FALSE
