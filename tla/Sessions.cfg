\* Two starts beside a stop command and a chat turn, under the scheduling the code
\* relies on.
SPECIFICATION FairSpec
CONSTANTS
  None = None
  Default = default
  s1 = s1
  s2 = s2
  Starts = {s1, s2}
  Ids = {default, a}
  Stoppers = {w1}
  Requests = {}
  Chats = {c1}
INVARIANTS TypeOK NoOrphanProcess StartingIsOwned ReadyIsOneLaunch StopIsFinal
CONSTRAINT MCIssuedInOrder
PROPERTY StartsReturn
