\* Two starts beside a stop command, serving two API requests.
SPECIFICATION Spec
CONSTANTS
  None = None
  Default = default
  s1 = s1
  s2 = s2
  Starts = {s1, s2}
  Ids = {default, a}
  Stoppers = {w1}
  Requests = {r1, r2}
  Chats = {}
SYMMETRY MCSymmetry
INVARIANT LeasesCounted
PROPERTY ResponseSurvives
