\* A start queued for a new session when a replacement stops every model.
SPECIFICATION Spec
CONSTANTS
  None = None
  Default = default
  s1 = s1
  s2 = s2
  Starts = {s1, s2}
  Ids = {default, a}
  Stoppers = {w1}
  Requests = {}
  Chats = {}
SYMMETRY MCSymmetry
INVARIANT ReplacementIsFinal
