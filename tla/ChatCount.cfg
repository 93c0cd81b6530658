\* A chat turn that outlives the launch it was counted on.
SPECIFICATION Spec
CONSTANTS
  None = None
  Default = default
  s1 = s1
  s2 = s2
  Starts = {s1, s2}
  Ids = {default, a}
  Stoppers = {w1}
  Requests = {r1}
  Chats = {c1}
SYMMETRY MCSymmetry
INVARIANT LeasesCounted
