SPECIFICATION FairSpec
CONSTANTS
  Deadline = {d1}
  Marker = {m1}
  Unset = Unset
  Request = {r1, r2}
  LastInstant = 2
  LastVersion = 5
INVARIANTS
  ViewShowsDue
PROPERTIES
  SignalsSpec
  DueIsSignalled
