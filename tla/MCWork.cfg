SPECIFICATION Spec
CONSTANTS
  Organization = {g1, g2}
  MissionId = {m1, m2}
  Task = {t1, t2}
  Request = {r1, r2}
  Nobody = Nobody
  NoMission = NoMission
  None = None
  LastVersion = 4
SYMMETRY Symmetry
INVARIANTS
  ReferencesSound
PROPERTIES
  FencedToItsLife
  BoardSpec
CHECK_DEADLOCK FALSE
