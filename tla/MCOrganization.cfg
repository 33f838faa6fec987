\* Three departments and one part of each other kind.
CONSTANTS
  Workspace = {w1}
  Department = {d1, d2, d3}
  Team = {t1}
  Group = {g1}
  NoDepartment = NoDepartment
SPECIFICATION Spec
INVARIANT ParentsRemainActive
CHECK_DEADLOCK FALSE
