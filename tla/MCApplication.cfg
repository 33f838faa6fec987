SPECIFICATION Spec
CONSTANTS
  Workspace = {w1}
  Department = {d1, d2, d3}
  Team = {t1, t2}
  Group = {gr1}
  NoDepartment = none
  Evidence = {e1, e2}
  Unset = unset
  Upload = {u1, u2}
  Version = {v1}
  Access = {a1}
  Index = {0, 1}
  NoUpload = none
  MaxSize = 2
  User = {x1, x2, x3, x4}
  Nobody = nobody
  MaxRequired = 2
  Replica = {r1, r2}
  Batch = {b1, b2}
  Operation = {op1}
  Conflict = {c1, c2}
  NoBatch = none
  NoClock = noclock
  MaxClock = 1
  Object = {m1, m2, m3}
  Tenant = {o1, o2}
  NoOrganization = none
  Strength = {weak, strong}
  Request = {q1, q2}
  NoCommand = nocommand
  Role = {role1}
  Device = {dev1}
  Delegation = {del1}
  Principal = {p1, p2}
  Scope = {read, write}
  TokenId = {j1, j2}
  KeyId = {k1, k2}
  Signer = {g1, g2}
  NoKeyId = nokid
  Token <- MCToken
  NoToken = notoken
  Call <- MCCall
  NoCall = nocall
  Tolerance = 1
  MaxTime = 3
  Connection = {cn1, cn2, cn3}
  Id = {1, 2, 3}
  MaxLimit = 2
  Entry = {en1, en2, en3}
  Export = {ex1}
  Verification = {ve1}
  PolicyVersion = {pv1, pv2}
  Evaluation = {ev1, ev2}
  Violation = {vi1}
  Hold = {ho1}
  RateLimit = {rl1}
  Rule = {allow, deny}
  Denying = {deny}
  Action = {ac1, ac2}
  Matching <- MCMatching
  NoVersion = none
  Execution = {xe1, xe2}
  NoEvaluation = none
  MaxAttempt = 2
  Scenario = {sc1, sc2}
  MaxPart = 2
  MaxValue = 1
  Person = {y1, y2, y3}
  DecisionId = {dc1}
  ActionItem = {ai1}
  Message = {ms1, ms2}
  Redacted = redacted
  MaxEdits = 1
  Period = {pe1, pe2}
  Allocation = {al1, al2}
  CapacitySnapshot = {sn1}
  MaxUnits = 2
  MaxEpoch = 2
  MaxVersion = 3
  o1 = o1
  o2 = o2
  p1 = p1
  p2 = p2
  read = read
  write = write
  j1 = j1
  j2 = j2
  k1 = k1
  k2 = k2
  g1 = g1
  g2 = g2
  ac1 = ac1
  ac2 = ac2
  allow = allow
  deny = deny
INVARIANTS
  TypeOK
  HierarchySound
  EvidenceHolds
  UploadsComplete
  DecisionsAddUp
  ConvergenceSound
  LinksResolve
  WithinItsToken
  DatabaseClosedLast
  ReadsComplete
  DecisionsAccountedFor
  FiguresFollow
  CommunicationHolds
PROPERTIES
  RevocationIsFinal
  ShutdownEnds
  ReceiptsInOrder
CHECK_DEADLOCK FALSE
