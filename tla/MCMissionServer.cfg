SPECIFICATION ServerSpec
CONSTANTS
  Operation = {o1, o2}
  Revision = {b1, b2}
  Timeline = {t1}
  None = None
  LastVersion = 7
  Server = {s1, s2}
  Tool = {tl1, tl2, tl3}
  NoFile = NoFile
  MaxCommits = 2
  Client = {c1, c2}
  Overflow = overflow
  Request = {r1, r2}
  Capacity = 4
  Refill = 1
  Cost = 2
  MaxClients = 1
  IdleTtl = 2
  SweepInterval = 1
  Maximum = 1
  MaxTime = 4
  Horizon = 4
INVARIANTS
  VersionsTellTheSchema
  PublishedIsComplete
  ReportedBackupStays
  BudgetKept
  SlotsMatchHandlers
PROPERTY
  LifeHolds
CHECK_DEADLOCK FALSE
