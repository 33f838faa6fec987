SPECIFICATION Spec
CONSTANTS
  Aggregate = {a1, a2}
  Operation = {o1, o2, o3}
  Request = {r1, r2}
  NoExpectation = NoExpectation
  Expected = {NoExpectation, 1}
  Adapter = "sqlite"
SYMMETRY Symmetry
INVARIANTS
  NoLostUpdate
  AnswersDurable
PROPERTY
  LedgerSpec
