\* Two pages and two commits race over two instances; nothing fails or expires.
SPECIFICATION Spec
CONSTANTS
  i1 = i1
  i2 = i2
  m1 = m1
  m2 = m2
  m3 = m3
  p1 = p1
  p2 = p2
  c1 = c1
  c2 = c2
  g1 = g1
  Nil = Nil
  PageLimit = 2
  Instance = {i1, i2}
  Message = {m1, m2}
  SelfAuthored = {}
  Page = {p1, p2}
  Call = {c1, c2}
  GapRow = {}
  DeliveryLimit = 2
  Mortal = {}
  Fallible = {}
SYMMETRY Symmetry
INVARIANTS
  CommittedOnce
PROPERTY
  LeaseFencesOwner
CHECK_DEADLOCK FALSE
