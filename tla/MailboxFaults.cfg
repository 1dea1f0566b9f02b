\* Prefetched and self-authored messages, a delivery limit, and an instance that loses its connection and crashes.
SPECIFICATION Spec
CONSTANTS
  i1 = i1
  i2 = i2
  m1 = m1
  m2 = m2
  m3 = m3
  p1 = p1
  p2 = p2
  c1 = c1
  c2 = c2
  g1 = g1
  Nil = Nil
  PageLimit = 2
  Instance = {i1}
  Message = {m1, m2, m3}
  SelfAuthored = {m3}
  Page = {p1, p2}
  Call = {c1}
  GapRow = {}
  DeliveryLimit = 1
  Mortal = {}
  Fallible = {i1}
SYMMETRY Symmetry
INVARIANTS
  EveryMessageAccounted
  CommitOkMeansAcked
PROPERTY
  ImplementsMailbox
CHECK_DEADLOCK FALSE
