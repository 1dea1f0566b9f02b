\* A dead letter compressed into a row that is already acknowledged.
SPECIFICATION Spec
CONSTANTS
  i1 = i1
  i2 = i2
  m1 = m1
  m2 = m2
  m3 = m3
  p1 = p1
  p2 = p2
  c1 = c1
  c2 = c2
  g1 = g1
  Nil = Nil
  PageLimit = 2
  Instance = {i1}
  Message = {m1, m2}
  SelfAuthored = {}
  Page = {p1}
  Call = {c1}
  GapRow = {g1}
  DeliveryLimit = 1
  Mortal = {m1, m2}
  Fallible = {}
INVARIANT
  DeadLetterBecomesGap
CHECK_DEADLOCK FALSE
