\* Every message is settled at last and gap rows are acknowledged only when shown; one instance may fail.
SPECIFICATION FairSpec
CONSTANTS
  i1 = i1
  i2 = i2
  m1 = m1
  m2 = m2
  m3 = m3
  p1 = p1
  p2 = p2
  c1 = c1
  c2 = c2
  g1 = g1
  Nil = Nil
  PageLimit = 2
  Instance = {i1, i2}
  Message = {m1}
  SelfAuthored = {}
  Page = {p1}
  Call = {c1}
  GapRow = {g1}
  DeliveryLimit = 1
  Mortal = {m1}
  Fallible = {i1}
INVARIANT
  GapAckedOnlyIfShown
PROPERTY
  EventuallySettled
CHECK_DEADLOCK FALSE
