\* Two pushes of which one may fail, two processes of which one restarts, and replays of one row that may fail.
CONSTANTS
  e1 = e1 e2 = e2 e3 = e3 p1 = p1 p2 = p2 g1 = g1 g2 = g2 c1 = c1 Nil = Nil
  Event = {e1, e2}
  Ephemeral = {}
  Space = {e2}
  Protected = {}
  Push = {p1, p2}
  Gate = {g1, g2}
  Client = {c1}
  Authorized = {}
  Limit = 1
  Capacity = 1
  CacheSize = 1
  Failing = {p1}
  Mortal = {g1}
  Flaky = {c1}
  MaxCursor = 3
SPECIFICATION Spec
INVARIANTS TypeOK SentInOrder MarkIsStored 
