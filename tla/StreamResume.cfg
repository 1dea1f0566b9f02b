\* One push at a time, none fails, one process that restarts, and replays that reach the last row.
CONSTANTS
  e1 = e1 e2 = e2 e3 = e3 p1 = p1 p2 = p2 g1 = g1 g2 = g2 c1 = c1 Nil = Nil
  Event = {e1, e2, e3}
  Ephemeral = {e3}
  Space = {e2}
  Protected = {e3}
  Push = {p1}
  Gate = {g1}
  Client = {c1}
  Authorized = {}
  Limit = 2
  Capacity = 1
  CacheSize = 1
  Failing = {}
  Mortal = {g1}
  Flaky = {}
  MaxCursor = 3
SPECIFICATION FairSpec
INVARIANT ResumeIsComplete
PROPERTY EventuallySeen
