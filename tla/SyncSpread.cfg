\* A gateway ingests and announces, a peer fetches.
SPECIFICATION FairSpec
CONSTANTS
  g1 = g1
  g2 = g2
  w1 = w1
  w2 = w2
  Nil = Nil
  Named <- Neighbours
  MaxId = 3
  MaxLength = 0
  Peers = 1
  Gateway = {g1, g2}
  Worker = {w1, w2}
  Site <- Apart
  N = 2
  MaxVersion = 2
  Signings <- TwiceOrTwo
  PageSize = 1
  OutboxBatch = 1
  MaxAttempts = 1
  Entry = {g1}
  Asking = {}
  Announcing = {g1}
  Fallible = {}
PROPERTIES ServedIsSpread
