\* Two workers ingest at one gateway, which may crash; what two
\* gateways list of their snapshots.
SPECIFICATION Spec
CONSTANTS
  g1 = g1
  g2 = g2
  w1 = w1
  w2 = w2
  Nil = Nil
  Named <- Neighbours
  MaxId = 3
  MaxLength = 3
  Peers = 1
  Gateway = {g1}
  Worker = {w1, w2}
  Site <- Together
  N = 1
  MaxVersion = 2
  Signings <- Twice
  PageSize = 1
  OutboxBatch = 2
  MaxAttempts = 2
  Entry = {g1}
  Asking = {w1, w2}
  Announcing = {g1}
  Fallible = {g1}
SYMMETRY Symmetry
INVARIANTS TypeOK OwedIsKept  ListIsNewest
PROPERTIES RowsNeverGoBack
