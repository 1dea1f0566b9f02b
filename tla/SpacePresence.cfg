\* Events and snapshots of the same agents, two at a time.
SPECIFICATION FairSpec
CONSTANTS
  p1 = p1
  p2 = p2
  h = h
  w = w
  q1 = q1
  q2 = q2
  Nil = Nil
  Key = {p1, p2, h, w}
  Heart = {h}
  World = {w}
  MaxSeq = 3
  Input <- Inputs
  Req = {q1, q2}
INVARIANTS
  TypeOK
  CursorsFollowRecords
  
  SnapshotIsWhole
PROPERTY RequestsEnd
