\* Two requests and two connections; a bucket of two tokens, one of them bulk.
SPECIFICATION FairSpec
CONSTANTS
  c1 = c1
  c2 = c2
  c3 = c3
  A = A
  B = B
  q1 = q1
  q2 = q2
  Nil = Nil
  Challenge = {c1, c2, c3}
  Instance = {A, B}
  Claim <- Moves
  Req = {q1, q2}
  Conns = 2
  Unit = 1
  TotalRate = 2
  BulkRate = 1
  Burst = 2
  MaxElapsed = 1
INVARIANTS
  TypeOK
  ReservedIsGranted
  OneSessionPerChallenge
  HistoryIsDurable
PROPERTY RequestsEnd
