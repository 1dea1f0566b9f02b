\* Five announcements of three peers, two fetches at a time, two pending of a peer.
SPECIFICATION Spec
CONSTANTS
  a1 = a1 a2 = a2 a3 = a3 b1 = b1 c1 = c1
  A = A B = B C = C
  Nil = Nil
  Gossip = {a1, a2, a3, b1, c1}
  Peer = {A, B, C}
  Announcer <- Announcers
  Workers = 2
  Capacity = 4
SYMMETRY Symmetry
INVARIANTS
  TypeOK
  FetchesBounded
  AdmissionsCounted
  FreePermitIsTaken
  SleeperHasWaker
CHECK_DEADLOCK FALSE
