\* Snapshots beside a publish, snapshots under fences that may be lost, or a group beside a grant that may expire: three worlds.
SPECIFICATION Spec
CONSTANTS
  g = g
  a = a
  b = b
  grp = grp
  r1 = r1
  r2 = r2
  q1 = q1
  q2 = q2
  Nil = Nil
  Seed = Seed
  Genesis = g
  Global = Global
  Scope = {Global, grp}
  Route = {r1, r2}
  Principal = {g, a, b}
  MaxRecipients = 3
  World <- Worlds
  Req = {q1, q2}
SYMMETRY Symmetry
INVARIANTS
  TypeOK
  FanoutReachesMembers
  
  RowsNameMembers
  AppliedIsAnnounced
  ReceiptMeansRouted
