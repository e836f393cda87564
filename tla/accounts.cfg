SPECIFICATION Spec
CONSTANTS
  None = None
  Refunded = Refunded
  Sweeper = Sweeper
  o1 = o1
  o2 = o2
  u1 = u1
  Users = {u1}
  Orders = {o1, o2}
  Owner <- OneUser
  Method <- ByLink
  Amounts <- TwoAmounts
  Workers = {w1, w2}
  Charges = {c1, c2}
  Refs = {r1, r2}
  Requests <- AccountRequests
SYMMETRY Identities
CHECK_DEADLOCK FALSE
INVARIANTS
  
  FundsCover
  
