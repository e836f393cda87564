SPECIFICATION Spec
CONSTANTS
  None = None
  Refunded = Refunded
  Orders = {o1, o2}
  CardOrders = {o1}
  Returns = {r1}
  Workers = {w1, w2, w3}
  Ordered = 2
  Faults <- Crashes
  MaxCredit = 0
SYMMETRY Identities
CHECK_DEADLOCK FALSE
INVARIANTS
  TypeOK
  CardRefundedOnce
  
  NothingBeforeApproval
  CompletedIsPaid
PROPERTY ReturnClaimed
