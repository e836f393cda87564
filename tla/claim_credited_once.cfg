SPECIFICATION Spec
CONSTANTS
  None = None
  Refunded = Refunded
  Orders = {o1, o2}
  CardOrders = {o1}
  Returns = {r1, r2}
  Workers = {w1, w2}
  Ordered = 2
  Faults <- NoFaults
  MaxCredit = 0
SYMMETRY Identities
CHECK_DEADLOCK FALSE
INVARIANT CreditedOnce
