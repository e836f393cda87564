SPECIFICATION Spec
CONSTANTS
  o1 = o1
  o2 = o2
  o3 = o3
  ann = ann
  bea = bea
  None = None
  Workers = {w1, w2}
  Orders = {o1, o2, o3}
  Users = {ann, bea}
  Customer <- CustomerOf
  Requests <- FirstIsWorkedOn
  Name <- SameName
  Manual <- BothWorkflows
  MaxEdits = 2
  MaxFaults = 1
SYMMETRY Identities
CHECK_DEADLOCK FALSE
INVARIANTS
  OneDocumentPerFault
  VoidMeansCancelled
  OneContactEach
  SalesOrderIsCurrent
