SPECIFICATION Spec
CONSTANTS
  None = None
  Workers = {w1, w2}
  Methods <- BothMethods
  Requests <- EndpointsOf
  MaxInvoices = 2
  MaxSessions = 1
  MaxFaults = 1
SYMMETRY Identities
CHECK_DEADLOCK FALSE
INVARIANTS
  CardDeliveredIsPaid
  CashPaidIsBooked
  JournalsMatchPayments
  BookedKeepsInvoice
