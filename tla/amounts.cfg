SPECIFICATION Spec
CONSTANTS
  l1 = l1
  l2 = l2
  Gift = gift
  Lines = {l1, l2}
  VatPercent = 5
  DefaultFee = 1010
  PriceLists <- TwoPriceLists
  Matches <- AllOrOne
  Coupons <- Offers
  Credits <- TwoCredits
  Zones <- TwoZones
  Fees <- OneFee
  MaxQty = 4
CHECK_DEADLOCK FALSE
INVARIANTS
  QuoteIsCharged
  RefundsWithinPaid
  FullReturnRefundsAll
  
