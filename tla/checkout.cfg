SPECIFICATION Spec
CONSTANTS
  None = None
  Poller = Poller
  u1 = u1
  u2 = u2
  Users <- TwoUsers
  Products = {p1}
  Workers = {w1, w2}
  VatPercent = 5
  DefaultFee = 0
  Price <- ThreeDirhams
  Shipping = 50
  Scenes <- SomeScenes
  EarnStep = 3
  PointValue = 100
  MinRedeem = 1
  Block = 1
  BlockCredit = 200
  Lifetime = 1
  MaxLines = 2
  MaxIssued = 1
  MaxRows = 2
  MaxTime = 1
SYMMETRY Identities
CHECK_DEADLOCK FALSE
INVARIANTS
  
  ForgivenWereSpent
  CouponLimits
  LineOrderedAgainOnlyIfOverlapping
  
