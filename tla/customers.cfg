SPECIFICATION Spec
CONSTANTS
  u1 = u1
  u2 = u2
  e1 = e1
  e2 = e2
  p1 = p1
  p2 = p2
  r1 = r1
  Nobody = Nobody
  Clerks = {c1, c2}
  People <- TwoPeople
  Emails <- TwoEmails
  Passwords <- TwoPasswords
  Roles <- OneRole
  Scenarios <- SomeScenarios
  MaxBalance = 1
SYMMETRY Identities
CHECK_DEADLOCK FALSE
INVARIANTS
  
  RowsHaveOwners
  FewLiveCodes
