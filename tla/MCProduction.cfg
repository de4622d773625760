SPECIFICATION FairSpec
CONSTANTS
  None = None
  p1 = p1
  r1 = r1
  r2 = r2
  k1 = k1
  a1 = a1
  a2 = a2
CHECK_DEADLOCK FALSE
PROPERTIES
  PaidBecomesIssue
  
  DeliveryIsShown
