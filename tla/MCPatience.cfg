SPECIFICATION FairSpec
CONSTANTS
  None = None
  t1 = t1
  object = object
  size = size
  red = red
  blue = blue
  mine = mine
  theirs = theirs
  home = home
  first = first
  p1 = p1
  p2 = p2
  m1 = m1
  w1 = w1
  w2 = w2
  x1 = x1
  q1 = q1
  o1 = o1
  e1 = e1
  e2 = e2
  d1 = d1
  d2 = d2
  c1 = c1
  c2 = c2
  c3 = c3
  ToCustomer = {m1}
  ToCreator = {}
  Launch = {m3}
  Senders = {w1, w2}
  Tries = 2
  MaxLosses = 2
  MaxDeaths = 1
CHECK_DEADLOCK FALSE
PROPERTIES
  PersistentCustomerProceeds
  
  SentIsMailed
  
