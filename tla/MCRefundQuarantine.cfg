SPECIFICATION Spec
CONSTANTS
  a1 = a1
  r1 = r1
  r2 = r2
  None = None
  Attempts <- MCAttempts
  Referred = {}
  Requests <- MCRequests
  Moneys = {"exact"}
  MaxFaults = 0
SYMMETRY MCSymmetry
INVARIANTS RefundQuarantinesIssue
