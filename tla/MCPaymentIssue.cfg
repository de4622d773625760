SPECIFICATION Spec
CONSTANTS
  a1 = a1
  r1 = r1
  r2 = r2
  None = None
  Attempts <- MCAttempts
  Referred <- MCAttempts
  Requests <- MCRequests
  Moneys = {"exact", "converted", "wrong"}
  MaxFaults = 1
SYMMETRY MCSymmetry
INVARIANTS
  StatusIsProviderTruth
  IssueFromPaidTruth
  AnsweredPaymentIsFinal
  CapturedMoneyOnRecord
  ExceptionStopsIssue
  RefundReversesReward
