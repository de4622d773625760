SPECIFICATION DesignSpec
CONSTANTS
  r1 = r1
  r2 = r2
  u1 = u1
  k1 = k1
  Requests <- MCRequests
  Uploads <- MCUploads
  Keys <- MCKeys
  Printable <- MCPrintable
  MaxDeaths = 1
  MaxFailures = 0
SYMMETRY Symmetry
INVARIANTS
  ApprovedTogether
  StoredBeforeReview
  ExclusiveGeneration
PROPERTIES
  StoppedDesignIsFrozen
