SPECIFICATION Spec
CONSTANTS
  r1 = r1
  r2 = r2
  a1 = a1
  a2 = a2
  Requests <- MCRequests
  Artworks <- MCArtworks
  Legacy <- MCArtworks
  Signed <- MCSigned
  MaxDeaths = 2
SYMMETRY MCSymmetry
INVARIANTS
  FollowsFactoryTruth
  
  AttachedDraftSurvives
  AnsweredShipmentIsFinal
