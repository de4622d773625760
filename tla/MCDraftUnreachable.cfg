SPECIFICATION AskingSpec
CONSTANTS
  r1 = r1
  r2 = r2
  a1 = a1
  a2 = a2
  Requests <- MCOneRequest
  Artworks <- MCOneArtwork
  Legacy = {}
  Signed <- MCOneArtwork
  MaxDeaths = 0
PROPERTIES DraftIsTried
