SPECIFICATION FairSpec
CONSTANTS
  Keys <- PagingKeys
  EdgeSides = FALSE
  HasTilt = FALSE
  MaxTaps = 1
INVARIANTS
  ListMovesAsPressed
  ReaderTurnsAsPressed
PROPERTY HeldPowersOff
