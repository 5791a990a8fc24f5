SPECIFICATION Spec
CONSTANTS
  f1 = f1
  f2 = f2
  Call = {c1, c2}
  Files <- TwoFiles
  Size <- Sizes
  MaxEpisode = 3
  Worked = {1}
  Text = {x, y}
  Window = 2
  MaxPlanned = 2
  Legacy <- Pasts
  Foreign = Foreign
  NULL = NULL
  MaxCrashes = 1
INVARIANTS
    LedgerInv
PROPERTIES
    ReviewHolds
    RecutWithConsent
SYMMETRY Symmetry
CHECK_DEADLOCK FALSE
