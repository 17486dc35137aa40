SPECIFICATION Spec
CONSTANTS
  Full = 5
  Neutral <- MCNeutral
  Fine = 6
  neutralCut = 2
  gamutSteps = 3
  Samples <- MCSamples
  entries <- MCEntries
  Measured <- MCMeasured
  Gamuts <- MCGamuts
  Ratios <- MCRatios
  None = None
\* one request, one answer
CHECK_DEADLOCK FALSE
INVARIANTS KeyOrder WheelKeepsTone GamutFitted
