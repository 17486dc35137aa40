SPECIFICATION FairSpec
CONSTANTS
  None = None
  Hex = {A, B}
  Space = {Hsl, Oklch}
  Triad = Triad
  Ramp = Ramp
  Names <- MCNames
  Rotations <- MCRotations
  MaxClicks = 2
INVARIANTS
  SettledStrips
  InfoSettled
PROPERTIES
  StripsSettle
\* the user leaves the page alone
CHECK_DEADLOCK FALSE
