SPECIFICATION FairSpec
CONSTANTS
  None = None
  Hex <- MCHex
  Feel <- MCFeel
  MaxLimit = 1
  MaxTime = 1
INVARIANTS
  PagesInOrder
  NothingSkipped
PROPERTIES
  ListingEnds
