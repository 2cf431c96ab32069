SPECIFICATION MCSpec
CONSTANTS
  MaxRows = 3
  userLoginInClauseChunkSize = 2
  MaxDrift = 1
  MaxFaults = 1
INVARIANTS
  ListingComplete
  NothingForeign
  StatusTrue
PROPERTY
  ListingEnds
  ListingAdvances
  KeepsListingContract
