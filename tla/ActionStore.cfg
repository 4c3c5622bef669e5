SPECIFICATION StoreSpec
CONSTANTS
  MaxRows = 2
  k1 = k1
  k2 = k2
  r1 = r1
  r2 = r2
  Keys <- MCKeys
  Resources <- MCResources
  NoKey = NoKey
  NoResource = NoResource
SYMMETRY MCSymmetry
INVARIANTS StoreTypeOK SentNeverRearmed InFlightExclusive SendIsAuthorised
PROPERTY KeepsContract
