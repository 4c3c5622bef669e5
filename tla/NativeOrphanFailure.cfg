SPECIFICATION Spec
CONSTANTS
  MaxRows = 1
  Workers = {w1, w2}
  Host = host
  i1 = i1
  i2 = i1
  r1 = r1
  r2 = r2
  kind1 = "chatter"
  kind2 = "chatter"
  site1 = r1
  site2 = r1
  Intents <- MCIntents
  Resources <- MCResources
  KindOf <- MCKindOf
  SiteOf <- MCSiteOf
  Keys <- MCKeys
  Other = other
  Grant = "trusted_host_required"
  Orphans = TRUE
  NoRow = NoRow
  NoKey = NoKey
  NoResource = NoResource
INVARIANT FailedHasNoEffect
