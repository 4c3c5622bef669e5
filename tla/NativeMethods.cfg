SPECIFICATION FairSpec
CONSTANTS
  MaxRows = 2
  Workers = {w1}
  Host = host
  i1 = i1
  i2 = i2
  r1 = r1
  r2 = r2
  kind1 = "wizard"
  kind2 = "method"
  site1 = r1
  site2 = r1
  Intents <- MCIntents
  Resources <- MCResources
  KindOf <- MCKindOf
  SiteOf <- MCSiteOf
  Keys <- MCKeys
  Other = other
  Grant = "trusted_host_required"
  Orphans = FALSE
  NoRow = NoRow
  NoKey = NoKey
  NoResource = NoResource
INVARIANT MethodSentOnce
PROPERTY CallReturns
