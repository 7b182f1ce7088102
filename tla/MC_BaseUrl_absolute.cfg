CONSTANTS
  SiteUrl <- MC_SiteUrl
  SiteBaseUrl <- MC_SiteBaseUrl
  WordTokens <- MC_WordTokens
  Inputs <- MC_Inputs
  MaxCalls <- MC_MaxCalls
SPECIFICATION Spec
INVARIANT AbsoluteRequestHonoured
