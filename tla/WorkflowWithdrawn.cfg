SPECIFICATION MCSpec
CONSTANTS
  Threads = {t1, t2}
  Keys = {k1}
  SchemaVersions = {1, 2}
  TTL = 1
  CacheFailures = FALSE
  Faulty = TRUE
  NoEntry = NoEntry
  MaxTime = 2
  MaxRestarts = 1
  MaxClockSteps = 1
  NoUrl = NoUrl
  Placeholder = Placeholder
  Urls <- MCUrls
  Canonical <- MCCanonical
  Host <- MCHost
  PathKey <- MCPathKey
  PagesNaming <- MCPagesNaming
  HostsLinked <- MCHostsLinked
  ClaimedRole <- MCClaimedRole
  VariantFields = {"color"}
  Fields <- MCFields
  Content <- MCContent
  BoundContent <- MCBoundContent
  SpecLinks <- MCSpecLinks
  Redirects <- MCRedirects
  InitialOutcomes <- MCInitialOutcomes
  TargetedOutcomes <- MCTargetedOutcomes
  Queries <- MCQueries
  MaxInitialSources = 2
  MaxTotalQueries = 4
  MaxCandidatesPerQuery = 2
  MaxCandidatesPerField = 3
  StreakLimits <- MCStreakLimits
  Total = 6
  FetchMinimum = 3
  QueryMinimum = 2
  ProviderMinimum = 1
  ExtractionMinimum = 1
INVARIANT WithdrawnIsNoOfficialEvidence
