SPECIFICATION FactsSpec
CONSTANTS
  Url <- MCUrl
  OwnHosts = {"support.acme.com"}
  PreferredLocales <- MCPreferred
  NoType = NoType
  NoPair = NoPair
  ShellText = 600
  Text <- MCText
  Blank <- MCBlank
  SpecKey = {"specs"}
  AnchorKey = {"specs"}
  SpecHints = {"spec"}
  Neighbourhood = {"compare"}
  PairCap = 4
  NodeBudget = 12
  TechWindow = 3
  Spelling <- MCSpelling
  Naming <- MCNaming
  Unit <- MCUnit
  GenericGroup = {"Technical data"}
  SpecGroup = {"Specifications"}
  ContentGroup = {}
  VariantField = {"Colour"}
  IdField = {"sku"}
  Concept <- MCConcept
  Family <- MCFamily
  Within <- MCWithin
  Reading <- MCReading
  AxisOrder <- MCAxisOrder
  NotSpecLabel = {}
  NotSpecValue = {}
  PromoGroup = {}
  World <- MCWorld
  Worlds = {"locales", "neighbours", "anchored", "carried", "queries"}
  MaxProducts = 2
  MaxScans = 1
  MaxSources = 3
  MaxTries = 2
  MaxQueries = 2
  NeighbourValue = {"900W"}
CHECK_DEADLOCK FALSE
INVARIANTS ExactDocumentNamesModel SecondPassKeeps NeighbourStaysOut ClusterAgrees OnePrimaryPerBlock
