\* An item whose move is refused keeps older items from being read.
SPECIFICATION FairSpec
CONSTANTS
  newer = newer
  older = older
  trade = trade
  newsroom = newsroom
  tan = tan
  lim = lim
  known = known
  unknown = unknown
  Items <- MCItems
  Sources <- MCSources
  SourceOf <- MCSourceOf
  PublishedAt <- MCPublishedAt
  Persons <- MCPersons
  Firms <- MCFirms
  RegisterFirms <- MCRegister
  Readings <- TombstoneReadings
  Costly = {}
  TaxonomyLoaded = TRUE
  Faults = {}
  MaxFaults = 0
  MaxDiscards = 0
PROPERTY EveryItemSettles
