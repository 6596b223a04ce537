\* Ctrl-C or death at any statement, the taxonomy not yet loaded.
SPECIFICATION FairSpec
CONSTANTS
  newer = newer
  older = older
  trade = trade
  newsroom = newsroom
  tan = tan
  lim = lim
  known = known
  unknown = unknown
  Items <- MCItems
  Sources <- MCSources
  SourceOf <- MCSourceOf
  PublishedAt <- MCPublishedAt
  Persons <- MCPersons
  Firms <- MCFirms
  RegisterFirms <- MCRegister
  Readings <- MCReadings
  Costly = {}
  TaxonomyLoaded = FALSE
  Faults = {"kill", "interrupt"}
  MaxFaults = 2
  MaxDiscards = 0
PROPERTY CommitTouchesOneItem
PROPERTY EveryItemSettles
