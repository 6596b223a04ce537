\* Death at any statement, rows the database refuses, a reextract.
SPECIFICATION Spec
CONSTANTS
  newer = newer
  older = older
  trade = trade
  newsroom = newsroom
  tan = tan
  lim = lim
  known = known
  unknown = unknown
  Items <- MCItems
  Sources <- MCSources
  SourceOf <- MCSourceOf
  PublishedAt <- MCPublishedAt
  Persons <- MCPersons
  Firms <- MCFirms
  RegisterFirms <- MCRegister
  Readings <- RefusedReadings
  Costly <- MCCostly
  TaxonomyLoaded = TRUE
  Faults = {"kill"}
  MaxFaults = 2
  MaxDiscards = 1
INVARIANT TypeOK
INVARIANT ItemAtomic
INVARIANT EveryMoveComplete
INVARIANT NewFirmsFlagged
PROPERTY LedgerSpec
