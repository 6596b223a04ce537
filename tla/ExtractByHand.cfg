\* Claims run by hand: README.md names the property and the constants of each.
SPECIFICATION Spec
CONSTANTS
  newer = newer
  older = older
  trade = trade
  newsroom = newsroom
  tan = tan
  lim = lim
  known = known
  unknown = unknown
  Items <- MCItems
  Sources <- MCSources
  SourceOf <- MCSourceOf
  PublishedAt <- MCPublishedAt
  Persons <- MCPersons
  Firms <- MCFirms
  RegisterFirms <- MCRegister
  Readings <- MCReadings
  Costly = {}
  TaxonomyLoaded = TRUE
  Faults = {"interrupt"}
  MaxFaults = 1
  MaxDiscards = 0
INVARIANT OneMovePerPerson
