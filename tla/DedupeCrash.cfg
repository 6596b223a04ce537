\* The process may die at any statement; rows are erased and read again.
SPECIFICATION Spec
CONSTANTS
  newsroom = newsroom
  trade = trade
  wire = wire
  Items <- MCItems
  Sources <- MCSources
  SourceOf <- MCSourceOf
  TierOf <- MCTierOf
  Firms <- MCFirms
  InHouse <- MCInHouse
  Spellings <- MCSpellings
  SurnameKey <- MCSurnameKey
  GivenTokens <- MCGivenTokens
  GivenKey <- MCGivenKey
  Abbreviates <- MCAbbreviates
  VariantsOf <- MCVariantsOf
  Reports <- CrashReports
  Faults = {"kill"}
  MaxMoves = 8
  MaxTeams = 3
  MaxFaults = 1
  MaxDiscards = 1
  MaxErasures = 1
INVARIANT ReportedOnce
INVARIANT TeamsAreLiftOuts
PROPERTY EventsSpec
