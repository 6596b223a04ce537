\* Ctrl-C at any statement, rows the database refuses, erasures.
SPECIFICATION Spec
CONSTANTS
  newsroom = newsroom
  trade = trade
  wire = wire
  Items <- MCItems
  Sources <- MCSources
  SourceOf <- MCSourceOf
  TierOf <- MCTierOf
  Firms <- MCFirms
  InHouse <- MCInHouse
  Spellings <- MCSpellings
  SurnameKey <- MCSurnameKey
  GivenTokens <- MCGivenTokens
  GivenKey <- MCGivenKey
  Abbreviates <- MCAbbreviates
  VariantsOf <- MCVariantsOf
  Reports <- EntryReports
  Faults = {"kill", "interrupt"}
  MaxMoves = 9
  MaxTeams = 3
  MaxFaults = 1
  MaxDiscards = 1
  MaxErasures = 1
INVARIANT SupersessionSound
PROPERTY CoverageKept
