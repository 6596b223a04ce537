\* Claims run by hand: README.md names the property and the constants of each.
SPECIFICATION Spec
CONSTANTS
  newsroom = newsroom
  trade = trade
  wire = wire
  Items <- MCItems
  Sources <- MCSources
  SourceOf <- MCSourceOf
  TierOf <- MCTierOf
  Firms <- MCFirms
  InHouse <- MCInHouse
  Spellings <- MCSpellings
  SurnameKey <- MCSurnameKey
  GivenTokens <- MCGivenTokens
  GivenKey <- MCGivenKey
  Abbreviates <- MCAbbreviates
  VariantsOf <- MCVariantsOf
  Reports <- BridgeReports
  Faults = {}
  MaxMoves = 8
  MaxTeams = 3
  MaxFaults = 0
  MaxDiscards = 0
  MaxErasures = 0
INVARIANT GivenNameIsAGate
