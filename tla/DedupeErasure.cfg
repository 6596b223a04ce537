\* A merge keeps the spelling of a person who is then erased.
SPECIFICATION Spec
CONSTANTS
  newsroom = newsroom
  trade = trade
  wire = wire
  Items <- MCItems
  Sources <- MCSources
  SourceOf <- MCSourceOf
  TierOf <- MCTierOf
  Firms <- MCFirms
  InHouse <- MCInHouse
  Spellings <- MCSpellings
  SurnameKey <- MCSurnameKey
  GivenTokens <- MCGivenTokens
  GivenKey <- MCGivenKey
  Abbreviates <- MCAbbreviates
  VariantsOf <- MCVariantsOf
  Reports <- TeamReports
  Faults = {}
  MaxMoves = 8
  MaxTeams = 3
  MaxFaults = 0
  MaxDiscards = 0
  MaxErasures = 1
INVARIANT ErasedStaysErased
