\* Claims run by hand: README.md names the property and the constants of each.
SPECIFICATION Spec
CONSTANTS
  Spellings <- MCSpellings
  SurnameKey <- MCSurnameKey
  GivenTokens <- MCGivenTokens
  GivenKey <- MCGivenKey
  Abbreviates <- MCAbbreviates
  Known <- MCKnown
  MaxFields = 5
  MaxSources = 5
INVARIANT ScoresDoNotDrift
