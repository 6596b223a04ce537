\* Every pair of reports over six spellings, every row of up to eleven spans.
SPECIFICATION Spec
CONSTANTS
  Spellings <- MCSpellings
  SurnameKey <- MCSurnameKey
  GivenTokens <- MCGivenTokens
  GivenKey <- MCGivenKey
  Abbreviates <- MCAbbreviates
  Known <- MCKnown
  MaxFields = 11
  MaxSources = 5
INVARIANT VerdictSymmetric
INVARIANT InitialsCorroborated
INVARIANT OriginConflictsReviewed
INVARIANT VerdictKept
INVARIANT AggregatorsReviewed
INVARIANT HeadlinesReviewed
