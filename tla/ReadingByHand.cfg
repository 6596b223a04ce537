\* Claims run by hand: README.md names the invariant and the constants of each.
SPECIFICATION Spec
CONSTANTS
  Firms <- MCFirms
  Places <- MCPlaces
  NotPlaces <- MCNotPlaces
  Words <- MCWords
  Capital <- MCCapital
  HONORIFICS <- MCHonorifics
  POST_NOMINALS <- MCPostNominals
  SURNAME_PARTICLES <- MCParticles
  ASIAN_SURNAMES <- MCSurnames
  Groups <- MCGroups
  Mappings <- ClaimMappings
  NotPractice <- MCNotPractice
  CODED_FIELDS <- MCCoded
  REQUIRED_FIELDS <- MCRequired
  Retirement <- MCRetirement
  Fragments <- ClaimFragments
  BodySentences <- ClaimSentences
  Tokens <- MCTokens
  Writings <- MCWritings
  MaxPieces = 4
  MaxTokens = 4
CHECK_DEADLOCK FALSE
INVARIANT SpansAreExact
