\* Items of four pieces and names of four tokens.
SPECIFICATION Spec
CONSTANTS
  Firms <- MCFirms
  Places <- MCPlaces
  NotPlaces <- MCNotPlaces
  Words <- MCWords
  Capital <- MCCapital
  HONORIFICS <- MCHonorifics
  POST_NOMINALS <- MCPostNominals
  SURNAME_PARTICLES <- MCParticles
  ASIAN_SURNAMES <- MCSurnames
  Groups <- MCGroups
  Mappings <- MCMappings
  NotPractice <- MCNotPractice
  CODED_FIELDS <- MCCoded
  REQUIRED_FIELDS <- MCRequired
  Retirement <- MCRetirement
  Fragments <- MCFragments
  BodySentences <- MCSentences
  Tokens <- MCTokens
  Writings <- MCWritings
  MaxPieces = 4
  MaxTokens = 4
INVARIANT PairIsDirected
INVARIANT ExactSpansCite
INVARIANT OneMoveEach
INVARIANT OriginIsTold
INVARIANT OneRowPerName
INVARIANT PracticeIsCited
INVARIANT PartnersPass
INVARIANT NothingIsInvented
CHECK_DEADLOCK FALSE
