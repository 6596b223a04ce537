SPECIFICATION FairSpec
CONSTANTS
  Runners = {job, laptop}
  Last = 2
  Texts = {text, edited}
  Targets <- MCTargets
  MaxEdits = 1
  MaxFaults = 1
INVARIANT DoneMeansAgreed
INVARIANT TableTellsSchema
PROPERTY HistorySpec
PROPERTY EveryFileApplied
