\* Claims run by hand: README.md names the property and the constants of each.
SPECIFICATION FairSpec
CONSTANTS
  Items = {one, two, three}
  Engines = {"rules", "llm", "auto"}
  SaveEvery = 2
  Ceiling = 4
  Projection = 2
  Costs = {0, 1, 4}
  Overlap = FALSE
  MaxFaults = 2
CHECK_DEADLOCK FALSE
PROPERTY CollectReadsTheCache
