SPECIFICATION FairSpec
CONSTANTS
  Items = {one, two, three}
  Engines = {"rules", "llm", "auto"}
  SaveEvery = 2
  Ceiling = 4
  Projection = 2
  Costs = {0, 1, 4}
  Overlap = FALSE
  MaxFaults = 2
CHECK_DEADLOCK FALSE
INVARIANT LittleIsLost
INVARIANT OverrunByOneCall
PROPERTY QueueDrains
