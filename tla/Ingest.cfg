SPECIFICATION FairSpec
CONSTANTS
  archive = archive
  flaky = flaky
  feed = feed
  Sources <- MCSources
  Archives <- MCArchives
  Unreadable <- MCUnreadable
  PollInterval <- MCPollInterval
  Items <- MCItems
  SourceOf <- MCSourceOf
  DateOf <- MCDateOf
  AppearsAt <- MCAppearsAt
  Refused <- MCRefused
  Commands <- MCWide
  Days <- MCDays
  Faults = {"kill", "interrupt", "drop"}
  MaxFaults = 1
CHECK_DEADLOCK FALSE
INVARIANT NothingMissed
INVARIANT WatermarkCovers
PROPERTY CommitPerSource
PROPERTY WindowIsRead
