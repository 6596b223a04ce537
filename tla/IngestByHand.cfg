\* Claims run by hand: README.md names the property and the constants of each.
SPECIFICATION Spec
CONSTANTS
  archive = archive
  flaky = flaky
  feed = feed
  Sources <- MCSources
  Archives <- MCArchives
  Unreadable <- MCUnreadable
  PollInterval <- MCPollInterval
  Items <- MCItems
  SourceOf <- MCSourceOf
  DateOf <- MCDateOf
  AppearsAt <- MCAppearsAt
  Refused <- MCRefused
  Commands <- MCWide
  Days <- MCDays
  Faults = {}
  MaxFaults = 1
CHECK_DEADLOCK FALSE
INVARIANT RecordUpToDate
