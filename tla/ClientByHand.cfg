\* Claims run by hand: README.md names the property and the constants of each.
SPECIFICATION Spec
CONSTANTS
  law = law
  asia = asia
  feed = feed
  article = article
  archive = archive
  Origins <- MCOrigins
  Pages <- MCPages
  OriginOf <- MCOriginOf
  Files <- MCFiles
  RedirectsTo <- MCRedirectsTo
  MinInterval = 2
  ROBOTS_TTL = 5
  Latencies = {1}
  MaxTime = 10
CHECK_DEADLOCK FALSE
INVARIANT RequestsApart
