\* Every answer of two hosts, time-outs and redirects included.
SPECIFICATION Spec
CONSTANTS
  law = law
  asia = asia
  feed = feed
  article = article
  archive = archive
  Origins <- MCOrigins
  Pages <- MCPages
  OriginOf <- MCOriginOf
  Files <- MCFiles
  RedirectsTo <- MCRedirectsTo
  MinInterval = 2
  ROBOTS_TTL = 5
  Latencies = {2}
  MaxTime = 10
INVARIANT Spaced
INVARIANT Permitted
INVARIANT AskedOncePerTTL
CHECK_DEADLOCK FALSE
