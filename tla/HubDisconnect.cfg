\* A disconnect between the reads and the commit of a sweep.
CONSTANTS
  Providers = {p1}
  Users = {u1}
  Handlers = {h1}
  Workers = {w1}
  MaxTokens = 2
  MaxAttempts = 1
  MaxUnreadable = 0
  MaxFailures = 0
  LocksOutlive = FALSE
  None = None
SPECIFICATION Spec
PROPERTIES DisconnectedStays
