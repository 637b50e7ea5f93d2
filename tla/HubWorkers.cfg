\* Two workers sweep, one of which may crash while it holds the refresh lock, while
\* a request authorises anew or disconnects; locks outlive sweeps.
CONSTANTS
  Providers = {p1}
  Users = {u1}
  Handlers = {h1}
  Workers = {w1, w2}
  MaxTokens = 2
  MaxAttempts = 1
  MaxUnreadable = 1
  MaxFailures = 1
  LocksOutlive = TRUE
  None = None
SPECIFICATION LiveSpec
INVARIANTS RefreshTokenUsedOnce
PROPERTIES RevokedUntilAuthorized DueIsRefreshed
