\* Two requests on one integration, each of which may crash once: every overlap of
\* two of connect, callback, validate and disconnect, by two users.
CONSTANTS
  Providers = {p1}
  Users = {u1, u2}
  Handlers = {h1, h2}
  Workers = {}
  MaxTokens = 2
  MaxAttempts = 0
  MaxUnreadable = 0
  MaxFailures = 1
  LocksOutlive = FALSE
  None = None
SPECIFICATION Spec
SYMMETRY Symmetry
INVARIANTS TypeOK DisconnectedDated SomeoneConfigures ConnectedHasToken
