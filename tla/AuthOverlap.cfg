\* Every overlap of two requests, one of which may crash, from the first registration
\* to an invitation or a rotated session.
\* Requests stop, some of them before Issue, when the ids and tokens of the bounds are
\* used up.
CONSTANTS
  Emails = {e1, e2}
  Ids = {i1, i2}
  Tokens = {t1, t2, t3}
  Handlers = {h1, h2}
  InvitedRoles = {"Employee"}
  MaxFailures = 1
  Second = 2
  Moments = {0, 1, 2, 3, 4}
  ExpTimes = {2}
  None = None
SPECIFICATION Spec
SYMMETRY Symmetry
INVARIANTS TypeOK WorkspaceWhole ActiveIsVerified PendingCanProceed PasswordByOwnToken
PROPERTIES AccountsMoveOn RevokedStaysRevoked BlacklistOutlivesToken
CHECK_DEADLOCK FALSE
