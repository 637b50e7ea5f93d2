\* Two requests with one reset or verification token.
\* Requests stop, some of them before Issue, when the ids and tokens of the bounds are
\* used up.
CONSTANTS
  Emails = {e1}
  Ids = {i1}
  Tokens = {t1, t2}
  Handlers = {h1, h2}
  InvitedRoles = {"Employee"}
  MaxFailures = 0
  Second = 2
  Moments = {0, 1, 2, 3, 4}
  ExpTimes = {2}
  None = None
SPECIFICATION Spec
SYMMETRY Symmetry
INVARIANTS OneTimeTokenUsedOnce
CHECK_DEADLOCK FALSE
