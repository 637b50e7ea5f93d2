\* Three requests at a time, about two organizations and three users.
CONSTANTS
  Emails = {e1, e2, e3}
  Domains = {d1}
  Ids = {1, 2, 3}
  Organizations = {o1, o2}
  Requests = {r1, r2, r3}
  None = None
SPECIFICATION Spec
SYMMETRY Symmetry
INVARIANTS OrdersAgree
