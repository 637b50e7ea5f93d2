\* The index job is pushed before the commit that makes its version visible.
CONSTANTS
  DocKeys = {d1}
  Contents = {c1}
  Handlers = {h1}
  Searchers = {r1}
  Workers = {w1}
  MaxVersions = 2
  MaxIndexings = 1
  None = None
SPECIFICATION ReliableSpec
PROPERTIES SubmittedIsIndexed
