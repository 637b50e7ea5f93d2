\* One document, two contents, two handlers: every overlap of two uploads, deletions
\* or reindexings, one of which may index.
CONSTANTS
  DocKeys = {d1}
  Contents = {c1, c2}
  Handlers = {h1, h2}
  Searchers = {}
  Workers = {}
  MaxVersions = 3
  MaxIndexings = 1
  None = None
SPECIFICATION Spec
SYMMETRY Symmetry
INVARIANTS TypeOK VersionNumbering CurrentVersionOwned
PROPERTIES OnlyDeleteHides ImplementsLog
