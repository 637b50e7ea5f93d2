\* A handler, an index worker and a searcher over one document: the index queue, and
\* the search cache against every commit, invalidation, failed request and expiry.
CONSTANTS
  DocKeys = {d1}
  Contents = {c1, c2}
  Handlers = {h1}
  Searchers = {r1}
  Workers = {w1}
  MaxVersions = 2
  MaxIndexings = 1
  None = None
SPECIFICATION ReliableSpec
INVARIANTS ServedWasIndexed VersionNumbering ChunksOfLastIndexing
PROPERTIES DeletedStaysHidden CacheConverges QueuedIsIndexed
