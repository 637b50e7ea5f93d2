--------------------------- MODULE KnowledgeIndex ---------------------------
(***************************************************************************)
(* The knowledge engine: versioned documents in PostgreSQL, an index queue *)
(* and a search cache in Redis, request handlers and index workers that    *)
(* each hold one SQLAlchemy session (backend/services/knowledge_service.py,*)
(* backend/workers/knowledge_indexing.py).                                 *)
(*                                                                         *)
(* One organisation with one active knowledge base: no operation of the    *)
(* code ever sets KnowledgeBase.deleted_at.  A session reads committed     *)
(* rows (READ COMMITTED), keeps what it loaded, flushes its writes, which  *)
(* locks the rows they touch, and commits.  A commit writes a column only  *)
(* when its new value differs from the value the session loaded: that is   *)
(* how the ORM builds its UPDATE, and what makes stale snapshots matter.   *)
(* Redis commands are not part of the transaction: the index job is pushed *)
(* and the cache invalidated BEFORE the commit, and stay done on rollback. *)
(***************************************************************************)
EXTENDS Integers, Sequences, FiniteSets, Orm

CONSTANTS
  DocKeys,       \* document keys (source uri, file name, title or text)
  Contents,      \* content checksums
  Handlers,      \* sessions of requests that upload, delete or reindex
  Searchers,     \* sessions of requests that search
  Workers,       \* sessions of index workers
  MaxVersions,   \* bound: version ids issued, those rolled back included
  MaxIndexings,  \* bound: indexings begun before handlers may begin another
  None           \* no row, no cache entry, no value

ASSUME BoundsAssumption == MaxVersions \in Nat /\ MaxIndexings \in Nat
ASSUME SessionsAssumption ==
  Handlers \cap Workers = {} /\ Searchers \cap (Handlers \cup Workers) = {}

VARIABLES
  documents,          \* committed rows of table documents, by document key
  document_versions,  \* committed rows of table document_versions, by id
  document_chunks,    \* committed chunk (and embedding) rows, by version id
  queue,              \* Redis list knowledge:index:queue
  cache,              \* Redis entry of the search, or None
  sess,               \* what each session holds
  issued,             \* version ids issued so far
  clock               \* utcnow(), as the number of indexings begun so far

vars == <<documents, document_versions, document_chunks, queue, cache, sess,
          issued, clock>>
rows == <<documents, document_versions, document_chunks>>

Sessions == Handlers \cup Searchers \cup Workers
VersionIds == 1..MaxVersions

DocumentRow == [is_deleted : BOOLEAN, checksum : Contents,
                latest_version_number : Nat, current_version_id : VersionIds]
VersionRow == [document : DocKeys, version_number : Nat, is_current : BOOLEAN,
               deleted : BOOLEAN, indexed_at : Nat]

ASSUME NoneAssumption ==
  None \notin DocumentRow /\ None \notin VersionRow /\ None \notin DocKeys

\* The chunk rows of one version all come from one indexing, begun at "at";
\* at = 0 when the version has no chunk rows.
ChunkRows == [at : Nat, deleted : BOOLEAN]
NoChunks == [at |-> 0, deleted |-> FALSE]

Session ==
  [op : {"none", "upload", "inline", "delete", "reindex", "index", "search"},
   pc : {"idle", "popped", "first", "listed", "loaded", "flushed"},
   doc : DocKeys \cup {None}, content : Contents \cup {None},
   docRow : DocumentRow \cup {None},                  \* the row as loaded
   verRows : [VersionIds -> VersionRow \cup {None}],  \* the rows as loaded
   chunkAt : [VersionIds -> Nat],                     \* chunk rows loaded
   vid : VersionIds \cup {0}, at : Nat, result : SUBSET VersionIds]

NoVersions == [v \in VersionIds |-> None]
Idle == [op |-> "none", pc |-> "idle", doc |-> None, content |-> None,
         docRow |-> None, verRows |-> NoVersions,
         chunkAt |-> [v \in VersionIds |-> 0], vid |-> 0, at |-> 0,
         result |-> {}]

TypeOK ==
  /\ documents \in [DocKeys -> DocumentRow \cup {None}]
  /\ document_versions \in [VersionIds -> VersionRow \cup {None}]
  /\ document_chunks \in [VersionIds -> ChunkRows]
  /\ queue \in Seq(VersionIds)
  /\ cache \in (SUBSET VersionIds) \cup {None}
  /\ sess \in [Sessions -> Session]
  /\ issued \in 0..MaxVersions
  /\ clock \in Nat

Init ==
  /\ documents = [d \in DocKeys |-> None]
  /\ document_versions = NoVersions
  /\ document_chunks = [v \in VersionIds |-> NoChunks]
  /\ queue = <<>>
  /\ cache = None
  /\ sess = [s \in Sessions |-> Idle]
  /\ issued = 0
  /\ clock = 0

-----------------------------------------------------------------------------
(* What a session intends to write, from what it loaded. *)

\* Mutant: the maximum with the stored number is left out.
LargerLast(a, b) == b

Larger(a, b) == IF a > b THEN a ELSE b
Indexes(x) == x.op \in {"inline", "reindex", "index"}

\* Mutants: the pointer is not set after the flush that assigns the id; it is
\* set to the id issued last, whoever asked for it.
NewDocumentNoPointer(x) ==
  [is_deleted |-> x.op = "delete", current_version_id |-> 0,
   checksum |-> IF x.docRow = None THEN x.content ELSE x.docRow.checksum,
   latest_version_number |-> IF x.docRow = None THEN 1
                             ELSE x.docRow.latest_version_number]
NewDocumentLastIssued(x) ==
  [is_deleted |-> x.op = "delete", current_version_id |-> issued,
   checksum |-> IF x.docRow = None THEN x.content ELSE x.docRow.checksum,
   latest_version_number |-> IF x.docRow = None THEN 1
                             ELSE x.docRow.latest_version_number
                                  + IF x.op \in {"upload", "inline"} THEN 1 ELSE 0]

NewDocument(x) ==
  CASE x.op \in {"upload", "inline"} ->
         [is_deleted |-> FALSE, checksum |-> x.content,
          latest_version_number |-> IF x.docRow = None THEN 1
                                    ELSE x.docRow.latest_version_number + 1,
          current_version_id |-> x.vid]
    [] x.op = "delete" -> [x.docRow EXCEPT !.is_deleted = TRUE]
    [] x.op \in {"reindex", "index"} ->
         [x.docRow EXCEPT !.current_version_id = x.vid,
                          !.latest_version_number =
                              Larger(@, x.verRows[x.vid].version_number)]

\* Mutant: the next upload brings back the versions deleted before.
UploadedVersionRevives(x, v) ==
  IF v = x.vid
  THEN [document |-> x.doc, is_current |-> TRUE, deleted |-> FALSE,
        version_number |-> NewDocument(x).latest_version_number,
        indexed_at |-> x.at]
  ELSE IF x.verRows[v] = None THEN None
  ELSE [x.verRows[v] EXCEPT !.is_current = FALSE, !.deleted = FALSE]

\* Mutant: an upload deletes the versions it supersedes.
UploadedVersionOnly(x, v) ==
  IF v = x.vid
  THEN [document |-> x.doc, is_current |-> TRUE, deleted |-> FALSE,
        version_number |-> NewDocument(x).latest_version_number,
        indexed_at |-> x.at]
  ELSE IF x.verRows[v] = None THEN None
  ELSE [x.verRows[v] EXCEPT !.is_current = FALSE, !.deleted = TRUE]

\* The version rows after an upload (the new one inserted as current, all
\* others no longer current), a delete (every listed one), an indexing.
UploadedVersion(x, v) ==
  IF v = x.vid
  THEN [document |-> x.doc, is_current |-> TRUE, deleted |-> FALSE,
        version_number |-> NewDocument(x).latest_version_number,
        indexed_at |-> x.at]
  ELSE IF x.verRows[v] = None THEN None
  ELSE [x.verRows[v] EXCEPT !.is_current = FALSE]

DeletedVersion(x, v) ==
  IF x.verRows[v] = None THEN None
  ELSE [x.verRows[v] EXCEPT !.deleted = TRUE, !.is_current = FALSE]

\* Mutant: indexed_at keeps the time of the first indexing.
IndexedVersionOnce(x, v) ==
  IF v # x.vid THEN x.verRows[v]
  ELSE [x.verRows[v] EXCEPT !.is_current = TRUE,
                            !.indexed_at = IF @ = 0 THEN x.at ELSE @]

IndexedVersion(x, v) ==
  IF v # x.vid THEN x.verRows[v]
  ELSE [x.verRows[v] EXCEPT !.is_current = TRUE, !.indexed_at = x.at]

NewVersion(x, v) ==
  CASE x.op \in {"upload", "inline"} -> UploadedVersion(x, v)
    [] x.op = "delete" -> DeletedVersion(x, v)
    [] x.op \in {"reindex", "index"} -> IndexedVersion(x, v)

\* The rows a flush locks.  delete_document always writes the timestamps
\* deleted_at, so it locks every row it listed.
LocksDocument(x, d) ==
  x.doc = d /\ (x.op = "delete" \/ NewDocument(x) # x.docRow)
LocksVersion(x, v) ==
  IF x.op = "delete" THEN x.verRows[v] # None
  ELSE NewVersion(x, v) # x.verRows[v]
LocksChunks(x, v) ==
  IF x.op = "delete" THEN x.chunkAt[v] # 0 ELSE Indexes(x) /\ v = x.vid

Conflict(x, y) ==
  \/ \E d \in DocKeys : LocksDocument(x, d) /\ LocksDocument(y, d)
  \/ \E v \in VersionIds : \/ LocksVersion(x, v) /\ LocksVersion(y, v)
                           \/ LocksChunks(x, v) /\ LocksChunks(y, v)

CanLock(s, x) ==
  \A t \in Sessions \ {s} : sess[t].pc = "flushed" => ~Conflict(x, sess[t])

Committed(v) == document_versions[v] # None
IsVersionOf(v, d) == Committed(v) /\ document_versions[v].document = d

VersionsOf(d) ==
  [v \in VersionIds |-> IF IsVersionOf(v, d) THEN document_versions[v] ELSE None]

\* Mutant: an outer join, which also returns versions without chunks.
VisibleOuterJoin ==
  {v \in VersionIds :
     /\ Committed(v)
     /\ ~document_versions[v].deleted
     /\ documents[document_versions[v].document] # None
     /\ ~documents[document_versions[v].document].is_deleted
     /\ ~document_chunks[v].deleted}

\* The versions a search of the database can return: the joins and filters
\* of _search.  is_current is not among them.
Visible ==
  {v \in VersionIds :
     /\ Committed(v)
     /\ ~document_versions[v].deleted
     /\ documents[document_versions[v].document] # None
     /\ ~documents[document_versions[v].document].is_deleted
     /\ document_chunks[v].at # 0
     /\ ~document_chunks[v].deleted}

-----------------------------------------------------------------------------
(* upload_document *)

\* The same live content again is answered without a change, so only the
\* other case is a step.
UploadRead(s, d, c, op) ==
  /\ s \in Handlers /\ sess[s].pc = "idle"
  /\ documents[d] # None => documents[d].checksum # c \/ documents[d].is_deleted
  /\ sess' = [sess EXCEPT ![s] = [Idle EXCEPT !.op = op, !.pc = "first",
                !.doc = d, !.content = c, !.docRow = documents[d]]]
  /\ UNCHANGED <<rows, queue, cache, issued, clock>>

\* list_by_document: a document created by this session has no version yet.
UploadList(s) ==
  /\ sess[s].op \in {"upload", "inline"} /\ sess[s].pc = "first"
  /\ sess' = [sess EXCEPT ![s].pc = "loaded",
                ![s].verRows = IF sess[s].docRow = None THEN NoVersions
                               ELSE VersionsOf(sess[s].doc)]
  /\ UNCHANGED <<rows, queue, cache, issued, clock>>

\* Mutant: no unique constraint on (document_id, version_number).
DuplicateKeyOnly(x) == x.docRow = None /\ documents[x.doc] # None

\* The unique constraints on (knowledge_base_id, document_key) and on
\* (document_id, version_number) refuse the new rows.
Duplicate(x) ==
  \/ x.docRow = None /\ documents[x.doc] # None
  \/ \E v \in VersionIds :
       /\ IsVersionOf(v, x.doc)
       /\ document_versions[v].version_number = NewDocument(x).latest_version_number

\* The flush of the new rows; then, before the commit, the push of the job or
\* the invalidation of the cache.
UploadFlush(s) ==
  LET inline == sess[s].op = "inline"
      x == [sess[s] EXCEPT !.pc = "flushed", !.vid = issued + 1,
                           !.at = IF inline THEN clock + 1 ELSE 0]
  IN /\ sess[s].op \in {"upload", "inline"} /\ sess[s].pc = "loaded"
     /\ issued < MaxVersions
     /\ inline => clock < MaxIndexings
     /\ ~Duplicate(x)
     /\ CanLock(s, x)
     /\ sess' = [sess EXCEPT ![s] = x]
     /\ issued' = issued + 1
     /\ IF inline THEN /\ clock' = clock + 1 /\ cache' = None
                       /\ UNCHANGED queue
                  ELSE /\ queue' = Append(queue, x.vid)
                       /\ UNCHANGED <<cache, clock>>
     /\ UNCHANGED rows

(* delete_document *)

DeleteRead(s, d) ==
  /\ s \in Handlers /\ sess[s].pc = "idle"
  /\ documents[d] # None
  /\ sess' = [sess EXCEPT ![s] = [Idle EXCEPT !.op = "delete", !.pc = "first",
                !.doc = d, !.docRow = documents[d]]]
  /\ UNCHANGED <<rows, queue, cache, issued, clock>>

DeleteList(s) ==
  /\ sess[s].op = "delete" /\ sess[s].pc = "first"
  /\ sess' = [sess EXCEPT ![s].pc = "listed", ![s].verRows = VersionsOf(sess[s].doc)]
  /\ UNCHANGED <<rows, queue, cache, issued, clock>>

\* The chunk rows are listed by a query of their own, which may find chunks of a
\* version that was not listed.
DeleteChunks(s) ==
  /\ sess[s].op = "delete" /\ sess[s].pc = "listed"
  /\ sess' = [sess EXCEPT ![s].pc = "loaded",
       ![s].chunkAt = [v \in VersionIds |-> IF IsVersionOf(v, sess[s].doc)
                                           THEN document_chunks[v].at ELSE 0]]
  /\ UNCHANGED <<rows, queue, cache, issued, clock>>

\* The UPDATE of a chunk row that a reindexing has replaced matches no row: the
\* flush raises and the session rolls back (Fail).
StaleChunks(x) ==
  \E v \in VersionIds : x.chunkAt[v] # 0 /\ document_chunks[v].at # x.chunkAt[v]

DeleteFlush(s) ==
  LET x == [sess[s] EXCEPT !.pc = "flushed"]
  IN /\ x.op = "delete" /\ sess[s].pc = "loaded"
     /\ ~StaleChunks(x)
     /\ CanLock(s, x)
     /\ sess' = [sess EXCEPT ![s] = x]
     /\ UNCHANGED <<rows, queue, cache, issued, clock>>

(* reindex_document: is_deleted is not looked at. *)

ReindexRead(s, d) ==
  /\ s \in Handlers /\ sess[s].pc = "idle"
  /\ documents[d] # None
  /\ sess' = [sess EXCEPT ![s] = [Idle EXCEPT !.op = "reindex", !.pc = "first",
                !.doc = d, !.docRow = documents[d]]]
  /\ UNCHANGED <<rows, queue, cache, issued, clock>>

ReindexLoad(s) ==
  LET v == sess[s].docRow.current_version_id
  IN /\ sess[s].op = "reindex" /\ sess[s].pc = "first"
     /\ sess' = [sess EXCEPT ![s].pc = "loaded", ![s].vid = v,
                   ![s].verRows = [NoVersions EXCEPT ![v] = document_versions[v]]]
     /\ UNCHANGED <<rows, queue, cache, issued, clock>>

(* process_background_jobs and ingest_pending_version *)

WorkerPop(w) ==
  /\ w \in Workers /\ sess[w].pc = "idle"
  /\ queue # <<>>
  /\ sess' = [sess EXCEPT ![w] = [Idle EXCEPT !.op = "index", !.pc = "popped",
                !.vid = Head(queue)]]
  /\ queue' = Tail(queue)
  /\ UNCHANGED <<rows, cache, issued, clock>>

\* Mutant: a version that is no longer the current one is skipped.
DiscardedIfOld(v) == IF document_versions[v] = None THEN TRUE
                     ELSE \/ document_versions[v].deleted
                          \/ ~document_versions[v].is_current

\* A version that is not there (not committed yet, or never) or is deleted
\* ends the job without a trace.
Discarded(v) == IF document_versions[v] = None THEN TRUE
                ELSE document_versions[v].deleted

WorkerDiscard(w) ==
  /\ sess[w].pc = "popped" /\ Discarded(sess[w].vid)
  /\ sess' = [sess EXCEPT ![w] = Idle]
  /\ UNCHANGED <<rows, queue, cache, issued, clock>>

WorkerLoadVersion(w) ==
  LET v == sess[w].vid
  IN /\ sess[w].pc = "popped" /\ ~Discarded(v)
     /\ sess' = [sess EXCEPT ![w].pc = "first",
          ![w].doc = document_versions[v].document,
          ![w].verRows = [NoVersions EXCEPT ![v] = document_versions[v]]]
     /\ UNCHANGED <<rows, queue, cache, issued, clock>>

WorkerLoadDocument(w) ==
  /\ sess[w].op = "index" /\ sess[w].pc = "first"
  /\ sess' = [sess EXCEPT ![w].pc = "loaded",
                          ![w].docRow = documents[sess[w].doc]]
  /\ UNCHANGED <<rows, queue, cache, issued, clock>>

\* _process_version with reset_embeddings: chunk rows are deleted and created
\* anew, the version and document rows flushed, and the cache invalidated.
ProcessFlush(s) ==
  LET x == [sess[s] EXCEPT !.pc = "flushed", !.at = clock + 1]
  IN /\ sess[s].op \in {"reindex", "index"} /\ sess[s].pc = "loaded"
     /\ s \in Handlers => clock < MaxIndexings
     /\ CanLock(s, x)
     /\ sess' = [sess EXCEPT ![s] = x]
     /\ clock' = clock + 1
     /\ cache' = None
     /\ UNCHANGED <<rows, queue, issued>>

-----------------------------------------------------------------------------
(* The end of a transaction *)

ChunksAfter(x, v) ==
  IF Indexes(x) /\ v = x.vid THEN [at |-> x.at, deleted |-> FALSE]
  ELSE IF x.op = "delete" /\ x.chunkAt[v] # 0
       THEN [document_chunks[v] EXCEPT !.deleted = TRUE]
  ELSE document_chunks[v]

Commit(s) ==
  LET x == sess[s]
  IN /\ x.pc = "flushed"
     /\ documents' = [documents EXCEPT
          ![x.doc] = Written(@, None, x.docRow, NewDocument(x))]
     /\ document_versions' = [v \in VersionIds |->
          Written(document_versions[v], None, x.verRows[v], NewVersion(x, v))]
     /\ document_chunks' = [v \in VersionIds |-> ChunksAfter(x, v)]
     /\ sess' = [sess EXCEPT ![s] = Idle]
     /\ UNCHANGED <<queue, cache, issued, clock>>

\* An exception (a unique violation, a stale row, a deadlock victim, a lost
\* connection) or a crash: the transaction rolls back, Redis keeps what was
\* done, and a popped job is gone.
Fail(s) ==
  /\ sess[s].pc # "idle"
  /\ sess' = [sess EXCEPT ![s] = Idle]
  /\ UNCHANGED <<rows, queue, cache, issued, clock>>

-----------------------------------------------------------------------------
(* _search: a hit changes nothing; a miss reads the database, then stores. *)

SearchRead(s) ==
  /\ s \in Searchers /\ sess[s].pc = "idle"
  /\ cache = None
  /\ sess' = [sess EXCEPT ![s] = [Idle EXCEPT !.op = "search", !.pc = "loaded",
                !.result = Visible]]
  /\ UNCHANGED <<rows, queue, cache, issued, clock>>

SearchStore(s) ==
  /\ sess[s].op = "search"
  /\ cache' = sess[s].result
  /\ sess' = [sess EXCEPT ![s] = Idle]
  /\ UNCHANGED <<rows, queue, issued, clock>>

\* Mutant: the entry is stored without a time to live.
CacheExpireNever == FALSE /\ cache' = None /\ UNCHANGED <<rows, queue, sess, issued, clock>>

\* The entry's time to live (knowledge_search_cache_ttl_seconds) runs out.
CacheExpire ==
  /\ cache # None
  /\ cache' = None
  /\ UNCHANGED <<rows, queue, sess, issued, clock>>

-----------------------------------------------------------------------------
Upload(s) == \/ \E d \in DocKeys, c \in Contents, op \in {"upload", "inline"} :
                  UploadRead(s, d, c, op)
             \/ UploadList(s) \/ UploadFlush(s)
Delete(s) == \/ \E d \in DocKeys : DeleteRead(s, d)
             \/ DeleteList(s) \/ DeleteChunks(s) \/ DeleteFlush(s)
Reindex(s) == (\E d \in DocKeys : ReindexRead(s, d)) \/ ReindexLoad(s)
Work(w) == \/ WorkerPop(w) \/ WorkerDiscard(w)
           \/ WorkerLoadVersion(w) \/ WorkerLoadDocument(w)
Search(s) == SearchRead(s) \/ SearchStore(s)

\* Every step but a failure.
Step(s) == \/ Upload(s) \/ Delete(s) \/ Reindex(s) \/ Work(s)
           \/ ProcessFlush(s) \/ Commit(s) \/ Search(s)

Next == (\E s \in Sessions : Step(s) \/ Fail(s)) \/ CacheExpire

Spec == Init /\ [][Next]_vars

\* A request or a job that has begun is run on; a worker is started again and
\* again and gets the row locks it waits for; Redis expires keys.  Nobody is
\* obliged to send a request.
Proceed(s) == \/ UploadList(s) \/ UploadFlush(s)
              \/ DeleteList(s) \/ DeleteChunks(s) \/ DeleteFlush(s) \/ ReindexLoad(s)
              \/ ProcessFlush(s) \/ Commit(s) \/ SearchStore(s)
              \/ Work(s)
Fairness == /\ \A s \in Sessions : WF_vars(Proceed(s))
            /\ \A w \in Workers : SF_vars(ProcessFlush(w))
            /\ WF_vars(CacheExpire)

\* The same system in which no worker fails, so that no job it has popped is lost:
\* requests and searches may still fail at any point.
ReliableSpec ==
  /\ Init
  /\ [][\/ \E s \in Sessions : Step(s)
        \/ \E s \in Handlers \cup Searchers : Fail(s)
        \/ CacheExpire]_vars
  /\ Fairness

-----------------------------------------------------------------------------
(* Properties *)

\* The committed versions of a document carry exactly the numbers 1 to
\* latest_version_number, each once, although uploads add one to a number they
\* read earlier and indexings write back a maximum over an old row.
VersionNumbering ==
  \A d \in DocKeys :
    /\ \A v \in VersionIds : IsVersionOf(v, d) =>
         /\ documents[d] # None
         /\ document_versions[v].version_number \in
              1..documents[d].latest_version_number
    /\ documents[d] # None =>
         \A n \in 1..documents[d].latest_version_number :
           \E v \in VersionIds :
             IsVersionOf(v, d) /\ document_versions[v].version_number = n
    /\ \A u, v \in VersionIds :
         (/\ IsVersionOf(u, d) /\ IsVersionOf(v, d)
          /\ document_versions[u].version_number = document_versions[v].version_number)
           => u = v

\* current_version_id leads to a committed version of the same document,
\* whichever upload and indexing wrote it last.
CurrentVersionOwned ==
  \A d \in DocKeys :
    documents[d] # None => IsVersionOf(documents[d].current_version_id, d)

\* The chunk rows of a version are those of the indexing its indexed_at names,
\* whatever indexings of it and deletions overlapped.
ChunksOfLastIndexing ==
  \A v \in VersionIds :
    document_chunks[v].at = IF Committed(v) THEN document_versions[v].indexed_at ELSE 0

\* Only the commit of a delete of its document takes a version out of the reach
\* of a search: no upload, no indexing that replaces its chunks, no failure does.
OnlyDeleteHides ==
  [][\A v \in VersionIds :
       (v \in Visible /\ v \notin Visible') =>
         \E s \in Handlers : /\ sess[s].op = "delete" /\ sess[s].pc = "flushed"
                             /\ IsVersionOf(v, sess[s].doc)
                             /\ sess'[s].pc = "idle"]_vars

\* Nothing is served, from the cache or in a search under way, but versions
\* whose indexing was committed: a version being flushed is never served.
ServedWasIndexed ==
  LET Served == (IF cache = None THEN {} ELSE cache)
                  \cup UNION {sess[s].result : s \in Sessions}
  IN \A v \in Served : Committed(v) /\ document_versions[v].indexed_at # 0

\* A version, once deleted, never reaches a search of the database again, not
\* through a later upload, a reindexing or a commit of stale rows.
DeletedStaysHidden ==
  [][\A v \in VersionIds :
       (Committed(v) /\ document_versions[v].deleted)
         => (document_versions[v].deleted' /\ v \notin Visible')]_vars

\* Once no transaction is left to commit, the cache comes to hold what a search
\* of the database returns, in spite of invalidating before the commit.
CacheConverges ==
  <>[](\A s \in Sessions : sess[s].pc # "flushed")
    => <>[](cache # None => cache = Visible)

\* As long as no worker fails, a committed version whose job is still queued gets indexed,
\* unless it is deleted first.
QueuedIsIndexed ==
  \A v \in VersionIds :
    (Committed(v) /\ \E i \in 1..Len(queue) : queue[i] = v)
      ~> (Committed(v) /\ (document_versions[v].indexed_at # 0
                             \/ document_versions[v].deleted))

\* The rows as the abstract log of versions sees them.
Latest(d) == IF documents[d] = None THEN 0 ELSE documents[d].latest_version_number
Numbered(v) == <<document_versions[v].document, document_versions[v].version_number>>
IndexedVersions == {v \in VersionIds : Committed(v) /\ document_versions[v].indexed_at # 0}
DeletedVersions == {v \in VersionIds : Committed(v) /\ document_versions[v].deleted}

Log == INSTANCE VersionLog WITH
         latest <- [d \in DocKeys |-> Latest(d)],
         indexed <- {Numbered(v) : v \in IndexedVersions},
         deleted <- {Numbered(v) : v \in DeletedVersions}

\* Sessions that overlap, read before others commit and write back what they read
\* look from outside like one upload, indexing or delete after the other.
ImplementsLog == Log!Spec

(* A claim made about this code that it does not keep. *)

\* The pipeline of the knowledge README: text that is submitted gets chunked,
\* embedded and persisted, when no worker fails.
SubmittedIsIndexed ==
  \A v \in VersionIds :
    Committed(v) ~> (Committed(v) /\ (document_versions[v].indexed_at # 0
                                       \/ document_versions[v].deleted))
=============================================================================
