------------------------ MODULE KnowledgeIndexProofs ------------------------
(***************************************************************************)
(* Proof that KnowledgeIndex keeps its types and its version numbering for *)
(* every set of documents, contents and sessions and every bound.          *)
(*                                                                         *)
(* Then proofs about the past of a version: that every commit of a session *)
(* that overlapped with others is one upload, one indexing or one deletion *)
(* of the abstract log VersionLog, or changes nothing the log is about;    *)
(* and that its chunk rows are those of its last indexing, nothing is      *)
(* served that was not indexed, only a delete hides it and nothing brings  *)
(* it back.                                                                *)
(***************************************************************************)
EXTENDS KnowledgeIndex, TLAPS

\* What an operation has filled in by the time it reaches a program counter.
ShapeOf(x) ==
  /\ x.op = "none" <=> x.pc = "idle"
  /\ x.docRow # None => x.doc \in DocKeys
  /\ x.op = "search" => x.pc = "loaded"
  /\ x.pc = "popped" => x.op = "index"
  /\ x.op \in {"upload", "inline"} =>
       /\ x.doc \in DocKeys /\ x.content \in Contents
       /\ x.pc = "flushed" => x.vid \in VersionIds
  /\ x.op = "delete" => x.doc \in DocKeys /\ x.docRow # None
  /\ x.op = "reindex" =>
       /\ x.doc \in DocKeys /\ x.docRow # None
       /\ x.pc \in {"loaded", "flushed"} =>
            x.vid \in VersionIds /\ x.verRows[x.vid] # None
  /\ x.op = "index" =>
       /\ x.vid \in VersionIds
       /\ x.pc \in {"first", "loaded", "flushed"} =>
            x.doc \in DocKeys /\ x.verRows[x.vid] # None
       /\ x.pc \in {"loaded", "flushed"} <=> x.docRow # None

\* What a loaded row still says of the committed one: rows are never removed,
\* a version keeps its document and number, latest_version_number only grows.
LoadedVersionsOf(x) ==
  \A v \in VersionIds : x.verRows[v] # None =>
    /\ Committed(v)
    /\ document_versions[v].document = x.verRows[v].document
    /\ document_versions[v].version_number = x.verRows[v].version_number
    /\ x.verRows[v].document = x.doc

LoadedDocumentOf(x) ==
  x.docRow # None =>
    /\ documents[x.doc] # None
    /\ x.docRow.latest_version_number <= documents[x.doc].latest_version_number
    /\ IsVersionOf(x.docRow.current_version_id, x.doc)

\* An indexing never carries a number above the latest it loaded.
LoadedNumberOf(x) ==
  /\ x.op = "reindex" =>
       document_versions[x.docRow.current_version_id].version_number
         <= x.docRow.latest_version_number
  /\ x.op \in {"reindex", "index"} =>
       /\ \A v \in VersionIds : v # x.vid => x.verRows[v] = None
       /\ x.pc \in {"loaded", "flushed"} =>
            x.verRows[x.vid].version_number <= x.docRow.latest_version_number

\* An upload that has been flushed adds the next number to the latest row.
FreshOf(x) ==
  (x.op \in {"upload", "inline"} /\ x.pc = "flushed") =>
    /\ x.vid <= issued
    /\ document_versions[x.vid] = None
    /\ x.docRow = None => documents[x.doc] = None
    /\ x.docRow # None => x.docRow.latest_version_number =
                          documents[x.doc].latest_version_number

Exclusive ==
  \A s, t \in Sessions :
    (s # t /\ sess[s].pc = "flushed" /\ sess[t].pc = "flushed")
      => ~Conflict(sess[s], sess[t])

IssuedFirst == \A v \in VersionIds : v > issued => document_versions[v] = None

SessionInv(x) == /\ ShapeOf(x) /\ LoadedVersionsOf(x) /\ LoadedDocumentOf(x)
                 /\ LoadedNumberOf(x) /\ FreshOf(x)

IInv == /\ TypeOK
        /\ VersionNumbering
        /\ CurrentVersionOwned
        /\ IssuedFirst
        /\ Exclusive
        /\ \A s \in Sessions : SessionInv(sess[s])
-----------------------------------------------------------------------------
LEMMA ConflictSymmetric ==
  ASSUME NEW x, NEW y, Conflict(x, y)
  PROVE  Conflict(y, x)
BY DEF Conflict

\* A step that only replaces what one session holds keeps the invariant if the
\* new value is consistent with the rows and locks nothing another one holds.
LEMMA LocalStep ==
  ASSUME IInv, NEW s \in Sessions, NEW y \in Session,
         UNCHANGED rows, sess' = [sess EXCEPT ![s] = y],
         issued' \in 0..MaxVersions, issued <= issued', clock' \in Nat,
         queue' \in Seq(VersionIds), cache' \in (SUBSET VersionIds) \cup {None},
         SessionInv(y)',
         y.pc = "flushed" => CanLock(s, y)
  PROVE  IInv'
<1> USE DEF rows
<1>0. /\ documents' = documents /\ document_versions' = document_versions
      /\ document_chunks' = document_chunks
  OBVIOUS
<1>1. TypeOK'
  BY DEF IInv, TypeOK
<1>2. VersionNumbering' /\ CurrentVersionOwned'
  <2>1. VersionNumbering /\ CurrentVersionOwned
    BY DEF IInv
  <2> QED
    BY <1>0, <2>1 DEF VersionNumbering, CurrentVersionOwned, IsVersionOf,
                          Committed
<1>3. IssuedFirst'
  BY DEF IInv, IssuedFirst, TypeOK, VersionIds
<1>4. sess'[s] = y /\ \A t \in Sessions \ {s} : sess'[t] = sess[t]
  BY DEF IInv, TypeOK
<1>5. Exclusive'
  <2> SUFFICES ASSUME NEW t \in Sessions, NEW u \in Sessions, t # u,
                      sess'[t].pc = "flushed", sess'[u].pc = "flushed"
               PROVE  ~Conflict(sess'[t], sess'[u])
    <3>1. \A t, u \in Sessions :
            Conflict(sess[t], sess[u])' <=> Conflict(sess'[t], sess'[u])
      OBVIOUS
    <3> QED
      BY <3>1 DEF Exclusive
  <2>1. CASE t = s
    BY <1>4, <2>1 DEF CanLock
  <2>2. CASE u = s
    BY <1>4, <2>2, ConflictSymmetric DEF CanLock
  <2>3. CASE t # s /\ u # s
    BY <1>4, <2>3 DEF IInv, Exclusive
  <2> QED
    BY <2>1, <2>2, <2>3
<1>6. \A t \in Sessions : SessionInv(sess[t])'
  <2> SUFFICES ASSUME NEW t \in Sessions PROVE SessionInv(sess[t])'
    OBVIOUS
  <2>1. CASE t = s
    BY <1>4, <2>1 DEF SessionInv, ShapeOf, LoadedVersionsOf, LoadedDocumentOf,
                      LoadedNumberOf, FreshOf, IsVersionOf, Committed
  <2>2. CASE t # s
    <3>1. SessionInv(sess[t])
      BY DEF IInv
    <3>2. sess[t] \in Session
      BY DEF IInv, TypeOK
    <3> QED
      BY <1>4, <2>2, <3>1, <3>2 DEF SessionInv, ShapeOf, LoadedVersionsOf,
         LoadedDocumentOf, LoadedNumberOf, FreshOf, IsVersionOf, Committed, IInv, TypeOK,
         Session, VersionIds
  <2> QED
    BY <2>1, <2>2
<1> QED
  BY <1>1, <1>2, <1>3, <1>5, <1>6 DEF IInv
-----------------------------------------------------------------------------
(* The steps that only load rows. *)

LEMMA IdleInv ==
  /\ Idle \in Session
  /\ SessionInv(Idle)
  /\ SessionInv(Idle)'
BY DEF Idle, NoVersions, Session, SessionInv, ShapeOf, LoadedVersionsOf,
       LoadedDocumentOf, LoadedNumberOf, FreshOf

LEMMA LoadStep ==
  ASSUME IInv, NEW s \in Sessions, NEW y \in Session, y.pc # "flushed",
         UNCHANGED <<rows, queue, cache, issued, clock>>,
         sess' = [sess EXCEPT ![s] = y], SessionInv(y)'
  PROVE  IInv'
<1>1. /\ UNCHANGED rows /\ issued' \in 0..MaxVersions /\ issued <= issued'
      /\ clock' \in Nat /\ queue' \in Seq(VersionIds)
      /\ cache' \in (SUBSET VersionIds) \cup {None}
  BY DEF IInv, TypeOK
<1> QED
  BY <1>1, LocalStep

LEMMA UploadReadStep ==
  ASSUME IInv, NEW s \in Sessions, NEW d \in DocKeys, NEW c \in Contents,
         NEW op \in {"upload", "inline"}, UploadRead(s, d, c, op)
  PROVE  IInv'
<1> PICK y : y = [Idle EXCEPT !.op = op, !.pc = "first", !.doc = d,
                              !.content = c, !.docRow = documents[d]]
  OBVIOUS
<1>1. y \in Session /\ y.pc # "flushed"
  BY DEF Idle, NoVersions, Session, IInv, TypeOK
<1>2. /\ UNCHANGED <<rows, queue, cache, issued, clock>>
      /\ sess' = [sess EXCEPT ![s] = y]
  BY DEF UploadRead
<1>3. SessionInv(y)'
  BY <1>2, NoneAssumption DEF Idle, NoVersions, SessionInv, ShapeOf, rows, IInv, TypeOK,
     LoadedVersionsOf, LoadedDocumentOf, LoadedNumberOf, FreshOf, DocumentRow,
     CurrentVersionOwned, IsVersionOf, Committed
<1> QED
  BY <1>1, <1>2, <1>3, LoadStep

\* VersionsOf returns the committed rows of a document.
LEMMA VersionsOfFact ==
  ASSUME TypeOK, NEW d
  PROVE  /\ VersionsOf(d) \in [VersionIds -> VersionRow \cup {None}]
         /\ \A v \in VersionIds : VersionsOf(d)[v] # None =>
              IsVersionOf(v, d) /\ VersionsOf(d)[v] = document_versions[v]
BY DEF TypeOK, VersionsOf, IsVersionOf, Committed

LEMMA NoVersionsFact ==
  /\ NoVersions \in [VersionIds -> VersionRow \cup {None}]
  /\ \A v \in VersionIds : NoVersions[v] = None
BY DEF NoVersions

LEMMA UploadListStep ==
  ASSUME IInv, NEW s \in Sessions, UploadList(s)
  PROVE  IInv'
<1> PICK x : x = sess[s]
  OBVIOUS
<1>1. /\ x \in Session /\ SessionInv(x)
      /\ x.op \in {"upload", "inline"} /\ x.pc = "first"
  BY DEF IInv, TypeOK, UploadList
<1> PICK found : found = IF x.docRow = None THEN NoVersions ELSE VersionsOf(x.doc)
  OBVIOUS
<1>2. /\ found \in [VersionIds -> VersionRow \cup {None}]
      /\ \A v \in VersionIds : found[v] # None =>
           IsVersionOf(v, x.doc) /\ found[v] = document_versions[v]
  BY VersionsOfFact, NoVersionsFact DEF IInv
<1> PICK y : y = [x EXCEPT !.pc = "loaded", !.verRows = found]
  OBVIOUS
<1>3. y \in Session /\ y.pc # "flushed"
  BY <1>1, <1>2, ZenonT(60) DEF Session
<1>4. /\ UNCHANGED <<rows, queue, cache, issued, clock>>
      /\ sess' = [sess EXCEPT ![s] = y]
  BY <1>1 DEF UploadList, Session, IInv, TypeOK
<1>5. SessionInv(y)'
  BY <1>1, <1>2, <1>4 DEF SessionInv, ShapeOf, rows, LoadedVersionsOf, IsVersionOf,
     LoadedDocumentOf, LoadedNumberOf, FreshOf, Session, Committed
<1> QED
  BY <1>3, <1>4, <1>5, LoadStep

LEMMA DeleteReadStep ==
  ASSUME IInv, NEW s \in Sessions, NEW d \in DocKeys, DeleteRead(s, d)
  PROVE  IInv'
<1> PICK y : y = [Idle EXCEPT !.op = "delete", !.pc = "first", !.doc = d,
                              !.docRow = documents[d]]
  OBVIOUS
<1>1. y \in Session /\ y.pc # "flushed"
  BY DEF Idle, NoVersions, Session, IInv, TypeOK
<1>2. /\ UNCHANGED <<rows, queue, cache, issued, clock>>
      /\ sess' = [sess EXCEPT ![s] = y] /\ documents[d] # None
  BY DEF DeleteRead
<1>3. SessionInv(y)'
  BY <1>2, NoneAssumption DEF Idle, NoVersions, SessionInv, ShapeOf, rows, IInv, TypeOK,
     LoadedVersionsOf, LoadedDocumentOf, LoadedNumberOf, FreshOf, DocumentRow,
     CurrentVersionOwned, IsVersionOf, Committed
<1> QED
  BY <1>1, <1>2, <1>3, LoadStep

LEMMA DeleteListStep ==
  ASSUME IInv, NEW s \in Sessions, DeleteList(s)
  PROVE  IInv'
<1> PICK x : x = sess[s]
  OBVIOUS
<1>1. /\ x \in Session /\ SessionInv(x) /\ x.op = "delete" /\ x.pc = "first"
  BY DEF IInv, TypeOK, DeleteList
<1> PICK found : found = VersionsOf(x.doc)
  OBVIOUS
<1>2. /\ found \in [VersionIds -> VersionRow \cup {None}]
      /\ \A v \in VersionIds : found[v] # None =>
           IsVersionOf(v, x.doc) /\ found[v] = document_versions[v]
  BY VersionsOfFact DEF IInv
<1> PICK y : y = [x EXCEPT !.pc = "listed", !.verRows = found]
  OBVIOUS
<1>4. y \in Session /\ y.pc # "flushed"
  BY <1>1, <1>2, ZenonT(60) DEF Session
<1>5. /\ UNCHANGED <<rows, queue, cache, issued, clock>>
      /\ sess' = [sess EXCEPT ![s] = y]
  BY <1>1 DEF DeleteList, Session, IInv, TypeOK
<1>6. SessionInv(y)'
  BY <1>1, <1>2, <1>5 DEF SessionInv, ShapeOf, rows, LoadedVersionsOf, IsVersionOf,
     LoadedDocumentOf, LoadedNumberOf, FreshOf, Session, Committed
<1> QED
  BY <1>4, <1>5, <1>6, LoadStep

LEMMA DeleteChunksStep ==
  ASSUME IInv, NEW s \in Sessions, DeleteChunks(s)
  PROVE  IInv'
<1> PICK x : x = sess[s]
  OBVIOUS
<1>1. /\ x \in Session /\ SessionInv(x) /\ x.op = "delete" /\ x.pc = "listed"
  BY DEF IInv, TypeOK, DeleteChunks
<1> PICK at : at = [v \in VersionIds |-> IF IsVersionOf(v, x.doc)
                                         THEN document_chunks[v].at ELSE 0]
  OBVIOUS
<1>2. at \in [VersionIds -> Nat]
  BY DEF IInv, TypeOK, ChunkRows
<1> PICK y : y = [x EXCEPT !.pc = "loaded", !.chunkAt = at]
  OBVIOUS
<1>3. y \in Session /\ y.pc # "flushed"
  BY <1>1, <1>2, ZenonT(60) DEF Session
<1>4. /\ UNCHANGED <<rows, queue, cache, issued, clock>>
      /\ sess' = [sess EXCEPT ![s] = y]
  BY <1>1 DEF DeleteChunks, Session, IInv, TypeOK
<1>5. SessionInv(y)'
  BY <1>1, <1>4 DEF SessionInv, ShapeOf, rows, LoadedVersionsOf, IsVersionOf,
     LoadedDocumentOf, LoadedNumberOf, FreshOf, Session, Committed
<1> QED
  BY <1>3, <1>4, <1>5, LoadStep

LEMMA ReindexReadStep ==
  ASSUME IInv, NEW s \in Sessions, NEW d \in DocKeys, ReindexRead(s, d)
  PROVE  IInv'
<1> PICK y : y = [Idle EXCEPT !.op = "reindex", !.pc = "first", !.doc = d,
                              !.docRow = documents[d]]
  OBVIOUS
<1>1. y \in Session /\ y.pc # "flushed"
  BY DEF Idle, NoVersions, Session, IInv, TypeOK
<1>2. /\ UNCHANGED <<rows, queue, cache, issued, clock>>
      /\ sess' = [sess EXCEPT ![s] = y] /\ documents[d] # None
  BY DEF ReindexRead
<1>3. documents[d] \in DocumentRow
  BY <1>2 DEF IInv, TypeOK
<1>4. LET v == documents[d].current_version_id
      IN /\ v \in VersionIds /\ IsVersionOf(v, d)
         /\ document_versions[v].version_number <= documents[d].latest_version_number
  BY <1>2, <1>3 DEF IInv, CurrentVersionOwned, VersionNumbering, DocumentRow
<1>5. SessionInv(y)'
  BY <1>2, <1>3, <1>4 DEF Idle, NoVersions, SessionInv, ShapeOf, rows, IsVersionOf,
     LoadedVersionsOf, LoadedDocumentOf, LoadedNumberOf, FreshOf, DocumentRow, Committed
<1> QED
  BY <1>1, <1>2, <1>5, LoadStep

LEMMA ReindexLoadStep ==
  ASSUME IInv, NEW s \in Sessions, ReindexLoad(s)
  PROVE  IInv'
<1> PICK x : x = sess[s]
  OBVIOUS
<1>1. /\ x \in Session /\ SessionInv(x) /\ x.op = "reindex" /\ x.pc = "first"
  BY DEF IInv, TypeOK, ReindexLoad
<1> PICK v : v = x.docRow.current_version_id
  OBVIOUS
<1>2. /\ v \in VersionIds /\ IsVersionOf(v, x.doc)
      /\ document_versions[v] \in VersionRow
      /\ document_versions[v].version_number <= x.docRow.latest_version_number
  BY <1>1 DEF SessionInv, ShapeOf, LoadedNumberOf, LoadedDocumentOf, Session, DocumentRow,
     IsVersionOf, IInv, TypeOK, Committed
<1> PICK found : found = [NoVersions EXCEPT ![v] = document_versions[v]]
  OBVIOUS
<1>3. /\ found \in [VersionIds -> VersionRow \cup {None}]
      /\ found[v] = document_versions[v]
      /\ \A u \in VersionIds : u # v => found[u] = None
  BY <1>2 DEF NoVersions
<1> PICK y : y = [x EXCEPT !.pc = "loaded", !.vid = v, !.verRows = found]
  OBVIOUS
<1>4. y \in Session /\ y.pc # "flushed"
  BY <1>1, <1>2, <1>3, ZenonT(60) DEF Session
<1>5. /\ UNCHANGED <<rows, queue, cache, issued, clock>>
      /\ sess' = [sess EXCEPT ![s] = y]
  BY <1>1 DEF ReindexLoad, Session, IInv, TypeOK
<1>6. SessionInv(y)'
  BY <1>1, <1>2, <1>3, <1>5, ZenonT(60)
     DEF SessionInv, ShapeOf, rows, LoadedVersionsOf, IsVersionOf,
     LoadedDocumentOf, LoadedNumberOf, FreshOf, Session, Committed
<1> QED
  BY <1>4, <1>5, <1>6, LoadStep
LEMMA WorkerPopStep ==
  ASSUME IInv, NEW w \in Sessions, WorkerPop(w)
  PROVE  IInv'
<1> PICK v : v = Head(queue)
  OBVIOUS
<1>1. v \in VersionIds /\ queue' \in Seq(VersionIds)
  BY DEF WorkerPop, IInv, TypeOK
<1> PICK y : y = [Idle EXCEPT !.op = "index", !.pc = "popped", !.vid = v]
  OBVIOUS
<1>2. y \in Session /\ y.pc # "flushed"
  BY <1>1 DEF Idle, NoVersions, Session
<1>3. /\ UNCHANGED rows /\ sess' = [sess EXCEPT ![w] = y]
      /\ issued' \in 0..MaxVersions /\ issued <= issued'
      /\ clock' \in Nat /\ cache' \in (SUBSET VersionIds) \cup {None}
  BY DEF WorkerPop, IInv, TypeOK
<1>4. SessionInv(y)'
  BY <1>1 DEF Idle, NoVersions, SessionInv, ShapeOf, LoadedVersionsOf,
     LoadedDocumentOf, LoadedNumberOf, FreshOf
<1> QED
  BY <1>1, <1>2, <1>3, <1>4, LocalStep

LEMMA WorkerLoadVersionStep ==
  ASSUME IInv, NEW w \in Sessions, WorkerLoadVersion(w)
  PROVE  IInv'
<1> PICK x : x = sess[w]
  OBVIOUS
<1>1. /\ x \in Session /\ SessionInv(x) /\ x.op = "index" /\ x.pc = "popped"
  BY DEF IInv, TypeOK, WorkerLoadVersion, SessionInv, ShapeOf
<1> PICK v : v = x.vid
  OBVIOUS
<1> PICK d : d = document_versions[v].document
  OBVIOUS
<1>2. /\ v \in VersionIds /\ IsVersionOf(v, d) /\ d \in DocKeys
      /\ document_versions[v] \in VersionRow
  BY <1>1 DEF SessionInv, ShapeOf, WorkerLoadVersion, Discarded, Committed,
     IsVersionOf, IInv, TypeOK, VersionRow
<1> PICK found : found = [NoVersions EXCEPT ![v] = document_versions[v]]
  OBVIOUS
<1>3. /\ found \in [VersionIds -> VersionRow \cup {None}]
      /\ found[v] = document_versions[v]
      /\ \A u \in VersionIds : u # v => found[u] = None
  BY <1>2 DEF NoVersions
<1> PICK y : y = [x EXCEPT !.pc = "first", !.doc = d, !.verRows = found]
  OBVIOUS
<1>4. y \in Session /\ y.pc # "flushed"
  BY <1>1, <1>2, <1>3, ZenonT(60) DEF Session
<1>5. /\ UNCHANGED <<rows, queue, cache, issued, clock>>
      /\ sess' = [sess EXCEPT ![w] = y]
  BY <1>1 DEF WorkerLoadVersion, Session, IInv, TypeOK
<1>6. x.docRow = None
  BY <1>1 DEF SessionInv, ShapeOf
<1>7. SessionInv(y)'
  BY <1>1, <1>2, <1>3, <1>5, <1>6 DEF SessionInv, ShapeOf, rows, LoadedVersionsOf,
     IsVersionOf, LoadedDocumentOf, LoadedNumberOf, FreshOf, Session, Committed
<1> QED
  BY <1>4, <1>5, <1>7, LoadStep

LEMMA WorkerLoadDocumentStep ==
  ASSUME IInv, NEW w \in Sessions, WorkerLoadDocument(w)
  PROVE  IInv'
<1> PICK x : x = sess[w]
  OBVIOUS
<1>1. /\ x \in Session /\ SessionInv(x) /\ x.op = "index" /\ x.pc = "first"
      /\ x.doc \in DocKeys /\ x.vid \in VersionIds /\ x.verRows[x.vid] # None
  BY DEF IInv, TypeOK, WorkerLoadDocument, SessionInv, ShapeOf
<1>2. /\ IsVersionOf(x.vid, x.doc) /\ x.verRows[x.vid] \in VersionRow
      /\ document_versions[x.vid].version_number = x.verRows[x.vid].version_number
  BY <1>1 DEF SessionInv, LoadedVersionsOf, IsVersionOf, Session, Committed
<1> PICK r : r = documents[x.doc]
  OBVIOUS
<1>3. /\ r # None /\ r \in DocumentRow
      /\ x.verRows[x.vid].version_number <= r.latest_version_number
      /\ IsVersionOf(r.current_version_id, x.doc)
  BY <1>1, <1>2 DEF IInv, TypeOK, VersionNumbering, CurrentVersionOwned, DocumentRow
<1> PICK y : y = [x EXCEPT !.pc = "loaded", !.docRow = r]
  OBVIOUS
<1>4. y \in Session /\ y.pc # "flushed"
  BY <1>1, <1>3, ZenonT(60) DEF Session
<1>5. /\ UNCHANGED <<rows, queue, cache, issued, clock>>
      /\ sess' = [sess EXCEPT ![w] = y]
  BY <1>1 DEF WorkerLoadDocument, Session, IInv, TypeOK
<1>6. SessionInv(y)'
  <2>1. /\ y.op = "index" /\ y.pc = "loaded" /\ y.docRow = r
        /\ y.doc = x.doc /\ y.vid = x.vid /\ y.verRows = x.verRows
    BY <1>1 DEF Session
  <2>2. documents' = documents /\ document_versions' = document_versions
    BY <1>5 DEF rows
  <2>3. ShapeOf(y)
    BY <1>1, <1>3, <2>1 DEF ShapeOf
  <2>4. LoadedVersionsOf(y)'
    BY <1>1, <2>1, <2>2 DEF SessionInv, LoadedVersionsOf, Committed
  <2>5. LoadedDocumentOf(y)'
    BY <1>3, <2>1, <2>2 DEF LoadedDocumentOf, DocumentRow, IsVersionOf, Committed
  <2>6. LoadedNumberOf(y)'
    BY <1>1, <1>2, <1>3, <2>1, <2>2 DEF SessionInv, LoadedNumberOf
  <2>7. FreshOf(y)'
    BY <2>1 DEF FreshOf
  <2> QED BY <2>3, <2>4, <2>5, <2>6, <2>7 DEF SessionInv, ShapeOf
<1> QED
  BY <1>4, <1>5, <1>6, LoadStep

\* A session that fails, or a worker that discards its job, is idle again.
LEMMA ReleaseStep ==
  ASSUME IInv, NEW s \in Sessions, sess' = [sess EXCEPT ![s] = Idle],
         UNCHANGED <<rows, queue, cache, issued, clock>>
  PROVE  IInv'
<1>1. Idle.pc # "flushed"
  BY DEF Idle
<1> QED
  BY <1>1, IdleInv, LoadStep

LEMMA SearchStep ==
  ASSUME IInv, NEW s \in Sessions, Search(s)
  PROVE  IInv'
<1>1. CASE SearchRead(s)
  <2> PICK y : y = [Idle EXCEPT !.op = "search", !.pc = "loaded", !.result = Visible]
    OBVIOUS
  <2>1. y \in Session /\ y.pc # "flushed"
    BY DEF Idle, NoVersions, Session, Visible
  <2>2. SessionInv(y)'
    BY DEF Idle, NoVersions, SessionInv, ShapeOf, LoadedVersionsOf, LoadedDocumentOf,
       LoadedNumberOf, FreshOf
  <2> QED
    BY <1>1, <2>1, <2>2, LoadStep DEF SearchRead
<1>2. CASE SearchStore(s)
  <2>1. /\ UNCHANGED rows /\ sess' = [sess EXCEPT ![s] = Idle]
        /\ issued' \in 0..MaxVersions /\ issued <= issued'
        /\ clock' \in Nat /\ queue' \in Seq(VersionIds)
        /\ cache' \in (SUBSET VersionIds) \cup {None}
    BY <1>2 DEF SearchStore, IInv, TypeOK, Session
  <2>2. Idle.pc # "flushed"
    BY DEF Idle
  <2> QED
    BY <2>1, <2>2, IdleInv, LocalStep
<1> QED
  BY <1>1, <1>2 DEF Search
-----------------------------------------------------------------------------
(* The flushes. *)

LEMMA UploadFlushStep ==
  ASSUME IInv, NEW s \in Sessions, UploadFlush(s)
  PROVE  IInv'
<1> PICK x : x = sess[s]
  OBVIOUS
<1>1. /\ x \in Session /\ SessionInv(x) /\ x.op \in {"upload", "inline"}
      /\ x.pc = "loaded" /\ x.doc \in DocKeys
  BY DEF IInv, TypeOK, UploadFlush, SessionInv, ShapeOf
<1> PICK at : at = IF x.op = "inline" THEN clock + 1 ELSE 0
  OBVIOUS
<1> PICK y : y = [x EXCEPT !.pc = "flushed", !.vid = issued + 1, !.at = at]
  OBVIOUS
<1>2. /\ issued + 1 \in VersionIds /\ issued \in Nat /\ issued <= issued + 1
      /\ clock \in Nat /\ clock + 1 \in Nat /\ at \in Nat
  BY BoundsAssumption DEF UploadFlush, IInv, TypeOK, VersionIds
<1>3. y \in Session /\ y.vid = issued + 1 /\ y.docRow = x.docRow
      /\ y.verRows = x.verRows /\ y.op = x.op /\ y.doc = x.doc /\ y.pc = "flushed"
      /\ y.content = x.content
  <2>1. y \in Session
    BY <1>1, <1>2, ZenonT(60) DEF Session
  <2> QED
    BY <1>1, <2>1 DEF Session
<1>4. /\ sess' = [sess EXCEPT ![s] = y] /\ UNCHANGED rows /\ issued' = issued + 1
      /\ CanLock(s, y)
      /\ y.docRow = None => documents[y.doc] = None
      /\ \A v \in VersionIds : IsVersionOf(v, y.doc) =>
           document_versions[v].version_number # NewDocument(y).latest_version_number
  BY <1>1, <1>3 DEF UploadFlush, Duplicate
<1>5. /\ issued' \in 0..MaxVersions /\ issued <= issued' /\ clock' \in Nat
      /\ queue' \in Seq(VersionIds) /\ cache' \in (SUBSET VersionIds) \cup {None}
  <2>1. /\ queue' = queue \/ queue' = Append(queue, issued + 1)
        /\ clock' = clock \/ clock' = clock + 1
        /\ cache' = cache \/ cache' = None
    BY <1>1, <1>3, <1>4 DEF UploadFlush
  <2>2. queue \in Seq(VersionIds) /\ cache \in (SUBSET VersionIds) \cup {None}
    BY DEF IInv, TypeOK
  <2>3. Append(queue, issued + 1) \in Seq(VersionIds)
    BY <1>2, <2>2
  <2>4. issued' \in 0..MaxVersions /\ issued <= issued'
    BY <1>2, <1>4, BoundsAssumption DEF VersionIds
  <2> QED
    BY <1>2, <2>1, <2>2, <2>3, <2>4
<1>6. NewDocument(y).latest_version_number =
        IF y.docRow = None THEN 1 ELSE y.docRow.latest_version_number + 1
  BY <1>1, <1>3 DEF NewDocument
<1>7. document_versions[y.vid] = None
  BY <1>2, <1>3 DEF IInv, IssuedFirst
<1>8. y.docRow # None =>
        y.docRow.latest_version_number = documents[y.doc].latest_version_number
  <2> SUFFICES ASSUME y.docRow # None
               PROVE  y.docRow.latest_version_number = documents[y.doc].latest_version_number
    OBVIOUS
  <2> DEFINE n == y.docRow.latest_version_number
             m == documents[y.doc].latest_version_number
  <2>1. documents[y.doc] # None /\ n <= m
    BY <1>1, <1>3 DEF SessionInv, LoadedDocumentOf
  <2>2. n \in Nat /\ m \in Nat
    BY <1>1, <1>3, <2>1 DEF Session, DocumentRow, IInv, TypeOK
  <2>3. n < m => \E v \in VersionIds :
          IsVersionOf(v, y.doc) /\ document_versions[v].version_number = n + 1
    <3>1. n < m => n + 1 \in 1..m
      BY <2>2
    <3> QED
      BY <1>1, <1>3, <2>1, <3>1 DEF IInv, VersionNumbering
  <2> QED
    BY <1>4, <1>6, <2>1, <2>2, <2>3
<1>9. SessionInv(y)'
  <2>1. ShapeOf(y) /\ LoadedVersionsOf(y)' /\ LoadedDocumentOf(y)' /\ LoadedNumberOf(y)'
    BY <1>1, <1>2, <1>3, <1>4 DEF SessionInv, ShapeOf, LoadedVersionsOf, LoadedDocumentOf,
       LoadedNumberOf, IsVersionOf, Committed, rows
  <2>2. FreshOf(y)'
    BY <1>2, <1>3, <1>4, <1>7, <1>8 DEF FreshOf, rows
  <2> QED
    BY <2>1, <2>2 DEF SessionInv, ShapeOf
<1> QED
  BY <1>2, <1>3, <1>4, <1>5, <1>9, LocalStep

LEMMA DeleteFlushStep ==
  ASSUME IInv, NEW s \in Sessions, DeleteFlush(s)
  PROVE  IInv'
<1> PICK x : x = sess[s]
  OBVIOUS
<1>1. /\ x \in Session /\ SessionInv(x) /\ x.op = "delete" /\ x.pc = "loaded"
  BY DEF IInv, TypeOK, DeleteFlush
<1> PICK y : y = [x EXCEPT !.pc = "flushed"]
  OBVIOUS
<1>2. y \in Session
  BY <1>1 DEF Session
<1>3. /\ sess' = [sess EXCEPT ![s] = y] /\ UNCHANGED rows /\ CanLock(s, y)
      /\ issued' \in 0..MaxVersions /\ issued <= issued'
      /\ clock' \in Nat /\ queue' \in Seq(VersionIds)
      /\ cache' \in (SUBSET VersionIds) \cup {None}
  BY DEF DeleteFlush, IInv, TypeOK
<1>4. SessionInv(y)'
  BY <1>1, <1>3 DEF SessionInv, ShapeOf, rows, LoadedVersionsOf, LoadedDocumentOf,
     LoadedNumberOf, FreshOf, Session, IsVersionOf, Committed
<1> QED
  BY <1>2, <1>3, <1>4, LocalStep

LEMMA ProcessFlushStep ==
  ASSUME IInv, NEW s \in Sessions, ProcessFlush(s)
  PROVE  IInv'
<1> PICK x : x = sess[s]
  OBVIOUS
<1>1. /\ x \in Session /\ SessionInv(x) /\ x.op \in {"reindex", "index"}
      /\ x.pc = "loaded"
  BY DEF IInv, TypeOK, ProcessFlush
<1> PICK y : y = [x EXCEPT !.pc = "flushed", !.at = clock + 1]
  OBVIOUS
<1>2. y \in Session
  <2>1. clock + 1 \in Nat
    BY DEF IInv, TypeOK
  <2> QED
    BY <1>1, <2>1 DEF Session
<1>3. /\ sess' = [sess EXCEPT ![s] = y] /\ UNCHANGED rows /\ CanLock(s, y)
      /\ issued' \in 0..MaxVersions /\ issued <= issued'
      /\ clock' \in Nat /\ queue' \in Seq(VersionIds)
      /\ cache' \in (SUBSET VersionIds) \cup {None}
  BY DEF ProcessFlush, IInv, TypeOK
<1>4. SessionInv(y)'
  BY <1>1, <1>3 DEF SessionInv, ShapeOf, rows, LoadedVersionsOf, LoadedDocumentOf,
     LoadedNumberOf, FreshOf, Session, IsVersionOf, Committed
<1> QED
  BY <1>2, <1>3, <1>4, LocalStep
-----------------------------------------------------------------------------
(* The commit. *)

Adds(x) == x.op \in {"upload", "inline"}

\* What a flushed session knows of itself.
LEMMA FlushedFact ==
  ASSUME IInv, NEW s \in Sessions, NEW x, x = sess[s], x.pc = "flushed"
  PROVE  /\ x \in Session /\ SessionInv(x) /\ x.doc \in DocKeys
         /\ x.op \in {"upload", "inline", "delete", "reindex", "index"}
         /\ ~Adds(x) => x.docRow # None
         /\ Adds(x) => x.vid \in VersionIds /\ x.verRows[x.vid] = None
         /\ x.op \in {"reindex", "index"} =>
              /\ x.vid \in VersionIds /\ x.verRows[x.vid] # None
              /\ IsVersionOf(x.vid, x.doc)
         /\ x.docRow # None => /\ documents[x.doc] # None
                               /\ documents[x.doc] \in DocumentRow
                               /\ x.docRow \in DocumentRow
<1>1. /\ x \in Session /\ SessionInv(x)
  BY DEF IInv, TypeOK
<1>2. /\ x.doc \in DocKeys
      /\ x.op \in {"upload", "inline", "delete", "reindex", "index"}
      /\ ~Adds(x) => x.docRow # None
      /\ Adds(x) => x.vid \in VersionIds
      /\ x.op \in {"reindex", "index"} =>
           x.vid \in VersionIds /\ x.verRows[x.vid] # None
  BY <1>1 DEF SessionInv, ShapeOf, Session, Adds
<1>3. Adds(x) => x.verRows[x.vid] = None
  BY <1>1, <1>2 DEF SessionInv, FreshOf, LoadedVersionsOf, Committed, Adds
<1>4. x.op \in {"reindex", "index"} => IsVersionOf(x.vid, x.doc)
  BY <1>1, <1>2 DEF SessionInv, LoadedVersionsOf, IsVersionOf
<1>5. x.docRow # None => /\ documents[x.doc] # None
                        /\ documents[x.doc] \in DocumentRow
                        /\ x.docRow \in DocumentRow
  BY <1>1, <1>2 DEF SessionInv, LoadedDocumentOf, IInv, TypeOK, Session
<1> QED
  BY <1>1, <1>2, <1>3, <1>4, <1>5

\* The document row a commit leaves: an upload moves latest_version_number up
\* by one, no other operation moves it.
LEMMA CommitDocument ==
  ASSUME IInv, NEW s \in Sessions, NEW x, x = sess[s], x.pc = "flushed",
         NEW r, r = Written(documents[x.doc], None, x.docRow, NewDocument(x))
  PROVE  /\ r \in DocumentRow
         /\ Adds(x) => /\ r.current_version_id = x.vid
                       /\ r.latest_version_number =
                            IF documents[x.doc] = None THEN 1
                            ELSE documents[x.doc].latest_version_number + 1
         /\ ~Adds(x) => /\ r.latest_version_number =
                             documents[x.doc].latest_version_number
                        /\ r.current_version_id \in
                             {documents[x.doc].current_version_id} \cup
                             (IF x.op = "delete" THEN {} ELSE {x.vid})
<1> DEFINE new == NewDocument(x)
           row == documents[x.doc]
<1>1. /\ x \in Session /\ SessionInv(x) /\ x.doc \in DocKeys
      /\ ~Adds(x) => x.docRow # None
      /\ x.docRow # None => row # None /\ row \in DocumentRow /\ x.docRow \in DocumentRow
      /\ x.op \in {"upload", "inline", "delete", "reindex", "index"}
  BY FlushedFact
<1>2. CASE Adds(x)
  <2>1. /\ x.content \in Contents /\ x.vid \in VersionIds
        /\ (x.docRow = None) <=> (row = None)
        /\ x.docRow # None =>
             /\ x.docRow.latest_version_number = row.latest_version_number
             /\ x.docRow.current_version_id # x.vid
    BY <1>1, <1>2 DEF SessionInv, ShapeOf, FreshOf, LoadedDocumentOf, IsVersionOf,
                      Committed, Adds
  <2>2. new = [is_deleted |-> FALSE, checksum |-> x.content,
               latest_version_number |-> IF x.docRow = None THEN 1
                                         ELSE x.docRow.latest_version_number + 1,
               current_version_id |-> x.vid]
    BY <1>2 DEF Adds, NewDocument
  <2>3. /\ new \in DocumentRow /\ new.current_version_id = x.vid
        /\ new.latest_version_number = IF x.docRow = None THEN 1
                                       ELSE x.docRow.latest_version_number + 1
    BY <1>1, <2>1, <2>2 DEF DocumentRow
  <2>4. CASE x.docRow = None
    <3>1. r = new
      BY <2>3, <2>4, NoneAssumption DEF Written
    <3> QED
      BY <1>2, <2>1, <2>3, <2>4, <3>1
  <2>5. CASE x.docRow # None
    <3>1. r = [f \in DOMAIN row |-> IF new[f] = x.docRow[f] THEN row[f] ELSE new[f]]
      BY <2>3, <2>5, NoneAssumption DEF Written
    <3>2. r \in DocumentRow
      BY <1>1, <2>3, <2>5, <3>1 DEF DocumentRow
    <3>3. r.latest_version_number = row.latest_version_number + 1
      BY <1>1, <2>1, <2>3, <2>5, <3>1 DEF DocumentRow
    <3>4. r.current_version_id = x.vid
      BY <1>1, <2>1, <2>3, <2>5, <3>1 DEF DocumentRow
    <3> QED
      BY <1>2, <2>1, <2>5, <3>2, <3>3, <3>4
  <2> QED
    BY <2>4, <2>5
<1>3. CASE x.op = "delete"
  <2>1. new = [x.docRow EXCEPT !.is_deleted = TRUE]
    BY <1>3 DEF NewDocument
  <2>2. new \in DocumentRow
    BY <1>1, <1>3, <2>1 DEF DocumentRow, Adds
  <2>3. r = [f \in DOMAIN row |-> IF new[f] = x.docRow[f] THEN row[f] ELSE new[f]]
    BY <1>1, <1>3, <2>2, NoneAssumption DEF Written, Adds
  <2> QED
    BY <1>1, <1>3, <2>1, <2>2, <2>3 DEF DocumentRow, Adds
<1>4. CASE x.op \in {"reindex", "index"}
  <2>1. /\ x.vid \in VersionIds
        /\ x.verRows[x.vid] \in VersionRow
        /\ x.verRows[x.vid].version_number <= x.docRow.latest_version_number
    BY <1>1, <1>4, FlushedFact DEF SessionInv, LoadedNumberOf, Session
  <2>2. Larger(x.docRow.latest_version_number, x.verRows[x.vid].version_number) =
          x.docRow.latest_version_number
    BY <1>1, <1>4, <2>1 DEF Larger, VersionRow, DocumentRow, Adds
  <2>3. new = [x.docRow EXCEPT !.current_version_id = x.vid,
                 !.latest_version_number =
                   Larger(x.docRow.latest_version_number,
                          x.verRows[x.vid].version_number)]
    BY <1>1, <1>4 DEF NewDocument, Adds, DocumentRow
  <2>4. /\ new \in DocumentRow
        /\ new.latest_version_number = x.docRow.latest_version_number
        /\ new.current_version_id = x.vid
    BY <1>1, <1>4, <2>1, <2>2, <2>3 DEF DocumentRow, Adds
  <2>5. r = [f \in DOMAIN row |-> IF new[f] = x.docRow[f] THEN row[f] ELSE new[f]]
    BY <1>1, <1>4, <2>4, NoneAssumption DEF Written, Adds
  <2> QED
    BY <1>1, <1>4, <2>1, <2>4, <2>5 DEF DocumentRow, Adds
<1> QED
  BY <1>1, <1>2, <1>3, <1>4 DEF Adds
\* The version an upload inserts.
LEMMA AddedVersion ==
  ASSUME IInv, NEW s \in Sessions, NEW x, x = sess[s], x.pc = "flushed", Adds(x)
  PROVE  LET new == NewVersion(x, x.vid)
         IN /\ new \in VersionRow /\ new # None /\ new.document = x.doc
            /\ new.version_number = IF documents[x.doc] = None THEN 1
                                    ELSE documents[x.doc].latest_version_number + 1
<1> DEFINE new == NewVersion(x, x.vid)
<1>1. /\ x \in Session /\ SessionInv(x) /\ x.doc \in DocKeys /\ x.at \in Nat
  BY FlushedFact DEF Session
<1>2. /\ (x.docRow = None) <=> (documents[x.doc] = None)
      /\ x.docRow # None => x.docRow.latest_version_number =
                            documents[x.doc].latest_version_number
  BY <1>1 DEF SessionInv, FreshOf, LoadedDocumentOf, Adds
<1> PICK n : n = IF x.docRow = None THEN 1 ELSE x.docRow.latest_version_number + 1
  OBVIOUS
<1>3. n \in Nat
  BY <1>1 DEF Session, DocumentRow
<1>4. NewDocument(x).latest_version_number = n
  BY DEF NewDocument, Adds
<1>5. new = [document |-> x.doc, is_current |-> TRUE, deleted |-> FALSE,
             version_number |-> n, indexed_at |-> x.at]
  BY <1>4 DEF NewVersion, UploadedVersion, Adds
<1>6. new \in VersionRow /\ new.document = x.doc /\ new.version_number = n
  BY <1>1, <1>3, <1>5 DEF VersionRow
<1>7. new # None
  BY <1>6, NoneAssumption
<1> QED
  BY <1>2, <1>6, <1>7

\* The version rows a commit leaves: a committed version keeps its document and
\* number, and the only version added is the one an upload brings.
LEMMA CommitVersion ==
  ASSUME IInv, NEW s \in Sessions, NEW x, x = sess[s], x.pc = "flushed",
         NEW v \in VersionIds,
         NEW r, r = Written(document_versions[v], None, x.verRows[v], NewVersion(x, v))
  PROVE  /\ r \in VersionRow \cup {None}
         /\ Committed(v) => /\ r # None
                            /\ r.document = document_versions[v].document
                            /\ r.version_number = document_versions[v].version_number
         /\ (~Committed(v) /\ r # None) => Adds(x) /\ v = x.vid
         /\ (Adds(x) /\ v = x.vid) =>
              /\ ~Committed(v) /\ r # None /\ r.document = x.doc
              /\ r.version_number = IF documents[x.doc] = None THEN 1
                                    ELSE documents[x.doc].latest_version_number + 1
<1> DEFINE new == NewVersion(x, v)
           row == document_versions[v]
           loaded == x.verRows[v]
<1>1. /\ x \in Session /\ SessionInv(x) /\ x.doc \in DocKeys
      /\ x.op \in {"upload", "inline", "delete", "reindex", "index"}
      /\ Adds(x) => x.vid \in VersionIds /\ x.verRows[x.vid] = None
      /\ x.op \in {"reindex", "index"} => x.vid \in VersionIds /\ x.verRows[x.vid] # None
  BY FlushedFact
<1>2. row \in VersionRow \cup {None} /\ loaded \in VersionRow \cup {None} /\ x.at \in Nat
  BY <1>1 DEF IInv, TypeOK, Session
<1>3. loaded # None => /\ Committed(v) /\ row.document = loaded.document
                       /\ row.version_number = loaded.version_number
  BY <1>1 DEF SessionInv, LoadedVersionsOf
\* An existing row that is loaded and changed, if at all, in its other columns.
<1>4. ASSUME loaded # None, new \in VersionRow, new.document = loaded.document,
             new.version_number = loaded.version_number
      PROVE  /\ r \in VersionRow /\ r.document = row.document
             /\ r.version_number = row.version_number
  <2>1. row \in VersionRow
    BY <1>2, <1>3, <1>4 DEF Committed
  <2>2. r = [f \in DOMAIN row |-> IF new[f] = loaded[f] THEN row[f] ELSE new[f]]
    BY <1>4, NoneAssumption DEF Written
  <2> QED
    BY <1>2, <1>4, <2>1, <2>2 DEF VersionRow
<1>5. ASSUME loaded = None, new = None
      PROVE  r = row
  BY <1>5 DEF Written
<1>6. CASE Adds(x) /\ v = x.vid
  <2>1. row = None /\ loaded = None
    BY <1>1, <1>6 DEF SessionInv, FreshOf, Adds
  <2>2. r = new
    BY <1>6, <2>1, AddedVersion DEF Written
  <2> QED
    BY <1>6, <2>1, <2>2, AddedVersion DEF Committed
<1>7. CASE ~(Adds(x) /\ v = x.vid)
  <2>1. loaded = None => new = None
    BY <1>1, <1>7 DEF NewVersion, UploadedVersion, DeletedVersion, IndexedVersion, Adds
  <2>2. loaded # None =>
          /\ new \in VersionRow /\ new.document = loaded.document
          /\ new.version_number = loaded.version_number
    <3> SUFFICES ASSUME loaded # None
                 PROVE  /\ new \in VersionRow /\ new.document = loaded.document
                        /\ new.version_number = loaded.version_number
      OBVIOUS
    <3>1. CASE Adds(x)
      <4>1. new = [loaded EXCEPT !.is_current = FALSE]
        BY <1>7, <3>1 DEF NewVersion, UploadedVersion, Adds
      <4> QED
        BY <1>2, <4>1 DEF VersionRow
    <3>2. CASE x.op = "delete"
      <4>1. new = [loaded EXCEPT !.deleted = TRUE, !.is_current = FALSE]
        BY <3>2 DEF NewVersion, DeletedVersion
      <4> QED
        BY <1>2, <4>1 DEF VersionRow
    <3>3. CASE x.op \in {"reindex", "index"}
      <4>1. \/ new = loaded
            \/ new = [loaded EXCEPT !.is_current = TRUE, !.indexed_at = x.at]
        BY <3>3 DEF NewVersion, IndexedVersion
      <4> QED
        BY <1>2, <4>1 DEF VersionRow
    <3> QED
      BY <1>1, <3>1, <3>2, <3>3 DEF Adds
  <2>3. CASE loaded = None
    BY <1>2, <1>5, <1>7, <2>1, <2>3 DEF Committed
  <2>4. CASE loaded # None
    BY <1>3, <1>4, <1>7, <2>2, <2>4, NoneAssumption DEF Committed
  <2> QED
    BY <2>3, <2>4
<1> QED
  BY <1>6, <1>7
\* An upload that is flushed holds its document's row: no other commit changes it.
LEMMA AddsLocksDocument ==
  ASSUME NEW x \in Session, SessionInv(x), Adds(x), x.pc = "flushed"
  PROVE  LocksDocument(x, x.doc)
<1> DEFINE new == NewDocument(x)
<1>1. new = [is_deleted |-> FALSE, checksum |-> x.content,
             latest_version_number |-> IF x.docRow = None THEN 1
                                       ELSE x.docRow.latest_version_number + 1,
             current_version_id |-> x.vid]
  BY DEF NewDocument, Adds
<1>2. new \in DocumentRow
  BY <1>1 DEF DocumentRow, Session, SessionInv, ShapeOf, Adds
<1>3. CASE x.docRow = None
  BY <1>2, <1>3, NoneAssumption DEF LocksDocument
<1>4. CASE x.docRow # None
  <2>1. x.docRow.latest_version_number \in Nat
    BY <1>4 DEF Session, DocumentRow
  <2>2. new.latest_version_number = x.docRow.latest_version_number + 1
    BY <1>1, <1>4
  <2>3. new.latest_version_number # x.docRow.latest_version_number
    BY <2>1, <2>2
  <2> QED
    BY <2>3 DEF LocksDocument
<1> QED
  BY <1>3, <1>4

LEMMA LockedDocumentKept ==
  ASSUME IInv, NEW s \in Sessions, NEW t \in Sessions, s # t,
         sess[s].pc = "flushed", sess[t].pc = "flushed", Adds(sess[t]),
         sess[s].doc = sess[t].doc
  PROVE  Written(documents[sess[s].doc], None, sess[s].docRow, NewDocument(sess[s])) =
           documents[sess[s].doc]
<1> PICK x : x = sess[s]
  OBVIOUS
<1>1. /\ x.docRow # None => /\ documents[x.doc] \in DocumentRow
                            /\ x.docRow \in DocumentRow
      /\ x.doc \in DocKeys
      /\ ~Adds(x) => x.docRow # None
      /\ x \in Session /\ SessionInv(x)
  BY FlushedFact
<1>2. LocksDocument(sess[t], x.doc)
  BY AddsLocksDocument DEF IInv, TypeOK
<1>3. ~LocksDocument(x, x.doc)
  BY <1>1, <1>2 DEF IInv, Exclusive, Conflict
<1>4. ~Adds(x) /\ NewDocument(x) = x.docRow
  BY <1>1, <1>3, AddsLocksDocument DEF LocksDocument
<1>5. x.docRow # None
  BY <1>1, <1>4
<1>6. Written(documents[x.doc], None, x.docRow, NewDocument(x)) =
        [f \in DOMAIN documents[x.doc] |-> documents[x.doc][f]]
  BY <1>4, <1>5 DEF Written
<1> QED
  BY <1>1, <1>5, <1>6 DEF DocumentRow

LEMMA CommitStep ==
  ASSUME IInv, NEW s \in Sessions, Commit(s)
  PROVE  IInv'
<1> DEFINE IsNext(v, d) == /\ document_versions'[v] # None
                          /\ document_versions'[v].document = d
<1> PICK x : x = sess[s]
  OBVIOUS
<1> PICK D : D = Written(documents[x.doc], None, x.docRow, NewDocument(x))
  OBVIOUS
<1> PICK V : V = [v \in VersionIds |->
                   Written(document_versions[v], None, x.verRows[v], NewVersion(x, v))]
  OBVIOUS
<1>1. /\ x.pc = "flushed" /\ documents' = [documents EXCEPT ![x.doc] = D]
      /\ document_versions' = V
      /\ document_chunks' = [v \in VersionIds |-> ChunksAfter(x, v)]
      /\ sess' = [sess EXCEPT ![s] = Idle]
      /\ UNCHANGED <<queue, cache, issued, clock>>
  BY DEF Commit
<1>2. /\ x \in Session /\ SessionInv(x) /\ x.doc \in DocKeys
      /\ x.op \in {"upload", "inline", "delete", "reindex", "index"}
      /\ ~Adds(x) => x.docRow # None
      /\ Adds(x) => x.vid \in VersionIds
      /\ x.op \in {"reindex", "index"} =>
           x.vid \in VersionIds /\ IsVersionOf(x.vid, x.doc)
      /\ x.docRow # None => documents[x.doc] # None
  BY <1>1, FlushedFact
<1>3. /\ D \in DocumentRow
      /\ Adds(x) => /\ D.current_version_id = x.vid
                    /\ D.latest_version_number =
                         IF documents[x.doc] = None THEN 1
                         ELSE documents[x.doc].latest_version_number + 1
      /\ ~Adds(x) => /\ D.latest_version_number =
                          documents[x.doc].latest_version_number
                     /\ D.current_version_id \in
                          {documents[x.doc].current_version_id} \cup
                          (IF x.op = "delete" THEN {} ELSE {x.vid})
  BY <1>1, CommitDocument
<1>4. \A v \in VersionIds :
        /\ V[v] \in VersionRow \cup {None}
        /\ Committed(v) => /\ V[v] # None
                           /\ V[v].document = document_versions[v].document
                           /\ V[v].version_number = document_versions[v].version_number
        /\ (~Committed(v) /\ V[v] # None) => Adds(x) /\ v = x.vid
        /\ (Adds(x) /\ v = x.vid) =>
             /\ ~Committed(v) /\ V[v] # None /\ V[v].document = x.doc
             /\ V[v].version_number = IF documents[x.doc] = None THEN 1
                                      ELSE documents[x.doc].latest_version_number + 1
  BY <1>1, CommitVersion
\* What this says of the rows of the next state.
<1>5. /\ documents'[x.doc] = D /\ D # None
      /\ \A d \in DocKeys \ {x.doc} : documents'[d] = documents[d]
  BY <1>1, <1>2, <1>3, NoneAssumption DEF IInv, TypeOK
<1>6. \A v \in VersionIds, d \in DocKeys :
        /\ document_versions'[v] # None <=> Committed(v) \/ (Adds(x) /\ v = x.vid)
        /\ IsNext(v, d) <=> IsVersionOf(v, d) \/ (Adds(x) /\ v = x.vid /\ d = x.doc)
  BY <1>1, <1>4 DEF Committed, IsVersionOf
<1>7. \A v \in VersionIds : Committed(v) =>
        /\ document_versions'[v].document = document_versions[v].document
        /\ document_versions'[v].version_number = document_versions[v].version_number
  BY <1>1, <1>4
<1>8. TypeOK'
  <2>1. documents' \in [DocKeys -> DocumentRow \cup {None}]
    BY <1>1, <1>3 DEF IInv, TypeOK
  <2>2. document_versions' \in [VersionIds -> VersionRow \cup {None}]
    BY <1>1, <1>4
  <2>3. document_chunks' \in [VersionIds -> ChunkRows]
    <3>1. x.at \in Nat /\ \A v \in VersionIds : document_chunks[v] \in ChunkRows
      BY <1>2 DEF IInv, TypeOK, Session
    <3>2. \A v \in VersionIds : ChunksAfter(x, v) \in ChunkRows
      BY <3>1 DEF ChunksAfter, ChunkRows
    <3> QED
      BY <1>1, <3>2
  <2>4. sess' \in [Sessions -> Session]
    BY <1>1, IdleInv DEF IInv, TypeOK
  <2> QED
    BY <1>1, <2>1, <2>2, <2>3, <2>4 DEF IInv, TypeOK
<1>9. sess'[s] = Idle /\ \A t \in Sessions \ {s} : sess'[t] = sess[t]
  BY <1>1 DEF IInv, TypeOK
<1>10. IssuedFirst'
  <2>1. Adds(x) => x.vid <= issued
    BY <1>1, <1>2 DEF SessionInv, FreshOf, Adds
  <2>2. issued \in Nat
    BY DEF IInv, TypeOK
  <2> SUFFICES ASSUME NEW v \in VersionIds, v > issued
               PROVE  document_versions'[v] = None
    BY <1>1 DEF IssuedFirst
  <2>3. ~Committed(v)
    BY DEF IInv, IssuedFirst, Committed
  <2>4. ~(Adds(x) /\ v = x.vid)
    BY <2>1, <2>2, BoundsAssumption DEF VersionIds
  <2> QED
    BY <1>6, <2>3, <2>4, <1>2
<1>11. VersionNumbering'
  <2> SUFFICES ASSUME NEW d \in DocKeys
               PROVE  /\ \A v \in VersionIds : IsNext(v, d) =>
                          /\ documents'[d] # None
                          /\ document_versions'[v].version_number \in
                               1..documents'[d].latest_version_number
                      /\ documents'[d] # None =>
                          \A n \in 1..documents'[d].latest_version_number :
                            \E v \in VersionIds :
                              /\ IsNext(v, d)
                              /\ document_versions'[v].version_number = n
                      /\ \A u, v \in VersionIds :
                          (/\ IsNext(u, d) /\ IsNext(v, d)
                           /\ document_versions'[u].version_number =
                                document_versions'[v].version_number)
                            => u = v
    BY DEF VersionNumbering, IsVersionOf, Committed
  <2>0. /\ \A v \in VersionIds : IsVersionOf(v, d) =>
             /\ documents[d] # None
             /\ document_versions[v].version_number \in
                  1..documents[d].latest_version_number
        /\ documents[d] # None =>
             \A n \in 1..documents[d].latest_version_number :
               \E v \in VersionIds :
                 IsVersionOf(v, d) /\ document_versions[v].version_number = n
        /\ \A u, v \in VersionIds :
             (/\ IsVersionOf(u, d) /\ IsVersionOf(v, d)
              /\ document_versions[u].version_number = document_versions[v].version_number)
               => u = v
    BY DEF IInv, VersionNumbering
  <2>1. CASE ~(Adds(x) /\ d = x.doc)
    <3>1. \A v \in VersionIds : IsNext(v, d) <=> IsVersionOf(v, d)
      BY <1>6, <2>1
    <3>2. /\ documents'[d] = None <=> documents[d] = None
          /\ documents'[d].latest_version_number = documents[d].latest_version_number
      BY <1>2, <1>3, <1>5, <2>1
    <3>3. \A v \in VersionIds : IsVersionOf(v, d) =>
            document_versions'[v].version_number = document_versions[v].version_number
      BY <1>7 DEF IsVersionOf
    <3> QED
      BY <2>0, <3>1, <3>2, <3>3
  <2>2. CASE Adds(x) /\ d = x.doc
    <3> PICK n : n = IF documents[d] = None THEN 0
                     ELSE documents[d].latest_version_number
      OBVIOUS
    <3>1. n \in Nat /\ documents'[d] # None /\ documents'[d].latest_version_number = n + 1
      BY <1>3, <1>5, <2>2 DEF IInv, TypeOK, DocumentRow
    <3>2. x.vid \in VersionIds /\ document_versions'[x.vid].version_number = n + 1
          /\ ~IsVersionOf(x.vid, d)
      BY <1>1, <1>2, <1>4, <2>2 DEF IsVersionOf
    <3>3. \A v \in VersionIds : IsNext(v, d) <=> IsVersionOf(v, d) \/ v = x.vid
      BY <1>6, <2>2
    <3>4. \A v \in VersionIds : IsVersionOf(v, d) =>
            /\ document_versions'[v].version_number = document_versions[v].version_number
            /\ document_versions[v].version_number \in 1..n
      BY <1>7, <2>0 DEF IsVersionOf
    <3>5. \A k \in 1..n : \E v \in VersionIds :
            IsVersionOf(v, d) /\ document_versions[v].version_number = k
      BY <2>0
    <3>6. \A k \in 1..(n + 1) : k \in 1..n \/ k = n + 1
      BY <3>1
    <3>7. \A k \in 1..n : k \in 1..(n + 1) /\ k # n + 1
      BY <3>1
    <3>8. n + 1 \in 1..(n + 1)
      BY <3>1
    <3>9. \A v \in VersionIds : IsNext(v, d) =>
            document_versions'[v].version_number \in 1..(n + 1)
      BY <3>2, <3>3, <3>4, <3>7, <3>8
    <3>10. \A k \in 1..(n + 1) : \E v \in VersionIds :
             IsNext(v, d) /\ document_versions'[v].version_number = k
      <4> SUFFICES ASSUME NEW k \in 1..(n + 1)
                   PROVE  \E v \in VersionIds :
                            IsNext(v, d) /\ document_versions'[v].version_number = k
        OBVIOUS
      <4>1. CASE k \in 1..n
        BY <3>3, <3>4, <3>5, <4>1
      <4>2. CASE k = n + 1
        BY <3>2, <3>3, <4>2
      <4> QED
        BY <3>6, <4>1, <4>2
    <3>11. \A u, v \in VersionIds :
             (/\ IsNext(u, d) /\ IsNext(v, d)
              /\ document_versions'[u].version_number = document_versions'[v].version_number)
               => u = v
      BY <2>0, <3>2, <3>3, <3>4, <3>7
    <3> QED
      BY <3>1, <3>9, <3>10, <3>11
  <2> QED
    BY <2>1, <2>2
<1>12. CurrentVersionOwned'
  <2> SUFFICES ASSUME NEW d \in DocKeys, documents'[d] # None
               PROVE  IsNext(documents'[d].current_version_id, d)
    BY DEF CurrentVersionOwned, IsVersionOf, Committed
  <2>1. CASE d # x.doc
    <3>1. /\ IsVersionOf(documents[d].current_version_id, d)
          /\ documents[d].current_version_id \in VersionIds
      BY <1>5, <2>1 DEF IInv, TypeOK, CurrentVersionOwned, DocumentRow
    <3> QED
      BY <1>5, <1>6, <2>1, <3>1
  <2>2. CASE d = x.doc
    <3> PICK v : v = D.current_version_id
      OBVIOUS
    <3>1. v \in VersionIds
      BY <1>3 DEF DocumentRow
    <3>2. IsVersionOf(v, d) \/ (Adds(x) /\ v = x.vid)
      <4>1. CASE Adds(x)
        BY <1>3, <4>1
      <4>2. CASE ~Adds(x)
        <5>1. IsVersionOf(documents[x.doc].current_version_id, x.doc)
          BY <1>2, <4>2 DEF IInv, CurrentVersionOwned
        <5> QED
          BY <1>2, <1>3, <2>2, <4>2, <5>1 DEF Adds
      <4> QED
        BY <4>1, <4>2
    <3>3. IsNext(v, d)
      BY <1>6, <2>2, <3>1, <3>2
    <3> QED
      BY <1>5, <2>2, <3>3
  <2> QED
    BY <2>1, <2>2
<1>13. Exclusive'
  <2> SUFFICES ASSUME NEW t \in Sessions, NEW u \in Sessions, t # u,
                      sess'[t].pc = "flushed", sess'[u].pc = "flushed"
               PROVE  ~Conflict(sess'[t], sess'[u])
    <3>1. \A t, u \in Sessions :
            Conflict(sess[t], sess[u])' <=> Conflict(sess'[t], sess'[u])
      OBVIOUS
    <3> QED
      BY <3>1 DEF Exclusive
  <2>1. t # s /\ u # s
    BY <1>9 DEF Idle
  <2> QED
    BY <1>9, <2>1 DEF IInv, Exclusive
<1>14. ASSUME NEW t \in Sessions \ {s}
       PROVE  SessionInv(sess[t])'
  <2> PICK y : y = sess[t]
    OBVIOUS
  <2>1. /\ y \in Session /\ SessionInv(y) /\ sess'[t] = y
    BY <1>9 DEF IInv, TypeOK
  <2>2. LoadedVersionsOf(y)'
    BY <1>2, <1>6, <1>7, <2>1 DEF SessionInv, LoadedVersionsOf, Committed
  <2>3. y.docRow # None =>
          /\ y.doc \in DocKeys /\ y.docRow \in DocumentRow
          /\ documents[y.doc] \in DocumentRow
    <3>1. y.docRow # None => y.doc \in DocKeys
      BY <2>1 DEF SessionInv, ShapeOf, Session, LoadedDocumentOf, IInv, TypeOK
    <3> QED
      BY <2>1, <3>1 DEF SessionInv, LoadedDocumentOf, Session, IInv, TypeOK
  <2>4. LoadedDocumentOf(y)'
    <3> SUFFICES ASSUME y.docRow # None
                 PROVE  /\ documents'[y.doc] # None
                        /\ y.docRow.latest_version_number <=
                             documents'[y.doc].latest_version_number
                        /\ IsNext(y.docRow.current_version_id, y.doc)
      BY DEF LoadedDocumentOf, IsVersionOf, Committed
    <3>1. /\ documents[y.doc] # None
          /\ y.docRow.latest_version_number <= documents[y.doc].latest_version_number
          /\ IsVersionOf(y.docRow.current_version_id, y.doc)
          /\ y.docRow.current_version_id \in VersionIds
      BY <2>1, <2>3 DEF SessionInv, LoadedDocumentOf, DocumentRow
    <3>2. /\ documents'[y.doc] # None
          /\ documents[y.doc].latest_version_number <=
               documents'[y.doc].latest_version_number
      BY <1>3, <1>5, <2>3, <3>1 DEF DocumentRow
    <3>3. /\ documents[y.doc].latest_version_number \in Nat
          /\ documents'[y.doc].latest_version_number \in Nat
          /\ y.docRow.latest_version_number \in Nat
      BY <1>3, <1>5, <2>3 DEF DocumentRow
    <3> QED
      BY <1>6, <2>3, <3>1, <3>2, <3>3
  <2>5. LoadedNumberOf(y)'
    <3>1. y.op = "reindex" =>
            /\ y.docRow.current_version_id \in VersionIds
            /\ Committed(y.docRow.current_version_id)
      BY <2>1, <2>3 DEF SessionInv, ShapeOf, LoadedDocumentOf, IsVersionOf, DocumentRow
    <3> QED
      BY <1>7, <2>1, <3>1 DEF SessionInv, LoadedNumberOf
  <2>6. FreshOf(y)'
    <3> SUFFICES ASSUME Adds(y), y.pc = "flushed"
                 PROVE  /\ y.vid <= issued'
                        /\ document_versions'[y.vid] = None
                        /\ y.docRow = None => documents'[y.doc] = None
                        /\ y.docRow # None => y.docRow.latest_version_number =
                             documents'[y.doc].latest_version_number
      BY DEF FreshOf, Adds
    <3>1. /\ y.vid <= issued /\ document_versions[y.vid] = None
          /\ y.docRow = None => documents[y.doc] = None
          /\ y.docRow # None => y.docRow.latest_version_number =
                                documents[y.doc].latest_version_number
          /\ y.vid \in VersionIds /\ y.doc \in DocKeys
      BY <2>1 DEF SessionInv, FreshOf, ShapeOf, Adds
    <3>2. documents'[y.doc] = documents[y.doc]
      BY <1>1, <1>5, <2>1, <3>1, LockedDocumentKept
    <3>3. ~(Adds(x) /\ x.vid = y.vid)
      <4> SUFFICES ASSUME Adds(x), x.vid = y.vid PROVE FALSE
        OBVIOUS
      <4>1. /\ NewVersion(x, x.vid) # x.verRows[x.vid]
            /\ NewVersion(y, x.vid) # y.verRows[x.vid]
        <5>1. x.verRows[x.vid] = None /\ y.verRows[x.vid] = None
          BY <1>1, <2>1, FlushedFact
        <5>2. NewVersion(x, x.vid) # None /\ NewVersion(y, x.vid) # None
          BY <1>1, <2>1, AddedVersion
        <5> QED
          BY <5>1, <5>2
      <4>2. LocksVersion(x, x.vid) /\ LocksVersion(y, x.vid)
        BY <4>1 DEF LocksVersion, Adds
      <4> QED
        BY <1>1, <1>2, <2>1, <4>2 DEF IInv, Exclusive, Conflict
    <3> QED
      BY <1>1, <1>6, <3>1, <3>2, <3>3 DEF Committed
  <2> QED
    BY <2>1, <2>2, <2>4, <2>5, <2>6 DEF SessionInv, ShapeOf
<1>15. \A t \in Sessions : SessionInv(sess[t])'
  <2>1. SessionInv(sess[s])'
    BY <1>9, IdleInv DEF SessionInv, ShapeOf, LoadedVersionsOf, LoadedDocumentOf,
       LoadedNumberOf, FreshOf
  <2> QED
    BY <1>14, <2>1
<1> QED
  BY <1>8, <1>10, <1>11, <1>12, <1>13, <1>15 DEF IInv
-----------------------------------------------------------------------------
LEMMA InitInv == Init => IInv
<1> SUFFICES ASSUME Init PROVE IInv
  OBVIOUS
<1>1. TypeOK
  BY IdleInv, BoundsAssumption DEF Init, TypeOK, NoVersions, NoChunks, ChunkRows
<1>2. /\ \A d \in DocKeys : documents[d] = None
      /\ \A v \in VersionIds : ~Committed(v)
      /\ \A s \in Sessions : sess[s] = Idle
  BY DEF Init, NoVersions, Committed
<1>3. VersionNumbering /\ CurrentVersionOwned /\ IssuedFirst
  BY <1>2 DEF VersionNumbering, CurrentVersionOwned, IssuedFirst, IsVersionOf, Committed
<1>4. Exclusive
  BY <1>2 DEF Exclusive, Idle
<1> QED
  BY <1>1, <1>2, <1>3, <1>4, IdleInv DEF IInv

LEMMA NextInv == IInv /\ [Next]_vars => IInv'
<1> SUFFICES ASSUME IInv, [Next]_vars PROVE IInv'
  OBVIOUS
<1>1. ASSUME NEW s \in Sessions, Upload(s) PROVE IInv'
  BY <1>1, UploadReadStep, UploadListStep, UploadFlushStep DEF Upload
<1>2. ASSUME NEW s \in Sessions, Delete(s) PROVE IInv'
  BY <1>2, DeleteReadStep, DeleteListStep, DeleteChunksStep,
     DeleteFlushStep DEF Delete
<1>3. ASSUME NEW s \in Sessions, Reindex(s) PROVE IInv'
  BY <1>3, ReindexReadStep, ReindexLoadStep DEF Reindex
<1>4. ASSUME NEW s \in Sessions, Work(s) PROVE IInv'
  BY <1>4, WorkerPopStep, WorkerLoadVersionStep, WorkerLoadDocumentStep, ReleaseStep
     DEF Work, WorkerDiscard
<1>5. ASSUME NEW s \in Sessions, Fail(s) PROVE IInv'
  BY <1>5, ReleaseStep DEF Fail
<1>6. CASE CacheExpire
  <2>1. /\ UNCHANGED <<documents, document_versions, document_chunks, queue, sess,
                       issued, clock>>
        /\ cache' \in (SUBSET VersionIds) \cup {None}
    BY <1>6 DEF CacheExpire, rows
  <2> QED
    BY <2>1 DEF IInv, TypeOK, VersionNumbering, CurrentVersionOwned, IssuedFirst, Exclusive,
       SessionInv, ShapeOf, LoadedVersionsOf, LoadedDocumentOf, LoadedNumberOf, FreshOf,
       IsVersionOf, Committed
<1>7. CASE UNCHANGED vars
  BY <1>7 DEF vars, IInv, TypeOK, VersionNumbering, CurrentVersionOwned, IssuedFirst,
     Exclusive, SessionInv, ShapeOf, LoadedVersionsOf, LoadedDocumentOf, LoadedNumberOf,
     FreshOf, IsVersionOf, Committed
<1> QED
  BY <1>1, <1>2, <1>3, <1>4, <1>5, <1>6, <1>7, ProcessFlushStep, CommitStep, SearchStep
     DEF Next, Step

\* Every reachable state has the types of TypeOK.
THEOREM TypeCorrect == Spec => []TypeOK
<1>1. IInv => TypeOK
  BY DEF IInv
<1> QED
  BY <1>1, InitInv, NextInv, PTL DEF Spec

\* Version numbers of a document stay contiguous and unique, whatever uploads,
\* indexings, deletions and failures overlap (upload_document,
\* _process_version).
THEOREM NumberingCorrect == Spec => []VersionNumbering
<1>1. IInv => VersionNumbering
  BY DEF IInv
<1> QED
  BY <1>1, InitInv, NextInv, PTL DEF Spec

\* current_version_id always leads to a committed version of its document.
THEOREM CurrentCorrect == Spec => []CurrentVersionOwned
<1>1. IInv => CurrentVersionOwned
  BY DEF IInv
<1> QED
  BY <1>1, InitInv, NextInv, PTL DEF Spec

-----------------------------------------------------------------------------
(* The log of versions. *)

\* An indexing that has been flushed has drawn a time.
AtInv ==
  \A s \in Sessions :
    (sess[s].pc = "flushed" /\ sess[s].op \in {"reindex", "index"}) => sess[s].at # 0

LInv == IInv /\ AtInv

logged == <<[d \in DocKeys |-> Latest(d)], {Numbered(v) : v \in IndexedVersions},
            {Numbered(v) : v \in DeletedVersions}>>
-----------------------------------------------------------------------------
\* A step that replaces what one session holds by something that is no indexing
\* about to be committed, or by one that has its time.
LEMMA AtLocal ==
  ASSUME LInv, NEW s \in Sessions, NEW y, sess' = [sess EXCEPT ![s] = y],
         (y.pc = "flushed" /\ y.op \in {"reindex", "index"}) => y.at # 0
  PROVE  AtInv'
<1>1. sess'[s] = y /\ \A t \in Sessions \ {s} : sess'[t] = sess[t]
  BY DEF LInv, IInv, TypeOK
<1> QED BY <1>1 DEF LInv, AtInv

LEMMA AtNext == LInv /\ [Next]_vars => AtInv'
<1> SUFFICES ASSUME LInv, [Next]_vars PROVE AtInv'
  OBVIOUS
<1>0. \A s \in Sessions : sess[s] \in Session
  BY DEF LInv, IInv, TypeOK
<1>1. CASE UNCHANGED sess
  BY <1>1 DEF LInv, AtInv
<1>2. ASSUME NEW s \in Sessions, Step(s) \/ Fail(s) PROVE AtInv'
  <2> DEFINE Late(y) == (y.pc = "flushed" /\ y.op \in {"reindex", "index"}) => y.at # 0
  <2> SUFFICES \E y : sess' = [sess EXCEPT ![s] = y] /\ Late(y)
    BY AtLocal
  <2>1. CASE Fail(s) \/ Commit(s) \/ WorkerDiscard(s) \/ SearchStore(s)
    <3>1. sess' = [sess EXCEPT ![s] = Idle] /\ Late(Idle)
      BY <2>1 DEF Fail, Commit, WorkerDiscard, SearchStore, Idle
    <3> QED BY <3>1
  <2>2. CASE Upload(s)
    <3>1. ASSUME NEW d \in DocKeys, NEW c \in Contents, NEW op \in {"upload", "inline"},
                 UploadRead(s, d, c, op)
          PROVE  \E y : sess' = [sess EXCEPT ![s] = y] /\ Late(y)
      <4> DEFINE y == [Idle EXCEPT !.op = op, !.pc = "first",
                         !.doc = d, !.content = c, !.docRow = documents[d]]
      <4>1. sess' = [sess EXCEPT ![s] = y] /\ Late(y)
        BY <3>1 DEF UploadRead, Idle
      <4> QED BY <4>1
    <3>2. CASE UploadList(s)
      <4> DEFINE y == [sess[s] EXCEPT !.pc = "loaded",
                         !.verRows = IF sess[s].docRow = None THEN NoVersions
                                     ELSE VersionsOf(sess[s].doc)]
      <4>1. sess' = [sess EXCEPT ![s] = y] /\ Late(y)
        BY <1>0, <3>2 DEF UploadList, Session
      <4> QED BY <4>1
    <3>3. CASE UploadFlush(s)
      <4> DEFINE y == [sess[s] EXCEPT !.pc = "flushed", !.vid = issued + 1,
                         !.at = IF sess[s].op = "inline" THEN clock + 1 ELSE 0]
      <4>1. sess' = [sess EXCEPT ![s] = y] /\ Late(y)
        BY <1>0, <3>3 DEF UploadFlush, Session
      <4> QED BY <4>1
    <3> QED BY <2>2, <3>1, <3>2, <3>3 DEF Upload
  <2>3. CASE Delete(s)
    <3>1. ASSUME NEW d \in DocKeys, DeleteRead(s, d)
          PROVE  \E y : sess' = [sess EXCEPT ![s] = y] /\ Late(y)
      <4> DEFINE y == [Idle EXCEPT !.op = "delete", !.pc = "first",
                         !.doc = d, !.docRow = documents[d]]
      <4>1. sess' = [sess EXCEPT ![s] = y] /\ Late(y)
        BY <3>1 DEF DeleteRead, Idle
      <4> QED BY <4>1
    <3>2. CASE DeleteList(s)
      <4> DEFINE y == [sess[s] EXCEPT !.pc = "listed", !.verRows = VersionsOf(sess[s].doc)]
      <4>1. sess' = [sess EXCEPT ![s] = y] /\ Late(y)
        BY <1>0, <3>2 DEF DeleteList, Session
      <4> QED BY <4>1
    <3>3. CASE DeleteChunks(s)
      <4> DEFINE y == [sess[s] EXCEPT !.pc = "loaded",
                         !.chunkAt = [v \in VersionIds |-> IF IsVersionOf(v, sess[s].doc)
                                                          THEN document_chunks[v].at ELSE 0]]
      <4>1. sess' = [sess EXCEPT ![s] = y] /\ Late(y)
        BY <1>0, <3>3 DEF DeleteChunks, Session
      <4> QED BY <4>1
    <3>4. CASE DeleteFlush(s)
      <4> DEFINE y == [sess[s] EXCEPT !.pc = "flushed"]
      <4>1. sess' = [sess EXCEPT ![s] = y] /\ Late(y)
        BY <1>0, <3>4 DEF DeleteFlush, Session
      <4> QED BY <4>1
    <3> QED BY <2>3, <3>1, <3>2, <3>3, <3>4 DEF Delete
  <2>4. CASE Reindex(s)
    <3>1. ASSUME NEW d \in DocKeys, ReindexRead(s, d)
          PROVE  \E y : sess' = [sess EXCEPT ![s] = y] /\ Late(y)
      <4> DEFINE y == [Idle EXCEPT !.op = "reindex", !.pc = "first",
                         !.doc = d, !.docRow = documents[d]]
      <4>1. sess' = [sess EXCEPT ![s] = y] /\ Late(y)
        BY <3>1 DEF ReindexRead, Idle
      <4> QED BY <4>1
    <3>2. CASE ReindexLoad(s)
      <4> DEFINE v == sess[s].docRow.current_version_id
                 y == [sess[s] EXCEPT !.pc = "loaded", !.vid = v,
                         !.verRows = [NoVersions EXCEPT ![v] = document_versions[v]]]
      <4>1. sess' = [sess EXCEPT ![s] = y] /\ Late(y)
        BY <1>0, <3>2 DEF ReindexLoad, Session
      <4> QED BY <4>1
    <3> QED BY <2>4, <3>1, <3>2 DEF Reindex
  <2>5. CASE WorkerPop(s)
    <3> DEFINE y == [Idle EXCEPT !.op = "index", !.pc = "popped", !.vid = Head(queue)]
    <3>1. sess' = [sess EXCEPT ![s] = y] /\ Late(y)
      BY <2>5 DEF WorkerPop, Idle
    <3> QED BY <3>1
  <2>6. CASE WorkerLoadVersion(s)
    <3> DEFINE v == sess[s].vid
               y == [sess[s] EXCEPT !.pc = "first",
                       !.doc = document_versions[v].document,
                       !.verRows = [NoVersions EXCEPT ![v] = document_versions[v]]]
    <3>1. sess' = [sess EXCEPT ![s] = y] /\ Late(y)
      BY <1>0, <2>6, ZenonT(60) DEF WorkerLoadVersion, Session
    <3> QED BY <3>1
  <2>7. CASE WorkerLoadDocument(s)
    <3> DEFINE y == [sess[s] EXCEPT !.pc = "loaded", !.docRow = documents[sess[s].doc]]
    <3>1. sess' = [sess EXCEPT ![s] = y] /\ Late(y)
      BY <1>0, <2>7 DEF WorkerLoadDocument, Session
    <3> QED BY <3>1
  <2>8. CASE ProcessFlush(s)
    <3> DEFINE y == [sess[s] EXCEPT !.pc = "flushed", !.at = clock + 1]
    <3>1. clock \in Nat
      BY DEF LInv, IInv, TypeOK
    <3>2. sess' = [sess EXCEPT ![s] = y] /\ Late(y)
      BY <1>0, <2>8, <3>1 DEF ProcessFlush, Session
    <3> QED BY <3>2
  <2>9. CASE SearchRead(s)
    <3> DEFINE y == [Idle EXCEPT !.op = "search", !.pc = "loaded", !.result = Visible]
    <3>1. sess' = [sess EXCEPT ![s] = y] /\ Late(y)
      BY <2>9 DEF SearchRead, Idle
    <3> QED BY <3>1
  <2> QED
    BY <1>2, <2>1, <2>2, <2>3, <2>4, <2>5, <2>6, <2>7, <2>8, <2>9 DEF Step, Work, Search
<1> QED
  BY <1>1, <1>2 DEF Next, CacheExpire, vars, rows
-----------------------------------------------------------------------------
\* What a commit does to the flags of a version that was there before.
LEMMA CommitFlags ==
  ASSUME LInv, NEW s \in Sessions, NEW x, x = sess[s], x.pc = "flushed",
         NEW v \in VersionIds, Committed(v),
         NEW r, r = Written(document_versions[v], None, x.verRows[v], NewVersion(x, v))
  PROVE  LET row == document_versions[v]
         IN /\ Adds(x) => r.deleted = row.deleted /\ r.indexed_at = row.indexed_at
            /\ x.op = "delete" => /\ r.indexed_at = row.indexed_at
                                  /\ row.deleted => r.deleted
                                  /\ r.deleted # row.deleted => row.document = x.doc
            /\ x.op \in {"reindex", "index"} =>
                 /\ r.deleted = row.deleted
                 /\ r.indexed_at # row.indexed_at => v = x.vid /\ r.indexed_at # 0
<1> DEFINE new == NewVersion(x, v)
           row == document_versions[v]
           loaded == x.verRows[v]
<1>0. IInv
  BY DEF LInv
<1>1. /\ x \in Session /\ SessionInv(x)
      /\ x.op \in {"upload", "inline", "delete", "reindex", "index"}
  BY <1>0, FlushedFact
<1>2. row \in VersionRow /\ loaded \in VersionRow \cup {None}
  BY <1>0, <1>1 DEF IInv, TypeOK, Session, Committed
<1>3. loaded # None => row.document = x.doc
  BY <1>1 DEF SessionInv, LoadedVersionsOf
<1>4. Adds(x) => v # x.vid
  BY <1>0, <1>1 DEF SessionInv, FreshOf, Adds, Committed
<1>5. CASE loaded = None
  <2>1. new = None
    <3>1. x.op \in {"reindex", "index"} => x.vid \in VersionIds /\ x.verRows[x.vid] # None
      BY <1>0, FlushedFact
    <3> QED BY <1>1, <1>4, <1>5, <3>1 DEF NewVersion, UploadedVersion, DeletedVersion,
               IndexedVersion, Adds
  <2> QED BY <2>1, <1>5 DEF Written
<1>6. CASE loaded # None
  <2>1. ASSUME new \in VersionRow
        PROVE  /\ r.deleted = IF new.deleted = loaded.deleted THEN row.deleted ELSE new.deleted
               /\ r.indexed_at = IF new.indexed_at = loaded.indexed_at THEN row.indexed_at
                                 ELSE new.indexed_at
    <3>1. r = [f \in DOMAIN row |-> IF new[f] = loaded[f] THEN row[f] ELSE new[f]]
      BY <1>6, <2>1, NoneAssumption DEF Written
    <3>2. DOMAIN row = {"document", "version_number", "is_current", "deleted", "indexed_at"}
      BY <1>2 DEF VersionRow
    <3> QED BY <3>1, <3>2
  <2>2. CASE Adds(x)
    <3>1. new = [loaded EXCEPT !.is_current = FALSE]
      BY <1>4, <1>6, <2>2 DEF NewVersion, UploadedVersion, Adds
    <3>2. new \in VersionRow /\ new.deleted = loaded.deleted
            /\ new.indexed_at = loaded.indexed_at
      BY <1>2, <1>6, <3>1 DEF VersionRow
    <3> QED BY <2>1, <2>2, <3>2 DEF Adds
  <2>3. CASE x.op = "delete"
    <3>1. new = [loaded EXCEPT !.deleted = TRUE, !.is_current = FALSE]
      BY <1>6, <2>3 DEF NewVersion, DeletedVersion
    <3>2. new \in VersionRow /\ new.deleted /\ new.deleted = TRUE
            /\ new.indexed_at = loaded.indexed_at
      BY <1>2, <1>6, <3>1 DEF VersionRow
    <3> QED BY <1>3, <1>6, <2>1, <2>3, <3>2 DEF Adds
  <2>4. CASE x.op \in {"reindex", "index"}
    <3>1. x.at # 0 /\ x.at \in Nat
      BY <1>1, <2>4 DEF LInv, AtInv, Session
    <3>2. CASE v = x.vid
      <4>1. new = [loaded EXCEPT !.is_current = TRUE, !.indexed_at = x.at]
        BY <2>4, <3>2 DEF NewVersion, IndexedVersion
      <4>2. new \in VersionRow /\ new.deleted = loaded.deleted /\ new.indexed_at = x.at
        BY <1>2, <1>6, <3>1, <4>1 DEF VersionRow
      <4> QED BY <2>1, <2>4, <3>1, <3>2, <4>2 DEF Adds
    <3>3. CASE v # x.vid
      <4>1. new = loaded
        BY <2>4, <3>3 DEF NewVersion, IndexedVersion
      <4> QED BY <1>2, <1>6, <2>1, <2>4, <4>1 DEF Adds
    <3> QED BY <3>2, <3>3
  <2> QED BY <1>1, <2>2, <2>3, <2>4 DEF Adds
<1> QED BY <1>5, <1>6

\* A commit is one step of the log, or none.
LEMMA CommitImplements ==
  ASSUME LInv, NEW s \in Sessions, Commit(s)
  PROVE  Log!Next \/ UNCHANGED logged
<1> PICK x : x = sess[s]
  OBVIOUS
<1> DEFINE N(v) == document_versions'[v]
           L == [d \in DocKeys |-> Latest(d)]
           I == {Numbered(v) : v \in IndexedVersions}
           D == {Numbered(v) : v \in DeletedVersions}
<1>0. IInv
  BY DEF LInv
<1>1. /\ x.pc = "flushed"
      /\ documents' = [documents EXCEPT
           ![x.doc] = Written(documents[x.doc], None, x.docRow, NewDocument(x))]
      /\ \A v \in VersionIds :
           N(v) = Written(document_versions[v], None, x.verRows[v], NewVersion(x, v))
  BY DEF Commit
<1>2. /\ x \in Session /\ SessionInv(x) /\ x.doc \in DocKeys
      /\ x.op \in {"upload", "inline", "delete", "reindex", "index"}
      /\ ~Adds(x) => documents[x.doc] # None
      /\ Adds(x) => x.vid \in VersionIds
      /\ x.op \in {"reindex", "index"} => x.vid \in VersionIds /\ IsVersionOf(x.vid, x.doc)
  BY <1>0, <1>1, FlushedFact
<1>3. \A v \in VersionIds :
        /\ Committed(v) => /\ N(v) # None
                           /\ N(v).document = document_versions[v].document
                           /\ N(v).version_number = document_versions[v].version_number
        /\ (~Committed(v) /\ N(v) # None) => Adds(x) /\ v = x.vid
        /\ (Adds(x) /\ v = x.vid) =>
             /\ ~Committed(v) /\ N(v) # None /\ N(v).document = x.doc
             /\ N(v).version_number = IF documents[x.doc] = None THEN 1
                                      ELSE documents[x.doc].latest_version_number + 1
  BY <1>0, <1>1, CommitVersion
<1>4. \A v \in VersionIds : Committed(v) =>
        /\ Adds(x) => /\ N(v).deleted = document_versions[v].deleted
                      /\ N(v).indexed_at = document_versions[v].indexed_at
        /\ x.op = "delete" =>
             /\ N(v).indexed_at = document_versions[v].indexed_at
             /\ document_versions[v].deleted => N(v).deleted
             /\ N(v).deleted # document_versions[v].deleted =>
                  document_versions[v].document = x.doc
        /\ x.op \in {"reindex", "index"} =>
             /\ N(v).deleted = document_versions[v].deleted
             /\ N(v).indexed_at # document_versions[v].indexed_at =>
                  v = x.vid /\ N(v).indexed_at # 0
  BY <1>1, CommitFlags
\* The numbers of the documents.
<1>5. /\ Adds(x) => L' = [L EXCEPT ![x.doc] = @ + 1]
      /\ ~Adds(x) => L' = L
  <2> PICK row : row = Written(documents[x.doc], None, x.docRow, NewDocument(x))
    OBVIOUS
  <2>1. /\ row \in DocumentRow
        /\ Adds(x) => row.latest_version_number =
             IF documents[x.doc] = None THEN 1 ELSE documents[x.doc].latest_version_number + 1
        /\ ~Adds(x) => row.latest_version_number = documents[x.doc].latest_version_number
    BY <1>0, <1>1, CommitDocument
  <2>2. /\ documents'[x.doc] = row /\ row # None
        /\ \A d \in DocKeys \ {x.doc} : documents'[d] = documents[d]
    BY <1>0, <1>1, <1>2, <2>1, NoneAssumption DEF IInv, TypeOK
  <2>3. \A d \in DocKeys :
          Latest(d)' = IF documents'[d] = None THEN 0 ELSE documents'[d].latest_version_number
    BY DEF Latest
  <2>4. Latest(x.doc)' = IF Adds(x) THEN Latest(x.doc) + 1 ELSE Latest(x.doc)
    BY <1>2, <2>1, <2>2, <2>3 DEF Latest
  <2>5. \A d \in DocKeys \ {x.doc} : Latest(d)' = Latest(d)
    BY <2>2, <2>3 DEF Latest
  <2> QED BY <1>2, <2>4, <2>5
\* The names and flags of the versions.
<1>6. \A v \in VersionIds : Committed(v) => Numbered(v)' = Numbered(v)
  BY <1>3 DEF Numbered
<1>7. /\ IndexedVersions' = {v \in VersionIds : N(v) # None /\ N(v).indexed_at # 0}
      /\ DeletedVersions' = {v \in VersionIds : N(v) # None /\ N(v).deleted}
  BY DEF IndexedVersions, DeletedVersions, Committed, VersionIds
<1>8. I' = {Numbered(v)' : v \in IndexedVersions'} /\ D' = {Numbered(v)' : v \in DeletedVersions'}
  OBVIOUS
<1>9. CASE Adds(x)
  <2>1. Numbered(x.vid)' = <<x.doc, L[x.doc] + 1>>
    BY <1>2, <1>3, <1>9 DEF Numbered, Latest
  <2>2. DeletedVersions' = DeletedVersions
    <3>1. ~N(x.vid).deleted
      <4>1. document_versions[x.vid] = None /\ x.verRows[x.vid] = None
        BY <1>0, <1>1, <1>2, <1>3, <1>9, FlushedFact DEF Committed
      <4>2. N(x.vid) = NewVersion(x, x.vid)
        BY <1>1, <1>2, <1>3, <1>9, <4>1 DEF Written
      <4> QED BY <1>9, <4>2 DEF NewVersion, UploadedVersion, Adds
    <3> QED BY <1>3, <1>4, <1>7, <1>9, <3>1 DEF DeletedVersions
  <2>3. IndexedVersions' \in {IndexedVersions, IndexedVersions \cup {x.vid}}
    <3>1. \A v \in VersionIds \ {x.vid} : v \in IndexedVersions' <=> v \in IndexedVersions
      BY <1>3, <1>4, <1>7, <1>9 DEF IndexedVersions
    <3>2. x.vid \notin IndexedVersions
      BY <1>2, <1>3, <1>9 DEF IndexedVersions
    <3>3. IndexedVersions \subseteq VersionIds /\ IndexedVersions' \subseteq VersionIds
      BY <1>7 DEF IndexedVersions
    <3> QED BY <3>1, <3>2, <3>3
  <2>4. \A v \in IndexedVersions \cup DeletedVersions : Numbered(v)' = Numbered(v)
    BY <1>6 DEF IndexedVersions, DeletedVersions
  <2>5. D' = D
    BY <1>8, <2>2, <2>4
  <2>6. I' \in {I, I \cup {<<x.doc, L[x.doc] + 1>>}}
    BY <1>8, <2>1, <2>3, <2>4
  <2> QED BY <1>2, <1>5, <1>9, <2>5, <2>6 DEF Log!Next, Log!Upload
\* The names of the committed versions of this document are in its log.
<1>10. ASSUME NEW v \in VersionIds, IsVersionOf(v, x.doc)
       PROVE  /\ Numbered(v) = <<x.doc, document_versions[v].version_number>>
              /\ document_versions[v].version_number \in 1..L[x.doc]
  <2>1. L[x.doc] = Latest(x.doc)
    BY <1>2
  <2> QED BY <1>0, <1>2, <1>10, <2>1 DEF IInv, VersionNumbering, IsVersionOf, Numbered, Latest
<1>11. CASE x.op = "delete"
  <2> DEFINE numbers == {document_versions[v].version_number :
                           v \in {u \in DeletedVersions' : u \notin DeletedVersions}}
  <2>1. ~Adds(x)
    BY <1>11 DEF Adds
  <2>2. IndexedVersions' = IndexedVersions
    BY <1>3, <1>4, <1>7, <1>11, <2>1 DEF IndexedVersions
  <2>3. DeletedVersions \subseteq DeletedVersions'
    BY <1>3, <1>4, <1>7, <1>11 DEF DeletedVersions
  <2>4. \A v \in DeletedVersions' : v \notin DeletedVersions =>
          v \in VersionIds /\ IsVersionOf(v, x.doc)
    BY <1>3, <1>4, <1>7, <1>11, <2>1 DEF DeletedVersions, IsVersionOf
  <2>5. \A v \in IndexedVersions \cup DeletedVersions' : Numbered(v)' = Numbered(v)
    BY <1>3, <1>6, <1>7, <2>1 DEF IndexedVersions
  <2>6. numbers \subseteq 1..L[x.doc]
    BY <1>10, <2>4
  <2>7. D' = D \cup ({x.doc} \X numbers)
    <3>1. D' = {Numbered(v) : v \in DeletedVersions'}
      BY <1>8, <2>5
    <3>2. \A v \in {u \in DeletedVersions' : u \notin DeletedVersions} :
            Numbered(v) = <<x.doc, document_versions[v].version_number>>
      BY <1>10, <2>4
    <3>3. {x.doc} \X numbers = {Numbered(v) : v \in {u \in DeletedVersions' :
                                                        u \notin DeletedVersions}}
      BY <3>2
    <3> QED BY <2>3, <3>1, <3>3
  <2>8. I' = I
    BY <1>8, <2>2, <2>5
  <2>9. numbers \in SUBSET (1..L[x.doc])
    BY <2>6
  <2> HIDE DEF numbers
  <2> QED BY <1>2, <1>5, <2>1, <2>7, <2>8, <2>9 DEF Log!Next, Log!Delete
<1>12. CASE x.op \in {"reindex", "index"}
  <2>1. ~Adds(x)
    BY <1>12 DEF Adds
  <2>2. DeletedVersions' = DeletedVersions
    BY <1>3, <1>4, <1>7, <1>12, <2>1 DEF DeletedVersions
  <2>3. IndexedVersions' = IndexedVersions \/ IndexedVersions' = IndexedVersions \cup {x.vid}
    <3>1. \A v \in VersionIds \ {x.vid} : v \in IndexedVersions' <=> v \in IndexedVersions
      BY <1>3, <1>4, <1>7, <1>12, <2>1 DEF IndexedVersions
    <3>2. x.vid \in IndexedVersions => x.vid \in IndexedVersions'
      BY <1>2, <1>3, <1>4, <1>7, <1>12 DEF IndexedVersions
    <3>3. IndexedVersions \subseteq VersionIds /\ IndexedVersions' \subseteq VersionIds
      BY <1>7 DEF IndexedVersions
    <3> QED BY <3>1, <3>2, <3>3
  <2>4. /\ \A v \in IndexedVersions \cup DeletedVersions : Numbered(v)' = Numbered(v)
        /\ Numbered(x.vid)' = Numbered(x.vid)
    BY <1>2, <1>6, <1>12 DEF IndexedVersions, DeletedVersions, IsVersionOf
  <2>5. D' = D
    BY <1>8, <2>2, <2>4
  <2>6. I' = I \/ I' = I \cup {Numbered(x.vid)}
    BY <1>8, <2>3, <2>4
  <2>7. /\ Numbered(x.vid) = <<x.doc, document_versions[x.vid].version_number>>
        /\ document_versions[x.vid].version_number \in 1..L[x.doc]
    BY <1>2, <1>10, <1>12
  <2>8. L' = L
    BY <1>5, <2>1
  <2>9. CASE I' = I
    BY <2>5, <2>8, <2>9 DEF logged
  <2>10. CASE I' = I \cup {Numbered(x.vid)}
    BY <1>2, <2>5, <2>7, <2>8, <2>10 DEF Log!Next, Log!Index
  <2> QED BY <2>6, <2>9, <2>10
<1> QED BY <1>2, <1>9, <1>11, <1>12 DEF Adds

\* A step that leaves the rows alone leaves the log alone.
LEMMA RowsLog == UNCHANGED rows => UNCHANGED logged
BY DEF rows, logged, Latest, Numbered, IndexedVersions, DeletedVersions, Committed

LEMMA StepImplements == LInv /\ [Next]_vars => Log!Next \/ UNCHANGED logged
<1> SUFFICES ASSUME LInv, [Next]_vars PROVE Log!Next \/ UNCHANGED logged
  OBVIOUS
<1>1. ASSUME NEW s \in Sessions, Upload(s) PROVE UNCHANGED rows
  BY <1>1 DEF Upload, UploadRead, UploadList, UploadFlush
<1>2. ASSUME NEW s \in Sessions, Delete(s) PROVE UNCHANGED rows
  BY <1>2 DEF Delete, DeleteRead, DeleteList, DeleteChunks, DeleteFlush
<1>3. ASSUME NEW s \in Sessions, Reindex(s) \/ ProcessFlush(s) PROVE UNCHANGED rows
  BY <1>3 DEF Reindex, ReindexRead, ReindexLoad, ProcessFlush
<1>4. ASSUME NEW s \in Sessions, Work(s) PROVE UNCHANGED rows
  BY <1>4 DEF Work, WorkerPop, WorkerDiscard, WorkerLoadVersion, WorkerLoadDocument
<1>5. ASSUME NEW s \in Sessions, Search(s) \/ Fail(s) PROVE UNCHANGED rows
  BY <1>5 DEF Search, SearchRead, SearchStore, Fail
<1>6. CASE CacheExpire \/ UNCHANGED vars
  <2>1. UNCHANGED rows
    BY <1>6 DEF CacheExpire, vars, rows
  <2> QED BY <2>1, RowsLog
<1> QED
  BY <1>1, <1>2, <1>3, <1>4, <1>5, <1>6, CommitImplements, RowsLog DEF Next, Step

LEMMA InitImplements == Init => Log!Init
<1> SUFFICES ASSUME Init PROVE Log!Init
  OBVIOUS
<1>1. /\ \A d \in DocKeys : Latest(d) = 0
      /\ \A v \in VersionIds : ~Committed(v)
  BY DEF Init, Latest, NoVersions, Committed
<1>2. IndexedVersions = {} /\ DeletedVersions = {}
  BY <1>1 DEF IndexedVersions, DeletedVersions
<1> QED BY <1>1, <1>2 DEF Log!Init

LEMMA SpecLInv == Spec => []LInv
<1>1. Init => LInv
  <2>1. Init => AtInv
    BY DEF Init, AtInv, Idle
  <2> QED BY <2>1, InitInv DEF LInv
<1>2. LInv /\ [Next]_vars => LInv'
  BY AtNext, NextInv DEF LInv
<1> QED BY <1>1, <1>2, PTL DEF Spec

\* The knowledge engine implements the log of versions: the transactions of
\* upload_document, delete_document and _process_version, which overlap and write
\* back what they read, act as if one followed the other.
THEOREM LogImplemented == Spec => ImplementsLog
<1>1. LInv /\ [Next]_vars => [Log!Next]_logged
  BY StepImplements
<1> QED BY <1>1, InitImplements, SpecLInv, PTL DEF Spec, ImplementsLog, Log!Spec, logged

-----------------------------------------------------------------------------
(* Indexings, searches and deletions of the past. *)

\* What a session has drawn and found by the time now, next to what IInv says of it:
\* times of the past, chunk rows of its own document, search results that were indexed.
HistoryOf(s, x, now) ==
  /\ x.op = "delete" => s \in Handlers
  /\ x.at <= now
  /\ \A v \in VersionIds : x.verRows[v] # None => x.verRows[v].indexed_at <= now
  /\ x.op = "delete" => \A v \in VersionIds : x.chunkAt[v] # 0 => IsVersionOf(v, x.doc)
  /\ x.result \subseteq IndexedVersions

\* A flushed indexing has a later time than the row it loaded, so that its UPDATE
\* does write indexed_at; a flushed upload that leaves the indexing to a worker
\* has none.
FlushedOf(x) ==
  x.pc = "flushed" =>
    /\ x.op = "upload" => x.at = 0
    /\ x.op \in {"reindex", "index"} => x.verRows[x.vid].indexed_at < x.at

ClockInv ==
  \A v \in VersionIds : Committed(v) => document_versions[v].indexed_at <= clock

CacheInv == cache # None => cache \subseteq IndexedVersions

Past == /\ ClockInv
        /\ CacheInv
        /\ ChunksOfLastIndexing
        /\ \A s \in Sessions : HistoryOf(s, sess[s], clock) /\ FlushedOf(sess[s])

PInv == LInv /\ Past
-----------------------------------------------------------------------------
(* The steps that leave the rows alone. *)

LEMMA RowsKept ==
  ASSUME UNCHANGED rows
  PROVE  /\ IndexedVersions' = IndexedVersions
         /\ Visible' = Visible
         /\ \A v \in VersionIds : /\ Committed(v)' <=> Committed(v)
                                  /\ document_versions'[v] = document_versions[v]
                                  /\ document_chunks'[v] = document_chunks[v]
         /\ \A v \in VersionIds : \A d : IsVersionOf(v, d)' <=> IsVersionOf(v, d)
BY DEF rows, IndexedVersions, Visible, Committed, IsVersionOf

\* What a session found stays true as time passes.
LEMMA HistoryLasts ==
  ASSUME NEW s, NEW x \in Session, NEW now \in Nat, NEW later \in Nat, now <= later,
         HistoryOf(s, x, now)
  PROVE  HistoryOf(s, x, later)
<1>1. x.at \in Nat /\ \A v \in VersionIds : x.verRows[v] # None => x.verRows[v].indexed_at \in Nat
  BY DEF Session, VersionRow
<1> QED BY <1>1 DEF HistoryOf

LEMMA PastLocal ==
  ASSUME PInv, NEW s \in Sessions, NEW y \in Session, UNCHANGED rows,
         sess' = [sess EXCEPT ![s] = y], clock' \in Nat, clock <= clock',
         cache' # None => cache' = cache \/ cache' \subseteq IndexedVersions,
         HistoryOf(s, y, clock'), FlushedOf(y)
  PROVE  Past'
<1>1. sess'[s] = y /\ \A t \in Sessions \ {s} : sess'[t] = sess[t]
  BY DEF PInv, LInv, IInv, TypeOK
<1>2. clock \in Nat /\ \A t \in Sessions : sess[t] \in Session
  BY DEF PInv, LInv, IInv, TypeOK
<1>3. ClockInv'
  <2> SUFFICES ASSUME NEW v \in VersionIds, Committed(v)'
               PROVE  document_versions'[v].indexed_at <= clock'
    BY DEF ClockInv, VersionIds
  <2>1. Committed(v) /\ document_versions'[v] = document_versions[v]
    BY RowsKept
  <2>2. document_versions[v].indexed_at <= clock /\ document_versions[v].indexed_at \in Nat
    BY <2>1 DEF PInv, Past, ClockInv, LInv, IInv, TypeOK, Committed, VersionRow
  <2> QED BY <1>2, <2>1, <2>2
<1>4. CacheInv'
  BY RowsKept DEF PInv, Past, CacheInv
<1>5. ChunksOfLastIndexing'
  BY RowsKept DEF PInv, Past, ChunksOfLastIndexing, VersionIds
<1>6. ASSUME NEW t \in Sessions
      PROVE  (HistoryOf(t, sess[t], clock) /\ FlushedOf(sess[t]))'
  <2>1. HistoryOf(t, sess'[t], clock') /\ FlushedOf(sess'[t])
    <3>1. CASE t = s
      BY <1>1, <3>1
    <3>2. CASE t # s
      BY <1>1, <1>2, <3>2, HistoryLasts DEF PInv, Past
    <3> QED BY <3>1, <3>2
  <2> QED BY <2>1, RowsKept DEF HistoryOf, FlushedOf, VersionIds
<1> QED BY <1>3, <1>4, <1>5, <1>6 DEF Past

\* A step that only replaces what one session holds.
LEMMA PastLoad ==
  ASSUME PInv, NEW s \in Sessions, NEW y \in Session,
         UNCHANGED <<rows, queue, cache, issued, clock>>,
         sess' = [sess EXCEPT ![s] = y], HistoryOf(s, y, clock), FlushedOf(y)
  PROVE  Past'
<1>1. clock' \in Nat /\ clock <= clock'
  BY DEF PInv, LInv, IInv, TypeOK
<1> QED BY <1>1, PastLocal

LEMMA IdlePast ==
  ASSUME PInv, NEW s
  PROVE  /\ Idle \in Session /\ HistoryOf(s, Idle, clock) /\ FlushedOf(Idle)
<1>1. clock \in Nat
  BY DEF PInv, LInv, IInv, TypeOK
<1> QED BY <1>1, IdleInv DEF HistoryOf, FlushedOf, Idle, NoVersions

\* A row as it is committed now has a time of the past.
LEMMA LoadedPast ==
  ASSUME PInv, NEW found,
         \A v \in VersionIds : found[v] # None => Committed(v) /\ found[v] = document_versions[v]
  PROVE  \A v \in VersionIds : found[v] # None => found[v].indexed_at <= clock
BY DEF PInv, Past, ClockInv

\* What is known of any session before its step.
LEMMA SessionPast ==
  ASSUME PInv, NEW s \in Sessions
  PROVE  /\ sess[s] \in Session /\ SessionInv(sess[s])
         /\ HistoryOf(s, sess[s], clock) /\ FlushedOf(sess[s])
         /\ clock \in Nat /\ issued \in Nat
BY DEF PInv, Past, LInv, IInv, TypeOK

\* An operation that begins has loaded a document row at most.
LEMMA BegunPast ==
  ASSUME PInv, NEW s, NEW y, y.op = "delete" => s \in Handlers, y.pc # "flushed",
         y.at = 0, y.verRows = NoVersions, y.chunkAt = [v \in VersionIds |-> 0],
         y.result \subseteq IndexedVersions
  PROVE  HistoryOf(s, y, clock) /\ FlushedOf(y)
<1>1. clock \in Nat
  BY DEF PInv, LInv, IInv, TypeOK
<1> QED BY <1>1 DEF HistoryOf, FlushedOf, NoVersions

LEMMA UploadReadPast ==
  ASSUME PInv, NEW s \in Sessions, NEW d \in DocKeys, NEW c \in Contents,
         NEW op \in {"upload", "inline"}, UploadRead(s, d, c, op)
  PROVE  Past'
<1> DEFINE y == [Idle EXCEPT !.op = op, !.pc = "first", !.doc = d, !.content = c,
                             !.docRow = documents[d]]
<1>1. documents[d] \in DocumentRow \cup {None}
  BY DEF PInv, LInv, IInv, TypeOK
<1>2. y \in Session
  BY <1>1, IdleInv DEF Session
<1>3. /\ y.op = op /\ y.pc = "first" /\ y.at = 0 /\ y.verRows = NoVersions
      /\ y.chunkAt = [v \in VersionIds |-> 0] /\ y.result = {}
  BY DEF Idle
<1>4. HistoryOf(s, y, clock) /\ FlushedOf(y)
  BY <1>3, BegunPast
<1> QED BY <1>2, <1>4, PastLoad DEF UploadRead

LEMMA UploadListPast ==
  ASSUME PInv, NEW s \in Sessions, UploadList(s)
  PROVE  Past'
<1> DEFINE x == sess[s]
           found == IF x.docRow = None THEN NoVersions ELSE VersionsOf(x.doc)
           y == [x EXCEPT !.pc = "loaded", !.verRows = found]
<1>0. x \in Session /\ HistoryOf(s, x, clock) /\ x.op # "delete"
  BY SessionPast DEF UploadList
<1>1. /\ found \in [VersionIds -> VersionRow \cup {None}]
      /\ \A v \in VersionIds : found[v] # None =>
           Committed(v) /\ found[v] = document_versions[v]
  BY VersionsOfFact, NoVersionsFact DEF PInv, LInv, IInv, IsVersionOf
<1>2. \A v \in VersionIds : found[v] # None => found[v].indexed_at <= clock
  BY <1>1, LoadedPast
<1>3. sess' = [sess EXCEPT ![s] = y] /\ UNCHANGED <<rows, queue, cache, issued, clock>>
  BY <1>0 DEF UploadList, Session
<1> HIDE DEF found
<1>4. /\ y \in Session /\ y.op = x.op /\ y.at = x.at /\ y.verRows = found
      /\ y.result = x.result /\ y.pc = "loaded"
  BY <1>0, <1>1 DEF Session
<1>5. HistoryOf(s, y, clock) /\ FlushedOf(y)
  BY <1>0, <1>2, <1>4 DEF HistoryOf, FlushedOf
<1> QED BY <1>3, <1>4, <1>5, PastLoad

LEMMA UploadFlushPast ==
  ASSUME PInv, NEW s \in Sessions, UploadFlush(s)
  PROVE  Past'
<1> DEFINE x == sess[s]
<1> PICK at : at = IF x.op = "inline" THEN clock + 1 ELSE 0
  OBVIOUS
<1> DEFINE y == [x EXCEPT !.pc = "flushed", !.vid = issued + 1, !.at = at]
<1>1. /\ x \in Session /\ HistoryOf(s, x, clock) /\ clock \in Nat /\ issued \in Nat
      /\ x.op \in {"upload", "inline"}
  BY SessionPast DEF UploadFlush
<1>2. issued + 1 \in VersionIds /\ at \in Nat
  BY <1>1, BoundsAssumption DEF UploadFlush, VersionIds
<1>3. /\ y \in Session /\ y.op = x.op /\ y.at = at /\ y.verRows = x.verRows
      /\ y.result = x.result /\ y.pc = "flushed"
  BY <1>1, <1>2, ZenonT(60) DEF Session
<1>4. /\ UNCHANGED rows /\ sess' = [sess EXCEPT ![s] = y]
      /\ clock' = IF x.op = "inline" THEN clock + 1 ELSE clock
      /\ cache' # None => cache' = cache
  BY <1>1 DEF UploadFlush
<1>5. clock' \in Nat /\ clock <= clock' /\ at <= clock'
  BY <1>1, <1>4
<1>6. HistoryOf(s, x, clock')
  BY <1>1, <1>5, HistoryLasts
<1>7. HistoryOf(s, y, clock') /\ FlushedOf(y)
  BY <1>1, <1>3, <1>5, <1>6 DEF HistoryOf, FlushedOf
<1> QED BY <1>3, <1>4, <1>5, <1>7, PastLocal

LEMMA DeletePast ==
  ASSUME PInv, NEW s \in Sessions, Delete(s)
  PROVE  Past'
<1> DEFINE x == sess[s]
<1>0. /\ x \in Session /\ HistoryOf(s, x, clock) /\ clock \in Nat
      /\ UNCHANGED <<rows, queue, cache, issued, clock>>
  BY SessionPast DEF Delete, DeleteRead, DeleteList, DeleteChunks, DeleteFlush
<1>1. ASSUME NEW d \in DocKeys, DeleteRead(s, d) PROVE Past'
  <2> DEFINE y == [Idle EXCEPT !.op = "delete", !.pc = "first", !.doc = d,
                               !.docRow = documents[d]]
  <2>1. documents[d] \in DocumentRow \cup {None} /\ s \in Handlers
    BY <1>1 DEF PInv, LInv, IInv, TypeOK, DeleteRead
  <2>2. y \in Session
    BY <2>1, IdleInv DEF Session
  <2>3. /\ y.op = "delete" /\ y.pc = "first" /\ y.at = 0 /\ y.verRows = NoVersions
        /\ y.chunkAt = [v \in VersionIds |-> 0] /\ y.result = {}
    BY DEF Idle
  <2>4. HistoryOf(s, y, clock) /\ FlushedOf(y)
    BY <2>1, <2>3, BegunPast
  <2> QED BY <1>0, <1>1, <2>2, <2>4, PastLoad DEF DeleteRead
<1>2. CASE DeleteList(s)
  <2> DEFINE found == VersionsOf(x.doc)
             y == [x EXCEPT !.pc = "listed", !.verRows = found]
  <2>1. /\ found \in [VersionIds -> VersionRow \cup {None}]
        /\ \A v \in VersionIds : found[v] # None =>
             Committed(v) /\ found[v] = document_versions[v]
    BY VersionsOfFact DEF PInv, LInv, IInv, IsVersionOf
  <2>2. \A v \in VersionIds : found[v] # None => found[v].indexed_at <= clock
    BY <2>1, LoadedPast
  <2>3. sess' = [sess EXCEPT ![s] = y]
    BY <1>0, <1>2 DEF DeleteList, Session
  <2> HIDE DEF found
  <2>4. /\ y \in Session /\ y.op = x.op /\ y.at = x.at /\ y.verRows = found
        /\ y.result = x.result /\ y.pc = "listed" /\ y.chunkAt = x.chunkAt /\ y.doc = x.doc
    BY <1>0, <2>1 DEF Session
  <2>5. HistoryOf(s, y, clock) /\ FlushedOf(y)
    BY <1>0, <2>2, <2>4 DEF HistoryOf, FlushedOf
  <2> QED BY <1>0, <2>3, <2>4, <2>5, PastLoad
<1>3. CASE DeleteChunks(s)
  <2> DEFINE at == [v \in VersionIds |-> IF IsVersionOf(v, x.doc)
                                         THEN document_chunks[v].at ELSE 0]
             y == [x EXCEPT !.pc = "loaded", !.chunkAt = at]
  <2>1. at \in [VersionIds -> Nat] /\ \A v \in VersionIds : at[v] # 0 => IsVersionOf(v, x.doc)
    BY DEF PInv, LInv, IInv, TypeOK, ChunkRows
  <2>2. sess' = [sess EXCEPT ![s] = y]
    BY <1>0, <1>3 DEF DeleteChunks, Session
  <2> HIDE DEF at
  <2>3. /\ y \in Session /\ y.op = x.op /\ y.at = x.at /\ y.verRows = x.verRows
        /\ y.result = x.result /\ y.pc = "loaded" /\ y.chunkAt = at /\ y.doc = x.doc
    BY <1>0, <2>1 DEF Session
  <2>4. HistoryOf(s, y, clock) /\ FlushedOf(y)
    BY <1>0, <2>1, <2>3 DEF HistoryOf, FlushedOf
  <2> QED BY <1>0, <2>2, <2>3, <2>4, PastLoad
<1>4. CASE DeleteFlush(s)
  <2> DEFINE y == [x EXCEPT !.pc = "flushed"]
  <2>1. sess' = [sess EXCEPT ![s] = y] /\ x.op = "delete"
    BY <1>0, <1>4 DEF DeleteFlush, Session
  <2>2. y \in Session /\ HistoryOf(s, y, clock) /\ FlushedOf(y)
    BY <1>0, <2>1 DEF HistoryOf, FlushedOf, Session
  <2> QED BY <1>0, <2>1, <2>2, PastLoad
<1> QED BY <1>1, <1>2, <1>3, <1>4 DEF Delete

LEMMA ReindexPast ==
  ASSUME PInv, NEW s \in Sessions, Reindex(s)
  PROVE  Past'
<1> DEFINE x == sess[s]
<1>0. /\ x \in Session /\ SessionInv(x) /\ HistoryOf(s, x, clock)
      /\ UNCHANGED <<rows, queue, cache, issued, clock>>
  BY SessionPast DEF Reindex, ReindexRead, ReindexLoad
<1>1. ASSUME NEW d \in DocKeys, ReindexRead(s, d) PROVE Past'
  <2> DEFINE y == [Idle EXCEPT !.op = "reindex", !.pc = "first", !.doc = d,
                               !.docRow = documents[d]]
  <2>1. documents[d] \in DocumentRow \cup {None}
    BY DEF PInv, LInv, IInv, TypeOK
  <2>2. y \in Session
    BY <2>1, IdleInv DEF Session
  <2>3. /\ y.op = "reindex" /\ y.pc = "first" /\ y.at = 0 /\ y.verRows = NoVersions
        /\ y.chunkAt = [v \in VersionIds |-> 0] /\ y.result = {}
    BY DEF Idle
  <2>4. HistoryOf(s, y, clock) /\ FlushedOf(y)
    BY <2>3, BegunPast
  <2> QED BY <1>0, <1>1, <2>2, <2>4, PastLoad DEF ReindexRead
<1>2. CASE ReindexLoad(s)
  <2> DEFINE u == x.docRow.current_version_id
             found == [NoVersions EXCEPT ![u] = document_versions[u]]
             y == [x EXCEPT !.pc = "loaded", !.vid = u, !.verRows = found]
  <2>1. /\ u \in VersionIds /\ Committed(u) /\ document_versions[u] \in VersionRow
        /\ x.op = "reindex"
    BY <1>0, <1>2 DEF ReindexLoad, SessionInv, ShapeOf, LoadedDocumentOf, IsVersionOf, Committed,
       PInv, LInv, IInv, TypeOK, Session, DocumentRow
  <2>2. /\ found \in [VersionIds -> VersionRow \cup {None}]
        /\ \A v \in VersionIds : found[v] # None =>
             Committed(v) /\ found[v] = document_versions[v]
    BY <2>1 DEF NoVersions
  <2>3. \A v \in VersionIds : found[v] # None => found[v].indexed_at <= clock
    BY <2>2, LoadedPast
  <2>4. sess' = [sess EXCEPT ![s] = y]
    BY <1>0, <1>2 DEF ReindexLoad, Session
  <2> HIDE DEF found, u
  <2>5. /\ y \in Session /\ y.op = x.op /\ y.at = x.at /\ y.verRows = found
        /\ y.result = x.result /\ y.pc = "loaded"
    BY <1>0, <2>1, <2>2 DEF Session
  <2>6. HistoryOf(s, y, clock) /\ FlushedOf(y)
    BY <1>0, <2>1, <2>3, <2>5 DEF HistoryOf, FlushedOf
  <2> QED BY <1>0, <2>4, <2>5, <2>6, PastLoad
<1> QED BY <1>1, <1>2 DEF Reindex

LEMMA WorkPast ==
  ASSUME PInv, NEW w \in Sessions, Work(w)
  PROVE  Past'
<1> DEFINE x == sess[w]
<1>0. /\ x \in Session /\ SessionInv(x) /\ HistoryOf(w, x, clock)
      /\ UNCHANGED rows /\ UNCHANGED <<cache, issued, clock>> /\ clock \in Nat /\ clock <= clock
  BY SessionPast DEF Work, WorkerPop, WorkerDiscard, WorkerLoadVersion, WorkerLoadDocument
<1>1. CASE WorkerPop(w)
  <2> DEFINE y == [Idle EXCEPT !.op = "index", !.pc = "popped", !.vid = Head(queue)]
  <2>1. Head(queue) \in VersionIds
    BY <1>1 DEF WorkerPop, PInv, LInv, IInv, TypeOK
  <2>2. y \in Session
    BY <2>1, IdleInv DEF Session
  <2>3. /\ y.op = "index" /\ y.pc = "popped" /\ y.at = 0 /\ y.verRows = NoVersions
        /\ y.chunkAt = [v \in VersionIds |-> 0] /\ y.result = {}
    BY DEF Idle
  <2>4. HistoryOf(w, y, clock) /\ FlushedOf(y)
    BY <2>3, BegunPast
  <2>5. sess' = [sess EXCEPT ![w] = y]
    BY <1>1 DEF WorkerPop
  <2> QED BY <1>0, <2>2, <2>4, <2>5, PastLocal
<1>2. CASE WorkerDiscard(w)
  BY <1>0, <1>2, IdlePast, PastLoad DEF WorkerDiscard
<1>3. CASE WorkerLoadVersion(w)
  <2> DEFINE u == x.vid
             found == [NoVersions EXCEPT ![u] = document_versions[u]]
             y == [x EXCEPT !.pc = "first", !.doc = document_versions[u].document,
                            !.verRows = found]
  <2>1. /\ u \in VersionIds /\ Committed(u) /\ document_versions[u] \in VersionRow
        /\ x.op = "index"
    BY <1>0, <1>3 DEF WorkerLoadVersion, SessionInv, ShapeOf, Discarded, Committed,
       PInv, LInv, IInv, TypeOK
  <2>2. /\ found \in [VersionIds -> VersionRow \cup {None}]
        /\ \A v \in VersionIds : found[v] # None =>
             Committed(v) /\ found[v] = document_versions[v]
    BY <2>1 DEF NoVersions
  <2>3. \A v \in VersionIds : found[v] # None => found[v].indexed_at <= clock
    BY <2>2, LoadedPast
  <2>4. /\ sess' = [sess EXCEPT ![w] = y]
        /\ UNCHANGED <<rows, queue, cache, issued, clock>>
    BY <1>0, <1>3 DEF WorkerLoadVersion, Session
  <2>5. document_versions[u].document \in DocKeys
    BY <2>1 DEF VersionRow
  <2> HIDE DEF found, u
  <2>6. /\ y \in Session /\ y.op = x.op /\ y.at = x.at /\ y.verRows = found
        /\ y.result = x.result /\ y.pc = "first"
    BY <1>0, <2>2, <2>5 DEF Session
  <2>7. HistoryOf(w, y, clock) /\ FlushedOf(y)
    BY <1>0, <2>1, <2>3, <2>6 DEF HistoryOf, FlushedOf
  <2> QED BY <2>4, <2>6, <2>7, PastLoad
<1>4. CASE WorkerLoadDocument(w)
  <2> DEFINE y == [x EXCEPT !.pc = "loaded", !.docRow = documents[x.doc]]
  <2>1. x.doc \in DocKeys /\ x.op = "index"
    BY <1>0, <1>4 DEF WorkerLoadDocument, SessionInv, ShapeOf
  <2>2. documents[x.doc] \in DocumentRow \cup {None}
    BY <2>1 DEF PInv, LInv, IInv, TypeOK
  <2>3. /\ sess' = [sess EXCEPT ![w] = y]
        /\ UNCHANGED <<rows, queue, cache, issued, clock>>
    BY <1>0, <1>4 DEF WorkerLoadDocument, Session
  <2>4. /\ y \in Session /\ y.op = x.op /\ y.at = x.at /\ y.verRows = x.verRows
        /\ y.result = x.result /\ y.pc = "loaded"
    BY <1>0, <2>2 DEF Session
  <2>5. HistoryOf(w, y, clock) /\ FlushedOf(y)
    BY <1>0, <2>1, <2>4 DEF HistoryOf, FlushedOf
  <2> QED BY <2>3, <2>4, <2>5, PastLoad
<1> QED BY <1>1, <1>2, <1>3, <1>4 DEF Work

\* The time an indexing draws is later than any row it may have loaded.
LEMMA ProcessFlushPast ==
  ASSUME PInv, NEW s \in Sessions, ProcessFlush(s)
  PROVE  Past'
<1> DEFINE x == sess[s]
           y == [x EXCEPT !.pc = "flushed", !.at = clock + 1]
<1>1. /\ x \in Session /\ SessionInv(x) /\ HistoryOf(s, x, clock) /\ clock \in Nat
      /\ x.op \in {"reindex", "index"} /\ x.pc = "loaded"
  BY SessionPast DEF ProcessFlush
<1>2. clock + 1 \in Nat /\ clock <= clock + 1
  BY <1>1
<1>3. /\ y \in Session /\ y.op = x.op /\ y.at = clock + 1 /\ y.verRows = x.verRows
      /\ y.result = x.result /\ y.pc = "flushed" /\ y.vid = x.vid
  BY <1>1, <1>2 DEF Session
<1>4. x.vid \in VersionIds /\ x.verRows[x.vid] \in VersionRow /\ x.verRows[x.vid] # None
  BY <1>1 DEF SessionInv, ShapeOf, Session
<1>5. HistoryOf(s, x, clock + 1)
  BY <1>1, <1>2, HistoryLasts
<1>6. HistoryOf(s, y, clock + 1)
  BY <1>1, <1>2, <1>3, <1>5 DEF HistoryOf
<1>7. FlushedOf(y)
  <2>1. x.verRows[x.vid].indexed_at <= clock /\ x.verRows[x.vid].indexed_at \in Nat
    BY <1>1, <1>4 DEF HistoryOf, VersionRow
  <2> QED BY <1>1, <1>3, <2>1 DEF FlushedOf
<1>8. /\ UNCHANGED rows /\ sess' = [sess EXCEPT ![s] = y] /\ clock' = clock + 1
      /\ cache' = None
  BY <1>1 DEF ProcessFlush
<1> QED BY <1>2, <1>3, <1>6, <1>7, <1>8, PastLocal

\* What a search finds in the database has been indexed.
LEMMA VisibleIndexed ==
  ASSUME PInv
  PROVE  Visible \subseteq IndexedVersions
BY DEF PInv, Past, ChunksOfLastIndexing, Visible, IndexedVersions

LEMMA SearchPast ==
  ASSUME PInv, NEW s \in Sessions, Search(s)
  PROVE  Past'
<1>1. CASE SearchRead(s)
  <2> DEFINE y == [Idle EXCEPT !.op = "search", !.pc = "loaded", !.result = Visible]
  <2>1. y \in Session
    BY IdleInv DEF Session, Visible
  <2>2. /\ y.op = "search" /\ y.pc = "loaded" /\ y.at = 0 /\ y.verRows = NoVersions
        /\ y.chunkAt = [v \in VersionIds |-> 0] /\ y.result = Visible
    BY DEF Idle
  <2>3. HistoryOf(s, y, clock) /\ FlushedOf(y)
    BY <2>2, VisibleIndexed, BegunPast
  <2> QED BY <1>1, <2>1, <2>3, PastLoad DEF SearchRead
<1>2. CASE SearchStore(s)
  <2>1. /\ UNCHANGED rows /\ sess' = [sess EXCEPT ![s] = Idle] /\ clock' = clock
        /\ cache' = sess[s].result
    BY <1>2 DEF SearchStore
  <2>2. clock \in Nat /\ clock <= clock /\ sess[s].result \subseteq IndexedVersions
    BY SessionPast DEF HistoryOf
  <2> QED BY <2>1, <2>2, IdlePast, PastLocal
<1> QED BY <1>1, <1>2 DEF Search
-----------------------------------------------------------------------------
(* The commit. *)

\* Who commits, and what becomes of the rows.
LEMMA Committing ==
  ASSUME PInv, NEW s \in Sessions, Commit(s), NEW x, x = sess[s]
  PROVE  /\ x \in Session /\ SessionInv(x) /\ x.pc = "flushed" /\ x.doc \in DocKeys
         /\ HistoryOf(s, x, clock) /\ FlushedOf(x)
         /\ x.op \in {"upload", "inline", "delete", "reindex", "index"}
         /\ Adds(x) => x.vid \in VersionIds /\ x.verRows[x.vid] = None
         /\ x.op \in {"reindex", "index"} =>
              x.vid \in VersionIds /\ x.verRows[x.vid] # None /\ IsVersionOf(x.vid, x.doc)
         /\ x.at \in Nat /\ clock \in Nat
         /\ \A v \in VersionIds :
              /\ document_versions'[v] =
                   Written(document_versions[v], None, x.verRows[v], NewVersion(x, v))
              /\ document_chunks'[v] = ChunksAfter(x, v)
         /\ sess' = [sess EXCEPT ![s] = Idle] /\ UNCHANGED <<queue, cache, issued, clock>>
<1>1. x.pc = "flushed" /\ IInv
  BY DEF Commit, PInv, LInv
<1>2. /\ x \in Session /\ SessionInv(x) /\ HistoryOf(s, x, clock) /\ FlushedOf(x)
      /\ clock \in Nat /\ x.at \in Nat
  BY SessionPast DEF Session
<1>3. /\ x.doc \in DocKeys
      /\ x.op \in {"upload", "inline", "delete", "reindex", "index"}
      /\ Adds(x) => x.vid \in VersionIds /\ x.verRows[x.vid] = None
      /\ x.op \in {"reindex", "index"} =>
           x.vid \in VersionIds /\ x.verRows[x.vid] # None /\ IsVersionOf(x.vid, x.doc)
  BY <1>1, FlushedFact
<1>4. /\ \A v \in VersionIds :
           /\ document_versions'[v] =
                Written(document_versions[v], None, x.verRows[v], NewVersion(x, v))
           /\ document_chunks'[v] = ChunksAfter(x, v)
      /\ sess' = [sess EXCEPT ![s] = Idle] /\ UNCHANGED <<queue, cache, issued, clock>>
  BY DEF Commit
<1> QED BY <1>1, <1>2, <1>3, <1>4

\* The indexing a version names after a commit: the one that commits, if it is of
\* this version, or the one it named before.
LEMMA CommitTimes ==
  ASSUME PInv, NEW s \in Sessions, Commit(s), NEW x, x = sess[s], NEW v \in VersionIds
  PROVE  LET row == document_versions[v]
             next == document_versions'[v]
         IN /\ Committed(v) =>
                 /\ next # None /\ next.document = row.document
                 /\ next.indexed_at = IF x.op \in {"reindex", "index"} /\ v = x.vid
                                      THEN x.at ELSE row.indexed_at
                 /\ row.deleted => next.deleted
                 /\ next.deleted # row.deleted => x.op = "delete" /\ row.document = x.doc
            /\ (~Committed(v) /\ next # None) => Adds(x) /\ v = x.vid
            /\ (Adds(x) /\ v = x.vid) =>
                 ~Committed(v) /\ next # None /\ next.indexed_at = x.at
<1> DEFINE row == document_versions[v]
           loaded == x.verRows[v]
           new == NewVersion(x, v)
           next == document_versions'[v]
<1>0. LInv /\ IInv
  BY DEF PInv, LInv
<1>1. /\ x \in Session /\ SessionInv(x) /\ x.pc = "flushed" /\ FlushedOf(x)
      /\ x.op \in {"upload", "inline", "delete", "reindex", "index"}
      /\ Adds(x) => x.vid \in VersionIds /\ x.verRows[x.vid] = None
      /\ x.op \in {"reindex", "index"} =>
           x.vid \in VersionIds /\ x.verRows[x.vid] # None
      /\ next = Written(row, None, loaded, new) /\ x.at \in Nat
  BY Committing
<1>2. /\ Committed(v) => next # None /\ next.document = row.document
      /\ (~Committed(v) /\ next # None) => Adds(x) /\ v = x.vid
      /\ (Adds(x) /\ v = x.vid) => ~Committed(v) /\ next # None
  BY <1>0, <1>1, CommitVersion
<1>3. Committed(v) =>
        /\ Adds(x) => next.deleted = row.deleted /\ next.indexed_at = row.indexed_at
        /\ x.op = "delete" => /\ next.indexed_at = row.indexed_at
                              /\ row.deleted => next.deleted
                              /\ next.deleted # row.deleted => row.document = x.doc
        /\ x.op \in {"reindex", "index"} => next.deleted = row.deleted
  BY <1>0, <1>1, CommitFlags
<1>4. ASSUME Adds(x), v = x.vid PROVE next.indexed_at = x.at
  <2>1. new.indexed_at = x.at /\ new # None
    BY <1>0, <1>1, <1>4, AddedVersion DEF NewVersion, UploadedVersion, Adds
  <2> QED BY <1>1, <1>4, <2>1 DEF Written
<1>5. ASSUME Committed(v), x.op \in {"reindex", "index"}
      PROVE  next.indexed_at = IF v = x.vid THEN x.at ELSE row.indexed_at
  <2>1. CASE v = x.vid
    <3>1. /\ row \in VersionRow /\ loaded \in VersionRow
          /\ loaded.indexed_at < x.at /\ loaded.indexed_at \in Nat
      BY <1>0, <1>1, <1>5, <2>1 DEF IInv, TypeOK, Committed, Session, FlushedOf, VersionRow
    <3>2. new = [loaded EXCEPT !.is_current = TRUE, !.indexed_at = x.at]
      BY <1>5, <2>1 DEF NewVersion, IndexedVersion
    <3>3. new \in VersionRow /\ new.indexed_at = x.at /\ new.indexed_at # loaded.indexed_at
      <4> HIDE DEF loaded, new
      <4>1. x.at \in Nat /\ loaded \in VersionRow /\ loaded.indexed_at < x.at
        BY <1>1, <3>1
      <4>2. new \in VersionRow /\ new.indexed_at = x.at
        BY <3>2, <4>1 DEF VersionRow
      <4> QED BY <3>1, <4>1, <4>2
    <3>4. next = [f \in DOMAIN row |-> IF new[f] = loaded[f] THEN row[f] ELSE new[f]]
      BY <1>1, <3>1, <3>3, NoneAssumption DEF Written
    <3>5. "indexed_at" \in DOMAIN row
      BY <3>1 DEF VersionRow
    <3> QED BY <2>1, <3>3, <3>4, <3>5
  <2>2. CASE v # x.vid
    <3>1. loaded = None
      BY <1>1, <1>5, <2>2 DEF SessionInv, LoadedNumberOf
    <3>2. new = None
      BY <1>5, <2>2, <3>1 DEF NewVersion, IndexedVersion
    <3> QED BY <1>1, <2>2, <3>2 DEF Written
  <2> QED BY <2>1, <2>2
<1> QED BY <1>1, <1>2, <1>3, <1>4, <1>5 DEF Adds

\* A document that is not deleted is deleted by a delete alone.
LEMMA CommitDeletes ==
  ASSUME PInv, NEW s \in Sessions, Commit(s), NEW x, x = sess[s], x.op # "delete",
         NEW d \in DocKeys, documents[d] # None, ~documents[d].is_deleted
  PROVE  documents'[d] # None /\ ~documents'[d].is_deleted
<1> DEFINE row == documents[d]
           loaded == x.docRow
           new == NewDocument(x)
<1>1. /\ x.pc = "flushed" /\ x \in Session /\ SessionInv(x) /\ x.doc \in DocKeys
      /\ x.op \in {"upload", "inline", "reindex", "index"}
  BY Committing
<1>2. /\ documents \in [DocKeys -> DocumentRow \cup {None}]
      /\ documents' = [documents EXCEPT ![x.doc] = Written(documents[x.doc], None, loaded, new)]
  BY DEF Commit, PInv, LInv, IInv, TypeOK
<1>3. CASE d # x.doc
  BY <1>2, <1>3
<1>4. CASE d = x.doc
  <2>1. documents'[d] = Written(row, None, loaded, new)
    BY <1>2, <1>4
  <2>2. documents'[d] \in DocumentRow
    BY <1>1, <1>4, <2>1, CommitDocument DEF PInv, LInv
  <2>3. row \in DocumentRow /\ loaded \in DocumentRow \cup {None}
    BY <1>1, <1>2 DEF Session
  <2>4. CASE x.op \in {"upload", "inline"}
    <3>1. /\ "is_deleted" \in DOMAIN new /\ new.is_deleted = FALSE
      BY <2>4 DEF NewDocument
    <3>2. CASE loaded = None
      BY <2>1, <2>2, <3>1, <3>2, NoneAssumption DEF Written
    <3>3. CASE loaded # None
      BY <2>1, <2>2, <2>3, <3>1, <3>3, NoneAssumption DEF Written, DocumentRow
    <3> QED BY <3>2, <3>3
  <2>5. CASE x.op \in {"reindex", "index"}
    <3>1. loaded # None
      BY <1>1, <2>5 DEF SessionInv, ShapeOf
    <3>2. new.is_deleted = loaded.is_deleted
      BY <2>3, <2>5, <3>1 DEF NewDocument, DocumentRow
    <3> QED BY <2>1, <2>2, <2>3, <3>1, <3>2, NoneAssumption DEF Written, DocumentRow
  <2> QED BY <1>1, <2>4, <2>5
<1> QED BY <1>3, <1>4

LEMMA CommitPast ==
  ASSUME PInv, NEW s \in Sessions, Commit(s)
  PROVE  Past'
<1> DEFINE x == sess[s]
<1>1. /\ x \in Session /\ SessionInv(x) /\ x.pc = "flushed" /\ FlushedOf(x)
      /\ HistoryOf(s, x, clock)
      /\ x.op \in {"upload", "inline", "delete", "reindex", "index"}
      /\ Adds(x) => x.vid \in VersionIds /\ x.verRows[x.vid] = None
      /\ x.op \in {"reindex", "index"} =>
           x.vid \in VersionIds /\ x.verRows[x.vid] # None /\ IsVersionOf(x.vid, x.doc)
      /\ x.at \in Nat /\ clock \in Nat
      /\ \A v \in VersionIds : document_chunks'[v] = ChunksAfter(x, v)
      /\ sess' = [sess EXCEPT ![s] = Idle] /\ UNCHANGED <<queue, cache, issued, clock>>
  BY Committing
<1>2. ASSUME NEW v \in VersionIds
      PROVE  /\ Committed(v) =>
                  /\ Committed(v)' /\ document_versions'[v].document = document_versions[v].document
                  /\ document_versions'[v].indexed_at =
                       IF x.op \in {"reindex", "index"} /\ v = x.vid
                       THEN x.at ELSE document_versions[v].indexed_at
             /\ (~Committed(v) /\ Committed(v)') => Adds(x) /\ v = x.vid
             /\ (Adds(x) /\ v = x.vid) =>
                  /\ ~Committed(v) /\ Committed(v)'
                  /\ document_versions'[v].indexed_at = x.at
  BY CommitTimes DEF Committed
<1>3. x.op \in {"reindex", "index"} => x.at # 0
  <2> SUFFICES ASSUME x.op \in {"reindex", "index"} PROVE x.at # 0
    OBVIOUS
  <2>1. x.verRows[x.vid] \in VersionRow /\ x.verRows[x.vid].indexed_at < x.at
    BY <1>1 DEF Session, FlushedOf
  <2>2. x.verRows[x.vid].indexed_at \in Nat
    BY <2>1 DEF VersionRow
  <2> QED BY <1>1, <2>1, <2>2
<1>4. x.at <= clock
  BY <1>1 DEF HistoryOf
<1>5. IndexedVersions \subseteq IndexedVersions'
  BY <1>2, <1>3 DEF IndexedVersions
<1>6. ClockInv'
  <2> SUFFICES ASSUME NEW v \in VersionIds, Committed(v)'
               PROVE  document_versions'[v].indexed_at <= clock'
    BY DEF ClockInv, VersionIds
  <2>1. CASE Committed(v)
    BY <1>1, <1>2, <1>4, <2>1 DEF PInv, Past, ClockInv
  <2>2. CASE ~Committed(v)
    BY <1>1, <1>2, <1>4, <2>2
  <2> QED BY <2>1, <2>2
<1>7. ChunksOfLastIndexing'
  <2> SUFFICES ASSUME NEW v \in VersionIds
               PROVE  document_chunks'[v].at =
                        IF Committed(v)' THEN document_versions'[v].indexed_at ELSE 0
    BY DEF ChunksOfLastIndexing, VersionIds
  <2>0. /\ document_chunks'[v] = ChunksAfter(x, v)
        /\ document_chunks[v] \in ChunkRows
        /\ document_chunks[v].at = IF Committed(v) THEN document_versions[v].indexed_at ELSE 0
    BY <1>1 DEF PInv, Past, LInv, IInv, TypeOK, ChunksOfLastIndexing
  <2>1. CASE Indexes(x) /\ v = x.vid
    <3>1. document_chunks'[v].at = x.at
      BY <2>0, <2>1 DEF ChunksAfter
    <3>2. x.op \in {"reindex", "index"} \/ Adds(x)
      BY <2>1 DEF Indexes, Adds
    <3>3. x.op \in {"reindex", "index"} => Committed(v)
      BY <1>1, <2>1 DEF IsVersionOf
    <3> QED BY <1>2, <2>1, <3>1, <3>2, <3>3
  <2>2. CASE ~(Indexes(x) /\ v = x.vid)
    <3>1. document_chunks'[v].at = document_chunks[v].at
      BY <2>0, <2>2 DEF ChunksAfter, ChunkRows
    <3>2. CASE Adds(x) /\ v = x.vid
      <4>1. x.op = "upload" /\ x.at = 0
        BY <1>1, <2>2, <3>2 DEF Adds, Indexes, FlushedOf
      <4> QED BY <1>2, <2>0, <3>1, <3>2, <4>1
    <3>3. CASE ~(Adds(x) /\ v = x.vid)
      <4>1. ~(x.op \in {"reindex", "index"} /\ v = x.vid)
        BY <2>2 DEF Indexes
      <4> QED BY <1>2, <2>0, <3>1, <3>3, <4>1
    <3> QED BY <3>2, <3>3
  <2> QED BY <2>1, <2>2
<1>8. CacheInv'
  BY <1>1, <1>5 DEF PInv, Past, CacheInv
<1>9. ASSUME NEW t \in Sessions
      PROVE  (HistoryOf(t, sess[t], clock) /\ FlushedOf(sess[t]))'
  <2>1. HistoryOf(t, sess'[t], clock) /\ FlushedOf(sess'[t])
    <3>1. CASE t = s
      <4>1. sess'[t] = Idle
        BY <1>1, <3>1 DEF PInv, LInv, IInv, TypeOK
      <4> QED BY <4>1, IdlePast
    <3>2. CASE t # s
      <4>1. sess'[t] = sess[t]
        BY <1>1, <3>2 DEF PInv, LInv, IInv, TypeOK
      <4> QED BY <4>1, SessionPast
    <3> QED BY <3>1, <3>2
  <2>2. \A v \in VersionIds : \A d : IsVersionOf(v, d) => IsVersionOf(v, d)'
    BY <1>2 DEF IsVersionOf
  <2> QED BY <1>1, <1>5, <2>1, <2>2 DEF HistoryOf, FlushedOf, VersionIds
<1> QED BY <1>6, <1>7, <1>8, <1>9 DEF Past
-----------------------------------------------------------------------------
LEMMA InitPast == Init => Past
<1> SUFFICES ASSUME Init PROVE Past
  OBVIOUS
<1>1. /\ \A v \in VersionIds : ~Committed(v) /\ document_chunks[v].at = 0
      /\ \A s \in Sessions : sess[s] = Idle
      /\ cache = None /\ clock = 0
  BY DEF Init, NoVersions, NoChunks, Committed
<1>2. HistoryOf(0, Idle, 0) /\ FlushedOf(Idle)
  BY DEF HistoryOf, FlushedOf, Idle, NoVersions
<1>3. \A s \in Sessions : HistoryOf(s, Idle, 0)
  BY <1>2 DEF HistoryOf, Idle
<1> QED BY <1>1, <1>2, <1>3 DEF Past, ClockInv, CacheInv, ChunksOfLastIndexing

LEMMA NextPast == PInv /\ [Next]_vars => Past'
<1> SUFFICES ASSUME PInv, [Next]_vars PROVE Past'
  OBVIOUS
<1>1. ASSUME NEW s \in Sessions, Upload(s) PROVE Past'
  BY <1>1, UploadReadPast, UploadListPast, UploadFlushPast DEF Upload
<1>2. ASSUME NEW s \in Sessions, Fail(s) PROVE Past'
  BY <1>2, IdlePast, PastLoad DEF Fail
<1>3. CASE CacheExpire \/ UNCHANGED vars
  <2>1. UNCHANGED <<rows, sess, clock>> /\ (cache' = None \/ cache' = cache)
    BY <1>3 DEF CacheExpire, vars, rows
  <2>2. \A s \in Sessions : (HistoryOf(s, sess[s], clock) /\ FlushedOf(sess[s]))'
    BY <2>1, RowsKept, SessionPast DEF HistoryOf, FlushedOf, VersionIds
  <2>3. ClockInv' /\ ChunksOfLastIndexing'
    BY <2>1, RowsKept DEF PInv, Past, ClockInv, ChunksOfLastIndexing, VersionIds
  <2>4. CacheInv'
    BY <2>1, RowsKept DEF PInv, Past, CacheInv
  <2> QED BY <2>2, <2>3, <2>4 DEF Past
<1> QED
  BY <1>1, <1>2, <1>3, DeletePast, ReindexPast, WorkPast, ProcessFlushPast, CommitPast,
     SearchPast DEF Next, Step

LEMMA SpecPInv == Spec => []PInv
<1>1. Init => Past
  BY InitPast
<1>2. LInv /\ Past /\ [Next]_vars => Past'
  BY NextPast DEF PInv
<1>3. LInv /\ Past => PInv
  BY DEF PInv
<1> QED BY <1>1, <1>2, <1>3, SpecLInv, PTL DEF Spec
-----------------------------------------------------------------------------
\* The chunk rows of a version are those of the indexing its indexed_at names,
\* whichever indexings and deletions of it overlap (_process_version replaces the
\* rows, delete_document marks the ones it listed).
THEOREM ChunksCorrect == Spec => []ChunksOfLastIndexing
<1>1. PInv => ChunksOfLastIndexing
  BY DEF PInv, Past
<1> QED BY <1>1, SpecPInv, PTL

\* What _search serves, from the cache or from a search under way, was committed
\* and indexed.
THEOREM ServedCorrect == Spec => []ServedWasIndexed
<1>1. PInv => ServedWasIndexed
  <2> SUFFICES ASSUME PInv PROVE ServedWasIndexed
    OBVIOUS
  <2>1. cache # None => cache \subseteq IndexedVersions
    BY DEF PInv, Past, CacheInv
  <2>2. \A s \in Sessions : sess[s].result \subseteq IndexedVersions
    BY SessionPast DEF HistoryOf
  <2> QED BY <2>1, <2>2 DEF ServedWasIndexed, IndexedVersions
<1> QED BY <1>1, SpecPInv, PTL

\* The only step that changes rows is a commit.
LEMMA RowsChange ==
  ASSUME PInv, [Next]_vars
  PROVE  UNCHANGED rows \/ \E s \in Sessions : Commit(s)
<1>1. ASSUME NEW s \in Sessions, Upload(s) \/ Delete(s) \/ Reindex(s) \/ Work(s)
      PROVE  UNCHANGED rows
  BY <1>1 DEF Upload, UploadRead, UploadList, UploadFlush, Delete, DeleteRead, DeleteList,
     DeleteChunks, DeleteFlush, Reindex, ReindexRead, ReindexLoad, Work, WorkerPop,
     WorkerDiscard, WorkerLoadVersion, WorkerLoadDocument
<1>2. ASSUME NEW s \in Sessions, ProcessFlush(s) \/ Search(s) \/ Fail(s)
      PROVE  UNCHANGED rows
  BY <1>2 DEF ProcessFlush, Search, SearchRead, SearchStore, Fail
<1>3. CASE CacheExpire \/ UNCHANGED vars
  BY <1>3 DEF CacheExpire, vars, rows
<1> QED BY <1>1, <1>2, <1>3 DEF Next, Step

\* A version that is deleted stays so and never reaches a search of the database
\* again: no upload, reindexing or commit of stale rows brings it back.
THEOREM DeletionLasts == Spec => DeletedStaysHidden
<1>1. ASSUME PInv, [Next]_vars, NEW v \in VersionIds, Committed(v), document_versions[v].deleted
      PROVE  document_versions'[v].deleted /\ v \notin Visible'
  <2>1. document_versions'[v].deleted
    <3>1. CASE UNCHANGED rows
      BY <1>1, <3>1 DEF rows
    <3>2. ASSUME NEW s \in Sessions, Commit(s) PROVE document_versions'[v].deleted
      BY <1>1, <3>2, CommitTimes
    <3> QED BY <1>1, <3>1, <3>2, RowsChange
  <2> QED BY <2>1 DEF Visible
<1>2. PInv /\ [Next]_vars =>
        [\A v \in VersionIds : (Committed(v) /\ document_versions[v].deleted)
           => (document_versions[v].deleted' /\ v \notin Visible')]_vars
  BY <1>1
<1> QED BY <1>2, SpecPInv, PTL DEF Spec, DeletedStaysHidden

\* A version leaves the reach of a search only when delete_document commits for
\* its document.
THEOREM OnlyDeletionHides == Spec => OnlyDeleteHides
<1>1. ASSUME PInv, [Next]_vars, NEW v \in VersionIds, v \in Visible, v \notin Visible'
      PROVE  \E s \in Handlers : /\ sess[s].op = "delete" /\ sess[s].pc = "flushed"
                                 /\ IsVersionOf(v, sess[s].doc)
                                 /\ sess'[s].pc = "idle"
  <2>1. PICK s \in Sessions : Commit(s)
    BY <1>1, RowsKept, RowsChange
  <2> DEFINE x == sess[s]
             d == document_versions[v].document
  <2>2. /\ Committed(v) /\ ~document_versions[v].deleted
        /\ d \in DocKeys /\ documents[d] # None /\ ~documents[d].is_deleted
        /\ document_chunks[v].at # 0 /\ ~document_chunks[v].deleted
        /\ document_chunks[v] \in ChunkRows
    BY <1>1 DEF Visible, Committed, PInv, LInv, IInv, TypeOK, VersionRow
  <2>3. /\ x \in Session /\ FlushedOf(x) /\ HistoryOf(s, x, clock)
        /\ x.pc = "flushed" /\ x.at \in Nat
        /\ Adds(x) => x.vid \in VersionIds
        /\ x.op \in {"reindex", "index"} => x.vid \in VersionIds /\ x.verRows[x.vid] # None
        /\ document_chunks'[v] = ChunksAfter(x, v)
        /\ sess'[s] = Idle
    BY <1>1, <2>1, Committing DEF PInv, LInv, IInv, TypeOK
  <2>4. /\ Committed(v)' /\ document_versions'[v].document = d
        /\ document_versions'[v].deleted # document_versions[v].deleted =>
             x.op = "delete" /\ d = x.doc
        /\ ~(Adds(x) /\ v = x.vid)
    BY <1>1, <2>1, <2>2, CommitTimes DEF Committed
  <2>5. ~(documents'[d] # None /\ ~documents'[d].is_deleted) =>
          x.op = "delete" /\ d = x.doc
    <3>1. d # x.doc => documents'[d] = documents[d]
      BY <2>1, <2>2 DEF Commit, PInv, LInv, IInv, TypeOK
    <3> QED BY <1>1, <2>1, <2>2, <3>1, CommitDeletes
  <2>6. ~(document_chunks'[v].at # 0 /\ ~document_chunks'[v].deleted) =>
          x.op = "delete" /\ IsVersionOf(v, x.doc)
    <3>1. CASE Indexes(x) /\ v = x.vid
      <4>1. x.op \in {"reindex", "index"}
        BY <2>4, <3>1 DEF Indexes, Adds
      <4>2. x.verRows[x.vid] \in VersionRow /\ x.verRows[x.vid].indexed_at < x.at
        BY <2>3, <4>1 DEF Session, FlushedOf
      <4>3. x.verRows[x.vid].indexed_at \in Nat
        BY <4>2 DEF VersionRow
      <4> QED BY <2>3, <3>1, <4>2, <4>3 DEF ChunksAfter
    <3>2. CASE ~(Indexes(x) /\ v = x.vid) /\ x.op = "delete" /\ x.chunkAt[v] # 0
      BY <2>3, <3>2 DEF HistoryOf
    <3>3. CASE ~(Indexes(x) /\ v = x.vid) /\ ~(x.op = "delete" /\ x.chunkAt[v] # 0)
      BY <2>2, <2>3, <3>3 DEF ChunksAfter
    <3> QED BY <3>1, <3>2, <3>3
  <2>7. x.op = "delete" /\ IsVersionOf(v, x.doc)
    BY <1>1, <2>2, <2>4, <2>5, <2>6 DEF Visible, IsVersionOf
  <2>8. s \in Handlers /\ sess'[s].pc = "idle"
    BY <2>3, <2>7 DEF HistoryOf, Idle
  <2> QED BY <2>3, <2>7, <2>8
<1>2. PInv /\ [Next]_vars =>
        [\A v \in VersionIds : (v \in Visible /\ v \notin Visible') =>
           \E s \in Handlers : /\ sess[s].op = "delete" /\ sess[s].pc = "flushed"
                               /\ IsVersionOf(v, sess[s].doc)
                               /\ sess'[s].pc = "idle"]_vars
  BY <1>1
<1> QED BY <1>2, SpecPInv, PTL DEF Spec, OnlyDeleteHides
=============================================================================
