-------------------------- MODULE MigrationsProofs --------------------------
(***************************************************************************)
(* Proofs of the properties of Migrations for any number of migrators.     *)
(*                                                                         *)
(* What the scripts say is looked up statement by statement: the names     *)
(* each revision makes, that its downgrade drops all of them and nothing   *)
(* older, and the order in which it does so.  What overlapping runs do to  *)
(* each other is an inductive invariant over these facts.                  *)
(***************************************************************************)
EXTENDS Migrations, TLAPS

-----------------------------------------------------------------------------
(* What the revisions make and drop. *)

TablesOf ==
  << {"organizations", "users"},
     {"integrations", "oauth_tokens", "integration_logs", "integration_permissions"},
     {"knowledge_bases", "documents", "document_versions", "document_chunks", "embeddings",
      "retrieval_logs"},
     {"runtime_agents", "runtime_conversations", "runtime_conversation_messages",
      "runtime_tasks", "runtime_task_steps", "runtime_events", "runtime_approvals",
      "runtime_telemetry"} >>

TypesOf ==
  << {}, {}, {},
     {"runtime_conversation_status", "runtime_task_status", "runtime_step_type",
      "runtime_event_type", "runtime_approval_status"} >>

IndexesOf ==
  << {"ix_users_email"},
     {"ix_integrations_organization_status", "ix_oauth_tokens_expires_at",
      "ix_integration_logs_integration_action", "ix_integration_permissions_user"},
     {"ix_knowledge_bases_organization_status", "ix_documents_organization_knowledge_base",
      "ix_documents_checksum", "ix_document_versions_checksum",
      "ix_document_chunks_organization_knowledge_base", "ix_document_chunks_version_index",
      "ix_embeddings_organization_knowledge_base", "ix_retrieval_logs_organization_created_at",
      "ix_retrieval_logs_knowledge_base_created_at"},
     {"ix_runtime_agents_org_enabled", "ix_runtime_conversations_org_status",
      "ix_runtime_conversation_messages_conversation", "ix_runtime_tasks_org_status",
      "ix_runtime_task_steps_task_status", "ix_runtime_events_org_created_at",
      "ix_runtime_approvals_org_status", "ix_runtime_telemetry_org_created_at",
      "ix_runtime_telemetry_task_created_at"} >>

NamesOf(v) == TablesOf[v] \cup TypesOf[v] \cup IndexesOf[v]

LEMMA NamesApart ==
  ASSUME NEW u \in 1..4, NEW v \in 1..4, u # v
  PROVE  NamesOf(u) \cap NamesOf(v) = {}
<1>1. /\ NamesOf(1) \cap NamesOf(2) = {}
      /\ NamesOf(1) \cap NamesOf(3) = {}
      /\ NamesOf(1) \cap NamesOf(4) = {}
  BY DEF NamesOf, TablesOf, TypesOf, IndexesOf
<1>2. NamesOf(2) \cap NamesOf(3) = {} /\ NamesOf(2) \cap NamesOf(4) = {}
  BY DEF NamesOf, TablesOf, TypesOf, IndexesOf
<1>3. NamesOf(3) \cap NamesOf(4) = {}
  BY DEF NamesOf, TablesOf, TypesOf, IndexesOf
<1> QED BY <1>1, <1>2, <1>3

LEMMA Scripts ==
  /\ LastVersion = 4
  /\ Upgrade[1] = upgrade_0001 /\ Upgrade[2] = upgrade_0002
  /\ Upgrade[3] = upgrade_0003_documents \o upgrade_0003_chunks
  /\ Upgrade[4] = upgrade_0004_tasks \o upgrade_0004_records
  /\ Downgrade[1] = downgrade_0001 /\ Downgrade[2] = downgrade_0002
  /\ Downgrade[3] = downgrade_0003
  /\ Downgrade[4] = downgrade_0004_tables \o downgrade_0004_types
BY DEF LastVersion, Upgrade, Downgrade

LEMMA Lengths ==
  /\ Len(Upgrade[1]) = 3 /\ Len(Upgrade[2]) = 8 /\ Len(Upgrade[3]) = 15 /\ Len(Upgrade[4]) = 17
  /\ Len(Downgrade[1]) = 3 /\ Len(Downgrade[2]) = 8 /\ Len(Downgrade[3]) = 15
  /\ Len(Downgrade[4]) = 22
<1>1. Len(Upgrade[1]) = 3 /\ Len(Upgrade[2]) = 8
  BY Scripts DEF upgrade_0001, upgrade_0002
<1>2. Len(Upgrade[3]) = 15
  BY Scripts DEF upgrade_0003_documents, upgrade_0003_chunks
<1>3. Len(Upgrade[4]) = 17
  BY Scripts DEF upgrade_0004_tasks, upgrade_0004_records
<1>4. Len(Downgrade[1]) = 3 /\ Len(Downgrade[2]) = 8 /\ Len(Downgrade[3]) = 15
  BY Scripts DEF downgrade_0001, downgrade_0002, downgrade_0003
<1>5. Len(Downgrade[4]) = 22
  BY Scripts DEF downgrade_0004_tables, downgrade_0004_types
<1> QED BY <1>1, <1>2, <1>3, <1>4, <1>5

\* Scripts written in two halves.
LEMMA DocumentsOrChunks ==
  ASSUME NEW k \in 1..15
  PROVE  \/ k \in 1..7 /\ Upgrade[3][k] = upgrade_0003_documents[k]
         \/ \E j \in 1..8 : k = j + 7 /\ Upgrade[3][k] = upgrade_0003_chunks[j]
<1>1. k \in 1..7 => Upgrade[3][k] = upgrade_0003_documents[k]
  BY Scripts DEF upgrade_0003_documents, upgrade_0003_chunks
<1>2. /\ Upgrade[3][8] = upgrade_0003_chunks[1] /\ Upgrade[3][9] = upgrade_0003_chunks[2]
      /\ Upgrade[3][10] = upgrade_0003_chunks[3] /\ Upgrade[3][11] = upgrade_0003_chunks[4]
      /\ Upgrade[3][12] = upgrade_0003_chunks[5] /\ Upgrade[3][13] = upgrade_0003_chunks[6]
      /\ Upgrade[3][14] = upgrade_0003_chunks[7] /\ Upgrade[3][15] = upgrade_0003_chunks[8]
  BY Scripts DEF upgrade_0003_documents, upgrade_0003_chunks
<1>3. \A j \in 1..8 : Upgrade[3][j + 7] = upgrade_0003_chunks[j]
  BY <1>2
<1>4. k \in 1..7 \/ \E j \in 1..8 : k = j + 7
  <2>1. k > 7 => k - 7 \in 1..8 /\ k = (k - 7) + 7
    OBVIOUS
  <2> QED BY <2>1
<1> QED BY <1>1, <1>3, <1>4

LEMMA TasksOrRecords ==
  ASSUME NEW k \in 1..17
  PROVE  \/ k \in 1..10 /\ Upgrade[4][k] = upgrade_0004_tasks[k]
         \/ \E j \in 1..7 : k = j + 10 /\ Upgrade[4][k] = upgrade_0004_records[j]
<1>1. k \in 1..10 => Upgrade[4][k] = upgrade_0004_tasks[k]
  BY Scripts DEF upgrade_0004_tasks, upgrade_0004_records
<1>2. /\ Upgrade[4][11] = upgrade_0004_records[1] /\ Upgrade[4][12] = upgrade_0004_records[2]
      /\ Upgrade[4][13] = upgrade_0004_records[3] /\ Upgrade[4][14] = upgrade_0004_records[4]
      /\ Upgrade[4][15] = upgrade_0004_records[5] /\ Upgrade[4][16] = upgrade_0004_records[6]
      /\ Upgrade[4][17] = upgrade_0004_records[7]
  BY Scripts DEF upgrade_0004_tasks, upgrade_0004_records
<1>3. \A j \in 1..7 : Upgrade[4][j + 10] = upgrade_0004_records[j]
  BY <1>2
<1>4. k \in 1..10 \/ \E j \in 1..7 : k = j + 10
  <2>1. k > 10 => k - 10 \in 1..7 /\ k = (k - 10) + 10
    OBVIOUS
  <2> QED BY <2>1
<1> QED BY <1>1, <1>3, <1>4

LEMMA TablesOrTypes ==
  ASSUME NEW k \in 1..22
  PROVE  \/ k \in 1..17 /\ Downgrade[4][k] = downgrade_0004_tables[k]
         \/ \E j \in 1..5 : k = j + 17 /\ Downgrade[4][k] = downgrade_0004_types[j]
<1>1. k \in 1..17 => Downgrade[4][k] = downgrade_0004_tables[k]
  BY Scripts, SMTT(30) DEF downgrade_0004_tables, downgrade_0004_types
<1>2. /\ Downgrade[4][18] = downgrade_0004_types[1] /\ Downgrade[4][19] = downgrade_0004_types[2]
      /\ Downgrade[4][20] = downgrade_0004_types[3] /\ Downgrade[4][21] = downgrade_0004_types[4]
      /\ Downgrade[4][22] = downgrade_0004_types[5]
  BY Scripts DEF downgrade_0004_tables, downgrade_0004_types
<1>3. \A j \in 1..5 : Downgrade[4][j + 17] = downgrade_0004_types[j]
  BY <1>2
<1>4. k \in 1..17 \/ \E j \in 1..5 : k = j + 17
  <2>1. k > 17 => k - 17 \in 1..5 /\ k = (k - 17) + 17
    OBVIOUS
  <2> QED BY <2>1
<1> QED BY <1>1, <1>3, <1>4

\* What a statement and a table consist of, so that the scripts can be looked up
\* without being taken apart.
LEMMA StatementParts ==
  /\ \A n, t : /\ create_table(n, t).op = "create_table" /\ create_table(n, t).name = n
               /\ create_table(n, t).on = n /\ create_table(n, t).table = t
  /\ \A n, o : /\ create_index(n, o).op = "create_index" /\ create_index(n, o).name = n
               /\ create_index(n, o).on = o
  /\ \A n : drop_table(n).op = "drop_table" /\ drop_table(n).name = n
  /\ \A n, o : /\ drop_index(n, o).op = "drop_index" /\ drop_index(n, o).name = n
               /\ drop_index(n, o).on = o
  /\ \A n : drop_type(n).op = "drop_type" /\ drop_type(n).name = n
BY DEF create_table, create_index, drop_table, drop_index, drop_type

LEMMA TableParts ==
  \A r, u, y, b : /\ Table(r, u, y, b).refs = r /\ Table(r, u, y, b).uniques = u
                  /\ Table(r, u, y, b).types = y /\ Table(r, u, y, b).booleans = b
BY DEF Table

\* An upgrade makes tables and indexes, and a table that is new with the revision has them.
MakesOnly(v, st) ==
  /\ st.op \in {"create_table", "create_index"}
  /\ st.op = "create_table" => /\ st.name \in TablesOf[v] /\ st.on = st.name
                               /\ st.table.types \subseteq TypesOf[v]
  /\ st.op = "create_index" => st.name \in IndexesOf[v] /\ st.on \in TablesOf[v]

LEMMA UpgradesMake ==
  ASSUME NEW v \in 1..4, NEW k \in 1..Len(Upgrade[v])
  PROVE  MakesOnly(v, Upgrade[v][k])
<1>0. PICK st : st = Upgrade[v][k]
  OBVIOUS
<1>1. CASE v = 1
  BY <1>0, <1>1, Scripts, Lengths, StatementParts, TableParts
     DEF upgrade_0001, MakesOnly, TablesOf, TypesOf, IndexesOf
<1>2. CASE v = 2
  BY <1>0, <1>2, Scripts, Lengths, StatementParts, TableParts
     DEF upgrade_0002, MakesOnly, TablesOf, TypesOf, IndexesOf
<1>3. CASE v = 3
  <2>1. ASSUME NEW j \in 1..7, st = upgrade_0003_documents[j] PROVE MakesOnly(3, st)
    BY <2>1, StatementParts, TableParts
       DEF upgrade_0003_documents, MakesOnly, TablesOf, TypesOf, IndexesOf
  <2>2. retrieval_logs.types = {}
    BY DEF retrieval_logs, Table
  <2>3. ASSUME NEW j \in 1..8, st = upgrade_0003_chunks[j] PROVE MakesOnly(3, st)
    BY <2>2, <2>3, StatementParts, TableParts
       DEF upgrade_0003_chunks, MakesOnly, TablesOf, TypesOf, IndexesOf
  <2> QED BY <1>0, <1>3, <2>1, <2>3, Lengths, DocumentsOrChunks
<1>4. CASE v = 4
  <2>1. ASSUME NEW j \in 1..10, st = upgrade_0004_tasks[j] PROVE MakesOnly(4, st)
    BY <2>1, StatementParts, TableParts
       DEF upgrade_0004_tasks, MakesOnly, TablesOf, TypesOf, IndexesOf
  <2>2. ASSUME NEW j \in 1..7, st = upgrade_0004_records[j] PROVE MakesOnly(4, st)
    BY <2>2, StatementParts, TableParts
       DEF upgrade_0004_records, MakesOnly, TablesOf, TypesOf, IndexesOf
  <2> QED BY <1>0, <1>4, <2>1, <2>2, Lengths, TasksOrRecords
<1> QED BY <1>1, <1>2, <1>3, <1>4

\* A downgrade drops tables, indexes and types of its revision.
DropsOnly(v, st) ==
  \/ st.op = "drop_table" /\ st.name \in TablesOf[v]
  \/ st.op = "drop_index" /\ st.name \in IndexesOf[v]
  \/ st.op = "drop_type" /\ st.name \in TypesOf[v]

LEMMA DowngradesDrop ==
  ASSUME NEW v \in 1..4, NEW k \in 1..Len(Downgrade[v])
  PROVE  DropsOnly(v, Downgrade[v][k])
<1>0. PICK st : st = Downgrade[v][k]
  OBVIOUS
<1>1. CASE v = 1
  BY <1>0, <1>1, Scripts, Lengths, StatementParts
     DEF downgrade_0001, DropsOnly, TablesOf, IndexesOf
<1>2. CASE v = 2
  BY <1>0, <1>2, Scripts, Lengths, StatementParts
     DEF downgrade_0002, DropsOnly, TablesOf, IndexesOf
<1>3. CASE v = 3
  BY <1>0, <1>3, Scripts, Lengths, StatementParts, SMTT(30)
     DEF downgrade_0003, DropsOnly, TablesOf, IndexesOf
<1>4. CASE v = 4
  <2>1. ASSUME NEW j \in 1..17, st = downgrade_0004_tables[j] PROVE DropsOnly(4, st)
    BY <2>1, StatementParts, SMTT(30) DEF downgrade_0004_tables, DropsOnly, TablesOf, IndexesOf
  <2>2. ASSUME NEW j \in 1..5, st = downgrade_0004_types[j] PROVE DropsOnly(4, st)
    BY <2>2, StatementParts DEF downgrade_0004_types, DropsOnly, TypesOf
  <2> QED BY <1>0, <1>4, <2>1, <2>2, Lengths, TablesOrTypes
<1> QED BY <1>1, <1>2, <1>3, <1>4

\* It drops every table and every type of its revision.
LEMMA TablesDropped ==
  ASSUME NEW v \in 1..4, NEW n \in TablesOf[v]
  PROVE  \E k \in 1..Len(Downgrade[v]) :
           Downgrade[v][k].op = "drop_table" /\ Downgrade[v][k].name = n
<1>1. CASE v = 1
  <2>1. Downgrade[1][2] = drop_table("users") /\ Downgrade[1][3] = drop_table("organizations")
    BY Scripts DEF downgrade_0001
  <2> QED BY <1>1, <2>1, Lengths, StatementParts DEF TablesOf
<1>2. CASE v = 2
  <2>1. /\ Downgrade[2][2] = drop_table("integration_permissions")
        /\ Downgrade[2][4] = drop_table("integration_logs")
        /\ Downgrade[2][6] = drop_table("oauth_tokens")
        /\ Downgrade[2][8] = drop_table("integrations")
    BY Scripts DEF downgrade_0002
  <2> QED BY <1>2, <2>1, Lengths, StatementParts DEF TablesOf
<1>3. CASE v = 3
  <2>1. /\ Downgrade[3][3] = drop_table("retrieval_logs")
        /\ Downgrade[3][5] = drop_table("embeddings")
        /\ Downgrade[3][8] = drop_table("document_chunks")
        /\ Downgrade[3][10] = drop_table("document_versions")
        /\ Downgrade[3][13] = drop_table("documents")
        /\ Downgrade[3][15] = drop_table("knowledge_bases")
    BY Scripts DEF downgrade_0003
  <2> QED BY <1>3, <2>1, Lengths, StatementParts DEF TablesOf
<1>4. CASE v = 4
  <2>1. /\ Downgrade[4][3] = drop_table("runtime_telemetry")
        /\ Downgrade[4][5] = drop_table("runtime_approvals")
        /\ Downgrade[4][7] = drop_table("runtime_events")
        /\ Downgrade[4][9] = drop_table("runtime_task_steps")
        /\ Downgrade[4][11] = drop_table("runtime_tasks")
        /\ Downgrade[4][13] = drop_table("runtime_conversation_messages")
        /\ Downgrade[4][15] = drop_table("runtime_conversations")
        /\ Downgrade[4][17] = drop_table("runtime_agents")
    BY Scripts DEF downgrade_0004_tables, downgrade_0004_types
  <2> QED BY <1>4, <2>1, Lengths, StatementParts DEF TablesOf
<1> QED BY <1>1, <1>2, <1>3, <1>4

LEMMA TypesDropped ==
  ASSUME NEW v \in 1..4, NEW n \in TypesOf[v]
  PROVE  \E k \in 1..Len(Downgrade[v]) :
           Downgrade[v][k].op = "drop_type" /\ Downgrade[v][k].name = n
<1>1. v = 4
  BY DEF TypesOf
<1>2. /\ Downgrade[4][18] = drop_type("runtime_event_type")
      /\ Downgrade[4][19] = drop_type("runtime_approval_status")
      /\ Downgrade[4][20] = drop_type("runtime_step_type")
      /\ Downgrade[4][21] = drop_type("runtime_task_status")
      /\ Downgrade[4][22] = drop_type("runtime_conversation_status")
  BY Scripts DEF downgrade_0004_tables, downgrade_0004_types
<1> QED BY <1>1, <1>2, Lengths, StatementParts DEF TypesOf

\* What an upgrade made is dropped by its downgrade and by no other.
LEMMA MadeHere ==
  ASSUME NEW v \in 1..4, NEW o \in MadeBy(Upgrade[v])
  PROVE  /\ o.kind = "type" => o.name \in TypesOf[v]
         /\ o.kind # "type" => o.on \in TablesOf[v]
         /\ o.name \in NamesOf(v) /\ o.on \in NamesOf(v)
         /\ o.kind \in {"table", "type"} => o.on = o.name
<1>1. PICK k \in 1..Len(Upgrade[v]) : o \in Made(Upgrade[v][k])
  BY DEF MadeBy
<1>2. MakesOnly(v, Upgrade[v][k])
  BY UpgradesMake
<1> QED BY <1>1, <1>2 DEF MakesOnly, Made, Object, NamesOf

LEMMA Undone ==
  ASSUME NEW v \in 1..4, NEW o \in MadeBy(Upgrade[v])
  PROVE  \E k \in 1..Len(Downgrade[v]) : Drops(Downgrade[v][k], o)
<1>1. CASE o.kind = "type"
  BY <1>1, MadeHere, TypesDropped DEF Drops
<1>2. CASE o.kind # "type"
  BY <1>2, MadeHere, TablesDropped DEF Drops
<1> QED BY <1>1, <1>2

LEMMA Spared ==
  ASSUME NEW u \in 1..4, NEW v \in 1..4, u # v, NEW o \in MadeBy(Upgrade[u]),
         NEW k \in 1..Len(Downgrade[v])
  PROVE  ~Drops(Downgrade[v][k], o)
<1>1. Downgrade[v][k].name \in NamesOf(v)
  BY DowngradesDrop DEF DropsOnly, NamesOf
<1>2. o.name \in NamesOf(u) /\ o.on \in NamesOf(u)
  BY MadeHere
<1> QED BY <1>1, <1>2, NamesApart DEF Drops

-----------------------------------------------------------------------------
(* Versions and statements. *)

LEMMA SchemaOf ==
  ASSUME NEW v \in 0..4
  PROVE  \A o : o \in SchemaAt[v] <=> \E u \in 1..v : o \in MadeBy(Upgrade[u])
BY Scripts DEF SchemaAt

LEMMA SchemaUp ==
  ASSUME NEW v \in 0..3
  PROVE  SchemaAt[v + 1] = SchemaAt[v] \cup MadeBy(Upgrade[v + 1])
<1>1. \A u : u \in 1..(v + 1) <=> u \in 1..v \/ u = v + 1
  OBVIOUS
<1>2. \A o : o \in SchemaAt[v + 1] <=> o \in SchemaAt[v] \/ o \in MadeBy(Upgrade[v + 1])
  BY <1>1, SchemaOf
<1> QED BY <1>2

LEMMA SchemaGrows ==
  ASSUME NEW v \in 0..4, NEW w \in 0..4, v <= w
  PROVE  SchemaAt[v] \subseteq SchemaAt[w]
<1>1. \A u \in 1..v : u \in 1..w
  OBVIOUS
<1> QED BY <1>1, SchemaOf

\* A downgrade touches nothing of older versions.
LEMMA OlderSpared ==
  ASSUME NEW v \in 1..4, NEW w \in 0..4, w < v, NEW o \in SchemaAt[w],
         NEW k \in 1..Len(Downgrade[v])
  PROVE  ~Drops(Downgrade[v][k], o)
<1>1. PICK u \in 1..w : o \in MadeBy(Upgrade[u])
  BY SchemaOf
<1>2. u \in 1..4 /\ u # v
  OBVIOUS
<1> QED BY <1>1, <1>2, Spared

\* What a downgrade leaves of its version is the version below.
LEMMA SchemaDown ==
  ASSUME NEW v \in 1..4
  PROVE  SchemaAt[v - 1] = {o \in SchemaAt[v] : ~\E k \in 1..Len(Downgrade[v]) :
                                                   Drops(Downgrade[v][k], o)}
<1>1. v - 1 \in 0..3 /\ v - 1 + 1 = v /\ v - 1 \in 0..4
  OBVIOUS
<1>2. SchemaAt[v] = SchemaAt[v - 1] \cup MadeBy(Upgrade[v])
  BY <1>1, SchemaUp
<1>3. \A o \in SchemaAt[v - 1], k \in 1..Len(Downgrade[v]) : ~Drops(Downgrade[v][k], o)
  BY <1>1, OlderSpared
<1>4. \A o \in MadeBy(Upgrade[v]) : \E k \in 1..Len(Downgrade[v]) : Drops(Downgrade[v][k], o)
  BY Undone
<1> QED BY <1>2, <1>3, <1>4

LEMMA SchemaNamed ==
  ASSUME NEW v \in 0..4, NEW o \in SchemaAt[v], o.kind = "table"
  PROVE  o.on = o.name
<1>1. PICK u \in 1..v : o \in MadeBy(Upgrade[u])
  BY SchemaOf
<1> QED BY <1>1, MadeHere

LEMMA ApplyMade ==
  ASSUME NEW v, NEW st, MakesOnly(v, st), NEW cat
  PROVE  /\ Apply(cat, st) = cat \cup Made(st)
         /\ Accepts(cat, st) => Made(st) \cap cat = {}
<1>1. \A o : ~Drops(st, o)
  BY DEF MakesOnly, Drops
<1>2. Apply(cat, st) = cat \cup Made(st)
  BY <1>1 DEF Apply
<1>3. ASSUME Accepts(cat, st) PROVE Made(st) \cap cat = {}
  <2>1. CASE st.op = "create_table"
    <3>1. ({st.name} \cup st.table.types) \cap Names(cat) = {}
      BY <1>3, <2>1 DEF Accepts
    <3>2. \A o \in Made(st) : o.name \in {st.name} \cup st.table.types
      BY <2>1 DEF Made, Object
    <3> QED BY <3>1, <3>2 DEF Names
  <2>2. CASE st.op = "create_index"
    <3>1. st.name \notin Names(cat)
      BY <1>3, <2>2 DEF Accepts
    <3>2. \A o \in Made(st) : o.name = st.name
      BY <2>2 DEF Made, Object
    <3> QED BY <3>1, <3>2 DEF Names
  <2> QED BY <2>1, <2>2 DEF MakesOnly
<1> QED BY <1>2, <1>3

LEMMA ApplyDropped ==
  ASSUME NEW v, NEW st, DropsOnly(v, st), NEW cat
  PROVE  Apply(cat, st) = {o \in cat : ~Drops(st, o)}
<1>1. Made(st) = {}
  BY DEF DropsOnly, Made
<1> QED BY <1>1 DEF Apply

\* A statement that drops something finds it.
LEMMA DropFinds ==
  ASSUME NEW v, NEW st, DropsOnly(v, st), NEW w \in 0..4, NEW cat \in SUBSET SchemaAt[w],
         Accepts(cat, st)
  PROVE  \E o \in cat : Drops(st, o)
<1>1. CASE st.op = "drop_table"
  <2>1. PICK o \in cat : o.kind = "table" /\ o.name = st.name
    BY <1>1 DEF Accepts, Names, Tables
  <2> QED BY <1>1, <2>1, SchemaNamed DEF Drops
<1>2. CASE st.op \in {"drop_index", "drop_type"}
  <2>1. PICK o \in cat : o.name = st.name
    BY <1>2 DEF Accepts, Names
  <2> QED BY <1>2, <2>1 DEF Drops
<1> QED BY <1>1, <1>2 DEF DropsOnly

-----------------------------------------------------------------------------
(* The inductive invariant. *)

\* What the statements of the script have made or dropped by now.
MadeSoFar(r) == UNION {Made(Script(r)[k]) : k \in 1..(r.pos - 1)}
Gone(r, o) == \E k \in 1..(r.pos - 1) : Drops(Script(r)[k], o)

\* What a run alone sees.
Expected(r) ==
  IF r.at < r.target THEN SchemaAt[r.at] \cup MadeSoFar(r)
  ELSE IF r.at > r.target THEN {o \in SchemaAt[r.at] : ~Gone(r, o)}
  ELSE SchemaAt[r.at]

RunShape(r) ==
  /\ DOMAIN r = DOMAIN Idle
  /\ r.pc = "running" \/ r = Idle
  /\ r.at \in 0..4 /\ r.target \in 0..4 /\ r.pos \in Nat \ {0} /\ r.numbered \in BOOLEAN
  /\ r.at # r.target => r.pos <= Len(Script(r)) + 1

\* Before it writes the version a run is in its first script, whatever others commit
\* meanwhile: an upgrade makes what the script says, and of the version it began at a
\* downgrade has dropped what the script says.  Once it has, it sees what it would alone.
RunInv(r) ==
  /\ r.numbered => View(r) = Expected(r)
  /\ (r.pc = "running" /\ r.at = r.target) => r.numbered
  /\ (~r.numbered /\ r.at < r.target) => r.created = MadeSoFar(r) /\ r.dropped = {}
  /\ (~r.numbered /\ r.at > r.target) =>
       /\ r.created = {}
       /\ \A o \in SchemaAt[r.at] : Gone(r, o) => o \in r.dropped
       /\ \A o \in r.dropped : Gone(r, o)

MInv ==
  /\ version \in 0..4 /\ catalog = SchemaAt[version]
  /\ DOMAIN runs = Migrators
  /\ \A m \in Migrators : RunShape(runs[m]) /\ RunInv(runs[m])
  /\ \A m, n \in Migrators : (runs[m].numbered /\ runs[n].numbered) => m = n

\* The statement a run is about to execute.
LEMMA StatementOf ==
  ASSUME NEW r, RunShape(r), InScript(r)
  PROVE  /\ r.pos \in 1..Len(Script(r))
         /\ r.at < r.target => r.at + 1 \in 1..4 /\ Script(r) = Upgrade[r.at + 1]
                               /\ MakesOnly(r.at + 1, Script(r)[r.pos])
         /\ r.at > r.target => r.at \in 1..4 /\ Script(r) = Downgrade[r.at]
                               /\ DropsOnly(r.at, Script(r)[r.pos])
<1>1. r.at \in 0..4 /\ r.target \in 0..4 /\ r.pos \in Nat \ {0} /\ r.at # r.target
  BY DEF RunShape, InScript
<1>2. Len(Script(r)) \in Nat
  BY <1>1, Lengths, Scripts DEF Script
<1>3. r.pos \in 1..Len(Script(r))
  BY <1>1, <1>2 DEF InScript
<1>4. CASE r.at < r.target
  <2>1. r.at + 1 \in 1..4 /\ Script(r) = Upgrade[r.at + 1]
    BY <1>1, <1>4 DEF Script
  <2>2. MakesOnly(r.at + 1, Script(r)[r.pos])
    BY <1>3, <2>1, UpgradesMake
  <2> QED BY <1>1, <1>3, <1>4, <2>1, <2>2
<1>5. CASE r.at > r.target
  <2>1. r.at \in 1..4 /\ Script(r) = Downgrade[r.at]
    BY <1>1, <1>5 DEF Script
  <2>2. DropsOnly(r.at, Script(r)[r.pos])
    BY <1>3, <2>1, DowngradesDrop
  <2> QED BY <1>1, <1>3, <1>5, <2>1, <2>2
<1> QED BY <1>1, <1>3, <1>4, <1>5

\* A run that has the row of alembic_version, or found it as it was, sees what it would
\* alone.
LEMMA ViewIsExpected ==
  ASSUME MInv, NEW m \in Migrators, runs[m].pc = "running", SameVersion(runs[m])
  PROVE  View(runs[m]) = Expected(runs[m])
<1> DEFINE r == runs[m]
<1>1. RunShape(r) /\ RunInv(r) /\ catalog = SchemaAt[version]
  BY DEF MInv
<1>2. CASE r.numbered
  BY <1>1, <1>2 DEF RunInv
<1>3. CASE ~r.numbered
  <2>1. catalog = SchemaAt[r.at] /\ r.at # r.target
    BY <1>1, <1>3 DEF SameVersion, RunInv
  <2>2. CASE r.at < r.target
    BY <1>1, <1>3, <2>1, <2>2 DEF RunInv, View, Expected
  <2>3. CASE r.at > r.target
    <3>1. \A o \in catalog : o \in r.dropped <=> Gone(r, o)
      BY <1>1, <1>3, <2>1, <2>3 DEF RunInv
    <3>2. r.created = {}
      BY <1>1, <1>3, <2>3 DEF RunInv
    <3>3. ~(r.at < r.target)
      BY <1>1, <2>3 DEF RunShape
    <3> QED BY <2>1, <2>3, <3>1, <3>2, <3>3 DEF View, Expected
  <2> QED BY <1>1, <2>1, <2>2, <2>3 DEF RunShape
<1> QED BY <1>1, <1>2, <1>3 DEF RunShape

-----------------------------------------------------------------------------
(* The steps. *)

\* A run's own step leaves the others' invariants alone, as long as the committed schema
\* stays and no two runs have the row of alembic_version.
LEMMA OwnStep ==
  ASSUME MInv, NEW m \in Migrators, NEW y, runs' = [runs EXCEPT ![m] = y],
         UNCHANGED <<catalog, version>>, RunShape(y), RunInv(y)',
         y.numbered => \A n \in Migrators \ {m} : ~runs[n].numbered
  PROVE  MInv'
<1>1. /\ DOMAIN runs' = Migrators /\ runs'[m] = y
      /\ \A n \in Migrators \ {m} : runs'[n] = runs[n]
  BY DEF MInv
<1>2. \A n \in Migrators \ {m} : RunInv(runs[n])'
  BY <1>1 DEF MInv, RunInv, View, Expected, MadeSoFar, Gone, Script
<1>3. \A n \in Migrators : RunShape(runs[n])' /\ RunInv(runs[n])'
  BY <1>1, <1>2 DEF MInv, RunShape
<1>4. \A n, p \in Migrators : (runs'[n].numbered /\ runs'[p].numbered) => n = p
  BY <1>1 DEF MInv
<1> QED BY <1>1, <1>3, <1>4 DEF MInv

LEMMA IdleInv ==
  RunShape(Idle) /\ RunInv(Idle) /\ Idle.pc = "idle" /\ ~Idle.numbered
<1>1. /\ Idle.pc = "idle" /\ Idle.at = 0 /\ Idle.target = 0 /\ Idle.pos = 1
      /\ Idle.numbered = FALSE /\ Idle.created = {} /\ Idle.dropped = {}
  BY DEF Idle
<1>2. RunShape(Idle)
  <2>1. Idle.numbered \in BOOLEAN
    BY <1>1
  <2>2. Idle.at \in 0..4 /\ Idle.target \in 0..4 /\ Idle.pos \in Nat \ {0}
    BY <1>1
  <2>3. ~(Idle.at # Idle.target)
    BY <1>1
  <2> QED BY <2>1, <2>2, <2>3 DEF RunShape
<1>3. RunInv(Idle)
  BY <1>1 DEF RunInv
<1> QED BY <1>1, <1>2, <1>3

\* Whatever the invariant says of a run that has not the row, it says of it for any
\* committed schema.
LEMMA IdleInvNext ==
  RunInv(Idle)'
<1>1. /\ Idle.pc = "idle" /\ Idle.at = 0 /\ Idle.target = 0 /\ Idle.pos = 1
      /\ Idle.numbered = FALSE /\ Idle.created = {} /\ Idle.dropped = {}
  BY DEF Idle
<1> QED BY <1>1 DEF RunInv

LEMMA BeginStep ==
  ASSUME MInv, NEW m \in Migrators, Begin(m)
  PROVE  MInv'
<1>1. PICK target \in 0..LastVersion \ {version} :
        runs' = [runs EXCEPT ![m] =
                   [Idle EXCEPT !.pc = "running", !.at = version, !.target = target]]
  BY DEF Begin
<1>2. target \in 0..4 /\ version \in 0..4 /\ target # version
  BY <1>1, Scripts DEF MInv
<1>3. PICK y : y = [Idle EXCEPT !.pc = "running", !.at = version, !.target = target]
  OBVIOUS
<1>4. /\ DOMAIN y = DOMAIN Idle /\ y.pc = "running" /\ y.at = version /\ y.target = target
      /\ y.pos = 1 /\ y.numbered = FALSE /\ y.created = {} /\ y.dropped = {}
  BY <1>3 DEF Idle
<1>5. Len(Script(y)) \in Nat
  BY <1>2, <1>4, Lengths DEF Script
<1>6. RunShape(y)
  <2>1. y.numbered \in BOOLEAN
    BY <1>4
  <2>2. y.at \in 0..4 /\ y.target \in 0..4 /\ y.pos \in Nat \ {0}
    BY <1>2, <1>4
  <2>3. y.pos <= Len(Script(y)) + 1
    BY <1>4, <1>5
  <2> QED BY <1>4, <2>1, <2>2, <2>3 DEF RunShape
<1>7. MadeSoFar(y) = {} /\ \A o : ~Gone(y, o)
  BY <1>4 DEF MadeSoFar, Gone
<1>8. RunInv(y)'
  BY <1>2, <1>4, <1>7 DEF RunInv, MadeSoFar, Gone, Script
<1> QED BY <1>1, <1>3, <1>4, <1>6, <1>8, OwnStep DEF Begin

LEMMA RollBackStep ==
  ASSUME MInv, NEW m \in Migrators, RollBack(m)
  PROVE  MInv'
BY OwnStep, IdleInv, IdleInvNext DEF RollBack

\* Only what is not committed is kept apart: committing what a run sees leaves the rest.
LEMMA Kept ==
  ASSUME NEW C, NEW D, NEW K, NEW A
  PROVE  LET B == (C \ D) \cup K
         IN (C \ (D \cup (B \ A))) \cup ((K \cup (A \ B)) \ (B \ A)) = A
OBVIOUS

\* What a statement adds to what the script has made or dropped.
LEMMA SoFarNext ==
  ASSUME NEW r, NEW y, r.pos \in 1..Len(Script(r)), Script(y) = Script(r), y.pos = r.pos + 1
  PROVE  /\ MadeSoFar(y) = MadeSoFar(r) \cup Made(Script(r)[r.pos])
         /\ \A o : Gone(y, o) <=> Gone(r, o) \/ Drops(Script(r)[r.pos], o)
<1>1. \A k : k \in 1..(y.pos - 1) <=> k \in 1..(r.pos - 1) \/ k = r.pos
  OBVIOUS
<1>2. \A o : o \in MadeSoFar(y) <=> o \in MadeSoFar(r) \/ o \in Made(Script(r)[r.pos])
  BY <1>1 DEF MadeSoFar
<1>3. \A o : Gone(y, o) <=> Gone(r, o) \/ Drops(Script(r)[r.pos], o)
  BY <1>1 DEF Gone
<1> QED BY <1>2, <1>3

\* A statement leaves a run that has the row with what it would see alone.
LEMMA NextExpected ==
  ASSUME NEW r, NEW y, RunShape(r), InScript(r), View(r) = Expected(r),
         y.at = r.at, y.target = r.target, y.pos = r.pos + 1
  PROVE  Expected(y) = Apply(View(r), Script(r)[r.pos])
<1>1. r.pos \in 1..Len(Script(r)) /\ Script(y) = Script(r)
  BY StatementOf DEF Script
<1>2. MadeSoFar(y) = MadeSoFar(r) \cup Made(Script(r)[r.pos])
  BY <1>1, SoFarNext
<1>3. \A o : Gone(y, o) <=> Gone(r, o) \/ Drops(Script(r)[r.pos], o)
  BY <1>1, SoFarNext
<1>4. r.at \in 0..4 /\ r.target \in 0..4 /\ r.at # r.target
  BY DEF RunShape, InScript
<1>5. CASE r.at < r.target
  <2>1. Apply(View(r), Script(r)[r.pos]) = View(r) \cup Made(Script(r)[r.pos])
    BY <1>5, StatementOf, ApplyMade
  <2> QED BY <1>2, <1>5, <2>1 DEF Expected
<1>6. CASE r.at > r.target
  <2>1. Apply(View(r), Script(r)[r.pos]) = {o \in View(r) : ~Drops(Script(r)[r.pos], o)}
    BY <1>6, StatementOf, ApplyDropped
  <2>2. ~(r.at < r.target)
    BY <1>4, <1>6
  <2>3. View(r) = {o \in SchemaAt[r.at] : ~Gone(r, o)}
    BY <1>6, <2>2 DEF Expected
  <2>4. Expected(y) = {o \in SchemaAt[r.at] : ~Gone(y, o)}
    BY <1>6, <2>2 DEF Expected
  <2> QED BY <1>3, <2>1, <2>3, <2>4
<1> QED BY <1>4, <1>5, <1>6

\* A downgrade whose statement is accepted finds the version it began at committed.
LEMMA OlderCommitted ==
  ASSUME MInv, NEW m \in Migrators, ~runs[m].numbered, InScript(runs[m]),
         runs[m].at > runs[m].target,
         Accepts(View(runs[m]), Script(runs[m])[runs[m].pos])
  PROVE  SchemaAt[runs[m].at] \subseteq catalog
<1> DEFINE r == runs[m]
           st == Script(r)[r.pos]
<1>1. RunShape(r) /\ RunInv(r) /\ catalog = SchemaAt[version] /\ version \in 0..4
  BY DEF MInv
<1>2. r.at \in 1..4 /\ r.pos \in 1..Len(Script(r)) /\ Script(r) = Downgrade[r.at]
      /\ DropsOnly(r.at, st)
  BY <1>1, StatementOf
<1>3. View(r) \in SUBSET SchemaAt[version]
  BY <1>1 DEF View, RunInv
<1>4. PICK o \in View(r) : Drops(st, o)
  BY <1>1, <1>2, <1>3, DropFinds
<1>5. ~(version < r.at)
  BY <1>1, <1>2, <1>3, <1>4, OlderSpared
<1> QED BY <1>1, <1>2, <1>5, SchemaGrows

LEMMA ExecuteStep ==
  ASSUME MInv, NEW m \in Migrators, Execute(m)
  PROVE  MInv'
<1> DEFINE r == runs[m]
           st == Script(r)[r.pos]
           before == View(r)
           after == Apply(before, st)
<1>1. RunShape(r) /\ RunInv(r) /\ catalog = SchemaAt[version] /\ version \in 0..4
  BY DEF MInv
<1>2. InScript(r) /\ Accepts(before, st) /\ UNCHANGED <<catalog, version>>
  BY DEF Execute
<1>3. PICK y : y = [r EXCEPT !.pos = @ + 1,
                             !.created = (@ \cup (after \ before)) \ (before \ after),
                             !.dropped = @ \cup (before \ after),
                             !.touched = @ \cup Touches(before, st)]
  OBVIOUS
<1>4. runs' = [runs EXCEPT ![m] = y]
  BY <1>3 DEF Execute
<1>5. DOMAIN r = {"pc", "at", "target", "pos", "numbered", "created", "dropped", "touched"}
  BY <1>1 DEF RunShape, Idle
<1>6. /\ DOMAIN y = DOMAIN Idle /\ y.pc = "running" /\ y.at = r.at /\ y.target = r.target
      /\ y.pos = r.pos + 1 /\ y.numbered = r.numbered
      /\ y.created = (r.created \cup (after \ before)) \ (before \ after)
      /\ y.dropped = r.dropped \cup (before \ after)
  BY <1>1, <1>2, <1>3, <1>5 DEF RunShape, InScript
<1>7. /\ r.at \in 0..4 /\ r.target \in 0..4 /\ r.pos \in Nat \ {0} /\ r.numbered \in BOOLEAN
      /\ r.at # r.target /\ r.pos \in 1..Len(Script(r))
  BY <1>1, <1>2, StatementOf DEF RunShape, InScript
<1>8. Script(y) = Script(r) /\ Len(Script(r)) \in Nat
  BY <1>6, <1>7, Lengths DEF Script
<1>9. RunShape(y)
  <2>1. y.numbered \in BOOLEAN
    BY <1>6, <1>7
  <2>2. y.at \in 0..4 /\ y.target \in 0..4 /\ y.pos \in Nat \ {0}
    BY <1>6, <1>7
  <2>3. y.pos <= Len(Script(y)) + 1
    BY <1>6, <1>7, <1>8
  <2> QED BY <1>6, <2>1, <2>2, <2>3 DEF RunShape
<1>10. RunInv(y)
  <2>1. ~(y.at = y.target)
    BY <1>6, <1>7
  <2>2. CASE r.numbered
    <3>1. View(r) = Expected(r)
      BY <1>1, <2>2 DEF RunInv
    <3>2. Expected(y) = after
      BY <1>1, <1>2, <1>6, <3>1, NextExpected
    <3>3. View(y) = after
      BY <1>6, Kept DEF View
    <3> QED BY <1>6, <2>1, <2>2, <3>2, <3>3 DEF RunInv
  <2>3. CASE ~r.numbered /\ r.at < r.target
    <3>1. r.created = MadeSoFar(r) /\ r.dropped = {}
      BY <1>1, <2>3 DEF RunInv
    <3>2. after = before \cup Made(st) /\ Made(st) \cap before = {}
      BY <1>1, <1>2, <2>3, StatementOf, ApplyMade
    <3>3. y.created = r.created \cup Made(st) /\ y.dropped = {}
      BY <1>6, <3>1, <3>2
    <3>4. MadeSoFar(y) = MadeSoFar(r) \cup Made(st)
      BY <1>6, <1>7, <1>8, SoFarNext
    <3>5. ~(y.at > y.target)
      BY <1>6, <1>7, <2>3
    <3> QED BY <1>6, <2>1, <2>3, <3>1, <3>3, <3>4, <3>5 DEF RunInv
  <2>4. CASE ~r.numbered /\ r.at > r.target
    <3>1. /\ r.created = {} /\ \A o \in SchemaAt[r.at] : Gone(r, o) => o \in r.dropped
          /\ \A o \in r.dropped : Gone(r, o)
      BY <1>1, <2>4 DEF RunInv
    <3>2. after = {o \in before : ~Drops(st, o)}
      BY <1>1, <1>2, <2>4, StatementOf, ApplyDropped
    <3>3. y.created = {} /\ y.dropped = r.dropped \cup {o \in before : Drops(st, o)}
      BY <1>6, <3>1, <3>2
    <3>4. \A o : Gone(y, o) <=> Gone(r, o) \/ Drops(st, o)
      BY <1>6, <1>7, <1>8, SoFarNext
    <3>5. SchemaAt[r.at] \subseteq catalog
      BY <1>2, <2>4, OlderCommitted
    <3>6. \A o \in SchemaAt[r.at] : o \in r.dropped \/ o \in before
      BY <3>5 DEF View
    <3>7. \A o \in SchemaAt[y.at] : Gone(y, o) => o \in y.dropped
      BY <1>6, <3>1, <3>3, <3>4, <3>6
    <3>8. \A o \in y.dropped : Gone(y, o)
      BY <3>1, <3>3, <3>4
    <3>9. ~(y.at < y.target)
      BY <1>6, <1>7, <2>4
    <3> QED BY <1>6, <2>1, <2>4, <3>3, <3>7, <3>8, <3>9 DEF RunInv
  <2> QED BY <1>7, <2>2, <2>3, <2>4
<1>11. RunInv(y)'
  BY <1>2, <1>10 DEF RunInv, View, Expected, MadeSoFar, Gone, Script
<1>12. y.numbered => \A n \in Migrators \ {m} : ~runs[n].numbered
  BY <1>6 DEF MInv
<1> QED BY <1>2, <1>4, <1>9, <1>11, <1>12, OwnStep

\* A run that is done with a script sees the version it writes.
LEMMA ScriptDone ==
  ASSUME NEW r, RunShape(r), AtEndOfScript(r)
  PROVE  /\ Beyond(r) \in 0..4
         /\ Expected(r) = SchemaAt[Beyond(r)]
<1>1. r.at \in 0..4 /\ r.target \in 0..4 /\ r.at # r.target /\ r.pos \in Nat
      /\ r.pos > Len(Script(r)) /\ r.pos <= Len(Script(r)) + 1
  BY DEF RunShape, AtEndOfScript
<1>2. Len(Script(r)) \in Nat
  BY <1>1, Lengths DEF Script
<1>3. r.pos - 1 = Len(Script(r))
  BY <1>1, <1>2
<1>4. CASE r.at < r.target
  <2>1. r.at \in 0..3 /\ Script(r) = Upgrade[r.at + 1] /\ Beyond(r) = r.at + 1
    BY <1>1, <1>4 DEF Script, Beyond
  <2>2. MadeSoFar(r) = MadeBy(Upgrade[r.at + 1])
    BY <1>3, <2>1 DEF MadeSoFar, MadeBy
  <2>3. Expected(r) = SchemaAt[r.at] \cup MadeBy(Upgrade[r.at + 1])
    BY <1>4, <2>2 DEF Expected
  <2> QED BY <2>1, <2>3, SchemaUp
<1>5. CASE r.at > r.target
  <2>1. /\ r.at \in 1..4 /\ Script(r) = Downgrade[r.at] /\ Beyond(r) = r.at - 1
        /\ ~(r.at < r.target)
    BY <1>1, <1>5 DEF Script, Beyond
  <2>2. Expected(r) = {o \in SchemaAt[r.at] : ~Gone(r, o)}
    BY <1>5, <2>1 DEF Expected
  <2>3. \A o : Gone(r, o) <=> \E k \in 1..Len(Downgrade[r.at]) : Drops(Downgrade[r.at][k], o)
    BY <1>3, <2>1 DEF Gone
  <2>4. SchemaAt[r.at - 1] = {o \in SchemaAt[r.at] : ~\E k \in 1..Len(Downgrade[r.at]) :
                                                         Drops(Downgrade[r.at][k], o)}
    BY <2>1, SchemaDown
  <2>5. Expected(r) = SchemaAt[r.at - 1]
    BY <2>2, <2>3, <2>4
  <2> QED BY <1>1, <2>1, <2>5
<1> QED BY <1>1, <1>4, <1>5

LEMMA NumberStep ==
  ASSUME MInv, NEW m \in Migrators, Number(m)
  PROVE  MInv'
<1> DEFINE r == runs[m]
<1>1. RunShape(r)
  BY DEF MInv
<1>2. AtEndOfScript(r) /\ ~Locked(m) /\ SameVersion(r) /\ UNCHANGED <<catalog, version>>
  BY DEF Number
<1>3. PICK y : y = [r EXCEPT !.at = Beyond(r), !.pos = 1, !.numbered = TRUE]
  OBVIOUS
<1>4. runs' = [runs EXCEPT ![m] = y]
  BY <1>3 DEF Number
<1>5. DOMAIN r = {"pc", "at", "target", "pos", "numbered", "created", "dropped", "touched"}
  BY <1>1 DEF RunShape, Idle
<1>6. /\ DOMAIN y = DOMAIN Idle /\ y.pc = "running" /\ y.at = Beyond(r) /\ y.target = r.target
      /\ y.pos = 1 /\ y.numbered = TRUE /\ y.created = r.created /\ y.dropped = r.dropped
  BY <1>1, <1>2, <1>3, <1>5 DEF RunShape, AtEndOfScript
<1>7. Beyond(r) \in 0..4 /\ Expected(r) = SchemaAt[Beyond(r)] /\ r.target \in 0..4
  BY <1>1, <1>2, ScriptDone DEF RunShape
<1>8. RunShape(y)
  <2>1. y.numbered \in BOOLEAN
    BY <1>6
  <2>2. y.at \in 0..4 /\ y.target \in 0..4 /\ y.pos \in Nat \ {0}
    BY <1>6, <1>7
  <2>3. y.at # y.target => Len(Script(y)) \in Nat
    BY <2>2, Lengths DEF Script
  <2>4. y.at # y.target => y.pos <= Len(Script(y)) + 1
    BY <1>6, <2>3
  <2> QED BY <1>6, <2>1, <2>2, <2>4 DEF RunShape
<1>9. RunInv(y)
  <2>1. View(y) = View(r)
    BY <1>6 DEF View
  <2>2. View(r) = SchemaAt[Beyond(r)]
    BY <1>2, <1>7, ViewIsExpected DEF AtEndOfScript
  <2>3. MadeSoFar(y) = {} /\ \A o : ~Gone(y, o)
    BY <1>6 DEF MadeSoFar, Gone
  <2>4. Expected(y) = SchemaAt[y.at]
    BY <2>3 DEF Expected
  <2> QED BY <1>6, <2>1, <2>2, <2>4 DEF RunInv
<1>10. RunInv(y)'
  BY <1>2, <1>9 DEF RunInv, View, Expected, MadeSoFar, Gone, Script
<1>11. \A n \in Migrators \ {m} : ~runs[n].numbered
  BY <1>2 DEF Locked
<1> QED BY <1>2, <1>4, <1>8, <1>10, <1>11, OwnStep

\* A commit changes what the others see, but nothing their invariants say of them: none of
\* them has the row.
LEMMA CommitStep ==
  ASSUME MInv, NEW m \in Migrators, Commit(m)
  PROVE  MInv'
<1>1. /\ runs[m].numbered /\ RunShape(runs[m]) /\ RunInv(runs[m])
      /\ runs[m].at = runs[m].target /\ runs[m].target \in 0..4
  BY DEF MInv, Commit, RunInv, RunShape
<1>2. version' = runs[m].target /\ catalog' = View(runs[m])
      /\ runs' = [runs EXCEPT ![m] = Idle]
  BY DEF Commit
<1>3. View(runs[m]) = SchemaAt[runs[m].target]
  <2>1. ~(runs[m].at < runs[m].target) /\ ~(runs[m].at > runs[m].target)
    BY <1>1
  <2> QED BY <1>1, <2>1 DEF RunInv, Expected
<1>4. version' \in 0..4 /\ catalog' = SchemaAt[version']
  BY <1>1, <1>2, <1>3
<1>5. /\ DOMAIN runs' = Migrators /\ runs'[m] = Idle
      /\ \A n \in Migrators \ {m} : runs'[n] = runs[n] /\ ~runs'[n].numbered
  BY <1>1, <1>2 DEF MInv
<1>6. \A n \in Migrators \ {m} : RunInv(runs[n])'
  BY <1>5 DEF MInv, RunInv, MadeSoFar, Gone, Script
<1>7. \A n \in Migrators : RunShape(runs[n])' /\ RunInv(runs[n])'
  BY <1>5, <1>6, IdleInv, IdleInvNext DEF MInv, RunShape
<1>8. \A n, p \in Migrators : (runs'[n].numbered /\ runs'[p].numbered) => n = p
  BY <1>5, IdleInv
<1> QED BY <1>4, <1>5, <1>7, <1>8 DEF MInv

LEMMA MInvInit ==
  Init => MInv
<1> SUFFICES ASSUME Init PROVE MInv
  OBVIOUS
<1>1. SchemaAt[0] = {}
  BY SchemaOf
<1>2. \A m \in Migrators : runs[m] = Idle
  BY DEF Init
<1>3. \A m \in Migrators : RunShape(runs[m]) /\ RunInv(runs[m]) /\ ~runs[m].numbered
  BY <1>2, IdleInv
<1> QED BY <1>1, <1>3 DEF Init, MInv

LEMMA MInvNext ==
  MInv /\ [Next]_vars => MInv'
<1> SUFFICES ASSUME MInv, [Next]_vars PROVE MInv'
  OBVIOUS
<1>1. CASE UNCHANGED vars
  BY <1>1 DEF vars, MInv, RunShape, RunInv, View, Expected, MadeSoFar, Gone, Script
<1>2. ASSUME NEW m \in Migrators, Begin(m) PROVE MInv'
  BY <1>2, BeginStep
<1>3. ASSUME NEW m \in Migrators, Execute(m) PROVE MInv'
  BY <1>3, ExecuteStep
<1>4. ASSUME NEW m \in Migrators, Number(m) PROVE MInv'
  BY <1>4, NumberStep
<1>5. ASSUME NEW m \in Migrators, Commit(m) PROVE MInv'
  BY <1>5, CommitStep
<1>6. ASSUME NEW m \in Migrators, RollBack(m) PROVE MInv'
  BY <1>6, RollBackStep
<1> QED BY <1>1, <1>2, <1>3, <1>4, <1>5, <1>6 DEF Next

LEMMA MInvAlways ==
  Spec => []MInv
BY MInvInit, MInvNext, PTL DEF Spec

\* The database has the schema that alembic_version says it has, however many upgrades
\* and downgrades overlap or break off.
THEOREM SchemaCorrect ==
  Spec => []VersionMatchesSchema
<1>1. MInv => VersionMatchesSchema
  BY Scripts DEF MInv, VersionMatchesSchema
<1> QED BY <1>1, MInvAlways, PTL

-----------------------------------------------------------------------------
(* The history of versions. *)

Moves == [m \in Migrators |-> Planned(runs[m])]

\* A run that has the row of alembic_version is not on its way to the version there is.
Elsewhere == \A m \in Migrators : runs[m].numbered => runs[m].target # version

LEMMA IdlePlansNothing ==
  /\ Planned(Idle) = History!NoMove
  /\ Planned(Idle)' = History!NoMove
BY DEF Planned, Idle, History!NoMove

\* A step of one run that leaves the committed state alone leaves the others' moves alone.
LEMMA MovesOf ==
  ASSUME MInv, NEW m \in Migrators, NEW y, runs' = [runs EXCEPT ![m] = y],
         UNCHANGED version
  PROVE  Moves' = [Moves EXCEPT ![m] = Planned(y)]
<1>1. /\ DOMAIN runs = Migrators /\ runs'[m] = y
      /\ \A n \in Migrators \ {m} : runs'[n] = runs[n]
  BY DEF MInv
<1>2. Planned(runs[m])' = Planned(y) /\ \A n \in Migrators \ {m} :
                                           Planned(runs[n])' = Planned(runs[n])
  BY <1>1 DEF Planned
<1> QED BY <1>2 DEF Moves

LEMMA BeginPlans ==
  ASSUME MInv, NEW m \in Migrators, Begin(m)
  PROVE  History!Plan(m)
<1>1. PICK target \in 0..LastVersion \ {version} :
        runs' = [runs EXCEPT ![m] =
                   [Idle EXCEPT !.pc = "running", !.at = version, !.target = target]]
  BY DEF Begin
<1>2. runs[m] = Idle /\ UNCHANGED <<catalog, version>>
  BY IdleInv DEF MInv, RunShape, Begin
<1>3. PICK y : y = [Idle EXCEPT !.pc = "running", !.at = version, !.target = target]
  OBVIOUS
<1>4. Planned(y) = [from |-> version, to |-> target]
  BY <1>3 DEF Planned, Idle
<1>5. Moves' = [Moves EXCEPT ![m] = [from |-> version, to |-> target]]
  BY <1>1, <1>2, <1>3, <1>4, MovesOf, ZenonT(60)
<1>6. Moves[m] = History!NoMove
  BY <1>2, IdlePlansNothing DEF Moves
<1> QED BY <1>1, <1>2, <1>5, <1>6 DEF History!Plan, Moves

LEMMA ExecuteMovesNothing ==
  ASSUME MInv, NEW m \in Migrators, Execute(m)
  PROVE  UNCHANGED <<catalog, version, Moves>>
<1> DEFINE r == runs[m]
<1>1. PICK y : /\ runs' = [runs EXCEPT ![m] = y]
               /\ y = [r EXCEPT !.pos = y.pos, !.created = y.created, !.dropped = y.dropped,
                                !.touched = y.touched]
  <2>1. DOMAIN r = {"pc", "at", "target", "pos", "numbered", "created", "dropped", "touched"}
    BY DEF MInv, RunShape, Idle
  <2> QED BY <2>1 DEF Execute
<1>2. UNCHANGED <<catalog, version>>
  BY DEF Execute
<1>3. y.at = r.at /\ y.target = r.target /\ y.numbered = r.numbered
  BY <1>1 DEF MInv, RunShape, Idle
<1>4. Planned(y) = Planned(r)
  BY <1>3 DEF Planned
<1>5. Moves' = [Moves EXCEPT ![m] = Planned(y)]
  BY <1>1, <1>2, MovesOf
<1> QED BY <1>2, <1>4, <1>5 DEF Moves

\* The version found when the row is updated is the one the run began at.
LEMMA NumberMovesNothing ==
  ASSUME MInv, NEW m \in Migrators, Number(m)
  PROVE  UNCHANGED <<catalog, version, Moves>>
<1> DEFINE r == runs[m]
<1>1. PICK y : y = [r EXCEPT !.at = Beyond(r), !.pos = 1, !.numbered = TRUE]
  OBVIOUS
<1>2. runs' = [runs EXCEPT ![m] = y] /\ UNCHANGED <<catalog, version>> /\ SameVersion(r)
  BY <1>1 DEF Number
<1>3. y.numbered = TRUE /\ y.target = r.target
  <2>1. DOMAIN r = {"pc", "at", "target", "pos", "numbered", "created", "dropped", "touched"}
    BY DEF MInv, RunShape, Idle
  <2> QED BY <1>1, <2>1
<1>4. Planned(y) = Planned(r)
  BY <1>2, <1>3 DEF Planned, SameVersion
<1>5. Moves' = [Moves EXCEPT ![m] = Planned(y)]
  BY <1>2, MovesOf
<1> QED BY <1>2, <1>4, <1>5 DEF Moves

\* Nobody else has the row when a run commits: whatever the others plan, they plan it from
\* the version they began at.
LEMMA CommitMoves ==
  ASSUME MInv, Elsewhere, NEW m \in Migrators, Commit(m)
  PROVE  History!Move(m)
<1> DEFINE r == runs[m]
<1>1. /\ version' = r.target /\ runs' = [runs EXCEPT ![m] = Idle]
      /\ r.pc = "running" /\ r.at = r.target
  BY DEF Commit
<1>2. RunShape(r) /\ RunInv(r) /\ r.numbered /\ DOMAIN runs = Migrators
  BY <1>1 DEF MInv, RunInv
<1>3. catalog' = SchemaAt[r.target]
  BY <1>1, CommitStep DEF MInv
<1>4. /\ runs'[m] = Idle
      /\ \A n \in Migrators \ {m} : runs'[n] = runs[n] /\ ~runs[n].numbered
  BY <1>1, <1>2 DEF MInv
<1>5. /\ Planned(runs[m])' = History!NoMove
      /\ \A n \in Migrators \ {m} : Planned(runs[n])' = Planned(runs[n])
  BY <1>4, IdlePlansNothing DEF Planned
<1>6. Moves' = [Moves EXCEPT ![m] = History!NoMove]
  BY <1>5 DEF Moves
<1>7. Moves[m].from = version /\ Moves[m].to = r.target
  BY <1>2 DEF Moves, Planned
<1>8. Moves[m] # History!NoMove
  BY <1>2, <1>7 DEF Elsewhere, History!NoMove
<1> QED BY <1>1, <1>3, <1>6, <1>7, <1>8 DEF History!Move, Moves

LEMMA RollBackGivesUp ==
  ASSUME MInv, NEW m \in Migrators, RollBack(m)
  PROVE  History!GiveUp(m)
<1>1. runs' = [runs EXCEPT ![m] = Idle] /\ UNCHANGED <<catalog, version>>
  BY DEF RollBack
<1>2. PICK y : y = Idle
  OBVIOUS
<1>3. Moves' = [Moves EXCEPT ![m] = History!NoMove]
  BY <1>1, <1>2, MovesOf, IdlePlansNothing
<1> QED BY <1>1, <1>3 DEF History!GiveUp, Moves

LEMMA ElsewhereNext ==
  MInv /\ Elsewhere /\ [Next]_vars => Elsewhere'
<1> SUFFICES ASSUME MInv, Elsewhere, [Next]_vars PROVE Elsewhere'
  OBVIOUS
<1>1. CASE UNCHANGED vars
  BY <1>1 DEF vars, Elsewhere
<1> SUFFICES ASSUME NEW m \in Migrators,
                    Begin(m) \/ Execute(m) \/ Number(m) \/ Commit(m) \/ RollBack(m),
                    NEW n \in Migrators, runs'[n].numbered
             PROVE  runs'[n].target # version'
  BY <1>1 DEF Next, Elsewhere
<1> DEFINE r == runs[m]
<1>2. /\ DOMAIN runs = Migrators
      /\ DOMAIN r = {"pc", "at", "target", "pos", "numbered", "created", "dropped", "touched"}
  BY DEF MInv, RunShape, Idle
<1>3. CASE Begin(m)
  <2>1. UNCHANGED version /\ runs' = [runs EXCEPT ![m] = runs'[m]] /\ ~runs'[m].numbered
    BY <1>2, <1>3, ZenonT(60) DEF Begin, Idle
  <2> QED BY <1>2, <2>1 DEF Elsewhere
<1>4. CASE Execute(m)
  <2>1. /\ UNCHANGED version /\ runs' = [runs EXCEPT ![m] = runs'[m]]
        /\ runs'[m].numbered = r.numbered /\ runs'[m].target = r.target
    BY <1>2, <1>4 DEF Execute
  <2> QED BY <1>2, <2>1 DEF Elsewhere
<1>5. CASE Number(m)
  <2>1. /\ UNCHANGED version /\ runs' = [runs EXCEPT ![m] = runs'[m]]
        /\ r.at # r.target /\ SameVersion(r) /\ runs'[m].target = r.target
    BY <1>2, <1>5 DEF Number, AtEndOfScript
  <2>2. r.target # version
    BY <2>1 DEF SameVersion, Elsewhere
  <2> QED BY <1>2, <2>1, <2>2 DEF Elsewhere
<1>6. CASE Commit(m)
  <2>1. runs' = [runs EXCEPT ![m] = Idle] /\ r.numbered
    BY <1>6 DEF Commit, MInv, RunInv
  <2> QED BY <1>2, <2>1, IdleInv DEF MInv
<1>7. CASE RollBack(m)
  <2>1. runs' = [runs EXCEPT ![m] = Idle] /\ UNCHANGED version
    BY <1>7 DEF RollBack
  <2> QED BY <1>2, <2>1, IdleInv DEF Elsewhere
<1> QED BY <1>3, <1>4, <1>5, <1>6, <1>7

LEMMA StepMoves ==
  MInv /\ Elsewhere /\ [Next]_vars => [History!Next]_<<catalog, version, Moves>>
<1> SUFFICES ASSUME MInv, Elsewhere, [Next]_vars
             PROVE  [History!Next]_<<catalog, version, Moves>>
  OBVIOUS
<1>1. CASE UNCHANGED vars
  BY <1>1 DEF vars, Moves, Planned
<1>2. CASE \E m \in Migrators : Begin(m) \/ Commit(m) \/ RollBack(m)
  BY <1>2, BeginPlans, CommitMoves, RollBackGivesUp DEF History!Next
<1>3. CASE \E m \in Migrators : Execute(m) \/ Number(m)
  BY <1>3, ExecuteMovesNothing, NumberMovesNothing
<1> QED BY <1>1, <1>2, <1>3 DEF Next

\* Migrators that overlap, overtake each other or break off implement the history of
\* versions: each upgrade or downgrade happens as a whole, on the version it began at.
THEOREM HistoryImplemented ==
  Spec => ImplementsHistory
<1>1. Init => History!Init /\ Elsewhere
  <2> SUFFICES ASSUME Init PROVE History!Init /\ Elsewhere
    OBVIOUS
  <2>1. \A m \in Migrators : runs[m] = Idle
    BY DEF Init
  <2>2. \A m \in Migrators : Planned(runs[m]) = History!NoMove /\ ~runs[m].numbered
    BY <2>1, IdlePlansNothing, IdleInv
  <2> QED BY <2>2, SchemaOf DEF Init, History!Init, Elsewhere
<1> QED BY <1>1, MInvAlways, ElsewhereNext, StepMoves, PTL
        DEF Spec, ImplementsHistory, History!Spec, Moves

-----------------------------------------------------------------------------
(* What the tables of each version refer to. *)

LEMMA TableMade ==
  ASSUME NEW v \in 0..4, NEW o \in Tables(SchemaAt[v])
  PROVE  \E u \in 1..v : \E k \in 1..Len(Upgrade[u]) :
           /\ Upgrade[u][k].op = "create_table"
           /\ o.name = Upgrade[u][k].name /\ o.table = Upgrade[u][k].table
<1>1. o \in SchemaAt[v] /\ o.kind = "table"
  BY DEF Tables
<1>2. PICK u \in 1..v : o \in MadeBy(Upgrade[u])
  BY <1>1, SchemaOf
<1>3. PICK k \in 1..Len(Upgrade[u]) : o \in Made(Upgrade[u][k])
  BY <1>2 DEF MadeBy
<1>4. PICK st : st = Upgrade[u][k]
  OBVIOUS
<1>5. st.op = "create_table" /\ o.name = st.name /\ o.table = st.table
  BY <1>1, <1>3, <1>4 DEF Made, Object
<1> QED BY <1>4, <1>5

\* The models declare what the revision makes; a document they give its current version,
\* which the revision does not.
RefsDeclared(st) ==
  IF st.name = "documents"
  THEN {Org, Base, Notes("current_version_id", "document_versions")} ELSE st.table.refs

DeclaredFor(st) ==
  /\ Declared(st.name, RefsDeclared(st), st.table.uniques) \in Metadata
  /\ st.name = "documents" => st.table.refs = {Org, Base}

LEMMA TablesDeclared ==
  ASSUME NEW v \in 1..4, NEW k \in 1..Len(Upgrade[v]), Upgrade[v][k].op = "create_table"
  PROVE  DeclaredFor(Upgrade[v][k])
<1>0. PICK st : st = Upgrade[v][k]
  OBVIOUS
<1>a. \A d : d \in declared_organizations \/ d \in declared_users \/ d \in declared_integrations
              \/ d \in declared_documents \/ d \in declared_chunks \/ d \in declared_tasks
              \/ d \in declared_records => d \in Metadata
  BY DEF Metadata
<1>b. st.op = "create_table"
  BY <1>0
<1>1. CASE v = 1
  BY <1>0, <1>a, <1>1, Scripts, Lengths, StatementParts, TableParts
     DEF upgrade_0001, DeclaredFor, RefsDeclared, declared_organizations, declared_users
<1>2. CASE v = 2
  BY <1>0, <1>a, <1>2, Scripts, Lengths, StatementParts, TableParts
     DEF upgrade_0002, DeclaredFor, RefsDeclared, declared_integrations
<1>3. CASE v = 3
  <2>1. ASSUME NEW j \in 1..7, st = upgrade_0003_documents[j] PROVE DeclaredFor(st)
    <3>1. \/ st = create_table("knowledge_bases",
                   Table({Org}, {{"organization_id", "name"}}, {}, {}))
          \/ st = create_table("documents",
                   Table({Org, Base}, {{"knowledge_base_id", "document_key"}}, {}, {"is_deleted"}))
          \/ st = create_table("document_versions",
                   Table({Org, Base, Doc}, {{"document_id", "version_number"}}, {}, {"is_current"}))
      BY <1>b, <2>1, StatementParts, SMTT(30) DEF upgrade_0003_documents
    <3>2. CASE st.name = "documents"
      <4>1. /\ st.table.refs = {Org, Base}
            /\ st.table.uniques = {{"knowledge_base_id", "document_key"}}
        BY <3>1, <3>2, StatementParts, TableParts
      <4>2. Declared("documents", {Org, Base, Notes("current_version_id", "document_versions")},
                     {{"knowledge_base_id", "document_key"}}) \in Metadata
        BY <1>a DEF declared_documents
      <4> QED BY <3>2, <4>1, <4>2 DEF DeclaredFor, RefsDeclared
    <3>3. CASE st.name # "documents"
      BY <1>a, <3>1, <3>3, StatementParts, TableParts
         DEF DeclaredFor, RefsDeclared, declared_documents
    <3> QED BY <3>2, <3>3
  <2>2. ASSUME NEW j \in 1..8, st = upgrade_0003_chunks[j] PROVE DeclaredFor(st)
    <3>1. \/ st = create_table("document_chunks",
                   Table({Org, Base, Doc, Owned("version_id", "document_versions")},
                         {{"version_id", "chunk_index"}}, {}, {}))
          \/ st = create_table("embeddings",
                   Table({Org, Base, Doc, Owned("chunk_id", "document_chunks")},
                         {{"chunk_id"}}, {}, {}))
          \/ st = create_table("retrieval_logs", retrieval_logs)
      BY <1>b, <2>2, StatementParts, SMTT(30) DEF upgrade_0003_chunks
    <3>2. /\ retrieval_logs.refs = {Org, Notes("knowledge_base_id", "knowledge_bases"),
                                    Notes("document_id", "documents"),
                                    Notes("actor_user_id", "users")}
          /\ retrieval_logs.uniques = {}
      BY TableParts DEF retrieval_logs
    <3>3. Declared("retrieval_logs", retrieval_logs.refs, retrieval_logs.uniques) \in Metadata
      BY <1>a, <3>2 DEF declared_chunks
    <3>4. CASE st.name = "retrieval_logs"
      BY <3>1, <3>3, <3>4, StatementParts DEF DeclaredFor, RefsDeclared
    <3>5. CASE st.name # "retrieval_logs"
      BY <1>a, <3>1, <3>5, StatementParts, TableParts
         DEF DeclaredFor, RefsDeclared, declared_chunks
    <3> QED BY <3>4, <3>5
  <2> QED BY <1>0, <1>3, <2>1, <2>2, Lengths, DocumentsOrChunks
<1>4. CASE v = 4
  <2>1. ASSUME NEW j \in 1..10, st = upgrade_0004_tasks[j] PROVE DeclaredFor(st)
    <3>1. \/ st = create_table("runtime_agents",
                   Table({Org}, {{"organization_id", "name"}}, {}, {"enabled"}))
          \/ st = create_table("runtime_conversations",
                   Table({Org, Agent}, {}, {"runtime_conversation_status"}, {}))
          \/ st = create_table("runtime_conversation_messages",
                   Table({Org, Owned("conversation_id", "runtime_conversations")}, {}, {}, {}))
          \/ st = create_table("runtime_tasks",
                   Table({Org, Agent, Notes("conversation_id", "runtime_conversations")},
                         {}, {"runtime_task_status"}, {}))
          \/ st = create_table("runtime_task_steps",
                   Table({Org, Owned("task_id", "runtime_tasks")}, {{"task_id", "step_index"}},
                         {"runtime_step_type"}, {}))
      BY <1>b, <2>1, StatementParts, SMTT(30) DEF upgrade_0004_tasks
    <3> QED BY <1>a, <3>1, StatementParts, TableParts
            DEF DeclaredFor, RefsDeclared, declared_tasks
  <2>2. ASSUME NEW j \in 1..7, st = upgrade_0004_records[j] PROVE DeclaredFor(st)
    <3>1. \/ st = create_table("runtime_events",
                   Table({Org, Task, Conversation, Agent}, {}, {"runtime_event_type"}, {}))
          \/ st = create_table("runtime_approvals",
                   Table({Org, Task, Follows("step_id", "runtime_task_steps"),
                          Notes("decided_by", "users")}, {}, {"runtime_approval_status"}, {}))
          \/ st = create_table("runtime_telemetry",
                   Table({Org, Task, Conversation, Agent}, {}, {}, {}))
      BY <1>b, <2>2, StatementParts, SMTT(30) DEF upgrade_0004_records
    <3> QED BY <1>a, <3>1, StatementParts, TableParts
            DEF DeclaredFor, RefsDeclared, declared_records
  <2> QED BY <1>0, <1>4, <2>1, <2>2, Lengths, TasksOrRecords
<1> QED BY <1>0, <1>1, <1>2, <1>3, <1>4

\* The foreign keys are written in three ways, and all but two of the tables below a
\* workspace name it.
Key(r) == \E c, t : r = Owned(c, t) \/ r = Follows(c, t) \/ r = Notes(c, t)

Belongs(d) ==
  /\ \A r \in d.refs : Key(r)
  /\ \/ d.name = "organizations"
     \/ Org \in d.refs
     \/ /\ d.name \in {"oauth_tokens", "integration_permissions"}
        /\ Owned("integration_id", "integrations") \in d.refs

LEMMA DeclaredParts ==
  \A n, r, u : /\ Declared(n, r, u).name = n /\ Declared(n, r, u).refs = r
               /\ Declared(n, r, u).uniques = u
BY DEF Declared

LEMMA DeclaredBelong ==
  ASSUME NEW d \in Metadata
  PROVE  Belongs(d)
<1>1. /\ \A c, t : Key(Owned(c, t)) /\ Key(Follows(c, t)) /\ Key(Notes(c, t))
      /\ Key(Org) /\ Key(Base) /\ Key(Doc) /\ Key(Agent) /\ Key(Task) /\ Key(Conversation)
  BY DEF Key, Org, Base, Doc, Agent, Task, Conversation
<1>2. CASE d \in declared_organizations \cup declared_users
  BY <1>1, <1>2, DeclaredParts DEF declared_organizations, declared_users, Belongs
<1>3. CASE d \in declared_integrations
  BY <1>1, <1>3, DeclaredParts DEF declared_integrations, Belongs
<1>4. CASE d \in declared_documents
  BY <1>1, <1>4, DeclaredParts DEF declared_documents, Belongs
<1>5. CASE d \in declared_chunks
  BY <1>1, <1>5, DeclaredParts DEF declared_chunks, Belongs
<1>6. CASE d \in declared_tasks
  BY <1>1, <1>6, DeclaredParts DEF declared_tasks, Belongs
<1>7. CASE d \in declared_records
  BY <1>1, <1>7, DeclaredParts DEF declared_records, Belongs
<1> QED BY <1>2, <1>3, <1>4, <1>5, <1>6, <1>7 DEF Metadata

LEMMA TableDeclared ==
  ASSUME NEW v \in 0..4, NEW o \in Tables(SchemaAt[v])
  PROVE  \E d \in Metadata :
           /\ d.name = o.name /\ d.uniques = o.table.uniques /\ o.table.refs \subseteq d.refs
           /\ o.table.refs = d.refs \/ o.table.refs = {Org, Base}
<1>1. PICK u \in 1..v : \E k \in 1..Len(Upgrade[u]) :
        /\ Upgrade[u][k].op = "create_table"
        /\ o.name = Upgrade[u][k].name /\ o.table = Upgrade[u][k].table
  BY TableMade
<1>2. PICK k \in 1..Len(Upgrade[u]) :
        /\ Upgrade[u][k].op = "create_table"
        /\ o.name = Upgrade[u][k].name /\ o.table = Upgrade[u][k].table
  BY <1>1
<1>3. PICK st : st = Upgrade[u][k]
  OBVIOUS
<1>4. DeclaredFor(st)
  BY <1>2, <1>3, TablesDeclared
<1>5. /\ st.table.refs \subseteq RefsDeclared(st)
      /\ st.table.refs = RefsDeclared(st) \/ st.table.refs = {Org, Base}
  BY <1>4 DEF DeclaredFor, RefsDeclared
<1> QED BY <1>2, <1>3, <1>4, <1>5, DeclaredParts DEF DeclaredFor

\* Every table of the database is one the models declare, with no foreign key and no
\* uniqueness constraint but theirs.
THEOREM DeclaredOnly ==
  Spec => []MigratedIsDeclared
<1>1. MInv => MigratedIsDeclared
  BY TableDeclared DEF MInv, MigratedIsDeclared
<1> QED BY <1>1, MInvAlways, PTL

\* What is made with the version of a table is there with the table.
LEMMA SameRevision ==
  ASSUME NEW v \in 0..4, NEW o \in Tables(SchemaAt[v]),
         o.name \in {"oauth_tokens", "integration_permissions"}
  PROVE  \E p \in Tables(SchemaAt[v]) : p.name = "integrations" /\ Org \in p.table.refs
<1>1. PICK u \in 1..v : o \in MadeBy(Upgrade[u])
  BY SchemaOf DEF Tables
<1>2. u = 2
  <2>1. o.kind # "type" /\ o.on = o.name
    BY <1>1, MadeHere DEF Tables
  <2>2. o.name \in TablesOf[u]
    BY <1>1, <2>1, MadeHere
  <2> QED BY <1>1, <2>2 DEF TablesOf
<1>3. PICK st : st = Upgrade[2][1]
  OBVIOUS
<1>4. st.op = "create_table" /\ st.name = "integrations" /\ st.table.refs = {Org}
  BY <1>3, Scripts, StatementParts, TableParts DEF upgrade_0002
<1>5. PICK p : p = Object("table", st.name, st.name, st.table)
  OBVIOUS
<1>6. p \in Made(st) /\ p.kind = "table" /\ p.name = st.name /\ p.table = st.table
  BY <1>4, <1>5 DEF Made, Object
<1>7. p \in MadeBy(Upgrade[2])
  BY <1>3, <1>6, Lengths DEF MadeBy
<1>8. p \in SchemaAt[v]
  BY <1>1, <1>2, <1>7, SchemaOf
<1> QED BY <1>4, <1>6, <1>8 DEF Tables

LEMMA KeyParts ==
  /\ \A c, t : Owned(c, t).rule = "CASCADE" /\ Owned(c, t).required = TRUE /\ Owned(c, t).to = t
  /\ \A c, t : Follows(c, t).rule = "CASCADE" /\ ~Notes(c, t).required
BY DEF Owned, Follows, Notes

\* Deleting an organization goes through and leaves nothing of it in any version.
THEOREM RowsFollow ==
  Spec => []WorkspaceRowsFollow
<1> DEFINE Follow(o) == {r.to : r \in {q \in o.table.refs : q.rule = "CASCADE" /\ q.required}}
           ofOrganization == {o.name : o \in {p \in Tables(catalog) :
                                                "organizations" \in Follow(p)}}
<1>1. ASSUME MInv, NEW o \in Tables(catalog)
      PROVE  /\ o.name # "organizations" =>
                  Follow(o) \cap (ofOrganization \cup {"organizations"}) # {}
             /\ \A r \in o.table.refs : r.rule = "SET NULL" => ~r.required
  <2>1. version \in 0..4 /\ catalog = SchemaAt[version]
    BY <1>1 DEF MInv
  <2>2. PICK d \in Metadata : /\ d.name = o.name /\ o.table.refs \subseteq d.refs
                              /\ o.table.refs = d.refs \/ o.table.refs = {Org, Base}
    BY <2>1, TableDeclared
  <2>3. Belongs(d)
    BY DeclaredBelong
  <2>4. \A r \in o.table.refs : r.rule = "SET NULL" => ~r.required
    <3>1. SUFFICES ASSUME NEW r \in o.table.refs, r.rule = "SET NULL" PROVE ~r.required
      OBVIOUS
    <3>2. \E c, t : r = Owned(c, t) \/ r = Follows(c, t) \/ r = Notes(c, t)
      BY <2>2, <2>3 DEF Belongs, Key
    <3>3. \E c, t : r = Notes(c, t)
      BY <3>1, <3>2, KeyParts
    <3> QED BY <3>3, KeyParts
  <2>5. \A p \in Tables(catalog) : Org \in p.table.refs => "organizations" \in Follow(p)
    BY KeyParts DEF Org
  <2>6. CASE Org \in o.table.refs
    BY <2>4, <2>5, <2>6
  <2>7. CASE Org \notin o.table.refs /\ o.name # "organizations"
    <3>1. /\ o.name \in {"oauth_tokens", "integration_permissions"}
          /\ Owned("integration_id", "integrations") \in o.table.refs
      BY <2>2, <2>3, <2>7 DEF Belongs
    <3>2. PICK p \in Tables(catalog) : p.name = "integrations" /\ Org \in p.table.refs
      BY <2>1, <3>1, SameRevision
    <3>3. "integrations" \in ofOrganization
      BY <2>5, <3>2
    <3>4. "integrations" \in Follow(o)
      BY <3>1, KeyParts
    <3> QED BY <2>4, <3>3, <3>4
  <2> QED BY <2>4, <2>6, <2>7
<1>2. MInv => WorkspaceRowsFollow
  BY <1>1, Zenon DEF WorkspaceRowsFollow
<1> QED BY <1>2, MInvAlways, PTL

-----------------------------------------------------------------------------
(* The order in which the scripts make and drop. *)

\* The statement that makes each name, a type with the table that has it.
made_0001 ==
  [organizations |-> 1, users |-> 2, ix_users_email |-> 3]

made_0002 ==
  [integrations |-> 1, ix_integrations_organization_status |-> 2, oauth_tokens |-> 3,
   ix_oauth_tokens_expires_at |-> 4, integration_logs |-> 5,
   ix_integration_logs_integration_action |-> 6, integration_permissions |-> 7,
   ix_integration_permissions_user |-> 8]

made_0003 ==
  [knowledge_bases |-> 1, ix_knowledge_bases_organization_status |-> 2, documents |-> 3,
   ix_documents_organization_knowledge_base |-> 4, ix_documents_checksum |-> 5,
   document_versions |-> 6, ix_document_versions_checksum |-> 7, document_chunks |-> 8,
   ix_document_chunks_organization_knowledge_base |-> 9,
   ix_document_chunks_version_index |-> 10, embeddings |-> 11,
   ix_embeddings_organization_knowledge_base |-> 12, retrieval_logs |-> 13,
   ix_retrieval_logs_organization_created_at |-> 14,
   ix_retrieval_logs_knowledge_base_created_at |-> 15]

made_0004 ==
  [runtime_agents |-> 1, ix_runtime_agents_org_enabled |-> 2, runtime_conversations |-> 3,
   ix_runtime_conversations_org_status |-> 4, runtime_conversation_messages |-> 5,
   ix_runtime_conversation_messages_conversation |-> 6, runtime_tasks |-> 7,
   ix_runtime_tasks_org_status |-> 8, runtime_task_steps |-> 9,
   ix_runtime_task_steps_task_status |-> 10, runtime_events |-> 11,
   ix_runtime_events_org_created_at |-> 12, runtime_approvals |-> 13,
   ix_runtime_approvals_org_status |-> 14, runtime_telemetry |-> 15,
   ix_runtime_telemetry_org_created_at |-> 16,
   ix_runtime_telemetry_task_created_at |-> 17, runtime_conversation_status |-> 3,
   runtime_task_status |-> 7, runtime_step_type |-> 9, runtime_event_type |-> 11,
   runtime_approval_status |-> 13]

\* The statement that drops each.
dropped_0001 ==
  [ix_users_email |-> 1, users |-> 2, organizations |-> 3]

dropped_0002 ==
  [ix_integration_permissions_user |-> 1, integration_permissions |-> 2,
   ix_integration_logs_integration_action |-> 3, integration_logs |-> 4,
   ix_oauth_tokens_expires_at |-> 5, oauth_tokens |-> 6,
   ix_integrations_organization_status |-> 7, integrations |-> 8]

dropped_0003 ==
  [ix_retrieval_logs_knowledge_base_created_at |-> 1,
   ix_retrieval_logs_organization_created_at |-> 2, retrieval_logs |-> 3,
   ix_embeddings_organization_knowledge_base |-> 4, embeddings |-> 5,
   ix_document_chunks_version_index |-> 6,
   ix_document_chunks_organization_knowledge_base |-> 7, document_chunks |-> 8,
   ix_document_versions_checksum |-> 9, document_versions |-> 10,
   ix_documents_checksum |-> 11, ix_documents_organization_knowledge_base |-> 12,
   documents |-> 13, ix_knowledge_bases_organization_status |-> 14,
   knowledge_bases |-> 15]

dropped_0004 ==
  [ix_runtime_telemetry_task_created_at |-> 1, ix_runtime_telemetry_org_created_at |-> 2,
   runtime_telemetry |-> 3, ix_runtime_approvals_org_status |-> 4,
   runtime_approvals |-> 5, ix_runtime_events_org_created_at |-> 6, runtime_events |-> 7,
   ix_runtime_task_steps_task_status |-> 8, runtime_task_steps |-> 9,
   ix_runtime_tasks_org_status |-> 10, runtime_tasks |-> 11,
   ix_runtime_conversation_messages_conversation |-> 12,
   runtime_conversation_messages |-> 13, ix_runtime_conversations_org_status |-> 14,
   runtime_conversations |-> 15, ix_runtime_agents_org_enabled |-> 16,
   runtime_agents |-> 17, runtime_event_type |-> 18, runtime_approval_status |-> 19,
   runtime_step_type |-> 20, runtime_task_status |-> 21,
   runtime_conversation_status |-> 22]

MadeAt == <<made_0001, made_0002, made_0003, made_0004>>
DroppedAt == <<dropped_0001, dropped_0002, dropped_0003, dropped_0004>>

LEMMA Places ==
  /\ MadeAt[1] = made_0001 /\ MadeAt[2] = made_0002
  /\ MadeAt[3] = made_0003 /\ MadeAt[4] = made_0004
  /\ DroppedAt[1] = dropped_0001 /\ DroppedAt[2] = dropped_0002
  /\ DroppedAt[3] = dropped_0003 /\ DroppedAt[4] = dropped_0004
BY DEF MadeAt, DroppedAt

LEMMA MadeInOrder ==
  ASSUME NEW v \in 1..4, NEW k \in 1..Len(Upgrade[v])
  PROVE  MadeAt[v][Upgrade[v][k].name] = k
<1>0. PICK st : st = Upgrade[v][k]
  OBVIOUS
<1>1. CASE v = 1
  BY <1>0, <1>1, Scripts, Lengths, Places, StatementParts DEF upgrade_0001, made_0001
<1>2. CASE v = 2
  BY <1>0, <1>2, Scripts, Lengths, Places, StatementParts DEF upgrade_0002, made_0002
<1>3. CASE v = 3
  <2>1. ASSUME NEW j \in 1..7, st = upgrade_0003_documents[j] PROVE MadeAt[3][st.name] = j
    BY <2>1, Places, StatementParts DEF upgrade_0003_documents, made_0003
  <2>2. ASSUME NEW j \in 1..8, st = upgrade_0003_chunks[j] PROVE MadeAt[3][st.name] = j + 7
    BY <2>2, Places, StatementParts DEF upgrade_0003_chunks, made_0003
  <2> QED BY <1>0, <1>3, <2>1, <2>2, Lengths, DocumentsOrChunks
<1>4. CASE v = 4
  <2>1. ASSUME NEW j \in 1..10, st = upgrade_0004_tasks[j] PROVE MadeAt[4][st.name] = j
    BY <2>1, Places, StatementParts, SMTT(30) DEF upgrade_0004_tasks, made_0004
  <2>2. ASSUME NEW j \in 1..7, st = upgrade_0004_records[j] PROVE MadeAt[4][st.name] = j + 10
    BY <2>2, Places, StatementParts, SMTT(30) DEF upgrade_0004_records, made_0004
  <2> QED BY <1>0, <1>4, <2>1, <2>2, Lengths, TasksOrRecords
<1> QED BY <1>0, <1>1, <1>2, <1>3, <1>4

LEMMA TypesMadeInOrder ==
  ASSUME NEW v \in 1..4, NEW k \in 1..Len(Upgrade[v]), Upgrade[v][k].op = "create_table",
         NEW n \in Upgrade[v][k].table.types
  PROVE  MadeAt[v][n] = k
<1>1. v = 4
  BY UpgradesMake DEF MakesOnly, TypesOf
<1>2. PICK st : st = Upgrade[4][k]
  OBVIOUS
<1>3. st.op = "create_table" /\ n \in st.table.types /\ MadeAt[4][st.name] = k
  BY <1>1, <1>2, MadeInOrder
<1>4. \/ n = "runtime_conversation_status" /\ st.name = "runtime_conversations"
      \/ n = "runtime_task_status" /\ st.name = "runtime_tasks"
      \/ n = "runtime_step_type" /\ st.name = "runtime_task_steps"
      \/ n = "runtime_event_type" /\ st.name = "runtime_events"
      \/ n = "runtime_approval_status" /\ st.name = "runtime_approvals"
  <2>1. CASE \E j \in 1..10 : st = upgrade_0004_tasks[j]
    BY <1>3, <2>1, StatementParts, TableParts DEF upgrade_0004_tasks
  <2>2. CASE \E j \in 1..7 : st = upgrade_0004_records[j]
    BY <1>3, <2>2, StatementParts, TableParts DEF upgrade_0004_records
  <2> QED BY <1>1, <1>2, <2>1, <2>2, Lengths, TasksOrRecords
<1> QED BY <1>1, <1>3, <1>4, Places DEF made_0004

LEMMA DroppedInOrder ==
  ASSUME NEW v \in 1..4, NEW k \in 1..Len(Downgrade[v])
  PROVE  DroppedAt[v][Downgrade[v][k].name] = k
<1>0. PICK st : st = Downgrade[v][k]
  OBVIOUS
<1>1. CASE v = 1
  BY <1>0, <1>1, Scripts, Lengths, Places, StatementParts DEF downgrade_0001, dropped_0001
<1>2. CASE v = 2
  BY <1>0, <1>2, Scripts, Lengths, Places, StatementParts DEF downgrade_0002, dropped_0002
<1>3. CASE v = 3
  BY <1>0, <1>3, Scripts, Lengths, Places, StatementParts, SMTT(30)
     DEF downgrade_0003, dropped_0003
<1>4. CASE v = 4
  <2>1. ASSUME NEW j \in 1..17, st = downgrade_0004_tables[j]
        PROVE  DroppedAt[4][st.name] = j
    BY <2>1, Places, StatementParts, SMTT(30) DEF downgrade_0004_tables, dropped_0004
  <2>2. ASSUME NEW j \in 1..5, st = downgrade_0004_types[j]
        PROVE  DroppedAt[4][st.name] = j + 17
    BY <2>2, Places, StatementParts, SMTT(30) DEF downgrade_0004_types, dropped_0004
  <2> QED BY <1>0, <1>4, <2>1, <2>2, Lengths, TablesOrTypes
<1> QED BY <1>0, <1>1, <1>2, <1>3, <1>4

LEMMA TableFound ==
  ASSUME NEW v \in 1..4, NEW n \in TablesOf[v]
  PROVE  /\ MadeAt[v][n] \in 1..Len(Upgrade[v])
         /\ Upgrade[v][MadeAt[v][n]].op = "create_table" /\ Upgrade[v][MadeAt[v][n]].name = n
<1>0. PICK k : k = MadeAt[v][n]
  OBVIOUS
<1>1. CASE v = 1
  BY <1>0, <1>1, Scripts, Lengths, Places, StatementParts DEF upgrade_0001, made_0001, TablesOf
<1>2. CASE v = 2
  BY <1>0, <1>2, Scripts, Lengths, Places, StatementParts DEF upgrade_0002, made_0002, TablesOf
<1>3. CASE v = 3
  BY <1>0, <1>3, Scripts, Lengths, Places, StatementParts, SMTT(30)
     DEF upgrade_0003_documents, upgrade_0003_chunks, made_0003, TablesOf
<1>4. CASE v = 4
  BY <1>0, <1>4, Scripts, Lengths, Places, StatementParts, SMTT(30)
     DEF upgrade_0004_tasks, upgrade_0004_records, made_0004, TablesOf
<1> QED BY <1>0, <1>1, <1>2, <1>3, <1>4

LEMMA IndexFound ==
  ASSUME NEW v \in 1..4, NEW n \in IndexesOf[v]
  PROVE  /\ MadeAt[v][n] \in 1..Len(Upgrade[v])
         /\ Upgrade[v][MadeAt[v][n]].op = "create_index" /\ Upgrade[v][MadeAt[v][n]].name = n
<1>0. PICK k : k = MadeAt[v][n]
  OBVIOUS
<1>1. CASE v = 1
  BY <1>0, <1>1, Scripts, Lengths, Places, StatementParts DEF upgrade_0001, made_0001, IndexesOf
<1>2. CASE v = 2
  BY <1>0, <1>2, Scripts, Lengths, Places, StatementParts DEF upgrade_0002, made_0002, IndexesOf
<1>3. CASE v = 3
  <2>1. k \in 1..15
    BY <1>0, <1>3, Places DEF made_0003, IndexesOf
  <2>2. CASE k \in 1..7
    <3>1. PICK st : st = upgrade_0003_documents[k]
      OBVIOUS
    <3>2. st.op = "create_index" /\ st.name = n
      BY <1>0, <1>3, <2>2, <3>1, Places, StatementParts, SMTT(30)
         DEF upgrade_0003_documents, made_0003, IndexesOf
    <3> QED BY <1>0, <1>3, <2>1, <2>2, <3>1, <3>2, Lengths, DocumentsOrChunks
  <2>3. ASSUME NEW j \in 1..8, k = j + 7, Upgrade[3][k] = upgrade_0003_chunks[j]
        PROVE  Upgrade[3][k].op = "create_index" /\ Upgrade[3][k].name = n
    <3>1. PICK st : st = upgrade_0003_chunks[j]
      OBVIOUS
    <3>2. st.op = "create_index" /\ st.name = n
      BY <1>0, <1>3, <2>3, <3>1, Places, StatementParts, SMTT(30)
         DEF upgrade_0003_chunks, made_0003, IndexesOf
    <3> QED BY <2>3, <3>1, <3>2
  <2> QED BY <1>0, <1>3, <2>1, <2>2, <2>3, Lengths, DocumentsOrChunks
<1>4. CASE v = 4
  BY <1>0, <1>4, Scripts, Lengths, Places, StatementParts, SMTT(30)
     DEF upgrade_0004_tasks, upgrade_0004_records, made_0004, IndexesOf
<1> QED BY <1>0, <1>1, <1>2, <1>3, <1>4

LEMMA TypeFound ==
  ASSUME NEW v \in 1..4, NEW n \in TypesOf[v]
  PROVE  /\ MadeAt[v][n] \in 1..Len(Upgrade[v])
         /\ Upgrade[v][MadeAt[v][n]].op = "create_table"
         /\ n \in Upgrade[v][MadeAt[v][n]].table.types
<1>1. v = 4
  BY DEF TypesOf
<1>2. /\ Upgrade[4][3] = create_table("runtime_conversations",
                           Table({Org, Agent}, {}, {"runtime_conversation_status"}, {}))
      /\ Upgrade[4][7] = create_table("runtime_tasks",
           Table({Org, Agent, Notes("conversation_id", "runtime_conversations")},
                 {}, {"runtime_task_status"}, {}))
      /\ Upgrade[4][9] = create_table("runtime_task_steps",
           Table({Org, Owned("task_id", "runtime_tasks")}, {{"task_id", "step_index"}},
                 {"runtime_step_type"}, {}))
      /\ Upgrade[4][11] = create_table("runtime_events",
           Table({Org, Task, Conversation, Agent}, {}, {"runtime_event_type"}, {}))
      /\ Upgrade[4][13] = create_table("runtime_approvals",
           Table({Org, Task, Follows("step_id", "runtime_task_steps"),
                  Notes("decided_by", "users")}, {}, {"runtime_approval_status"}, {}))
  BY Scripts DEF upgrade_0004_tasks, upgrade_0004_records
<1>3. /\ \A k \in {3, 7, 9, 11, 13} : Upgrade[4][k].op = "create_table"
      /\ Upgrade[4][3].table.types = {"runtime_conversation_status"}
      /\ Upgrade[4][7].table.types = {"runtime_task_status"}
      /\ Upgrade[4][9].table.types = {"runtime_step_type"}
      /\ Upgrade[4][11].table.types = {"runtime_event_type"}
      /\ Upgrade[4][13].table.types = {"runtime_approval_status"}
  BY <1>2, StatementParts, TableParts
<1>4. \/ n = "runtime_conversation_status" /\ MadeAt[4][n] = 3
      \/ n = "runtime_task_status" /\ MadeAt[4][n] = 7
      \/ n = "runtime_step_type" /\ MadeAt[4][n] = 9
      \/ n = "runtime_event_type" /\ MadeAt[4][n] = 11
      \/ n = "runtime_approval_status" /\ MadeAt[4][n] = 13
  BY <1>1, Places DEF TypesOf, made_0004
<1> QED BY <1>1, <1>3, <1>4, Lengths

\* An index is on a table its script made before it and drops after it.
LEMMA IndexesBackward ==
  ASSUME NEW v \in 1..4, NEW k \in 1..Len(Upgrade[v]), Upgrade[v][k].op = "create_index"
  PROVE  /\ Upgrade[v][k].on \in TablesOf[v] /\ MadeAt[v][Upgrade[v][k].on] < k
         /\ DroppedAt[v][Upgrade[v][k].name] < DroppedAt[v][Upgrade[v][k].on]
<1>0. PICK st : st = Upgrade[v][k]
  OBVIOUS
<1>1. MadeAt[v][st.name] = k
  BY <1>0, MadeInOrder
<1>2. MadeAt[v][st.on] < MadeAt[v][st.name] /\ DroppedAt[v][st.name] < DroppedAt[v][st.on]
  <2>1. CASE v = 1
    BY <1>0, <2>1, Scripts, Lengths, Places, StatementParts
       DEF upgrade_0001, made_0001, dropped_0001
  <2>2. CASE v = 2
    BY <1>0, <2>2, Scripts, Lengths, Places, StatementParts
       DEF upgrade_0002, made_0002, dropped_0002
  <2>3. CASE v = 3
    BY <1>0, <2>3, Scripts, Lengths, Places, StatementParts, SMTT(30)
       DEF upgrade_0003_documents, upgrade_0003_chunks, made_0003, dropped_0003
  <2>4. CASE v = 4
    <3>1. \/ st.name = "ix_runtime_agents_org_enabled" /\ st.on = "runtime_agents"
          \/ st.name = "ix_runtime_conversations_org_status" /\ st.on = "runtime_conversations"
          \/ /\ st.name = "ix_runtime_conversation_messages_conversation"
             /\ st.on = "runtime_conversation_messages"
          \/ st.name = "ix_runtime_tasks_org_status" /\ st.on = "runtime_tasks"
          \/ st.name = "ix_runtime_task_steps_task_status" /\ st.on = "runtime_task_steps"
          \/ st.name = "ix_runtime_events_org_created_at" /\ st.on = "runtime_events"
          \/ st.name = "ix_runtime_approvals_org_status" /\ st.on = "runtime_approvals"
          \/ st.name = "ix_runtime_telemetry_org_created_at" /\ st.on = "runtime_telemetry"
          \/ st.name = "ix_runtime_telemetry_task_created_at" /\ st.on = "runtime_telemetry"
      BY <1>0, <2>4, Scripts, Lengths, StatementParts, SMTT(60)
         DEF upgrade_0004_tasks, upgrade_0004_records
    <3>2. MadeAt[4][st.on] < MadeAt[4][st.name]
      BY <3>1, Places, SMTT(30) DEF made_0004
    <3>3. DroppedAt[4][st.name] < DroppedAt[4][st.on]
      BY <3>1, Places, SMTT(30) DEF dropped_0004
    <3> QED BY <2>4, <3>2, <3>3
  <2> QED BY <2>1, <2>2, <2>3, <2>4
<1> QED BY <1>0, <1>1, <1>2, UpgradesMake DEF MakesOnly

\* No type is dropped before the tables.
LEMMA TypesLast ==
  ASSUME NEW v \in 1..4, NEW n \in TypesOf[v], NEW t \in TablesOf[v]
  PROVE  DroppedAt[v][t] < DroppedAt[v][n]
<1>1. v = 4
  BY DEF TypesOf
<1>2. \A ty \in TypesOf[4] : DroppedAt[4][ty] >= 18 /\ DroppedAt[4][ty] \in Nat
  BY Places DEF TypesOf, dropped_0004
<1>3. \A ta \in TablesOf[4] : DroppedAt[4][ta] <= 17 /\ DroppedAt[4][ta] \in Nat
  BY Places DEF TablesOf, dropped_0004
<1> QED BY <1>1, <1>2, <1>3

\* A table refers to what the first version made, or to what its script made before it and
\* drops after it.
Backward(v, n, to) ==
  \/ v > 1 /\ to \in TablesOf[1]
  \/ /\ to \in TablesOf[v]
     /\ MadeAt[v][to] < MadeAt[v][n] /\ DroppedAt[v][n] < DroppedAt[v][to]

LEMMA KeysTo ==
  /\ \A c, t : Owned(c, t).to = t /\ Follows(c, t).to = t /\ Notes(c, t).to = t
  /\ Org.to = "organizations" /\ Base.to = "knowledge_bases" /\ Doc.to = "documents"
  /\ Agent.to = "runtime_agents" /\ Task.to = "runtime_tasks"
  /\ Conversation.to = "runtime_conversations"
BY DEF Owned, Follows, Notes, Org, Base, Doc, Agent, Task, Conversation

LEMMA DeclaredBackward ==
  ASSUME NEW v \in 1..4, NEW d \in Metadata, d.name \in TablesOf[v], d.name # "documents",
         NEW r \in d.refs
  PROVE  Backward(v, d.name, r.to)
<1>1. CASE d \in declared_organizations \cup declared_users
  <2>1. d.name = "users" /\ r.to = "organizations"
    BY <1>1, KeysTo, DeclaredParts DEF declared_organizations, declared_users
  <2>2. v = 1
    BY <2>1 DEF TablesOf
  <2> QED BY <2>1, <2>2, Places DEF Backward, TablesOf, made_0001, dropped_0001
<1>2. CASE d \in declared_integrations
  <2>1. /\ r.to \in {"organizations", "users", "integrations"}
        /\ d.name \in {"integrations", "oauth_tokens", "integration_logs",
                       "integration_permissions"}
        /\ r.to = "integrations" => d.name # "integrations"
    BY <1>2, KeysTo, DeclaredParts DEF declared_integrations
  <2>2. v = 2
    BY <2>1 DEF TablesOf
  <2> QED BY <2>1, <2>2, Places DEF Backward, TablesOf, made_0002, dropped_0002
<1>3. CASE d \in declared_documents \cup declared_chunks
  <2>1. \/ r.to \in {"organizations", "users"}
        \/ r.to = "knowledge_bases" /\ d.name # "knowledge_bases"
        \/ /\ r.to = "documents" /\ d.name # "knowledge_bases"
        \/ r.to = "document_versions" /\ d.name = "document_chunks"
        \/ r.to = "document_chunks" /\ d.name = "embeddings"
    BY <1>3, KeysTo, DeclaredParts DEF declared_documents, declared_chunks
  <2>2. d.name \in {"knowledge_bases", "document_versions", "document_chunks", "embeddings",
                    "retrieval_logs"}
    BY <1>3, DeclaredParts DEF declared_documents, declared_chunks
  <2>3. v = 3
    BY <2>2 DEF TablesOf
  <2> QED BY <2>1, <2>2, <2>3, Places DEF Backward, TablesOf, made_0003, dropped_0003
<1>4. CASE d \in declared_tasks
  <2>1. \/ r.to = "organizations"
        \/ r.to = "runtime_agents" /\ d.name # "runtime_agents"
        \/ /\ r.to = "runtime_conversations"
           /\ d.name \in {"runtime_conversation_messages", "runtime_tasks"}
        \/ r.to = "runtime_tasks" /\ d.name = "runtime_task_steps"
    BY <1>4, KeysTo, DeclaredParts DEF declared_tasks
  <2>2. d.name \in {"runtime_agents", "runtime_conversations", "runtime_conversation_messages",
                    "runtime_tasks", "runtime_task_steps"}
    BY <1>4, DeclaredParts DEF declared_tasks
  <2>3. v = 4
    BY <2>2 DEF TablesOf
  <2> QED BY <2>1, <2>2, <2>3, Places DEF Backward, TablesOf, made_0004, dropped_0004
<1>5. CASE d \in declared_records
  <2>1. r.to \in {"organizations", "users", "runtime_agents", "runtime_conversations",
                  "runtime_tasks", "runtime_task_steps"}
    BY <1>5, KeysTo, DeclaredParts DEF declared_records
  <2>2. d.name \in {"runtime_events", "runtime_approvals", "runtime_telemetry"}
    BY <1>5, DeclaredParts DEF declared_records
  <2>3. v = 4
    BY <2>2 DEF TablesOf
  <2> QED BY <2>1, <2>2, <2>3, Places DEF Backward, TablesOf, made_0004, dropped_0004
<1> QED BY <1>1, <1>2, <1>3, <1>4, <1>5 DEF Metadata

LEMMA TablesBackward ==
  ASSUME NEW v \in 1..4, NEW k \in 1..Len(Upgrade[v]), Upgrade[v][k].op = "create_table",
         NEW r \in Upgrade[v][k].table.refs
  PROVE  Backward(v, Upgrade[v][k].name, r.to)
<1>0. PICK st : st = Upgrade[v][k]
  OBVIOUS
<1>1. DeclaredFor(st) /\ st.name \in TablesOf[v] /\ r \in st.table.refs
  BY <1>0, TablesDeclared, UpgradesMake DEF MakesOnly
<1>2. CASE st.name = "documents"
  <2>1. r.to \in {"organizations", "knowledge_bases"}
    BY <1>1, <1>2, KeysTo DEF DeclaredFor
  <2>2. v = 3
    BY <1>1, <1>2 DEF TablesOf
  <2>3. Backward(3, "documents", r.to)
    BY <2>1, Places DEF Backward, TablesOf, made_0003, dropped_0003
  <2> QED BY <1>0, <1>2, <2>2, <2>3
<1>3. CASE st.name # "documents"
  <2>1. PICK d \in Metadata : d.name = st.name /\ d.refs = st.table.refs
    BY <1>1, <1>3, DeclaredParts DEF DeclaredFor, RefsDeclared
  <2>2. Backward(v, d.name, r.to)
    BY <1>1, <1>3, <2>1, DeclaredBackward
  <2> QED BY <1>0, <2>1, <2>2
<1> QED BY <1>2, <1>3

-----------------------------------------------------------------------------
(* Every statement is accepted where its script has brought the schema. *)

LEMMA NameMadeAt ==
  ASSUME NEW v \in 1..4, NEW k \in 1..Len(Upgrade[v]), NEW o \in Made(Upgrade[v][k])
  PROVE  o.name \in NamesOf(v) /\ MadeAt[v][o.name] = k
<1>0. PICK st : st = Upgrade[v][k]
  OBVIOUS
<1>1. o \in MadeBy(Upgrade[v])
  BY DEF MadeBy
<1>2. o.name = st.name \/ (st.op = "create_table" /\ o.name \in st.table.types)
  BY <1>0 DEF Made, Object
<1> QED BY <1>0, <1>1, <1>2, MadeHere, MadeInOrder, TypesMadeInOrder

LEMMA TableMadeAt ==
  ASSUME NEW v \in 1..4, NEW n \in TablesOf[v]
  PROVE  \E o \in Made(Upgrade[v][MadeAt[v][n]]) : o.kind = "table" /\ o.name = n /\ o.on = n
<1>0. PICK st : st = Upgrade[v][MadeAt[v][n]]
  OBVIOUS
<1>1. st.op = "create_table" /\ st.name = n
  BY <1>0, TableFound
<1>2. PICK o : o = Object("table", n, n, st.table)
  OBVIOUS
<1>3. o \in Made(st) /\ o.kind = "table" /\ o.name = n /\ o.on = n
  BY <1>1, <1>2 DEF Made, Object
<1> QED BY <1>0, <1>3

LEMMA UpgradeAccepted ==
  ASSUME NEW v \in 1..4, NEW k \in 1..Len(Upgrade[v]), NEW cat,
         cat = SchemaAt[v - 1] \cup UNION {Made(Upgrade[v][j]) : j \in 1..(k - 1)},
         WritesDefault(Upgrade[v][k]) => DefaultsMended
  PROVE  Accepts(cat, Upgrade[v][k])
<1>0. PICK st : st = Upgrade[v][k]
  OBVIOUS
<1>1. v - 1 \in 0..4 /\ Len(Upgrade[v]) \in Nat
  BY Lengths
<1>2. MakesOnly(v, st)
  BY <1>0, UpgradesMake
<1>3. ASSUME NEW n \in NamesOf(v), MadeAt[v][n] = k
      PROVE  n \notin Names(cat)
  <2>1. SUFFICES ASSUME NEW o \in cat, o.name = n PROVE FALSE
    BY DEF Names
  <2>2. CASE o \in SchemaAt[v - 1]
    <3>1. PICK u \in 1..(v - 1) : o \in MadeBy(Upgrade[u])
      BY <1>1, <2>2, SchemaOf
    <3>2. u \in 1..4 /\ u # v
      BY <3>1
    <3> QED BY <2>1, <3>1, <3>2, MadeHere, NamesApart
  <2>3. CASE \E j \in 1..(k - 1) : o \in Made(Upgrade[v][j])
    <3>1. PICK j \in 1..(k - 1) : o \in Made(Upgrade[v][j])
      BY <2>3
    <3>2. j \in 1..Len(Upgrade[v]) /\ j # k
      BY <1>1, <3>1
    <3> QED BY <1>3, <2>1, <3>1, <3>2, NameMadeAt
  <2> QED BY <2>2, <2>3
<1>4. ASSUME NEW n, \/ v > 1 /\ n \in TablesOf[1]
                    \/ n \in TablesOf[v] /\ MadeAt[v][n] < k
      PROVE  n \in Names(Tables(cat))
  <2>1. CASE v > 1 /\ n \in TablesOf[1]
    <3>1. PICK o \in Made(Upgrade[1][MadeAt[1][n]]) : o.kind = "table" /\ o.name = n
      BY <2>1, TableMadeAt
    <3>2. o \in MadeBy(Upgrade[1])
      BY <2>1, <3>1, TableFound DEF MadeBy
    <3>3. 1 \in 1..(v - 1)
      BY <2>1
    <3>4. o \in SchemaAt[v - 1]
      BY <1>1, <3>2, <3>3, SchemaOf
    <3> QED BY <3>1, <3>4 DEF Names, Tables
  <2>2. CASE n \in TablesOf[v] /\ MadeAt[v][n] < k
    <3>1. PICK o \in Made(Upgrade[v][MadeAt[v][n]]) : o.kind = "table" /\ o.name = n
      BY <2>2, TableMadeAt
    <3>2. MadeAt[v][n] \in 1..(k - 1)
      BY <1>1, <2>2, TableFound
    <3> QED BY <3>1, <3>2 DEF Names, Tables
  <2> QED BY <1>4, <2>1, <2>2
<1>5. st.name \in NamesOf(v) /\ MadeAt[v][st.name] = k
  BY <1>0, <1>2, MadeInOrder DEF MakesOnly, NamesOf
<1>6. CASE st.op = "create_table"
  <2>1. \A n \in st.table.types : n \in NamesOf(v) /\ MadeAt[v][n] = k
    BY <1>0, <1>2, <1>6, TypesMadeInOrder DEF MakesOnly, NamesOf
  <2>2. \A r \in st.table.refs : r.to \in Names(Tables(cat))
    BY <1>0, <1>4, <1>5, <1>6, TablesBackward DEF Backward
  <2>3. ({st.name} \cup st.table.types) \cap Names(cat) = {}
    BY <1>3, <1>5, <2>1
  <2> QED BY <1>0, <1>6, <2>2, <2>3 DEF Accepts, WritesDefault
<1>7. CASE st.op = "create_index"
  <2>1. st.on \in Names(Tables(cat))
    BY <1>0, <1>4, <1>7, IndexesBackward
  <2>2. st.name \notin Names(cat)
    BY <1>3, <1>5
  <2> QED BY <1>0, <1>7, <2>1, <2>2 DEF Accepts
<1> QED BY <1>2, <1>6, <1>7 DEF MakesOnly

LEMMA DroppedAtNumber ==
  ASSUME NEW v \in 1..4, NEW n \in NamesOf(v)
  PROVE  DroppedAt[v][n] \in Nat
<1>1. CASE v = 1
  BY <1>1, Places DEF NamesOf, TablesOf, TypesOf, IndexesOf, dropped_0001
<1>2. CASE v = 2
  BY <1>2, Places DEF NamesOf, TablesOf, TypesOf, IndexesOf, dropped_0002
<1>3. CASE v = 3
  BY <1>3, Places DEF NamesOf, TablesOf, TypesOf, IndexesOf, dropped_0003
<1>4. CASE v = 4
  BY <1>4, Places DEF NamesOf, TablesOf, TypesOf, IndexesOf, dropped_0004
<1> QED BY <1>1, <1>2, <1>3, <1>4

\* Nothing that its upgrade made goes before the statement that names it.
LEMMA DropsNotBefore ==
  ASSUME NEW v \in 1..4, NEW k \in 1..Len(Upgrade[v]), NEW o \in Made(Upgrade[v][k]),
         NEW j \in 1..Len(Downgrade[v]), Drops(Downgrade[v][j], o)
  PROVE  ~(j < DroppedAt[v][o.name])
<1>0. PICK st, d : st = Upgrade[v][k] /\ d = Downgrade[v][j]
  OBVIOUS
<1>1. DropsOnly(v, d) /\ DroppedAt[v][d.name] = j
  BY <1>0, DowngradesDrop, DroppedInOrder
<1>2. CASE o.name = d.name
  BY <1>1, <1>2
<1>3. CASE o.name # d.name
  <2>1. o.on = d.name
    BY <1>0, <1>1, <1>3 DEF Drops, DropsOnly
  <2>2. st.op = "create_index" /\ st.name = o.name /\ st.on = o.on
    BY <1>0, <1>3, <2>1 DEF Made, Object
  <2>3. DroppedAt[v][o.name] < j
    BY <1>0, <1>1, <2>1, <2>2, IndexesBackward
  <2>4. DroppedAt[v][o.name] \in Nat
    BY NameMadeAt, DroppedAtNumber
  <2> QED BY <2>3, <2>4
<1> QED BY <1>2, <1>3

LEMMA TableDroppedAt ==
  ASSUME NEW v \in 1..4, NEW n \in TablesOf[v]
  PROVE  /\ DroppedAt[v][n] \in 1..Len(Downgrade[v])
         /\ \A o : o.on = n => Drops(Downgrade[v][DroppedAt[v][n]], o)
<1>1. PICK k \in 1..Len(Downgrade[v]) :
        Downgrade[v][k].op = "drop_table" /\ Downgrade[v][k].name = n
  BY TablesDropped
<1>2. DroppedAt[v][n] = k
  BY <1>1, DroppedInOrder
<1> QED BY <1>1, <1>2 DEF Drops

LEMMA DowngradeAccepted ==
  ASSUME NEW v \in 1..4, NEW k \in 1..Len(Downgrade[v]), NEW cat,
         cat = {o \in SchemaAt[v] : ~\E j \in 1..(k - 1) : Drops(Downgrade[v][j], o)}
  PROVE  Accepts(cat, Downgrade[v][k])
<1>0. PICK st : st = Downgrade[v][k]
  OBVIOUS
<1>1. DropsOnly(v, st) /\ DroppedAt[v][st.name] = k /\ v \in 0..4 /\ Len(Downgrade[v]) \in Nat
  BY <1>0, DowngradesDrop, DroppedInOrder, Lengths
<1>2. ASSUME NEW i \in 1..Len(Upgrade[v]), NEW o \in Made(Upgrade[v][i]), o.name = st.name
      PROVE  o \in cat
  <2>1. o \in SchemaAt[v]
    BY SchemaOf DEF MadeBy
  <2>2. ASSUME NEW j \in 1..(k - 1), Drops(Downgrade[v][j], o) PROVE FALSE
    <3>1. j \in 1..Len(Downgrade[v]) /\ j < k
      BY <1>1
    <3> QED BY <1>1, <1>2, <2>2, <3>1, DropsNotBefore
  <2> QED BY <2>1, <2>2
<1>3. ASSUME NEW o \in Tables(cat)
      PROVE  \E u \in 1..v :
               /\ o.name \in TablesOf[u] /\ o.table.types \subseteq TypesOf[u]
               /\ \A r \in o.table.refs : Backward(u, o.name, r.to)
               /\ u = v => ~(DroppedAt[v][o.name] < k)
  <2>1. o \in cat /\ o.kind = "table" /\ o \in Tables(SchemaAt[v])
    BY DEF Tables
  <2>2. PICK u \in 1..v : \E i \in 1..Len(Upgrade[u]) :
          /\ Upgrade[u][i].op = "create_table"
          /\ o.name = Upgrade[u][i].name /\ o.table = Upgrade[u][i].table
    BY <1>1, <2>1, TableMade
  <2>3. PICK i \in 1..Len(Upgrade[u]) :
          /\ Upgrade[u][i].op = "create_table"
          /\ o.name = Upgrade[u][i].name /\ o.table = Upgrade[u][i].table
    BY <2>2
  <2>4. u \in 1..4
    OBVIOUS
  <2>5. o.name \in TablesOf[u] /\ o.table.types \subseteq TypesOf[u]
    BY <2>3, <2>4, UpgradesMake DEF MakesOnly
  <2>6. \A r \in o.table.refs : Backward(u, o.name, r.to)
    BY <2>3, <2>4, TablesBackward
  <2>7. ASSUME u = v, DroppedAt[v][o.name] < k PROVE FALSE
    <3>1. o.on = o.name
      BY <1>1, <2>1, SchemaNamed DEF Tables
    <3>2. DroppedAt[v][o.name] \in 1..(k - 1)
      BY <2>5, <2>7, TableDroppedAt
    <3> QED BY <2>1, <2>5, <2>7, <3>1, <3>2, TableDroppedAt
  <2> QED BY <2>5, <2>6, <2>7
<1>5. CASE st.op = "drop_table"
  <2>1. st.name \in TablesOf[v]
    BY <1>1, <1>5 DEF DropsOnly
  <2>2. st.name \in Names(Tables(cat))
    <3>1. PICK o \in Made(Upgrade[v][MadeAt[v][st.name]]) : o.kind = "table" /\ o.name = st.name
      BY <2>1, TableMadeAt
    <3>2. o \in cat
      BY <1>2, <2>1, <3>1, TableFound
    <3> QED BY <3>1, <3>2 DEF Names, Tables
  <2>3. ASSUME NEW o \in Tables(cat), NEW r \in o.table.refs, r.to = st.name PROVE FALSE
    <3>1. PICK u \in 1..v : /\ \A q \in o.table.refs : Backward(u, o.name, q.to)
                            /\ u = v => ~(DroppedAt[v][o.name] < k)
      BY <1>3
    <3>2. u \in 1..4 /\ Backward(u, o.name, st.name)
      BY <2>3, <3>1
    <3>3. ~(v > 1 /\ st.name \in TablesOf[1])
      BY <2>1, NamesApart DEF NamesOf
    <3>4. ~(u # v /\ st.name \in TablesOf[u])
      BY <2>1, <3>2, NamesApart DEF NamesOf
    <3>5. u > 1 => v > 1
      BY <3>1
    <3> QED BY <1>1, <3>1, <3>2, <3>3, <3>4, <3>5 DEF Backward
  <2> QED BY <1>0, <1>5, <2>2, <2>3 DEF Accepts
<1>6. CASE st.op = "drop_index"
  <2>1. st.name \in IndexesOf[v]
    BY <1>1, <1>6 DEF DropsOnly
  <2>2. PICK s : s = Upgrade[v][MadeAt[v][st.name]]
    OBVIOUS
  <2>3. s.op = "create_index" /\ s.name = st.name
    BY <2>1, <2>2, IndexFound
  <2>4. \E o \in Made(s) : o.name = st.name
    BY <2>3 DEF Made, Object
  <2>5. st.name \in Names(cat)
    BY <1>2, <2>1, <2>2, <2>4, IndexFound DEF Names
  <2> QED BY <1>0, <1>6, <2>5 DEF Accepts
<1>7. CASE st.op = "drop_type"
  <2>1. st.name \in TypesOf[v]
    BY <1>1, <1>7 DEF DropsOnly
  <2>2. PICK s : s = Upgrade[v][MadeAt[v][st.name]]
    OBVIOUS
  <2>3. s.op = "create_table" /\ st.name \in s.table.types
    BY <2>1, <2>2, TypeFound
  <2>4. \E o \in Made(s) : o.name = st.name
    <3>1. Object("type", st.name, st.name, NoTable) \in Made(s)
      BY <2>3 DEF Made
    <3>2. Object("type", st.name, st.name, NoTable).name = st.name
      BY DEF Object
    <3> QED BY <3>1, <3>2
  <2>5. st.name \in Names(cat)
    BY <1>2, <2>1, <2>2, <2>4, TypeFound DEF Names
  <2>6. ASSUME NEW o \in Tables(cat), st.name \in o.table.types PROVE FALSE
    <3>1. PICK u \in 1..v : /\ o.name \in TablesOf[u] /\ o.table.types \subseteq TypesOf[u]
                            /\ u = v => ~(DroppedAt[v][o.name] < k)
      BY <1>3
    <3>2. u \in 1..4 /\ st.name \in TypesOf[u]
      BY <2>6, <3>1
    <3>3. u = v
      BY <2>1, <3>2, NamesApart DEF NamesOf
    <3> QED BY <1>1, <2>1, <3>1, <3>3, TypesLast
  <2> QED BY <1>0, <1>7, <2>5, <2>6 DEF Accepts
<1> QED BY <1>0, <1>1, <1>5, <1>6, <1>7 DEF DropsOnly

\* Whether or not the defaults are mended, nothing else of a script is refused to a
\* migrator that no other has overtaken: no downgrade is.
THEOREM DefaultsRefused ==
  Spec => []OnlyDefaultsRefused
<1>1. ASSUME MInv, NEW m \in Migrators, SameVersion(runs[m]), Refused(m)
      PROVE  /\ ~DefaultsMended
             /\ runs[m].at < runs[m].target /\ WritesDefault(Script(runs[m])[runs[m].pos])
  <2> DEFINE r == runs[m]
  <2>1. RunShape(r)
    BY <1>1 DEF MInv
  <2>2. ASSUME InScript(r),
               (r.at < r.target /\ WritesDefault(Script(r)[r.pos])) => DefaultsMended
        PROVE  Accepts(View(r), Script(r)[r.pos])
    <3>1. View(r) = Expected(r)
      BY <1>1, <2>2, ViewIsExpected DEF InScript
    <3>2. /\ r.pos \in 1..Len(Script(r)) /\ r.at # r.target
          /\ r.at \in 0..4 /\ r.target \in 0..4
      BY <2>1, <2>2, StatementOf DEF InScript, RunShape
    <3>3. CASE r.at < r.target
      <4> DEFINE v == r.at + 1
      <4>1. v \in 1..4 /\ Script(r) = Upgrade[v] /\ v - 1 = r.at
        BY <2>1, <2>2, <3>2, <3>3, StatementOf
      <4>2. View(r) = SchemaAt[v - 1] \cup UNION {Made(Upgrade[v][j]) : j \in 1..(r.pos - 1)}
        BY <3>1, <3>3, <4>1 DEF Expected, MadeSoFar
      <4>3. /\ r.pos \in 1..Len(Upgrade[v])
            /\ WritesDefault(Upgrade[v][r.pos]) => DefaultsMended
        BY <2>2, <3>2, <3>3, <4>1
      <4> HIDE DEF v
      <4> QED BY <4>1, <4>2, <4>3, UpgradeAccepted
    <3>4. CASE r.at > r.target
      <4>1. r.at \in 1..4 /\ Script(r) = Downgrade[r.at] /\ ~(r.at < r.target)
        BY <2>1, <2>2, <3>2, <3>4, StatementOf
      <4>2. View(r) = {o \in SchemaAt[r.at] :
                         ~\E j \in 1..(r.pos - 1) : Drops(Downgrade[r.at][j], o)}
        BY <3>1, <3>4, <4>1 DEF Expected, Gone
      <4> QED BY <3>2, <4>1, <4>2, DowngradeAccepted
    <3> QED BY <3>2, <3>3, <3>4
  <2>3. InScript(r) /\ ~Accepts(View(r), Script(r)[r.pos])
    BY <1>1 DEF Refused
  <2> QED BY <2>2, <2>3
<1>2. MInv => OnlyDefaultsRefused
  BY <1>1 DEF OnlyDefaultsRefused
<1> QED BY <1>2, MInvAlways, PTL
=============================================================================
