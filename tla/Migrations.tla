----------------------------- MODULE Migrations -----------------------------
(***************************************************************************)
(* The schema of the database: the four Alembic revisions under            *)
(* database/migrations/versions, run by migrators that each take the       *)
(* database from the version it is at to another one in a single           *)
(* transaction (database/migrations/env.py), and the tables the models     *)
(* under database/models declare.                                          *)
(*                                                                         *)
(* A table is what other definitions depend on: its foreign keys, its      *)
(* uniqueness constraints, the enumeration types made with it and the      *)
(* Boolean columns whose default is written as a number.  Columns that     *)
(* none of this is about are left out.                                     *)
(***************************************************************************)
EXTENDS Integers, Sequences, FiniteSets

CONSTANTS
  Migrators,        \* runs of alembic, each by a process of its own
  DefaultsMended    \* FALSE: the scripts as they are, which write the defaults of
                    \* Boolean columns as numbers; TRUE: with true and false instead

ASSUME MigrationsAssumption == DefaultsMended \in BOOLEAN

VARIABLES
  catalog,  \* the committed tables, indexes and types
  version,  \* the committed row of alembic_version, 0 for none
  runs      \* what each migrator is doing

vars == <<catalog, version, runs>>

-----------------------------------------------------------------------------
(* Tables and statements. *)

\* Foreign keys: what happens to the row when the row referred to goes, and
\* whether the column is NOT NULL.
Owned(column, to) == [column |-> column, to |-> to, rule |-> "CASCADE", required |-> TRUE]
Follows(column, to) == [column |-> column, to |-> to, rule |-> "CASCADE", required |-> FALSE]
Notes(column, to) == [column |-> column, to |-> to, rule |-> "SET NULL", required |-> FALSE]

Org == Owned("organization_id", "organizations")

Table(refs, uniques, types, booleans) ==
  [refs |-> refs, uniques |-> uniques, types |-> types, booleans |-> booleans]

NoTable == Table({}, {}, {}, {})

create_table(name, table) == [op |-> "create_table", name |-> name, on |-> name, table |-> table]
create_index(name, on) == [op |-> "create_index", name |-> name, on |-> on, table |-> NoTable]
drop_table(name) == [op |-> "drop_table", name |-> name, on |-> name, table |-> NoTable]
drop_index(name, on) == [op |-> "drop_index", name |-> name, on |-> on, table |-> NoTable]
drop_type(name) == [op |-> "drop_type", name |-> name, on |-> name, table |-> NoTable]

-----------------------------------------------------------------------------
(* The revisions. *)

upgrade_0001 ==
  << create_table("organizations", Table({}, {{"domain"}}, {}, {})),
     create_table("users", Table({Org}, {{"email"}}, {}, {})),
     create_index("ix_users_email", "users") >>

\* Mutant: the organizations go first.
downgrade_0001_parentFirst ==
  << drop_index("ix_users_email", "users"), drop_table("organizations"), drop_table("users") >>

downgrade_0001 ==
  << drop_index("ix_users_email", "users"), drop_table("users"), drop_table("organizations") >>

upgrade_0002 ==
  << create_table("integrations", Table({Org}, {{"organization_id", "provider"}}, {}, {})),
     create_index("ix_integrations_organization_status", "integrations"),
     create_table("oauth_tokens",
       Table({Owned("integration_id", "integrations")}, {{"integration_id"}}, {}, {})),
     create_index("ix_oauth_tokens_expires_at", "oauth_tokens"),
     create_table("integration_logs",
       Table({Owned("integration_id", "integrations"), Org, Notes("actor_user_id", "users")},
             {}, {}, {"success"})),
     create_index("ix_integration_logs_integration_action", "integration_logs"),
     create_table("integration_permissions",
       Table({Owned("integration_id", "integrations"), Owned("user_id", "users"),
              Notes("granted_by_user_id", "users")},
             {{"integration_id", "user_id"}}, {}, {"can_access", "can_configure"})),
     create_index("ix_integration_permissions_user", "integration_permissions") >>

downgrade_0002 ==
  << drop_index("ix_integration_permissions_user", "integration_permissions"),
     drop_table("integration_permissions"),
     drop_index("ix_integration_logs_integration_action", "integration_logs"),
     drop_table("integration_logs"),
     drop_index("ix_oauth_tokens_expires_at", "oauth_tokens"),
     drop_table("oauth_tokens"),
     drop_index("ix_integrations_organization_status", "integrations"),
     drop_table("integrations") >>

\* The foreign keys of everything that belongs to a document.
Base == Owned("knowledge_base_id", "knowledge_bases")
Doc == Owned("document_id", "documents")

\* Mutant: a logged search outlives its workspace.
retrieval_logsOutlives ==
  Table({Notes("organization_id", "organizations"), Notes("knowledge_base_id", "knowledge_bases"),
         Notes("document_id", "documents"), Notes("actor_user_id", "users")},
        {}, {}, {"cache_hit"})

retrieval_logs ==
  Table({Org, Notes("knowledge_base_id", "knowledge_bases"),
         Notes("document_id", "documents"), Notes("actor_user_id", "users")},
        {}, {}, {"cache_hit"})

upgrade_0003_documents ==
  << create_table("knowledge_bases", Table({Org}, {{"organization_id", "name"}}, {}, {})),
     create_index("ix_knowledge_bases_organization_status", "knowledge_bases"),
     create_table("documents",
       Table({Org, Base}, {{"knowledge_base_id", "document_key"}}, {}, {"is_deleted"})),
     create_index("ix_documents_organization_knowledge_base", "documents"),
     create_index("ix_documents_checksum", "documents"),
     create_table("document_versions",
       Table({Org, Base, Doc}, {{"document_id", "version_number"}}, {}, {"is_current"})),
     create_index("ix_document_versions_checksum", "document_versions") >>

upgrade_0003_chunks ==
  << create_table("document_chunks",
       Table({Org, Base, Doc, Owned("version_id", "document_versions")},
             {{"version_id", "chunk_index"}}, {}, {})),
     create_index("ix_document_chunks_organization_knowledge_base", "document_chunks"),
     create_index("ix_document_chunks_version_index", "document_chunks"),
     create_table("embeddings",
       Table({Org, Base, Doc, Owned("chunk_id", "document_chunks")}, {{"chunk_id"}}, {}, {})),
     create_index("ix_embeddings_organization_knowledge_base", "embeddings"),
     create_table("retrieval_logs", retrieval_logs),
     create_index("ix_retrieval_logs_organization_created_at", "retrieval_logs"),
     create_index("ix_retrieval_logs_knowledge_base_created_at", "retrieval_logs") >>

downgrade_0003 ==
  << drop_index("ix_retrieval_logs_knowledge_base_created_at", "retrieval_logs"),
     drop_index("ix_retrieval_logs_organization_created_at", "retrieval_logs"),
     drop_table("retrieval_logs"),
     drop_index("ix_embeddings_organization_knowledge_base", "embeddings"),
     drop_table("embeddings"),
     drop_index("ix_document_chunks_version_index", "document_chunks"),
     drop_index("ix_document_chunks_organization_knowledge_base", "document_chunks"),
     drop_table("document_chunks"),
     drop_index("ix_document_versions_checksum", "document_versions"),
     drop_table("document_versions"),
     drop_index("ix_documents_checksum", "documents"),
     drop_index("ix_documents_organization_knowledge_base", "documents"),
     drop_table("documents"),
     drop_index("ix_knowledge_bases_organization_status", "knowledge_bases"),
     drop_table("knowledge_bases") >>

Agent == Notes("agent_id", "runtime_agents")
Task == Follows("task_id", "runtime_tasks")
Conversation == Follows("conversation_id", "runtime_conversations")

upgrade_0004_tasks ==
  << create_table("runtime_agents",
       Table({Org}, {{"organization_id", "name"}}, {}, {"enabled"})),
     create_index("ix_runtime_agents_org_enabled", "runtime_agents"),
     create_table("runtime_conversations",
       Table({Org, Agent}, {}, {"runtime_conversation_status"}, {})),
     create_index("ix_runtime_conversations_org_status", "runtime_conversations"),
     create_table("runtime_conversation_messages",
       Table({Org, Owned("conversation_id", "runtime_conversations")}, {}, {}, {})),
     create_index("ix_runtime_conversation_messages_conversation",
                  "runtime_conversation_messages"),
     create_table("runtime_tasks",
       Table({Org, Agent, Notes("conversation_id", "runtime_conversations")},
             {}, {"runtime_task_status"}, {})),
     create_index("ix_runtime_tasks_org_status", "runtime_tasks"),
     create_table("runtime_task_steps",
       Table({Org, Owned("task_id", "runtime_tasks")}, {{"task_id", "step_index"}},
             {"runtime_step_type"}, {})),
     create_index("ix_runtime_task_steps_task_status", "runtime_task_steps") >>

upgrade_0004_records ==
  << create_table("runtime_events",
       Table({Org, Task, Conversation, Agent}, {}, {"runtime_event_type"}, {})),
     create_index("ix_runtime_events_org_created_at", "runtime_events"),
     create_table("runtime_approvals",
       Table({Org, Task, Follows("step_id", "runtime_task_steps"),
              Notes("decided_by", "users")}, {}, {"runtime_approval_status"}, {})),
     create_index("ix_runtime_approvals_org_status", "runtime_approvals"),
     create_table("runtime_telemetry",
       Table({Org, Task, Conversation, Agent}, {}, {}, {})),
     create_index("ix_runtime_telemetry_org_created_at", "runtime_telemetry"),
     create_index("ix_runtime_telemetry_task_created_at", "runtime_telemetry") >>

downgrade_0004_tables ==
  << drop_index("ix_runtime_telemetry_task_created_at", "runtime_telemetry"),
     drop_index("ix_runtime_telemetry_org_created_at", "runtime_telemetry"),
     drop_table("runtime_telemetry"),
     drop_index("ix_runtime_approvals_org_status", "runtime_approvals"),
     drop_table("runtime_approvals"),
     drop_index("ix_runtime_events_org_created_at", "runtime_events"),
     drop_table("runtime_events"),
     drop_index("ix_runtime_task_steps_task_status", "runtime_task_steps"),
     drop_table("runtime_task_steps"),
     drop_index("ix_runtime_tasks_org_status", "runtime_tasks"),
     drop_table("runtime_tasks"),
     drop_index("ix_runtime_conversation_messages_conversation",
                "runtime_conversation_messages"),
     drop_table("runtime_conversation_messages"),
     drop_index("ix_runtime_conversations_org_status", "runtime_conversations"),
     drop_table("runtime_conversations"),
     drop_index("ix_runtime_agents_org_enabled", "runtime_agents"),
     drop_table("runtime_agents") >>

\* Mutant: the types are left behind, as dropping the tables leaves them.
downgrade_0004_typesLeft == << >>

downgrade_0004_types ==
  << drop_type("runtime_event_type"), drop_type("runtime_approval_status"),
     drop_type("runtime_step_type"), drop_type("runtime_task_status"),
     drop_type("runtime_conversation_status") >>

Upgrade == << upgrade_0001, upgrade_0002, upgrade_0003_documents \o upgrade_0003_chunks,
              upgrade_0004_tasks \o upgrade_0004_records >>
Downgrade == << downgrade_0001, downgrade_0002, downgrade_0003,
                downgrade_0004_tables \o downgrade_0004_types >>
LastVersion == Len(Upgrade)

-----------------------------------------------------------------------------
(* What the models declare. *)

Declared(name, refs, uniques) == [name |-> name, refs |-> refs, uniques |-> uniques]

declared_organizations == {Declared("organizations", {}, {{"domain"}})}

declared_users == {Declared("users", {Org}, {{"email"}})}

declared_integrations ==
  { Declared("integrations", {Org}, {{"organization_id", "provider"}}),
    Declared("oauth_tokens", {Owned("integration_id", "integrations")}, {{"integration_id"}}),
    Declared("integration_logs",
      {Owned("integration_id", "integrations"), Org, Notes("actor_user_id", "users")}, {}),
    Declared("integration_permissions",
      {Owned("integration_id", "integrations"), Owned("user_id", "users"),
       Notes("granted_by_user_id", "users")}, {{"integration_id", "user_id"}}) }

declared_documents ==
  { Declared("knowledge_bases", {Org}, {{"organization_id", "name"}}),
    Declared("documents", {Org, Base, Notes("current_version_id", "document_versions")},
             {{"knowledge_base_id", "document_key"}}),
    Declared("document_versions", {Org, Base, Doc}, {{"document_id", "version_number"}}) }

declared_chunks ==
  { Declared("document_chunks", {Org, Base, Doc, Owned("version_id", "document_versions")},
             {{"version_id", "chunk_index"}}),
    Declared("embeddings", {Org, Base, Doc, Owned("chunk_id", "document_chunks")},
             {{"chunk_id"}}),
    Declared("retrieval_logs",
      {Org, Notes("knowledge_base_id", "knowledge_bases"), Notes("document_id", "documents"),
       Notes("actor_user_id", "users")}, {}) }

declared_tasks ==
  { Declared("runtime_agents", {Org}, {{"organization_id", "name"}}),
    Declared("runtime_conversations", {Org, Agent}, {}),
    Declared("runtime_conversation_messages",
      {Org, Owned("conversation_id", "runtime_conversations")}, {}),
    Declared("runtime_tasks",
      {Org, Agent, Notes("conversation_id", "runtime_conversations")}, {}),
    Declared("runtime_task_steps", {Org, Owned("task_id", "runtime_tasks")},
             {{"task_id", "step_index"}}) }

declared_records ==
  { Declared("runtime_events", {Org, Task, Conversation, Agent}, {}),
    Declared("runtime_approvals",
      {Org, Task, Follows("step_id", "runtime_task_steps"), Notes("decided_by", "users")}, {}),
    Declared("runtime_telemetry", {Org, Task, Conversation, Agent}, {}) }

\* Mutant: env.py does not import the models of the runtime.
MetadataWithoutRuntime ==
  UNION {declared_organizations, declared_users, declared_integrations,
         declared_documents, declared_chunks}

\* The metadata env.py hands to Alembic: the models it imports.
Metadata == UNION {declared_organizations, declared_users, declared_integrations,
                   declared_documents, declared_chunks, declared_tasks, declared_records}

-----------------------------------------------------------------------------
(* What the database makes of a statement. *)

Object(kind, name, on, table) == [kind |-> kind, name |-> name, on |-> on, table |-> table]

Names(cat) == {o.name : o \in cat}
Tables(cat) == {o \in cat : o.kind = "table"}
Refs(cat, name) == UNION {o.table.refs : o \in {p \in Tables(cat) : p.name = name}}

\* The statement makes a table with a Boolean column whose default is a number.
WritesDefault(st) == st.op = "create_table" /\ st.table.booleans # {}

\* PostgreSQL takes no number as the default of a Boolean column.
Accepts(cat, st) ==
  CASE st.op = "create_table" ->
         /\ ({st.name} \cup st.table.types) \cap Names(cat) = {}
         /\ {r.to : r \in st.table.refs} \subseteq Names(Tables(cat))
         /\ WritesDefault(st) => DefaultsMended
    [] st.op = "create_index" -> st.name \notin Names(cat) /\ st.on \in Names(Tables(cat))
    [] st.op = "drop_table" ->
         /\ st.name \in Names(Tables(cat))
         /\ \A o \in Tables(cat) : \A r \in o.table.refs : r.to # st.name
    [] st.op = "drop_index" -> st.name \in Names(cat)
    [] st.op = "drop_type" ->
         st.name \in Names(cat) /\ \A o \in Tables(cat) : st.name \notin o.table.types

\* A table takes its types with it when it is made.
Made(st) ==
  CASE st.op = "create_table" ->
         {Object("table", st.name, st.name, st.table)}
           \cup {Object("type", ty, ty, NoTable) : ty \in st.table.types}
    [] st.op = "create_index" -> {Object("index", st.name, st.on, NoTable)}
    [] OTHER -> {}

\* A table takes its indexes with it when it is dropped, but no type.
Drops(st, o) ==
  CASE st.op = "drop_table" -> o.on = st.name
    [] st.op \in {"drop_index", "drop_type"} -> o.name = st.name
    [] OTHER -> FALSE

Apply(cat, st) == {o \in cat : ~Drops(st, o)} \cup Made(st)

\* What each version stands for: all that the upgrades up to it make.
MadeBy(script) == UNION {Made(script[k]) : k \in 1..Len(script)}
SchemaAt == [v \in 0..LastVersion |-> UNION {MadeBy(Upgrade[u]) : u \in 1..v}]

\* The names a statement locks: a foreign key locks the table it refers to.
Touches(cat, st) ==
  {st.name, st.on} \cup st.table.types
    \cup {r.to : r \in st.table.refs}
    \cup IF st.op = "drop_table" THEN {r.to : r \in Refs(cat, st.name)} ELSE {}

-----------------------------------------------------------------------------
(* Runs of Alembic. *)

\* at: the version the transaction has reached.  pos: the next statement of the
\* script from there.  numbered: whether it has written alembic_version.
Idle == [pc |-> "idle", at |-> 0, target |-> 0, pos |-> 1, numbered |-> FALSE,
         created |-> {}, dropped |-> {}, touched |-> {}]

Init ==
  /\ catalog = {} /\ version = 0
  /\ runs = [m \in Migrators |-> Idle]

View(r) == (catalog \ r.dropped) \cup r.created
Script(r) == IF r.at < r.target THEN Upgrade[r.at + 1] ELSE Downgrade[r.at]
Beyond(r) == IF r.at < r.target THEN r.at + 1 ELSE r.at - 1

InScript(r) == r.pc = "running" /\ r.at # r.target /\ r.pos <= Len(Script(r))
AtEndOfScript(r) == r.pc = "running" /\ r.at # r.target /\ r.pos > Len(Script(r))

Waits(m, names) == \E n \in Migrators \ {m} : names \cap runs[n].touched # {}
Locked(m) == \E n \in Migrators \ {m} : runs[n].numbered

\* Mutant: the version is written whatever it was.
SameVersionAny(r) == TRUE

\* The UPDATE of alembic_version must find the row as it was when the run began.
SameVersion(r) == r.numbered \/ version = r.at

Begin(m) ==
  /\ runs[m].pc = "idle"
  /\ \E target \in 0..LastVersion \ {version} :
       runs' = [runs EXCEPT ![m] =
                  [Idle EXCEPT !.pc = "running", !.at = version, !.target = target]]
  /\ UNCHANGED <<catalog, version>>

Execute(m) ==
  LET r == runs[m]
      st == Script(r)[r.pos]
      before == View(r)
      after == Apply(before, st)
  IN /\ InScript(r)
     /\ ~Waits(m, Touches(before, st))
     /\ Accepts(before, st)
     /\ runs' = [runs EXCEPT ![m] =
          [r EXCEPT !.pos = @ + 1,
                    !.created = (@ \cup (after \ before)) \ (before \ after),
                    !.dropped = @ \cup (before \ after),
                    !.touched = @ \cup Touches(before, st)]]
     /\ UNCHANGED <<catalog, version>>

\* The script is done: alembic_version is updated, which locks its row.
Number(m) ==
  LET r == runs[m]
  IN /\ AtEndOfScript(r)
     /\ ~Locked(m) /\ SameVersion(r)
     /\ runs' = [runs EXCEPT ![m] =
                   [r EXCEPT !.at = Beyond(r), !.pos = 1, !.numbered = TRUE]]
     /\ UNCHANGED <<catalog, version>>

Commit(m) ==
  /\ runs[m].pc = "running" /\ runs[m].at = runs[m].target
  /\ catalog' = View(runs[m])
  /\ version' = runs[m].target
  /\ runs' = [runs EXCEPT ![m] = Idle]

Refused(m) ==
  LET r == runs[m]
  IN \/ /\ InScript(r)
        /\ ~Waits(m, Touches(View(r), Script(r)[r.pos]))
        /\ ~Accepts(View(r), Script(r)[r.pos])
     \/ AtEndOfScript(r) /\ ~Locked(m) /\ ~SameVersion(r)

\* An error, a crash or a deadlock that is resolved rolls everything back.
RollBack(m) ==
  /\ runs[m].pc = "running"
  /\ runs' = [runs EXCEPT ![m] = Idle]
  /\ UNCHANGED <<catalog, version>>

Next == \E m \in Migrators : Begin(m) \/ Execute(m) \/ Number(m) \/ Commit(m) \/ RollBack(m)
Spec == Init /\ [][Next]_vars

-----------------------------------------------------------------------------
(* Properties *)

\* The database has the schema that alembic_version says it has, whichever
\* upgrades and downgrades ran, overlapped or broke off: a downgrade undoes its
\* upgrade and leaves nothing of it behind.
VersionMatchesSchema == version \in 0..LastVersion /\ catalog = SchemaAt[version]

\* Of a migrator that no other has overtaken the database refuses nothing but a
\* number as a Boolean default, whatever others left behind when they broke off: the
\* tables come in the order of their foreign keys and go in the opposite order, and no
\* name is still taken.
OnlyDefaultsRefused ==
  \A m \in Migrators :
    (SameVersion(runs[m]) /\ Refused(m)) =>
      /\ ~DefaultsMended
      /\ runs[m].at < runs[m].target /\ WritesDefault(Script(runs[m])[runs[m].pos])

\* Deleting an organization goes through and leaves nothing of it: the database
\* deletes every row that belongs to it along foreign keys that cannot be empty.
WorkspaceRowsFollow ==
  LET Follow(o) == {r.to : r \in {q \in o.table.refs : q.rule = "CASCADE" /\ q.required}}
      ofOrganization == {o.name : o \in {p \in Tables(catalog) :
                                           "organizations" \in Follow(p)}}
  IN \A o \in Tables(catalog) :
       /\ o.name # "organizations" =>
            Follow(o) \cap (ofOrganization \cup {"organizations"}) # {}
       /\ \A r \in o.table.refs : r.rule = "SET NULL" => ~r.required

\* Every table of the database is one the models declare, with no foreign key and
\* no uniqueness constraint but theirs.
MigratedIsDeclared ==
  \A o \in Tables(catalog) :
    \E d \in Metadata : /\ d.name = o.name /\ d.uniques = o.table.uniques
                        /\ o.table.refs \subseteq d.refs

\* What a run does to the history of versions: it moves from the version it was
\* begun at or, once it has the row of alembic_version, from the one the row has.
Planned(r) == [from |-> IF r.numbered THEN version ELSE r.at, to |-> r.target]

History == INSTANCE SchemaHistory WITH
             Versions <- 0..LastVersion,
             Schema <- SchemaAt,
             moves <- [m \in Migrators |-> Planned(runs[m])]

\* Migrators whose statements interleave, one waiting for the other's locks, look
\* from outside like one whole upgrade or downgrade after the other, none of which
\* undoes a version it has not seen.
ImplementsHistory == History!Spec
=============================================================================
