------------------------------ MODULE SchemaChain ------------------------------
(***************************************************************************)
(* The life of the PostgreSQL schema: alembic moves it along the revisions *)
(* of Migrations, forwards and back, all pending revisions in one          *)
(* transaction (migrations/env.py), while a release of the program, which  *)
(* is written against the schema of one revision, keeps inserting rows.    *)
(* alembic runs over asyncpg, or prints a script that psql executes.       *)
(* SQLite, whose DDL is not transactional, is left out. So is the step of  *)
(* DEPLOY.md that creates the tasks table by hand: it hands several        *)
(* statements to asyncpg as one, which Refused says is refused, and        *)
(* engine.begin() rolls back, so that it leaves nothing.                   *)
(***************************************************************************)
EXTENDS Models, Migrations

CONSTANTS
  Connections,  \* how statements reach the server: "asyncpg", "script"
  Watched       \* the tables whose being empty or not is followed

ASSUME ChainAssumption ==
  /\ Connections \subseteq {"asyncpg", "script"}
  /\ Watched \subseteq DOMAIN ProgramTables

VARIABLES
  tables,      \* the committed schema
  revision,    \* alembic_version as committed: how many upgrades are in
  run,         \* the alembic run in progress and the schema its transaction sees
  populated,   \* the watched tables that hold rows
  duplicates,  \* whether two groups of an organization share their name
  release      \* the revision the deployed program is written against, 0 for none

vars == <<tables, revision, run, populated, duplicates, release>>

\* target: where it is going, at: the revision its transaction has stamped, done: how many
\* statements of the step from there it has executed, via: the connection.
NoRun == [target |-> 0, at |-> 0, done |-> 0, via |-> "none", tables |-> NoTables]

Idle == run = NoRun

Init ==
  /\ tables = NoTables
  /\ revision = 0
  /\ run = NoRun
  /\ populated = {}
  /\ duplicates = FALSE
  /\ release = 0

-----------------------------------------------------------------------------
(* alembic upgrade and alembic downgrade                                   *)

Begin(target, via) ==
  /\ Idle
  /\ target # revision
  /\ run' = [target |-> target, at |-> revision, done |-> 0, via |-> via, tables |-> tables]
  /\ UNCHANGED <<tables, revision, populated, duplicates, release>>

\* The function that alembic calls next: upgrade() of the revision above the one reached,
\* or downgrade() of that one.
Step == IF run.at < run.target THEN Upgrades[run.at + 1] ELSE Downgrades[run.at]

\* PostgreSQL refuses a table that points to one that is missing, to drop a table that
\* another one points to, a NOT NULL column without a value for the rows that exist and
\* a key that the rows violate. asyncpg prepares what it is given, which a string of
\* several statements cannot be.
Refused(s) ==
  \/ /\ s.op = "create_table"
     /\ s.table \in DOMAIN run.tables \/ ~ Targets(s.arg) \subseteq DOMAIN run.tables \cup {s.table}
  \/ /\ s.op \notin {"create_table", "script_if_absent", "drop_if_present"}
     /\ s.table \notin DOMAIN run.tables
  \/ /\ s.op \in {"drop_table", "drop_if_present"}
     /\ \E name \in DOMAIN run.tables \ {s.table} : s.table \in Targets(run.tables[name])
  \/ s.op = "add_required" /\ s.table \in populated
  \/ s.op = "add_unique" /\ duplicates
  \/ s.op = "script_if_absent" /\ run.via = "asyncpg"

Execute ==
  /\ run.at # run.target
  /\ run.done < Len(Step)
  /\ ~ Refused(Step[run.done + 1])
  /\ run' = [run EXCEPT !.tables = Applied(Step[run.done + 1], @), !.done = @ + 1]
  /\ UNCHANGED <<tables, revision, populated, duplicates, release>>

\* The version is stamped in the same transaction, before the next revision is begun.
Stamp ==
  /\ run.at # run.target
  /\ run.done = Len(Step)
  /\ run' = [run EXCEPT !.at = IF @ < run.target THEN @ + 1 ELSE @ - 1, !.done = 0]
  /\ UNCHANGED <<tables, revision, populated, duplicates, release>>

\* Dropped tables take their rows along.
Commit ==
  /\ ~Idle
  /\ run.at = run.target
  /\ tables' = run.tables
  /\ revision' = run.target
  /\ run' = NoRun
  /\ populated' = populated \cap DOMAIN run.tables
  /\ duplicates' = (duplicates /\ "groups" \in DOMAIN run.tables)
  /\ UNCHANGED release

\* A statement is refused or the connection is lost: none of the run stays.
Rollback ==
  /\ ~Idle
  /\ run' = NoRun
  /\ UNCHANGED <<tables, revision, populated, duplicates, release>>

-----------------------------------------------------------------------------
(* The program                                                             *)

\* A release is put in place once the schema it needs is committed (DEPLOY.md).
Deploy(r) ==
  /\ r <= revision
  /\ release' = r
  /\ UNCHANGED <<tables, revision, run, populated, duplicates>>

\* The columns a release names when it inserts into a table: those of its models, and
\* for the two tables it writes by raw SQL those of the statement.
Supplied(r, name) ==
  CASE name = "provider_events" -> InsertEvent
    [] name = "tasks" -> InsertTask
    [] OTHER -> Columns(SchemaAt[r][name])

\* A run holds the locks of the tables it has altered until it ends.
Locked(name) ==
  /\ ~Idle
  /\ name \notin DOMAIN run.tables \/ run.tables[name] # tables[name]

Inserts(name) ==
  /\ release > 0
  /\ name \in DOMAIN tables \cap DOMAIN SchemaAt[release]
  /\ ~ Locked(name)
  /\ TakesInsert(tables[name], Supplied(release, name))

InsertRow(name) ==
  /\ Inserts(name)
  /\ populated' = populated \cup {name}
  /\ UNCHANGED <<tables, revision, run, duplicates, release>>

\* Two create_group requests both found the name free; only a key would refuse one.
InsertTwice ==
  /\ Inserts("groups")
  /\ {"org_id", "name"} \notin tables["groups"].unique
  /\ populated' = populated \cup {"groups"}
  /\ duplicates' = TRUE
  /\ UNCHANGED <<tables, revision, run, release>>

\* delete_group, on one of the two.
DeleteDuplicate ==
  /\ duplicates
  /\ release > 0
  /\ ~ Locked("groups")
  /\ duplicates' = FALSE
  /\ UNCHANGED <<tables, revision, run, populated, release>>

-----------------------------------------------------------------------------

Migrate ==
  \/ \E target \in Revisions, via \in Connections : Begin(target, via)
  \/ Execute
  \/ Stamp
  \/ Commit
  \/ Rollback

Traffic ==
  \/ \E r \in Revisions : Deploy(r)
  \/ \E name \in Watched : InsertRow(name)
  \/ InsertTwice
  \/ DeleteDuplicate

Next == Migrate \/ Traffic

Spec == Init /\ [][Next]_vars

-----------------------------------------------------------------------------

\* Whatever upgrades, downgrades, refused statements and lost connections came before,
\* the committed tables are exactly those of the committed revision: a failed run leaves
\* nothing of itself and a downgrade() undoes precisely what its upgrade() did. At the
\* latest revision they are the tables that models.py and queue.py declare, with the same
\* columns, defaults, keys and references.
SchemaMatchesRevision ==
  /\ tables = SchemaAt[revision]
  /\ revision = Latest => tables = ProgramTables

\* A release keeps inserting while newer revisions are applied under it: no upgrade
\* makes a table refuse the rows an older release writes. The raw INSERT of the webhook
\* endpoint is covered from the revision that gave the counter its default.
ReleasesKeepInserting ==
  \A name \in DOMAIN tables :
    /\ release \in 1..revision
    /\ name \in DOMAIN SchemaAt[release]
    /\ name = "provider_events" => release >= 2
    => TakesInsert(tables[name], Supplied(release, name))
================================================================================
