----------------------------- MODULE Deployment -----------------------------
(***************************************************************************)
(* How the database gets its tables and its first rows: every server       *)
(* process runs create_all when it starts (main.py, lifespan), alembic     *)
(* upgrades and downgrades, and scripts/seed.py runs create_all and then   *)
(* inserts what it does not find.  Any of them may run at the same time.   *)
(*                                                                         *)
(*  idle -> checked -> altered -> serving, seeding or ended                *)
(*                                                                         *)
(* Altering the schema is one transaction of PostgreSQL: nobody sees the   *)
(* tables before it commits, and whoever creates one of the same name      *)
(* waits for it and then fails.                                            *)
(***************************************************************************)
EXTENDS Naturals, Sequences

CONSTANTS
  Server,      \* processes of the API (uvicorn --workers)
  Seeder,      \* runs of scripts/seed.py
  Upgrade,     \* runs of alembic upgrade head
  Downgrade,   \* runs of alembic downgrade -1
  None,        \* nobody
  Api,         \* the API, as the author of a row
  MaxFaults,   \* connections that may be lost, a bound
  MaxRestarts  \* restarts of the API's container, a bound

Process == Server \cup Seeder \cup Upgrade \cup Downgrade

ASSUME DeploymentAssumption ==
  /\ Server \cap Seeder = {} /\ Server \cap Upgrade = {} /\ Server \cap Downgrade = {}
  /\ Seeder \cap Upgrade = {} /\ Seeder \cap Downgrade = {} /\ Upgrade \cap Downgrade = {}
  /\ None \notin Process /\ Api \notin Process /\ None # Api
  /\ MaxFaults \in Nat /\ MaxRestarts \in Nat

-----------------------------------------------------------------------------
(* The schema.                                                             *)

\* The tables that a table's foreign keys refer to, other than itself.
References == [
  departments |-> {}, users |-> {"departments"}, vendors |-> {},
  budgets |-> {"departments"},
  purchase_orders |-> {"users", "vendors", "departments", "budgets"},
  po_line_items |-> {"purchase_orders"},
  approval_workflows |-> {"departments"},
  approval_workflow_steps |-> {"approval_workflows", "users"},
  approval_steps |-> {"purchase_orders", "users"},
  audit_logs |-> {}, notifications |-> {"users"}, vendor_contacts |-> {"vendors"},
  documents |-> {"purchase_orders", "users"}]
Table == DOMAIN References

\* The order in which the first migration creates the tables: orders and what
\* they refer to, and the rest.
CreatedFirst == <<"departments", "users", "vendors", "budgets", "purchase_orders",
                  "po_line_items">>
CreatedThen == <<"approval_workflows", "approval_workflow_steps", "approval_steps",
                 "audit_logs", "notifications", "vendor_contacts", "documents">>
CreateOrder == CreatedFirst \o CreatedThen

\* The order in which its downgrade drops them.
DropOrder == <<"documents", "vendor_contacts", "notifications", "audit_logs",
               "approval_steps", "approval_workflow_steps", "approval_workflows",
               "po_line_items", "purchase_orders", "budgets", "vendors", "users",
               "departments">>

\* A table is created after those it refers to, and dropped before them.
Creatable(order) ==
  \A i \in DOMAIN order : References[order[i]] \subseteq {order[j] : j \in 1..(i - 1)}
Droppable(order) ==
  \A i \in DOMAIN order : \A j \in 1..(i - 1) : order[j] \notin References[order[i]]

\* Who has created the tables: the models or the migration.
Schema == {"none", "models", "migrated"}

\* Enum(UserRole) names its labels after the members, and so do the statements
\* of the models; the migration names them after the values.
Labels(schema) == CASE schema = "models"   -> {"ADMIN", "REQUESTER", "ACTIVE"}
                    [] schema = "migrated" -> {"admin", "requester", "active"}
                    [] OTHER               -> {}

-----------------------------------------------------------------------------
(* The seed.                                                               *)

Row == {"department", "admin", "requester", "vendor"}

\* The label in a row the seed inserts, if one of its columns has an enum.
EnumLabel == [admin |-> "ADMIN", requester |-> "REQUESTER", vendor |-> "ACTIVE"]

\* The statements of the seed: the department is flushed at once, because the
\* users refer to it; the other rows are inserted by the flush of the commit.
Look(row) == [statement |-> "select", row |-> row]
Put(row) == [statement |-> "insert", row |-> row]
Script == <<Look("department"), Put("department"), Look("admin"), Look("requester"),
            Look("vendor"), Put("admin"), Put("requester"), Put("vendor")>>

Ends == {"serving", "dead", "done", "error"}
PC == {"idle", "checked", "altered", "seeding"} \cup Ends

VARIABLES
  schema,   \* the committed schema
  ddl,      \* the process whose transaction has altered it and is not committed
  rows,     \* who has committed each row of the seed
  pc,       \* where each process is
  seen,     \* the schema each process found when it looked
  at,       \* the next statement of each seed
  missing,  \* rows each seed has not found
  pending,  \* rows each seed has inserted and not committed
  faults, restarts,
  dropped   \* history: a downgrade has dropped the tables

tables == <<schema, ddl, dropped>>
seeds == <<rows, at, missing, pending>>
bounds == <<faults, restarts>>
vars == <<tables, seeds, pc, seen, bounds>>

Init ==
  /\ schema = "none" /\ ddl = None /\ dropped = FALSE
  /\ rows = [r \in Row |-> None]
  /\ pc = [p \in Process |-> "idle"]
  /\ seen = [p \in Process |-> "none"]
  /\ at = [s \in Seeder |-> 1]
  /\ missing = [s \in Seeder |-> {}]
  /\ pending = [s \in Seeder |-> {}]
  /\ faults = 0 /\ restarts = 0

Goto(p, place) == pc' = [pc EXCEPT ![p] = place]

\* Where a process is once the tables are in order, and once it has failed: a
\* server process that cannot start ends and uvicorn does not replace it.
Passed(p) == IF p \in Server THEN "serving" ELSE IF p \in Seeder THEN "seeding" ELSE "done"
Failed(p) == IF p \in Server THEN "dead" ELSE "error"

\* What a lost connection leaves: PostgreSQL rolls its transaction back.
RolledBack(P) ==
  /\ ddl' = IF ddl \in P THEN None ELSE ddl
  /\ pending' = [s \in Seeder |-> IF s \in P THEN {} ELSE pending[s]]

-----------------------------------------------------------------------------
(* create_all, upgrade and downgrade.                                      *)

\* The process starts, and asks which tables are there, or which revision.
Check(p) ==
  /\ pc[p] = "idle"
  /\ seen' = [seen EXCEPT ![p] = schema]
  /\ Goto(p, "checked")
  /\ UNCHANGED <<tables, seeds, bounds>>

\* create_all leaves tables that are there, alembic a schema at its head.
Suffices(p) == IF p \in Upgrade THEN seen[p] = "migrated" ELSE seen[p] # "none"

\* Mutation: the lifespan does not await create_db_tables.
NothingToDo_NotAwaited(p) ==
  /\ pc[p] = "checked" /\ p \notin Downgrade /\ (Suffices(p) \/ p \in Server)
  /\ Goto(p, Passed(p))
  /\ UNCHANGED <<tables, seeds, seen, bounds>>

NothingToDo(p) ==
  /\ pc[p] = "checked" /\ p \notin Downgrade /\ Suffices(p)
  /\ Goto(p, Passed(p))
  /\ UNCHANGED <<tables, seeds, seen, bounds>>

\* CREATE TABLE, one after the other, in one transaction.
Create(p) ==
  /\ pc[p] = "checked" /\ p \notin Downgrade /\ ~Suffices(p)
  /\ schema = "none" /\ ddl = None
  /\ p \in Upgrade => Creatable(CreateOrder)
  /\ ddl' = p
  /\ Goto(p, "altered")
  /\ UNCHANGED <<schema, dropped, seeds, seen, bounds>>

\* DROP TABLE waits for the transactions that have used a table.
Drop(p) ==
  /\ pc[p] = "checked" /\ p \in Downgrade /\ seen[p] = "migrated"
  /\ schema = "migrated" /\ ddl = None
  /\ \A s \in Seeder : pc[s] = "seeding" => at[s] = 1
  /\ Droppable(DropOrder)
  /\ ddl' = p
  /\ Goto(p, "altered")
  /\ UNCHANGED <<schema, dropped, seeds, seen, bounds>>

\* A table is there that was not there before, or the other way round; or
\* there is no revision to go back to.
Clash(p) ==
  /\ pc[p] = "checked"
  /\ IF p \in Downgrade
     THEN seen[p] # "migrated" \/ schema # "migrated" \/ ~Droppable(DropOrder)
     ELSE ~Suffices(p) /\ (schema # "none" \/ (p \in Upgrade /\ ~Creatable(CreateOrder)))
  /\ Goto(p, Failed(p))
  /\ UNCHANGED <<tables, seeds, seen, bounds>>

\* Mutation: the downgrade leaves the types of the enums behind.
Altered_TypesLeft(p) ==
  /\ pc[p] = "altered"
  /\ schema' = IF p \in Downgrade THEN "types"
               ELSE IF p \in Upgrade THEN "migrated" ELSE "models"
  /\ ddl' = None
  /\ dropped' = (dropped \/ p \in Downgrade)
  /\ rows' = IF p \in Downgrade THEN [r \in Row |-> None] ELSE rows
  /\ UNCHANGED <<at, missing, pending, seen>>

\* The transaction commits.
Altered(p) ==
  /\ pc[p] = "altered"
  /\ schema' = IF p \in Downgrade THEN "none"
               ELSE IF p \in Upgrade THEN "migrated" ELSE "models"
  /\ ddl' = None
  /\ dropped' = (dropped \/ p \in Downgrade)
  /\ rows' = IF p \in Downgrade THEN [r \in Row |-> None] ELSE rows
  /\ UNCHANGED <<at, missing, pending, seen>>
CommitSchema(p) ==
  /\ Altered(p)
  /\ Goto(p, Passed(p))
  /\ UNCHANGED bounds

-----------------------------------------------------------------------------
(* seed.                                                                   *)

\* The seed is at a statement about a row.
Reaches(s, statement, r) ==
  pc[s] = "seeding" /\ at[s] \in DOMAIN Script
    /\ Script[at[s]] = [statement |-> statement, row |-> r]
Advance(s) == at' = [at EXCEPT ![s] = @ + 1]

\* SELECT finds what is committed; it waits while the tables are being dropped.
Select(s, r) ==
  /\ Reaches(s, "select", r)
  /\ schema # "none" /\ ddl \notin Downgrade
  /\ missing' = [missing EXCEPT ![s] = IF rows[r] = None THEN @ \cup {r} ELSE @]
  /\ Advance(s)
  /\ UNCHANGED <<tables, rows, pending, pc, seen, bounds>>

\* What the database refuses: a label its type does not have, a UNIQUE value
\* that has been committed since the SELECT.
Refused(r) ==
  \/ r \in DOMAIN EnumLabel /\ EnumLabel[r] \notin Labels(schema)
  \/ rows[r] # None

\* INSERT waits for another transaction that has inserted the same value.
Insert(s, r) ==
  /\ Reaches(s, "insert", r)
  /\ r \in missing[s] => ~Refused(r) /\ \A t \in Seeder \ {s} : r \notin pending[t]
  /\ pending' = [pending EXCEPT ![s] = IF r \in missing[s] THEN @ \cup {r} ELSE @]
  /\ Advance(s)
  /\ UNCHANGED <<tables, rows, missing, pc, seen, bounds>>

\* A statement is refused, or the tables are gone: the seed rolls back.
SeedFails(s) ==
  /\ \E r \in Row : \/ Reaches(s, "select", r) /\ schema = "none"
                    \/ Reaches(s, "insert", r) /\ r \in missing[s] /\ Refused(r)
  /\ RolledBack({s})
  /\ Goto(s, "error")
  /\ UNCHANGED <<schema, dropped, rows, at, missing, seen, bounds>>

\* Mutation: the department is committed where it is flushed.
Seeded_InPieces(s) ==
  /\ pc[s] = "seeding" /\ pending[s] # {}
  /\ rows' = [r \in Row |-> IF r \in pending[s] THEN s ELSE rows[r]]
  /\ pending' = [pending EXCEPT ![s] = {}]
  /\ UNCHANGED <<tables, at, missing, seen>>

\* session.commit().
Seeded(s) ==
  /\ pc[s] = "seeding" /\ at[s] = Len(Script) + 1
  /\ rows' = [r \in Row |-> IF r \in pending[s] THEN s ELSE rows[r]]
  /\ pending' = [pending EXCEPT ![s] = {}]
  /\ UNCHANGED <<tables, at, missing, seen>>
SeedCommit(s) ==
  /\ Seeded(s)
  /\ Goto(s, "done")
  /\ UNCHANGED bounds

-----------------------------------------------------------------------------
(* Faults, and what else happens.                                          *)

\* The connection is lost before a commit, or the process is chosen as the
\* victim of a deadlock with a DROP TABLE.
Lose(p) ==
  /\ pc[p] \in {"idle", "checked", "altered", "seeding"} /\ faults < MaxFaults
  /\ faults' = faults + 1
  /\ RolledBack({p})
  /\ Goto(p, Failed(p))
  /\ UNCHANGED <<schema, dropped, rows, at, missing, seen, restarts>>

\* The connection is lost after a commit and before its answer.
CommitUnacknowledged(p) ==
  /\ Altered(p) \/ (p \in Seeder /\ Seeded(p))
  /\ faults < MaxFaults
  /\ faults' = faults + 1
  /\ Goto(p, Failed(p))
  /\ UNCHANGED restarts

\* The API's container is restarted, and its processes with it.
Restart ==
  /\ restarts < MaxRestarts
  /\ restarts' = restarts + 1
  /\ RolledBack(Server)
  /\ pc' = [p \in Process |-> IF p \in Server THEN "idle" ELSE pc[p]]
  /\ UNCHANGED <<schema, dropped, rows, at, missing, seen, faults>>

\* The vendor has been deleted and is purged.
PurgeVendor ==
  /\ rows["vendor"] # None /\ ddl \notin Downgrade
  /\ rows' = [rows EXCEPT !["vendor"] = None]
  /\ UNCHANGED <<tables, at, missing, pending, pc, seen, bounds>>

\* An administrator adds a vendor with the seed's code.
AddVendor ==
  /\ rows["admin"] # None /\ ddl \notin Downgrade
  /\ \E w \in Server : pc[w] = "serving"
  /\ ~Refused("vendor") /\ \A s \in Seeder : "vendor" \notin pending[s]
  /\ rows' = [rows EXCEPT !["vendor"] = Api]
  /\ UNCHANGED <<tables, at, missing, pending, pc, seen, bounds>>

-----------------------------------------------------------------------------
Migrate(p) ==
  Check(p) \/ NothingToDo(p) \/ Create(p) \/ Drop(p) \/ Clash(p) \/ CommitSchema(p)

Seed(s) ==
  \/ \E r \in Row : Select(s, r) \/ Insert(s, r)
  \/ SeedFails(s)
  \/ SeedCommit(s)

Next ==
  \/ \E p \in Process : Migrate(p) \/ Lose(p) \/ CommitUnacknowledged(p)
  \/ \E s \in Seeder : Seed(s)
  \/ Restart
  \/ PurgeVendor
  \/ AddVendor

Spec == Init /\ [][Next]_vars

-----------------------------------------------------------------------------
(* Properties.                                                             *)

\* Processes, tables and rows keep their shapes.
TypeOK ==
  /\ schema \in Schema /\ ddl \in Process \cup {None} /\ dropped \in BOOLEAN
  /\ rows \in [Row -> Seeder \cup {Api, None}]
  /\ pc \in [Process -> PC]
  /\ seen \in [Process -> Schema]
  /\ at \in [Seeder -> 1..9]
  /\ missing \in [Seeder -> SUBSET Row]
  /\ pending \in [Seeder -> SUBSET Row]
  /\ faults \in 0..MaxFaults /\ restarts \in 0..MaxRestarts

\* Whoever gets past the schema leaves tables behind: a server serves, a
\* script ends and a process dies or fails for want of nothing but a connection
\* only when the tables are there, its own or another's; unless a downgrade
\* has dropped them.
TablesAreThere ==
  \A p \in Process \ Downgrade :
    pc[p] \in {"serving", "seeding", "done"} \/ (pc[p] \in Ends /\ faults = 0) =>
      schema # "none" \/ dropped

\* A seed is all or nothing: its rows appear when it has ended, every row it
\* missed among them; and whatever it found or inserted, a seed that is done
\* leaves a department and two users.
SeedsAreWhole ==
  \A s \in Seeder :
    /\ (\E r \in Row : rows[r] = s) =>
         pc[s] \in {"done", "error"} /\ \A q \in missing[s] \ {"vendor"} : rows[q] = s
    /\ pc[s] = "done" /\ ~dropped => \A r \in Row \ {"vendor"} : rows[r] # None

\* The seed ends well on a database that alembic has upgraded (the README's
\* installation), and again when it is run again.
SeedSucceedsAfterUpgrade == \A s \in Seeder : seen[s] = "migrated" => pc[s] # "error"

=============================================================================
