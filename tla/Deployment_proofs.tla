-------------------------- MODULE Deployment_proofs --------------------------
(***************************************************************************)
(* Proofs about Deployment, for every number of server processes, seeds    *)
(* and runs of alembic, and every number of faults and restarts.           *)
(***************************************************************************)
EXTENDS Deployment, TLAPS

\* Where the seed looks for a row, and where it inserts it.
LookAt(r) == CASE r = "department" -> 1 [] r = "admin" -> 3 [] r = "requester" -> 4 [] OTHER -> 5
PutAt(r) == CASE r = "department" -> 2 [] r = "admin" -> 6 [] r = "requester" -> 7 [] OTHER -> 8

\* One transaction at a time alters the schema, and the schema is what it was
\* when that transaction began.
OneAlters ==
  /\ ddl # None => pc[ddl] = "altered"
  /\ \A p \in Process : pc[p] = "altered" =>
       ddl = p /\ schema = IF p \in Downgrade THEN "migrated" ELSE "none"

\* Tables that were seen are there, or have been dropped.
SeenStay ==
  \A p \in Process : pc[p] = "checked" /\ seen[p] # "none" => schema # "none" \/ dropped

\* Only servers serve or die, and only seeds seed.
PlacesFit ==
  \A p \in Process : /\ pc[p] \in {"serving", "dead"} => p \in Server
                     /\ pc[p] = "seeding" => p \in Seeder

\* A row that is inserted and not committed is nobody else's.
PendingIsOwn ==
  \A s \in Seeder, r \in Row : r \in pending[s] =>
    rows[r] = None /\ \A t \in Seeder \ {s} : r \notin pending[t]

\* What a seed has missed and inserted so far.
SeedsProgress ==
  \A s \in Seeder :
    /\ pc[s] \in {"idle", "checked", "altered"} => at[s] = 1 /\ missing[s] = {} /\ pending[s] = {}
    /\ pc[s] = "seeding" => \A r \in Row :
         /\ at[s] > PutAt(r) => (r \in pending[s] <=> r \in missing[s])
         /\ at[s] <= PutAt(r) => r \notin pending[s]
         /\ at[s] > LookAt(r) /\ r \notin missing[s] /\ r # "vendor" => rows[r] # None \/ dropped
    /\ pc[s] \in Ends => pending[s] = {}

Inductive ==
  /\ TypeOK
  /\ OneAlters
  /\ SeenStay
  /\ PlacesFit
  /\ TablesAreThere
  /\ PendingIsOwn
  /\ SeedsProgress
  /\ SeedsAreWhole

-----------------------------------------------------------------------------
(* Facts about processes and the script.                                   *)

\* Nobody is a process, and a process is of one kind.
LEMMA Kinds ==
  /\ None \notin Process /\ Api \notin Process /\ None # Api
  /\ Server \subseteq Process /\ Seeder \subseteq Process
  /\ Upgrade \subseteq Process /\ Downgrade \subseteq Process
  /\ \A s \in Seeder : s \notin Server /\ s \notin Upgrade /\ s \notin Downgrade
  /\ \A p \in Downgrade : p \notin Server /\ p \notin Seeder
  /\ MaxFaults \in Nat /\ MaxRestarts \in Nat
BY DeploymentAssumption DEF Process

\* The places of the statements.
LEMMA Places ==
  ASSUME NEW s \in Seeder, NEW r \in Row, at[s] \in 1..9
  PROVE  /\ Reaches(s, "select", r) => pc[s] = "seeding" /\ at[s] = LookAt(r)
         /\ Reaches(s, "insert", r) => pc[s] = "seeding" /\ at[s] = PutAt(r)
         /\ Len(Script) = 8
         /\ LookAt(r) \in 1..5 /\ PutAt(r) \in 1..8 /\ LookAt(r) < PutAt(r)
<1>1. Len(Script) = 8 /\ DOMAIN Script = 1..8
  BY DEF Script
<1>2. LookAt(r) \in 1..5 /\ PutAt(r) \in 1..8 /\ LookAt(r) < PutAt(r)
  BY DEF LookAt, PutAt, Row
<1>3. ASSUME NEW i \in 1..8
      PROVE  /\ Script[i] = [statement |-> "select", row |-> r] => i = LookAt(r)
             /\ Script[i] = [statement |-> "insert", row |-> r] => i = PutAt(r)
  <2>1. \/ i = 1 \/ i = 2 \/ i = 3 \/ i = 4 \/ i = 5 \/ i = 6 \/ i = 7 \/ i = 8
    BY <1>3
  <2> QED
    BY <2>1 DEF Script, Look, Put, LookAt, PutAt, Row
<1> QED
  BY <1>1, <1>2, <1>3 DEF Reaches

\* The first migration creates no table before those it refers to.
LEMMA MigrationApplies == Creatable(CreateOrder)
<1>1. /\ DOMAIN CreateOrder = 1..13
      /\ CreateOrder[1] = "departments" /\ CreateOrder[2] = "users"
      /\ CreateOrder[3] = "vendors" /\ CreateOrder[4] = "budgets"
      /\ CreateOrder[5] = "purchase_orders" /\ CreateOrder[6] = "po_line_items"
      /\ CreateOrder[7] = "approval_workflows" /\ CreateOrder[8] = "approval_workflow_steps"
      /\ CreateOrder[9] = "approval_steps" /\ CreateOrder[10] = "audit_logs"
      /\ CreateOrder[11] = "notifications" /\ CreateOrder[12] = "vendor_contacts"
      /\ CreateOrder[13] = "documents"
  BY DEF CreateOrder, CreatedFirst, CreatedThen
<1>2. ASSUME NEW i \in 1..13
      PROVE  References[CreateOrder[i]] \subseteq {CreateOrder[j] : j \in 1..(i - 1)}
  <2>1. CASE i \in {1, 3, 10}
    BY <1>1, <2>1 DEF References
  <2>2. CASE i \in {2, 4, 7}
    BY <1>1, <2>2 DEF References
  <2>3. CASE i = 5
    BY <1>1, <2>3 DEF References
  <2>4. CASE i \in {6, 11, 12}
    BY <1>1, <2>4 DEF References
  <2>5. CASE i \in {8, 9, 13}
    BY <1>1, <2>5 DEF References
  <2> QED
    BY <2>1, <2>2, <2>3, <2>4, <2>5
<1> QED
  BY <1>1, <1>2 DEF Creatable

\* The invariant holds in the initial states.
LEMMA InitInductive == Init => Inductive
<1> SUFFICES ASSUME Init PROVE Inductive
  OBVIOUS
<1>1. TypeOK
  <2>1. "idle" \in PC /\ "none" \in Schema
    BY DEF PC, Schema
  <2>2. schema \in Schema /\ ddl \in Process \cup {None} /\ dropped \in BOOLEAN
    BY <2>1 DEF Init
  <2>3. /\ rows \in [Row -> Seeder \cup {Api, None}] /\ pc \in [Process -> PC]
        /\ seen \in [Process -> Schema]
    BY <2>1 DEF Init
  <2>4. /\ at \in [Seeder -> 1..9] /\ missing \in [Seeder -> SUBSET Row]
        /\ pending \in [Seeder -> SUBSET Row]
    BY DEF Init
  <2>5. faults \in 0..MaxFaults /\ restarts \in 0..MaxRestarts
    BY Kinds DEF Init
  <2> QED
    BY <2>2, <2>3, <2>4, <2>5 DEF TypeOK
<1>2. \A p \in Process : pc[p] = "idle"
  BY DEF Init
<1>3. OneAlters /\ SeenStay /\ TablesAreThere /\ PlacesFit
  BY <1>2 DEF Init, OneAlters, SeenStay, TablesAreThere, PlacesFit, Ends
<1>4. PendingIsOwn /\ SeedsProgress
  BY <1>2, Kinds DEF Init, PendingIsOwn, SeedsProgress, Ends
<1>5. SeedsAreWhole
  BY <1>2, Kinds DEF Init, SeedsAreWhole
<1> QED
  BY <1>1, <1>3, <1>4, <1>5 DEF Inductive

-----------------------------------------------------------------------------
(* Steps up to the schema.                                                 *)

\* A process moves on, and the rows stay as they are.
LEMMA SeedFrame ==
  ASSUME Inductive, NEW p \in Process, NEW place \in PC, Goto(p, place),
         UNCHANGED <<rows, at, missing, pending>>, dropped => dropped',
         pc[p] \notin {"seeding", "done", "error"},
         p \in Seeder => place \notin {"serving", "dead", "done"},
         place = "seeding" => p \in Seeder,
         place \in {"serving", "dead"} => p \in Server
  PROVE  PlacesFit' /\ PendingIsOwn' /\ SeedsProgress' /\ SeedsAreWhole'
<1>1. /\ pc'[p] = place /\ \A q \in Process \ {p} : pc'[q] = pc[q]
  BY DEF Inductive, TypeOK, Goto
<1>2. PendingIsOwn'
  BY DEF Inductive, PendingIsOwn
<1>3. SeedsProgress'
  <2> SUFFICES ASSUME NEW s \in Seeder
               PROVE  /\ pc'[s] \in {"idle", "checked", "altered"} =>
                           at[s] = 1 /\ missing[s] = {} /\ pending[s] = {}
                      /\ pc'[s] = "seeding" => \A r \in Row :
                           /\ at[s] > PutAt(r) => (r \in pending[s] <=> r \in missing[s])
                           /\ at[s] <= PutAt(r) => r \notin pending[s]
                           /\ at[s] > LookAt(r) /\ r \notin missing[s] /\ r # "vendor" =>
                                rows[r] # None \/ dropped'
                      /\ pc'[s] \in Ends => pending[s] = {}
    BY DEF SeedsProgress, PutAt, LookAt
  <2>1. CASE s # p
    BY <1>1, <2>1, Kinds DEF Inductive, SeedsProgress
  <2>2. CASE s = p
    <3>1. pc[s] \in {"idle", "checked", "altered"}
      BY <2>2, Kinds DEF Inductive, TypeOK, PlacesFit, PC, Ends
    <3>2. at[s] = 1 /\ missing[s] = {} /\ pending[s] = {}
      BY <3>1 DEF Inductive, SeedsProgress
    <3>3. \A r \in Row : LookAt(r) \in Nat /\ PutAt(r) \in Nat /\ LookAt(r) >= 1
      BY DEF LookAt, PutAt, Row
    <3> QED
      BY <3>2, <3>3
  <2> QED
    BY <2>1, <2>2
<1>4. SeedsAreWhole'
  BY <1>1, Kinds DEF Inductive, SeedsAreWhole
<1>5. PlacesFit'
  BY <1>1 DEF Inductive, PlacesFit
<1> QED
  BY <1>2, <1>3, <1>4, <1>5

\* What a process may find once the schema is dealt with.
LEMMA TablesFrame ==
  ASSUME Inductive, NEW p \in Process, NEW place \in PC, Goto(p, place),
         faults' \in Nat, faults' >= faults,
         schema # "none" \/ dropped => schema' # "none" \/ dropped',
         p \notin Downgrade =>
           (place \in {"serving", "seeding", "done"} \/ (place \in Ends /\ faults' = 0) =>
              schema' # "none" \/ dropped')
  PROVE  TablesAreThere'
<1>1. /\ pc'[p] = place /\ \A q \in Process \ {p} : pc'[q] = pc[q]
  BY DEF Inductive, TypeOK, Goto
<1>2. faults \in Nat
  BY Kinds DEF Inductive, TypeOK
<1> SUFFICES ASSUME NEW q \in Process \ Downgrade,
                    \/ pc'[q] \in {"serving", "seeding", "done"}
                    \/ pc'[q] \in Ends /\ faults' = 0
             PROVE  schema' # "none" \/ dropped'
  BY DEF TablesAreThere
<1>3. CASE q = p
  BY <1>1, <1>3
<1>4. CASE q # p
  <2>1. \/ pc[q] \in {"serving", "seeding", "done"}
        \/ pc[q] \in Ends /\ faults = 0
    BY <1>1, <1>2, <1>4
  <2> QED
    BY <2>1 DEF Inductive, TablesAreThere
<1> QED
  BY <1>3, <1>4

\* A process looks, finds nothing to do, alters the schema or fails at it.
LEMMA CheckedPreserves ==
  ASSUME Inductive, NEW p \in Process,
         Check(p) \/ NothingToDo(p) \/ Create(p) \/ Drop(p) \/ Clash(p)
  PROVE  Inductive'
<1>1. CASE Check(p)
  <2>1. /\ pc[p] = "idle" /\ Goto(p, "checked") /\ seen' = [seen EXCEPT ![p] = schema]
        /\ UNCHANGED <<schema, ddl, dropped, rows, at, missing, pending, faults, restarts>>
    BY <1>1 DEF Check, tables, seeds, bounds
  <2>2. pc' = [pc EXCEPT ![p] = "checked"] /\ "checked" \in PC
    BY <2>1 DEF Goto, PC
  <2>3. TypeOK'
    BY <2>1, <2>2 DEF Inductive, TypeOK
  <2>4. OneAlters' /\ SeenStay'
    BY <2>1, <2>2 DEF Inductive, TypeOK, OneAlters, SeenStay
  <2>5. faults \in Nat
    BY Kinds DEF Inductive, TypeOK
  <2>6. TablesAreThere'
    BY <2>1, <2>2, <2>5, TablesFrame DEF Ends
  <2>7. PlacesFit' /\ PendingIsOwn' /\ SeedsProgress' /\ SeedsAreWhole'
    BY <2>1, <2>2, SeedFrame
  <2> QED
    BY <2>3, <2>4, <2>6, <2>7 DEF Inductive
<1>2. CASE NothingToDo(p)
  <2>1. /\ pc[p] = "checked" /\ Goto(p, Passed(p)) /\ p \notin Downgrade /\ seen[p] # "none"
        /\ UNCHANGED <<schema, ddl, dropped, rows, at, missing, pending, seen, faults, restarts>>
    BY <1>2 DEF NothingToDo, Suffices, tables, seeds, bounds
  <2>2. /\ pc' = [pc EXCEPT ![p] = Passed(p)] /\ Passed(p) \in {"serving", "seeding", "done"}
        /\ Passed(p) \in PC
        /\ p \in Seeder => Passed(p) = "seeding"
        /\ Passed(p) = "seeding" => p \in Seeder
        /\ Passed(p) = "serving" => p \in Server
    BY <2>1, Kinds DEF Goto, PC, Passed, Ends
  <2>3. TypeOK'
    BY <2>1, <2>2 DEF Inductive, TypeOK
  <2>4. OneAlters' /\ SeenStay'
    BY <2>1, <2>2 DEF Inductive, TypeOK, OneAlters, SeenStay
  <2>5. faults \in Nat /\ (schema # "none" \/ dropped)
    BY <2>1, Kinds DEF Inductive, TypeOK, SeenStay
  <2>6. TablesAreThere'
    BY <2>1, <2>2, <2>5, TablesFrame
  <2>7. PlacesFit' /\ PendingIsOwn' /\ SeedsProgress' /\ SeedsAreWhole'
    BY <2>1, <2>2, SeedFrame
  <2> QED
    BY <2>3, <2>4, <2>6, <2>7 DEF Inductive
<1>3. CASE Create(p) \/ Drop(p)
  <2>1. /\ pc[p] = "checked" /\ Goto(p, "altered") /\ ddl = None /\ ddl' = p
        /\ schema = IF p \in Downgrade THEN "migrated" ELSE "none"
        /\ UNCHANGED <<schema, dropped, rows, at, missing, pending, seen, faults, restarts>>
    BY <1>3 DEF Create, Drop, seeds, bounds
  <2>2. pc' = [pc EXCEPT ![p] = "altered"] /\ "altered" \in PC
    BY <2>1 DEF Goto, PC
  <2>3. TypeOK'
    BY <2>1, <2>2 DEF Inductive, TypeOK
  <2>4. OneAlters' /\ SeenStay'
    <3>1. \A q \in Process : pc[q] # "altered"
      BY <2>1, Kinds DEF Inductive, OneAlters
    <3>2. pc'[p] = "altered" /\ \A q \in Process \ {p} : pc'[q] = pc[q]
      BY <2>2 DEF Inductive, TypeOK
    <3>3. OneAlters'
      BY <2>1, <3>1, <3>2 DEF OneAlters
    <3>4. SeenStay'
      BY <2>1, <3>2 DEF Inductive, SeenStay
    <3> QED
      BY <3>3, <3>4
  <2>5. faults \in Nat
    BY Kinds DEF Inductive, TypeOK
  <2>6. TablesAreThere'
    BY <2>1, <2>2, <2>5, TablesFrame DEF Ends
  <2>7. PlacesFit' /\ PendingIsOwn' /\ SeedsProgress' /\ SeedsAreWhole'
    BY <2>1, <2>2, SeedFrame
  <2> QED
    BY <2>3, <2>4, <2>6, <2>7 DEF Inductive
<1>4. CASE Clash(p)
  <2>1. /\ pc[p] = "checked" /\ Goto(p, Failed(p))
        /\ UNCHANGED <<schema, ddl, dropped, rows, at, missing, pending, seen, faults, restarts>>
    BY <1>4 DEF Clash, tables, seeds, bounds
  <2>2. /\ pc' = [pc EXCEPT ![p] = Failed(p)] /\ Failed(p) \in {"dead", "error"}
        /\ Failed(p) \in PC
        /\ p \in Seeder => Failed(p) = "error"
        /\ Failed(p) = "dead" => p \in Server
    BY <2>1, Kinds DEF Goto, PC, Failed, Ends
  <2>3. TypeOK'
    BY <2>1, <2>2 DEF Inductive, TypeOK
  <2>4. OneAlters' /\ SeenStay'
    BY <2>1, <2>2 DEF Inductive, TypeOK, OneAlters, SeenStay
  <2>5. faults \in Nat
    BY Kinds DEF Inductive, TypeOK
  <2>6. p \notin Downgrade => schema # "none"
    BY <1>4, MigrationApplies DEF Clash
  <2>7. TablesAreThere'
    BY <2>1, <2>2, <2>5, <2>6, TablesFrame
  <2>8. PlacesFit' /\ PendingIsOwn' /\ SeedsProgress' /\ SeedsAreWhole'
    BY <2>1, <2>2, SeedFrame
  <2> QED
    BY <2>3, <2>4, <2>7, <2>8 DEF Inductive
<1> QED
  BY <1>1, <1>2, <1>3, <1>4

\* The transaction that has altered the schema commits, answered or not.
LEMMA AlteredPreserves ==
  ASSUME Inductive, NEW p \in Process, Altered(p), NEW place \in {Passed(p), Failed(p)},
         Goto(p, place), faults' \in 0..MaxFaults, faults' >= faults, UNCHANGED restarts
  PROVE  Inductive'
<1>1. /\ pc[p] = "altered" /\ ddl = p /\ ddl' = None
      /\ UNCHANGED <<at, missing, pending, seen>>
  BY DEF Altered, Inductive, OneAlters
<1>2. /\ schema' \in Schema /\ dropped' \in BOOLEAN
      /\ dropped => dropped'
      /\ p \in Downgrade => dropped' /\ rows' = [r \in Row |-> None]
      /\ p \notin Downgrade => schema' # "none" /\ rows' = rows
  BY DEF Altered, Schema, Inductive, TypeOK
<1>3. /\ pc' = [pc EXCEPT ![p] = place] /\ place \in PC /\ place \in Ends \cup {"seeding"}
      /\ p \in Seeder => place \in {"seeding", "error"}
      /\ place = "seeding" => p \in Seeder
      /\ place \in {"serving", "dead"} => p \in Server
  BY Kinds DEF Goto, PC, Passed, Failed, Ends
<1>4. pc'[p] = place /\ \A q \in Process \ {p} : pc'[q] = pc[q]
  BY <1>3 DEF Inductive, TypeOK
<1>5. TypeOK'
  <2>1. rows' \in [Row -> Seeder \cup {Api, None}]
    BY <1>2 DEF Inductive, TypeOK
  <2>2. pc' \in [Process -> PC] /\ ddl' \in Process \cup {None}
    BY <1>1, <1>3 DEF Inductive, TypeOK
  <2> QED
    <3>1. TypeOK
      BY DEF Inductive
    <3> QED
      BY <1>1, <1>2, <2>1, <2>2, <3>1 DEF TypeOK
<1>6. OneAlters'
  BY <1>1, <1>3, <1>4 DEF Inductive, OneAlters, Ends
<1>7. SeenStay'
  BY <1>1, <1>2, <1>3, <1>4 DEF Inductive, SeenStay, Ends
<1>8. TablesAreThere'
  <2>1. faults' \in Nat
    BY Kinds
  <2>3. schema # "none" \/ dropped => schema' # "none" \/ dropped'
    BY <1>2
  <2>4. p \notin Downgrade => schema' # "none"
    BY <1>2
  <2> HIDE DEF Altered
  <2> QED
    BY <1>3, <2>1, <2>3, <2>4, TablesFrame
<1>9. PlacesFit' /\ PendingIsOwn' /\ SeedsProgress' /\ SeedsAreWhole'
  <2>1. CASE p \notin Downgrade
    <3>1. UNCHANGED <<rows, at, missing, pending>>
      BY <1>1, <1>2, <2>1
    <3>2. pc[p] \notin {"seeding", "done", "error"}
      BY <1>1
    <3>3. dropped => dropped'
      BY <1>2
    <3>4. /\ p \in Seeder => place \notin {"serving", "dead", "done"}
          /\ place = "seeding" => p \in Seeder
          /\ place \in {"serving", "dead"} => p \in Server
      BY <1>3
    <3>5. Goto(p, place) /\ place \in PC
      BY <1>3
    <3> QED
      BY <3>1, <3>2, <3>3, <3>4, <3>5, SeedFrame
  <2>2. CASE p \in Downgrade
    <3>1. p \notin Seeder /\ \A s \in Seeder : s \in Process /\ pc'[s] = pc[s]
      BY <1>4, <2>2, Kinds
    <3>2. \A r \in Row : rows'[r] = None
      BY <1>2, <2>2
    <3>3. PlacesFit'
      BY <1>3, <1>4 DEF Inductive, PlacesFit
    <3>4. PendingIsOwn'
      BY <1>1, <3>2 DEF Inductive, PendingIsOwn
    <3>5. SeedsProgress'
      BY <1>1, <1>2, <2>2, <3>1 DEF Inductive, SeedsProgress, PutAt, LookAt
    <3>6. SeedsAreWhole'
      BY <1>2, <2>2, <3>2, Kinds DEF SeedsAreWhole
    <3> QED
      BY <3>3, <3>4, <3>5, <3>6
  <2> QED
    BY <2>1, <2>2
<1> QED
  BY <1>5, <1>6, <1>7, <1>8, <1>9 DEF Inductive

-----------------------------------------------------------------------------
(* The statements of a seed.                                               *)

\* Steps that leave the processes and the schema where they are.
LEMMA StayFrame ==
  ASSUME Inductive, UNCHANGED <<schema, ddl, dropped, pc, seen, faults>>
  PROVE  OneAlters' /\ SeenStay' /\ PlacesFit' /\ TablesAreThere'
BY DEF Inductive, OneAlters, SeenStay, PlacesFit, TablesAreThere

\* A SELECT.
LEMMA SelectPreserves ==
  ASSUME Inductive, NEW s \in Seeder, NEW r \in Row, Select(s, r)
  PROVE  Inductive'
<1>1. /\ missing' = [missing EXCEPT ![s] = IF rows[r] = None THEN @ \cup {r} ELSE @]
      /\ at' = [at EXCEPT ![s] = @ + 1]
      /\ UNCHANGED <<schema, ddl, dropped, rows, pending, pc, seen, faults, restarts>>
  BY DEF Select, Advance, tables, bounds
<1>2. /\ at[s] \in 1..9 /\ pc[s] = "seeding" /\ at[s] = LookAt(r)
      /\ LookAt(r) \in 1..5
  <2>1. at[s] \in 1..9
    BY DEF Inductive, TypeOK
  <2> QED
    BY <2>1, Places DEF Select
<1>3. /\ at'[s] = at[s] + 1 /\ \A t \in Seeder \ {s} : at'[t] = at[t] /\ missing'[t] = missing[t]
      /\ missing'[s] = IF rows[r] = None THEN missing[s] \cup {r} ELSE missing[s]
  BY <1>1 DEF Inductive, TypeOK
<1>4. TypeOK'
  <2>1. at' \in [Seeder -> 1..9]
    BY <1>1, <1>2 DEF Inductive, TypeOK
  <2>2. missing' \in [Seeder -> SUBSET Row]
    BY <1>1 DEF Inductive, TypeOK
  <2> QED
    BY <1>1, <2>1, <2>2 DEF Inductive, TypeOK
<1>5. OneAlters' /\ SeenStay' /\ PlacesFit' /\ TablesAreThere'
  BY <1>1, StayFrame
<1>6. PendingIsOwn'
  BY <1>1 DEF Inductive, PendingIsOwn
<1>7. SeedsProgress'
  <2> SUFFICES ASSUME NEW t \in Seeder
               PROVE  /\ pc[t] \in {"idle", "checked", "altered"} =>
                           at'[t] = 1 /\ missing'[t] = {} /\ pending[t] = {}
                      /\ pc[t] = "seeding" => \A q \in Row :
                           /\ at'[t] > PutAt(q) => (q \in pending[t] <=> q \in missing'[t])
                           /\ at'[t] <= PutAt(q) => q \notin pending[t]
                           /\ at'[t] > LookAt(q) /\ q \notin missing'[t] /\ q # "vendor" =>
                                rows[q] # None \/ dropped
                      /\ pc[t] \in Ends => pending[t] = {}
    BY <1>1 DEF SeedsProgress, PutAt, LookAt
  <2>1. CASE t # s
    BY <1>3, <2>1 DEF Inductive, SeedsProgress
  <2>2. CASE t = s
    <3>1. ASSUME NEW q \in Row
          PROVE  /\ at'[s] > PutAt(q) => (q \in pending[s] <=> q \in missing'[s])
                 /\ at'[s] <= PutAt(q) => q \notin pending[s]
                 /\ at'[s] > LookAt(q) /\ q \notin missing'[s] /\ q # "vendor" =>
                      rows[q] # None \/ dropped
      <4>1. /\ at[s] > PutAt(q) => (q \in pending[s] <=> q \in missing[s])
            /\ at[s] <= PutAt(q) => q \notin pending[s]
            /\ at[s] > LookAt(q) /\ q \notin missing[s] /\ q # "vendor" =>
                 rows[q] # None \/ dropped
        BY <1>2 DEF Inductive, SeedsProgress
      <4>2. /\ LookAt(q) \in Nat /\ PutAt(q) \in Nat /\ PutAt(q) # LookAt(r)
            /\ LookAt(q) = LookAt(r) => q = r
            /\ LookAt(q) < PutAt(q)
        BY DEF LookAt, PutAt, Row
      <4>3. CASE q = r
        BY <1>2, <1>3, <4>1, <4>2, <4>3
      <4>4. CASE q # r
        <5>1. q \in missing'[s] <=> q \in missing[s]
          BY <1>3, <4>4
        <5>2. /\ at'[s] > PutAt(q) => at[s] > PutAt(q)
              /\ at'[s] <= PutAt(q) => at[s] <= PutAt(q)
              /\ at'[s] > LookAt(q) => at[s] > LookAt(q)
          BY <1>2, <1>3, <4>2, <4>4
        <5> QED
          BY <4>1, <5>1, <5>2
      <4> QED
        BY <4>3, <4>4
    <3> QED
      BY <1>2, <2>2, <3>1 DEF Ends
  <2> QED
    BY <2>1, <2>2
<1>8. SeedsAreWhole'
  BY <1>1, <1>2, <1>3 DEF Inductive, SeedsAreWhole
<1> QED
  BY <1>4, <1>5, <1>6, <1>7, <1>8 DEF Inductive

\* An INSERT.
LEMMA InsertPreserves ==
  ASSUME Inductive, NEW s \in Seeder, NEW r \in Row, Insert(s, r)
  PROVE  Inductive'
<1>1. /\ pending' = [pending EXCEPT ![s] = IF r \in missing[s] THEN @ \cup {r} ELSE @]
      /\ at' = [at EXCEPT ![s] = @ + 1]
      /\ UNCHANGED <<schema, ddl, dropped, rows, missing, pc, seen, faults, restarts>>
      /\ r \in missing[s] => rows[r] = None /\ \A t \in Seeder \ {s} : r \notin pending[t]
  BY DEF Insert, Advance, Refused, tables, bounds
<1>2. at[s] \in 1..9 /\ pc[s] = "seeding" /\ at[s] = PutAt(r) /\ PutAt(r) \in 1..8
  <2>1. at[s] \in 1..9
    BY DEF Inductive, TypeOK
  <2> QED
    BY <2>1, Places DEF Insert
<1>3. /\ at'[s] = at[s] + 1 /\ \A t \in Seeder \ {s} : at'[t] = at[t] /\ pending'[t] = pending[t]
      /\ pending'[s] = IF r \in missing[s] THEN pending[s] \cup {r} ELSE pending[s]
  BY <1>1 DEF Inductive, TypeOK
<1>4. TypeOK'
  <2>1. at' \in [Seeder -> 1..9]
    BY <1>1, <1>2 DEF Inductive, TypeOK
  <2>2. pending' \in [Seeder -> SUBSET Row]
    BY <1>1 DEF Inductive, TypeOK
  <2> QED
    BY <1>1, <2>1, <2>2 DEF Inductive, TypeOK
<1>5. OneAlters' /\ SeenStay' /\ PlacesFit' /\ TablesAreThere'
  BY <1>1, StayFrame
<1>6. PendingIsOwn'
  <2> SUFFICES ASSUME NEW t \in Seeder, NEW q \in Row, q \in pending'[t]
               PROVE  rows[q] = None /\ \A u \in Seeder \ {t} : q \notin pending'[u]
    BY <1>1 DEF PendingIsOwn
  <2>1. CASE q = r /\ r \in missing[s] /\ t = s
    BY <1>1, <1>3, <2>1
  <2>2. CASE ~(q = r /\ r \in missing[s] /\ t = s)
    <3>1. q \in pending[t]
      BY <1>3, <2>2
    <3>2. rows[q] = None /\ \A u \in Seeder \ {t} : q \notin pending[u]
      BY <3>1 DEF Inductive, PendingIsOwn
    <3>3. q = r /\ r \in missing[s] => t = s
      BY <1>1, <3>1
    <3> QED
      BY <1>3, <2>2, <3>2, <3>3
  <2> QED
    BY <2>1, <2>2
<1>7. SeedsProgress'
  <2> SUFFICES ASSUME NEW t \in Seeder
               PROVE  /\ pc[t] \in {"idle", "checked", "altered"} =>
                           at'[t] = 1 /\ missing[t] = {} /\ pending'[t] = {}
                      /\ pc[t] = "seeding" => \A q \in Row :
                           /\ at'[t] > PutAt(q) => (q \in pending'[t] <=> q \in missing[t])
                           /\ at'[t] <= PutAt(q) => q \notin pending'[t]
                           /\ at'[t] > LookAt(q) /\ q \notin missing[t] /\ q # "vendor" =>
                                rows[q] # None \/ dropped
                      /\ pc[t] \in Ends => pending'[t] = {}
    BY <1>1 DEF SeedsProgress, PutAt, LookAt
  <2>1. CASE t # s
    BY <1>3, <2>1 DEF Inductive, SeedsProgress
  <2>2. CASE t = s
    <3>1. ASSUME NEW q \in Row
          PROVE  /\ at'[s] > PutAt(q) => (q \in pending'[s] <=> q \in missing[s])
                 /\ at'[s] <= PutAt(q) => q \notin pending'[s]
                 /\ at'[s] > LookAt(q) /\ q \notin missing[s] /\ q # "vendor" =>
                      rows[q] # None \/ dropped
      <4>1. /\ at[s] > PutAt(q) => (q \in pending[s] <=> q \in missing[s])
            /\ at[s] <= PutAt(q) => q \notin pending[s]
            /\ at[s] > LookAt(q) /\ q \notin missing[s] /\ q # "vendor" =>
                 rows[q] # None \/ dropped
        BY <1>2 DEF Inductive, SeedsProgress
      <4>2. /\ LookAt(q) \in Nat /\ PutAt(q) \in Nat /\ PutAt(r) # LookAt(q)
            /\ PutAt(q) = PutAt(r) => q = r
            /\ LookAt(q) < PutAt(q)
        BY DEF LookAt, PutAt, Row
      <4>3. CASE q = r
        BY <1>2, <1>3, <4>1, <4>2, <4>3
      <4>4. CASE q # r
        <5>1. q \in pending'[s] <=> q \in pending[s]
          BY <1>3, <4>4
        <5>2. /\ at'[s] > PutAt(q) => at[s] > PutAt(q)
              /\ at'[s] <= PutAt(q) => at[s] <= PutAt(q)
              /\ at'[s] > LookAt(q) => at[s] > LookAt(q)
          BY <1>2, <1>3, <4>2, <4>4
        <5> QED
          BY <4>1, <5>1, <5>2
      <4> QED
        BY <4>3, <4>4
    <3> QED
      BY <1>2, <2>2, <3>1 DEF Ends
  <2> QED
    BY <2>1, <2>2
<1>8. SeedsAreWhole'
  BY <1>1 DEF Inductive, SeedsAreWhole
<1> QED
  BY <1>4, <1>5, <1>6, <1>7, <1>8 DEF Inductive

\* The commit of a seed, answered or not.
LEMMA SeededPreserves ==
  ASSUME Inductive, NEW s \in Seeder, Seeded(s), NEW place \in {"done", "error"},
         Goto(s, place), faults' \in 0..MaxFaults, faults' >= faults, UNCHANGED restarts
  PROVE  Inductive'
<1>1. /\ pc[s] = "seeding" /\ at[s] = 9
      /\ rows' = [r \in Row |-> IF r \in pending[s] THEN s ELSE rows[r]]
      /\ pending' = [pending EXCEPT ![s] = {}]
      /\ UNCHANGED <<schema, ddl, dropped, at, missing, seen>>
  <2>1. Len(Script) + 1 = 9
    BY DEF Script
  <2> QED
    BY <2>1 DEF Seeded, tables
<1>2. /\ pc' = [pc EXCEPT ![s] = place] /\ s \in Process
      /\ pc'[s] = place /\ \A q \in Process \ {s} : pc'[q] = pc[q]
  BY Kinds DEF Inductive, TypeOK, Goto
<1>3. pending'[s] = {} /\ \A t \in Seeder \ {s} : pending'[t] = pending[t]
  BY <1>1 DEF Inductive, TypeOK
<1>4. TypeOK'
  <2>1. rows' \in [Row -> Seeder \cup {Api, None}]
    BY <1>1 DEF Inductive, TypeOK
  <2>2. pc' \in [Process -> PC] /\ pending' \in [Seeder -> SUBSET Row]
    BY <1>1, <1>2 DEF Inductive, TypeOK, PC, Ends
  <2> QED
    BY <1>1, <2>1, <2>2 DEF Inductive, TypeOK
<1>5. schema # "none" \/ dropped
  BY <1>1, <1>2, Kinds DEF Inductive, TablesAreThere
<1>6. OneAlters' /\ SeenStay' /\ PlacesFit'
  BY <1>1, <1>2 DEF Inductive, OneAlters, SeenStay, PlacesFit
<1>7. TablesAreThere'
  <2>1. faults' \in Nat /\ place \in PC
    BY Kinds DEF PC, Ends
  <2> QED
    BY <1>1, <1>2, <1>5, <2>1, TablesFrame
<1>8. PendingIsOwn'
  BY <1>1, <1>3 DEF Inductive, PendingIsOwn
<1>9. \A r \in Row : PutAt(r) \in 1..8 /\ LookAt(r) \in 1..5
  BY DEF PutAt, LookAt, Row
<1>10. \A r \in Row : /\ r \in pending[s] <=> r \in missing[s]
                      /\ r \notin missing[s] /\ r # "vendor" => rows[r] # None \/ dropped
  BY <1>1, <1>9 DEF Inductive, SeedsProgress
<1>11. \A r \in Row : rows[r] # None => rows'[r] = rows[r]
  BY <1>1 DEF Inductive, PendingIsOwn
<1>12. SeedsProgress'
  <2> SUFFICES ASSUME NEW t \in Seeder
               PROVE  /\ pc'[t] \in {"idle", "checked", "altered"} =>
                           at[t] = 1 /\ missing[t] = {} /\ pending'[t] = {}
                      /\ pc'[t] = "seeding" => \A q \in Row :
                           /\ at[t] > PutAt(q) => (q \in pending'[t] <=> q \in missing[t])
                           /\ at[t] <= PutAt(q) => q \notin pending'[t]
                           /\ at[t] > LookAt(q) /\ q \notin missing[t] /\ q # "vendor" =>
                                rows'[q] # None \/ dropped
                      /\ pc'[t] \in Ends => pending'[t] = {}
    BY <1>1 DEF SeedsProgress, PutAt, LookAt
  <2>1. CASE t # s
    <3>1. pc'[t] = pc[t] /\ pending'[t] = pending[t]
      BY <1>2, <1>3, <2>1, Kinds
    <3> QED
      BY <1>11, <3>1 DEF Inductive, SeedsProgress
  <2>2. CASE t = s
    BY <1>2, <1>3, <2>2
  <2> QED
    BY <2>1, <2>2
<1>13. SeedsAreWhole'
  <2> SUFFICES ASSUME NEW t \in Seeder
               PROVE  /\ (\E r \in Row : rows'[r] = t) =>
                           /\ pc'[t] \in {"done", "error"}
                           /\ \A q \in missing[t] \ {"vendor"} : rows'[q] = t
                      /\ pc'[t] = "done" /\ ~dropped =>
                           \A r \in Row \ {"vendor"} : rows'[r] # None
    BY <1>1 DEF SeedsAreWhole
  <2>1. t # None /\ t \in Process
    BY Kinds
  <2>2. missing[t] \subseteq Row
    BY DEF Inductive, TypeOK
  <2>3. CASE t # s
    <3>1. (\E r \in Row : rows'[r] = t) => \E r \in Row : rows[r] = t
      BY <1>1, <2>3
    <3>2. pc'[t] = pc[t]
      BY <1>2, <2>1, <2>3
    <3>3. (\E r \in Row : rows[r] = t) =>
            /\ pc[t] \in {"done", "error"}
            /\ \A q \in missing[t] \ {"vendor"} : rows[q] = t
      BY DEF Inductive, SeedsAreWhole
    <3>4. pc[t] = "done" /\ ~dropped => \A r \in Row \ {"vendor"} : rows[r] # None
      BY DEF Inductive, SeedsAreWhole
    <3> QED
      BY <1>11, <2>1, <2>2, <3>1, <3>2, <3>3, <3>4
  <2>4. CASE t = s
    <3>1. \A q \in missing[s] : rows'[q] = s
      BY <1>1, <1>10, <2>2, <2>4
    <3>2. ~dropped => \A r \in Row \ {"vendor"} : rows'[r] # None
      BY <1>10, <1>11, <2>1, <2>4, <3>1
    <3> QED
      BY <1>2, <2>4, <3>1, <3>2
  <2> QED
    BY <2>3, <2>4
<1> QED
  BY <1>4, <1>6, <1>7, <1>8, <1>12, <1>13 DEF Inductive

-----------------------------------------------------------------------------
(* Failures, restarts and what else happens.                               *)

\* A process fails before it commits, and its transaction is rolled back.
LEMMA FailPreserves ==
  ASSUME Inductive, NEW p \in Process, pc[p] \in {"idle", "checked", "altered", "seeding"},
         RolledBack({p}), Goto(p, Failed(p)),
         faults' \in 0..MaxFaults, faults' >= faults, faults' > 0 \/ pc[p] = "seeding",
         UNCHANGED <<schema, dropped, rows, at, missing, seen, restarts>>
  PROVE  Inductive'
<1>1. /\ ddl' = IF ddl = p THEN None ELSE ddl
      /\ pending' = [s \in Seeder |-> IF s = p THEN {} ELSE pending[s]]
  BY DEF RolledBack
<1>2. /\ pc' = [pc EXCEPT ![p] = Failed(p)] /\ Failed(p) \in {"dead", "error"}
      /\ Failed(p) = "dead" => p \in Server
      /\ p \in Seeder => Failed(p) = "error"
  BY Kinds DEF Goto, Failed
<1>3. pc'[p] = Failed(p) /\ \A q \in Process \ {p} : pc'[q] = pc[q]
  BY <1>2 DEF Inductive, TypeOK
<1>4. TypeOK'
  <2>1. pc' \in [Process -> PC]
    BY <1>2 DEF Inductive, TypeOK, PC, Ends
  <2>2. ddl' \in Process \cup {None} /\ pending' \in [Seeder -> SUBSET Row]
    BY <1>1 DEF Inductive, TypeOK
  <2> QED
    BY <2>1, <2>2 DEF Inductive, TypeOK
<1>5. OneAlters' /\ SeenStay' /\ PlacesFit'
  BY <1>1, <1>2, <1>3, Kinds DEF Inductive, OneAlters, SeenStay, PlacesFit
<1>6. TablesAreThere'
  <2>1. pc[p] = "seeding" => schema # "none" \/ dropped
    BY Kinds DEF Inductive, TablesAreThere, PlacesFit
  <2>2. faults' \in Nat /\ Failed(p) \in PC
    BY <1>2, Kinds DEF PC, Ends
  <2> QED
    BY <1>2, <2>1, <2>2, TablesFrame
<1>7. PendingIsOwn'
  BY <1>1 DEF Inductive, PendingIsOwn
<1>8. SeedsProgress'
  <2> SUFFICES ASSUME NEW t \in Seeder
               PROVE  /\ pc'[t] \in {"idle", "checked", "altered"} =>
                           at[t] = 1 /\ missing[t] = {} /\ pending'[t] = {}
                      /\ pc'[t] = "seeding" => \A q \in Row :
                           /\ at[t] > PutAt(q) => (q \in pending'[t] <=> q \in missing[t])
                           /\ at[t] <= PutAt(q) => q \notin pending'[t]
                           /\ at[t] > LookAt(q) /\ q \notin missing[t] /\ q # "vendor" =>
                                rows[q] # None \/ dropped
                      /\ pc'[t] \in Ends => pending'[t] = {}
    BY DEF SeedsProgress, PutAt, LookAt
  <2>1. CASE t # p
    <3>1. pc'[t] = pc[t] /\ pending'[t] = pending[t]
      BY <1>1, <1>3, <2>1, Kinds
    <3> QED
      BY <3>1 DEF Inductive, SeedsProgress
  <2>2. CASE t = p
    BY <1>1, <1>2, <1>3, <2>2
  <2> QED
    BY <2>1, <2>2
<1>9. SeedsAreWhole'
  BY <1>2, <1>3, Kinds DEF Inductive, SeedsAreWhole
<1> QED
  BY <1>4, <1>5, <1>6, <1>7, <1>8, <1>9 DEF Inductive

\* The container of the servers is restarted.
LEMMA RestartPreserves ==
  ASSUME Inductive, Restart
  PROVE  Inductive'
<1>1. /\ ddl' = IF ddl \in Server THEN None ELSE ddl
      /\ pc' = [p \in Process |-> IF p \in Server THEN "idle" ELSE pc[p]]
      /\ restarts < MaxRestarts /\ restarts' = restarts + 1
      /\ UNCHANGED <<schema, dropped, rows, at, missing, seen, faults>>
  BY DEF Restart, RolledBack
<1>2. pending' = pending
  BY Kinds DEF Restart, RolledBack, Inductive, TypeOK
<1>3. \A s \in Seeder : pc'[s] = pc[s]
  BY <1>1, Kinds
<1>4. TypeOK'
  <2>1. pc' \in [Process -> PC]
    BY <1>1 DEF Inductive, TypeOK, PC
  <2>2. restarts' \in 0..MaxRestarts
    BY <1>1, Kinds DEF Inductive, TypeOK
  <2> QED
    BY <1>1, <1>2, <2>1, <2>2 DEF Inductive, TypeOK
<1>5. OneAlters' /\ SeenStay' /\ PlacesFit' /\ TablesAreThere'
  <2>1. OneAlters'
    BY <1>1, Kinds DEF Inductive, TypeOK, OneAlters
  <2>2. SeenStay' /\ PlacesFit'
    BY <1>1 DEF Inductive, SeenStay, PlacesFit
  <2>3. TablesAreThere'
    BY <1>1 DEF Inductive, TablesAreThere, Ends
  <2> QED
    BY <2>1, <2>2, <2>3
<1>6. PendingIsOwn' /\ SeedsProgress' /\ SeedsAreWhole'
  BY <1>1, <1>2, <1>3
  DEF Inductive, PendingIsOwn, SeedsProgress, SeedsAreWhole, PutAt, LookAt
<1> QED
  BY <1>4, <1>5, <1>6 DEF Inductive

\* The vendor is purged, or added by an administrator.
LEMMA VendorPreserves ==
  ASSUME Inductive, PurgeVendor \/ AddVendor
  PROVE  Inductive'
<1>1. PICK author \in {None, Api} :
        /\ rows' = [rows EXCEPT !["vendor"] = author]
        /\ UNCHANGED <<schema, ddl, dropped, at, missing, pending, pc, seen, faults, restarts>>
  BY DEF PurgeVendor, AddVendor, tables, bounds
<1>2. /\ rows'["vendor"] = author /\ author \notin Seeder
      /\ \A r \in Row \ {"vendor"} : rows'[r] = rows[r]
  BY <1>1, Kinds DEF Inductive, TypeOK, Row
<1>3. TypeOK'
  <2>1. rows' \in [Row -> Seeder \cup {Api, None}]
    BY <1>1 DEF Inductive, TypeOK
  <2> QED
    BY <1>1, <2>1 DEF Inductive, TypeOK
<1>4. OneAlters' /\ SeenStay' /\ PlacesFit' /\ TablesAreThere'
  BY <1>1, StayFrame
<1>5. PendingIsOwn'
  <2>1. AddVendor => \A s \in Seeder : "vendor" \notin pending[s]
    BY DEF AddVendor
  <2>2. PurgeVendor => rows'["vendor"] = None
    BY DEF PurgeVendor, Inductive, TypeOK, Row
  <2> SUFFICES ASSUME NEW s \in Seeder, NEW r \in Row, r \in pending[s]
               PROVE  rows'[r] = None /\ \A t \in Seeder \ {s} : r \notin pending[t]
    BY <1>1 DEF PendingIsOwn
  <2>3. rows[r] = None /\ \A t \in Seeder \ {s} : r \notin pending[t]
    BY DEF Inductive, PendingIsOwn
  <2> QED
    BY <1>2, <2>1, <2>2, <2>3
<1>6. SeedsProgress'
  <2> SUFFICES ASSUME NEW t \in Seeder
               PROVE  /\ pc[t] \in {"idle", "checked", "altered"} =>
                           at[t] = 1 /\ missing[t] = {} /\ pending[t] = {}
                      /\ pc[t] = "seeding" => \A q \in Row :
                           /\ at[t] > PutAt(q) => (q \in pending[t] <=> q \in missing[t])
                           /\ at[t] <= PutAt(q) => q \notin pending[t]
                           /\ at[t] > LookAt(q) /\ q \notin missing[t] /\ q # "vendor" =>
                                rows'[q] # None \/ dropped
                      /\ pc[t] \in Ends => pending[t] = {}
    BY <1>1 DEF SeedsProgress, PutAt, LookAt
  <2> QED
    BY <1>2 DEF Inductive, SeedsProgress
<1>7. SeedsAreWhole'
  <2> SUFFICES ASSUME NEW t \in Seeder
               PROVE  /\ (\E r \in Row : rows'[r] = t) =>
                           /\ pc[t] \in {"done", "error"}
                           /\ \A q \in missing[t] \ {"vendor"} : rows'[q] = t
                      /\ pc[t] = "done" /\ ~dropped =>
                           \A r \in Row \ {"vendor"} : rows'[r] # None
    BY <1>1 DEF SeedsAreWhole
  <2>1. missing[t] \subseteq Row
    BY DEF Inductive, TypeOK
  <2>2. (\E r \in Row : rows'[r] = t) => \E r \in Row : rows[r] = t
    BY <1>2
  <2>3. /\ (\E r \in Row : rows[r] = t) =>
             /\ pc[t] \in {"done", "error"}
             /\ \A q \in missing[t] \ {"vendor"} : rows[q] = t
        /\ pc[t] = "done" /\ ~dropped => \A r \in Row \ {"vendor"} : rows[r] # None
    BY DEF Inductive, SeedsAreWhole
  <2> QED
    BY <1>2, <2>1, <2>2, <2>3
<1> QED
  BY <1>3, <1>4, <1>5, <1>6, <1>7 DEF Inductive

-----------------------------------------------------------------------------
(* The theorems.                                                           *)

\* Every step preserves the invariant.
LEMMA NextInductive == Inductive /\ [Next]_vars => Inductive'
<1> SUFFICES ASSUME Inductive, [Next]_vars PROVE Inductive'
  OBVIOUS
<1>1. faults \in 0..MaxFaults /\ MaxFaults \in Nat
  BY Kinds DEF Inductive, TypeOK
<1>2. CASE UNCHANGED vars
  <2>1. UNCHANGED <<schema, ddl, dropped, rows, at, missing, pending, pc, seen, faults, restarts>>
    BY <1>2 DEF vars, tables, seeds, bounds
  <2> QED
    BY <2>1 DEF Inductive, TypeOK, OneAlters, SeenStay, PlacesFit, TablesAreThere, PendingIsOwn,
                SeedsProgress, SeedsAreWhole, LookAt, PutAt
<1>3. ASSUME NEW p \in Process, Migrate(p)
      PROVE  Inductive'
  <2>1. CASE CommitSchema(p)
    <3>1. /\ Altered(p) /\ Goto(p, Passed(p)) /\ UNCHANGED restarts
          /\ faults' \in 0..MaxFaults /\ faults' >= faults
      BY <1>1, <2>1 DEF CommitSchema, bounds
    <3> QED
      BY <3>1, AlteredPreserves
  <2> QED
    BY <1>3, <2>1, CheckedPreserves DEF Migrate
<1>4. ASSUME NEW p \in Process, Lose(p)
      PROVE  Inductive'
  <2>1. /\ faults' \in 0..MaxFaults /\ faults' >= faults /\ faults' > 0
    BY <1>1, <1>4 DEF Lose
  <2> QED
    BY <1>4, <2>1, FailPreserves DEF Lose
<1>5. ASSUME NEW p \in Process, CommitUnacknowledged(p)
      PROVE  Inductive'
  <2>1. /\ faults' \in 0..MaxFaults /\ faults' >= faults /\ UNCHANGED restarts
        /\ Goto(p, Failed(p))
    BY <1>1, <1>5 DEF CommitUnacknowledged
  <2>2. CASE Altered(p)
    BY <2>1, <2>2, AlteredPreserves
  <2>3. CASE p \in Seeder /\ Seeded(p)
    <3>1. Failed(p) = "error"
      BY <2>3, Kinds DEF Failed
    <3> QED
      BY <2>1, <2>3, <3>1, SeededPreserves
  <2> QED
    BY <1>5, <2>2, <2>3 DEF CommitUnacknowledged
<1>6. ASSUME NEW s \in Seeder, Seed(s)
      PROVE  Inductive'
  <2>1. CASE SeedFails(s)
    <3>1. s \in Process /\ Failed(s) = "error"
      BY Kinds DEF Failed
    <3>2. /\ pc[s] = "seeding" /\ RolledBack({s}) /\ Goto(s, "error")
          /\ UNCHANGED <<schema, dropped, rows, at, missing, seen, faults, restarts>>
      BY <2>1 DEF SeedFails, Reaches, bounds
    <3>3. faults' \in 0..MaxFaults /\ faults' >= faults
      BY <1>1, <3>2
    <3> QED
      BY <3>1, <3>2, <3>3, FailPreserves
  <2>2. CASE SeedCommit(s)
    <3>1. /\ Seeded(s) /\ Goto(s, "done") /\ UNCHANGED restarts
          /\ faults' \in 0..MaxFaults /\ faults' >= faults
      BY <1>1, <2>2 DEF SeedCommit, bounds
    <3> QED
      BY <3>1, SeededPreserves
  <2> QED
    BY <1>6, <2>1, <2>2, SelectPreserves, InsertPreserves DEF Seed
<1> QED
  BY <1>2, <1>3, <1>4, <1>5, <1>6, RestartPreserves, VendorPreserves DEF Next

\* The invariant holds always, whoever creates or drops tables and whenever.
THEOREM InductiveInvariant == Spec => []Inductive
BY InitInductive, NextInductive, PTL DEF Spec

\* Processes, tables and rows keep their shapes.
THEOREM TypeCorrect == Spec => []TypeOK
<1>1. Inductive => TypeOK
  BY DEF Inductive
<1> QED
  BY <1>1, InductiveInvariant, PTL

\* Whoever gets past the schema leaves tables behind.
THEOREM TablesThere == Spec => []TablesAreThere
<1>1. Inductive => TablesAreThere
  BY DEF Inductive
<1> QED
  BY <1>1, InductiveInvariant, PTL

\* A seed is all or nothing.
THEOREM SeedsWhole == Spec => []SeedsAreWhole
<1>1. Inductive => SeedsAreWhole
  BY DEF Inductive
<1> QED
  BY <1>1, InductiveInvariant, PTL

=============================================================================
