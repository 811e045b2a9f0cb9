--------------------------- MODULE VendorDirectory ---------------------------
(***************************************************************************)
(* The supplier directory: POST and PATCH /vendors (activate and           *)
(* deactivate are PATCHes of the status) from concurrent requests, and the *)
(* weekly Celery task that purges soft-deleted rows.                       *)
(*                                                                         *)
(* vendor_code is UNIQUE in the table; the service looks for a live vendor *)
(* with the code before it inserts.  Every request is one transaction; a   *)
(* 500 stands for any exception the service does not raise itself.         *)
(*                                                                         *)
(*    create   idle -> looked -> ready -> done                             *)
(*    update   idle -> looked -> ready -> done                             *)
(*    cleanup  idle -> orders -> vendors -> idle -> ...                    *)
(***************************************************************************)
EXTENDS Naturals

CONSTANTS
  Vendor,    \* primary keys vendors can have
  Code,      \* vendor codes
  Status,    \* statuses the PATCHes ask for
  Order,     \* primary keys purchase orders can have
  Request,   \* HTTP requests, each executed once
  Faulty,    \* requests that may be killed or lose the database
  StepsKept, \* whether the approvals router commits approval steps: as built,
             \* its transactions are rolled back (LogTypeError in OrderWorkflow)
  Cleanup,   \* the cleanup task, as a lock holder
  None       \* no row, no call, no lock holder, no vendor

VendorStatus == {"active", "inactive", "pending_review", "blacklisted"}

\* is_deleted and deleted_at: live, deleted, deleted longer ago than days_old.
Deletion == {"live", "recent", "old"}

VendorRow == [code : Code, status : VendorStatus, deletion : Deletion]

\* decided: a row of approval_steps refers to the order.
OrderRow == [vendor : Vendor \cup {None}, deletion : Deletion, decided : BOOLEAN]

Call == [op : {"create"}, vendor : Vendor, code : Code]
          \cup [op : {"update"}, vendor : Vendor, status : Status]

ASSUME VendorAssumption ==
  /\ Status \subseteq VendorStatus
  /\ Faulty \subseteq Request
  /\ StepsKept \in BOOLEAN
  /\ Cleanup \notin Request
  /\ None \notin VendorRow \cup OrderRow \cup Call \cup Request \cup Vendor \cup {Cleanup}

VARIABLES
  vendor,   \* committed vendors rows
  order,    \* committed purchase_orders rows
  lock,     \* the transaction that holds a vendor's row lock
  pc,       \* where each request stands
  call,     \* what each request asks for
  resp,     \* the answer the client got
  task,     \* where the cleanup task stands
  doomed    \* the rows its transaction has deleted and not committed

requests == <<pc, call, resp>>
cleanup  == <<task, doomed>>
vars     == <<vendor, order, lock, pc, call, resp, task, doomed>>

NothingDoomed == [orders |-> {}, vendors |-> {}]

Init ==
  /\ vendor = [v \in Vendor |-> None]
  /\ order = [o \in Order |-> None]
  /\ lock = [v \in Vendor |-> None]
  /\ pc = [r \in Request |-> "idle"]
  /\ call = [r \in Request |-> None]
  /\ resp = [r \in Request |-> "none"]
  /\ task = "idle"
  /\ doomed = NothingDoomed

\* What the end of the holder's transaction leaves locked.
Unlocked(holder) == [v \in Vendor |-> IF lock[v] = holder THEN None ELSE lock[v]]

-----------------------------------------------------------------------------
(* Requests.                                                               *)

\* get_by_code and VendorService.get_by_id see live vendors only.
Found(c) ==
  IF c.op = "create"
  THEN \E v \in Vendor : vendor[v] # None /\ vendor[v].code = c.code /\ vendor[v].deletion = "live"
  ELSE vendor[c.vendor] # None /\ vendor[c.vendor].deletion = "live"

\* No row has the uuid4 of a new vendor, and no other request drew it.
Fresh(v) ==
  /\ vendor[v] = None
  /\ \A q \in Request : call[q] # None => call[q].op # "create" \/ call[q].vendor # v

\* The SELECT of both handlers, and the refusal that may follow it: a create
\* answers 409 if the code is taken, an update 404 if the vendor is not found.
Look(r, c) ==
  /\ pc[r] = "idle"
  /\ c.op = "create" => Fresh(c.vendor)
  /\ call' = [call EXCEPT ![r] = c]
  /\ IF Found(c) = (c.op = "create")
     THEN /\ pc' = [pc EXCEPT ![r] = "done"]
          /\ resp' = [resp EXCEPT ![r] = IF c.op = "create" THEN "409" ELSE "404"]
     ELSE /\ pc' = [pc EXCEPT ![r] = "looked"]
          /\ UNCHANGED resp
  /\ UNCHANGED <<vendor, order, lock, cleanup>>

\* get_db rolls back and the handlers of main.py answer.
Fail(r, answer) ==
  /\ pc' = [pc EXCEPT ![r] = "done"]
  /\ resp' = [resp EXCEPT ![r] = answer]
  /\ UNCHANGED <<vendor, order, lock, call, cleanup>>

\* Who has the code in the UNIQUE index: rows, uncommitted INSERTs, and rows
\* whose DELETE is not committed.
Holds(v, code) == vendor[v] # None /\ vendor[v].code = code
InsertPending(r, code) ==
  \E q \in Request \ {r} :
    pc[q] = "ready" /\ call[q].op = "create" /\ call[q].code = code
DeletePending(code) == \E v \in doomed.vendors : Holds(v, code)

\* Mutation: the table has no UNIQUE constraint on the code.
Insert_NotUnique(r) ==
  /\ pc[r] = "looked" /\ call[r].op = "create"
  /\ pc' = [pc EXCEPT ![r] = "ready"]
  /\ UNCHANGED <<vendor, order, lock, call, resp, cleanup>>

\* INSERT INTO vendors: it waits for transactions that hold the code, and
\* raises IntegrityError if a row, soft-deleted or not, has it.
Insert(r) ==
  /\ pc[r] = "looked" /\ call[r].op = "create"
  /\ ~InsertPending(r, call[r].code) /\ ~DeletePending(call[r].code)
  /\ IF \E v \in Vendor : Holds(v, call[r].code)
     THEN Fail(r, "500")
     ELSE /\ pc' = [pc EXCEPT ![r] = "ready"]
          /\ UNCHANGED <<vendor, order, lock, call, resp, cleanup>>

\* Mutation: the row found is written without its lock.
Update_NoLock(r) ==
  /\ pc[r] = "looked" /\ call[r].op = "update"
  /\ IF vendor[call[r].vendor] = None
     THEN Fail(r, "404")
     ELSE /\ pc' = [pc EXCEPT ![r] = "ready"]
          /\ UNCHANGED <<vendor, order, lock, call, resp, cleanup>>

\* UPDATE vendors SET ... WHERE id = ...: it waits for the row lock; a row
\* purged meanwhile is no longer there, which the service turns into a 404.
Update(r) ==
  /\ pc[r] = "looked" /\ call[r].op = "update"
  /\ lock[call[r].vendor] = None
  /\ IF vendor[call[r].vendor] = None
     THEN Fail(r, "404")
     ELSE /\ pc' = [pc EXCEPT ![r] = "ready"]
          /\ lock' = [lock EXCEPT ![call[r].vendor] = r]
          /\ UNCHANGED <<vendor, order, call, resp, cleanup>>

\* The row a request has written and not committed; an UPDATE sets columns.
Written(c) ==
  IF c.op = "create"
  THEN [code |-> c.code, status |-> "pending_review", deletion |-> "live"]
  ELSE [vendor[c.vendor] EXCEPT !.status = c.status]

\* get_db commits, and then the answer leaves.
Commit(r) ==
  /\ pc[r] = "ready"
  /\ vendor' = [vendor EXCEPT ![call[r].vendor] = Written(call[r])]
  /\ lock' = Unlocked(r)
  /\ pc' = [pc EXCEPT ![r] = "done"]
  /\ resp' = [resp EXCEPT ![r] = IF call[r].op = "create" THEN "201" ELSE "200"]
  /\ UNCHANGED <<order, call, cleanup>>

\* The process dies or the database is lost before the commit: PostgreSQL
\* rolls back, and the client gets a 500 or nothing.
Fault(r) ==
  /\ r \in Faulty
  /\ pc[r] \in {"looked", "ready"}
  /\ lock' = Unlocked(r)
  /\ pc' = [pc EXCEPT ![r] = "done"]
  /\ \E answer \in {"500", "lost"} : resp' = [resp EXCEPT ![r] = answer]
  /\ UNCHANGED <<vendor, order, call, cleanup>>

-----------------------------------------------------------------------------
(* What happens to the rows outside this module.                           *)

\* POST /purchase-orders stores the vendor_id it is given: the foreign key
\* asks for a row, soft-deleted or not, that no transaction is deleting.
CreateOrder(o, v) ==
  /\ order[o] = None
  /\ v # None => vendor[v] # None /\ v \notin doomed.vendors
  /\ order' = [order EXCEPT ![o] = [vendor |-> v, deletion |-> "live", decided |-> FALSE]]
  /\ UNCHANGED <<vendor, lock, requests, cleanup>>

\* approve and reject of the approvals router insert an approval step.
Decide(o) ==
  /\ StepsKept
  /\ order[o] # None /\ order[o].deletion = "live"
  /\ order' = [order EXCEPT ![o].decided = TRUE]
  /\ UNCHANGED <<vendor, lock, requests, cleanup>>

\* No code of the application sets is_deleted: an administrator does, in the
\* database.  Time passes.
SoftDeleteVendor(v) ==
  /\ vendor[v] # None /\ vendor[v].deletion = "live" /\ lock[v] = None
  /\ vendor' = [vendor EXCEPT ![v].deletion = "recent"]
  /\ UNCHANGED <<order, lock, requests, cleanup>>
SoftDeleteOrder(o) ==
  /\ order[o] # None /\ order[o].deletion = "live"
  /\ order' = [order EXCEPT ![o].deletion = "recent"]
  /\ UNCHANGED <<vendor, lock, requests, cleanup>>
AgeVendor(v) ==
  /\ vendor[v] # None /\ vendor[v].deletion = "recent"
  /\ vendor' = [vendor EXCEPT ![v].deletion = "old"]
  /\ UNCHANGED <<order, lock, requests, cleanup>>
AgeOrder(o) ==
  /\ order[o] # None /\ order[o].deletion = "recent"
  /\ order' = [order EXCEPT ![o].deletion = "old"]
  /\ UNCHANGED <<vendor, lock, requests, cleanup>>

-----------------------------------------------------------------------------
(* cleanup_soft_deleted_records.                                           *)

\* Mutation: the cutoff on deleted_at is forgotten.
Purgeable_NoCutoff(row) == row # None /\ row.deletion \in {"recent", "old"}

\* WHERE is_deleted = true AND deleted_at < cutoff.
Purgeable(row) == row # None /\ row.deletion = "old"

\* A DELETE is refused or the database is lost: the task fails as a whole,
\* until Beat starts it again.
CleanupFails ==
  /\ task' = "idle"
  /\ doomed' = NothingDoomed
  /\ lock' = Unlocked(Cleanup)
  /\ UNCHANGED <<vendor, order, requests>>

\* DELETE FROM purchase_orders; the line items cascade, approval steps do not.
CleanupOrders ==
  /\ task = "idle"
  /\ LET gone == {o \in Order : Purgeable(order[o])} IN
       IF \E o \in gone : order[o].decided
       THEN CleanupFails
       ELSE /\ task' = "orders"
            /\ doomed' = [orders |-> gone, vendors |-> {}]
            /\ UNCHANGED <<vendor, order, lock, requests>>

\* DELETE FROM vendors, in the same transaction; it waits for row locks.
CleanupVendors ==
  /\ task = "orders"
  /\ LET gone == {v \in Vendor : Purgeable(vendor[v])} IN
       /\ \A v \in gone : lock[v] = None
       /\ IF \E o \in Order \ doomed.orders : order[o] # None /\ order[o].vendor \in gone
          THEN CleanupFails
          ELSE /\ task' = "vendors"
               /\ doomed' = [doomed EXCEPT !.vendors = gone]
               /\ lock' = [v \in Vendor |-> IF v \in gone THEN Cleanup ELSE lock[v]]
               /\ UNCHANGED <<vendor, order, requests>>

\* Mutation: the session is closed without a commit.
CleanupCommit_Forgotten ==
  /\ task = "vendors"
  /\ lock' = Unlocked(Cleanup)
  /\ task' = "idle"
  /\ doomed' = NothingDoomed
  /\ UNCHANGED <<vendor, order, requests>>

\* The commit of both DELETEs.
CleanupCommit ==
  /\ task = "vendors"
  /\ vendor' = [v \in Vendor |-> IF v \in doomed.vendors THEN None ELSE vendor[v]]
  /\ order' = [o \in Order |-> IF o \in doomed.orders THEN None ELSE order[o]]
  /\ lock' = Unlocked(Cleanup)
  /\ task' = "idle"
  /\ doomed' = NothingDoomed
  /\ UNCHANGED requests

\* The worker dies or loses the database between two statements.
CleanupFault == task # "idle" /\ CleanupFails

-----------------------------------------------------------------------------
Arrive(r) == \E c \in Call : Look(r, c)

Proceed(r) == Insert(r) \/ Update(r) \/ Commit(r)

CleanupStep == CleanupOrders \/ CleanupVendors \/ CleanupCommit

Outside ==
  \/ \E o \in Order : \E v \in Vendor \cup {None} : CreateOrder(o, v)
  \/ \E o \in Order : Decide(o) \/ SoftDeleteOrder(o) \/ AgeOrder(o)
  \/ \E v \in Vendor : SoftDeleteVendor(v) \/ AgeVendor(v)

Next ==
  \/ \E r \in Request : Arrive(r) \/ Proceed(r) \/ Fault(r)
  \/ CleanupStep
  \/ CleanupFault
  \/ Outside

Spec == Init /\ [][Next]_vars

\* The event loop resumes requests; Beat starts the task week after week, and
\* a worker runs it to its end if it is not interrupted every time; time
\* passes.
FairSpec ==
  /\ Spec
  /\ \A r \in Request : WF_vars(Proceed(r))
  /\ WF_vars(CleanupOrders)
  /\ SF_vars(CleanupVendors)
  /\ SF_vars(CleanupCommit)
  /\ \A v \in Vendor : WF_vars(AgeVendor(v))
  /\ \A o \in Order : WF_vars(AgeOrder(o))

-----------------------------------------------------------------------------
(* Properties.                                                             *)

\* Rows, answers and the task's state keep their shapes, and what the task is
\* deleting is there.
TypeOK ==
  /\ vendor \in [Vendor -> VendorRow \cup {None}]
  /\ order \in [Order -> OrderRow \cup {None}]
  /\ lock \in [Vendor -> Request \cup {Cleanup, None}]
  /\ pc \in [Request -> {"idle", "looked", "ready", "done"}]
  /\ call \in [Request -> Call \cup {None}]
  /\ resp \in [Request -> {"none", "200", "201", "404", "409", "500", "lost"}]
  /\ task \in {"idle", "orders", "vendors"}
  /\ doomed \in [orders : SUBSET Order, vendors : SUBSET Vendor]

\* No two vendors share a code, soft-deleted ones included, whatever creates
\* overlap each other and the purge.  (The SELECT of VendorService.create sees
\* neither uncommitted nor soft-deleted rows: the UNIQUE index, which sees both,
\* is what decides.  What that costs is DeletedCodesAreFree.)
CodesAreUnique ==
  \A v, w \in Vendor :
    v # w /\ vendor[v] # None /\ vendor[w] # None => vendor[v].code # vendor[w].code

\* What the docstring of VendorRepository.get_by_code says its Fix v5 achieves:
\* a soft-deleted vendor does not keep a new one from having its code.  A
\* create that suffers no fault fails only if a live vendor has the code.
DeletedCodesAreFree ==
  [][\A r \in Request \ Faulty :
       pc[r] = "looked" /\ call[r].op = "create" /\ pc'[r] = "done" =>
         \E v \in Vendor : Holds(v, call[r].code) /\ vendor[v].deletion = "live"]_vars

\* The purge and the requests never leave an order with a vendor that is
\* gone, nor a request that answers 200 for a vendor it did not find: an
\* UPDATE that has its row keeps it until the commit.
NothingDangles ==
  /\ \A o \in Order : order[o] # None /\ order[o].vendor # None => vendor[order[o].vendor] # None
  /\ \A r \in Request : pc[r] = "ready" /\ call[r].op = "update" => vendor[call[r].vendor] # None

\* The purge takes only rows deleted long enough ago.
OnlyOldRowsArePurged ==
  [][/\ \A v \in Vendor : vendor[v] # None /\ vendor'[v] = None => vendor[v].deletion = "old"
     /\ \A o \in Order : order[o] # None /\ order'[o] = None => order[o].deletion = "old"]_vars

\* Something the foreign keys make the whole task fail for: an old order with
\* an approval step, or an old vendor of an order that stays.
Blocked ==
  \/ \E o \in Order : Purgeable(order[o]) /\ order[o].decided
  \/ \E o \in Order : order[o] # None /\ ~Purgeable(order[o]) /\ order[o].vendor # None
                       /\ Purgeable(vendor[order[o].vendor])

\* An old row is purged unless, again and again, some row blocks the purge of
\* them all.
PurgedUnlessBlocked ==
  \A v \in Vendor : Purgeable(vendor[v]) ~> (vendor[v] = None \/ Blocked)

-----------------------------------------------------------------------------
(* The inductive invariant behind CodesAreUnique, NothingDangles and        *)
(* OnlyOldRowsArePurged.                                                    *)

\* A request under way has a call; a vendor under creation has no row yet,
\* and its creator drew its key alone.
CreationsApart ==
  /\ \A r \in Request : pc[r] \in {"looked", "ready"} => call[r] \in Call
  /\ \A r \in Request :
       pc[r] \in {"looked", "ready"} /\ call[r].op = "create" => vendor[call[r].vendor] = None
  /\ \A r, q \in Request :
       r # q /\ call[r] # None /\ call[q] # None /\ call[r].op = "create"
         /\ call[q].op = "create" => call[r].vendor # call[q].vendor

\* The code of an uncommitted INSERT belongs to no row and to no other INSERT.
CodeReserved ==
  \A r \in Request : pc[r] = "ready" /\ call[r].op = "create" =>
    /\ \A v \in Vendor : ~Holds(v, call[r].code)
    /\ ~InsertPending(r, call[r].code)

\* A request that has updated a row holds its lock, and so does the task for
\* the vendors it has deleted.
RowsLocked ==
  /\ \A r \in Request :
       pc[r] = "ready" /\ call[r].op = "update" => lock[call[r].vendor] = r
  /\ \A v \in doomed.vendors : lock[v] = Cleanup

\* What the task has deleted is old, and every order of a vendor it has
\* deleted goes with it.
DoomedTogether ==
  /\ \A o \in doomed.orders : Purgeable(order[o])
  /\ \A v \in doomed.vendors : Purgeable(vendor[v])
  /\ \A o \in Order :
       order[o] # None /\ order[o].vendor \in doomed.vendors => o \in doomed.orders

Inductive ==
  /\ TypeOK
  /\ CodesAreUnique
  /\ NothingDangles
  /\ CreationsApart
  /\ CodeReserved
  /\ RowsLocked
  /\ DoomedTogether

=============================================================================
