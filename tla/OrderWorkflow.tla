---------------------------- MODULE OrderWorkflow ----------------------------
(***************************************************************************)
(* Purchase orders under concurrent HTTP requests.                         *)
(*                                                                         *)
(* Two routers drive the same rows.  /purchase-orders/* goes through       *)
(* PurchaseOrderService, which only consults the transition table;         *)
(* /approvals/* goes through ApprovalService, which also checks the user,  *)
(* inserts an approval step and writes an audit row.  Every request is one *)
(* unit of work (get_db): one session, one PostgreSQL transaction at READ  *)
(* COMMITTED, committed when the handler returns and rolled back on any    *)
(* exception.  Uvicorn's workers and the event loop interleave requests at *)
(* each awaited statement, so a request is a small state machine whose     *)
(* steps are its statements:                                               *)
(*                                                                         *)
(*    create   idle -> ready -> done                                       *)
(*    others   idle -> checked [-> stepped] -> updated -> ready -> done    *)
(*                                                                         *)
(* The checks that follow a SELECT run without an await and belong to the  *)
(* step of that SELECT.                                                    *)
(***************************************************************************)
EXTENDS POStatus, Naturals

CONSTANTS
  Order,            \* primary keys purchase orders can have
  User,             \* active users
  Request,          \* HTTP requests, each executed once
  Role,             \* Role[u]: the user's role
  ApprovalLimit,    \* ApprovalLimit[u]: 0 stands for 0 and for NULL
  Amount,           \* total amounts an order can be created with
  Router,           \* the routers whose requests arrive
  Reason,           \* texts a client can give for a rejection, "" included
  AuditLogColumns,  \* AuditLogColumns[r]: the attributes the class AuditLog maps
                    \* in the process that serves r
  Faulty,           \* requests that may be killed or lose the database
  None              \* no row, no call, no lock holder

\* The attributes of the ORM class as it stands, and those of the table the
\* first migration creates; timestamps are left out.
MappedAttributes == {"id", "user_id", "action", "entity_type", "entity_id",
                     "old_values", "new_values", "ip_address", "user_agent"}
MigratedColumns == MappedAttributes \cup {"request_id"}

\* The keyword arguments AuditService.log passes to AuditLog(...).
AuditKwargs == {"id", "user_id", "action", "entity_type", "entity_id",
                "old_values", "new_values", "ip_address", "user_agent",
                "request_id"}

OrderRow == [status : POStatus, requester : User, total : Amount,
             rejection_reason : Reason \cup {"none"}]

\* order = 1 and is_current = TRUE in every row, so they are left out; the
\* inserting request identifies the row, for it inserts at most one.
StepRow == [request : Request, order : Order, approver : User,
            status : {"approved", "rejected"}]

AuditRow == [request : Request, order : Order, user : User,
             old : POStatus, new : POStatus]

\* What a transaction has written and not committed.
Writes == [order : OrderRow \cup {None}, steps : SUBSET StepRow, audit : SUBSET AuditRow]

Operation == TransitionOp \cup {"create"}

Call == {c \in [router : Router, op : Operation, user : User,
                order : Order, reason : Reason] :
           /\ c.op = "create" => c.router = "purchase_orders"
           /\ c.op # "reject" => c.reason = ""}

ASSUME DomainAssumption ==
  /\ Router \subseteq {"approvals", "purchase_orders"}
  /\ Role \in [User -> UserRole]
  /\ Amount \subseteq Nat
  /\ ApprovalLimit \in [User -> Nat]
  /\ Reason \subseteq STRING
  /\ "" \in Reason
  /\ "none" \notin Reason
  /\ Faulty \subseteq Request
  /\ None \notin OrderRow \cup Call \cup Request

VARIABLES
  order,   \* committed purchase_orders rows
  steps,   \* committed approval_steps rows
  audit,   \* committed audit_logs rows
  lock,    \* the request whose transaction holds the row lock of an order
  pc,      \* where each request stands
  call,    \* what each request asks for
  tx,      \* what each request has written and not committed
  resp,    \* the answer the client got
  seen,    \* history: the status a request read before it decided
  past,    \* history: every status a committed row has had
  blind    \* history: orders of which a status was replaced by a request that
           \* had not read it

db       == <<order, steps, audit>>
history  == <<seen, past, blind>>
vars     == <<order, steps, audit, lock, pc, call, tx, resp, seen, past, blind>>

NoWrites == [order |-> None, steps |-> {}, audit |-> {}]

Init ==
  /\ order \in [Order -> [status : {"draft"}, requester : User,
                          total : Amount, rejection_reason : {"none"}]
                           \cup {None}]
  /\ steps = {}
  /\ audit = {}
  /\ lock = [o \in Order |-> None]
  /\ pc = [r \in Request |-> "idle"]
  /\ call = [r \in Request |-> None]
  /\ tx = [r \in Request |-> NoWrites]
  /\ resp = [r \in Request |-> "none"]
  /\ seen = [r \in Request |-> "none"]
  /\ past = [o \in Order |-> IF order[o] = None THEN {} ELSE {"draft"}]
  /\ blind = {}

-----------------------------------------------------------------------------
(* The checks of the handlers, in the order of their early returns.        *)

\* Mutations: the transition guard dropped, a wrong status code, and a
\* default that lets a status without successors through.
TableRefusal_NoGuard(c, row) == "none"
TableRefusal_WrongCode(c, row) ==
  IF Target[c.op] \in VALID_TRANSITIONS[row.status] THEN "none" ELSE "409"
TableRefusal_OpenTerminal(c, row) ==
  IF Target[c.op] \in VALID_TRANSITIONS[row.status] \/ row.status = "cancelled"
  THEN "none" ELSE "422"

\* transition_status: the table is the only guard.
TableRefusal(c, row) ==
  IF Target[c.op] \in VALID_TRANSITIONS[row.status] THEN "none" ELSE "422"

SubmitRefusal(c, row) ==
  IF row.requester # c.user THEN "403"
  ELSE IF row.status # "draft" THEN "422"
  ELSE "none"

\* Mutation: the approval limit is not compared with the amount.
ApproveRefusal_NoLimit(c, row) ==
  IF row.status # "pending_approval" THEN "422"
  ELSE IF Role[c.user] \notin APPROVER_ROLES THEN "403"
  ELSE IF row.requester = c.user /\ Role[c.user] # "admin" THEN "403"
  ELSE "none"

ApproveRefusal(c, row) ==
  IF row.status # "pending_approval" THEN "422"
  ELSE IF Role[c.user] \notin APPROVER_ROLES THEN "403"
  ELSE IF row.requester = c.user /\ Role[c.user] # "admin" THEN "403"
  ELSE IF ApprovalLimit[c.user] > 0 /\ row.total > ApprovalLimit[c.user] THEN "422"
  ELSE "none"

RejectRefusal(c, row) ==
  IF row.status # "pending_approval" THEN "422"
  ELSE IF Role[c.user] \notin APPROVER_ROLES THEN "403"
  ELSE "none"

CancelRefusal(c, row) ==
  IF row.status \notin {"draft", "pending_approval", "approved"} THEN "422"
  ELSE IF row.requester # c.user /\ Role[c.user] \notin {"admin", "manager"} THEN "403"
  ELSE "none"

Refusal(c, row) ==
  IF row = None THEN "404"
  ELSE IF c.router = "purchase_orders" THEN TableRefusal(c, row)
  ELSE CASE c.op = "submit"  -> SubmitRefusal(c, row)
         [] c.op = "approve" -> ApproveRefusal(c, row)
         [] c.op = "reject"  -> RejectRefusal(c, row)
         [] OTHER            -> CancelRefusal(c, row)

-----------------------------------------------------------------------------
(* The statements of a unit of work.                                       *)

\* No row has the fresh uuid4 of a new order, and no other request made it.
Fresh(o) ==
  /\ order[o] = None
  /\ \A q \in Request : call[q] # None => call[q].op # "create" \/ call[q].order # o

\* POST /purchase-orders: the handler computes the totals and flushes the
\* INSERTs; the rows stay invisible to others until the commit.
Insert(r, c) ==
  /\ pc[r] = "idle"
  /\ c.op = "create"
  /\ Fresh(c.order)
  /\ \E total \in Amount :
       tx' = [tx EXCEPT ![r].order =
                [status |-> "draft", requester |-> c.user, total |-> total,
                 rejection_reason |-> "none"]]
  /\ pc' = [pc EXCEPT ![r] = "ready"]
  /\ call' = [call EXCEPT ![r] = c]
  /\ UNCHANGED <<db, lock, resp, history>>

\* The SELECT of the order, then every check: the request is accepted.
Load(r, c) ==
  /\ pc[r] = "idle"
  /\ c.op # "create"
  /\ Refusal(c, order[c.order]) = "none"
  /\ pc' = [pc EXCEPT ![r] = "checked"]
  /\ call' = [call EXCEPT ![r] = c]
  /\ seen' = [seen EXCEPT ![r] = order[c.order].status]
  /\ UNCHANGED <<db, lock, tx, resp, past, blind>>

\* The same SELECT, but a check raises: rollback, and a 4xx answer.
Refuse(r, c) ==
  /\ pc[r] = "idle"
  /\ c.op # "create"
  /\ Refusal(c, order[c.order]) # "none"
  /\ pc' = [pc EXCEPT ![r] = "done"]
  /\ call' = [call EXCEPT ![r] = c]
  /\ resp' = [resp EXCEPT ![r] = Refusal(c, order[c.order])]
  /\ UNCHANGED <<db, lock, tx, history>>

\* approve and reject of the approvals router record their decision first.
Decides(r) ==
  /\ call[r].router = "approvals"
  /\ call[r].op \in {"approve", "reject"}

\* Mutation: the step is committed by itself instead of flushed.
AddStep_Autocommit(r) ==
  /\ pc[r] = "checked"
  /\ Decides(r)
  /\ steps' = steps \cup
       {[request |-> r, order |-> call[r].order, approver |-> call[r].user,
         status |-> Target[call[r].op]]}
  /\ pc' = [pc EXCEPT ![r] = "stepped"]
  /\ UNCHANGED <<order, audit, lock, tx, call, resp, history>>

\* INSERT INTO approval_steps, flushed.  Its foreign key takes only a
\* FOR KEY SHARE lock on the order, which no status UPDATE conflicts with.
AddStep(r) ==
  /\ pc[r] = "checked"
  /\ Decides(r)
  /\ tx' = [tx EXCEPT ![r].steps =
              {[request |-> r, order |-> call[r].order, approver |-> call[r].user,
                status |-> Target[call[r].op]]}]
  /\ pc' = [pc EXCEPT ![r] = "stepped"]
  /\ UNCHANGED <<db, lock, call, resp, history>>

\* The rejection_reason an UPDATE leaves.  The table service drops an empty
\* text (if reason:), the approvals service stores it.
ReasonAfter(c, row) ==
  IF c.op = "reject" /\ (c.router = "approvals" \/ c.reason # "")
  THEN c.reason ELSE row.rejection_reason

\* The row an UPDATE makes of another.
Updated(c, row) ==
  [row EXCEPT !.status = Target[c.op], !.rejection_reason = ReasonAfter(c, row)]

\* Mutation: the UPDATE does not wait for the holder of the row lock.
Update_NoWait(r) ==
  /\ \/ pc[r] = "checked" /\ ~Decides(r)
     \/ pc[r] = "stepped"
  /\ lock' = [lock EXCEPT ![call[r].order] = r]
  /\ tx' = [tx EXCEPT ![r].order = Updated(call[r], order[call[r].order])]
  /\ pc' = [pc EXCEPT ![r] = IF call[r].router = "approvals" THEN "updated" ELSE "ready"]
  /\ UNCHANGED <<db, call, resp, history>>

\* UPDATE purchase_orders SET status = ... WHERE id = ...: it waits for the
\* row lock, has no predicate on the status, and applies to the row as last
\* committed.
Update(r) ==
  /\ \/ pc[r] = "checked" /\ ~Decides(r)
     \/ pc[r] = "stepped"
  /\ lock[call[r].order] = None
  /\ lock' = [lock EXCEPT ![call[r].order] = r]
  /\ tx' = [tx EXCEPT ![r].order = Updated(call[r], order[call[r].order])]
  /\ pc' = [pc EXCEPT ![r] = IF call[r].router = "approvals" THEN "updated" ELSE "ready"]
  /\ UNCHANGED <<db, call, resp, history>>

\* The old status each handler reports.  cancel reads the loaded instance
\* again, after the UPDATE has synchronised it with the new status.
FromStatus(r) ==
  CASE call[r].op = "submit" -> "draft"
    [] call[r].op = "cancel" -> tx[r].order.status
    [] OTHER                 -> "pending_approval"

\* log_po_transition: INSERT INTO audit_logs, flushed.
Log(r) ==
  /\ pc[r] = "updated"
  /\ AuditKwargs \subseteq AuditLogColumns[r]
  /\ tx' = [tx EXCEPT ![r].audit =
              {[request |-> r, order |-> call[r].order, user |-> call[r].user,
                old |-> FromStatus(r), new |-> Target[call[r].op]]}]
  /\ pc' = [pc EXCEPT ![r] = "ready"]
  /\ UNCHANGED <<db, lock, call, resp, history>>

\* Mutation: the session is not closed, its transaction keeps the lock.
Unlocked_Leak(r) == lock

\* The locks a transaction holds go with it.
Unlocked(r) == [o \in Order |-> IF lock[o] = r THEN None ELSE lock[o]]

\* get_db's except branch: nothing the request wrote survives.
Rollback(r, answer) ==
  /\ tx' = [tx EXCEPT ![r] = NoWrites]
  /\ lock' = Unlocked(r)
  /\ pc' = [pc EXCEPT ![r] = "done"]
  /\ resp' = [resp EXCEPT ![r] = answer]
  /\ UNCHANGED <<db, call, history>>

\* AuditLog(...) raises TypeError for a keyword the class does not map; the
\* generic exception handler answers 500.
LogTypeError(r) ==
  /\ pc[r] = "updated"
  /\ ~(AuditKwargs \subseteq AuditLogColumns[r])
  /\ Rollback(r, "500")

\* What a COMMIT makes of the database.
Persist(r) ==
  /\ order' = [order EXCEPT ![call[r].order] = tx[r].order]
  /\ steps' = steps \cup tx[r].steps
  /\ audit' = audit \cup tx[r].audit
  /\ past' = [past EXCEPT ![call[r].order] = @ \cup {tx[r].order.status}]
  /\ blind' = IF call[r].op # "create" /\ seen[r] # order[call[r].order].status
              THEN blind \cup {call[r].order} ELSE blind
  /\ lock' = Unlocked(r)
  /\ tx' = [tx EXCEPT ![r] = NoWrites]
  /\ pc' = [pc EXCEPT ![r] = "done"]
  /\ UNCHANGED <<call, seen>>

\* The handler has returned, get_db commits, and only then the answer leaves.
Commit(r) ==
  /\ pc[r] = "ready"
  /\ Persist(r)
  /\ resp' = [resp EXCEPT ![r] = IF call[r].op = "create" THEN "201" ELSE "200"]

\* The server commits but the client does not learn it: the connection breaks
\* before the acknowledgement (500) or the process dies (no answer).
CommitUnacknowledged(r) ==
  /\ r \in Faulty
  /\ pc[r] = "ready"
  /\ Persist(r)
  /\ \E answer \in {"500", "lost"} : resp' = [resp EXCEPT ![r] = answer]

\* Mutation: an exception is swallowed and the handler answers as usual.
Fault_Swallowed(r) ==
  /\ r \in Faulty
  /\ pc[r] \notin {"idle", "done"}
  /\ Rollback(r, IF call[r].op = "create" THEN "201" ELSE "200")

\* A statement fails (a constraint, the connection) or the process dies
\* before the commit: PostgreSQL rolls the transaction back either way.
Fault(r) ==
  /\ r \in Faulty
  /\ pc[r] \notin {"idle", "done"}
  /\ \E answer \in {"500", "lost"} : Rollback(r, answer)

-----------------------------------------------------------------------------
Arrive(r) == \E c \in Call : Insert(r, c) \/ Load(r, c) \/ Refuse(r, c)

\* What the event loop does with a request that has been accepted.
Proceed(r) == AddStep(r) \/ Update(r) \/ Log(r) \/ LogTypeError(r) \/ Commit(r)

Finished ==
  /\ \A r \in Request : pc[r] = "done"
  /\ UNCHANGED vars

Next ==
  \/ \E r \in Request :
       Arrive(r) \/ Proceed(r) \/ CommitUnacknowledged(r) \/ Fault(r)
  \/ Finished

Spec == Init /\ [][Next]_vars

\* The event loop resumes every coroutine whose statement has returned; no
\* client is obliged to send anything, and no fault is obliged to happen.
FairSpec == Spec /\ \A r \in Request : WF_vars(Proceed(r))

-----------------------------------------------------------------------------
(* Properties.                                                             *)

Answer == {"none", "200", "201", "403", "404", "422", "500", "lost"}

PC == {"idle", "checked", "stepped", "updated", "ready", "done"}

\* The one type invariant: rows, pending writes and program counters keep
\* the shapes the ORM classes and the handlers give them.
TypeOK ==
  /\ order \in [Order -> OrderRow \cup {None}]
  /\ steps \subseteq StepRow
  /\ audit \subseteq AuditRow
  /\ lock \in [Order -> Request \cup {None}]
  /\ pc \in [Request -> PC]
  /\ call \in [Request -> Call \cup {None}]
  /\ tx \in [Request -> Writes]
  /\ resp \in [Request -> Answer]
  /\ seen \in [Request -> POStatus \cup {"none"}]
  /\ past \in [Order -> SUBSET POStatus]
  /\ blind \subseteq Order

\* An order's row is explained by its past, whatever requests overlapped:
\* its status is one it has had; nothing is approved or rejected that was
\* never submitted; and a rejection_reason is there only if the order has
\* been rejected.  (The checks after the SELECTs of both services.)
PastExplainsRow ==
  \A o \in Order : order[o] # None =>
    /\ "draft" \in past[o]
    /\ order[o].status \in past[o]
    /\ past[o] \cap {"approved", "rejected"} # {} => "pending_approval" \in past[o]
    /\ order[o].rejection_reason # "none" => "rejected" \in past[o]

\* No two requests have an uncommitted UPDATE of the same order, and an
\* UPDATE that waits to be committed holds the latest committed columns
\* except the ones it sets: a commit never brings back an older owner,
\* total or rejection_reason.  (The UPDATE of PurchaseOrderRepository sets
\* columns, it does not write the instance back.)
PendingUpdateIsCurrent ==
  \A r \in Request :
    pc[r] \in {"updated", "ready"} /\ call[r].op # "create" =>
      LET row == order[call[r].order] IN
      /\ \A q \in Request \ {r} :
           pc[q] \in {"updated", "ready"} /\ call[q].op # "create" => call[q].order # call[r].order
      /\ row # None
      /\ tx[r].order = Updated(call[r], row)

\* The rows a request has written to approval_steps and audit_logs.
StepsOf(r) == {s \in steps : s.request = r}
AuditOf(r) == {a \in audit : a.request = r}

\* The answer tells the client the truth about the database: a 201 means the
\* order exists and is the caller's, a 200 that the new status was committed,
\* with the decision and the audit row the approvals router writes; a 4xx,
\* and any request still running, means the request left no row.  (get_db
\* commits before the answer leaves and rolls back on an exception.)
AnswerMatchesDatabase ==
  \A r \in Request :
    /\ resp[r] = "201" =>
         /\ order[call[r].order] # None
         /\ order[call[r].order].requester = call[r].user
    /\ resp[r] = "200" => Target[call[r].op] \in past[call[r].order]
    /\ resp[r] = "200" /\ call[r].router = "approvals" =>
         /\ AuditOf(r) # {}
         /\ Decides(r) => StepsOf(r) # {}
    /\ resp[r] \in {"none", "403", "404", "422"} => StepsOf(r) = {} /\ AuditOf(r) = {}

\* A decision and its audit row are committed together or not at all, name
\* the same order, user and outcome, and the order did take that status.  The
\* row says that it left the status its request had read, but for a
\* cancellation, which looks after its own UPDATE and reports "cancelled".
\* (AddStep, Update and Log share one transaction in approve and reject.)
DecisionAndAuditTogether ==
  /\ \A s \in steps : \E a \in audit :
       /\ a.request = s.request
       /\ a.order = s.order
       /\ a.user = s.approver
       /\ a.new = s.status
       /\ a.old = "pending_approval"
  /\ \A a \in audit :
       /\ a.old = IF a.new = "cancelled" THEN "cancelled" ELSE seen[a.request]
       /\ a.new \in past[a.order]
       /\ a.new \in {"approved", "rejected"} => \E s \in steps : s.request = a.request

\* The user has an approver role and, to approve, not one's own order unless
\* ADMIN and an amount within the limit.
Entitled(user, status, row) ==
  /\ row # None
  /\ Role[user] \in APPROVER_ROLES
  /\ status = "approved" =>
       /\ row.requester # user \/ Role[user] = "admin"
       /\ ApprovalLimit[user] = 0 \/ row.total <= ApprovalLimit[user]

\* Every recorded decision was taken by someone entitled to it when judged
\* against the order as it is stored: an approver role and, to approve, not
\* one's own order unless ADMIN and an amount within the approval limit (a
\* limit of 0 or NULL is no limit).  (ApprovalService.approve and reject.)
DecisionsByEntitledUsers ==
  \A s \in steps : Entitled(s.approver, s.status, order[s.order])

\* As long as no request has replaced a status it had not read, approval_steps
\* tells the order's story: one decision at most, hence one step that is
\* current, and the status is the one it decided on, or cancelled after an
\* approval.  (approve and reject insert is_current = True and nothing clears
\* it; get_current_step expects one row.)
StepsExplainStatus ==
  \A s \in steps : s.order \notin blind =>
    /\ \A t \in steps : t.order = s.order => t = s
    /\ order[s.order].status \in
         IF s.status = "approved" THEN {"approved", "cancelled"} ELSE {"rejected"}

\* A committed status change leaves the table of legal transitions only when
\* its request decided on a status that another commit has replaced since:
\* requests that do not overlap follow the table, on either router.
\* (transition_status, and the literal checks of ApprovalService.)
IllegalOnlyWhenStale ==
  [][\A o \in Order :
       order[o] # None /\ order'[o].status # order[o].status =>
         \/ order'[o].status \in VALID_TRANSITIONS[order[o].status]
         \/ \E r \in Request :
              /\ pc[r] = "ready"
              /\ pc'[r] = "done"
              /\ call[r].order = o
              /\ seen[r] # order[o].status
              /\ order'[o].status \in VALID_TRANSITIONS[seen[r]]]_vars

\* What the comment "Valid status state machine" and the docstring of the
\* cancel route ("El servicio valida la transicion mediante la maquina de
\* estados") say: a committed status only moves along VALID_TRANSITIONS.
\* Refuted: see the run overlapping_requests.
StatusFollowsTable ==
  [][\A o \in Order :
       order[o] # None /\ order'[o].status # order[o].status =>
         order'[o].status \in VALID_TRANSITIONS[order[o].status]]_vars

\* What the tests of ApprovalService assert of its operations: on an
\* infrastructure that does not fail, no request ends in a server error.
\* Refuted: see the run approvals_router.
NoServerError == \A r \in Request \ Faulty : resp[r] # "500"

\* Every accepted request is answered: no request waits for ever on the row
\* lock of another, even when requests are killed while they hold it.
EveryRequestIsAnswered ==
  \A r \in Request : pc[r] \in {"checked", "ready"} ~> pc[r] = "done"

\* The workflow implements the life cycle its comments and its overlapping
\* requests leave: see OrderLifecycle.
Lifecycle == INSTANCE OrderLifecycle WITH
  status <- [o \in Order |-> IF order[o] = None THEN "absent" ELSE order[o].status]
ImplementsLifecycle == Lifecycle!LifecycleSpec

-----------------------------------------------------------------------------
(* The inductive invariant behind PastExplainsRow, PendingUpdateIsCurrent,  *)
(* IllegalOnlyWhenStale and ImplementsLifecycle.                            *)

\* A request that has been accepted has a call, and its stage fits it.
StageFitsCall ==
  \A r \in Request :
    /\ pc[r] # "idle" => call[r] \in Call
    /\ pc[r] \in {"checked", "stepped", "updated"} => call[r].op # "create"
    /\ pc[r] = "stepped" => Decides(r)
    /\ pc[r] = "updated" => call[r].router = "approvals"

Accepted(r) ==
  pc[r] \in {"checked", "stepped", "updated", "ready"} /\ call[r].op # "create"

\* An accepted request decided on a status the order has had, and the status
\* it is going to write is legal after that one.
DecidedOnAPastStatus ==
  \A r \in Request : Accepted(r) =>
    /\ order[call[r].order] # None
    /\ seen[r] \in past[call[r].order]
    /\ Target[call[r].op] \in VALID_TRANSITIONS[seen[r]]

\* An uncommitted UPDATE is covered by the row lock and is the committed row
\* with the columns it sets replaced.
PendingUpdateLocked ==
  \A r \in Request : Accepted(r) /\ pc[r] \in {"updated", "ready"} =>
    /\ lock[call[r].order] = r
    /\ tx[r].order = Updated(call[r], order[call[r].order])

\* An uncommitted INSERT is a draft nobody else can see.
PendingCreateInvisible ==
  \A r \in Request : pc[r] = "ready" /\ call[r].op = "create" =>
    /\ order[call[r].order] = None
    /\ tx[r].order \in OrderRow
    /\ tx[r].order.status = "draft"
    /\ tx[r].order.rejection_reason = "none"

\* Two requests never create the same order.
CreatesAreDistinct ==
  \A r, q \in Request :
    r # q /\ call[r] # None /\ call[q] # None /\ call[r].op = "create"
      /\ call[q].op = "create" => call[r].order # call[q].order

NoRowNoPast == \A o \in Order : order[o] = None => past[o] = {}

Inductive ==
  /\ TypeOK
  /\ StageFitsCall
  /\ DecidedOnAPastStatus
  /\ PendingUpdateLocked
  /\ PendingCreateInvisible
  /\ CreatesAreDistinct
  /\ NoRowNoPast
  /\ PastExplainsRow

-----------------------------------------------------------------------------
(* The inductive invariant behind AnswerMatchesDatabase,                    *)
(* DecisionAndAuditTogether and DecisionsByEntitledUsers, on top of that.   *)

\* The rows that record what a request has done.
StepFor(r) == [request |-> r, order |-> call[r].order, approver |-> call[r].user,
               status |-> Target[call[r].op]]
AuditFits(a, r) ==
  /\ a.request = r /\ a.order = call[r].order /\ a.user = call[r].user
  /\ a.new = Target[call[r].op]
  /\ Decides(r) => a.old = "pending_approval"
  /\ a.old = IF a.new = "cancelled" THEN "cancelled" ELSE seen[r]

\* What a request has flushed is what it was asked for, as far as it got.
WritesFit(r) ==
  /\ tx[r].steps = IF pc[r] \in {"stepped", "updated", "ready"} /\ Decides(r)
                   THEN {StepFor(r)} ELSE {}
  /\ \A a \in tx[r].audit : AuditFits(a, r)
  /\ tx[r].audit # {} <=> pc[r] = "ready" /\ call[r].router = "approvals"
  /\ pc[r] = "ready" /\ call[r].op = "create" => tx[r].order.requester = call[r].user

\* Whoever is about to decide is entitled to.
DeciderIsEntitled(r) ==
  Accepted(r) /\ Decides(r) =>
    Entitled(call[r].user, Target[call[r].op], order[call[r].order])

\* The rows of a request were committed together when it ended.
RowsAreRecords ==
  /\ \A s \in steps :
       /\ pc[s.request] = "done" /\ resp[s.request] \in {"200", "500", "lost"}
       /\ Decides(s.request) /\ s = StepFor(s.request)
       /\ \E a \in audit : a.request = s.request
  /\ \A a \in audit :
       /\ pc[a.request] = "done" /\ resp[a.request] \in {"200", "500", "lost"}
       /\ call[a.request].router = "approvals" /\ AuditFits(a, a.request)
       /\ a.new \in past[a.order]
       /\ Decides(a.request) => StepFor(a.request) \in steps

Recorded ==
  /\ \A r \in Request : pc[r] # "done" => resp[r] = "none"
  /\ \A r \in Request : WritesFit(r) /\ DeciderIsEntitled(r)
  /\ RowsAreRecords
  /\ AnswerMatchesDatabase
  /\ DecisionAndAuditTogether
  /\ DecisionsByEntitledUsers

=============================================================================
