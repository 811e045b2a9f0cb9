------------------------ MODULE OrderWorkflow_proofs ------------------------
(***************************************************************************)
(* Proofs about OrderWorkflow, for every set of orders, users and          *)
(* requests, both routers, and either shape of the class AuditLog.         *)
(***************************************************************************)
EXTENDS OrderWorkflow, TLAPS

-----------------------------------------------------------------------------
(* Facts about the vocabulary, the calls and the checks.                   *)

\* Every transition operation writes a status some route leads to.
LEMMA TargetTyping ==
  /\ TransitionOp \subseteq Operation
  /\ Operation = TransitionOp \cup {"create"}
  /\ "create" \notin TransitionOp
  /\ \A op \in TransitionOp : Target[op] \in POStatus /\ Target[op] \in RoutedStatus
  /\ Target["submit"] = "pending_approval"
  /\ Target["approve"] = "approved"
  /\ Target["reject"] = "rejected"
  /\ Target["cancel"] = "cancelled"
BY DEF TransitionOp, Operation, Target, POStatus, RoutedStatus

\* Only a submitted order can legally be approved or rejected next.
LEMMA DecisionsFollowSubmission ==
  ASSUME NEW s \in POStatus, NEW t \in VALID_TRANSITIONS[s],
         t \in {"approved", "rejected"}
  PROVE  s = "pending_approval"
BY DEF VALID_TRANSITIONS, POStatus

\* None is no row, no call and no request.
LEMMA NoneIsNothing ==
  None \notin OrderRow /\ None \notin Call /\ None \notin Request
BY DomainAssumption

\* The components of a call.
LEMMA CallTyping ==
  ASSUME NEW c \in Call
  PROVE  /\ c.order \in Order
         /\ c.user \in User
         /\ c.router \in {"approvals", "purchase_orders"}
         /\ c.reason \in Reason
         /\ c.op \in Operation
         /\ c.op # "create" => c.op \in TransitionOp
BY DomainAssumption DEF Call, Operation

\* A request passes its checks only on a row from which its operation's
\* status is legal, on either router.
LEMMA AcceptedIsLegal ==
  ASSUME NEW c \in Call, c.op # "create",
         NEW row \in OrderRow \cup {None}, Refusal(c, row) = "none"
  PROVE  /\ row # None
         /\ row \in OrderRow
         /\ Target[c.op] \in VALID_TRANSITIONS[row.status]
<1>1. row # None /\ row \in OrderRow
  BY DEF Refusal
<1>2. row.status \in POStatus
  BY <1>1 DEF OrderRow
<1>3. c.op \in {"submit", "approve", "reject", "cancel"}
  BY CallTyping DEF TransitionOp
<1>4. CASE c.router = "purchase_orders"
  BY <1>1, <1>4 DEF Refusal, TableRefusal
<1>5. CASE c.router # "purchase_orders" /\ c.op = "submit"
  <2>1. row.status = "draft"
    BY <1>1, <1>5 DEF Refusal, SubmitRefusal
  <2> QED
    BY <1>1, <1>5, <2>1, TargetTyping DEF VALID_TRANSITIONS, POStatus
<1>6. CASE c.router # "purchase_orders" /\ c.op = "approve"
  <2>1. row.status = "pending_approval"
    BY <1>1, <1>6 DEF Refusal, ApproveRefusal
  <2> QED
    BY <1>1, <1>6, <2>1, TargetTyping DEF VALID_TRANSITIONS, POStatus
<1>7. CASE c.router # "purchase_orders" /\ c.op = "reject"
  <2>1. row.status = "pending_approval"
    BY <1>1, <1>7 DEF Refusal, RejectRefusal
  <2> QED
    BY <1>1, <1>7, <2>1, TargetTyping DEF VALID_TRANSITIONS, POStatus
<1>8. CASE c.router # "purchase_orders" /\ c.op = "cancel"
  <2>1. row.status \in {"draft", "pending_approval", "approved"}
    BY <1>1, <1>8 DEF Refusal, CancelRefusal
  <2> QED
    BY <1>1, <1>8, <2>1, TargetTyping DEF VALID_TRANSITIONS, POStatus
<1> QED
  BY <1>3, <1>4, <1>5, <1>6, <1>7, <1>8

\* The answers of the checks.
LEMMA RefusalTyping ==
  ASSUME NEW c \in Call, c.op # "create", NEW row \in OrderRow \cup {None}
  PROVE  Refusal(c, row) \in {"none", "403", "404", "422"}
BY DEF Refusal, TableRefusal, SubmitRefusal, ApproveRefusal, RejectRefusal, CancelRefusal

\* An UPDATE makes a row of a row: it sets the status and, for a rejection,
\* maybe the reason, and keeps the owner and the total.
LEMMA UpdatedRow ==
  ASSUME NEW c \in Call, c.op # "create", NEW row \in OrderRow
  PROVE  /\ Updated(c, row) \in OrderRow
         /\ Updated(c, row).status = Target[c.op]
         /\ Updated(c, row).requester = row.requester
         /\ Updated(c, row).total = row.total
         /\ Updated(c, row).rejection_reason # "none" =>
              row.rejection_reason # "none" \/ Target[c.op] = "rejected"
<1>1. Target[c.op] \in POStatus
  BY CallTyping, TargetTyping
<1>2. ReasonAfter(c, row) \in Reason \cup {"none"}
  BY CallTyping DEF ReasonAfter, OrderRow
<1>3. ReasonAfter(c, row) # row.rejection_reason => Target[c.op] = "rejected"
  BY TargetTyping DEF ReasonAfter
<1> QED
  BY <1>1, <1>2, <1>3 DEF Updated, OrderRow

\* Writing a pending row changes that request's pending row and nothing else.
LEMMA PendingRow ==
  ASSUME tx \in [Request -> Writes], NEW r \in Request, NEW row \in OrderRow,
         tx' = [tx EXCEPT ![r].order = row]
  PROVE  /\ tx' \in [Request -> Writes]
         /\ \A q \in Request : q # r => tx'[q] = tx[q]
         /\ tx'[r].order = row
BY DEF Writes

-----------------------------------------------------------------------------
(* The inductive invariant holds initially.                                *)

\* The invariant holds in the initial states.
LEMMA InitInductive == Init => Inductive
<1> SUFFICES ASSUME Init PROVE Inductive
  OBVIOUS
<1>1. order \in [Order -> OrderRow \cup {None}]
  BY DEF Init, OrderRow, POStatus
<1>2. past \in [Order -> SUBSET POStatus]
  BY DEF Init, POStatus
<1>3. tx \in [Request -> Writes]
  BY DEF Init, NoWrites, Writes
<1>4. TypeOK
  BY <1>1, <1>2, <1>3 DEF Init, TypeOK, PC, Answer
<1>5. \A o \in Order : order[o] # None =>
        /\ order[o].status = "draft" /\ order[o].rejection_reason = "none"
        /\ past[o] = {"draft"}
  BY DEF Init
<1>6. PastExplainsRow
  BY <1>5 DEF PastExplainsRow
<1>7. StageFitsCall /\ DecidedOnAPastStatus /\ PendingUpdateLocked
        /\ PendingCreateInvisible /\ CreatesAreDistinct /\ NoRowNoPast
  BY DEF Init, StageFitsCall, DecidedOnAPastStatus, Accepted, PendingUpdateLocked,
         PendingCreateInvisible, CreatesAreDistinct, NoRowNoPast
<1> QED
  BY <1>4, <1>6, <1>7 DEF Inductive

-----------------------------------------------------------------------------
(* Each action preserves it.                                               *)

\* The INSERT of a create, invisible to the others.
LEMMA InsertInductive ==
  ASSUME Inductive, NEW r \in Request, NEW c \in Call, Insert(r, c)
  PROVE  Inductive'
<1> USE DEF Inductive
<1>1. c.order \in Order /\ c.user \in User
  BY CallTyping
<1>2. PICK total \in Amount :
        tx' = [tx EXCEPT ![r].order =
                [status |-> "draft", requester |-> c.user, total |-> total,
                 rejection_reason |-> "none"]]
  BY DEF Insert
<1>3. [status |-> "draft", requester |-> c.user, total |-> total,
       rejection_reason |-> "none"] \in OrderRow
  BY <1>1 DEF OrderRow, POStatus
<1>4. /\ tx' \in [Request -> Writes]
      /\ \A q \in Request : q # r => tx'[q] = tx[q]
      /\ tx'[r].order = [status |-> "draft", requester |-> c.user, total |-> total,
                         rejection_reason |-> "none"]
  BY <1>2, <1>3, PendingRow DEF TypeOK
<1>5. /\ \A q \in Request : q # r => pc'[q] = pc[q] /\ call'[q] = call[q]
      /\ pc'[r] = "ready" /\ call'[r] = c /\ c.op = "create"
      /\ UNCHANGED <<order, steps, audit, lock, resp, seen, past, blind>>
  BY DEF Insert, TypeOK, db, history
<1>6. TypeOK'
  BY <1>4, <1>5 DEF TypeOK, Insert, PC
<1>7. StageFitsCall'
  BY <1>5 DEF StageFitsCall, Decides
<1>8. DecidedOnAPastStatus' /\ PendingUpdateLocked'
  BY <1>4, <1>5 DEF DecidedOnAPastStatus, PendingUpdateLocked, Accepted
<1>9. order[c.order] = None
  BY DEF Insert, Fresh
<1>10. PendingCreateInvisible'
  BY <1>3, <1>4, <1>5, <1>9 DEF PendingCreateInvisible
<1>11. CreatesAreDistinct'
  BY <1>5 DEF CreatesAreDistinct, Insert, Fresh
<1>12. NoRowNoPast' /\ PastExplainsRow'
  BY <1>5 DEF NoRowNoPast, PastExplainsRow
<1> QED
  BY <1>6, <1>7, <1>8, <1>10, <1>11, <1>12

\* An accepted request has read a status the order has had.
LEMMA LoadInductive ==
  ASSUME Inductive, NEW r \in Request, NEW c \in Call, Load(r, c)
  PROVE  Inductive'
<1> USE DEF Inductive
<1>1. c.order \in Order
  BY CallTyping
<1>2. /\ order[c.order] # None
      /\ order[c.order] \in OrderRow
      /\ Target[c.op] \in VALID_TRANSITIONS[order[c.order].status]
  BY <1>1, AcceptedIsLegal DEF Load, TypeOK
<1>3. order[c.order].status \in POStatus
  BY <1>2 DEF OrderRow
<1>4. /\ \A q \in Request : q # r => pc'[q] = pc[q] /\ call'[q] = call[q] /\ seen'[q] = seen[q]
      /\ pc'[r] = "checked" /\ call'[r] = c /\ c.op # "create"
      /\ seen'[r] = order[c.order].status
      /\ UNCHANGED <<order, steps, audit, lock, tx, resp, past, blind>>
  BY DEF Load, TypeOK, db
<1>5. TypeOK'
  BY <1>3, <1>4 DEF TypeOK, Load, PC
<1>6. StageFitsCall'
  BY <1>4 DEF StageFitsCall, Decides
<1>7. DecidedOnAPastStatus'
  BY <1>1, <1>2, <1>4 DEF DecidedOnAPastStatus, Accepted, PastExplainsRow
<1>8. PendingUpdateLocked'
  BY <1>4 DEF PendingUpdateLocked, Accepted
<1>9. PendingCreateInvisible' /\ CreatesAreDistinct'
  BY <1>4 DEF PendingCreateInvisible, CreatesAreDistinct
<1>10. NoRowNoPast' /\ PastExplainsRow'
  BY <1>4 DEF NoRowNoPast, PastExplainsRow
<1> QED
  BY <1>5, <1>6, <1>7, <1>8, <1>9, <1>10

\* A refused request writes nothing.
LEMMA RefuseInductive ==
  ASSUME Inductive, NEW r \in Request, NEW c \in Call, Refuse(r, c)
  PROVE  Inductive'
<1> USE DEF Inductive
<1>1. c.order \in Order
  BY CallTyping
<1>2. Refusal(c, order[c.order]) \in Answer
  BY <1>1, RefusalTyping DEF Refuse, TypeOK, Answer
<1>3. /\ \A q \in Request : q # r => pc'[q] = pc[q] /\ call'[q] = call[q]
      /\ pc'[r] = "done" /\ call'[r] = c /\ c.op # "create"
      /\ UNCHANGED <<order, steps, audit, lock, tx, seen, past, blind>>
  BY DEF Refuse, TypeOK, db, history
<1>4. TypeOK'
  BY <1>2, <1>3 DEF TypeOK, Refuse, PC
<1>5. StageFitsCall'
  BY <1>3 DEF StageFitsCall, Decides
<1>6. DecidedOnAPastStatus' /\ PendingUpdateLocked'
  BY <1>3 DEF DecidedOnAPastStatus, PendingUpdateLocked, Accepted
<1>7. PendingCreateInvisible' /\ CreatesAreDistinct'
  BY <1>3 DEF PendingCreateInvisible, CreatesAreDistinct
<1>8. NoRowNoPast' /\ PastExplainsRow'
  BY <1>3 DEF NoRowNoPast, PastExplainsRow
<1> QED
  BY <1>4, <1>5, <1>6, <1>7, <1>8

\* A flushed approval step stays in its transaction.
LEMMA AddStepInductive ==
  ASSUME Inductive, NEW r \in Request, AddStep(r)
  PROVE  Inductive'
<1> USE DEF Inductive
<1> DEFINE step == [request |-> r, order |-> call[r].order, approver |-> call[r].user,
                    status |-> Target[call[r].op]]
<1>1. /\ call[r] \in Call /\ call[r].op # "create" /\ Decides(r)
  BY DEF AddStep, StageFitsCall
<1>2. call[r].order \in Order /\ call[r].user \in User
  BY <1>1, CallTyping
<1>3. step \in StepRow
  BY <1>1, <1>2, TargetTyping DEF StepRow, Decides
<1>4. /\ tx' \in [Request -> Writes]
      /\ \A q \in Request : q # r => tx'[q] = tx[q]
  <2>1. tx[r] \in Writes
    BY DEF TypeOK
  <2> DEFINE new == [tx[r] EXCEPT !.steps = {step}]
  <2>2. new \in Writes
    BY <1>3, <2>1 DEF Writes
  <2>3. tx' = [tx EXCEPT ![r] = new]
    BY DEF AddStep
  <2> HIDE DEF new
  <2> QED
    BY <2>2, <2>3 DEF TypeOK
<1>5. /\ \A q \in Request : q # r => pc'[q] = pc[q]
      /\ pc[r] = "checked" /\ pc'[r] = "stepped"
      /\ UNCHANGED <<order, steps, audit, lock, call, resp, seen, past, blind>>
  BY DEF AddStep, TypeOK, db, history
<1>6. TypeOK'
  BY <1>4, <1>5 DEF TypeOK, AddStep, PC
<1>7. StageFitsCall'
  BY <1>1, <1>5 DEF StageFitsCall, Decides
<1>8. DecidedOnAPastStatus' /\ PendingUpdateLocked'
  BY <1>4, <1>5 DEF DecidedOnAPastStatus, PendingUpdateLocked, Accepted
<1>9. PendingCreateInvisible' /\ CreatesAreDistinct'
  BY <1>4, <1>5 DEF PendingCreateInvisible, CreatesAreDistinct
<1>10. NoRowNoPast' /\ PastExplainsRow'
  BY <1>5 DEF NoRowNoPast, PastExplainsRow
<1> QED
  BY <1>6, <1>7, <1>8, <1>9, <1>10

\* An UPDATE takes the row lock and starts from the committed row.
LEMMA UpdateInductive ==
  ASSUME Inductive, NEW r \in Request, Update(r)
  PROVE  Inductive'
<1> USE DEF Inductive
<1> DEFINE o == call[r].order
<1>1. /\ pc[r] \in {"checked", "stepped"}
      /\ call[r] \in Call /\ call[r].op # "create" /\ Accepted(r)
  BY DEF Update, StageFitsCall, Accepted
<1>2. o \in Order /\ lock[o] = None
  BY <1>1, CallTyping DEF Update
<1>3. order[o] # None /\ order[o] \in OrderRow
  BY <1>1, <1>2 DEF DecidedOnAPastStatus, TypeOK
<1>4. Updated(call[r], order[o]) \in OrderRow
  BY <1>1, <1>3, UpdatedRow
<1>5. /\ tx' \in [Request -> Writes]
      /\ \A q \in Request : q # r => tx'[q] = tx[q]
      /\ tx'[r].order = Updated(call[r], order[o])
  <2>1. tx' = [tx EXCEPT ![r].order = Updated(call[r], order[o])]
    BY DEF Update
  <2> QED
    BY <2>1, <1>4, PendingRow DEF TypeOK
<1>6. /\ lock' \in [Order -> Request \cup {None}]
      /\ lock'[o] = r
      /\ \A p \in Order : p # o => lock'[p] = lock[p]
  BY <1>2 DEF TypeOK, Update
<1>7. /\ \A q \in Request : q # r => pc'[q] = pc[q]
      /\ pc'[r] \in {"updated", "ready"}
      /\ pc'[r] = "updated" => call[r].router = "approvals"
      /\ pc' \in [Request -> PC]
      /\ UNCHANGED <<order, steps, audit, call, resp, seen, past, blind>>
  BY DEF Update, TypeOK, db, history, PC
<1>8. TypeOK'
  BY <1>5, <1>6, <1>7 DEF TypeOK
<1>9. StageFitsCall'
  BY <1>1, <1>7 DEF StageFitsCall, Decides
<1>10. DecidedOnAPastStatus'
  BY <1>1, <1>7 DEF DecidedOnAPastStatus, Accepted
<1>11. PendingUpdateLocked'
  <2> SUFFICES ASSUME NEW q \in Request, Accepted(q)', pc'[q] \in {"updated", "ready"}
               PROVE  /\ lock'[call[q].order] = q
                      /\ tx'[q].order = Updated(call[q], order[call[q].order])
    BY <1>7 DEF PendingUpdateLocked
  <2>1. CASE q = r
    BY <2>1, <1>5, <1>6
  <2>2. CASE q # r
    <3>1. Accepted(q) /\ pc[q] \in {"updated", "ready"}
      BY <2>2, <1>7 DEF Accepted
    <3>2. /\ lock[call[q].order] = q
          /\ tx[q].order = Updated(call[q], order[call[q].order])
      BY <3>1 DEF PendingUpdateLocked
    <3>3. call[q].order \in Order
      BY <3>1, CallTyping DEF StageFitsCall
    <3>4. call[q].order # o
      BY <3>2, <1>2, NoneIsNothing
    <3> QED
      BY <2>2, <3>2, <3>3, <3>4, <1>5, <1>6
  <2> QED
    BY <2>1, <2>2
<1>12. PendingCreateInvisible' /\ CreatesAreDistinct'
  BY <1>1, <1>5, <1>7 DEF PendingCreateInvisible, CreatesAreDistinct
<1>13. NoRowNoPast' /\ PastExplainsRow'
  BY <1>7 DEF NoRowNoPast, PastExplainsRow
<1> QED
  BY <1>8, <1>9, <1>10, <1>11, <1>12, <1>13

\* The audit row is flushed under the same lock.
LEMMA LogInductive ==
  ASSUME Inductive, NEW r \in Request, Log(r)
  PROVE  Inductive'
<1> USE DEF Inductive
<1> DEFINE entry == [request |-> r, order |-> call[r].order, user |-> call[r].user,
                     old |-> FromStatus(r), new |-> Target[call[r].op]]
<1>1. /\ pc[r] = "updated" /\ call[r] \in Call /\ call[r].op # "create" /\ Accepted(r)
  BY DEF Log, StageFitsCall, Accepted
<1>2. /\ call[r].order \in Order /\ call[r].user \in User /\ Target[call[r].op] \in POStatus
  BY <1>1, CallTyping, TargetTyping
<1>3. order[call[r].order] \in OrderRow
  BY <1>1, <1>2 DEF DecidedOnAPastStatus, TypeOK
<1>4. tx[r].order.status = Target[call[r].op]
  BY <1>1, <1>3, UpdatedRow DEF PendingUpdateLocked
<1>5. FromStatus(r) \in POStatus
  <2>1. CASE call[r].op = "submit"
    BY <2>1 DEF FromStatus, POStatus
  <2>2. CASE call[r].op = "cancel"
    BY <2>2, <1>2, <1>4 DEF FromStatus
  <2>3. CASE call[r].op \notin {"submit", "cancel"}
    BY <2>3 DEF FromStatus, POStatus
  <2> QED
    BY <2>1, <2>2, <2>3
<1>6. entry \in AuditRow
  BY <1>2, <1>5 DEF AuditRow
<1>7. /\ tx' \in [Request -> Writes]
      /\ \A q \in Request : tx'[q].order = tx[q].order
  <2>1. tx' = [tx EXCEPT ![r].audit = {entry}]
    BY DEF Log
  <2>2. {entry} \in SUBSET AuditRow
    BY <1>6
  <2> HIDE DEF entry
  <2>3. tx \in [Request -> Writes]
    BY DEF TypeOK
  <2>4. [tx[r] EXCEPT !.audit = {entry}] \in Writes
    BY <2>2, <2>3 DEF Writes
  <2>5. /\ tx' = [tx EXCEPT ![r] = [tx[r] EXCEPT !.audit = {entry}]]
        /\ [tx[r] EXCEPT !.audit = {entry}].order = tx[r].order
    BY <2>1, <2>3 DEF Writes
  <2> HIDE DEF Inductive
  <2> QED
    BY <2>3, <2>4, <2>5
<1>8. /\ \A q \in Request : q # r => pc'[q] = pc[q]
      /\ pc'[r] = "ready"
      /\ UNCHANGED <<order, steps, audit, lock, call, resp, seen, past, blind>>
  BY DEF Log, TypeOK, db, history
<1>9. TypeOK'
  BY <1>7, <1>8 DEF TypeOK, Log, PC
<1>10. StageFitsCall'
  BY <1>1, <1>8 DEF StageFitsCall, Decides
<1>11. DecidedOnAPastStatus' /\ PendingUpdateLocked'
  BY <1>1, <1>7, <1>8 DEF DecidedOnAPastStatus, PendingUpdateLocked, Accepted
<1>12. PendingCreateInvisible' /\ CreatesAreDistinct'
  BY <1>1, <1>7, <1>8 DEF PendingCreateInvisible, CreatesAreDistinct
<1>13. NoRowNoPast' /\ PastExplainsRow'
  BY <1>8 DEF NoRowNoPast, PastExplainsRow
<1> QED
  BY <1>9, <1>10, <1>11, <1>12, <1>13

\* A rollback takes back the lock and the writes of its request.
LEMMA RollbackInductive ==
  ASSUME Inductive, NEW r \in Request, NEW answer \in Answer,
         pc[r] \in {"checked", "stepped", "updated", "ready"}, Rollback(r, answer)
  PROVE  Inductive'
<1> USE DEF Inductive
<1>1. /\ \A q \in Request : q # r => pc'[q] = pc[q] /\ tx'[q] = tx[q]
      /\ pc'[r] = "done"
      /\ UNCHANGED <<order, steps, audit, call, seen, past, blind>>
  BY DEF Rollback, TypeOK, db, history
<1>2. /\ lock' \in [Order -> Request \cup {None}]
      /\ \A o \in Order : lock[o] # r => lock'[o] = lock[o]
  BY DEF Rollback, Unlocked, TypeOK
<1>3. NoWrites \in Writes
  BY DEF NoWrites, Writes
<1>4. TypeOK'
  BY <1>1, <1>2, <1>3 DEF TypeOK, Rollback, PC
<1>5. StageFitsCall'
  BY <1>1 DEF StageFitsCall, Decides
<1>6. DecidedOnAPastStatus'
  BY <1>1 DEF DecidedOnAPastStatus, Accepted
<1>7. PendingUpdateLocked'
  <2> SUFFICES ASSUME NEW q \in Request, Accepted(q)', pc'[q] \in {"updated", "ready"}
               PROVE  /\ lock'[call[q].order] = q
                      /\ tx'[q].order = Updated(call[q], order[call[q].order])
    BY <1>1 DEF PendingUpdateLocked
  <2>1. q # r
    BY <1>1
  <2>2. Accepted(q) /\ pc[q] \in {"updated", "ready"}
    BY <2>1, <1>1 DEF Accepted
  <2>3. call[q].order \in Order
    BY <2>2, CallTyping DEF StageFitsCall
  <2> QED
    BY <2>1, <2>2, <2>3, <1>1, <1>2 DEF PendingUpdateLocked
<1>8. PendingCreateInvisible' /\ CreatesAreDistinct'
  BY <1>1 DEF PendingCreateInvisible, CreatesAreDistinct
<1>9. NoRowNoPast' /\ PastExplainsRow'
  BY <1>1 DEF NoRowNoPast, PastExplainsRow
<1> QED
  BY <1>4, <1>5, <1>6, <1>7, <1>8, <1>9

\* What a commit does to the row of its order, for a create and for a
\* transition.
LEMMA PersistedRow ==
  ASSUME Inductive, NEW r \in Request, pc[r] = "ready", Persist(r)
  PROVE  /\ call[r] \in Call /\ call[r].order \in Order
         /\ tx[r].order \in OrderRow
         /\ order' \in [Order -> OrderRow \cup {None}]
         /\ order'[call[r].order] = tx[r].order
         /\ \A o \in Order : o # call[r].order => order'[o] = order[o] /\ past'[o] = past[o]
         /\ past' \in [Order -> SUBSET POStatus]
         /\ past'[call[r].order] = past[call[r].order] \cup {tx[r].order.status}
         /\ call[r].op = "create" =>
              /\ order[call[r].order] = None
              /\ past[call[r].order] = {}
              /\ tx[r].order.status = "draft"
              /\ tx[r].order.rejection_reason = "none"
         /\ call[r].op # "create" =>
              /\ Accepted(r)
              /\ lock[call[r].order] = r
              /\ order[call[r].order] \in OrderRow
              /\ tx[r].order = Updated(call[r], order[call[r].order])
<1> USE DEF Inductive
<1>1. call[r] \in Call /\ call[r].order \in Order
  BY CallTyping DEF StageFitsCall
<1>2. call[r].op = "create" =>
        /\ order[call[r].order] = None
        /\ past[call[r].order] = {}
        /\ tx[r].order \in OrderRow
        /\ tx[r].order.status = "draft"
        /\ tx[r].order.rejection_reason = "none"
  BY <1>1 DEF PendingCreateInvisible, NoRowNoPast
<1>3. call[r].op # "create" =>
        /\ Accepted(r)
        /\ lock[call[r].order] = r
        /\ order[call[r].order] \in OrderRow
        /\ tx[r].order = Updated(call[r], order[call[r].order])
  BY <1>1 DEF PendingUpdateLocked, DecidedOnAPastStatus, TypeOK, Accepted
<1>4. tx[r].order \in OrderRow
  BY <1>1, <1>2, <1>3, UpdatedRow
<1>5. tx[r].order.status \in POStatus
  BY <1>4 DEF OrderRow
<1> QED
  BY <1>1, <1>2, <1>3, <1>4, <1>5 DEF Persist, TypeOK

\* A commit, acknowledged or not.
LEMMA PersistInductive ==
  ASSUME Inductive, NEW r \in Request, pc[r] = "ready", Persist(r),
         resp' \in [Request -> Answer]
  PROVE  Inductive'
<1> USE DEF Inductive
<1> DEFINE o == call[r].order
<1>1. /\ \A q \in Request : q # r => pc'[q] = pc[q] /\ tx'[q] = tx[q]
      /\ pc'[r] = "done"
      /\ UNCHANGED <<call, seen>>
  BY DEF Persist, TypeOK
<1>2. /\ lock' \in [Order -> Request \cup {None}]
      /\ \A p \in Order : lock[p] # r => lock'[p] = lock[p]
  BY DEF Persist, Unlocked, TypeOK
<1>3. steps' \subseteq StepRow /\ audit' \subseteq AuditRow
  BY DEF Persist, TypeOK, Writes
<1>4. NoWrites \in Writes
  BY DEF NoWrites, Writes
<1>5. TypeOK'
  <2>1. /\ order' \in [Order -> OrderRow \cup {None}]
        /\ past' \in [Order -> SUBSET POStatus]
    BY PersistedRow
  <2>2. pc' \in [Request -> PC]
    BY DEF Persist, TypeOK, PC
  <2>3. tx' \in [Request -> Writes]
    BY <1>4 DEF Persist, TypeOK
  <2>4. /\ call' \in [Request -> Call \cup {None}]
        /\ seen' \in [Request -> POStatus \cup {"none"}]
    BY <1>1 DEF TypeOK
  <2>5. blind' \subseteq Order
    <3>1. o \in Order /\ blind \subseteq Order
      BY PersistedRow DEF TypeOK
    <3>2. blind' \subseteq blind \cup {o}
      BY DEF Persist
    <3> QED
      BY <3>1, <3>2
  <2> QED
    BY <1>2, <1>3, <2>1, <2>2, <2>3, <2>4, <2>5 DEF TypeOK
<1>6. StageFitsCall'
  BY <1>1 DEF StageFitsCall, Decides
<1>7. \A p \in Order : past[p] \subseteq past'[p] /\ (order[p] # None => order'[p] # None)
  BY PersistedRow, NoneIsNothing
<1>8. DecidedOnAPastStatus'
  <2> SUFFICES ASSUME NEW q \in Request, Accepted(q)'
               PROVE  /\ order'[call[q].order] # None
                      /\ seen[q] \in past'[call[q].order]
                      /\ Target[call[q].op] \in VALID_TRANSITIONS[seen[q]]
    BY <1>1 DEF DecidedOnAPastStatus
  <2>1. Accepted(q)
    BY <1>1 DEF Accepted
  <2>2. call[q].order \in Order
    BY <2>1, CallTyping DEF StageFitsCall, Accepted
  <2> QED
    BY <2>1, <2>2, <1>7 DEF DecidedOnAPastStatus
<1>9. PendingUpdateLocked'
  <2> SUFFICES ASSUME NEW q \in Request, Accepted(q)', pc'[q] \in {"updated", "ready"}
               PROVE  /\ lock'[call[q].order] = q
                      /\ tx'[q].order = Updated(call[q], order'[call[q].order])
    BY <1>1 DEF PendingUpdateLocked
  <2>1. q # r /\ Accepted(q) /\ pc[q] \in {"updated", "ready"}
    BY <1>1 DEF Accepted
  <2>2. call[q].order \in Order
    BY <2>1, CallTyping DEF StageFitsCall, Accepted
  <2>3. /\ lock[call[q].order] = q
        /\ tx[q].order = Updated(call[q], order[call[q].order])
        /\ order[call[q].order] # None
    BY <2>1 DEF PendingUpdateLocked, DecidedOnAPastStatus
  <2>4. call[q].order # o
    BY <2>1, <2>3, PersistedRow
  <2> QED
    BY <2>1, <2>2, <2>3, <2>4, <1>1, <1>2, PersistedRow
<1>10. PendingCreateInvisible'
  <2> SUFFICES ASSUME NEW q \in Request, pc'[q] = "ready", call[q].op = "create"
               PROVE  /\ order'[call[q].order] = None
                      /\ tx'[q].order \in OrderRow
                      /\ tx'[q].order.status = "draft"
                      /\ tx'[q].order.rejection_reason = "none"
    BY <1>1 DEF PendingCreateInvisible
  <2>1. q # r /\ pc[q] = "ready"
    BY <1>1
  <2>2. call[q] \in Call /\ call[q].order \in Order
    BY <2>1, CallTyping DEF StageFitsCall
  <2>3. order[call[q].order] = None
    BY <2>1 DEF PendingCreateInvisible
  <2>4. call[q].order # o
    <3>1. CASE call[r].op = "create"
      BY <3>1, <2>1, <2>2, PersistedRow, NoneIsNothing DEF CreatesAreDistinct
    <3>2. CASE call[r].op # "create"
      BY <3>2, <2>3, PersistedRow, NoneIsNothing
    <3> QED
      BY <3>1, <3>2
  <2> QED
    BY <2>1, <2>2, <2>3, <2>4, <1>1, PersistedRow DEF PendingCreateInvisible
<1>11. CreatesAreDistinct'
  BY <1>1 DEF CreatesAreDistinct
<1>12. NoRowNoPast'
  <2> SUFFICES ASSUME NEW p \in Order, order'[p] = None
               PROVE  past'[p] = {}
    BY DEF NoRowNoPast
  <2>1. p # o
    BY PersistedRow, NoneIsNothing
  <2> QED
    BY <2>1, PersistedRow DEF NoRowNoPast
<1>13. PastExplainsRow'
  <2> SUFFICES ASSUME NEW p \in Order, order'[p] # None
               PROVE  /\ "draft" \in past'[p]
                      /\ order'[p].status \in past'[p]
                      /\ past'[p] \cap {"approved", "rejected"} # {} => "pending_approval" \in past'[p]
                      /\ order'[p].rejection_reason # "none" => "rejected" \in past'[p]
    BY DEF PastExplainsRow
  <2>1. CASE p # o
    <3>1. order'[p] = order[p] /\ past'[p] = past[p]
      BY <2>1, PersistedRow
    <3> QED
      BY <3>1 DEF PastExplainsRow
  <2>2. CASE p = o /\ call[r].op = "create"
    BY <2>2, PersistedRow
  <2>3. CASE p = o /\ call[r].op # "create"
    <3> DEFINE t == Target[call[r].op]
    <3>1. /\ order[o] \in OrderRow /\ order[o] # None
          /\ order'[o] = Updated(call[r], order[o])
          /\ Accepted(r)
          /\ call[r] \in Call
      BY <2>3, PersistedRow, NoneIsNothing
    <3>2. /\ order'[o].status = t
          /\ order'[o].rejection_reason # "none" =>
               order[o].rejection_reason # "none" \/ t = "rejected"
      BY <2>3, <3>1, UpdatedRow
    <3>3. past'[o] = past[o] \cup {t}
      BY <2>3, <3>1, <3>2, PersistedRow
    <3>4. /\ "draft" \in past[o]
          /\ past[o] \cap {"approved", "rejected"} # {} => "pending_approval" \in past[o]
          /\ order[o].rejection_reason # "none" => "rejected" \in past[o]
      BY <2>3, <3>1 DEF PastExplainsRow
    <3>5. seen[r] \in past[o] /\ t \in VALID_TRANSITIONS[seen[r]]
      BY <3>1 DEF DecidedOnAPastStatus
    <3>6. seen[r] \in POStatus
      BY <2>3, <3>5 DEF TypeOK
    <3>7. t \in {"approved", "rejected"} => "pending_approval" \in past[o]
      BY <3>5, <3>6, DecisionsFollowSubmission
    <3> HIDE DEF t
    <3> QED
      BY <2>3, <3>2, <3>3, <3>4, <3>7
  <2> QED
    BY <2>1, <2>2, <2>3
<1> QED
  BY <1>5, <1>6, <1>8, <1>9, <1>10, <1>11, <1>12, <1>13

-----------------------------------------------------------------------------
(* The theorems.                                                           *)

\* Every step of the specification preserves it.
LEMMA NextInductive == Inductive /\ [Next]_vars => Inductive'
<1> SUFFICES ASSUME Inductive, [Next]_vars PROVE Inductive'
  OBVIOUS
<1>1. ASSUME NEW r \in Request, Arrive(r) PROVE Inductive'
  BY <1>1, InsertInductive, LoadInductive, RefuseInductive DEF Arrive
<1>2. ASSUME NEW r \in Request, AddStep(r) PROVE Inductive'
  BY <1>2, AddStepInductive
<1>3. ASSUME NEW r \in Request, Update(r) PROVE Inductive'
  BY <1>3, UpdateInductive
<1>4. ASSUME NEW r \in Request, Log(r) PROVE Inductive'
  BY <1>4, LogInductive
<1>5. ASSUME NEW r \in Request, LogTypeError(r) PROVE Inductive'
  BY <1>5, RollbackInductive DEF LogTypeError, Answer
<1>6. ASSUME NEW r \in Request, Fault(r) PROVE Inductive'
  <2>1. pc[r] \in {"checked", "stepped", "updated", "ready"}
    BY <1>6 DEF Fault, Inductive, TypeOK, PC
  <2> QED
    BY <2>1, <1>6, RollbackInductive DEF Fault, Answer
<1>7. ASSUME NEW r \in Request, Commit(r) PROVE Inductive'
  <2>1. resp' \in [Request -> Answer]
    BY <1>7 DEF Commit, Inductive, TypeOK, Answer
  <2> QED
    BY <2>1, <1>7, PersistInductive DEF Commit
<1>8. ASSUME NEW r \in Request, CommitUnacknowledged(r) PROVE Inductive'
  <2>1. resp' \in [Request -> Answer]
    BY <1>8 DEF CommitUnacknowledged, Inductive, TypeOK, Answer
  <2> QED
    BY <2>1, <1>8, PersistInductive DEF CommitUnacknowledged
<1>9. CASE UNCHANGED vars
  BY <1>9 DEF vars, Inductive, TypeOK, StageFitsCall, Decides, DecidedOnAPastStatus,
     Accepted, PendingUpdateLocked, PendingCreateInvisible, CreatesAreDistinct,
     NoRowNoPast, PastExplainsRow
<1> QED
  BY <1>1, <1>2, <1>3, <1>4, <1>5, <1>6, <1>7, <1>8, <1>9 DEF Next, Proceed, Finished

\* The inductive invariant: every way requests overlap, fail and commit.
THEOREM InductiveInvariant == Spec => []Inductive
BY InitInductive, NextInductive, PTL DEF Spec

\* Rows, pending writes and program counters keep their types.
THEOREM TypeCorrect == Spec => []TypeOK
<1>1. Inductive => TypeOK
  BY DEF Inductive
<1> QED
  BY <1>1, InductiveInvariant, PTL

\* No order is approved or rejected that was never submitted, and no
\* rejection_reason appears without a rejection, however requests overlap.
THEOREM PastExplained == Spec => []PastExplainsRow
<1>1. Inductive => PastExplainsRow
  BY DEF Inductive
<1> QED
  BY <1>1, InductiveInvariant, PTL

\* The row lock makes an uncommitted UPDATE exclusive and current.
THEOREM PendingUpdatesAreCurrent == Spec => []PendingUpdateIsCurrent
<1>1. Inductive => PendingUpdateIsCurrent
  <2> SUFFICES ASSUME Inductive, NEW r \in Request,
                      pc[r] \in {"updated", "ready"}, call[r].op # "create"
               PROVE  /\ \A q \in Request \ {r} :
                           pc[q] \in {"updated", "ready"} /\ call[q].op # "create"
                             => call[q].order # call[r].order
                      /\ order[call[r].order] # None
                      /\ tx[r].order = Updated(call[r], order[call[r].order])
    BY DEF PendingUpdateIsCurrent
  <2>1. \A q \in Request :
          pc[q] \in {"updated", "ready"} /\ call[q].op # "create" => Accepted(q)
    BY DEF Accepted
  <2> QED
    BY <2>1 DEF Inductive, PendingUpdateLocked, DecidedOnAPastStatus
<1> QED
  BY <1>1, InductiveInvariant, PTL

\* Rows, steps and their past change only when a request commits.
LEMMA OnlyCommitsChangeRows ==
  ASSUME [Next]_vars
  PROVE  \/ UNCHANGED <<order, steps, past, blind>>
         \/ \E r \in Request : pc[r] = "ready" /\ Persist(r)
<1>1. CASE UNCHANGED vars
  BY <1>1 DEF vars
<1>2. ASSUME NEW r \in Request, Arrive(r) PROVE UNCHANGED <<order, steps, past, blind>>
  BY <1>2 DEF Arrive, Insert, Load, Refuse, db, history
<1>3. ASSUME NEW r \in Request, AddStep(r) \/ Update(r) \/ Log(r)
      PROVE  UNCHANGED <<order, steps, past, blind>>
  BY <1>3 DEF AddStep, Update, Log, db, history
<1>4. ASSUME NEW r \in Request, LogTypeError(r) \/ Fault(r)
      PROVE  UNCHANGED <<order, steps, past, blind>>
  BY <1>4 DEF LogTypeError, Fault, Rollback, db, history
<1>5. ASSUME NEW r \in Request, Commit(r) \/ CommitUnacknowledged(r)
      PROVE  pc[r] = "ready" /\ Persist(r)
  BY <1>5 DEF Commit, CommitUnacknowledged
<1> QED
  BY <1>1, <1>2, <1>3, <1>4, <1>5 DEF Next, Proceed, Finished

\* The status a transition commits is a legal successor of one its order has
\* had, namely the one the request read.
LEMMA CommitMovesFromThePast ==
  ASSUME Inductive, NEW r \in Request, pc[r] = "ready", Persist(r), call[r].op # "create"
  PROVE  /\ order[call[r].order] # None
         /\ order'[call[r].order] # None
         /\ order'[call[r].order].status = Target[call[r].op]
         /\ seen[r] \in past[call[r].order]
         /\ Target[call[r].op] \in VALID_TRANSITIONS[seen[r]] \cap RoutedStatus
         /\ past'[call[r].order] = past[call[r].order] \cup {Target[call[r].op]}
<1>1. /\ call[r] \in Call
      /\ order[call[r].order] \in OrderRow
      /\ order'[call[r].order] = Updated(call[r], order[call[r].order])
      /\ Accepted(r)
  BY PersistedRow
<1>2. order'[call[r].order] \in OrderRow
      /\ order'[call[r].order].status = Target[call[r].op]
  BY <1>1, UpdatedRow
<1>3. past'[call[r].order] = past[call[r].order] \cup {Target[call[r].op]}
  BY <1>2, PersistedRow
<1>4. Target[call[r].op] \in RoutedStatus
  BY <1>1, CallTyping, TargetTyping
<1> QED
  BY <1>1, <1>2, <1>3, <1>4, NoneIsNothing DEF Inductive, DecidedOnAPastStatus

\* Transitions leave the table only when they decided on a stale status.
THEOREM IllegalOnlyIfStale == Spec => IllegalOnlyWhenStale
<1> DEFINE LegalOrStale ==
      \A o \in Order :
        order[o] # None /\ order'[o].status # order[o].status =>
          \/ order'[o].status \in VALID_TRANSITIONS[order[o].status]
          \/ \E r \in Request :
               /\ pc[r] = "ready"
               /\ pc'[r] = "done"
               /\ call[r].order = o
               /\ seen[r] # order[o].status
               /\ order'[o].status \in VALID_TRANSITIONS[seen[r]]
<1>1. Inductive /\ [Next]_vars => [LegalOrStale]_vars
  <2> SUFFICES ASSUME Inductive, [Next]_vars, NEW o \in Order,
                      order[o] # None, order'[o].status # order[o].status
               PROVE  \/ order'[o].status \in VALID_TRANSITIONS[order[o].status]
                      \/ \E r \in Request :
                           /\ pc[r] = "ready"
                           /\ pc'[r] = "done"
                           /\ call[r].order = o
                           /\ seen[r] # order[o].status
                           /\ order'[o].status \in VALID_TRANSITIONS[seen[r]]
    OBVIOUS
  <2>1. PICK r \in Request : pc[r] = "ready" /\ Persist(r)
    BY OnlyCommitsChangeRows
  <2>2. call[r].order = o /\ call[r].op # "create"
    BY <2>1, PersistedRow
  <2>3. order'[o].status \in VALID_TRANSITIONS[seen[r]]
    BY <2>1, <2>2, CommitMovesFromThePast
  <2>4. pc'[r] = "done"
    BY <2>1 DEF Persist, Inductive, TypeOK
  <2> QED
    BY <2>1, <2>2, <2>3, <2>4
<1>2. IllegalOnlyWhenStale <=> [][LegalOrStale]_vars
  BY DEF IllegalOnlyWhenStale
<1> HIDE DEF LegalOrStale
<1> QED
  BY <1>1, <1>2, InductiveInvariant, PTL DEF Spec

\* The instance of OrderLifecycle speaks the same vocabulary.
LEMMA SameVocabulary ==
  /\ Lifecycle!VALID_TRANSITIONS = VALID_TRANSITIONS
  /\ Lifecycle!RoutedStatus = RoutedStatus
<1>1. Lifecycle!POStatus = POStatus /\ Lifecycle!TransitionOp = TransitionOp
  BY DEF Lifecycle!POStatus, POStatus, Lifecycle!TransitionOp, TransitionOp
<1>2. Lifecycle!Target = Target
  BY <1>1, Zenon DEF Lifecycle!Target, Target
<1>3. Lifecycle!VALID_TRANSITIONS = VALID_TRANSITIONS
  BY <1>1, Zenon DEF Lifecycle!VALID_TRANSITIONS, VALID_TRANSITIONS
<1> QED
  BY <1>1, <1>2, <1>3, Zenon DEF Lifecycle!RoutedStatus, RoutedStatus

\* The workflow implements the life cycle of OrderLifecycle.
THEOREM WorkflowImplementsLifecycle == Spec => ImplementsLifecycle
<1> DEFINE status == [o \in Order |-> IF order[o] = None THEN "absent" ELSE order[o].status]
<1>1. Init => Lifecycle!LifecycleInit
  <2> SUFFICES ASSUME Init PROVE Lifecycle!LifecycleInit
    OBVIOUS
  <2>1. \A o \in Order : order[o] # None => order[o].status = "draft"
    BY DEF Init
  <2>2. status \in [Order -> {"absent", "draft"}]
    BY <2>1
  <2>3. past = [o \in Order |-> {status[o]} \ {"absent"}]
    <3>1. \A o \in Order :
            (IF order[o] = None THEN {} ELSE {"draft"}) = {status[o]} \ {"absent"}
      BY <2>1
    <3> QED
      BY <3>1 DEF Init
  <2> QED
    BY <2>2, <2>3 DEF Lifecycle!LifecycleInit
<1>2. Inductive /\ [Next]_vars => [Lifecycle!LifecycleNext]_(Lifecycle!lifecycleVars)
  <2> SUFFICES ASSUME Inductive, [Next]_vars
               PROVE  [Lifecycle!LifecycleNext]_(Lifecycle!lifecycleVars)
    OBVIOUS
  <2>1. CASE UNCHANGED <<order, steps, past, blind>>
    BY <2>1 DEF Lifecycle!lifecycleVars
  <2>2. ASSUME NEW r \in Request, pc[r] = "ready", Persist(r)
        PROVE  Lifecycle!LifecycleNext
    <3> DEFINE o == call[r].order
    <3> DEFINE newStatus == [p \in Order |-> IF order'[p] = None THEN "absent" ELSE order'[p].status]
    <3>1. /\ o \in Order
          /\ \A p \in Order : p # o => newStatus[p] = status[p] /\ past'[p] = past[p]
          /\ past \in [Order -> SUBSET POStatus] /\ past' \in [Order -> SUBSET POStatus]
      BY <2>2, PersistedRow DEF Inductive, TypeOK
    <3>2. CASE call[r].op = "create"
      <4>1. status[o] = "absent" /\ newStatus[o] = "draft" /\ past'[o] = {"draft"}
        BY <2>2, <3>1, <3>2, PersistedRow, NoneIsNothing
      <4>2. newStatus = [status EXCEPT ![o] = "draft"]
        BY <3>1, <4>1
      <4>3. past' = [past EXCEPT ![o] = {"draft"}]
        BY <3>1, <4>1
      <4> QED
        BY <3>1, <4>1, <4>2, <4>3 DEF Lifecycle!LifecycleNext, Lifecycle!Born
    <3>3. CASE call[r].op # "create"
      <4> DEFINE t == Target[call[r].op]
      <4>1. /\ newStatus[o] = t
            /\ seen[r] \in past[o]
            /\ t \in VALID_TRANSITIONS[seen[r]] \cap RoutedStatus
            /\ past'[o] = past[o] \cup {t}
        BY <2>2, <3>1, <3>3, CommitMovesFromThePast
      <4> HIDE DEF t
      <4>2. newStatus = [status EXCEPT ![o] = t]
        BY <3>1, <4>1
      <4>3. past' = [past EXCEPT ![o] = @ \cup {t}]
        BY <3>1, <4>1
      <4>4. \E s \in past[o] :
              \E u \in Lifecycle!VALID_TRANSITIONS[s] \cap Lifecycle!RoutedStatus :
                /\ newStatus = [status EXCEPT ![o] = u]
                /\ past' = [past EXCEPT ![o] = @ \cup {u}]
        BY <4>1, <4>2, <4>3, SameVocabulary
      <4> QED
        BY <3>1, <4>4 DEF Lifecycle!LifecycleNext, Lifecycle!Move
    <3> QED
      BY <3>2, <3>3
  <2> QED
    BY <2>1, <2>2, OnlyCommitsChangeRows
<1> QED
  BY <1>1, <1>2, InductiveInvariant, PTL DEF Spec, ImplementsLifecycle, Lifecycle!LifecycleSpec

-----------------------------------------------------------------------------
(* What requests record.                                                    *)

\* Orders are created on one router only.
LEMMA CreatesComeFromOrders ==
  ASSUME NEW c \in Call, c.op = "create"
  PROVE  c.router = "purchase_orders"
<1>1. c.op = "create" => c.router = "purchase_orders"
  BY Zenon DEF Call
<1> QED
  BY <1>1

\* A route that decides writes one of the two decisions, and no other does.
LEMMA OnlyDecisionsDecide ==
  ASSUME NEW c \in Call, c.op # "create"
  PROVE  Target[c.op] \in {"approved", "rejected"} <=> c.op \in {"approve", "reject"}
<1>1. c.op \in {"submit", "approve", "reject", "cancel"}
  BY CallTyping DEF TransitionOp
<1> QED
  BY <1>1, TargetTyping

\* Limits and totals are numbers.
LEMMA LimitTyping ==
  ASSUME NEW c \in Call, NEW row \in OrderRow
  PROVE  ApprovalLimit[c.user] \in Nat /\ row.total \in Nat
<1>1. c.user \in User /\ row.total \in Amount
  BY CallTyping DEF OrderRow
<1>2. ApprovalLimit \in [User -> Nat] /\ Amount \subseteq Nat
  BY DomainAssumption, Zenon
<1> QED
  BY <1>1, <1>2

\* Nothing is recorded in the initial states.
LEMMA InitRecorded == Init => Recorded
<1> SUFFICES ASSUME Init PROVE Recorded
  OBVIOUS
<1>1. \A r \in Request : WritesFit(r)
  BY DEF Init, WritesFit, NoWrites
<1>2. \A r \in Request : DeciderIsEntitled(r)
  BY DEF Init, DeciderIsEntitled, Accepted
<1>3. AnswerMatchesDatabase
  BY DEF Init, AnswerMatchesDatabase, StepsOf, AuditOf
<1> QED
  BY <1>1, <1>2, <1>3
     DEF Init, Recorded, RowsAreRecords, DecisionAndAuditTogether, DecisionsByEntitledUsers

\* What a step of one request leaves alone that commits nothing: it suffices
\* to look at that request.
LEMMA RecordsStay ==
  ASSUME Inductive, Recorded, NEW r \in Request, pc[r] # "done",
         UNCHANGED <<order, steps, audit, past>>,
         \A q \in Request : q # r =>
           /\ pc'[q] = pc[q] /\ call'[q] = call[q] /\ tx'[q] = tx[q]
           /\ resp'[q] = resp[q] /\ seen'[q] = seen[q],
         resp'[r] \in {"none", "403", "404", "422", "500", "lost"},
         pc'[r] # "done" => resp'[r] = "none",
         WritesFit(r)', DeciderIsEntitled(r)'
  PROVE  Recorded'
<1>1. \A s \in steps : s.request \in Request /\ s.request # r
  BY DEF Recorded, RowsAreRecords, Inductive, TypeOK, StepRow
<1>2. \A a \in audit : a.request \in Request /\ a.request # r
  BY DEF Recorded, RowsAreRecords, Inductive, TypeOK, AuditRow
<1>3. \A q \in Request : pc'[q] # "done" => resp'[q] = "none"
  BY DEF Recorded
<1>4. \A q \in Request : WritesFit(q)' /\ DeciderIsEntitled(q)'
  <2> SUFFICES ASSUME NEW q \in Request, q # r
               PROVE  WritesFit(q)' /\ DeciderIsEntitled(q)'
    OBVIOUS
  <2>1. WritesFit(q) /\ DeciderIsEntitled(q)
    BY DEF Recorded
  <2>2. StepFor(q)' = StepFor(q) /\ (Decides(q)' <=> Decides(q))
          /\ \A a : AuditFits(a, q)' <=> AuditFits(a, q)
    BY DEF StepFor, Decides, AuditFits
  <2>3. WritesFit(q)'
    BY <2>1, <2>2 DEF WritesFit
  <2>4. DeciderIsEntitled(q)'
    BY <2>1, <2>2 DEF DeciderIsEntitled, Accepted, Entitled
  <2> QED
    BY <2>3, <2>4
<1>5. RowsAreRecords'
  BY <1>1, <1>2 DEF Recorded, RowsAreRecords, StepFor, AuditFits, Decides
<1>6. AnswerMatchesDatabase'
  <2> SUFFICES ASSUME NEW q \in Request
               PROVE  /\ resp'[q] = "201" =>
                           /\ order[call'[q].order] # None
                           /\ order[call'[q].order].requester = call'[q].user
                      /\ resp'[q] = "200" => Target[call'[q].op] \in past[call'[q].order]
                      /\ resp'[q] = "200" /\ call'[q].router = "approvals" =>
                           /\ AuditOf(q) # {}
                           /\ Decides(q)' => StepsOf(q) # {}
                      /\ resp'[q] \in {"none", "403", "404", "422"} =>
                           StepsOf(q) = {} /\ AuditOf(q) = {}
    BY DEF AnswerMatchesDatabase, StepsOf, AuditOf
  <2>1. CASE q = r
    BY <2>1, <1>1, <1>2 DEF StepsOf, AuditOf
  <2>2. CASE q # r
    BY <2>2 DEF Recorded, AnswerMatchesDatabase, Decides
  <2> QED
    BY <2>1, <2>2
<1>7. DecisionAndAuditTogether' /\ DecisionsByEntitledUsers'
  <2>1. \A a \in audit : seen'[a.request] = seen[a.request]
    BY <1>2
  <2>2. DecisionAndAuditTogether'
    BY <2>1 DEF Recorded, DecisionAndAuditTogether
  <2> QED
    BY <2>2 DEF Recorded, DecisionsByEntitledUsers, Entitled
<1> QED
  BY <1>3, <1>4, <1>5, <1>6, <1>7 DEF Recorded

\* A request arrives: a create is flushed, or the checks let it pass, and then
\* whoever decides is entitled to, or they do not.
LEMMA ArrivalRecorded ==
  ASSUME Inductive, Recorded, NEW r \in Request, Arrive(r)
  PROVE  Recorded'
<1>1. PICK c \in Call : Insert(r, c) \/ Load(r, c) \/ Refuse(r, c)
  BY DEF Arrive
<1>2. /\ pc[r] = "idle" /\ resp[r] = "none" /\ tx[r] \in Writes
      /\ tx[r].steps = {} /\ tx[r].audit = {}
      /\ c.order \in Order
  BY <1>1, CallTyping DEF Insert, Load, Refuse, Recorded, WritesFit, Inductive, TypeOK
<1>3. CASE Insert(r, c)
  <2>1. PICK total \in Amount :
          tx' = [tx EXCEPT ![r].order =
                  [status |-> "draft", requester |-> c.user, total |-> total,
                   rejection_reason |-> "none"]]
    BY <1>3 DEF Insert
  <2>2. /\ tx'[r].steps = {} /\ tx'[r].audit = {} /\ tx'[r].order.requester = c.user
        /\ \A q \in Request : q # r => tx'[q] = tx[q]
    BY <2>1, <1>2 DEF Inductive, TypeOK, Writes
  <2>3. /\ \A q \in Request : q # r => pc'[q] = pc[q] /\ call'[q] = call[q]
        /\ pc'[r] = "ready" /\ call'[r] = c /\ c.op = "create"
        /\ UNCHANGED <<order, steps, audit, past, resp, seen>>
    BY <1>3 DEF Insert, Inductive, TypeOK, db, history
  <2>4. c.router = "purchase_orders"
    BY <2>3, CreatesComeFromOrders
  <2>5. WritesFit(r)' /\ DeciderIsEntitled(r)'
    BY <2>2, <2>3, <2>4 DEF WritesFit, DeciderIsEntitled, Decides, Accepted
  <2> QED
    BY <1>2, <2>2, <2>3, <2>5, RecordsStay
<1>4. CASE Load(r, c)
  <2>1. /\ \A q \in Request : q # r =>
             pc'[q] = pc[q] /\ call'[q] = call[q] /\ seen'[q] = seen[q]
        /\ pc'[r] = "checked" /\ call'[r] = c
        /\ UNCHANGED <<order, steps, audit, past, resp, tx>>
    BY <1>4 DEF Load, Inductive, TypeOK, db
  <2>2. WritesFit(r)'
    BY <1>2, <2>1 DEF WritesFit
  <2>3. DeciderIsEntitled(r)'
    <3> SUFFICES ASSUME c.router = "approvals", c.op \in {"approve", "reject"}
                 PROVE  Entitled(c.user, Target[c.op], order[c.order])
      BY <2>1 DEF DeciderIsEntitled, Decides, Entitled
    <3>1. Refusal(c, order[c.order]) = "none" /\ order[c.order] # None
      BY <1>4 DEF Load, Refusal
    <3>2. CASE c.op = "approve"
      <4>1. ApproveRefusal(c, order[c.order]) = "none"
        BY <3>1, <3>2 DEF Refusal
      <4>2. order[c.order] \in OrderRow
        BY <1>2, <3>1 DEF Inductive, TypeOK
      <4>3. ApprovalLimit[c.user] \in Nat /\ order[c.order].total \in Nat
        BY <4>2, LimitTyping
      <4> QED
        BY <3>1, <4>1, <4>3 DEF ApproveRefusal, Entitled
    <3>3. CASE c.op = "reject"
      <4>1. RejectRefusal(c, order[c.order]) = "none"
        BY <3>1, <3>3 DEF Refusal
      <4>2. Target[c.op] = "rejected"
        BY <3>3, TargetTyping
      <4> QED
        BY <3>1, <4>1, <4>2 DEF RejectRefusal, Entitled
    <3> QED
      BY <3>2, <3>3
  <2> QED
    BY <1>2, <2>1, <2>2, <2>3, RecordsStay
<1>5. CASE Refuse(r, c)
  <2>1. /\ \A q \in Request : q # r =>
             pc'[q] = pc[q] /\ call'[q] = call[q] /\ resp'[q] = resp[q]
        /\ pc'[r] = "done" /\ call'[r] = c
        /\ resp'[r] = Refusal(c, order[c.order])
        /\ UNCHANGED <<order, steps, audit, past, tx, seen>>
    BY <1>5 DEF Refuse, Inductive, TypeOK, db, history
  <2>2. resp'[r] \in {"403", "404", "422"}
    BY <1>2, <1>5, <2>1, RefusalTyping DEF Refuse, Inductive, TypeOK
  <2>3. WritesFit(r)' /\ DeciderIsEntitled(r)'
    BY <1>2, <2>1 DEF WritesFit, DeciderIsEntitled, Accepted
  <2> QED
    BY <1>2, <2>1, <2>2, <2>3, RecordsStay
<1> QED
  BY <1>1, <1>3, <1>4, <1>5

\* The old status a request reports is the one it has read, but for a
\* cancellation, which reports what its own UPDATE has written.
LEMMA ReportedStatus ==
  ASSUME Inductive, NEW r \in Request, pc[r] = "updated", call[r].op # "create"
  PROVE  FromStatus(r) = IF Target[call[r].op] = "cancelled" THEN "cancelled" ELSE seen[r]
<1>1. /\ call[r] \in Call /\ Accepted(r) /\ call[r].order \in Order
      /\ call[r].op \in {"submit", "approve", "reject", "cancel"}
  BY CallTyping DEF Inductive, StageFitsCall, Accepted, TransitionOp
<1>2. /\ order[call[r].order] \in OrderRow
      /\ seen[r] \in POStatus
      /\ Target[call[r].op] \in VALID_TRANSITIONS[seen[r]]
  BY <1>1 DEF Inductive, DecidedOnAPastStatus, TypeOK
<1>3. tx[r].order.status = Target[call[r].op]
  BY <1>1, <1>2, UpdatedRow DEF Inductive, PendingUpdateLocked
<1>4. CASE call[r].op = "submit"
  <2>1. seen[r] = "draft"
    BY <1>2, <1>4, TargetTyping DEF VALID_TRANSITIONS, POStatus
  <2> QED
    BY <1>4, <2>1, TargetTyping DEF FromStatus
<1>5. CASE call[r].op \in {"approve", "reject"}
  <2>1. seen[r] = "pending_approval"
    BY <1>2, <1>5, TargetTyping, DecisionsFollowSubmission
  <2> QED
    BY <1>5, <2>1, TargetTyping DEF FromStatus
<1>6. CASE call[r].op = "cancel"
  BY <1>3, <1>6, TargetTyping DEF FromStatus
<1> QED
  BY <1>1, <1>4, <1>5, <1>6

\* A request goes on to its next statement: it stays entitled, for neither its
\* call nor the order has changed.
LEMMA StatementRecorded ==
  ASSUME Inductive, Recorded, NEW r \in Request, AddStep(r) \/ Update(r) \/ Log(r)
  PROVE  Recorded'
<1>1. /\ pc[r] \in {"checked", "stepped", "updated"} /\ resp[r] = "none"
      /\ call[r] \in Call /\ call[r].op # "create"
      /\ WritesFit(r) /\ DeciderIsEntitled(r) /\ Accepted(r)
      /\ tx[r] \in Writes
  BY DEF AddStep, Update, Log, Recorded, Inductive, StageFitsCall, TypeOK, Accepted
<1>2. /\ \A q \in Request : q # r => pc'[q] = pc[q] /\ tx'[q] = tx[q]
      /\ pc'[r] \in {"stepped", "updated", "ready"}
      /\ UNCHANGED <<order, steps, audit, past, resp, call, seen>>
  BY DEF AddStep, Update, Log, Inductive, TypeOK, db, history
<1>3. DeciderIsEntitled(r)'
  BY <1>1, <1>2 DEF DeciderIsEntitled, Decides, Entitled
<1>4. WritesFit(r)'
  <2>1. CASE AddStep(r)
    <3>1. /\ tx'[r].steps = {StepFor(r)} /\ tx'[r].audit = tx[r].audit
          /\ Decides(r) /\ pc'[r] = "stepped" /\ pc[r] = "checked"
      BY <1>1, <2>1 DEF AddStep, StepFor, Inductive, TypeOK, Writes
    <3> QED
      BY <1>1, <1>2, <3>1 DEF WritesFit, StepFor, Decides, AuditFits
  <2>2. CASE Update(r)
    <3>1. /\ tx'[r].steps = tx[r].steps /\ tx'[r].audit = tx[r].audit
          /\ (pc[r] = "checked" /\ ~Decides(r)) \/ pc[r] = "stepped"
          /\ pc'[r] = IF call[r].router = "approvals" THEN "updated" ELSE "ready"
      BY <1>1, <2>2 DEF Update, Inductive, TypeOK, Writes
    <3>2. pc[r] = "stepped" => Decides(r)
      BY <1>1 DEF Inductive, StageFitsCall
    <3> QED
      BY <1>1, <1>2, <3>1, <3>2 DEF WritesFit, StepFor, Decides, AuditFits
  <2>3. CASE Log(r)
    <3> DEFINE entry == [request |-> r, order |-> call[r].order, user |-> call[r].user,
                         old |-> FromStatus(r), new |-> Target[call[r].op]]
    <3>1. /\ tx'[r].steps = tx[r].steps /\ tx'[r].audit = {entry}
          /\ pc[r] = "updated" /\ pc'[r] = "ready"
      BY <1>1, <2>3 DEF Log, Inductive, TypeOK, Writes
    <3>2. call[r].router = "approvals"
      BY <3>1, <1>1 DEF Inductive, StageFitsCall
    <3>3. Decides(r) => FromStatus(r) = "pending_approval"
      BY DEF Decides, FromStatus
    <3>4. AuditFits(entry, r)
      BY <1>1, <3>1, <3>3, ReportedStatus DEF AuditFits
    <3> HIDE DEF entry
    <3>5. StepFor(r)' = StepFor(r) /\ (Decides(r)' <=> Decides(r))
            /\ \A a : AuditFits(a, r)' <=> AuditFits(a, r)
      BY <1>2 DEF StepFor, Decides, AuditFits
    <3>6. tx[r].steps = IF Decides(r) THEN {StepFor(r)} ELSE {}
      BY <1>1, <3>1 DEF WritesFit
    <3> QED
      BY <1>1, <1>2, <3>1, <3>2, <3>4, <3>5, <3>6 DEF WritesFit
  <2> QED
    BY <2>1, <2>2, <2>3
<1> QED
  BY <1>1, <1>2, <1>3, <1>4, RecordsStay

\* A rollback leaves nothing of its request.
LEMMA RollbackRecorded ==
  ASSUME Inductive, Recorded, NEW r \in Request, NEW answer \in {"500", "lost"},
         pc[r] # "done", Rollback(r, answer)
  PROVE  Recorded'
<1>1. /\ \A q \in Request : q # r =>
           pc'[q] = pc[q] /\ tx'[q] = tx[q] /\ resp'[q] = resp[q]
      /\ pc'[r] = "done" /\ tx'[r] = NoWrites /\ resp'[r] = answer
      /\ UNCHANGED <<order, steps, audit, past, call, seen>>
  BY DEF Rollback, Inductive, TypeOK, db, history
<1>2. WritesFit(r)' /\ DeciderIsEntitled(r)'
  BY <1>1 DEF WritesFit, DeciderIsEntitled, Accepted, NoWrites
<1> QED
  BY <1>1, <1>2, RecordsStay

\* A commit keeps the owner and the total of every order, and the past.
LEMMA OwnersStay ==
  ASSUME Inductive, NEW r \in Request, pc[r] = "ready", Persist(r), NEW o \in Order
  PROVE  /\ past[o] \subseteq past'[o]
         /\ order[o] # None =>
              /\ order'[o] # None
              /\ order'[o].requester = order[o].requester
              /\ order'[o].total = order[o].total
<1>1. CASE o # call[r].order
  BY <1>1, PersistedRow
<1>2. CASE o = call[r].order /\ call[r].op = "create"
  BY <1>2, PersistedRow
<1>3. CASE o = call[r].order /\ call[r].op # "create"
  <2>1. /\ call[r] \in Call /\ order[o] \in OrderRow
        /\ order'[o] = Updated(call[r], order[o])
        /\ past'[o] = past[o] \cup {tx[r].order.status}
    BY <1>3, PersistedRow
  <2>2. Updated(call[r], order[o]) \in OrderRow
        /\ Updated(call[r], order[o]).requester = order[o].requester
        /\ Updated(call[r], order[o]).total = order[o].total
    BY <1>3, <2>1, UpdatedRow
  <2> QED
    BY <2>1, <2>2, NoneIsNothing
<1> QED
  BY <1>1, <1>2, <1>3

\* A commit writes the rows that the request has flushed, all at once, and an
\* answer of success follows nothing else.
LEMMA PersistRecorded ==
  ASSUME Inductive, Recorded, NEW r \in Request, pc[r] = "ready", Persist(r),
         \A q \in Request : q # r => resp'[q] = resp[q],
         resp'[r] \in {"200", "201", "500", "lost"},
         resp'[r] = "200" => call[r].op # "create",
         resp'[r] = "201" => call[r].op = "create"
  PROVE  Recorded'
<1> DEFINE o == call[r].order
<1>1. /\ \A q \in Request : q # r => pc'[q] = pc[q] /\ tx'[q] = tx[q]
      /\ pc'[r] = "done" /\ tx'[r] = NoWrites
      /\ steps' = steps \cup tx[r].steps /\ audit' = audit \cup tx[r].audit
      /\ UNCHANGED <<call, seen>>
  BY DEF Persist, Inductive, TypeOK
<1>2. /\ call[r] \in Call /\ o \in Order
      /\ WritesFit(r) /\ DeciderIsEntitled(r)
      /\ call[r].op = "create" => call[r].router = "purchase_orders"
  BY PersistedRow, CreatesComeFromOrders DEF Recorded
<1>3. /\ tx[r].steps = IF Decides(r) THEN {StepFor(r)} ELSE {}
      /\ \A a \in tx[r].audit : AuditFits(a, r)
      /\ tx[r].audit # {} <=> call[r].router = "approvals"
      /\ Decides(r) => tx[r].audit # {} /\ call[r].op # "create"
  BY <1>2 DEF WritesFit, Decides
<1>4. \A s \in steps : s.request \in Request /\ s.request # r /\ s.order \in Order
  BY DEF Recorded, RowsAreRecords, Inductive, TypeOK, StepRow
<1>5. \A a \in audit : a.request \in Request /\ a.request # r /\ a.order \in Order
  BY DEF Recorded, RowsAreRecords, Inductive, TypeOK, AuditRow
<1>6. call[r].op # "create" =>
        Target[call[r].op] \in past'[o] /\ Accepted(r) /\ order[o] # None
  BY PersistedRow, CommitMovesFromThePast
<1>7. \A q \in Request : StepFor(q)' = StepFor(q) /\ (Decides(q)' <=> Decides(q))
        /\ \A a : AuditFits(a, q)' <=> AuditFits(a, q)
  BY <1>1 DEF StepFor, Decides, AuditFits
<1>8. \A q \in Request : pc'[q] # "done" => resp'[q] = "none"
  BY <1>1 DEF Recorded
<1>9. \A u \in User, t \in POStatus, p \in Order :
        Entitled(u, t, order[p]) => Entitled(u, t, order'[p])
  BY OwnersStay DEF Entitled
<1>10. \A q \in Request : WritesFit(q)' /\ DeciderIsEntitled(q)'
  <2>1. WritesFit(r)' /\ DeciderIsEntitled(r)'
    BY <1>1 DEF WritesFit, DeciderIsEntitled, Accepted, NoWrites
  <2> SUFFICES ASSUME NEW q \in Request, q # r
               PROVE  WritesFit(q)' /\ DeciderIsEntitled(q)'
    BY <2>1
  <2>2. WritesFit(q) /\ DeciderIsEntitled(q)
    BY DEF Recorded
  <2>3. WritesFit(q)'
    BY <2>2, <1>1, <1>7 DEF WritesFit
  <2>4. DeciderIsEntitled(q)'
    <3> SUFFICES ASSUME Accepted(q), Decides(q)
                 PROVE  Entitled(call[q].user, Target[call[q].op], order'[call[q].order])
      BY <1>1, <1>7 DEF DeciderIsEntitled, Accepted, Entitled
    <3>1. Entitled(call[q].user, Target[call[q].op], order[call[q].order])
      BY <2>2 DEF DeciderIsEntitled
    <3>2. call[q] \in Call
      BY DEF Accepted, Inductive, StageFitsCall
    <3>3. call[q].user \in User /\ call[q].order \in Order /\ Target[call[q].op] \in POStatus
      BY <3>2, CallTyping, TargetTyping DEF Accepted
    <3> QED
      BY <3>1, <3>3, <1>9
  <2> QED
    BY <2>3, <2>4
<1>11. RowsAreRecords'
  <2>1. ASSUME NEW s \in steps'
        PROVE  /\ pc'[s.request] = "done" /\ resp'[s.request] \in {"200", "500", "lost"}
               /\ Decides(s.request)' /\ s = StepFor(s.request)'
               /\ \E a \in audit' : a.request = s.request
    <3>1. CASE s \in steps
      BY <3>1, <1>1, <1>4, <1>7 DEF Recorded, RowsAreRecords
    <3>2. CASE s \notin steps
      <4>1. s = StepFor(r) /\ Decides(r) /\ s.request = r
        BY <3>2, <1>1, <1>3 DEF StepFor
      <4>2. \E a \in tx[r].audit : a.request = r
        BY <4>1, <1>3 DEF AuditFits
      <4>3. resp'[r] \in {"200", "500", "lost"}
        BY <4>1, <1>3
      <4> QED
        BY <4>1, <4>2, <4>3, <1>1, <1>7
    <3> QED
      BY <3>1, <3>2
  <2>2. ASSUME NEW a \in audit'
        PROVE  /\ pc'[a.request] = "done" /\ resp'[a.request] \in {"200", "500", "lost"}
               /\ call'[a.request].router = "approvals" /\ AuditFits(a, a.request)'
               /\ a.new \in past'[a.order]
               /\ Decides(a.request)' => StepFor(a.request)' \in steps'
    <3>1. CASE a \in audit
      BY <3>1, <1>1, <1>5, <1>7, OwnersStay DEF Recorded, RowsAreRecords
    <3>2. CASE a \notin audit
      <4>1. a \in tx[r].audit /\ AuditFits(a, r) /\ call[r].router = "approvals"
        BY <3>2, <1>1, <1>3
      <4>2. a.request = r /\ a.order = o /\ a.new = Target[call[r].op]
        BY <4>1 DEF AuditFits
      <4>3. call[r].op # "create"
        BY <4>1, <1>2
      <4>4. Decides(r) => StepFor(r) \in steps'
        BY <1>1, <1>3
      <4> QED
        BY <4>1, <4>2, <4>3, <4>4, <1>1, <1>6, <1>7
    <3> QED
      BY <3>1, <3>2
  <2> QED
    BY <2>1, <2>2 DEF RowsAreRecords
<1>12. AnswerMatchesDatabase'
  <2> SUFFICES ASSUME NEW q \in Request
               PROVE  /\ resp'[q] = "201" =>
                           /\ order'[call[q].order] # None
                           /\ order'[call[q].order].requester = call[q].user
                      /\ resp'[q] = "200" => Target[call[q].op] \in past'[call[q].order]
                      /\ resp'[q] = "200" /\ call[q].router = "approvals" =>
                           /\ \E a \in audit' : a.request = q
                           /\ Decides(q) => \E s \in steps' : s.request = q
                      /\ resp'[q] \in {"none", "403", "404", "422"} =>
                           /\ \A s \in steps' : s.request # q
                           /\ \A a \in audit' : a.request # q
    BY <1>1, <1>7 DEF AnswerMatchesDatabase, StepsOf, AuditOf
  <2>1. resp'[q] \in {"none", "403", "404", "422"} =>
          /\ \A s \in steps' : s.request # q
          /\ \A a \in audit' : a.request # q
    BY <1>11 DEF RowsAreRecords
  <2>2. CASE q = r
    <3>1. resp'[r] = "201" =>
            /\ order'[o] # None
            /\ order'[o].requester = call[r].user
      <4>1. call[r].op = "create" => tx[r].order.requester = call[r].user
        BY <1>2 DEF WritesFit
      <4> QED
        BY <4>1, PersistedRow, NoneIsNothing
    <3>2. call[r].router = "approvals" => \E a \in audit' : a.request = r
      BY <1>1, <1>3 DEF AuditFits
    <3>3. Decides(r) => \E s \in steps' : s.request = r
      <4>1. StepFor(r).request = r
        BY DEF StepFor
      <4>2. Decides(r) => StepFor(r) \in steps'
        BY <1>1, <1>3
      <4> QED
        BY <4>1, <4>2
    <3> QED
      BY <2>1, <2>2, <3>1, <3>2, <3>3, <1>6
  <2>3. CASE q # r
    <3>1. resp'[q] = resp[q]
      BY <2>3
    <3>2. resp[q] \in {"200", "201"} => call[q].order \in Order
      <4>1. resp[q] \in {"200", "201"} => pc[q] = "done"
        BY DEF Recorded
      <4> QED
        BY <4>1, CallTyping DEF Inductive, StageFitsCall
    <3>3. /\ resp[q] = "201" =>
               /\ order[call[q].order] # None
               /\ order[call[q].order].requester = call[q].user
          /\ resp[q] = "200" => Target[call[q].op] \in past[call[q].order]
          /\ resp[q] = "200" /\ call[q].router = "approvals" =>
               /\ \E a \in audit : a.request = q
               /\ Decides(q) => \E s \in steps : s.request = q
      BY DEF Recorded, AnswerMatchesDatabase, AuditOf, StepsOf
    <3> QED
      BY <2>1, <3>1, <3>2, <3>3, <1>1, OwnersStay
  <2> QED
    BY <2>2, <2>3
<1>13. DecisionsByEntitledUsers'
  <2> SUFFICES ASSUME NEW s \in steps'
               PROVE  Entitled(s.approver, s.status, order'[s.order])
    BY DEF DecisionsByEntitledUsers, Entitled
  <2>1. s.approver \in User /\ s.status \in POStatus /\ s.order \in Order
    <3>1. steps' \subseteq StepRow
      BY <1>1 DEF Inductive, TypeOK, Writes
    <3> QED
      BY <3>1 DEF StepRow, POStatus
  <2>2. CASE s \in steps
    BY <2>1, <2>2, <1>9 DEF Recorded, DecisionsByEntitledUsers
  <2>3. CASE s \notin steps
    <3>1. s = StepFor(r) /\ Decides(r)
      BY <2>3, <1>1, <1>3
    <3>2. s.approver = call[r].user /\ s.status = Target[call[r].op] /\ s.order = o
      BY <3>1 DEF StepFor
    <3>3. Entitled(call[r].user, Target[call[r].op], order[o])
      BY <3>1, <1>2, <1>3, <1>6 DEF DeciderIsEntitled
    <3> QED
      BY <2>1, <3>2, <3>3, <1>9
  <2> QED
    BY <2>2, <2>3
<1>14. DecisionAndAuditTogether'
  <2>1. /\ \A s \in steps' : s.request \in Request
        /\ \A a \in audit' : a.request \in Request
    BY <1>1, <1>3, <1>4, <1>5 DEF StepFor, AuditFits
  <2>2. ASSUME NEW s \in steps'
        PROVE  \E a \in audit' : /\ a.request = s.request
                                 /\ a.order = s.order
                                 /\ a.user = s.approver
                                 /\ a.new = s.status
                                 /\ a.old = "pending_approval"
    <3>1. PICK a \in audit' : a.request = s.request
      BY <1>11 DEF RowsAreRecords
    <3>2. Decides(s.request) /\ s = StepFor(s.request) /\ AuditFits(a, s.request)
      BY <2>1, <3>1, <1>7, <1>11 DEF RowsAreRecords
    <3>3. /\ s.order = call[s.request].order /\ s.approver = call[s.request].user
          /\ s.status = Target[call[s.request].op]
      BY <3>2 DEF StepFor
    <3> QED
      BY <3>1, <3>2, <3>3 DEF AuditFits
  <2>3. ASSUME NEW a \in audit', a.new \in {"approved", "rejected"}
        PROVE  \E s \in steps' : s.request = a.request
    <3> DEFINE q == a.request
    <3>1. /\ pc'[q] = "done" /\ call[q].router = "approvals" /\ AuditFits(a, q)
          /\ Decides(q) => StepFor(q) \in steps'
      BY <2>1, <1>1, <1>7, <1>11 DEF RowsAreRecords
    <3>2. pc[q] # "idle"
      BY <3>1, <1>1, <2>1
    <3>3. call[q] \in Call
      BY <3>2, <2>1 DEF Inductive, StageFitsCall
    <3>4. call[q].op # "create"
      BY <3>1, <3>3, CreatesComeFromOrders
    <3>5. call[q].op \in {"approve", "reject"}
      BY <2>3, <3>1, <3>3, <3>4, OnlyDecisionsDecide DEF AuditFits
    <3>6. StepFor(q) \in steps' /\ StepFor(q).request = q
      BY <3>1, <3>5 DEF Decides, StepFor
    <3> QED
      BY <3>6
  <2>4. \A a \in audit' :
          /\ a.new \in past'[a.order]
          /\ a.old = IF a.new = "cancelled" THEN "cancelled" ELSE seen'[a.request]
    BY <1>11 DEF RowsAreRecords, AuditFits
  <2> QED
    BY <2>2, <2>3, <2>4 DEF DecisionAndAuditTogether
<1> QED
  BY <1>8, <1>10, <1>11, <1>12, <1>13, <1>14 DEF Recorded

\* Every step keeps the records in order.
LEMMA NextRecorded == Inductive /\ Recorded /\ [Next]_vars => Recorded'
<1> SUFFICES ASSUME Inductive, Recorded, [Next]_vars PROVE Recorded'
  OBVIOUS
<1>1. ASSUME NEW r \in Request, Arrive(r) PROVE Recorded'
  BY <1>1, ArrivalRecorded
<1>2. ASSUME NEW r \in Request, AddStep(r) \/ Update(r) \/ Log(r) PROVE Recorded'
  BY <1>2, StatementRecorded
<1>3. ASSUME NEW r \in Request, LogTypeError(r) \/ Fault(r) PROVE Recorded'
  BY <1>3, RollbackRecorded DEF LogTypeError, Fault
<1>4. ASSUME NEW r \in Request, Commit(r) \/ CommitUnacknowledged(r) PROVE Recorded'
  <2>1. /\ pc[r] = "ready" /\ Persist(r)
        /\ \A q \in Request : q # r => resp'[q] = resp[q]
        /\ resp'[r] \in {"200", "201", "500", "lost"}
        /\ resp'[r] = "200" => call[r].op # "create"
        /\ resp'[r] = "201" => call[r].op = "create"
    BY <1>4 DEF Commit, CommitUnacknowledged, Inductive, TypeOK
  <2> QED
    BY <2>1, PersistRecorded
<1>5. CASE UNCHANGED vars
  <2>1. UNCHANGED <<order, steps, audit, past, pc, call, tx, resp, seen>>
    BY <1>5 DEF vars
  <2>2. (\A r \in Request : pc[r] # "done" => resp[r] = "none")'
    BY <2>1 DEF Recorded
  <2>3. (\A r \in Request : WritesFit(r) /\ DeciderIsEntitled(r))'
    BY <2>1 DEF Recorded, WritesFit, DeciderIsEntitled, Accepted, Decides, StepFor,
       AuditFits, Entitled
  <2>4. RowsAreRecords'
    BY <2>1 DEF Recorded, RowsAreRecords, Decides, StepFor, AuditFits
  <2>5. AnswerMatchesDatabase'
    BY <2>1 DEF Recorded, AnswerMatchesDatabase, StepsOf, AuditOf, Decides
  <2>6. DecisionAndAuditTogether' /\ DecisionsByEntitledUsers'
    BY <2>1 DEF Recorded, DecisionAndAuditTogether, DecisionsByEntitledUsers, Entitled
  <2> QED
    BY <2>2, <2>3, <2>4, <2>5, <2>6 DEF Recorded
<1> QED
  BY <1>1, <1>2, <1>3, <1>4, <1>5 DEF Next, Proceed, Finished

\* What the requests record is an invariant, on top of the first one.
THEOREM RecordsInvariant == Spec => []Recorded
BY InitRecorded, NextRecorded, InductiveInvariant, PTL DEF Spec

\* An answer tells the truth about the database, whatever overlaps or fails.
THEOREM AnswersTellTheTruth == Spec => []AnswerMatchesDatabase
<1>1. Recorded => AnswerMatchesDatabase
  BY DEF Recorded
<1> QED
  BY <1>1, RecordsInvariant, PTL

\* A decision and its audit row are there together, and agree.
THEOREM DecisionsAreAudited == Spec => []DecisionAndAuditTogether
<1>1. Recorded => DecisionAndAuditTogether
  BY DEF Recorded
<1> QED
  BY <1>1, RecordsInvariant, PTL

\* Nobody decides who is not entitled to, although the checks are made on an
\* instance that is older than the decision: owner and total never change.
THEOREM DecidersAreEntitled == Spec => []DecisionsByEntitledUsers
<1>1. Recorded => DecisionsByEntitledUsers
  BY DEF Recorded
<1> QED
  BY <1>1, RecordsInvariant, PTL

-----------------------------------------------------------------------------
(* What approval_steps says of an order.                                    *)

\* Of the statuses a decided order can have, routes lead from one only: an
\* approved order can be cancelled.
LEMMA AfterADecision ==
  ASSUME NEW s \in {"approved", "rejected", "cancelled"},
         NEW t \in VALID_TRANSITIONS[s] \cap RoutedStatus
  PROVE  s = "approved" /\ t = "cancelled"
BY DEF VALID_TRANSITIONS, POStatus, RoutedStatus, Target, TransitionOp

\* A commit keeps the story of every order that it does not overwrite blindly.
LEMMA PersistKeepsStory ==
  ASSUME Inductive, Recorded, StepsExplainStatus,
         NEW r \in Request, pc[r] = "ready", Persist(r)
  PROVE  StepsExplainStatus'
<1> DEFINE o == call[r].order
<1>1. /\ steps' = steps \cup tx[r].steps
      /\ blind \subseteq blind'
      /\ o \notin blind' /\ call[r].op # "create" => seen[r] = order[o].status
  BY DEF Persist
<1>2. tx[r].steps = IF Decides(r) THEN {StepFor(r)} ELSE {}
  BY DEF Recorded, WritesFit
<1>3. /\ StepFor(r).order = o
      /\ StepFor(r).status = Target[call[r].op]
      /\ Decides(r) => Target[call[r].op] \in {"approved", "rejected"} /\ call[r].op # "create"
  BY TargetTyping DEF StepFor, Decides
<1>4. \A s \in steps : /\ s.order \in Order
                       /\ s.status \in {"approved", "rejected"}
                       /\ order[s.order] # None
  BY DEF Recorded, DecisionsByEntitledUsers, Entitled, Inductive, TypeOK, StepRow
<1> SUFFICES ASSUME NEW s \in steps', s.order \notin blind'
             PROVE  /\ \A t \in steps' : t.order = s.order => t = s
                    /\ order'[s.order].status \in
                         IF s.status = "approved" THEN {"approved", "cancelled"}
                                                  ELSE {"rejected"}
  BY DEF StepsExplainStatus
<1>5. CASE s.order # o
  <2>1. s \in steps /\ \A t \in steps' : t.order = s.order => t \in steps
    BY <1>1, <1>2, <1>3, <1>5
  <2>2. order'[s.order] = order[s.order]
    BY <2>1, <1>4, <1>5, PersistedRow
  <2> QED
    BY <2>1, <2>2, <1>1 DEF StepsExplainStatus
<1>6. CASE s.order = o
  <2>1. call[r].op # "create"
    <3> SUFFICES ASSUME call[r].op = "create" PROVE FALSE
      OBVIOUS
    <3>1. s \in steps
      BY <1>1, <1>2, <1>3
    <3> QED
      BY <3>1, <1>4, <1>6, PersistedRow
  <2>2. /\ order'[o].status = Target[call[r].op]
        /\ Target[call[r].op] \in VALID_TRANSITIONS[order[o].status] \cap RoutedStatus
        /\ order[o].status \in POStatus
    <3>1. order[o] \in OrderRow
      BY <2>1, PersistedRow
    <3>2. order[o].status \in POStatus
      BY <3>1 DEF OrderRow
    <3> QED
      BY <2>1, <3>2, <1>1, <1>6, CommitMovesFromThePast
  <2>3. CASE Decides(r)
    <3>1. order[o].status = "pending_approval"
      BY <2>2, <2>3, <1>3, DecisionsFollowSubmission
    <3>2. \A t \in steps : t.order # o
      BY <3>1, <1>1, <1>6 DEF StepsExplainStatus
    <3>3. s = StepFor(r) /\ \A t \in steps' : t.order = o => t = StepFor(r)
      BY <3>2, <1>1, <1>2, <1>6
    <3> QED
      BY <3>3, <2>2, <2>3, <1>3, <1>6
  <2>4. CASE ~Decides(r)
    <3>1. steps' = steps
      BY <2>4, <1>1, <1>2
    <3>2. /\ \A t \in steps : t.order = o => t = s
          /\ order[o].status \in
               IF s.status = "approved" THEN {"approved", "cancelled"} ELSE {"rejected"}
      BY <3>1, <1>1, <1>6 DEF StepsExplainStatus
    <3>3. order[o].status = "approved" /\ Target[call[r].op] = "cancelled"
      BY <3>2, <2>2, AfterADecision
    <3> QED
      BY <3>1, <3>2, <3>3, <2>2, <1>6
  <2> QED
    BY <2>3, <2>4
<1> QED
  BY <1>5, <1>6

\* Until a request replaces a status it has not read, an order has one
\* decision step at most, hence one current step, and its status follows from
\* that step: what get_current_step takes for granted.
THEOREM StepsTellTheStory == Spec => []StepsExplainStatus
<1>1. Init => StepsExplainStatus
  BY DEF Init, StepsExplainStatus
<1>2. Inductive /\ Recorded /\ StepsExplainStatus /\ [Next]_vars => StepsExplainStatus'
  <2> SUFFICES ASSUME Inductive, Recorded, StepsExplainStatus, [Next]_vars
               PROVE  StepsExplainStatus'
    OBVIOUS
  <2>1. CASE UNCHANGED <<order, steps, past, blind>>
    BY <2>1 DEF StepsExplainStatus
  <2> QED
    BY <2>1, OnlyCommitsChangeRows, PersistKeepsStory
<1> QED
  BY <1>1, <1>2, InductiveInvariant, RecordsInvariant, PTL DEF Spec

=============================================================================
