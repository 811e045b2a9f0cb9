----------------------- MODULE VendorDirectory_proofs -----------------------
(***************************************************************************)
(* Proofs about VendorDirectory, for every set of vendors, codes, orders   *)
(* and requests.                                                           *)
(***************************************************************************)
EXTENDS VendorDirectory, TLAPS

-----------------------------------------------------------------------------
(* Facts about rows and calls.                                             *)

\* None stands for nothing a variable could otherwise hold.
LEMMA NoneIsNothing ==
  /\ None \notin VendorRow /\ None \notin OrderRow /\ None \notin Call
  /\ None \notin Request /\ None \notin Vendor /\ None # Cleanup
  /\ Cleanup \notin Request
BY VendorAssumption

\* The components of a call.
LEMMA CallTyping ==
  ASSUME NEW c \in Call
  PROVE  /\ c.op \in {"create", "update"}
         /\ c.vendor \in Vendor
         /\ c.op = "create" => c.code \in Code
         /\ c.op = "update" => c.status \in VendorStatus
BY VendorAssumption DEF Call

\* A row with another status keeps its code and its deletion.
LEMMA StatusUpdate ==
  ASSUME NEW row \in VendorRow, NEW s \in VendorStatus
  PROVE  LET new == [row EXCEPT !.status = s] IN
         new \in VendorRow /\ new.code = row.code /\ new.deletion = row.deletion
BY DEF VendorRow

\* A row with another deletion keeps its code.
LEMMA DeletionUpdate ==
  ASSUME NEW row \in VendorRow, NEW d \in Deletion
  PROVE  LET new == [row EXCEPT !.deletion = d] IN
         new \in VendorRow /\ new.code = row.code /\ new.deletion = d
BY DEF VendorRow

\* Setting one column of an order row gives an order row with the others kept.
LEMMA OrderUpdate ==
  ASSUME NEW row \in OrderRow
  PROVE  /\ \A d \in Deletion :
              LET new == [row EXCEPT !.deletion = d] IN
              new \in OrderRow /\ new.vendor = row.vendor /\ new.deletion = d
         /\ LET new == [row EXCEPT !.decided = TRUE] IN
            new \in OrderRow /\ new.vendor = row.vendor /\ new.deletion = row.deletion
BY DEF OrderRow

-----------------------------------------------------------------------------
(* Every step preserves the inductive invariant.                           *)

\* The invariant holds in the initial states.
LEMMA InitInductive == Init => Inductive
<1> SUFFICES ASSUME Init PROVE Inductive
  OBVIOUS
<1>1. TypeOK
  BY DEF Init, TypeOK, NothingDoomed
<1> QED
  BY <1>1
  DEF Init, Inductive, CodesAreUnique, NothingDangles, CreationsApart, CodeReserved, RowsLocked,
      DoomedTogether, NothingDoomed

\* A request that stops, or has only looked: no row, lock or key changes.
LEMMA FailPreserves ==
  ASSUME Inductive, NEW r \in Request, NEW answer \in {"404", "500"}, Fail(r, answer)
  PROVE  Inductive'
<1>1. TypeOK'
  BY DEF Inductive, TypeOK, Fail, cleanup
<1>2. /\ UNCHANGED <<vendor, order, lock, call, doomed>>
      /\ pc'[r] = "done"
      /\ \A q \in Request \ {r} : pc'[q] = pc[q]
  BY DEF Inductive, TypeOK, Fail, cleanup
<1>3. CodesAreUnique' /\ NothingDangles'
  BY <1>2 DEF Inductive, CodesAreUnique, NothingDangles
<1>4. CreationsApart' /\ RowsLocked'
  BY <1>2 DEF Inductive, CreationsApart, RowsLocked
<1>5. CodeReserved'
  BY <1>2 DEF Inductive, CodeReserved, Holds, InsertPending
<1>6. DoomedTogether'
  BY <1>2 DEF Inductive, DoomedTogether, Purgeable
<1> QED
  BY <1>1, <1>3, <1>4, <1>5, <1>6 DEF Inductive

\* The SELECT of a request.
LEMMA LookPreserves ==
  ASSUME Inductive, NEW r \in Request, NEW c \in Call, Look(r, c)
  PROVE  Inductive'
<1>1. /\ c.op \in {"create", "update"} /\ c.vendor \in Vendor /\ c # None
  BY CallTyping, NoneIsNothing
<1>2. TypeOK'
  BY DEF Inductive, TypeOK, Look, cleanup
<1>3. /\ UNCHANGED <<vendor, order, lock, doomed>>
      /\ pc'[r] \in {"done", "looked"}
      /\ call'[r] = c
      /\ \A q \in Request \ {r} : pc'[q] = pc[q] /\ call'[q] = call[q]
  BY DEF Inductive, TypeOK, Look, cleanup
<1>4. c.op = "create" =>
        /\ vendor[c.vendor] = None
        /\ \A q \in Request : call[q] # None => call[q].op # "create" \/ call[q].vendor # c.vendor
  BY DEF Look, Fresh
<1>5. CodesAreUnique' /\ NothingDangles'
  BY <1>3 DEF Inductive, CodesAreUnique, NothingDangles
<1>6. CreationsApart'
  BY <1>3, <1>4 DEF Inductive, CreationsApart
<1>7. RowsLocked'
  BY <1>3 DEF Inductive, RowsLocked
<1>8. CodeReserved'
  BY <1>3 DEF Inductive, CodeReserved, Holds, InsertPending
<1>9. DoomedTogether'
  BY <1>3 DEF Inductive, DoomedTogether, Purgeable
<1> QED
  BY <1>2, <1>5, <1>6, <1>7, <1>8, <1>9 DEF Inductive

\* An INSERT that is not refused reserves its code.
LEMMA InsertPreserves ==
  ASSUME Inductive, NEW r \in Request, Insert(r)
  PROVE  Inductive'
<1>1. CASE \E v \in Vendor : Holds(v, call[r].code)
  BY <1>1, FailPreserves DEF Insert
<1>2. CASE \A v \in Vendor : ~Holds(v, call[r].code)
  <2>1. /\ call[r].op = "create" /\ pc[r] = "looked"
        /\ ~InsertPending(r, call[r].code)
        /\ pc' = [pc EXCEPT ![r] = "ready"]
        /\ UNCHANGED <<vendor, order, lock, call, resp, task, doomed>>
    BY <1>2 DEF Insert, cleanup
  <2>2. TypeOK'
    BY <2>1 DEF Inductive, TypeOK
  <2>3. pc'[r] = "ready" /\ \A q \in Request \ {r} : pc'[q] = pc[q]
    BY <2>1 DEF Inductive, TypeOK
  <2>4. CodesAreUnique' /\ NothingDangles' /\ RowsLocked'
    BY <2>1, <2>3 DEF Inductive, CodesAreUnique, NothingDangles, RowsLocked
  <2>5. CreationsApart'
    BY <2>1, <2>3 DEF Inductive, CreationsApart
  <2>6. CodeReserved'
    BY <1>2, <2>1, <2>3 DEF Inductive, CodeReserved, Holds, InsertPending
  <2>7. DoomedTogether'
    BY <2>1 DEF Inductive, DoomedTogether, Purgeable
  <2> QED
    BY <2>2, <2>4, <2>5, <2>6, <2>7 DEF Inductive
<1> QED
  BY <1>1, <1>2

\* An UPDATE takes the lock of a row that is there.
LEMMA UpdatePreserves ==
  ASSUME Inductive, NEW r \in Request, Update(r)
  PROVE  Inductive'
<1>1. CASE vendor[call[r].vendor] = None
  BY <1>1, FailPreserves DEF Update
<1>2. CASE vendor[call[r].vendor] # None
  <2>1. /\ call[r].op = "update" /\ pc[r] = "looked"
        /\ lock[call[r].vendor] = None
        /\ pc' = [pc EXCEPT ![r] = "ready"]
        /\ lock' = [lock EXCEPT ![call[r].vendor] = r]
        /\ UNCHANGED <<vendor, order, call, resp, task, doomed>>
    BY <1>2 DEF Update, cleanup
  <2>2. call[r] \in Call /\ call[r].vendor \in Vendor
    BY <2>1, CallTyping DEF Inductive, CreationsApart
  <2>3. TypeOK'
    BY <2>1 DEF Inductive, TypeOK
  <2>4. /\ pc'[r] = "ready" /\ \A q \in Request \ {r} : pc'[q] = pc[q]
        /\ lock'[call[r].vendor] = r
        /\ \A v \in Vendor \ {call[r].vendor} : lock'[v] = lock[v]
    BY <2>1, <2>2 DEF Inductive, TypeOK
  <2>5. CodesAreUnique' /\ NothingDangles'
    BY <1>2, <2>1, <2>4 DEF Inductive, CodesAreUnique, NothingDangles
  <2>6. CreationsApart'
    BY <2>1, <2>4 DEF Inductive, CreationsApart
  <2>7. CodeReserved'
    BY <2>1, <2>4 DEF Inductive, CodeReserved, Holds, InsertPending
  <2>8. RowsLocked'
    <3>1. \A q \in Request \ {r} : pc[q] = "ready" /\ call[q].op = "update" =>
            call[q].vendor # call[r].vendor /\ call[q].vendor \in Vendor
      BY <2>1, CallTyping, NoneIsNothing DEF Inductive, RowsLocked, CreationsApart
    <3>2. call[r].vendor \notin doomed.vendors /\ doomed.vendors \subseteq Vendor
      BY <2>1, NoneIsNothing DEF Inductive, RowsLocked, TypeOK
    <3> QED
      BY <2>1, <2>4, <3>1, <3>2 DEF Inductive, RowsLocked
  <2>9. DoomedTogether'
    BY <2>1 DEF Inductive, DoomedTogether, Purgeable
  <2> QED
    BY <2>3, <2>5, <2>6, <2>7, <2>8, <2>9 DEF Inductive
<1> QED
  BY <1>1, <1>2

\* The COMMIT of a create adds a row with a code that was reserved; that of
\* an update keeps the code of its row.
LEMMA CommitPreserves ==
  ASSUME Inductive, NEW r \in Request, Commit(r)
  PROVE  Inductive'
<1> DEFINE v0 == call[r].vendor
           row == Written(call[r])
<1>1. /\ pc[r] = "ready"
      /\ vendor' = [vendor EXCEPT ![v0] = row]
      /\ lock' = [v \in Vendor |-> IF lock[v] = r THEN None ELSE lock[v]]
      /\ pc' = [pc EXCEPT ![r] = "done"]
      /\ resp' = [resp EXCEPT ![r] = IF call[r].op = "create" THEN "201" ELSE "200"]
      /\ UNCHANGED <<order, call, task, doomed>>
  BY DEF Commit, Unlocked, cleanup
<1>2. call[r] \in Call /\ v0 \in Vendor /\ call[r].op \in {"create", "update"}
  BY <1>1, CallTyping DEF Inductive, CreationsApart
<1>3. TypeOK
  BY DEF Inductive
<1>4. CASE call[r].op = "create"
  <2>1. /\ row \in VendorRow /\ row.code = call[r].code /\ row # None
    <3>1. row = [code |-> call[r].code, status |-> "pending_review", deletion |-> "live"]
      BY <1>4 DEF Written
    <3>2. call[r].code \in Code
      BY <1>2, <1>4, CallTyping
    <3>3. row \in VendorRow /\ row.code = call[r].code
      BY <3>1, <3>2 DEF VendorRow, VendorStatus, Deletion
    <3> QED
      BY <3>3, NoneIsNothing
  <2>2. /\ vendor[v0] = None
        /\ \A v \in Vendor : ~Holds(v, call[r].code)
        /\ ~InsertPending(r, call[r].code)
    BY <1>1, <1>4 DEF Inductive, CreationsApart, CodeReserved
  <2>3. /\ vendor'[v0] = row /\ \A v \in Vendor \ {v0} : vendor'[v] = vendor[v]
        /\ pc'[r] = "done" /\ \A q \in Request \ {r} : pc'[q] = pc[q]
        /\ \A v \in Vendor : lock[v] # r => lock'[v] = lock[v]
        /\ UNCHANGED <<order, call, doomed>>
    BY <1>1, <1>2, <1>3 DEF TypeOK
  <2> HIDE DEF row, v0
  <2>4. TypeOK'
    <3>1. vendor' \in [Vendor -> VendorRow \cup {None}]
      BY <1>1, <1>3, <2>1 DEF TypeOK
    <3>2. lock' \in [Vendor -> Request \cup {Cleanup, None}]
      BY <1>1, <1>3 DEF TypeOK
    <3>3. /\ pc' \in [Request -> {"idle", "looked", "ready", "done"}]
          /\ resp' \in [Request -> {"none", "200", "201", "404", "409", "500", "lost"}]
      BY <1>1, <1>3 DEF TypeOK
    <3> QED
      BY <1>1, <1>3, <3>1, <3>2, <3>3 DEF TypeOK
  <2>5. CodesAreUnique'
    <3>1. \A v \in Vendor : vendor[v] # None => vendor[v].code # row.code
      BY <2>1, <2>2 DEF Holds
    <3> QED
      BY <2>2, <2>3, <3>1 DEF Inductive, CodesAreUnique
  <2>6. NothingDangles'
    <3>1. \A v \in Vendor : vendor[v] # None => vendor'[v] # None
      BY <2>1, <2>2, <2>3
    <3>2. \A o \in Order : order[o] # None => order[o].vendor \in Vendor \cup {None}
      BY <1>3 DEF TypeOK, OrderRow
    <3>3. \A q \in Request : pc[q] = "ready" => call[q].vendor \in Vendor
      BY CallTyping DEF Inductive, CreationsApart
    <3> QED
      BY <2>3, <3>1, <3>2, <3>3 DEF Inductive, NothingDangles
  <2>7. CreationsApart'
    <3>1. \A q \in Request \ {r} :
            pc[q] \in {"looked", "ready"} /\ call[q].op = "create" =>
              call[q].vendor # v0 /\ call[q].vendor \in Vendor
      BY <1>2, <1>4, CallTyping, NoneIsNothing DEF Inductive, CreationsApart, v0
    <3> QED
      BY <2>3, <3>1 DEF Inductive, CreationsApart
  <2>8. CodeReserved'
    <3>1. \A q \in Request \ {r} :
            pc[q] = "ready" /\ call[q].op = "create" => call[q].code # row.code
      BY <2>1, <2>2 DEF InsertPending
    <3>2. \A q \in Request \ {r} : pc[q] = "ready" /\ call[q].op = "create" =>
            /\ \A v \in Vendor : ~(vendor'[v] # None /\ vendor'[v].code = call[q].code)
            /\ ~\E p \in Request \ {q} :
                  pc'[p] = "ready" /\ call[p].op = "create" /\ call[p].code = call[q].code
      BY <2>3, <3>1 DEF Inductive, CodeReserved, Holds, InsertPending
    <3> QED
      BY <2>3, <3>2 DEF CodeReserved, Holds, InsertPending
  <2>9. RowsLocked'
    <3>1. \A q \in Request \ {r} :
            pc[q] = "ready" /\ call[q].op = "update" =>
              call[q].vendor \in Vendor /\ lock[call[q].vendor] = q
      BY CallTyping DEF Inductive, CreationsApart, RowsLocked
    <3>2. \A v \in doomed.vendors : v \in Vendor /\ lock[v] # r
      BY <1>3, NoneIsNothing DEF Inductive, RowsLocked, TypeOK
    <3> QED
      BY <2>3, <3>1, <3>2 DEF Inductive, RowsLocked
  <2>10. DoomedTogether'
    <3>1. \A v \in doomed.vendors : v # v0 /\ v \in Vendor
      BY <1>3, <2>2 DEF Inductive, DoomedTogether, Purgeable, TypeOK
    <3> QED
      BY <2>3, <3>1 DEF Inductive, DoomedTogether, Purgeable
  <2> QED
    BY <2>4, <2>5, <2>6, <2>7, <2>8, <2>9, <2>10 DEF Inductive
<1>5. CASE call[r].op = "update"
  <2>1. vendor[v0] # None /\ vendor[v0] \in VendorRow /\ lock[v0] = r
    BY <1>1, <1>2, <1>3, <1>5 DEF Inductive, NothingDangles, RowsLocked, TypeOK
  <2>2. /\ row \in VendorRow /\ row # None
        /\ row.code = vendor[v0].code /\ row.deletion = vendor[v0].deletion
    <3>1. row = [vendor[v0] EXCEPT !.status = call[r].status]
      BY <1>5 DEF Written
    <3>2. call[r].status \in VendorStatus
      BY <1>2, <1>5, CallTyping
    <3> QED
      BY <2>1, <3>1, <3>2, StatusUpdate, NoneIsNothing
  <2>3. /\ vendor'[v0] = row /\ \A v \in Vendor \ {v0} : vendor'[v] = vendor[v]
        /\ pc'[r] = "done" /\ \A q \in Request \ {r} : pc'[q] = pc[q]
        /\ \A v \in Vendor : lock[v] # r => lock'[v] = lock[v]
        /\ UNCHANGED <<order, call, doomed>>
    BY <1>1, <1>2, <1>3 DEF TypeOK
  <2> HIDE DEF row, v0
  <2>4. /\ \A v \in Vendor : vendor'[v] = None <=> vendor[v] = None
        /\ \A v \in Vendor : vendor[v] # None =>
             vendor'[v].code = vendor[v].code /\ vendor'[v].deletion = vendor[v].deletion
    BY <2>1, <2>2, <2>3
  <2>5. TypeOK'
    <3>1. vendor' \in [Vendor -> VendorRow \cup {None}]
      BY <1>1, <1>3, <2>2 DEF TypeOK
    <3>2. lock' \in [Vendor -> Request \cup {Cleanup, None}]
      BY <1>1, <1>3 DEF TypeOK
    <3>3. /\ pc' \in [Request -> {"idle", "looked", "ready", "done"}]
          /\ resp' \in [Request -> {"none", "200", "201", "404", "409", "500", "lost"}]
      BY <1>1, <1>3 DEF TypeOK
    <3> QED
      BY <1>1, <1>3, <3>1, <3>2, <3>3 DEF TypeOK
  <2>6. CodesAreUnique'
    BY <2>4 DEF Inductive, CodesAreUnique
  <2>7. NothingDangles'
    <3>1. \A o \in Order : order[o] # None => order[o].vendor \in Vendor \cup {None}
      BY <1>3 DEF TypeOK, OrderRow
    <3>2. \A q \in Request : pc[q] = "ready" => call[q].vendor \in Vendor
      BY CallTyping DEF Inductive, CreationsApart
    <3> QED
      BY <2>3, <2>4, <3>1, <3>2 DEF Inductive, NothingDangles
  <2>8. CreationsApart'
    <3>1. \A q \in Request : pc[q] \in {"looked", "ready"} => call[q].vendor \in Vendor
      BY CallTyping DEF Inductive, CreationsApart
    <3> QED
      BY <2>3, <2>4, <3>1 DEF Inductive, CreationsApart
  <2>9. CodeReserved'
    BY <2>3, <2>4 DEF Inductive, CodeReserved, Holds, InsertPending
  <2>10. RowsLocked'
    <3>1. \A q \in Request \ {r} :
            pc[q] = "ready" /\ call[q].op = "update" =>
              call[q].vendor \in Vendor /\ lock[call[q].vendor] = q
      BY CallTyping DEF Inductive, CreationsApart, RowsLocked
    <3>2. \A v \in doomed.vendors : v \in Vendor /\ lock[v] # r
      BY <1>3, NoneIsNothing DEF Inductive, RowsLocked, TypeOK
    <3> QED
      BY <2>3, <3>1, <3>2 DEF Inductive, RowsLocked
  <2>11. DoomedTogether'
    <3>1. doomed.vendors \subseteq Vendor
      BY <1>3 DEF TypeOK
    <3> QED
      BY <2>3, <2>4, <3>1 DEF Inductive, DoomedTogether, Purgeable
  <2> QED
    BY <2>5, <2>6, <2>7, <2>8, <2>9, <2>10, <2>11 DEF Inductive
<1> QED
  BY <1>2, <1>4, <1>5

\* A request that dies gives its locks back and leaves the rows alone.
LEMMA FaultPreserves ==
  ASSUME Inductive, NEW r \in Request, Fault(r)
  PROVE  Inductive'
<1>1. /\ lock' = [v \in Vendor |-> IF lock[v] = r THEN None ELSE lock[v]]
      /\ pc' = [pc EXCEPT ![r] = "done"]
      /\ \E answer \in {"500", "lost"} : resp' = [resp EXCEPT ![r] = answer]
      /\ UNCHANGED <<vendor, order, call, task, doomed>>
  BY DEF Fault, Unlocked, cleanup
<1>2. TypeOK'
  BY <1>1 DEF Inductive, TypeOK
<1>3. pc'[r] = "done" /\ \A q \in Request \ {r} : pc'[q] = pc[q]
  BY <1>1 DEF Inductive, TypeOK
<1>4. CodesAreUnique' /\ NothingDangles' /\ CreationsApart'
  BY <1>1, <1>3 DEF Inductive, CodesAreUnique, NothingDangles, CreationsApart
<1>5. CodeReserved'
  BY <1>1, <1>3 DEF Inductive, CodeReserved, Holds, InsertPending
<1>6. RowsLocked'
  <2>1. \A q \in Request : pc[q] = "ready" => call[q].vendor \in Vendor
    BY CallTyping DEF Inductive, CreationsApart
  <2>2. \A v \in doomed.vendors : v \in Vendor /\ lock[v] # r
    BY NoneIsNothing DEF Inductive, RowsLocked, TypeOK
  <2> QED
    BY <1>1, <1>3, <2>1, <2>2 DEF Inductive, RowsLocked
<1>7. DoomedTogether'
  BY <1>1 DEF Inductive, DoomedTogether, Purgeable
<1> QED
  BY <1>2, <1>4, <1>5, <1>6, <1>7 DEF Inductive

\* What happens to an order outside this module: it appears, with a vendor
\* that is there and stays, or its other columns change and what was old
\* stays old.
LEMMA OrderChangePreserves ==
  ASSUME Inductive, NEW o \in Order, NEW row \in OrderRow,
         order' = [order EXCEPT ![o] = row],
         UNCHANGED <<vendor, lock, requests, cleanup>>,
         \/ /\ order[o] = None
            /\ row.vendor # None => vendor[row.vendor] # None /\ row.vendor \notin doomed.vendors
         \/ /\ order[o] # None /\ row.vendor = order[o].vendor
            /\ order[o].deletion = "old" => row.deletion = "old"
  PROVE  Inductive'
<1>1. /\ order'[o] = row /\ \A p \in Order \ {o} : order'[p] = order[p]
      /\ row # None
      /\ UNCHANGED <<vendor, lock, pc, call, resp, task, doomed>>
  BY NoneIsNothing DEF Inductive, TypeOK, requests, cleanup
<1>2. TypeOK'
  BY <1>1 DEF Inductive, TypeOK
<1>3. CodesAreUnique' /\ CreationsApart' /\ RowsLocked'
  BY <1>1 DEF Inductive, CodesAreUnique, CreationsApart, RowsLocked
<1>4. CodeReserved'
  BY <1>1 DEF Inductive, CodeReserved, Holds, InsertPending
<1>5. NothingDangles'
  BY <1>1 DEF Inductive, NothingDangles
<1>6. DoomedTogether'
  <2>1. doomed.orders \subseteq Order /\ doomed.vendors \subseteq Vendor /\ None \notin doomed.vendors
    BY NoneIsNothing DEF Inductive, TypeOK
  <2>2. \A p \in doomed.orders : order'[p] # None /\ order'[p].deletion = "old"
    BY <1>1, <2>1 DEF Inductive, DoomedTogether, Purgeable
  <2>3. \A p \in Order : order'[p] # None /\ order'[p].vendor \in doomed.vendors => p \in doomed.orders
    BY <1>1, <2>1 DEF Inductive, DoomedTogether
  <2> QED
    BY <1>1, <2>2, <2>3 DEF Inductive, DoomedTogether, Purgeable
<1> QED
  BY <1>2, <1>3, <1>4, <1>5, <1>6 DEF Inductive

\* A vendor that is soft-deleted, or whose deletion becomes old, keeps its
\* code, and what the task has deleted stays old.
LEMMA VendorDeletionPreserves ==
  ASSUME Inductive, NEW v \in Vendor, NEW d \in Deletion,
         vendor[v] # None, vendor[v].deletion # "old",
         vendor' = [vendor EXCEPT ![v].deletion = d],
         UNCHANGED <<order, lock, requests, cleanup>>
  PROVE  Inductive'
<1> DEFINE row == [vendor[v] EXCEPT !.deletion = d]
<1>1. vendor[v] \in VendorRow
  BY DEF Inductive, TypeOK
<1>2. row \in VendorRow /\ row.code = vendor[v].code /\ row # None
  BY <1>1, DeletionUpdate, NoneIsNothing
<1>3. /\ vendor' = [vendor EXCEPT ![v] = row]
      /\ vendor'[v] = row /\ \A w \in Vendor \ {v} : vendor'[w] = vendor[w]
      /\ UNCHANGED <<order, lock, pc, call, resp, task, doomed>>
  BY DEF Inductive, TypeOK, requests, cleanup
<1> HIDE DEF row
<1>4. /\ \A w \in Vendor : vendor'[w] = None <=> vendor[w] = None
      /\ \A w \in Vendor : vendor[w] # None => vendor'[w].code = vendor[w].code
  BY <1>2, <1>3
<1>5. TypeOK'
  BY <1>2, <1>3 DEF Inductive, TypeOK
<1>6. CodesAreUnique' /\ RowsLocked'
  BY <1>3, <1>4 DEF Inductive, CodesAreUnique, RowsLocked
<1>7. NothingDangles'
  <2>1. \A o \in Order : order[o] # None => order[o].vendor \in Vendor \cup {None}
    BY DEF Inductive, TypeOK, OrderRow
  <2>2. \A q \in Request : pc[q] = "ready" => call[q].vendor \in Vendor
    BY CallTyping DEF Inductive, CreationsApart
  <2> QED
    BY <1>3, <1>4, <2>1, <2>2 DEF Inductive, NothingDangles
<1>8. CreationsApart'
  <2>1. \A q \in Request : pc[q] \in {"looked", "ready"} => call[q].vendor \in Vendor
    BY CallTyping DEF Inductive, CreationsApart
  <2> QED
    BY <1>3, <1>4, <2>1 DEF Inductive, CreationsApart
<1>9. CodeReserved'
  BY <1>3, <1>4 DEF Inductive, CodeReserved, Holds, InsertPending
<1>10. DoomedTogether'
  <2>1. v \notin doomed.vendors /\ doomed.vendors \subseteq Vendor
    BY DEF Inductive, DoomedTogether, Purgeable, TypeOK
  <2> QED
    BY <1>3, <2>1 DEF Inductive, DoomedTogether, Purgeable
<1> QED
  BY <1>5, <1>6, <1>7, <1>8, <1>9, <1>10 DEF Inductive

\* The actions of other modules and of time.
LEMMA OutsidePreserves ==
  ASSUME Inductive, Outside
  PROVE  Inductive'
<1>0. \A o \in Order : order[o] # None => order[o] \in OrderRow
  BY DEF Inductive, TypeOK
<1>1. ASSUME NEW o \in Order, NEW v \in Vendor \cup {None}, CreateOrder(o, v)
      PROVE  Inductive'
  <2>1. [vendor |-> v, deletion |-> "live", decided |-> FALSE] \in OrderRow
    BY DEF OrderRow, Deletion
  <2> QED
    BY <1>1, <2>1, OrderChangePreserves DEF CreateOrder
<1>2. ASSUME NEW o \in Order, Decide(o)
      PROVE  Inductive'
  <2>1. order[o] \in OrderRow
    BY <1>0, <1>2 DEF Decide
  <2> DEFINE row == [order[o] EXCEPT !.decided = TRUE]
  <2>2. row \in OrderRow /\ row.vendor = order[o].vendor /\ row.deletion = order[o].deletion
    BY <2>1, OrderUpdate
  <2>3. order' = [order EXCEPT ![o] = row] /\ order[o] # None
        /\ UNCHANGED <<vendor, lock, requests, cleanup>>
    BY <1>2 DEF Decide
  <2> HIDE DEF row
  <2> QED
    BY <2>2, <2>3, OrderChangePreserves
<1>3. ASSUME NEW o \in Order, NEW d \in Deletion,
             order[o] # None, order[o].deletion # "old",
             order' = [order EXCEPT ![o].deletion = d],
             UNCHANGED <<vendor, lock, requests, cleanup>>
      PROVE  Inductive'
  <2>1. order[o] \in OrderRow
    BY <1>0, <1>3
  <2> DEFINE row == [order[o] EXCEPT !.deletion = d]
  <2>2. row \in OrderRow /\ row.vendor = order[o].vendor
    BY <2>1, OrderUpdate
  <2>3. order' = [order EXCEPT ![o] = row]
    BY <1>3
  <2> HIDE DEF row
  <2> QED
    BY <1>3, <2>2, <2>3, OrderChangePreserves
<1>4. ASSUME NEW o \in Order, SoftDeleteOrder(o) \/ AgeOrder(o)
      PROVE  Inductive'
  BY <1>3, <1>4 DEF SoftDeleteOrder, AgeOrder, Deletion
<1>5. ASSUME NEW v \in Vendor, SoftDeleteVendor(v) \/ AgeVendor(v)
      PROVE  Inductive'
  BY <1>5, VendorDeletionPreserves DEF SoftDeleteVendor, AgeVendor, Deletion
<1> QED
  BY <1>1, <1>2, <1>4, <1>5 DEF Outside

\* A cleanup that fails leaves the rows as they were.
LEMMA CleanupFailsPreserves ==
  ASSUME Inductive, CleanupFails
  PROVE  Inductive'
<1>1. /\ UNCHANGED <<vendor, order, pc, call, resp>>
      /\ doomed' = NothingDoomed
      /\ lock' = [v \in Vendor |-> IF lock[v] = Cleanup THEN None ELSE lock[v]]
      /\ task' = "idle"
  BY DEF CleanupFails, Unlocked, requests
<1>2. TypeOK'
  BY <1>1 DEF Inductive, TypeOK, NothingDoomed
<1>3. CodesAreUnique' /\ NothingDangles' /\ CreationsApart'
  BY <1>1 DEF Inductive, CodesAreUnique, NothingDangles, CreationsApart
<1>4. CodeReserved'
  BY <1>1 DEF Inductive, CodeReserved, Holds, InsertPending
<1>5. RowsLocked'
  <2>1. \A q \in Request : pc[q] = "ready" => call[q].vendor \in Vendor
    BY CallTyping DEF Inductive, CreationsApart
  <2> QED
    BY <1>1, <2>1, NoneIsNothing DEF Inductive, RowsLocked, NothingDoomed
<1>6. DoomedTogether'
  BY <1>1 DEF DoomedTogether, NothingDoomed
<1> QED
  BY <1>2, <1>3, <1>4, <1>5, <1>6 DEF Inductive

\* The DELETE of the orders.
LEMMA CleanupOrdersPreserves ==
  ASSUME Inductive, CleanupOrders
  PROVE  Inductive'
<1> DEFINE gone == {o \in Order : Purgeable(order[o])}
<1>1. CASE \E o \in gone : order[o].decided
  BY <1>1, CleanupFailsPreserves DEF CleanupOrders
<1>2. CASE ~\E o \in gone : order[o].decided
  <2>1. /\ task' = "orders"
        /\ doomed' = [orders |-> gone, vendors |-> {}]
        /\ UNCHANGED <<vendor, order, lock, pc, call, resp>>
    BY <1>2 DEF CleanupOrders, requests
  <2>2. TypeOK'
    BY <2>1 DEF Inductive, TypeOK
  <2>3. CodesAreUnique' /\ NothingDangles' /\ CreationsApart' /\ RowsLocked'
    BY <2>1 DEF Inductive, CodesAreUnique, NothingDangles, CreationsApart, RowsLocked
  <2>4. CodeReserved'
    BY <2>1 DEF Inductive, CodeReserved, Holds, InsertPending
  <2>5. DoomedTogether'
    BY <2>1 DEF DoomedTogether, Purgeable
  <2> QED
    BY <2>2, <2>3, <2>4, <2>5 DEF Inductive
<1> QED
  BY <1>1, <1>2

\* The DELETE of the vendors: no order that stays refers to any of them.
LEMMA CleanupVendorsPreserves ==
  ASSUME Inductive, CleanupVendors
  PROVE  Inductive'
<1> DEFINE gone == {v \in Vendor : Purgeable(vendor[v])}
           kept == \E o \in Order \ doomed.orders : order[o] # None /\ order[o].vendor \in gone
<1>1. CASE kept
  BY <1>1, CleanupFailsPreserves DEF CleanupVendors
<1>2. CASE ~kept
  <2>1. /\ \A v \in gone : lock[v] = None
        /\ task' = "vendors"
        /\ doomed' = [doomed EXCEPT !.vendors = gone]
        /\ lock' = [v \in Vendor |-> IF v \in gone THEN Cleanup ELSE lock[v]]
        /\ UNCHANGED <<vendor, order, pc, call, resp>>
    BY <1>2 DEF CleanupVendors, requests
  <2>2. doomed'.orders = doomed.orders /\ doomed'.vendors = gone
    BY <2>1 DEF Inductive, TypeOK
  <2>3. TypeOK'
    BY <2>1 DEF Inductive, TypeOK
  <2>4. CodesAreUnique' /\ NothingDangles' /\ CreationsApart'
    BY <2>1 DEF Inductive, CodesAreUnique, NothingDangles, CreationsApart
  <2>5. CodeReserved'
    BY <2>1 DEF Inductive, CodeReserved, Holds, InsertPending
  <2>6. RowsLocked'
    <3>1. \A q \in Request : pc[q] = "ready" /\ call[q].op = "update" =>
            call[q].vendor \in Vendor /\ call[q].vendor \notin gone
      BY <2>1, CallTyping, NoneIsNothing DEF Inductive, CreationsApart, RowsLocked
    <3> QED
      BY <2>1, <2>2, <3>1 DEF Inductive, RowsLocked
  <2>7. DoomedTogether'
    BY <1>2, <2>1, <2>2 DEF Inductive, DoomedTogether, Purgeable
  <2> QED
    BY <2>3, <2>4, <2>5, <2>6, <2>7 DEF Inductive
<1> QED
  BY <1>1, <1>2

\* The COMMIT of the purge: orders go with their vendors, and no request is
\* updating or creating a row that goes.
LEMMA CleanupCommitPreserves ==
  ASSUME Inductive, CleanupCommit
  PROVE  Inductive'
<1>1. /\ vendor' = [v \in Vendor |-> IF v \in doomed.vendors THEN None ELSE vendor[v]]
      /\ order' = [o \in Order |-> IF o \in doomed.orders THEN None ELSE order[o]]
      /\ lock' = [v \in Vendor |-> IF lock[v] = Cleanup THEN None ELSE lock[v]]
      /\ task' = "idle"
      /\ doomed' = NothingDoomed
      /\ UNCHANGED <<pc, call, resp>>
  BY DEF CleanupCommit, Unlocked, requests
<1>2. TypeOK'
  BY <1>1 DEF Inductive, TypeOK, NothingDoomed
<1>3. CodesAreUnique'
  BY <1>1 DEF Inductive, CodesAreUnique
<1>4. \A q \in Request : pc[q] \in {"looked", "ready"} => call[q].vendor \in Vendor
  BY CallTyping DEF Inductive, CreationsApart
<1>5. NothingDangles'
  <2>1. \A o \in Order : order'[o] # None /\ order'[o].vendor # None =>
          vendor'[order'[o].vendor] # None
    <3>1. \A o \in Order : order[o] # None => order[o].vendor \in Vendor \cup {None}
      BY DEF Inductive, TypeOK, OrderRow
    <3>2. \A o \in Order : order'[o] # None =>
            order'[o] = order[o] /\ o \notin doomed.orders
      BY <1>1
    <3> QED
      BY <1>1, <3>1, <3>2 DEF Inductive, NothingDangles, DoomedTogether
  <2>2. \A q \in Request : pc[q] = "ready" /\ call[q].op = "update" =>
          call[q].vendor \notin doomed.vendors
    BY NoneIsNothing DEF Inductive, RowsLocked
  <2> QED
    BY <1>1, <1>4, <2>1, <2>2 DEF Inductive, NothingDangles
<1>6. CreationsApart'
  BY <1>1, <1>4 DEF Inductive, CreationsApart
<1>7. CodeReserved'
  BY <1>1 DEF Inductive, CodeReserved, Holds, InsertPending
<1>8. RowsLocked'
  BY <1>1, <1>4, NoneIsNothing DEF Inductive, RowsLocked, NothingDoomed
<1>9. DoomedTogether'
  BY <1>1 DEF DoomedTogether, NothingDoomed
<1> QED
  BY <1>2, <1>3, <1>5, <1>6, <1>7, <1>8, <1>9 DEF Inductive

\* So does a step that changes nothing.
LEMMA StutterPreserves ==
  ASSUME Inductive, UNCHANGED vars
  PROVE  Inductive'
<1>1. UNCHANGED <<vendor, order, lock, pc, call, resp, task, doomed>>
  BY DEF vars
<1>2. TypeOK' /\ CodesAreUnique' /\ NothingDangles'
  BY <1>1 DEF Inductive, TypeOK, CodesAreUnique, NothingDangles
<1>3. CreationsApart' /\ RowsLocked' /\ DoomedTogether'
  BY <1>1 DEF Inductive, CreationsApart, RowsLocked, DoomedTogether, Purgeable
<1>4. CodeReserved'
  BY <1>1 DEF Inductive, CodeReserved, Holds, InsertPending
<1> QED
  BY <1>2, <1>3, <1>4 DEF Inductive

-----------------------------------------------------------------------------
(* Theorems.                                                               *)

\* Every step of the specification preserves it.
LEMMA NextPreserves ==
  ASSUME Inductive, [Next]_vars
  PROVE  Inductive'
<1>1. ASSUME NEW r \in Request, Arrive(r)
      PROVE  Inductive'
  BY <1>1, LookPreserves DEF Arrive
<1>2. ASSUME NEW r \in Request, Proceed(r)
      PROVE  Inductive'
  BY <1>2, InsertPreserves, UpdatePreserves, CommitPreserves DEF Proceed
<1>3. ASSUME CleanupStep
      PROVE  Inductive'
  BY <1>3, CleanupOrdersPreserves, CleanupVendorsPreserves, CleanupCommitPreserves
  DEF CleanupStep
<1>4. ASSUME CleanupFault
      PROVE  Inductive'
  BY <1>4, CleanupFailsPreserves DEF CleanupFault
<1> QED
  BY <1>1, <1>2, <1>3, <1>4, FaultPreserves, OutsidePreserves, StutterPreserves DEF Next

\* The invariant holds in every reachable state, whatever requests and purges
\* overlap.
THEOREM InductiveInvariant == Spec => []Inductive
<1>1. Init => Inductive
  BY InitInductive
<1>2. Inductive /\ [Next]_vars => Inductive'
  BY NextPreserves
<1> QED
  BY <1>1, <1>2, PTL DEF Spec

\* The directory's rows and the task's state keep their shapes.
THEOREM TypeCorrect == Spec => []TypeOK
<1>1. Inductive => TypeOK
  BY DEF Inductive
<1> QED
  BY <1>1, InductiveInvariant, PTL

\* A vendor code names one vendor, however many creates race for it.
THEOREM CodesUnique == Spec => []CodesAreUnique
<1>1. Inductive => CodesAreUnique
  BY DEF Inductive
<1> QED
  BY <1>1, InductiveInvariant, PTL

\* The purge never takes a vendor from under an order or from under an update.
THEOREM PurgeLeavesNothingDangling == Spec => []NothingDangles
<1>1. Inductive => NothingDangles
  BY DEF Inductive
<1> QED
  BY <1>1, InductiveInvariant, PTL

\* Only the commit of the purge removes rows, and it removes what it deleted
\* under locks while it was old.
LEMMA RemovalsAreOld ==
  ASSUME Inductive, [Next]_vars
  PROVE  /\ \A v \in Vendor : vendor[v] # None /\ vendor'[v] = None => vendor[v].deletion = "old"
         /\ \A o \in Order : order[o] # None /\ order'[o] = None => order[o].deletion = "old"
<1> DEFINE Goal ==
      /\ \A v \in Vendor : vendor[v] # None /\ vendor'[v] = None => vendor[v].deletion = "old"
      /\ \A o \in Order : order[o] # None /\ order'[o] = None => order[o].deletion = "old"
<1>0. TypeOK /\ TypeOK'
  BY NextPreserves DEF Inductive
<1>1. ASSUME UNCHANGED <<vendor, order>>
      PROVE  Goal
  BY <1>1
<1>2. ASSUME NEW r \in Request, Arrive(r) \/ Insert(r) \/ Update(r) \/ Fault(r)
      PROVE  Goal
  BY <1>1, <1>2 DEF Arrive, Look, Insert, Update, Fail, Fault
<1>3. ASSUME NEW r \in Request, Commit(r)
      PROVE  Goal
  <2>1. call[r].vendor \in Vendor /\ call[r] \in Call
    BY <1>3, CallTyping DEF Inductive, CreationsApart, Commit
  <2>2. vendor' = [vendor EXCEPT ![call[r].vendor] = Written(call[r])] /\ order' = order
    BY <1>3 DEF Commit
  <2>3. Written(call[r]) # None
    <3>1. CASE call[r].op = "create"
      <4>1. Written(call[r]) = [code |-> call[r].code, status |-> "pending_review", deletion |-> "live"]
        BY <3>1 DEF Written
      <4>2. call[r].code \in Code
        BY <2>1, <3>1, CallTyping
      <4>3. Written(call[r]) \in VendorRow
        BY <4>1, <4>2 DEF VendorRow, VendorStatus, Deletion
      <4> QED
        BY <4>3, NoneIsNothing
    <3>2. CASE call[r].op = "update"
      <4>1. vendor[call[r].vendor] \in VendorRow
        BY <1>0, <1>3, <2>1, <3>2 DEF Inductive, NothingDangles, Commit, TypeOK
      <4>2. Written(call[r]) = [vendor[call[r].vendor] EXCEPT !.status = call[r].status]
        BY <3>2 DEF Written
      <4> QED
        BY <2>1, <3>2, <4>1, <4>2, CallTyping, StatusUpdate, NoneIsNothing
    <3> QED
      BY <2>1, <3>1, <3>2, CallTyping
  <2> QED
    BY <1>0, <2>1, <2>2, <2>3 DEF TypeOK
<1>4. ASSUME CleanupStep
      PROVE  Goal
  <2>1. CASE CleanupOrders
    BY <1>1, <2>1 DEF CleanupOrders, CleanupFails
  <2>2. CASE CleanupVendors
    BY <1>1, <2>2 DEF CleanupVendors, CleanupFails
  <2>3. CASE CleanupCommit
    BY <2>3 DEF CleanupCommit, Inductive, DoomedTogether, Purgeable
  <2> QED
    BY <1>4, <2>1, <2>2, <2>3 DEF CleanupStep
<1>5. ASSUME Outside
      PROVE  Goal
  <2>0. /\ \A o \in Order : order[o] # None => order[o] \in OrderRow
        /\ \A v \in Vendor : vendor[v] # None => vendor[v] \in VendorRow
    BY <1>0 DEF TypeOK
  <2>1. ASSUME NEW o \in Order, NEW v \in Vendor \cup {None}, CreateOrder(o, v)
        PROVE  Goal
    BY <1>0, <2>1, NoneIsNothing DEF CreateOrder, TypeOK, OrderRow, Deletion
  <2>2. ASSUME NEW o \in Order, Decide(o) \/ SoftDeleteOrder(o) \/ AgeOrder(o)
        PROVE  Goal
    <3>1. order[o] \in OrderRow
      BY <2>0, <2>2 DEF Decide, SoftDeleteOrder, AgeOrder
    <3>2. /\ vendor' = vendor
          /\ \/ order' = [order EXCEPT ![o] = [order[o] EXCEPT !.decided = TRUE]]
             \/ \E d \in Deletion : order' = [order EXCEPT ![o] = [order[o] EXCEPT !.deletion = d]]
      BY <2>2 DEF Decide, SoftDeleteOrder, AgeOrder, Deletion
    <3>3. \E row \in OrderRow : order' = [order EXCEPT ![o] = row]
      BY <3>1, <3>2, OrderUpdate
    <3> QED
      BY <1>0, <3>2, <3>3, NoneIsNothing DEF TypeOK
  <2>3. ASSUME NEW v \in Vendor, SoftDeleteVendor(v) \/ AgeVendor(v)
        PROVE  Goal
    <3>1. vendor[v] \in VendorRow
      BY <2>0, <2>3 DEF SoftDeleteVendor, AgeVendor
    <3>2. /\ order' = order
          /\ \E d \in Deletion : vendor' = [vendor EXCEPT ![v] = [vendor[v] EXCEPT !.deletion = d]]
      BY <2>3 DEF SoftDeleteVendor, AgeVendor, Deletion
    <3>3. \E row \in VendorRow : vendor' = [vendor EXCEPT ![v] = row]
      BY <3>1, <3>2, DeletionUpdate
    <3> QED
      BY <1>0, <3>2, <3>3, NoneIsNothing DEF TypeOK
  <2> QED
    BY <1>5, <2>1, <2>2, <2>3 DEF Outside
<1>6. ASSUME UNCHANGED vars
      PROVE  Goal
  BY <1>1, <1>6 DEF vars
<1>7. ASSUME CleanupFault
      PROVE  Goal
  BY <1>1, <1>7 DEF CleanupFault, CleanupFails
<1> QED
  BY <1>2, <1>3, <1>4, <1>5, <1>6, <1>7 DEF Next, Proceed

\* The cutoff of the purge holds against every overlap: a row goes only if it
\* was soft-deleted long enough ago.
THEOREM OnlyOldRowsPurged == Spec => OnlyOldRowsArePurged
<1>1. Inductive /\ [Next]_vars =>
        [/\ \A v \in Vendor : vendor[v] # None /\ vendor'[v] = None => vendor[v].deletion = "old"
         /\ \A o \in Order : order[o] # None /\ order'[o] = None => order[o].deletion = "old"]_vars
  BY RemovalsAreOld
<1> QED
  BY <1>1, InductiveInvariant, PTL DEF Spec, OnlyOldRowsArePurged

=============================================================================
