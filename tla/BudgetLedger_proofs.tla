------------------------ MODULE BudgetLedger_proofs ------------------------
(***************************************************************************)
(* Proofs about BudgetLedger, for every set of sessions, every total and   *)
(* every set of amounts.                                                   *)
(***************************************************************************)
EXTENDS BudgetLedger, TLAPS

-----------------------------------------------------------------------------
(* Facts about a single call.                                              *)

\* Clamping gives a natural number that is not above the one it clamps.
LEMMA Clamped ==
  ASSUME NEW m \in Nat, NEW n \in Nat
  PROVE  AtLeastZero(m - n) \in Nat /\ AtLeastZero(m - n) <= m
BY DEF AtLeastZero

\* A call makes a row of a row, and keeps it within the total unless it is
\* refused.
LEMMA AfterTyping ==
  ASSUME NEW op \in Operation, NEW b \in Row, NEW amount \in Amount
  PROVE  /\ After(op, b, amount) \in Row
         /\ ~Refused(op, b, amount) /\ b.committed <= Total
              => After(op, b, amount).committed <= Total
<1>1. amount \in Nat /\ Total \in Nat /\ b.committed \in Nat /\ b.spent \in Nat
  BY BudgetAssumption DEF Row
<1>2. /\ AtLeastZero(b.committed - amount) \in Nat
      /\ AtLeastZero(b.committed - amount) <= b.committed
  BY <1>1, Clamped
<1>3. CASE op = "commit"
  BY <1>1, <1>3 DEF After, Refused, Row
<1>4. CASE op = "release"
  BY <1>1, <1>2, <1>4 DEF After, Row
<1>5. CASE op = "spend"
  BY <1>1, <1>2, <1>5 DEF After, Row
<1>6. CASE op = "check"
  BY <1>1, <1>6 DEF After, Row
<1> QED
  BY <1>3, <1>4, <1>5, <1>6 DEF Operation

\* What the history books of a call is the difference it makes.
LEMMA MovedIsDifference ==
  ASSUME NEW op \in Operation, NEW b \in Row, NEW amount \in Amount
  PROVE  /\ Moved(op, b, amount) \in Movement
         /\ After(op, b, amount).committed =
              b.committed + Moved(op, b, amount).reserved - Moved(op, b, amount).released
         /\ After(op, b, amount).spent = b.spent + Moved(op, b, amount).spent
<1>1. amount \in Nat /\ b.committed \in Nat /\ b.spent \in Nat
  BY BudgetAssumption DEF Row
<1>2. AtLeastZero(b.committed - amount) \in Nat
  BY <1>1, Clamped
<1>3. CASE op = "commit"
  BY <1>1, <1>3 DEF After, Moved, Movement, Row
<1>4. CASE op = "release"
  BY <1>1, <1>2, <1>4 DEF After, Moved, Movement, Row
<1>5. CASE op = "spend"
  BY <1>1, <1>2, <1>5 DEF After, Moved, Movement, Row
<1>6. CASE op = "check"
  BY <1>1, <1>6 DEF After, Moved, Movement, Row
<1> QED
  BY <1>3, <1>4, <1>5, <1>6 DEF Operation

\* Adding and taking away the same amount is what leaves a number unchanged.
LEMMA NoDifference ==
  ASSUME NEW i \in Int, NEW m \in Int, NEW n \in Int, i = i + m - n
  PROVE  m = n
OBVIOUS

\* Adding movements column by column.
LEMMA PlusTyping ==
  ASSUME NEW m \in Movement, NEW n \in Movement
  PROVE  /\ Plus(m, n) \in Movement
         /\ Plus(m, n).reserved = m.reserved + n.reserved
         /\ Plus(m, n).released = m.released + n.released
         /\ Plus(m, n).spent = m.spent + n.spent
BY DEF Plus, Movement

\* The empty movement is a movement.
LEMMA NothingTyping == Nothing \in Movement
BY DEF Nothing, Movement

\* What a session's SELECT returns is a row; a session without an instance
\* sees the committed one.
LEMMA VisibleTyping ==
  ASSUME TypeOK, FlushedFromInstance, NEW s \in Session
  PROVE  /\ Visible(s) \in Row
         /\ cols[s] = {} => Visible(s) = budget
         /\ \A col \in Column :
              Visible(s)[col] = IF col \in cols[s] THEN inst[s][col] ELSE budget[col]
<1>1. budget \in Row /\ cols[s] \subseteq Column /\ inst[s] \in Row \cup {None}
  BY DEF TypeOK
<1>2. cols[s] # {} => inst[s] \in Row
  BY <1>1 DEF FlushedFromInstance
<1>3. \A col \in Column :
        Visible(s)[col] = IF col \in cols[s] THEN inst[s][col] ELSE budget[col]
  BY DEF Visible
<1>4. \A col \in Column : Visible(s)[col] \in Nat
  BY <1>1, <1>2, <1>3 DEF Row, Column
<1>5. Visible(s) = [committed |-> Visible(s).committed, spent |-> Visible(s).spent]
  BY DEF Visible, Column
<1>6. Visible(s) \in Row
  BY <1>4, <1>5 DEF Row, Column
<1>7. cols[s] = {} => Visible(s) = budget
  BY <1>1, <1>3, <1>6 DEF Row, Column
<1> QED
  BY <1>3, <1>6, <1>7

-----------------------------------------------------------------------------
(* Every step preserves the inductive invariant.                           *)

\* The invariant holds in the initial states.
LEMMA InitInductive == Init => Inductive
<1> SUFFICES ASSUME Init PROVE Inductive
  OBVIOUS
<1>1. TypeOK
  BY NothingTyping DEF Init, TypeOK, Row
<1>2. CommittedWithinTotal
  BY BudgetAssumption DEF Init, CommittedWithinTotal
<1> QED
  BY <1>1, <1>2, BudgetAssumption
  DEF Init, Inductive, FlushedFromInstance, InstancesWithinTotal, LoadedAPastVersion,
      UnchangedIsUnmoved, InstanceTracksRow, BalancedUnlessOverlapped, Nothing

\* What a call computes from is a row within the total; if the version it
\* counts as loaded is the current one, it is the committed row plus what the
\* session moved so far.
LEMMA CurrentIsSound ==
  ASSUME Inductive, NEW s \in Session, NEW b \in Current(s)
  PROVE  /\ b \in Row
         /\ b.committed <= Total
         /\ (base[s] = version /\ inst[s] # None) \/ (b = Visible(s) /\ cols[s] = {}) =>
              /\ b.committed = budget.committed + booked[s].reserved - booked[s].released
              /\ b.spent = budget.spent + booked[s].spent
<1>1. /\ Visible(s) \in Row
      /\ cols[s] = {} => Visible(s) = budget
      /\ Visible(s).committed =
           IF "committed" \in cols[s] THEN inst[s].committed ELSE budget.committed
      /\ Visible(s).spent = IF "spent" \in cols[s] THEN inst[s].spent ELSE budget.spent
  BY VisibleTyping DEF Inductive, Column
<1>2. /\ budget \in Row /\ inst[s] \in Row \cup {None} /\ cols[s] \subseteq Column
      /\ booked[s] \in Movement /\ Total \in Nat
  BY BudgetAssumption DEF Inductive, TypeOK
<1>3. b = Visible(s) \/ (inst[s] # None /\ b = inst[s])
  BY DEF Current
<1>4. b \in Row
  BY <1>1, <1>2, <1>3
<1>5. /\ cols[s] # {} => inst[s] # None
      /\ inst[s] # None => inst[s].committed <= Total
      /\ budget.committed <= Total
  BY DEF Inductive, FlushedFromInstance, InstancesWithinTotal, CommittedWithinTotal
<1>6. b.committed <= Total
  BY <1>1, <1>2, <1>3, <1>5 DEF Column
<1>7. /\ "committed" \notin cols[s] => booked[s].reserved = booked[s].released
      /\ "spent" \notin cols[s] => booked[s].spent = 0
      /\ inst[s] # None /\ base[s] = version =>
           /\ inst[s].committed = budget.committed + booked[s].reserved - booked[s].released
           /\ inst[s].spent = budget.spent + booked[s].spent
  BY DEF Inductive, UnchangedIsUnmoved, InstanceTracksRow
<1>8. /\ budget.committed \in Int /\ budget.spent \in Int
      /\ booked[s].reserved \in Int /\ booked[s].released \in Int /\ booked[s].spent \in Int
  BY <1>2 DEF Row, Movement
<1>9. CASE b = Visible(s) /\ cols[s] = {}
  BY <1>1, <1>4, <1>6, <1>7, <1>8, <1>9
<1>10. CASE base[s] = version /\ inst[s] # None
  BY <1>1, <1>3, <1>4, <1>6, <1>7, <1>8, <1>10
<1> QED
  BY <1>4, <1>6, <1>9, <1>10

\* A call in an open session.
LEMMA CallPreserves ==
  ASSUME Inductive, NEW s \in Session, NEW op \in Operation, NEW amount \in Amount,
         Call(s, op, amount)
  PROVE  Inductive'
<1> DEFINE fresh(b) == b = Visible(s) /\ cols[s] = {}
<1>0. TypeOK
  BY DEF Inductive
<1>1. PICK b \in Current(s) :
        /\ ~Refused(op, b, amount)
        /\ inst' = [inst EXCEPT ![s] = After(op, b, amount)]
        /\ cols' = [cols EXCEPT ![s] = @ \cup Changed(b, After(op, b, amount))]
        /\ pc' = [pc EXCEPT ![s] = IF Changed(b, After(op, b, amount)) = {} THEN "open" ELSE "dirty"]
        /\ base' = [base EXCEPT ![s] = IF fresh(b) THEN version ELSE @]
        /\ booked' = [booked EXCEPT ![s] = Plus(@, Moved(op, b, amount))]
  BY DEF Call
<1> DEFINE a == After(op, b, amount)
           m == Moved(op, b, amount)
<1>2. /\ calls' = [calls EXCEPT ![s] = @ + 1]
      /\ UNCHANGED <<active, budget, lock, version, ledger, overlap>>
  BY DEF Call
<1>3. /\ b \in Row /\ b.committed <= Total
      /\ (base[s] = version /\ inst[s] # None) \/ fresh(b) =>
           /\ b.committed = budget.committed + booked[s].reserved - booked[s].released
           /\ b.spent = budget.spent + booked[s].spent
  BY CurrentIsSound
<1>4. /\ a \in Row /\ a.committed <= Total /\ a # None
  BY <1>1, <1>3, AfterTyping, BudgetAssumption
<1>5. /\ m \in Movement
      /\ a.committed = b.committed + m.reserved - m.released
      /\ a.spent = b.spent + m.spent
  BY <1>3, MovedIsDifference
<1>6. /\ booked[s] \in Movement
      /\ booked'[s] \in Movement
      /\ booked'[s].reserved = booked[s].reserved + m.reserved
      /\ booked'[s].released = booked[s].released + m.released
      /\ booked'[s].spent = booked[s].spent + m.spent
  BY <1>0, <1>1, <1>5, PlusTyping DEF TypeOK
<1>7. /\ cols'[s] = cols[s] \cup Changed(b, a)
      /\ inst'[s] = a
      /\ base'[s] = IF fresh(b) THEN version ELSE base[s]
      /\ \A q \in Session \ {s} :
           cols'[q] = cols[q] /\ inst'[q] = inst[q] /\ base'[q] = base[q] /\ booked'[q] = booked[q]
  BY <1>0, <1>1 DEF TypeOK
<1>8. TypeOK'
  <2>1. Changed(b, a) \subseteq Column
    BY DEF Changed
  <2>2. /\ inst' \in [Session -> Row \cup {None}]
        /\ cols' \in [Session -> SUBSET Column]
    BY <1>0, <1>1, <1>4, <2>1 DEF TypeOK
  <2>3. /\ pc' \in [Session -> {"open", "dirty", "done"}]
        /\ calls' \in [Session -> Nat]
        /\ base' \in [Session -> Nat]
        /\ booked' \in [Session -> Movement]
    <3>1. pc' \in [Session -> {"open", "dirty", "done"}] /\ calls' \in [Session -> Nat]
      BY <1>0, <1>1, <1>2 DEF TypeOK
    <3>2. base' \in [Session -> Nat]
      BY <1>0, <1>1 DEF TypeOK
    <3>3. booked' \in [Session -> Movement]
      BY <1>0, <1>1, <1>6 DEF TypeOK
    <3> QED
      BY <3>1, <3>2, <3>3
  <2> QED
    BY <1>0, <1>2, <2>2, <2>3 DEF TypeOK
<1>9. CommittedWithinTotal' /\ BalancedUnlessOverlapped'
  BY <1>2 DEF Inductive, CommittedWithinTotal, BalancedUnlessOverlapped
<1>10. FlushedFromInstance' /\ InstancesWithinTotal' /\ LoadedAPastVersion'
  <2>1. version \in Nat /\ version' = version
    BY <1>0, <1>2 DEF TypeOK
  <2> QED
    BY <1>4, <1>7, <2>1
    DEF Inductive, FlushedFromInstance, InstancesWithinTotal, LoadedAPastVersion
<1>11. UnchangedIsUnmoved'
  <2>1. /\ "committed" \notin cols'[s] => booked'[s].reserved = booked'[s].released
        /\ "spent" \notin cols'[s] => booked'[s].spent = 0
    <3>1. /\ "committed" \notin cols'[s] => "committed" \notin cols[s] /\ a.committed = b.committed
          /\ "spent" \notin cols'[s] => "spent" \notin cols[s] /\ a.spent = b.spent
      BY <1>7 DEF Changed, Column
    <3>2. /\ "committed" \notin cols[s] => booked[s].reserved = booked[s].released
          /\ "spent" \notin cols[s] => booked[s].spent = 0
      BY DEF Inductive, UnchangedIsUnmoved
    <3>3. /\ b.committed \in Int /\ b.spent \in Int
          /\ m.reserved \in Int /\ m.released \in Int /\ m.spent \in Int
          /\ booked[s].reserved \in Int /\ booked[s].released \in Int /\ booked[s].spent \in Int
      BY <1>3, <1>5, <1>6 DEF Row, Movement
    <3> HIDE DEF a, m
    <3>4. ASSUME "committed" \notin cols'[s]
          PROVE  booked'[s].reserved = booked'[s].released
      <4>1. booked[s].reserved = booked[s].released /\ a.committed = b.committed
        BY <3>1, <3>2, <3>4
      <4>2. b.committed = b.committed + m.reserved - m.released
        BY <1>5, <4>1
      <4>3. m.reserved = m.released
        BY <3>3, <4>2, NoDifference
      <4> QED
        BY <1>6, <4>1, <4>3
    <3>5. ASSUME "spent" \notin cols'[s]
          PROVE  booked'[s].spent = 0
      <4>1. booked[s].spent = 0 /\ a.spent = b.spent
        BY <3>1, <3>2, <3>5
      <4>2. m.spent = 0
        BY <1>5, <3>3, <4>1
      <4> QED
        BY <1>6, <4>1, <4>2
    <3> QED
      BY <3>4, <3>5
  <2> QED
    BY <1>7, <2>1 DEF Inductive, UnchangedIsUnmoved
<1>12. InstanceTracksRow'
  <2>1. base'[s] = version =>
          /\ a.committed = budget.committed + booked'[s].reserved - booked'[s].released
          /\ a.spent = budget.spent + booked'[s].spent
    <3>1. /\ budget.committed \in Int /\ budget.spent \in Int
          /\ b.committed \in Int /\ b.spent \in Int
          /\ m.reserved \in Int /\ m.released \in Int /\ m.spent \in Int
          /\ booked[s].reserved \in Int /\ booked[s].released \in Int /\ booked[s].spent \in Int
      BY <1>0, <1>3, <1>5, <1>6 DEF TypeOK, Row, Movement
    <3>2. ~fresh(b) => inst[s] # None
      BY DEF Current, Inductive, FlushedFromInstance
    <3>3. base'[s] = version => (base[s] = version /\ inst[s] # None) \/ fresh(b)
      BY <1>7, <3>2
    <3>4. base'[s] = version =>
            /\ b.committed = budget.committed + booked[s].reserved - booked[s].released
            /\ b.spent = budget.spent + booked[s].spent
      BY <1>3, <3>3
    <3> HIDE DEF a, m
    <3> QED
      BY <1>5, <1>6, <3>1, <3>4
  <2> QED
    BY <1>2, <1>7, <2>1 DEF Inductive, InstanceTracksRow
<1> QED
  BY <1>8, <1>9, <1>10, <1>11, <1>12 DEF Inductive

\* A session that ends without committing.
LEMMA RollbackPreserves ==
  ASSUME Inductive, NEW s \in Session, Rollback(s)
  PROVE  Inductive'
<1>1. TypeOK /\ BudgetAssumption
  BY BudgetAssumption DEF Inductive, BudgetAssumption
<1>2. TypeOK'
  BY <1>1, NothingTyping DEF TypeOK, Rollback, Unlocked
<1>3. /\ cols'[s] = {} /\ inst'[s] = None /\ booked'[s] = Nothing
      /\ \A q \in Session \ {s} :
           cols'[q] = cols[q] /\ inst'[q] = inst[q] /\ booked'[q] = booked[q]
      /\ UNCHANGED <<budget, version, base, ledger, overlap>>
  BY <1>1 DEF TypeOK, Rollback
<1>4. CommittedWithinTotal' /\ BalancedUnlessOverlapped' /\ LoadedAPastVersion'
  BY <1>3 DEF Inductive, CommittedWithinTotal, BalancedUnlessOverlapped, LoadedAPastVersion
<1>5. FlushedFromInstance' /\ InstancesWithinTotal'
  BY <1>3 DEF Inductive, FlushedFromInstance, InstancesWithinTotal
<1>6. UnchangedIsUnmoved' /\ InstanceTracksRow'
  BY <1>3 DEF Inductive, UnchangedIsUnmoved, InstanceTracksRow, Nothing
<1> QED
  BY <1>2, <1>4, <1>5, <1>6 DEF Inductive

\* An UPDATE that got the row lock changes no amount yet.
LEMMA FlushPreserves ==
  ASSUME Inductive, NEW s \in Session, Flush(s)
  PROVE  Inductive'
<1>1. TypeOK'
  BY DEF Inductive, TypeOK, Flush, history
<1>2. UNCHANGED <<budget, inst, cols, version, base, booked, ledger, overlap>>
  BY DEF Flush, history
<1>3. CommittedWithinTotal' /\ BalancedUnlessOverlapped' /\ LoadedAPastVersion'
  BY <1>2 DEF Inductive, CommittedWithinTotal, BalancedUnlessOverlapped, LoadedAPastVersion
<1>4. FlushedFromInstance' /\ InstancesWithinTotal' /\ UnchangedIsUnmoved' /\ InstanceTracksRow'
  BY <1>2 DEF Inductive, FlushedFromInstance, InstancesWithinTotal, UnchangedIsUnmoved,
              InstanceTracksRow
<1> QED
  BY <1>1, <1>3, <1>4 DEF Inductive

\* A commit: the columns flushed replace those of the row.
LEMMA CommitPreserves ==
  ASSUME Inductive, NEW s \in Session, Commit(s)
  PROVE  Inductive'
<1>1. TypeOK
  BY DEF Inductive
<1>2. /\ Visible(s) \in Row
      /\ cols[s] = {} => Visible(s) = budget
      /\ Visible(s).committed =
           IF "committed" \in cols[s] THEN inst[s].committed ELSE budget.committed
      /\ Visible(s).spent = IF "spent" \in cols[s] THEN inst[s].spent ELSE budget.spent
  BY VisibleTyping DEF Inductive, Column
<1>3. /\ budget' = Visible(s)
      /\ version' = IF cols[s] = {} THEN version ELSE version + 1
      /\ overlap' = (overlap \/ (cols[s] # {} /\ base[s] # version))
      /\ ledger' = Plus(ledger, booked[s])
      /\ base' = base
  BY DEF Commit
<1>4. /\ cols'[s] = {} /\ inst'[s] = None /\ booked'[s] = Nothing
      /\ \A q \in Session \ {s} :
           cols'[q] = cols[q] /\ inst'[q] = inst[q] /\ booked'[q] = booked[q]
  BY <1>1 DEF TypeOK, Commit
<1>5. booked[s] \in Movement /\ ledger \in Movement
  BY <1>1 DEF TypeOK
<1>6. /\ ledger' \in Movement
      /\ ledger'.reserved = ledger.reserved + booked[s].reserved
      /\ ledger'.released = ledger.released + booked[s].released
      /\ ledger'.spent = ledger.spent + booked[s].spent
  BY <1>3, <1>5, PlusTyping
<1>7. TypeOK'
  <2>1. version' \in Nat /\ overlap' \in BOOLEAN
    BY <1>1, <1>3 DEF TypeOK
  <2>2. /\ booked' \in [Session -> Movement]
        /\ inst' \in [Session -> Row \cup {None}]
        /\ cols' \in [Session -> SUBSET Column]
        /\ pc' \in [Session -> {"open", "dirty", "done"}]
        /\ lock' \in Session \cup {None}
    BY <1>1, NothingTyping DEF TypeOK, Commit, Unlocked
  <2>3. active' \in BOOLEAN /\ calls' \in [Session -> Nat] /\ base' \in [Session -> Nat]
    BY <1>1 DEF TypeOK, Commit
  <2> QED
    BY <1>2, <1>3, <1>6, <2>1, <2>2, <2>3 DEF TypeOK
<1>8. /\ version \in Nat
      /\ budget.committed \in Int /\ budget.spent \in Int
      /\ booked[s].reserved \in Int /\ booked[s].released \in Int /\ booked[s].spent \in Int
      /\ ledger.reserved \in Int /\ ledger.released \in Int /\ ledger.spent \in Int
      /\ cols[s] \subseteq Column
  BY <1>1, <1>5 DEF TypeOK, Row, Movement
<1>9. CommittedWithinTotal'
  <2>1. cols[s] # {} => inst[s].committed <= Total
    BY DEF Inductive, FlushedFromInstance, InstancesWithinTotal
  <2> QED
    BY <1>2, <1>3, <2>1 DEF Inductive, CommittedWithinTotal
<1>10. BalancedUnlessOverlapped'
  <2> SUFFICES ASSUME ~overlap'
               PROVE  /\ Visible(s).committed = ledger'.reserved - ledger'.released
                      /\ Visible(s).spent = ledger'.spent
    BY <1>3 DEF BalancedUnlessOverlapped
  <2>1. /\ budget.committed = ledger.reserved - ledger.released
        /\ budget.spent = ledger.spent
    BY <1>1, <1>3 DEF Inductive, BalancedUnlessOverlapped, TypeOK
  <2>2. /\ "committed" \notin cols[s] => booked[s].reserved = booked[s].released
        /\ "spent" \notin cols[s] => booked[s].spent = 0
    BY DEF Inductive, UnchangedIsUnmoved
  <2>3. cols[s] # {} =>
          /\ inst[s].committed = budget.committed + booked[s].reserved - booked[s].released
          /\ inst[s].spent = budget.spent + booked[s].spent
    BY <1>1, <1>3 DEF Inductive, FlushedFromInstance, InstanceTracksRow, TypeOK
  <2>4. Visible(s).committed = budget.committed + booked[s].reserved - booked[s].released
    BY <1>2, <1>8, <2>2, <2>3
  <2>5. Visible(s).spent = budget.spent + booked[s].spent
    BY <1>2, <1>8, <2>2, <2>3
  <2> QED
    BY <1>6, <1>8, <2>1, <2>4, <2>5
<1>11. FlushedFromInstance' /\ InstancesWithinTotal' /\ UnchangedIsUnmoved'
  BY <1>4 DEF Inductive, FlushedFromInstance, InstancesWithinTotal, UnchangedIsUnmoved, Nothing
<1>12. LoadedAPastVersion'
  <2>1. \A q \in Session : base[q] \in Nat /\ base[q] <= version
    BY <1>1 DEF Inductive, LoadedAPastVersion, TypeOK
  <2> QED
    BY <1>3, <1>8, <2>1 DEF LoadedAPastVersion
<1>13. InstanceTracksRow'
  <2>1. CASE cols[s] = {}
    BY <1>2, <1>3, <1>4, <2>1 DEF Inductive, InstanceTracksRow
  <2>2. CASE cols[s] # {}
    <3>1. \A q \in Session : base[q] \in Nat /\ base[q] <= version
      BY <1>1 DEF Inductive, LoadedAPastVersion, TypeOK
    <3>2. \A q \in Session : base'[q] # version'
      BY <1>3, <1>8, <2>2, <3>1
    <3> QED
      BY <3>2 DEF InstanceTracksRow
  <2> QED
    BY <2>1, <2>2
<1> QED
  BY <1>7, <1>9, <1>10, <1>11, <1>12, <1>13 DEF Inductive

-----------------------------------------------------------------------------
(* Theorems.                                                               *)

\* The invariant holds in every reachable state, for every set of sessions
\* and every number of calls they make.
THEOREM InductiveInvariant == Spec => []Inductive
<1>1. Init => Inductive
  BY InitInductive
<1>2. Inductive /\ [Next]_vars => Inductive'
  <2> SUFFICES ASSUME Inductive, [Next]_vars PROVE Inductive'
    OBVIOUS
  <2>1. ASSUME NEW s \in Session, NEW op \in Operation, NEW amount \in Amount,
               Call(s, op, amount)
        PROVE  Inductive'
    BY <2>1, CallPreserves
  <2>2. ASSUME NEW s \in Session, NEW op \in Operation, NEW amount \in Amount,
               Raise(s, op, amount)
        PROVE  Inductive'
    BY <2>2, RollbackPreserves DEF Raise
  <2>3. ASSUME NEW s \in Session, Flush(s)
        PROVE  Inductive'
    BY <2>3, FlushPreserves
  <2>4. ASSUME NEW s \in Session, Commit(s)
        PROVE  Inductive'
    BY <2>4, CommitPreserves
  <2>5. ASSUME NEW s \in Session, Fault(s)
        PROVE  Inductive'
    BY <2>5, RollbackPreserves DEF Fault
  <2>6. ASSUME UNCHANGED vars
        PROVE  Inductive'
    BY <2>6
    DEF vars, Inductive, TypeOK, CommittedWithinTotal, FlushedFromInstance,
        InstancesWithinTotal, LoadedAPastVersion, UnchangedIsUnmoved, InstanceTracksRow,
        BalancedUnlessOverlapped
  <2> QED
    BY <2>1, <2>2, <2>3, <2>4, <2>5, <2>6 DEF Next, Finished
<1> QED
  BY <1>1, <1>2, PTL DEF Spec

\* No amount ever becomes negative, however the sessions of BudgetService
\* overlap and however their calls are split into units of work.
THEOREM TypeCorrect == Spec => []TypeOK
<1>1. Inductive => TypeOK
  BY DEF Inductive
<1> QED
  BY <1>1, InductiveInvariant, PTL

\* commit_amount's comparison with the total survives every lost update.
THEOREM CommittedStaysWithinTotal == Spec => []CommittedWithinTotal
<1>1. Inductive => CommittedWithinTotal
  BY DEF Inductive
<1> QED
  BY <1>1, InductiveInvariant, PTL

\* Units of work that do not overlap keep the budget balanced to the unit.
THEOREM BalanceKept == Spec => []BalancedUnlessOverlapped
<1>1. Inductive => BalancedUnlessOverlapped
  BY DEF Inductive
<1> QED
  BY <1>1, InductiveInvariant, PTL

=============================================================================
