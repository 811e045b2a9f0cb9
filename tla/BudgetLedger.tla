---------------------------- MODULE BudgetLedger ----------------------------
(***************************************************************************)
(* BudgetService over one budget row, called from concurrent sessions.     *)
(*                                                                         *)
(* Every call SELECTs the budget, computes the new amounts in Python and   *)
(* flushes the changed columns as absolute values.  While the caller holds *)
(* the Budget it was given, the identity map keeps that instance and later *)
(* calls of the session compute from it, not from the row; once the caller *)
(* drops it, the next SELECT loads the row again.  A session is one unit   *)
(* of work of the code that calls the service: it commits after its calls, *)
(* or rolls back when one of them raises.                                  *)
(***************************************************************************)
EXTENDS Integers, FiniteSets

CONSTANTS
  Session,    \* units of work that use the service
  Total,      \* total_amount of the budget
  Amount,     \* amounts the callers pass
  MaxCalls,   \* bound on the calls of one session
  None        \* no instance loaded, no lock holder

Column == {"committed", "spent"}

Row == [committed : Nat, spent : Nat]

ASSUME BudgetAssumption ==
  /\ Total \in Nat
  /\ Amount \subseteq Nat
  /\ MaxCalls \in Nat
  /\ None \notin Session \cup Row

VARIABLES
  active,   \* the budget's is_active, which no code changes
  budget,   \* committed_amount and spent_amount as committed in the database
  lock,     \* the session whose transaction holds the row lock
  pc,       \* "open" between calls, "dirty" during a flush, "done"
  inst,     \* each session's instance of the budget
  cols,     \* columns each session has written in its transaction
  calls,    \* calls each session has made
  version,  \* history: how many commits have changed the row
  base,     \* history: the version each session loaded
  booked,   \* history: what the calls of each open session moved
  ledger,   \* history: what the calls of all committed sessions moved
  overlap   \* history: a session committed over a version it had not seen

session == <<pc, inst, cols, calls>>
history == <<version, base, booked, ledger, overlap>>
vars    == <<active, budget, lock, pc, inst, cols, calls,
             version, base, booked, ledger, overlap>>

Nothing == [reserved |-> 0, released |-> 0, spent |-> 0]

Init ==
  /\ active \in BOOLEAN
  /\ budget = [committed |-> 0, spent |-> 0]
  /\ lock = None
  /\ pc = [s \in Session |-> "open"]
  /\ inst = [s \in Session |-> None]
  /\ cols = [s \in Session |-> {}]
  /\ calls = [s \in Session |-> 0]
  /\ version = 0
  /\ base = [s \in Session |-> 0]
  /\ booked = [s \in Session |-> Nothing]
  /\ ledger = Nothing
  /\ overlap = FALSE

-----------------------------------------------------------------------------

\* The row as a session's own SELECT returns it: the committed row under the
\* columns the session has flushed.
Visible(s) ==
  [col \in Column |-> IF col \in cols[s] THEN inst[s][col] ELSE budget[col]]

\* What a call computes from: the row, or the instance the caller still holds.
Current(s) == {Visible(s), IF inst[s] = None THEN Visible(s) ELSE inst[s]}

AtLeastZero(n) == IF n < 0 THEN 0 ELSE n

\* Mutations: the remaining budget is not compared, or spending leaves the
\* reservation standing.
Refused_Unchecked(op, b, amount) == op = "check" /\ amount > Total - b.committed
After_SpendKeepsCommitted(op, b, amount) ==
  CASE op = "commit"  -> [b EXCEPT !.committed = @ + amount]
    [] op = "release" -> [b EXCEPT !.committed = AtLeastZero(@ - amount)]
    [] op = "spend"   -> [b EXCEPT !.spent = @ + amount]
    [] OTHER          -> b
After_Unclamped(op, b, amount) ==
  CASE op = "commit"  -> [b EXCEPT !.committed = @ + amount]
    [] op = "release" -> [b EXCEPT !.committed = @ - amount]
    [] op = "spend"   -> [committed |-> AtLeastZero(b.committed - amount),
                          spent     |-> b.spent + amount]
    [] OTHER          -> b

\* check_availability and commit_amount raise InsufficientBudgetException;
\* what has been spent is not part of the comparison.
Refused(op, b, amount) ==
  op \in {"check", "commit"} /\ amount > Total - b.committed

\* commit_amount, release_amount and mark_spent; check_availability only reads.
After(op, b, amount) ==
  CASE op = "commit"  -> [b EXCEPT !.committed = @ + amount]
    [] op = "release" -> [b EXCEPT !.committed = AtLeastZero(@ - amount)]
    [] op = "spend"   -> [committed |-> AtLeastZero(b.committed - amount),
                          spent     |-> b.spent + amount]
    [] OTHER          -> b

Changed(b, c) == {col \in Column : b[col] # c[col]}

\* What a call moves in fact, for the history.
Moved(op, b, amount) ==
  [reserved |-> IF op = "commit" THEN amount ELSE 0,
   released |-> IF op \in {"release", "spend"} THEN b.committed - AtLeastZero(b.committed - amount) ELSE 0,
   spent    |-> IF op = "spend" THEN amount ELSE 0]

Plus(m, n) == [reserved |-> m.reserved + n.reserved,
               released |-> m.released + n.released,
               spent    |-> m.spent + n.spent]

Operation == {"check", "commit", "release", "spend"}

\* A call that passes: the instance takes the new amounts; the attributes
\* that really changed are to be flushed, and none may be.
Call(s, op, amount) ==
  /\ pc[s] = "open" /\ active /\ calls[s] < MaxCalls
  /\ \E b \in Current(s) :
       LET a == After(op, b, amount)
           fresh == b = Visible(s) /\ cols[s] = {}
       IN
       /\ ~Refused(op, b, amount)
       /\ inst' = [inst EXCEPT ![s] = a]
       /\ cols' = [cols EXCEPT ![s] = @ \cup Changed(b, a)]
       /\ pc' = [pc EXCEPT ![s] = IF Changed(b, a) = {} THEN "open" ELSE "dirty"]
       /\ base' = [base EXCEPT ![s] = IF fresh THEN version ELSE @]
       /\ booked' = [booked EXCEPT ![s] = Plus(@, Moved(op, b, amount))]
  /\ calls' = [calls EXCEPT ![s] = @ + 1]
  /\ UNCHANGED <<active, budget, lock, version, ledger, overlap>>

\* Mutation: the session is left open and keeps its lock.
Unlocked_Leak(s) == lock

\* The row lock goes with the transaction that holds it.
Unlocked(s) == IF lock = s THEN None ELSE lock

Rollback(s) ==
  /\ pc' = [pc EXCEPT ![s] = "done"]
  /\ lock' = Unlocked(s)
  /\ inst' = [inst EXCEPT ![s] = None]
  /\ cols' = [cols EXCEPT ![s] = {}]
  /\ booked' = [booked EXCEPT ![s] = Nothing]
  /\ UNCHANGED <<active, budget, calls, version, base, ledger, overlap>>

\* A call that raises: no active budget (404) or not enough of it (422).
Raise(s, op, amount) ==
  /\ pc[s] = "open" /\ calls[s] < MaxCalls
  /\ ~active \/ \E b \in Current(s) : Refused(op, b, amount)
  /\ Rollback(s)

\* flush(): UPDATE budgets SET <changed columns> WHERE id = ...; it waits for
\* the row lock and has no predicate on the old amounts.
Flush(s) ==
  /\ pc[s] = "dirty"
  /\ lock \in {None, s}
  /\ lock' = s
  /\ pc' = [pc EXCEPT ![s] = "open"]
  /\ UNCHANGED <<active, budget, inst, cols, calls, history>>

\* The caller's unit of work commits: the columns it flushed take the values
\* of its instance, the others keep those of the row.
Commit(s) ==
  /\ pc[s] = "open"
  /\ calls[s] > 0
  /\ budget' = Visible(s)
  /\ version' = IF cols[s] = {} THEN version ELSE version + 1
  /\ overlap' = (overlap \/ (cols[s] # {} /\ base[s] # version))
  /\ ledger' = Plus(ledger, booked[s])
  /\ booked' = [booked EXCEPT ![s] = Nothing]
  /\ lock' = Unlocked(s)
  /\ pc' = [pc EXCEPT ![s] = "done"]
  /\ inst' = [inst EXCEPT ![s] = None]
  /\ cols' = [cols EXCEPT ![s] = {}]
  /\ UNCHANGED <<active, calls, base>>

\* The connection or the process is lost before the commit.
Fault(s) ==
  /\ pc[s] # "done"
  /\ calls[s] > 0
  /\ Rollback(s)

Finished ==
  /\ \A s \in Session : pc[s] = "done"
  /\ UNCHANGED vars

Next ==
  \/ \E s \in Session :
       \/ \E op \in Operation, amount \in Amount :
            Call(s, op, amount) \/ Raise(s, op, amount)
       \/ Flush(s) \/ Commit(s) \/ Fault(s)
  \/ Finished

Spec == Init /\ [][Next]_vars

\* A flush whose lock is free returns, and a unit of work comes to its commit.
FairSpec == Spec /\ \A s \in Session : WF_vars(Flush(s)) /\ WF_vars(Commit(s))

-----------------------------------------------------------------------------
(* Properties.                                                             *)

Movement == [reserved : Int, released : Int, spent : Int]

\* No amount goes below zero, in the row or in an instance (release_amount
\* and mark_spent clamp at 0), and a lock belongs to a session.
TypeOK ==
  /\ active \in BOOLEAN
  /\ budget \in Row
  /\ lock \in Session \cup {None}
  /\ pc \in [Session -> {"open", "dirty", "done"}]
  /\ inst \in [Session -> Row \cup {None}]
  /\ cols \in [Session -> SUBSET Column]
  /\ calls \in [Session -> Nat]
  /\ version \in Nat
  /\ base \in [Session -> Nat]
  /\ booked \in [Session -> Movement]
  /\ ledger \in Movement
  /\ overlap \in BOOLEAN

\* Whatever updates are lost, the committed amount never exceeds the total.
\* (commit_amount compares on its own instance only, and each flush writes
\* that instance's amount over whatever the others committed.)
CommittedWithinTotal == budget.committed <= Total

\* As long as no session commits over a version it has not seen, the row is
\* the exact balance of every movement that was committed: what callers were
\* told they reserved is reserved.  (Read-compute-flush in one transaction.)
BalancedUnlessOverlapped ==
  ~overlap =>
    /\ budget.committed = ledger.reserved - ledger.released
    /\ budget.spent = ledger.spent

\* A session that is flushing waits for at most the commits of the others.
EveryFlushReturns == \A s \in Session : pc[s] = "dirty" ~> pc[s] # "dirty"

-----------------------------------------------------------------------------
(* The inductive invariant behind the safety properties.                    *)

\* What a session flushed came from an instance it still has.
FlushedFromInstance == \A s \in Session : cols[s] # {} => inst[s] # None

\* No instance was pushed beyond the total.
InstancesWithinTotal ==
  \A s \in Session : inst[s] # None => inst[s].committed <= Total

\* No session has loaded a version that is still to come.
LoadedAPastVersion == \A s \in Session : base[s] <= version

\* A column a session has not changed is one its calls did not move.
UnchangedIsUnmoved ==
  \A s \in Session :
    /\ "committed" \notin cols[s] => booked[s].reserved = booked[s].released
    /\ "spent" \notin cols[s] => booked[s].spent = 0

\* An instance of the current version is the row plus what the session moved.
InstanceTracksRow ==
  \A s \in Session : inst[s] # None /\ base[s] = version =>
    /\ inst[s].committed = budget.committed + booked[s].reserved - booked[s].released
    /\ inst[s].spent = budget.spent + booked[s].spent

Inductive ==
  /\ TypeOK
  /\ CommittedWithinTotal
  /\ FlushedFromInstance
  /\ InstancesWithinTotal
  /\ LoadedAPastVersion
  /\ UnchangedIsUnmoved
  /\ InstanceTracksRow
  /\ BalancedUnlessOverlapped

=============================================================================
