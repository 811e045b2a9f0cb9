--------------------------- MODULE ConnectionPool ---------------------------
(***************************************************************************)
(* Requests and the connections to PostgreSQL they work on.                *)
(*                                                                         *)
(* Each server process has an engine with a pool.  A request takes one     *)
(* connection at its first statement and keeps it until get_db closes the  *)
(* session, while it waits for a row lock too; the readiness probe takes   *)
(* one that waits for none.  Whoever finds no connection for thirty        *)
(* seconds fails.  The pool pings a connection before it hands it out      *)
(* (pool_pre_ping), since PostgreSQL may have been restarted meanwhile.    *)
(*                                                                         *)
(*    new -> waiting -> open -> wants -> locked -> answered                *)
(***************************************************************************)
EXTENDS Naturals, FiniteSets

CONSTANTS
  Request,     \* requests and readiness probes
  Process,     \* processes of the API
  Row,         \* rows that requests update
  PoolSize,    \* database_pool_size, connections that a pool keeps
  MaxOverflow, \* database_max_overflow, connections beyond them
  None,        \* nobody, no row, no process
  MaxOutages,  \* restarts of PostgreSQL, a bound
  MaxKills     \* deaths of a process, a bound

ASSUME ConnectionPoolAssumption ==
  /\ IsFiniteSet(Request)
  /\ PoolSize \in Nat \ {0} /\ MaxOverflow \in Nat
  /\ None \notin Request \cup Process \cup Row
  /\ MaxOutages \in Nat /\ MaxKills \in Nat

Capacity == PoolSize + MaxOverflow

VARIABLES
  st,      \* where each request is
  at,      \* the process that serves it
  wanted,  \* the row it updates
  holder,  \* the request whose transaction has each row locked
  out,     \* connections each pool has handed out
  idle,    \* connections that wait in each pool
  stale,   \* how many of these PostgreSQL has closed
  up,      \* PostgreSQL accepts connections
  outages, kills,
  hit      \* history: requests that were under way during an outage

pools == <<out, idle, stale>>
requests == <<st, at, wanted>>
vars == <<requests, holder, pools, up, outages, kills, hit>>

Using == {"open", "wants", "locked", "broken"}
Ended == {"answered", "failed", "timedout", "lost"}
State == {"new", "waiting"} \cup Using \cup Ended

Init ==
  /\ st = [r \in Request |-> "new"]
  /\ at = [r \in Request |-> None]
  /\ wanted = [r \in Request |-> None]
  /\ holder = [k \in Row |-> None]
  /\ out = [p \in Process |-> 0]
  /\ idle = [p \in Process |-> 0]
  /\ stale = [p \in Process |-> 0]
  /\ up = TRUE /\ outages = 0 /\ kills = 0
  /\ hit = {}

-----------------------------------------------------------------------------
(* The pool.                                                               *)

\* A process accepts a request, which comes to its first statement.
Arrive(r, p) ==
  /\ st[r] = "new"
  /\ st' = [st EXCEPT ![r] = "waiting"]
  /\ at' = [at EXCEPT ![r] = p]
  /\ hit' = IF up THEN hit ELSE hit \cup {r}
  /\ UNCHANGED <<wanted, holder, pools, up, outages, kills>>

\* Mutation: nothing is pinged, and a closed connection is handed out.
CheckOut_NoPrePing(r) ==
  LET p == at[r] IN
    /\ st[r] = "waiting" /\ up
    /\ idle[p] > 0 \/ out[p] < Capacity
    /\ out' = [out EXCEPT ![p] = @ + 1]
    /\ idle' = IF idle[p] > 0 THEN [idle EXCEPT ![p] = @ - 1] ELSE idle
    /\ stale' = IF stale[p] > 0 THEN [stale EXCEPT ![p] = @ - 1] ELSE stale
    /\ st' = [st EXCEPT ![r] = IF stale[p] > 0 THEN "broken" ELSE "open"]
    /\ UNCHANGED <<at, wanted, holder, up, outages, kills, hit>>

\* A connection that waits in the pool is handed out, or a new one.  A ping that
\* fails makes the pool replace all it kept from before.
CheckOut(r) ==
  LET p == at[r] IN
    /\ st[r] = "waiting" /\ up
    /\ idle[p] > 0 \/ out[p] < Capacity
    /\ out' = [out EXCEPT ![p] = @ + 1]
    /\ idle' = IF idle[p] > 0 THEN [idle EXCEPT ![p] = @ - 1] ELSE idle
    /\ \/ idle[p] > stale[p] /\ UNCHANGED stale
       \/ idle[p] = 0 /\ UNCHANGED stale
       \/ stale[p] > 0 /\ stale' = [stale EXCEPT ![p] = 0]
    /\ st' = [st EXCEPT ![r] = "open"]
    /\ UNCHANGED <<at, wanted, holder, up, outages, kills, hit>>

\* There is nothing to connect to.
ConnectFails(r) ==
  /\ st[r] = "waiting" /\ ~up
  /\ st' = [st EXCEPT ![r] = "failed"]
  /\ UNCHANGED <<at, wanted, holder, pools, up, outages, kills, hit>>

\* Thirty seconds without a connection.
TimeOut(r) ==
  /\ st[r] = "waiting" /\ idle[at[r]] = 0 /\ out[at[r]] = Capacity
  /\ st' = [st EXCEPT ![r] = "timedout"]
  /\ UNCHANGED <<at, wanted, holder, pools, up, outages, kills, hit>>

\* A connection comes back; the pool keeps as many as its size.
Returned(p) ==
  /\ out' = [out EXCEPT ![p] = @ - 1]
  /\ idle' = IF idle[p] < PoolSize THEN [idle EXCEPT ![p] = @ + 1] ELSE idle
  /\ UNCHANGED stale

Unlocked(R) == [k \in Row |-> IF holder[k] \in R THEN None ELSE holder[k]]

-----------------------------------------------------------------------------
(* A request.                                                              *)

\* It updates a row, and waits for the lock.
Update(r, k) ==
  /\ st[r] = "open"
  /\ st' = [st EXCEPT ![r] = "wants"]
  /\ wanted' = [wanted EXCEPT ![r] = k]
  /\ UNCHANGED <<at, holder, pools, up, outages, kills, hit>>

Lock(r) ==
  /\ st[r] = "wants" /\ holder[wanted[r]] = None
  /\ holder' = [holder EXCEPT ![wanted[r]] = r]
  /\ st' = [st EXCEPT ![r] = "locked"]
  /\ UNCHANGED <<at, wanted, pools, up, outages, kills, hit>>

\* Mutation: the session is not closed.
Finish_NotClosed(r) ==
  /\ st[r] \in {"open", "locked"}
  /\ st' = [st EXCEPT ![r] = "answered"]
  /\ holder' = Unlocked({r})
  /\ UNCHANGED <<pools, at, wanted, up, outages, kills, hit>>

\* Mutation: the transaction is not ended.
Finish_NotCommitted(r) ==
  /\ st[r] \in {"open", "locked"}
  /\ st' = [st EXCEPT ![r] = "answered"]
  /\ Returned(at[r])
  /\ UNCHANGED <<at, wanted, holder, up, outages, kills, hit>>

\* get_db commits, or rolls back what the handler raised, and closes.
Finish(r) ==
  /\ st[r] \in {"open", "locked"}
  /\ st' = [st EXCEPT ![r] = "answered"]
  /\ holder' = Unlocked({r})
  /\ Returned(at[r])
  /\ UNCHANGED <<at, wanted, up, outages, kills, hit>>

\* A statement on a connection that has been closed fails; the session is rolled
\* back and closed, and the pool will connect anew.
Breaks(r) ==
  /\ st[r] = "broken"
  /\ st' = [st EXCEPT ![r] = "failed"]
  /\ Returned(at[r])
  /\ UNCHANGED <<at, wanted, holder, up, outages, kills, hit>>

-----------------------------------------------------------------------------
(* Outages.                                                                *)

\* PostgreSQL stops: transactions are lost, and with them their locks.
GoDown ==
  /\ up /\ outages < MaxOutages
  /\ up' = FALSE /\ outages' = outages + 1
  /\ st' = [r \in Request |-> IF st[r] \in Using THEN "broken" ELSE st[r]]
  /\ hit' = hit \cup {r \in Request : st[r] \in Using \cup {"waiting"}}
  /\ holder' = [k \in Row |-> None]
  /\ stale' = idle
  /\ UNCHANGED <<at, wanted, out, idle, kills>>

ComeUp ==
  /\ ~up
  /\ up' = TRUE
  /\ UNCHANGED <<requests, holder, pools, outages, kills, hit>>

\* A process dies and is started again: its requests get no answer, and its
\* transactions are rolled back.
Kill(p) ==
  /\ kills < MaxKills
  /\ kills' = kills + 1
  /\ LET R == {r \in Request : at[r] = p /\ st[r] \in Using \cup {"waiting"}} IN
       /\ st' = [r \in Request |-> IF r \in R THEN "lost" ELSE st[r]]
       /\ holder' = Unlocked(R)
  /\ out' = [out EXCEPT ![p] = 0]
  /\ idle' = [idle EXCEPT ![p] = 0]
  /\ stale' = [stale EXCEPT ![p] = 0]
  /\ UNCHANGED <<at, wanted, up, outages, hit>>

-----------------------------------------------------------------------------
Connect(r) == CheckOut(r) \/ ConnectFails(r) \/ TimeOut(r)
End(r) == Finish(r) \/ Breaks(r)

Next ==
  \/ \E r \in Request :
       \/ \E p \in Process : Arrive(r, p)
       \/ \E k \in Row : Update(r, k)
       \/ Connect(r) \/ Lock(r) \/ End(r)
  \/ \E p \in Process : Kill(p)
  \/ GoDown
  \/ ComeUp

Spec == Init /\ [][Next]_vars

\* A request is handed a connection, fails to get one or times out; PostgreSQL
\* grants locks in the order they were asked for; a handler comes to its end.
FairSpec ==
  /\ Spec
  /\ \A r \in Request : WF_vars(Connect(r)) /\ SF_vars(Lock(r)) /\ WF_vars(End(r))

-----------------------------------------------------------------------------
(* Properties.                                                             *)

TypeOK ==
  /\ st \in [Request -> State]
  /\ at \in [Request -> Process \cup {None}]
  /\ wanted \in [Request -> Row \cup {None}]
  /\ holder \in [Row -> Request \cup {None}]
  /\ out \in [Process -> Nat] /\ idle \in [Process -> Nat] /\ stale \in [Process -> Nat]
  /\ up \in BOOLEAN
  /\ outages \in 0..MaxOutages /\ kills \in 0..MaxKills
  /\ hit \subseteq Request

\* The requests that work on a connection of a pool.
Users(p) == {r \in Request : at[r] = p /\ st[r] \in Using}

\* What a pool has handed out and what it keeps.
PoolsCount ==
  \A p \in Process :
    /\ out[p] = Cardinality(Users(p))
    /\ stale[p] <= idle[p] /\ idle[p] <= PoolSize
    /\ idle[p] + out[p] <= Capacity

\* Who holds a row lock.
LocksAreAlive ==
  \A k \in Row : holder[k] # None => st[holder[k]] = "locked" /\ wanted[holder[k]] = k

\* Connections are accounted for: a pool has handed out one for each request
\* that works on one and none for those that have ended, however they ended;
\* it stays within its capacity; and whoever holds a row lock works on a
\* connection that is alive, and so never waits for the pool.
ConnectionsAreAccountedFor == TypeOK /\ PoolsCount /\ LocksAreAlive

\* An outage fails the requests that were under way or came while it lasted,
\* and no later one: the pool hands out no connection from before.
OnlyOutagesFail == \A r \in Request : st[r] \in {"broken", "failed"} => r \in hit

\* Every request comes to an end, whichever of the others wait for rows, time
\* out or die.
EveryRequestEnds == \A r \in Request : st[r] = "waiting" ~> st[r] \in Ended

-----------------------------------------------------------------------------
(* The inductive invariant behind the safety properties.                    *)

\* A request that has arrived is served somewhere and knows its row.
Placed ==
  \A r \in Request :
    /\ st[r] # "new" => at[r] \in Process
    /\ st[r] \in {"wants", "locked"} => wanted[r] \in Row

\* An outage hits whoever waits for a connection.
WaitersAreHit == ~up => \A r \in Request : st[r] = "waiting" => r \in hit

Inductive ==
  /\ ConnectionsAreAccountedFor
  /\ OnlyOutagesFail
  /\ Placed
  /\ WaitersAreHit

=============================================================================
