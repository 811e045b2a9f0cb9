------------------------ MODULE ConnectionPool_proofs ------------------------
(***************************************************************************)
(* Proofs about ConnectionPool, for every finite set of requests, every    *)
(* set of processes and rows, every size of the pools and every number of  *)
(* outages and deaths.                                                     *)
(***************************************************************************)
EXTENDS ConnectionPool, FiniteSetTheorems, TLAPS

-----------------------------------------------------------------------------
(* Counting the users of a pool.                                           *)

\* The users of a pool can be counted.
LEMMA UsersAreFinite ==
  ASSUME NEW p \in Process
  PROVE  IsFiniteSet(Users(p)) /\ Cardinality(Users(p)) \in Nat
<1>1. Users(p) \in SUBSET Request
  BY DEF Users
<1> QED
  BY <1>1, FS_Subset, FS_CardinalityType, ConnectionPoolAssumption

\* A pool with a user has handed something out.
LEMMA UserCounts ==
  ASSUME NEW p \in Process, NEW r \in Users(p)
  PROVE  Cardinality(Users(p)) > 0
<1>1. Cardinality(Users(p)) # 0
  BY UsersAreFinite, FS_EmptySet
<1> QED
  BY <1>1, UsersAreFinite

\* As long as the same requests work on connections, the counts are the same.
LEMMA UsersStay ==
  ASSUME \A r \in Request : st'[r] \in Using <=> st[r] \in Using,
         \A r \in Request : st[r] \in Using => at'[r] = at[r],
         NEW p \in Process
  PROVE  Users(p)' = Users(p)
BY DEF Users

\* A request that is handed a connection counts.
LEMMA UserJoins ==
  ASSUME TypeOK, NEW r \in Request, st[r] \notin Using, NEW x \in Using,
         st' = [st EXCEPT ![r] = x], at' = at, NEW p \in Process
  PROVE  Cardinality(Users(p))' = Cardinality(Users(p)) + (IF p = at[r] THEN 1 ELSE 0)
<1>1. Users(p)' = IF p = at[r] THEN Users(p) \cup {r} ELSE Users(p)
  BY DEF TypeOK, Users
<1>2. r \notin Users(p)
  BY DEF Users
<1>3. Cardinality(Users(p) \cup {r}) = Cardinality(Users(p)) + 1
  BY <1>2, UsersAreFinite, FS_AddElement
<1> QED
  BY <1>1, <1>3, UsersAreFinite

\* One that has given it back does not.
LEMMA UserLeaves ==
  ASSUME TypeOK, NEW r \in Request, st[r] \in Using, NEW x \in State \ Using,
         st' = [st EXCEPT ![r] = x], at' = at, NEW p \in Process
  PROVE  Cardinality(Users(p))' = Cardinality(Users(p)) - (IF p = at[r] THEN 1 ELSE 0)
<1>1. Users(p)' = IF p = at[r] THEN Users(p) \ {r} ELSE Users(p)
  BY DEF TypeOK, Users
<1>2. p = at[r] => r \in Users(p)
  BY DEF Users
<1>3. p = at[r] => Cardinality(Users(p) \ {r}) = Cardinality(Users(p)) - 1
  BY <1>2, UsersAreFinite, FS_RemoveElement
<1> QED
  BY <1>1, <1>3, UsersAreFinite

-----------------------------------------------------------------------------
(* One lemma per action.                                                   *)

\* The empty pools.
LEMMA InitInductive ==
  ASSUME Init
  PROVE  Inductive
<1>1. \A p \in Process : Users(p) = {}
  BY DEF Init, Users, Using
<1>2. TypeOK
  BY ConnectionPoolAssumption DEF Init, TypeOK, State
<1>3. PoolsCount
  BY <1>1, FS_EmptySet, ConnectionPoolAssumption DEF Init, PoolsCount, Capacity
<1> QED
  BY <1>2, <1>3 DEF Init, Inductive, ConnectionsAreAccountedFor, LocksAreAlive, OnlyOutagesFail,
                    Placed, WaitersAreHit

\* A request changes places and no pool is concerned.
LEMMA MovePreserves ==
  ASSUME Inductive, NEW r \in Request, NEW x \in State,
         st' = [st EXCEPT ![r] = x], x \in Using <=> st[r] \in Using,
         st[r] # "locked", x \notin {"new", "locked"}, x # "wants" \/ wanted'[r] \in Row,
         x \in {"broken", "failed"} => r \in hit',
         x = "waiting" /\ ~up => r \in hit',
         at' \in [Request -> Process \cup {None}], at'[r] \in Process,
         \A q \in Request : q # r \/ st[q] \in Using => at'[q] = at[q],
         wanted' \in [Request -> Row \cup {None}],
         \A q \in Request \ {r} : wanted'[q] = wanted[q],
         hit \subseteq hit', hit' \subseteq Request,
         UNCHANGED <<holder, pools, up, outages, kills>>
  PROVE  Inductive'
<1>1. /\ st'[r] = x /\ \A q \in Request \ {r} : st'[q] = st[q]
      /\ st' \in [Request -> State]
  BY DEF Inductive, ConnectionsAreAccountedFor, TypeOK
<1>2. TypeOK'
  BY <1>1 DEF Inductive, ConnectionsAreAccountedFor, TypeOK, pools
<1>3. PoolsCount'
  <2>1. \A p \in Process : Users(p)' = Users(p)
    BY <1>1, UsersStay
  <2> QED
    BY <2>1 DEF Inductive, ConnectionsAreAccountedFor, PoolsCount, pools
<1>4. LocksAreAlive'
  BY <1>1 DEF Inductive, ConnectionsAreAccountedFor, TypeOK, LocksAreAlive
<1>5. OnlyOutagesFail' /\ WaitersAreHit'
  BY <1>1 DEF Inductive, OnlyOutagesFail, WaitersAreHit
<1>6. Placed'
  BY <1>1 DEF Inductive, Placed
<1> QED
  BY <1>2, <1>3, <1>4, <1>5, <1>6 DEF Inductive, ConnectionsAreAccountedFor

\* It arrives, asks for a row, or gets no connection.
LEMMA MovesPreserve ==
  ASSUME Inductive, NEW r \in Request,
         \/ \E p \in Process : Arrive(r, p)
         \/ \E k \in Row : Update(r, k)
         \/ ConnectFails(r)
         \/ TimeOut(r)
  PROVE  Inductive'
<1>0. /\ at \in [Request -> Process \cup {None}] /\ wanted \in [Request -> Row \cup {None}]
      /\ st[r] # "new" => at[r] \in Process
      /\ hit \subseteq Request
  BY DEF Inductive, ConnectionsAreAccountedFor, TypeOK, Placed
<1>1. CASE \E p \in Process : Arrive(r, p)
  <2> PICK p \in Process : Arrive(r, p)
    BY <1>1
  <2>1. /\ st' = [st EXCEPT ![r] = "waiting"] /\ st[r] = "new"
        /\ "waiting" \in State /\ "waiting" \notin Using /\ "new" \notin Using
        /\ at' = [at EXCEPT ![r] = p] /\ wanted' = wanted
        /\ hit \subseteq hit' /\ hit' \subseteq Request /\ (~up => r \in hit')
        /\ UNCHANGED <<holder, pools, up, outages, kills>>
    BY <1>0 DEF Arrive, State, Using
  <2>2. /\ at' \in [Request -> Process \cup {None}] /\ at'[r] = p
        /\ \A q \in Request : q # r => at'[q] = at[q]
    BY <1>0, <2>1
  <2>3. \A q \in Request : q # r \/ st[q] \in Using => at'[q] = at[q]
    BY <2>1, <2>2
  <2> QED
    <3>1. /\ st' = [st EXCEPT ![r] = "waiting"] /\ st[r] # "locked"
          /\ "waiting" \in State /\ ("waiting" \in Using <=> st[r] \in Using)
          /\ "waiting" \notin {"new", "locked"} /\ "waiting" # "wants"
          /\ "waiting" \notin {"broken", "failed"}
      BY <2>1
    <3>2. /\ at' \in [Request -> Process \cup {None}] /\ at'[r] \in Process
          /\ wanted' \in [Request -> Row \cup {None}]
          /\ \A q \in Request \ {r} : wanted'[q] = wanted[q]
      BY <1>0, <2>1, <2>2
    <3> QED
      BY <2>1, <2>3, <3>1, <3>2, MovePreserves
<1>2. CASE \E k \in Row : Update(r, k)
  <2> PICK k \in Row : Update(r, k)
    BY <1>2
  <2>1. /\ st' = [st EXCEPT ![r] = "wants"] /\ st[r] = "open"
        /\ "wants" \in State /\ "wants" \in Using /\ "open" \in Using
        /\ wanted' = [wanted EXCEPT ![r] = k] /\ at' = at /\ hit' = hit
        /\ UNCHANGED <<holder, pools, up, outages, kills>>
    BY DEF Update, State, Using
  <2>2. /\ wanted' \in [Request -> Row \cup {None}] /\ wanted'[r] \in Row
        /\ \A q \in Request \ {r} : wanted'[q] = wanted[q]
    BY <1>0, <2>1
  <2> QED
    <3>1. /\ st' = [st EXCEPT ![r] = "wants"] /\ st[r] # "locked"
          /\ "wants" \in State /\ ("wants" \in Using <=> st[r] \in Using)
          /\ "wants" \notin {"new", "locked"} /\ "wants" # "waiting"
          /\ "wants" \notin {"broken", "failed"}
      BY <2>1
    <3>2. /\ at' \in [Request -> Process \cup {None}] /\ at'[r] \in Process
          /\ \A q \in Request : q # r \/ st[q] \in Using => at'[q] = at[q]
          /\ hit \subseteq hit' /\ hit' \subseteq Request
      BY <1>0, <2>1
    <3> QED
      BY <2>1, <2>2, <3>1, <3>2, MovePreserves
<1>3. CASE ConnectFails(r)
  <2>1. /\ st' = [st EXCEPT ![r] = "failed"] /\ st[r] = "waiting" /\ r \in hit
        /\ "failed" \in State /\ "failed" \notin Using /\ "waiting" \notin Using
        /\ UNCHANGED <<at, wanted, holder, pools, up, outages, kills, hit>>
    BY <1>3 DEF ConnectFails, State, Using, Ended, WaitersAreHit, Inductive
  <2> QED
    BY <1>0, <2>1, MovePreserves
<1>4. CASE TimeOut(r)
  <2>1. /\ st' = [st EXCEPT ![r] = "timedout"] /\ st[r] = "waiting"
        /\ "timedout" \in State /\ "timedout" \notin Using /\ "waiting" \notin Using
        /\ UNCHANGED <<at, wanted, holder, pools, up, outages, kills, hit>>
    BY <1>4 DEF TimeOut, State, Using, Ended
  <2> QED
    BY <1>0, <2>1, MovePreserves
<1> QED
  BY <1>1, <1>2, <1>3, <1>4

\* It is granted its row lock.
LEMMA LockPreserves ==
  ASSUME Inductive, NEW r \in Request, Lock(r)
  PROVE  Inductive'
<1> USE DEF Inductive, ConnectionsAreAccountedFor
<1>1. /\ st[r] = "wants" /\ wanted[r] \in Row /\ at[r] \in Process
      /\ st'[r] = "locked" /\ \A q \in Request \ {r} : st'[q] = st[q]
      /\ st' \in [Request -> State]
      /\ holder' \in [Row -> Request \cup {None}] /\ holder'[wanted[r]] = r
      /\ \A k \in Row \ {wanted[r]} : holder'[k] = holder[k]
      /\ UNCHANGED <<at, wanted, out, idle, stale, up, outages, kills, hit>>
  BY DEF Lock, TypeOK, Placed, pools, State, Using
<1>2. TypeOK'
  BY <1>1 DEF TypeOK
<1>3. PoolsCount'
  <2>1. \A p \in Process : Users(p)' = Users(p)
    BY <1>1, UsersStay DEF Using
  <2> QED
    BY <1>1, <2>1 DEF PoolsCount
<1>4. LocksAreAlive'
  BY <1>1 DEF TypeOK, LocksAreAlive
<1>5. OnlyOutagesFail' /\ WaitersAreHit' /\ Placed'
  BY <1>1 DEF OnlyOutagesFail, WaitersAreHit, Placed
<1> QED
  BY <1>2, <1>3, <1>4, <1>5

\* The pool hands out a connection.
LEMMA CheckOutPreserves ==
  ASSUME Inductive, NEW r \in Request, CheckOut(r)
  PROVE  Inductive'
<1> USE DEF Inductive, ConnectionsAreAccountedFor
<1> DEFINE p == at[r]
<1>1. /\ st[r] = "waiting" /\ up /\ at[r] \in Process
      /\ st' = [st EXCEPT ![r] = "open"] /\ st[r] \notin Using /\ "open" \in Using
      /\ st'[r] = "open" /\ \A q \in Request \ {r} : st'[q] = st[q]
      /\ st' \in [Request -> State]
      /\ UNCHANGED <<at, wanted, holder, up, outages, kills, hit>>
  BY DEF CheckOut, TypeOK, Placed, State, Using
<1>2. /\ out' = [out EXCEPT ![at[r]] = @ + 1]
      /\ idle' = IF idle[at[r]] > 0 THEN [idle EXCEPT ![at[r]] = @ - 1] ELSE idle
      /\ idle[at[r]] > 0 \/ out[at[r]] < Capacity
      /\ \/ idle[at[r]] > stale[at[r]] /\ stale' = stale
         \/ idle[at[r]] = 0 /\ stale' = stale
         \/ stale[at[r]] > 0 /\ stale' = [stale EXCEPT ![at[r]] = 0]
  BY DEF CheckOut
<1>3. /\ out \in [Process -> Nat] /\ idle \in [Process -> Nat] /\ stale \in [Process -> Nat]
      /\ PoolSize \in Nat /\ MaxOverflow \in Nat
  BY ConnectionPoolAssumption DEF TypeOK
<1>4. /\ out' \in [Process -> Nat] /\ idle' \in [Process -> Nat] /\ stale' \in [Process -> Nat]
      /\ \A q \in Process : q # at[r] =>
           out'[q] = out[q] /\ idle'[q] = idle[q] /\ stale'[q] = stale[q]
  BY <1>1, <1>2, <1>3
<1>5. TypeOK'
  BY <1>1, <1>4 DEF TypeOK
<1>6. PoolsCount'
  <2> SUFFICES ASSUME NEW q \in Process
      PROVE  /\ out'[q] = Cardinality(Users(q))'
             /\ stale'[q] <= idle'[q] /\ idle'[q] <= PoolSize
             /\ idle'[q] + out'[q] <= Capacity
    BY DEF PoolsCount, Capacity
  <2>1. Cardinality(Users(q))' = Cardinality(Users(q)) + (IF q = at[r] THEN 1 ELSE 0)
    BY <1>1, UserJoins
  <2>2. /\ out[q] = Cardinality(Users(q)) /\ stale[q] <= idle[q] /\ idle[q] <= PoolSize
        /\ idle[q] + out[q] <= Capacity
    BY DEF PoolsCount
  <2>3. CASE q # at[r]
    BY <1>4, <2>1, <2>2, <2>3, <1>3
  <2>4. CASE q = at[r]
    <3>1. out'[q] = out[q] + 1
      BY <1>1, <1>2, <1>3, <2>4
    <3>2. idle'[q] = IF idle[q] > 0 THEN idle[q] - 1 ELSE 0
      BY <1>1, <1>2, <1>3, <2>4
    <3>3. stale'[q] <= idle'[q]
      BY <1>1, <1>2, <1>3, <2>2, <2>4, <3>2
    <3> QED
      BY <1>2, <1>3, <2>1, <2>2, <2>4, <3>1, <3>2, <3>3 DEF Capacity
  <2> QED
    BY <2>3, <2>4
<1>7. LocksAreAlive' /\ OnlyOutagesFail' /\ WaitersAreHit' /\ Placed'
  BY <1>1 DEF TypeOK, LocksAreAlive, OnlyOutagesFail, WaitersAreHit, Placed
<1> QED
  BY <1>5, <1>6, <1>7

\* A connection comes back, and with it the row lock if there was one.
LEMMA EndPreserves ==
  ASSUME Inductive, NEW r \in Request, End(r)
  PROVE  Inductive'
<1> USE DEF Inductive, ConnectionsAreAccountedFor
<1>1. PICK x \in {"answered", "failed"} :
        /\ st' = [st EXCEPT ![r] = x]
        /\ st[r] \in {"open", "locked", "broken"}
        /\ x = "failed" => st[r] = "broken" /\ holder' = holder
        /\ x = "answered" => holder' = Unlocked({r})
        /\ Returned(at[r])
        /\ UNCHANGED <<at, wanted, up, outages, kills, hit>>
  BY DEF End, Finish, Breaks
<1>2. /\ at[r] \in Process /\ st[r] \in Using /\ x \in State \ Using
      /\ st'[r] = x /\ \A q \in Request \ {r} : st'[q] = st[q]
      /\ st' \in [Request -> State]
      /\ holder' \in [Row -> Request \cup {None}]
      /\ \A k \in Row : holder'[k] # None => holder'[k] = holder[k] /\ holder[k] # r
  BY <1>1, ConnectionPoolAssumption
  DEF TypeOK, Placed, LocksAreAlive, Unlocked, State, Using, Ended
<1>3. /\ out' = [out EXCEPT ![at[r]] = @ - 1]
      /\ idle' = IF idle[at[r]] < PoolSize THEN [idle EXCEPT ![at[r]] = @ + 1] ELSE idle
      /\ stale' = stale
  BY <1>1 DEF Returned
<1>4. /\ out \in [Process -> Nat] /\ idle \in [Process -> Nat] /\ stale \in [Process -> Nat]
      /\ PoolSize \in Nat /\ MaxOverflow \in Nat
  BY ConnectionPoolAssumption DEF TypeOK
<1>5. out[at[r]] > 0
  BY <1>2, UserCounts DEF PoolsCount, Users
<1>6. /\ out' \in [Process -> Nat] /\ idle' \in [Process -> Nat]
      /\ \A q \in Process : q # at[r] => out'[q] = out[q] /\ idle'[q] = idle[q]
      /\ out'[at[r]] = out[at[r]] - 1
      /\ idle'[at[r]] = IF idle[at[r]] < PoolSize THEN idle[at[r]] + 1 ELSE idle[at[r]]
  BY <1>2, <1>3, <1>4, <1>5
<1>7. TypeOK'
  BY <1>1, <1>2, <1>3, <1>6 DEF TypeOK
<1>8. PoolsCount'
  <2> SUFFICES ASSUME NEW q \in Process
      PROVE  /\ out'[q] = Cardinality(Users(q))'
             /\ stale'[q] <= idle'[q] /\ idle'[q] <= PoolSize
             /\ idle'[q] + out'[q] <= Capacity
    BY DEF PoolsCount, Capacity
  <2>1. Cardinality(Users(q))' = Cardinality(Users(q)) - (IF q = at[r] THEN 1 ELSE 0)
    BY <1>1, <1>2, UserLeaves
  <2>2. /\ out[q] = Cardinality(Users(q)) /\ stale[q] <= idle[q] /\ idle[q] <= PoolSize
        /\ idle[q] + out[q] <= Capacity
    BY DEF PoolsCount
  <2> QED
    BY <1>2, <1>3, <1>4, <1>6, <2>1, <2>2 DEF Capacity
<1>9. LocksAreAlive'
  BY <1>1, <1>2 DEF TypeOK, LocksAreAlive
<1>10. OnlyOutagesFail' /\ WaitersAreHit' /\ Placed'
  BY <1>1, <1>2 DEF OnlyOutagesFail, WaitersAreHit, Placed
<1> QED
  BY <1>7, <1>8, <1>9, <1>10

\* PostgreSQL stops.
LEMMA GoDownPreserves ==
  ASSUME Inductive, GoDown
  PROVE  Inductive'
<1> USE DEF Inductive, ConnectionsAreAccountedFor
<1>1. /\ \A r \in Request : st'[r] = IF st[r] \in Using THEN "broken" ELSE st[r]
      /\ st' \in [Request -> State]
      /\ \A r \in Request : st[r] \in Using \cup {"waiting"} => r \in hit'
      /\ hit \subseteq hit' /\ hit' \subseteq Request
      /\ \A k \in Row : holder'[k] = None
      /\ stale' = idle /\ up' = FALSE
      /\ UNCHANGED <<at, wanted, out, idle, kills>>
  BY DEF GoDown, TypeOK, State, Using
<1>2. TypeOK'
  <2>1. outages' \in 0..MaxOutages /\ stale' \in [Process -> Nat]
    BY <1>1, ConnectionPoolAssumption DEF TypeOK, GoDown
  <2>2. holder' \in [Row -> Request \cup {None}]
    BY DEF GoDown
  <2> QED
    BY <1>1, <2>1, <2>2 DEF TypeOK
<1>3. PoolsCount'
  <2>1. \A p \in Process : Users(p)' = Users(p)
    BY <1>1, UsersStay DEF Using
  <2> QED
    BY <1>1, <2>1 DEF PoolsCount, TypeOK
<1>4. LocksAreAlive' /\ OnlyOutagesFail' /\ WaitersAreHit' /\ Placed'
  BY <1>1 DEF LocksAreAlive, OnlyOutagesFail, WaitersAreHit, Placed, Using
<1> QED
  BY <1>2, <1>3, <1>4

\* It accepts connections again.
LEMMA ComeUpPreserves ==
  ASSUME Inductive, ComeUp
  PROVE  Inductive'
<1> USE DEF Inductive, ConnectionsAreAccountedFor
<1>1. up' = TRUE /\ UNCHANGED <<st, at, wanted, holder, out, idle, stale, outages, kills, hit>>
  BY DEF ComeUp, requests, pools
<1>2. \A p \in Process : Users(p)' = Users(p)
  BY <1>1 DEF Users
<1> QED
  BY <1>1, <1>2
  DEF TypeOK, PoolsCount, LocksAreAlive, OnlyOutagesFail, WaitersAreHit, Placed

\* A process dies, and its pool with it.
LEMMA KillPreserves ==
  ASSUME Inductive, NEW p \in Process, Kill(p)
  PROVE  Inductive'
<1> USE DEF Inductive, ConnectionsAreAccountedFor
<1>1. /\ \A r \in Request :
           st'[r] = IF at[r] = p /\ st[r] \in Using \cup {"waiting"} THEN "lost" ELSE st[r]
      /\ st' \in [Request -> State]
      /\ holder' \in [Row -> Request \cup {None}]
      /\ \A k \in Row : holder'[k] # None =>
           holder'[k] = holder[k] /\ st'[holder[k]] = st[holder[k]]
      /\ UNCHANGED <<at, wanted, up, outages, hit>>
  BY DEF Kill, Unlocked, TypeOK, State, Ended
<1>2. /\ out' = [out EXCEPT ![p] = 0] /\ idle' = [idle EXCEPT ![p] = 0]
      /\ stale' = [stale EXCEPT ![p] = 0]
  BY DEF Kill
<1>3. TypeOK'
  BY <1>1, <1>2, ConnectionPoolAssumption DEF TypeOK, Kill
<1>4. PoolsCount'
  <2> SUFFICES ASSUME NEW q \in Process
      PROVE  /\ out'[q] = Cardinality(Users(q))'
             /\ stale'[q] <= idle'[q] /\ idle'[q] <= PoolSize
             /\ idle'[q] + out'[q] <= Capacity
    BY DEF PoolsCount, Capacity
  <2>1. CASE q = p
    <3>1. Users(q)' = {}
      BY <1>1, <2>1 DEF Users, Using
    <3>2. out'[q] = 0 /\ idle'[q] = 0 /\ stale'[q] = 0
      BY <1>2, <2>1 DEF TypeOK
    <3> QED
      BY <3>1, <3>2, FS_EmptySet, ConnectionPoolAssumption DEF Capacity
  <2>2. CASE q # p
    <3>1. Users(q)' = Users(q)
      BY <1>1, <2>2 DEF Users, Using
    <3>2. out'[q] = out[q] /\ idle'[q] = idle[q] /\ stale'[q] = stale[q]
      BY <1>2, <2>2 DEF TypeOK
    <3> QED
      BY <3>1, <3>2 DEF PoolsCount
  <2> QED
    BY <2>1, <2>2
<1>5. LocksAreAlive' /\ OnlyOutagesFail' /\ WaitersAreHit' /\ Placed'
  BY <1>1 DEF TypeOK, LocksAreAlive, OnlyOutagesFail, WaitersAreHit, Placed
<1> QED
  BY <1>3, <1>4, <1>5

\* A step that changes nothing.
LEMMA StutterPreserves ==
  ASSUME Inductive, UNCHANGED vars
  PROVE  Inductive'
<1>1. UNCHANGED <<st, at, wanted, holder, out, idle, stale, up, outages, kills, hit>>
  BY DEF vars, requests, pools
<1>2. \A p \in Process : Users(p)' = Users(p)
  BY <1>1 DEF Users
<1> QED
  BY <1>1, <1>2
  DEF Inductive, ConnectionsAreAccountedFor, TypeOK, PoolsCount, LocksAreAlive,
      OnlyOutagesFail, WaitersAreHit, Placed

-----------------------------------------------------------------------------
(* The theorems.                                                           *)

\* The inductive invariant holds.
THEOREM InductiveInvariant == Spec => []Inductive
<1>1. Init => Inductive
  BY InitInductive
<1>2. Inductive /\ [Next]_vars => Inductive'
  BY MovesPreserve, LockPreserves, CheckOutPreserves, EndPreserves, GoDownPreserves,
     ComeUpPreserves, KillPreserves, StutterPreserves
  DEF Next, Connect
<1> QED
  BY <1>1, <1>2, PTL DEF Spec

\* A pool has handed out exactly the connections its requests work on, within
\* its capacity, and a row lock is held on a connection that is alive.
THEOREM ConnectionsAccounted == Spec => []ConnectionsAreAccountedFor
<1>1. Inductive => ConnectionsAreAccountedFor
  BY DEF Inductive
<1> QED
  BY <1>1, InductiveInvariant, PTL

\* After an outage no request fails that was not under way or waiting in it.
THEOREM OutagesFail == Spec => []OnlyOutagesFail
<1>1. Inductive => OnlyOutagesFail
  BY DEF Inductive
<1> QED
  BY <1>1, InductiveInvariant, PTL

=============================================================================
