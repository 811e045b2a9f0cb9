------------------------ MODULE UserDirectory_proofs ------------------------
(***************************************************************************)
(* Proofs about UserDirectory, for every set of users, names, passwords    *)
(* and request slots, and all lifetimes of the tokens.                     *)
(***************************************************************************)
EXTENDS UserDirectory, TLAPS

-----------------------------------------------------------------------------
(* Facts about rows, calls and tokens.                                     *)

\* None stands for nothing a variable could otherwise hold.
LEMMA NoneIsNothing ==
  /\ None \notin UserRow /\ None \notin Call /\ None \notin User
  /\ None \notin Request /\ None \notin Nat
BY UserAssumption

\* The components of a call.
LEMMA CallTyping ==
  ASSUME NEW c \in Call
  PROVE  /\ c.op \in {"create", "login", "refresh"}
         /\ c.op = "create" => /\ c.by \in User /\ c.user \in User
                               /\ c.email \in Email /\ c.username \in Username
                               /\ c.password \in Password /\ c.role \in UserRole
         /\ c.op = "refresh" => c.user \in User
BY UserAssumption DEF Call

\* A new row is a row, active, of a user that never logged in.
LEMMA NewRowTyping ==
  ASSUME NEW c \in Call, c.op = "create"
  PROVE  /\ NewRow(c) \in UserRow
         /\ NewRow(c).email = c.email /\ NewRow(c).username = c.username
         /\ NewRow(c).active /\ ~NewRow(c).logged
BY CallTyping, UserAssumption DEF NewRow, Stripped, Password, UserRow

\* Setting one flag of a row keeps the rest of it.
LEMMA FlagUpdate ==
  ASSUME NEW row \in UserRow
  PROVE  /\ LET new == [row EXCEPT !.logged = TRUE] IN
            /\ new \in UserRow /\ new.email = row.email /\ new.username = row.username
            /\ new.role = row.role /\ new.active = row.active /\ new.logged
         /\ \A b \in BOOLEAN :
              LET new == [row EXCEPT !.active = b] IN
              /\ new \in UserRow /\ new.email = row.email /\ new.username = row.username
              /\ new.role = row.role /\ new.active = b /\ new.logged = row.logged
BY DEF UserRow

\* No tokens, and new tokens, are tokens.
LEMMA TokenTyping ==
  /\ NoTokens \in Tokens /\ NewTokens \in Tokens
  /\ NoTokens.access = 0 /\ NoTokens.refresh = 0
BY UserAssumption DEF NoTokens, NewTokens, Tokens

\* Tokens that have grown older are tokens, each with a unit less unless it
\* had nothing left.
LEMMA OlderTyping ==
  ASSUME NEW t \in Tokens
  PROVE  /\ Older(t) \in Tokens
         /\ Older(t).access = 0 \/ Older(t).access + 1 = t.access
         /\ Older(t).refresh = 0 \/ Older(t).refresh + 1 = t.refresh
         /\ t = NoTokens => Older(t) = NoTokens
BY UserAssumption DEF Older, Tokens, NoTokens

\* What u holds once tokens are delivered to it: each token is one it held or
\* one it got.
LEMMA DeliveredTyping ==
  ASSUME held \in [User -> Tokens], NEW u \in User, NEW t \in Tokens,
         NEW new, new = Delivered(u, t)
  PROVE  /\ new \in [User -> Tokens]
         /\ \A v \in User \ {u} : new[v] = held[v]
         /\ new[u].access \in {held[u].access, t.access}
         /\ new[u].refresh \in {held[u].refresh, t.refresh}
<1> DEFINE d == [access  |-> Later(held[u].access, t.access),
                 refresh |-> Later(held[u].refresh, t.refresh)]
<1>1. /\ held[u].access \in 0..AccessLife /\ held[u].refresh \in 0..RefreshLife
      /\ t.access \in 0..AccessLife /\ t.refresh \in 0..RefreshLife
  BY DEF Tokens
<1>2. /\ d.access \in {held[u].access, t.access}
      /\ d.refresh \in {held[u].refresh, t.refresh}
  BY DEF Later
<1>3. d \in Tokens
  BY <1>1, <1>2 DEF Tokens
<1>4. new = [held EXCEPT ![u] = d]
  BY DEF Delivered
<1> HIDE DEF d
<1> QED
  BY <1>2, <1>3, <1>4

-----------------------------------------------------------------------------
(* What a step of a request leaves as it was.                              *)

Answers == {"none", "200", "201", "401", "403", "409", "500", "lost"}

Working == {"known", "looked", "ready"}

\* A finished request leaves its slot empty and the others alone.
LEMMA FinishFrame ==
  ASSUME TypeOK, NEW r \in Request, NEW answer \in Answers, Finish(r, answer)
  PROVE  /\ lock' \in [User -> Request \cup {None}]
         /\ pc' \in [Request -> {"idle", "known", "looked", "ready"}]
         /\ call' \in [Request -> Call \cup {None}]
         /\ who' \in [Request -> User \cup {None}]
         /\ minted' \in [Request -> Tokens]
         /\ resp' \in [Request -> Answers]
         /\ pc'[r] = "idle" /\ call'[r] = None /\ who'[r] = None
         /\ \A q \in Request \ {r} :
              pc'[q] = pc[q] /\ call'[q] = call[q] /\ who'[q] = who[q] /\ minted'[q] = minted[q]
         /\ Creating' = Creating \ {r}
<1>1. /\ lock' \in [User -> Request \cup {None}]
      /\ pc' \in [Request -> {"idle", "known", "looked", "ready"}]
      /\ resp' \in [Request -> Answers]
  BY DEF Finish, TypeOK, Answers
<1>2. /\ call' \in [Request -> Call \cup {None}]
      /\ who' \in [Request -> User \cup {None}]
      /\ minted' \in [Request -> Tokens]
  BY TokenTyping DEF Finish, TypeOK
<1>3. /\ pc'[r] = "idle" /\ call'[r] = None /\ who'[r] = None
      /\ \A q \in Request \ {r} :
           pc'[q] = pc[q] /\ call'[q] = call[q] /\ who'[q] = who[q] /\ minted'[q] = minted[q]
  BY DEF Finish, TypeOK
<1>4. Creating' = Creating \ {r}
  BY <1>3 DEF Creating
<1> QED
  BY <1>1, <1>2, <1>3, <1>4

\* A request that moves to another stage with its call.
LEMMA StagePreserves ==
  ASSUME Inductive, NEW r \in Request, NEW stage \in {"looked", "ready"},
         pc[r] \in {"known", "looked"},
         pc' = [pc EXCEPT ![r] = stage],
         lock' \in [User -> Request \cup {None}],
         UNCHANGED <<user, call, who, minted, resp, held, since>>,
         stage = "ready" /\ call[r].op = "create" =>
           /\ ~InsertPending(r)
           /\ \A u \in User : ~HasEmail(u, call[r].email) /\ ~HasUsername(u, call[r].username)
  PROVE  Inductive'
<1>1. /\ pc' \in [Request -> {"idle", "known", "looked", "ready"}]
      /\ pc'[r] = stage /\ \A q \in Request \ {r} : pc'[q] = pc[q]
      /\ UNCHANGED <<user, call, who, minted, resp, held, since>>
      /\ Creating' = Creating
  BY DEF Inductive, TypeOK, Creating
<1>2. TypeOK'
  BY <1>1 DEF Inductive, TypeOK
<1>3. AccountsAreUnique' /\ HoldersHaveLoggedIn'
  BY <1>1 DEF Inductive, AccountsAreUnique, HoldersHaveLoggedIn
<1>4. DeactivationSticks'
  BY <1>1 DEF Inductive, DeactivationSticks, Outlived
<1>5. CreationsApart' /\ SessionsHaveRows'
  BY <1>1 DEF Inductive, CreationsApart, SessionsHaveRows
<1>6. StageFitsCall'
  BY <1>1 DEF Inductive, StageFitsCall
<1>7. NamesReserved'
  <2> SUFFICES ASSUME NEW q \in Creating, pc'[q] = "ready"
               PROVE  /\ \A u \in User : ~HasEmail(u, call[q].email) /\ ~HasUsername(u, call[q].username)
                      /\ \A p \in Creating \ {q} : pc'[p] = "ready" =>
                           call[p].email # call[q].email /\ call[p].username # call[q].username
    BY <1>1 DEF NamesReserved, InsertPending, HasEmail, HasUsername
  <2>1. \A p \in Creating : p \in Request /\ call[p].op = "create"
    BY DEF Creating
  <2>2. CASE q = r
    BY <1>1, <2>1, <2>2 DEF InsertPending
  <2>3. CASE q # r
    <3>1. /\ \A u \in User : ~HasEmail(u, call[q].email) /\ ~HasUsername(u, call[q].username)
          /\ ~InsertPending(q)
      BY <1>1, <2>1, <2>3 DEF Inductive, NamesReserved
    <3>2. r \in Creating /\ pc'[r] = "ready" =>
            call[r].email # call[q].email /\ call[r].username # call[q].username
      BY <1>1, <2>1, <2>3 DEF InsertPending
    <3> QED
      BY <1>1, <2>1, <3>1, <3>2 DEF InsertPending
  <2> QED
    BY <2>2, <2>3
<1> QED
  BY <1>2, <1>3, <1>4, <1>5, <1>6, <1>7 DEF Inductive

\* A refused or interrupted request changes no row.
LEMMA FailPreserves ==
  ASSUME Inductive, NEW r \in Request, NEW answer \in Answers, Fail(r, answer)
  PROVE  Inductive'
<1>0. TypeOK /\ Finish(r, answer)
  BY DEF Inductive, Fail
<1>1. /\ UNCHANGED <<user, held, since>>
      /\ pc'[r] = "idle" /\ call'[r] = None /\ who'[r] = None
      /\ \A q \in Request \ {r} :
           pc'[q] = pc[q] /\ call'[q] = call[q] /\ who'[q] = who[q] /\ minted'[q] = minted[q]
      /\ Creating' = Creating \ {r}
  BY <1>0, FinishFrame DEF Fail
<1>2. TypeOK'
  BY <1>0, <1>1, FinishFrame DEF TypeOK, Answers
<1>3. AccountsAreUnique' /\ HoldersHaveLoggedIn'
  BY <1>1 DEF Inductive, AccountsAreUnique, HoldersHaveLoggedIn
<1>4. DeactivationSticks'
  BY <1>1, NoneIsNothing DEF Inductive, DeactivationSticks, Outlived
<1>5. CreationsApart' /\ SessionsHaveRows' /\ StageFitsCall'
  BY <1>1 DEF Inductive, CreationsApart, SessionsHaveRows, StageFitsCall, Creating
<1>6. NamesReserved'
  BY <1>1 DEF Inductive, NamesReserved, InsertPending, HasEmail, HasUsername, Creating
<1> QED
  BY <1>2, <1>3, <1>4, <1>5, <1>6 DEF Inductive

\* A creation that passes the checks of the role starts for an administrator.
LEMMA AuthenticatePreserves ==
  ASSUME Inductive, NEW r \in Request, NEW c \in Call, Authenticate(r, c)
  PROVE  Inductive'
<1>1. CASE CreateRefusal(c) # "none"
  <2>1. CreateRefusal(c) \in Answers
    BY DEF CreateRefusal, Answers
  <2> QED
    BY <1>1, <2>1, FailPreserves DEF Authenticate
<1>2. CASE CreateRefusal(c) = "none"
  <2>1. /\ c.op = "create" /\ c # None /\ c.by \in User /\ c.user \in User
        /\ pc[r] = "idle" /\ Fresh(c.user)
        /\ user[c.by] # None /\ user[c.by].role = "admin"
    BY <1>2, CallTyping, NoneIsNothing DEF Authenticate, CreateRefusal, IsActive
  <2>2. /\ pc' = [pc EXCEPT ![r] = "known"]
        /\ call' = [call EXCEPT ![r] = c]
        /\ resp' = [resp EXCEPT ![r] = "none"]
        /\ UNCHANGED <<user, lock, who, minted, held, since>>
    BY <1>2 DEF Authenticate
  <2>3. /\ pc'[r] = "known" /\ call'[r] = c
        /\ \A q \in Request \ {r} : pc'[q] = pc[q] /\ call'[q] = call[q]
        /\ Creating' = Creating \cup {r}
    BY <2>1, <2>2 DEF Inductive, TypeOK, Creating
  <2>4. who[r] = None
    BY <2>1 DEF Inductive, StageFitsCall
  <2>5. TypeOK'
    BY <2>2 DEF Inductive, TypeOK
  <2>6. AccountsAreUnique' /\ HoldersHaveLoggedIn' /\ DeactivationSticks'
    BY <2>2 DEF Inductive, AccountsAreUnique, HoldersHaveLoggedIn, DeactivationSticks, Outlived
  <2>7. StageFitsCall' /\ SessionsHaveRows'
    BY <2>1, <2>2, <2>3 DEF Inductive, StageFitsCall, SessionsHaveRows
  <2>8. CreationsApart'
    BY <2>1, <2>2, <2>3, <2>4 DEF Inductive, CreationsApart, Fresh, Creating
  <2>9. NamesReserved'
    BY <2>2, <2>3
    DEF Inductive, NamesReserved, InsertPending, HasEmail, HasUsername, Creating
  <2> QED
    BY <2>5, <2>6, <2>7, <2>8, <2>9 DEF Inductive
<1> QED
  BY <1>1, <1>2

\* New tokens are signed for an active user only, so they cannot outlive a
\* deactivation that comes later.
LEMMA MintPreserves ==
  ASSUME Inductive, NEW r \in Request, NEW c \in Call, NEW u \in User,
         NEW stage \in {"looked", "ready"},
         pc[r] = "idle", Mint(r, c, u, stage),
         user[u] # None, user[u].active,
         c.op \in {"login", "refresh"},
         c.op = "refresh" => stage = "ready" /\ user[u].logged
  PROVE  Inductive'
<1>1. /\ pc' = [pc EXCEPT ![r] = stage]
      /\ call' = [call EXCEPT ![r] = c]
      /\ who' = [who EXCEPT ![r] = u]
      /\ minted' = [minted EXCEPT ![r] = NewTokens]
      /\ resp' = [resp EXCEPT ![r] = "none"]
      /\ UNCHANGED <<user, lock, held, since>>
  BY DEF Mint
<1>2. /\ pc'[r] = stage /\ call'[r] = c /\ who'[r] = u
      /\ \A q \in Request \ {r} :
           pc'[q] = pc[q] /\ call'[q] = call[q] /\ who'[q] = who[q] /\ minted'[q] = minted[q]
  BY <1>1 DEF Inductive, TypeOK
<1>3. call[r] = None /\ c # None /\ u # None
  BY NoneIsNothing DEF Inductive, StageFitsCall
<1>4. Creating' = Creating
  BY <1>2, <1>3 DEF Creating
<1>5. TypeOK'
  BY <1>1, TokenTyping DEF Inductive, TypeOK
<1>6. AccountsAreUnique' /\ HoldersHaveLoggedIn'
  BY <1>1 DEF Inductive, AccountsAreUnique, HoldersHaveLoggedIn
<1>7. DeactivationSticks'
  <2>1. since[u] = None
    BY DEF Inductive, DeactivationSticks
  <2> QED
    BY <1>1, <1>2, <2>1 DEF Inductive, DeactivationSticks, Outlived
<1>8. StageFitsCall'
  BY <1>1, <1>2, <1>3 DEF Inductive, StageFitsCall
<1>9. SessionsHaveRows'
  BY <1>1, <1>2 DEF Inductive, SessionsHaveRows
<1>10. CreationsApart' /\ NamesReserved'
  <2>1. r \notin Creating
    BY <1>3 DEF Creating
  <2> QED
    BY <1>1, <1>2, <1>4, <2>1
    DEF Inductive, CreationsApart, NamesReserved, InsertPending, HasEmail, HasUsername, Creating
<1> QED
  BY <1>5, <1>6, <1>7, <1>8, <1>9, <1>10 DEF Inductive

\* Time passes for tokens and deactivations alike.
LEMMA TickPreserves ==
  ASSUME Inductive, Tick
  PROVE  Inductive'
<1> USE DEF Inductive
<1>1. /\ \A u \in User : held'[u] = Older(held[u])
      /\ \A r \in Request : minted'[r] = Older(minted[r])
      /\ \A u \in User : since'[u] = IF since[u] = None \/ since[u] = RefreshLife
                                      THEN since[u] ELSE since[u] + 1
      /\ UNCHANGED <<user, lock, pc, call, who, resp>>
  BY DEF Tick
<1>2. /\ held' \in [User -> Tokens] /\ minted' \in [Request -> Tokens]
      /\ since' \in [User -> 0..RefreshLife \cup {None}]
  <2>1. held' \in [User -> Tokens] /\ minted' \in [Request -> Tokens]
    BY OlderTyping DEF Tick, TypeOK
  <2>2. \A u \in User : since'[u] \in 0..RefreshLife \cup {None}
    BY <1>1, UserAssumption DEF TypeOK
  <2> QED
    BY <2>1, <2>2 DEF Tick
<1>3. TypeOK'
  BY <1>1, <1>2 DEF TypeOK
<1>4. AccountsAreUnique'
  BY <1>1 DEF AccountsAreUnique
<1>5. HoldersHaveLoggedIn'
  BY <1>1, OlderTyping DEF HoldersHaveLoggedIn, TypeOK
<1>6. StageFitsCall' /\ CreationsApart' /\ SessionsHaveRows' /\ NamesReserved'
  BY <1>1
  DEF StageFitsCall, CreationsApart, SessionsHaveRows, NamesReserved, InsertPending, HasEmail,
      HasUsername, Creating
<1>7. \A t \in Tokens, u \in User : since[u] # None =>
        /\ Outlived(t.access, AccessLife, u) => Outlived(Older(t).access, AccessLife, u)'
        /\ Outlived(t.refresh, RefreshLife, u) => Outlived(Older(t).refresh, RefreshLife, u)'
  <2> SUFFICES ASSUME NEW t \in Tokens, NEW u \in User, since[u] # None
               PROVE  /\ Outlived(t.access, AccessLife, u) => Outlived(Older(t).access, AccessLife, u)'
                      /\ Outlived(t.refresh, RefreshLife, u)
                           => Outlived(Older(t).refresh, RefreshLife, u)'
    OBVIOUS
  <2>1. /\ since[u] \in Nat /\ since'[u] \in Nat /\ since'[u] <= since[u] + 1
        /\ AccessLife \in Nat /\ RefreshLife \in Nat
        /\ t.access \in Nat /\ t.refresh \in Nat
    BY <1>1, UserAssumption DEF TypeOK, Tokens
  <2> QED
    BY <2>1, OlderTyping DEF Outlived, Tokens
<1>8. DeactivationSticks'
  BY <1>1, <1>7 DEF DeactivationSticks, TypeOK
<1> QED
  BY <1>3, <1>4, <1>5, <1>6, <1>8

\* What a commit does to the rows: those that are there keep everything but
\* last_login_at, and the only new one is the one its request creates.
LEMMA PersistedRows ==
  ASSUME Inductive, NEW r \in Request, pc[r] = "ready", Persist(r)
  PROVE  /\ user' \in [User -> UserRow \cup {None}]
         /\ \A u \in User : user[u] # None =>
              /\ user'[u] # None
              /\ user'[u].email = user[u].email /\ user'[u].username = user[u].username
              /\ user'[u].role = user[u].role /\ user'[u].active = user[u].active
              /\ user[u].logged => user'[u].logged
         /\ \A u \in User : user[u] = None /\ user'[u] # None =>
              /\ call[r].op = "create" /\ u = call[r].user
              /\ user'[u].email = call[r].email /\ user'[u].username = call[r].username
         /\ who[r] # None => user[who[r]] # None /\ user'[who[r]].logged
<1>1. /\ call[r] \in Call /\ call[r] # None
      /\ call[r].op = "create" => who[r] = None /\ user[call[r].user] = None
      /\ call[r].op # "create" => who[r] \in User /\ user[who[r]] # None
      /\ call[r].op = "refresh" => user[who[r]].logged
  BY NoneIsNothing DEF Inductive, StageFitsCall, CreationsApart, SessionsHaveRows, Creating
<1>2. CASE call[r].op = "create"
  <2>1. /\ NewRow(call[r]) \in UserRow /\ NewRow(call[r]) # None
        /\ NewRow(call[r]).email = call[r].email /\ NewRow(call[r]).username = call[r].username
        /\ call[r].user \in User /\ call[r].password \in Password
    BY <1>1, <1>2, NewRowTyping, CallTyping, NoneIsNothing
  <2>2. user' = [user EXCEPT ![call[r].user] = NewRow(call[r])]
    BY <1>2 DEF Persist, Written
  <2> QED
    BY <1>1, <1>2, <2>1, <2>2 DEF Inductive, TypeOK
<1>3. CASE call[r].op = "login"
  <2> DEFINE row == [user[who[r]] EXCEPT !.logged = TRUE]
  <2>1. user[who[r]] \in UserRow /\ who[r] \in User
    BY <1>1, <1>3 DEF Inductive, TypeOK
  <2>2. /\ row \in UserRow /\ row # None
        /\ row.email = user[who[r]].email /\ row.username = user[who[r]].username
        /\ row.role = user[who[r]].role /\ row.active = user[who[r]].active /\ row.logged
    BY <2>1, FlagUpdate, NoneIsNothing
  <2>3. user' = [user EXCEPT ![who[r]] = row]
    BY <1>3 DEF Persist, Written
  <2> HIDE DEF row
  <2> QED
    BY <1>1, <1>3, <2>1, <2>2, <2>3 DEF Inductive, TypeOK
<1>4. CASE call[r].op = "refresh"
  <2>1. user' = user
    BY <1>4 DEF Persist, Written
  <2> QED
    BY <1>1, <1>4, <2>1 DEF Inductive, TypeOK
<1> QED
  BY <1>1, <1>2, <1>3, <1>4, CallTyping

\* The tokens of a request reach the client, or they do not.
Handed(r) ==
  \/ held' = held
  \/ who[r] # None /\ held' = Delivered(who[r], minted[r])

\* A commit, whether or not its tokens reach the client.
LEMMA PersistPreserves ==
  ASSUME Inductive, NEW r \in Request, NEW answer \in Answers,
         pc[r] = "ready", Persist(r), Finish(r, answer), Handed(r)
  PROVE  Inductive'
<1> USE DEF Inductive
<1>1. /\ pc'[r] = "idle" /\ call'[r] = None /\ who'[r] = None
      /\ \A q \in Request \ {r} :
           pc'[q] = pc[q] /\ call'[q] = call[q] /\ who'[q] = who[q] /\ minted'[q] = minted[q]
      /\ Creating' = Creating \ {r}
      /\ since' = since
  BY FinishFrame DEF Persist
<1>2. /\ minted[r] \in Tokens
      /\ who[r] # None => who[r] \in User
      /\ call[r] \in Call
  BY DEF TypeOK, StageFitsCall
<1>3. /\ held' \in [User -> Tokens]
      /\ \A u \in User \ {who[r]} : held'[u] = held[u]
      /\ who[r] # None =>
           /\ held'[who[r]].access \in {held[who[r]].access, minted[r].access}
           /\ held'[who[r]].refresh \in {held[who[r]].refresh, minted[r].refresh}
  BY <1>2, DeliveredTyping, NoneIsNothing DEF TypeOK, Handed
<1>4. TypeOK'
  BY <1>1, <1>3, FinishFrame, PersistedRows DEF TypeOK, Answers
<1>5. StageFitsCall'
  BY <1>1 DEF StageFitsCall
<1>6. AccountsAreUnique'
  <2>1. call[r].op = "create" => r \in Creating
    BY <1>2, NoneIsNothing DEF Creating
  <2>2. \A u \in User : call[r].op = "create" /\ user[u] # None =>
          user[u].email # call[r].email /\ user[u].username # call[r].username
    BY <2>1 DEF NamesReserved, HasEmail, HasUsername
  <2> QED
    BY <2>2, PersistedRows DEF AccountsAreUnique
<1>7. HoldersHaveLoggedIn'
  <2> SUFFICES ASSUME NEW u \in User, held'[u] # NoTokens
               PROVE  user'[u] # None /\ user'[u].logged
    BY DEF HoldersHaveLoggedIn
  <2>1. CASE u = who[r]
    BY <2>1, PersistedRows, NoneIsNothing
  <2>2. CASE u # who[r]
    BY <2>2, <1>3, PersistedRows DEF HoldersHaveLoggedIn
  <2> QED
    BY <2>1, <2>2
<1>8. DeactivationSticks'
  <2> SUFFICES ASSUME NEW u \in User, since[u] # None
               PROVE  /\ user'[u] # None /\ ~user'[u].active
                      /\ Outlived(held'[u].access, AccessLife, u)
                      /\ Outlived(held'[u].refresh, RefreshLife, u)
                      /\ \A q \in Request : who'[q] = u =>
                           /\ Outlived(minted'[q].access, AccessLife, u)
                           /\ Outlived(minted'[q].refresh, RefreshLife, u)
    BY <1>1 DEF DeactivationSticks, Outlived
  <2>1. user'[u] # None /\ ~user'[u].active
    BY PersistedRows DEF DeactivationSticks
  <2>2. \A q \in Request : who'[q] = u => who[q] = u /\ minted'[q] = minted[q]
    BY <1>1, NoneIsNothing
  <2>3. /\ Outlived(held'[u].access, AccessLife, u)
        /\ Outlived(held'[u].refresh, RefreshLife, u)
    <3>1. CASE u = who[r]
      BY <3>1, <1>3, NoneIsNothing DEF DeactivationSticks
    <3>2. CASE u # who[r]
      BY <3>2, <1>3 DEF DeactivationSticks
    <3> QED
      BY <3>1, <3>2
  <2> QED
    BY <2>1, <2>2, <2>3 DEF DeactivationSticks
<1>9. SessionsHaveRows'
  BY <1>1, PersistedRows DEF SessionsHaveRows
<1>10. CreationsApart'
  <2> SUFFICES ASSUME NEW q \in Creating \ {r}
               PROVE  /\ who[q] = None
                      /\ user'[call[q].by] # None /\ user'[call[q].by].role = "admin"
                      /\ user'[call[q].user] = None
                      /\ \A p \in Creating \ {r} : q # p => call[q].user # call[p].user
    BY <1>1 DEF CreationsApart, Creating
  <2>1. call[q] \in Call /\ call[q].by \in User /\ call[q].user \in User
    BY CallTyping DEF Creating, TypeOK
  <2>2. call[r].op = "create" => call[q].user # call[r].user
    BY <1>2, NoneIsNothing DEF CreationsApart, Creating
  <2> QED
    BY <2>1, <2>2, PersistedRows DEF CreationsApart
<1>11. NamesReserved'
  <2> SUFFICES ASSUME NEW q \in Creating \ {r}, pc[q] = "ready"
               PROVE  /\ \A u \in User : user'[u] # None =>
                           user'[u].email # call[q].email /\ user'[u].username # call[q].username
                      /\ \A p \in Creating \ {r, q} : pc[p] = "ready" =>
                           call[p].email # call[q].email /\ call[p].username # call[q].username
    BY <1>1 DEF NamesReserved, InsertPending, HasEmail, HasUsername, Creating
  <2>1. /\ \A u \in User : user[u] # None =>
             user[u].email # call[q].email /\ user[u].username # call[q].username
        /\ \A p \in Creating \ {q} : pc[p] = "ready" =>
             call[p].email # call[q].email /\ call[p].username # call[q].username
    BY DEF NamesReserved, InsertPending, HasEmail, HasUsername
  <2>2. call[r].op = "create" => r \in Creating \ {q}
    BY <1>2, NoneIsNothing DEF Creating
  <2> QED
    BY <2>1, <2>2, PersistedRows
<1> QED
  BY <1>4, <1>5, <1>6, <1>7, <1>8, <1>9, <1>10, <1>11

\* An administrator writes one flag of one row; the clock of the deactivation
\* starts.
LEMMA SetActivePreserves ==
  ASSUME Inductive, NEW u \in User, NEW active \in BOOLEAN, SetActive(u, active)
  PROVE  Inductive'
<1> USE DEF Inductive
<1> DEFINE row == [user[u] EXCEPT !.active = active]
<1>1. user[u] \in UserRow
  BY DEF SetActive, TypeOK
<1>2. /\ row \in UserRow /\ row # None
      /\ row.email = user[u].email /\ row.username = user[u].username
      /\ row.role = user[u].role /\ row.active = active /\ row.logged = user[u].logged
  <2>1. /\ row \in UserRow
        /\ row.email = user[u].email /\ row.username = user[u].username
        /\ row.role = user[u].role /\ row.active = active /\ row.logged = user[u].logged
    BY <1>1 DEF UserRow
  <2> QED
    BY <2>1, NoneIsNothing
<1>3. /\ user' = [user EXCEPT ![u] = row]
      /\ since' = [since EXCEPT ![u] = IF active THEN None ELSE 0]
      /\ UNCHANGED <<lock, pc, call, who, minted, resp, held>>
  BY DEF SetActive, requests
<1> HIDE DEF row
<1>4. /\ user'[u] = row /\ \A v \in User \ {u} : user'[v] = user[v]
      /\ since'[u] = IF active THEN None ELSE 0
      /\ \A v \in User \ {u} : since'[v] = since[v]
      /\ user[u] # None
  BY <1>1, <1>3, NoneIsNothing DEF TypeOK
<1>5. TypeOK'
  BY <1>2, <1>3, UserAssumption DEF TypeOK
<1>6. \A v \in User :
        /\ user'[v] = None <=> user[v] = None
        /\ user[v] # None => /\ user'[v].email = user[v].email
                             /\ user'[v].username = user[v].username
                             /\ user'[v].role = user[v].role
                             /\ user'[v].logged = user[v].logged
  BY <1>2, <1>4
<1>7. AccountsAreUnique' /\ HoldersHaveLoggedIn'
  BY <1>3, <1>6 DEF AccountsAreUnique, HoldersHaveLoggedIn
<1>8. StageFitsCall' /\ SessionsHaveRows'
  BY <1>3, <1>6 DEF StageFitsCall, SessionsHaveRows
<1>9. CreationsApart' /\ NamesReserved'
  <2>1. Creating' = Creating /\ \A q \in Creating : call[q].by \in User /\ call[q].user \in User
    BY <1>3, CallTyping DEF Creating, TypeOK
  <2> QED
    BY <1>3, <1>6, <2>1
    DEF CreationsApart, NamesReserved, InsertPending, HasEmail, HasUsername
<1>10. DeactivationSticks'
  <2>1. ASSUME NEW t \in Tokens
        PROVE  since'[u] # None => /\ Outlived(t.access, AccessLife, u)'
                                   /\ Outlived(t.refresh, RefreshLife, u)'
    BY <1>4, UserAssumption DEF Outlived, Tokens
  <2>2. /\ \A v \in User : held'[v] = held[v] /\ held[v] \in Tokens
        /\ \A q \in Request : minted'[q] = minted[q] /\ minted[q] \in Tokens /\ who'[q] = who[q]
    BY <1>3 DEF TypeOK
  <2> QED
    BY <1>2, <1>4, <2>1, <2>2 DEF DeactivationSticks, Outlived
<1> QED
  BY <1>5, <1>7, <1>8, <1>9, <1>10

-----------------------------------------------------------------------------
(* The theorems.                                                           *)

\* The invariant holds in the database scripts/seed.py leaves.
LEMMA InitInductive == Init => Inductive
<1> SUFFICES ASSUME Init PROVE Inductive
  OBVIOUS
<1> DEFINE seed == [email |-> AdminEmail, username |-> AdminUsername, hashed |-> AdminPassword,
                    role |-> "admin", active |-> TRUE, logged |-> FALSE]
<1>1. AdminPassword \in Password
  BY UserAssumption DEF AdminPassword, Password
<1>2. seed \in UserRow
  BY <1>1, UserAssumption DEF UserRow, UserRole
<1>3. user = [u \in User |-> IF u # Admin THEN None ELSE seed]
  BY DEF Init
<1> HIDE DEF seed
<1>4. TypeOK
  BY <1>1, <1>2, <1>3, TokenTyping DEF Init, TypeOK
<1>5. Creating = {}
  BY DEF Init, Creating
<1>6. \A u \in User : user[u] # None => u = Admin
  BY <1>3
<1> QED
  BY <1>4, <1>5, <1>6
  DEF Init, Inductive, AccountsAreUnique, DeactivationSticks, HoldersHaveLoggedIn, StageFitsCall,
      CreationsApart, SessionsHaveRows, NamesReserved

\* Every step preserves the invariant.
LEMMA NextInductive == Inductive /\ [Next]_vars => Inductive'
<1> SUFFICES ASSUME Inductive, [Next]_vars PROVE Inductive'
  OBVIOUS
<1>1. ASSUME NEW r \in Request, NEW c \in Call, Authenticate(r, c)
      PROVE  Inductive'
  BY <1>1, AuthenticatePreserves
<1>2. ASSUME NEW r \in Request, NEW c \in Call, Login(r, c)
      PROVE  Inductive'
  <2>1. ASSUME NEW u \in User, Admits(u, c.email, c.password), Mint(r, c, u, "looked")
        PROVE  Inductive'
    BY <1>2, <2>1, MintPreserves DEF Login, Admits, HasEmail
  <2>2. CASE Fail(r, "401")
    BY <2>2, FailPreserves DEF Answers
  <2> QED
    BY <1>2, <2>1, <2>2 DEF Login
<1>3. ASSUME NEW r \in Request, NEW c \in Call, Refresh(r, c)
      PROVE  Inductive'
  <2>1. CASE RefreshAdmits(c.user)
    <3>1. /\ c.user \in User /\ user[c.user] # None /\ user[c.user].active
          /\ held[c.user].refresh > 0
          /\ pc[r] = "idle" /\ Mint(r, c, c.user, "ready") /\ c.op = "refresh"
      BY <1>3, <2>1, CallTyping DEF Refresh, RefreshAdmits, IsActive
    <3>2. held[c.user] # NoTokens
      BY <3>1, TokenTyping
    <3>3. user[c.user].logged
      BY <3>1, <3>2 DEF Inductive, HoldersHaveLoggedIn
    <3> QED
      BY <3>1, <3>3, MintPreserves
  <2>2. CASE ~RefreshAdmits(c.user)
    BY <1>3, <2>2, FailPreserves DEF Refresh, Answers
  <2> QED
    BY <2>1, <2>2
<1>4. ASSUME NEW r \in Request, LookUpEmail(r)
      PROVE  Inductive'
  <2>1. CASE \E answer \in {"409", "500"} : Fail(r, answer)
    BY <2>1, FailPreserves DEF Answers
  <2>2. CASE /\ pc' = [pc EXCEPT ![r] = "looked"]
             /\ UNCHANGED <<user, lock, call, who, minted, resp, held, since>>
    BY <1>4, <2>2, StagePreserves DEF LookUpEmail, Inductive, TypeOK
  <2> QED
    BY <1>4, <2>1, <2>2 DEF LookUpEmail
<1>5. ASSUME NEW r \in Request, Insert(r)
      PROVE  Inductive'
  <2>1. CASE Fail(r, "500")
    BY <2>1, FailPreserves DEF Answers
  <2>2. CASE /\ ~ \E u \in User : HasEmail(u, call[r].email) \/ HasUsername(u, call[r].username)
             /\ pc' = [pc EXCEPT ![r] = "ready"]
             /\ UNCHANGED <<user, lock, call, who, minted, resp, held, since>>
    BY <1>5, <2>2, StagePreserves DEF Insert, Inductive, TypeOK
  <2> QED
    BY <1>5, <2>1, <2>2 DEF Insert
<1>6. ASSUME NEW r \in Request, RecordLogin(r)
      PROVE  Inductive'
  BY <1>6, StagePreserves DEF RecordLogin, Inductive, TypeOK
<1>7. ASSUME NEW r \in Request, Commit(r)
      PROVE  Inductive'
  <2>1. PICK answer \in Answers : answer = IF call[r].op = "create" THEN "201" ELSE "200"
    BY DEF Answers
  <2>2. pc[r] = "ready" /\ Persist(r) /\ Finish(r, answer)
    BY <1>7, <2>1 DEF Commit
  <2>3. Handed(r)
    BY <1>7 DEF Commit, Handed
  <2> QED
    BY <2>2, <2>3, PersistPreserves
<1>8. ASSUME NEW r \in Request, CommitUnacknowledged(r)
      PROVE  Inductive'
  <2>1. PICK answer \in {"500", "lost"} : Finish(r, answer)
    BY <1>8 DEF CommitUnacknowledged
  <2>2. answer \in Answers
    BY DEF Answers
  <2>3. pc[r] = "ready" /\ Persist(r) /\ Handed(r)
    BY <1>8 DEF CommitUnacknowledged, Handed
  <2> QED
    BY <2>1, <2>2, <2>3, PersistPreserves
<1>9. ASSUME NEW r \in Request, Fault(r)
      PROVE  Inductive'
  BY <1>9, FailPreserves DEF Fault, Answers
<1>10. ASSUME NEW u \in User, NEW active \in BOOLEAN, SetActive(u, active)
       PROVE  Inductive'
  BY <1>10, SetActivePreserves
<1>11. CASE Tick
  BY <1>11, TickPreserves
<1>12. CASE UNCHANGED vars
  BY <1>12
  DEF vars, Inductive, TypeOK, AccountsAreUnique, DeactivationSticks, Outlived,
      HoldersHaveLoggedIn, StageFitsCall, CreationsApart, SessionsHaveRows, NamesReserved,
      Creating, InsertPending, HasEmail, HasUsername
<1> QED
  BY <1>1, <1>2, <1>3, <1>4, <1>5, <1>6, <1>7, <1>8, <1>9, <1>10, <1>11, <1>12
  DEF Next, Arrive, Proceed

\* The inductive invariant, in every reachable state.
THEOREM InductiveInvariant == Spec => []Inductive
BY InitInductive, NextInductive, PTL DEF Spec

\* Rows, requests, tokens and history keep their shapes.
THEOREM TypeCorrect == Spec => []TypeOK
<1>1. Inductive => TypeOK
  BY DEF Inductive
<1> QED
  BY <1>1, InductiveInvariant, PTL

\* An email and a username name one user, whatever creations overlap.
THEOREM AccountsUnique == Spec => []AccountsAreUnique
<1>1. Inductive => AccountsAreUnique
  BY DEF Inductive
<1> QED
  BY <1>1, InductiveInvariant, PTL

\* Deactivation is not undone by requests under way, and no token outlives it
\* by more than the life it was signed with.
THEOREM DeactivationStays == Spec => []DeactivationSticks
<1>1. Inductive => DeactivationSticks
  BY DEF Inductive
<1> QED
  BY <1>1, InductiveInvariant, PTL

\* Tokens come from recorded logins.
THEOREM TokensComeFromLogins == Spec => []HoldersHaveLoggedIn
<1>1. Inductive => HoldersHaveLoggedIn
  BY DEF Inductive
<1> QED
  BY <1>1, InductiveInvariant, PTL

\* The only rows that appear are those of ready creations.
LEMMA NewRowsAreCreations ==
  ASSUME Inductive, [Next]_vars, NEW u \in User, user[u] = None, user'[u] # None
  PROVE  \E r \in Request : pc[r] = "ready" /\ Persist(r)
<1>1. user' # user
  OBVIOUS
<1>2. ASSUME NEW r \in Request, Arrive(r)
      PROVE  user' = user
  BY <1>2 DEF Arrive, Authenticate, Login, Refresh, Mint, Fail
<1>3. ASSUME NEW r \in Request, LookUpEmail(r) \/ Insert(r) \/ RecordLogin(r) \/ Fault(r)
      PROVE  user' = user
  BY <1>3 DEF LookUpEmail, Insert, RecordLogin, Fault, Fail
<1>4. ASSUME NEW v \in User, NEW active \in BOOLEAN, SetActive(v, active)
      PROVE  user'[u] = None
  <2>1. u # v /\ user' = [user EXCEPT ![v].active = active]
    BY <1>4 DEF SetActive
  <2> QED
    BY <2>1 DEF Inductive, TypeOK
<1>5. ASSUME Tick \/ UNCHANGED vars
      PROVE  user' = user
  BY <1>5 DEF Tick, vars
<1> QED
  BY <1>1, <1>2, <1>3, <1>4, <1>5 DEF Next, Proceed, Commit, CommitUnacknowledged

\* Every user but the seeded one was created for an administrator.
THEOREM CreatorsAreAdmins == Spec => OnlyAdminsCreate
<1> DEFINE Goal ==
      \A u \in User : user[u] = None /\ user'[u] # None =>
        \E r \in Request : /\ pc[r] = "ready" /\ call[r].op = "create" /\ call[r].user = u
                           /\ user[call[r].by] # None /\ user[call[r].by].role = "admin"
<1>1. Inductive /\ [Next]_vars => [Goal]_vars
  <2> SUFFICES ASSUME Inductive, [Next]_vars, NEW u \in User, user[u] = None, user'[u] # None
               PROVE  \E r \in Request :
                        /\ pc[r] = "ready" /\ call[r].op = "create" /\ call[r].user = u
                        /\ user[call[r].by] # None /\ user[call[r].by].role = "admin"
    OBVIOUS
  <2>1. PICK r \in Request : pc[r] = "ready" /\ Persist(r)
    BY NewRowsAreCreations
  <2>2. call[r].op = "create" /\ u = call[r].user
    BY <2>1, PersistedRows
  <2>3. r \in Creating
    BY <2>1, <2>2, NoneIsNothing DEF Creating, Inductive, StageFitsCall
  <2> QED
    BY <2>1, <2>2, <2>3 DEF Inductive, CreationsApart
<1> QED
  BY <1>1, InductiveInvariant, PTL DEF Spec, OnlyAdminsCreate

=============================================================================
