---------------------------- MODULE UserDirectory ----------------------------
(***************************************************************************)
(* Accounts and sessions: POST /users by administrators, login, refresh,   *)
(* and the current-user dependency every other route starts with.          *)
(*                                                                         *)
(* A token is its subject, its type and the time it has left; clients keep *)
(* the token of each type that lasts longest.  email and username are      *)
(* UNIQUE columns; only the email is looked up before an INSERT.  Every    *)
(* request is one transaction and a request slot serves one after another. *)
(*                                                                         *)
(*    create    idle -> known -> looked -> ready -> idle                   *)
(*    login     idle -> looked -> ready -> idle                            *)
(*    refresh   idle -> ready -> idle                                      *)
(***************************************************************************)
EXTENDS Naturals, POStatus

CONSTANTS
  User,         \* primary keys users can have
  Admin,        \* the administrator scripts/seed.py creates
  Email, Username,
  AdminEmail, AdminUsername,
  Secret,       \* passwords without the blanks around them
  AdminSecret,
  Empty,        \* the empty one
  TooLong,      \* those longer than 72 bytes
  Padded,       \* whether a password may come with blanks around it
  Role,         \* roles new users are given
  AccessLife,   \* jwt_access_token_expire_minutes
  RefreshLife,  \* jwt_refresh_token_expire_days, in the same unit
  Request,      \* request slots
  Faulty,       \* slots whose process may die or lose the database
  None          \* no row, no call, no user, no lock holder, no deactivation

Password == [secret : Secret, padded : Padded]

\* The columns that matter; hashed stands for the password it is the hash of.
UserRow == [email : Email, username : Username, hashed : Password, role : UserRole,
            active : BOOLEAN, logged : BOOLEAN]

Tokens == [access : 0..AccessLife, refresh : 0..RefreshLife]

\* by: the subject of the bearer token; user: the uuid4 of the new row.
Call ==
  [op : {"create"}, by : User, user : User, email : Email, username : Username,
   password : Password, role : Role]
    \cup [op : {"login"}, email : Email, password : Password]
    \cup [op : {"refresh"}, user : User]

ASSUME UserAssumption ==
  /\ Admin \in User /\ AdminEmail \in Email /\ AdminUsername \in Username
  /\ TooLong \subseteq Secret \ {Empty}
  /\ AdminSecret \in Secret \ (TooLong \cup {Empty})
  /\ Padded \subseteq BOOLEAN /\ FALSE \in Padded
  /\ Role \subseteq UserRole
  /\ AccessLife \in Nat /\ RefreshLife \in Nat
  /\ Faulty \subseteq Request
  /\ None \notin UserRow \cup Call \cup User \cup Request \cup Nat

VARIABLES
  user,     \* committed users rows
  lock,     \* the request that holds a row lock
  pc,       \* where each slot stands
  call,     \* what its client asks for
  who,      \* the users row the login or the refresh loaded
  minted,   \* the tokens it has signed and not handed out
  resp,     \* the answer it gave, once idle again
  held,     \* the time left of the best tokens of each user
  since     \* history: how long ago a user was deactivated, at most RefreshLife

requests == <<pc, call, who, minted, resp>>
vars     == <<user, lock, pc, call, who, minted, resp, held, since>>

NoTokens == [access |-> 0, refresh |-> 0]

\* create_access_token and create_refresh_token.
NewTokens == [access |-> AccessLife, refresh |-> RefreshLife]

\* hash_password strips the password; verify_password does not.
Stripped(password) == [password EXCEPT !.padded = FALSE]

AdminPassword == [secret |-> AdminSecret, padded |-> FALSE]

\* The database after scripts/seed.py.
Init ==
  /\ user = [u \in User |-> IF u # Admin THEN None ELSE
               [email |-> AdminEmail, username |-> AdminUsername, hashed |-> AdminPassword,
                role |-> "admin", active |-> TRUE, logged |-> FALSE]]
  /\ lock = [u \in User |-> None]
  /\ pc = [r \in Request |-> "idle"]
  /\ call = [r \in Request |-> None]
  /\ who = [r \in Request |-> None]
  /\ minted = [r \in Request |-> NoTokens]
  /\ resp = [r \in Request |-> "none"]
  /\ held = [u \in User |-> NoTokens]
  /\ since = [u \in User |-> None]

\* The end of a request: its slot is free for the next, and so is its row.
Finish(r, answer) ==
  /\ pc' = [pc EXCEPT ![r] = "idle"]
  /\ call' = [call EXCEPT ![r] = None]
  /\ who' = [who EXCEPT ![r] = None]
  /\ minted' = [minted EXCEPT ![r] = NoTokens]
  /\ resp' = [resp EXCEPT ![r] = answer]
  /\ lock' = [u \in User |-> IF lock[u] = r THEN None ELSE lock[u]]

\* get_db rolls back and the handlers of main.py answer.
Fail(r, answer) ==
  /\ Finish(r, answer)
  /\ UNCHANGED <<user, held, since>>

-----------------------------------------------------------------------------
(* POST /users.                                                            *)

\* decode_token accepts a token that has not expired, of either type.
Bears(u) == held[u].access > 0 \/ held[u].refresh > 0

IsActive(u) == user[u] # None /\ user[u].active

\* Mutation: the route has no require_role.
CreateRefusal_NoRole(c) == IF ~Bears(c.by) \/ ~IsActive(c.by) THEN "401" ELSE "none"

\* get_current_user and require_role(ADMIN).
CreateRefusal(c) ==
  IF ~Bears(c.by) \/ ~IsActive(c.by) THEN "401"
  ELSE IF user[c.by].role # "admin" THEN "403"
  ELSE "none"

Creating == {r \in Request : call[r] # None /\ call[r].op = "create"}

\* No row has the uuid4 of a new user, and no other request drew it.
Fresh(u) == user[u] = None /\ \A r \in Creating : call[r].user # u

\* The SELECT of get_current_user, and the checks on its row.
Authenticate(r, c) ==
  /\ pc[r] = "idle" /\ c.op = "create"
  /\ Fresh(c.user)
  /\ IF CreateRefusal(c) # "none"
     THEN Fail(r, CreateRefusal(c))
     ELSE /\ pc' = [pc EXCEPT ![r] = "known"]
          /\ call' = [call EXCEPT ![r] = c]
          /\ resp' = [resp EXCEPT ![r] = "none"]
          /\ UNCHANGED <<user, lock, who, minted, held, since>>

HasEmail(u, email) == user[u] # None /\ user[u].email = email
HasUsername(u, name) == user[u] # None /\ user[u].username = name

\* hash_password raises ValueError for an empty password, which it looks for
\* before it strips (of blanks it makes the hash of nothing), and for a long one,
\* which it looks for afterwards.
Unhashable(password) ==
  \/ password.secret = Empty /\ ~password.padded
  \/ password.secret \in TooLong

\* get_by_email answers 409 if a row has the email; the ValueError of
\* hash_password, which nothing catches, is a 500.
LookUpEmail(r) ==
  /\ pc[r] = "known"
  /\ IF \E u \in User : HasEmail(u, call[r].email) THEN Fail(r, "409")
     ELSE IF Unhashable(call[r].password) THEN Fail(r, "500")
     ELSE /\ pc' = [pc EXCEPT ![r] = "looked"]
          /\ UNCHANGED <<user, lock, call, who, minted, resp, held, since>>

\* An uncommitted INSERT of another request with the email or the username.
InsertPending(r) ==
  \E q \in Creating \ {r} :
    /\ pc[q] = "ready"
    /\ call[q].email = call[r].email \/ call[q].username = call[r].username

\* Mutation: the username is not UNIQUE.
Insert_NamesRepeat(r) ==
  /\ pc[r] = "looked" /\ call[r].op = "create"
  /\ ~InsertPending(r)
  /\ IF \E u \in User : HasEmail(u, call[r].email)
     THEN Fail(r, "500")
     ELSE /\ pc' = [pc EXCEPT ![r] = "ready"]
          /\ UNCHANGED <<user, lock, call, who, minted, resp, held, since>>

\* INSERT INTO users: it waits for transactions that have the email or the
\* username, and raises IntegrityError if a row has one of them.
Insert(r) ==
  /\ pc[r] = "looked" /\ call[r].op = "create"
  /\ ~InsertPending(r)
  /\ IF \E u \in User : HasEmail(u, call[r].email) \/ HasUsername(u, call[r].username)
     THEN Fail(r, "500")
     ELSE /\ pc' = [pc EXCEPT ![r] = "ready"]
          /\ UNCHANGED <<user, lock, call, who, minted, resp, held, since>>

NewRow(c) == [email |-> c.email, username |-> c.username, hashed |-> Stripped(c.password),
              role |-> c.role, active |-> TRUE, logged |-> FALSE]

-----------------------------------------------------------------------------
(* Sessions.                                                               *)

\* The row login accepts the credentials for: the password verifies and the
\* account is not disabled.
Admits(u, email, password) == HasEmail(u, email) /\ user[u].hashed = password /\ user[u].active

\* A request that has loaded an active user signs new tokens for it.
Mint(r, c, u, stage) ==
  /\ pc' = [pc EXCEPT ![r] = stage]
  /\ call' = [call EXCEPT ![r] = c]
  /\ who' = [who EXCEPT ![r] = u]
  /\ minted' = [minted EXCEPT ![r] = NewTokens]
  /\ resp' = [resp EXCEPT ![r] = "none"]
  /\ UNCHANGED <<user, lock, held, since>>

\* AuthService.login as far as its UPDATE: nothing is awaited between the SELECT
\* and the signatures, which no unit of time separates.
Login(r, c) ==
  /\ pc[r] = "idle" /\ c.op = "login"
  /\ \/ \E u \in User : Admits(u, c.email, c.password) /\ Mint(r, c, u, "looked")
     \/ ~(\E u \in User : Admits(u, c.email, c.password)) /\ Fail(r, "401")

\* UPDATE users SET last_login_at: it waits for the row lock.
RecordLogin(r) ==
  /\ pc[r] = "looked" /\ call[r].op = "login"
  /\ lock[who[r]] = None
  /\ lock' = [lock EXCEPT ![who[r]] = r]
  /\ pc' = [pc EXCEPT ![r] = "ready"]
  /\ UNCHANGED <<user, call, who, minted, resp, held, since>>

\* verify_token_type wants an unexpired refresh token; its user is active.
RefreshAdmits(u) == held[u].refresh > 0 /\ IsActive(u)

\* AuthService.refresh: nothing is written.
Refresh(r, c) ==
  /\ pc[r] = "idle" /\ c.op = "refresh"
  /\ IF RefreshAdmits(c.user) THEN Mint(r, c, c.user, "ready") ELSE Fail(r, "401")

-----------------------------------------------------------------------------
(* The end of a request, and what happens elsewhere.                       *)

\* Mutation: login writes the whole row as it was when the password was checked.
Written_WholeRow(c, u) ==
  CASE c.op = "create" -> [user EXCEPT ![c.user] = NewRow(c)]
    [] c.op = "login"  -> [user EXCEPT ![u].logged = TRUE, ![u].active = TRUE]
    [] OTHER           -> user

\* The rows after the commit of a request that loaded u.
Written(c, u) ==
  CASE c.op = "create" -> [user EXCEPT ![c.user] = NewRow(c)]
    [] c.op = "login"  -> [user EXCEPT ![u].logged = TRUE]
    [] OTHER           -> user

Later(m, n) == IF m > n THEN m ELSE n

\* What the clients hold once u has got the tokens.
Delivered(u, tokens) ==
  [held EXCEPT ![u] = [access  |-> Later(held[u].access, tokens.access),
                       refresh |-> Later(held[u].refresh, tokens.refresh)]]

Persist(r) ==
  /\ user' = Written(call[r], who[r])
  /\ UNCHANGED since

\* get_db commits, and then the answer leaves with the tokens.
Commit(r) ==
  /\ pc[r] = "ready"
  /\ Persist(r)
  /\ held' = IF who[r] = None THEN held ELSE Delivered(who[r], minted[r])
  /\ Finish(r, IF call[r].op = "create" THEN "201" ELSE "200")

\* The commit succeeds and the client does not hear of it.
CommitUnacknowledged(r) ==
  /\ r \in Faulty
  /\ pc[r] = "ready"
  /\ Persist(r)
  /\ UNCHANGED held
  /\ \E answer \in {"500", "lost"} : Finish(r, answer)

\* Mutation: the answer leaves before the commit, which then fails.
Fault_AnswerFirst(r) ==
  /\ r \in Faulty
  /\ pc[r] \in {"known", "looked", "ready"}
  /\ held' = IF who[r] = None THEN held ELSE Delivered(who[r], minted[r])
  /\ \E answer \in {"500", "lost"} : Finish(r, answer)
  /\ UNCHANGED <<user, since>>

\* The process dies or the database is lost before the commit.
Fault(r) ==
  /\ r \in Faulty
  /\ pc[r] \in {"known", "looked", "ready"}
  /\ \E answer \in {"500", "lost"} : Fail(r, answer)

\* No route sets is_active, though UserUpdate has it: an administrator does,
\* in the database.
SetActive(u, active) ==
  /\ user[u] # None /\ user[u].active # active
  /\ lock[u] = None
  /\ user' = [user EXCEPT ![u].active = active]
  /\ since' = [since EXCEPT ![u] = IF active THEN None ELSE 0]
  /\ UNCHANGED <<lock, requests, held>>

Older(tokens) == [access  |-> IF tokens.access > 0 THEN tokens.access - 1 ELSE 0,
                  refresh |-> IF tokens.refresh > 0 THEN tokens.refresh - 1 ELSE 0]

\* A unit of time passes, for every token alike.
Tick ==
  /\ held' = [u \in User |-> Older(held[u])]
  /\ minted' = [r \in Request |-> Older(minted[r])]
  /\ since' = [u \in User |-> IF since[u] = None \/ since[u] = RefreshLife
                              THEN since[u] ELSE since[u] + 1]
  /\ UNCHANGED <<user, lock, pc, call, who, resp>>

-----------------------------------------------------------------------------
Arrive(r) == \E c \in Call : Authenticate(r, c) \/ Login(r, c) \/ Refresh(r, c)

Proceed(r) == LookUpEmail(r) \/ Insert(r) \/ RecordLogin(r) \/ Commit(r)

Next ==
  \/ \E r \in Request : Arrive(r) \/ Proceed(r) \/ CommitUnacknowledged(r) \/ Fault(r)
  \/ \E u \in User, active \in BOOLEAN : SetActive(u, active)
  \/ Tick

Spec == Init /\ [][Next]_vars

-----------------------------------------------------------------------------
(* Properties.                                                             *)

\* Rows, requests, tokens and history keep their shapes.
TypeOK ==
  /\ user \in [User -> UserRow \cup {None}]
  /\ lock \in [User -> Request \cup {None}]
  /\ pc \in [Request -> {"idle", "known", "looked", "ready"}]
  /\ call \in [Request -> Call \cup {None}]
  /\ who \in [Request -> User \cup {None}]
  /\ minted \in [Request -> Tokens]
  /\ resp \in [Request -> {"none", "200", "201", "401", "403", "409", "500", "lost"}]
  /\ held \in [User -> Tokens]
  /\ since \in [User -> 0..RefreshLife \cup {None}]

\* No two users share an email or a username, whatever creations overlap: the
\* route looks only for committed emails, the UNIQUE columns decide.
AccountsAreUnique ==
  \A u, v \in User :
    u # v /\ user[u] # None /\ user[v] # None =>
      user[u].email # user[v].email /\ user[u].username # user[v].username

\* Every user but the seeded one was created for an administrator, however
\* many statements lie between the check of the role and the commit.
OnlyAdminsCreate ==
  [][\A u \in User : user[u] = None /\ user'[u] # None =>
       \E r \in Request : /\ pc[r] = "ready" /\ call[r].op = "create" /\ call[r].user = u
                          /\ user[call[r].by] # None /\ user[call[r].by].role = "admin"]_vars

\* A token of u that had life units of time and has left of them is older
\* than the deactivation of u, or as old.
Outlived(left, life, u) == left = 0 \/ left + since[u] <= life

\* Deactivation sticks: no login or refresh under way undoes it, and RefreshLife
\* later no token of the user is valid, however long requests that had
\* read the row before took to write, commit and answer.
DeactivationSticks ==
  \A u \in User : since[u] # None =>
    /\ user[u] # None /\ ~user[u].active
    /\ Outlived(held[u].access, AccessLife, u) /\ Outlived(held[u].refresh, RefreshLife, u)
    /\ \A r \in Request : who[r] = u =>
         /\ Outlived(minted[r].access, AccessLife, u)
         /\ Outlived(minted[r].refresh, RefreshLife, u)

\* Whoever holds a token has a recorded login: tokens leave only after the
\* commit of last_login_at, and refreshed ones descend from such tokens.
HoldersHaveLoggedIn ==
  \A u \in User : held[u] # NoTokens => user[u] # None /\ user[u].logged

-----------------------------------------------------------------------------
(* The inductive invariant behind the properties.                          *)

\* A slot that works has a call, and the stages fit the operations.
StageFitsCall ==
  \A r \in Request :
    /\ pc[r] = "idle" => call[r] = None /\ who[r] = None
    /\ pc[r] # "idle" => call[r] \in Call
    /\ pc[r] = "known" => call[r].op = "create"
    /\ pc[r] = "looked" => call[r].op \in {"create", "login"}

\* A creation works for an administrator and on a key without a row, which it
\* has to itself.
CreationsApart ==
  /\ \A r \in Creating :
       /\ who[r] = None
       /\ user[call[r].by] # None /\ user[call[r].by].role = "admin"
       /\ user[call[r].user] = None
  /\ \A r, q \in Creating : r # q => call[r].user # call[q].user

\* A login or a refresh works on a row, and a refresh on one that has logged in.
SessionsHaveRows ==
  \A r \in Request : call[r] # None /\ call[r].op # "create" =>
    /\ who[r] \in User /\ user[who[r]] # None
    /\ call[r].op = "refresh" => user[who[r]].logged

\* An uncommitted INSERT has its email and its username to itself.
NamesReserved ==
  \A r \in Creating : pc[r] = "ready" =>
    /\ \A u \in User : ~HasEmail(u, call[r].email) /\ ~HasUsername(u, call[r].username)
    /\ ~InsertPending(r)

Inductive ==
  /\ TypeOK
  /\ AccountsAreUnique
  /\ DeactivationSticks
  /\ HoldersHaveLoggedIn
  /\ StageFitsCall
  /\ CreationsApart
  /\ SessionsHaveRows
  /\ NamesReserved

=============================================================================
