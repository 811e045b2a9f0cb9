--------------------------- MODULE BackgroundTasks ---------------------------
(***************************************************************************)
(* The Celery tasks other than the purge: notifications by e-mail, the     *)
(* analysis of an order, and the hourly sweep that expires approval steps. *)
(*                                                                         *)
(* A worker takes one message at a time, a child process of it runs the    *)
(* task, and its parent acknowledges the message when the child has        *)
(* reported (task_acks_late): the broker gives the message of a worker     *)
(* that dies to another one.  self.retry publishes a message with one more *)
(* retry, then the retry is stored, and only then does the child report.   *)
(* The result backend is Redis, where a success stays whatever is stored   *)
(* after it.                                                               *)
(*                                                                         *)
(*    notification  started -> accepted -> ended -> (acknowledged)         *)
(*    analysis      started -> ended -> (acknowledged)                     *)
(*    a retry       ... -> published -> retried -> (acknowledged)          *)
(*    sweep         started -> updated -> ended -> (acknowledged)          *)
(*                                                                         *)
(* A published retry is under its countdown (default_retry_delay, 60 and   *)
(* 30 seconds): the attempt that published it is taken to be acknowledged, *)
(* or found dead, before that is over.  Redis is taken to lose nothing: it *)
(* runs with allkeys-lru, which may evict messages and results once its    *)
(* memory is full, and that is not modelled.                               *)
(***************************************************************************)
EXTENDS Naturals, FiniteSets

CONSTANTS
  Notification,   \* calls of send_approval_notification
  Analysis,       \* calls of process_ai_po_analysis
  Sweep,          \* check_approval_timeouts
  Step,           \* rows of approval_steps
  Worker,         \* processes of the worker containers
  SmtpConfigured, \* workers whose settings have smtp_user and smtp_password
  AiConfigured,   \* workers whose settings have an ai_provider with its key
  MaxCalls,       \* notifications and analyses that may be asked for, a bound
  MaxBeats,       \* messages of the sweep that may wait, a bound
  MaxDeaths,      \* workers that may die, a bound
  Outside,        \* a transaction elsewhere that decides a step
  None            \* no message, no holder of a lock

Task == Notification \cup Analysis

\* max_retries of the decorators.
MaxRetries(t) == IF t \in Notification THEN 3 ELSE IF t \in Analysis THEN 2 ELSE 0

\* A message is one call of a task with the retries it has behind it.
Message == [task : Notification, retries : 0..3] \cup [task : Analysis, retries : 0..2]
             \cup [task : {Sweep}, retries : {0}]
SweepMessage == [task |-> Sweep, retries |-> 0]

Stage == {"started", "accepted", "updated", "published", "retried", "ended"}

\* The task itself is over; its child has not reported yet.
Over == {"published", "retried", "ended"}
Held == [message : Message, stage : Stage]

Success == {"sent", "skipped", "completed"}
Result == Success \cup {"none", "pending", "started", "retry", "failed"}

\* approval_steps.status, and whether expires_at has passed.
StepRow == [status : {"pending", "decided", "expired"}, due : BOOLEAN]

ASSUME BackgroundTasksAssumption ==
  /\ Notification \cap Analysis = {}
  /\ Sweep \notin Notification \cup Analysis
  /\ SmtpConfigured \cup AiConfigured \subseteq Worker
  /\ MaxCalls \in Nat /\ MaxBeats \in Nat /\ MaxDeaths \in Nat
  /\ Outside \notin Worker
  /\ None \notin Held \cup Worker \cup {Outside}

VARIABLES
  queue,   \* how many times each message waits at the broker
  work,    \* the message each worker holds, and how far it is
  result,  \* the state of each task in the result backend
  mails,   \* e-mails the server has accepted for each notification
  step,    \* committed approval_steps rows
  lock,    \* the transaction that holds a step's row lock
  deaths,  \* how many workers have died
  late,    \* history: errors after an e-mail was accepted
  upset    \* history: tasks whose worker died

tasks == <<result, mails>>
table == <<step, lock>>
history == <<late, upset>>
vars == <<queue, work, tasks, table, deaths, history>>

Init ==
  /\ queue = [m \in Message |-> 0]
  /\ work = [w \in Worker |-> None]
  /\ result = [t \in Task |-> "none"]
  /\ mails = [t \in Notification |-> 0]
  /\ step = [s \in Step |-> [status |-> "pending", due |-> FALSE]]
  /\ lock = [s \in Step |-> None]
  /\ deaths = 0
  /\ late = [t \in Notification |-> 0]
  /\ upset = {}

-----------------------------------------------------------------------------
(* Celery.                                                                 *)

\* Storing a state leaves a success that is there.
Stored(t, state) ==
  IF result[t] \in Success THEN result ELSE [result EXCEPT ![t] = state]

At(w, stage) == work[w] # None /\ work[w].stage = stage
TaskOf(w) == work[w].message.task

\* Somebody calls delay: nothing in the repository does.
Enqueue(t) ==
  /\ result[t] = "none"
  /\ Cardinality({u \in Task : result[u] # "none"}) < MaxCalls
  /\ queue' = [queue EXCEPT ![[task |-> t, retries |-> 0]] = 1]
  /\ result' = [result EXCEPT ![t] = "pending"]
  /\ UNCHANGED <<work, mails, table, deaths, history>>

\* Beat, every hour, whether or not the sweep before has run.
Beat ==
  /\ queue[SweepMessage] < MaxBeats
  /\ queue' = [queue EXCEPT ![SweepMessage] = @ + 1]
  /\ UNCHANGED <<work, tasks, table, deaths, history>>

\* A worker whose task has published its retry: that message counts down.
Retrying(w) == At(w, "published") \/ At(w, "retried")
NextMessage(w) == [work[w].message EXCEPT !.retries = @ + 1]

\* A worker gets a message, which stays unacknowledged; task_track_started.
Take(w, m) ==
  /\ work[w] = None /\ queue[m] > 0
  /\ (\E v \in Worker : Retrying(v) /\ m = NextMessage(v)) => queue[m] > 1
  /\ queue' = [queue EXCEPT ![m] = @ - 1]
  /\ work' = [work EXCEPT ![w] = [message |-> m, stage |-> "started"]]
  /\ result' = IF m.task = Sweep THEN result ELSE Stored(m.task, "started")
  /\ UNCHANGED <<mails, table, deaths, history>>

\* The task returns or raises, and its state is stored.
End(w, state) ==
  /\ work' = [work EXCEPT ![w].stage = "ended"]
  /\ result' = Stored(TaskOf(w), state)

\* Mutation: the task enqueues itself anew instead of retrying.
Retry_Anew(w) ==
  /\ queue' = [queue EXCEPT ![work[w].message] = @ + 1]
  /\ work' = [work EXCEPT ![w].stage = "published"]
  /\ UNCHANGED result

\* raise self.retry(exc=exc): the next message is published, and nothing is stored
\* yet; when the retries are used up the exception is raised.
Retry(w) ==
  \/ /\ work[w].message.retries < MaxRetries(TaskOf(w))
     /\ queue' = [queue EXCEPT ![NextMessage(w)] = @ + 1]
     /\ work' = [work EXCEPT ![w].stage = "published"]
     /\ UNCHANGED result
  \/ /\ work[w].message.retries >= MaxRetries(TaskOf(w))
     /\ End(w, "failed")
     /\ UNCHANGED queue

\* What self.retry raises is caught by Celery, which stores the retry.
StoreRetry(w) ==
  /\ At(w, "published")
  /\ work' = [work EXCEPT ![w].stage = "retried"]
  /\ result' = Stored(TaskOf(w), "retry")
  /\ UNCHANGED <<queue, mails, table, deaths, history>>

\* The child reports, and its parent acknowledges the message.
Ack(w) ==
  /\ At(w, "retried") \/ At(w, "ended")
  /\ work' = [work EXCEPT ![w] = None]
  /\ UNCHANGED <<queue, tasks, table, deaths, history>>

\* What the end of a transaction leaves locked.
Unlocked(holder) == [s \in Step |-> IF lock[s] = holder THEN None ELSE lock[s]]

\* Mutation: the message was acknowledged when it was taken.
Die_AckedEarly(w) ==
  /\ work[w] # None /\ deaths < MaxDeaths
  /\ work' = [work EXCEPT ![w] = None]
  /\ lock' = Unlocked(w)
  /\ deaths' = deaths + 1
  /\ upset' = upset \cup {TaskOf(w)}
  /\ UNCHANGED <<queue, tasks, step, late>>

\* A worker dies with its container and its broker connection, and is started
\* again: the message it holds waits once more, and PostgreSQL rolls back.
Die(w) ==
  /\ work[w] # None /\ deaths < MaxDeaths
  /\ queue' = [queue EXCEPT ![work[w].message] = @ + 1]
  /\ work' = [work EXCEPT ![w] = None]
  /\ lock' = Unlocked(w)
  /\ deaths' = deaths + 1
  /\ upset' = upset \cup {TaskOf(w)}
  /\ UNCHANGED <<tasks, step, late>>

\* Mutation: the message goes back to the broker and the failure is stored.
LoseChild_Requeued(w) ==
  /\ work[w] # None
  /\ queue' = [queue EXCEPT ![work[w].message] = 1]
  /\ work' = [work EXCEPT ![w] = None]
  /\ lock' = Unlocked(w)
  /\ result' = IF TaskOf(w) = Sweep THEN result ELSE Stored(TaskOf(w), "failed")
  /\ UNCHANGED <<mails, step, deaths, history>>

\* A child process is killed before it reports, and its parent is not: the
\* parent acknowledges the message and stores a failure, in one step here
\* (reject_on_worker_lost is not set).  A retry that is published stays.
LoseChild(w) ==
  /\ work[w] # None
  /\ work' = [work EXCEPT ![w] = None]
  /\ lock' = Unlocked(w)
  /\ result' = IF TaskOf(w) = Sweep THEN result ELSE Stored(TaskOf(w), "failed")
  /\ UNCHANGED <<queue, mails, step, deaths, history>>

-----------------------------------------------------------------------------
(* send_approval_notification.                                             *)

\* Without credentials nothing is sent.
Skip(w) ==
  /\ At(w, "started") /\ TaskOf(w) \in Notification /\ w \notin SmtpConfigured
  /\ End(w, "skipped")
  /\ UNCHANGED <<queue, mails, table, deaths, history>>

\* Mutation: the error is logged and the task goes on to its return.
SendFails_Swallowed(w) ==
  /\ At(w, "started") /\ TaskOf(w) \in Notification /\ w \in SmtpConfigured
  /\ End(w, "sent")
  /\ UNCHANGED <<queue, mails, table, deaths, history>>

\* Connecting, STARTTLS, the login or the message fails.
SendFails(w) ==
  /\ At(w, "started") /\ TaskOf(w) \in Notification /\ w \in SmtpConfigured
  /\ Retry(w)
  /\ UNCHANGED <<mails, table, deaths, history>>

\* server.sendmail returns: the e-mail is on its way.
SendMail(w) ==
  /\ At(w, "started") /\ TaskOf(w) \in Notification /\ w \in SmtpConfigured
  /\ mails' = [mails EXCEPT ![TaskOf(w)] = @ + 1]
  /\ work' = [work EXCEPT ![w].stage = "accepted"]
  /\ UNCHANGED <<queue, result, table, deaths, history>>

\* The with block is left with a QUIT, and the task returns.
Quit(w) ==
  /\ At(w, "accepted")
  /\ End(w, "sent")
  /\ UNCHANGED <<queue, mails, table, deaths, history>>

\* The server answers the QUIT with an error, which is inside the try.
QuitFails(w) ==
  /\ At(w, "accepted")
  /\ late' = [late EXCEPT ![TaskOf(w)] = @ + 1]
  /\ Retry(w)
  /\ UNCHANGED <<mails, table, deaths, upset>>

-----------------------------------------------------------------------------
(* process_ai_po_analysis.                                                 *)

\* The provider answers with JSON; or none is configured, and POAnalyst
\* answers by itself.  The result is returned and nothing else is written.
Analyse(w) ==
  /\ At(w, "started") /\ TaskOf(w) \in Analysis
  /\ End(w, "completed")
  /\ UNCHANGED <<queue, mails, table, deaths, history>>

\* The provider fails, or its answer is not JSON.
AnalyseFails(w) ==
  /\ At(w, "started") /\ TaskOf(w) \in Analysis /\ w \in AiConfigured
  /\ Retry(w)
  /\ UNCHANGED <<mails, table, deaths, history>>

-----------------------------------------------------------------------------
(* check_approval_timeouts.                                                *)

\* Mutation: the status is not asked for.
Expirable_AnyStatus(row) == row.status # "expired" /\ row.due

\* WHERE status = PENDING AND expires_at < now.
Expirable(row) == row.status = "pending" /\ row.due

\* The UPDATE waits for the locks of the rows it finds, looks at them again
\* and keeps the locks of those it changes.
SweepUpdate(w) ==
  /\ At(w, "started") /\ TaskOf(w) = Sweep
  /\ \A s \in Step : Expirable(step[s]) => lock[s] = None
  /\ lock' = [s \in Step |-> IF Expirable(step[s]) THEN w ELSE lock[s]]
  /\ work' = [work EXCEPT ![w].stage = "updated"]
  /\ UNCHANGED <<queue, tasks, step, deaths, history>>

\* Mutation: the status is none of the enum.
SweepCommit_OddStatus(w) ==
  /\ At(w, "updated")
  /\ step' = [s \in Step |->
       IF lock[s] = w THEN [step[s] EXCEPT !.status = "timed_out"] ELSE step[s]]
  /\ lock' = Unlocked(w)
  /\ work' = [work EXCEPT ![w].stage = "ended"]
  /\ UNCHANGED <<queue, tasks, deaths, history>>

\* session.commit(), and the task returns.
SweepCommit(w) ==
  /\ At(w, "updated")
  /\ step' = [s \in Step |->
       IF lock[s] = w THEN [step[s] EXCEPT !.status = "expired"] ELSE step[s]]
  /\ lock' = Unlocked(w)
  /\ work' = [work EXCEPT ![w].stage = "ended"]
  /\ UNCHANGED <<queue, tasks, deaths, history>>

\* The database is lost: the sweep fails, and Beat starts the next one.
SweepFails(w) ==
  /\ work[w] # None /\ TaskOf(w) = Sweep /\ work[w].stage # "ended"
  /\ lock' = Unlocked(w)
  /\ work' = [work EXCEPT ![w].stage = "ended"]
  /\ UNCHANGED <<queue, tasks, step, deaths, history>>

-----------------------------------------------------------------------------
(* Approval steps elsewhere: nothing in the repository leaves one pending.  *)

Expire(s) ==
  /\ step[s].status = "pending" /\ ~step[s].due
  /\ step' = [step EXCEPT ![s].due = TRUE]
  /\ UNCHANGED <<queue, work, tasks, lock, deaths, history>>

\* A decision in a transaction of its own: SELECT ... FOR UPDATE, then commit.
Decide(s) ==
  /\ step[s].status = "pending" /\ lock[s] = None
  /\ lock' = [lock EXCEPT ![s] = Outside]
  /\ UNCHANGED <<queue, work, tasks, step, deaths, history>>
DecideCommit(s) ==
  /\ lock[s] = Outside
  /\ step' = [step EXCEPT ![s].status = "decided"]
  /\ lock' = [lock EXCEPT ![s] = None]
  /\ UNCHANGED <<queue, work, tasks, deaths, history>>

-----------------------------------------------------------------------------
Attempt(w) ==
  \/ Skip(w) \/ SendFails(w) \/ SendMail(w) \/ Quit(w) \/ QuitFails(w)
  \/ Analyse(w) \/ AnalyseFails(w)
  \/ StoreRetry(w) \/ Ack(w)

Delivery(t) == \E w \in Worker, m \in Message : m.task = t /\ Take(w, m)

SweepStep(w) == SweepUpdate(w) \/ SweepCommit(w) \/ SweepFails(w)

Elsewhere(s) == Expire(s) \/ Decide(s) \/ DecideCommit(s)

Next ==
  \/ Beat
  \/ \E t \in Task : Enqueue(t)
  \/ \E t \in Task \cup {Sweep} : Delivery(t)
  \/ \E w \in Worker : Attempt(w) \/ SweepStep(w) \/ Die(w) \/ LoseChild(w)
  \/ \E s \in Step : Elsewhere(s)

Spec == Init /\ [][Next]_vars

\* The broker delivers messages in their turn; a mail server or a provider
\* answers or drops the connection, a statement returns, a worker
\* acknowledges; and a transaction elsewhere ends.
FairSpec ==
  /\ Spec
  /\ \A t \in Task \cup {Sweep} : SF_vars(Delivery(t))
  /\ \A w \in Worker : WF_vars(Attempt(w)) /\ WF_vars(SweepStep(w))
  /\ \A s \in Step : WF_vars(DecideCommit(s))

-----------------------------------------------------------------------------
(* Properties.                                                             *)

\* Messages, results and rows keep their shapes.
TypeOK ==
  /\ queue \in [Message -> Nat]
  /\ work \in [Worker -> Held \cup {None}]
  /\ result \in [Task -> Result]
  /\ mails \in [Notification -> Nat]
  /\ step \in [Step -> StepRow]
  /\ lock \in [Step -> Worker \cup {Outside, None}]
  /\ deaths \in 0..MaxDeaths
  /\ late \in [Notification -> Nat]
  /\ upset \subseteq Task \cup {Sweep}

\* A message of the task waits, or a worker is still at it.
Waits(t) == \E m \in Message : m.task = t /\ queue[m] > 0
AtWork(t, w) == work[w] # None /\ TaskOf(w) = t /\ work[w].stage \notin Over

\* A task that has been enqueued and has no result yet is never forgotten,
\* whichever worker dies and whenever: late acknowledgement, and a retry that
\* is published before its predecessor is acknowledged.
NotForgotten ==
  \A t \in Task : result[t] \in {"pending", "started", "retry"} =>
    Waits(t) \/ \E w \in Worker : AtWork(t, w)

\* A notification that is said to be sent has been; unless a worker died with
\* it, it is sent once and once more for every error after the server took
\* it, and never more often than there are attempts.
MailsAreAccountedFor ==
  \A t \in Notification :
    /\ result[t] = "sent" => mails[t] > 0
    /\ t \notin upset => mails[t] <= late[t] + 1 /\ mails[t] <= MaxRetries(t) + 1

\* A decision stands, and only a pending step whose time is over expires: a
\* sweep that waits for a decision sees it.
DecisionsStand ==
  [][\A s \in Step :
       /\ step[s].status = "decided" => step'[s].status = "decided"
       /\ step[s].status # "expired" /\ step'[s].status = "expired" => Expirable(step[s])]_vars

\* Whatever is enqueued comes to a result that stays.
EveryTaskEnds == \A t \in Task : <>[](result[t] \in Success \cup {"none", "failed"})

\* Delivered at least once by the broker, a task is still attempted one time
\* after the other and e-mails leave only while it is, until a worker dies with
\* it.  Its result is final, but for a failure that is stored while a retry of
\* the task waits: the child was killed after it had published it.  See
\* TaskOutcomes.
Outcomes == INSTANCE TaskOutcomes WITH
  upset <- upset \ {Sweep},
  unsettled <- {t \in Task \ upset : result[t] = "failed" /\ Waits(t)}
ImplementsOutcomes == Outcomes!OutcomesSpec

-----------------------------------------------------------------------------
(* The inductive invariant behind the safety properties.                    *)

\* Only a notification the server took is accepted, only a sweep updates.
StagesFit ==
  \A w \in Worker :
    /\ At(w, "accepted") => TaskOf(w) \in Notification /\ mails[TaskOf(w)] > 0
    /\ At(w, "updated") => TaskOf(w) = Sweep

\* What a task has published in its retry waits.
RetriesWait ==
  \A w \in Worker : Retrying(w) =>
    work[w].message.retries < MaxRetries(TaskOf(w)) /\ queue[NextMessage(w)] > 0

\* What nobody has asked for is nowhere.
UnaskedIsNowhere ==
  \A t \in Task : result[t] = "none" =>
    /\ ~Waits(t) /\ \A w \in Worker : work[w] # None => TaskOf(w) # t
    /\ t \in Notification => mails[t] = 0 /\ late[t] = 0

\* As long as no worker has died with it, a notification is in one place, and
\* the errors it has behind it each cost a retry.
OneChain ==
  \A t \in Notification \ upset :
    /\ \A m \in Message : m.task = t /\ queue[m] > 0 =>
         /\ queue[m] = 1 /\ \A n \in Message : n.task = t /\ queue[n] > 0 => n = m
         /\ \A w \in Worker : ~AtWork(t, w)
         /\ late[t] <= m.retries /\ mails[t] <= late[t]
    /\ \A w \in Worker : AtWork(t, w) =>
         /\ \A v \in Worker : AtWork(t, v) => v = w
         /\ late[t] <= work[w].message.retries
         /\ mails[t] <= late[t] \/ (At(w, "accepted") /\ mails[t] <= late[t] + 1)

\* A task waits in one message or is in the hands of one worker; or both, when
\* the worker has published the message.  Its result says which.
Holds(w, t) == work[w] # None /\ TaskOf(w) = t
ResultsAt(stage) ==
  CASE stage = "retried" -> {"retry"}
    [] stage = "ended" -> Success \cup {"failed"}
    [] OTHER -> {"started"}
InOnePlace(t) ==
  /\ \A w \in Worker : Holds(w, t) =>
       /\ \A v \in Worker : Holds(v, t) => v = w
       /\ result[t] \in ResultsAt(work[w].stage)
  /\ \A m \in Message : m.task = t /\ queue[m] > 0 =>
       /\ queue[m] = 1 /\ \A n \in Message : n.task = t /\ queue[n] > 0 => n = m
       /\ \A w \in Worker : Holds(w, t) => Retrying(w) /\ m = NextMessage(w)
       /\ result[t] \in {"pending", "retry", "failed"} \/ \E w \in Worker : Holds(w, t)

\* Sweeps lock rows they may expire, decisions rows that are pending.
LocksFit ==
  \A s \in Step :
    /\ lock[s] \in Worker => Expirable(step[s])
    /\ lock[s] = Outside => step[s].status = "pending"

Inductive ==
  /\ TypeOK
  /\ NotForgotten
  /\ MailsAreAccountedFor
  /\ StagesFit
  /\ RetriesWait
  /\ UnaskedIsNowhere
  /\ OneChain
  /\ LocksFit

\* What the refinement of TaskOutcomes needs besides: so it is as long as no
\* worker has died with the task.
PlacesFit == \A t \in Task \ upset : InOnePlace(t)

=============================================================================
