----------------------- MODULE BackgroundTasks_proofs -----------------------
(***************************************************************************)
(* Proofs about BackgroundTasks, for every set of tasks, workers and steps *)
(* and every number of deaths.                                             *)
(***************************************************************************)
EXTENDS BackgroundTasks, TLAPS

-----------------------------------------------------------------------------
(* Messages.                                                               *)

\* None stands for nothing a variable could otherwise hold.
LEMMA NoneIsNothing ==
  None \notin Held /\ None \notin Worker /\ None # Outside /\ Outside \notin Worker
BY BackgroundTasksAssumption

\* The components of a message; the one that retries it.
LEMMA MessageTyping ==
  ASSUME NEW m \in Message
  PROVE  /\ m.task \in Task \cup {Sweep} /\ m.retries \in Nat
         /\ m.task = Sweep => m = SweepMessage
         /\ m.retries <= MaxRetries(m.task)
         /\ m.task \in Notification => MaxRetries(m.task) = 3
         /\ m.retries < MaxRetries(m.task) =>
              LET n == [m EXCEPT !.retries = @ + 1] IN
              n \in Message /\ n.task = m.task /\ n.retries = m.retries + 1
BY BackgroundTasksAssumption DEF Message, MaxRetries, Task, SweepMessage

\* The message of a call.
LEMMA FirstMessage ==
  /\ \A t \in Task : LET m == [task |-> t, retries |-> 0] IN
       m \in Message /\ m.task = t /\ m.retries = 0
  /\ SweepMessage \in Message /\ SweepMessage.task = Sweep /\ Sweep \notin Task
BY BackgroundTasksAssumption DEF Message, Task, SweepMessage

\* What a worker holds.
LEMMA HeldTyping ==
  ASSUME TypeOK, NEW w \in Worker, work[w] # None
  PROVE  /\ work[w] \in Held /\ work[w].message \in Message /\ work[w].stage \in Stage
         /\ \A g \in Stage : [work[w] EXCEPT !.stage = g] \in Held
BY DEF TypeOK, Held

\* A task that has published its retry, and the message of it.
LEMMA RetryingTyping ==
  ASSUME Inductive, NEW w \in Worker, Retrying(w)
  PROVE  /\ work[w] # None /\ work[w].stage \in Over /\ TaskOf(w) \in Task
         /\ NextMessage(w) \in Message /\ NextMessage(w).task = TaskOf(w)
         /\ queue[NextMessage(w)] > 0
<1>1. work[w] # None /\ work[w].stage \in Over
  BY DEF Retrying, At, Over
<1>2. /\ work[w].message \in Message
      /\ work[w].message.retries < MaxRetries(work[w].message.task)
      /\ queue[NextMessage(w)] > 0
  BY <1>1, HeldTyping DEF Inductive, RetriesWait, TaskOf
<1>3. MaxRetries(Sweep) = 0
  BY BackgroundTasksAssumption DEF MaxRetries
<1> QED
  BY <1>1, <1>2, <1>3, MessageTyping DEF NextMessage, TaskOf

\* A published retry waits as long as it counts down.
LEMMA RetriesStay ==
  ASSUME Inductive,
         \A w \in Worker : Retrying(w)' =>
           /\ Retrying(w) /\ work'[w].message = work[w].message
           /\ queue'[NextMessage(w)] > 0
  PROVE  RetriesWait'
BY DEF Inductive, RetriesWait, NextMessage, TaskOf

\* What is stored is a result, and a success that was there stays.
LEMMA StoredTyping ==
  ASSUME TypeOK, NEW t \in Task, NEW state \in Result
  PROVE  /\ Stored(t, state) \in [Task -> Result]
         /\ \A u \in Task \ {t} : Stored(t, state)[u] = result[u]
         /\ Stored(t, state)[t] \in {state, result[t]}
         /\ result[t] \notin Success => Stored(t, state)[t] = state
         /\ result[t] \in Success => Stored(t, state)[t] = result[t]
BY DEF TypeOK, Stored

-----------------------------------------------------------------------------
(* Steps that leave the tasks where they are.                              *)

\* What a worker holds is no attempt at a task.
Aside(held) == held = None \/ held.stage \in Over \/ held.message.task = Sweep

\* Only sweeps move, or messages that are dealt with.
LEMMA TaskFrame ==
  ASSUME Inductive, UNCHANGED <<result, mails, late>>, upset \subseteq upset',
         \A m \in Message : m.task \in Task => queue'[m] = queue[m],
         \A w \in Worker :
           \/ work'[w] = work[w]
           \/ /\ Aside(work[w]) /\ Aside(work'[w])
              /\ work'[w] # None =>
                   /\ work[w] # None \/ work'[w].message.task = Sweep
                   /\ work[w] # None => work'[w].message = work[w].message
                   /\ work'[w].stage \notin {"accepted", "published", "retried"}
                   /\ work'[w].stage = "updated" => work'[w].message.task = Sweep
  PROVE  /\ NotForgotten' /\ MailsAreAccountedFor' /\ StagesFit'
         /\ RetriesWait' /\ UnaskedIsNowhere' /\ OneChain'
<1>0. Sweep \notin Task
  BY FirstMessage
<1>1. ASSUME NEW w \in Worker, NEW t \in Task, AtWork(t, w)
      PROVE  AtWork(t, w)' /\ work'[w] = work[w]
  BY <1>0, <1>1 DEF AtWork, TaskOf, Aside
<1>2. ASSUME NEW w \in Worker, NEW t \in Task, AtWork(t, w)'
      PROVE  AtWork(t, w) /\ work'[w] = work[w]
  BY <1>0, <1>2 DEF AtWork, TaskOf, Aside
<1>3. \A t \in Task : Waits(t)' <=> Waits(t)
  BY DEF Waits
<1>4. NotForgotten'
  BY <1>1, <1>3 DEF Inductive, NotForgotten
<1>5. MailsAreAccountedFor'
  BY DEF Inductive, MailsAreAccountedFor
<1>6. StagesFit'
  BY DEF Inductive, StagesFit, At, TaskOf
<1>7. UnaskedIsNowhere'
  BY <1>0, <1>3 DEF Inductive, UnaskedIsNowhere, TaskOf
<1>8. OneChain'
  <2> SUFFICES ASSUME NEW t \in Notification, t \notin upset'
               PROVE  /\ \A m \in Message : m.task = t /\ queue'[m] > 0 =>
                          /\ queue'[m] = 1
                          /\ \A n \in Message : n.task = t /\ queue'[n] > 0 => n = m
                          /\ \A w \in Worker : ~AtWork(t, w)'
                          /\ late[t] <= m.retries /\ mails[t] <= late[t]
                      /\ \A w \in Worker : AtWork(t, w)' =>
                          /\ \A v \in Worker : AtWork(t, v)' => v = w
                          /\ late[t] <= work'[w].message.retries
                          /\ \/ mails[t] <= late[t]
                             \/ At(w, "accepted")' /\ mails[t] <= late[t] + 1
    BY DEF OneChain, AtWork, TaskOf, At
  <2>1. t \in Task /\ t \notin upset
    BY DEF Task
  <2>2. ASSUME NEW m \in Message, m.task = t, queue'[m] > 0
        PROVE  /\ queue'[m] = 1
               /\ \A n \in Message : n.task = t /\ queue'[n] > 0 => n = m
               /\ \A w \in Worker : ~AtWork(t, w)'
               /\ late[t] <= m.retries /\ mails[t] <= late[t]
    BY <2>1, <2>2, <1>2 DEF Inductive, OneChain
  <2>3. ASSUME NEW w \in Worker, AtWork(t, w)'
        PROVE  /\ \A v \in Worker : AtWork(t, v)' => v = w
               /\ late[t] <= work'[w].message.retries
               /\ \/ mails[t] <= late[t]
                  \/ At(w, "accepted")' /\ mails[t] <= late[t] + 1
    BY <2>1, <2>3, <1>2 DEF Inductive, OneChain, At
  <2> QED
    BY <2>2, <2>3
<1>9. RetriesWait'
  <2> SUFFICES ASSUME NEW w \in Worker, Retrying(w)'
               PROVE  /\ Retrying(w) /\ work'[w].message = work[w].message
                      /\ queue'[NextMessage(w)] > 0
    BY RetriesStay
  <2>1. work'[w] = work[w] /\ Retrying(w)
    BY DEF Retrying, At
  <2> QED
    BY <2>1, RetryingTyping
<1> QED
  BY <1>4, <1>5, <1>6, <1>7, <1>8, <1>9

\* The invariant holds in the initial states.
LEMMA InitInductive == Init => Inductive
<1> SUFFICES ASSUME Init PROVE Inductive
  OBVIOUS
<1>1. TypeOK
  BY BackgroundTasksAssumption DEF Init, TypeOK, StepRow, Result
<1>2. \A w \in Worker : work[w] = None
  BY DEF Init
<1>3. NotForgotten /\ MailsAreAccountedFor
  BY BackgroundTasksAssumption DEF Init, NotForgotten, MailsAreAccountedFor, MaxRetries, Task
<1>4. StagesFit /\ RetriesWait /\ UnaskedIsNowhere
  BY <1>2 DEF Init, StagesFit, RetriesWait, Retrying, UnaskedIsNowhere, At, Waits
<1>5. OneChain
  BY <1>2 DEF Init, OneChain, AtWork
<1>6. LocksFit
  BY NoneIsNothing DEF Init, LocksFit
<1> QED
  BY <1>1, <1>3, <1>4, <1>5, <1>6 DEF Inductive

\* Beat.
LEMMA BeatPreserves ==
  ASSUME Inductive, Beat
  PROVE  Inductive'
<1>1. TypeOK'
  BY FirstMessage DEF Inductive, TypeOK, Beat, tasks, table, history
<1>2. \A m \in Message : m.task \in Task => queue'[m] = queue[m]
  BY FirstMessage DEF Inductive, TypeOK, Beat
<1>3. UNCHANGED <<work, result, mails, late, upset, step, lock>>
  BY DEF Beat, tasks, table, history
<1>4. /\ NotForgotten' /\ MailsAreAccountedFor' /\ StagesFit'
      /\ RetriesWait' /\ UnaskedIsNowhere' /\ OneChain'
  BY <1>2, <1>3, TaskFrame
<1>5. LocksFit'
  BY <1>3 DEF Inductive, LocksFit, Expirable
<1> QED
  BY <1>1, <1>4, <1>5 DEF Inductive

\* An acknowledgement.
LEMMA AckPreserves ==
  ASSUME Inductive, NEW w \in Worker, Ack(w)
  PROVE  Inductive'
<1>1. TypeOK'
  BY DEF Inductive, TypeOK, Ack, tasks, table, history
<1>2. UNCHANGED <<queue, result, mails, late, upset, step, lock>>
  BY DEF Ack, tasks, table, history
<1>3. /\ Aside(work[w]) /\ work'[w] = None
      /\ \A v \in Worker \ {w} : work'[v] = work[v]
  BY DEF Inductive, TypeOK, Ack, At, Aside, Over
<1>4. /\ NotForgotten' /\ MailsAreAccountedFor' /\ StagesFit'
      /\ RetriesWait' /\ UnaskedIsNowhere' /\ OneChain'
  <2>1. Aside(work'[w])
    BY <1>3 DEF Aside
  <2> QED
    BY <1>2, <1>3, <2>1, TaskFrame
<1>5. LocksFit'
  BY <1>2 DEF Inductive, LocksFit, Expirable
<1> QED
  BY <1>1, <1>4, <1>5 DEF Inductive

-----------------------------------------------------------------------------
(* Sweeps and steps.                                                       *)

\* A worker's sweep moves on.
LEMMA SweepFrame ==
  ASSUME Inductive, TypeOK', NEW w \in Worker, work[w] # None, TaskOf(w) = Sweep,
         NEW g \in {"updated", "ended"}, work' = [work EXCEPT ![w].stage = g],
         UNCHANGED <<queue, result, mails, late, upset>>
  PROVE  /\ NotForgotten' /\ MailsAreAccountedFor' /\ StagesFit'
         /\ RetriesWait' /\ UnaskedIsNowhere' /\ OneChain'
<1>1. /\ work'[w].stage = g /\ work'[w].message = work[w].message
      /\ \A v \in Worker \ {w} : work'[v] = work[v]
  BY HeldTyping DEF Inductive, TypeOK, Held
<1>2. Aside(work[w]) /\ Aside(work'[w]) /\ work'[w].message.task = Sweep
  BY <1>1 DEF Aside, TaskOf
<1> QED
  BY <1>1, <1>2, TaskFrame

\* The UPDATE, the commit and the failure of a sweep.
LEMMA SweepPreserves ==
  ASSUME Inductive, NEW w \in Worker, SweepStep(w)
  PROVE  Inductive'
<1>1. CASE SweepUpdate(w)
  <2>1. TypeOK'
    BY <1>1, HeldTyping DEF Inductive, TypeOK, SweepUpdate, At, tasks, history, Stage
  <2>2. /\ work[w] # None /\ TaskOf(w) = Sweep
        /\ work' = [work EXCEPT ![w].stage = "updated"]
        /\ UNCHANGED <<queue, result, mails, late, upset, step>>
    BY <1>1 DEF SweepUpdate, At, tasks, history
  <2>3. LocksFit'
    BY <1>1, <2>2, NoneIsNothing DEF Inductive, LocksFit, SweepUpdate, Expirable
  <2> QED
    BY <2>1, <2>2, <2>3, SweepFrame DEF Inductive
<1>2. CASE SweepCommit(w)
  <2>1. work[w] # None /\ TaskOf(w) = Sweep
    BY <1>2 DEF Inductive, StagesFit, SweepCommit, At
  <2>2. TypeOK'
    BY <1>2, <2>1, HeldTyping
    DEF Inductive, TypeOK, SweepCommit, tasks, history, Stage, StepRow, Unlocked
  <2>3. /\ work' = [work EXCEPT ![w].stage = "ended"]
        /\ UNCHANGED <<queue, result, mails, late, upset>>
    BY <1>2 DEF SweepCommit, tasks, history
  <2>4. LocksFit'
    BY <1>2, NoneIsNothing DEF Inductive, LocksFit, SweepCommit, Unlocked, Expirable
  <2> QED
    BY <2>1, <2>2, <2>3, <2>4, SweepFrame DEF Inductive
<1>3. CASE SweepFails(w)
  <2>1. work[w] # None /\ TaskOf(w) = Sweep
    BY <1>3 DEF SweepFails
  <2>2. TypeOK'
    BY <1>3, <2>1, HeldTyping DEF Inductive, TypeOK, SweepFails, tasks, history, Stage, Unlocked
  <2>3. /\ work' = [work EXCEPT ![w].stage = "ended"]
        /\ UNCHANGED <<queue, result, mails, late, upset, step>>
    BY <1>3 DEF SweepFails, tasks, history
  <2>4. LocksFit'
    BY <1>3, <2>3, NoneIsNothing DEF Inductive, LocksFit, SweepFails, Unlocked, Expirable
  <2> QED
    BY <2>1, <2>2, <2>3, <2>4, SweepFrame DEF Inductive
<1> QED
  BY <1>1, <1>2, <1>3 DEF SweepStep

\* Decisions, and the time that passes.
LEMMA ElsewherePreserves ==
  ASSUME Inductive, NEW s \in Step, Elsewhere(s)
  PROVE  Inductive'
<1>1. UNCHANGED <<queue, work, result, mails, late, upset, deaths>>
  BY DEF Elsewhere, Expire, Decide, DecideCommit, tasks, history
<1>2. /\ NotForgotten' /\ MailsAreAccountedFor' /\ StagesFit'
      /\ RetriesWait' /\ UnaskedIsNowhere' /\ OneChain'
  BY <1>1, TaskFrame
<1>3. TypeOK' /\ LocksFit'
  <2>1. CASE Expire(s)
    BY <1>1, <2>1 DEF Inductive, TypeOK, LocksFit, Expire, StepRow, Expirable
  <2>2. CASE Decide(s)
    BY <1>1, <2>2, NoneIsNothing DEF Inductive, TypeOK, LocksFit, Decide, Expirable
  <2>3. CASE DecideCommit(s)
    BY <1>1, <2>3, NoneIsNothing DEF Inductive, TypeOK, LocksFit, DecideCommit, StepRow, Expirable
  <2> QED
    BY <2>1, <2>2, <2>3 DEF Elsewhere
<1> QED
  BY <1>2, <1>3 DEF Inductive

-----------------------------------------------------------------------------
(* Calls and deliveries.                                                   *)

\* A task is asked for.
LEMMA EnqueuePreserves ==
  ASSUME Inductive, NEW t \in Task, Enqueue(t)
  PROVE  Inductive'
<1> DEFINE first == [task |-> t, retries |-> 0]
<1>1. first \in Message /\ first.task = t /\ first.retries = 0
  BY FirstMessage
<1> HIDE DEF first
<1>2. /\ result[t] = "none"
      /\ queue' = [queue EXCEPT ![first] = 1]
      /\ result' = [result EXCEPT ![t] = "pending"]
      /\ UNCHANGED <<work, mails, step, lock, deaths, late, upset>>
  BY DEF Enqueue, first, table, history
<1>3. TypeOK'
  BY <1>2 DEF Inductive, TypeOK, Result
<1>4. /\ queue'[first] = 1 /\ \A m \in Message \ {first} : queue'[m] = queue[m]
      /\ result'[t] = "pending" /\ \A u \in Task \ {t} : result'[u] = result[u]
  BY <1>1, <1>2 DEF Inductive, TypeOK
<1>5. /\ ~Waits(t) /\ \A w \in Worker : ~AtWork(t, w)
      /\ t \in Notification => mails[t] = 0 /\ late[t] = 0
  BY <1>2 DEF Inductive, UnaskedIsNowhere, AtWork
<1>6. NotForgotten'
  <2>1. Waits(t)'
    BY <1>1, <1>4 DEF Waits
  <2>2. \A u \in Task \ {t} : Waits(u)' <=> Waits(u)
    BY <1>1, <1>4 DEF Waits
  <2> QED
    BY <1>2, <1>4, <2>1, <2>2 DEF Inductive, NotForgotten, AtWork, TaskOf
<1>7. MailsAreAccountedFor'
  BY <1>2, <1>4 DEF Inductive, MailsAreAccountedFor, Task
<1>8. StagesFit' /\ LocksFit' /\ RetriesWait'
  <2>1. StagesFit' /\ LocksFit'
    BY <1>2 DEF Inductive, StagesFit, LocksFit, At, TaskOf, Expirable
  <2>2. \A w \in Worker : Retrying(w)' => Retrying(w) /\ work'[w].message = work[w].message
    BY <1>2 DEF Retrying, At
  <2>3. \A w \in Worker : Retrying(w) => queue'[NextMessage(w)] > 0
    BY <1>1, <1>4, RetryingTyping
  <2> QED
    BY <2>1, <2>2, <2>3, RetriesStay
<1>9. UnaskedIsNowhere'
  BY <1>1, <1>2, <1>4 DEF Inductive, UnaskedIsNowhere, Waits, TaskOf
<1>10. OneChain'
  <2>1. \A u \in Task, w \in Worker : AtWork(u, w)' <=> AtWork(u, w)
    BY <1>2 DEF AtWork, TaskOf
  <2>2. \A m \in Message : m.task = t /\ queue'[m] > 0 => m = first
    BY <1>4, <1>5 DEF Waits
  <2> SUFFICES ASSUME NEW u \in Notification, u \notin upset
               PROVE  /\ \A m \in Message : m.task = u /\ queue'[m] > 0 =>
                          /\ queue'[m] = 1
                          /\ \A n \in Message : n.task = u /\ queue'[n] > 0 => n = m
                          /\ \A w \in Worker : ~AtWork(u, w)
                          /\ late[u] <= m.retries /\ mails[u] <= late[u]
                      /\ \A w \in Worker : AtWork(u, w) =>
                          /\ \A v \in Worker : AtWork(u, v) => v = w
                          /\ late[u] <= work[w].message.retries
                          /\ \/ mails[u] <= late[u]
                             \/ At(w, "accepted") /\ mails[u] <= late[u] + 1
    BY <1>2, <2>1 DEF OneChain, TaskOf, At, AtWork
  <2>3. CASE u = t
    BY <1>1, <1>4, <1>5, <2>2, <2>3
  <2>4. CASE u # t
    <3>1. \A m \in Message : m.task = u => queue'[m] = queue[m]
      BY <1>1, <1>4, <2>4
    <3> QED
      BY <3>1 DEF Inductive, OneChain
  <2> QED
    BY <2>3, <2>4
<1> QED
  BY <1>3, <1>6, <1>7, <1>8, <1>9, <1>10 DEF Inductive

\* A worker gets a message.
LEMMA TakePreserves ==
  ASSUME Inductive, NEW w \in Worker, NEW m \in Message, Take(w, m)
  PROVE  Inductive'
<1>1. /\ work[w] = None /\ queue[m] > 0
      /\ queue' = [queue EXCEPT ![m] = @ - 1]
      /\ work' = [work EXCEPT ![w] = [message |-> m, stage |-> "started"]]
      /\ UNCHANGED <<mails, step, lock, deaths, late, upset>>
  BY DEF Take, table, history
<1>2. /\ queue'[m] = queue[m] - 1 /\ \A n \in Message \ {m} : queue'[n] = queue[n]
      /\ work'[w].message = m /\ work'[w].stage = "started"
      /\ \A v \in Worker \ {w} : work'[v] = work[v]
      /\ queue[m] \in Nat
  BY <1>1 DEF Inductive, TypeOK
<1>3. work'[w] \in Held /\ work'[w] # None
  BY <1>1, NoneIsNothing DEF Inductive, TypeOK, Held, Stage
<1>4. LocksFit'
  BY <1>1 DEF Inductive, LocksFit, Expirable
<1>5. CASE m.task = Sweep
  <2>1. UNCHANGED result
    BY <1>5 DEF Take
  <2>2. TypeOK'
    BY <1>1, <1>3, <2>1 DEF Inductive, TypeOK, Held, Stage
  <2>3. \A n \in Message : n.task \in Task => queue'[n] = queue[n]
    BY <1>2, <1>5, FirstMessage
  <2>4. Aside(work[w]) /\ Aside(work'[w])
    BY <1>1, <1>2, <1>5 DEF Aside
  <2>5. /\ NotForgotten' /\ MailsAreAccountedFor' /\ StagesFit'
        /\ RetriesWait' /\ UnaskedIsNowhere' /\ OneChain'
    BY <1>1, <1>2, <1>5, <2>1, <2>3, <2>4, TaskFrame
  <2> QED
    BY <1>4, <2>2, <2>5 DEF Inductive
<1>6. CASE m.task # Sweep
  <2> DEFINE t == m.task
  <2>1. t \in Task /\ result' = Stored(t, "started") /\ m.retries \in Nat
    BY <1>6, MessageTyping DEF Take
  <2>2. /\ result' \in [Task -> Result] /\ \A u \in Task \ {t} : result'[u] = result[u]
        /\ result'[t] \in {"started", result[t]}
    BY <2>1, StoredTyping DEF Inductive, Result
  <2>3. TypeOK'
    BY <1>1, <1>3, <2>2 DEF Inductive, TypeOK, Held, Stage
  <2>4. result[t] # "none"
    BY <1>1, <2>1 DEF Inductive, UnaskedIsNowhere, Waits
  <2>5. AtWork(t, w)' /\ \A u \in Task \ {t} : ~AtWork(u, w)'
    BY <1>2, <1>3 DEF AtWork, TaskOf, Over
  <2>6. \A v \in Worker \ {w}, u \in Task : AtWork(u, v)' <=> AtWork(u, v)
    BY <1>2 DEF AtWork, TaskOf
  <2>7. \A u \in Task : ~AtWork(u, w)
    BY <1>1 DEF AtWork
  <2>8. NotForgotten'
    <3>1. \A u \in Task \ {t} : Waits(u) => Waits(u)'
      BY <1>2 DEF Waits
    <3> QED
      BY <2>2, <2>5, <2>6, <2>7, <3>1 DEF Inductive, NotForgotten
  <2>9. MailsAreAccountedFor'
    BY <1>1, <2>2 DEF Inductive, MailsAreAccountedFor, Task
  <2>10. StagesFit'
    BY <1>1, <1>2 DEF Inductive, StagesFit, At, TaskOf
  <2>11. UnaskedIsNowhere'
    <3> SUFFICES ASSUME NEW u \in Task, result'[u] = "none"
                 PROVE  /\ ~Waits(u)' /\ \A v \in Worker : work'[v] # None => TaskOf(v)' # u
                        /\ u \in Notification => mails'[u] = 0 /\ late'[u] = 0
      BY DEF UnaskedIsNowhere
    <3>1. u # t /\ result[u] = "none"
      BY <2>2, <2>4
    <3>2. ~Waits(u)'
      BY <1>2, <3>1 DEF Inductive, UnaskedIsNowhere, Waits
    <3> QED
      BY <1>1, <1>2, <3>1, <3>2 DEF Inductive, UnaskedIsNowhere, TaskOf
  <2>12. OneChain'
    <3> SUFFICES ASSUME NEW u \in Notification, u \notin upset
                 PROVE  /\ \A n \in Message : n.task = u /\ queue'[n] > 0 =>
                            /\ queue'[n] = 1
                            /\ \A k \in Message : k.task = u /\ queue'[k] > 0 => k = n
                            /\ \A v \in Worker : ~AtWork(u, v)'
                            /\ late[u] <= n.retries /\ mails[u] <= late[u]
                        /\ \A v \in Worker : AtWork(u, v)' =>
                            /\ \A x \in Worker : AtWork(u, x)' => x = v
                            /\ late[u] <= work'[v].message.retries
                            /\ \/ mails[u] <= late[u]
                               \/ At(v, "accepted")' /\ mails[u] <= late[u] + 1
      BY <1>1 DEF OneChain, TaskOf, At, AtWork
    <3>1. u \in Task
      BY DEF Task
    <3>2. CASE u = t
      <4>1. /\ queue[m] = 1 /\ \A n \in Message : n.task = t /\ queue[n] > 0 => n = m
            /\ \A v \in Worker : ~AtWork(t, v)
            /\ late[t] <= m.retries /\ mails[t] <= late[t]
        BY <1>1, <3>2 DEF Inductive, OneChain
      <4>2. \A n \in Message : n.task = t => ~(queue'[n] > 0)
        BY <1>2, <4>1
      <4>3. \A v \in Worker : AtWork(t, v)' => v = w
        BY <2>6, <3>1, <3>2, <4>1
      <4> QED
        BY <1>2, <3>2, <4>1, <4>2, <4>3
    <3>3. CASE u # t
      <4>1. \A n \in Message : n.task = u => queue'[n] = queue[n]
        BY <1>2, <3>3
      <4>2. \A v \in Worker : AtWork(u, v)' => v # w /\ AtWork(u, v) /\ work'[v] = work[v]
        BY <1>2, <2>5, <2>6, <3>1, <3>3
      <4> QED
        BY <4>1, <4>2 DEF Inductive, OneChain, At
    <3> QED
      BY <3>2, <3>3
  <2>13. RetriesWait'
    <3> SUFFICES ASSUME NEW v \in Worker, Retrying(v)'
                 PROVE  /\ Retrying(v) /\ work'[v].message = work[v].message
                        /\ queue'[NextMessage(v)] > 0
      BY RetriesStay
    <3>1. v # w /\ work'[v] = work[v] /\ Retrying(v)
      BY <1>2 DEF Retrying, At
    <3>2. NextMessage(v) = m => queue[m] > 1
      BY <3>1 DEF Take
    <3> QED
      BY <1>2, <3>1, <3>2, RetryingTyping
  <2> QED
    BY <1>4, <2>3, <2>8, <2>9, <2>10, <2>11, <2>12, <2>13 DEF Inductive
<1> QED
  BY <1>5, <1>6

-----------------------------------------------------------------------------
(* Attempts.                                                               *)

\* The server takes an e-mail.
LEMMA SendMailPreserves ==
  ASSUME Inductive, NEW w \in Worker, SendMail(w)
  PROVE  Inductive'
<1> DEFINE t == TaskOf(w)
<1>1. /\ work[w] # None /\ work[w].stage = "started" /\ t \in Notification
      /\ mails' = [mails EXCEPT ![t] = @ + 1]
      /\ work' = [work EXCEPT ![w].stage = "accepted"]
      /\ UNCHANGED <<queue, result, step, lock, deaths, late, upset>>
  BY DEF SendMail, At, table, history
<1>2. t \in Task
  BY <1>1 DEF Task
<1>3. TypeOK'
  <2>1. mails' \in [Notification -> Nat]
    BY <1>1 DEF Inductive, TypeOK
  <2>2. [work[w] EXCEPT !.stage = "accepted"] \in Held
    BY <1>1, HeldTyping DEF Inductive, Stage
  <2>3. work' \in [Worker -> Held \cup {None}]
    BY <1>1, <2>2 DEF Inductive, TypeOK
  <2> QED
    BY <1>1, <2>1, <2>3 DEF Inductive, TypeOK
<1>4. /\ mails[t] \in Nat /\ late[t] \in Nat
      /\ mails'[t] = mails[t] + 1 /\ \A u \in Notification \ {t} : mails'[u] = mails[u]
  BY <1>1 DEF Inductive, TypeOK
<1>5. /\ work'[w].message = work[w].message /\ work'[w].stage = "accepted"
      /\ work'[w] # None
      /\ \A v \in Worker \ {w} : work'[v] = work[v]
  <2>1. work[w] \in Held /\ [work[w] EXCEPT !.stage = "accepted"] \in Held
    BY <1>1, HeldTyping DEF Inductive, Stage
  <2> QED
    BY <1>1, <2>1, NoneIsNothing DEF Inductive, TypeOK, Held
<1>6. \A v \in Worker, u \in Task : AtWork(u, v)' <=> AtWork(u, v)
  BY <1>1, <1>5 DEF AtWork, TaskOf, Over
<1>7. work[w].message \in Message /\ work[w].message.task = t /\ AtWork(t, w)
  BY <1>1, HeldTyping DEF Inductive, TaskOf, AtWork, Over
<1>8. NotForgotten'
  BY <1>1, <1>6 DEF Inductive, NotForgotten, Waits
<1>9. MailsAreAccountedFor'
  <2>1. t \notin upset => mails[t] <= late[t] /\ late[t] <= work[w].message.retries
    BY <1>1, <1>2, <1>7 DEF Inductive, OneChain, At
  <2>2. work[w].message.retries \in Nat /\ work[w].message.retries <= MaxRetries(t)
        /\ MaxRetries(t) = 3
    BY <1>1, <1>7, MessageTyping
  <2>3. t \notin upset => mails'[t] <= late[t] + 1 /\ mails'[t] <= MaxRetries(t) + 1
    BY <1>4, <2>1, <2>2
  <2> QED
    BY <1>1, <1>4, <2>3 DEF Inductive, MailsAreAccountedFor
<1>10. StagesFit' /\ LocksFit'
  BY <1>1, <1>4, <1>5 DEF Inductive, StagesFit, LocksFit, At, TaskOf, Expirable, TypeOK
<1>11. UnaskedIsNowhere'
  BY <1>1, <1>2, <1>4, <1>5 DEF Inductive, UnaskedIsNowhere, Waits, TaskOf
<1>12. OneChain'
  <2> SUFFICES ASSUME NEW u \in Notification, u \notin upset
               PROVE  /\ \A n \in Message : n.task = u /\ queue[n] > 0 =>
                          /\ queue[n] = 1
                          /\ \A k \in Message : k.task = u /\ queue[k] > 0 => k = n
                          /\ \A v \in Worker : ~AtWork(u, v)
                          /\ late[u] <= n.retries /\ mails'[u] <= late[u]
                      /\ \A v \in Worker : AtWork(u, v) =>
                          /\ \A x \in Worker : AtWork(u, x) => x = v
                          /\ late[u] <= work'[v].message.retries
                          /\ \/ mails'[u] <= late[u]
                             \/ At(v, "accepted")' /\ mails'[u] <= late[u] + 1
    BY <1>1, <1>6 DEF OneChain, TaskOf, At, AtWork, Task
  <2>1. CASE u = t
    BY <1>1, <1>4, <1>5, <1>7, <2>1 DEF Inductive, OneChain, At
  <2>2. CASE u # t
    <3>1. \A v \in Worker : AtWork(u, v) => work'[v] = work[v]
      BY <1>1, <1>5, <2>2 DEF AtWork
    <3> QED
      BY <1>4, <2>2, <3>1 DEF Inductive, OneChain, At
  <2> QED
    BY <2>1, <2>2
<1>13. RetriesWait'
  <2>1. \A v \in Worker : Retrying(v)' => Retrying(v) /\ work'[v] = work[v]
    BY <1>5 DEF Retrying, At
  <2> QED
    BY <1>1, <2>1, RetryingTyping, RetriesStay
<1> QED
  BY <1>3, <1>8, <1>9, <1>10, <1>11, <1>12, <1>13 DEF Inductive

\* An attempt comes to an end, with a result or with its retry published.
LEMMA AttemptEnds ==
  ASSUME Inductive, NEW w \in Worker, NEW t \in Task, AtWork(t, w),
         NEW state \in Success \cup {"published", "failed"},
         state = "sent" => t \in Notification /\ mails[t] > 0,
         IF state = "published"
         THEN /\ work' = [work EXCEPT ![w].stage = "published"]
              /\ UNCHANGED result
              /\ work[w].message.retries < MaxRetries(t)
              /\ queue' = [queue EXCEPT ![NextMessage(w)] = @ + 1]
              /\ t \in Notification \ upset =>
                   /\ mails[t] <= late'[t]
                   /\ late'[t] <= work[w].message.retries + 1
         ELSE /\ \/ work' = [work EXCEPT ![w] = None]
                 \/ work' = [work EXCEPT ![w].stage = "ended"]
              /\ result' = Stored(t, state)
              /\ UNCHANGED queue,
         late' \in [Notification -> Nat],
         \A u \in Notification \ {t} : late'[u] = late[u],
         t \in Notification => late[t] <= late'[t],
         UNCHANGED <<mails, step, deaths, upset>>,
         lock' \in [Step -> Worker \cup {Outside, None}], LocksFit'
  PROVE  Inductive'
<1> DEFINE m == work[w].message
           n == NextMessage(w)
<1>1. /\ work[w] # None /\ m \in Message /\ m.task = t /\ work[w].stage \notin Over
      /\ m.retries \in Nat
  BY HeldTyping, MessageTyping DEF Inductive, AtWork, TaskOf
<1>2. state = "published" => n \in Message /\ n.task = t /\ n.retries = m.retries + 1
  BY <1>1, MessageTyping DEF NextMessage
<1>3. /\ \A v \in Worker \ {w} : work'[v] = work[v]
      /\ work'[w] # None =>
           /\ work'[w].message = m
           /\ work'[w].stage = IF state = "published" THEN "published" ELSE "ended"
      /\ work'[w] \in Held \cup {None}
  <2> DEFINE g == IF state = "published" THEN "published" ELSE "ended"
             done == [work[w] EXCEPT !.stage = g]
  <2>1. done \in Held /\ done.stage = g /\ done.message = m
    <3>1. work[w] \in Held /\ g \in Stage
      BY <1>1, HeldTyping DEF Inductive, Stage
    <3> HIDE DEF g
    <3> QED
      BY <3>1 DEF Held
  <2>2. work \in [Worker -> Held \cup {None}]
    BY DEF Inductive, TypeOK
  <2>3. work' = [work EXCEPT ![w] = None] \/ work' = [work EXCEPT ![w] = done]
    BY <2>2
  <2> HIDE DEF done, m
  <2> QED
    BY <2>1, <2>2, <2>3
<1>4. /\ result' \in [Task -> Result] /\ \A u \in Task \ {t} : result'[u] = result[u]
      /\ result'[t] \in {state, result[t]} \ {"published"}
      /\ state # "published" => result'[t] = state \/ result'[t] \in Success
  <2>1. CASE state = "published"
    BY <2>1 DEF Inductive, TypeOK, Result, Success
  <2>2. CASE state # "published"
    <3>1. state \in Result /\ result' = Stored(t, state)
      BY <2>2 DEF Result
    <3>2. "published" \notin Result
      BY DEF Result, Success
    <3> QED
      BY <2>2, <3>1, <3>2, StoredTyping DEF Inductive
  <2> QED
    BY <2>1, <2>2
<1>5. /\ queue' \in [Message -> Nat]
      /\ \A k \in Message : queue'[k] >= queue[k]
      /\ \A k \in Message : k.task # t => queue'[k] = queue[k]
      /\ state # "published" => queue' = queue
      /\ state = "published" =>
           queue'[n] = queue[n] + 1 /\ \A k \in Message \ {n} : queue'[k] = queue[k]
  <2>1. queue \in [Message -> Nat]
    BY DEF Inductive, TypeOK
  <2>2. CASE state = "published"
    <3>1. queue' = [queue EXCEPT ![n] = @ + 1]
      BY <2>2
    <3> HIDE DEF n, m
    <3> QED
      BY <1>2, <2>1, <2>2, <3>1
  <2>3. CASE state # "published"
    <3>1. UNCHANGED queue
      BY <2>3
    <3> HIDE DEF n, m
    <3> QED
      BY <2>1, <2>3, <3>1
  <2> QED
    BY <2>2, <2>3
<1> HIDE DEF n, m
<1>6. TypeOK'
  <2>1. work' \in [Worker -> Held \cup {None}]
    BY <1>3 DEF Inductive, TypeOK
  <2> QED
    BY <1>4, <1>5, <2>1 DEF Inductive, TypeOK
<1>7. /\ \A u \in Task : ~AtWork(u, w)'
      /\ \A v \in Worker \ {w}, u \in Task : AtWork(u, v)' <=> AtWork(u, v)
  BY <1>3 DEF AtWork, TaskOf, Over
<1>8. \A u \in Task \ {t} : ~AtWork(u, w)
  BY DEF AtWork
<1>9. NotForgotten'
  <2>1. \A u \in Task : Waits(u) => Waits(u)'
    BY <1>5 DEF Waits, Inductive, TypeOK
  <2>2. state = "published" => Waits(t)'
    BY <1>2, <1>5 DEF Waits, Inductive, TypeOK
  <2>3. state # "published" => result'[t] \in Success \cup {"failed"}
    BY <1>4 DEF Success
  <2>4. ASSUME NEW u \in Task, result'[u] \in {"pending", "started", "retry"}
        PROVE  Waits(u)' \/ \E v \in Worker : AtWork(u, v)'
    <3>1. CASE u = t
      BY <1>4, <2>2, <2>3, <2>4, <3>1 DEF Success
    <3>2. CASE u # t
      BY <1>4, <1>7, <1>8, <2>1, <2>4, <3>2 DEF Inductive, NotForgotten
    <3> QED
      BY <3>1, <3>2
  <2> QED
    BY <2>4 DEF NotForgotten
<1>10. MailsAreAccountedFor'
  <2> SUFFICES ASSUME NEW u \in Notification
               PROVE  /\ result'[u] = "sent" => mails[u] > 0
                      /\ u \notin upset => /\ mails[u] <= late'[u] + 1
                                          /\ mails[u] <= MaxRetries(u) + 1
    BY DEF MailsAreAccountedFor
  <2>1. result'[u] = "sent" => mails[u] > 0
    BY <1>4 DEF Inductive, MailsAreAccountedFor, Task
  <2>2. late[u] <= late'[u] /\ late[u] \in Nat /\ late'[u] \in Nat /\ mails[u] \in Nat
    BY DEF Inductive, TypeOK
  <2>3. u \notin upset => mails[u] <= late[u] + 1 /\ mails[u] <= MaxRetries(u) + 1
    BY DEF Inductive, MailsAreAccountedFor
  <2> QED
    BY <2>1, <2>2, <2>3
<1>11. StagesFit'
  BY <1>3 DEF Inductive, StagesFit, At, TaskOf
<1>12. UnaskedIsNowhere'
  <2>1. result[t] # "none"
    BY <1>1 DEF Inductive, UnaskedIsNowhere, AtWork
  <2>2. result'[t] # "none"
    BY <1>4, <2>1 DEF Success
  <2>3. ASSUME NEW u \in Task, result'[u] = "none"
        PROVE  /\ ~Waits(u)' /\ \A v \in Worker : work'[v] # None => TaskOf(v)' # u
               /\ u \in Notification => mails'[u] = 0 /\ late'[u] = 0
    <3>1. u # t /\ result[u] = "none"
      BY <1>4, <2>2, <2>3
    <3>2. ~Waits(u)'
      BY <1>5, <3>1 DEF Inductive, UnaskedIsNowhere, Waits
    <3>3. \A v \in Worker : work'[v] # None => TaskOf(v)' # u
      BY <1>1, <1>3, <3>1 DEF Inductive, UnaskedIsNowhere, TaskOf
    <3> QED
      BY <3>1, <3>2, <3>3 DEF Inductive, UnaskedIsNowhere
  <2> QED
    BY <2>3 DEF UnaskedIsNowhere
<1>13. OneChain'
  <2> SUFFICES ASSUME NEW u \in Notification, u \notin upset
               PROVE  /\ \A k \in Message : k.task = u /\ queue'[k] > 0 =>
                          /\ queue'[k] = 1
                          /\ \A j \in Message : j.task = u /\ queue'[j] > 0 => j = k
                          /\ \A v \in Worker : ~AtWork(u, v)'
                          /\ late'[u] <= k.retries /\ mails[u] <= late'[u]
                      /\ \A v \in Worker : AtWork(u, v)' =>
                          /\ \A x \in Worker : AtWork(u, x)' => x = v
                          /\ late'[u] <= work'[v].message.retries
                          /\ \/ mails[u] <= late'[u]
                             \/ At(v, "accepted")' /\ mails[u] <= late'[u] + 1
    BY DEF OneChain, AtWork, TaskOf, At
  <2>1. u \in Task
    BY DEF Task
  <2>2. CASE u = t
    <3>1. /\ \A k \in Message : k.task = t => ~(queue[k] > 0)
          /\ \A v \in Worker : AtWork(t, v) => v = w
      BY <2>2 DEF Inductive, OneChain
    <3>2. \A v \in Worker : ~AtWork(t, v)'
      BY <1>7, <3>1
    <3>3. \A k \in Message : k.task = t /\ queue'[k] > 0 => state = "published" /\ k = n
      BY <1>5, <3>1
    <3>4. state = "published" => queue'[n] = 1
      BY <1>2, <1>5, <3>1 DEF Inductive, TypeOK
    <3> QED
      BY <1>1, <1>2, <2>2, <3>2, <3>3, <3>4 DEF m
  <2>3. CASE u # t
    <3>1. \A k \in Message : k.task = u => queue'[k] = queue[k]
      BY <1>5, <2>3
    <3>2. \A v \in Worker : AtWork(u, v)' => AtWork(u, v) /\ work'[v] = work[v]
      BY <1>3, <1>7, <2>1
    <3>3. late'[u] = late[u]
      BY <2>3
    <3> QED
      BY <1>7, <1>8, <2>1, <2>3, <3>1, <3>2, <3>3 DEF Inductive, OneChain, At
  <2> QED
    BY <2>2, <2>3
<1>14. RetriesWait'
  <2>1. \A v \in Worker \ {w} : Retrying(v)' =>
          Retrying(v) /\ work'[v] = work[v] /\ NextMessage(v)' = NextMessage(v)
    BY <1>3 DEF Retrying, At, NextMessage
  <2>2. \A v \in Worker \ {w} : Retrying(v)' => queue'[NextMessage(v)] > 0
    BY <1>5, <2>1, RetryingTyping DEF Inductive, TypeOK
  <2>3. Retrying(w)' =>
          /\ state = "published" /\ m.retries < MaxRetries(t)
          /\ TaskOf(w)' = t /\ work'[w].message = m /\ NextMessage(w)' = n
    BY <1>1, <1>3 DEF Retrying, At, TaskOf, NextMessage, m, n
  <2>4. Retrying(w)' => queue'[n] > 0
    BY <1>2, <1>5, <2>3 DEF Inductive, TypeOK
  <2> QED
    BY <2>1, <2>2, <2>3, <2>4 DEF RetriesWait, Inductive, TaskOf
<1> QED
  BY <1>6, <1>9, <1>10, <1>11, <1>12, <1>13, <1>14 DEF Inductive

\* A task that retries, and has accounted for the e-mail it may have sent.
LEMMA RetryPreserves ==
  ASSUME Inductive, NEW w \in Worker, NEW t \in Task, AtWork(t, w), Retry(w),
         late' \in [Notification -> Nat],
         \A u \in Notification \ {t} : late'[u] = late[u],
         t \in Notification => late[t] <= late'[t],
         t \in Notification \ upset =>
           mails[t] <= late'[t] /\ late'[t] <= work[w].message.retries + 1,
         UNCHANGED <<mails, step, lock, deaths, upset>>
  PROVE  Inductive'
<1>0. work[w].message.retries \in Nat /\ MaxRetries(t) \in Nat
  BY HeldTyping, MessageTyping DEF Inductive, AtWork, MaxRetries
<1>1. TaskOf(w) = t
  BY DEF AtWork
<1>2. lock' \in [Step -> Worker \cup {Outside, None}] /\ LocksFit'
  BY DEF Inductive, TypeOK, LocksFit, Expirable
<1>3. CASE work[w].message.retries < MaxRetries(t)
  <2>1. /\ queue' = [queue EXCEPT ![NextMessage(w)] = @ + 1]
        /\ work' = [work EXCEPT ![w].stage = "published"]
        /\ UNCHANGED result
    BY <1>0, <1>1, <1>3 DEF Retry
  <2> QED
    BY <1>2, <1>3, <2>1, AttemptEnds
<1>4. CASE ~(work[w].message.retries < MaxRetries(t))
  <2>1. result' = Stored(t, "failed") /\ UNCHANGED queue
        /\ work' = [work EXCEPT ![w].stage = "ended"]
    BY <1>1, <1>4 DEF Retry, End
  <2> QED
    BY <1>2, <2>1, AttemptEnds
<1> QED
  BY <1>3, <1>4

\* A task that returns.
LEMMA SuccessPreserves ==
  ASSUME Inductive, NEW w \in Worker, NEW t \in Task, AtWork(t, w),
         NEW state \in Success, End(w, state),
         state = "sent" => t \in Notification /\ mails[t] > 0,
         UNCHANGED <<queue, mails, late, step, lock, deaths, upset>>
  PROVE  Inductive'
<1>1. TaskOf(w) = t
  BY DEF AtWork
<1>2. /\ lock' \in [Step -> Worker \cup {Outside, None}] /\ LocksFit'
      /\ late' \in [Notification -> Nat] /\ \A u \in Notification : late[u] <= late'[u]
  BY DEF Inductive, TypeOK, LocksFit, Expirable
<1>3. work' = [work EXCEPT ![w].stage = "ended"] /\ result' = Stored(t, state)
  BY <1>1 DEF End
<1>4. state # "published"
  BY DEF Success
<1> QED
  BY <1>2, <1>3, <1>4, AttemptEnds

\* What is stored after a task is over, and who holds its message, is no matter
\* to the invariant: a failure, or the retry whose message waits.
LEMMA AfterTask ==
  ASSUME Inductive, NEW w \in Worker, work[w] # None, work[w].stage \in Over,
         NEW t \in Task, TaskOf(w) = t,
         \/ work' = [work EXCEPT ![w] = None]
         \/ Retrying(w) /\ work' = [work EXCEPT ![w].stage = "retried"],
         NEW state \in {"retry", "failed"}, result' = Stored(t, state),
         state = "retry" => Waits(t),
         UNCHANGED <<queue, mails, step, deaths, late, upset>>,
         lock' \in [Step -> Worker \cup {Outside, None}], LocksFit'
  PROVE  Inductive'
<1>1. /\ \A v \in Worker \ {w} : work'[v] = work[v]
      /\ work'[w] # None =>
           /\ Retrying(w) /\ work'[w].stage = "retried"
           /\ work'[w].message = work[w].message
      /\ work' \in [Worker -> Held \cup {None}]
  <2>1. work \in [Worker -> Held \cup {None}]
    BY DEF Inductive, TypeOK
  <2>2. [work[w] EXCEPT !.stage = "retried"] \in Held
    BY HeldTyping DEF Inductive, Stage
  <2> QED
    BY <2>1, <2>2, HeldTyping DEF Inductive, Held
<1>2. /\ result' \in [Task -> Result] /\ \A u \in Task \ {t} : result'[u] = result[u]
      /\ result'[t] = state \/ (result'[t] = result[t] /\ result[t] \in Success)
  BY StoredTyping DEF Inductive, Result
<1>3. \A u \in Task, v \in Worker : AtWork(u, v)' <=> AtWork(u, v)
  BY <1>1 DEF AtWork, TaskOf, Over
<1>4. \A u \in Task, v \in Worker : AtWork(u, v) => work'[v] = work[v]
  BY <1>1 DEF AtWork
<1>5. \A u \in Task : Waits(u)' <=> Waits(u)
  BY DEF Waits
<1>6. TypeOK'
  BY <1>1, <1>2 DEF Inductive, TypeOK
<1>7. NotForgotten'
  BY <1>2, <1>3, <1>5 DEF Inductive, NotForgotten, Success
<1>8. MailsAreAccountedFor'
  BY <1>2 DEF Inductive, MailsAreAccountedFor, Task
<1>9. StagesFit'
  BY <1>1 DEF Inductive, StagesFit, At, TaskOf
<1>10. RetriesWait'
  <2>1. \A v \in Worker : Retrying(v)' => Retrying(v) /\ work'[v].message = work[v].message
    BY <1>1 DEF Retrying, At
  <2> QED
    BY <2>1, RetryingTyping, RetriesStay
<1>11. UnaskedIsNowhere'
  BY <1>1, <1>2, <1>5 DEF Inductive, UnaskedIsNowhere, TaskOf, Success
<1>12. OneChain'
  BY <1>3, <1>4 DEF Inductive, OneChain, Task, At
<1> QED
  BY <1>6, <1>7, <1>8, <1>9, <1>10, <1>11, <1>12 DEF Inductive

\* The retry is stored.
LEMMA StoreRetryPreserves ==
  ASSUME Inductive, NEW w \in Worker, StoreRetry(w)
  PROVE  Inductive'
<1>1. Retrying(w)
  BY DEF StoreRetry, Retrying
<1>2. /\ work[w] # None /\ work[w].stage \in Over /\ TaskOf(w) \in Task
      /\ Waits(TaskOf(w))
  BY <1>1, RetryingTyping DEF Waits
<1>3. lock' \in [Step -> Worker \cup {Outside, None}] /\ LocksFit'
  BY DEF Inductive, TypeOK, LocksFit, Expirable, StoreRetry, table
<1> QED
  BY <1>1, <1>2, <1>3, AfterTask DEF StoreRetry, table, history

\* Whatever a worker does with a notification or an analysis.
LEMMA AttemptPreserves ==
  ASSUME Inductive, NEW w \in Worker, Attempt(w)
  PROVE  Inductive'
<1> DEFINE t == TaskOf(w)
<1>1. CASE Skip(w)
  <2>1. AtWork(t, w) /\ t \in Task
    BY <1>1 DEF Skip, At, AtWork, Task, Over
  <2>2. /\ End(w, "skipped") /\ "skipped" \in Success
        /\ UNCHANGED <<queue, mails, late, step, lock, deaths, upset>>
    BY <1>1 DEF Skip, Success, table, history
  <2> QED
    BY <2>1, <2>2, SuccessPreserves
<1>2. CASE Quit(w)
  <2>1. AtWork(t, w) /\ t \in Notification /\ t \in Task /\ mails[t] > 0
    BY <1>2 DEF Quit, At, AtWork, Over, Task, Inductive, StagesFit
  <2>2. /\ End(w, "sent") /\ "sent" \in Success
        /\ UNCHANGED <<queue, mails, late, step, lock, deaths, upset>>
    BY <1>2 DEF Quit, Success, table, history
  <2> QED
    BY <2>1, <2>2, SuccessPreserves
<1>3. CASE Analyse(w)
  <2>1. AtWork(t, w) /\ t \in Task
    BY <1>3 DEF Analyse, At, AtWork, Over, Task
  <2>2. /\ End(w, "completed") /\ "completed" \in Success
        /\ UNCHANGED <<queue, mails, late, step, lock, deaths, upset>>
    BY <1>3 DEF Analyse, Success, table, history
  <2> QED
    BY <2>1, <2>2, SuccessPreserves
<1>4. CASE SendFails(w)
  <2>1. /\ AtWork(t, w) /\ t \in Task /\ t \in Notification /\ Retry(w)
        /\ UNCHANGED <<mails, late, step, lock, deaths, upset>>
    BY <1>4 DEF SendFails, At, AtWork, Over, Task, table, history
  <2>2. /\ late' \in [Notification -> Nat] /\ late[t] \in Nat
        /\ work[w].message.retries \in Nat
    BY <2>1, HeldTyping, MessageTyping DEF Inductive, TypeOK, AtWork
  <2>3. t \notin upset => mails[t] <= late[t] /\ late[t] <= work[w].message.retries
    BY <1>4, <2>1 DEF Inductive, OneChain, SendFails, At
  <2> QED
    BY <2>1, <2>2, <2>3, RetryPreserves
<1>5. CASE QuitFails(w)
  <2>1. /\ AtWork(t, w) /\ t \in Task /\ t \in Notification /\ Retry(w)
        /\ late' = [late EXCEPT ![t] = @ + 1]
        /\ UNCHANGED <<mails, step, lock, deaths, upset>>
    BY <1>5 DEF QuitFails, At, AtWork, Over, Task, table, Inductive, StagesFit
  <2>2. /\ late[t] \in Nat /\ mails[t] \in Nat
        /\ late' \in [Notification -> Nat] /\ late'[t] = late[t] + 1
        /\ \A u \in Notification \ {t} : late'[u] = late[u]
        /\ work[w].message.retries \in Nat
    <3>1. work[w].message.retries \in Nat
      BY <2>1, HeldTyping, MessageTyping DEF Inductive, AtWork
    <3>2. late \in [Notification -> Nat] /\ mails \in [Notification -> Nat]
      BY DEF Inductive, TypeOK
    <3> HIDE DEF t
    <3> QED
      BY <2>1, <3>1, <3>2
  <2>3. t \notin upset => mails[t] <= late[t] + 1 /\ late[t] <= work[w].message.retries
    <3>1. t \notin upset =>
            /\ mails[t] <= late[t] \/ mails[t] <= late[t] + 1
            /\ late[t] <= work[w].message.retries
      BY <2>1 DEF Inductive, OneChain
    <3> QED
      BY <2>2, <3>1
  <2>4. t \notin upset => mails[t] <= late'[t] /\ late'[t] <= work[w].message.retries + 1
    BY <2>2, <2>3
  <2> QED
    BY <2>1, <2>2, <2>4, RetryPreserves
<1>6. CASE AnalyseFails(w)
  <2>1. /\ AtWork(t, w) /\ t \in Task /\ t \notin Notification /\ Retry(w)
        /\ UNCHANGED <<mails, late, step, lock, deaths, upset>>
    BY <1>6, BackgroundTasksAssumption DEF AnalyseFails, At, AtWork, Over, Task, table, history
  <2>2. late' \in [Notification -> Nat]
    BY <2>1 DEF Inductive, TypeOK
  <2> QED
    BY <2>1, <2>2, RetryPreserves
<1> QED
  BY <1>1, <1>2, <1>3, <1>4, <1>5, <1>6, SendMailPreserves,
     StoreRetryPreserves, AckPreserves
  DEF Attempt

-----------------------------------------------------------------------------
(* Deaths.                                                                 *)

\* What the end of a transaction leaves locked is in order.
LEMMA UnlockedFits ==
  ASSUME Inductive, NEW w \in Worker, lock' = Unlocked(w), UNCHANGED step
  PROVE  lock' \in [Step -> Worker \cup {Outside, None}] /\ LocksFit'
BY NoneIsNothing DEF Inductive, TypeOK, LocksFit, Unlocked, Expirable

\* A worker dies: its message is delivered again.
LEMMA DiePreserves ==
  ASSUME Inductive, NEW w \in Worker, Die(w)
  PROVE  Inductive'
<1>0. work[w] # None /\ work[w].message \in Message
  BY HeldTyping DEF Inductive, Die
<1> PICK m \in Message : work[w].message = m
  BY <1>0
<1> DEFINE t == m.task
<1>1. work[w] # None /\ t \in Task \cup {Sweep}
  BY <1>0, MessageTyping
<1>2. /\ queue' = [queue EXCEPT ![m] = @ + 1]
      /\ work' = [work EXCEPT ![w] = None]
      /\ lock' = Unlocked(w) /\ deaths' = deaths + 1 /\ deaths < MaxDeaths
      /\ upset' = upset \cup {t}
      /\ UNCHANGED <<result, mails, step, late>>
  BY DEF Die, TaskOf, tasks
<1>3. /\ queue' \in [Message -> Nat] /\ queue'[m] = queue[m] + 1 /\ queue[m] \in Nat
      /\ \A k \in Message \ {m} : queue'[k] = queue[k]
      /\ work'[w] = None /\ \A v \in Worker \ {w} : work'[v] = work[v]
      /\ work' \in [Worker -> Held \cup {None}]
  BY <1>1, <1>2 DEF Inductive, TypeOK
<1>4. LocksFit' /\ lock' \in [Step -> Worker \cup {Outside, None}]
  BY <1>2, UnlockedFits
<1>5. TypeOK'
  <2>1. deaths' \in 0..MaxDeaths
    BY <1>2, BackgroundTasksAssumption DEF Inductive, TypeOK
  <2> QED
    BY <1>1, <1>2, <1>3, <1>4, <2>1 DEF Inductive, TypeOK
<1>6. CASE t = Sweep
  <2>1. \A k \in Message : k.task \in Task => queue'[k] = queue[k]
    BY <1>3, <1>6, FirstMessage
  <2>2. Aside(work[w]) /\ Aside(work'[w])
    BY <1>3, <1>6 DEF Aside
  <2>3. /\ NotForgotten' /\ MailsAreAccountedFor' /\ StagesFit'
        /\ RetriesWait' /\ UnaskedIsNowhere' /\ OneChain'
    BY <1>2, <1>3, <2>1, <2>2, TaskFrame
  <2> QED
    BY <1>4, <1>5, <2>3 DEF Inductive
<1>7. CASE t # Sweep
  <2>1. t \in Task /\ result[t] # "none"
    BY <1>1, <1>7 DEF Inductive, UnaskedIsNowhere, TaskOf
  <2>2. \A v \in Worker, u \in Task \ {t} : AtWork(u, v)' <=> AtWork(u, v)
    BY <1>3 DEF AtWork, TaskOf
  <2>3. Waits(t)' /\ \A u \in Task \ {t} : Waits(u)' <=> Waits(u)
    <3>1. m.task = t /\ queue'[m] > 0
      BY <1>3
    <3>2. \A u \in Task \ {t}, k \in Message : k.task = u => queue'[k] = queue[k]
      BY <1>3
    <3>3. Waits(t)'
      BY <1>1, <3>1 DEF Waits
    <3>4. ASSUME NEW u \in Task \ {t}
          PROVE  Waits(u)' <=> Waits(u)
      BY <3>2 DEF Waits
    <3> QED
      BY <3>3, <3>4
  <2>4. NotForgotten'
    <3>1. \A u \in Task \ {t} : ~AtWork(u, w)
      BY DEF AtWork, TaskOf
    <3> SUFFICES ASSUME NEW u \in Task, result[u] \in {"pending", "started", "retry"}
                 PROVE  Waits(u)' \/ \E v \in Worker : AtWork(u, v)'
      BY <1>2 DEF NotForgotten
    <3>2. CASE u = t
      BY <2>3, <3>2
    <3>3. CASE u # t
      <4>1. Waits(u) \/ \E v \in Worker : AtWork(u, v)
        BY DEF Inductive, NotForgotten
      <4>2. \A v \in Worker : AtWork(u, v) => AtWork(u, v)'
        BY <2>2, <3>1, <3>3
      <4>3. Waits(u) => Waits(u)'
        BY <2>3, <3>3
      <4> QED
        BY <4>1, <4>2, <4>3
    <3> QED
      BY <3>2, <3>3
  <2>5. MailsAreAccountedFor'
    BY <1>2 DEF Inductive, MailsAreAccountedFor
  <2>6. StagesFit'
    BY <1>2, <1>3 DEF Inductive, StagesFit, At, TaskOf
  <2>9. RetriesWait'
    <3>1. \A v \in Worker : Retrying(v)' => Retrying(v) /\ work'[v] = work[v]
      BY <1>3 DEF Retrying, At
    <3>2. \A v \in Worker : Retrying(v) => queue'[NextMessage(v)] > 0
      BY <1>3, RetryingTyping
    <3> QED
      BY <3>1, <3>2, RetriesStay
  <2>7. UnaskedIsNowhere'
    BY <1>2, <1>3, <2>1, <2>3 DEF Inductive, UnaskedIsNowhere, TaskOf
  <2>8. OneChain'
    <3> SUFFICES ASSUME NEW u \in Notification, u \notin upset, u # t
                 PROVE  /\ \A k \in Message : k.task = u /\ queue'[k] > 0 =>
                            /\ queue'[k] = 1
                            /\ \A j \in Message : j.task = u /\ queue'[j] > 0 => j = k
                            /\ \A v \in Worker : ~AtWork(u, v)'
                            /\ late[u] <= k.retries /\ mails[u] <= late[u]
                        /\ \A v \in Worker : AtWork(u, v)' =>
                            /\ \A x \in Worker : AtWork(u, x)' => x = v
                            /\ late[u] <= work'[v].message.retries
                            /\ \/ mails[u] <= late[u]
                               \/ At(v, "accepted")' /\ mails[u] <= late[u] + 1
      BY <1>2 DEF OneChain, AtWork, TaskOf, At
    <3>1. u \in Task
      BY DEF Task
    <3>2. \A k \in Message : k.task = u => queue'[k] = queue[k]
      BY <1>3
    <3>3. \A v \in Worker : AtWork(u, v)' => AtWork(u, v) /\ work'[v] = work[v]
      BY <1>3, <2>2, <3>1 DEF AtWork
    <3> QED
      BY <2>2, <3>1, <3>2, <3>3 DEF Inductive, OneChain, At
  <2> QED
    BY <1>4, <1>5, <2>4, <2>5, <2>6, <2>7, <2>8, <2>9 DEF Inductive
<1> QED
  BY <1>6, <1>7

\* A child is lost: its task has failed, or its sweep was for nothing.
LEMMA LoseChildPreserves ==
  ASSUME Inductive, NEW w \in Worker, LoseChild(w)
  PROVE  Inductive'
<1>1. /\ work[w] # None
      /\ work' = [work EXCEPT ![w] = None] /\ lock' = Unlocked(w)
      /\ UNCHANGED <<queue, mails, step, deaths, late, upset>>
  BY DEF LoseChild, history
<1>2. LocksFit' /\ lock' \in [Step -> Worker \cup {Outside, None}]
  BY <1>1, UnlockedFits
<1>3. TaskOf(w) \in Task \cup {Sweep}
  BY <1>1, HeldTyping, MessageTyping DEF Inductive, TaskOf
<1>4. CASE TaskOf(w) = Sweep
  <2>1. UNCHANGED result
    BY <1>4 DEF LoseChild
  <2>2. TypeOK'
    BY <1>1, <1>2, <2>1 DEF Inductive, TypeOK
  <2>3. /\ work'[w] = None /\ \A v \in Worker \ {w} : work'[v] = work[v]
        /\ Aside(work[w]) /\ Aside(work'[w])
    BY <1>1, <1>4 DEF Inductive, TypeOK, Aside, TaskOf
  <2>4. /\ NotForgotten' /\ MailsAreAccountedFor' /\ StagesFit'
        /\ RetriesWait' /\ UnaskedIsNowhere' /\ OneChain'
    BY <1>1, <2>1, <2>3, TaskFrame
  <2> QED
    BY <1>2, <2>2, <2>4 DEF Inductive
<1>5. CASE TaskOf(w) # Sweep
  <2> DEFINE t == TaskOf(w)
  <2>1. t \in Task /\ t = TaskOf(w) /\ result' = Stored(t, "failed")
    BY <1>1, <1>3, <1>5 DEF LoseChild
  <2>2. late' \in [Notification -> Nat] /\ \A u \in Notification : late[u] <= late'[u]
    BY <1>1 DEF Inductive, TypeOK
  <2> HIDE DEF t
  <2>3. CASE work[w].stage \in Over
    BY <1>1, <1>2, <2>1, <2>3, AfterTask
  <2>4. CASE work[w].stage \notin Over
    <3>1. AtWork(t, w)
      BY <1>1, <2>1, <2>4 DEF AtWork
    <3> QED
      BY <1>1, <1>2, <2>1, <2>2, <3>1, AttemptEnds
  <2> QED
    BY <2>3, <2>4
<1> QED
  BY <1>4, <1>5

-----------------------------------------------------------------------------
(* The theorems.                                                           *)

\* Every step preserves the invariant.
LEMMA NextInductive == Inductive /\ [Next]_vars => Inductive'
<1> SUFFICES ASSUME Inductive, [Next]_vars PROVE Inductive'
  OBVIOUS
<1>1. CASE UNCHANGED vars
  <2>1. UNCHANGED <<queue, work, result, mails, step, lock, deaths, late, upset>>
    BY <1>1 DEF vars, tasks, table, history
  <2>2. /\ NotForgotten' /\ MailsAreAccountedFor' /\ StagesFit'
        /\ RetriesWait' /\ UnaskedIsNowhere' /\ OneChain'
    BY <2>1, TaskFrame
  <2>3. TypeOK' /\ LocksFit'
    BY <2>1 DEF Inductive, TypeOK, LocksFit, Expirable
  <2> QED
    BY <2>2, <2>3 DEF Inductive
<1>2. CASE Next
  BY <1>2, BeatPreserves, EnqueuePreserves, TakePreserves, AttemptPreserves,
     SweepPreserves, DiePreserves, LoseChildPreserves, ElsewherePreserves
  DEF Next, Delivery
<1> QED
  BY <1>1, <1>2

\* The invariant holds always, however many workers die and whenever.
THEOREM InductiveInvariant == Spec => []Inductive
BY InitInductive, NextInductive, PTL DEF Spec

\* Messages, results and rows keep their shapes.
THEOREM TypeCorrect == Spec => []TypeOK
<1>1. Inductive => TypeOK
  BY DEF Inductive
<1> QED
  BY <1>1, InductiveInvariant, PTL

\* No task that is asked for and unfinished is forgotten by broker and workers.
THEOREM NothingForgotten == Spec => []NotForgotten
<1>1. Inductive => NotForgotten
  BY DEF Inductive
<1> QED
  BY <1>1, InductiveInvariant, PTL

\* A notification is sent if it is said to be, and never more often than its
\* errors after an accepted e-mail and the deaths of its workers explain.
THEOREM MailsAccounted == Spec => []MailsAreAccountedFor
<1>1. Inductive => MailsAreAccountedFor
  BY DEF Inductive
<1> QED
  BY <1>1, InductiveInvariant, PTL

\* What a step of Next does with one row.
LEMMA RowStep ==
  ASSUME Inductive, [Next]_vars, NEW s \in Step
  PROVE  /\ step[s].status = "decided" => step'[s].status = "decided"
         /\ step[s].status # "expired" /\ step'[s].status = "expired" => Expirable(step[s])
<1>1. step \in [Step -> StepRow]
  BY DEF Inductive, TypeOK
<1>2. CASE UNCHANGED step
  BY <1>2
<1>3. CASE \E w \in Worker : SweepCommit(w)
  <2> PICK w \in Worker : SweepCommit(w)
    BY <1>3
  <2>1. lock[s] = w => Expirable(step[s])
    BY DEF Inductive, LocksFit
  <2>2. step'[s] = IF lock[s] = w THEN [step[s] EXCEPT !.status = "expired"] ELSE step[s]
    BY DEF SweepCommit
  <2> QED
    BY <2>1, <2>2 DEF Expirable
<1>4. CASE \E u \in Step : Expire(u) \/ DecideCommit(u)
  <2> PICK u \in Step : Expire(u) \/ DecideCommit(u)
    BY <1>4
  <2>1. u # s => step'[s] = step[s]
    BY <1>1 DEF Expire, DecideCommit
  <2>2. u = s => step'[s].status \in {step[s].status, "decided"}
    BY <1>1 DEF Expire, DecideCommit, StepRow
  <2>3. u = s /\ step[s].status = "decided" => step'[s].status = "decided"
    BY <1>1, <2>2
  <2> QED
    BY <2>1, <2>2, <2>3
<1> QED
  BY <1>2, <1>3, <1>4
  DEF Next, vars, table, Delivery, Beat, Enqueue, Take, Attempt, Skip, SendFails, SendMail,
      Quit, QuitFails, Analyse, AnalyseFails, StoreRetry, Ack, SweepStep, SweepUpdate, SweepFails,
      Die, LoseChild, Elsewhere, Decide

\* A sweep never overrides a decision, and expires only what is pending and due.
THEOREM DecisionsStay == Spec => DecisionsStand
<1>1. Inductive /\ [Next]_vars =>
        [\A s \in Step :
           /\ step[s].status = "decided" => step'[s].status = "decided"
           /\ step[s].status # "expired" /\ step'[s].status = "expired" =>
                Expirable(step[s])]_vars
  BY RowStep
<1> QED
  BY <1>1, InductiveInvariant, PTL DEF Spec, DecisionsStand

-----------------------------------------------------------------------------
(* The refinement of TaskOutcomes.                                         *)

\* Failures that a waiting retry will replace, as the refinement maps them.
Unsettled == {t \in Task \ upset : result[t] = "failed" /\ Waits(t)}

\* What a step has to do with the outcomes.
OutcomeStep == PlacesFit' /\ [Outcomes!OutcomesNext]_(Outcomes!outcomeVars)

\* Both modules know the same tasks and successes.
LEMMA SameTasks == Outcomes!Task = Task /\ Outcomes!Success = Success
BY DEF Outcomes!Task, Task, Outcomes!Success, Success

\* A step that leaves what a caller sees.
LEMMA SameOutcomes ==
  ASSUME UNCHANGED <<result, mails>>, upset' \ {Sweep} = upset \ {Sweep},
         Unsettled' = Unsettled
  PROVE  UNCHANGED Outcomes!outcomeVars
BY DEF Outcomes!outcomeVars, Unsettled

\* Results say how far a task is.
LEMMA ResultsAtStages ==
  /\ ResultsAt("retried") = {"retry"}
  /\ ResultsAt("ended") = Success \cup {"failed"}
  /\ \A stage \in Stage \ {"retried", "ended"} : ResultsAt(stage) = {"started"}
BY DEF ResultsAt

\* A task whose messages and holders stay what they are stays in its place.
LEMMA PlaceFrame ==
  ASSUME NEW t \in Task, result'[t] = result[t],
         \A m \in Message : m.task = t => queue'[m] = queue[m],
         \A w \in Worker : Holds(w, t) \/ Holds(w, t)' => work'[w] = work[w]
  PROVE  /\ InOnePlace(t) => InOnePlace(t)'
         /\ Waits(t)' <=> Waits(t)
<1>1. \A w \in Worker : Holds(w, t)' <=> Holds(w, t)
  BY DEF Holds, TaskOf
<1>2. \A w \in Worker : Holds(w, t) =>
        /\ work'[w] = work[w] /\ NextMessage(w)' = NextMessage(w)
        /\ Retrying(w)' <=> Retrying(w)
  BY DEF NextMessage, Retrying, At
<1>3. Waits(t)' <=> Waits(t)
  BY DEF Waits
<1>4. ASSUME InOnePlace(t)
      PROVE  InOnePlace(t)'
  <2>1. ASSUME NEW w \in Worker, Holds(w, t)'
        PROVE  /\ \A v \in Worker : Holds(v, t)' => v = w
               /\ result'[t] \in ResultsAt(work'[w].stage)
    BY <1>1, <1>2, <1>4, <2>1 DEF InOnePlace
  <2>2. ASSUME NEW m \in Message, m.task = t, queue'[m] > 0
        PROVE  /\ queue'[m] = 1
               /\ \A n \in Message : n.task = t /\ queue'[n] > 0 => n = m
               /\ \A w \in Worker : Holds(w, t)' => Retrying(w)' /\ m = NextMessage(w)'
               /\ \/ result'[t] \in {"pending", "retry", "failed"}
                  \/ \E w \in Worker : Holds(w, t)'
    BY <1>1, <1>2, <1>4, <2>2 DEF InOnePlace
  <2> QED
    BY <2>1, <2>2 DEF InOnePlace
<1> QED
  BY <1>3, <1>4

\* What moves is one task.
LEMMA OneMoves ==
  ASSUME Inductive, PlacesFit, NEW t \in Task,
         \A u \in Task \ {t} : result'[u] = result[u],
         \A m \in Message : m.task \in Task \ {t} => queue'[m] = queue[m],
         \A w \in Worker, u \in Task \ {t} :
           Holds(w, u) \/ Holds(w, u)' => work'[w] = work[w],
         upset \subseteq upset', upset' \subseteq upset \cup {t},
         t \notin upset' => InOnePlace(t)'
  PROVE  /\ PlacesFit'
         /\ \A u \in Task \ {t} : u \in Unsettled' <=> u \in Unsettled
<1>1. \A u \in Task \ {t} :
        (InOnePlace(u) => InOnePlace(u)') /\ (Waits(u)' <=> Waits(u))
  BY PlaceFrame
<1> QED
  BY <1>1 DEF PlacesFit, Unsettled

\* Steps that are none of the tasks' business.
LEMMA OutcomeStutters ==
  ASSUME Inductive, PlacesFit, UNCHANGED <<result, mails>>,
         upset' \ {Sweep} = upset \ {Sweep},
         \A m \in Message : m.task \in Task => queue'[m] = queue[m],
         \A w \in Worker, t \in Task : Holds(w, t) \/ Holds(w, t)' => work'[w] = work[w]
  PROVE  OutcomeStep
<1>1. \A t \in Task :
        (InOnePlace(t) => InOnePlace(t)') /\ (Waits(t)' <=> Waits(t))
  BY PlaceFrame
<1>2. Task \ upset' = Task \ upset
  BY FirstMessage
<1>3. PlacesFit' /\ Unsettled' = Unsettled
  BY <1>1, <1>2 DEF PlacesFit, Unsettled
<1> QED
  BY <1>3, SameOutcomes DEF OutcomeStep

\* An attempt that is under way, or one that is made once more, comes to an
\* outcome; or to none, where a success stays.
LEMMA Concludes ==
  ASSUME Inductive, PlacesFit', NEW t \in Task, result[t] = "started" \/ t \in upset,
         NEW state \in Outcomes!Outcome(t), result' = Stored(t, state),
         UNCHANGED <<mails, upset>>, Unsettled' = Unsettled
  PROVE  OutcomeStep
<1>1. CASE result[t] \in Success
  <2>1. UNCHANGED result
    BY <1>1 DEF Stored
  <2> QED
    BY <2>1, SameOutcomes DEF OutcomeStep
<1>2. CASE result[t] \notin Success
  <2>1. result' = [result EXCEPT ![t] = state]
    BY <1>2 DEF Stored
  <2>2. result[t] = "started" \/ Outcomes!MayRepeat(t)
    BY <1>2, SameTasks, FirstMessage DEF Outcomes!MayRepeat
  <2>3. Outcomes!Conclude(t)
    BY <2>1, <2>2 DEF Outcomes!Conclude, Outcomes!Becomes, Unsettled
  <2> QED
    BY <2>3, SameTasks DEF OutcomeStep, Outcomes!OutcomesNext
<1> QED
  BY <1>1, <1>2

\* One worker moves, and it has to do with one task only.
LEMMA OneWorker ==
  ASSUME Inductive, PlacesFit, NEW w \in Worker, NEW t \in Task, Holds(w, t),
         \A v \in Worker \ {w} : work'[v] = work[v],
         work'[w] # None => work'[w].message = work[w].message,
         \A u \in Task \ {t} : result'[u] = result[u],
         \A m \in Message : m.task \in Task \ {t} => queue'[m] = queue[m],
         UNCHANGED upset,
         t \notin upset => InOnePlace(t)'
  PROVE  /\ PlacesFit'
         /\ \A u \in Task \ {t} : u \in Unsettled' <=> u \in Unsettled
<1>1. \A v \in Worker, u \in Task \ {t} :
        Holds(v, u) \/ Holds(v, u)' => work'[v] = work[v]
  BY DEF Holds, TaskOf
<1> QED
  BY <1>1, OneMoves

\* Beat, sweeps, and what happens elsewhere.
LEMMA AsideOutcome ==
  ASSUME Inductive, PlacesFit,
         \/ Beat
         \/ \E w \in Worker : SweepStep(w)
         \/ \E s \in Step : Elsewhere(s)
         \/ UNCHANGED vars
  PROVE  OutcomeStep
<1>1. UNCHANGED <<result, mails, upset>>
  BY DEF Beat, SweepStep, SweepUpdate, SweepCommit, SweepFails, Elsewhere, Expire,
     Decide, DecideCommit, vars, tasks, history
<1>2. \A m \in Message : m.task \in Task => queue'[m] = queue[m]
  <2>1. CASE Beat
    BY <2>1, FirstMessage DEF Inductive, TypeOK, Beat
  <2>2. CASE ~Beat
    BY <2>2 DEF SweepStep, SweepUpdate, SweepCommit, SweepFails, Elsewhere, Expire,
       Decide, DecideCommit, vars
  <2> QED
    BY <2>1, <2>2
<1>3. ASSUME NEW w \in Worker, SweepStep(w)
      PROVE  \A v \in Worker, t \in Task : Holds(v, t) \/ Holds(v, t)' => work'[v] = work[v]
  <2>1. work[w] # None /\ TaskOf(w) = Sweep
    BY <1>3 DEF SweepStep, SweepUpdate, SweepCommit, SweepFails, At, Inductive, StagesFit
  <2>2. /\ \A v \in Worker \ {w} : work'[v] = work[v]
        /\ work'[w].message = work[w].message
    BY <1>3, <2>1, HeldTyping
    DEF Inductive, TypeOK, Held, SweepStep, SweepUpdate, SweepCommit, SweepFails
  <2> QED
    BY <2>1, <2>2, FirstMessage DEF Holds, TaskOf
<1>4. \A v \in Worker, t \in Task : Holds(v, t) \/ Holds(v, t)' => work'[v] = work[v]
  <2>1. CASE UNCHANGED work
    BY <2>1
  <2>2. CASE \E w \in Worker : SweepStep(w)
    BY <2>2, <1>3
  <2> QED
    BY <2>1, <2>2 DEF Beat, Elsewhere, Expire, Decide, DecideCommit, vars
<1> QED
  BY <1>1, <1>2, <1>4, OutcomeStutters

\* A call is the first state of a task.
LEMMA EnqueueOutcome ==
  ASSUME Inductive, PlacesFit, NEW t \in Task, Enqueue(t)
  PROVE  OutcomeStep
<1> DEFINE first == [task |-> t, retries |-> 0]
<1>1. first \in Message /\ first.task = t
  BY FirstMessage
<1> HIDE DEF first
<1>2. /\ result[t] = "none"
      /\ queue' = [queue EXCEPT ![first] = 1]
      /\ result' = [result EXCEPT ![t] = "pending"]
      /\ UNCHANGED <<work, mails, upset>>
  BY DEF Enqueue, first, table, history
<1>3. /\ queue'[first] = 1 /\ \A m \in Message \ {first} : queue'[m] = queue[m]
      /\ result'[t] = "pending" /\ \A u \in Task \ {t} : result'[u] = result[u]
  BY <1>1, <1>2 DEF Inductive, TypeOK
<1>4. InOnePlace(t)'
  <2>1. \A m \in Message : m.task = t /\ queue'[m] > 0 => m = first
    BY <1>2, <1>3 DEF Inductive, UnaskedIsNowhere, Waits
  <2>2. \A w \in Worker : ~Holds(w, t)'
    BY <1>2 DEF Inductive, UnaskedIsNowhere, Holds, TaskOf
  <2> QED
    BY <1>3, <2>1, <2>2 DEF InOnePlace
<1>5. PlacesFit' /\ \A u \in Task \ {t} : u \in Unsettled' <=> u \in Unsettled
  BY <1>1, <1>2, <1>3, <1>4, OneMoves
<1>6. Unsettled' = Unsettled
  BY <1>2, <1>3, <1>5 DEF Unsettled
<1>7. Outcomes!Ask(t)
  BY <1>2, <1>6 DEF Outcomes!Ask, Outcomes!Becomes, Unsettled
<1> QED
  BY <1>5, <1>7, SameTasks DEF OutcomeStep, Outcomes!OutcomesNext

\* A delivery begins an attempt, or repeats a success in vain.
LEMMA TakeOutcome ==
  ASSUME Inductive, PlacesFit, NEW w \in Worker, NEW m \in Message, Take(w, m)
  PROVE  OutcomeStep
<1>1. /\ work[w] = None /\ queue[m] > 0 /\ queue[m] \in Nat
      /\ queue'[m] = queue[m] - 1 /\ \A n \in Message \ {m} : queue'[n] = queue[n]
      /\ work'[w].message = m /\ work'[w].stage = "started"
      /\ \A v \in Worker \ {w} : work'[v] = work[v]
      /\ UNCHANGED <<mails, upset>>
  BY DEF Inductive, TypeOK, Take, table, history
<1>2. ASSUME NEW v \in Worker, NEW u \in Task, u # m.task, Holds(v, u) \/ Holds(v, u)'
      PROVE  work'[v] = work[v]
  BY <1>1, <1>2 DEF Holds, TaskOf
<1>3. CASE m.task = Sweep
  <2>1. UNCHANGED result
    BY <1>3 DEF Take
  <2>2. \A u \in Task : u # m.task
    BY <1>3, FirstMessage
  <2>3. \A n \in Message : n.task \in Task => queue'[n] = queue[n]
    BY <1>1, <2>2
  <2> QED
    BY <1>1, <1>2, <2>1, <2>2, <2>3, OutcomeStutters
<1>4. CASE m.task # Sweep
  <2> DEFINE t == m.task
  <2>1. t \in Task /\ result' = Stored(t, "started")
    BY <1>4, MessageTyping DEF Take
  <2>2. \A n \in Message : n.task # t => queue'[n] = queue[n]
    BY <1>1
  <2> HIDE DEF t
  <2>3. /\ \A u \in Task \ {t} : result'[u] = result[u]
        /\ result[t] \notin Success => result'[t] = "started"
    BY <2>1, StoredTyping DEF Inductive, Result
  <2>4. ASSUME t \notin upset
        PROVE  /\ result[t] \in {"pending", "retry", "failed"}
               /\ \A v \in Worker : ~Holds(v, t)
               /\ \A n \in Message : n.task = t => ~(queue'[n] > 0)
    <3>1. InOnePlace(t) /\ m.task = t
      BY <2>1, <2>4 DEF PlacesFit, t
    <3>2. queue[m] = 1 /\ \A n \in Message : n.task = t /\ queue[n] > 0 => n = m
      BY <1>1, <3>1 DEF InOnePlace
    <3>3. \A v \in Worker : ~(Retrying(v) /\ m = NextMessage(v))
      BY <3>2 DEF Take
    <3>4. \A v \in Worker : ~Holds(v, t)
      BY <1>1, <3>1, <3>3 DEF InOnePlace
    <3> QED
      BY <1>1, <3>1, <3>2, <3>4 DEF InOnePlace
  <2>5. ASSUME t \notin upset
        PROVE  InOnePlace(t)'
    <3>1. \A v \in Worker : Holds(v, t)' => v = w
      BY <1>1, <2>4, <2>5 DEF Holds, TaskOf
    <3>2. result'[t] = "started" /\ ResultsAt(work'[w].stage) = {"started"}
      BY <1>1, <2>3, <2>4, <2>5, ResultsAtStages DEF Success, Stage
    <3> QED
      BY <2>4, <2>5, <3>1, <3>2 DEF InOnePlace
  <2>6. PlacesFit' /\ \A u \in Task \ {t} : u \in Unsettled' <=> u \in Unsettled
    BY <1>1, <1>2, <2>1, <2>2, <2>3, <2>5, OneMoves DEF t
  <2>7. t \in Unsettled <=> t \notin upset /\ result[t] = "failed"
    BY <1>1, <2>1 DEF Unsettled, Waits, t
  <2>8. t \notin Unsettled'
    BY <1>1, <2>3, <2>4 DEF Unsettled, Success
  <2>9. CASE result[t] \in Success
    <3>1. UNCHANGED result
      BY <2>1, <2>9 DEF Stored
    <3>2. Unsettled' = Unsettled
      BY <2>6, <2>7, <2>8, <2>9 DEF Unsettled, Success
    <3> QED
      BY <1>1, <2>6, <3>1, <3>2, SameOutcomes DEF OutcomeStep
  <2>10. CASE result[t] \notin Success
    <3>1. result' = [result EXCEPT ![t] = "started"]
      BY <2>1, <2>10 DEF Stored
    <3>2. result[t] \in {"pending", "retry"} \/ t \in Unsettled \/ Outcomes!MayRepeat(t)
      BY <2>1, <2>4, <2>7, <2>10, SameTasks, FirstMessage DEF Outcomes!MayRepeat
    <3>3. Unsettled' = Unsettled \ {t}
      BY <2>6, <2>8 DEF Unsettled
    <3>4. Outcomes!Begin(t)
      BY <1>1, <3>1, <3>2, <3>3 DEF Outcomes!Begin, Outcomes!Becomes, Unsettled
    <3> QED
      BY <2>1, <2>6, <3>4, SameTasks DEF OutcomeStep, Outcomes!OutcomesNext
  <2> QED
    BY <2>9, <2>10
<1> QED
  BY <1>3, <1>4

\* Where a task is that a worker is at.
LEMMA AtWorkPlace ==
  ASSUME Inductive, PlacesFit, NEW w \in Worker, NEW t \in Task, AtWork(t, w), t \notin upset
  PROVE  /\ result[t] = "started" /\ ~Waits(t)
         /\ \A v \in Worker : Holds(v, t) => v = w
<1>1. InOnePlace(t) /\ Holds(w, t)
  BY DEF PlacesFit, AtWork, Holds
<1>2. ResultsAt(work[w].stage) = {"started"} /\ ~Retrying(w)
  BY HeldTyping, ResultsAtStages DEF Inductive, AtWork, Over, Retrying, At
<1> QED
  BY <1>1, <1>2 DEF InOnePlace, Waits

\* An attempt ends with a result or a failure.
LEMMA EndOutcome ==
  ASSUME Inductive, PlacesFit, NEW w \in Worker, NEW t \in Task, AtWork(t, w),
         \/ work' = [work EXCEPT ![w] = None]
         \/ work' = [work EXCEPT ![w].stage = "ended"],
         NEW state \in Outcomes!Outcome(t) \ {"retry"}, result' = Stored(t, state),
         UNCHANGED <<queue, mails, upset>>
  PROVE  OutcomeStep
<1>1. /\ \A v \in Worker \ {w} : work'[v] = work[v]
      /\ work'[w] # None => work'[w].stage = "ended" /\ work'[w].message = work[w].message
  BY HeldTyping DEF Inductive, TypeOK, Held, AtWork
<1>2. state \in Success \cup {"failed"} /\ state \in Result /\ state \in Outcomes!Outcome(t)
  BY DEF Outcomes!Outcome, Result, Success
<1>3. /\ \A u \in Task \ {t} : result'[u] = result[u]
      /\ result[t] \notin Success => result'[t] = state
  BY <1>2, StoredTyping DEF Inductive
<1>4. ASSUME t \notin upset
      PROVE  InOnePlace(t)' /\ ~Waits(t)' /\ result[t] = "started"
  <2>1. /\ result[t] = "started" /\ ~Waits(t)
        /\ \A v \in Worker : Holds(v, t) => v = w
    BY <1>4, AtWorkPlace
  <2>2. result'[t] \in ResultsAt("ended")
    BY <1>2, <1>3, <2>1, ResultsAtStages DEF Success
  <2>3. \A v \in Worker : Holds(v, t)' => v = w /\ work'[w].stage = "ended"
    BY <1>1, <2>1 DEF Holds, TaskOf
  <2>4. ~Waits(t)' /\ \A m \in Message : m.task = t => ~(queue'[m] > 0)
    BY <2>1 DEF Waits
  <2> QED
    BY <2>1, <2>2, <2>3, <2>4 DEF InOnePlace
<1>5. PlacesFit' /\ \A u \in Task \ {t} : u \in Unsettled' <=> u \in Unsettled
  BY <1>1, <1>3, <1>4, OneWorker DEF AtWork, Holds
<1>6. Unsettled' = Unsettled
  BY <1>4, <1>5 DEF Unsettled
<1> QED
  BY <1>2, <1>4, <1>5, <1>6, Concludes

\* A retry is published, and nothing is said yet; or the last one has failed.
LEMMA RetryOutcome ==
  ASSUME Inductive, PlacesFit, NEW w \in Worker, NEW t \in Task, AtWork(t, w), Retry(w),
         UNCHANGED <<mails, upset>>
  PROVE  OutcomeStep
<1>1. /\ TaskOf(w) = t /\ work[w] # None
      /\ work[w].message \in Message /\ work[w].message.task = t
  BY HeldTyping DEF AtWork, TaskOf, Inductive
<1>2. CASE work[w].stage # "ended" /\ result' = Stored(t, "failed") /\ UNCHANGED queue
           /\ work' = [work EXCEPT ![w].stage = "ended"]
  <2>1. "failed" \in Outcomes!Outcome(t) \ {"retry"}
    BY DEF Outcomes!Outcome
  <2> QED
    BY <1>2, <2>1, EndOutcome
<1>3. CASE /\ work[w].message.retries < MaxRetries(TaskOf(w))
           /\ queue' = [queue EXCEPT ![NextMessage(w)] = @ + 1]
           /\ work' = [work EXCEPT ![w].stage = "published"]
           /\ UNCHANGED result
  <2> DEFINE n == NextMessage(w)
  <2>1. n \in Message /\ n.task = t
    BY <1>1, <1>3, MessageTyping DEF NextMessage
  <2>2. /\ \A v \in Worker \ {w} : work'[v] = work[v]
        /\ work'[w] # None
        /\ work'[w].stage = "published" /\ work'[w].message = work[w].message
    <3>1. work[w] \in Held /\ [work[w] EXCEPT !.stage = "published"] \in Held
      BY <1>1, HeldTyping DEF Inductive, Stage
    <3> QED
      BY <1>3, <3>1, NoneIsNothing DEF Inductive, TypeOK, Held
  <2>3. Retrying(w)' /\ NextMessage(w)' = n
    BY <2>2 DEF Retrying, At, NextMessage
  <2> HIDE DEF n
  <2>4. /\ queue'[n] = queue[n] + 1 /\ queue[n] \in Nat
        /\ \A m \in Message \ {n} : queue'[m] = queue[m]
    BY <1>3, <2>1 DEF Inductive, TypeOK, n
  <2>5. ASSUME t \notin upset
        PROVE  InOnePlace(t)' /\ result[t] = "started"
    <3>1. /\ result[t] = "started" /\ ~Waits(t)
          /\ \A v \in Worker : Holds(v, t) => v = w
      BY <2>5, AtWorkPlace
    <3>2. result'[t] \in ResultsAt(work'[w].stage)
      BY <1>3, <2>2, <3>1, ResultsAtStages DEF Stage
    <3>3. Holds(w, t)' /\ \A v \in Worker : Holds(v, t)' => v = w
      BY <1>1, <2>2, <3>1 DEF Holds, TaskOf
    <3>4. queue'[n] = 1 /\ \A m \in Message : m.task = t /\ queue'[m] > 0 => m = n
      BY <2>1, <2>4, <3>1 DEF Waits
    <3> QED
      BY <2>3, <3>1, <3>2, <3>3, <3>4 DEF InOnePlace
  <2>6. PlacesFit' /\ \A u \in Task \ {t} : u \in Unsettled' <=> u \in Unsettled
    BY <1>1, <1>3, <2>1, <2>2, <2>4, <2>5, OneWorker DEF Holds
  <2>7. Unsettled' = Unsettled
    BY <1>3, <2>5, <2>6 DEF Unsettled
  <2> QED
    BY <1>3, <2>6, <2>7, SameOutcomes DEF OutcomeStep
<1> QED
  BY <1>1, <1>2, <1>3 DEF Retry, End, AtWork, Over

\* A task that returns.
LEMMA ReturnOutcome ==
  ASSUME Inductive, PlacesFit, NEW w \in Worker, NEW t \in Task, AtWork(t, w),
         NEW state \in Outcomes!Outcome(t) \ {"retry"}, End(w, state),
         UNCHANGED <<queue, mails, upset>>
  PROVE  OutcomeStep
<1>1. TaskOf(w) = t /\ work[w] # None
  BY DEF AtWork
<1>2. work' = [work EXCEPT ![w].stage = "ended"] /\ result' = Stored(t, state)
  BY <1>1 DEF End
<1> QED
  BY <1>1, <1>2, EndOutcome

\* The retry that waits is stored: the attempt ends with it.
LEMMA StoreRetryOutcome ==
  ASSUME Inductive, PlacesFit, NEW w \in Worker, StoreRetry(w)
  PROVE  OutcomeStep
<1>0. TaskOf(w) \in Task
  BY RetryingTyping DEF StoreRetry, Retrying
<1> PICK t \in Task : t = TaskOf(w)
  BY <1>0
<1>1. /\ At(w, "published") /\ Retrying(w) /\ t \in Task /\ Holds(w, t)
      /\ work[w] # None /\ work[w].stage = "published"
      /\ result' = Stored(t, "retry") /\ UNCHANGED <<queue, mails, upset>>
  BY RetryingTyping DEF StoreRetry, Retrying, Holds, At, history
<1>2. /\ \A v \in Worker \ {w} : work'[v] = work[v]
      /\ work'[w] # None
      /\ work'[w].stage = "retried" /\ work'[w].message = work[w].message
  <2>1. work[w] \in Held /\ [work[w] EXCEPT !.stage = "retried"] \in Held
    BY <1>1, HeldTyping DEF Inductive, Stage
  <2> QED
    BY <2>1, NoneIsNothing DEF StoreRetry, Inductive, TypeOK, Held
<1>3. Retrying(w)' /\ NextMessage(w)' = NextMessage(w)
  BY <1>2 DEF Retrying, At, NextMessage
<1>4. "retry" \in Result /\ "retry" \in Outcomes!Outcome(t)
  BY DEF Result, Outcomes!Outcome
<1>5. /\ \A u \in Task \ {t} : result'[u] = result[u]
      /\ result[t] \notin Success => result'[t] = "retry"
  BY <1>1, <1>4, StoredTyping DEF Inductive
<1>6. ASSUME t \notin upset
      PROVE  InOnePlace(t)' /\ result[t] = "started" /\ result'[t] = "retry"
  <2>1. InOnePlace(t) /\ ResultsAt("published") = {"started"}
    BY <1>1, <1>6, ResultsAtStages DEF PlacesFit, Stage
  <2>2. result[t] = "started" /\ \A v \in Worker : Holds(v, t) => v = w
    BY <1>1, <2>1 DEF InOnePlace
  <2>3. result'[t] = "retry" /\ result'[t] \in ResultsAt(work'[w].stage)
    BY <1>2, <1>5, <2>2, ResultsAtStages DEF Success
  <2>4. \A v \in Worker : Holds(v, t)' => v = w
    BY <1>2, <2>2 DEF Holds, TaskOf
  <2>5. \A m \in Message : m.task = t /\ queue[m] > 0 =>
          /\ queue[m] = 1 /\ \A n \in Message : n.task = t /\ queue[n] > 0 => n = m
          /\ m = NextMessage(w)
    BY <1>1, <2>1 DEF InOnePlace
  <2> QED
    BY <1>1, <1>3, <2>2, <2>3, <2>4, <2>5 DEF InOnePlace
<1>7. PlacesFit' /\ \A u \in Task \ {t} : u \in Unsettled' <=> u \in Unsettled
  BY <1>1, <1>2, <1>5, <1>6, OneWorker
<1>8. Unsettled' = Unsettled
  BY <1>1, <1>6, <1>7 DEF Unsettled
<1> QED
  BY <1>1, <1>4, <1>6, <1>7, <1>8, Concludes

\* The server takes an e-mail: the attempt goes on.
LEMMA SendMailOutcome ==
  ASSUME Inductive, PlacesFit, NEW w \in Worker, SendMail(w)
  PROVE  OutcomeStep
<1> PICK t \in Task : t = TaskOf(w)
  BY DEF SendMail, Task
<1>1. /\ AtWork(t, w) /\ Holds(w, t) /\ t \in Notification /\ t \in Task
      /\ mails' = [mails EXCEPT ![t] = @ + 1]
      /\ work' = [work EXCEPT ![w].stage = "accepted"]
      /\ UNCHANGED <<queue, result, upset>>
  BY DEF SendMail, At, AtWork, Holds, Over, Task, table, history
<1>2. /\ \A v \in Worker \ {w} : work'[v] = work[v]
      /\ work'[w].stage = "accepted" /\ work'[w].message = work[w].message
  BY <1>1, HeldTyping DEF Inductive, TypeOK, Held, AtWork
<1>3. ASSUME t \notin upset
      PROVE  InOnePlace(t)' /\ result[t] = "started"
  <2>1. /\ result[t] = "started" /\ ~Waits(t)
        /\ \A v \in Worker : Holds(v, t) => v = w
    BY <1>1, <1>3, AtWorkPlace
  <2>2. result'[t] \in ResultsAt(work'[w].stage)
    BY <1>1, <1>2, <2>1, ResultsAtStages DEF Stage
  <2>3. \A v \in Worker : Holds(v, t)' => v = w
    BY <1>2, <2>1 DEF Holds, TaskOf
  <2>4. \A m \in Message : m.task = t => ~(queue'[m] > 0)
    BY <1>1, <2>1 DEF Waits
  <2> QED
    BY <2>1, <2>2, <2>3, <2>4 DEF InOnePlace
<1>4. PlacesFit' /\ \A u \in Task \ {t} : u \in Unsettled' <=> u \in Unsettled
  BY <1>1, <1>2, <1>3, OneWorker
<1>5. Unsettled' = Unsettled
  BY <1>1, <1>3, <1>4 DEF Unsettled
<1>6. result[t] = "started" \/ t \in upset \ {Sweep}
  BY <1>1, <1>3, FirstMessage
<1>7. Outcomes!Mail(t)
  BY <1>1, <1>5, <1>6 DEF Outcomes!Mail, Unsettled
<1> QED
  BY <1>1, <1>4, <1>7, SameTasks DEF OutcomeStep, Outcomes!OutcomesNext

\* An acknowledgement says nothing new.
LEMMA AckOutcome ==
  ASSUME Inductive, PlacesFit, NEW w \in Worker, Ack(w)
  PROVE  OutcomeStep
<1>1. /\ work[w] # None /\ work[w].stage \in {"retried", "ended"}
      /\ UNCHANGED <<queue, result, mails, upset>>
  BY DEF Ack, At, tasks, history
<1>2. work'[w] = None /\ \A v \in Worker \ {w} : work'[v] = work[v]
  BY DEF Ack, Inductive, TypeOK
<1>3. TaskOf(w) \in Task \cup {Sweep}
  BY <1>1, HeldTyping, MessageTyping DEF Inductive, TaskOf
<1> PICK t \in Task \cup {Sweep} : t = TaskOf(w)
  BY <1>3
<1>4. CASE t = Sweep
  <2>1. \A v \in Worker, u \in Task : Holds(v, u) \/ Holds(v, u)' => work'[v] = work[v]
    BY <1>2, <1>4, FirstMessage DEF Holds, TaskOf
  <2> QED
    BY <1>1, <2>1, OutcomeStutters
<1>5. CASE t # Sweep
  <2>1. t \in Task /\ Holds(w, t)
    BY <1>1, <1>5 DEF Holds
  <2>2. ASSUME t \notin upset
        PROVE  InOnePlace(t)'
    <3>1. InOnePlace(t)
      BY <2>1, <2>2 DEF PlacesFit
    <3>2. \A v \in Worker : ~Holds(v, t)'
      BY <1>2, <2>1, <3>1 DEF InOnePlace, Holds, TaskOf
    <3>3. \A m \in Message : m.task = t /\ queue[m] > 0 =>
            /\ queue[m] = 1 /\ \A n \in Message : n.task = t /\ queue[n] > 0 => n = m
            /\ Retrying(w)
      BY <2>1, <3>1 DEF InOnePlace
    <3>4. Retrying(w) => result[t] = "retry"
      BY <1>1, <2>1, <3>1, ResultsAtStages DEF InOnePlace, Retrying, At
    <3> QED
      BY <1>1, <3>2, <3>3, <3>4 DEF InOnePlace
  <2>3. PlacesFit' /\ \A u \in Task \ {t} : u \in Unsettled' <=> u \in Unsettled
    BY <1>1, <1>2, <2>1, <2>2, OneWorker
  <2>4. Unsettled' = Unsettled
    BY <1>1, <2>3 DEF Unsettled, Waits
  <2> QED
    BY <1>1, <2>3, <2>4, SameOutcomes DEF OutcomeStep
<1> QED
  BY <1>4, <1>5

\* Every end of an attempt is one that TaskOutcomes knows.
LEMMA AttemptOutcome ==
  ASSUME Inductive, PlacesFit, NEW w \in Worker, Attempt(w)
  PROVE  OutcomeStep
<1> DEFINE t == TaskOf(w)
<1>1. CASE Skip(w)
  <2>1. AtWork(t, w) /\ t \in Task /\ "skipped" \in Outcomes!Outcome(t) \ {"retry"}
    BY <1>1, BackgroundTasksAssumption DEF Skip, At, AtWork, Over, Task, Outcomes!Outcome
  <2>2. End(w, "skipped") /\ UNCHANGED <<queue, mails, upset>>
    BY <1>1 DEF Skip, history
  <2> QED
    BY <2>1, <2>2, ReturnOutcome
<1>2. CASE Quit(w)
  <2>1. AtWork(t, w) /\ t \in Notification /\ mails[t] > 0
    BY <1>2 DEF Quit, At, AtWork, Over, Inductive, StagesFit
  <2>2. t \in Task /\ "sent" \in Outcomes!Outcome(t) \ {"retry"}
    BY <2>1, BackgroundTasksAssumption DEF Task, Outcomes!Outcome
  <2>3. End(w, "sent") /\ UNCHANGED <<queue, mails, upset>>
    BY <1>2 DEF Quit, history
  <2> QED
    BY <2>1, <2>2, <2>3, ReturnOutcome
<1>3. CASE Analyse(w)
  <2>1. AtWork(t, w) /\ t \in Task /\ "completed" \in Outcomes!Outcome(t) \ {"retry"}
    BY <1>3 DEF Analyse, At, AtWork, Over, Task, Outcomes!Outcome
  <2>2. End(w, "completed") /\ UNCHANGED <<queue, mails, upset>>
    BY <1>3 DEF Analyse, history
  <2> QED
    BY <2>1, <2>2, ReturnOutcome
<1>4. CASE SendFails(w) \/ QuitFails(w) \/ AnalyseFails(w)
  <2>1. AtWork(t, w) /\ t \in Task
    BY <1>4 DEF SendFails, QuitFails, AnalyseFails, At, AtWork, Over, Task, Inductive, StagesFit
  <2>2. Retry(w) /\ UNCHANGED <<mails, upset>>
    BY <1>4 DEF SendFails, QuitFails, AnalyseFails, history
  <2> QED
    BY <2>1, <2>2, RetryOutcome
<1> QED
  BY <1>1, <1>2, <1>3, <1>4, SendMailOutcome, StoreRetryOutcome, AckOutcome DEF Attempt

\* A worker that dies upsets its task.
LEMMA DieOutcome ==
  ASSUME Inductive, PlacesFit, NEW w \in Worker, Die(w)
  PROVE  OutcomeStep
<1>0. work[w].message \in Message /\ work[w].message.task \in Task \cup {Sweep}
  BY HeldTyping, MessageTyping DEF Inductive, Die
<1> PICK m \in Message : m = work[w].message
  BY <1>0
<1> PICK t \in Task \cup {Sweep} : t = TaskOf(w)
  BY <1>0 DEF TaskOf
<1>1. /\ work[w] # None /\ m \in Message /\ m.task = t /\ t \in Task \cup {Sweep}
      /\ upset' = upset \cup {t} /\ UNCHANGED <<result, mails>>
  BY HeldTyping, MessageTyping DEF Inductive, Die, TaskOf, tasks
<1>2. /\ \A n \in Message \ {m} : queue'[n] = queue[n]
      /\ work'[w] = None /\ \A v \in Worker \ {w} : work'[v] = work[v]
  BY DEF Inductive, TypeOK, Die
<1>3. \A v \in Worker, u \in Task : u # t =>
        (Holds(v, u) \/ Holds(v, u)' => work'[v] = work[v])
  BY <1>2 DEF Holds, TaskOf
<1>4. \A n \in Message : n.task # t => queue'[n] = queue[n]
  BY <1>1, <1>2
<1>5. CASE t = Sweep
  <2>1. upset' \ {Sweep} = upset \ {Sweep} /\ \A u \in Task : u # t
    BY <1>1, <1>5, FirstMessage
  <2> QED
    BY <1>1, <1>3, <1>4, <2>1, OutcomeStutters
<1>6. CASE t # Sweep
  <2>1. t \in Task /\ result[t] # "none"
    BY <1>1, <1>6 DEF Inductive, UnaskedIsNowhere
  <2>2. upset' \ {Sweep} = (upset \ {Sweep}) \cup {t}
    BY <1>1, <1>6
  <2>3. PlacesFit' /\ \A u \in Task \ {t} : u \in Unsettled' <=> u \in Unsettled
    BY <1>1, <1>3, <1>4, <2>1, OneMoves
  <2>4. Unsettled' = Unsettled \ {t}
    BY <1>1, <2>3 DEF Unsettled
  <2>5. Outcomes!Upset(t)
    BY <1>1, <2>1, <2>2, <2>4 DEF Outcomes!Upset, Unsettled
  <2> QED
    BY <2>1, <2>3, <2>5, SameTasks DEF OutcomeStep, Outcomes!OutcomesNext
<1> QED
  BY <1>5, <1>6

\* A child is lost after its task is over: its result stays, or its retry is
\* said to have failed and waits.
LEMMA LoseReportOutcome ==
  ASSUME Inductive, PlacesFit, NEW w \in Worker, NEW t \in Task, Holds(w, t),
         work[w].stage \in Over, work' = [work EXCEPT ![w] = None],
         result' = Stored(t, "failed"), UNCHANGED <<queue, mails, upset>>
  PROVE  OutcomeStep
<1>1. work'[w] = None /\ \A v \in Worker \ {w} : work'[v] = work[v]
  BY DEF Inductive, TypeOK
<1>2. "failed" \in Result /\ "failed" \in Outcomes!Outcome(t)
  BY DEF Result, Outcomes!Outcome
<1>3. /\ \A u \in Task \ {t} : result'[u] = result[u]
      /\ result[t] \notin Success => result'[t] = "failed"
      /\ result[t] \in Success => result'[t] = result[t]
  BY <1>2, StoredTyping DEF Inductive
<1>4. \A u \in Task : Waits(u)' <=> Waits(u)
  BY DEF Waits
<1>5. ASSUME t \notin upset
      PROVE  /\ InOnePlace(t)'
             /\ work[w].stage = "ended" => result'[t] = result[t] /\ ~Waits(t)
             /\ work[w].stage # "ended" => /\ result[t] \in {"started", "retry"}
                                          /\ result'[t] = "failed" /\ Waits(t)
  <2>1. InOnePlace(t)
    BY <1>5 DEF PlacesFit
  <2>2. \A v \in Worker : ~Holds(v, t)'
    BY <1>1, <2>1 DEF InOnePlace, Holds, TaskOf
  <2>3. \A m \in Message : m.task = t /\ queue[m] > 0 =>
          /\ queue[m] = 1 /\ \A n \in Message : n.task = t /\ queue[n] > 0 => n = m
          /\ Retrying(w)
    BY <2>1 DEF InOnePlace
  <2>4. CASE work[w].stage = "ended"
    <3>1. result'[t] = result[t]
      BY <1>3, <2>1, <2>4, ResultsAtStages DEF InOnePlace
    <3>2. ~Retrying(w)
      BY <2>4 DEF Retrying, At
    <3>3. ~Waits(t) /\ \A m \in Message : m.task = t => ~(queue[m] > 0)
      BY <2>3, <3>2 DEF Waits
    <3> QED
      BY <2>2, <2>4, <3>1, <3>3 DEF InOnePlace
  <2>5. CASE work[w].stage # "ended"
    <3>1. Retrying(w)
      BY <2>5 DEF Over, Retrying, At, Holds
    <3>2. Waits(t)
      BY <3>1, RetryingTyping DEF Waits, Holds
    <3>3. result[t] \in {"started", "retry"}
      BY <2>1, <2>5, ResultsAtStages DEF InOnePlace, Over, Stage
    <3>4. result'[t] = "failed"
      BY <1>3, <3>3 DEF Success
    <3> QED
      BY <2>2, <2>3, <2>5, <3>2, <3>3, <3>4 DEF InOnePlace
  <2> QED
    BY <2>4, <2>5
<1>6. PlacesFit' /\ \A u \in Task \ {t} : u \in Unsettled' <=> u \in Unsettled
  BY <1>1, <1>3, <1>5, OneWorker
<1>7. CASE t \in upset
  <2>1. Unsettled' = Unsettled
    BY <1>6, <1>7 DEF Unsettled
  <2> QED
    BY <1>2, <1>6, <1>7, <2>1, Concludes
<1>8. CASE t \notin upset /\ work[w].stage = "ended"
  <2>1. \A u \in Task : result'[u] = result[u]
    BY <1>3, <1>5, <1>8
  <2>2. UNCHANGED result
    BY <2>1, <1>2, StoredTyping DEF Inductive, TypeOK
  <2>3. Unsettled' = Unsettled
    BY <1>5, <1>6, <1>8, <1>4 DEF Unsettled
  <2> QED
    BY <1>6, <2>2, <2>3, SameOutcomes DEF OutcomeStep
<1>9. CASE t \notin upset /\ work[w].stage # "ended"
  <2>1. result' = [result EXCEPT ![t] = "failed"]
    BY <1>5, <1>9 DEF Stored, Success
  <2>2. Unsettled' = Unsettled \cup {t}
    BY <1>4, <1>5, <1>6, <1>9 DEF Unsettled
  <2>3. Outcomes!Misreport(t)
    BY <1>5, <1>9, <2>1, <2>2 DEF Outcomes!Misreport, Outcomes!Becomes, Unsettled
  <2> QED
    BY <1>6, <2>3, SameTasks DEF OutcomeStep, Outcomes!OutcomesNext
<1> QED
  BY <1>7, <1>8, <1>9

\* A lost child is an attempt that failed, an attempt that is said to have
\* failed, or a sweep for nothing.
LEMMA LoseChildOutcome ==
  ASSUME Inductive, PlacesFit, NEW w \in Worker, LoseChild(w)
  PROVE  OutcomeStep
<1>1. /\ work[w] # None /\ work' = [work EXCEPT ![w] = None]
      /\ work'[w] = None /\ \A v \in Worker \ {w} : work'[v] = work[v]
      /\ UNCHANGED <<queue, mails, upset>>
  BY DEF Inductive, TypeOK, LoseChild, history
<1>2. TaskOf(w) \in Task \cup {Sweep}
  BY <1>1, HeldTyping, MessageTyping DEF Inductive, TaskOf
<1>3. CASE TaskOf(w) = Sweep
  <2>1. UNCHANGED result
    BY <1>3 DEF LoseChild
  <2>2. \A v \in Worker, u \in Task : Holds(v, u) \/ Holds(v, u)' => work'[v] = work[v]
    BY <1>1, <1>3, FirstMessage DEF Holds, TaskOf
  <2> QED
    BY <1>1, <2>1, <2>2, OutcomeStutters
<1>4. CASE TaskOf(w) # Sweep
  <2> PICK t \in Task : t = TaskOf(w)
    BY <1>2, <1>4
  <2>1. t \in Task /\ Holds(w, t) /\ result' = Stored(t, "failed")
    BY <1>1, <1>4 DEF LoseChild, Holds
  <2>2. "failed" \in Outcomes!Outcome(t) \ {"retry"}
    BY DEF Outcomes!Outcome
  <2>3. work[w].stage \notin Over => AtWork(t, w)
    BY <1>1 DEF AtWork
  <2> QED
    BY <1>1, <2>1, <2>2, <2>3, EndOutcome, LoseReportOutcome
<1> QED
  BY <1>3, <1>4

\* The tasks implement TaskOutcomes.  As long as no worker dies with it, a task is
\* attempted one time after the other although the broker may deliver it again;
\* a success is final in any case, and a failure unless it was stored for a child
\* that had published a retry.
THEOREM TasksImplementOutcomes == Spec => ImplementsOutcomes
<1>1. Init => Outcomes!OutcomesInit /\ PlacesFit
  <2> SUFFICES ASSUME Init PROVE Outcomes!OutcomesInit /\ PlacesFit
    OBVIOUS
  <2>1. \A m \in Message : queue[m] = 0
    BY DEF Init
  <2>2. \A w \in Worker : work[w] = None
    BY DEF Init
  <2>3. Outcomes!OutcomesInit
    BY <2>1, SameTasks DEF Init, Outcomes!OutcomesInit, Waits
  <2> QED
    BY <2>1, <2>2, <2>3 DEF PlacesFit, InOnePlace, Holds
<1>2. Inductive /\ PlacesFit /\ [Next]_vars =>
        PlacesFit' /\ [Outcomes!OutcomesNext]_(Outcomes!outcomeVars)
  <2> SUFFICES ASSUME Inductive, PlacesFit, [Next]_vars PROVE OutcomeStep
    BY DEF OutcomeStep
  <2>1. CASE UNCHANGED vars
    BY <2>1, AsideOutcome
  <2>2. CASE Next
    BY <2>2, AsideOutcome, EnqueueOutcome, TakeOutcome, AttemptOutcome, DieOutcome,
       LoseChildOutcome
    DEF Next, Delivery
  <2> QED
    BY <2>1, <2>2
<1> QED
  BY <1>1, <1>2, InductiveInvariant, PTL
  DEF Spec, ImplementsOutcomes, Outcomes!OutcomesSpec

=============================================================================
