---------------------------- MODULE TaskOutcomes ----------------------------
(***************************************************************************)
(* What someone who calls delay on a task, and asks for its state later,   *)
(* can rely on.  A task runs in attempts, one after the other; only an     *)
(* attempt that is under way sends e-mails, and its end is a success, a    *)
(* failure or a retry.  A success is final.  A failure is, unless it is    *)
(* unsettled: stored although a retry of the task waits, because the       *)
(* process that had published the retry was killed before it reported.     *)
(* Once the whole worker of a task has died with it (upset), the task may  *)
(* be repeated from any state but a success: then all that is left is that *)
(* a success stays and that "sent" is true.                                *)
(***************************************************************************)
EXTENDS Naturals

CONSTANTS Notification, Analysis

VARIABLES result,    \* the state of each task, "none" before it is asked for
          mails,     \* e-mails sent for each notification
          upset,     \* tasks the worker of which has died with them
          unsettled  \* tasks with a failure that a retry of theirs will replace

outcomeVars == <<result, mails, upset, unsettled>>

Task == Notification \cup Analysis

Success == {"sent", "skipped", "completed"}

\* How an attempt can end.
Outcome(t) ==
  {"retry", "failed"} \cup
    IF t \in Analysis THEN {"completed"}
    ELSE IF mails[t] > 0 THEN {"skipped", "sent"}
    ELSE {"skipped"}

OutcomesInit ==
  /\ result = [t \in Task |-> "none"]
  /\ mails = [t \in Notification |-> 0]
  /\ upset = {}
  /\ unsettled = {}

\* Upset, and without a success that would stay.
MayRepeat(t) == t \in upset /\ result[t] \notin Success

Becomes(t, state) ==
  /\ result' = [result EXCEPT ![t] = state]
  /\ UNCHANGED <<mails, upset>>

Ask(t) ==
  /\ result[t] = "none"
  /\ Becomes(t, "pending")
  /\ UNCHANGED unsettled

\* An attempt begins: the first one, or the one a retry has announced.
Begin(t) ==
  /\ result[t] \in {"pending", "retry"} \/ t \in unsettled \/ MayRepeat(t)
  /\ Becomes(t, "started")
  /\ unsettled' = unsettled \ {t}

\* An attempt ends.
Conclude(t) ==
  /\ result[t] = "started" \/ MayRepeat(t)
  /\ \E state \in Outcome(t) : Becomes(t, state)
  /\ UNCHANGED unsettled

\* An attempt has published its retry, and is killed before or after the retry
\* is stored: it is said to have failed.
Misreport(t) ==
  /\ result[t] \in {"started", "retry"}
  /\ Becomes(t, "failed")
  /\ unsettled' = unsettled \cup {t}

\* An e-mail leaves during an attempt.
Mail(t) ==
  /\ t \in Notification
  /\ result[t] = "started" \/ t \in upset
  /\ mails' = [mails EXCEPT ![t] = @ + 1]
  /\ UNCHANGED <<result, upset, unsettled>>

\* The worker of the task dies with it.
Upset(t) ==
  /\ result[t] # "none"
  /\ upset' = upset \cup {t}
  /\ unsettled' = unsettled \ {t}
  /\ UNCHANGED <<result, mails>>

OutcomesNext ==
  \E t \in Task :
    Ask(t) \/ Begin(t) \/ Conclude(t) \/ Misreport(t) \/ Mail(t) \/ Upset(t)

OutcomesSpec == OutcomesInit /\ [][OutcomesNext]_outcomeVars

=============================================================================
