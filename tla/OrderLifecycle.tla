--------------------------- MODULE OrderLifecycle ---------------------------
(***************************************************************************)
(* What the service promises about a purchase order's status once requests *)
(* may overlap.  A request decides on the status it has read, and nothing  *)
(* ties its UPDATE to that status, so the committed status moves along an  *)
(* edge of VALID_TRANSITIONS that starts at SOME status the order has had  *)
(* (past), not necessarily at the current one.                             *)
(***************************************************************************)
EXTENDS POStatus

CONSTANT Order

VARIABLES status,   \* committed status of each order, "absent" before creation
          past      \* every status the order has had

lifecycleVars == <<status, past>>

LifecycleInit ==
  /\ status \in [Order -> {"absent", "draft"}]
  /\ past = [o \in Order |-> {status[o]} \ {"absent"}]

\* An order is born as a draft.
Born(o) ==
  /\ status[o] = "absent"
  /\ status' = [status EXCEPT ![o] = "draft"]
  /\ past' = [past EXCEPT ![o] = {"draft"}]

\* The status moves to a legal successor of a status the order has had.
Move(o) ==
  \E s \in past[o] : \E t \in VALID_TRANSITIONS[s] \cap RoutedStatus :
    /\ status' = [status EXCEPT ![o] = t]
    /\ past' = [past EXCEPT ![o] = @ \cup {t}]

LifecycleNext == \E o \in Order : Born(o) \/ Move(o)

LifecycleSpec == LifecycleInit /\ [][LifecycleNext]_lifecycleVars

=============================================================================
