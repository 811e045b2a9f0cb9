------------------------------ MODULE POStatus ------------------------------
(***************************************************************************)
(* The vocabulary of the purchase-order life cycle: the statuses, the      *)
(* table of legal transitions, the user roles and the four transition      *)
(* operations both routers offer.  Strings are the enum values of the      *)
(* source.                                                                 *)
(***************************************************************************)

POStatus == {"draft", "pending_approval", "approved", "rejected", "ordered",
             "partially_received", "received", "closed", "cancelled"}

\* Mutation: a draft can be approved without having been submitted.
VALID_TRANSITIONS_SkipSubmit ==
  [s \in POStatus |->
     CASE s = "draft"              -> {"pending_approval", "approved", "cancelled"}
       [] s = "pending_approval"   -> {"approved", "rejected", "cancelled"}
       [] s = "approved"           -> {"ordered", "cancelled"}
       [] s = "ordered"            -> {"partially_received", "received"}
       [] s = "partially_received" -> {"received"}
       [] s = "received"           -> {"closed"}
       [] s = "rejected"           -> {"draft"}
       [] OTHER                    -> {}]

\* The table transition_status consults.
VALID_TRANSITIONS ==
  [s \in POStatus |->
     CASE s = "draft"              -> {"pending_approval", "cancelled"}
       [] s = "pending_approval"   -> {"approved", "rejected", "cancelled"}
       [] s = "approved"           -> {"ordered", "cancelled"}
       [] s = "ordered"            -> {"partially_received", "received"}
       [] s = "partially_received" -> {"received"}
       [] s = "received"           -> {"closed"}
       [] s = "rejected"           -> {"draft"}
       [] OTHER                    -> {}]

UserRole == {"admin", "manager", "requester", "approver", "finance", "viewer"}

APPROVER_ROLES == {"admin", "manager", "approver", "finance"}

\* The operations a client can ask for on an existing order.
TransitionOp == {"submit", "approve", "reject", "cancel"}

\* The status each operation writes.
Target ==
  [op \in TransitionOp |->
     CASE op = "submit"  -> "pending_approval"
       [] op = "approve" -> "approved"
       [] op = "reject"  -> "rejected"
       [] OTHER          -> "cancelled"]

\* The statuses some route writes: no route leads to the receiving half of
\* the table, nor back to "draft".
RoutedStatus == {Target[op] : op \in TransitionOp}

=============================================================================
