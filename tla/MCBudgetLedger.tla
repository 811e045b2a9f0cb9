--------------------------- MODULE MCBudgetLedger ---------------------------
(* Small instances of BudgetLedger for TLC. *)
EXTENDS BudgetLedger, TLC

SessionSymmetry == Permutations(Session)

=============================================================================
