-------------------------- MODULE MCBackgroundTasks --------------------------
(* A small instance of BackgroundTasks for TLC. *)
EXTENDS BackgroundTasks, TLC
=============================================================================
