---------------------------- MODULE MCDeployment ----------------------------
(* A small instance of Deployment for TLC. *)
EXTENDS Deployment, TLC

Symmetry == Permutations(Server) \cup Permutations(Seeder)
=============================================================================
