-------------------------- MODULE MCConnectionPool --------------------------
(* A small instance of ConnectionPool for TLC. *)
EXTENDS ConnectionPool, TLC
=============================================================================
