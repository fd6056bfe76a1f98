-------------------------- MODULE MCElixirPresence --------------------------
(* TLC instance of ElixirPresence. *)
EXTENDS ElixirPresence
=============================================================================
