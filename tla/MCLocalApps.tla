----------------------------- MODULE MCLocalApps -----------------------------
(* Small instances of LocalApps for TLC: two processes on one port, which are a
   supervisor and its worker, or one server and its successor. *)
EXTENDS LocalApps

MCPortOf == [p \in Procs |-> 3005]
=============================================================================
