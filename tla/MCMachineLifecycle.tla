------------------------- MODULE MCMachineLifecycle -------------------------
(* Model values for MachineLifecycle.  Callers of one kind and process ids are      *)
(* interchangeable; a run with a Hook or with a liveness property uses no symmetry. *)
EXTENDS MachineLifecycle, TLC

Symmetry == Permutations(Clients) \cup Permutations(Pids)
=============================================================================
