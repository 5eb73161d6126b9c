-------------------------- MODULE MCMachineRegistry --------------------------
(* Model values for MachineRegistry; callers, names and specs are interchangeable. *)
EXTENDS MachineRegistry, TLC

Symmetry == Permutations(Callers) \cup Permutations(Names) \cup Permutations(Specs)
=============================================================================
