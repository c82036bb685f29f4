------------------------------- MODULE MCJobs -------------------------------
(***************************************************************************)
(* Instances of Jobs.tla for TLC.                                          *)
(***************************************************************************)
EXTENDS Jobs, TLC

CONSTANTS image, merge

MCCost == [t \in Targets |-> IF t = image THEN 3 ELSE 1]

Symmetry == UNION {Permutations(Owners), Permutations(Callers), Permutations(Tasks), Permutations(Runs)}
=============================================================================
