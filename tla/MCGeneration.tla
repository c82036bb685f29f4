---------------------------- MODULE MCGeneration ----------------------------
(***************************************************************************)
(* Instances of Generation.tla for TLC.                                    *)
(***************************************************************************)
EXTENDS Generation

CONSTANT MaxTasks     \* bound: tasks the provider can accept

MCTasks == 1..MaxTasks
MCCost == [t \in Targets |-> 1]
=============================================================================
