------------------------------ MODULE MCAgents ------------------------------
(***************************************************************************)
(* An instance of Agents for TLC.  Which run, skill or caller has which    *)
(* name does not matter, but a temporal property rules out symmetry.       *)
(***************************************************************************)
EXTENDS Agents
=============================================================================
