----------------------------- MODULE MCSettings -----------------------------
(***************************************************************************)
(* An instance of Settings for TLC: two of the four service types, two of  *)
(* the five agents, one config identity besides the mock, one text that    *)
(* requests write.                                                         *)
(***************************************************************************)
EXTENDS Settings

MCPatches ==
  {[default |-> TRUE], [active |-> FALSE], [type |-> "audio"], [active |-> TRUE, default |-> TRUE]}
MCBundles ==
  {[type \in {"text", "audio"} |-> [ident |-> "cloud", default |-> TRUE, active |-> TRUE]],
   [text |-> [ident |-> "mock", default |-> TRUE, active |-> TRUE],
    audio |-> [ident |-> "cloud", default |-> FALSE, active |-> FALSE]]}
Symmetry == Permutations(Clients)
=============================================================================
