------------------------------ MODULE MCMedia ------------------------------
(***************************************************************************)
(* An instance of Media for TLC.  Contents, shots, writers and cleaners    *)
(* are interchangeable; paths are numbered in the order they are written.  *)
(***************************************************************************)
EXTENDS Media, TLC

Symmetry == Permutations(Images) \union Permutations(Videos)
            \union Permutations(Shots) \union Permutations(Writers)
            \union Permutations(Cleaners)
=============================================================================
