----------------------------- MODULE MCAccounts -----------------------------
(***************************************************************************)
(* An instance of Accounts for TLC.  Names are interchangeable; the ids of *)
(* users and organizations are not, because they are ordered.              *)
(***************************************************************************)
EXTENDS Accounts, TLC

Symmetry == Permutations(Emails) \union Permutations(Sessions)
            \union Permutations(Invitations) \union Permutations(Tokens)
            \union Permutations(Callers)
=============================================================================
