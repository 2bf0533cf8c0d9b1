--------------------------- MODULE MCTokenRegistry ---------------------------
(***************************************************************************)
(* Instances of TokenRegistry for TLC.                                     *)
(***************************************************************************)
EXTENDS TokenRegistry, TLC

\* Tokens, users and calls are interchangeable.
RegistrySymmetry ==
    Permutations(Tokens) \union Permutations(Users) \union Permutations(Calls)

=============================================================================
