---------------------------- MODULE MCLivePages ----------------------------
(***************************************************************************)
(* Symmetry for TLC; the sets are given in the configurations.             *)
(***************************************************************************)
EXTENDS LivePagesInvariant, TLC

\* No action names a member of a set.
Symmetry ==
    Permutations(Transactions) \cup Permutations(Circuits) \cup
    Permutations(Pages) \cup Permutations(Calls) \cup Permutations(Hooks)

=============================================================================
