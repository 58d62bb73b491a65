----------------------- MODULE MCConfirmationProtocol -----------------------
(***************************************************************************)
(* Model values and symmetry for TLC. The sets differ from run to run and  *)
(* are given in the configurations.                                        *)
(***************************************************************************)
EXTENDS ConfirmationInvariant, TLC

\* The members of each set are interchangeable: no action names one of them.
Symmetry ==
    Permutations(Transactions) \cup Permutations(Phones) \cup
    Permutations(Circuits) \cup Permutations(Calls) \cup Permutations(Hooks)

=============================================================================
