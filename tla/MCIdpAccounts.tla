---------------------------- MODULE MCIdpAccounts ----------------------------
(* Instances of IdpAccounts for TLC.                                        *)
EXTENDS IdpAccounts, TLC

\* Request threads are alike.
Symmetry == Permutations(Thread)

=============================================================================
