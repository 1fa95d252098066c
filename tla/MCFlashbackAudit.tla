-------------------------- MODULE MCFlashbackAudit --------------------------
(* The store with its audit trail, for TLC.                                 *)
EXTENDS FlashbackAudit, TLC

\* Hosts, paths and digests are only compared with one another.
Symmetry == Permutations(Host) \cup Permutations(Path) \cup Permutations(Sha)

\* The history does not depend on restores or restore points, nor what is told of
\* restores on how long the history is: long histories without the one, and the
\* other after one capture.
InParts ==
    \/ restores = <<>> /\ jobs = <<>> /\ points = <<>>
    \/ captures <= 1 /\ \A v \in versions : v.at = 0

=============================================================================
