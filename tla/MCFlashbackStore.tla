-------------------------- MODULE MCFlashbackStore --------------------------
(* Instances of FlashbackStore for TLC.                                     *)
EXTENDS FlashbackImages, TLC

\* Hosts, paths and digests are only compared with one another.
Symmetry == Permutations(Host) \cup Permutations(Path) \cup Permutations(Sha)

\* What time a version has orders the history and nothing else: it is varied where
\* there are no restores.
TimesForHistory == (restores = <<>> /\ jobs = <<>>) \/ \A v \in versions : v.at = 0

=============================================================================
