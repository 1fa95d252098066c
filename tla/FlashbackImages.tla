--------------------------- MODULE FlashbackImages ---------------------------
(***************************************************************************)
(* The Flashback store keeps the promise of RestorePoints.  A restore point *)
(* is an image once it is sealed and every byte its manifest names is       *)
(* stored; were content of a sealed point ever collected, its image would   *)
(* vanish, which no step of RestorePoints allows.                           *)
(***************************************************************************)
EXTENDS FlashbackStore

CONSTANTS NoImage, Gone, Idle

ASSUME ImageAssumption ==
    /\ NoImage \notin [host : Host, files : Files] /\ Gone # NoImage
    /\ Gone \notin [host : Host, files : Files]
    /\ Idle \notin Nat

PointId == 1 .. MaxPoints

ImageOf(p) ==
    IF p \notin DOMAIN points THEN NoImage
    ELSE IF points[p].state = "deleted" THEN Gone
    ELSE IF points[p].state = "sealed" /\ Named(p) \subseteq blobs
         THEN [host |-> points[p].host, files |-> points[p].files]
    ELSE NoImage

Becoming(h) ==
    IF PendingPointRestore(h) = {} THEN Idle
    ELSE jobs[CHOOSE j \in PendingPointRestore(h) : TRUE].point

Promise == INSTANCE RestorePoints WITH
    Contents <- Files,
    image    <- [p \in PointId |-> ImageOf(p)],
    becoming <- [h \in Host |-> Becoming(h)]

\* A sealed restore point is an immutable, complete image of its host until it
\* is deleted, and hosts become their own images one at a time: every step of
\* the store is a step of the promise or leaves its state alone.
KeepsPromise == Promise!ImageSpec

=============================================================================
