---------------------------- MODULE RestorePoints ----------------------------
(***************************************************************************)
(* What Flashback promises about restore points, without the store behind  *)
(* it: a restore point becomes, at one instant, an image of one host, whole *)
(* or not at all; an image never changes until it is forgotten for good;   *)
(* a host becomes one of its own images, one at a time; and an image is    *)
(* not forgotten while a host is becoming it.                              *)
(***************************************************************************)
EXTENDS Naturals

CONSTANTS
    Host,
    PointId,      \* the restore points there can ever be
    Contents,     \* what a whole image of a machine can hold
    NoImage,      \* not (yet) an image
    Gone,         \* forgotten
    Idle          \* a host that is not being restored

VARIABLES
    image,        \* image[p]: NoImage, Gone, or the image restore point p is
    becoming      \* becoming[h]: the restore point host h is put back to

imageVars == <<image, becoming>>

Image == [host : Host, files : Contents]

ImageInit ==
    /\ image = [p \in PointId |-> NoImage]
    /\ becoming = [h \in Host |-> Idle]

\* A restore point becomes an image.
Complete(p) ==
    /\ image[p] = NoImage
    /\ \E im \in Image : image' = [image EXCEPT ![p] = im]
    /\ UNCHANGED becoming

\* A restore point, or the unfinished capture of one, is forgotten.
Forget(p) ==
    /\ image[p] # Gone
    /\ \A h \in Host : becoming[h] # p
    /\ image' = [image EXCEPT ![p] = Gone]
    /\ UNCHANGED becoming

\* A host begins to be put back to one of its own images.
Begin(h, p) ==
    /\ becoming[h] = Idle
    /\ image[p] \in Image
    /\ image[p].host = h
    /\ becoming' = [becoming EXCEPT ![h] = p]
    /\ UNCHANGED image

\* The restore of a host is over, well or badly.
End(h) ==
    /\ becoming[h] # Idle
    /\ becoming' = [becoming EXCEPT ![h] = Idle]
    /\ UNCHANGED image

ImageNext ==
    \/ \E p \in PointId : Complete(p)
    \/ \E p \in PointId : Forget(p)
    \/ \E h \in Host, p \in PointId : Begin(h, p)
    \/ \E h \in Host : End(h)

ImageSpec == ImageInit /\ [][ImageNext]_imageVars

=============================================================================
