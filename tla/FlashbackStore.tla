--------------------------- MODULE FlashbackStore ---------------------------
(***************************************************************************)
(* The Flashback store (flashback/backend/store.py): the change-only       *)
(* history of config files, the content-addressed blobs that hold their    *)
(* bytes, restore points (a manifest of one machine at one moment), and    *)
(* the two restore queues, one for single files and one for machines.      *)
(*                                                                         *)
(* Every store function runs under the process-wide _LOCK and inside one   *)
(* sqlite transaction, and the image starts one uvicorn process, so each   *)
(* function is one action here.  What interleaves are the calls: of many   *)
(* hosts' agents, of several captures at once and of the operators, in any *)
(* order, repeated or late.  A crash between two calls loses nothing the   *)
(* store has committed, so it is not an action of its own.                 *)
(* One call looks at something before it takes the lock: ingest_snapshot   *)
(* at the clock.  Another snapshot may take its time later and the lock    *)
(* sooner, so a snapshot here carries whatever second its call saw.        *)
(*                                                                         *)
(* Content is its digest: a member of Sha.  Sizes, modes, owners, labels,  *)
(* notes, the requester and the reboot flag decide nothing and are left    *)
(* out.  The audit table, which no store function reads back, is the       *)
(* module FlashbackAudit.                                                  *)
(***************************************************************************)
EXTENDS Integers, Sequences, FiniteSets

CONSTANTS
    Host, Path,
    Sha,            \* digests of file content
    NoSha,          \* a manifest entry without content: symlink, directory
    Absent,         \* no manifest entry for this path
    KEEP,           \* MAX_VERSIONS_PER_FILE
    MaxClock,       \* bound: the last second the clock shows
    MaxCaptures,    \* bound: snapshots that found a change
    MaxPoints, MaxJobs, MaxRestores   \* bounds: rows ever inserted

ASSUME StoreAssumption ==
    /\ NoSha \notin Sha
    /\ Absent \notin Sha \cup {NoSha}
    /\ KEEP \in Nat
    /\ {MaxClock, MaxCaptures, MaxPoints, MaxJobs, MaxRestores} \subseteq Nat

VARIABLES
    captures,   \* AUTOINCREMENT of versions, one number per snapshot
    hosts,      \* table hosts
    versions,   \* table versions, a set of rows
    blobs,      \* table blobs: the digests whose content is stored
    points,     \* tables restore_points and restore_point_entries, by id
    jobs,       \* table restore_jobs, by id
    restores,   \* table restores, by id
    owed        \* the uploads the manifest replies asked for, not yet made

vars == <<captures, hosts, versions, blobs, points, jobs, restores, owed>>

-----------------------------------------------------------------------------
(* Rows.  Ids are AUTOINCREMENT and never used again, so a table that only  *)
(* grows is a sequence and a deleted restore point leaves a mark in place.  *)

Content == Sha \cup {NoSha}
Files   == [Path -> Content \cup {Absent}]
NoFiles == [f \in Path |-> Absent]

Version == [host : Host, path : Path, sha : Sha, at : Nat, id : Nat]
Point   == [host : Host, state : {"open", "sealed", "deleted"}, files : Files]
Job     == [host : Host, point : Nat \ {0},
            status : {"pending", "running", "done", "failed"}]
Restore == [host : Host, path : Path, sha : Sha,
            status : {"pending", "applied", "failed"}]

Init ==
    /\ captures = 0
    /\ hosts = {}
    /\ versions = {}
    /\ blobs = {}
    /\ points = <<>>
    /\ jobs = <<>>
    /\ restores = <<>>
    /\ owed = {}

-----------------------------------------------------------------------------
(* Queries.  Each Bug... operator is the definition that follows it with a  *)
(* slip a maintainer could make; only the mutation runs use it.             *)

History(vs, h, f) == {v \in vs : v.host = h /\ v.path = f}

BugNewer(v, w) == v.at > w.at \/ (v.at = w.at /\ v.id < w.id)

\* ORDER BY captured_at DESC, id DESC
Newer(v, w) == v.at > w.at \/ (v.at = w.at /\ v.id > w.id)

Newest(vs, h, f) ==
    {v \in History(vs, h, f) : ~ \E w \in History(vs, h, f) : Newer(w, v)}

BugStale(vs, h, f) ==
    {v \in History(vs, h, f) :
        Cardinality({w \in History(vs, h, f) : Newer(w, v)}) > KEEP}

\* What _prune_versions deletes: all but the KEEP newest of one file.
Stale(vs, h, f) ==
    {v \in History(vs, h, f) :
        Cardinality({w \in History(vs, h, f) : Newer(w, v)}) >= KEEP}

BugInVersions(s, vs) == FALSE

InVersions(s, vs) == \E v \in vs : v.sha = s

BugInSealed(s, ps) ==
    \E p \in DOMAIN ps, f \in Path : ps[p].state = "sealed" /\ ps[p].files[f] = s

InPoints(s, ps) == \E p \in DOMAIN ps, f \in Path : ps[p].files[f] = s

BugGcBlobs(bs, shas, vs, ps) == bs

\* _gc_blobs: of the digests let go of, drop those that no version and no
\* manifest entry names any more.
GcBlobs(bs, shas, vs, ps) ==
    bs \ {s \in shas : ~ InVersions(s, vs) /\ ~ InPoints(s, ps)}

Row(p) == p \in DOMAIN points /\ points[p].state # "deleted"

\* The digests a restore point's manifest needs content for.
Named(p) == {points[p].files[f] : f \in Path} \cap Sha

BugMissing(shas) == {}

\* _missing
Missing(shas) == shas \ blobs

BugActive == {"running"}

\* _ACTIVE
Active == {"pending", "running"}

ActiveJobs == {j \in DOMAIN jobs : jobs[j].status \in Active}

\* pending_point_restore: what this host is told to carry out, if anything.
PendingPointRestore(h) == {j \in ActiveJobs : jobs[j].host = h}

-----------------------------------------------------------------------------
(* The config history.                                                      *)

\* One report of an agent: the content of some of its files.
Snapshot == UNION {[D -> Sha] : D \in SUBSET Path}

BugChanged(h, files) == DOMAIN files

\* The files whose content differs from their most recent stored version.
Changed(h, files) ==
    {f \in DOMAIN files :
        ~ \E v \in Newest(versions, h, f) : v.sha = files[f]}

\* ingest_snapshot, its clock read before the lock, with the prune and the collection each new version runs.
\* The files of a snapshot are distinct, so taking them one by one or all at
\* once ends in the same rows: what one prune collects and a later file of the
\* same snapshot needs is stored again by that file.
IngestSnapshot(h, files, now) ==
    LET changed == Changed(h, files)
        stored  == versions \cup
                     {[host |-> h, path |-> f, sha |-> files[f],
                       at |-> now, id |-> captures] : f \in changed}
        stale   == UNION {Stale(stored, h, f) : f \in changed}
    IN  /\ changed # {} => captures < MaxCaptures
        /\ hosts' = hosts \cup {h}
        /\ captures' = IF changed = {} THEN captures ELSE captures + 1
        /\ versions' = stored \ stale
        /\ blobs' = GcBlobs(blobs \cup {files[f] : f \in changed},
                            {v.sha : v \in stale}, stored \ stale, points)
        /\ UNCHANGED <<points, jobs, restores, owed>>

\* queue_restore: only of a version this host and path really has.
QueueRestore(h, f, s) ==
    /\ Len(restores) < MaxRestores
    /\ \E v \in History(versions, h, f) : v.sha = s
    /\ restores' = Append(restores, [host |-> h, path |-> f, sha |-> s,
                                     status |-> "pending"])
    /\ UNCHANGED <<captures, hosts, versions, blobs, points, jobs, owed>>

\* ack_restore: late and repeated acks find the row no longer pending.
AckRestore(r, ok) ==
    /\ restores[r].status = "pending"
    /\ restores' = [restores EXCEPT ![r].status = IF ok THEN "applied" ELSE "failed"]
    /\ UNCHANGED <<captures, hosts, versions, blobs, points, jobs, owed>>

-----------------------------------------------------------------------------
(* Capturing a restore point: open, manifest, blobs, seal.                  *)

\* open_restore_point
OpenRestorePoint(h) ==
    /\ Len(points) < MaxPoints
    /\ hosts' = hosts \cup {h}
    /\ points' = Append(points, [host |-> h, state |-> "open", files |-> NoFiles])
    /\ UNCHANGED <<captures, versions, blobs, jobs, restores, owed>>

\* One chunk of a manifest.
Chunk == UNION {[D -> Content] : D \in SUBSET Path}

BugOpenForWriting(p) == Row(p)

OpenForWriting(p) == p \in DOMAIN points /\ points[p].state = "open"

\* add_restore_point_entries: INSERT OR REPLACE, then answer which of the
\* chunk's digests the store has never seen.
AddRestorePointEntries(p, chunk) ==
    /\ OpenForWriting(p)
    /\ points' = [points EXCEPT ![p].files =
                    [f \in Path |-> IF f \in DOMAIN chunk THEN chunk[f] ELSE @[f]]]
    /\ owed' = owed \cup ({p} \X Missing({chunk[f] : f \in DOMAIN chunk} \cap Sha))
    /\ UNCHANGED <<captures, hosts, versions, blobs, jobs, restores>>

\* put_blob.  A digest that does not match its content is refused, so the
\* content stored under a digest is always that digest's.  Any agent may send
\* any blob at any time: again, or long after its restore point is gone.
PutBlob(s) ==
    /\ blobs' = blobs \cup {s}
    /\ owed' = {o \in owed : o[2] # s}
    /\ UNCHANGED <<captures, hosts, versions, points, jobs, restores>>

\* seal_restore_point.  Sealing a sealed point again changes nothing.
SealRestorePoint(p) ==
    /\ Row(p)
    /\ Missing(Named(p)) = {}
    /\ points[p].files # NoFiles
    /\ points' = [points EXCEPT ![p].state = "sealed"]
    /\ owed' = {o \in owed : o[1] # p}
    /\ UNCHANGED <<captures, hosts, versions, blobs, jobs, restores>>

BugBusy(p) == \E j \in DOMAIN jobs : jobs[j].status = "running" /\ jobs[j].point = p

Busy(p) == \E j \in ActiveJobs : jobs[j].point = p

\* delete_restore_point: refused under a restore; collects what it let go of.
DeleteRestorePoint(p) ==
    /\ Row(p)
    /\ ~ Busy(p)
    /\ points' = [points EXCEPT ![p].state = "deleted", ![p].files = NoFiles]
    /\ blobs' = GcBlobs(blobs, Named(p), versions, points')
    /\ owed' = {o \in owed : o[1] # p}
    /\ UNCHANGED <<captures, hosts, versions, jobs, restores>>

-----------------------------------------------------------------------------
(* Restoring a machine.                                                     *)

BugOwnSealedPoint(h, p) == Row(p) /\ points[p].state = "sealed"

OwnSealedPoint(h, p) == Row(p) /\ points[p].host = h /\ points[p].state = "sealed"

\* queue_point_restore
QueuePointRestore(h, p) ==
    /\ Len(jobs) < MaxJobs
    /\ OwnSealedPoint(h, p)
    /\ PendingPointRestore(h) = {}
    /\ jobs' = Append(jobs, [host |-> h, point |-> p, status |-> "pending"])
    /\ UNCHANGED <<captures, hosts, versions, blobs, points, restores, owed>>

BugStartPointRestore(j) ==
    /\ jobs[j].status = "pending"
    /\ jobs' = [jobs EXCEPT ![j].status = "started"]
    /\ UNCHANGED <<captures, hosts, versions, blobs, points, restores, owed>>

\* start_point_restore
StartPointRestore(j) ==
    /\ jobs[j].status = "pending"
    /\ jobs' = [jobs EXCEPT ![j].status = "running"]
    /\ UNCHANGED <<captures, hosts, versions, blobs, points, restores, owed>>

BugFinishPointRestore(j, ok) ==
    /\ jobs' = [jobs EXCEPT ![j].status = IF ok THEN "done" ELSE "failed"]
    /\ UNCHANGED <<captures, hosts, versions, blobs, points, restores, owed>>

\* finish_point_restore, also straight from pending, also repeated.
FinishPointRestore(j, ok) ==
    /\ j \in ActiveJobs
    /\ jobs' = [jobs EXCEPT ![j].status = IF ok THEN "done" ELSE "failed"]
    /\ UNCHANGED <<captures, hosts, versions, blobs, points, restores, owed>>

-----------------------------------------------------------------------------
Next ==
    \/ \E h \in Host, files \in Snapshot, now \in 0 .. MaxClock :
           IngestSnapshot(h, files, now)
    \/ \E h \in Host, f \in Path, s \in Sha : QueueRestore(h, f, s)
    \/ \E r \in DOMAIN restores, ok \in BOOLEAN : AckRestore(r, ok)
    \/ \E h \in Host : OpenRestorePoint(h)
    \/ \E p \in DOMAIN points, chunk \in Chunk : AddRestorePointEntries(p, chunk)
    \/ \E s \in Sha : PutBlob(s)
    \/ \E p \in DOMAIN points : SealRestorePoint(p)
    \/ \E p \in DOMAIN points : DeleteRestorePoint(p)
    \/ \E h \in Host, p \in DOMAIN points : QueuePointRestore(h, p)
    \/ \E j \in DOMAIN jobs : StartPointRestore(j)
    \/ \E j \in DOMAIN jobs, ok \in BOOLEAN : FinishPointRestore(j, ok)

Spec == Init /\ [][Next]_vars

-----------------------------------------------------------------------------
(* Properties.                                                              *)

\* Every table holds rows of its shape, and every reference a row holds (a
\* job's restore point, an owed upload's) is to a row that was inserted.
TypeOK ==
    /\ captures \in Nat
    /\ hosts \subseteq Host
    /\ versions \subseteq Version
    /\ blobs \subseteq Sha
    /\ points \in Seq(Point)
    /\ jobs \in Seq(Job)
    /\ restores \in Seq(Restore)
    /\ owed \subseteq (Nat \X Sha)

\* A sealed restore point can be carried out: the content of every file it
\* names is stored, whatever was pruned, deleted or captured since it was
\* sealed ("usable once every byte it names is here", init_db).
SealedComplete ==
    \A p \in DOMAIN points :
        points[p].state = "sealed" => Named(p) \subseteq blobs

\* The content of every version the history lists can be served, diffed and
\* restored; the foreign key of versions never fails.
VersionsHaveContent == \A v \in versions : v.sha \in blobs

\* The reply to a manifest chunk can be relied on: while a capture is open, a
\* digest its manifest names is stored or is an upload still owed.  Content the
\* reply called present is not collected before the seal, so an agent that has
\* made its uploads can seal.
OpenPinned ==
    \A p \in DOMAIN points : points[p].state = "open" =>
        \A s \in Named(p) : s \in blobs \/ <<p, s>> \in owed

\* While a machine restore is queued or running, its restore point exists, is
\* sealed, and is the host's own, however deletes and queueing interleave.
ActiveJobRestorable ==
    \A j \in DOMAIN jobs : jobs[j].status \in {"pending", "running"} =>
        /\ jobs[j].point \in DOMAIN points
        /\ points[jobs[j].point].state = "sealed"
        /\ points[jobs[j].point].host = jobs[j].host

\* A host never has two machine restores under way at once.
OneRestorePerHost ==
    \A i, j \in ActiveJobs : jobs[i].host = jobs[j].host => i = j

\* No file ever has more than KEEP versions.
HistoryBounded ==
    \A h \in Host, f \in Path : Cardinality(History(versions, h, f)) <= KEEP

\* Two versions of one file, with none between them in the history.
Neighbours(v, w) ==
    /\ v.host = w.host /\ v.path = w.path /\ Newer(v, w)
    /\ ~ \E u \in History(versions, v.host, v.path) : Newer(v, u) /\ Newer(u, w)

\* A version that was stored after one that is newer: its snapshot was overtaken
\* between reading the clock and taking the lock, or the clock was set back.
Overtaken(w) ==
    \E v \in History(versions, w.host, w.path) : Newer(v, w) /\ v.id < w.id

\* The history is change-only but for snapshots that were overtaken: two versions of
\* a file that follow one another differ in content, before and after any pruning,
\* unless one of them was stored later than its place in the history says.
ChangeOnly ==
    \A v, w \in versions :
        Neighbours(v, w) => v.sha # w.sha \/ Overtaken(v) \/ Overtaken(w)

\* "A version row is created ONLY when a file's content differs from that file's
\* most-recent stored version (change-only history)", ingest_snapshot: versions that
\* follow one another differ.
NeighboursDiffer == \A v, w \in versions : Neighbours(v, w) => v.sha # w.sha

\* What a snapshot reports of a file is, once ingested, that file's newest version:
\* the history's head is the content the host had when it was last looked at.  A
\* snapshot that comes after one with a later time leaves the head as it is.
SnapshotHeads ==
    \A h \in Host, files \in Snapshot, now \in 0 .. MaxClock :
        IngestSnapshot(h, files, now) =>
            \A f \in DOMAIN files :
                IF \E v \in History(versions, h, f) : v.at > now
                THEN Newest(versions', h, f) = Newest(versions, h, f)
                ELSE {v.sha : v \in Newest(versions', h, f)} = {files[f]}

CaptureIsNewest == [][SnapshotHeads]_vars

\* A sealed restore point never changes and is never opened again; it can only
\* be deleted, and not while a restore of it is queued or running.
SealedStands ==
    \A p \in DOMAIN points : points[p].state = "sealed" =>
        \/ points'[p] = points[p]
        \/ /\ points'[p].state = "deleted"
           /\ \A j \in ActiveJobs : jobs[j].point # p

SealedImmutable == [][SealedStands]_vars

\* The outcome of a restore, once recorded, stands, whatever late, repeated or
\* contradicting reports agents send afterwards.
OutcomeStands ==
    /\ \A j \in DOMAIN jobs : jobs[j].status \in {"done", "failed"} =>
           jobs'[j] = jobs[j]
    /\ \A r \in DOMAIN restores : restores[r].status # "pending" =>
           restores'[r] = restores[r]

OutcomesStand == [][OutcomeStands]_vars

\* The digests that a step lets go of: of versions it prunes, of restore points
\* it deletes.
LetGo ==
    {v.sha : v \in versions \ versions'} \cup
    UNION {Named(p) : p \in {q \in DOMAIN points :
                                 Row(q) /\ points'[q].state = "deleted"}}

\* Content that a prune or a delete lets go of, and that nothing else names, is
\* gone with it: the store does not fill the disk with unreachable content.
LetGoIsCollected ==
    \A s \in LetGo : InVersions(s, versions') \/ InPoints(s, points') \/ s \notin blobs'

ForgottenIsCollected == [][LetGoIsCollected]_vars

=============================================================================
