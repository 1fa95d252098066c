------------------------ MODULE FlashbackStoreProofs ------------------------
(***************************************************************************)
(* Proofs about FlashbackStore for every set of hosts, paths and digests,  *)
(* every KEEP, any times and any bound.                                    *)
(*                                                                         *)
(* TypeOK says which rows a reference can be to, and is under all the rest. *)
(* ContentInv (what is named is stored) and JobInv (a restore under way     *)
(* keeps its point) do not use each other: that content survives a          *)
(* collection rests on the two referrers GcBlobs asks, that a restore point *)
(* survives rests on the refusal in DeleteRestorePoint.  HistoryInv says    *)
(* that no two snapshots of one file have the same number, which is what    *)
(* makes KEEP of them KEEP, and that a later one has a greater number, which *)
(* is what tells an overtaken one.  PromiseInv takes the first three        *)
(* together.                                                                *)
(* AuditInv is about the audit trail: the store's steps go on as they are   *)
(* (AuditKeepsTheStore), so its types are known, and what is left is that   *)
(* what happened and what is told are the same.                             *)
(***************************************************************************)
EXTENDS FlashbackImages, FlashbackAudit, SequenceTheorems, FiniteSetTheorems, TLAPS

-----------------------------------------------------------------------------
(* Sequences as tables.                                                     *)

\* Updating a row of a table keeps the table's shape and its other rows.
LEMMA UpdateRow ==
    ASSUME NEW S, NEW s \in Seq(S), NEW i \in DOMAIN s, NEW e \in S
    PROVE  /\ [s EXCEPT ![i] = e] \in Seq(S)
           /\ DOMAIN [s EXCEPT ![i] = e] = DOMAIN s
           /\ \A j \in DOMAIN s : [s EXCEPT ![i] = e][j] = IF j = i THEN e ELSE s[j]
<1>1. DOMAIN s = 1 .. Len(s)
    BY LenProperties
<1>2. QED
    BY <1>1, ExceptSeq

\* Inserting a row adds one id, the next, and keeps the other rows.
LEMMA InsertRow ==
    ASSUME NEW S, NEW s \in Seq(S), NEW e \in S
    PROVE  /\ Append(s, e) \in Seq(S)
           /\ DOMAIN Append(s, e) = DOMAIN s \cup {Len(s) + 1}
           /\ Len(s) + 1 \notin DOMAIN s
           /\ Len(s) \in Nat
           /\ \A j \in DOMAIN s : Append(s, e)[j] = s[j]
           /\ Append(s, e)[Len(s) + 1] = e
<1>1. DOMAIN s = 1 .. Len(s) /\ Len(s) \in Nat
    BY LenProperties
<1>2. /\ Append(s, e) \in Seq(S)
      /\ Len(Append(s, e)) = Len(s) + 1
    BY AppendProperties
<1>3. DOMAIN Append(s, e) = 1 .. Len(s) + 1
    BY <1>2, LenProperties
<1>4. QED
    BY <1>1, <1>2, <1>3, AppendProperties

\* A row read from a table has the table's shape.
LEMMA RowOf ==
    ASSUME NEW S, NEW s \in Seq(S), NEW i \in DOMAIN s
    PROVE  s[i] \in S
<1>1. i \in 1 .. Len(s)
    BY LenProperties
<1>2. QED
    BY <1>1, ElementOfSeq

-----------------------------------------------------------------------------
(* The collection.                                                          *)

\* _gc_blobs only removes, and never what a version or a manifest entry names.
LEMMA GcKeepsReferenced ==
    ASSUME NEW bs, NEW shas, NEW vs, NEW ps
    PROVE  /\ GcBlobs(bs, shas, vs, ps) \subseteq bs
           /\ \A s \in bs : InVersions(s, vs) \/ InPoints(s, ps)
                              => s \in GcBlobs(bs, shas, vs, ps)
BY DEF GcBlobs

\* A digest a restore point needs is named by a manifest entry.
LEMMA NamedInPoints ==
    ASSUME NEW p \in DOMAIN points, NEW s \in Named(p)
    PROVE  InPoints(s, points)
BY DEF Named, InPoints

-----------------------------------------------------------------------------
(* Types.                                                                   *)

\* The empty tables have their shapes.
LEMMA TypeInit == Init => TypeOK
<1>1. <<>> \in Seq(Point) /\ <<>> \in Seq(Job) /\ <<>> \in Seq(Restore)
    BY EmptySeq
<1>2. QED
    BY <1>1 DEF Init, TypeOK

\* Every call inserts and updates rows of the right shape.
LEMMA TypeStep == TypeOK /\ [Next]_vars => TypeOK'
<1> SUFFICES ASSUME TypeOK, [Next]_vars PROVE TypeOK'
    OBVIOUS
<1> USE StoreAssumption
<1>1. ASSUME NEW h \in Host, NEW files \in Snapshot, NEW now \in 0 .. MaxClock,
             IngestSnapshot(h, files, now)
      PROVE  TypeOK'
  <2> DEFINE changed == Changed(h, files)
             stored  == versions \cup
                          {[host |-> h, path |-> f, sha |-> files[f],
                            at |-> now, id |-> captures] : f \in changed}
             stale   == UNION {Stale(stored, h, f) : f \in changed}
  <2>1. \A f \in changed : f \in Path /\ files[f] \in Sha
    BY DEF Changed, Snapshot
  <2>2. stored \subseteq Version
    BY <2>1 DEF TypeOK, Version
  <2>3. versions' \subseteq Version
    BY <1>1, <2>2 DEF IngestSnapshot
  <2>4. blobs' \subseteq Sha
    <3>1. blobs' \subseteq blobs \cup {files[f] : f \in changed}
      BY <1>1, GcKeepsReferenced DEF IngestSnapshot
    <3>2. QED
      BY <2>1, <3>1 DEF TypeOK
  <2>5. captures' \in Nat
    BY <1>1 DEF IngestSnapshot, TypeOK
  <2>6. QED
    BY <1>1, <2>3, <2>4, <2>5 DEF IngestSnapshot, TypeOK
<1>2. ASSUME NEW h \in Host, NEW f \in Path, NEW s \in Sha, QueueRestore(h, f, s)
      PROVE  TypeOK'
  <2>1. restores' \in Seq(Restore)
    BY <1>2, InsertRow DEF QueueRestore, TypeOK, Restore
  <2>2. QED
    BY <1>2, <2>1 DEF QueueRestore, TypeOK
<1>3. ASSUME NEW r \in DOMAIN restores, NEW ok \in BOOLEAN, AckRestore(r, ok)
      PROVE  TypeOK'
  <2> DEFINE row == [restores[r] EXCEPT !.status = IF ok THEN "applied" ELSE "failed"]
  <2>1. row \in Restore
    <3>1. restores[r] \in Restore
      BY RowOf DEF TypeOK
    <3>2. QED
      BY <3>1 DEF Restore
  <2>2. restores' = [restores EXCEPT ![r] = row]
    BY <1>3 DEF AckRestore
  <2>3. restores' \in Seq(Restore)
    BY <2>1, <2>2, UpdateRow DEF TypeOK
  <2>4. QED
    BY <1>3, <2>3 DEF AckRestore, TypeOK
<1>4. ASSUME NEW h \in Host, OpenRestorePoint(h)
      PROVE  TypeOK'
  <2>1. [host |-> h, state |-> "open", files |-> NoFiles] \in Point
    BY DEF Point, NoFiles, Files
  <2>2. points' \in Seq(Point)
    BY <1>4, <2>1, InsertRow DEF OpenRestorePoint, TypeOK
  <2>3. QED
    BY <1>4, <2>2 DEF OpenRestorePoint, TypeOK
<1>5. ASSUME NEW p \in DOMAIN points, NEW chunk \in Chunk,
             AddRestorePointEntries(p, chunk)
      PROVE  TypeOK'
  <2> DEFINE row == [points[p] EXCEPT !.files =
                       [f \in Path |-> IF f \in DOMAIN chunk THEN chunk[f] ELSE @[f]]]
  <2>1. points[p] \in Point
    BY RowOf DEF TypeOK
  <2>2. \A f \in DOMAIN chunk : chunk[f] \in Content
    BY DEF Chunk
  <2>3. row \in Point
    BY <2>1, <2>2 DEF Point, Files
  <2>4. points' = [points EXCEPT ![p] = row]
    BY <1>5 DEF AddRestorePointEntries
  <2>5. points' \in Seq(Point)
    BY <2>3, <2>4, UpdateRow DEF TypeOK
  <2>6. p \in Nat
    BY LenProperties DEF TypeOK
  <2>7. owed' \subseteq Nat \X Sha
    BY <1>5, <2>6 DEF AddRestorePointEntries, Missing, TypeOK
  <2>8. QED
    BY <1>5, <2>5, <2>7 DEF AddRestorePointEntries, TypeOK
<1>6. ASSUME NEW s \in Sha, PutBlob(s)
      PROVE  TypeOK'
  BY <1>6 DEF PutBlob, TypeOK
<1>7. ASSUME NEW p \in DOMAIN points, SealRestorePoint(p)
      PROVE  TypeOK'
  <2> DEFINE row == [points[p] EXCEPT !.state = "sealed"]
  <2>1. row \in Point
    <3>1. points[p] \in Point
      BY RowOf DEF TypeOK
    <3>2. QED
      BY <3>1 DEF Point
  <2>2. points' = [points EXCEPT ![p] = row]
    BY <1>7 DEF SealRestorePoint
  <2>3. points' \in Seq(Point)
    BY <2>1, <2>2, UpdateRow DEF TypeOK
  <2>4. QED
    BY <1>7, <2>3 DEF SealRestorePoint, TypeOK
<1>8. ASSUME NEW p \in DOMAIN points, DeleteRestorePoint(p)
      PROVE  TypeOK'
  <2> DEFINE row == [points[p] EXCEPT !.state = "deleted", !.files = NoFiles]
  <2>1. row \in Point
    <3>1. points[p] \in Point
      BY RowOf DEF TypeOK
    <3>2. QED
      BY <3>1 DEF Point, Files, NoFiles
  <2>2. points' = [points EXCEPT ![p] = row]
    BY <1>8 DEF DeleteRestorePoint
  <2>3. points' \in Seq(Point)
    BY <2>1, <2>2, UpdateRow DEF TypeOK
  <2>4. blobs' \subseteq blobs
    BY <1>8, GcKeepsReferenced DEF DeleteRestorePoint
  <2>5. QED
    BY <1>8, <2>3, <2>4 DEF DeleteRestorePoint, TypeOK
<1>9. ASSUME NEW h \in Host, NEW p \in DOMAIN points, QueuePointRestore(h, p)
      PROVE  TypeOK'
  <2>1. p \in Nat \ {0}
    BY LenProperties DEF TypeOK
  <2>2. jobs' \in Seq(Job)
    BY <1>9, <2>1, InsertRow DEF QueuePointRestore, TypeOK, Job
  <2>3. QED
    BY <1>9, <2>2 DEF QueuePointRestore, TypeOK
<1>10. ASSUME NEW j \in DOMAIN jobs, StartPointRestore(j)
       PROVE  TypeOK'
  <2> DEFINE row == [jobs[j] EXCEPT !.status = "running"]
  <2>1. row \in Job
    <3>1. jobs[j] \in Job
      BY RowOf DEF TypeOK
    <3>2. QED
      BY <3>1 DEF Job
  <2>2. jobs' = [jobs EXCEPT ![j] = row]
    BY <1>10 DEF StartPointRestore
  <2>3. jobs' \in Seq(Job)
    BY <2>1, <2>2, UpdateRow DEF TypeOK
  <2>4. QED
    BY <1>10, <2>3 DEF StartPointRestore, TypeOK
<1>11. ASSUME NEW j \in DOMAIN jobs, NEW ok \in BOOLEAN, FinishPointRestore(j, ok)
       PROVE  TypeOK'
  <2> DEFINE row == [jobs[j] EXCEPT !.status = IF ok THEN "done" ELSE "failed"]
  <2>1. row \in Job
    <3>1. jobs[j] \in Job
      BY RowOf DEF TypeOK
    <3>2. QED
      BY <3>1 DEF Job
  <2>2. jobs' = [jobs EXCEPT ![j] = row]
    BY <1>11 DEF FinishPointRestore
  <2>3. jobs' \in Seq(Job)
    BY <2>1, <2>2, UpdateRow DEF TypeOK
  <2>4. QED
    BY <1>11, <2>3 DEF FinishPointRestore, TypeOK
<1>12. ASSUME UNCHANGED vars PROVE TypeOK'
  BY <1>12 DEF vars, TypeOK
<1>13. QED
  BY <1>1, <1>2, <1>3, <1>4, <1>5, <1>6, <1>7, <1>8, <1>9, <1>10, <1>11,
     <1>12 DEF Next

\* Every table of the store holds rows of its shape, for ever.
THEOREM TypeCorrect == Spec => []TypeOK
BY TypeInit, TypeStep, PTL DEF Spec

-----------------------------------------------------------------------------
(* Content: what a version or a restore point names is stored.              *)

\* What a sealed or open restore point, or a version, names.
ContentInv == SealedComplete /\ VersionsHaveContent /\ OpenPinned

\* An empty store names nothing.
LEMMA ContentInit == Init => ContentInv
BY DEF Init, ContentInv, SealedComplete, VersionsHaveContent, OpenPinned

\* No call lets go of content that is still named.
LEMMA ContentStep == TypeOK /\ ContentInv /\ [Next]_vars => ContentInv'
<1> SUFFICES ASSUME TypeOK, ContentInv, [Next]_vars PROVE ContentInv'
    OBVIOUS
<1> USE StoreAssumption
<1>1. ASSUME NEW h \in Host, NEW files \in Snapshot, NEW now \in 0 .. MaxClock,
             IngestSnapshot(h, files, now)
      PROVE  ContentInv'
  <2> DEFINE changed == Changed(h, files)
             new     == {[host |-> h, path |-> f, sha |-> files[f],
                          at |-> now, id |-> captures] : f \in changed}
             stored  == versions \cup new
             stale   == UNION {Stale(stored, h, f) : f \in changed}
             kept    == blobs \cup {files[f] : f \in changed}
  <2>1. /\ versions' = stored \ stale
        /\ blobs' = GcBlobs(kept, {v.sha : v \in stale}, versions', points)
        /\ points' = points /\ owed' = owed
    BY <1>1 DEF IngestSnapshot
  <2>2. \A s \in blobs : InPoints(s, points) => s \in blobs'
    BY <2>1, GcKeepsReferenced
  <2>3. \A p \in DOMAIN points : Named(p)' = Named(p)
    BY <2>1 DEF Named
  <2>4. \A p \in DOMAIN points : \A s \in Named(p) : s \in blobs => s \in blobs'
    BY <2>2, NamedInPoints
  <2>5. SealedComplete'
    BY <2>1, <2>3, <2>4 DEF ContentInv, SealedComplete
  <2>6. OpenPinned'
    BY <2>1, <2>3, <2>4 DEF ContentInv, OpenPinned
  <2>7. ASSUME NEW v \in versions' PROVE v.sha \in blobs'
    <3>1. v.sha \in kept
      BY <2>1, <2>7 DEF ContentInv, VersionsHaveContent
    <3>2. InVersions(v.sha, versions')
      BY <2>7 DEF InVersions
    <3>3. QED
      BY <2>1, <3>1, <3>2, GcKeepsReferenced
  <2>8. QED
    BY <2>5, <2>6, <2>7 DEF ContentInv, VersionsHaveContent
<1>2. ASSUME NEW h \in Host, OpenRestorePoint(h)
      PROVE  ContentInv'
  <2> DEFINE row == [host |-> h, state |-> "open", files |-> NoFiles]
  <2>1. row \in Point
    BY DEF Point, NoFiles, Files
  <2>2. PICK new : /\ DOMAIN points' = DOMAIN points \cup {new}
                   /\ points'[new] = row
                   /\ \A p \in DOMAIN points : points'[p] = points[p]
    BY <1>2, <2>1, InsertRow, SMTT(30) DEF OpenRestorePoint, TypeOK
  <2>3. Named(new)' = {}
    BY <2>2 DEF Named, NoFiles
  <2>4. \A p \in DOMAIN points : Named(p)' = Named(p)
    BY <2>2 DEF Named
  <2>5. blobs' = blobs /\ versions' = versions /\ owed' = owed
    BY <1>2 DEF OpenRestorePoint
  <2>6. QED
    BY <2>2, <2>3, <2>4, <2>5
       DEF ContentInv, SealedComplete, OpenPinned, VersionsHaveContent
<1>3. ASSUME NEW p \in DOMAIN points, NEW chunk \in Chunk,
             AddRestorePointEntries(p, chunk)
      PROVE  ContentInv'
  <2> DEFINE asked == {chunk[f] : f \in DOMAIN chunk} \cap Sha
  <2>1. /\ DOMAIN points' = DOMAIN points
        /\ \A q \in DOMAIN points : q # p => points'[q] = points[q]
        /\ points'[p].state = "open"
        /\ points'[p].files = [f \in Path |-> IF f \in DOMAIN chunk THEN chunk[f]
                                              ELSE points[p].files[f]]
    <3> DEFINE row == [points[p] EXCEPT !.files =
                         [f \in Path |-> IF f \in DOMAIN chunk THEN chunk[f] ELSE @[f]]]
    <3>1. points[p] \in Point
      BY RowOf DEF TypeOK
    <3>2. row \in Point
      BY <3>1 DEF Point, Files, Chunk
    <3>3. points' = [points EXCEPT ![p] = row]
      BY <1>3 DEF AddRestorePointEntries
    <3>4. /\ DOMAIN points' = DOMAIN points
          /\ \A q \in DOMAIN points : points'[q] = IF q = p THEN row ELSE points[q]
      BY <3>2, <3>3, UpdateRow DEF TypeOK
    <3>5. row.state = "open" /\ row.files = [f \in Path |->
             IF f \in DOMAIN chunk THEN chunk[f] ELSE points[p].files[f]]
      BY <1>3, <3>1 DEF AddRestorePointEntries, OpenForWriting, Point
    <3>6. QED
      BY <3>4, <3>5
  <2>2. /\ blobs' = blobs /\ versions' = versions
        /\ owed' = owed \cup ({p} \X (asked \ blobs))
    BY <1>3 DEF AddRestorePointEntries, Missing
  <2>3. Named(p)' \subseteq Named(p) \cup asked
    BY <2>1 DEF Named
  <2>4. \A q \in DOMAIN points : q # p => Named(q)' = Named(q)
    BY <2>1 DEF Named
  <2>5. SealedComplete'
    BY <2>1, <2>2, <2>4 DEF ContentInv, SealedComplete
  <2>6. ASSUME NEW s \in Named(p)' PROVE s \in blobs' \/ <<p, s>> \in owed'
    <3>1. CASE s \in asked
      BY <2>2, <3>1
    <3>2. CASE s \in Named(p)
      BY <1>3, <2>2, <3>2 DEF ContentInv, OpenPinned, AddRestorePointEntries,
                              OpenForWriting
    <3>3. QED
      BY <2>3, <2>6, <3>1, <3>2
  <2>7. OpenPinned'
    BY <2>1, <2>2, <2>4, <2>6 DEF ContentInv, OpenPinned
  <2>8. QED
    BY <2>2, <2>5, <2>7 DEF ContentInv, VersionsHaveContent
<1>4. ASSUME NEW s \in Sha, PutBlob(s)
      PROVE  ContentInv'
  <2>1. /\ blobs' = blobs \cup {s} /\ points' = points /\ versions' = versions
        /\ owed' = {o \in owed : o[2] # s}
    BY <1>4 DEF PutBlob
  <2>2. \A p \in DOMAIN points : Named(p)' = Named(p)
    BY <2>1 DEF Named
  <2>3. OpenPinned'
    BY <2>1, <2>2 DEF ContentInv, OpenPinned
  <2>4. QED
    BY <2>1, <2>2, <2>3 DEF ContentInv, SealedComplete, VersionsHaveContent
<1>5. ASSUME NEW p \in DOMAIN points, SealRestorePoint(p)
      PROVE  ContentInv'
  <2> DEFINE row == [points[p] EXCEPT !.state = "sealed"]
  <2>1. points[p] \in Point
    BY RowOf DEF TypeOK
  <2>2. row \in Point /\ row.files = points[p].files /\ row.state = "sealed"
    BY <2>1 DEF Point
  <2>3. points' = [points EXCEPT ![p] = row]
    BY <1>5 DEF SealRestorePoint
  <2>4. /\ DOMAIN points' = DOMAIN points
        /\ \A q \in DOMAIN points : points'[q] = IF q = p THEN row ELSE points[q]
    BY <2>2, <2>3, UpdateRow DEF TypeOK
  <2>5. ASSUME NEW q \in DOMAIN points PROVE Named(q)' = Named(q)
    <3>1. points'[q].files = points[q].files
      BY <2>2, <2>4
    <3>2. QED
      BY <3>1 DEF Named
  <2>6. /\ Named(p) \subseteq blobs /\ blobs' = blobs /\ versions' = versions
        /\ owed' = {o \in owed : o[1] # p}
    BY <1>5 DEF SealRestorePoint, Missing
  <2>7. SealedComplete'
    BY <2>4, <2>5, <2>6 DEF ContentInv, SealedComplete
  <2>8. OpenPinned'
    BY <2>2, <2>4, <2>5, <2>6 DEF ContentInv, OpenPinned
  <2>9. QED
    BY <2>6, <2>7, <2>8 DEF ContentInv, VersionsHaveContent
<1>6. ASSUME NEW p \in DOMAIN points, DeleteRestorePoint(p)
      PROVE  ContentInv'
  <2> DEFINE row == [points[p] EXCEPT !.state = "deleted", !.files = NoFiles]
  <2>1. points[p] \in Point
    BY RowOf DEF TypeOK
  <2>2. row \in Point /\ row.files = NoFiles /\ row.state = "deleted"
    BY <2>1 DEF Point, Files, NoFiles
  <2>3. points' = [points EXCEPT ![p] = row]
    BY <1>6 DEF DeleteRestorePoint
  <2>4. /\ DOMAIN points' = DOMAIN points
        /\ \A q \in DOMAIN points : points'[q] = IF q = p THEN row ELSE points[q]
    BY <2>2, <2>3, UpdateRow DEF TypeOK
  <2>5. /\ blobs' = GcBlobs(blobs, Named(p), versions, points')
        /\ versions' = versions
        /\ owed' = {o \in owed : o[1] # p}
    BY <1>6 DEF DeleteRestorePoint
  <2>6. ASSUME NEW q \in DOMAIN points, q # p
        PROVE  Named(q)' = Named(q) /\ \A s \in Named(q) : s \in blobs => s \in blobs'
    <3>1. Named(q)' = Named(q)
      BY <2>4, <2>6 DEF Named
    <3>2. \A s \in Named(q) : InPoints(s, points')
      BY <2>4, <2>6 DEF Named, InPoints
    <3>3. QED
      BY <2>5, <3>1, <3>2, GcKeepsReferenced
  <2>7. SealedComplete'
    <3>1. ASSUME NEW q \in DOMAIN points', points'[q].state = "sealed"
          PROVE  Named(q)' \subseteq blobs'
      <4>1. q \in DOMAIN points /\ q # p /\ points[q].state = "sealed"
        BY <2>2, <2>4, <3>1
      <4>2. QED
        BY <2>6, <4>1 DEF ContentInv, SealedComplete
    <3>2. QED
      BY <3>1 DEF SealedComplete
  <2>8. OpenPinned'
    <3>1. ASSUME NEW q \in DOMAIN points', points'[q].state = "open",
                 NEW s \in Named(q)'
          PROVE  s \in blobs' \/ <<q, s>> \in owed'
      <4>1. q \in DOMAIN points /\ q # p /\ points[q].state = "open"
        BY <2>2, <2>4, <3>1
      <4>2. s \in blobs \/ <<q, s>> \in owed
        BY <2>6, <3>1, <4>1 DEF ContentInv, OpenPinned
      <4>3. QED
        BY <2>5, <2>6, <3>1, <4>1, <4>2
    <3>2. QED
      BY <3>1 DEF OpenPinned
  <2>9. \A v \in versions : InVersions(v.sha, versions)
    BY DEF InVersions
  <2>10. VersionsHaveContent'
    BY <2>5, <2>9, GcKeepsReferenced DEF ContentInv, VersionsHaveContent
  <2>11. QED
    BY <2>7, <2>8, <2>10 DEF ContentInv
<1>7. ASSUME UNCHANGED <<versions, blobs, points, owed>>
      PROVE  ContentInv'
  BY <1>7 DEF ContentInv, SealedComplete, VersionsHaveContent, OpenPinned, Named
<1>8. ASSUME NEW h \in Host, NEW f \in Path, NEW s \in Sha, QueueRestore(h, f, s)
      PROVE  ContentInv'
  BY <1>7, <1>8 DEF QueueRestore
<1>9. ASSUME NEW r \in DOMAIN restores, NEW ok \in BOOLEAN, AckRestore(r, ok)
      PROVE  ContentInv'
  BY <1>7, <1>9 DEF AckRestore
<1>10. ASSUME NEW h \in Host, NEW p \in DOMAIN points, QueuePointRestore(h, p)
       PROVE  ContentInv'
  BY <1>7, <1>10 DEF QueuePointRestore
<1>11. ASSUME NEW j \in DOMAIN jobs, StartPointRestore(j)
       PROVE  ContentInv'
  BY <1>7, <1>11 DEF StartPointRestore
<1>12. ASSUME NEW j \in DOMAIN jobs, NEW ok \in BOOLEAN, FinishPointRestore(j, ok)
       PROVE  ContentInv'
  BY <1>7, <1>12 DEF FinishPointRestore
<1>13. ASSUME UNCHANGED vars PROVE ContentInv'
  BY <1>7, <1>13 DEF vars
<1>14. QED
  BY <1>1, <1>2, <1>3, <1>4, <1>5, <1>6, <1>8, <1>9, <1>10, <1>11, <1>12,
     <1>13 DEF Next

\* A sealed restore point can always be carried out in full, whatever prunes,
\* deletes and other captures do: the collection asks both referrers.
THEOREM SealedStaysComplete == Spec => []SealedComplete
<1>1. ContentInv => SealedComplete
  BY DEF ContentInv
<1>2. QED
  BY <1>1, TypeCorrect, ContentInit, ContentStep, PTL DEF Spec

\* Every version listed by the history has its content.
THEOREM HistoryIsReadable == Spec => []VersionsHaveContent
<1>1. ContentInv => VersionsHaveContent
  BY DEF ContentInv
<1>2. QED
  BY <1>1, TypeCorrect, ContentInit, ContentStep, PTL DEF Spec

\* What a manifest reply called present stays present until the seal.
THEOREM RepliesAreReliable == Spec => []OpenPinned
<1>1. ContentInv => OpenPinned
  BY DEF ContentInv
<1>2. QED
  BY <1>1, TypeCorrect, ContentInit, ContentStep, PTL DEF Spec

-----------------------------------------------------------------------------
(* Machine restores.                                                        *)

\* What a restore under way can rely on.
JobInv == ActiveJobRestorable /\ OneRestorePerHost

\* No restore is under way at first.
LEMMA JobInit == Init => JobInv
BY DEF Init, JobInv, ActiveJobRestorable, OneRestorePerHost, ActiveJobs

\* The jobs of a store keep their invariant when no job becomes active or
\* changes its host or point, and no active job's restore point changes.
LEMMA JobInvStable ==
    ASSUME JobInv,
           DOMAIN jobs' = DOMAIN jobs,
           \A j \in DOMAIN jobs : /\ jobs'[j].host = jobs[j].host
                                  /\ jobs'[j].point = jobs[j].point
                                  /\ jobs'[j].status \in Active => jobs[j].status \in Active,
           \A j \in ActiveJobs : /\ jobs[j].point \in DOMAIN points'
                                 /\ points'[jobs[j].point].state = "sealed"
                                 /\ points'[jobs[j].point].host = points[jobs[j].point].host
    PROVE  JobInv'
<1>1. ActiveJobs' \subseteq ActiveJobs
  BY DEF ActiveJobs, Active
<1>2. OneRestorePerHost'
  BY <1>1 DEF JobInv, OneRestorePerHost, ActiveJobs
<1>3. ASSUME NEW j \in DOMAIN jobs', jobs'[j].status \in {"pending", "running"}
      PROVE  /\ jobs'[j].point \in DOMAIN points'
             /\ points'[jobs'[j].point].state = "sealed"
             /\ points'[jobs'[j].point].host = jobs'[j].host
  <2>1. j \in ActiveJobs
    BY <1>3 DEF ActiveJobs, Active
  <2>2. points[jobs[j].point].host = jobs[j].host
    BY <2>1 DEF JobInv, ActiveJobRestorable, ActiveJobs, Active
  <2>3. QED
    BY <1>3, <2>1, <2>2
<1>4. QED
  BY <1>2, <1>3 DEF JobInv, ActiveJobRestorable

\* No call takes the restore point from a restore, or gives a host a second one.
LEMMA JobStep == TypeOK /\ JobInv /\ [Next]_vars => JobInv'
<1> SUFFICES ASSUME TypeOK, JobInv, [Next]_vars PROVE JobInv'
    OBVIOUS
<1>0. \A j \in ActiveJobs : /\ j \in DOMAIN jobs
                            /\ jobs[j].point \in DOMAIN points
                            /\ points[jobs[j].point].state = "sealed"
  BY DEF JobInv, ActiveJobRestorable, ActiveJobs, Active
<1>1. ASSUME UNCHANGED <<points, jobs>> PROVE JobInv'
  BY <1>0, <1>1, JobInvStable
<1>2. ASSUME NEW h \in Host, OpenRestorePoint(h) PROVE JobInv'
  <2> DEFINE row == [host |-> h, state |-> "open", files |-> NoFiles]
  <2>1. row \in Point
    BY DEF Point, NoFiles, Files
  <2>2. /\ DOMAIN points \subseteq DOMAIN points'
        /\ \A p \in DOMAIN points : points'[p] = points[p]
    BY <1>2, <2>1, InsertRow DEF OpenRestorePoint, TypeOK
  <2>3. jobs' = jobs
    BY <1>2 DEF OpenRestorePoint
  <2>4. QED
    BY <1>0, <2>2, <2>3, JobInvStable
<1>3. ASSUME NEW p \in DOMAIN points, NEW chunk \in Chunk,
             AddRestorePointEntries(p, chunk)
      PROVE  JobInv'
  <2> DEFINE row == [points[p] EXCEPT !.files =
                       [f \in Path |-> IF f \in DOMAIN chunk THEN chunk[f] ELSE @[f]]]
  <2>1. points[p] \in Point
    BY RowOf DEF TypeOK
  <2>2. row \in Point
    BY <2>1 DEF Point, Files, Chunk
  <2>3. points' = [points EXCEPT ![p] = row] /\ jobs' = jobs
    BY <1>3 DEF AddRestorePointEntries
  <2>4. /\ DOMAIN points' = DOMAIN points
        /\ \A q \in DOMAIN points : q # p => points'[q] = points[q]
    BY <2>2, <2>3, UpdateRow DEF TypeOK
  <2>5. points[p].state = "open"
    BY <1>3 DEF AddRestorePointEntries, OpenForWriting
  <2>6. \A j \in ActiveJobs : jobs[j].point # p
    BY <1>0, <2>5
  <2>7. QED
    BY <1>0, <2>3, <2>4, <2>6, JobInvStable
<1>4. ASSUME NEW p \in DOMAIN points, SealRestorePoint(p) PROVE JobInv'
  <2> DEFINE row == [points[p] EXCEPT !.state = "sealed"]
  <2>1. points[p] \in Point
    BY RowOf DEF TypeOK
  <2>2. row \in Point /\ row.host = points[p].host /\ row.state = "sealed"
    BY <2>1 DEF Point
  <2>3. points' = [points EXCEPT ![p] = row] /\ jobs' = jobs
    BY <1>4 DEF SealRestorePoint
  <2>4. /\ DOMAIN points' = DOMAIN points
        /\ \A q \in DOMAIN points : points'[q] = IF q = p THEN row ELSE points[q]
    BY <2>2, <2>3, UpdateRow DEF TypeOK
  <2>5. QED
    BY <1>0, <2>2, <2>3, <2>4, JobInvStable
<1>5. ASSUME NEW p \in DOMAIN points, DeleteRestorePoint(p) PROVE JobInv'
  <2> DEFINE row == [points[p] EXCEPT !.state = "deleted", !.files = NoFiles]
  <2>1. points[p] \in Point
    BY RowOf DEF TypeOK
  <2>2. row \in Point
    BY <2>1 DEF Point, Files, NoFiles
  <2>3. points' = [points EXCEPT ![p] = row] /\ jobs' = jobs
    BY <1>5 DEF DeleteRestorePoint
  <2>4. /\ DOMAIN points' = DOMAIN points
        /\ \A q \in DOMAIN points : q # p => points'[q] = points[q]
    BY <2>2, <2>3, UpdateRow DEF TypeOK
  <2>5. \A j \in ActiveJobs : jobs[j].point # p
    BY <1>5 DEF DeleteRestorePoint, Busy
  <2>6. QED
    BY <1>0, <2>3, <2>4, <2>5, JobInvStable
<1>6. ASSUME NEW h \in Host, NEW p \in DOMAIN points, QueuePointRestore(h, p)
      PROVE  JobInv'
  <2> DEFINE row == [host |-> h, point |-> p, status |-> "pending"]
  <2>1. row \in Job
    BY LenProperties DEF TypeOK, Job
  <2>2. PICK new : /\ DOMAIN jobs' = DOMAIN jobs \cup {new}
                   /\ new \notin DOMAIN jobs
                   /\ jobs'[new] = row
                   /\ \A j \in DOMAIN jobs : jobs'[j] = jobs[j]
    BY <1>6, <2>1, InsertRow DEF QueuePointRestore, TypeOK
  <2>3. points' = points
    BY <1>6 DEF QueuePointRestore
  <2>4. /\ p \in DOMAIN points /\ points[p].host = h /\ points[p].state = "sealed"
        /\ \A j \in ActiveJobs : jobs[j].host # h
    BY <1>6 DEF QueuePointRestore, OwnSealedPoint, PendingPointRestore
  <2>5. ActiveJobRestorable'
    BY <2>2, <2>3, <2>4 DEF JobInv, ActiveJobRestorable
  <2>6. ActiveJobs' \subseteq ActiveJobs \cup {new}
    BY <2>2 DEF ActiveJobs, Active
  <2>7. \A j \in ActiveJobs : j \in DOMAIN jobs
    BY DEF ActiveJobs
  <2>8. OneRestorePerHost'
    BY <2>2, <2>4, <2>6, <2>7 DEF JobInv, OneRestorePerHost
  <2>9. QED
    BY <2>5, <2>8 DEF JobInv
<1>7. ASSUME NEW j \in DOMAIN jobs, StartPointRestore(j) PROVE JobInv'
  <2> DEFINE row == [jobs[j] EXCEPT !.status = "running"]
  <2>1. jobs[j] \in Job /\ jobs[j].status = "pending"
    BY <1>7, RowOf DEF TypeOK, StartPointRestore
  <2>2. row \in Job /\ row.host = jobs[j].host /\ row.point = jobs[j].point
    BY <2>1 DEF Job
  <2>3. jobs' = [jobs EXCEPT ![j] = row] /\ points' = points
    BY <1>7 DEF StartPointRestore
  <2>4. /\ DOMAIN jobs' = DOMAIN jobs
        /\ \A i \in DOMAIN jobs : jobs'[i] = IF i = j THEN row ELSE jobs[i]
    BY <2>2, <2>3, UpdateRow DEF TypeOK
  <2>5. jobs[j].status \in Active
    BY <2>1 DEF Active
  <2>6. QED
    BY <1>0, <2>2, <2>3, <2>4, <2>5, JobInvStable
<1>8. ASSUME NEW j \in DOMAIN jobs, NEW ok \in BOOLEAN, FinishPointRestore(j, ok)
      PROVE  JobInv'
  <2> DEFINE row == [jobs[j] EXCEPT !.status = IF ok THEN "done" ELSE "failed"]
  <2>1. jobs[j] \in Job
    BY RowOf DEF TypeOK
  <2>2. row \in Job /\ row.host = jobs[j].host /\ row.point = jobs[j].point
    BY <2>1 DEF Job
  <2>3. jobs' = [jobs EXCEPT ![j] = row] /\ points' = points
    BY <1>8 DEF FinishPointRestore
  <2>4. /\ DOMAIN jobs' = DOMAIN jobs
        /\ \A i \in DOMAIN jobs : jobs'[i] = IF i = j THEN row ELSE jobs[i]
    BY <2>2, <2>3, UpdateRow DEF TypeOK
  <2>5. jobs[j].status \in Active
    BY <1>8 DEF FinishPointRestore, ActiveJobs
  <2>6. QED
    BY <1>0, <2>2, <2>3, <2>4, <2>5, JobInvStable
<1>9. ASSUME NEW h \in Host, NEW files \in Snapshot, NEW now \in 0 .. MaxClock,
             IngestSnapshot(h, files, now)
      PROVE  JobInv'
  BY <1>1, <1>9 DEF IngestSnapshot
<1>10. ASSUME NEW h \in Host, NEW f \in Path, NEW s \in Sha, QueueRestore(h, f, s)
       PROVE  JobInv'
  BY <1>1, <1>10 DEF QueueRestore
<1>11. ASSUME NEW r \in DOMAIN restores, NEW ok \in BOOLEAN, AckRestore(r, ok)
       PROVE  JobInv'
  BY <1>1, <1>11 DEF AckRestore
<1>12. ASSUME NEW s \in Sha, PutBlob(s) PROVE JobInv'
  BY <1>1, <1>12 DEF PutBlob
<1>13. ASSUME UNCHANGED vars PROVE JobInv'
  BY <1>1, <1>13 DEF vars
<1>14. QED
  BY <1>2, <1>3, <1>4, <1>5, <1>6, <1>7, <1>8, <1>9, <1>10, <1>11, <1>12,
     <1>13 DEF Next

\* The restore point of a queued or running machine restore is never deleted,
\* unsealed or another host's, however deletes and queueing interleave.
THEOREM RestoresKeepTheirPoint == Spec => []ActiveJobRestorable
<1>1. JobInv => ActiveJobRestorable
  BY DEF JobInv
<1>2. QED
  BY <1>1, TypeCorrect, JobInit, JobStep, PTL DEF Spec

\* Two restores never write one host's filesystem at once.
THEOREM OneRestoreAtATime == Spec => []OneRestorePerHost
<1>1. JobInv => OneRestorePerHost
  BY DEF JobInv
<1>2. QED
  BY <1>1, TypeCorrect, JobInit, JobStep, PTL DEF Spec

-----------------------------------------------------------------------------
(* What no call ever undoes.                                                *)

\* A step that leaves the table of restore points alone changes no sealed one.
LEMMA PointsUntouched == points' = points => SealedStands
BY DEF SealedStands

\* A call changes at most an open restore point, or deletes an idle one.
LEMMA SealedStep == TypeOK /\ [Next]_vars => [SealedStands]_vars
<1> SUFFICES ASSUME TypeOK, Next PROVE SealedStands
    OBVIOUS
<1>1. ASSUME NEW h \in Host, OpenRestorePoint(h) PROVE SealedStands
  <2> DEFINE row == [host |-> h, state |-> "open", files |-> NoFiles]
  <2>1. row \in Point
    BY DEF Point, NoFiles, Files
  <2>2. \A p \in DOMAIN points : points'[p] = points[p]
    BY <1>1, <2>1, InsertRow DEF OpenRestorePoint, TypeOK
  <2>3. QED
    BY <2>2 DEF SealedStands
<1>2. ASSUME NEW p \in DOMAIN points, NEW row \in Point,
             points' = [points EXCEPT ![p] = row],
             points[p].state # "sealed" \/ row = points[p]
      PROVE  SealedStands
  BY <1>2, UpdateRow DEF SealedStands, TypeOK
<1>3. ASSUME NEW p \in DOMAIN points, NEW chunk \in Chunk,
             AddRestorePointEntries(p, chunk)
      PROVE  SealedStands
  <2> DEFINE row == [points[p] EXCEPT !.files =
                       [f \in Path |-> IF f \in DOMAIN chunk THEN chunk[f] ELSE @[f]]]
  <2>1. points[p] \in Point
    BY RowOf DEF TypeOK
  <2>2. row \in Point
    BY <2>1 DEF Point, Files, Chunk
  <2>3. points' = [points EXCEPT ![p] = row]
    BY <1>3 DEF AddRestorePointEntries
  <2>4. points[p].state = "open"
    BY <1>3 DEF AddRestorePointEntries, OpenForWriting
  <2>5. QED
    BY <1>2, <2>2, <2>3, <2>4
<1>4. ASSUME NEW p \in DOMAIN points, SealRestorePoint(p) PROVE SealedStands
  <2> DEFINE row == [points[p] EXCEPT !.state = "sealed"]
  <2>1. points[p] \in Point
    BY RowOf DEF TypeOK
  <2>2. row \in Point /\ (points[p].state = "sealed" => row = points[p])
    BY <2>1 DEF Point
  <2>3. points' = [points EXCEPT ![p] = row]
    BY <1>4 DEF SealRestorePoint
  <2>4. QED
    BY <1>2, <2>2, <2>3
<1>5. ASSUME NEW p \in DOMAIN points, DeleteRestorePoint(p) PROVE SealedStands
  <2> DEFINE row == [points[p] EXCEPT !.state = "deleted", !.files = NoFiles]
  <2>1. points[p] \in Point
    BY RowOf DEF TypeOK
  <2>2. row \in Point /\ row.state = "deleted"
    BY <2>1 DEF Point, Files, NoFiles
  <2>3. points' = [points EXCEPT ![p] = row]
    BY <1>5 DEF DeleteRestorePoint
  <2>4. \A j \in ActiveJobs : jobs[j].point # p
    BY <1>5 DEF DeleteRestorePoint, Busy
  <2>5. QED
    BY <2>2, <2>3, <2>4, UpdateRow DEF SealedStands, TypeOK
<1>6. QED
  BY PointsUntouched, <1>1, <1>3, <1>4, <1>5
  DEF Next, IngestSnapshot, QueueRestore, AckRestore, PutBlob, QueuePointRestore,
      StartPointRestore, FinishPointRestore

\* A sealed restore point never changes and is never opened again; it can only
\* be deleted, and not under a restore that is queued or running.
THEOREM SealedNeverChanges == Spec => SealedImmutable
BY TypeCorrect, SealedStep, PTL DEF Spec, SealedImmutable

\* A call changes only restores that are still under way.
LEMMA OutcomeStep == TypeOK /\ [Next]_vars => [OutcomeStands]_vars
<1> SUFFICES ASSUME TypeOK, Next PROVE OutcomeStands
    OBVIOUS
<1>1. ASSUME jobs' = jobs, restores' = restores PROVE OutcomeStands
  BY <1>1 DEF OutcomeStands
<1>2. ASSUME NEW h \in Host, NEW f \in Path, NEW s \in Sha, QueueRestore(h, f, s)
      PROVE  OutcomeStands
  <2> DEFINE row == [host |-> h, path |-> f, sha |-> s, status |-> "pending"]
  <2>1. row \in Restore
    BY DEF Restore
  <2>2. \A r \in DOMAIN restores : restores'[r] = restores[r]
    BY <1>2, <2>1, InsertRow DEF QueueRestore, TypeOK
  <2>3. jobs' = jobs
    BY <1>2 DEF QueueRestore
  <2>4. QED
    BY <2>2, <2>3 DEF OutcomeStands
<1>3. ASSUME NEW r \in DOMAIN restores, NEW ok \in BOOLEAN, AckRestore(r, ok)
      PROVE  OutcomeStands
  <2> DEFINE row == [restores[r] EXCEPT !.status = IF ok THEN "applied" ELSE "failed"]
  <2>1. restores[r] \in Restore /\ restores[r].status = "pending"
    BY <1>3, RowOf DEF AckRestore, TypeOK
  <2>2. row \in Restore
    BY <2>1 DEF Restore
  <2>3. restores' = [restores EXCEPT ![r] = row] /\ jobs' = jobs
    BY <1>3 DEF AckRestore
  <2>4. QED
    BY <2>1, <2>2, <2>3, UpdateRow DEF OutcomeStands, TypeOK
<1>4. ASSUME NEW h \in Host, NEW p \in DOMAIN points, QueuePointRestore(h, p)
      PROVE  OutcomeStands
  <2> DEFINE row == [host |-> h, point |-> p, status |-> "pending"]
  <2>1. row \in Job
    BY LenProperties DEF TypeOK, Job
  <2>2. \A j \in DOMAIN jobs : jobs'[j] = jobs[j]
    BY <1>4, <2>1, InsertRow DEF QueuePointRestore, TypeOK
  <2>3. restores' = restores
    BY <1>4 DEF QueuePointRestore
  <2>4. QED
    BY <2>2, <2>3 DEF OutcomeStands
<1>5. ASSUME NEW j \in DOMAIN jobs, NEW row \in Job,
             jobs[j].status \in Active,
             jobs' = [jobs EXCEPT ![j] = row], restores' = restores
      PROVE  OutcomeStands
  BY <1>5, UpdateRow DEF OutcomeStands, TypeOK, Active
<1>6. ASSUME NEW j \in DOMAIN jobs, StartPointRestore(j) PROVE OutcomeStands
  <2> DEFINE row == [jobs[j] EXCEPT !.status = "running"]
  <2>1. jobs[j] \in Job
    BY RowOf DEF TypeOK
  <2>2. row \in Job
    BY <2>1 DEF Job
  <2>3. QED
    BY <1>5, <1>6, <2>2 DEF StartPointRestore, Active
<1>7. ASSUME NEW j \in DOMAIN jobs, NEW ok \in BOOLEAN, FinishPointRestore(j, ok)
      PROVE  OutcomeStands
  <2> DEFINE row == [jobs[j] EXCEPT !.status = IF ok THEN "done" ELSE "failed"]
  <2>1. jobs[j] \in Job
    BY RowOf DEF TypeOK
  <2>2. row \in Job
    BY <2>1 DEF Job
  <2>3. QED
    BY <1>5, <1>7, <2>2 DEF FinishPointRestore, ActiveJobs
<1>8. QED
  BY <1>1, <1>2, <1>3, <1>4, <1>6, <1>7
  DEF Next, IngestSnapshot, OpenRestorePoint, AddRestorePointEntries, PutBlob,
      SealRestorePoint, DeleteRestorePoint

\* The outcome of a restore of a machine or of a file, once recorded, stands,
\* whatever late, repeated or contradicting reports agents send afterwards.
THEOREM OutcomesAreFinal == Spec => OutcomesStand
BY TypeCorrect, OutcomeStep, PTL DEF Spec, OutcomesStand

-----------------------------------------------------------------------------
(* The history of a file.                                                   *)

\* The version a snapshot stores of a file that changed.
Capture(h, files, now, f) ==
    [host |-> h, path |-> f, sha |-> files[f], at |-> now, id |-> captures]

\* The versions that are newer than v.
Above(v, S) == {w \in S : Newer(w, v)}

\* What the prune leaves of a file's versions.
Kept(S) == {v \in S : ~ Cardinality(Above(v, S)) >= KEEP}

\* A snapshot adds the capture to the history of a file that changed and prunes
\* that history.
LEMMA IngestedHistory ==
    ASSUME NEW h \in Host, NEW files \in Snapshot, NEW now \in 0 .. MaxClock,
           IngestSnapshot(h, files, now),
           NEW f \in Changed(h, files)
    PROVE  History(versions', h, f) = Kept(History(versions, h, f) \cup {Capture(h, files, now, f)})
<1> DEFINE changed == Changed(h, files)
           stored  == versions \cup {Capture(h, files, now, e) : e \in changed}
           stale   == UNION {Stale(stored, h, e) : e \in changed}
<1>1. versions' = stored \ stale
    BY DEF IngestSnapshot, Capture
<1>2. History(stored, h, f) = History(versions, h, f) \cup {Capture(h, files, now, f)}
    BY DEF History, Capture
<1>3. History(stored, h, f) \cap stale = Stale(stored, h, f)
    <2>1. \A v \in stale : v \in Stale(stored, h, v.path)
        BY DEF Stale, History
    <2>2. \A v \in History(stored, h, f) : v.path = f
        BY DEF History
    <2>3. Stale(stored, h, f) \subseteq History(stored, h, f)
        BY DEF Stale
    <2>4. Stale(stored, h, f) \subseteq stale
        OBVIOUS
    <2>5. \A v \in History(stored, h, f) \cap stale : v \in Stale(stored, h, f)
        BY <2>1, <2>2
    <2>6. QED
        BY <2>3, <2>4, <2>5
<1>4. Stale(stored, h, f) = History(stored, h, f) \ Kept(History(stored, h, f))
    BY DEF Stale, Kept, Above
<1>5. Kept(History(stored, h, f)) \subseteq History(stored, h, f)
    BY DEF Kept
<1>6. History(versions', h, f) = History(stored, h, f) \ stale
    BY <1>1 DEF History
<1>7. QED
    BY <1>2, <1>3, <1>4, <1>5, <1>6

\* It leaves the history of every other file alone.
LEMMA OtherHistories ==
    ASSUME NEW h \in Host, NEW files \in Snapshot, NEW now \in 0 .. MaxClock,
           IngestSnapshot(h, files, now),
           NEW g, NEW f, g # h \/ f \notin Changed(h, files)
    PROVE  History(versions', g, f) = History(versions, g, f)
<1> DEFINE changed == Changed(h, files)
           stored  == versions \cup {Capture(h, files, now, e) : e \in changed}
           stale   == UNION {Stale(stored, h, e) : e \in changed}
<1>1. versions' = stored \ stale
    BY DEF IngestSnapshot, Capture
<1>2. History(stored, g, f) = History(versions, g, f)
    BY DEF History, Capture
<1>3. History(stored, g, f) \cap stale = {}
    BY DEF History, Stale
<1>4. History(versions', g, f) = History(stored, g, f) \ stale
    BY <1>1 DEF History
<1>5. QED
    BY <1>2, <1>3, <1>4

\* Versions with different capture numbers are in a strict order.
LEMMA NewerOrders ==
    ASSUME NEW u \in Version, NEW v \in Version, NEW w \in Version
    PROVE  /\ ~ Newer(v, v)
           /\ Newer(u, v) /\ Newer(v, w) => Newer(u, w)
           /\ v.id # w.id => Newer(v, w) \/ Newer(w, v)
BY DEF Newer, Version

\* At most n members of a finite set of versions, no two of one capture, have
\* fewer than n newer ones: how many newer ones they have tells them apart.
LEMMA FewAreNewest ==
    ASSUME NEW S, S \subseteq Version, IsFiniteSet(S), NEW n \in Nat,
           \A v, w \in S : v.id = w.id => v = w
    PROVE  /\ IsFiniteSet({v \in S : ~ Cardinality(Above(v, S)) >= n})
           /\ Cardinality({v \in S : ~ Cardinality(Above(v, S)) >= n}) <= n
<1> DEFINE T    == {v \in S : ~ Cardinality(Above(v, S)) >= n}
           rank == [v \in T |-> Cardinality(Above(v, S))]
<1>1. \A v \in S : IsFiniteSet(Above(v, S)) /\ Cardinality(Above(v, S)) \in Nat
    BY FS_Subset, FS_CardinalityType DEF Above
<1>2. ASSUME NEW v \in S, NEW w \in S, Newer(w, v)
      PROVE  Cardinality(Above(w, S)) # Cardinality(Above(v, S))
    <2>1. Above(w, S) \subseteq Above(v, S)
        BY <1>2, NewerOrders DEF Above
    <2>2. w \in Above(v, S) /\ w \notin Above(w, S)
        BY <1>2, NewerOrders DEF Above
    <2>3. QED
        BY <1>1, <2>1, <2>2, FS_Subset
<1>3. rank \in Injection(T, 0 .. n - 1)
    <2>1. rank \in [T -> 0 .. n - 1]
        BY <1>1
    <2>2. \A v, w \in T : rank[v] = rank[w] => v = w
        BY <1>2, NewerOrders
    <2>3. QED
        BY <2>1, <2>2 DEF Injection, IsInjective
<1>4. IsFiniteSet(0 .. n - 1) /\ Cardinality(0 .. n - 1) = n
    BY FS_Interval
<1>5. QED
    BY <1>3, <1>4, FS_Injection

\* The capture number tells a file's versions apart, and a capture takes one
\* that no version has.
CapturesApart ==
    /\ \A v \in versions : v.id < captures
    /\ \A v, w \in versions :
           v.host = w.host /\ v.path = w.path /\ v.id = w.id => v = w

\* What makes the prune count right.
HistoryInv ==
    /\ CapturesApart
    /\ \A h \in Host, f \in Path : IsFiniteSet(History(versions, h, f))
    /\ HistoryBounded

\* With the capture, a file's history is still finite and told apart.
LEMMA CaptureJoins ==
    ASSUME TypeOK, HistoryInv, NEW h \in Host, NEW files \in Snapshot,
           NEW now \in 0 .. MaxClock, NEW f \in Changed(h, files)
    PROVE  LET S == History(versions, h, f) \cup {Capture(h, files, now, f)}
           IN  /\ S \subseteq Version
               /\ IsFiniteSet(S)
               /\ \A v, w \in S : v.id = w.id => v = w
<1> DEFINE S == History(versions, h, f) \cup {Capture(h, files, now, f)}
<1>1. files[f] \in Sha /\ f \in Path
    BY DEF Changed, Snapshot
<1>2. IsFiniteSet(S)
    BY <1>1, FS_AddElement DEF HistoryInv
<1>3. S \subseteq Version
    BY <1>1 DEF Capture, Version, History, TypeOK
<1>4. \A v \in History(versions, h, f) : v.id < captures /\ v.id \in Nat
    BY DEF HistoryInv, CapturesApart, Version, History, TypeOK
<1>5. Capture(h, files, now, f).id = captures /\ captures \in Nat
    BY DEF Capture, TypeOK
<1>6. \A v, w \in History(versions, h, f) : v.id = w.id => v = w
    BY DEF HistoryInv, CapturesApart, History
<1>7. \A v, w \in S : v.id = w.id => v = w
    BY <1>4, <1>5, <1>6
<1>8. QED
    BY <1>2, <1>3, <1>7

\* An empty history is as short as can be.
LEMMA HistoryInit == Init => HistoryInv
<1> SUFFICES ASSUME Init PROVE HistoryInv
    OBVIOUS
<1>1. \A h, f : History(versions, h, f) = {}
    BY DEF Init, History
<1>2. CapturesApart
    BY DEF Init, CapturesApart
<1>3. IsFiniteSet({}) /\ Cardinality({}) <= KEEP
    BY FS_EmptySet, StoreAssumption
<1>4. QED
    BY <1>1, <1>2, <1>3 DEF HistoryInv, HistoryBounded

\* Only a snapshot changes the history, and it prunes what it adds to.
LEMMA HistoryStep == TypeOK /\ HistoryInv /\ [Next]_vars => HistoryInv'
<1> SUFFICES ASSUME TypeOK, HistoryInv, [Next]_vars PROVE HistoryInv'
    OBVIOUS
<1>1. ASSUME NEW h \in Host, NEW files \in Snapshot, NEW now \in 0 .. MaxClock,
             IngestSnapshot(h, files, now)
      PROVE  HistoryInv'
    <2> DEFINE changed == Changed(h, files)
    <2>1. /\ versions' \subseteq versions \cup {Capture(h, files, now, f) : f \in changed}
          /\ captures' = IF changed = {} THEN captures ELSE captures + 1
        BY <1>1 DEF IngestSnapshot, Capture
    <2>2. versions \subseteq Version /\ captures \in Nat
        BY DEF TypeOK
    <2>3. CapturesApart'
        <3>1. \A f : Capture(h, files, now, f).id = captures /\ Capture(h, files, now, f).path = f
            BY DEF Capture
        <3>2. \A v \in versions : v.id < captures /\ v.id \in Nat
            BY <2>2 DEF HistoryInv, CapturesApart, Version
        <3>3. \A v \in versions' : v.id < captures'
            BY <2>1, <2>2, <3>1, <3>2
        <3>4. \A v, w \in versions' :
                 v.host = w.host /\ v.path = w.path /\ v.id = w.id => v = w
            BY <2>1, <3>1, <3>2 DEF HistoryInv, CapturesApart
        <3>5. QED
            BY <3>3, <3>4 DEF CapturesApart
    <2>4. ASSUME NEW g \in Host, NEW f \in Path
          PROVE  /\ IsFiniteSet(History(versions', g, f))
                 /\ Cardinality(History(versions', g, f)) <= KEEP
        <3> DEFINE S == History(versions, g, f) \cup {Capture(h, files, now, f)}
        <3>1. CASE g # h \/ f \notin changed
            <4>1. History(versions', g, f) = History(versions, g, f)
                BY <1>1, <3>1, OtherHistories
            <4>2. QED
                BY <4>1 DEF HistoryInv, HistoryBounded
        <3>2. CASE g = h /\ f \in changed
            <4>1. /\ S \subseteq Version /\ IsFiniteSet(S)
                  /\ \A v, w \in S : v.id = w.id => v = w
                BY <3>2, CaptureJoins
            <4>2. IsFiniteSet(Kept(S)) /\ Cardinality(Kept(S)) <= KEEP
                <5> HIDE DEF S
                <5> QED
                    BY <4>1, FewAreNewest, StoreAssumption DEF Kept
            <4>3. History(versions', g, f) = Kept(S)
                BY <1>1, <3>2, IngestedHistory
            <4>4. QED
                BY <4>2, <4>3
        <3>3. QED
            BY <3>1, <3>2
    <2>5. QED
        BY <2>3, <2>4 DEF HistoryInv, HistoryBounded
<1>2. ASSUME UNCHANGED <<versions, captures>> PROVE HistoryInv'
    BY <1>2 DEF HistoryInv, CapturesApart, HistoryBounded
<1>3. QED
    BY <1>1, <1>2
    DEF Next, vars, QueueRestore, AckRestore, OpenRestorePoint, AddRestorePointEntries,
        PutBlob, SealRestorePoint, DeleteRestorePoint, QueuePointRestore,
        StartPointRestore, FinishPointRestore

\* No file ever has more than KEEP versions, however many hosts and files there
\* are, however often they change, and whatever times their snapshots carry.
THEOREM HistoryStaysBounded == Spec => []HistoryBounded
<1>1. HistoryInv => HistoryBounded
    BY DEF HistoryInv
<1>2. QED
    BY <1>1, TypeCorrect, HistoryInit, HistoryStep, PTL DEF Spec

-----------------------------------------------------------------------------
(* What is let go of is collected.                                          *)

\* What GcBlobs was told of and nothing names is not in what it leaves.
LEMMA GcCollects ==
    ASSUME NEW bs, NEW shas, NEW vs, NEW ps, NEW s \in shas
    PROVE  InVersions(s, vs) \/ InPoints(s, ps) \/ s \notin GcBlobs(bs, shas, vs, ps)
BY DEF GcBlobs

\* A step that prunes no version and deletes no restore point lets go of nothing.
LEMMA NothingLetGo ==
    ASSUME versions' = versions,
           \A q \in DOMAIN points : points'[q].state = "deleted"
                                      => points[q].state = "deleted"
    PROVE  LetGoIsCollected
BY DEF LetGoIsCollected, LetGo, Row

\* The two calls that let go of content ask for just that content's collection.
LEMMA CollectStep == TypeOK /\ [Next]_vars => [LetGoIsCollected]_vars
<1> SUFFICES ASSUME TypeOK, Next PROVE LetGoIsCollected
    OBVIOUS
<1>1. ASSUME NEW h \in Host, NEW files \in Snapshot, NEW now \in 0 .. MaxClock,
             IngestSnapshot(h, files, now)
      PROVE  LetGoIsCollected
    <2> DEFINE changed == Changed(h, files)
               stored  == versions \cup {Capture(h, files, now, f) : f \in changed}
               stale   == UNION {Stale(stored, h, f) : f \in changed}
               kept    == blobs \cup {files[f] : f \in changed}
    <2>1. /\ versions' = stored \ stale
          /\ blobs' = GcBlobs(kept, {v.sha : v \in stale}, versions', points)
          /\ points' = points
        BY <1>1 DEF IngestSnapshot, Capture
    <2>2. ASSUME NEW s \in LetGo PROVE s \in {v.sha : v \in stale}
        BY <2>1, <2>2 DEF LetGo, Row
    <2>3. ASSUME NEW s \in LetGo
          PROVE  InVersions(s, versions') \/ InPoints(s, points') \/ s \notin blobs'
        <3> DEFINE shas == {v.sha : v \in stale}
        <3>1. s \in shas /\ blobs' = GcBlobs(kept, shas, versions', points)
            BY <2>1, <2>2, <2>3
        <3> HIDE DEF shas, kept
        <3>2. QED
            BY <2>1, <3>1, GcCollects
    <2>4. QED
        BY <2>3 DEF LetGoIsCollected
<1>2. ASSUME NEW p \in DOMAIN points, DeleteRestorePoint(p) PROVE LetGoIsCollected
    <2> DEFINE row == [points[p] EXCEPT !.state = "deleted", !.files = NoFiles]
    <2>1. points[p] \in Point
        BY RowOf DEF TypeOK
    <2>2. row \in Point
        BY <2>1 DEF Point, Files, NoFiles
    <2>3. points' = [points EXCEPT ![p] = row]
        BY <1>2 DEF DeleteRestorePoint
    <2>4. \A q \in DOMAIN points : q # p => points'[q] = points[q]
        BY <2>2, <2>3, UpdateRow DEF TypeOK
    <2>5. /\ blobs' = GcBlobs(blobs, Named(p), versions', points')
          /\ versions' = versions
        BY <1>2 DEF DeleteRestorePoint
    <2>6. LetGo \subseteq Named(p)
        BY <2>4, <2>5 DEF LetGo, Row
    <2>7. QED
        BY <2>5, <2>6, GcCollects DEF LetGoIsCollected
<1>3. ASSUME NEW h \in Host, OpenRestorePoint(h) PROVE LetGoIsCollected
    <2> DEFINE row == [host |-> h, state |-> "open", files |-> NoFiles]
    <2>1. row \in Point
        BY DEF Point, NoFiles, Files
    <2>2. \A p \in DOMAIN points : points'[p] = points[p]
        BY <1>3, <2>1, InsertRow DEF OpenRestorePoint, TypeOK
    <2>3. QED
        BY <1>3, <2>2, NothingLetGo DEF OpenRestorePoint
<1>4. ASSUME NEW p \in DOMAIN points, NEW row \in Point, row.state # "deleted",
             points' = [points EXCEPT ![p] = row], versions' = versions
      PROVE  LetGoIsCollected
    <2>1. \A q \in DOMAIN points : points'[q] = IF q = p THEN row ELSE points[q]
        BY <1>4, UpdateRow DEF TypeOK
    <2>2. QED
        BY <1>4, <2>1, NothingLetGo
<1>5. ASSUME NEW p \in DOMAIN points, NEW chunk \in Chunk,
             AddRestorePointEntries(p, chunk)
      PROVE  LetGoIsCollected
    <2> DEFINE row == [points[p] EXCEPT !.files =
                         [f \in Path |-> IF f \in DOMAIN chunk THEN chunk[f] ELSE @[f]]]
    <2>1. points[p] \in Point /\ points[p].state = "open"
        BY <1>5, RowOf DEF TypeOK, AddRestorePointEntries, OpenForWriting
    <2>2. row \in Point /\ row.state = "open"
        BY <2>1 DEF Point, Files, Chunk
    <2>3. points' = [points EXCEPT ![p] = row] /\ versions' = versions
        BY <1>5 DEF AddRestorePointEntries
    <2>4. QED
        BY <1>4, <2>2, <2>3
<1>6. ASSUME NEW p \in DOMAIN points, SealRestorePoint(p) PROVE LetGoIsCollected
    <2> DEFINE row == [points[p] EXCEPT !.state = "sealed"]
    <2>1. points[p] \in Point
        BY RowOf DEF TypeOK
    <2>2. row \in Point /\ row.state = "sealed"
        BY <2>1 DEF Point
    <2>3. points' = [points EXCEPT ![p] = row] /\ versions' = versions
        BY <1>6 DEF SealRestorePoint
    <2>4. QED
        BY <1>4, <2>2, <2>3
<1>7. ASSUME UNCHANGED <<points, versions>> PROVE LetGoIsCollected
    BY <1>7, NothingLetGo
<1>8. QED
    BY <1>1, <1>2, <1>3, <1>5, <1>6, <1>7
    DEF Next, QueueRestore, AckRestore, PutBlob, QueuePointRestore,
        StartPointRestore, FinishPointRestore

\* Unreachable content does not stay on the disk: what a prune or a deletion
\* lets go of, and nothing else names, it removes.
THEOREM NothingIsLeftBehind == Spec => ForgottenIsCollected
BY TypeCorrect, CollectStep, PTL DEF Spec, ForgottenIsCollected

-----------------------------------------------------------------------------
(* The head of the history.                                                 *)

\* A capture is newer than the versions of its file whose time is not later, and
\* older than the others, which all have a smaller number.
LEMMA CaptureAmong ==
    ASSUME TypeOK, CapturesApart, NEW h \in Host, NEW files \in Snapshot,
           NEW now \in 0 .. MaxClock, NEW f \in Changed(h, files)
    PROVE  /\ Capture(h, files, now, f) \in Version
           /\ Capture(h, files, now, f).id = captures
           /\ Capture(h, files, now, f).sha = files[f]
           /\ \A v \in History(versions, h, f) :
                  /\ v \in Version /\ v.id < captures /\ v.id # captures
                  /\ Newer(v, Capture(h, files, now, f)) <=> v.at > now
                  /\ Newer(Capture(h, files, now, f), v) <=> ~ v.at > now
<1>1. files[f] \in Sha /\ f \in Path
    BY DEF Changed, Snapshot
<1>2. Capture(h, files, now, f) \in Version
    BY <1>1 DEF Capture, Version, TypeOK
<1>3. \A v \in History(versions, h, f) : v \in Version /\ v.id < captures
    BY DEF TypeOK, CapturesApart, History
<1>4. Capture(h, files, now, f).id = captures /\ Capture(h, files, now, f).at = now
      /\ Capture(h, files, now, f).sha = files[f]
    BY DEF Capture
<1>5. captures \in Nat /\ now \in Nat
    BY DEF TypeOK
<1>6. \A v \in History(versions, h, f) :
          /\ v \in Version /\ v.id < captures /\ v.id # captures
          /\ Newer(v, Capture(h, files, now, f)) <=> v.at > now
          /\ Newer(Capture(h, files, now, f), v) <=> ~ v.at > now
    BY <1>3, <1>4, <1>5 DEF Newer, Version
<1>7. QED
    BY <1>2, <1>4, <1>6

\* What is newer than a version the prune leaves is left too.
LEMMA KeptUpwards ==
    ASSUME NEW S, S \subseteq Version, IsFiniteSet(S),
           NEW v \in Kept(S), NEW w \in S, Newer(w, v)
    PROVE  w \in Kept(S)
<1>1. v \in S /\ ~ Cardinality(Above(v, S)) >= KEEP
    BY DEF Kept
<1>2. Above(w, S) \subseteq Above(v, S)
    BY <1>1, NewerOrders DEF Above
<1>3. IsFiniteSet(Above(v, S))
    BY FS_Subset DEF Above
<1>4. /\ Cardinality(Above(w, S)) <= Cardinality(Above(v, S))
      /\ Cardinality(Above(w, S)) \in Nat /\ Cardinality(Above(v, S)) \in Nat
    BY <1>2, <1>3, FS_Subset, FS_CardinalityType
<1>5. QED
    BY <1>1, <1>4, StoreAssumption DEF Kept

\* A version that nothing is newer than is left, if any is.
LEMMA KeptOnTop ==
    ASSUME NEW S, NEW v \in S, \A w \in S : ~ Newer(w, v), KEEP # 0
    PROVE  v \in Kept(S)
<1>1. Above(v, S) = {}
    BY DEF Above
<1>2. Cardinality(Above(v, S)) = 0
    BY <1>1, FS_EmptySet
<1>3. QED
    BY <1>2, StoreAssumption DEF Kept

\* A file's newest version is the only one.
LEMMA NewestIsOne ==
    ASSUME TypeOK, CapturesApart, NEW h, NEW f,
           NEW v \in Newest(versions, h, f), NEW w \in Newest(versions, h, f)
    PROVE  v = w
<1>1. v \in Version /\ w \in Version /\ (v.id = w.id => v = w)
    BY DEF TypeOK, CapturesApart, Newest, History
<1>2. ~ Newer(v, w) /\ ~ Newer(w, v)
    BY DEF Newest
<1>3. QED
    BY <1>1, <1>2, NewerOrders

\* A history that keeps anything at all: what a snapshot reports heads it, either
\* stored on top or on top already, unless a version has a later time, and then the
\* head is not moved.
LEMMA HeadStep ==
    ASSUME KEEP # 0
    PROVE  TypeOK /\ HistoryInv /\ [Next]_vars => [SnapshotHeads]_vars
<1> SUFFICES ASSUME TypeOK, HistoryInv,
                    NEW h \in Host, NEW files \in Snapshot, NEW now \in 0 .. MaxClock,
                    IngestSnapshot(h, files, now),
                    NEW f \in DOMAIN files
             PROVE  IF \E v \in History(versions, h, f) : v.at > now
                    THEN Newest(versions', h, f) = Newest(versions, h, f)
                    ELSE {v.sha : v \in Newest(versions', h, f)} = {files[f]}
    BY DEF SnapshotHeads
<1>1. CapturesApart
    BY DEF HistoryInv
<1>2. CASE f \notin Changed(h, files)
    <2>1. PICK v \in Newest(versions, h, f) : v.sha = files[f]
        BY <1>2 DEF Changed
    <2>2. Newest(versions, h, f) = {v}
        BY <1>1, NewestIsOne
    <2>3. History(versions', h, f) = History(versions, h, f)
        BY <1>2, OtherHistories
    <2>4. Newest(versions', h, f) = {v}
        BY <2>2, <2>3 DEF Newest
    <2>5. QED
        BY <2>1, <2>2, <2>4
<1>3. ASSUME f \in Changed(h, files), NEW late \in History(versions, h, f), late.at > now
      PROVE  Newest(versions', h, f) = Newest(versions, h, f)
    <2> DEFINE c   == Capture(h, files, now, f)
               old == History(versions, h, f)
               S   == old \cup {c}
    <2>1. c \in Version /\ Newer(late, c) /\ old \subseteq Version
        BY <1>1, <1>3, CaptureAmong
    <2>2. S \subseteq Version /\ IsFiniteSet(S)
        BY <1>3, CaptureJoins
    <2>3. History(versions', h, f) = Kept(S) /\ Kept(S) \subseteq S
        BY <1>3, IngestedHistory DEF Kept
    <2> HIDE DEF c, old
    <2>4. ASSUME NEW v \in Newest(versions', h, f) PROVE v \in Newest(versions, h, f)
        <3>1. v \in Kept(S) /\ \A w \in Kept(S) : ~ Newer(w, v)
            BY <2>3, <2>4 DEF Newest
        <3>2. \A w \in S : ~ Newer(w, v)
            <4> HIDE DEF S
            <4>1. QED
                BY <2>2, <3>1, KeptUpwards
        <3>3. v \in old
            BY <1>3, <2>1, <2>3, <3>1, <3>2 DEF old
        <3>4. QED
            BY <3>2, <3>3 DEF Newest, old
    <2>5. ASSUME NEW v \in Newest(versions, h, f) PROVE v \in Newest(versions', h, f)
        <3>1. v \in old /\ \A w \in old : ~ Newer(w, v)
            BY <2>5 DEF Newest, old
        <3>2. ~ Newer(c, v)
            BY <1>3, <2>1, <3>1, NewerOrders DEF old
        <3>3. v \in S /\ \A w \in S : ~ Newer(w, v)
            BY <3>1, <3>2
        <3>4. v \in Kept(S)
            <4> HIDE DEF S
            <4>1. QED
                BY <3>3, KeptOnTop
        <3>5. QED
            BY <2>3, <3>3, <3>4 DEF Newest
    <2>6. QED
        BY <2>4, <2>5
<1>4. ASSUME f \in Changed(h, files), \A v \in History(versions, h, f) : ~ v.at > now
      PROVE  {v.sha : v \in Newest(versions', h, f)} = {files[f]}
    <2> DEFINE c == Capture(h, files, now, f)
               S == History(versions, h, f) \cup {c}
    <2>1. /\ c \in Version /\ c.sha = files[f]
          /\ \A v \in History(versions, h, f) : Newer(c, v) /\ ~ Newer(v, c)
        BY <1>1, <1>4, CaptureAmong
    <2>2. History(versions', h, f) = Kept(S)
        BY <1>4, IngestedHistory
    <2>3. c \in Kept(S)
        <3>1. c \in S /\ \A w \in S : ~ Newer(w, c)
            BY <2>1, NewerOrders
        <3> HIDE DEF c, S
        <3>2. QED
            BY <3>1, KeptOnTop
    <2>4. Kept(S) \subseteq S
        BY DEF Kept
    <2>5. Newest(versions', h, f) = {c}
        <3>1. ~ Newer(c, c)
            BY <2>1, NewerOrders
        <3> HIDE DEF c
        <3>2. QED
            BY <2>1, <2>2, <2>3, <2>4, <3>1 DEF Newest
    <2>6. QED
        BY <2>1, <2>5
<1>5. QED
    BY <1>2, <1>3, <1>4

-----------------------------------------------------------------------------
(* The change-only history.                                                 *)

\* Two versions follow one another in the history S.
Follow(v, w, S) ==
    /\ v \in S /\ w \in S /\ Newer(v, w)
    /\ ~ \E u \in S : Newer(v, u) /\ Newer(u, w)

\* A version of the history S was stored after a newer one.
Late(w, S) == \E v \in S : Newer(v, w) /\ v.id < w.id

\* Neighbours with the same content are there only with one that was late.
Differ(v, w, S) == Follow(v, w, S) => v.sha # w.sha \/ Late(v, S) \/ Late(w, S)

\* The change-only history, file by file.
LEMMA ChangeOnlyByFile ==
    ChangeOnly <=> \A h, f : \A v, w \in History(versions, h, f) :
                       Differ(v, w, History(versions, h, f))
<1>1. \A h, f : \A v \in History(versions, h, f) :
          v \in versions /\ v.host = h /\ v.path = f
    BY DEF History
<1>2. \A v \in versions : v \in History(versions, v.host, v.path)
    BY DEF History
<1>3. \A v \in versions : Overtaken(v) <=> Late(v, History(versions, v.host, v.path))
    BY DEF Overtaken, Late
<1>4. \A v, w \in versions :
          Neighbours(v, w) <=> /\ v.host = w.host /\ v.path = w.path
                               /\ Follow(v, w, History(versions, v.host, v.path))
    BY <1>2 DEF Neighbours, Follow
<1>5. ASSUME ChangeOnly, NEW h, NEW f, NEW v \in History(versions, h, f),
             NEW w \in History(versions, h, f), Follow(v, w, History(versions, h, f))
      PROVE  v.sha # w.sha \/ Late(v, History(versions, h, f)) \/ Late(w, History(versions, h, f))
    <2>1. /\ v \in versions /\ v.host = h /\ v.path = f
          /\ w \in versions /\ w.host = h /\ w.path = f
        BY <1>1
    <2>2. Neighbours(v, w)
        BY <1>4, <1>5, <2>1
    <2>3. v.sha # w.sha \/ Overtaken(v) \/ Overtaken(w)
        BY <1>5, <2>1, <2>2 DEF ChangeOnly
    <2>4. QED
        BY <1>3, <2>1, <2>3
<1>6. ASSUME \A h, f : \A v, w \in History(versions, h, f) :
                 Differ(v, w, History(versions, h, f)),
             NEW v \in versions, NEW w \in versions, Neighbours(v, w)
      PROVE  v.sha # w.sha \/ Overtaken(v) \/ Overtaken(w)
    <2> DEFINE H == History(versions, v.host, v.path)
    <2>1. v.host = w.host /\ v.path = w.path /\ Follow(v, w, H)
        BY <1>4, <1>6
    <2>2. v \in H /\ w \in H
        BY <1>2, <2>1
    <2>3. Differ(v, w, H)
        BY <1>6, <2>2
    <2>4. v.sha # w.sha \/ Late(v, H) \/ Late(w, H)
        BY <2>1, <2>3 DEF Differ
    <2>5. QED
        BY <1>3, <2>1, <2>4
<1>7. QED
    BY <1>5, <1>6 DEF ChangeOnly, Differ

\* Pruning brings no two versions together that did not follow one another.
LEMMA KeptFollow ==
    ASSUME NEW S, S \subseteq Version, IsFiniteSet(S),
           NEW v, NEW w, Follow(v, w, Kept(S))
    PROVE  Follow(v, w, S)
<1>1. v \in S /\ w \in S /\ w \in Kept(S) /\ Newer(v, w)
    BY DEF Follow, Kept
<1>2. ASSUME NEW u \in S, Newer(v, u), Newer(u, w) PROVE FALSE
    <2>1. u \in Kept(S)
        BY <1>1, <1>2, KeptUpwards
    <2>2. QED
        BY <1>2, <2>1 DEF Follow
<1>3. QED
    BY <1>1, <1>2 DEF Follow

\* Pruning leaves what shows that a version it leaves was late.
LEMMA KeptLate ==
    ASSUME NEW S, S \subseteq Version, IsFiniteSet(S),
           NEW v \in Kept(S), Late(v, S)
    PROVE  Late(v, Kept(S))
BY KeptUpwards DEF Late

\* A snapshot puts a version on top of one that differs from it, or of none, or below
\* one that it comes too late for.
LEMMA ChangeOnlyStep == TypeOK /\ HistoryInv /\ ChangeOnly /\ [Next]_vars => ChangeOnly'
<1> SUFFICES ASSUME TypeOK, HistoryInv, ChangeOnly, [Next]_vars PROVE ChangeOnly'
    OBVIOUS
<1>1. ASSUME NEW h \in Host, NEW files \in Snapshot, NEW now \in 0 .. MaxClock,
             IngestSnapshot(h, files, now), NEW g, NEW f,
             NEW v \in History(versions', g, f), NEW w \in History(versions', g, f)
      PROVE  Differ(v, w, History(versions', g, f))
    <2>1. CASE g # h \/ f \notin Changed(h, files)
        <3>1. History(versions', g, f) = History(versions, g, f)
            BY <1>1, <2>1, OtherHistories
        <3>2. QED
            BY <1>1, <3>1, ChangeOnlyByFile
    <2>2. CASE g = h /\ f \in Changed(h, files)
        <3> DEFINE c   == Capture(h, files, now, f)
                   old == History(versions, h, f)
                   S   == old \cup {c}
        <3>1. S \subseteq Version /\ IsFiniteSet(S)
            BY <2>2, CaptureJoins
        <3>2. History(versions', g, f) = Kept(S)
            BY <1>1, <2>2, IngestedHistory
        <3>3. /\ c.sha = files[f] /\ c.id = captures /\ ~ Newer(c, c)
              /\ \A u \in old : u.id < captures
              /\ \A u \in old : Newer(c, u) \/ Newer(u, c)
            BY <2>2, CaptureAmong, NewerOrders DEF HistoryInv
        <3>4. \A u, x \in old : Differ(u, x, old)
            BY ChangeOnlyByFile
        <3>5. \A u \in old : (\A x \in old : ~ Newer(x, u)) => u.sha # files[f]
            BY <2>2 DEF Changed, Newest
        <3> HIDE DEF c, old
        <3>6. ASSUME Follow(v, w, S) PROVE v.sha # w.sha \/ Late(v, S) \/ Late(w, S)
            <4>1. /\ v \in S /\ w \in S /\ Newer(v, w)
                  /\ ~ \E u \in S : Newer(v, u) /\ Newer(u, w)
                BY <3>6 DEF Follow
            <4>2. CASE v \in old /\ w \in old
                <5>1. Follow(v, w, old)
                    BY <4>1, <4>2 DEF Follow
                <5>2. v.sha # w.sha \/ Late(v, old) \/ Late(w, old)
                    BY <3>4, <4>2, <5>1 DEF Differ
                <5>3. QED
                    BY <5>2 DEF Late
            <4>3. CASE v \in old /\ w = c
                BY <3>3, <4>1, <4>3 DEF Late
            <4>4. CASE v = c /\ w \in old
                <5>1. CASE \E u \in old : Newer(u, c)
                    BY <3>3, <4>4, <5>1 DEF Late
                <5>2. CASE \A u \in old : ~ Newer(u, c)
                    <6>1. \A u \in old : Newer(c, u)
                        BY <3>3, <5>2
                    <6>2. \A u \in old : ~ Newer(u, w)
                        BY <4>1, <4>4, <6>1
                    <6>3. QED
                        BY <3>3, <3>5, <4>4, <6>2
                <5>3. QED
                    BY <5>1, <5>2
            <4>5. QED
                BY <3>3, <4>1, <4>2, <4>3, <4>4
        <3> HIDE DEF S
        <3>7. ASSUME Follow(v, w, Kept(S))
              PROVE  v.sha # w.sha \/ Late(v, Kept(S)) \/ Late(w, Kept(S))
            <4>1. v \in Kept(S) /\ w \in Kept(S)
                BY <3>7 DEF Follow
            <4>2. Follow(v, w, S)
                BY <3>1, <3>7, KeptFollow
            <4>3. QED
                BY <3>1, <3>6, <4>1, <4>2, KeptLate
        <3>8. QED
            BY <3>2, <3>7 DEF Differ
    <2>3. QED
        BY <2>1, <2>2
<1>2. ASSUME UNCHANGED versions PROVE ChangeOnly'
    BY <1>2 DEF ChangeOnly, Neighbours, Overtaken
<1>3. ASSUME NEW h \in Host, NEW files \in Snapshot, NEW now \in 0 .. MaxClock,
             IngestSnapshot(h, files, now)
      PROVE  ChangeOnly'
    <2>1. \A v, w \in versions' :
              /\ v \in History(versions', v.host, v.path)
              /\ v.host = w.host /\ v.path = w.path => w \in History(versions', v.host, v.path)
        BY DEF History
    <2>2. ASSUME NEW v \in versions', NEW w \in versions', Neighbours(v, w)'
          PROVE  v.sha # w.sha \/ Overtaken(v)' \/ Overtaken(w)'
        <3> DEFINE H == History(versions', v.host, v.path)
        <3>1. v \in H /\ w \in H /\ v.host = w.host /\ v.path = w.path
            BY <2>1, <2>2 DEF Neighbours
        <3>2. Follow(v, w, H)
            BY <2>2, <3>1 DEF Neighbours, Follow
        <3>3. Differ(v, w, H)
            BY <1>1, <1>3, <3>1
        <3>4. v.sha # w.sha \/ Late(v, H) \/ Late(w, H)
            BY <3>2, <3>3 DEF Differ
        <3>5. QED
            BY <3>1, <3>4 DEF Late, Overtaken
    <2>3. QED
        BY <2>2 DEF ChangeOnly
<1>4. QED
    BY <1>2, <1>3
    DEF Next, vars, QueueRestore, AckRestore, OpenRestorePoint, AddRestorePointEntries,
        PutBlob, SealRestorePoint, DeleteRestorePoint, QueuePointRestore,
        StartPointRestore, FinishPointRestore

\* The history is change-only, but for snapshots that were overtaken: in whatever order
\* snapshots take their times and the lock, unchanged content is stored again only by
\* one that comes after a later one, or below it, and no prune makes equal versions
\* neighbours.
THEOREM HistoryIsChangeOnly == Spec => []ChangeOnly
<1>1. Init => ChangeOnly
    BY DEF Init, ChangeOnly
<1>2. QED
    BY <1>1, TypeCorrect, HistoryInit, HistoryStep, ChangeOnlyStep, PTL DEF Spec

\* With a retention that keeps anything at all, a snapshot's content is each file's
\* newest version once it is ingested, but where a version has a later time: then it
\* leaves the newest version as it is.
THEOREM SnapshotsHeadTheHistory ==
    ASSUME KEEP # 0
    PROVE  Spec => CaptureIsNewest
BY TypeCorrect, HistoryInit, HistoryStep, HeadStep, PTL DEF Spec, CaptureIsNewest

-----------------------------------------------------------------------------
(***************************************************************************)
(* The promise of RestorePoints.  What an image is depends on blobs, and a  *)
(* collection may run in any step that lets go of content.  SealedComplete  *)
(* takes that dependence away: a sealed restore point always is an image    *)
(* (ImageIs), so that only sealing and deleting change the images.          *)
(* OneRestorePerHost makes what a host becomes the point of its one job     *)
(* (BecomingIs).                                                            *)
(***************************************************************************)

\* The store's restore points are among those the promise speaks of.
PointsBounded == DOMAIN points \subseteq PointId

PromiseInv == TypeOK /\ ContentInv /\ JobInv /\ PointsBounded

\* What restore point p shows in the table ps.
Shown(ps, p) ==
    IF p \notin DOMAIN ps THEN NoImage
    ELSE IF ps[p].state = "deleted" THEN Gone
    ELSE IF ps[p].state = "sealed" THEN [host |-> ps[p].host, files |-> ps[p].files]
    ELSE NoImage

\* A sealed restore point is an image, whatever happened to blobs.
LEMMA ImageIs ==
    ASSUME SealedComplete, NEW p
    PROVE  ImageOf(p) = Shown(points, p)
BY DEF SealedComplete, ImageOf, Shown

\* The same of the next state.
LEMMA ImageWillBe ==
    ASSUME SealedComplete', NEW p
    PROVE  ImageOf(p)' = Shown(points', p)
BY DEF SealedComplete, ImageOf, Shown

\* A host with a job becomes that job's restore point.
LEMMA BecomingIs ==
    ASSUME OneRestorePerHost, NEW h, NEW j \in PendingPointRestore(h)
    PROVE  Becoming(h) = jobs[j].point
<1>1. \A i \in PendingPointRestore(h) : i = j
    BY DEF OneRestorePerHost, PendingPointRestore
<1>2. (CHOOSE i \in PendingPointRestore(h) : TRUE) = j
    BY <1>1
<1>3. QED
    BY <1>2 DEF Becoming

\* The same of the next state.
LEMMA BecomingWillBe ==
    ASSUME OneRestorePerHost', NEW h, NEW j \in PendingPointRestore(h)'
    PROVE  Becoming(h)' = jobs'[j].point
<1>1. \A i \in PendingPointRestore(h)' : i = j
    BY DEF OneRestorePerHost, PendingPointRestore
<1>2. (CHOOSE i \in PendingPointRestore(h)' : TRUE) = j
    BY <1>1
<1>3. QED
    BY <1>2 DEF Becoming

\* The tables of an empty store hold no image.
LEMMA PromiseInit == Init => Promise!ImageInit
<1> SUFFICES ASSUME Init PROVE Promise!ImageInit
    OBVIOUS
<1>1. DOMAIN points = {} /\ DOMAIN jobs = {}
    BY DEF Init
<1>2. \A p : ImageOf(p) = NoImage
    BY <1>1 DEF ImageOf
<1>3. \A h : Becoming(h) = Idle
    BY <1>1 DEF Becoming, PendingPointRestore, ActiveJobs
<1>4. QED
    BY <1>2, <1>3 DEF Promise!ImageInit

\* Restore points are numbered from one, and no more than MaxPoints of them.
LEMMA BoundedStep == TypeOK /\ PointsBounded /\ [Next]_vars => PointsBounded'
<1> SUFFICES ASSUME TypeOK, PointsBounded, [Next]_vars PROVE PointsBounded'
    OBVIOUS
<1>1. ASSUME NEW h \in Host, OpenRestorePoint(h) PROVE PointsBounded'
    <2> DEFINE row == [host |-> h, state |-> "open", files |-> NoFiles]
    <2>1. row \in Point
        BY DEF Point, NoFiles, Files
    <2>2. DOMAIN points' = DOMAIN points \cup {Len(points) + 1} /\ Len(points) \in Nat
        BY <1>1, <2>1, InsertRow DEF OpenRestorePoint, TypeOK
    <2>3. Len(points) + 1 \in 1 .. MaxPoints
        BY <1>1, <2>2, StoreAssumption DEF OpenRestorePoint
    <2>4. QED
        BY <2>2, <2>3 DEF PointsBounded, PointId
<1>2. ASSUME DOMAIN points' = DOMAIN points PROVE PointsBounded'
    BY <1>2 DEF PointsBounded
<1>3. ASSUME NEW p \in DOMAIN points, NEW chunk \in Chunk,
             AddRestorePointEntries(p, chunk)
      PROVE  PointsBounded'
    BY <1>2, <1>3 DEF AddRestorePointEntries
<1>4. ASSUME NEW p \in DOMAIN points, SealRestorePoint(p) PROVE PointsBounded'
    BY <1>2, <1>4 DEF SealRestorePoint
<1>5. ASSUME NEW p \in DOMAIN points, DeleteRestorePoint(p) PROVE PointsBounded'
    BY <1>2, <1>5 DEF DeleteRestorePoint
<1>6. ASSUME UNCHANGED points PROVE PointsBounded'
    BY <1>2, <1>6
<1>7. QED
    BY <1>1, <1>3, <1>4, <1>5, <1>6
    DEF Next, vars, IngestSnapshot, QueueRestore, AckRestore, PutBlob,
        QueuePointRestore, StartPointRestore, FinishPointRestore

-----------------------------------------------------------------------------
(* Steps.                                                                   *)

\* A step whose tables show the same images and restores is no step of the
\* promise.
LEMMA Unseen ==
    ASSUME SealedComplete, SealedComplete',
           \A p \in PointId : Shown(points', p) = Shown(points, p),
           \A h \in Host : Becoming(h)' = Becoming(h)
    PROVE  UNCHANGED Promise!imageVars
<1>1. \A p \in PointId : ImageOf(p)' = ImageOf(p)
    BY ImageIs, ImageWillBe
<1>2. PointId' = PointId
    BY DEF PointId
<1>3. QED
    BY <1>1, <1>2 DEF Promise!imageVars

\* Untouched jobs leave every host becoming what it was.
LEMMA SameRestores ==
    ASSUME jobs' = jobs
    PROVE  \A h : Becoming(h)' = Becoming(h)
BY DEF Becoming, PendingPointRestore, ActiveJobs

\* A host becomes idle exactly when no job of it is active.
LEMMA BecomingOf ==
    ASSUME TypeOK, JobInv, NEW h
    PROVE  /\ PendingPointRestore(h) = {} => Becoming(h) = Idle
           /\ \A j \in PendingPointRestore(h) :
                  Becoming(h) = jobs[j].point /\ Becoming(h) # Idle
<1>1. PendingPointRestore(h) = {} => Becoming(h) = Idle
    BY DEF Becoming
<1>2. ASSUME NEW j \in PendingPointRestore(h)
      PROVE  Becoming(h) = jobs[j].point /\ Becoming(h) # Idle
    <2>1. j \in DOMAIN jobs
        BY <1>2 DEF PendingPointRestore, ActiveJobs
    <2>2. jobs[j] \in Job
        BY <2>1, RowOf DEF TypeOK
    <2>3. jobs[j].point \in Nat
        BY <2>2 DEF Job
    <2>4. QED
        BY <1>2, <2>3, BecomingIs, ImageAssumption DEF JobInv
<1>3. QED
    BY <1>1, <1>2

\* A host whose active jobs are the same becomes what it was.
LEMMA SameFor ==
    ASSUME NEW h, PendingPointRestore(h)' = PendingPointRestore(h),
           \A j \in PendingPointRestore(h) : jobs'[j].point = jobs[j].point
    PROVE  Becoming(h)' = Becoming(h)
BY DEF Becoming

\* A step that changes one restore point changes one image.
LEMMA ImagesBecome ==
    ASSUME SealedComplete, SealedComplete', NEW p \in PointId, NEW v,
           \A q \in PointId : Shown(points', q) = IF q = p THEN v ELSE Shown(points, q)
    PROVE  [q \in PointId |-> ImageOf(q)]'
             = [[q \in PointId |-> ImageOf(q)] EXCEPT ![p] = v]
<1>1. \A q \in PointId : ImageOf(q)' = IF q = p THEN v ELSE ImageOf(q)
    BY ImageIs, ImageWillBe
<1>2. PointId' = PointId
    BY DEF PointId
<1>3. QED
    BY <1>1, <1>2

\* Sealing an open capture makes it an image; sealing it again does nothing.
LEMMA SealPromised ==
    ASSUME PromiseInv, PromiseInv', NEW p \in DOMAIN points, SealRestorePoint(p)
    PROVE  [Promise!ImageNext]_Promise!imageVars
<1> DEFINE row == [points[p] EXCEPT !.state = "sealed"]
           im  == [host |-> points[p].host, files |-> points[p].files]
<1> USE DEF PromiseInv, ContentInv
<1>1. points[p] \in Point /\ points[p].state # "deleted" /\ p \in PointId
    BY RowOf DEF TypeOK, SealRestorePoint, Row, PointsBounded
<1>2. /\ row \in Point /\ row.state = "sealed"
      /\ row.host = points[p].host /\ row.files = points[p].files
    BY <1>1 DEF Point
<1>3. points' = [points EXCEPT ![p] = row] /\ jobs' = jobs
    BY DEF SealRestorePoint
<1>4. /\ DOMAIN points' = DOMAIN points
      /\ \A q \in DOMAIN points : points'[q] = IF q = p THEN row ELSE points[q]
    BY <1>2, <1>3, UpdateRow DEF TypeOK
<1>5. \A q \in PointId : Shown(points', q) = IF q = p THEN im ELSE Shown(points, q)
    BY <1>2, <1>4 DEF Shown
<1>6. \A h \in Host : Becoming(h)' = Becoming(h)
    BY <1>3, SameRestores
<1>7. CASE points[p].state = "sealed"
    <2>1. Shown(points, p) = im
        BY <1>7 DEF Shown
    <2>2. \A q \in PointId : Shown(points', q) = Shown(points, q)
        BY <1>5, <2>1
    <2>3. QED
        BY <1>6, <2>2, Unseen
<1>8. CASE points[p].state = "open"
    <2>1. ImageOf(p) = NoImage
        BY <1>8, ImageIs DEF Shown
    <2>2. im \in Promise!Image
        BY <1>1 DEF Promise!Image, Point
    <2>3. [q \in PointId |-> ImageOf(q)]' = [[q \in PointId |-> ImageOf(q)] EXCEPT ![p] = im]
        BY ONLY <1>1, <1>5, PromiseInv, PromiseInv', ImagesBecome
    <2>4. Promise!Complete(p)
        BY <1>1, <1>6, <2>1, <2>2, <2>3 DEF Promise!Complete
    <2>5. QED
        BY <1>1, <2>4 DEF Promise!ImageNext
<1>9. QED
    BY <1>1, <1>7, <1>8 DEF Point

\* A deletion forgets the image; the refusal under a restore is what lets it.
LEMMA DeletePromised ==
    ASSUME PromiseInv, PromiseInv', NEW p \in DOMAIN points, DeleteRestorePoint(p)
    PROVE  [Promise!ImageNext]_Promise!imageVars
<1> DEFINE row == [points[p] EXCEPT !.state = "deleted", !.files = NoFiles]
<1> USE DEF PromiseInv, ContentInv
<1>1. points[p] \in Point /\ points[p].state # "deleted" /\ p \in PointId
    BY RowOf DEF TypeOK, DeleteRestorePoint, Row, PointsBounded
<1>2. row \in Point /\ row.state = "deleted"
    BY <1>1 DEF Point, Files, NoFiles
<1>3. points' = [points EXCEPT ![p] = row] /\ jobs' = jobs
    BY DEF DeleteRestorePoint
<1>4. /\ DOMAIN points' = DOMAIN points
      /\ \A q \in DOMAIN points : points'[q] = IF q = p THEN row ELSE points[q]
    BY <1>2, <1>3, UpdateRow DEF TypeOK
<1>5. \A q \in PointId : Shown(points', q) = IF q = p THEN Gone ELSE Shown(points, q)
    BY <1>2, <1>4 DEF Shown
<1>6. \A h \in Host : Becoming(h)' = Becoming(h)
    BY <1>3, SameRestores
<1>7. ImageOf(p) # Gone
    <2>1. [host |-> points[p].host, files |-> points[p].files]
            \in [host : Host, files : Files]
        BY <1>1 DEF Point
    <2>2. QED
        BY <1>1, <2>1, ImageIs, ImageAssumption DEF Shown
<1>8. ASSUME NEW h \in Host PROVE Becoming(h) # p
    <2>1. CASE PendingPointRestore(h) = {}
        BY <1>1, <2>1, BecomingOf, StoreAssumption, ImageAssumption DEF PointId
    <2>2. CASE \E j \in PendingPointRestore(h) : TRUE
        BY <2>2, BecomingOf DEF DeleteRestorePoint, Busy, PendingPointRestore
    <2>3. QED
        BY <2>1, <2>2
<1>9. [q \in PointId |-> ImageOf(q)]' = [[q \in PointId |-> ImageOf(q)] EXCEPT ![p] = Gone]
    BY ONLY <1>1, <1>5, PromiseInv, PromiseInv', ImagesBecome
<1>10. Promise!Forget(p)
    BY <1>1, <1>6, <1>7, <1>8, <1>9 DEF Promise!Forget
<1>11. QED
    BY <1>1, <1>10 DEF Promise!ImageNext

\* An accepted restore makes its host become one of the host's own images.
LEMMA QueuePromised ==
    ASSUME PromiseInv, PromiseInv', NEW h \in Host, NEW p \in DOMAIN points,
           QueuePointRestore(h, p)
    PROVE  [Promise!ImageNext]_Promise!imageVars
<1> DEFINE row == [host |-> h, point |-> p, status |-> "pending"]
<1> USE DEF PromiseInv, ContentInv
<1>1. /\ p \in PointId /\ points[p].host = h /\ points[p].state = "sealed"
      /\ points[p] \in Point /\ PendingPointRestore(h) = {} /\ points' = points
    BY RowOf DEF TypeOK, QueuePointRestore, OwnSealedPoint, PointsBounded
<1>2. row \in Job /\ row.status \in Active /\ row.host = h /\ row.point = p
    BY <1>1, StoreAssumption DEF Job, PointId, Active
<1>3. PICK new : /\ DOMAIN jobs' = DOMAIN jobs \cup {new}
                 /\ new \notin DOMAIN jobs
                 /\ jobs'[new] = row
                 /\ \A j \in DOMAIN jobs : jobs'[j] = jobs[j]
    BY <1>2, InsertRow, SMTT(30) DEF QueuePointRestore, TypeOK
<1>4. PendingPointRestore(h)' = {new}
    BY <1>1, <1>2, <1>3 DEF PendingPointRestore, ActiveJobs
<1>5. Becoming(h)' = p
    BY <1>2, <1>3, <1>4, BecomingWillBe DEF JobInv
<1>6. ASSUME NEW g \in Host, g # h PROVE Becoming(g)' = Becoming(g)
    <2>1. PendingPointRestore(g)' = PendingPointRestore(g)
        BY <1>2, <1>3, <1>6 DEF PendingPointRestore, ActiveJobs
    <2>2. \A j \in PendingPointRestore(g) : jobs'[j].point = jobs[j].point
        BY <1>3 DEF PendingPointRestore, ActiveJobs
    <2>3. QED
        BY <2>1, <2>2, SameFor
<1>7. [g \in Host |-> Becoming(g)]' = [[g \in Host |-> Becoming(g)] EXCEPT ![h] = p]
    BY <1>5, <1>6
<1>8. \A q \in PointId : ImageOf(q)' = ImageOf(q)
    BY <1>1, ImageIs, ImageWillBe
<1>9. Becoming(h) = Idle
    BY <1>1, BecomingOf
<1>10. ImageOf(p) = [host |-> h, files |-> points[p].files]
    BY <1>1, ImageIs DEF Shown
<1>11. ImageOf(p) \in Promise!Image /\ ImageOf(p).host = h
    BY <1>1, <1>10 DEF Promise!Image, Point
<1>12. Promise!Begin(h, p)
    BY <1>1, <1>7, <1>8, <1>9, <1>11 DEF Promise!Begin, PointId
<1>13. QED
    BY <1>1, <1>12 DEF Promise!ImageNext

\* Starting a restore changes no promise: the host was becoming its image
\* since the restore was accepted.
LEMMA StartPromised ==
    ASSUME PromiseInv, PromiseInv', NEW j \in DOMAIN jobs, StartPointRestore(j)
    PROVE  UNCHANGED Promise!imageVars
<1> DEFINE row == [jobs[j] EXCEPT !.status = "running"]
<1> USE DEF PromiseInv, ContentInv
<1>1. jobs[j] \in Job /\ jobs[j].status = "pending"
    BY RowOf DEF TypeOK, StartPointRestore
<1>2. /\ row \in Job /\ row.host = jobs[j].host /\ row.point = jobs[j].point
      /\ row.status = "running"
    BY <1>1 DEF Job
<1>3. jobs' = [jobs EXCEPT ![j] = row] /\ points' = points
    BY DEF StartPointRestore
<1>4. /\ DOMAIN jobs' = DOMAIN jobs
      /\ \A i \in DOMAIN jobs : jobs'[i] = IF i = j THEN row ELSE jobs[i]
    BY <1>2, <1>3, UpdateRow DEF TypeOK
<1>5. ASSUME NEW h \in Host PROVE Becoming(h)' = Becoming(h)
    <2>1. PendingPointRestore(h)' = PendingPointRestore(h)
        BY <1>1, <1>2, <1>4 DEF PendingPointRestore, ActiveJobs, Active
    <2>2. \A i \in PendingPointRestore(h) : jobs'[i].point = jobs[i].point
        BY <1>2, <1>4 DEF PendingPointRestore, ActiveJobs
    <2>3. QED
        BY <2>1, <2>2, SameFor
<1>6. QED
    BY <1>3, <1>5, Unseen

\* The outcome of a restore, good or bad, ends its host's becoming an image:
\* there is no other restore of that host to go on with.
LEMMA FinishPromised ==
    ASSUME PromiseInv, PromiseInv', NEW j \in DOMAIN jobs, NEW ok \in BOOLEAN,
           FinishPointRestore(j, ok)
    PROVE  [Promise!ImageNext]_Promise!imageVars
<1> DEFINE row == [jobs[j] EXCEPT !.status = IF ok THEN "done" ELSE "failed"]
<1> USE DEF PromiseInv, ContentInv
<1>1. jobs[j] \in Job /\ j \in ActiveJobs
    BY RowOf DEF TypeOK, FinishPointRestore
<1>0. PICK h \in Host : h = jobs[j].host
    BY <1>1 DEF Job
<1>2. /\ row \in Job /\ row.host = h /\ row.point = jobs[j].point
      /\ row.status \notin Active
    BY <1>1, <1>0 DEF Job, Active
<1>3. jobs' = [jobs EXCEPT ![j] = row] /\ points' = points
    BY DEF FinishPointRestore
<1>4. /\ DOMAIN jobs' = DOMAIN jobs
      /\ \A i \in DOMAIN jobs : jobs'[i] = IF i = j THEN row ELSE jobs[i]
    BY <1>2, <1>3, UpdateRow DEF TypeOK
<1>5. h \in Host /\ j \in PendingPointRestore(h)
    BY <1>1, <1>0 DEF PendingPointRestore
<1>6. PendingPointRestore(h)' = {}
    <2>1. \A i \in ActiveJobs : jobs[i].host = h => i = j
        BY <1>1, <1>0 DEF JobInv, OneRestorePerHost
    <2>2. QED
        BY <1>2, <1>4, <2>1, <1>0 DEF PendingPointRestore, ActiveJobs
<1>7. Becoming(h)' = Idle
    BY <1>6 DEF Becoming
<1>8. ASSUME NEW g \in Host, g # h PROVE Becoming(g)' = Becoming(g)
    <2>1. PendingPointRestore(g)' = PendingPointRestore(g)
        BY <1>0, <1>2, <1>4, <1>8 DEF PendingPointRestore, ActiveJobs
    <2>2. \A i \in PendingPointRestore(g) : jobs'[i].point = jobs[i].point
        BY <1>2, <1>4 DEF PendingPointRestore, ActiveJobs
    <2>3. QED
        BY <2>1, <2>2, SameFor
<1>9. [g \in Host |-> Becoming(g)]' = [[g \in Host |-> Becoming(g)] EXCEPT ![h] = Idle]
    BY <1>7, <1>8
<1>10. \A q \in PointId : ImageOf(q)' = ImageOf(q)
    BY <1>3, ImageIs, ImageWillBe
<1>11. Becoming(h) # Idle
    BY <1>5, BecomingOf
<1>12. Promise!End(h)
    BY <1>5, <1>9, <1>10, <1>11 DEF Promise!End, PointId
<1>13. QED
    BY <1>5, <1>12 DEF Promise!ImageNext

-----------------------------------------------------------------------------
(* The refinement.                                                          *)

\* Every step of the store is a step of the promise or no step of it.  What
\* collects content (a snapshot's prune, a deletion) shows nothing of it.
LEMMA PromiseStep ==
    PromiseInv /\ PromiseInv' /\ [Next]_vars => [Promise!ImageNext]_Promise!imageVars
<1> SUFFICES ASSUME PromiseInv, PromiseInv', [Next]_vars
             PROVE  [Promise!ImageNext]_Promise!imageVars
    OBVIOUS
<1> USE DEF PromiseInv, ContentInv
<1>1. ASSUME UNCHANGED <<points, jobs>> PROVE UNCHANGED Promise!imageVars
    BY <1>1, SameRestores, Unseen
<1>2. ASSUME NEW h \in Host, OpenRestorePoint(h) PROVE UNCHANGED Promise!imageVars
    <2> DEFINE row == [host |-> h, state |-> "open", files |-> NoFiles]
    <2>1. row \in Point
        BY DEF Point, NoFiles, Files
    <2>2. PICK new : /\ DOMAIN points' = DOMAIN points \cup {new}
                     /\ new \notin DOMAIN points
                     /\ points'[new] = row
                     /\ \A p \in DOMAIN points : points'[p] = points[p]
        BY <1>2, <2>1, InsertRow DEF OpenRestorePoint, TypeOK
    <2>3. \A p \in PointId : Shown(points', p) = Shown(points, p)
        BY <2>2 DEF Shown
    <2>4. jobs' = jobs
        BY <1>2 DEF OpenRestorePoint
    <2>5. QED
        BY <2>3, <2>4, SameRestores, Unseen
<1>3. ASSUME NEW p \in DOMAIN points, NEW chunk \in Chunk,
             AddRestorePointEntries(p, chunk)
      PROVE  UNCHANGED Promise!imageVars
    <2> DEFINE row == [points[p] EXCEPT !.files =
                         [f \in Path |-> IF f \in DOMAIN chunk THEN chunk[f] ELSE @[f]]]
    <2>1. points[p] \in Point /\ points[p].state = "open"
        BY <1>3, RowOf DEF TypeOK, AddRestorePointEntries, OpenForWriting
    <2>2. row \in Point /\ row.state = "open"
        BY <2>1 DEF Point, Files, Chunk
    <2>3. points' = [points EXCEPT ![p] = row] /\ jobs' = jobs
        BY <1>3 DEF AddRestorePointEntries
    <2>4. /\ DOMAIN points' = DOMAIN points
          /\ \A q \in DOMAIN points : points'[q] = IF q = p THEN row ELSE points[q]
        BY <2>2, <2>3, UpdateRow DEF TypeOK
    <2>5. \A q \in PointId : Shown(points', q) = Shown(points, q)
        BY <2>1, <2>2, <2>4 DEF Shown
    <2>6. QED
        BY <2>3, <2>5, SameRestores, Unseen
<1>4. CASE \E p \in DOMAIN points : SealRestorePoint(p)
    BY <1>4, SealPromised
<1>5. CASE \E p \in DOMAIN points : DeleteRestorePoint(p)
    BY <1>5, DeletePromised
<1>6. CASE \E h \in Host, p \in DOMAIN points : QueuePointRestore(h, p)
    BY <1>6, QueuePromised
<1>7. CASE \E j \in DOMAIN jobs : StartPointRestore(j)
    BY <1>7, StartPromised
<1>8. CASE \E j \in DOMAIN jobs, ok \in BOOLEAN : FinishPointRestore(j, ok)
    BY <1>8, FinishPromised
<1>9. CASE UNCHANGED <<points, jobs>>
    BY <1>1, <1>9
<1>10. QED
    BY <1>2, <1>3, <1>4, <1>5, <1>6, <1>7, <1>8, <1>9
    DEF Next, vars, IngestSnapshot, QueueRestore, AckRestore, PutBlob

\* The store implements RestorePoints: a restore point becomes a whole image at
\* its seal, stays that image until it is deleted, and hosts become their own
\* images one at a time, whatever is captured, pruned and collected meanwhile.
THEOREM KeepsThePromise == Spec => KeepsPromise
<1>1. Init => PromiseInv
    BY TypeInit, ContentInit, JobInit DEF PromiseInv, PointsBounded, Init
<1>2. PromiseInv /\ [Next]_vars => PromiseInv'
    BY TypeStep, ContentStep, JobStep, BoundedStep DEF PromiseInv
<1>3. QED
    BY <1>1, <1>2, PromiseInit, PromiseStep, PTL DEF Spec, KeepsPromise, Promise!ImageSpec

-----------------------------------------------------------------------------
(* The audit trail.                                                         *)

Records == [action : Actions, id : Nat]

Told == Range(audit) \cup writers \cup cut

\* The trail and what is still to be written of it tell what happened, each once.
AuditInv ==
    /\ audit \in Seq(Records) /\ writers \subseteq Records /\ cut \subseteq Records
    /\ \A record \in Records : Happened(record) <=> record \in Told
    /\ IsInjective(audit)
    /\ writers \cap Range(audit) = {}

\* What a record of each kind says.
LEMMA RecordSays ==
    ASSUME NEW id
    PROVE  /\ Happened(Record("restore_queued", id)) <=> id \in DOMAIN restores
           /\ Happened(Record("restore_applied", id)) <=>
                id \in DOMAIN restores /\ restores[id].status = "applied"
           /\ Happened(Record("restore_failed", id)) <=>
                id \in DOMAIN restores /\ restores[id].status = "failed"
           /\ Happened(Record("restore_point_queued", id)) <=> id \in DOMAIN jobs
           /\ Happened(Record("restore_point_done", id)) <=>
                id \in DOMAIN jobs /\ jobs[id].status = "done"
           /\ Happened(Record("restore_point_failed", id)) <=>
                id \in DOMAIN jobs /\ jobs[id].status = "failed"
BY DEF Happened, Record

\* And what it will say after a step.
LEMMA RecordWillSay ==
    ASSUME NEW id
    PROVE  /\ Happened(Record("restore_queued", id))' <=> id \in DOMAIN restores'
           /\ Happened(Record("restore_applied", id))' <=>
                id \in DOMAIN restores' /\ restores'[id].status = "applied"
           /\ Happened(Record("restore_failed", id))' <=>
                id \in DOMAIN restores' /\ restores'[id].status = "failed"
           /\ Happened(Record("restore_point_queued", id))' <=> id \in DOMAIN jobs'
           /\ Happened(Record("restore_point_done", id))' <=>
                id \in DOMAIN jobs' /\ jobs'[id].status = "done"
           /\ Happened(Record("restore_point_failed", id))' <=>
                id \in DOMAIN jobs' /\ jobs'[id].status = "failed"
BY DEF Happened, Record

\* A record is of one of the six kinds.
IsKind(record, id) ==
    \/ record = Record("restore_queued", id)
    \/ record = Record("restore_applied", id)
    \/ record = Record("restore_failed", id)
    \/ record = Record("restore_point_queued", id)
    \/ record = Record("restore_point_done", id)
    \/ record = Record("restore_point_failed", id)

LEMMA SixKinds == \A record \in Records : \E id \in Nat : IsKind(record, id)
BY DEF Records, Actions, Record, IsKind

LEMMA RecordsDiffer ==
    \A a, b, i, j : Record(a, i) = Record(b, j) <=> a = b /\ i = j
BY DEF Record

\* A row whose status moves, and the others.
LEMMA StatusMoves ==
    ASSUME NEW S, NEW s \in Seq(S), NEW i \in DOMAIN s, "status" \in DOMAIN s[i], NEW status
    PROVE  LET t == [s EXCEPT ![i].status = status]
           IN  /\ DOMAIN t = DOMAIN s /\ t[i].status = status /\ i \in Nat
               /\ \A j \in DOMAIN s \ {i} : t[j] = s[j]
<1> DEFINE row == [s[i] EXCEPT !.status = status]
           t == [s EXCEPT ![i] = row]
<1>1. row.status = status
    OBVIOUS
<1> HIDE DEF row
<1>2. /\ DOMAIN t = DOMAIN s /\ t[i] = row
      /\ \A j \in DOMAIN s \ {i} : t[j] = s[j]
    OBVIOUS
<1>3. DOMAIN s = 1..Len(s)
    BY LenProperties
<1>4. [s EXCEPT ![i].status = status] = t
    BY DEF row
<1>5. QED
    BY <1>1, <1>2, <1>3, <1>4

LEMMA AuditBegins == AuditInit => AuditInv
<1> SUFFICES ASSUME AuditInit PROVE AuditInv
    OBVIOUS
<1>1. restores = <<>> /\ jobs = <<>> /\ audit = <<>> /\ writers = {} /\ cut = {}
    BY DEF AuditInit, Init
<1>2. Range(audit) = {}
    BY <1>1 DEF Range
<1>3. ASSUME NEW record \in Records PROVE ~Happened(record)
    <2>1. DOMAIN restores = {} /\ DOMAIN jobs = {}
        BY <1>1
    <2>2. QED
        BY <2>1, SixKinds, RecordSays DEF IsKind
<1>4. QED
    BY <1>1, <1>2, <1>3 DEF AuditInv, Told, IsInjective

\* Something has happened that a handler is about to write.
LEMMA OneMoreToTell ==
    ASSUME AuditInv, NEW new \in Records, ~Happened(new), WillLog(new),
           \A record \in Records : Happened(record)' <=> Happened(record) \/ record = new
    PROVE  AuditInv'
<1>1. audit' = audit /\ cut' = cut /\ writers' = writers \cup {new}
    BY DEF WillLog
<1>2. Range(audit)' = Range(audit) /\ IsInjective(audit)'
    BY <1>1 DEF Range, IsInjective, AuditInv
<1>3. new \notin Told
    BY DEF AuditInv
<1>4. Told' = Told \cup {new}
    BY <1>1, <1>2 DEF Told
<1>5. (\A record \in Records : Happened(record) <=> record \in Told)'
    BY <1>4 DEF AuditInv
<1>6. (writers \cap Range(audit) = {})'
    BY <1>1, <1>2, <1>3 DEF AuditInv, Told
<1>7. QED
    BY <1>1, <1>2, <1>5, <1>6 DEF AuditInv

\* Nothing has happened that is told.
LEMMA NothingToTell ==
    ASSUME AuditInv, UNCHANGED trail,
           \A record \in Records : Happened(record)' <=> Happened(record)
    PROVE  AuditInv'
<1>1. audit' = audit /\ cut' = cut /\ writers' = writers
    BY DEF trail
<1>2. Range(audit)' = Range(audit) /\ IsInjective(audit)'
    BY <1>1 DEF Range, IsInjective, AuditInv
<1>3. Told' = Told
    BY <1>1, <1>2 DEF Told
<1>4. (\A record \in Records : Happened(record) <=> record \in Told)'
    BY <1>3 DEF AuditInv
<1>5. QED
    BY <1>1, <1>2, <1>4 DEF AuditInv

\* Rows whose outcome stays as it is say what they said.
LEMMA SameOutcomes ==
    ASSUME DOMAIN restores' = DOMAIN restores, DOMAIN jobs' = DOMAIN jobs,
           \A r \in DOMAIN restores : restores'[r].status = restores[r].status,
           \A j \in DOMAIN jobs : \A status \in {"done", "failed"} :
              jobs'[j].status = status <=> jobs[j].status = status
    PROVE  \A record \in Records : Happened(record)' <=> Happened(record)
<1> TAKE record \in Records
<1>1. PICK id \in Nat : IsKind(record, id)
    BY SixKinds
<1>2. QED
    BY <1>1, RecordSays, RecordWillSay DEF IsKind

LEMMA AuditStep == TypeOK /\ AuditInv /\ [AuditNext]_auditVars => AuditInv'
<1> SUFFICES ASSUME TypeOK, AuditInv, [AuditNext]_auditVars PROVE AuditInv'
    OBVIOUS
<1>0. restores \in Seq(Restore) /\ jobs \in Seq(Job)
    BY DEF TypeOK
<1>1. ASSUME NEW h \in Host, NEW f \in Path, NEW s \in Sha, QueueRestoreLogs(h, f, s)
      PROVE  AuditInv'
    <2> DEFINE row == [host |-> h, path |-> f, sha |-> s, status |-> "pending"]
               id == Len(restores) + 1
               new == Record("restore_queued", id)
    <2>1. restores' = Append(restores, row) /\ jobs' = jobs
        BY <1>1 DEF QueueRestoreLogs, QueueRestore
    <2>2. /\ Len(restores') = id /\ id \in Nat /\ id \notin DOMAIN restores
          /\ DOMAIN restores' = DOMAIN restores \cup {id}
          /\ \A r \in DOMAIN restores : restores'[r] = restores[r]
          /\ restores'[id] = row
        BY <1>0, <2>1
    <2> HIDE DEF id
    <2>3. WillLog(new) /\ new \in Records
        BY <1>1, <2>2 DEF QueueRestoreLogs, Records, Record, Actions
    <2>4. ASSUME NEW record \in Records
          PROVE  Happened(record)' <=> Happened(record) \/ record = new
        <3>1. PICK i \in Nat : IsKind(record, i)
            BY SixKinds
        <3>2. row.status = "pending"
            OBVIOUS
        <3> HIDE DEF row
        <3>3. QED
            BY <2>1, <2>2, <3>1, <3>2, RecordSays, RecordWillSay, RecordsDiffer DEF IsKind
    <2>5. ~Happened(new)
        BY <2>2, RecordSays
    <2>6. QED
        BY <2>3, <2>4, <2>5, OneMoreToTell
<1>2. ASSUME NEW r \in DOMAIN restores, NEW ok \in BOOLEAN, AckRestoreLogs(r, ok)
      PROVE  AuditInv'
    <2> DEFINE new == AckRecord(r, ok)
               status == IF ok THEN "applied" ELSE "failed"
    <2>1. /\ restores[r].status = "pending" /\ jobs' = jobs
          /\ restores' = [restores EXCEPT ![r].status = status]
        BY <1>2 DEF AckRestoreLogs, AckRestore
    <2>0. "status" \in DOMAIN restores[r]
        <3>1. restores[r] \in Restore
            BY <1>0, RowOf
        <3>2. QED
            BY <3>1 DEF Restore
    <2>2. /\ DOMAIN restores' = DOMAIN restores /\ restores'[r].status = status
          /\ \A q \in DOMAIN restores \ {r} : restores'[q] = restores[q]
          /\ r \in Nat
        BY <1>0, <2>0, <2>1, StatusMoves
    <2>3. WillLog(new) /\ new \in Records
        BY <1>2, <2>2 DEF AckRestoreLogs, AckRecord, Records, Record, Actions
    <2>4. ASSUME NEW record \in Records
          PROVE  Happened(record)' <=> Happened(record) \/ record = new
        <3>1. PICK i \in Nat : IsKind(record, i)
            BY SixKinds
        <3>2. new = Record(IF ok THEN "restore_applied" ELSE "restore_failed", r)
            BY DEF AckRecord
        <3>3. QED
            BY <2>1, <2>2, <3>1, <3>2, RecordSays, RecordWillSay, RecordsDiffer DEF IsKind
    <2>5. ~Happened(new)
        BY <2>1, RecordSays DEF AckRecord
    <2>6. QED
        BY <2>3, <2>4, <2>5, OneMoreToTell
<1>3. ASSUME NEW h \in Host, NEW p \in DOMAIN points, QueuePointRestoreLogs(h, p)
      PROVE  AuditInv'
    <2> DEFINE row == [host |-> h, point |-> p, status |-> "pending"]
               id == Len(jobs) + 1
               new == Record("restore_point_queued", id)
    <2>1. jobs' = Append(jobs, row) /\ restores' = restores
        BY <1>3 DEF QueuePointRestoreLogs, QueuePointRestore
    <2>2. /\ Len(jobs') = id /\ id \in Nat /\ id \notin DOMAIN jobs
          /\ DOMAIN jobs' = DOMAIN jobs \cup {id}
          /\ \A j \in DOMAIN jobs : jobs'[j] = jobs[j]
          /\ jobs'[id] = row
        BY <1>0, <2>1
    <2> HIDE DEF id
    <2>3. WillLog(new) /\ new \in Records
        BY <1>3, <2>2 DEF QueuePointRestoreLogs, Records, Record, Actions
    <2>4. ASSUME NEW record \in Records
          PROVE  Happened(record)' <=> Happened(record) \/ record = new
        <3>1. PICK i \in Nat : IsKind(record, i)
            BY SixKinds
        <3>2. row.status = "pending"
            OBVIOUS
        <3> HIDE DEF row
        <3>3. QED
            BY <2>1, <2>2, <3>1, <3>2, RecordSays, RecordWillSay, RecordsDiffer DEF IsKind
    <2>5. ~Happened(new)
        BY <2>2, RecordSays
    <2>6. QED
        BY <2>3, <2>4, <2>5, OneMoreToTell
<1>4. ASSUME NEW j \in DOMAIN jobs, NEW ok \in BOOLEAN, FinishPointRestoreLogs(j, ok)
      PROVE  AuditInv'
    <2> DEFINE new == FinishRecord(j, ok)
               status == IF ok THEN "done" ELSE "failed"
    <2>1. /\ jobs[j].status \in {"pending", "running"} /\ restores' = restores
          /\ jobs' = [jobs EXCEPT ![j].status = status]
        BY <1>4 DEF FinishPointRestoreLogs, FinishPointRestore, ActiveJobs, Active
    <2>0. "status" \in DOMAIN jobs[j]
        <3>1. jobs[j] \in Job
            BY <1>0, RowOf
        <3>2. QED
            BY <3>1 DEF Job
    <2>2. /\ DOMAIN jobs' = DOMAIN jobs /\ jobs'[j].status = status
          /\ \A i \in DOMAIN jobs \ {j} : jobs'[i] = jobs[i]
          /\ j \in Nat
        BY <1>0, <2>0, <2>1, StatusMoves
    <2>3. WillLog(new) /\ new \in Records
        BY <1>4, <2>2 DEF FinishPointRestoreLogs, FinishRecord, Records, Record, Actions
    <2>4. ASSUME NEW record \in Records
          PROVE  Happened(record)' <=> Happened(record) \/ record = new
        <3>1. PICK i \in Nat : IsKind(record, i)
            BY SixKinds
        <3>2. new = Record(IF ok THEN "restore_point_done" ELSE "restore_point_failed", j)
            BY DEF FinishRecord
        <3>3. QED
            BY <2>1, <2>2, <3>1, <3>2, RecordSays, RecordWillSay, RecordsDiffer DEF IsKind
    <2>5. ~Happened(new)
        BY <2>1, RecordSays DEF FinishRecord
    <2>6. QED
        BY <2>3, <2>4, <2>5, OneMoreToTell
<1>5. ASSUME UNCHANGED <<restores, jobs>>, UNCHANGED trail
      PROVE  AuditInv'
    BY <1>5, SameOutcomes, NothingToTell
<1>6. ASSUME NEW p \in DOMAIN points, DeleteRestorePointFails(p)
      PROVE  AuditInv'
    BY <1>5, <1>6 DEF DeleteRestorePointFails, DeleteRestorePoint
<1>7. ASSUME NEW record \in writers, LogAudit(record)
      PROVE  AuditInv'
    <2>1. /\ audit' = Append(audit, record) /\ writers' = writers \ {record} /\ cut' = cut
          /\ restores' = restores /\ jobs' = jobs
        BY <1>7 DEF LogAudit, vars
    <2>2. audit \in Seq(Records) /\ record \in Records /\ record \notin Range(audit)
        BY DEF AuditInv
    <2> DEFINE n == Len(audit)
    <2>3. /\ n \in Nat /\ DOMAIN audit = 1..n /\ DOMAIN audit' = 1..(n + 1)
          /\ audit' \in Seq(Records) /\ audit'[n + 1] = record
          /\ \A m \in 1..n : audit'[m] = audit[m]
        BY <2>1, <2>2
    <2> HIDE DEF n
    <2>4. \A m \in 1..(n + 1) : m = n + 1 \/ m \in 1..n
        BY <2>3
    <2>5. Range(audit)' = Range(audit) \cup {record}
        BY <2>3, <2>4 DEF Range
    <2>6. IsInjective(audit)'
        BY <2>2, <2>3, <2>4 DEF IsInjective, AuditInv, Range
    <2>7. Told' = Told
        BY <2>1, <2>5 DEF Told
    <2>8. \A told \in Records : Happened(told)' <=> Happened(told)
        BY <2>1, SameOutcomes
    <2>9. (writers \cap Range(audit) = {})'
        BY <2>1, <2>5 DEF AuditInv
    <2>10. (\A told \in Records : Happened(told) <=> told \in Told)'
        BY <2>7, <2>8 DEF AuditInv
    <2>11. QED
        BY <2>1, <2>3, <2>6, <2>9, <2>10 DEF AuditInv
<1>8. ASSUME NEW done \in SUBSET writers, writers' = writers \ done, cut' = cut \cup done,
             audit' = audit, UNCHANGED <<restores, jobs>>
      PROVE  AuditInv'
    <2>1. Range(audit)' = Range(audit) /\ IsInjective(audit)'
        BY <1>8 DEF Range, IsInjective, AuditInv
    <2>2. Told' = Told
        BY <1>8, <2>1 DEF Told
    <2>3. \A told \in Records : Happened(told)' <=> Happened(told)
        BY <1>8, SameOutcomes
    <2>4. (\A told \in Records : Happened(told) <=> told \in Told)'
        BY <2>2, <2>3 DEF AuditInv
    <2>5. QED
        BY <1>8, <2>1, <2>4 DEF AuditInv
<1>9. ASSUME NEW record \in writers, LogAuditFails(record)
      PROVE  AuditInv'
    <2>1. {record} \in SUBSET writers
        OBVIOUS
    <2>2. QED
        BY <1>8, <1>9, <2>1 DEF LogAuditFails, vars
<1>10. CASE Restart
    <2>1. writers \in SUBSET writers /\ writers \ writers = {}
        OBVIOUS
    <2>2. QED
        BY <1>8, <1>10, <2>1 DEF Restart, vars
<1>11. CASE Unaudited /\ UNCHANGED trail
    <2>1. CASE UNCHANGED <<restores, jobs>>
        BY <1>5, <1>11, <2>1
    <2>2. ASSUME NEW j \in DOMAIN jobs, StartPointRestore(j)
          PROVE  AuditInv'
        <3>1. /\ jobs[j].status = "pending" /\ restores' = restores
              /\ jobs' = [jobs EXCEPT ![j].status = "running"]
            BY <2>2 DEF StartPointRestore
        <3>2. /\ DOMAIN jobs' = DOMAIN jobs /\ jobs'[j].status = "running"
              /\ \A i \in DOMAIN jobs \ {j} : jobs'[i] = jobs[i]
            <4>1. jobs[j] \in Job
                BY <1>0, RowOf
            <4>2. "status" \in DOMAIN jobs[j]
                BY <4>1 DEF Job
            <4>3. QED
                BY <1>0, <3>1, <4>2, StatusMoves
        <3>3. \A record \in Records : Happened(record)' <=> Happened(record)
            BY <3>1, <3>2, SameOutcomes
        <3>4. QED
            BY <1>11, <3>3, NothingToTell
    <2>3. UNCHANGED <<restores, jobs>> \/ \E j \in DOMAIN jobs : StartPointRestore(j)
        <3>1. ASSUME NEW h \in Host, NEW files \in Snapshot, NEW now \in 0 .. MaxClock,
                     IngestSnapshot(h, files, now)
              PROVE  UNCHANGED <<restores, jobs>>
            BY <3>1 DEF IngestSnapshot
        <3>2. QED
            BY <1>11, <3>1 DEF Unaudited, OpenRestorePoint, AddRestorePointEntries, PutBlob,
                               SealRestorePoint
    <2>4. QED
        BY <2>1, <2>2, <2>3
<1>12. CASE UNCHANGED auditVars
    BY <1>5, <1>12 DEF auditVars, vars, trail
<1>13. QED
    BY <1>1, <1>2, <1>3, <1>4, <1>6, <1>7, <1>9, <1>10, <1>11, <1>12 DEF AuditNext

\* To the store, auditing is no change: its steps are the store's own, or none.
THEOREM AuditKeepsTheStore == AuditSpec => Spec
<1>1. AuditInit => Init
    BY DEF AuditInit
<1>2. [AuditNext]_auditVars => [Next]_vars
    BY DEF AuditNext, auditVars, QueueRestoreLogs, AckRestoreLogs, QueuePointRestoreLogs,
           FinishPointRestoreLogs, DeleteRestorePointFails, LogAudit, LogAuditFails, Restart,
           Unaudited, Next
<1>3. QED
    BY <1>1, <1>2, PTL DEF AuditSpec, Spec

LEMMA AuditHolds == AuditSpec => [](TypeOK /\ AuditInv)
<1>1. AuditSpec => []TypeOK
    BY AuditKeepsTheStore, TypeCorrect, PTL
<1>2. QED
    BY <1>1, AuditBegins, AuditStep, PTL DEF AuditSpec

\* However handlers are interrupted and whatever agents report, the trail tells of
\* changes that stand, of each once.
THEOREM TrailStaysTrue == AuditSpec => []TrailIsTrue
<1>1. AuditInv => TrailIsTrue
    <2> SUFFICES ASSUME AuditInv, NEW n \in DOMAIN audit PROVE Happened(audit[n])
        BY DEF TrailIsTrue, AuditInv
    <2>1. audit[n] \in Records /\ audit[n] \in Told
        BY DEF AuditInv, Told, Range
    <2>2. QED
        BY <2>1 DEF AuditInv
<1>2. QED
    BY <1>1, AuditHolds, PTL

\* Of every request and outcome there is a record, or a handler that will write it, or
\* it is one that was cut short.
THEOREM NothingStaysUntold == AuditSpec => []NothingUntold
<1>1. TypeOK /\ AuditInv => NothingUntold
    <2> SUFFICES ASSUME TypeOK, AuditInv, NEW action \in Actions,
                        NEW id \in DOMAIN restores \cup DOMAIN jobs, Happened(Record(action, id))
                 PROVE  Record(action, id) \in Told
        BY DEF NothingUntold, Told
    <2>1. id \in Nat
        BY DEF TypeOK
    <2>2. Record(action, id) \in Records
        BY <2>1 DEF Record, Records
    <2>3. QED
        BY <2>2 DEF AuditInv
<1>2. QED
    BY <1>1, AuditHolds, PTL

=============================================================================
