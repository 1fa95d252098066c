--------------------------- MODULE FlashbackAudit ---------------------------
(***************************************************************************)
(* The audit trail of the Flashback store (log_audit and its callers in    *)
(* flashback/backend/store.py and app.py).  A function of FlashbackStore   *)
(* that is audited commits its change in one transaction and its record in *)
(* a second one.  Between the two any other call may come, the second may  *)
(* fail, and the process may end.                                          *)
(*                                                                         *)
(* A record is what was done and the id of the row it was done to; when,   *)
(* by whom and the rest of the detail are left out.  The records of        *)
(* requests passed on to the Controller are of no row and left out too.    *)
(***************************************************************************)
EXTENDS FlashbackStore, Functions

VARIABLES
    audit,    \* table audit, by id
    writers,  \* the records that handlers have yet to write
    cut       \* history: those that no handler will write any more

trail == <<audit, writers, cut>>

auditVars == <<vars, trail>>

Record(action, id) == [action |-> action, id |-> id]

Actions == {"restore_queued", "restore_applied", "restore_failed",
            "restore_point_queued", "restore_point_done", "restore_point_failed"}

AuditInit ==
    /\ Init
    /\ audit = <<>>
    /\ writers = {}
    /\ cut = {}

-----------------------------------------------------------------------------
(* The audited functions, up to the call of log_audit.                      *)

WillLog(record) ==
    /\ writers' = writers \cup {record}
    /\ UNCHANGED <<audit, cut>>

QueueRestoreLogs(h, f, s) ==
    /\ QueueRestore(h, f, s)
    /\ WillLog(Record("restore_queued", Len(restores')))

AckRecord(r, ok) == Record(IF ok THEN "restore_applied" ELSE "restore_failed", r)

BugAckRestoreLogs(r, ok) ==
    /\ AckRestore(r, ok) \/ (restores[r].status # "pending" /\ UNCHANGED vars)
    /\ WillLog(AckRecord(r, ok))

\* An ack that changes nothing is not logged: if changed.
AckRestoreLogs(r, ok) == AckRestore(r, ok) /\ WillLog(AckRecord(r, ok))

QueuePointRestoreLogs(h, p) ==
    /\ QueuePointRestore(h, p)
    /\ WillLog(Record("restore_point_queued", Len(jobs')))

FinishRecord(j, ok) == Record(IF ok THEN "restore_point_done" ELSE "restore_point_failed", j)

BugFinishPointRestoreLogs(j, ok) ==
    /\ FinishPointRestore(j, ok)
    /\ IF ok THEN WillLog(FinishRecord(j, ok)) ELSE UNCHANGED trail

FinishPointRestoreLogs(j, ok) == FinishPointRestore(j, ok) /\ WillLog(FinishRecord(j, ok))

\* api_delete_restore_point calls store.audit, which there is not: it fails when the
\* restore point is already deleted.
DeleteRestorePointFails(p) == DeleteRestorePoint(p) /\ UNCHANGED trail

-----------------------------------------------------------------------------
(* log_audit, or the end of the handler before it.                          *)

LogAudit(record) ==
    /\ record \in writers
    /\ audit' = Append(audit, record)
    /\ writers' = writers \ {record}
    /\ UNCHANGED <<vars, cut>>

\* The second transaction fails.
LogAuditFails(record) ==
    /\ record \in writers
    /\ writers' = writers \ {record}
    /\ cut' = cut \cup {record}
    /\ UNCHANGED <<vars, audit>>

Restart ==
    /\ writers # {}
    /\ writers' = {}
    /\ cut' = cut \cup writers
    /\ UNCHANGED <<vars, audit>>

-----------------------------------------------------------------------------
\* The functions of the store that are not audited.
Unaudited ==
    \/ \E h \in Host, files \in Snapshot, now \in 0 .. MaxClock :
           IngestSnapshot(h, files, now)
    \/ \E h \in Host : OpenRestorePoint(h)
    \/ \E p \in DOMAIN points, chunk \in Chunk : AddRestorePointEntries(p, chunk)
    \/ \E s \in Sha : PutBlob(s)
    \/ \E p \in DOMAIN points : SealRestorePoint(p)
    \/ \E j \in DOMAIN jobs : StartPointRestore(j)

AuditNext ==
    \/ \E h \in Host, f \in Path, s \in Sha : QueueRestoreLogs(h, f, s)
    \/ \E r \in DOMAIN restores, ok \in BOOLEAN : AckRestoreLogs(r, ok)
    \/ \E h \in Host, p \in DOMAIN points : QueuePointRestoreLogs(h, p)
    \/ \E j \in DOMAIN jobs, ok \in BOOLEAN : FinishPointRestoreLogs(j, ok)
    \/ \E p \in DOMAIN points : DeleteRestorePointFails(p)
    \/ \E record \in writers : LogAudit(record) \/ LogAuditFails(record)
    \/ Restart
    \/ Unaudited /\ UNCHANGED trail

AuditSpec == AuditInit /\ [][AuditNext]_auditVars

-----------------------------------------------------------------------------
(* Properties.                                                              *)

\* What a record says is what the tables say.
Happened(record) ==
    LET id == record.id
    IN  CASE record.action = "restore_queued"       -> id \in DOMAIN restores
          [] record.action = "restore_applied"      ->
                id \in DOMAIN restores /\ restores[id].status = "applied"
          [] record.action = "restore_failed"       ->
                id \in DOMAIN restores /\ restores[id].status = "failed"
          [] record.action = "restore_point_queued" -> id \in DOMAIN jobs
          [] record.action = "restore_point_done"   ->
                id \in DOMAIN jobs /\ jobs[id].status = "done"
          [] record.action = "restore_point_failed" ->
                id \in DOMAIN jobs /\ jobs[id].status = "failed"

\* The trail is true and tells nothing twice, whatever late, repeated or contradicting
\* reports agents send and wherever handlers are interrupted: each of its records is
\* of a change that stands, and of no change there are two.
TrailIsTrue ==
    /\ \A n \in DOMAIN audit : Happened(audit[n])
    /\ IsInjective(audit)

\* The trail is complete but for handlers that ended early: what was queued and what
\* came of it is told in the trail, or will be by a handler under way, or by none
\* because it failed or the process ended between the change and its record.
NothingUntold ==
    \A action \in Actions :
       \A id \in DOMAIN restores \cup DOMAIN jobs :
          Happened(Record(action, id)) =>
             Record(action, id) \in Range(audit) \cup writers \cup cut

\* The trail tells who did what ("an append-only record of who did what", store.py:14):
\* of a restore point that was deleted too, there is a record, or a handler that will
\* write it or was cut short.
DeletionsAreTold ==
    \A p \in DOMAIN points : points[p].state = "deleted" =>
        Record("restore-point.delete", p) \in Range(audit) \cup writers \cup cut

\* What came of a restore is told after that it was asked for.
OutcomeFollowsRequest ==
    \A m \in DOMAIN audit : audit[m].action \in {"restore_applied", "restore_failed"} =>
        \A n \in DOMAIN audit : audit[n] = Record("restore_queued", audit[m].id) => n < m

=============================================================================
