-------------------------- MODULE UpdaterJobsProofs --------------------------
(***************************************************************************)
(* Proofs about UpdaterJobs for any number of threads, any products, any   *)
(* set of tasks and any number of restarts.                                *)
(*                                                                         *)
(* LockHasOneOwner is not inductive alone: a hand-off releases the lock    *)
(* before it clears the job record, a queue worker after, so that the      *)
(* thread that still has the record to clear is an owner in one case and   *)
(* not in the other.  HandingIsAStart keeps the two apart.                 *)
(*                                                                         *)
(* What the record says is proved of the thread that owns it: RecordInv    *)
(* says what each thread at work has done of its job and that the record   *)
(* is of that job.  A step moves the record in one of few ways             *)
(* (RecordMove), and one owner means that no other thread's job is moved.  *)
(***************************************************************************)
EXTENDS UpdaterJobs, TLAPS

\* Only a starter is ever between the helper's start and the release that
\* precedes clearing the record; a queue worker clears first.
HandingIsAStart == \A t \in Threads : th[t].pc = "handing" => th[t].kind # "all"

LockInv == TypeOK /\ LockHasOneOwner /\ HandingIsAStart

\* A row of th.
ThreadRow == [pc : Place, kind : Kind \cup {"poll"}, items : SUBSET Product,
              done : SUBSET Product, bad : SUBSET Product,
              at : Product, seen : HelperState]

-----------------------------------------------------------------------------
(* Types.                                                                   *)

\* A thread at rest is a row of th.
LEMMA RestingRow == Resting \in ThreadRow
BY UpdaterAssumption DEF Resting, ThreadRow, Place, HelperState, Kind

\* A request starts with one of the tasks there are.
LEMMA TaskShape ==
    ASSUME NEW task \in Tasks
    PROVE  task.kind \in Kind /\ task.items \in SUBSET Product
<1>1. task \in Task
    BY UpdaterAssumption
<1>2. Slop \in Product
    BY UpdaterAssumption
<1>3. QED
    BY <1>1, <1>2 DEF Task, Kind

\* The outcome of a job is one of the states of a job record.
LEMMA OutcomeShape ==
    \A done, bad, items : Outcome(done, bad, items) \in {"running", "succeeded", "failed"}
BY DEF Outcome

\* Init establishes the types.
LEMMA TypeInit == Init => TypeOK
<1>1. ASSUME Init PROVE TypeOK
    <2>1. th \in [Threads -> ThreadRow]
        BY <1>1, RestingRow DEF Init
    <2>2. restarts \in 0 .. MaxRestarts
        BY <1>1, UpdaterAssumption DEF Init
    <2>3. QED
        BY <1>1, <2>1, <2>2 DEF Init, TypeOK, ThreadRow, HelperState
<1>2. QED
    BY <1>1

\* Every step keeps them.
LEMMA TypeStep == TypeOK /\ [Next]_vars => TypeOK'
<1> SUFFICES ASSUME TypeOK, [Next]_vars PROVE TypeOK'
    OBVIOUS
<1>0. th \in [Threads -> ThreadRow]
    BY DEF TypeOK, ThreadRow
<1>1. ASSUME NEW t \in Thread, NEW task \in Tasks, Request(t, task) PROVE TypeOK'
    <2>1. t \in Threads
        BY DEF Threads
    <2>2. th' \in [Threads -> ThreadRow]
        BY <1>0, <1>1, <2>1, RestingRow, TaskShape DEF Request, ThreadRow, Place
    <2>3. QED
        BY <1>1, <2>2 DEF Request, TypeOK, ThreadRow
<1>2. CASE Poll
    <2>1. Console \in Threads
        BY DEF Threads
    <2>2. th' \in [Threads -> ThreadRow]
        BY <1>0, <1>2, <2>1 DEF Poll, Goto, ThreadRow, Place
    <2>3. shown' \in HelperState
        BY <1>2 DEF Poll, TypeOK, NoJob, Job, HelperState
    <2>4. QED
        BY <1>2, <2>2, <2>3 DEF Poll, TypeOK, ThreadRow
<1>3. ASSUME NEW t \in Threads, Step(t) PROVE TypeOK'
    <2>0. th[t] \in ThreadRow
        BY <1>0
    <2>1. CASE ReadMemo(t)
        <3>1. memo \in HelperState
            BY <2>1 DEF ReadMemo, TypeOK
        <3>2. th' \in [Threads -> ThreadRow]
            BY <1>0, <2>1, RestingRow
            DEF ReadMemo, Answered, Goto, Rest, ThreadRow, Place, HelperState
        <3>3. QED
            BY <2>1, <3>1, <3>2 DEF ReadMemo, Answered, TypeOK, ThreadRow
    <2>2. CASE Inspect(t)
        <3>0. helper \in HelperState
            BY DEF TypeOK
        <3>1. th' \in [Threads -> ThreadRow]
            <4> DEFINE row == [th[t] EXCEPT !.pc = "inspected", !.seen = helper]
            <4>1. row \in ThreadRow
                BY <2>0, <3>0 DEF ThreadRow, Place
            <4>2. th' = [th EXCEPT ![t] = row]
                BY <1>0, <2>2 DEF Inspect
            <4> HIDE DEF row
            <4>3. QED
                BY <1>0, <4>1, <4>2
        <3>2. QED
            BY <2>2, <3>1 DEF Inspect, TypeOK, ThreadRow
    <2>21. CASE AskRaises(t)
        BY <1>0, <2>21, RestingRow DEF AskRaises, Rest, TypeOK, ThreadRow
    <2>3. CASE Remember(t)
        <3>1. th[t].seen \in HelperState
            BY <2>0 DEF ThreadRow
        <3>2. th' \in [Threads -> ThreadRow]
            <4>1. \/ th' = [th EXCEPT ![t].pc = "checked", ![t].seen = "none"]
                  \/ th' = [th EXCEPT ![t] = Resting]
                BY <2>3 DEF Remember, Answered, Rest
            <4>2. QED
                BY <1>0, <4>1, RestingRow DEF ThreadRow, Place, HelperState
        <3>3. QED
            BY <2>3, <3>1, <3>2 DEF Remember, Answered, TypeOK, ThreadRow
    <2>4. CASE Refuse(t)
        <3>1. th' \in [Threads -> ThreadRow]
            BY <1>0, <2>4, RestingRow DEF Refuse, Rest, ThreadRow, Place
        <3>2. QED
            BY <2>4, <3>1 DEF Refuse, TypeOK, ThreadRow
    <2>5. CASE AcceptHandOff(t)
        <3>1. th' \in [Threads -> ThreadRow]
            BY <1>0, <2>5 DEF AcceptHandOff, Goto, ThreadRow, Place
        <3>2. QED
            BY <2>5, <3>1 DEF AcceptHandOff, TypeOK, ThreadRow
    <2>6. CASE AcceptJob(t)
        <3>1. th' \in [Threads -> ThreadRow]
            BY <1>0, <2>6 DEF AcceptJob, Goto, ThreadRow, Place
        <3>2. job' \in Job
            BY <2>0, <2>6 DEF AcceptJob, Job, ThreadRow
        <3>3. QED
            BY <2>6, <3>1, <3>2 DEF AcceptJob, TypeOK, ThreadRow
    <2>7. ASSUME NEW p \in Product, Take(t, p) PROVE TypeOK'
        <3>1. th' \in [Threads -> ThreadRow]
            BY <1>0, <2>7 DEF Take, ThreadRow, Place
        <3>2. QED
            BY <2>7, <3>1 DEF Take, TypeOK, ThreadRow
    <2>8. CASE WireUp(t)
        <3>1. th' \in [Threads -> ThreadRow]
            BY <1>0, <2>8 DEF WireUp, Goto, ThreadRow, Place
        <3>2. QED
            BY <2>8, <3>1 DEF WireUp, TypeOK, ThreadRow
    <2>9. ASSUME NEW ok \in BOOLEAN, ItemDone(t, ok) PROVE TypeOK'
        <3> DEFINE done == th[t].done \cup {th[t].at}
                   bad  == IF ok THEN th[t].bad ELSE th[t].bad \cup {th[t].at}
                   pc   == IF done = th[t].items THEN "releasing" ELSE "next"
        <3>1. done \in SUBSET Product /\ bad \in SUBSET Product /\ pc \in Place
            BY <2>0 DEF ThreadRow, Place
        <3>2. th' = [th EXCEPT ![t].done = done, ![t].bad = bad, ![t].pc = pc]
            BY <2>9 DEF ItemDone
        <3>3. job' = IF job = NoJob THEN job
                     ELSE [job EXCEPT !.done = done, !.bad = bad,
                                      !.state = Outcome(done, bad, th[t].items)]
            BY <2>9 DEF ItemDone
        <3> HIDE DEF done, bad, pc
        <3>4. th' \in [Threads -> ThreadRow]
            BY <1>0, <3>1, <3>2, ZenonT(30) DEF ThreadRow
        <3>5. job' \in Job \cup {NoJob}
            BY <3>1, <3>3, OutcomeShape DEF TypeOK, Job
        <3>6. QED
            BY <2>9, <3>4, <3>5 DEF ItemDone, TypeOK, ThreadRow
    <2>10. CASE PullFails(t)
        BY <2>10, <2>9 DEF PullFails
    <2>11. CASE Pulls(t)
        <3>1. th' \in [Threads -> ThreadRow]
            BY <1>0, <2>11 DEF Pulls, Goto, ThreadRow, Place
        <3>2. QED
            BY <2>11, <3>1 DEF Pulls, TypeOK, ThreadRow
    <2>12. ASSUME NEW ok \in BOOLEAN, Finishes(t, ok) PROVE TypeOK'
        BY <2>12, <2>9 DEF Finishes
    <2>13. ASSUME NotStarted(t)
           PROVE  th' \in [Threads -> ThreadRow] /\ job' \in Job \cup {NoJob}
        <3>1. th' \in [Threads -> ThreadRow]
            BY <1>0, <2>13 DEF NotStarted, ThreadRow, Place
        <3>2. Slop \in Product
            BY UpdaterAssumption
        <3>3. job' \in Job \cup {NoJob}
            BY <2>13, <3>2 DEF NotStarted, TypeOK, Job
        <3>4. QED
            BY <3>1, <3>3
    <2>14. CASE NoImage(t)
        <3>1. th' \in [Threads -> ThreadRow] /\ job' \in Job \cup {NoJob}
            BY <2>13, <2>14 DEF NoImage
        <3>2. QED
            BY <2>14, <3>1 DEF NoImage, TypeOK, ThreadRow
    <2>15. CASE RemoveHelper(t)
        <3>1. th' \in [Threads -> ThreadRow]
            BY <1>0, <2>15 DEF RemoveHelper, Goto, ThreadRow, Place
        <3>2. QED
            BY <2>15, <3>1 DEF RemoveHelper, TypeOK, ThreadRow, HelperState
    <2>16. ASSUME NEW ok \in BOOLEAN, RunHelper(t, ok) PROVE TypeOK'
        <3>1. helper' \in HelperState /\ latest' \in {"none", "thread", "helper", "unanswered"}
            BY <2>16 DEF RunHelper, HelperState, TypeOK
        <3>2. th' \in [Threads -> ThreadRow] /\ job' \in Job \cup {NoJob}
            <4>1. CASE ok
                BY <1>0, <2>16, <4>1 DEF RunHelper, Goto, ThreadRow, Place, TypeOK
            <4>2. CASE ~ ok
                BY <2>13, <2>16, <4>2 DEF RunHelper
            <4>3. QED
                BY <4>1, <4>2
        <3>3. QED
            BY <2>16, <3>1, <3>2 DEF RunHelper, TypeOK, ThreadRow
    <2>22. CASE SpawnRaises(t)
        <3>1. helper' \in HelperState /\ latest' \in {"none", "thread", "helper", "unanswered"}
            BY <2>22 DEF SpawnRaises, HelperState, TypeOK
        <3>2. th' \in [Threads -> ThreadRow] /\ job' \in Job \cup {NoJob} /\ leaked' \in BOOLEAN
            <4>1. CASE th[t].kind = "all"
                <5>1. /\ th' = [th EXCEPT ![t].pc = "releasing"] /\ leaked' = leaked
                      /\ job' = IF job = NoJob THEN job
                                ELSE [job EXCEPT !.state = "failed", !.raised = TRUE]
                    BY <2>22, <4>1 DEF SpawnRaises, Goto
                <5>2. QED
                    BY <1>0, <5>1 DEF ThreadRow, Place, TypeOK, Job
            <4>2. CASE th[t].kind # "all"
                <5>1. th' = [th EXCEPT ![t] = Resting] /\ job' = job /\ leaked'
                    BY <2>22, <4>2 DEF SpawnRaises, Rest
                <5>2. leaked' \in BOOLEAN
                    BY <2>22, <4>2 DEF SpawnRaises
                <5>3. QED
                    BY <1>0, <5>1, <5>2, RestingRow DEF TypeOK
            <4>3. QED
                BY <4>1, <4>2
        <3>3. QED
            BY <2>22, <3>1, <3>2 DEF SpawnRaises, TypeOK, ThreadRow
    <2>17. CASE Invalidate(t)
        <3>1. th' \in [Threads -> ThreadRow]
            BY <1>0, <2>17 DEF Invalidate, Goto, ThreadRow, Place
        <3>2. QED
            BY <2>17, <3>1 DEF Invalidate, TypeOK, ThreadRow
    <2>18. CASE Forget(t)
        <3>1. th' \in [Threads -> ThreadRow]
            BY <1>0, <2>18, RestingRow DEF Forget, Goto, Rest, ThreadRow, Place
        <3>2. QED
            BY <2>18, <3>1 DEF Forget, TypeOK, ThreadRow
    <2>19. CASE Release(t)
        <3>1. \/ th' = [th EXCEPT ![t].pc = "forgetting"]
              \/ th' = [th EXCEPT ![t] = Resting]
            BY <2>19 DEF Release, Goto, Rest
        <3>2. th' \in [Threads -> ThreadRow]
            BY <1>0, <3>1, RestingRow DEF ThreadRow, Place
        <3>3. QED
            BY <2>19, <3>2 DEF Release, TypeOK, ThreadRow
    <2>20. QED
        BY <1>3, <2>1, <2>2, <2>3, <2>4, <2>5, <2>6, <2>7, <2>8, <2>10, <2>11, <2>12,
           <2>14, <2>15, <2>16, <2>17, <2>18, <2>19, <2>21, <2>22 DEF Step
<1>4. ASSUME NEW ok \in BOOLEAN, HelperExits(ok) PROVE TypeOK'
    BY <1>4 DEF HelperExits, TypeOK, HelperState
<1>5. CASE ResultExpires
    BY <1>5 DEF ResultExpires, TypeOK, HelperState
<1>6. CASE MemoExpires
    BY <1>6 DEF MemoExpires, TypeOK
<1>7. CASE UpdaterRestarts
    <2>1. th' \in [Threads -> ThreadRow]
        BY <1>7, RestingRow DEF UpdaterRestarts
    <2>2. restarts' \in 0 .. MaxRestarts
        BY <1>7, UpdaterAssumption DEF UpdaterRestarts, TypeOK
    <2>3. QED
        BY <1>7, <2>1, <2>2 DEF UpdaterRestarts, TypeOK, ThreadRow
<1>8. CASE UNCHANGED vars
    BY <1>8 DEF vars, TypeOK
<1>9. QED
    BY <1>1, <1>2, <1>3, <1>4, <1>5, <1>6, <1>7, <1>8 DEF Next

\* The updater's variables keep their types.
THEOREM JobsTypeCorrect == Spec => []TypeOK
<1>1. QED
    BY TypeInit, TypeStep, PTL DEF Spec

-----------------------------------------------------------------------------
(* The lock.                                                                *)

\* What a step of thread t may do to the lock: leave it with its owner, take it
\* when it is free, give it up, or leave it held and be its owner no longer.
LockMove(t) ==
    \/ (Owner(t)' <=> Owner(t)) /\ locked' = locked /\ leaked' = leaked
    \/ ~ locked /\ locked' /\ Owner(t)' /\ leaked' = leaked
    \/ Owner(t) /\ ~ Owner(t)' /\ ~ locked' /\ leaked' = leaked
    \/ Owner(t) /\ ~ Owner(t)' /\ locked' = locked /\ leaked'

\* Any such step keeps the lock with one owner.
LEMMA LockMoves ==
    ASSUME TypeOK, locked' \in BOOLEAN, LockHasOneOwner, HandingIsAStart,
           NEW t \in Threads, LockMove(t),
           \A u \in Threads \ {t} : th'[u] = th[u],
           th'[t].pc = "handing" => th'[t].kind # "all"
    PROVE  LockHasOneOwner' /\ HandingIsAStart'
<1>1. \A u \in Threads \ {t} : Owner(u)' <=> Owner(u)
    BY DEF Owner
<1>2. HandingIsAStart'
    BY DEF HandingIsAStart
<1>3. LockHasOneOwner'
    <2>1. CASE (Owner(t)' <=> Owner(t)) /\ locked' = locked /\ leaked' = leaked
        BY <1>1, <2>1 DEF LockHasOneOwner
    <2>2. CASE ~ locked /\ locked' /\ Owner(t)' /\ leaked' = leaked
        BY <1>1, <2>2 DEF LockHasOneOwner
    <2>3. CASE Owner(t) /\ ~ Owner(t)' /\ ~ locked' /\ leaked' = leaked
        BY <1>1, <2>3 DEF LockHasOneOwner
    <2>4. CASE Owner(t) /\ ~ Owner(t)' /\ locked' = locked /\ leaked'
        BY <1>1, <2>4 DEF LockHasOneOwner
    <2>5. QED
        BY <2>1, <2>2, <2>3, <2>4 DEF LockMove
<1>4. QED
    BY <1>2, <1>3

\* Nobody owns the lock before the first request.
LEMMA LockInit == Init => LockInv
<1>1. ASSUME Init PROVE LockHasOneOwner /\ HandingIsAStart
    BY <1>1 DEF Init, Resting, LockHasOneOwner, HandingIsAStart, Owner
<1>2. QED
    BY <1>1, TypeInit DEF LockInv

\* Every step keeps the invariant.
LEMMA LockStep == LockInv /\ [Next]_vars => LockInv'
<1> SUFFICES ASSUME LockInv, [Next]_vars PROVE LockHasOneOwner' /\ HandingIsAStart'
    BY TypeStep DEF LockInv
<1>0. th \in [Threads -> ThreadRow] /\ TypeOK /\ TypeOK' /\ locked' \in BOOLEAN
    <2>1. TypeOK /\ TypeOK'
        BY TypeStep DEF LockInv
    <2>2. QED
        BY <2>1 DEF TypeOK, ThreadRow
<1>1. ASSUME NEW t \in Threads,
             \A u \in Threads \ {t} : th'[u] = th[u],
             LockMove(t),
             th'[t].pc = "handing" => th'[t].kind # "all"
      PROVE  LockHasOneOwner' /\ HandingIsAStart'
    BY <1>0, <1>1, LockMoves DEF LockInv
<1>2. ASSUME NEW t \in Thread, NEW task \in Tasks, Request(t, task)
      PROVE  LockHasOneOwner' /\ HandingIsAStart'
    <2>1. t \in Threads
        BY DEF Threads
    <2>2. th'[t].pc = "asking" /\ locked' = locked /\ leaked' = leaked
          /\ \A u \in Threads \ {t} : th'[u] = th[u]
        BY <1>0, <1>2, <2>1 DEF Request, Resting
    <2>3. LockMove(t)
        BY <1>2, <2>2 DEF LockMove, Owner, Request
    <2>4. QED
        BY <1>1, <2>1, <2>2, <2>3
<1>3. CASE Poll
    <2>1. Console \in Threads
        BY DEF Threads
    <2>2. th'[Console].pc \in {"asking", "idle"} /\ locked' = locked /\ leaked' = leaked
          /\ \A u \in Threads \ {Console} : th'[u] = th[u]
        BY <1>0, <1>3, <2>1 DEF Poll, Goto, ThreadRow
    <2>3. LockMove(Console)
        BY <1>3, <2>2 DEF LockMove, Owner, Poll
    <2>4. QED
        BY <1>1, <2>1, <2>2, <2>3
<1>4. ASSUME NEW t \in Threads, Step(t)
      PROVE  LockHasOneOwner' /\ HandingIsAStart'
    <2>1. ASSUME th[t].pc \in {"asking", "inspected"}, locked' = locked, leaked' = leaked,
                 \E st \in HelperState : Answered(t, st)
          PROVE  LockHasOneOwner' /\ HandingIsAStart'
        <3>1. th'[t].pc \in {"checked", "idle"} /\ \A u \in Threads \ {t} : th'[u] = th[u]
            <4>1. \/ th' = [th EXCEPT ![t].pc = "checked", ![t].seen = "none"]
                  \/ th' = [th EXCEPT ![t] = Resting]
                BY <2>1 DEF Answered, Rest
            <4>2. QED
                BY <1>0, <4>1 DEF Resting, ThreadRow
        <3>2. LockMove(t)
            BY <2>1, <3>1 DEF LockMove, Owner
        <3>3. QED
            BY <1>1, <3>1, <3>2
    <2>2. CASE ReadMemo(t)
        <3>1. memo \in HelperState
            BY <1>0, <2>2 DEF ReadMemo, TypeOK
        <3>2. QED
            BY <2>1, <2>2, <3>1 DEF ReadMemo
    <2>3. CASE Inspect(t)
        <3>1. th'[t].pc = "inspected" /\ \A u \in Threads \ {t} : th'[u] = th[u]
            BY <1>0, <2>3 DEF Inspect, ThreadRow
        <3>2. LockMove(t)
            BY <2>3, <3>1 DEF Inspect, LockMove, Owner
        <3>3. QED
            BY <1>1, <3>1, <3>2
    <2>23. CASE AskRaises(t)
        <3>1. th'[t].pc = "idle" /\ \A u \in Threads \ {t} : th'[u] = th[u]
            BY <1>0, <2>23 DEF AskRaises, Rest, Resting
        <3>2. LockMove(t)
            BY <2>23, <3>1 DEF AskRaises, LockMove, Owner
        <3>3. QED
            BY <1>1, <3>1, <3>2
    <2>4. CASE Remember(t)
        <3>1. th[t].seen \in HelperState
            BY <1>0 DEF ThreadRow
        <3>2. QED
            BY <2>1, <2>4, <3>1 DEF Remember
    <2>5. CASE Refuse(t)
        <3>1. th'[t].pc \in {"asking", "idle"} /\ \A u \in Threads \ {t} : th'[u] = th[u]
            BY <1>0, <2>5 DEF Refuse, Rest, Resting
        <3>2. LockMove(t)
            BY <2>5, <3>1 DEF Refuse, LockMove, Owner
        <3>3. QED
            BY <1>1, <3>1, <3>2
    <2>6. CASE AcceptHandOff(t)
        <3>1. th'[t].pc \in {"wiring", "spawning"} /\ \A u \in Threads \ {t} : th'[u] = th[u]
            BY <1>0, <2>6 DEF AcceptHandOff, Goto, ThreadRow
        <3>2. LockMove(t)
            BY <2>6, <3>1 DEF AcceptHandOff, LockMove, Owner
        <3>3. QED
            BY <1>1, <3>1, <3>2
    <2>7. CASE AcceptJob(t)
        <3>1. th'[t].pc = "next" /\ \A u \in Threads \ {t} : th'[u] = th[u]
            BY <1>0, <2>7 DEF AcceptJob, Goto, ThreadRow
        <3>2. LockMove(t)
            BY <2>7, <3>1 DEF AcceptJob, LockMove, Owner
        <3>3. QED
            BY <1>1, <3>1, <3>2
    \* The steps of an owner that stays one.
    <2>8. ASSUME th[t].pc \in {"next", "wiring", "pulling", "building", "acting",
                               "spawning", "removed", "started"},
                 th'[t].pc \in {"next", "wiring", "pulling", "building", "acting",
                                "spawning", "removed", "started", "releasing"},
                 \A u \in Threads \ {t} : th'[u] = th[u],
                 locked' = locked /\ leaked' = leaked
          PROVE  LockHasOneOwner' /\ HandingIsAStart'
        <3>1. LockMove(t)
            BY <2>8 DEF LockMove, Owner
        <3>2. QED
            BY <1>1, <2>8, <3>1
    <2>9. ASSUME NEW p \in Product, Take(t, p)
          PROVE  LockHasOneOwner' /\ HandingIsAStart'
        <3>1. th'[t].pc \in {"acting", "wiring", "pulling"}
              /\ \A u \in Threads \ {t} : th'[u] = th[u]
            BY <1>0, <2>9 DEF Take, ThreadRow
        <3>2. QED
            BY <2>8, <2>9, <3>1 DEF Take
    <2>10. CASE WireUp(t)
        <3>1. th'[t].pc \in {"spawning", "pulling"}
              /\ \A u \in Threads \ {t} : th'[u] = th[u]
            BY <1>0, <2>10 DEF WireUp, Goto, ThreadRow
        <3>2. QED
            BY <2>8, <2>10, <3>1 DEF WireUp
    <2>11. ASSUME NEW ok \in BOOLEAN, ItemDone(t, ok),
                  th[t].pc \in {"pulling", "building", "acting"}
           PROVE  LockHasOneOwner' /\ HandingIsAStart'
        <3>1. th'[t].pc \in {"releasing", "next"}
              /\ \A u \in Threads \ {t} : th'[u] = th[u]
            BY <1>0, <2>11 DEF ItemDone, ThreadRow
        <3>2. locked' = locked /\ leaked' = leaked
            BY <2>11 DEF ItemDone
        <3>3. QED
            BY <2>8, <2>11, <3>1, <3>2
    <2>12. CASE PullFails(t)
        BY <2>11, <2>12 DEF PullFails
    <2>13. CASE Pulls(t)
        <3>1. th'[t].pc = "building" /\ \A u \in Threads \ {t} : th'[u] = th[u]
            BY <1>0, <2>13 DEF Pulls, Goto, ThreadRow
        <3>2. QED
            BY <2>8, <2>13, <3>1 DEF Pulls
    <2>14. ASSUME NEW ok \in BOOLEAN, Finishes(t, ok)
           PROVE  LockHasOneOwner' /\ HandingIsAStart'
        BY <2>11, <2>14 DEF Finishes
    <2>15. ASSUME NotStarted(t), locked' = locked, leaked' = leaked,
                  th[t].pc \in {"spawning", "removed"}
           PROVE  LockHasOneOwner' /\ HandingIsAStart'
        <3>1. th'[t].pc = "releasing" /\ \A u \in Threads \ {t} : th'[u] = th[u]
            BY <1>0, <2>15 DEF NotStarted, ThreadRow
        <3>2. QED
            BY <2>8, <2>15, <3>1
    <2>16. CASE NoImage(t)
        BY <2>15, <2>16 DEF NoImage
    <2>17. CASE RemoveHelper(t)
        <3>1. th'[t].pc = "removed" /\ \A u \in Threads \ {t} : th'[u] = th[u]
            BY <1>0, <2>17 DEF RemoveHelper, Goto, ThreadRow
        <3>2. QED
            BY <2>8, <2>17, <3>1 DEF RemoveHelper
    <2>18. ASSUME NEW ok \in BOOLEAN, RunHelper(t, ok)
           PROVE  LockHasOneOwner' /\ HandingIsAStart'
        <3>1. CASE ok
            <4>1. th' = [th EXCEPT ![t].pc = "started"]
                BY <2>18, <3>1 DEF RunHelper, Goto
            <4>2. th'[t].pc = "started" /\ \A u \in Threads \ {t} : th'[u] = th[u]
                BY <1>0, <4>1 DEF ThreadRow
            <4>3. QED
                BY <2>8, <2>18, <4>2 DEF RunHelper
        <3>2. CASE ~ ok
            <4>1. NotStarted(t) /\ locked' = locked /\ leaked' = leaked /\ th[t].pc = "removed"
                BY <2>18, <3>2 DEF RunHelper
            <4>2. QED
                BY <2>15, <4>1
        <3>3. QED
            BY <3>1, <3>2
    <2>24. CASE SpawnRaises(t)
        <3>1. CASE th[t].kind = "all"
            <4>1. th' = [th EXCEPT ![t].pc = "releasing"]
                BY <2>24, <3>1 DEF SpawnRaises, Goto
            <4>2. th'[t].pc = "releasing" /\ \A u \in Threads \ {t} : th'[u] = th[u]
                BY <1>0, <4>1 DEF ThreadRow
            <4>3. QED
                BY <2>8, <2>24, <3>1, <4>2 DEF SpawnRaises
        <3>2. CASE th[t].kind # "all"
            <4>1. th'[t].pc = "idle" /\ \A u \in Threads \ {t} : th'[u] = th[u]
                BY <1>0, <2>24, <3>2 DEF SpawnRaises, Rest, Resting
            <4>2. LockMove(t)
                BY <2>24, <3>2, <4>1 DEF SpawnRaises, LockMove, Owner
            <4>3. QED
                BY <1>1, <4>1, <4>2
        <3>3. QED
            BY <3>1, <3>2
    <2>19. CASE Invalidate(t)
        <3>1. /\ th'[t].pc = IF th[t].kind = "all" THEN "forgetting" ELSE "handing"
              /\ th'[t].kind = th[t].kind
              /\ \A u \in Threads \ {t} : th'[u] = th[u]
            BY <1>0, <2>19 DEF Invalidate, Goto, ThreadRow
        <3>2. LockMove(t)
            BY <2>19, <3>1 DEF Invalidate, LockMove, Owner
        <3>3. QED
            BY <1>1, <3>1, <3>2
    <2>20. CASE Forget(t)
        <3>1. /\ IF th[t].kind = "all" THEN th'[t].pc = "releasing" ELSE th'[t].pc = "idle"
              /\ \A u \in Threads \ {t} : th'[u] = th[u]
            BY <1>0, <2>20 DEF Forget, Goto, Rest, Resting, ThreadRow
        <3>2. LockMove(t)
            BY <2>20, <3>1 DEF Forget, LockMove, Owner
        <3>3. QED
            BY <1>1, <3>1, <3>2
    <2>21. CASE Release(t)
        <3>1. CASE th[t].pc = "handing"
            <4>1. /\ th'[t].pc = "forgetting" /\ th'[t].kind = th[t].kind
                  /\ \A u \in Threads \ {t} : th'[u] = th[u]
                BY <1>0, <2>21, <3>1 DEF Release, Goto, ThreadRow
            <4>2. th[t].kind # "all"
                BY <3>1 DEF LockInv, HandingIsAStart
            <4>3. LockMove(t)
                BY <2>21, <3>1, <4>1, <4>2 DEF Release, LockMove, Owner
            <4>4. QED
                BY <1>1, <4>1, <4>3
        <3>2. CASE th[t].pc = "releasing"
            <4>1. /\ th'[t].pc = "idle"
                  /\ \A u \in Threads \ {t} : th'[u] = th[u]
                BY <1>0, <2>21, <3>2 DEF Release, Rest, Resting
            <4>2. LockMove(t)
                BY <2>21, <3>2, <4>1 DEF Release, LockMove, Owner
            <4>3. QED
                BY <1>1, <4>1, <4>2
        <3>3. QED
            BY <2>21, <3>1, <3>2 DEF Release
    <2>22. QED
        BY <1>4, <2>2, <2>3, <2>4, <2>5, <2>6, <2>7, <2>9, <2>10, <2>12, <2>13, <2>14,
           <2>16, <2>17, <2>18, <2>19, <2>20, <2>21, <2>23, <2>24 DEF Step
\* Nothing outside the process touches its threads or its lock.
<1>5. ASSUME th' = th, locked' = locked, leaked' = leaked PROVE LockHasOneOwner' /\ HandingIsAStart'
    BY <1>5 DEF LockInv, LockHasOneOwner, HandingIsAStart, Owner
<1>6. ASSUME NEW ok \in BOOLEAN, HelperExits(ok)
      PROVE  LockHasOneOwner' /\ HandingIsAStart'
    BY <1>5, <1>6 DEF HelperExits
<1>7. CASE ResultExpires
    BY <1>5, <1>7 DEF ResultExpires
<1>8. CASE MemoExpires
    BY <1>5, <1>8 DEF MemoExpires
<1>9. CASE UpdaterRestarts
    BY <1>9 DEF UpdaterRestarts, Resting, LockHasOneOwner, HandingIsAStart, Owner
<1>10. CASE UNCHANGED vars
    BY <1>5, <1>10 DEF vars
<1>11. QED
    BY <1>2, <1>3, <1>4, <1>6, <1>7, <1>8, <1>9, <1>10 DEF Next

\* At most one thread is ever between taking the lock and giving it up, and the lock
\* is held exactly while one is or after docker has left a request's hand-off
\* unanswered: jobs inside the process exclude one another, however requests race,
\* whatever docker does, and wherever the process is restarted.
THEOREM JobsExcludeEachOther == Spec => []LockHasOneOwner
<1>1. LockInv => LockHasOneOwner
    BY DEF LockInv
<1>2. QED
    BY LockInit, LockStep, <1>1, PTL DEF Spec

-----------------------------------------------------------------------------
(* The job record.                                                          *)

\* Places of a thread that has a product to work on.
AtWork == {"wiring", "pulling", "building", "acting", "spawning", "removed", "started"}

\* What a thread knows of its task, wherever it is.
RowInv(r) ==
    /\ r.kind \in Kind => r.items # {}
    /\ r.kind = "update" => \E p \in Product : r.items = {p}
    /\ r.pc \notin {"idle", "asking", "inspected"} => r.kind \in Kind
    /\ r.pc \in {"idle", "asking", "inspected", "checked"} =>
         r.at = Slop /\ r.done = {} /\ r.bad = {}
    /\ HandsOff(r) => r.at = Slop /\ r.pc \notin {"next", "pulling", "building", "acting"}
    /\ r.pc \in AtWork \cup {"next"} /\ ~HandsOff(r) => r.done \subseteq r.items /\ r.done # r.items
    /\ r.pc \in AtWork /\ ~HandsOff(r) => r.at \in r.items \ r.done
    /\ r.pc \in {"wiring", "pulling"} => r.kind \in {"update", "all"}
    /\ r.pc \in {"spawning", "removed", "started", "forgetting"} /\ ~HandsOff(r) =>
         r.kind = "all"
    /\ r.pc = "handing" => HandsOff(r)
    /\ r.pc \in AtWork /\ ~HandsOff(r) /\ r.at = Slop => r.items \ r.done = {Slop}
    /\ r.pc \in {"spawning", "removed"} => r.at = Slop

\* The record of the thread that works, unless it was cleared under it.
Recorded(r) ==
    job # NoJob => job = [state |-> "running", items |-> r.items, done |-> r.done,
                          bad |-> r.bad, raised |-> FALSE]

RecordInv ==
    /\ \A t \in Threads : RowInv(th[t])
    /\ \A t \in Threads : Working(t) /\ th[t].pc # "forgetting" => Recorded(th[t])
    /\ OutcomeCoversAll
    /\ RunningIsWorkedOn

\* What a step of thread t may do to the record: clear it; leave it, with t at work
\* or not as before; or, when t works or nobody does, make it t's or an outcome.
RecordMove(t) ==
    \/ job' = NoJob
    \/ /\ job' = job
       /\ Working(t)' <=> Working(t)
       /\ Working(t) /\ th'[t].pc # "forgetting" =>
            /\ th[t].pc # "forgetting" /\ th'[t].items = th[t].items
            /\ th'[t].done = th[t].done /\ th'[t].bad = th[t].bad
    \/ /\ ~locked \/ Working(t)
       /\ job' # NoJob
       /\ \/ /\ Working(t)' /\ th'[t].pc # "forgetting"
             /\ job' = [state |-> "running", items |-> th'[t].items,
                        done |-> th'[t].done, bad |-> th'[t].bad, raised |-> FALSE]
          \/ /\ ~Working(t)'
             /\ job'.state # "running" => Accounted(job')
             /\ job'.state = "running" => Slop \in job'.bad

\* A thread that works owns the lock.
LEMMA WorkersOwn ==
    ASSUME NEW t \in Threads, RowInv(th[t]), Working(t)
    PROVE  Owner(t)
BY DEF RowInv, Working, Owner

\* Any such step keeps the record true.
LEMMA RecordMoves ==
    ASSUME LockHasOneOwner, RecordInv, NEW t \in Threads,
           \A u \in Threads \ {t} : th'[u] = th[u], RowInv(th'[t]), RecordMove(t)
    PROVE  RecordInv'
<1>1. \A u \in Threads : RowInv(th'[u])
    BY DEF RecordInv
<1>2. \A u \in Threads \ {t} : (Working(u)' <=> Working(u)) /\ th'[u] = th[u]
    BY DEF Working
<1>3. CASE job' = NoJob
    <2>1. NoJob.state # "running"
        BY DEF NoJob
    <2>2. OutcomeCoversAll' /\ RunningIsWorkedOn'
        BY <1>3, <2>1 DEF OutcomeCoversAll, RunningIsWorkedOn
    <2>3. \A u \in Threads : Recorded(th[u])'
        BY <1>3 DEF Recorded
    <2>4. QED
        BY <1>1, <2>2, <2>3 DEF RecordInv
<1>4. CASE /\ job' = job
           /\ Working(t)' <=> Working(t)
           /\ Working(t) /\ th'[t].pc # "forgetting" =>
                /\ th[t].pc # "forgetting" /\ th'[t].items = th[t].items
                /\ th'[t].done = th[t].done /\ th'[t].bad = th[t].bad
    <2>1. OutcomeCoversAll'
        BY <1>4 DEF RecordInv, OutcomeCoversAll
    <2>2. RunningIsWorkedOn'
        BY <1>2, <1>4 DEF RecordInv, RunningIsWorkedOn
    <2>3. ASSUME NEW u \in Threads, Working(u)', th'[u].pc # "forgetting"
          PROVE  Recorded(th[u])'
        <3>1. CASE u = t
            BY <1>4, <2>3, <3>1 DEF RecordInv, Recorded
        <3>2. CASE u # t
            BY <1>2, <1>4, <2>3, <3>2 DEF RecordInv, Recorded
        <3>3. QED
            BY <3>1, <3>2
    <2>4. QED
        BY <1>1, <2>1, <2>2, <2>3 DEF RecordInv
<1>5. ASSUME ~locked \/ Working(t), job' # NoJob,
             \/ /\ Working(t)' /\ th'[t].pc # "forgetting"
                /\ job' = [state |-> "running", items |-> th'[t].items,
                           done |-> th'[t].done, bad |-> th'[t].bad, raised |-> FALSE]
             \/ /\ ~Working(t)'
                /\ job'.state # "running" => Accounted(job')
                /\ job'.state = "running" => Slop \in job'.bad
      PROVE  RecordInv'
    <2>1. \A u \in Threads : Working(u) => Owner(u)
        BY WorkersOwn DEF RecordInv
    <2>2. \A u \in Threads \ {t} : ~Working(u)'
        BY <1>2, <1>5, <2>1 DEF LockHasOneOwner
    <2>3. OutcomeCoversAll'
        BY <1>5 DEF OutcomeCoversAll
    <2>4. RunningIsWorkedOn'
        BY <1>5 DEF RunningIsWorkedOn
    <2>5. ASSUME NEW u \in Threads, Working(u)', th'[u].pc # "forgetting"
          PROVE  Recorded(th[u])'
        BY <1>5, <2>2, <2>5 DEF Recorded
    <2>6. QED
        BY <1>1, <2>3, <2>4, <2>5 DEF RecordInv
<1>6. QED
    BY <1>3, <1>4, <1>5 DEF RecordMove

\* Going somewhere else changes nothing a thread knows.
LEMMA Goes ==
    ASSUME TypeOK, NEW t \in Threads, NEW place, Goto(t, place)
    PROVE  /\ th'[t].pc = place /\ th'[t].kind = th[t].kind /\ th'[t].items = th[t].items
           /\ th'[t].done = th[t].done /\ th'[t].bad = th[t].bad /\ th'[t].at = th[t].at
           /\ \A u \in Threads \ {t} : th'[u] = th[u]
BY DEF TypeOK, Goto

\* A thread that rests knows nothing.
LEMMA Rests ==
    ASSUME TypeOK, NEW t \in Threads, Rest(t)
    PROVE  /\ th'[t] = Resting /\ \A u \in Threads \ {t} : th'[u] = th[u]
           /\ RowInv(th'[t])
<1>1. th'[t] = Resting /\ \A u \in Threads \ {t} : th'[u] = th[u]
    BY DEF TypeOK, Rest
<1>2. RowInv(Resting)
    BY DEF RowInv, Resting, Kind, HandsOff, AtWork
<1>3. QED
    BY <1>1, <1>2

\* Nothing is recorded at first.
LEMMA RecordInit == Init => RecordInv
<1> SUFFICES ASSUME Init PROVE RecordInv
    OBVIOUS
<1>1. RowInv(Resting)
    BY DEF RowInv, Resting, Kind, HandsOff, AtWork
<1>2. \A t \in Threads : th[t] = Resting
    BY DEF Init
<1>3. \A t \in Threads : ~Working(t)
    BY <1>2 DEF Working, Resting
<1>4. job = NoJob /\ NoJob.state # "running"
    BY DEF Init, NoJob
<1>5. QED
    BY <1>1, <1>2, <1>3, <1>4 DEF RecordInv, OutcomeCoversAll, RunningIsWorkedOn

\* What a request asks for.
LEMMA TaskRow ==
    ASSUME NEW task \in Tasks
    PROVE  /\ task.kind \in Kind /\ task.items # {} /\ task.items \subseteq Product
           /\ task.kind = "update" => \E p \in Product : task.items = {p}
<1>1. task \in Task /\ Slop \in Product
    BY UpdaterAssumption
<1>2. CASE task \in {[kind |-> k, items |-> {p}] : k \in {"update", "action"}, p \in Product}
    BY <1>2 DEF Kind
<1>3. CASE task \in {[kind |-> "module", items |-> {Slop}]}
    BY <1>1, <1>3 DEF Kind
<1>4. CASE task \in {[kind |-> "all", items |-> S] : S \in (SUBSET Product) \ {{}}}
    <2>1. PICK S \in (SUBSET Product) \ {{}} : task = [kind |-> "all", items |-> S]
        BY <1>4
    <2>2. QED
        BY <2>1 DEF Kind
<1>5. QED
    BY <1>1, <1>2, <1>3, <1>4 DEF Task

\* The step of a thread keeps the record true.
LEMMA RecordThread ==
    ASSUME LockInv, RecordInv, NEW t \in Threads, Step(t)
    PROVE  RecordInv'
<1>1. TypeOK /\ LockHasOneOwner /\ RowInv(th[t]) /\ th[t] \in ThreadRow
    BY DEF LockInv, RecordInv, TypeOK, ThreadRow
<1>2. ASSUME \A u \in Threads \ {t} : th'[u] = th[u], RowInv(th'[t]), RecordMove(t)
      PROVE  RecordInv'
    BY <1>1, <1>2, RecordMoves
\* Steps of a thread that does not work, and will not.
<1>3. ASSUME \A u \in Threads \ {t} : th'[u] = th[u], RowInv(th'[t]), job' = job,
             th[t].pc \in {"idle", "asking", "inspected", "checked", "handing", "releasing"}
               \/ HandsOff(th[t]),
             th'[t].pc \in {"idle", "asking", "inspected", "checked", "handing", "releasing"}
               \/ HandsOff(th'[t])
      PROVE  RecordInv'
    <2>1. ~Working(t) /\ ~Working(t)'
        BY <1>3 DEF Working
    <2>2. RecordMove(t)
        BY <1>3, <2>1 DEF RecordMove
    <2>3. QED
        BY <1>2, <1>3, <2>2
<1>4. ASSUME \E st \in HelperState : Answered(t, st), job' = job,
             th[t].pc \in {"asking", "inspected"}
      PROVE  RecordInv'
    <2>1. CASE Rest(t)
        <3>1. th'[t] = Resting /\ RowInv(th'[t]) /\ \A u \in Threads \ {t} : th'[u] = th[u]
            BY <1>1, <2>1, Rests
        <3>2. QED
            BY <1>3, <1>4, <3>1 DEF Resting
    <2>2. CASE th[t].kind \in Kind
               /\ th' = [th EXCEPT ![t].pc = "checked", ![t].seen = "none"]
        <3>1. /\ th'[t].pc = "checked" /\ th'[t].kind = th[t].kind
              /\ th'[t].items = th[t].items /\ th'[t].done = th[t].done
              /\ th'[t].bad = th[t].bad /\ th'[t].at = th[t].at
              /\ \A u \in Threads \ {t} : th'[u] = th[u]
            BY <1>1, <2>2 DEF TypeOK
        <3>2. RowInv(th'[t])
            BY <1>1, <1>4, <2>2, <3>1 DEF RowInv, HandsOff, AtWork
        <3>3. QED
            BY <1>3, <1>4, <3>1, <3>2
    <2>3. QED
        BY <1>4, <2>1, <2>2 DEF Answered
<1>5. CASE ReadMemo(t)
    <2>1. memo \in HelperState
        BY <1>1, <1>5 DEF ReadMemo, TypeOK
    <2>2. QED
        BY <1>4, <1>5, <2>1 DEF ReadMemo
<1>6. CASE Inspect(t)
    <2>1. /\ th'[t].pc = "inspected" /\ th'[t].kind = th[t].kind
          /\ th'[t].items = th[t].items /\ th'[t].done = th[t].done
          /\ th'[t].bad = th[t].bad /\ th'[t].at = th[t].at
          /\ \A u \in Threads \ {t} : th'[u] = th[u]
        BY <1>1, <1>6 DEF Inspect, TypeOK
    <2>2. RowInv(th'[t])
        BY <1>1, <1>6, <2>1 DEF Inspect, RowInv, HandsOff, AtWork
    <2>3. QED
        BY <1>3, <1>6, <2>1, <2>2 DEF Inspect
<1>26. CASE AskRaises(t)
    <2>1. th'[t] = Resting /\ RowInv(th'[t]) /\ \A u \in Threads \ {t} : th'[u] = th[u]
        BY <1>1, <1>26, Rests DEF AskRaises
    <2>2. QED
        BY <1>3, <1>26, <2>1 DEF Resting, AskRaises
<1>7. CASE Remember(t)
    <2>1. th[t].seen \in HelperState
        BY <1>1 DEF ThreadRow
    <2>2. QED
        BY <1>4, <1>7, <2>1 DEF Remember
<1>8. CASE Refuse(t)
    <2>1. CASE Rest(t)
        <3>1. th'[t] = Resting /\ RowInv(th'[t]) /\ \A u \in Threads \ {t} : th'[u] = th[u]
            BY <1>1, <2>1, Rests
        <3>2. QED
            BY <1>3, <1>8, <3>1 DEF Resting, Refuse
    <2>2. CASE th' = [th EXCEPT ![t] = [Resting EXCEPT !.pc = "asking"]]
        <3>1. /\ th'[t] = [Resting EXCEPT !.pc = "asking"]
              /\ \A u \in Threads \ {t} : th'[u] = th[u]
            BY <1>1, <2>2 DEF TypeOK
        <3>2. RowInv(th'[t]) /\ th'[t].pc = "asking"
            BY <3>1 DEF RowInv, Resting, Kind, HandsOff, AtWork
        <3>3. QED
            BY <1>3, <1>8, <3>1, <3>2 DEF Refuse
    <2>3. QED
        BY <1>8, <2>1, <2>2 DEF Refuse
<1>9. CASE AcceptHandOff(t)
    <2>1. PICK place \in {"wiring", "spawning"} :
            Goto(t, place) /\ (place = "wiring" => th[t].kind = "update")
        BY <1>9 DEF AcceptHandOff
    <2>2. /\ th'[t].pc = place /\ th'[t].kind = th[t].kind
          /\ th'[t].items = th[t].items /\ th'[t].done = th[t].done
          /\ th'[t].bad = th[t].bad /\ th'[t].at = th[t].at
          /\ \A u \in Threads \ {t} : th'[u] = th[u]
        BY <1>1, <2>1, Goes
    <2>3. HandsOff(th[t]) /\ HandsOff(th'[t])
        BY <1>9, <2>2 DEF AcceptHandOff, HandsOff
    <2>4. RowInv(th'[t])
        BY <1>1, <1>9, <2>1, <2>2, <2>3 DEF AcceptHandOff, RowInv, AtWork
    <2>5. QED
        BY <1>3, <1>9, <2>2, <2>3, <2>4 DEF AcceptHandOff
<1>10. CASE AcceptJob(t)
    <2>1. /\ th'[t].pc = "next" /\ th'[t].kind = th[t].kind
          /\ th'[t].items = th[t].items /\ th'[t].done = th[t].done
          /\ th'[t].bad = th[t].bad /\ th'[t].at = th[t].at
          /\ \A u \in Threads \ {t} : th'[u] = th[u]
        BY <1>1, <1>10, Goes DEF AcceptJob
    <2>2. ~HandsOff(th'[t]) /\ th[t].pc = "checked"
        BY <1>10, <2>1 DEF AcceptJob, HandsOff
    <2>3. RowInv(th'[t]) /\ th[t].done = {} /\ th[t].bad = {}
        BY <1>1, <2>1, <2>2 DEF RowInv, AtWork
    <2>4. Working(t)'
        BY <2>1, <2>2 DEF Working
    <2>5. job' # NoJob
        BY <1>10 DEF AcceptJob, NoJob
    <2>6. RecordMove(t)
        BY <1>10, <2>1, <2>3, <2>4, <2>5 DEF AcceptJob, RecordMove
    <2>7. QED
        BY <1>2, <2>1, <2>3, <2>6
\* Steps of a thread that goes on working.
<1>11. ASSUME NEW place \in AtWork \cup {"forgetting"}, RowInv(th'[t]), job' = job,
              th[t].pc \in AtWork \cup {"next"},
              th'[t].pc = place, th'[t].kind = th[t].kind, th'[t].items = th[t].items,
              th'[t].done = th[t].done, th'[t].bad = th[t].bad,
              \A u \in Threads \ {t} : th'[u] = th[u]
       PROVE  RecordInv'
    <2>1. Working(t)' <=> Working(t)
        BY <1>11 DEF Working, HandsOff, AtWork
    <2>2. th[t].pc # "forgetting"
        BY <1>11 DEF AtWork
    <2>3. RecordMove(t)
        BY <1>11, <2>1, <2>2 DEF RecordMove
    <2>4. QED
        BY <1>2, <1>11, <2>3
<1>12. ASSUME NEW p \in Product, Take(t, p) PROVE RecordInv'
    <2>1. /\ th'[t].pc = IF th[t].kind \in {"action", "module"} THEN "acting"
                         ELSE IF p \in Wires THEN "wiring" ELSE "pulling"
          /\ th'[t].kind = th[t].kind
          /\ th'[t].items = th[t].items /\ th'[t].done = th[t].done
          /\ th'[t].bad = th[t].bad /\ th'[t].at = p
          /\ \A u \in Threads \ {t} : th'[u] = th[u]
        BY <1>1, <1>12 DEF Take, TypeOK
    <2>2. th'[t].pc \in {"acting", "wiring", "pulling"} /\ th[t].pc = "next"
        BY <1>12, <2>1 DEF Take
    <2>3. RowInv(th'[t])
        <3>1. th[t].kind \in Kind /\ ~HandsOff(th[t]) /\ ~HandsOff(th'[t])
            BY <1>1, <2>1, <2>2 DEF RowInv, HandsOff
        <3>2. /\ p \in th[t].items \ th[t].done
              /\ p = Slop => th[t].items \ th[t].done = {Slop}
            BY <1>12 DEF Take
        <3>3. QED
            BY <1>1, <2>1, <2>2, <3>1, <3>2 DEF RowInv, AtWork, Kind
    <2>4. th'[t].pc \in AtWork \cup {"forgetting"} /\ th[t].pc \in AtWork \cup {"next"}
        BY <2>2 DEF AtWork
    <2>5. QED
        BY <1>11, <1>12, <2>1, <2>3, <2>4 DEF Take
<1>13. CASE WireUp(t)
    <2> DEFINE place == IF th[t].at = Slop THEN "spawning" ELSE "pulling"
    <2>1. /\ th'[t].pc = place /\ th'[t].kind = th[t].kind
          /\ th'[t].items = th[t].items /\ th'[t].done = th[t].done
          /\ th'[t].bad = th[t].bad /\ th'[t].at = th[t].at
          /\ \A u \in Threads \ {t} : th'[u] = th[u]
        BY <1>1, <1>13, Goes DEF WireUp
    <2>2. (HandsOff(th[t]) => place = "spawning")
          /\ (~HandsOff(th[t]) /\ place = "spawning" => th[t].kind = "all")
        BY <1>1, <1>13 DEF WireUp, RowInv, HandsOff, AtWork
    <2>3. (HandsOff(th'[t]) <=> HandsOff(th[t])) /\ th[t].pc = "wiring" /\ th[t].kind \in Kind
        BY <1>1, <1>13, <2>1 DEF WireUp, HandsOff, RowInv
    <2>4. RowInv(th'[t])
        BY <1>1, <2>1, <2>2, <2>3 DEF RowInv, AtWork
    <2>5. place \in AtWork \cup {"forgetting"} /\ th[t].pc \in AtWork \cup {"next"}
        BY <2>3 DEF AtWork
    <2>6. QED
        BY <1>11, <1>13, <2>1, <2>4, <2>5 DEF WireUp
<1>14. ASSUME NEW ok \in BOOLEAN, ItemDone(t, ok),
              th[t].pc \in {"pulling", "building", "acting"}
       PROVE  RecordInv'
    <2> DEFINE done == th[t].done \cup {th[t].at}
               bad  == IF ok THEN th[t].bad ELSE th[t].bad \cup {th[t].at}
               pc   == IF done = th[t].items THEN "releasing" ELSE "next"
    <2>1. /\ th'[t].pc = pc /\ th'[t].kind = th[t].kind
          /\ th'[t].items = th[t].items /\ th'[t].done = done
          /\ th'[t].bad = bad /\ th'[t].at = th[t].at
          /\ \A u \in Threads \ {t} : th'[u] = th[u]
        BY <1>1, <1>14 DEF ItemDone, TypeOK
    <2>2. /\ ~HandsOff(th[t]) /\ th[t].kind \in Kind
          /\ th[t].done \subseteq th[t].items /\ th[t].at \in th[t].items \ th[t].done
        BY <1>1, <1>14 DEF RowInv, AtWork
    <2>3. job' = IF job = NoJob THEN job
                 ELSE [job EXCEPT !.done = done, !.bad = bad,
                                  !.state = Outcome(done, bad, th[t].items)]
        BY <1>14 DEF ItemDone
    <2>4. ~HandsOff(th'[t]) /\ pc \in {"releasing", "next"} /\ done \subseteq th[t].items
        BY <2>1, <2>2 DEF HandsOff
    <2>5. pc = "next" => done # th[t].items
        OBVIOUS
    <2> HIDE DEF done, bad, pc
    <2>6. RowInv(th'[t])
        BY <1>1, <2>1, <2>2, <2>4, <2>5 DEF RowInv, AtWork
    <2>7. Working(t) /\ th[t].pc # "forgetting"
        BY <1>14, <2>2 DEF Working
    <2>8. RecordMove(t)
        <3>1. CASE job = NoJob
            BY <2>3, <3>1 DEF RecordMove
        <3>2. CASE job # NoJob
            <4>1. job = [state |-> "running", items |-> th[t].items,
                         done |-> th[t].done, bad |-> th[t].bad, raised |-> FALSE]
                BY <2>7, <3>2 DEF RecordInv, Recorded
            <4>2. job' = [state |-> Outcome(done, bad, th[t].items), items |-> th[t].items,
                          done |-> done, bad |-> bad, raised |-> FALSE]
                BY <2>3, <3>2, <4>1
            <4>3. job' # NoJob
                BY <4>2 DEF NoJob
            <4>4. CASE done = th[t].items
                <5>1. pc = "releasing"
                    BY <4>4 DEF pc
                <5>2. ~Working(t)'
                    BY <2>1, <5>1 DEF Working
                <5>3. /\ job'.state \in {"succeeded", "failed"} /\ job'.done = job'.items
                      /\ job'.state = "succeeded" <=> job'.bad = {}
                    BY <4>2, <4>4 DEF Outcome
                <5>4. QED
                    BY <2>7, <4>3, <5>2, <5>3 DEF RecordMove, Accounted
            <4>5. CASE done # th[t].items
                <5>1. pc = "next"
                    BY <4>5 DEF pc
                <5>2. Working(t)' /\ th'[t].pc # "forgetting"
                    BY <2>1, <2>4, <5>1 DEF Working
                <5>3. job' = [state |-> "running", items |-> th'[t].items,
                              done |-> th'[t].done, bad |-> th'[t].bad, raised |-> FALSE]
                    BY <2>1, <4>2, <4>5 DEF Outcome
                <5>4. QED
                    BY <2>7, <4>3, <5>2, <5>3 DEF RecordMove
            <4>6. QED
                BY <4>4, <4>5
        <3>3. QED
            BY <3>1, <3>2
    <2>9. QED
        BY <1>2, <2>1, <2>6, <2>8
<1>15. CASE PullFails(t)
    BY <1>14, <1>15 DEF PullFails
<1>16. CASE Pulls(t)
    <2>1. /\ th'[t].pc = "building" /\ th'[t].kind = th[t].kind
          /\ th'[t].items = th[t].items /\ th'[t].done = th[t].done
          /\ th'[t].bad = th[t].bad /\ th'[t].at = th[t].at
          /\ \A u \in Threads \ {t} : th'[u] = th[u]
        BY <1>1, <1>16, Goes DEF Pulls
    <2>2. RowInv(th'[t])
        BY <1>1, <1>16, <2>1 DEF Pulls, RowInv, AtWork, HandsOff
    <2>3. QED
        BY <1>11, <1>16, <2>1, <2>2 DEF Pulls, AtWork
<1>17. ASSUME NEW ok \in BOOLEAN, Finishes(t, ok) PROVE RecordInv'
    BY <1>14, <1>17 DEF Finishes
<1>18. ASSUME NotStarted(t), th[t].pc \in {"spawning", "removed"} PROVE RecordInv'
    <2>1. /\ th'[t].pc = "releasing" /\ th'[t].kind = th[t].kind
          /\ th'[t].items = th[t].items /\ th'[t].done = th[t].done
          /\ th'[t].bad = th[t].bad /\ th'[t].at = th[t].at
          /\ \A u \in Threads \ {t} : th'[u] = th[u]
        BY <1>1, <1>18 DEF NotStarted, TypeOK
    <2>2. RowInv(th'[t])
        BY <1>1, <1>18, <2>1 DEF RowInv, AtWork, HandsOff
    <2>3. ~Working(t)'
        BY <2>1 DEF Working
    <2>4. CASE HandsOff(th[t])
        <3>1. job' = job
            BY <1>18, <2>4 DEF NotStarted, HandsOff
        <3>2. QED
            BY <1>3, <2>1, <2>2, <2>4, <3>1
    <2>5. CASE ~HandsOff(th[t])
        <3>1. Working(t) /\ th[t].kind = "all" /\ th[t].pc # "forgetting"
            BY <1>1, <1>18, <2>5 DEF Working, RowInv
        <3>2. CASE job = NoJob
            <4>1. job' = NoJob
                BY <1>18, <3>2 DEF NotStarted
            <4>2. QED
                BY <1>2, <2>1, <2>2, <4>1 DEF RecordMove
        <3>3. CASE job # NoJob
            <4>1. job = [state |-> "running", items |-> th[t].items,
                         done |-> th[t].done, bad |-> th[t].bad, raised |-> FALSE]
                BY <3>1, <3>3 DEF RecordInv, Recorded
            <4>2. job' = [state |-> "running", items |-> th[t].items,
                          done |-> th[t].done \cup {Slop},
                          bad |-> th[t].bad \cup {Slop}, raised |-> FALSE]
                BY <1>18, <3>1, <3>3, <4>1 DEF NotStarted
            <4>3. job' # NoJob /\ job'.state = "running" /\ Slop \in job'.bad
                BY <4>2 DEF NoJob
            <4>4. RecordMove(t)
                BY <2>3, <3>1, <4>3 DEF RecordMove
            <4>5. QED
                BY <1>2, <2>1, <2>2, <4>4
        <3>4. QED
            BY <3>2, <3>3
    <2>6. QED
        BY <2>4, <2>5
<1>19. CASE NoImage(t)
    BY <1>18, <1>19 DEF NoImage
<1>20. CASE RemoveHelper(t)
    <2>1. /\ th'[t].pc = "removed" /\ th'[t].kind = th[t].kind
          /\ th'[t].items = th[t].items /\ th'[t].done = th[t].done
          /\ th'[t].bad = th[t].bad /\ th'[t].at = th[t].at
          /\ \A u \in Threads \ {t} : th'[u] = th[u]
        BY <1>1, <1>20, Goes DEF RemoveHelper
    <2>2. RowInv(th'[t])
        BY <1>1, <1>20, <2>1 DEF RemoveHelper, RowInv, AtWork, HandsOff
    <2>3. QED
        BY <1>11, <1>20, <2>1, <2>2 DEF RemoveHelper, AtWork
<1>21. ASSUME NEW ok \in BOOLEAN, RunHelper(t, ok) PROVE RecordInv'
    <2>1. th[t].pc = "removed"
        BY <1>21 DEF RunHelper
    <2>2. CASE ok
        <3>1. Goto(t, "started") /\ job' = job
            BY <1>21, <2>2 DEF RunHelper
        <3>2. /\ th'[t].pc = "started" /\ th'[t].kind = th[t].kind
              /\ th'[t].items = th[t].items /\ th'[t].done = th[t].done
              /\ th'[t].bad = th[t].bad /\ th'[t].at = th[t].at
              /\ \A u \in Threads \ {t} : th'[u] = th[u]
            BY <1>1, <3>1, Goes
        <3>3. RowInv(th'[t])
            BY <1>1, <2>1, <3>2 DEF RowInv, AtWork, HandsOff
        <3>4. QED
            BY <1>11, <2>1, <3>1, <3>2, <3>3 DEF AtWork
    <2>3. CASE ~ ok
        <3>1. NotStarted(t)
            BY <1>21, <2>3 DEF RunHelper
        <3>2. QED
            BY <1>18, <2>1, <3>1
    <2>4. QED
        BY <2>2, <2>3
<1>27. CASE SpawnRaises(t)
    <2>1. th[t].pc \in {"spawning", "removed"}
        BY <1>27 DEF SpawnRaises
    <2>2. CASE th[t].kind # "all"
        <3>1. Rest(t) /\ job' = job
            BY <1>27, <2>2 DEF SpawnRaises
        <3>2. HandsOff(th[t])
            BY <1>1, <2>1, <2>2 DEF RowInv
        <3>3. th'[t] = Resting /\ RowInv(th'[t]) /\ \A u \in Threads \ {t} : th'[u] = th[u]
            BY <1>1, <3>1, Rests
        <3>4. QED
            BY <1>3, <3>1, <3>2, <3>3 DEF Resting
    <2>3. CASE th[t].kind = "all"
        <3>1. /\ Goto(t, "releasing")
              /\ job' = IF job = NoJob THEN job
                        ELSE [job EXCEPT !.state = "failed", !.raised = TRUE]
            BY <1>27, <2>3 DEF SpawnRaises
        <3>2. /\ th'[t].pc = "releasing" /\ th'[t].kind = th[t].kind
              /\ th'[t].items = th[t].items /\ th'[t].done = th[t].done
              /\ th'[t].bad = th[t].bad /\ th'[t].at = th[t].at
              /\ \A u \in Threads \ {t} : th'[u] = th[u]
            BY <1>1, <3>1, Goes
        <3>3. ~HandsOff(th[t]) /\ ~HandsOff(th'[t])
            BY <2>3, <3>2 DEF HandsOff
        <3>4. RowInv(th'[t])
            BY <1>1, <2>1, <3>2, <3>3 DEF RowInv, AtWork
        <3>5. Working(t) /\ ~Working(t)' /\ th[t].pc # "forgetting"
            BY <2>1, <3>2, <3>3 DEF Working
        <3>6. RecordMove(t)
            <4>1. CASE job = NoJob
                BY <3>1, <4>1 DEF RecordMove
            <4>2. CASE job # NoJob
                <5>1. job = [state |-> "running", items |-> th[t].items,
                             done |-> th[t].done, bad |-> th[t].bad, raised |-> FALSE]
                    BY <3>5, <4>2 DEF RecordInv, Recorded
                <5>2. job' = [state |-> "failed", items |-> th[t].items,
                              done |-> th[t].done, bad |-> th[t].bad, raised |-> TRUE]
                    BY <3>1, <4>2, <5>1
                <5>3. th[t].items \ th[t].done = {Slop}
                    BY <1>1, <2>1, <3>3 DEF RowInv, AtWork
                <5>4. job' # NoJob /\ Accounted(job') /\ job'.state # "running"
                    BY <5>2, <5>3 DEF NoJob, Accounted
                <5>5. QED
                    BY <3>5, <5>4 DEF RecordMove
            <4>3. QED
                BY <4>1, <4>2
        <3>7. QED
            BY <1>2, <3>2, <3>4, <3>6
    <2>4. QED
        BY <2>2, <2>3
<1>22. CASE Invalidate(t)
    <2> DEFINE place == IF th[t].kind = "all" THEN "forgetting" ELSE "handing"
    <2>1. /\ th'[t].pc = place /\ th'[t].kind = th[t].kind
          /\ th'[t].items = th[t].items /\ th'[t].done = th[t].done
          /\ th'[t].bad = th[t].bad /\ th'[t].at = th[t].at
          /\ \A u \in Threads \ {t} : th'[u] = th[u]
        BY <1>1, <1>22, Goes DEF Invalidate
    <2>2. RowInv(th'[t])
        BY <1>1, <1>22, <2>1 DEF Invalidate, RowInv, AtWork, HandsOff
    <2>3. CASE th[t].kind = "all"
        BY <1>11, <1>22, <2>1, <2>2, <2>3 DEF Invalidate, AtWork
    <2>4. CASE th[t].kind # "all"
        <3>1. HandsOff(th[t])
            BY <1>1, <1>22, <2>4 DEF Invalidate, RowInv
        <3>2. QED
            BY <1>3, <1>22, <2>1, <2>2, <2>4, <3>1 DEF Invalidate
    <2>5. QED
        BY <2>3, <2>4
<1>23. CASE Forget(t)
    <2>1. job' = NoJob /\ th[t].pc = "forgetting"
        BY <1>23 DEF Forget
    <2>2. CASE Goto(t, "releasing")
        <3>1. /\ th'[t].pc = "releasing" /\ th'[t].kind = th[t].kind
              /\ th'[t].items = th[t].items /\ th'[t].done = th[t].done
              /\ th'[t].bad = th[t].bad /\ th'[t].at = th[t].at
              /\ \A u \in Threads \ {t} : th'[u] = th[u]
            BY <1>1, <2>2, Goes
        <3>2. RowInv(th'[t])
            BY <1>1, <2>1, <3>1 DEF RowInv, AtWork, HandsOff
        <3>3. QED
            BY <1>2, <2>1, <3>1, <3>2 DEF RecordMove
    <2>3. CASE Rest(t)
        BY <1>1, <1>2, <2>1, <2>3, Rests DEF RecordMove
    <2>4. QED
        BY <1>23, <2>2, <2>3 DEF Forget
<1>24. CASE Release(t)
    <2>1. job' = job
        BY <1>24 DEF Release
    <2>2. CASE th[t].pc = "handing" /\ Goto(t, "forgetting")
        <3>1. /\ th'[t].pc = "forgetting" /\ th'[t].kind = th[t].kind
              /\ th'[t].items = th[t].items /\ th'[t].done = th[t].done
              /\ th'[t].bad = th[t].bad /\ th'[t].at = th[t].at
              /\ \A u \in Threads \ {t} : th'[u] = th[u]
            BY <1>1, <2>2, Goes
        <3>2. HandsOff(th[t]) /\ HandsOff(th'[t])
            BY <1>1, <2>2, <3>1 DEF RowInv, HandsOff
        <3>3. RowInv(th'[t])
            BY <1>1, <2>2, <3>1, <3>2 DEF RowInv, AtWork
        <3>4. QED
            BY <1>3, <2>1, <3>1, <3>2, <3>3
    <2>3. CASE th[t].pc = "releasing" /\ Rest(t)
        <3>1. th'[t] = Resting /\ RowInv(th'[t]) /\ \A u \in Threads \ {t} : th'[u] = th[u]
            BY <1>1, <2>3, Rests
        <3>2. QED
            BY <1>3, <2>1, <2>3, <3>1 DEF Resting
    <2>4. QED
        BY <1>24, <2>2, <2>3 DEF Release
<1>25. QED
    BY <1>5, <1>6, <1>7, <1>8, <1>9, <1>10, <1>12, <1>13, <1>15, <1>16, <1>17, <1>19,
       <1>20, <1>21, <1>22, <1>23, <1>24, <1>26, <1>27 DEF Step

\* Every step keeps the record true.
LEMMA RecordStep == LockInv /\ RecordInv /\ [Next]_vars => RecordInv'
<1> SUFFICES ASSUME LockInv, RecordInv, [Next]_vars PROVE RecordInv'
    OBVIOUS
<1>1. TypeOK /\ LockHasOneOwner
    BY DEF LockInv
<1>2. ASSUME NEW t \in Threads, \A u \in Threads \ {t} : th'[u] = th[u], RowInv(th'[t]),
             job' = job, th[t].pc = "idle", th'[t].pc \in {"idle", "asking"}
      PROVE  RecordInv'
    <2>1. ~Working(t) /\ ~Working(t)'
        BY <1>2 DEF Working
    <2>2. RecordMove(t)
        BY <1>2, <2>1 DEF RecordMove
    <2>3. QED
        BY <1>1, <1>2, <2>2, RecordMoves
<1>3. ASSUME NEW t \in Thread, NEW task \in Tasks, Request(t, task) PROVE RecordInv'
    <2> DEFINE row == [Resting EXCEPT !.pc = "asking", !.kind = task.kind,
                                      !.items = task.items]
    <2>1. t \in Threads
        BY DEF Threads
    <2>2. th'[t] = row /\ \A u \in Threads \ {t} : th'[u] = th[u]
        BY <1>1, <1>3, <2>1 DEF Request, TypeOK
    <2>3. row.pc = "asking" /\ RowInv(row)
        BY TaskRow DEF Resting, RowInv, HandsOff, AtWork
    <2> HIDE DEF row
    <2>4. QED
        BY <1>2, <1>3, <2>1, <2>2, <2>3 DEF Request
<1>4. CASE Poll
    <2>1. Console \in Threads /\ RowInv(th[Console])
        BY DEF Threads, RecordInv
    <2>2. CASE Goto(Console, "asking")
        <3>1. /\ th'[Console].pc = "asking" /\ th'[Console].kind = th[Console].kind
              /\ th'[Console].items = th[Console].items
              /\ th'[Console].done = th[Console].done
              /\ th'[Console].bad = th[Console].bad /\ th'[Console].at = th[Console].at
              /\ \A u \in Threads \ {Console} : th'[u] = th[u]
            BY <1>1, <2>1, <2>2, Goes
        <3>2. RowInv(th'[Console])
            BY <1>4, <2>1, <3>1 DEF Poll, RowInv, HandsOff, AtWork
        <3>3. QED
            BY <1>2, <1>4, <2>1, <3>1, <3>2 DEF Poll
    <2>3. CASE th' = th
        BY <1>2, <1>4, <2>1, <2>3 DEF Poll
    <2>4. QED
        BY <1>4, <2>2, <2>3 DEF Poll
<1>5. ASSUME NEW t \in Threads, Step(t) PROVE RecordInv'
    BY <1>5, RecordThread
\* Nothing outside the process touches its threads or its record.
<1>6. ASSUME th' = th, job' = job PROVE RecordInv'
    BY <1>6 DEF RecordInv, Recorded, Working, OutcomeCoversAll, RunningIsWorkedOn
<1>7. ASSUME NEW ok \in BOOLEAN, HelperExits(ok) PROVE RecordInv'
    BY <1>6, <1>7 DEF HelperExits
<1>8. CASE ResultExpires
    BY <1>6, <1>8 DEF ResultExpires
<1>9. CASE MemoExpires
    BY <1>6, <1>9 DEF MemoExpires
<1>10. CASE UpdaterRestarts
    <2>1. RowInv(Resting)
        BY DEF RowInv, Resting, Kind, HandsOff, AtWork
    <2>2. \A t \in Threads : th'[t] = Resting
        BY <1>10 DEF UpdaterRestarts
    <2>3. \A t \in Threads : ~Working(t)'
        BY <2>2 DEF Working, Resting
    <2>4. job' = NoJob /\ NoJob.state # "running"
        BY <1>10 DEF UpdaterRestarts, NoJob
    <2>5. QED
        BY <2>1, <2>2, <2>3, <2>4 DEF RecordInv, OutcomeCoversAll, RunningIsWorkedOn
<1>11. CASE UNCHANGED vars
    BY <1>6, <1>11 DEF vars
<1>12. QED
    BY <1>3, <1>4, <1>5, <1>7, <1>8, <1>9, <1>10, <1>11 DEF Next

\* The lock and the record together hold throughout.
LEMMA RecordInvariant == Spec => [](LockInv /\ RecordInv)
<1>1. QED
    BY LockInit, LockStep, RecordInit, RecordStep, PTL DEF Spec

\* A job that reports an outcome has attempted every product it was given, and
\* reports success exactly when none failed; the one whose hand-off docker did not
\* answer lacks slop alone and reports failure.  This whatever other threads start,
\* hand off or clear meanwhile (_queue_worker, _set).
THEOREM OutcomesCoverAll == Spec => []OutcomeCoversAll
<1>1. RecordInv => OutcomeCoversAll
    BY DEF RecordInv
<1>2. QED
    BY RecordInvariant, <1>1, PTL

\* A record that says "running" belongs to a thread at work, but for what an
\* update-all leaves when slop's helper would not start.
THEOREM RunningJobsAreWorkedOn == Spec => []RunningIsWorkedOn
<1>1. RecordInv => RunningIsWorkedOn
    BY DEF RecordInv
<1>2. QED
    BY RecordInvariant, <1>1, PTL

=============================================================================
