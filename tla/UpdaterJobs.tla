----------------------------- MODULE UpdaterJobs -----------------------------
(***************************************************************************)
(* The updater's jobs (updater/backend/jobs.py and detached.py): starting  *)
(* an update or a lifecycle action under the lock, the worker threads, the *)
(* hand-off of a job that would kill this process to a detached helper     *)
(* container, and the memoised status of that helper.                      *)
(*                                                                         *)
(* Request handlers run on the threads of the server's pool, so unlike in  *)
(* the stores what interleaves are the handlers' own steps: the question   *)
(* to the helper, the lock, the hand-off, the release.  A thread that      *)
(* starts a worker goes on here as that worker, its request being over.    *)
(* The whole process can be restarted at any step, by a crash or by the    *)
(* helper recreating its container: threads, lock, job record and memo are *)
(* lost, the helper is not.                                                *)
(*                                                                         *)
(* Every question to docker may go unanswered: _docker gives up after some *)
(* seconds and raises.  Nothing between there and the request's handler    *)
(* catches that but the update-all's worker.                               *)
(*                                                                         *)
(* Logs, messages, times and actors are left out.  update-all takes slop   *)
(* last and the others in any order.                                       *)
(***************************************************************************)
EXTENDS Integers, FiniteSets

CONSTANTS
    Thread,          \* threads that serve requests to start something
    Console,         \* the thread that serves the console's polling
    Product,         \* ALLOWLIST
    Slop,            \* the product this process belongs to: SELF_AFFECTING
    Wires,           \* WIRES_THE_CONTROLLER
    Tasks,           \* what requests ask for
    MaxRestarts      \* bound: restarts of this process

\* What a request may ask to start.  "module" is an action on one service of
\* slop's stack; acting on the updater itself is refused beforehand.
Kind == {"update", "action", "module", "all"}
Task == {[kind |-> k, items |-> {p}] : k \in {"update", "action"}, p \in Product}
        \cup {[kind |-> "module", items |-> {Slop}]}
        \cup {[kind |-> "all", items |-> S] : S \in (SUBSET Product) \ {{}}}

ASSUME UpdaterAssumption ==
    /\ Console \notin Thread
    /\ Slop \in Wires /\ Wires \subseteq Product
    /\ Tasks \subseteq Task
    /\ MaxRestarts \in Nat

VARIABLES
    th,        \* the threads: where each is and what it knows
    locked,    \* _lock
    job,       \* _job
    helper,    \* the container HELPER, external
    memo,      \* _status_cache
    leaked,    \* history: the lock was left held by a request that is over
    latest,    \* history: which side last started a job
    shown,     \* what the console showed last
    restarts

vars == <<th, locked, job, helper, memo, leaked, latest, shown, restarts>>

-----------------------------------------------------------------------------
NoJob   == [state |-> "none"]
Expired == "expired"

\* A helper that finished longer than RESULT_TTL ago is reported, and treated,
\* as none at all.
HelperState == {"none", "running", "succeeded", "failed"}

Place == {"idle", "asking", "inspected", "checked", "next", "wiring", "pulling",
          "building", "acting", "spawning", "removed", "started", "handing",
          "forgetting", "releasing"}

Resting == [pc |-> "idle", kind |-> "poll", items |-> {}, done |-> {}, bad |-> {},
            at |-> Slop, seen |-> "none"]

Threads == Thread \cup {Console}

Init ==
    /\ th = [t \in Threads |-> Resting]
    /\ locked = FALSE
    /\ job = NoJob
    /\ helper = "none"
    /\ memo = Expired
    /\ leaked = FALSE
    /\ latest = "none"
    /\ shown = "none"
    /\ restarts = 0

Goto(t, place) == th' = [th EXCEPT ![t].pc = place]
Rest(t)        == th' = [th EXCEPT ![t] = Resting]

\* Tasks whose work would recreate this container go to the helper.
HandsOff(task) == task.kind \in {"update", "action"} /\ task.items = {Slop}

-----------------------------------------------------------------------------
(* Asking the helper: detached.status(), behind its memo of a few seconds.  *)

Request(t, task) ==
    /\ th[t].pc = "idle"
    /\ th' = [th EXCEPT ![t] = [Resting EXCEPT !.pc = "asking", !.kind = task.kind,
                                               !.items = task.items]]
    /\ UNCHANGED <<locked, job, helper, memo, leaked, latest, shown, restarts>>

\* current(): the job record, or failing one the helper.
Poll ==
    /\ th[Console].pc = "idle"
    /\ IF job = NoJob
       THEN Goto(Console, "asking") /\ UNCHANGED shown
       ELSE shown' = job.state /\ UNCHANGED th
    /\ UNCHANGED <<locked, job, helper, memo, leaked, latest, restarts>>

\* The caller's use of the answer: start() refuses under a running helper,
\* current() reports it.
Answered(t, st) ==
    /\ IF th[t].kind \in Kind /\ st # "running"
       THEN th' = [th EXCEPT ![t].pc = "checked", ![t].seen = "none"]
       ELSE Rest(t)
    /\ shown' = IF t = Console THEN st ELSE shown

\* status(): a memo that is still fresh answers.
ReadMemo(t) ==
    /\ th[t].pc = "asking"
    /\ memo # Expired
    /\ Answered(t, memo)
    /\ UNCHANGED <<locked, job, helper, memo, leaked, latest, restarts>>

\* status() otherwise asks docker ...
Inspect(t) ==
    /\ th[t].pc = "asking"
    /\ memo = Expired
    /\ th' = [th EXCEPT ![t].pc = "inspected", ![t].seen = helper]
    /\ UNCHANGED <<locked, job, helper, memo, leaked, latest, shown, restarts>>

\* ... and remembers the answer, whatever happened in between.
Remember(t) ==
    /\ th[t].pc = "inspected"
    /\ memo' = th[t].seen
    /\ Answered(t, th[t].seen)
    /\ UNCHANGED <<locked, job, helper, leaked, latest, restarts>>

\* _docker raises in _inspect or logs: the request fails, nothing is remembered.
AskRaises(t) ==
    /\ th[t].pc = "asking"
    /\ memo = Expired
    /\ Rest(t)
    /\ UNCHANGED <<locked, job, helper, memo, leaked, latest, shown, restarts>>

-----------------------------------------------------------------------------
(* start, start_many, start_action, start_module_action: the lock.          *)

\* The refusal names the job in flight, which it asks current() for.
Refuse(t) ==
    /\ th[t].pc = "checked"
    /\ locked
    /\ IF job = NoJob
       THEN th' = [th EXCEPT ![t] = [Resting EXCEPT !.pc = "asking"]]
       ELSE Rest(t)
    /\ UNCHANGED <<locked, job, helper, memo, leaked, latest, shown, restarts>>

\* slop's own update checks the controller's wiring first, an action does not.
AcceptHandOff(t) ==
    /\ th[t].pc = "checked"
    /\ ~ locked
    /\ HandsOff(th[t])
    /\ locked' = TRUE
    /\ Goto(t, IF th[t].kind = "update" THEN "wiring" ELSE "spawning")
    /\ UNCHANGED <<job, helper, memo, leaked, latest, shown, restarts>>

BugAcceptJob(t) ==
    /\ th[t].pc = "checked"
    /\ ~ HandsOff(th[t])
    /\ locked' = TRUE
    /\ job' = [state |-> "running", items |-> th[t].items, done |-> {}, bad |-> {},
               raised |-> FALSE]
    /\ latest' = "thread"
    /\ Goto(t, "next")
    /\ UNCHANGED <<helper, memo, leaked, shown, restarts>>

AcceptJob(t) ==
    /\ th[t].pc = "checked"
    /\ ~ locked
    /\ ~ HandsOff(th[t])
    /\ locked' = TRUE
    /\ job' = [state |-> "running", items |-> th[t].items, done |-> {}, bad |-> {},
               raised |-> FALSE]
    /\ latest' = "thread"
    /\ Goto(t, "next")
    /\ UNCHANGED <<helper, memo, leaked, shown, restarts>>

-----------------------------------------------------------------------------
(* _worker, _queue_worker, _action_worker.                                  *)

\* The next product; update-all sorts slop last.
Take(t, p) ==
    /\ th[t].pc = "next"
    /\ p \in th[t].items \ th[t].done
    /\ p = Slop => th[t].items \ th[t].done = {Slop}
    /\ th' = [th EXCEPT ![t].at = p,
                        ![t].pc = IF th[t].kind \in {"action", "module"} THEN "acting"
                                  ELSE IF p \in Wires THEN "wiring" ELSE "pulling"]
    /\ UNCHANGED <<locked, job, helper, memo, leaked, latest, shown, restarts>>

\* _wire_up, _wire_up_detached: may recreate the Controller; never fatal.
WireUp(t) ==
    /\ th[t].pc = "wiring"
    /\ Goto(t, IF th[t].at = Slop THEN "spawning" ELSE "pulling")
    /\ UNCHANGED <<locked, job, helper, memo, leaked, latest, shown, restarts>>

\* _set: what a worker reports is lost when there is no job record.
Outcome(done, bad, items) ==
    IF done # items THEN "running" ELSE IF bad = {} THEN "succeeded" ELSE "failed"

BugItemDone(t, ok) ==
    LET done == IF ok THEN th[t].done \cup {th[t].at} ELSE th[t].items
        bad  == IF ok THEN th[t].bad ELSE th[t].bad \cup {th[t].at}
    IN  /\ th' = [th EXCEPT ![t].done = done, ![t].bad = bad,
                            ![t].pc = IF done = th[t].items THEN "releasing" ELSE "next"]
        /\ job' = IF job = NoJob THEN job
                  ELSE [job EXCEPT !.done = @ \cup {th[t].at}, !.bad = bad,
                                   !.state = Outcome(done, bad, th[t].items)]
        /\ UNCHANGED <<locked, helper, memo, leaked, latest, shown, restarts>>

\* One product is done; after the last one the job is.
ItemDone(t, ok) ==
    LET done == th[t].done \cup {th[t].at}
        bad  == IF ok THEN th[t].bad ELSE th[t].bad \cup {th[t].at}
    IN  /\ th' = [th EXCEPT ![t].done = done, ![t].bad = bad,
                            ![t].pc = IF done = th[t].items THEN "releasing" ELSE "next"]
        /\ job' = IF job = NoJob THEN job
                  ELSE [job EXCEPT !.done = done, !.bad = bad,
                                   !.state = Outcome(done, bad, th[t].items)]
        /\ UNCHANGED <<locked, helper, memo, leaked, latest, shown, restarts>>

\* _update_one: git pull, and only then the build.
PullFails(t) ==
    /\ th[t].pc = "pulling"
    /\ ItemDone(t, FALSE)

Pulls(t) ==
    /\ th[t].pc = "pulling"
    /\ Goto(t, "building")
    /\ UNCHANGED <<locked, job, helper, memo, leaked, latest, shown, restarts>>

\* The build of an update, or the one command of an action, ends.
Finishes(t, ok) ==
    /\ th[t].pc \in {"building", "acting"}
    /\ ItemDone(t, ok)

-----------------------------------------------------------------------------
(* detached.spawn and what its callers do with the answer.                  *)

BugNotStarted(t) == Rest(t) /\ UNCHANGED job

\* The helper did not start.  The queue worker notes the failure among the
\* products done and returns, leaving the job's state as it is.
NotStarted(t) ==
    /\ th' = [th EXCEPT ![t].pc = "releasing"]
    /\ job' = IF th[t].kind = "all" /\ job # NoJob
              THEN [job EXCEPT !.done = @ \cup {Slop}, !.bad = @ \cup {Slop}]
              ELSE job

\* spawn finds no image to run.
NoImage(t) ==
    /\ th[t].pc = "spawning"
    /\ NotStarted(t)
    /\ UNCHANGED <<locked, helper, memo, leaked, latest, shown, restarts>>

\* docker rm -f HELPER, running or not.
RemoveHelper(t) ==
    /\ th[t].pc = "spawning"
    /\ helper' = "none"
    /\ Goto(t, "removed")
    /\ UNCHANGED <<locked, job, memo, leaked, latest, shown, restarts>>

\* docker run of the helper: it starts, or it does not.
RunHelper(t, ok) ==
    /\ th[t].pc = "removed"
    /\ helper' = IF ok THEN "running" ELSE "none"
    /\ latest' = IF ok THEN "helper" ELSE latest
    /\ IF ok THEN Goto(t, "started") /\ UNCHANGED job ELSE NotStarted(t)
    /\ UNCHANGED <<locked, memo, leaked, shown, restarts>>

\* Docker does not answer in time: asked for the image or to remove the old helper,
\* which it may have done, or to run the new one, which it may have started.  start
\* and start_action let the call raise, past their release of the lock; the queue
\* worker catches it; its message says so, and slop is missing from what was done.
SpawnRaises(t) ==
    /\ \/ th[t].pc = "spawning" /\ helper' \in {helper, "none"}
       \/ th[t].pc = "removed"  /\ helper' \in {"none", "running"}
    /\ latest' = IF helper' = "running" /\ helper # "running" THEN "unanswered" ELSE latest
    /\ IF th[t].kind = "all"
       THEN /\ Goto(t, "releasing")
            /\ job' = IF job = NoJob THEN job ELSE [job EXCEPT !.state = "failed", !.raised = TRUE]
            /\ UNCHANGED leaked
       ELSE Rest(t) /\ leaked' = TRUE /\ UNCHANGED job
    /\ UNCHANGED <<locked, memo, shown, restarts>>

\* _invalidate: the memo describes the world before the helper.
Invalidate(t) ==
    /\ th[t].pc = "started"
    /\ memo' = Expired
    /\ Goto(t, IF th[t].kind = "all" THEN "forgetting" ELSE "handing")
    /\ UNCHANGED <<locked, job, helper, leaked, latest, shown, restarts>>

BugForget(t) ==
    /\ th[t].pc = "forgetting"
    /\ IF th[t].kind = "all" THEN Goto(t, "releasing") ELSE Rest(t)
    /\ UNCHANGED <<locked, job, helper, memo, leaked, latest, shown, restarts>>

\* _job = None: current() reads the helper from here on.  A queue worker does
\* this before it releases the lock, the other starters after.
Forget(t) ==
    /\ th[t].pc = "forgetting"
    /\ job' = NoJob
    /\ IF th[t].kind = "all" THEN Goto(t, "releasing") ELSE Rest(t)
    /\ UNCHANGED <<locked, helper, memo, leaked, latest, shown, restarts>>

Release(t) ==
    /\ th[t].pc \in {"releasing", "handing"}
    /\ locked' = FALSE
    /\ IF th[t].pc = "handing" THEN Goto(t, "forgetting") ELSE Rest(t)
    /\ UNCHANGED <<job, helper, memo, leaked, latest, shown, restarts>>

-----------------------------------------------------------------------------
(* The world outside the process.                                           *)

HelperExits(ok) ==
    /\ helper = "running"
    /\ helper' = IF ok THEN "succeeded" ELSE "failed"
    /\ UNCHANGED <<th, locked, job, memo, leaked, latest, shown, restarts>>

\* Past RESULT_TTL a result is no longer reported.
ResultExpires ==
    /\ helper \in {"succeeded", "failed"}
    /\ helper' = "none"
    /\ UNCHANGED <<th, locked, job, memo, leaked, latest, shown, restarts>>

\* Past _STATUS_TTL.
MemoExpires ==
    /\ memo # Expired
    /\ memo' = Expired
    /\ UNCHANGED <<th, locked, job, helper, leaked, latest, shown, restarts>>

\* This container stops, at whatever point, and starts again.
UpdaterRestarts ==
    /\ restarts < MaxRestarts
    /\ restarts' = restarts + 1
    /\ th' = [t \in Threads |-> Resting]
    /\ locked' = FALSE
    /\ job' = NoJob
    /\ memo' = Expired
    /\ leaked' = FALSE
    /\ UNCHANGED <<helper, latest, shown>>

-----------------------------------------------------------------------------
\* The steps a thread takes on its own once it has been given something to do.
Step(t) ==
    \/ ReadMemo(t)
    \/ Inspect(t)
    \/ AskRaises(t)
    \/ Remember(t)
    \/ Refuse(t)
    \/ AcceptHandOff(t)
    \/ AcceptJob(t)
    \/ \E p \in Product : Take(t, p)
    \/ WireUp(t)
    \/ PullFails(t)
    \/ Pulls(t)
    \/ \E ok \in BOOLEAN : Finishes(t, ok)
    \/ NoImage(t)
    \/ RemoveHelper(t)
    \/ \E ok \in BOOLEAN : RunHelper(t, ok)
    \/ SpawnRaises(t)
    \/ Invalidate(t)
    \/ Forget(t)
    \/ Release(t)

Next ==
    \/ \E t \in Thread, task \in Tasks : Request(t, task)
    \/ Poll
    \/ \E t \in Threads : Step(t)
    \/ \E ok \in BOOLEAN : HelperExits(ok)
    \/ ResultExpires
    \/ MemoExpires
    \/ UpdaterRestarts

\* Threads are scheduled and the commands they run come to an end, the console
\* keeps polling, and the memo's seconds pass.  Docker may fail to answer any
\* question, but not every one of the console's for ever.  Nothing is assumed of
\* requests, of the helper, or of restarts.
Fairness ==
    /\ \A t \in Threads : WF_vars(Step(t))
    /\ WF_vars(Poll)
    /\ WF_vars(MemoExpires)
    /\ SF_vars(Inspect(Console))

Spec == Init /\ [][Next]_vars /\ Fairness

-----------------------------------------------------------------------------
(* Properties.                                                              *)

Job == [state : {"running", "succeeded", "failed"}, items : SUBSET Product,
        done : SUBSET Product, bad : SUBSET Product,
        raised : BOOLEAN]   \* its message is what docker's silence raised

\* The variables keep their types.
TypeOK ==
    /\ th \in [Threads -> [pc : Place, kind : Kind \cup {"poll"}, items : SUBSET Product,
                           done : SUBSET Product, bad : SUBSET Product,
                           at : Product, seen : HelperState]]
    /\ locked \in BOOLEAN
    /\ job \in Job \cup {NoJob}
    /\ helper \in HelperState
    /\ memo \in HelperState \cup {Expired}
    /\ leaked \in BOOLEAN
    /\ latest \in {"none", "thread", "helper", "unanswered"}
    /\ shown \in HelperState
    /\ restarts \in 0 .. MaxRestarts

\* Working as an in-process job, that is between its start and its last report.
Working(t) ==
    /\ th[t].pc \in {"next", "wiring", "pulling", "building", "acting", "spawning",
                     "removed", "started", "forgetting"}
    /\ ~ HandsOff(th[t])

\* Between acquire and release.
Owner(t) ==
    \/ th[t].pc \in {"next", "wiring", "pulling", "building", "acting", "spawning",
                     "removed", "started", "handing", "releasing"}
    \/ th[t].pc = "forgetting" /\ th[t].kind = "all"

\* The lock does its job and is never released by one thread under another: at most
\* one thread is between acquire and release, and the lock is held exactly while one
\* is, or was left held by a request that docker did not answer.  Every path out of
\* every handler and worker, the refusals, failures and hand-offs included, releases
\* what it took, once, but for that one (jobs.py:341, 543), which no one can release.
LockHasOneOwner ==
    /\ \A t, u \in Threads : Owner(t) /\ Owner(u) => t = u
    /\ locked <=> leaked \/ \E t \in Threads : Owner(t)
    /\ leaked => \A t \in Threads : ~ Owner(t)

\* What a job record that is no longer "running" accounts for: every product, and
\* success exactly when none of them failed; or, where its message is that docker did
\* not answer slop's hand-off, every product but slop, and failure.
Accounted(j) ==
    \/ j.done = j.items /\ (j.state = "succeeded" <=> j.bad = {})
    \/ j.raised /\ j.items \ j.done = {Slop} /\ j.state = "failed"

\* One failure does not strand the rest (_queue_worker): a job that reports an
\* outcome has attempted every product it was given.
OutcomeCoversAll == job # NoJob /\ job.state # "running" => Accounted(job)

\* A record that says "running" belongs to a thread still at work, except for
\* the one an update-all leaves behind when slop's helper would not start.
RunningIsWorkedOn ==
    job.state = "running" =>
        (\E t \in Threads : Working(t)) \/ Slop \in job.bad

\* A job record is never left running for ever by a hand-off: whatever says
\* "running" has a thread at work on it.
NoRecordLeftRunning ==
    job.state = "running" => \E t \in Threads : Working(t)

\* One at a time, globally: in-process compose and git commands, and the
\* helper's, never run at the same time.
OneAtATime ==
    LET composing == {t \in Threads :
                        th[t].pc \in {"wiring", "pulling", "building", "acting"}}
    IN  /\ Cardinality(composing) <= 1
        /\ helper = "running" => composing = {}

\* Whoever took the lock lets go of it, unless docker did not answer its hand-off.
LockReleased == locked ~> ~ locked \/ leaked

\* No hand-off leaves updates locked out ("the helper is the lock from here on",
\* jobs.py:342).
LockAlwaysReleased == locked ~> ~ locked

\* The console is not left without the outcome of a self-update: once the helper
\* has finished, the console shows how, whatever was restarted meanwhile, unless
\* the result has expired or something else has been started since.  The helper is
\* one that docker said had started.
ResultReported ==
    \A result \in {"succeeded", "failed"} :
        (helper = result /\ latest = "helper") ~>
            (shown = result \/ helper # result \/ latest # "helper")

\* The same of every helper there is ("the one outcome it should be able to state",
\* current).
EveryResultReported ==
    \A result \in {"succeeded", "failed"} :
        (helper = result /\ latest # "thread") ~>
            (shown = result \/ helper # result \/ latest = "thread")

=============================================================================
