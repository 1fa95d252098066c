------------------------------ MODULE Checkouts ------------------------------
(***************************************************************************)
(* The updater and the checkouts it updates: what it remembers of each     *)
(* remote (updater/backend/git.py), the status it gives (app.py), and the  *)
(* pull of an update, by a thread of its own or by the detached helper     *)
(* (jobs.py).  Which requests may start an update and how it is reported   *)
(* is UpdaterJobs; here one runs at a time.                                *)
(*                                                                         *)
(* A checkout's history is a line, and a commit is its number.  The        *)
(* remote is outside: releases arrive, and queries of it fail or answer    *)
(* what it had while they ran.                                             *)
(***************************************************************************)
EXTENDS Naturals

CONSTANTS
    Product, Slop,
    Asker,        \* threads that serve /api/status
    MaxTip,       \* bound: releases of a product
    MaxRestarts,  \* bound: restarts of the updater
    None, NoAnswer

ASSUME CheckoutsAssumption ==
    /\ Slop \in Product
    /\ MaxTip \in Nat /\ MaxRestarts \in Nat
    /\ {None, NoAnswer} \cap (0..MaxTip) = {} /\ None # NoAnswer

VARIABLES
    tip,       \* external: newest release of each remote
    head,      \* HEAD of each checkout
    memo,      \* _remote_cache: what each remote answered, or None
    noticed,   \* _forgotten: a detached pull was noticed
    ask,       \* what each asker is doing
    shown,     \* the row of each product that was answered last
    work,      \* the update in progress
    helper,    \* external: the detached helper's update of SLOP
    restarts

gitVars == <<tip, head, memo, noticed>>
vars == <<gitVars, ask, shown, work, helper, restarts>>

Idle == [at |-> "idle"]

Unshown == [available |-> FALSE, latest |-> 0]

Init ==
    /\ tip = [p \in Product |-> 0] /\ head = [p \in Product |-> 0]
    /\ memo = [p \in Product |-> None]
    /\ noticed = FALSE
    /\ ask = [t \in Asker |-> Idle]
    /\ shown = [p \in Product |-> Unshown]
    /\ work = Idle /\ helper = "none" /\ restarts = 0

-----------------------------------------------------------------------------
(* git.status                                                               *)

\* rev-parse HEAD.  (since: what the remote had then, kept for CheckNowIsCurrent.)
Ask(t, p, fresh) ==
    /\ ask[t] = Idle
    /\ ask' = [ask EXCEPT ![t] = [at |-> "asked", p |-> p, fresh |-> fresh,
                                  cur |-> head[p], since |-> tip[p], sha |-> 0]]
    /\ UNCHANGED <<gitVars, shown, work, helper, restarts>>

\* An answer is at hand that _ls_remote gives without asking.
Remembered(t) == ~ask[t].fresh /\ memo[ask[t].p] # None

LookUp(t) ==
    /\ ask[t].at = "asked" /\ Remembered(t)
    /\ ask' = [ask EXCEPT ![t].sha = memo[ask[t].p],
                          ![t].at = IF memo[ask[t].p] = NoAnswer THEN "failed" ELSE "judging"]
    /\ UNCHANGED <<gitVars, shown, work, helper, restarts>>

\* git ls-remote: what the remote has now, or no answer in time
Query(t, answers) ==
    /\ ask[t].at = "asked" /\ ~Remembered(t)
    /\ ask' = [ask EXCEPT ![t].sha = IF answers THEN tip[ask[t].p] ELSE NoAnswer,
                          ![t].at = "answered"]
    /\ UNCHANGED <<gitVars, shown, work, helper, restarts>>

\* The answer is remembered, whatever happened since it was asked for.
Remember(t) ==
    /\ ask[t].at = "answered"
    /\ memo' = [memo EXCEPT ![ask[t].p] = ask[t].sha]
    /\ ask' = [ask EXCEPT ![t].at = IF ask[t].sha = NoAnswer THEN "failed" ELSE "judging"]
    /\ UNCHANGED <<tip, head, noticed, shown, work, helper, restarts>>

BugBehind(p, latest, cur) == latest # cur

\* _behind: merge-base asks the HEAD there is now
Behind(p, latest, cur) == latest # cur /\ latest > head[p]

\* The row of the product; "couldn't check" shows nothing new.
Judge(t) ==
    /\ ask[t].at \in {"judging", "failed"}
    /\ ask' = [ask EXCEPT ![t] = Idle]
    /\ shown' = IF ask[t].at = "failed" THEN shown ELSE
         [shown EXCEPT ![ask[t].p] =
           [available |-> Behind(ask[t].p, ask[t].sha, ask[t].cur),
            latest |-> ask[t].sha]]
    /\ UNCHANGED <<gitVars, work, helper, restarts>>

BugExpire(p) ==
    /\ memo[p] = NoAnswer
    /\ memo' = [memo EXCEPT ![p] = None]
    /\ UNCHANGED <<tip, head, noticed, ask, shown, work, helper, restarts>>

\* REMOTE_TTL or REMOTE_FAIL_TTL has passed.
Expire(p) ==
    /\ memo[p] # None
    /\ memo' = [memo EXCEPT ![p] = None]
    /\ UNCHANGED <<tip, head, noticed, ask, shown, work, helper, restarts>>

Release(p) ==
    /\ tip[p] < MaxTip
    /\ tip' = [tip EXCEPT ![p] = @ + 1]
    /\ UNCHANGED <<head, memo, noticed, ask, shown, work, helper, restarts>>

-----------------------------------------------------------------------------
(* An update                                                                *)

\* An update of SLOP is the helper's.
Start(p) ==
    /\ work = Idle /\ helper \notin {"pulling", "building"}
    /\ IF p = Slop
       THEN helper' = "pulling" /\ UNCHANGED work
       ELSE work' = [at |-> "pulling", p |-> p] /\ UNCHANGED helper
    /\ UNCHANGED <<gitVars, ask, shown, restarts>>

\* git pull --ff-only, which may fail
Pull(ok) ==
    /\ work.at = "pulling"
    /\ head' = IF ok THEN [head EXCEPT ![work.p] = tip[work.p]] ELSE head
    /\ work' = [at |-> "forgetting", p |-> work.p]
    /\ UNCHANGED <<tip, memo, noticed, ask, shown, helper, restarts>>

\* forget_remote, whether the pull failed or not
Forget ==
    /\ work.at = "forgetting"
    /\ memo' = [memo EXCEPT ![work.p] = None]
    /\ work' = Idle
    /\ UNCHANGED <<tip, head, noticed, ask, shown, helper, restarts>>

\* The helper pulls SLOP's checkout, out of the updater's sight ...
HelperPulls(ok) ==
    /\ helper = "pulling"
    /\ head' = IF ok THEN [head EXCEPT ![Slop] = tip[Slop]] ELSE head
    /\ helper' = IF ok THEN "building" ELSE "failed"
    /\ UNCHANGED <<tip, memo, noticed, ask, shown, work, restarts>>

\* ... and rebuilds, which restarts the updater or leaves its container alone.
HelperBuilds(ok) ==
    /\ helper = "building"
    /\ helper' = IF ok THEN "succeeded" ELSE "failed"
    /\ UNCHANGED <<gitVars, ask, shown, work, restarts>>

\* _forget_after_detached_pull, once in the life of a process
NoticeDetachedPull ==
    /\ helper = "succeeded" /\ ~noticed
    /\ noticed' = TRUE
    /\ memo' = [memo EXCEPT ![Slop] = None]
    /\ UNCHANGED <<tip, head, ask, shown, work, helper, restarts>>

\* The updater restarts: what it remembers and its threads are gone.
Restart ==
    /\ restarts < MaxRestarts /\ restarts' = restarts + 1
    /\ work # Idle \/ noticed \/ \E p \in Product : memo[p] # None
    /\ memo' = [p \in Product |-> None] /\ noticed' = FALSE
    /\ ask' = [t \in Asker |-> Idle] /\ work' = Idle
    /\ UNCHANGED <<tip, head, shown, helper>>

Next ==
    \/ \E t \in Asker :
         \/ \E p \in Product, fresh \in BOOLEAN : Ask(t, p, fresh)
         \/ LookUp(t) \/ Remember(t) \/ Judge(t)
         \/ \E answers \in BOOLEAN : Query(t, answers)
    \/ \E p \in Product : Expire(p) \/ Release(p) \/ Start(p)
    \/ \E ok \in BOOLEAN :
         Pull(ok) \/ HelperPulls(ok) \/ HelperBuilds(ok)
    \/ Forget \/ NoticeDetachedPull \/ Restart

\* The console polls, requests are served, time passes, and a remote that is
\* asked again and again answers.
Fairness ==
    /\ \A t \in Asker :
         /\ \A p \in Product : SF_vars(Ask(t, p, FALSE))
         /\ WF_vars(LookUp(t) \/ Remember(t) \/ Judge(t))
         /\ WF_vars(Query(t, TRUE) \/ Query(t, FALSE))
         /\ \A p \in Product : SF_vars(ask[t] # Idle /\ ask[t].p = p /\ Query(t, TRUE))
    /\ \A p \in Product : WF_vars(Expire(p))

Spec == Init /\ [][Next]_vars /\ Fairness

-----------------------------------------------------------------------------
Commit == 0..MaxTip

\* What an asker that is under way knows.
Asking == [at : {"asked", "answered", "failed", "judging"}, p : Product, fresh : BOOLEAN,
           cur : Commit, since : Commit, sha : Commit \cup {NoAnswer}]

TypeOK ==
    /\ tip \in [Product -> Commit] /\ head \in [Product -> Commit]
    /\ memo \in [Product -> Commit \cup {None, NoAnswer}]
    /\ noticed \in BOOLEAN
    /\ ask \in [Asker -> {Idle} \cup Asking]
    /\ shown \in [Product -> [available : BOOLEAN, latest : Commit]]
    /\ work \in {Idle} \cup [at : {"pulling", "forgetting"}, p : Product]
    /\ helper \in {"none", "pulling", "building", "succeeded", "failed"}
    /\ restarts \in 0..MaxRestarts

\* An update is offered only where there is something to pull: the pull that
\* finished while the status was being worked out is seen, from whatever answer
\* was remembered ("update available" forever, git.py _behind).
OfferIsReal ==
    [][\A p \in Product : shown'[p] # shown[p] /\ shown'[p].available
                            => head[p] < tip[p]]_shown

\* "The console's Check now always asks for a fresh one": its answer is no older
\* than the click, whatever is remembered or being remembered, unless a restart of
\* the updater leaves the question unanswered.
CheckNowIsCurrent ==
    [][\A t \in Asker :
          ask[t].at = "judging" /\ ask[t].fresh /\ ask'[t] = Idle /\ restarts' = restarts
            => ask[t].since <= shown'[ask[t].p].latest]_vars

\* After a pull is over and remembered answers are dropped, what is answered is at
\* least what was pulled ("so the next status reflects what was just fetched
\* rather than a pre-pull answer", git.py forget_remote).
StatusFollowsPull ==
    \A p \in Product :
        memo[p] \in 0..MaxTip /\ work = Idle /\ helper \in {"none", "succeeded"}
          /\ (helper = "succeeded" => noticed) => head[p] <= memo[p]

\* A release that nobody pulls is offered, again and again for as long as the
\* console polls, though queries fail and answers are remembered.
ReleaseIsOffered ==
    \A p \in Product : []<>(shown[p].available \/ head[p] = tip[p])

=============================================================================
