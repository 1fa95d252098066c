----------------------------- MODULE UpdatesPage -----------------------------
(***************************************************************************)
(* Administration's updates page watching a job of the updater through the *)
(* restarts that the job brings about (the script of _updates_page in      *)
(* idp/app.py, its handlers, and updates.py between them and the updater). *)
(*                                                                         *)
(* The page runs one callback at a time: an event, a timer, or the answer  *)
(* to a request.  A request is asked, served, and its answer delivered; in *)
(* between everything else may happen, and answers overtake each other.    *)
(* Which jobs the updater runs and how they end is UpdaterJobs; here a job *)
(* is [self, state], one at a time, and the page is one of several         *)
(* consoles.  Of the table, busy says that a row was marked as being       *)
(* updated; what a row says otherwise is UpdaterRules.                     *)
(***************************************************************************)
EXTENDS Naturals, FiniteSets, Bags

CONSTANTS
    MaxTries,    \* times that load tries again: 5
    MaxJobs,     \* bound: jobs
    MaxOutages,  \* bound: outages
    MaxChecks,   \* bound: presses of "Check now" and of "Update now"
    None

ASSUME PageAssumption ==
    MaxTries \in Nat /\ MaxJobs \in Nat /\ MaxOutages \in Nat /\ MaxChecks \in Nat

VARIABLES
    job,      \* external: what the updater answers of its job, or None
    jobs,     \* how many there have been
    service,  \* external: "up", "updater" is out of reach of the IdP, or the IdP is "down"
    outages,
    session,  \* whether the browser's session is a superuser's
    page,     \* the page's variables
    net,      \* a bag of requests, with their answers
    presses

hostVars == <<job, jobs, service, outages, session>>
vars == <<hostVars, page, net, presses>>

Running(j) == j # None /\ j.state = "running"

Request(what) == [what |-> what, self |-> FALSE, answer |-> None]

One(r) == SetToBag({r})

Pending(what) == {r \in BagToSet(net) : r.what = what}

\* The document as it is served: its script loads the status.
FreshPage ==
    [at |-> "page", watching |-> FALSE, timer |-> FALSE, self |-> FALSE, last |-> None,
     busy |-> FALSE, fail |-> FALSE, tries |-> 0, retry |-> FALSE, reload |-> FALSE]

Login == [FreshPage EXCEPT !.at = "login"]

Init ==
    /\ job = None /\ jobs = 0 /\ service = "up" /\ outages = 0 /\ session = TRUE
    /\ page = FreshPage /\ net = One(Request("load")) /\ presses = 0

-----------------------------------------------------------------------------
(* The host *)

\* A job that this page or another console was granted.
StartJob(self) == job' = [self |-> self, state |-> "running"] /\ jobs' = jobs + 1

OtherConsole(self) ==
    /\ service = "up" /\ ~Running(job) /\ jobs < MaxJobs
    /\ StartJob(self)
    /\ UNCHANGED <<service, outages, session, page, net, presses>>

JobEnds(outcome) ==
    /\ Running(job)
    /\ job' = [job EXCEPT !.state = outcome]
    /\ UNCHANGED <<jobs, service, outages, session, page, net, presses>>

\* RESULT_TTL has passed since the helper ended.
ResultAgesOut ==
    /\ job # None /\ job.self /\ ~Running(job)
    /\ job' = None
    /\ UNCHANGED <<jobs, service, outages, session, page, net, presses>>

Outage(what) ==
    /\ service = "up" /\ outages < MaxOutages
    /\ service' = what /\ outages' = outages + 1
    /\ UNCHANGED <<job, jobs, session, page, net, presses>>

\* Whatever was out of reach may have been restarted meanwhile: a job that was only in
\* the updater's memory, and the session, may be gone.
ServiceReturns(jobKept, sessionKept) ==
    /\ service # "up"
    /\ service' = "up"
    /\ job' = IF job # None /\ ~job.self /\ ~jobKept THEN None ELSE job
    /\ session' = (session /\ (sessionKept \/ service = "updater"))
    /\ UNCHANGED <<jobs, outages, page, net, presses>>

-----------------------------------------------------------------------------
(* The page's functions, from one state of it to the next *)

\* stopWatch
StopWatch(p) == [p EXCEPT !.timer = FALSE, !.watching = FALSE]

BugStartWatch(p, self) == [p EXCEPT !.self = @ \/ self, !.watching = TRUE, !.timer = TRUE]

\* startWatch: one chain of polls, however often it is called
StartWatch(p, self) ==
    IF p.watching THEN [p EXCEPT !.self = @ \/ self]
    ELSE [p EXCEPT !.self = @ \/ self, !.watching = TRUE, !.timer = TRUE]

\* showJob and markRowBusy
ShowJob(p, j) == [p EXCEPT !.last = j, !.busy = @ \/ Running(j)]

\* reachable, and paint: fmtRow for every row, and the job there is
Paint(p, j) ==
    LET q == [p EXCEPT !.tries = 0, !.retry = FALSE, !.fail = FALSE, !.busy = FALSE]
    IN  IF j = None THEN q
        ELSE IF Running(j) THEN StartWatch(ShowJob(q, j), j.self) ELSE ShowJob(q, j)

\* unreachable: a row that says "Updating..." goes on saying so
Unreachable(p) ==
    [p EXCEPT !.fail = TRUE, !.tries = IF @ < MaxTries THEN @ + 1 ELSE @,
              !.retry = @ \/ p.tries < MaxTries]

BugUnreachableJob(p) == [(IF p.last = None THEN p ELSE ShowJob(p, p.last)) EXCEPT !.timer = FALSE]

\* unreachableJob: never gives up
UnreachableJob(p) == [(IF p.last = None THEN p ELSE ShowJob(p, p.last)) EXCEPT !.timer = TRUE]

\* pollOnce's answer of a job that ended, and finishJob
FinishJob(p, j) ==
    [StopWatch(ShowJob(p, j)) EXCEPT
        !.self = FALSE, !.reload = @ \/ (j.state = "succeeded" /\ (p.self \/ j.self))]

Others(r) == net (-) One(r)

\* location.reload(): everything under way is gone; without a session the page is
\* the login page.
Reload ==
    IF session
    THEN page' = FreshPage /\ net' = One(Request("load"))
    ELSE page' = Login /\ net' = EmptyBag

-----------------------------------------------------------------------------
(* Requests *)

Press ==
    /\ page.at = "page" /\ presses < MaxChecks /\ presses' = presses + 1

\* "Check now", whose button is disabled while its load lasts
CheckNow ==
    /\ Press /\ Pending("check") = {}
    /\ net' = net (+) One(Request("check"))
    /\ UNCHANGED <<hostVars, page>>

\* startUpdate, startUpdateAll and a control's button; each row has its own
PressUpdate(self) ==
    /\ Press
    /\ net' = net (+) One([Request("post") EXCEPT !.self = self])
    /\ UNCHANGED <<hostVars, page>>

PollTimer ==
    /\ page.timer
    /\ page' = [page EXCEPT !.timer = FALSE]
    /\ net' = net (+) One(Request("poll"))
    /\ UNCHANGED <<hostVars, presses>>

RetryTimer ==
    /\ page.retry
    /\ page' = [page EXCEPT !.retry = FALSE]
    /\ net' = net (+) One(Request("load"))
    /\ UNCHANGED <<hostVars, presses>>

\* Four seconds after a successful update of SLOP.
ReloadTimer ==
    /\ page.reload /\ service = "up"
    /\ Reload
    /\ UNCHANGED <<hostVars, presses>>

\* updates._call and those that call it: an updater that cannot be asked is an error
\* in an answer of its own.
Relayed == IF service = "up" THEN "ok" ELSE "error"

\* The handlers of the IdP: a request is refused without a session, and a job is told
\* as it is at that time.
Serve(r) ==
    LET answer == IF service = "down" THEN "unreachable"
                  ELSE IF ~session THEN "denied" ELSE Relayed
        granted == answer = "ok" /\ r.what = "post" /\ ~Running(job) /\ jobs < MaxJobs
        told == [result |-> IF r.what = "post" /\ answer = "ok" /\ ~granted
                            THEN "refused" ELSE answer,
                 job |-> job]
    IN  /\ r.answer = None
        /\ net' = Others(r) (+) One([r EXCEPT !.answer = told])
        /\ IF granted THEN StartJob(r.self) ELSE UNCHANGED <<job, jobs>>
        /\ UNCHANGED <<service, outages, session, page, presses>>

Loads == Pending("load") \cup Pending("check")

\* The answer to load
LoadAnswered(r) ==
    LET a == r.answer
    IN  /\ r \in Loads /\ a # None
        /\ page' = IF a.result = "ok" THEN Paint(page, a.job) ELSE Unreachable(page)
        /\ net' = Others(r)
        /\ UNCHANGED <<hostVars, presses>>

\* The answer to startUpdate
PostAnswered(r) ==
    LET a == r.answer
    IN  /\ r.what = "post" /\ a # None
        /\ page' = IF a.result = "ok" THEN StartWatch(page, r.self) ELSE page
        /\ net' = Others(r)
        /\ UNCHANGED <<hostVars, presses>>

\* The answer to pollOnce
PollAnswered(r) ==
    LET a == r.answer
    IN  /\ r.what = "poll" /\ a # None
        /\ \/ a.result = "denied" /\ Reload
           \/ /\ a.result \in {"unreachable", "error"}
              /\ page' = UnreachableJob(page) /\ net' = Others(r)
           \/ /\ a.result = "ok" /\ a.job = None
              /\ page' = StopWatch(page) /\ net' = Others(r) (+) One(Request("load"))
           \/ /\ a.result = "ok" /\ Running(a.job)
              /\ page' = [ShowJob(page, a.job) EXCEPT !.timer = TRUE, !.self = @ \/ a.job.self]
              /\ net' = Others(r)
           \/ /\ a.result = "ok" /\ a.job # None /\ ~Running(a.job)
              /\ page' = FinishJob(page, a.job)
              /\ net' = Others(r) (+) One(Request("load"))
        /\ UNCHANGED <<hostVars, presses>>

\* The operator signs in again and comes back.
SignIn ==
    /\ page.at = "login" /\ service # "down"
    /\ session' = TRUE
    /\ page' = FreshPage /\ net' = One(Request("load"))
    /\ UNCHANGED <<job, jobs, service, outages, presses>>

Next ==
    \/ \E self \in BOOLEAN : OtherConsole(self) \/ PressUpdate(self)
    \/ \E outcome \in {"succeeded", "failed"} : JobEnds(outcome)
    \/ ResultAgesOut
    \/ \E what \in {"updater", "down"} : Outage(what)
    \/ \E jobKept, sessionKept \in BOOLEAN : ServiceReturns(jobKept, sessionKept)
    \/ CheckNow \/ PollTimer \/ RetryTimer \/ ReloadTimer \/ SignIn
    \/ \E r \in BagToSet(net) : Serve(r) \/ LoadAnswered(r) \/ PostAnswered(r) \/ PollAnswered(r)

\* Timers run out, polls are answered, a service that is out comes back, and a job
\* ends: each of its steps has a timeout, which UpdaterJobs qualifies.
Fairness ==
    /\ WF_vars(PollTimer) /\ WF_vars(RetryTimer) /\ WF_vars(ReloadTimer)
    /\ WF_vars(\E r \in Pending("poll") : Serve(r))
    /\ WF_vars(\E r \in Pending("poll") : PollAnswered(r))
    /\ WF_vars(\E jobKept, sessionKept \in BOOLEAN : ServiceReturns(jobKept, sessionKept))
    /\ WF_vars(\E outcome \in {"succeeded", "failed"} : JobEnds(outcome))

Spec == Init /\ [][Next]_vars /\ Fairness

-----------------------------------------------------------------------------
\* While the page watches a job there is exactly one chain of polls, whatever was
\* pressed, painted or answered late meanwhile; and when it neither watches nor is
\* about to read the table again, no row is left "Updating..." unless the page says
\* that it gave up ("a row still saying ... on a page that has finished is the same
\* lie as a spinner that never stops", unreachable).
PageSettles ==
    /\ page.watching <=> page.timer \/ Pending("poll") # {}
    /\ page.timer => Pending("poll") = {}
    /\ \A r, q \in Pending("poll") : r = q /\ net[r] = 1
    /\ ~page.watching /\ ~page.retry /\ Loads = {} =>
         \/ ~page.busy
         \/ page.fail /\ page.tries = MaxTries

\* A watch ends, through restarts of what answers it, with the page as it stands or
\* with a new one ("never worth giving up on, because something on the other side is
\* still holding the result", backoffMs).
WatchEnds == []<>~page.watching

=============================================================================
