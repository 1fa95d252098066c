# A TLA+ model of the Sysible Linux Operations Platform

These modules model the parts of SLOP whose correctness depends on the order in
which things happen: stores that many agents and operators call at once, jobs
that outlive the process that started them, records that are read in one step and
used in another, pages that outlive the services they ask. Beside them stand the
algorithms that decide something without state of their own. TLC checks them on
small instances; TLAPS proves the most important properties for every value of the
constants. Every definition that models code names its lines in `PROJECT.json` ("map").

- [The system](#the-system)
- [The modules](#the-modules)
- [What is checked](#what-is-checked)
- [What is proved](#what-is-proved)
- [Disagreements found](#disagreements-found)
- [What is not modelled](#what-is-not-modelled)
- [Plan](#plan)

## The system

SLOP is a set of containers behind one gateway. People sign in at the identity
provider; the gateway asks it about every request and passes the user's name and
role on as headers. The applications are FastAPI services; agents on the managed
hosts poll them. Handlers are synchronous functions on the threads of the server's
pool, and each service is one uvicorn process.

| Component | State it keeps | Operations | What makes it correct |
|---|---|---|---|
| **Flashback store** `flashback/backend/store.py` | sqlite: hosts, versions, blobs, restore points and their entries, restore jobs, file restores | ingest a snapshot, queue and acknowledge a file restore, open / fill / seal / delete a restore point, upload a blob, queue / start / finish a machine restore, prune and collect | content that anything names is stored; a sealed restore point is whole and fixed; one restore per machine, of its own point, that outlasts it; history is change-only, bounded, newest first |
| **Flashback HTTP application** `flashback/backend/app.py` | none of its own | agent API (snapshot, manifest, blob, seal, poll, report), operator API and pages, requests for backups through the controller | only identified hosts act, each for itself; every change is recorded in the audit trail |
| **Flashback comparison, audit** `store.py` | the audit table | compare one path across hosts, diff, list | the majority is found as it is documented; a committed change has its record |
| **Flashback console** `flashback/backend/ui.py`, `controller.py` | a selection, a filter, folded environments, in the browser | list, filter and pick hosts; ask for backups | it promises only what was asked of a host, and asks only what was picked |
| **Updater jobs** `updater/backend/jobs.py` | `_lock`, `_job`, worker threads | start an update, an update of all, an action on a product or a service; status | one job at a time; the lock always comes back; an outcome covers every product; a self-update's result is reported |
| **Updater detached helper** `updater/backend/detached.py` | a container, a memo of its status | spawn, status, invalidate | a job that recreates the updater survives it |
| **Updater wiring** `wiring.py` | `.env` of the checkouts | plan and repair the controller's wiring | the repair settles, and leaves a chosen value alone |
| **Updater git state** `git.py` | the checkouts, a memo of remote heads | status, pull, forget | an update is offered when and only when there is one |
| **Updater HTTP application, allowlist** `app.py`, `apps.py` | none of its own | status of products and modules, refusals, order of an update of all | what is offered is accepted, and nothing that is accepted stops the console |
| **Identity provider** `idp/app.py` | sqlite: users, sessions; the throttle of sign-ins, in memory | sign in and out, change password, create / reset / promote / delete accounts, expire sessions, answer the gateway | there is always a superuser; a deleted or demoted account loses its access; nobody is locked in or out by an interleaving |
| **Updates page** `idp/app.py` (script), `idp/updates.py` | a job it watches, timers, requests under way | load, press, poll, retry, reload | one chain of polls; it settles, through restarts of all it asks |
| **Baseline store and runs** `baseline/backend/store.py`, `app.py` | sqlite: states and versions, assignments, runs, event rules | save / delete a state, assign, start a run, agent's desired state and result, drift | a host is given what is assigned to it; a result is recorded once, for its run; drift shows each host's last run |
| **Baseline event rules, salt-call** `eda.py`, `salt.py` | none | parse what salt-call printed; evaluate the rules on it | a rule fires for what was recorded, once a run; an output without states is no success |
| **Baseline state builder** `build.py` | none | from items of a form to Salt's states | what is filled in and accepted is what is shipped |
| **Baseline console** `baseline/backend/ui.py` | what it loaded, the panel of an apply, in the browser | judge hosts and states; apply a state to many hosts | a fault is found from the overview; each host is asked once; the panel ends |
| **Visualizer** `visualizer/backend/` | none: aggregates other services' answers | fetch, combine, judge fleet health, lay out the map | what is missing from the map or the feed for want of a source is said; no host is lost |
| **Gateway** `gateway/Caddyfile` | none | route, forward authentication | every application is behind authentication |
| **Portal, installer, deployment** | none | static pages, shell, compose | |

How they interact: the gateway calls the IdP's `/auth/verify` per request; agents
call Flashback and Baseline; Flashback and Baseline call the controller; the
updater runs `git` and `docker compose` on the host and starts a helper container
that may recreate the updater, the gateway and the IdP under everybody's feet; the
IdP's console polls the updater.

What is hard about it:

- **Two disciplines of concurrency.** Flashback's and Baseline's store functions
  run under one process-wide lock and one transaction each, so calls interleave
  but their steps do not. The updater and the IdP have handlers of several steps
  that interleave with one another.
- **Shared content.** Blobs are content-addressed across hosts, files and restore
  points, with two kinds of referrer (`versions` and `restore_point_entries`) and
  a collection that looks only at what was just let go of.
- **Agents repeat, delay and contradict.** Every agent call may come twice, late,
  or after the row it is about is gone.
- **A job that kills its own supervisor.** Updating SLOP recreates the updater:
  lock, job record and memo vanish while the helper works on.
- **Wall clocks in seconds** order versions and runs.
- **Pages that outlive their answers.** Answers to a page's requests overtake each
  other; several timers and presses start the same watch; lanes of one apply work on
  the panel of another; what answers is restarted by what is being watched.
- **The same decision in several places.** Status, refusals and buttons each decide
  what can be done; a list of items is read, checked and written by code that each
  knows the kinds' fields; verdicts are ranked in several tables.

The complete list, each hazard at its line and with the properties that cover it,
is in `PROJECT.json` ("hazards").

## The modules

| Module | Role |
|---|---|
| `RestorePoints` | abstract specification: what Flashback promises about restore points |
| `FlashbackStore` | the store: state, one action per store function, properties |
| `FlashbackImages` | the refinement mapping from `FlashbackStore` to `RestorePoints` |
| `FlashbackAudit` | the store with its audit trail, written in second transactions |
| `MCFlashbackAudit` | its instance for TLC |
| `FlashbackStoreProofs` | invariants and theorems about `FlashbackStore` and `FlashbackAudit`, and the refinement's proof |
| `MCFlashbackStore` | its instances for TLC |
| `UpdaterJobs` | starting jobs, worker threads, the helper and its memo, restarts |
| `UpdaterJobsProofs` | invariants and theorems about `UpdaterJobs` |
| `MCUpdaterJobs` | its instances for TLC |
| `IdpAccounts` | accounts and sessions: handlers of several transactions, their failures, restarts |
| `IdpAccountsProofs` | invariants and theorems about `IdpAccounts` |
| `MCIdpAccounts` | its instances for TLC |
| `EventRules` | parsing of salt-call's output and evaluation of the rules (operators) |
| `BaselineStore` | Baseline's tables, the handlers that read and write them, and the Controller as their client |
| `BaselineStoreProofs` | invariants and theorems about `BaselineStore`, `EventRules` and `BaselineVerdicts` |
| `BaselineVerdicts` | what the console makes of the tables of `BaselineStore` |
| `MCBaseline` | instances of these for TLC |
| `BaselineApply` | the console's panel that applies a state to many hosts |
| `BaselineApplyProofs` | invariants and theorems about `BaselineApply` |
| `MCBaselineApply` | its instances for TLC |
| `Checkouts` | remotes, checkouts, the memo between them, pulls of threads and of the helper |
| `CheckoutsProofs` | invariants and theorems about `Checkouts` |
| `UpdatesPage` | the updates page watching a job through outages |
| `UpdatesPageProofs` | invariants and a theorem about `UpdatesPage` |
| `Lists` | parts of a list named by their positions, and two functions as one |
| `Wiring`, `StateBuilder`, `UpdaterRules`, `FleetHealth`, `ActivityFeed`, `FlashbackConsole` | algorithms without state: operators, and what their results must be |
| `MCDecisions` | bounded inputs for these six, and the properties of their results |
| `DecisionsProofs` | theorems about these six, for any inputs |

Operators named `Bug...` are the definition that follows them with a slip a
maintainer could make. No specification uses them; they show that each property
can fail (`PROJECT.json`, "mutants").

### FlashbackStore

**State.** `hosts`, `versions` and `blobs` are the tables of those names, as sets.
`points`, `jobs` and `restores` are `restore_points` (with
`restore_point_entries` as the field `files`), `restore_jobs` and `restores`:
their ids are AUTOINCREMENT, so the table is a sequence indexed by id and a
deleted restore point leaves a mark. `captures`
numbers snapshots and stands for the AUTOINCREMENT of `versions`. The code has no
counterpart of `owed`, the uploads that manifest replies have asked for and that
were not made yet: it is a history variable that lets a property speak of what an
agent was told.

**Actions.** Each store function that writes is one action: it holds `_LOCK` and
one sqlite transaction from its first read to its commit, and the image starts one
uvicorn process (`Dockerfile`), so no other store function runs in between, and a
crash leaves either all of it or none of it. `IngestSnapshot` includes the prune
and the collection that each stored version triggers; `DeleteRestorePoint`
includes its collection. One thing is read *before* the lock: the second in which
`ingest_snapshot` was called. Handlers run on the threads of a pool, so a snapshot that
took its time first may commit last, and the clock may be set back besides; `IngestSnapshot`
therefore takes its time `now` from anywhere up to `MaxClock`. The inputs are whatever an identified agent or an
operator can send: any files, any chunk, any blob, any id, at any time and any
number of times.

**Abstractions.** Content is its digest: `put_blob` refuses a body whose digest
is not its name. Sizes, modes, owners, labels and notes decide nothing. A snapshot's files get one
`id` together: ids only break ties between versions of one file.

**The promise.** `RestorePoints` knows no manifests, blobs or jobs: a restore
point becomes, at one instant, an image of a host; the image never changes and is
at last forgotten, never while a host is becoming it; a host becomes one of its own
images at a time. `FlashbackImages` maps a restore point to an image when it is
sealed *and all the content it names is stored*, so collecting a needed blob would
be a step the promise forbids.

### FlashbackAudit

**State.** `audit` is the table, in the order of its ids. `writers` are the records that
handlers are still to write: the local state of those between their two transactions.
`cut` has no counterpart in the code: it remembers the records whose handlers ended before they wrote them.

**Actions.** An audited function is the action of `FlashbackStore` and the start of a
writer; `ack_restore` and `finish_point_restore` start one only when they changed a row.
`LogAudit` is the second transaction. It may fail, and a restart ends all writers. Any other
call may come in between, so the agent's outcome of a restore can be told before the operator's
request. The deletion of a restore point writes nothing, see below.

**Abstractions.** A record is what was done and the id of the row it was done to: time, actor
and wording are left out, and so are the records of requests passed on to the Controller, which are of no row.

### UpdaterJobs

**State.** `th` is where each thread of the server's pool is (`pc`) and what it
has in its local variables; `locked` and `job` are `_lock` and `_job`; `memo` is
`_status_cache`; `helper` is the container `HELPER`, which lives outside the
process. `latest` and `shown` are history variables: which side last started a job
and what the console showed last. A thread that starts a worker goes on in the model as that
worker, since its request is over with the start.

**Actions.** Here a handler is *not* atomic, so each step that reads or writes
something shared is an action: asking the helper (`ReadMemo`, or `Inspect` and
`Remember`), taking the lock (`AcceptJob`, `AcceptHandOff`, `Refuse`), each step
of a worker (`Take`, `WireUp`, `Pulls`, `PullFails`, `Finishes`), each docker call
of `spawn` (`NoImage`, `RemoveHelper`, `RunHelper`, `Invalidate`), docker not answering
one of them in time (`SpawnRaises`, `AskRaises`), clearing the
record (`Forget`) and giving the lock back (`Release`). A hand-off by `start` or
`start_action` releases and then forgets; a queue worker forgets and then
releases, as the code does. `UpdaterRestarts` takes the threads, the lock, the
record and the memo at any moment, and leaves the helper.

Every call of docker has a timeout and raises when that is over, whatever docker did with it
(`_docker`). Nothing catches that in `start` and `start_action`: the request ends with the lock held, which
the history variable `leaked` remembers. The worker of an update of all catches it, and records
a failure that does not name slop, and what was raised as its message (`raised`). `latest` tells such a helper, if docker did start it
(`"unanswered"`), from one that docker said it started.

**Abstractions.** Logs, messages, actors and times are left out. A result older than `RESULT_TTL` is `"none"`, which is what
`status` makes of it.

### IdpAccounts

**State.** `users` and `sessions` are the tables. `th` is where each handler is and
what it has read (`user`, `role`) or is to write (`pw`, `role`). `service` follows
`_startup`: the table is empty or not looked at yet, the first account is made,
requests are served. Four things have no counterpart in the code and let
properties speak of the past: `fresh` in a thread (nobody has written the account
since this handler read it), `pw` and `overtaken` in a session (what it was opened
with; whether its account changed while it was being opened, or by a change that
never came to dropping it), `writtenBack` (some handler has overwritten a change it
had not seen) and `told` (the generated password was put where it can be read).

**Actions.** Each database helper opens its own connection and commits, and no lock
spans two of them, so a handler is a chain of actions with the others' in between:
`Enter` (the session is resolved), `GetUser`, the write (`AccountPassword`,
`AdminAdd`, `AdminReset`, `AdminRole`, `AdminDelete`), `DropUserSessions`, and for a
changed password `NewSession`. A sign-in is `LoginPost` and `NewSession`; the
gateway's question is `Enter`, `AuthVerify`, `Respond`. The guard for the last superuser
is inside the UPDATE and the DELETE, so it belongs to the write's action.
`HandlerFails` ends a handler at any step (sqlite gives up on a locked
database), `Restart` ends all.

**Abstractions.** A hash is the password it accepts. Sessions that differ only in
their token are one element; so ending one of them may change nothing. Expired is
ended. What a form sends is any account, role (or no role) and password. The
throttle, the origin check and the form tokens only refuse requests, which here
may come or not anyway. The first password is the generated one.

### BaselineStore and BaselineVerdicts

**State.** `states`, `assignments` and `rules` are tables as sets of rows; `runs`
is indexed by its AUTOINCREMENT id. `req` is where each thread of `api_assign`,
`agent_desired` and `agent_result` is and what it has read. `commands` is outside:
what the Controller was answered and may report on.

**Actions.** As in Flashback, a function of `store.py` is one transaction under one
lock. A handler of one call is one action (`SaveState` with its prune, `DeleteState`,
`Unassign`, `SaveRule`, `DeleteRule`). Assigning is two (`AssignChecks`,
`AssignInserts`), a poll is one for each table it reads and each run it starts
(`PollHost`, `PollEnv`, `PollReads`, `PollStarts`) and one for its answer, which
may be lost (`PollAnswers`), and a report is two (`ReportArrives`, which reads the
rules and decides, and `FinishRun`). A command is reported on never, once or
again, with any output. `Restart` takes all handlers.

**Abstractions.** `EventRules` takes salt-call's output as outcomes by their place in it or as
one of the returns that are errors; a pattern is the set of names that `fnmatch`
lets it match. The actions of a run are a set: `evaluate` gives them in the order of
the rules' names, which nobody reads. The text of a command is the row it was built from.
`PollStarts` takes the time of the run from the one before and a step in
`ClockStep`, so that runs of one second tie. `BaselineVerdicts` adds no state: it is
what the console computes after one `load()`, of the newest `RunsLoaded` runs and for every order in which
`recent_runs` may return runs of one second. The overview's list is cut at `AttentionShown` hosts, the worst
first; `NeedsAttention` is the set of lists it may be, since hosts of one rank stay in the Controller's order. Where
the script filters the list of runs and takes the first, the module takes the least place of a run that passes.

### BaselineApply

`ops` are the calls of `applyMany` that were made, each with its own cursor `next`,
`preview` and rows; `panel` is the page's one variable `APPLY`; `lanes` are where each
call's lanes are. JavaScript runs one callback at a time, so what happens from the
answer to a lane's request up to its next request is one action, `LaneResumes`: it
writes its answer into the row it took, and then takes a row of *the panel there is*
with *its own call's* cursor, as the code does. `ApplyMany` and `Dismiss` come at any time.

### Checkouts

`tip` and `head` are the remote's and the checkout's place on a line of commits;
`memo` is `_remote_cache`. A status is `Ask` (rev-parse), `LookUp` or `Query` and
`Remember` (the memo or `ls-remote`), and `Judge`, whose merge-base reads HEAD again.
A pull and the memo's invalidation after it are two steps (`Pull`, `Forget`); those of
the helper happen out of the updater's sight, which notices them later
(`NoticeDetachedPull`). `since` in an asker is what the remote had when it asked: a
history variable. How jobs are started and exclude each other is `UpdaterJobs`; here one
update runs at a time.

### UpdatesPage

`page` is the script's variables, `net` the bag of requests and answers under way,
`service` what is out of reach: nothing, the updater (the IdP answers with an error) or
the IdP. A request is asked, served and answered in three actions, and answers
overtake each other. The page's functions (`Paint`, `StartWatch`, `UnreachableJob`,
`FinishJob`...) are operators from one state of the page to the next, so that each
event is one action. The job is reduced to whose it is and how it stands; other
consoles start jobs too. `ServiceReturns` may have lost the job's record and the
session.

### The algorithms without state

Each module says at its head how the data are represented, defines the algorithm
definition by definition after the code, and states at its end what the result must
be without reference to how it is computed. Where the code filters a list in a loop,
the modules name the positions that stay (`At` in `Lists`). `Wiring`: `.env` files as lines with
duplicates, quotes and comments. `StateBuilder`: items and documents. `UpdaterRules`:
one host as it is found, the service's answers and the page's reading of them.
`FleetHealth`: heartbeats, sweeps, suppressions and the map's groups. `ActivityFeed`:
readings of the applications, merged, cut and filtered by text, chip and routine. `FlashbackConsole`: the
list of hosts, the column of hosts on the page, requests for backups, comparison, roots and pages of a
restore point. A request for backups takes `MostAsked` hosts of those that are meant, whichever stand first, and asks
the Controller once for each: `ctl.posts` is how each of these ends, whatever the listing before it gave. A
root that a restore point names twice is drawn twice, with the same counts; `RootSummary` has it once. `MCDecisions` picks one input in a step.

## What is checked

| Run | Question | Instance |
|---|---|---|
| `flashback_points` | Do restore points keep their promise while hosts, captures, deletes, prunes and restores that share content interleave? | 2 hosts, 1 file, 2 digests, `KEEP` 1, 2 captures, 2 points, 2 machine restores, 1 file restore; snapshots with times of 2 seconds in any order before there are restores (`TimesForHistory`) |
| `flashback_history` | Is the history bounded, headed by what was captured last, and change-only where no snapshot was overtaken? Does the audit trail tell what happened, once, and lack only what was cut short? | 1 host, 2 files, 2 digests, `KEEP` 2, 4 captures with times of 3 seconds in any order; 1 point, 1 file restore and 1 machine restore after 1 capture (`InParts`) |
| `updater_lock` | Does the lock have one owner, and do records tell the truth, over every interleaving and whatever docker does? | 2 request threads and the console, 4 tasks, 2 products, 1 restart |
| `updater_progress` | Does the lock come back unless docker left a hand-off unanswered, and is a self-update's result always shown? | 1 request thread and the console, 4 tasks, 2 restarts |
| `updater_together` | Do two jobs never run at the same time? (they can) | 2 request threads, updates only |
| `updater_checkouts` | Is an update offered when and only when there is one? | 2 products, 1 asker, 1 release of each, 1 restart |
| `updates_page` | Does the updates page settle, and does a watch end, through everything? | 2 jobs, 2 outages, 1 press, 2 tries |
| `idp_accounts` | Is there always a superuser, and do changes of an account bind the sessions opened before? | 2 handlers, 2 accounts, 2 roles, 2 passwords, 2 sessions |
| `idp_undeleted` | Does a deletion stand? (no) | the same |
| `baseline_store` | Is what ships what is recorded, is no version overwritten, do rules fire for what was recorded, and are faults seen? | 2 handlers, 1 poll at a time, 1 state, 2 texts, 2 hosts in 1 environment, `KEEP_VERSIONS` 1, 2 versions, 2 runs, all loaded, a list of 1 host, steps of 0 and 1 seconds, 1 rule, 2 outputs (`OneAfterAnother`) |
| `baseline_apply` | Is every host asked once, and does the panel end? | 4 hosts, lists of 1 and 3, 2 lanes, 2 calls |
| `decisions` | Do the algorithms without state give what they must? | 740,000 inputs, see `MCDecisions` |

**What the passing runs show.** In `flashback_points`: `SealedComplete`,
`VersionsHaveContent`, `OpenPinned` (the reply to a manifest chunk stays true until
the seal), `ActiveJobRestorable`, `OneRestorePerHost`, `SealedImmutable`,
`OutcomesStand`, `ForgottenIsCollected` (content let go of by its last referrer is
gone) and the refinement `KeepsPromise`. In `flashback_history`: `HistoryBounded`,
`ChangeOnly` and `CaptureIsNewest` (whose exceptions are snapshots that were overtaken), and of the audit trail `TrailIsTrue` (each record is of a change
that stands, and of no change there are two) and `NothingUntold`. In `updater_lock`: `LockHasOneOwner`,
`OutcomeCoversAll` and `RunningIsWorkedOn`. In `updater_progress`: `LockReleased`
and `ResultReported`. In `idp_accounts`: `SuperuserRemains` and `SessionsFollowAccounts`.
In `updater_checkouts`: `OfferIsReal` (an update that is offered is one that can be
pulled, from however old an answer) and `ReleaseIsOffered`. In `updates_page`:
`PageSettles` (one chain of polls, no row left "Updating") and `WatchEnds`. In `baseline_store`:
`RetainsNewest`, `NeverOverwritten`, `RunRecordsWhatShips`, `ActionsHadCause`
and, of the console, `FaultsAreListed`: of what was loaded, a host with a fault is on the overview's
list or that is full of hosts at least as badly off, and all is not said to be well. A property that
excepts a case the code does not rule out says so in its comment, and the same without the
exception is in a configuration beside the runs that shows it fail (see below). In `baseline_apply`: `AskedOnce` (for an
apply that is left alone) and `PanelEnds`. In `decisions`: `RepairSettles`,
`BuilderShipsWhatIsAsked`, `ScreenAgrees`, `MapIsFair`, `FeedIsHonest` and
`ConsoleTellsTheTruth`, each the conjunction of what its module states.

**Why the bounds are enough.** Content is shared, lost or kept according to
*whether another referrer exists*: two digests, two owners and two restore points
give every case (shared by two points, by a point and the history, by nobody, by
an earlier and a later version). `KEEP` 1 makes every second version of a file
prune; `KEEP` 2 with four captures prunes twice with history left, and three
seconds with four captures make ties, non-ties and snapshots that are overtaken by one and by two. A conflict of jobs needs two
jobs, of one host or of two; there is no state in which a third adds a case,
since active jobs are per host. A file restore and one of a machine
give writers of different records at once, and a first report with a second that contradicts it; the trail does
not depend on how often files were captured before, so `InParts` looks at long histories
without restores and at restores after one capture. In the updater a race over the lock is between two
threads; the console is the third. The four tasks take each way through the code:
a hand-off with and without the wiring step, an action that stays in the process,
and an update of all products that ends in a hand-off. In the IdP a conflict is between two handlers over one account, and the last
superuser can be lost by two over two accounts; two roles are the one that counts and
any other; two sessions hold one from before and one from after a change.
In Baseline a poll interleaves with a report, another report, an assignment and any
operator; two polls at once would differ only in the ids of their runs
(`MaxPolls`), and what they record is proved for any number. One retained version of two makes
every save prune. A state is assigned to a host directly or to both through their environment, one assignment at a
time, and once the last run has started requests come one at a time (`OneAfterAnother`); two hosts and a list
of one make a fault that is not shown. Both runs are loaded in this instance: of a run
beyond those the page knows nothing, which `FaultsAreListed` leaves open and the theorem says for any number.
In an apply two lanes and lists of three make a lane that takes a second row; two
calls make one panel replace another, and a single host leaves a lane out. A memo is
older than the tip by one release or not at all; two products tell the helper's
pull from a thread's. On the page two jobs are the one watched and another that replaced it, two
outages are one during a watch and one after, and two tries are one that is followed by another and the last.
In `MCDecisions` inputs are lists up to three and sets that hold each kind of member:
every definition there looks at one member, at two that conflict, or at all; three hosts and requests for
two make some that are left out.
Deadlock is checked in every run but three, and none stops. In `baseline_apply`, `updates_page`
and `decisions` `CHECK_DEADLOCK FALSE` is set because these may stop: the bound on calls or
jobs is reached and all requests are answered, and in `MCDecisions` an input is picked once.

**Bounds by name.** `MaxClock`, `MaxCaptures`, `MaxPoints`, `MaxJobs`,
`MaxRestores` bound the rows ever inserted and the times of snapshots, each in the
action that would exceed it; `MaxRestarts` bounds restarts of the updater; `MaxSessions` bounds the different sessions at
once; `MaxVersion` and `MaxRuns` bound rows, `MaxPolls` the polls served at once and `ClockStep`
the clock between runs; `InParts` and `TimesForHistory` are state constraints of two Flashback runs and `OneAfterAnother` of Baseline's, explained where they are defined; `MaxOps` bounds calls of an apply; `MaxTip` releases; `MaxJobs`,
`MaxOutages` and `MaxChecks` jobs, outages and presses seen by the page. The program has none of
them. `MaxTries` (5 in the code), `RunsLoaded` (200), `AttentionShown` (12), `MostAsked` (500), `APPLY_LANES`, `KEEP`
and `KEEP_VERSIONS` are the program's own and smaller here. Symmetry is used over hosts, files and digests, over request threads,
and over Baseline's handlers, texts and hosts, in runs without liveness properties. `updater_lock` looks at states
through `LockView`, which leaves out what none of its properties and no guard reads.

**Fairness.** For Flashback and the IdP only safety is stated: nothing makes an agent or a browser call.
`UpdaterJobs` assumes weak fairness of each thread's `Step` (threads are scheduled,
and the `git` and `docker` commands they wait for end: `jobs.py` gives each a
timeout), of `Poll` (the console polls while it is open) and of `MemoExpires` (three
seconds pass), and strong fairness of `Inspect(Console)`: docker may leave any question unanswered, but not every one
that the console asks for ever. Nothing is assumed of requests, of the helper, of restarts or of the
expiry of results. Restarts are bounded: under endless restarts nothing
would ever finish.

`Checkouts` assumes that the console goes on polling each product whenever an asker is
free again and again (strong fairness of `Ask`; other requests take the same thread), that requests are
served, that memories expire, and that a remote which is asked again and again
sometimes answers (strong fairness of `Query(t, TRUE)`): without it nothing could be
offered. `BaselineApply` assumes that every request is answered, by the Controller or by a
timeout; nothing is assumed of the operator. `UpdatesPage` assumes that timers run out,
polls are served and answered, what is out comes back (outages are bounded) and
jobs end, which is what `UpdaterJobs` shows under its own assumptions; loads and presses may stay
unanswered for ever.

## What is proved

`tlapm` checks these for any set of hosts, files, digests, threads, products,
tasks and lanes, any retention, any clock, and any bound. What is assumed of
the constants is in one ASSUME of each module (`StoreAssumption`, `ImageAssumption`,
`UpdaterAssumption`, `AccountsAssumption`, `BaselineAssumption`, `CheckoutsAssumption`,
`ApplyAssumption`, `PageAssumption`; `DecisionsAssumption`, `NoneAssumption` and
`TemplatesAssumption` of `MCDecisions`), which TLC evaluates in its runs. A theorem that
needs more states it as its own hypothesis, named below with what happens without it.
Every inductive invariant was first checked by TLC on the instance of its run.

**FlashbackStoreProofs.** Invariants that rest on different code are kept apart.

- `TypeOK` (`TypeCorrect`): which rows a reference can be to. All others use it.
- `ContentInv`: `SealedComplete`, `VersionsHaveContent` and `OpenPinned` together
  (`SealedStaysComplete`, `HistoryIsReadable`, `RepliesAreReliable`). None is inductive
  alone: a seal turns what `OpenPinned` says into `SealedComplete`, and a
  collection preserves each because `GcBlobs` asks both referrers
  (`GcKeepsReferenced`).
- `JobInv`: `ActiveJobRestorable` and `OneRestorePerHost`
  (`RestoresKeepTheirPoint`, `OneRestoreAtATime`). It rests on the refusals of
  `DeleteRestorePoint` and `QueuePointRestore`, not on content.
- `SealedNeverChanges` and `OutcomesAreFinal` prove the action properties
  `SealedImmutable` and `OutcomesStand` from `TypeOK`.
- `HistoryInv` (`HistoryStaysBounded`): `HistoryBounded`, that histories are finite and that
  two versions of one file never have the same number. The prune keeps those that
  fewer than `KEEP` others are newer than; that these are at most `KEEP` needs an order in which
  no two tie (`NewerOrders`, `FewAreNewest`). Times may come in any order.
- `SnapshotsHeadTheHistory` and `HistoryIsChangeOnly`: `CaptureIsNewest` and `ChangeOnly`, in whatever order
  snapshots read the clock and take the lock. What is stored is on top unless a later
  second is stored already, and a prune takes from the bottom only (`KeptUpwards`); versions in
  the order they were stored in differ from their neighbours. Where one was stored after
  a newer one (`Overtaken`) they need not, see below. The first theorem assumes that `KEEP` is not 0:
  with `KEEP` 0 a snapshot prunes what it has just stored.
- `NothingIsLeftBehind`: `ForgottenIsCollected`, from `TypeOK`: whoever lets go of a digest
  hands it to `GcBlobs` in the same transaction.
- `AuditKeepsTheStore`: `AuditSpec => Spec`. Each step of the store with its trail is one of the
  store or leaves it alone, so all theorems here hold of both.
- `TrailStaysTrue` and `NothingStaysUntold`: `TrailIsTrue` and `NothingUntold`. Neither is inductive: that
  a record is not written twice needs that none was under way, and that no writer starts one needs that what
  it is about had not happened. `AuditInv` says both at once: the records in the trail, under way and cut
  short are exactly those of what happened, and none is under way that is in the trail. It rests on a
  row's outcome being given once (`OneMoreToTell` for the steps that give one, `SameOutcomes` for the rest).
- `KeepsThePromise`: `Spec => Promise!ImageSpec`, the refinement. `PromiseInv` is the first three
  invariants and that ids stay within those the promise speaks of. What an
  image is depends on `blobs`, and a collection may run in any step that lets go; but by
  `SealedComplete` a sealed restore point always is an image (`ImageIs`), so only sealing
  and deleting change images (`SealPromised`, `DeletePromised`), and by `OneRestorePerHost` what a
  host becomes is the point of its one job (`QueuePromised`, `StartPromised`,
  `FinishPromised`). Every other step is a stutter.

**UpdaterJobsProofs.**

- `JobsTypeCorrect`: `TypeOK`.
- `JobsExcludeEachOther`: `LockHasOneOwner`, for any number of threads and
  restarts, whatever docker does. The invariant is `LockInv`, which adds `HandingIsAStart`: a
  thread that still has the record to clear owns the lock if it is a queue worker
  and does not if it is a starter, and a release must not take one for the other. Once
  the lock is `leaked` it has no owner, so nobody can take or release it until a restart.
- `OutcomesCoverAll` and `RunningJobsAreWorkedOn`: `OutcomeCoversAll` and `RunningIsWorkedOn`.
  `RecordInv` adds what a thread at work has done of its job and
  that the record, unless it was cleared, is of that job; and that slop, whose hand-off may go
  unanswered, is the last to be done. A starter clears the record
  after it gave the lock back, so it may clear *another's*: a cleared record is the
  one exception, and every other write is by the lock's one owner (`RecordMove`).

**IdpAccountsProofs.** `AccountsTypeCorrect` is `TypeOK`. The next two rest on
`FreshIsTrue`, which is inductive with `QuietAtStart` (no handler runs before the
service does): what a handler remembers of an account nobody has written since is
so. Its steps are two lemmas: a write takes freshness from everybody else who read
the account (`FreshWrite`), and every other step moves one thread (`FreshMove`).

- `SuperuserStays`: `SuperuserRemains`, for any number of handlers and accounts. A
  guarded write leaves another superuser (`SuperBeside`); writing a whole row keeps
  the role if it was fresh (`SuperUpsert`).
- `SessionsFollow`: `SessionsFollowAccounts`. Each session matches its account, or a
  thread is about to drop it, or it is overtaken; a write makes its own thread the
  one that drops (`SessionsWrite`), and a handler that ends before it drops leaves
  its sessions overtaken (`SessionsCutShort`).

**BaselineStoreProofs.** The invariant is `StoreInv`, three parts that need each other.

- `StoreTypeCorrect`: `TypeOK`, with what a handler holds by where it is. It is not inductive alone: that
  `save_state` gives a version within its bound, and that `latest_state` finds one,
  rests on the second part.
- `RetainsTheNewest`: `RetainsNewest`. The strengthening `Versioned` says that the
  versions of a state are the last `KEEP_VERSIONS` up to *some* top, and that name
  and version determine the row; it avoids choosing the newest before it is known
  to exist (`KeptTop`, `NextVersionIs`, `SaveStateVersions`).
- `RunsRecordWhatShips`: `RunRecordsWhatShips`, for any number of handlers. `Recorded` says
  the same of the answers still being made; a run's host, state, version and kind never change
  once inserted (`RecordsLast`, `RunsStay`).
- `VersionsAreNotOverwritten` and `RunsAreNeverLost` prove two action properties from it,
  `NeverOverwritten` and `RunsAreKept`.
- `ActionsAreCaused`: `ActionsHadCause`. `CauseInv` says the same of the reports that handlers have
  read the rules for and not yet recorded (`ArrivesWithCause`, `FinishWrites`), and that a
  preview's are empty; what becomes of the rules in between makes no difference.
- `ReportedFaultsAreListed`: `FaultsAreListed`, from `TypeOK`. The console shows an initial part of the
  runs in some order (`ShownAreRuns`), judges a run by one table and draws it by another; what is
  drawn as a fault is labelled as one (`FaultsAreCalledSo`), a host is as bad as
  the worst of its labels (`WorstIsNoBetter`), and the list is cut below the worst hosts. It is for any
  number of hosts, runs loaded and rows shown, and says nothing of runs that were not loaded. That salt-call prints finitely many states is part of
  `BaselineAssumption`.

**CheckoutsProofs.** `CheckoutsInv` is `TypeOK`, `NothingAhead` (a checkout and a
remembered answer are never ahead of the remote) and `AnswersAreOld` (nor is what an
asker holds, and the answer to a fresh question is no older than the question).

- `CheckoutsTypeCorrect`: `TypeOK`.
- `OffersAreReal`: `OfferIsReal`, for any number of askers, products and releases.
- `CheckNowAsksNow`: `CheckNowIsCurrent`, that "Check now" is never answered from memory.

**BaselineApplyProofs.** `ApplyInv` is `TypeOK`, `Alone` and `AskedOnce`, for any hosts, lists, lanes
and calls. `TypeOK` holds for every call and every lane, also for one that works on the
panel of another call. `Alone`: while there is one call, its lanes ask for rows of its own panel
up to its cursor, so the row a lane takes next is one nobody asks for yet.

- `ApplyTypeCorrect`: `TypeOK`.
- `HostsAreAskedOnce`: `AskedOnce`.

**UpdatesPageProofs.** `PageAlwaysSettles`: `PageSettles`, for any number of jobs, outages,
presses and tries. `PageInv` adds to the types `Chain` (while the page watches, either its timer
runs or one poll is under way, in one copy, and otherwise neither) and `Tidy` (when
the page is at rest, its busy row has been painted away or it says that it gave up). `net` is a bag, so the
proof counts: a step takes one request out and puts at most one in.

**DecisionsProofs** is about operators: whatever they are given, not what `MCDecisions` gives them.

- `MapIsFairToAll`: `MapIsFair`, for any number of hosts, heartbeats, sweeps, agents and suppressions.
  Silencing more makes a verdict no worse (`VerdictQuieter`), which goes through the host's
  health, its node and its status (`HealthQuieter`, `NodeQuieter`, `StatusQuieter`); a hub has the worst
  status of its group (`WorstIsWorst`); a guest whose machine is drawn is drawn
  (`GuestsFollow`). It assumes of `None` that it is no status and no truth value, and of the answers that the
  hosts are a list.
- `ConsoleTellsAllTheTruth`: `ConsoleTellsTheTruth`, for any hosts, contents, filters, selections and
  entries. Its parts are theorems of their own: `ConsolePromisesLittle`, `ColumnKeepsItsWord`,
  `EveryFileIsComparedFairly`, and for a restore point the sums by root and its pages (`RootsCover`,
  `PagesCover`). `Askable` says the types (`Heard`, `Chosen`, `Holds`), among
  them that the Controller names no host by an id it refuses, and that a page holds something. Whom one request takes
  is any part of those meant of the size allowed, and each is told by the end of its own POST.
- `ScreenAgreesForAll`: `ScreenAgrees`, for whatever is found on the host (`FoundOn`), any containers and a log
  of any length. `EveryRowAgrees` is its part about rows, which agree both ways but for the actions of a
  product without a compose file; the order of an update of all is followed
  through the positions that stay, and the phase of a job through what is cut from its log.
- `RepairSettlesForAll`: `RepairSettles`, for files of any length with duplicates and comments. What
  is read is the last line of a key (`read_env` goes on overwriting); `upsert` leaves one line for each key
  it sets (`SetOnce`) and the others where they were, so the second plan is empty. It
  assumes (`Envs`) that SLOP's file gives each service an address: `AddressOf` makes one of any port.
- `FeedIsAlwaysHonest`: `FeedIsHonest`, for readings with any number of rows (`Served`) and any text filter. That an
  empty table says why is said of each application's main reading, Connect's apart. It assumes of
  `None` that it is no result of a reading and no number (`NoneAssumption`).
- `BuilderShipsAllThatIsAsked`: `BuilderShipsWhatIsAsked`, for lists of any length. Every kind's emitter is
  shown to use each of its fields (`EmitsAll`); each name is new to those before it
  (`NameIsFree`, by counting: of as many numbers as there are names and one more, one is free), and an id once
  given stays (`NamesApart`); the count of states is a sum by nouns equal to the sum by
  items (`ClassSums`). It assumes that the form sends lists of words (`Filled`), that a slug is a
  list of words (`Nameables`), and that two numbers are told apart when written (`Numerals`). Without the
  last, `base_2` and `base_3` could be one name. The prover found a slip here that no run had: `Clean`
  was a CASE whose arms overlapped (a missing box is also one of its type), which TLC reads from the top and
  TLA+ does not. It is now written as the code is, one condition after the other.

These are inductions over data, which the provers cannot do as such. Each recursive or folded
function is given by an explicit witness, and shown equal to it by the least argument at
which they differ (`LeastOf`): there is none, since one step before it they agree.

**Model-checked only.** The liveness properties `LockReleased`, `ResultReported`, `ReleaseIsOffered`,
`PanelEnds` and `WatchEnds`: the provers cannot reason about fairness and ENABLED.
Every invariant and every action property that a passing run checks is stated by a theorem.
The type invariants of `UpdaterJobs` and `IdpAccounts` are the other way round: proved, and not in a run.

No module uses RECURSIVE operators.

## Disagreements found

Two are runs, and in `PROJECT.json` ("findings") with the lines they quote.

- **`updater_together`.** `jobs.py:8` says one job at a time, globally. The starters
  ask the helper's status before they take the lock and not again, and a hand-off gives the lock back
  while the helper runs, so a request that asked early builds beside the helper, or
  removes it.
- **`idp_undeleted`.** The page says a deletion cannot be undone. `admin_reset` and
  `account_password` write back the whole row they read in an earlier transaction, by
  an upsert, so one that read before the deletion brings the account back. For the
  same reason they can take back a change of role: `SuperuserRemains` holds *unless*
  that has happened (`writtenBack`).

The others are kept as configurations beside the runs; `tlc -config <cfg> <module>` shows
each. Where one names several properties, the first is set and the others stand in its last comment, to be put in its place.

| Configuration | Module | What fails |
|---|---|---|
| `MCFlashbackStore_overtaken.cfg` | `MCFlashbackStore` | `NeighboursDiffer`. `store.py:226`: a version is created only when the content differs from the most recent stored one. "Most recent" is by wall-clock second first, and the second is read (231) before the lock is taken (233). A snapshot that is overtaken in between, or taken after the clock was set back, sorts behind a newer version; versions of equal content can come to stand next to each other, and with the clock back unchanged content is stored again until it catches up. |
| `FlashbackAudit_deleted.cfg` | `FlashbackAudit` | `DeletionsAreTold`. `store.py:14`: the audit table is "an append-only record of who did what". `api_delete_restore_point` (`app.py:670`) calls `store.audit` to write its record, which does not exist (the function is `log_audit`), after the deletion is committed: the operator is shown an error for a deletion that happened, and nothing tells who asked for it. |
| `FlashbackAudit_order.cfg` | `FlashbackAudit` | `OutcomeFollowsRequest`. An agent can take up a restore and report on it before the handler that queued it has written its record. Nothing in the repository promises this order. |
| `MCUpdaterJobs_stranded.cfg` | `MCUpdaterJobs` | `NoRecordLeftRunning`. When an update of all products ends in a hand-off that does not start, `_queue_worker` returns with the record still saying "running". |
| `MCUpdaterJobs_strict.cfg` | `MCUpdaterJobs` | `LockAlwaysReleased`. `jobs.py:342`: "the helper is the lock from here on". `start` and `start_action` do not release the lock when `spawn` raises: a docker call that times out locks updates out until the container restarts. |
| `MCUpdaterJobs_strict.cfg` | `MCUpdaterJobs` | `EveryResultReported`. `jobs.py:55`: the outcome of a self-update is "the one outcome it should be able to state". When docker starts the helper without answering in time, the record of the job before, or the failure of its own, is not cleared; it is shown before the helper's, so how the update ended is not. |
| `MCIdpAccounts_bootstrap.cfg` | `MCIdpAccounts` | `WayIn`. `app.py:280` guarantees a way in on a fresh install. The account is committed before its generated password is written anywhere, and a restart in between finds a table that is not empty and does nothing. |
| `MCIdpAccounts_immediate.cfg` | `MCIdpAccounts` | `ChangesAreImmediate`. `idp/app.py:250`: a credential change "takes effect immediately everywhere". A session that is opened across the change with what was read before it, or whose dropping is cut short, keeps the old role or password; `SessionsFollowAccounts` excepts it. |
| `MCBaseline_strict.cfg` | `MCBaseline` | `LastRunIsSaid`. `drift_summary` picks a host's last run by its second, so of two runs of one second it says either: a failed one may be hidden by a clean one. The console's verdicts are worked out from the runs instead (`ui.py:677`). |
| `MCBaseline_strict.cfg` | `MCBaseline` | `AllClearIsTrue`. A run that was started and not yet reported on has no failures and no changes, so the overview reads it as "as declared" and may say so of the whole fleet. |
| `MCBaselineApply_preview.cfg` | `MCBaselineApply` | `PreviewStaysPreview`. A second apply replaces the panel; the first call's lanes go on with the new panel's rows and their own `preview`, so a host that was only to be previewed is applied. |
| `MCDecisions_strict.cfg` | `MCDecisions` | `ButtonsAreAccepted`. `updater/backend/app.py:192`: "so the refusal and the button can never disagree". The row's actions do not look for a compose file; the service refuses each of them without one. |
| `MCDecisions_strict.cfg` | `MCDecisions` | `EmptyMeansNothing`. `visualizer/backend/ui.py:319`: "Distinguish 'this app has recorded nothing' from 'we could not read it'". Connect's only reading fails as a note, which does not count as failed, so an unreachable Connect's page says that nothing was recorded. |
| `MCDecisions_strict.cfg` | `MCDecisions` | `EveryPickIsTold`. `flashback/backend/app.py:319`: "each result is reported". Of more than 500 hosts the others are neither asked nor named as failed. |
| `Checkouts_late.cfg` | `Checkouts` | `StatusFollowsPull`. `git.py` drops the memo after a pull "so the next status reflects what was just fetched"; an `ls-remote` that was under way writes its older answer back. It hides nothing that `OfferIsReal` or `ReleaseIsOffered` speak of, until it expires. |

Met while modelling, and not stated as properties: an update of the Controller passes its
own checkout where the wiring repair expects SLOP's (`jobs.py:242`); `upsert`
truncates `.env` in place, so a write cut short loses it; a state that is deleted and
declared again uses its version numbers again, for other text; a report sent twice is answered
with its actions twice; the fleet map paints a host OK from its record when fleet-health cannot be read (the
missing reading is named beside it); of the activity feed's lists only SLEP's says that it was cut.

## What is not modelled

- **Of Flashback's audit trail**, the records of requests passed on to the Controller and the
  reading of the table.
- **The IdP's throttle** of failed sign-ins, its origin and form-token checks, the removal of the
  password file, `SLOP_ADMIN_PASSWORD`: they only refuse requests, which in `IdpAccounts` may come or not.
- **The rest of the pages.** Of Flashback's: one host's history, versions, the restore
  point's card and its timers (the late answer of an earlier host can end the watch
  of the one on screen). Of Baseline's: the editors, the cache of SLS text, answers to
  `load()` that overtake each other. Of the Visualizer's: its requests in flight. The IdP's other pages are HTML.
- **`identity.py`, `platform.py`**: header checks, redaction of secrets. **Salt's command line and
  YAML quoting**: text. **`controller.py`**: what its answers become is in `FlashbackConsole`,
  HTTP itself is not.
- **The gateway's configuration, the portal, the installer and compose files** keep no
  state and decide nothing that can be checked here.
- A hang of a command that keeps its output open is outside the model (the fairness of `Step`
  assumes that commands end), as are the loss of a database's file and a job's bounded log
  apart from the phase that is told from it (`PhaseIsCurrent`).

## Plan

Done: `FlashbackStore` with `RestorePoints`, `FlashbackImages` and `FlashbackAudit`, `UpdaterJobs`,
`IdpAccounts`, `BaselineStore`, `Checkouts`, `BaselineApply`, `UpdatesPage`, the
algorithms without state, and the proofs named above. What could come next:

1. The throttle of sign-ins, with its window and the eviction of old entries, and that it
   never forgets a name that is still locked.
2. The restore point's card: its timers and late answers.
3. A file restore together with its agent, and the version it names being pruned meanwhile.
