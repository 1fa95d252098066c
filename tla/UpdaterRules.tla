---------------------------- MODULE UpdaterRules ----------------------------
(***************************************************************************)
(* What the updater offers and what it accepts (updater/backend/app.py,    *)
(* apps.py, jobs.py) and what the updates page makes of it (idp/app.py).   *)
(* Pure: every definition is of one host as it is found, a function from   *)
(* Products to                                                             *)
(*   found   what is under the product's directories: the explicit one,    *)
(*           the conventional one and others whose name differs in case    *)
(*   git     "unreadable", "unchecked", "behind" or "current"              *)
(*   dirty   local changes to tracked files                                *)
(*   compose where a compose file is: a subset of {"top", "deploy"}        *)
(*   running service -> [state, health] of each of its containers          *)
(***************************************************************************)
EXTENDS Naturals, Sequences, FiniteSets, Functions, Lists

\* The order of ALLOWLIST.
Allowlist == <<"controller", "slep", "connect", "slop">>

Products == Range(Allowlist)

\* SELF_AFFECTING and _NO_STOP are both {"slop"}.
Slop == "slop"

\* MODULES: what ships inside slop's checkout; a module is a compose service.
Modules(key) ==
    IF key = Slop
    THEN {"gateway", "idp", "flashback", "baseline", "visualizer", "updater"}
    ELSE {}

LifecycleActions == {"restart", "stop", "start", "recreate"}

Missing == "none"

-----------------------------------------------------------------------------
(* apps.py: finding a product *)

\* A directory counts when it is a checkout; the explicit one comes first, and a
\* name in another case last.
CheckoutDir(found) ==
    CASE found.override = "checkout" -> "override"
      [] found.override # "checkout" /\ found.conventional = "checkout" -> "conventional"
      [] found.override # "checkout" /\ found.conventional # "checkout"
           /\ found.cased = "checkout" -> "cased"
      [] OTHER -> Missing

ComposeDir(compose) ==
    IF "top" \in compose THEN "top" ELSE IF "deploy" \in compose THEN "deploy" ELSE Missing

Installed(p) == CheckoutDir(p.found) # Missing

-----------------------------------------------------------------------------
(* jobs.py: the refusals *)

ActionRefused(key, action) ==
    action \notin LifecycleActions \/ (action = "stop" /\ key = Slop)

BugModuleActionRefused(key, module, action) ==
    \/ action \notin LifecycleActions
    \/ module \notin Modules(key)
    \/ action = "stop" /\ module \in {"gateway", "idp"}

ModuleActionRefused(key, module, action) ==
    \/ action \notin LifecycleActions
    \/ module \notin Modules(key)
    \/ module = "updater"
    \/ action = "stop" /\ module \in {"gateway", "idp"}

-----------------------------------------------------------------------------
(* app.py: what is reported and what is accepted *)

Available(p) == p.git = "behind"

CanUpdate(p) == Available(p) /\ ~p.dirty /\ ComposeDir(p.compose) # Missing

Reason(p) ==
    CASE p.dirty -> "dirty"
      [] ~p.dirty /\ ComposeDir(p.compose) = Missing -> "no compose"
      [] OTHER -> IF p.git \in {"unreadable", "unchecked"} THEN p.git ELSE Missing

\* status, one product; jobs.services reads nothing where there is no compose file
Row(key, p) ==
    IF ~Installed(p)
    THEN [installed |-> FALSE, checked |-> FALSE, available |-> FALSE,
          canUpdate |-> FALSE, reason |-> "not installed", actions |-> {},
          modules |-> [m \in Modules(key) |-> [services |-> {}, actions |-> {}]]]
    ELSE [installed |-> TRUE, checked |-> p.git \notin {"unreadable", "unchecked"},
          available |-> Available(p), canUpdate |-> CanUpdate(p), reason |-> Reason(p),
          actions |-> {a \in LifecycleActions : ~ActionRefused(key, a)},
          modules |-> [m \in Modules(key) |->
             IF ComposeDir(p.compose) = Missing THEN [services |-> {}, actions |-> {}]
             ELSE [services |-> IF m \in DOMAIN p.running THEN p.running[m] ELSE {},
                   actions  |-> {a \in LifecycleActions : ~ModuleActionRefused(key, m, a)}]]]

Reachable(p) == Installed(p) /\ ComposeDir(p.compose) # Missing

AcceptsUpdate(key, p) == key \in Products /\ Reachable(p) /\ ~p.dirty

AcceptsAction(key, p, action) ==
    key \in Products /\ ~ActionRefused(key, action) /\ Reachable(p)

AcceptsModuleAction(key, p, module, action) ==
    key \in Products /\ ~ModuleActionRefused(key, module, action) /\ Reachable(p)

\* update_all: slop goes last, the others in the order of the list.
UpdateAll(host) ==
    LET items == At(Allowlist, {n \in DOMAIN Allowlist :
                       Installed(host[Allowlist[n]]) /\ CanUpdate(host[Allowlist[n]])})
    IN  At(items, {n \in DOMAIN items : items[n] # Slop})
          \o At(items, {n \in DOMAIN items : items[n] = Slop})

Skipped(host) ==
    {key \in Products : Installed(host[key]) /\ Available(host[key])
        /\ (host[key].dirty \/ ComposeDir(host[key].compose) = Missing)}

-----------------------------------------------------------------------------
(* idp/app.py: the page *)

StateShown(row) ==
    CASE ~row.installed -> "Not installed"
      [] row.installed /\ ~row.checked -> "Couldn't check"
      [] row.installed /\ row.checked -> IF row.available THEN "Update available"
                                         ELSE "Up to date"

BlockerShown(row) == IF row.installed /\ row.checked THEN row.reason ELSE Missing

\* One module of an installed product, its containers taken together.
ModuleShown(services) ==
    LET bad == {s \in services : s.state # "running"}
        ill == {s \in services : s.health = "unhealthy"}
    IN  CASE services = {} -> "No container"
          [] bad # {} -> IF bad = services THEN "Not running" ELSE "Partly running"
          [] services # {} /\ bad = {} -> IF ill # {} THEN "Running, unhealthy"
                                          ELSE "Running"

\* "Update all (n)", from two rows up.
UpdateAllButton(rows) ==
    LET able == {key \in DOMAIN rows : rows[key].canUpdate}
    IN  IF Cardinality(able) < 2 THEN {} ELSE able

-----------------------------------------------------------------------------
(* The log of a job *)

CONSTANT MaxLogLines

Steps == {"pull", "build", "act"}

Log(buf, line) ==
    IF Len(buf) < MaxLogLines THEN Append(buf, line) ELSE Append(Tail(buf), line)

\* The last phase the log names; other lines are output.
StepOf(log) ==
    LET marks == {i \in DOMAIN log : log[i] \in Steps}
    IN  IF marks = {} THEN "" ELSE log[CHOOSE i \in marks : \A j \in marks : j <= i]

-----------------------------------------------------------------------------
Rows(host) == [key \in Products |-> Row(key, host[key])]

\* Row for row the page and the service agree.  An update has its button exactly when
\* one waits and would be accepted; so has a call of a product's or a module's action,
\* but that a product without a compose file is offered its actions, each of which is
\* refused.  A product that waits and cannot be updated says why, and no call that
\* is accepted stops what the console runs on.
RowsAgree(host) ==
    LET rows == Rows(host)
    IN  /\ \A key \in Products :
             /\ rows[key].canUpdate <=> rows[key].available /\ AcceptsUpdate(key, host[key])
             /\ StateShown(rows[key]) = "Up to date" => host[key].git = "current"
             /\ rows[key].canUpdate => StateShown(rows[key]) = "Update available"
             /\ rows[key].available /\ ~rows[key].canUpdate => BlockerShown(rows[key]) # Missing
             /\ \A a \in LifecycleActions :
                  /\ AcceptsAction(key, host[key], a) => a \in rows[key].actions
                  /\ a \in rows[key].actions =>
                       \/ AcceptsAction(key, host[key], a)
                       \/ ComposeDir(host[key].compose) = Missing
                  /\ \A m \in Modules(key) :
                       AcceptsModuleAction(key, host[key], m, a) <=>
                         Installed(host[key]) /\ a \in rows[key].modules[m].actions
        /\ \A m \in {"gateway", "idp", "updater"} :
             /\ ~AcceptsAction(Slop, host[Slop], "stop")
             /\ ~AcceptsModuleAction(Slop, host[Slop], m, "stop")

\* "... so the refusal and the button can never disagree" (status in updater app.py;
\* paintActions in idp/app.py): every action that a product's row offers is accepted.
OfferedIsAccepted(host) ==
    \A key \in Products : \A a \in Rows(host)[key].actions : AcceptsAction(key, host[key], a)

\* ... and of all of them: "Update all" updates what the rows call updatable, SLOP
\* last and nothing twice, and nothing that waits is passed over in silence.
ScreenAndServiceAgree(host) ==
    LET rows == Rows(host)
        all  == UpdateAll(host)
    IN  /\ RowsAgree(host)
        /\ Range(all) = {key \in Products : rows[key].canUpdate}
        /\ \A i, j \in DOMAIN all : (all[i] = all[j] => i = j) /\ (all[i] = Slop => j <= i)
        /\ UpdateAllButton(rows) \subseteq Range(all)
        /\ {key \in Products : rows[key].available} = Range(all) \cup Skipped(host)

\* A module is called running when each of its containers is and none is unhealthy.
RunningIsRunning(services) ==
    ModuleShown(services) = "Running" <=>
      services # {} /\ \A s \in services : s.state = "running" /\ s.health # "unhealthy"

\* What a job is doing is told from its log; a log so long that its beginning is
\* gone says the phase it is in or none at all, never one that is over.
PhaseIsCurrent(lines) ==
    LET bufs[n \in 0..Len(lines)] == IF n = 0 THEN <<>> ELSE Log(bufs[n - 1], lines[n])
    IN  StepOf(bufs[Len(lines)]) \in {"", StepOf(lines)}

=============================================================================
