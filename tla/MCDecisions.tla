----------------------------- MODULE MCDecisions -----------------------------
(***************************************************************************)
(* The modules without state, over bounded inputs: a step picks what one   *)
(* of them is asked, and an invariant says what its answer must be.        *)
(***************************************************************************)
EXTENDS Integers, Sequences, FiniteSets, FiniteSetsExt, TLC

CONSTANTS
    None, Invalid,
    AddressOf, DefaultPort,   \* of Wiring
    Blank, Broken, Slug, Numeral(_),   \* of StateBuilder
    MaxLogLines,              \* of UpdaterRules
    OldCap, MaxLimit,         \* of ActivityFeed
    MostAsked                 \* of FlashbackConsole

ASSUME DecisionsAssumption == {MaxLogLines, OldCap, MaxLimit, MostAsked} \subseteq Nat \ {0}

VARIABLE asked

Nothing == [of |-> "nothing"]

-----------------------------------------------------------------------------
(* Wiring: SLOP's .env and the Controller's *)

HostAddress == [p \in {"8770", "8771", "9000"} |-> "http://host.docker.internal:" \o p]

WiringPort == [flashback |-> "8770", baseline |-> "8771"]

W == INSTANCE Wiring

Setting(key, value, quoted) == [key |-> key, value |-> value, quoted |-> quoted]

SlopLines ==
    {Setting(W!Tok("flashback"), "f1", FALSE), Setting(W!Tok("baseline"), "b1", TRUE),
     Setting(W!Port("flashback"), "9000", FALSE),
     Setting(W!Url("flashback"), "http://proxy", FALSE)}

ControllerLines ==
    {Setting(<<"#", "comment">>, "", FALSE),
     Setting(W!Tok("baseline"), "b0", FALSE), Setting(W!Tok("baseline"), "b1", TRUE),
     Setting(W!Url("baseline"), AddressOf["8770"], FALSE),
     Setting(W!Url("baseline"), "http://proxy", FALSE),
     Setting(W!Url("flashback"), AddressOf["9000"], TRUE),
     Setting(W!Tok("flashback"), "f1", TRUE)}

Files(lines, n) == UNION {[1..k -> lines] : k \in 0..n}

AskWiring ==
    \E slop \in Files(SlopLines, 3), ctl \in Files(ControllerLines, 3) :
        asked' = [of |-> "wiring", slop |-> slop, ctl |-> ctl]

\* Run once, the repair carries SLOP's settings into the Controller's .env, leaves
\* every other line and every chosen address alone, and would find nothing to do if
\* it were run again (wiring.py: plan, upsert).
RepairSettles == asked.of = "wiring" => W!Settles(asked.slop, asked.ctl)

-----------------------------------------------------------------------------
(* StateBuilder: lists of items as the form sends them *)

BlankWord == " "

BrokenWord == "a\nb"

Slugs ==
    [w \in {"nginx", "vim", "a", "a_2", "/etc/a", "package", "package_absent", "service",
            "file", "line", "user", "cron", "command"} |->
       CASE w = "a_2" -> <<"a", "2">>
         [] w = "/etc/a" -> <<"etc", "a">>
         [] w = "package_absent" -> <<"package", "absent">>
         [] OTHER -> <<w>>]

Decimal(n) == ToString(n)

B == INSTANCE StateBuilder

\* No word of a template is blank or has a line break in it.
ASSUME TemplatesAssumption ==
    \A t \in B!Templates : \A i \in DOMAIN t : \A k \in DOMAIN t[i] \ {"kind"} :
      \A j \in DOMAIN t[i][k] : t[i][k][j] \notin {Blank, Broken}

RawItems ==
    {B!Item("package", [names |-> <<"nginx">>, version |-> <<"1.2">>]),
     B!Item("package", [names |-> <<"nginx", Blank, "vim">>, version |-> <<Blank>>]),
     B!Item("package", [names |-> <<"nginx", "vim">>, version |-> <<"1.2">>]),
     B!Item("package_absent", [names |-> <<"vim">>, version |-> <<"1.2">>]),
     B!Item("service", [name |-> <<"a">>]),
     B!Item("service", [name |-> <<"a">>, enable |-> <<>>]),
     B!Item("service", [name |-> <<"a_2">>, enable |-> B!Ticked]),
     B!Item("file", [path |-> <<"/etc/a">>, contents |-> <<Blank>>, mode |-> <<"0644">>]),
     B!Item("file", [path |-> <<Blank>>, contents |-> <<"text">>]),
     B!Item("line", [path |-> <<"/etc/a">>, line |-> <<"x">>, after |-> <<"y">>]),
     B!Item("line", [path |-> <<"/etc/a">>, line |-> <<"x">>]),
     B!Item("user", [name |-> <<"a">>, groups |-> <<"g", "h">>, system |-> B!Ticked]),
     B!Item("cron", [command |-> <<"a">>, user |-> <<"root">>, hour |-> <<"2">>]),
     B!Item("command", [command |-> <<Broken>>, creates |-> <<"/x">>]),
     B!Item("nosuchkind", [name |-> <<"a">>])}

AskBuilder ==
    \E n \in 0..3 : \E raw \in [1..n -> RawItems] :
        asked' = [of |-> "builder", raw |-> raw]

\* What the form accepts is what reaches the hosts: one block for each item, named
\* apart, with everything that was filled in (build.py: normalise, problems, to_sls,
\* summarise); and each of the console's templates is accepted as it stands.
BuilderShipsWhatIsAsked ==
    asked.of = "builder" => B!ShipsWhatIsAsked(asked.raw) /\ B!TemplatesAreSound

-----------------------------------------------------------------------------
(* UpdaterRules: one host as it is found, and a log *)

U == INSTANCE UpdaterRules

Found(o, c) == [override |-> o, conventional |-> c, cased |-> "missing"]

Up == [state |-> "running", health |-> "healthy"]

Ill == [state |-> "running", health |-> "unhealthy"]

Gone == [state |-> "exited", health |-> ""]

\* What a checkout can look like, and what is no checkout at all.
Checkouts ==
    {[found |-> Found("missing", c), git |-> g, dirty |-> d, compose |-> k,
      running |-> [gateway |-> {Up}, idp |-> {Up}]] :
        c \in {"checkout", "directory"}, g \in {"unreadable", "behind", "current"},
        d \in BOOLEAN, k \in {{}, {"deploy"}}}

\* The products beside SLOP and the Controller are all alike.
AskUpdater ==
    \E slop \in Checkouts, controller \in Checkouts, other \in Checkouts :
      \E services \in SUBSET {Up, Ill, Gone}, log \in {<<>>} \cup [1..5 -> {"pull", "build", "out"}] :
        /\ log = <<>> \/ (slop = controller /\ slop = other)
        /\ services = {} \/ (slop = controller /\ slop = other)
        /\ asked' = [of |-> "updater", services |-> services, log |-> log,
                     host |-> [key \in U!Products |->
                        CASE key = "slop" -> slop
                          [] key = "controller" -> controller
                          [] OTHER -> other]]

\* The updates page and the updater agree on what can be done, but for the actions
\* of a product without a compose file, on what runs and on the phase a job is in
\* (app.py: status, update, update_all, action, module_action; apps.py; jobs.py:
\* step_of, action_refusal, module_action_refusal; the page in idp/app.py).
ScreenAgrees ==
    asked.of = "updater" =>
        /\ U!ScreenAndServiceAgree(asked.host)
        /\ U!RunningIsRunning(asked.services)
        /\ U!PhaseIsCurrent(asked.log)

\* "So the refusal and the button can never disagree" (updater/backend/app.py): no
\* action that the page offers of a product is refused.
ButtonsAreAccepted == asked.of = "updater" => U!OfferedIsAccepted(asked.host)

-----------------------------------------------------------------------------
(* FleetHealth: what the Controller answers about three hosts *)

Subnets == [ip \in {"10.0.0.1", "10.0.1.1"} |-> IF ip = "10.0.0.1" THEN "10.0.0" ELSE "10.0.1"]

F == INSTANCE FleetHealth WITH SubnetOf <- Subnets

Host(id, env) ==
    [id |-> id, label |-> id, env |-> env, ctl |-> FALSE, online |-> None,
     ip |-> IF env = "lab" THEN None ELSE "10.0.0.1", hyp |-> None, guests |-> {}]

Heartbeats ==
    {[F!NoHeartbeat EXCEPT !.online = FALSE, !.disk = 95],
     [F!NoHeartbeat EXCEPT !.online = TRUE, !.ok = TRUE, !.disk = 95, !.failed = 1],
     [F!NoHeartbeat EXCEPT !.online = TRUE, !.ok = TRUE, !.disk = 85],
     [F!NoHeartbeat EXCEPT !.online = TRUE, !.failed = 3],
     [F!NoHeartbeat EXCEPT !.online = TRUE, !.disk = 90],
     [F!NoHeartbeat EXCEPT !.online = TRUE],
     F!NoHeartbeat}

\* Each may say that it hosts any of them, itself included.
Virtual(heartbeat, guests) ==
    [heartbeat EXCEPT !.hyp = IF guests = {} THEN None ELSE "hypervisor", !.guests = guests]

Sweeps ==
    {F!NoSweep, [F!NoSweep EXCEPT !.boot = 5, !.flags = {"eol_os"}],
     [F!NoSweep EXCEPT !.boot = 3, !.flags = {"reboot_required"}]}

Supp(scope, target, key, type) ==
    [scope |-> scope, target |-> target, key |-> key, type |-> type, until |-> 4, boot |-> 4]

Suppressions ==
    {Supp("host", "a", "disk_critical", "reboot"), Supp("env", "lab", "failed_units", "snooze"),
     Supp("fleet", None, "eol_os", "reboot"), Supp("host", "a", "disk_critical", "forever")}

AgentLists ==
    {<<>>, <<[F!NoAgent EXCEPT !.hostname = "a", !.ip = "10.0.1.1"],
             [F!NoAgent EXCEPT !.host = "b", !.ctl = TRUE]>>}

AskMap ==
    \E first \in Heartbeats, sweep \in Sweeps, supps \in SUBSET Suppressions,
       agents \in AgentLists, now \in {3, 5} :
      \E s \in Suppressions, lens \in {"env", "network"}, g \in SUBSET {"a", "b", "c"},
         k \in SUBSET {"a", "c"} :
        /\ g = {} \/ supps = {}
        /\ g = {} => k = {}
        /\ asked' =
             [of |-> "map", supp |-> s, lens |-> lens, now |-> now,
              answers |-> [hosts   |-> <<Host("a", "lab"), Host("b", "prod"), Host("c", "lab")>>,
                           health  |-> [a |-> Virtual(first, g),
                                        b |-> Virtual(F!NoHeartbeat, k)],
                           posture |-> [a |-> sweep], agents |-> agents, supps |-> supps]]

\* The map never lets the sweep's lateness, or a suppression, show a host worse than
\* it is, never hides one that is offline, and loses no host (fleet.py; topoGroups
\* and topoLayout in ui.py).
MapIsFair ==
    asked.of = "map" =>
        /\ F!SweepOnlyReveals(asked.answers, asked.now)
        /\ F!SilenceOnlyHides(asked.answers, asked.supp, asked.now)
        /\ F!NobodyIsLost(F!Build(asked.answers, asked.now), asked.lens)

-----------------------------------------------------------------------------
(* ActivityFeed: the readings of the applications *)

A == INSTANCE ActivityFeed

ASSUME NoneAssumption == None \notin A!Results \cup Nat

EventRow(ts, source, service) ==
    [ts |-> ts, source |-> source, service |-> service, sweep |-> TRUE]

EventRows ==
    {<<>>, <<EventRow(1, "api", FALSE), EventRow(2, None, TRUE)>>,
     <<EventRow(2, None, FALSE), EventRow(2, "automation", TRUE), EventRow(1, "user", TRUE)>>}

Runs(n) == [i \in 1..n |-> EventRow(4 - i, None, FALSE)]

BaselineRuns ==
    {<<>>, <<[started |-> 3, error |-> "timeout", failed |-> 0, changed |-> 1, preview |-> FALSE],
             [started |-> 1, error |-> "none", failed |-> 0, changed |-> 1, preview |-> TRUE]>>}

Reading(result, rows) == [result |-> result, rows |-> rows]

AskFeed ==
    \E app \in A!Apps, result \in A!Results, rows \in EventRows, limit \in {0, 1, 2, 3, 9},
       showRoutine \in BOOLEAN :
      \E second \in {Reading(r, x) : r \in {"ok", "denied"}, x \in EventRows},
         runs \in BaselineRuns, age \in {"old", "new"}, n \in 0..3, most \in 1..3,
         hits \in {1..9, {}, {2}} :
        /\ app # "baseline" => runs = <<>>
        /\ app # "slep" => age = "old" /\ n = 0
        /\ age = "old" => most = 1
        /\ app = "slep" => rows = <<>>
        /\ hits # 1..9 => limit \in {2, 9} /\ most = 1
        /\ asked' =
             [of |-> "feed", app |-> app, limit |-> A!Clamped(limit), routine |-> showRoutine,
              hits |-> hits,
              first |-> Reading(result, IF app = "baseline" THEN runs ELSE rows),
              second |-> second,
              slep |-> [result |-> result, rows |-> Runs(n), age |-> age, most |-> most]]

\* The readings of the fleet map.
AskTopology ==
    \E posture \in BOOLEAN : \E readings \in [A!Readings(posture) -> {"ok", "denied", "missing"}] :
        asked' = [of |-> "topology", readings |-> [r \in A!Readings(posture) |->
                                                     Reading(readings[r], <<>>)]]

FeedOf(q) ==
    CASE q.app = "controller" -> A!Controller(q.first, q.second)
      [] q.app = "slep"       -> A!Slep(q.slep, q.second, q.limit)
      [] q.app = "connect"    -> A!Connect(q.first)
      [] q.app = "flashback"  -> A!Flashback(q.first)
      [] q.app = "baseline"   -> A!Baseline(q.first)

\* What each application was asked for.
ReadingsOf(q) ==
    CASE q.app = "controller" -> [w \in {"activity", "admin audit-log"} |->
                                    IF w = "activity" THEN q.first ELSE q.second]
      [] q.app = "slep"       -> [w \in {"runs", "audit"} |->
                                    IF w = "runs" THEN q.slep ELSE q.second]
      [] q.app = "baseline"   -> [runs |-> q.first]
      [] OTHER                -> [audit |-> q.first]

\* The reading without which an application's page is empty
Main(q) == IF q.app = "slep" THEN q.slep ELSE q.first

\* The activity page shows the newest of what there is, counts what it shows, and
\* says of every reading that failed that it did, and of SLEP's list of runs, when
\* SLEP cut it short, that it was; an empty table says that it could not be read
\* exactly when the application's main reading failed, but for Connect's, whose only
\* reading fails as a note; a run of Baseline's that failed is told as failed; and
\* the map, too, names every reading it lacks, as an error exactly when it lacks the
\* hosts (sources.py; srcCounts and render in ui.py).
FeedIsHonest ==
    /\ asked.of = "topology" =>
         LET told == A!Topology(asked.readings)
         IN  /\ told.errors \cup told.notes =
                  {r \in DOMAIN asked.readings : asked.readings[r].result # "ok"}
             /\ told.errors # {} <=> asked.readings["hosts"].result # "ok"
    /\ asked.of = "feed" =>
        LET all  == FeedOf(asked)
            feed == A!Fetch(all, asked.limit)
        IN  /\ A!ShowsTheNewest(all.events, feed.events, asked.limit)
            /\ A!ChipsAddUp(A!Matched(feed.events, asked.hits), asked.routine)
            /\ A!EmptySaysWhy(feed, asked.hits, asked.routine,
                              asked.app # "connect" /\ Main(asked).result # "ok")
            /\ A!FailuresAreNamed(feed, ReadingsOf(asked))
            /\ asked.app = "slep" => A!NothingCutInSilence(asked.slep, asked.second, asked.limit)
            /\ asked.app = "baseline" =>
                 \A i \in DOMAIN all.events :
                   LET run == asked.first.rows[i]
                   IN  all.events[i].action = "failed" <=>
                         ~run.preview /\ (run.failed > 0 \/ run.error # "none")

\* "Distinguish 'this app has recorded nothing' from 'we could not read it'" (render
\* in ui.py): that nothing was recorded is said only when the main reading came back.
EmptyMeansNothing ==
    asked.of = "feed" =>
        (A!WhyEmpty(A!Fetch(FeedOf(asked), asked.limit), asked.hits, asked.routine)
           = "no activity yet" => Main(asked).result = "ok")

-----------------------------------------------------------------------------
(* FlashbackConsole: what the store holds and the Controller answers *)

Places == [w \in {"a", "b", "c", "bad"} |-> CASE w = "a" -> 2 [] w = "b" -> 1 [] OTHER -> 3]

PlaceOf(label) == Places[label]

Roots == {[path |-> "/etc", length |-> 4], [path |-> "/etc/ssh", length |-> 8]}

PathUnder ==
    [p \in {"/etc", "/etc/ssh", "/etc/ssh/key", "/etc/motd", "/srv"} |->
       CASE p \in {"/etc", "/etc/motd"} -> {"/etc", p}
         [] p \in {"/etc/ssh", "/etc/ssh/key"} -> {"/etc", "/etc/ssh", p}
         [] OTHER -> {p}]

RootsAbove(path) == PathUnder[path]

C == INSTANCE FlashbackConsole WITH Order <- PlaceOf, Under <- RootsAbove

HeldHosts ==
    UNION {[ids -> {[label |-> None, versions |-> 0, points |-> 0],
                    [label |-> None, versions |-> 0, points |-> 1],
                    [label |-> None, versions |-> 2, points |-> 0]}] : ids \in SUBSET {"a", "b"}}

FleetHost(id, polled) ==
    [agent |-> polled # None, label |-> None, env |-> IF id = "b" THEN "prod" ELSE None,
     online |-> TRUE, polled |-> polled = TRUE]

\* Who would be asked in vain, a host of the fleet or not
Controllers(unreached) ==
    {[wired |-> w, result |-> r, backup |-> b, hosts |-> [id \in ids |-> FleetHost(id, p)],
      posts |-> [id \in {"a", "b", "c"} |-> IF id \in unreached THEN "unreachable" ELSE "ok"]] :
        w \in BOOLEAN, r \in {"ok", "unreachable"}, b \in BOOLEAN,
        ids \in SUBSET {"b", "c"}, p \in {TRUE, FALSE, None}}

Filters == {None, [hosts |-> {"a", "c"}, envs |-> {}], [hosts |-> {}, envs |-> {"prod"}]}

Newest == UNION {[hosts -> {"x", "y"}] : hosts \in SUBSET {"a", "b", "c"}}

Entries ==
    UNION {[paths -> {[kind |-> "f", size |-> 2], [kind |-> "d", size |-> 0]}] :
             paths \in SUBSET {"/etc/ssh", "/etc/ssh/key", "/etc/motd", "/srv"}}

AskConsole ==
    \/ \E held \in HeldHosts, unreached \in SUBSET {"a", "b", "c"},
          ids \in {{}, {"a"}, {"b", "bad"}, {"bad"}, {"a", "b", "c"}}, writer \in BOOLEAN :
       \E ctl \in Controllers(unreached) :
         asked' = [of |-> "ask", held |-> held, ctl |-> ctl, ids |-> ids, writer |-> writer]
    \/ \E held \in HeldHosts, ctl \in Controllers({}), writer \in BOOLEAN, filter \in Filters,
          folded \in SUBSET {"prod", "Unassigned"}, picked \in SUBSET {"a", "b", "c", "gone"} :
         asked' = [of |-> "column", held |-> held, ctl |-> ctl,
                   page |-> [writer |-> writer, filter |-> filter, folded |-> folded,
                             picked |-> picked]]
    \/ \E ctl \in Controllers({}), newest \in Newest, base \in {None, "a", "c"} :
         asked' = [of |-> "compare", ctl |-> ctl, newest |-> newest, base |-> base,
                   held |-> [h \in DOMAIN newest \cup {"a"} |->
                               [label |-> None, versions |-> 1, points |-> 0]]]
    \/ \E entries \in Entries, n \in 0..5, size \in 1..3 :
         asked' = [of |-> "manifest", entries |-> entries, paths |-> [i \in 1..n |-> i],
                   size |-> size]

\* Flashback's console compares every host it knows, from a base that is typical;
\* calls asked whom the Controller accepted and tells of the others, up to the number
\* that one request takes, and asks no host that was not picked; and shows the whole
\* of a restore point (ui.py: renderHosts, hostRow; app.py: api_hosts, api_compare,
\* api_backup_now_many; controller.py; store.py: compare_path, restore_point_roots,
\* restore_point_entries).
ConsoleTellsTheTruth ==
    /\ asked.of = "ask" => C!PromisesNothing(asked.held, asked.ctl, asked.ids, asked.writer)
    /\ asked.of = "column" => C!PageKeepsItsWord(asked.held, asked.ctl, asked.page)
    /\ asked.of = "compare" =>
         C!ComparesFairly(asked.held, asked.ctl, asked.newest, asked.base)
    /\ asked.of = "manifest" =>
         C!RootsAndPagesCover(asked.entries, Roots, asked.paths, asked.size)

\* "One unreachable host must not cost the rest, so each result is reported"
\* (api_backup_now_many in app.py), of any number of hosts.
EveryPickIsTold ==
    asked.of = "ask" => C!EachResultIsReported(asked.held, asked.ctl, asked.ids, asked.writer)

-----------------------------------------------------------------------------
Init == asked = Nothing

Next ==
    /\ asked = Nothing
    /\ \/ AskWiring
       \/ AskBuilder
       \/ AskUpdater
       \/ AskMap
       \/ AskFeed
       \/ AskTopology
       \/ AskConsole

Spec == Init /\ [][Next]_asked

=============================================================================
