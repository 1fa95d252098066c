---------------------------- MODULE BaselineStore ----------------------------
(***************************************************************************)
(* Sysible Baseline: the declared states with their versions, what they    *)
(* are assigned to, the rules, and the runs (baseline/backend/store.py),   *)
(* with the handlers of app.py that read and write them.                   *)
(*                                                                         *)
(* Each function of store.py holds the lock for one transaction.  The      *)
(* handlers that make one call of it are one action here.  api_assign,     *)
(* agent_desired and agent_result make several: they are steps of a        *)
(* Handler, and any other request comes between.  The Controller is        *)
(* outside: it polls for hosts, runs the commands it was answered, and     *)
(* reports on each of them never, once, or again.                          *)
(***************************************************************************)
EXTENDS EventRules, Integers, SequencesExt

CONSTANTS
    Name,          \* names of declared states
    NameOrder,     \* the same in the order of ORDER BY
    Text,          \* SLS that api_save_state accepts
    Host,
    EnvOf,         \* host -> environment the Controller says it is in, or None
    Handler,       \* threads that serve assign, desired and result
    Rule,          \* what api_save_rule may store
    Return,        \* what salt-call may print
    KEEP_VERSIONS,
    MaxVersion,    \* bound: versions of one state
    MaxRuns,       \* bound: runs
    MaxPolls,      \* bound: polls served at once
    ClockStep,     \* how far the wall clock may move from one run to the next
    None

Target == Host \cup ({EnvOf[h] : h \in Host} \ {None})

ASSUME BaselineAssumption ==
    /\ NameOrder \in Seq(Name) /\ Name = {NameOrder[i] : i \in DOMAIN NameOrder}
    /\ KEEP_VERSIONS \in Nat \ {0}
    /\ MaxVersion \in Nat /\ MaxRuns \in Nat /\ MaxPolls \in Nat
    /\ ClockStep \subseteq Int
    /\ \A ret \in Return : ret.kind = "json" =>
         DOMAIN ret.body \subseteq Nat /\ IsFiniteSet(DOMAIN ret.body)

VARIABLES
    states,       \* table states: rows [name, version, sls]
    assignments,  \* table assignments: rows [target, state]
    rules,        \* table rules
    runs,         \* table runs, by id
    req,          \* what each handler is doing
    commands      \* external: what the Controller has been answered

vars == <<states, assignments, rules, runs, req, commands>>

Idle == [at |-> "idle"]

\* What a run's row says before it is reported on.
Unreported == [states |-> <<>>, changed |-> 0, failed |-> 0, ok |-> FALSE, error |-> "none"]

Init ==
    /\ states = {} /\ assignments = {} /\ rules = {}
    /\ runs = <<>>
    /\ req = [h \in Handler |-> Idle]
    /\ commands = {}

-----------------------------------------------------------------------------
(* Declared states                                                          *)

VersionsOf(n, rows) == {r.version : r \in {s \in rows : s.name = n}}

Newest(V) == CHOOSE v \in V : \A w \in V : w <= v

Declared(n) == VersionsOf(n, states) # {}

\* latest_state, of a state that has a version
LatestState(n) == CHOOSE r \in states :
                    r.name = n /\ r.version = Newest(VersionsOf(n, states))

\* The version save_state gives the next text.
NextVersion(n) == IF Declared(n) THEN Newest(VersionsOf(n, states)) + 1 ELSE 1

BugOld(n, rows) ==
    {r \in rows : r.name = n /\ KEEP_VERSIONS <
        Cardinality({v \in VersionsOf(n, rows) : v > r.version})}

\* Versions that save_state prunes: those with KEEP_VERSIONS newer ones.
Old(n, rows) ==
    {r \in rows : r.name = n /\ KEEP_VERSIONS <=
        Cardinality({v \in VersionsOf(n, rows) : v > r.version})}

BugSaveState(n, text) ==
    LET ver  == Cardinality(VersionsOf(n, states)) + 1
        rows == {r \in states : r.name # n \/ r.version # ver}
                  \cup {[name |-> n, version |-> ver, sls |-> text]}
    IN  /\ ver <= MaxVersion
        /\ states' = rows \ Old(n, rows)
        /\ UNCHANGED <<assignments, rules, runs, req, commands>>

\* api_save_state, save_state
SaveState(n, text) ==
    LET rows == states \cup {[name |-> n, version |-> NextVersion(n), sls |-> text]}
    IN  /\ NextVersion(n) <= MaxVersion
        /\ states' = rows \ Old(n, rows)
        /\ UNCHANGED <<assignments, rules, runs, req, commands>>

\* api_delete_state, delete_state
DeleteState(n) ==
    /\ Declared(n)
    /\ assignments' = {a \in assignments : a.state # n}
    /\ states' = {r \in states : r.name # n}
    /\ UNCHANGED <<rules, runs, req, commands>>

\* states_for
StatesFor(t) == SelectSeq(NameOrder, LAMBDA n : [target |-> t, state |-> n] \in assignments)

\* api_assign has found the state.
AssignChecks(h, t, n) ==
    /\ req[h] = Idle
    /\ Declared(n)
    /\ req' = [req EXCEPT ![h] = [at |-> "assign", target |-> t, state |-> n]]
    /\ UNCHANGED <<states, assignments, rules, runs, commands>>

\* assign: INSERT OR IGNORE
AssignInserts(h) ==
    /\ req[h].at = "assign"
    /\ assignments' = assignments \cup
                        {[target |-> req[h].target, state |-> req[h].state]}
    /\ req' = [req EXCEPT ![h] = Idle]
    /\ UNCHANGED <<states, rules, runs, commands>>

\* api_unassign
Unassign(t, n) ==
    /\ [target |-> t, state |-> n] \in assignments
    /\ assignments' = assignments \ {[target |-> t, state |-> n]}
    /\ UNCHANGED <<states, rules, runs, req, commands>>

\* api_save_rule, save_rule: INSERT ... ON CONFLICT(name) DO UPDATE
SaveRule(r) ==
    /\ r \notin rules
    /\ rules' = {q \in rules : q.name # r.name} \cup {r}
    /\ UNCHANGED <<states, assignments, runs, req, commands>>

\* api_delete_rule
DeleteRule(r) ==
    /\ r \in rules
    /\ rules' = rules \ {r}
    /\ UNCHANGED <<states, assignments, runs, req, commands>>

-----------------------------------------------------------------------------
(* What a host must be: agent_desired                                       *)

\* A poll that goes on: the names still to be read, the version read of the first,
\* and the commands so far.
Goes(q, at, names, version, answer) ==
    [at |-> at, host |-> q.host, preview |-> q.preview,
     names |-> names, version |-> version, answer |-> answer]

\* The states assigned to the host itself.
PollHost(h, host, preview) ==
    /\ req[h] = Idle
    /\ Cardinality({g \in Handler : req[g].at \in {"env", "state", "start"}}) < MaxPolls
    /\ req' = [req EXCEPT ![h] =
                 [at |-> IF EnvOf[host] = None THEN "state" ELSE "env",
                  host |-> host, preview |-> preview,
                  names |-> StatesFor(host), version |-> 0, answer |-> {}]]
    /\ UNCHANGED <<states, assignments, rules, runs, commands>>

\* Those of its environment that are not among them.
PollEnv(h) ==
    /\ req[h].at = "env"
    /\ LET own  == req[h].names
           more == SelectSeq(StatesFor(EnvOf[req[h].host]),
                             LAMBDA n : ~Contains(own, n))
       IN  req' = [req EXCEPT ![h] = Goes(@, "state", own \o more, 0, @.answer)]
    /\ UNCHANGED <<states, assignments, rules, runs, commands>>

\* latest_state of the next name; an undeclared one is passed over.  (Its text,
\* read with its version, goes into the command and is not followed further.)
PollReads(h) ==
    /\ req[h].at = "state" /\ req[h].names # <<>>
    /\ LET q == req[h]
           n == Head(q.names)
       IN  req' = [req EXCEPT ![h] =
                     IF Declared(n)
                     THEN Goes(q, "start", q.names, LatestState(n).version, q.answer)
                     ELSE Goes(q, "state", Tail(q.names), 0, q.answer)]
    /\ UNCHANGED <<states, assignments, rules, runs, commands>>

BugPollStarts(h, step) ==
    LET q   == req[h]
        cmd == [run |-> Len(runs) + 1, host |-> q.host, state |-> Head(q.names),
                version |-> q.version, preview |-> q.preview]
    IN  /\ q.at = "start" /\ Len(runs) < MaxRuns
        /\ runs' = Append(runs,
             [host |-> q.host, state |-> cmd.state, preview |-> q.preview,
              version |-> IF Declared(cmd.state) THEN LatestState(cmd.state).version
                          ELSE q.version,
              started |-> step, finished |-> FALSE, report |-> Unreported, actions |-> {}])
        /\ req' = [req EXCEPT ![h] =
                     Goes(q, "state", Tail(q.names), 0, q.answer \cup {cmd})]
        /\ UNCHANGED <<states, assignments, rules, commands>>

\* start_run, and the command built from what was read.
PollStarts(h, step) ==
    LET q   == req[h]
        now == IF runs = <<>> THEN 0 ELSE runs[Len(runs)].started + step
        cmd == [run |-> Len(runs) + 1, host |-> q.host, state |-> Head(q.names),
                version |-> q.version, preview |-> q.preview]
    IN  /\ q.at = "start"
        /\ Len(runs) < MaxRuns
        /\ runs' = Append(runs,
             [host |-> q.host, state |-> Head(q.names), version |-> q.version,
              preview |-> q.preview, started |-> now, finished |-> FALSE,
              report |-> Unreported, actions |-> {}])
        /\ req' = [req EXCEPT ![h] =
                     Goes(q, "state", Tail(q.names), 0, q.answer \cup {cmd})]
        /\ UNCHANGED <<states, assignments, rules, commands>>

\* The answer reaches the Controller, or does not.
PollAnswers(h, arrives) ==
    /\ req[h].at = "state" /\ req[h].names = <<>>
    /\ commands' = IF arrives THEN commands \cup req[h].answer ELSE commands
    /\ req' = [req EXCEPT ![h] = Idle]
    /\ UNCHANGED <<states, assignments, rules, runs>>

-----------------------------------------------------------------------------
(* What happened: agent_result                                              *)

\* The Controller reports on a command, for the first time or again; the rules
\* are read and decide.
ReportArrives(h, cmd, ret) ==
    LET parsed == ParseReturn(ret)
    IN  /\ req[h] = Idle
        /\ cmd \in commands
        /\ req' = [req EXCEPT ![h] =
             [at |-> "finish", run |-> cmd.run, parsed |-> parsed,
              actions |-> IF cmd.preview THEN {} ELSE Evaluate(rules, parsed)]]
        /\ UNCHANGED <<states, assignments, rules, runs, commands>>

\* finish_run
FinishRun(h) ==
    LET q == req[h]
    IN  /\ q.at = "finish"
        /\ runs' = [runs EXCEPT ![q.run].finished = TRUE, ![q.run].report = q.parsed,
                                ![q.run].actions = q.actions]
        /\ req' = [req EXCEPT ![h] = Idle]
        /\ UNCHANGED <<states, assignments, rules, commands>>

-----------------------------------------------------------------------------
\* The process restarts: handlers and the answers they were making are lost.
Restart ==
    /\ \E h \in Handler : req[h] # Idle
    /\ req' = [h \in Handler |-> Idle]
    /\ UNCHANGED <<states, assignments, rules, runs, commands>>

Next ==
    \/ \E n \in Name, text \in Text : SaveState(n, text)
    \/ \E n \in Name : DeleteState(n)
    \/ \E t \in Target, n \in Name : Unassign(t, n)
    \/ \E r \in Rule : SaveRule(r) \/ DeleteRule(r)
    \/ \E h \in Handler :
         \/ \E t \in Target, n \in Name : AssignChecks(h, t, n)
         \/ AssignInserts(h)
         \/ \E host \in Host, preview \in BOOLEAN : PollHost(h, host, preview)
         \/ PollEnv(h) \/ PollReads(h)
         \/ \E step \in ClockStep : PollStarts(h, step)
         \/ \E arrives \in BOOLEAN : PollAnswers(h, arrives)
         \/ \E cmd \in commands, ret \in Return : ReportArrives(h, cmd, ret)
         \/ FinishRun(h)
    \/ Restart

Spec == Init /\ [][Next]_vars

-----------------------------------------------------------------------------
(* What is read back: drift_summary                                         *)

Applied(host) == {i \in DOMAIN runs :
    runs[i].host = host /\ runs[i].finished /\ ~runs[i].preview}

\* The rows that the query finds for a host: of those that started last, GROUP
\* BY takes an arbitrary one.
DriftRows(host) ==
    LET last == {i \in Applied(host) : \A j \in Applied(host) :
                                          runs[j].started <= runs[i].started}
    IN  {runs[i] : i \in last}

DriftVerdict(r) ==
    IF r.report.failed > 0 \/ r.report.error # "none" THEN "failed"
    ELSE IF r.report.changed > 0 THEN "drifted" ELSE "clean"

-----------------------------------------------------------------------------
Row == [name : Name, version : 1..MaxVersion, sls : Text]

Command == [run : 1..MaxRuns, host : Host, state : Name, version : 1..MaxVersion,
            preview : BOOLEAN]

Parsed == {ParseReturn(ret) : ret \in Return}

Firings == {{}} \cup {Evaluate(table, parsed) : table \in SUBSET Rule, parsed \in Parsed}

RunRow == [host : Host, state : Name, version : 1..MaxVersion, preview : BOOLEAN,
           started : Int, finished : BOOLEAN, report : Parsed \cup {Unreported},
           actions : Firings]

\* What a handler holds, by where it is, with the runs there are.
Handling(q, ids) ==
    /\ q.at \in {"idle", "assign", "env", "state", "start", "finish"}
    /\ q.at = "assign" => q \in [at : {"assign"}, target : Target, state : Name]
    /\ q.at \in {"env", "state", "start"} =>
         /\ q = Goes(q, q.at, q.names, q.version, q.answer)
         /\ q.host \in Host /\ q.preview \in BOOLEAN /\ q.answer \subseteq Command
    /\ q.at = "start" => Head(q.names) \in Name /\ q.version \in 1..MaxVersion
    /\ q.at = "finish" =>
         q \in [at : {"finish"}, run : ids, parsed : Parsed, actions : Firings]

\* The tables hold rows of their columns, and handlers what they have read.
TypeOK ==
    /\ states \subseteq Row
    /\ assignments \subseteq [target : Target, state : Name]
    /\ rules \subseteq Rule
    /\ runs \in Seq(RunRow) /\ Len(runs) <= MaxRuns
    /\ DOMAIN req = Handler /\ \A h \in Handler : Handling(req[h], DOMAIN runs)
    /\ commands \subseteq Command

\* "STATES ARE VERSIONED AND NEVER OVERWRITTEN": a declared version keeps its
\* text for as long as it is there, and a state that stays declared only gets
\* versions newer than any it had (store.py save_state, UNIQUE(name, version)).
NeverOverwritten ==
    [][\A new \in states' : \A old \in states :
          new.name = old.name =>
            /\ new.version = old.version => new = old
            /\ new \notin states => new.version > old.version]_states

\* What is kept of a state is its newest KEEP_VERSIONS versions without a gap,
\* so the latest declaration is never the one that was pruned.
RetainsNewest ==
    \A n \in Name : Declared(n) =>
        LET V   == VersionsOf(n, states)
            top == Newest(V)
        IN  V = {v \in 1..top : top - KEEP_VERSIONS < v}

\* What the Controller was told to run is what the run's row says was run,
\* whatever was saved, deleted or reassigned while it was being answered.
RunRecordsWhatShips ==
    \A c \in commands :
        LET r == runs[c.run]
        IN  <<c.host, c.state, c.version, c.preview>>
              = <<r.host, r.state, r.version, r.preview>>

\* The outcomes of a report that the actions decided on are about.
Caused(report, actions) ==
    \A act \in actions : act.why # "unknown" => \E j \in DOMAIN report.states :
        /\ report.states[j].id = act.state
        /\ act.why = "changed" => report.states[j].changed
        /\ act.why = "failed"  => report.states[j].result = "false"
        /\ act.why = "ok"      => ~report.states[j].changed

\* An action on a run was caused by an outcome recorded on that same run, and a
\* preview has none: "a host already in the desired state produces no events and
\* fires nothing" (eda.py).  Rules may change, and reports be repeated or race,
\* between deciding and recording.
ActionsHadCause ==
    \A i \in DOMAIN runs :
        /\ runs[i].preview => runs[i].actions = {}
        /\ Caused(runs[i].report, runs[i].actions)

\* The summary lists "hosts whose last run changed something, failed, or errored"
\* (store.py drift_summary): what it may say of a host does not hang on which of
\* several last runs, started in one second, the query takes.
LastRunIsSaid ==
    \A host \in Host :
        Cardinality({DriftVerdict(r) : r \in DriftRows(host)}) <= 1

\* "RUNS ARE KEPT": no step removes a run or changes what it was a run of.
RunsAreKept ==
    [][/\ Len(runs) <= Len(runs')
       /\ \A i \in DOMAIN runs :
            <<runs'[i].host, runs'[i].state, runs'[i].version, runs'[i].started>>
              = <<runs[i].host, runs[i].state, runs[i].version, runs[i].started>>]_runs

=============================================================================
