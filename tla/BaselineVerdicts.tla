--------------------------- MODULE BaselineVerdicts ---------------------------
(***************************************************************************)
(* What Baseline's console makes of what it loaded (the script in          *)
(* baseline/backend/ui.py): how each state stands on each host, how each   *)
(* host and each state stand, and what the overview says of the fleet.     *)
(*                                                                         *)
(* load() is modelled as one reading of the tables.  Hosts and their       *)
(* environments are what the Controller lists.                             *)
(***************************************************************************)
EXTENDS BaselineStore

CONSTANTS
    RunsLoaded,      \* runs?limit=200 of load()
    AttentionShown   \* .slice(0, 12) of viewOverview

ASSUME VerdictsAssumption == RunsLoaded \in Nat \ {0} /\ AttentionShown \in Nat \ {0}

\* recent_runs: newest start first; which of two of one second comes first is
\* not said.
RunOrders ==
    {order \in SetToSeqs(DOMAIN runs) :
        \A i, j \in DOMAIN order :
            i < j => runs[order[j]].started <= runs[order[i]].started}

RecentRuns(order, limit) ==
    LET shown == SubSeq(order, 1, IF limit < Len(order) THEN limit ELSE Len(order))
    IN  [i \in DOMAIN shown |-> runs[shown[i]]]

\* STATE_RANK, worst first
Labels == <<"failing", "could not run", "out of date", "drifted",
            "never applied", "as declared", "not managed">>

Rank(label) == CHOOSE i \in DOMAIN Labels : Labels[i] = label

\* worstOf, and the sort by rank
WorstOf(labels) == CHOOSE l \in labels : \A m \in labels : Rank(l) <= Rank(m)

\* statesFor: direct and by environment
StatesOn(host) ==
    {a.state : a \in {b \in assignments : b.target \in {host, EnvOf[host]}}}

HostsWith(n) == {h \in Host : n \in StatesOn(h)}

\* Some of the runs shown, by their places; the first is the newest.
RunsFor(shown, host) == {i \in DOMAIN shown : shown[i].host = host}

First(places) == CHOOSE i \in places : \A j \in places : i <= j

\* hostStateStatus, of the first run that is not a preview
RunLabel(r) ==
    CASE r.report.failed > 0 -> "failing"
      [] r.report.failed = 0 /\ r.report.error # "none" -> "could not run"
      [] r.report.failed = 0 /\ r.report.error = "none"
         /\ Declared(r.state) /\ r.version < LatestState(r.state).version -> "out of date"
      [] OTHER -> IF r.report.changed > 0 THEN "drifted" ELSE "as declared"

HostStateStatus(shown, host, n) ==
    LET mine == {i \in RunsFor(shown, host) : shown[i].state = n /\ ~shown[i].preview}
    IN  IF mine = {} THEN "never applied" ELSE RunLabel(shown[First(mine)])

HostStatus(shown, host) ==
    IF StatesOn(host) = {} THEN "not managed"
    ELSE WorstOf({HostStateStatus(shown, host, n) : n \in StatesOn(host)})

StateStatus(shown, n) ==
    IF HostsWith(n) = {} THEN "not assigned"
    ELSE WorstOf({HostStateStatus(shown, h, n) : h \in HostsWith(n)})

\* runDot
RunDot(r) ==
    CASE r.preview -> "faint"
      [] ~r.preview /\ (r.report.failed > 0 \/ r.report.error # "none") -> "err"
      [] OTHER -> IF r.report.changed > 0 THEN "amber" ELSE "ok"

\* noSalt, of the newest run of any kind
NoSalt(shown, host) ==
    LET mine == RunsFor(shown, host)
        last == shown[First(mine)]
    IN  mine # {} /\ ~last.preview /\ last.report.error = "nosalt"

\* nextStep: the earliest unfinished one
NextStep(shown) ==
    LET declared == {r.name : r \in states}
        bare(h)  == StatesOn(h) = {}
    IN  IF declared \ {a.state : a \in assignments} # {} THEN "assign a state"
        ELSE IF declared # {} /\ \E h \in Host : bare(h) THEN "assign to hosts"
        ELSE IF \E h \in Host : ~bare(h) /\ RunsFor(shown, h) = {} THEN "apply"
        ELSE IF \E h \in Host : NoSalt(shown, h) THEN "install salt"
        ELSE "none"

\* The hosts of which there is something to say
Faulty(shown) == {h \in Host : Rank(HostStatus(shown, h)) <= Rank("drifted")}

BugNeedsAttention(shown) ==
    {listed \in SUBSET Faulty(shown) :
        \/ listed = Faulty(shown) /\ Cardinality(listed) <= AttentionShown
        \/ Cardinality(listed) = AttentionShown}

\* viewOverview: the hosts it may list.  The worst come first and the list is cut;
\* hosts of one rank stay in the Controller's order, which may be any.
NeedsAttention(shown) ==
    {listed \in SUBSET Faulty(shown) :
        /\ \/ listed = Faulty(shown) /\ Cardinality(listed) <= AttentionShown
           \/ Cardinality(listed) = AttentionShown
        /\ \A h \in listed, g \in Faulty(shown) \ listed :
             Rank(HostStatus(shown, h)) <= Rank(HostStatus(shown, g))}

\* The sentence that stands there when it lists none
SaysAllClear(shown) ==
    /\ states # {} \/ assignments # {}
    /\ {} \in NeedsAttention(shown)
    /\ \E h \in Host : StatesOn(h) # {}

-----------------------------------------------------------------------------
\* What the page loads, when runs of one second come in this order
Loaded(order) == RecentRuns(order, RunsLoaded)

\* A fault that the page has loaded is found from the overview: while the newest
\* applied run of some assigned state on a host is one that failed, could not be
\* carried out or had to change the host, that host is listed, or the list is full
\* of hosts that are at least as badly off.  Either way the page does not say that
\* all is well.  (Of a run beyond the newest RunsLoaded the page knows nothing.)
FaultsAreListed ==
    \A order \in RunOrders :
        LET shown == Loaded(order)
            applied(h, n, i) == shown[i].host = h /\ shown[i].state = n /\ ~shown[i].preview
        IN  \A h \in Host : \A n \in StatesOn(h) : \A i \in DOMAIN shown :
              /\ applied(h, n, i) /\ \A j \in 1..(i - 1) : ~applied(h, n, j)
              /\ RunDot(shown[i]) \in {"err", "amber"}
              => /\ ~SaysAllClear(shown)
                 /\ \A listed \in NeedsAttention(shown) :
                      \/ h \in listed
                      \/ /\ Cardinality(listed) = AttentionShown
                         /\ \A g \in listed :
                              Rank(HostStatus(shown, g)) <= Rank(RunLabel(shown[i]))

\* "Every managed host is as declared" (ui.py viewOverview) is said only when each
\* assigned state was applied to its hosts and the report came back.
AllClearIsTrue ==
    \A order \in RunOrders :
        LET shown == Loaded(order)
        IN  SaysAllClear(shown) =>
              \A h \in Host : \A n \in StatesOn(h) :
                \E i \in DOMAIN runs :
                  runs[i].host = h /\ runs[i].state = n
                    /\ ~runs[i].preview /\ runs[i].finished

=============================================================================
