----------------------------- MODULE FleetHealth -----------------------------
(***************************************************************************)
(* The Visualizer's fleet map (visualizer/backend/fleet.py) and where its  *)
(* page draws what (topoGroups, topoLayout in ui.py).  Pure.               *)
(*                                                                         *)
(* What the Controller answers is a record                                 *)
(*   hosts   a sequence of host records                                    *)
(*   health  host id -> heartbeat, and posture  host id -> sweep, partial  *)
(*   agents  a sequence of agent records                                   *)
(*   supps   a set of suppressions                                         *)
(* None stands for a value that is missing.  Percentages and counts that   *)
(* are missing or no numbers are read as 0 by the code and are 0 here.     *)
(***************************************************************************)
EXTENDS Integers, Sequences, FiniteSets, FiniteSetsExt, Functions

CONSTANTS
    None,
    SubnetOf   \* address -> its /24

\* STATUSES, worst first
Statuses == <<"CRITICAL", "OFFLINE", "WARNING", "SUPPRESSED", "OK", "UNKNOWN">>

Rank(status) == CHOOSE i \in DOMAIN Statuses : Statuses[i] = status

CritFlags == {"ssh_root_login", "firewall_disabled", "eol_os", "risky_accounts"}

-----------------------------------------------------------------------------
(* Suppressions *)

InScope(s, host, env) ==
    /\ s.scope = "host" => s.target = host
    /\ s.scope = "env"  => s.target = env

BugStillOn(s, boot, now) ==
    CASE s.type = "snooze" -> s.until # None => s.until > now
      [] s.type = "reboot" -> boot # None /\ s.boot # None /\ boot <= s.boot
      [] OTHER -> TRUE

\* A snooze ends by the clock, a reboot suppression when the host has booted past
\* the one recorded; unknown boot times leave it on.
StillOn(s, boot, now) ==
    CASE s.type = "snooze" -> s.until # None => s.until > now
      [] s.type = "reboot" -> boot # None /\ s.boot # None => boot <= s.boot
      [] OTHER -> TRUE

SuppActive(s, host, env, key, boot, now) ==
    s.key = key /\ InScope(s, host, env) /\ StillOn(s, boot, now)

\* _supp_finder: the keys that are silenced
Silenced(supps, host, env, boot, now) ==
    {s.key : s \in {x \in supps : SuppActive(x, host, env, x.key, boot, now)}}

-----------------------------------------------------------------------------
(* Verdicts *)

Finding(sev, key) == [sev |-> sev, key |-> key]

\* What health_verdict adds up; no key, never silenced.
Findings(hh) ==
    (IF hh.ok = FALSE THEN {Finding(2, None)} ELSE {})
    \cup (CASE hh.disk >= 90 -> {Finding(1, "disk_critical")}
            [] hh.disk \in 80..89 -> {Finding(2, None)}
            [] OTHER -> {})
    \cup (IF hh.mem >= 90 THEN {Finding(1, None)} ELSE {})
    \cup (IF hh.failed > 0
          THEN {Finding(IF hh.failed >= 3 THEN 1 ELSE 2, "failed_units")} ELSE {})
    \cup (IF hh.oom > 0 THEN {Finding(1, None)} ELSE {})

VerdictOf(findings, silenced) ==
    LET active == {f \in findings : f.key \notin silenced}
    IN  CASE active = {} -> IF findings = {} THEN "OK" ELSE "SUPPRESSED"
          [] OTHER -> IF \E f \in active : f.sev = 1 THEN "CRITICAL" ELSE "WARNING"

\* None when nothing is known, as of a host never probed
HealthVerdict(hh, silenced) ==
    CASE hh.online = FALSE -> "OFFLINE"
      [] hh.online = None /\ hh.verdict = None -> None
      [] OTHER -> VerdictOf(Findings(hh), silenced)

StatusOf(node) ==
    CASE node.online = FALSE -> "OFFLINE"
      [] node.online = None /\ node.verdict = None -> "UNKNOWN"
      [] OTHER -> IF node.verdict = None THEN "OK" ELSE node.verdict

\* of no nodes, the last
Worst(nodes) ==
    Statuses[Min({Rank(StatusOf(n)) : n \in nodes} \cup {6})]

-----------------------------------------------------------------------------
(* build *)

NoHeartbeat == [online |-> None, verdict |-> None, ok |-> None, disk |-> 0, mem |-> 0,
                failed |-> 0, oom |-> 0, hyp |-> None, guests |-> {}]

NoSweep == [flags |-> {}, boot |-> None, gateway |-> None]

NoAgent == [hostname |-> None, host |-> None, ip |-> None, ctl |-> FALSE,
            revoked |-> FALSE, quarantined |-> FALSE]

\* by_id and post_by_id
Lookup(f, id, otherwise) == IF id \in DOMAIN f THEN f[id] ELSE otherwise

\* By name first, then by id; of several the last.
AgentOf(agents, h) ==
    LET by(field, value) == {i \in DOMAIN agents : agents[i][field] = value}
        named == by("hostname", h.label)
        known == IF named # {} THEN named ELSE by("host", h.id)
    IN  IF known = {} THEN NoAgent ELSE agents[Max(known)]

Or(value, other) == IF value # None THEN value ELSE other

Node(h, answers, now) ==
    LET known == h.id \in DOMAIN answers.health
        hh    == Lookup(answers.health, h.id, NoHeartbeat)
        pr    == Lookup(answers.posture, h.id, NoSweep)
        ag    == AgentOf(answers.agents, h)
        quiet == Silenced(answers.supps, h.label, h.env, pr.boot, now)
        ip    == Or(ag.ip, h.ip)
    IN  [id |-> h.id, label |-> h.label, env |-> h.env,
         ctl         |-> ag.ctl \/ h.ctl,
         online      |-> IF known THEN hh.online ELSE h.online,
         verdict     |-> HealthVerdict(hh, quiet),
         hasCrit     |-> \/ hh.disk >= 90 /\ "disk_critical" \notin quiet
                         \/ (pr.flags \cap CritFlags) \ quiet # {},
         ip          |-> ip,
         subnet      |-> IF ip = None THEN None ELSE SubnetOf[ip],
         gateway     |-> pr.gateway,
         revoked     |-> ag.revoked,
         quarantined |-> ag.quarantined,
         hyp         |-> Or(hh.hyp, h.hyp),
         guests      |-> IF hh.guests # {} THEN hh.guests ELSE h.guests]

Build(answers, now) ==
    [i \in DOMAIN answers.hosts |-> Node(answers.hosts[i], answers, now)]

\* guest -> hypervisor; of several that name it the last
Parents(nodes) ==
    LET hosting(guest) == {i \in DOMAIN nodes : /\ nodes[i].hyp # None
                                                /\ guest \in nodes[i].guests
                                                /\ guest # nodes[i].label}
        guests == {n.label : n \in {x \in Range(nodes) : hosting(x.label) # {}}}
    IN  [g \in guests |-> nodes[Max(hosting(g))].label]

Counts(nodes) ==
    LET managed == {i \in DOMAIN nodes : ~nodes[i].ctl}
    IN  [online   |-> Cardinality({i \in managed : nodes[i].online = TRUE}),
         offline  |-> Cardinality({i \in managed : nodes[i].online = FALSE}),
         critical |-> Cardinality({i \in managed :
                        nodes[i].hasCrit /\ nodes[i].online # FALSE})]

-----------------------------------------------------------------------------
(* The page *)

GroupKey(lens, n) == IF lens = "network" THEN n.subnet ELSE n.env

\* Guests and the Controller are in no group.
Grouped(nodes) ==
    {i \in DOMAIN nodes : ~nodes[i].ctl /\ nodes[i].label \notin DOMAIN Parents(nodes)}

Hubs(nodes, lens) ==
    LET keys == {GroupKey(lens, nodes[i]) : i \in Grouped(nodes)}
    IN  [k \in keys |->
           Worst({nodes[i] : i \in {j \in Grouped(nodes) : GroupKey(lens, nodes[j]) = k}})]

\* The hosts of the groups that are not collapsed.
Placed(nodes, lens, collapsed) ==
    {i \in Grouped(nodes) : GroupKey(lens, nodes[i]) \notin collapsed}

\* ... and, beyond them, the guests of those.
Drawn(nodes, lens, collapsed) ==
    LET placed == Placed(nodes, lens, collapsed)
        labels == {nodes[i].label : i \in placed}
    IN  placed \cup {i \in DOMAIN nodes :
                       /\ ~nodes[i].ctl
                       /\ nodes[i].label \in DOMAIN Parents(nodes)
                       /\ Parents(nodes)[nodes[i].label] \in labels}

-----------------------------------------------------------------------------
\* The map before the sweep of the fleet has come in shows no host worse than the map
\* after it: what is added can only reveal.
SweepOnlyReveals(answers, now) ==
    LET full == Build(answers, now)
        fast == Build([answers EXCEPT !.posture = <<>>], now)
    IN  \A i \in DOMAIN full :
          /\ Rank(StatusOf(fast[i])) >= Rank(StatusOf(full[i]))
          /\ fast[i].hasCrit => full[i].hasCrit

\* One suppression more shows no host worse, and hides none that is offline.
SilenceOnlyHides(answers, s, now) ==
    LET loud  == Build(answers, now)
        quiet == Build([answers EXCEPT !.supps = @ \cup {s}], now)
    IN  \A i \in DOMAIN loud :
          /\ Rank(StatusOf(quiet[i])) >= Rank(StatusOf(loud[i]))
          /\ StatusOf(loud[i]) = "OFFLINE" <=> StatusOf(quiet[i]) = "OFFLINE"
          /\ StatusOf(quiet[i]) = "OK" => StatusOf(loud[i]) = "OK"

\* A hub has the colour of the worst of its hosts; with nothing collapsed every host
\* is drawn, but for the guests of a machine that is itself a guest or the Controller;
\* and as many are counted offline as the map would paint so.
NobodyIsLost(nodes, lens) ==
    /\ Counts(nodes).offline =
         Cardinality({i \in DOMAIN nodes : ~nodes[i].ctl /\ StatusOf(nodes[i]) = "OFFLINE"})
    /\ \A i \in Grouped(nodes) :
         Rank(Hubs(nodes, lens)[GroupKey(lens, nodes[i])]) <= Rank(StatusOf(nodes[i]))
    /\ \A i \in DOMAIN nodes : ~nodes[i].ctl =>
         \/ i \in Drawn(nodes, lens, {})
         \/ \E j \in DOMAIN nodes \ {i} :
              /\ nodes[i].label \in nodes[j].guests
              /\ nodes[j].ctl \/ nodes[j].label \in DOMAIN Parents(nodes)

=============================================================================
