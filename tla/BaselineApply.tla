---------------------------- MODULE BaselineApply ----------------------------
(***************************************************************************)
(* Applying a state to many hosts from Baseline's console: applyMany and   *)
(* what the operator can do around it (the script in                       *)
(* baseline/backend/ui.py).                                                *)
(*                                                                         *)
(* A page runs one callback at a time; a lane yields only while its        *)
(* request is in flight.  Each call of applyMany has its own lanes, `next` *)
(* and `preview`, which its lanes close over.  The panel, APPLY, is one    *)
(* variable of the page: lanes read it anew on every turn of their loop.   *)
(***************************************************************************)
EXTENDS Naturals, Sequences, FiniteSets

CONSTANTS
    Host,
    HostLists,     \* what hostsWith and applyTo may name: lists without repetition
    APPLY_LANES,
    MaxOps         \* bound: calls of applyMany

ASSUME ApplyAssumption ==
    /\ HostLists \subseteq Seq(Host) \ {<<>>}
    /\ APPLY_LANES \in Nat \ {0} /\ MaxOps \in Nat

VARIABLES
    ops,      \* calls of applyMany, each with the panel it made
    panel,    \* APPLY: the call whose panel it is, or 0
    lanes,    \* [call, number] -> where the lane is
    answers   \* external: what hosts were asked and how it was answered

vars == <<ops, panel, lanes, answers>>

Answered == {"ok", "err"}

Lesser(m, n) == IF m < n THEN m ELSE n

Init == ops = <<>> /\ panel = 0 /\ lanes = <<>> /\ answers = {}

-----------------------------------------------------------------------------
\* applyEverywhere, applyTo, applyMany up to its first await: a panel with a row
\* for each host, and lanes that have each sent the request of a row.
ApplyMany(hosts, preview) ==
    LET op    == Len(ops) + 1
        count == Lesser(APPLY_LANES, Len(hosts))
    IN  /\ op <= MaxOps
        /\ ops' = Append(ops, [preview |-> preview, hosts |-> hosts, next |-> count,
                               running |-> TRUE,
                               rows |-> [i \in DOMAIN hosts |->
                                           IF i <= count THEN "running" ELSE "waiting"]])
        /\ panel' = op
        /\ lanes' = [l \in DOMAIN lanes \cup {<<op, k>> : k \in 1..count} |->
                       IF l[1] = op THEN [at |-> "asking", panel |-> op, row |-> l[2]]
                       ELSE lanes[l]]
        /\ UNCHANGED answers

\* Every lane of the call but this one has left its loop.
LastOf(l) == \A m \in DOMAIN lanes : m[1] = l[1] /\ m # l => lanes[m].at = "over"

\* The row the lane took before it waited.
RowOf(l) == [panel |-> lanes[l].panel, row |-> lanes[l].row]

BugStopsEarly(l) == panel # 0 /\ ops[l[1]].next + 1 < Len(ops[panel].rows)

\* The row that a lane takes next: the call's own `next`, in the panel there is.
TakesNext(l) == panel # 0 /\ ops[l[1]].next < Len(ops[panel].rows)

BugNextRow(l) == ops[l[1]].next

NextRow(l) == ops[l[1]].next + 1

\* A request is answered and its lane goes on: to the next row, to the end of
\* its loop, or, where the panel was dismissed, into an exception that rejects
\* the call's Promise.all.
LaneResumes(l, result) ==
    LET q    == RowOf(l)
        mine == [ops EXCEPT ![q.panel].rows[q.row] = result]
    IN  /\ lanes[l].at = "asking"
        /\ answers' = answers \cup
             {[host |-> ops[lanes[l].panel].hosts[lanes[l].row],
               preview |-> ops[l[1]].preview, result |-> result]}
        /\ \/ /\ TakesNext(l)
              /\ ops' = [mine EXCEPT ![l[1]].next = NextRow(l),
                                     ![panel].rows[NextRow(l)] = "running"]
              /\ lanes' = [lanes EXCEPT ![l] =
                             [at |-> "asking", panel |-> panel, row |-> NextRow(l)]]
           \/ /\ panel # 0 /\ ~TakesNext(l)
              /\ ops' = IF LastOf(l) THEN [mine EXCEPT ![panel].running = FALSE] ELSE mine
              /\ lanes' = [lanes EXCEPT ![l] = [at |-> "over"]]
           \/ /\ panel = 0
              /\ ops' = mine
              /\ lanes' = [lanes EXCEPT ![l] = [at |-> "rejected"]]
        /\ UNCHANGED panel

\* data-applyclose: the panel can be dismissed while it runs
Dismiss ==
    /\ panel # 0
    /\ panel' = 0
    /\ UNCHANGED <<ops, lanes, answers>>

Next ==
    \/ \E hosts \in HostLists, preview \in BOOLEAN : ApplyMany(hosts, preview)
    \/ \E l \in DOMAIN lanes, result \in Answered : LaneResumes(l, result)
    \/ Dismiss

\* Every request is answered: the Controller's answer or a timeout.
Fairness ==
    \A op \in 1..MaxOps, k \in 1..APPLY_LANES :
        WF_vars(/\ <<op, k>> \in DOMAIN lanes
                /\ \E result \in Answered : LaneResumes(<<op, k>>, result))

Spec == Init /\ [][Next]_vars /\ Fairness

-----------------------------------------------------------------------------
(* What the panel says                                                      *)

\* applyCounts
With(op, State) == {i \in DOMAIN ops[op].rows : ops[op].rows[i] \in State}

-----------------------------------------------------------------------------
Call == [preview : BOOLEAN, hosts : HostLists, next : Nat, running : BOOLEAN,
         rows : Seq({"waiting", "running"} \cup Answered)]

\* The calls there were have a row for each of their hosts.
Shape(calls) ==
    /\ calls \in Seq(Call)
    /\ \A op \in DOMAIN calls : Len(calls[op].rows) = Len(calls[op].hosts)

\* A lane asks for a row of some call's panel, or has ended.
Placed(lane, calls) ==
    \/ lane \in [at : {"over", "rejected"}]
    \/ /\ lane \in [at : {"asking"}, panel : DOMAIN calls, row : Nat]
       /\ lane.row \in DOMAIN calls[lane.panel].rows

TypeOK ==
    /\ Shape(ops) /\ Len(ops) <= MaxOps /\ panel \in 0..Len(ops)
    /\ DOMAIN lanes \subseteq (DOMAIN ops) \X (1..APPLY_LANES)
    /\ \A l \in DOMAIN lanes : Placed(lanes[l], ops)
    /\ answers \subseteq [host : Host, preview : BOOLEAN, result : Answered]

\* Left alone, an apply asks each host once: no row is asked by two lanes, and one
\* that waits for its turn is beyond those that were taken.
AskedOnce ==
    Len(ops) = 1 =>
        /\ \A l, m \in DOMAIN lanes :
             lanes[l].at = "asking" /\ lanes[m].at = "asking" /\ l # m =>
                lanes[l].row # lanes[m].row
        /\ \A i \in DOMAIN ops[1].rows : ops[1].rows[i] = "waiting" <=> i > ops[1].next

\* The panel that stays on the screen comes to an end with an answer for every
\* host, though earlier calls' lanes work on it too and others were dismissed.
PanelEnds ==
    <>[](panel # 0 => /\ ~ops[panel].running
                      /\ With(panel, Answered) = DOMAIN ops[panel].rows)

\* A host that the operator only asked to preview is not applied ("assert ASKED
\* and all(preview for _t, preview in ASKED)", tests).
PreviewStaysPreview ==
    \A a \in answers : ~a.preview =>
        \E op \in DOMAIN ops : ~ops[op].preview /\ \E i \in DOMAIN ops[op].hosts :
            ops[op].hosts[i] = a.host

=============================================================================
