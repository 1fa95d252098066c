----------------------------- MODULE EventRules -----------------------------
(***************************************************************************)
(* What Baseline makes of salt-call's output and which rules it fires      *)
(* (baseline/backend/salt.py parse_return, eda.py).  Pure: no state.       *)
(*                                                                         *)
(* Output comes as [kind, body].  kind says what the text is: "json" is a  *)
(* mapping whose values are body; "empty", "nosalt", "text", "malformed",  *)
(* "list" and "shape" are the returns the parser calls an error.  A value  *)
(* of the mapping that is no mapping itself has dict = FALSE.  Salt's      *)
(* result is "true", "false" or, for a change that a test run would make,  *)
(* "none".  A rule's pattern is the set of names that fnmatch lets it      *)
(* match.  States keep their place in the mapping: a rule fires for the    *)
(* first that it matches.  The actions are a set: their order, that of the *)
(* rules' names, decides nothing.                                          *)
(***************************************************************************)
EXTENDS Naturals, FiniteSets

Actions == {"notify", "command", "capture", "reapply"}

TRIGGERS == {"changed", "failed", "ok", "any"}

\* parse_return.  A return with no state in it is an error, never a success.
ParseReturn(ret) ==
    LET recs   == IF ret.kind = "json"
                  THEN [i \in {k \in DOMAIN ret.body : ret.body[k].dict} |-> ret.body[i]]
                  ELSE <<>>
        failed == Cardinality({i \in DOMAIN recs : recs[i].result = "false"})
    IN  [states  |-> recs,
         changed |-> Cardinality({i \in DOMAIN recs : recs[i].changed}),
         failed  |-> failed,
         ok      |-> DOMAIN recs # {} /\ failed = 0,
         error   |-> IF ret.kind # "json" THEN ret.kind
                     ELSE IF DOMAIN recs = {} THEN "no states" ELSE "none"]

BugMatches(rule, st) ==
    /\ {st.id, st.function} \cap rule.match # {}
    /\ rule.trigger = "failed" => st.result = "false"

\* _matches
Matches(rule, st) ==
    /\ {st.id, st.function} \cap rule.match # {}
    /\ \/ rule.trigger = "any"
       \/ rule.trigger = "changed" /\ st.changed
       \/ rule.trigger = "failed" /\ st.result = "false"
       \/ rule.trigger = "ok" /\ st.result = "true" /\ ~st.changed

\* Whether a rule has anything to say about these states.  One with an unknown
\* action says that it does nothing.
Fires(rule, states) ==
    /\ rule.enabled
    /\ \/ rule.action \notin Actions
       \/ \E i \in DOMAIN states : Matches(rule, states[i])

\* The one action of a rule that fires: for the first state it matches.
Firing(rule, states) ==
    IF rule.action \notin Actions
    THEN [rule |-> rule.name, action |-> "notify", state |-> "-", why |-> "unknown"]
    ELSE LET first == CHOOSE i \in DOMAIN states :
                        /\ Matches(rule, states[i])
                        /\ \A j \in DOMAIN states : j < i => ~Matches(rule, states[j])
         IN  [rule |-> rule.name, action |-> rule.action,
              state |-> states[first].id, why |-> rule.trigger]

\* evaluate
Evaluate(rules, parsed) ==
    IF DOMAIN parsed.states = {} THEN {}
    ELSE {Firing(r, parsed.states) : r \in {q \in rules : Fires(q, parsed.states)}}

=============================================================================
