----------------------------- MODULE MCBaseline -----------------------------
(* Instances of the Baseline store and its console for TLC.                 *)
EXTENDS BaselineVerdicts

CONSTANTS h1, h2, prod, web, db, t1, t2

MCNameOrder == <<db, web>>

MCOneName == <<web>>

MCEnvOf == [h \in Host |-> prod]

Outcome(id, result, changed) ==
    [id |-> id, function |-> "file.managed", result |-> result,
     changed |-> changed, dict |-> TRUE]

\* A host that had to be changed, and one without Salt.
MCReturns ==
    {[kind |-> "json", body |-> <<Outcome("a", "true", FALSE), Outcome("b", "true", TRUE)>>],
     [kind |-> "nosalt", body |-> <<>>]}

\* A rule on every state that changed.
MCRules ==
    {[name |-> 1, match |-> {"a", "b"}, trigger |-> "changed", action |-> "command",
      enabled |-> TRUE]}

\* Request threads are alike, and so are texts and the hosts of one environment.
Symmetry == Permutations(Handler) \cup Permutations(Text) \cup Permutations(Host)

\* Bounds of the store's instance: one assignment stands at a time (that of an
\* environment carries both hosts), and once the last run has started requests
\* come one at a time.
OneAfterAnother ==
    /\ Cardinality(assignments) <= 1
    /\ Len(runs) = MaxRuns => Cardinality({h \in Handler : req[h] # Idle}) <= 1

=============================================================================
