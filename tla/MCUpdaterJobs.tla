---------------------------- MODULE MCUpdaterJobs ----------------------------
(* Instances of UpdaterJobs for TLC.                                        *)
EXTENDS UpdaterJobs, TLC

CONSTANTS controller

\* One of each way through the code: both hand-offs, an action beside them, and
\* an update-all that ends in a hand-off.
MCTasks ==
    {[kind |-> "update", items |-> {Slop}],
     [kind |-> "action", items |-> {Slop}],
     [kind |-> "module", items |-> {Slop}],
     [kind |-> "all", items |-> {controller, Slop}]}

\* Updates only, of either product or of both.
MCUpdates ==
    {[kind |-> "update", items |-> {p}] : p \in Product}
    \cup {[kind |-> "all", items |-> Product]}

\* Request threads are alike (safety only).
Symmetry == Permutations(Thread)

\* What the lock and the record depend on: which side started last and what the
\* console showed last decide nothing.
LockView == <<th, locked, job, helper, memo, leaked, restarts>>

=============================================================================
