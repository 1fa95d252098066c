------------------------- MODULE BaselineStoreProofs -------------------------
(***************************************************************************)
(* Proofs about BaselineStore for any states, hosts, handlers, rules,      *)
(* salt-call outputs and retention.                                        *)
(*                                                                         *)
(* Versioned says which versions of a state there are: the newest          *)
(* KEEP_VERSIONS up to some top, each with one row.  Recorded says that a  *)
(* command agrees with its run from the moment it is built, while its      *)
(* handler still collects the answer.                                      *)
(* CauseInv says that what a report fires was caused by it, while the      *)
(* handler still has to record both.  What the console makes of the tables *)
(* needs only that they are tables.                                        *)
(***************************************************************************)
EXTENDS BaselineVerdicts, FiniteSetTheorems, SequenceTheorems, TLAPS

\* The versions kept of a state whose newest is top.
Kept(top) == {v \in 1..top : top - KEEP_VERSIONS < v}

Versioned ==
    /\ \A n \in Name : \E top \in 0..MaxVersion : VersionsOf(n, states) = Kept(top)
    /\ \A r, s \in states : r.name = s.name /\ r.version = s.version => r = s

\* The run's row says what the command asks for.
Records(c) ==
    /\ c.run \in DOMAIN runs
    /\ <<c.host, c.state, c.version, c.preview>>
         = <<runs[c.run].host, runs[c.run].state, runs[c.run].version, runs[c.run].preview>>

Recorded ==
    /\ \A c \in commands : Records(c)
    /\ \A h \in Handler : req[h].at \in {"env", "state", "start"} =>
         \A c \in req[h].answer : Records(c)

StoreInv == TypeOK /\ Versioned /\ Recorded

-----------------------------------------------------------------------------
(* Versions *)

\* The newest of a set of numbers is its greatest.
LEMMA NewestIs ==
    ASSUME NEW V \in SUBSET Nat, NEW top \in V, \A v \in V : v <= top
    PROVE  Newest(V) = top
<1>1. \E v \in V : \A w \in V : w <= v
    OBVIOUS
<1>2. Newest(V) \in V /\ \A w \in V : w <= Newest(V)
    BY <1>1 DEF Newest
<1>3. Newest(V) \in Nat /\ top \in Nat /\ Newest(V) <= top /\ top <= Newest(V)
    BY <1>2
<1>4. QED
    BY <1>3

\* Kept(top) is empty only for top = 0, and its newest is top.
LEMMA KeptTop ==
    ASSUME NEW top \in Nat
    PROVE  /\ Kept(top) \subseteq Nat /\ (Kept(top) = {} <=> top = 0)
           /\ top > 0 => top \in Kept(top) /\ Newest(Kept(top)) = top
<1>0. KEEP_VERSIONS \in Nat /\ KEEP_VERSIONS > 0
    BY BaselineAssumption
<1>1. Kept(top) \subseteq Nat /\ \A v \in Kept(top) : v <= top
    BY DEF Kept
<1>2. CASE top = 0
    BY <1>0, <1>1, <1>2 DEF Kept
<1>3. CASE top > 0
    <2>1. top \in Kept(top)
        BY <1>0, <1>3 DEF Kept
    <2>2. Newest(Kept(top)) = top
        BY <1>1, <2>1, NewestIs
    <2>3. QED
        BY <1>1, <1>3, <2>1, <2>2
<1>4. QED
    BY <1>2, <1>3

\* The version after the newest.
LEMMA NextVersionIs ==
    ASSUME NEW n \in Name, NEW top \in Nat, VersionsOf(n, states) = Kept(top)
    PROVE  NextVersion(n) = top + 1 /\ (Declared(n) <=> top > 0)
BY KeptTop DEF NextVersion, Declared

\* Newer versions of what is about to be pruned, counted.
LEMMA NewerThan ==
    ASSUME NEW top \in Nat, NEW u \in Kept(top) \cup {top + 1}
    PROVE  Cardinality({v \in Kept(top) \cup {top + 1} : v > u}) = top + 1 - u
<1>0. KEEP_VERSIONS \in Nat /\ KEEP_VERSIONS > 0 /\ u \in Nat /\ u <= top + 1
    BY BaselineAssumption DEF Kept
<1>1. {v \in Kept(top) \cup {top + 1} : v > u} = (u + 1)..(top + 1)
    BY <1>0 DEF Kept
<1>2. Cardinality((u + 1)..(top + 1)) = IF u + 1 > top + 1 THEN 0 ELSE (top + 1) - (u + 1) + 1
    BY <1>0, FS_Interval
<1>3. Cardinality({v \in Kept(top) \cup {top + 1} : v > u}) = Cardinality((u + 1)..(top + 1))
    BY <1>1, Zenon
<1>4. QED
    BY <1>0, <1>2, <1>3

\* What save_state leaves of a state.
LEMMA SaveStateVersions ==
    ASSUME NEW n \in Name, NEW text \in Text, NEW top \in Nat,
           VersionsOf(n, states) = Kept(top), states \subseteq Row, SaveState(n, text)
    PROVE  /\ VersionsOf(n, states') = Kept(top + 1)
           /\ \A m \in Name : m # n => VersionsOf(m, states') = VersionsOf(m, states)
           /\ states' \subseteq states \cup {[name |-> n, version |-> top + 1, sls |-> text]}
           /\ top + 1 <= MaxVersion
<1> DEFINE new  == [name |-> n, version |-> top + 1, sls |-> text]
           rows == states \cup {new}
<1>0. KEEP_VERSIONS \in Nat /\ KEEP_VERSIONS > 0
    BY BaselineAssumption
<1>1. NextVersion(n) = top + 1
    BY NextVersionIs
<1>2. states' = rows \ Old(n, rows) /\ top + 1 <= MaxVersion
    BY <1>1 DEF SaveState
<1>3. VersionsOf(n, rows) = Kept(top) \cup {top + 1}
    <2>1. VersionsOf(n, rows) = VersionsOf(n, states) \cup {new.version}
        <3>1. \A v : v \in VersionsOf(n, rows) <=> \E x \in rows : x.name = n /\ x.version = v
            BY DEF VersionsOf
        <3>2. \A v : v \in VersionsOf(n, states) <=> \E x \in states : x.name = n /\ x.version = v
            BY DEF VersionsOf
        <3>3. new.name = n
            OBVIOUS
        <3> HIDE DEF new
        <3>4. QED
            BY <3>1, <3>2, <3>3
    <2>2. QED
        BY <2>1
<1>4. \A r \in rows : r.name = n => r.version \in Kept(top) \cup {top + 1}
    BY <1>3 DEF VersionsOf
<1>5. \A r \in rows : r.name = n =>
         (r \in Old(n, rows) <=> KEEP_VERSIONS <= top + 1 - r.version)
    BY <1>3, <1>4, NewerThan DEF Old
<1>6. \A r \in rows : r \in Old(n, rows) => r.name = n
    BY DEF Old
<1>7. VersionsOf(n, states') = {v \in Kept(top) \cup {top + 1} : ~(KEEP_VERSIONS <= top + 1 - v)}
    BY <1>2, <1>3, <1>5 DEF VersionsOf
<1>8. {v \in Kept(top) \cup {top + 1} : ~(KEEP_VERSIONS <= top + 1 - v)} = Kept(top + 1)
    BY <1>0 DEF Kept
<1>9. \A m \in Name : m # n => VersionsOf(m, states') = VersionsOf(m, states)
    <2> SUFFICES ASSUME NEW m \in Name, m # n
                 PROVE  VersionsOf(m, states') = VersionsOf(m, states)
        OBVIOUS
    <2>1. \A x : x \in states' /\ x.name = m <=> x \in states /\ x.name = m
        <3>1. new.name # m
            OBVIOUS
        <3> HIDE DEF new
        <3>2. QED
            BY <1>2, <1>6, <3>1
    <2>2. QED
        BY <2>1 DEF VersionsOf
<1>10. QED
    BY <1>2, <1>7, <1>8, <1>9

\* Only saving and deleting a state touch the table of them.
LEMMA StatesSteps ==
    ASSUME [Next]_vars
    PROVE  \/ states' = states
           \/ \E n \in Name, text \in Text : SaveState(n, text)
           \/ \E n \in Name : DeleteState(n)
BY DEF Next, vars, Unassign, SaveRule, DeleteRule, AssignChecks, AssignInserts, PollHost,
       PollEnv, PollReads, PollStarts, PollAnswers, ReportArrives, FinishRun, Restart

\* What saving a state does, given what is kept of it.
LEMMA SavesAVersion ==
    ASSUME TypeOK, Versioned, NEW n \in Name, NEW text \in Text, SaveState(n, text)
    PROVE  \E top \in 0..MaxVersion :
             /\ VersionsOf(n, states) = Kept(top)
             /\ VersionsOf(n, states') = Kept(top + 1)
             /\ \A m \in Name : m # n => VersionsOf(m, states') = VersionsOf(m, states)
             /\ states' \subseteq states \cup {[name |-> n, version |-> top + 1, sls |-> text]}
             /\ top + 1 \in 1..MaxVersion
<1>1. PICK top \in 0..MaxVersion : VersionsOf(n, states) = Kept(top)
    BY DEF Versioned
<1>2. top \in Nat /\ MaxVersion \in Nat
    BY BaselineAssumption
<1>3. states \subseteq Row
    BY DEF TypeOK
<1>4. /\ VersionsOf(n, states') = Kept(top + 1)
      /\ \A m \in Name : m # n => VersionsOf(m, states') = VersionsOf(m, states)
      /\ states' \subseteq states \cup {[name |-> n, version |-> top + 1, sls |-> text]}
      /\ top + 1 <= MaxVersion
    BY <1>1, <1>2, <1>3, SaveStateVersions
<1>5. QED
    BY <1>1, <1>2, <1>4

\* A version beyond the newest is new.
LEMMA NotYetThere ==
    ASSUME NEW n \in Name, NEW top \in Nat, VersionsOf(n, states) = Kept(top),
           NEW r \in states, r.name = n
    PROVE  r.version \in Kept(top) /\ r.version < top + 1
<1>1. r.version \in Kept(top)
    BY DEF VersionsOf
<1>2. QED
    BY <1>1 DEF Kept

\* Deleting a state takes its versions and no other's.
LEMMA DeletesVersions ==
    ASSUME NEW n \in Name, DeleteState(n)
    PROVE  /\ VersionsOf(n, states') = {}
           /\ \A m \in Name : m # n => VersionsOf(m, states') = VersionsOf(m, states)
           /\ states' \subseteq states
BY DEF DeleteState, VersionsOf

\* Every step keeps the newest versions of every state, each once.
LEMMA VersionedStep == TypeOK /\ Versioned /\ [Next]_vars => Versioned'
<1> SUFFICES ASSUME TypeOK, Versioned, [Next]_vars PROVE Versioned'
    OBVIOUS
<1>1. CASE states' = states
    BY <1>1 DEF Versioned, VersionsOf
<1>2. ASSUME NEW n \in Name, NEW text \in Text, SaveState(n, text) PROVE Versioned'
    <2>1. PICK top \in 0..MaxVersion :
             /\ VersionsOf(n, states) = Kept(top)
             /\ VersionsOf(n, states') = Kept(top + 1)
             /\ \A m \in Name : m # n => VersionsOf(m, states') = VersionsOf(m, states)
             /\ states' \subseteq states \cup {[name |-> n, version |-> top + 1, sls |-> text]}
             /\ top + 1 \in 1..MaxVersion
        BY <1>2, SavesAVersion
    <2>2. top \in Nat /\ top + 1 \in 0..MaxVersion
        BY <2>1
    <2>3. ASSUME NEW m \in Name
          PROVE  \E t \in 0..MaxVersion : VersionsOf(m, states') = Kept(t)
        <3>1. CASE m = n
            BY <2>1, <2>2, <3>1
        <3>2. CASE m # n
            BY <2>1, <3>2 DEF Versioned
        <3>3. QED
            BY <3>1, <3>2
    <2>4. ASSUME NEW r \in states', NEW s \in states', r.name = s.name, r.version = s.version
          PROVE  r = s
        <3> DEFINE new == [name |-> n, version |-> top + 1, sls |-> text]
        <3>1. \A x \in states : ~(x.name = n /\ x.version = top + 1)
            BY <2>1, <2>2, NotYetThere
        <3>2. new.name = n /\ new.version = top + 1
            OBVIOUS
        <3>3. states' \subseteq states \cup {new}
            BY <2>1
        <3> HIDE DEF new
        <3>4. QED
            BY <2>4, <3>1, <3>2, <3>3 DEF Versioned
    <2>5. QED
        BY <2>3, <2>4 DEF Versioned
<1>3. ASSUME NEW n \in Name, DeleteState(n) PROVE Versioned'
    <2>1. Kept(0) = {} /\ 0 \in 0..MaxVersion
        BY KeptTop, BaselineAssumption
    <2>2. ASSUME NEW m \in Name
          PROVE  \E t \in 0..MaxVersion : VersionsOf(m, states') = Kept(t)
        <3>1. CASE m = n
            BY <1>3, <2>1, <3>1, DeletesVersions
        <3>2. CASE m # n
            BY <1>3, <3>2, DeletesVersions DEF Versioned
        <3>3. QED
            BY <3>1, <3>2
    <2>3. \A r, s \in states' : r.name = s.name /\ r.version = s.version => r = s
        BY <1>3, DeletesVersions DEF Versioned
    <2>4. QED
        BY <2>2, <2>3 DEF Versioned
<1>4. QED
    BY <1>1, <1>2, <1>3, StatesSteps

\* A declared state has its latest version.
LEMMA LatestVersion ==
    ASSUME TypeOK, Versioned, NEW n, Declared(n)
    PROVE  n \in Name /\ LatestState(n).version \in 1..MaxVersion
<1>1. PICK r \in states : r.name = n
    BY DEF Declared, VersionsOf
<1>2. n \in Name
    BY <1>1 DEF TypeOK, Row
<1>3. PICK top \in 0..MaxVersion : VersionsOf(n, states) = Kept(top)
    BY <1>2 DEF Versioned
<1>4. top \in Nat /\ top > 0
    BY <1>3, KeptTop DEF Declared
<1>5. Newest(VersionsOf(n, states)) = top /\ top \in VersionsOf(n, states)
    BY <1>3, <1>4, KeptTop
<1>6. \E x \in states : x.name = n /\ x.version = Newest(VersionsOf(n, states))
    BY <1>5 DEF VersionsOf
<1>7. LatestState(n) \in states
    BY <1>6 DEF LatestState
<1>8. QED
    BY <1>2, <1>7 DEF TypeOK, Row

-----------------------------------------------------------------------------
(* Types *)

\* Runs are only added.
LEMMA HandlingGrows ==
    ASSUME NEW A, NEW B, A \subseteq B, NEW q, Handling(q, A)
    PROVE  Handling(q, B)
BY DEF Handling

\* A step that leaves one handler with what it may hold keeps all of them so.
LEMMA OneHandler ==
    ASSUME TypeOK, NEW h \in Handler, NEW q, req' = [req EXCEPT ![h] = q],
           DOMAIN runs \subseteq DOMAIN runs', Handling(q, DOMAIN runs')
    PROVE  DOMAIN req' = Handler /\ \A g \in Handler : Handling(req'[g], DOMAIN runs')
<1>1. DOMAIN req = Handler /\ \A g \in Handler : Handling(req[g], DOMAIN runs)
    BY DEF TypeOK
<1>2. \A g \in Handler : req'[g] = IF g = h THEN q ELSE req[g]
    BY <1>1
<1>3. \A g \in Handler : Handling(req[g], DOMAIN runs')
    BY <1>1, HandlingGrows
<1>4. QED
    BY <1>1, <1>2, <1>3

\* An idle handler holds nothing.
LEMMA IdleHandling == \A ids : Handling(Idle, ids)
BY DEF Idle, Handling

\* A run's row is there from its start.
LEMMA Unfinished == Unreported \in Parsed \cup {Unreported} /\ {} \in Firings
BY DEF Firings

\* A fresh row of runs.
LEMMA StartedRow ==
    ASSUME NEW host \in Host, NEW n \in Name, NEW version \in 1..MaxVersion,
           NEW preview \in BOOLEAN, NEW started \in Int
    PROVE  [host |-> host, state |-> n, version |-> version, preview |-> preview,
            started |-> started, finished |-> FALSE, report |-> Unreported,
            actions |-> {}] \in RunRow
BY Unfinished DEF RunRow

\* Init establishes the types and the rest of the invariant.
LEMMA StoreInit == Init => StoreInv
<1> SUFFICES ASSUME Init PROVE StoreInv
    OBVIOUS
<1>1. TypeOK
    <2>1. runs \in Seq(RunRow) /\ Len(runs) <= MaxRuns
        BY BaselineAssumption DEF Init
    <2>2. DOMAIN req = Handler /\ \A h \in Handler : req[h] = Idle
        BY DEF Init
    <2>3. QED
        BY <2>1, <2>2, IdleHandling DEF Init, TypeOK
<1>2. Versioned
    <2>1. \A n \in Name : VersionsOf(n, states) = {}
        BY DEF Init, VersionsOf
    <2>2. Kept(0) = {} /\ 0 \in 0..MaxVersion
        BY KeptTop, BaselineAssumption
    <2>3. QED
        BY <2>1, <2>2 DEF Versioned, Init
<1>3. Recorded
    BY DEF Recorded, Init, Idle
<1>4. QED
    BY <1>1, <1>2, <1>3 DEF StoreInv

\* Tables that no handler's step touches.
LEMMA TablesTypes ==
    ASSUME TypeOK, Versioned,
           \/ \E n \in Name, text \in Text : SaveState(n, text)
           \/ \E n \in Name : DeleteState(n)
           \/ \E t \in Target, n \in Name : Unassign(t, n)
           \/ \E r \in Rule : SaveRule(r) \/ DeleteRule(r)
    PROVE  TypeOK'
<1>0. UNCHANGED <<runs, req, commands>>
    BY DEF SaveState, DeleteState, Unassign, SaveRule, DeleteRule
<1>1. states' \subseteq Row
    <2>1. ASSUME NEW n \in Name, NEW text \in Text, SaveState(n, text)
          PROVE  states' \subseteq Row
        <3>1. PICK top \in 0..MaxVersion :
                 /\ states' \subseteq states \cup {[name |-> n, version |-> top + 1, sls |-> text]}
                 /\ top + 1 \in 1..MaxVersion
            BY <2>1, SavesAVersion
        <3>2. QED
            BY <3>1 DEF TypeOK, Row
    <2>2. QED
        BY <2>1, DeletesVersions DEF TypeOK, Unassign, SaveRule, DeleteRule
<1>2. /\ assignments' \subseteq [target : Target, state : Name]
      /\ rules' \subseteq Rule
    BY DEF TypeOK, SaveState, DeleteState, Unassign, SaveRule, DeleteRule
<1>3. QED
    BY <1>0, <1>1, <1>2 DEF TypeOK

\* A poll goes on with other names, another version and more commands.
LEMMA PollGoesOn ==
    ASSUME NEW ids, NEW q, Handling(q, ids), q.at \in {"env", "state", "start"},
           NEW names, NEW version, NEW answer, answer \subseteq Command,
           NEW at \in {"state", "start"},
           at = "start" => Head(names) \in Name /\ version \in 1..MaxVersion
    PROVE  Handling(Goes(q, at, names, version, answer), ids) /\ q.answer \subseteq Command
<1>1. q.host \in Host /\ q.preview \in BOOLEAN /\ q.answer \subseteq Command
    BY DEF Handling
<1>2. QED
    BY <1>1 DEF Handling, Goes

\* Steps of a handler that change no table.
LEMMA ReadingTypes ==
    ASSUME StoreInv, NEW h \in Handler,
           \/ \E t \in Target, n \in Name : AssignChecks(h, t, n)
           \/ \E host \in Host, preview \in BOOLEAN : PollHost(h, host, preview)
           \/ PollEnv(h) \/ PollReads(h)
           \/ \E arrives \in BOOLEAN : PollAnswers(h, arrives)
           \/ \E cmd \in commands, ret \in Return : ReportArrives(h, cmd, ret)
    PROVE  TypeOK'
<1> USE DEF StoreInv
<1>0. /\ UNCHANGED <<states, assignments, rules, runs>>
      /\ Handling(req[h], DOMAIN runs)
    BY DEF TypeOK, AssignChecks, PollHost, PollEnv, PollReads, PollAnswers, ReportArrives
<1>1. commands' \subseteq Command
    <2>1. CASE commands' = commands
        BY <2>1 DEF TypeOK
    <2>2. ASSUME NEW arrives \in BOOLEAN, PollAnswers(h, arrives) PROVE commands' \subseteq Command
        <3>1. req[h].answer \subseteq Command
            BY <1>0, <2>2 DEF PollAnswers, Handling
        <3>2. QED
            BY <2>2, <3>1 DEF PollAnswers, TypeOK
    <2>3. QED
        BY <2>1, <2>2 DEF AssignChecks, PollHost, PollEnv, PollReads, ReportArrives
<1>2. \E q : req' = [req EXCEPT ![h] = q] /\ Handling(q, DOMAIN runs)
    <2>1. ASSUME NEW t \in Target, NEW n \in Name, AssignChecks(h, t, n)
          PROVE  \E q : req' = [req EXCEPT ![h] = q] /\ Handling(q, DOMAIN runs)
        <3> DEFINE q == [at |-> "assign", target |-> t, state |-> n]
        <3>1. req' = [req EXCEPT ![h] = q]
            BY <2>1 DEF AssignChecks
        <3>2. Handling(q, DOMAIN runs)
            BY DEF Handling
        <3>3. QED
            BY <3>1, <3>2
    <2>2. ASSUME NEW host \in Host, NEW preview \in BOOLEAN, PollHost(h, host, preview)
          PROVE  \E q : req' = [req EXCEPT ![h] = q] /\ Handling(q, DOMAIN runs)
        <3> DEFINE q == [at |-> IF EnvOf[host] = None THEN "state" ELSE "env",
                         host |-> host, preview |-> preview,
                         names |-> StatesFor(host), version |-> 0, answer |-> {}]
        <3>1. req' = [req EXCEPT ![h] = q]
            BY <2>2 DEF PollHost
        <3>2. Handling(q, DOMAIN runs)
            BY DEF Handling, Goes
        <3>3. QED
            BY <3>1, <3>2
    <2>3. ASSUME PollEnv(h) PROVE \E q : req' = [req EXCEPT ![h] = q] /\ Handling(q, DOMAIN runs)
        <3>1. PICK names :
                 req' = [req EXCEPT ![h] = Goes(req[h], "state", names, 0, req[h].answer)]
            BY <2>3 DEF PollEnv
        <3>2. req[h].at = "env"
            BY <2>3 DEF PollEnv
        <3>3. req[h].answer \subseteq Command
            BY <1>0, <3>2 DEF Handling
        <3>4. Handling(Goes(req[h], "state", names, 0, req[h].answer), DOMAIN runs)
            BY <1>0, <3>2, <3>3, PollGoesOn
        <3>5. QED
            BY <3>1, <3>4
    <2>4. ASSUME PollReads(h) PROVE \E q : req' = [req EXCEPT ![h] = q] /\ Handling(q, DOMAIN runs)
        <3> DEFINE n  == Head(req[h].names)
                   q1 == Goes(req[h], "start", req[h].names, LatestState(n).version, req[h].answer)
                   q2 == Goes(req[h], "state", Tail(req[h].names), 0, req[h].answer)
        <3>0. req[h].at = "state"
            BY <2>4 DEF PollReads
        <3>1. req[h].answer \subseteq Command
            BY <1>0, <3>0 DEF Handling
        <3>2. CASE Declared(n)
            <4>1. req' = [req EXCEPT ![h] = q1]
                BY <2>4, <3>2 DEF PollReads
            <4>2. n \in Name /\ LatestState(n).version \in 1..MaxVersion
                BY <3>2, LatestVersion
            <4>3. Handling(q1, DOMAIN runs)
                BY <1>0, <3>0, <3>1, <4>2, PollGoesOn
            <4>4. QED
                BY <4>1, <4>3
        <3>3. CASE ~Declared(n)
            <4>1. req' = [req EXCEPT ![h] = q2]
                BY <2>4, <3>3 DEF PollReads
            <4>2. Handling(q2, DOMAIN runs)
                BY <1>0, <3>0, <3>1, PollGoesOn
            <4>3. QED
                BY <4>1, <4>2
        <3>4. QED
            BY <3>2, <3>3
    <2>5. ASSUME NEW arrives \in BOOLEAN, PollAnswers(h, arrives)
          PROVE  \E q : req' = [req EXCEPT ![h] = q] /\ Handling(q, DOMAIN runs)
        BY <2>5, IdleHandling DEF PollAnswers
    <2>6. ASSUME NEW cmd \in commands, NEW ret \in Return, ReportArrives(h, cmd, ret)
          PROVE  \E q : req' = [req EXCEPT ![h] = q] /\ Handling(q, DOMAIN runs)
        <3> DEFINE parsed  == ParseReturn(ret)
                   actions == IF cmd.preview THEN {} ELSE Evaluate(rules, parsed)
                   q == [at |-> "finish", run |-> cmd.run, parsed |-> parsed,
                         actions |-> actions]
        <3>1. req' = [req EXCEPT ![h] = q]
            BY <2>6 DEF ReportArrives
        <3>2. parsed \in Parsed
            BY DEF Parsed
        <3>3. rules \in SUBSET Rule
            BY DEF TypeOK
        <3> HIDE DEF parsed
        <3>4. actions \in Firings
            BY <3>2, <3>3 DEF Firings
        <3>5. cmd.run \in DOMAIN runs
            BY DEF Recorded, Records
        <3> HIDE DEF actions
        <3>6. Handling(q, DOMAIN runs)
            BY <3>2, <3>4, <3>5 DEF Handling
        <3>7. QED
            BY <3>1, <3>6
    <2>7. QED
        BY <2>1, <2>2, <2>3, <2>4, <2>5, <2>6
<1>3. QED
    BY <1>0, <1>1, <1>2, OneHandler DEF TypeOK

\* Assigning touches one table, and frees its handler.
LEMMA AssignTypes ==
    ASSUME TypeOK, NEW h \in Handler, AssignInserts(h)
    PROVE  TypeOK'
<1>1. Handling(req[h], DOMAIN runs) /\ req[h].at = "assign"
    BY DEF TypeOK, AssignInserts
<1>2. req[h].target \in Target /\ req[h].state \in Name
    BY <1>1 DEF Handling
<1>3. assignments' \subseteq [target : Target, state : Name]
    BY <1>2 DEF TypeOK, AssignInserts
<1>4. req' = [req EXCEPT ![h] = Idle] /\ UNCHANGED <<states, rules, runs, commands>>
    BY DEF AssignInserts
<1>5. DOMAIN req' = Handler /\ \A g \in Handler : Handling(req'[g], DOMAIN runs')
    BY <1>4, OneHandler, IdleHandling
<1>6. QED
    BY <1>3, <1>4, <1>5 DEF TypeOK

\* What a poll that starts a run adds: one row, and one command that agrees with it.
LEMMA PollStartsARun ==
    ASSUME TypeOK, NEW h \in Handler, NEW step \in ClockStep, PollStarts(h, step)
    PROVE  \E row \in RunRow, cmd \in Command :
             /\ runs' = Append(runs, row) /\ runs' \in Seq(RunRow)
             /\ Len(runs') = Len(runs) + 1 /\ Len(runs') <= MaxRuns
             /\ \A i \in DOMAIN runs : runs'[i] = runs[i]
             /\ runs'[Len(runs) + 1] = row
             /\ cmd.run = Len(runs) + 1
             /\ <<cmd.host, cmd.state, cmd.version, cmd.preview>>
                  = <<row.host, row.state, row.version, row.preview>>
             /\ row.actions = {}
             /\ req' = [req EXCEPT ![h] = Goes(req[h], "state", Tail(req[h].names), 0,
                                               req[h].answer \cup {cmd})]
             /\ UNCHANGED <<states, assignments, rules, commands>>
<1> DEFINE q   == req[h]
           now == IF runs = <<>> THEN 0 ELSE runs[Len(runs)].started + step
           cmd == [run |-> Len(runs) + 1, host |-> q.host, state |-> Head(q.names),
                   version |-> q.version, preview |-> q.preview]
           row == [host |-> q.host, state |-> Head(q.names), version |-> q.version,
                   preview |-> q.preview, started |-> now, finished |-> FALSE,
                   report |-> Unreported, actions |-> {}]
<1>1. /\ q.at = "start" /\ Len(runs) < MaxRuns /\ runs' = Append(runs, row)
      /\ req' = [req EXCEPT ![h] = Goes(q, "state", Tail(q.names), 0, q.answer \cup {cmd})]
      /\ UNCHANGED <<states, assignments, rules, commands>>
    BY DEF PollStarts
<1>2. /\ q.host \in Host /\ q.preview \in BOOLEAN /\ Head(q.names) \in Name
      /\ q.version \in 1..MaxVersion
    BY <1>1 DEF TypeOK, Handling
<1>3. runs \in Seq(RunRow) /\ MaxRuns \in Nat /\ step \in Int
    BY BaselineAssumption DEF TypeOK
<1>4. Len(runs) \in Nat /\ Len(runs) + 1 \in 1..MaxRuns
    BY <1>1, <1>3
<1>5. now \in Int
    <2>1. CASE runs = <<>>
        BY <2>1
    <2>2. CASE runs # <<>>
        <3>1. Len(runs) \in 1..Len(runs)
            BY <1>3, <1>4, <2>2, EmptySeq
        <3>2. runs[Len(runs)] \in RunRow
            BY <1>3, <3>1, ElementOfSeq
        <3>3. runs[Len(runs)].started \in Int
            BY <3>2 DEF RunRow
        <3>4. QED
            BY <1>3, <2>2, <3>3
    <2>3. QED
        BY <2>1, <2>2
<1> HIDE DEF now
<1>6. row \in RunRow
    BY <1>2, <1>5, StartedRow
<1>7. cmd \in Command
    BY <1>2, <1>4 DEF Command
<1>8. /\ cmd.run = Len(runs) + 1
      /\ <<cmd.host, cmd.state, cmd.version, cmd.preview>>
           = <<row.host, row.state, row.version, row.preview>>
      /\ row.actions = {}
    OBVIOUS
<1> HIDE DEF row, cmd, q
<1>9. /\ runs' \in Seq(RunRow) /\ Len(runs') = Len(runs) + 1
      /\ \A i \in 1..Len(runs) : runs'[i] = runs[i]
      /\ runs'[Len(runs) + 1] = row
    BY <1>1, <1>3, <1>6, AppendProperties
<1>10. DOMAIN runs = 1..Len(runs)
    BY <1>3, LenProperties
<1>11. /\ runs' = Append(runs, row) /\ Len(runs') <= MaxRuns
       /\ \A i \in DOMAIN runs : runs'[i] = runs[i]
       /\ req' = [req EXCEPT ![h] = Goes(req[h], "state", Tail(req[h].names), 0,
                                         req[h].answer \cup {cmd})]
       /\ UNCHANGED <<states, assignments, rules, commands>>
    BY <1>1, <1>4, <1>9, <1>10 DEF q
<1>12. QED
    BY <1>6, <1>7, <1>8, <1>9, <1>11

\* Starting a run keeps the types.
LEMMA StartTypes ==
    ASSUME TypeOK, NEW h \in Handler, NEW step \in ClockStep, PollStarts(h, step)
    PROVE  TypeOK'
<1>1. PICK row \in RunRow, cmd \in Command :
         /\ runs' \in Seq(RunRow)
         /\ Len(runs') = Len(runs) + 1 /\ Len(runs') <= MaxRuns
         /\ req' = [req EXCEPT ![h] = Goes(req[h], "state", Tail(req[h].names), 0,
                                           req[h].answer \cup {cmd})]
         /\ UNCHANGED <<states, assignments, rules, commands>>
    BY PollStartsARun
<1>2. runs \in Seq(RunRow) /\ Len(runs) \in Nat
    BY DEF TypeOK
<1>3. DOMAIN runs \subseteq DOMAIN runs'
    BY <1>1, <1>2
<1>4. Handling(req[h], DOMAIN runs) /\ req[h].at = "start"
    BY DEF TypeOK, PollStarts
<1>5. Handling(req[h], DOMAIN runs')
    BY <1>3, <1>4, HandlingGrows
<1>6. req[h].answer \cup {cmd} \subseteq Command
    BY <1>4 DEF Handling
<1>7. Handling(Goes(req[h], "state", Tail(req[h].names), 0, req[h].answer \cup {cmd}),
               DOMAIN runs')
    BY <1>4, <1>5, <1>6, PollGoesOn
<1>8. DOMAIN req' = Handler /\ \A g \in Handler : Handling(req'[g], DOMAIN runs')
    BY <1>1, <1>3, <1>7, OneHandler
<1>9. QED
    BY <1>1, <1>8 DEF TypeOK

\* What recording a report changes of a run, and what it leaves.
LEMMA FinishesARun ==
    ASSUME TypeOK, NEW h \in Handler, FinishRun(h)
    PROVE  /\ runs' \in Seq(RunRow) /\ Len(runs') = Len(runs) /\ DOMAIN runs' = DOMAIN runs
           /\ \A i \in DOMAIN runs :
                <<runs'[i].host, runs'[i].state, runs'[i].version, runs'[i].preview,
                  runs'[i].started>>
                  = <<runs[i].host, runs[i].state, runs[i].version, runs[i].preview,
                      runs[i].started>>
           /\ req' = [req EXCEPT ![h] = Idle]
           /\ UNCHANGED <<states, assignments, rules, commands>>
<1> DEFINE q   == req[h]
           new == [runs[q.run] EXCEPT !.finished = TRUE, !.report = q.parsed,
                                      !.actions = q.actions]
<1>1. q.run \in DOMAIN runs /\ q.parsed \in Parsed /\ q.actions \in Firings
    BY DEF TypeOK, Handling, FinishRun
<1>2. runs \in Seq(RunRow) /\ DOMAIN runs = 1..Len(runs) /\ Len(runs) \in Nat
    BY DEF TypeOK
<1>3. runs' = [runs EXCEPT ![q.run] = new]
    BY <1>1 DEF FinishRun
<1>4. runs[q.run] \in RunRow
    BY <1>1, <1>2
<1>5. /\ new \in RunRow
      /\ <<new.host, new.state, new.version, new.preview, new.started>>
           = <<runs[q.run].host, runs[q.run].state, runs[q.run].version,
               runs[q.run].preview, runs[q.run].started>>
    BY <1>1, <1>4 DEF RunRow
<1> HIDE DEF new
<1>6. DOMAIN runs' = DOMAIN runs /\ \A i \in DOMAIN runs : runs'[i] = IF i = q.run THEN new ELSE runs[i]
    BY <1>3
<1>7. runs' \in Seq(RunRow) /\ Len(runs') = Len(runs)
    BY <1>1, <1>2, <1>3, <1>5, ExceptSeq
<1>8. \A i \in DOMAIN runs :
         <<runs'[i].host, runs'[i].state, runs'[i].version, runs'[i].preview, runs'[i].started>>
           = <<runs[i].host, runs[i].state, runs[i].version, runs[i].preview, runs[i].started>>
    BY <1>5, <1>6
<1>9. QED
    BY <1>6, <1>7, <1>8 DEF FinishRun

\* Recording a report keeps the types.
LEMMA FinishTypes ==
    ASSUME TypeOK, NEW h \in Handler, FinishRun(h)
    PROVE  TypeOK'
<1>1. /\ runs' \in Seq(RunRow) /\ Len(runs') = Len(runs) /\ DOMAIN runs' = DOMAIN runs
      /\ req' = [req EXCEPT ![h] = Idle]
      /\ UNCHANGED <<states, assignments, rules, commands>>
    BY FinishesARun
<1>2. DOMAIN req' = Handler /\ \A g \in Handler : Handling(req'[g], DOMAIN runs')
    BY <1>1, IdleHandling, OneHandler
<1>3. QED
    BY <1>1, <1>2 DEF TypeOK

\* A restart empties the handlers.
LEMMA RestartTypes == TypeOK /\ Restart => TypeOK'
<1> SUFFICES ASSUME TypeOK, Restart PROVE TypeOK'
    OBVIOUS
<1>1. /\ req' = [h \in Handler |-> Idle]
      /\ UNCHANGED <<states, assignments, rules, runs, commands>>
    BY DEF Restart
<1>2. DOMAIN req' = Handler /\ \A h \in Handler : Handling(req'[h], DOMAIN runs')
    BY <1>1, IdleHandling
<1>3. QED
    BY <1>1, <1>2 DEF TypeOK

\* Every step keeps the types.
LEMMA StoreTypeStep == StoreInv /\ [Next]_vars => TypeOK'
<1> SUFFICES ASSUME StoreInv, [Next]_vars PROVE TypeOK'
    OBVIOUS
<1>0. TypeOK /\ Versioned
    BY DEF StoreInv
<1>1. CASE UNCHANGED vars
    <2>1. UNCHANGED <<states, assignments, rules, runs, req, commands>>
        BY <1>1 DEF vars
    <2>2. QED
        BY <1>0, <2>1 DEF TypeOK
<1>2. CASE \/ \E n \in Name, text \in Text : SaveState(n, text)
           \/ \E n \in Name : DeleteState(n)
           \/ \E t \in Target, n \in Name : Unassign(t, n)
           \/ \E r \in Rule : SaveRule(r) \/ DeleteRule(r)
    BY <1>0, <1>2, TablesTypes
<1>3. ASSUME NEW h \in Handler,
             \/ \E t \in Target, n \in Name : AssignChecks(h, t, n)
             \/ \E host \in Host, preview \in BOOLEAN : PollHost(h, host, preview)
             \/ PollEnv(h) \/ PollReads(h)
             \/ \E arrives \in BOOLEAN : PollAnswers(h, arrives)
             \/ \E cmd \in commands, ret \in Return : ReportArrives(h, cmd, ret)
      PROVE  TypeOK'
    BY <1>3, ReadingTypes
<1>4. ASSUME NEW h \in Handler,
             \/ AssignInserts(h)
             \/ \E step \in ClockStep : PollStarts(h, step)
             \/ FinishRun(h)
      PROVE  TypeOK'
    BY <1>0, <1>4, AssignTypes, StartTypes, FinishTypes
<1>5. CASE Restart
    BY <1>0, <1>5, RestartTypes
<1>6. QED
    BY <1>1, <1>2, <1>3, <1>4, <1>5 DEF Next

-----------------------------------------------------------------------------
(* Commands and their runs *)

\* A command that its run's row records is recorded as long as runs keep theirs.
LEMMA RecordsLast ==
    ASSUME NEW c, Records(c), DOMAIN runs \subseteq DOMAIN runs',
           \A i \in DOMAIN runs :
             <<runs'[i].host, runs'[i].state, runs'[i].version, runs'[i].preview>>
               = <<runs[i].host, runs[i].state, runs[i].version, runs[i].preview>>
    PROVE  Records(c)'
BY DEF Records

\* Steps that add no run: what a handler holds was held before it.
LEMMA AnswersKept ==
    ASSUME TypeOK, [Next]_vars, ~ \E h \in Handler, step \in ClockStep : PollStarts(h, step),
           NEW g \in Handler, req'[g].at \in {"env", "state", "start"}
    PROVE  \/ req'[g].answer = {}
           \/ req[g].at \in {"env", "state", "start"} /\ req'[g].answer = req[g].answer
<1>0. DOMAIN req = Handler /\ \A h \in Handler : Handling(req[h], DOMAIN runs)
    BY DEF TypeOK
<1>1. CASE req' = req
    BY <1>1
<1>2. ASSUME NEW h \in Handler, NEW q, req' = [req EXCEPT ![h] = q],
             \/ q.at \notin {"env", "state", "start"}
             \/ q.answer = {}
             \/ req[h].at \in {"env", "state", "start"} /\ q.answer = req[h].answer
      PROVE  \/ req'[g].answer = {}
             \/ req[g].at \in {"env", "state", "start"} /\ req'[g].answer = req[g].answer
    BY <1>0, <1>2
<1>3. Idle.at \notin {"env", "state", "start"}
    BY DEF Idle
<1>4. CASE UNCHANGED vars
    BY <1>1, <1>4 DEF vars
<1>5. ASSUME NEW h \in Handler, NEW t \in Target, NEW n \in Name, AssignChecks(h, t, n)
      PROVE  \/ req'[g].answer = {}
             \/ req[g].at \in {"env", "state", "start"} /\ req'[g].answer = req[g].answer
    <2> DEFINE q == [at |-> "assign", target |-> t, state |-> n]
    <2>1. req' = [req EXCEPT ![h] = q] /\ q.at \notin {"env", "state", "start"}
        BY <1>5 DEF AssignChecks
    <2> HIDE DEF q
    <2>2. QED
        BY <1>2, <2>1
<1>6. ASSUME NEW h \in Handler, NEW host \in Host, NEW preview \in BOOLEAN,
             PollHost(h, host, preview)
      PROVE  \/ req'[g].answer = {}
             \/ req[g].at \in {"env", "state", "start"} /\ req'[g].answer = req[g].answer
    <2> DEFINE q == [at |-> IF EnvOf[host] = None THEN "state" ELSE "env",
                     host |-> host, preview |-> preview,
                     names |-> StatesFor(host), version |-> 0, answer |-> {}]
    <2>1. req' = [req EXCEPT ![h] = q] /\ q.answer = {}
        BY <1>6 DEF PollHost
    <2> HIDE DEF q
    <2>2. QED
        BY <1>2, <2>1
<1>7. ASSUME NEW h \in Handler, PollEnv(h)
      PROVE  \/ req'[g].answer = {}
             \/ req[g].at \in {"env", "state", "start"} /\ req'[g].answer = req[g].answer
    <2>1. PICK names : req' = [req EXCEPT ![h] = Goes(req[h], "state", names, 0, req[h].answer)]
        BY <1>7 DEF PollEnv
    <2>2. Goes(req[h], "state", names, 0, req[h].answer).answer = req[h].answer
        BY DEF Goes
    <2>3. req[h].at = "env"
        BY <1>7 DEF PollEnv
    <2>4. QED
        BY <1>2, <2>1, <2>2, <2>3
<1>8. ASSUME NEW h \in Handler, PollReads(h)
      PROVE  \/ req'[g].answer = {}
             \/ req[g].at \in {"env", "state", "start"} /\ req'[g].answer = req[g].answer
    <2>1. PICK at, names, version :
             req' = [req EXCEPT ![h] = Goes(req[h], at, names, version, req[h].answer)]
        <3> DEFINE n == Head(req[h].names)
        <3>1. CASE Declared(n)
            <4>1. req' = [req EXCEPT ![h] = Goes(req[h], "start", req[h].names,
                                                 LatestState(n).version, req[h].answer)]
                BY <1>8, <3>1 DEF PollReads
            <4>2. QED
                BY <4>1
        <3>2. CASE ~Declared(n)
            <4>1. req' = [req EXCEPT ![h] = Goes(req[h], "state", Tail(req[h].names), 0,
                                                 req[h].answer)]
                BY <1>8, <3>2 DEF PollReads
            <4>2. QED
                BY <4>1
        <3>3. QED
            BY <3>1, <3>2
    <2>2. Goes(req[h], at, names, version, req[h].answer).answer = req[h].answer
        BY DEF Goes
    <2>3. req[h].at = "state"
        BY <1>8 DEF PollReads
    <2>4. QED
        BY <1>2, <2>1, <2>2, <2>3
<1>9. ASSUME NEW h \in Handler,
             AssignInserts(h) \/ FinishRun(h) \/ \E arrives \in BOOLEAN : PollAnswers(h, arrives)
      PROVE  \/ req'[g].answer = {}
             \/ req[g].at \in {"env", "state", "start"} /\ req'[g].answer = req[g].answer
    <2>1. req' = [req EXCEPT ![h] = Idle]
        BY <1>9 DEF AssignInserts, FinishRun, PollAnswers
    <2>2. QED
        BY <1>2, <1>3, <2>1
<1>10. ASSUME NEW h \in Handler, NEW cmd \in commands, NEW ret \in Return,
              ReportArrives(h, cmd, ret)
       PROVE  \/ req'[g].answer = {}
              \/ req[g].at \in {"env", "state", "start"} /\ req'[g].answer = req[g].answer
    <2>1. PICK parsed, actions :
             req' = [req EXCEPT ![h] = [at |-> "finish", run |-> cmd.run, parsed |-> parsed,
                                        actions |-> actions]]
        BY <1>10 DEF ReportArrives
    <2> DEFINE q == [at |-> "finish", run |-> cmd.run, parsed |-> parsed, actions |-> actions]
    <2>2. req' = [req EXCEPT ![h] = q] /\ q.at \notin {"env", "state", "start"}
        BY <2>1
    <2> HIDE DEF q
    <2>3. QED
        BY <1>2, <2>2
<1>11. CASE Restart
    <2>1. req' = [h \in Handler |-> Idle]
        BY <1>11 DEF Restart
    <2>2. QED
        BY <1>3, <2>1
<1>12. CASE \/ \E n \in Name, text \in Text : SaveState(n, text)
            \/ \E n \in Name : DeleteState(n)
            \/ \E t \in Target, n \in Name : Unassign(t, n)
            \/ \E r \in Rule : SaveRule(r) \/ DeleteRule(r)
    BY <1>1, <1>12 DEF SaveState, DeleteState, Unassign, SaveRule, DeleteRule
<1>13. QED
    BY <1>4, <1>5, <1>6, <1>7, <1>8, <1>9, <1>10, <1>11, <1>12 DEF Next

\* Commands come from a handler that answers.
LEMMA CommandsFrom ==
    ASSUME [Next]_vars, NEW c \in commands'
    PROVE  \/ c \in commands
           \/ \E h \in Handler : req[h].at = "state" /\ c \in req[h].answer
BY DEF Next, vars, SaveState, DeleteState, Unassign, SaveRule, DeleteRule, AssignChecks,
       AssignInserts, PollHost, PollEnv, PollReads, PollStarts, PollAnswers, ReportArrives,
       FinishRun, Restart

\* Runs stay what they were runs of, whatever is done.
LEMMA RunsStay ==
    ASSUME TypeOK, [Next]_vars
    PROVE  /\ DOMAIN runs \subseteq DOMAIN runs' /\ Len(runs) <= Len(runs')
           /\ \A i \in DOMAIN runs :
                <<runs'[i].host, runs'[i].state, runs'[i].version, runs'[i].preview,
                  runs'[i].started>>
                  = <<runs[i].host, runs[i].state, runs[i].version, runs[i].preview,
                      runs[i].started>>
<1>0. runs \in Seq(RunRow) /\ Len(runs) \in Nat /\ DOMAIN runs = 1..Len(runs)
    BY DEF TypeOK
<1>1. CASE runs' = runs
    BY <1>0, <1>1
<1>2. ASSUME NEW h \in Handler, NEW step \in ClockStep, PollStarts(h, step)
      PROVE  /\ DOMAIN runs \subseteq DOMAIN runs' /\ Len(runs) <= Len(runs')
             /\ \A i \in DOMAIN runs : runs'[i] = runs[i]
    <2>1. /\ runs' \in Seq(RunRow) /\ Len(runs') = Len(runs) + 1
          /\ \A i \in DOMAIN runs : runs'[i] = runs[i]
        BY <1>2, PollStartsARun
    <2>2. QED
        BY <1>0, <2>1
<1>3. ASSUME NEW h \in Handler, FinishRun(h)
      PROVE  /\ DOMAIN runs \subseteq DOMAIN runs' /\ Len(runs) <= Len(runs')
             /\ \A i \in DOMAIN runs :
                  <<runs'[i].host, runs'[i].state, runs'[i].version, runs'[i].preview,
                    runs'[i].started>>
                    = <<runs[i].host, runs[i].state, runs[i].version, runs[i].preview,
                        runs[i].started>>
    BY <1>0, <1>3, FinishesARun
<1>4. \/ runs' = runs
      \/ \E h \in Handler, step \in ClockStep : PollStarts(h, step)
      \/ \E h \in Handler : FinishRun(h)
    BY DEF Next, vars, SaveState, DeleteState, Unassign, SaveRule, DeleteRule, AssignChecks,
           AssignInserts, PollHost, PollEnv, PollReads, PollAnswers, ReportArrives, Restart
<1>5. QED
    BY <1>1, <1>2, <1>3, <1>4

\* Every step keeps commands and their runs in agreement.
LEMMA RecordedStep == StoreInv /\ [Next]_vars => Recorded'
<1> SUFFICES ASSUME StoreInv, [Next]_vars PROVE Recorded'
    OBVIOUS
<1>0. TypeOK /\ Recorded
    BY DEF StoreInv
<1>1. \A c : Records(c) => Records(c)'
    BY <1>0, RunsStay, RecordsLast
<1>2. ASSUME NEW c \in commands' PROVE Records(c)'
    BY <1>0, <1>1, CommandsFrom DEF Recorded
<1>3. ASSUME NEW g \in Handler, req'[g].at \in {"env", "state", "start"},
             NEW c \in req'[g].answer
      PROVE  Records(c)'
    <2>1. CASE ~ \E h \in Handler, step \in ClockStep : PollStarts(h, step)
        BY <1>0, <1>1, <1>3, <2>1, AnswersKept DEF Recorded
    <2>2. ASSUME NEW h \in Handler, NEW step \in ClockStep, PollStarts(h, step)
          PROVE  Records(c)'
        <3>1. PICK row \in RunRow, cmd \in Command :
                 /\ runs' = Append(runs, row) /\ runs' \in Seq(RunRow)
                 /\ Len(runs') = Len(runs) + 1 /\ Len(runs') <= MaxRuns
                 /\ \A i \in DOMAIN runs : runs'[i] = runs[i]
                 /\ runs'[Len(runs) + 1] = row
                 /\ cmd.run = Len(runs) + 1
                 /\ <<cmd.host, cmd.state, cmd.version, cmd.preview>>
                      = <<row.host, row.state, row.version, row.preview>>
                 /\ req' = [req EXCEPT ![h] = Goes(req[h], "state", Tail(req[h].names), 0,
                                                   req[h].answer \cup {cmd})]
                 /\ UNCHANGED <<states, assignments, rules, commands>>
            BY <1>0, <2>2, PollStartsARun, ZenonT(30)
        <3>2. Len(runs) \in Nat /\ DOMAIN runs' = 1..(Len(runs) + 1)
            BY <1>0, <3>1 DEF TypeOK
        <3>3. Records(cmd)'
            BY <3>1, <3>2 DEF Records
        <3>4. CASE g = h
            <4>1. req'[g] = Goes(req[h], "state", Tail(req[h].names), 0,
                                 req[h].answer \cup {cmd})
                BY <1>0, <3>1, <3>4 DEF TypeOK
            <4>2. req'[g].answer = req[h].answer \cup {cmd}
                BY <4>1 DEF Goes
            <4>3. req[h].at = "start"
                BY <2>2 DEF PollStarts
            <4>4. QED
                BY <1>0, <1>1, <1>3, <3>3, <4>2, <4>3 DEF Recorded
        <3>5. CASE g # h
            <4>1. req'[g] = req[g]
                BY <1>0, <3>1, <3>5 DEF TypeOK
            <4>2. QED
                BY <1>0, <1>1, <1>3, <4>1 DEF Recorded
        <3>6. QED
            BY <3>4, <3>5
    <2>3. QED
        BY <2>1, <2>2
<1>4. QED
    BY <1>2, <1>3 DEF Recorded

\* The invariant holds throughout.
LEMMA StoreInvariant == Spec => []StoreInv
<1>1. StoreInv /\ [Next]_vars => StoreInv'
    BY StoreTypeStep, VersionedStep, RecordedStep DEF StoreInv
<1>2. QED
    BY StoreInit, <1>1, PTL DEF Spec

-----------------------------------------------------------------------------
(* Results *)

\* Tables and handlers have their types (baseline/backend/store.py, app.py).
THEOREM StoreTypeCorrect == Spec => []TypeOK
<1>1. StoreInv => TypeOK
    BY DEF StoreInv
<1>2. QED
    BY StoreInvariant, <1>1, PTL

\* What save_state keeps of a state is its newest KEEP_VERSIONS versions without a
\* gap, for any retention: pruning never takes the latest declaration.
THEOREM RetainsTheNewest == Spec => []RetainsNewest
<1>1. StoreInv => RetainsNewest
    <2> SUFFICES ASSUME StoreInv, NEW n \in Name, Declared(n)
                 PROVE  LET V   == VersionsOf(n, states)
                            top == Newest(V)
                        IN  V = {v \in 1..top : top - KEEP_VERSIONS < v}
        BY DEF RetainsNewest
    <2>1. PICK top \in 0..MaxVersion : VersionsOf(n, states) = Kept(top)
        BY DEF StoreInv, Versioned
    <2>2. top \in Nat
        BY <2>1
    <2>3. top > 0
        BY <2>1, <2>2, KeptTop DEF Declared
    <2>4. Newest(VersionsOf(n, states)) = top
        BY <2>1, <2>2, <2>3, KeptTop
    <2>5. QED
        BY <2>1, <2>4 DEF Kept
<1>2. QED
    BY StoreInvariant, <1>1, PTL

\* A command the Controller was answered is the run that agent_desired recorded for
\* it, however many handlers answer at once and whatever is saved between their steps.
THEOREM RunsRecordWhatShips == Spec => []RunRecordsWhatShips
<1>1. StoreInv => RunRecordsWhatShips
    BY DEF StoreInv, Recorded, Records, RunRecordsWhatShips
<1>2. QED
    BY StoreInvariant, <1>1, PTL

\* save_state never writes over a version, nor reuses the number of one that is kept
\* (UNIQUE(name, version)).
THEOREM VersionsAreNotOverwritten == Spec => NeverOverwritten
<1> DEFINE Fresh == \A new \in states' : \A old \in states :
                      new.name = old.name =>
                        /\ new.version = old.version => new = old
                        /\ new \notin states => new.version > old.version
<1>1. StoreInv /\ [Next]_vars => [Fresh]_states
    <2> SUFFICES ASSUME StoreInv, [Next]_vars, states' # states,
                        NEW new \in states', NEW old \in states, new.name = old.name
                 PROVE  /\ new.version = old.version => new = old
                        /\ new \notin states => new.version > old.version
        OBVIOUS
    <2>0. TypeOK /\ Versioned
        BY DEF StoreInv
    <2>1. CASE new \in states
        BY <2>0, <2>1 DEF Versioned
    <2>2. ASSUME NEW n \in Name, NEW text \in Text, SaveState(n, text), new \notin states
          PROVE  new.version > old.version
        <3>1. PICK top \in 0..MaxVersion :
                 /\ VersionsOf(n, states) = Kept(top)
                 /\ states' \subseteq states \cup {[name |-> n, version |-> top + 1, sls |-> text]}
            BY <2>0, <2>2, SavesAVersion
        <3>2. new = [name |-> n, version |-> top + 1, sls |-> text] /\ top \in Nat
            BY <2>2, <3>1
        <3>3. old.name = n /\ new.version = top + 1
            BY <3>2
        <3>4. old.version \in Kept(top) /\ old.version < top + 1
            BY <3>1, <3>2, <3>3, NotYetThere
        <3>5. QED
            BY <3>2, <3>3, <3>4 DEF Kept
    <2>3. ASSUME NEW n \in Name, DeleteState(n) PROVE new \in states
        BY <2>3, DeletesVersions
    <2>4. new.version \in Int /\ old.version \in Int
        <3>1. TypeOK'
            BY StoreTypeStep
        <3>2. QED
            BY <2>0, <3>1, BaselineAssumption DEF TypeOK, Row
    <2>5. QED
        BY <2>1, <2>2, <2>3, <2>4, StatesSteps
<1>2. QED
    BY StoreInvariant, <1>1, PTL DEF Spec, NeverOverwritten

\* No step removes a run or changes what it was a run of.
THEOREM RunsAreNeverLost == Spec => RunsAreKept
<1> DEFINE Stay == /\ Len(runs) <= Len(runs')
                   /\ \A i \in DOMAIN runs :
                        <<runs'[i].host, runs'[i].state, runs'[i].version, runs'[i].started>>
                          = <<runs[i].host, runs[i].state, runs[i].version, runs[i].started>>
<1>1. StoreInv /\ [Next]_vars => [Stay]_runs
    BY RunsStay DEF StoreInv
<1>2. QED
    BY StoreInvariant, <1>1, PTL DEF Spec, RunsAreKept

-----------------------------------------------------------------------------
(* Causes *)

\* A set of natural numbers has a least.
LEMMA LeastOf ==
    ASSUME NEW S \in SUBSET Nat, S # {}
    PROVE  \E n \in S : \A m \in S : n <= m
<1>1. IsWellFoundedOn(OpToRel(<, Nat), Nat)
    BY NatLessThanWellFounded, Zenon
<1>2. PICK n \in S : \A m \in S : ~ (<<m, n>> \in OpToRel(<, Nat))
    BY <1>1, WFMin
<1>3. \A m \in S : ~ (m < n)
    BY <1>2 DEF OpToRel
<1>4. QED
    BY <1>3

\* What salt-call printed is in an order.
LEMMA ParsedInOrder ==
    ASSUME NEW parsed \in Parsed
    PROVE  DOMAIN parsed.states \subseteq Nat
<1>1. PICK ret \in Return : parsed = ParseReturn(ret)
    BY DEF Parsed
<1>2. CASE ret.kind = "json"
    <2>1. DOMAIN parsed.states = {k \in DOMAIN ret.body : ret.body[k].dict}
        BY <1>1, <1>2 DEF ParseReturn
    <2>2. QED
        BY <1>2, <2>1, BaselineAssumption
<1>3. CASE ret.kind # "json"
    <2>1. parsed.states = <<>>
        BY <1>1, <1>3 DEF ParseReturn
    <2>2. QED
        BY <2>1
<1>4. QED
    BY <1>2, <1>3

\* The state that a rule fires for is one that it matches.
LEMMA FiringHasCause ==
    ASSUME NEW rule, NEW table, DOMAIN table \subseteq Nat, Fires(rule, table)
    PROVE  Firing(rule, table).why # "unknown" => \E j \in DOMAIN table :
              /\ table[j].id = Firing(rule, table).state
              /\ Firing(rule, table).why = "changed" => table[j].changed
              /\ Firing(rule, table).why = "failed"  => table[j].result = "false"
              /\ Firing(rule, table).why = "ok"      => ~table[j].changed
<1> DEFINE match == {i \in DOMAIN table : Matches(rule, table[i])}
           first == CHOOSE i \in DOMAIN table :
                      /\ Matches(rule, table[i])
                      /\ \A j \in DOMAIN table : j < i => ~Matches(rule, table[j])
<1>1. CASE rule.action \notin Actions
    BY <1>1 DEF Firing
<1>2. CASE rule.action \in Actions
    <2>1. match # {} /\ match \in SUBSET Nat
        BY <1>2 DEF Fires
    <2>2. PICK i \in match : \A j \in match : i <= j
        <3> HIDE DEF match
        <3>1. QED
            BY <2>1, LeastOf
    <2>3. /\ i \in DOMAIN table /\ Matches(rule, table[i])
          /\ \A j \in DOMAIN table : j < i => ~Matches(rule, table[j])
        BY <2>2
    <2>4. first \in DOMAIN table /\ Matches(rule, table[first])
        BY <2>3
    <2>5. Firing(rule, table) = [rule |-> rule.name, action |-> rule.action,
                                 state |-> table[first].id, why |-> rule.trigger]
        BY <1>2 DEF Firing
    <2> HIDE DEF first
    <2>6. QED
        BY <2>4, <2>5 DEF Matches
<1>3. QED
    BY <1>1, <1>2

\* What the rules make of a report is caused by that report, whatever rules
\* there are.
LEMMA EvaluateHasCause ==
    ASSUME NEW table, NEW parsed \in Parsed
    PROVE  Caused(parsed, Evaluate(table, parsed))
<1>1. DOMAIN parsed.states \subseteq Nat
    BY ParsedInOrder
<1>2. ASSUME NEW act \in Evaluate(table, parsed)
      PROVE  \E r \in table : Fires(r, parsed.states) /\ act = Firing(r, parsed.states)
    BY <1>2 DEF Evaluate
<1>3. QED
    BY <1>1, <1>2, FiringHasCause DEF Caused

\* No action needs a cause.
LEMMA NoneNeedsCause == \A report : Caused(report, {})
BY DEF Caused

\* A handler that is to record a report was so before, or has just read one.
LEMMA FinishFrom ==
    ASSUME TypeOK, [Next]_vars, NEW g \in Handler, req'[g].at = "finish"
    PROVE  \/ req'[g] = req[g]
           \/ \E cmd \in commands, ret \in Return : ReportArrives(g, cmd, ret)
<1>0. DOMAIN req = Handler
    BY DEF TypeOK
<1>1. CASE req' = req
    BY <1>1
<1>2. ASSUME NEW h \in Handler, NEW q, req' = [req EXCEPT ![h] = q], q.at # "finish"
      PROVE  req'[g] = req[g]
    BY <1>0, <1>2
<1>3. Idle.at # "finish"
    BY DEF Idle
<1>4. ASSUME NEW h \in Handler, NEW t \in Target, NEW n \in Name, AssignChecks(h, t, n)
      PROVE  req'[g] = req[g]
    <2> DEFINE q == [at |-> "assign", target |-> t, state |-> n]
    <2>1. req' = [req EXCEPT ![h] = q] /\ q.at # "finish"
        BY <1>4 DEF AssignChecks
    <2> HIDE DEF q
    <2>2. QED
        BY <1>2, <2>1
<1>5. ASSUME NEW h \in Handler, NEW host \in Host, NEW preview \in BOOLEAN,
             PollHost(h, host, preview)
      PROVE  req'[g] = req[g]
    <2> DEFINE q == [at |-> IF EnvOf[host] = None THEN "state" ELSE "env",
                     host |-> host, preview |-> preview,
                     names |-> StatesFor(host), version |-> 0, answer |-> {}]
    <2>1. req' = [req EXCEPT ![h] = q] /\ q.at # "finish"
        BY <1>5 DEF PollHost
    <2> HIDE DEF q
    <2>2. QED
        BY <1>2, <2>1
<1>6. ASSUME NEW h \in Handler, NEW old, NEW at, NEW names, NEW version, NEW answer,
             req' = [req EXCEPT ![h] = Goes(old, at, names, version, answer)],
             at # "finish"
      PROVE  req'[g] = req[g]
    BY <1>2, <1>6 DEF Goes
<1>7. ASSUME NEW h \in Handler, PollEnv(h) PROVE req'[g] = req[g]
    <2>1. PICK names : req' = [req EXCEPT ![h] = Goes(req[h], "state", names, 0, req[h].answer)]
        BY <1>7 DEF PollEnv
    <2>2. QED
        BY <1>6, <2>1
<1>8. ASSUME NEW h \in Handler, PollReads(h) PROVE req'[g] = req[g]
    <2> DEFINE n == Head(req[h].names)
    <2>1. CASE Declared(n)
        <3>1. req' = [req EXCEPT ![h] = Goes(req[h], "start", req[h].names,
                                             LatestState(n).version, req[h].answer)]
            BY <1>8, <2>1 DEF PollReads
        <3>2. QED
            BY <1>6, <3>1
    <2>2. CASE ~Declared(n)
        <3>1. req' = [req EXCEPT ![h] = Goes(req[h], "state", Tail(req[h].names), 0,
                                             req[h].answer)]
            BY <1>8, <2>2 DEF PollReads
        <3>2. QED
            BY <1>6, <3>1
    <2>3. QED
        BY <2>1, <2>2
<1>9. ASSUME NEW h \in Handler, NEW step \in ClockStep, PollStarts(h, step)
      PROVE  req'[g] = req[g]
    <2>1. PICK cmd \in Command :
             req' = [req EXCEPT ![h] = Goes(req[h], "state", Tail(req[h].names), 0,
                                            req[h].answer \cup {cmd})]
        BY <1>9, PollStartsARun, Zenon
    <2>2. QED
        BY <1>6, <2>1
<1>10. ASSUME NEW h \in Handler,
              AssignInserts(h) \/ FinishRun(h) \/ \E arrives \in BOOLEAN : PollAnswers(h, arrives)
       PROVE  req'[g] = req[g]
    <2>1. req' = [req EXCEPT ![h] = Idle]
        BY <1>10 DEF AssignInserts, FinishRun, PollAnswers
    <2>2. QED
        BY <1>2, <1>3, <2>1
<1>11. ASSUME NEW h \in Handler, NEW cmd \in commands, NEW ret \in Return,
              ReportArrives(h, cmd, ret), g # h
       PROVE  req'[g] = req[g]
    BY <1>0, <1>11 DEF ReportArrives
<1>12. CASE Restart
    <2>1. req' = [h \in Handler |-> Idle]
        BY <1>12 DEF Restart
    <2>2. QED
        BY <1>3, <2>1
<1>13. CASE \/ \E n \in Name, text \in Text : SaveState(n, text)
            \/ \E n \in Name : DeleteState(n)
            \/ \E t \in Target, n \in Name : Unassign(t, n)
            \/ \E r \in Rule : SaveRule(r) \/ DeleteRule(r)
            \/ UNCHANGED vars
    BY <1>1, <1>13 DEF SaveState, DeleteState, Unassign, SaveRule, DeleteRule, vars
<1>14. QED
    BY <1>4, <1>5, <1>7, <1>8, <1>9, <1>10, <1>11, <1>12, <1>13 DEF Next

\* A handler's report and what it fires go together, and so do a run's.
CauseInv ==
    /\ ActionsHadCause
    /\ \A h \in Handler : req[h].at = "finish" =>
         /\ Caused(req[h].parsed, req[h].actions)
         /\ runs[req[h].run].preview => req[h].actions = {}

\* Recording a report writes it, and what it fires, in the one row.
LEMMA FinishWrites ==
    ASSUME TypeOK, NEW h \in Handler, FinishRun(h), NEW i \in DOMAIN runs
    PROVE  \/ runs'[i] = runs[i]
           \/ /\ i = req[h].run
              /\ runs'[i].preview = runs[i].preview
              /\ runs'[i].report = req[h].parsed
              /\ runs'[i].actions = req[h].actions
<1> DEFINE q   == req[h]
           new == [runs[q.run] EXCEPT !.finished = TRUE, !.report = q.parsed,
                                      !.actions = q.actions]
<1>1. q.run \in DOMAIN runs
    BY DEF TypeOK, Handling, FinishRun
<1>2. runs \in Seq(RunRow)
    BY DEF TypeOK
<1>3. runs' = [runs EXCEPT ![q.run] = new]
    BY <1>1 DEF FinishRun
<1>4. runs[q.run] \in RunRow
    BY <1>1, <1>2
<1>5. /\ new.report = q.parsed /\ new.actions = q.actions
      /\ new.preview = runs[q.run].preview
    BY <1>4 DEF RunRow
<1> HIDE DEF new
<1>6. runs'[i] = IF i = q.run THEN new ELSE runs[i]
    BY <1>2, <1>3
<1>7. QED
    BY <1>5, <1>6

\* Where the rows of runs come from.
LEMMA RowsFrom ==
    ASSUME TypeOK, [Next]_vars, NEW i \in DOMAIN runs'
    PROVE  \/ i \in DOMAIN runs /\ runs'[i] = runs[i]
           \/ runs'[i].actions = {}
           \/ \E h \in Handler :
                /\ req[h].at = "finish" /\ i = req[h].run /\ i \in DOMAIN runs
                /\ runs'[i].preview = runs[i].preview
                /\ runs'[i].report = req[h].parsed
                /\ runs'[i].actions = req[h].actions
<1>0. runs \in Seq(RunRow) /\ Len(runs) \in Nat /\ DOMAIN runs = 1..Len(runs)
    BY DEF TypeOK
<1>1. CASE runs' = runs
    BY <1>1
<1>2. ASSUME NEW h \in Handler, NEW step \in ClockStep, PollStarts(h, step)
      PROVE  (i \in DOMAIN runs /\ runs'[i] = runs[i]) \/ runs'[i].actions = {}
    <2>1. PICK row \in RunRow :
             /\ runs' \in Seq(RunRow) /\ Len(runs') = Len(runs) + 1
             /\ \A j \in DOMAIN runs : runs'[j] = runs[j]
             /\ runs'[Len(runs) + 1] = row
             /\ row.actions = {}
        BY <1>2, PollStartsARun, Zenon
    <2>2. i \in 1..(Len(runs) + 1)
        BY <1>0, <2>1
    <2>3. QED
        BY <1>0, <2>1, <2>2
<1>3. ASSUME NEW h \in Handler, FinishRun(h)
      PROVE  \/ i \in DOMAIN runs /\ runs'[i] = runs[i]
             \/ /\ req[h].at = "finish" /\ i = req[h].run /\ i \in DOMAIN runs
                /\ runs'[i].preview = runs[i].preview
                /\ runs'[i].report = req[h].parsed
                /\ runs'[i].actions = req[h].actions
    <2>1. i \in DOMAIN runs
        BY <1>3, FinishesARun
    <2>2. req[h].at = "finish"
        BY <1>3 DEF FinishRun
    <2>3. QED
        BY <1>3, <2>1, <2>2, FinishWrites
<1>4. \/ runs' = runs
      \/ \E h \in Handler, step \in ClockStep : PollStarts(h, step)
      \/ \E h \in Handler : FinishRun(h)
    BY DEF Next, vars, SaveState, DeleteState, Unassign, SaveRule, DeleteRule, AssignChecks,
           AssignInserts, PollHost, PollEnv, PollReads, PollAnswers, ReportArrives, Restart
<1>5. QED
    BY <1>1, <1>2, <1>3, <1>4

\* A report that arrives carries what the rules make of it, and for a preview
\* nothing.
LEMMA ArrivesWithCause ==
    ASSUME StoreInv, NEW g \in Handler, NEW cmd \in commands, NEW ret \in Return,
           ReportArrives(g, cmd, ret)
    PROVE  /\ Caused(req'[g].parsed, req'[g].actions)
           /\ runs'[req'[g].run].preview => req'[g].actions = {}
<1> DEFINE parsed  == ParseReturn(ret)
           actions == IF cmd.preview THEN {} ELSE Evaluate(rules, parsed)
           q == [at |-> "finish", run |-> cmd.run, parsed |-> parsed, actions |-> actions]
<1>0. DOMAIN req = Handler
    BY DEF StoreInv, TypeOK
<1>1. req' = [req EXCEPT ![g] = q] /\ runs' = runs
    BY DEF ReportArrives
<1>2. parsed \in Parsed
    BY DEF Parsed
<1> HIDE DEF parsed
<1>3. Caused(parsed, actions)
    BY <1>2, EvaluateHasCause, NoneNeedsCause
<1>4. cmd.preview = runs[cmd.run].preview
    BY DEF StoreInv, Recorded, Records
<1>5. cmd.preview => actions = {}
    OBVIOUS
<1> HIDE DEF actions
<1>6. q.parsed = parsed /\ q.actions = actions /\ q.run = cmd.run
    OBVIOUS
<1>7. req'[g] = q
    BY <1>0, <1>1
<1> HIDE DEF q
<1>8. QED
    BY <1>1, <1>3, <1>4, <1>5, <1>6, <1>7

\* Every step keeps causes with their actions.
LEMMA CauseStep == StoreInv /\ CauseInv /\ [Next]_vars => CauseInv'
<1> SUFFICES ASSUME StoreInv, CauseInv, [Next]_vars PROVE CauseInv'
    OBVIOUS
<1>0. TypeOK
    BY DEF StoreInv
<1>1. ASSUME NEW i \in DOMAIN runs'
      PROVE  /\ runs'[i].preview => runs'[i].actions = {}
             /\ Caused(runs'[i].report, runs'[i].actions)
    <2>1. CASE i \in DOMAIN runs /\ runs'[i] = runs[i]
        BY <2>1 DEF CauseInv, ActionsHadCause
    <2>2. CASE runs'[i].actions = {}
        BY <2>2, NoneNeedsCause
    <2>3. ASSUME NEW h \in Handler, req[h].at = "finish", i = req[h].run,
                 runs'[i].preview = runs[i].preview, runs'[i].report = req[h].parsed,
                 runs'[i].actions = req[h].actions
          PROVE  /\ runs'[i].preview => runs'[i].actions = {}
                 /\ Caused(runs'[i].report, runs'[i].actions)
        BY <2>3 DEF CauseInv
    <2>4. QED
        BY <1>0, <2>1, <2>2, <2>3, RowsFrom
<1>2. ASSUME NEW g \in Handler, req'[g].at = "finish"
      PROVE  /\ Caused(req'[g].parsed, req'[g].actions)
             /\ runs'[req'[g].run].preview => req'[g].actions = {}
    <2>1. CASE req'[g] = req[g]
        <3>1. req[g].run \in DOMAIN runs
            BY <1>0, <1>2, <2>1 DEF TypeOK, Handling
        <3>2. runs'[req[g].run].preview = runs[req[g].run].preview
            BY <1>0, <3>1, RunsStay
        <3>3. QED
            BY <1>2, <2>1, <3>2 DEF CauseInv
    <2>2. ASSUME NEW cmd \in commands, NEW ret \in Return, ReportArrives(g, cmd, ret)
          PROVE  /\ Caused(req'[g].parsed, req'[g].actions)
                 /\ runs'[req'[g].run].preview => req'[g].actions = {}
        BY <2>2, ArrivesWithCause
    <2>3. QED
        BY <1>0, <1>2, <2>1, <2>2, FinishFrom
<1>3. QED
    BY <1>1, <1>2 DEF CauseInv, ActionsHadCause

\* An action recorded on a run, and sent, answers to an outcome recorded on that
\* same run: whatever rules were saved or deleted and whatever other reports
\* were recorded while it was being decided (agent_result, eda.evaluate).
THEOREM ActionsAreCaused == Spec => []ActionsHadCause
<1>1. Init => CauseInv
    BY DEF Init, CauseInv, ActionsHadCause, Idle
<1>2. CauseInv => ActionsHadCause
    BY DEF CauseInv
<1>3. QED
    BY <1>1, <1>2, CauseStep, StoreInvariant, PTL DEF Spec

-----------------------------------------------------------------------------
(* What the console makes of the tables                                     *)

\* A number of states, whatever was printed.
LEMMA FailuresAreCounted ==
    ASSUME NEW report \in Parsed \cup {Unreported}
    PROVE  report.failed \in Nat
<1>1. CASE report = Unreported
    BY <1>1 DEF Unreported
<1>2. CASE report \in Parsed
    <2>1. PICK ret \in Return : report = ParseReturn(ret)
        BY <1>2 DEF Parsed
    <2> DEFINE recs == IF ret.kind = "json"
                       THEN [i \in {k \in DOMAIN ret.body : ret.body[k].dict} |-> ret.body[i]]
                       ELSE <<>>
               S == {i \in DOMAIN recs : recs[i].result = "false"}
    <2>2. report.failed = Cardinality(S)
        BY <2>1 DEF ParseReturn
    <2>3. IsFiniteSet(S)
        <3>1. CASE ret.kind = "json"
            <4>1. IsFiniteSet(DOMAIN ret.body) /\ S \in SUBSET DOMAIN ret.body
                BY <3>1, BaselineAssumption
            <4> HIDE DEF S
            <4>2. QED
                BY <4>1, FS_Subset
        <3>2. CASE ret.kind # "json"
            <4>1. S = {}
                BY <3>2
            <4>2. QED
                BY <4>1, FS_EmptySet
        <3>3. QED
            BY <3>1, <3>2
    <2> HIDE DEF S
    <2>4. QED
        BY <2>2, <2>3, FS_CardinalityType
<1>3. QED
    BY <1>1, <1>2

\* The runs that the console has are runs, in some order.
LEMMA ShownAreRuns ==
    ASSUME TypeOK, NEW order \in RunOrders, NEW limit \in Nat
    PROVE  /\ \E n \in Nat : DOMAIN RecentRuns(order, limit) = 1..n
           /\ \A i \in DOMAIN RecentRuns(order, limit) : RecentRuns(order, limit)[i] \in RunRow
<1> DEFINE N == Cardinality(DOMAIN runs)
           shown == RecentRuns(order, limit)
<1>1. DOMAIN runs = 1..Len(runs) /\ Len(runs) \in Nat /\ \A i \in DOMAIN runs : runs[i] \in RunRow
    BY LenProperties, ElementOfSeq DEF TypeOK
<1>2. N \in Nat
    BY <1>1, FS_Interval, FS_CardinalityType
<1>3. order \in [1..N -> DOMAIN runs]
    BY DEF RunOrders, SetToSeqs
<1> HIDE DEF N
<1>4. Len(order) = N
    BY <1>2, <1>3
<1> DEFINE last == IF limit < N THEN limit ELSE N
<1>5. last \in Nat /\ last <= N
    BY <1>2
<1>6. /\ DOMAIN shown = 1..last
      /\ \A i \in 1..last : shown[i] = runs[order[i]]
    BY <1>3, <1>4, <1>5 DEF RecentRuns
<1> HIDE DEF last, shown
<1>7. \A i \in 1..last : order[i] \in DOMAIN runs
    BY <1>2, <1>3, <1>5
<1>8. QED
    BY <1>1, <1>5, <1>6, <1>7 DEF shown

\* Labels by their rank.
LEMMA LabelRanks ==
    /\ Rank("failing") = 1 /\ Rank("could not run") = 2 /\ Rank("out of date") = 3
    /\ Rank("drifted") = 4 /\ Rank("never applied") = 5 /\ Rank("as declared") = 6
    /\ Rank("not managed") = 7
<1> DEFINE S == Labels
<1>1. /\ DOMAIN S = 1..7 /\ S[1] = "failing" /\ S[2] = "could not run"
      /\ S[3] = "out of date" /\ S[4] = "drifted" /\ S[5] = "never applied"
      /\ S[6] = "as declared" /\ S[7] = "not managed"
    BY DEF Labels
<1>2. \A l : Rank(l) = CHOOSE i \in DOMAIN S : S[i] = l
    BY DEF Rank
<1> HIDE DEF S
<1>3. \A i \in 1..7 : i = 1 \/ i = 2 \/ i = 3 \/ i = 4 \/ i = 5 \/ i = 6 \/ i = 7
    OBVIOUS
<1>4. ASSUME NEW k \in 1..7 PROVE Rank(S[k]) = k
    BY <1>1, <1>2, <1>3
<1>5. /\ Rank(S[1]) = 1 /\ Rank(S[2]) = 2 /\ Rank(S[3]) = 3 /\ Rank(S[4]) = 4
      /\ Rank(S[5]) = 5 /\ Rank(S[6]) = 6 /\ Rank(S[7]) = 7
    BY <1>4
<1>6. QED
    BY <1>1, <1>5, Zenon

\* The labels that a state can have on a host
Judged == {"failing", "could not run", "out of date", "drifted", "never applied", "as declared"}

\* ... and their ranks.
LEMMA JudgedRanks ==
    \A l \in Judged :
      /\ Rank(l) \in Nat
      /\ Rank(l) <= 4 \/ l = "never applied" \/ l = "as declared"
<1> TAKE l \in Judged
<1>1. \/ l = "failing" \/ l = "could not run" \/ l = "out of date"
      \/ l = "drifted" \/ l = "never applied" \/ l = "as declared"
    BY DEF Judged
<1>2. \/ Rank(l) = 1 \/ Rank(l) = 2 \/ Rank(l) = 3 \/ Rank(l) = 4
      \/ (Rank(l) = 5 /\ l = "never applied") \/ (Rank(l) = 6 /\ l = "as declared")
    BY <1>1, LabelRanks, Zenon
<1>3. \A k : k = 1 \/ k = 2 \/ k = 3 \/ k = 4 => k \in Nat /\ k <= 4
    OBVIOUS
<1>4. 5 \in Nat /\ 6 \in Nat
    OBVIOUS
<1>5. QED
    BY <1>2, <1>3, <1>4, Zenon

\* The worst of some labels is no better than any.
LEMMA WorstIsNoBetter ==
    ASSUME NEW labels \in SUBSET Judged, NEW l \in labels
    PROVE  /\ WorstOf(labels) \in labels
           /\ Rank(WorstOf(labels)) <= Rank(l)
<1>1. \A m \in Judged : Rank(m) \in Nat
    BY JudgedRanks
<1> DEFINE ranks == {Rank(m) : m \in labels}
<1>2. ranks \in SUBSET Nat /\ Rank(l) \in ranks
    BY <1>1
<1>3. PICK r \in ranks : \A q \in ranks : r <= q
    <2> HIDE DEF ranks
    <2>1. QED
        BY <1>2, LeastOf
<1>4. \E m \in labels : \A o \in labels : Rank(m) <= Rank(o)
    BY <1>3
<1>5. QED
    BY <1>4 DEF WorstOf

\* A run that is drawn as a fault is called one, as bad as a drift or worse.
LEMMA FaultsAreCalledSo ==
    ASSUME NEW r \in RunRow
    PROVE  /\ RunLabel(r) \in Judged
           /\ ~r.preview /\ RunDot(r) \in {"err", "amber"} => Rank(RunLabel(r)) <= 4
<1>1. r.report.failed \in Nat
    BY FailuresAreCounted DEF RunRow
<1>2. r.report.failed > 0 \/ r.report.failed = 0
    BY <1>1
<1>3. RunLabel(r) \in Judged
    BY <1>2 DEF RunLabel, Judged
<1>4. ASSUME ~r.preview, RunDot(r) \in {"err", "amber"}
      PROVE  RunLabel(r) # "as declared" /\ RunLabel(r) # "never applied"
    BY <1>2, <1>4 DEF RunDot, RunLabel
<1>5. QED
    BY <1>3, <1>4, JudgedRanks

\* Of some runs, one is first.
LEMMA OneIsFirst ==
    ASSUME NEW top \in Nat, NEW S \in SUBSET (1..top), S # {}
    PROVE  First(S) \in S /\ \A j \in S : First(S) <= j
<1>1. \E k \in S : \A j \in S : k <= j
    BY LeastOf
<1>2. QED
    BY <1>1 DEF First

\* Each state on each host is judged, and so is each host.
LEMMA HostsAreJudged ==
    ASSUME TypeOK, NEW order \in RunOrders, NEW h \in Host
    PROVE  LET shown == Loaded(order)
           IN  /\ \A m \in StatesOn(h) : HostStateStatus(shown, h, m) \in Judged
               /\ \A m \in StatesOn(h) :
                    Rank(HostStatus(shown, h)) <= Rank(HostStateStatus(shown, h, m))
               /\ Rank(HostStatus(shown, h)) \in Nat
<1> DEFINE shown == Loaded(order)
           mine(m) == {j \in RunsFor(shown, h) : shown[j].state = m /\ ~shown[j].preview}
           verdicts == {HostStateStatus(shown, h, m) : m \in StatesOn(h)}
<1>1. PICK top \in Nat : DOMAIN shown = 1..top
    BY ShownAreRuns, VerdictsAssumption DEF Loaded
<1>2. \A j \in DOMAIN shown : shown[j] \in RunRow
    BY ShownAreRuns, VerdictsAssumption DEF Loaded
<1> HIDE DEF shown
<1>3. ASSUME NEW m \in StatesOn(h) PROVE HostStateStatus(shown, h, m) \in Judged
    <2>1. CASE mine(m) = {}
        BY <2>1 DEF HostStateStatus, Judged
    <2>2. CASE mine(m) # {}
        <3>1. mine(m) \in SUBSET (1..top)
            BY <1>1 DEF RunsFor
        <3>2. HostStateStatus(shown, h, m) = RunLabel(shown[First(mine(m))])
            BY <2>2 DEF HostStateStatus
        <3> HIDE DEF mine
        <3>3. First(mine(m)) \in DOMAIN shown
            BY <1>1, <2>2, <3>1, OneIsFirst
        <3>4. QED
            BY <1>2, <3>2, <3>3, FaultsAreCalledSo
    <2>3. QED
        BY <2>1, <2>2
<1>4. CASE StatesOn(h) = {}
    <2>1. HostStatus(shown, h) = "not managed"
        BY <1>4 DEF HostStatus
    <2>2. Rank(HostStatus(shown, h)) = 7
        BY <2>1, LabelRanks, Zenon
    <2>3. QED
        BY <1>4, <2>2 DEF shown
<1>5. CASE StatesOn(h) # {}
    <2>1. HostStatus(shown, h) = WorstOf(verdicts)
        BY <1>5 DEF HostStatus
    <2>2. verdicts \in SUBSET Judged /\ verdicts # {}
        BY <1>3, <1>5
    <2> HIDE DEF verdicts
    <2>3. /\ WorstOf(verdicts) \in Judged
          /\ \A l \in verdicts : Rank(WorstOf(verdicts)) <= Rank(l)
        BY <2>2, WorstIsNoBetter
    <2>4. Rank(WorstOf(verdicts)) \in Nat
        BY <2>3, JudgedRanks
    <2>5. \A m \in StatesOn(h) : HostStateStatus(shown, h, m) \in verdicts
        BY DEF verdicts
    <2>6. QED
        BY <1>3, <2>1, <2>3, <2>4, <2>5 DEF shown
<1>6. QED
    BY <1>4, <1>5

\* A fault that the page has loaded is found from the overview, in whatever order
\* the store gives runs of one second, for any hosts, states and assignments, any
\* clock, and wherever the runs and the list are cut (viewOverview, hostStatus,
\* hostStateStatus and load in baseline/backend/ui.py).
THEOREM ReportedFaultsAreListed == Spec => []FaultsAreListed
<1>1. TypeOK => FaultsAreListed
    <2> SUFFICES ASSUME TypeOK, NEW order \in RunOrders,
                        NEW h \in Host, NEW n \in StatesOn(h),
                        NEW i \in DOMAIN Loaded(order),
                        LET shown == Loaded(order)
                            applied(j) == shown[j].host = h /\ shown[j].state = n
                                            /\ ~shown[j].preview
                        IN  /\ applied(i) /\ \A j \in 1..(i - 1) : ~applied(j)
                            /\ RunDot(shown[i]) \in {"err", "amber"}
                 PROVE  LET shown == Loaded(order)
                        IN  /\ ~SaysAllClear(shown)
                            /\ \A listed \in NeedsAttention(shown) :
                                 \/ h \in listed
                                 \/ /\ Cardinality(listed) = AttentionShown
                                    /\ \A g \in listed :
                                         Rank(HostStatus(shown, g))
                                           <= Rank(RunLabel(shown[i]))
        BY DEF FaultsAreListed
    <2> DEFINE shown == Loaded(order)
               mine == {j \in RunsFor(shown, h) : shown[j].state = n /\ ~shown[j].preview}
    <2>1. PICK top \in Nat : DOMAIN shown = 1..top
        BY ShownAreRuns, VerdictsAssumption DEF Loaded
    <2>2. shown[i] \in RunRow
        BY ShownAreRuns, VerdictsAssumption DEF Loaded
    <2> HIDE DEF shown
    <2>3. i \in mine /\ mine \in SUBSET (1..top)
        BY <2>1 DEF RunsFor, shown
    <2>4. First(mine) = i
        <3>1. \A j \in mine : j \notin 1..(i - 1)
            BY DEF RunsFor, shown
        <3> HIDE DEF mine
        <3>2. mine # {} /\ mine \in SUBSET (1..top)
            BY <2>3
        <3>3. First(mine) \in mine /\ \A j \in mine : First(mine) <= j
            BY <3>2, OneIsFirst
        <3>4. i \in 1..top /\ First(mine) \in 1..top
            BY <2>3, <3>2, <3>3
        <3>5. First(mine) <= i /\ First(mine) \notin 1..(i - 1)
            BY <2>3, <3>1, <3>3
        <3>6. \A f \in 1..top, k \in 1..top : f <= k /\ f \notin 1..(k - 1) => f = k
            OBVIOUS
        <3>7. QED
            BY <3>4, <3>5, <3>6
    <2>5. HostStateStatus(shown, h, n) = RunLabel(shown[i])
        BY <2>3, <2>4 DEF HostStateStatus
    <2>6. Rank(RunLabel(shown[i])) \in Nat /\ Rank(RunLabel(shown[i])) <= 4
        BY <2>2, FaultsAreCalledSo, JudgedRanks DEF shown
    <2>7. \A g \in Host : Rank(HostStatus(shown, g)) \in Nat
        BY HostsAreJudged DEF shown
    <2>8. Rank(HostStatus(shown, h)) <= Rank(RunLabel(shown[i]))
        BY <2>5, HostsAreJudged DEF shown
    <2>9. h \in Faulty(shown)
        <3>1. Rank("drifted") = 4
            BY LabelRanks, Zenon
        <3>2. QED
            BY <2>6, <2>7, <2>8, <3>1 DEF Faulty
    <2>10. ASSUME NEW listed \in NeedsAttention(shown), h \notin listed
           PROVE  /\ Cardinality(listed) = AttentionShown
                  /\ \A g \in listed : Rank(HostStatus(shown, g)) <= Rank(RunLabel(shown[i]))
        <3>1. Cardinality(listed) = AttentionShown
            BY <2>9, <2>10 DEF NeedsAttention
        <3>2. ASSUME NEW g \in listed
              PROVE  Rank(HostStatus(shown, g)) <= Rank(RunLabel(shown[i]))
            <4>1. g \in Host /\ Rank(HostStatus(shown, g)) <= Rank(HostStatus(shown, h))
                BY <2>9, <2>10 DEF NeedsAttention, Faulty
            <4>2. QED
                BY <2>6, <2>7, <2>8, <4>1
        <3>3. QED
            BY <3>1, <3>2
    <2>11. {} \notin NeedsAttention(shown)
        BY <2>10, FS_EmptySet, VerdictsAssumption
    <2>12. QED
        BY <2>10, <2>11 DEF SaysAllClear, shown
<1>2. QED
    BY StoreTypeCorrect, <1>1, PTL

=============================================================================
