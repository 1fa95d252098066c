--------------------------- MODULE CheckoutsProofs ---------------------------
(***************************************************************************)
(* Proofs about Checkouts for any products, askers and releases.           *)
(*                                                                         *)
(* What an offer rests on is a remembered answer, a HEAD read earlier and  *)
(* a HEAD read at the end.  AnswersAreOld says that whatever is remembered *)
(* or under way is something the remote had, and that the answer to a      *)
(* fresh question is no older than the question.                           *)
(***************************************************************************)
EXTENDS Checkouts, TLAPS

\* A checkout and a remembered answer are never ahead of the remote.
NothingAhead ==
    \A p \in Product :
        /\ head[p] <= tip[p]
        /\ memo[p] \in Commit => memo[p] <= tip[p]

\* Nor is what an asker was told, and a fresh answer is not older than its question.
AnswerIsOld(a, tips) ==
    a.at # "idle" =>
        /\ a.since <= tips[a.p]
        /\ a.sha \in Commit => a.sha <= tips[a.p]
        /\ a.at = "judging" => a.sha \in Commit
        /\ a.fresh /\ a.at \in {"answered", "judging"} /\ a.sha \in Commit => a.since <= a.sha

AnswersAreOld == \A t \in Asker : AnswerIsOld(ask[t], tip)

CheckoutsInv == TypeOK /\ NothingAhead /\ AnswersAreOld

-----------------------------------------------------------------------------
\* Marks are no commits.
LEMMA Marks == None \notin Commit /\ NoAnswer \notin Commit /\ 0 \in Commit
BY CheckoutsAssumption DEF Commit

\* An asker is idle or asking, which its place tells apart.
LEMMA Askers ==
    ASSUME TypeOK, NEW t \in Asker, ask[t].at # "idle"
    PROVE  ask[t] \in Asking
BY DEF TypeOK, Idle

\* Init establishes the invariant.
LEMMA CheckoutsInit == Init => CheckoutsInv
<1> SUFFICES ASSUME Init PROVE CheckoutsInv
    OBVIOUS
<1>1. TypeOK
    <2>1. restarts \in 0..MaxRestarts
        BY CheckoutsAssumption DEF Init
    <2>2. shown \in [Product -> [available : BOOLEAN, latest : Commit]]
        BY Marks DEF Init, Unshown
    <2>3. QED
        BY <2>1, <2>2, Marks DEF Init, TypeOK
<1>2. NothingAhead
    <2> SUFFICES ASSUME NEW p \in Product
                 PROVE  head[p] <= tip[p] /\ (memo[p] \in Commit => memo[p] <= tip[p])
        BY DEF NothingAhead
    <2>1. head[p] = 0 /\ tip[p] = 0 /\ memo[p] = None
        BY DEF Init
    <2>2. QED
        BY <2>1, Marks
<1>3. AnswersAreOld
    BY DEF Init, AnswersAreOld, AnswerIsOld, Idle
<1>4. QED
    BY <1>1, <1>2, <1>3 DEF CheckoutsInv

-----------------------------------------------------------------------------
(* Types *)

\* A commit counts on.
LEMMA NextCommit == \A n \in Commit : n < MaxTip => n + 1 \in Commit
BY CheckoutsAssumption DEF Commit

\* Every step keeps the types.
LEMMA CheckoutsTypeStep == CheckoutsInv /\ [Next]_vars => TypeOK'
<1> SUFFICES ASSUME CheckoutsInv, [Next]_vars PROVE TypeOK'
    OBVIOUS
<1>0. TypeOK
    BY DEF CheckoutsInv
<1> USE <1>0
<1>1. ASSUME NEW t \in Asker, NEW p \in Product, NEW fresh \in BOOLEAN, Ask(t, p, fresh)
      PROVE TypeOK'
    <2>1. [at |-> "asked", p |-> p, fresh |-> fresh, cur |-> head[p],
           since |-> tip[p], sha |-> 0] \in Asking
        BY Marks DEF TypeOK, Asking
    <2>2. QED
        BY <1>1, <2>1 DEF Ask, TypeOK, gitVars
<1>2. ASSUME NEW t \in Asker, LookUp(t) PROVE TypeOK'
    <2>1. ask[t] \in Asking
        BY <1>2, Askers DEF LookUp
    <2>2. memo[ask[t].p] \in Commit \cup {NoAnswer}
        BY <1>2, <2>1 DEF LookUp, Remembered, TypeOK, Asking
    <2>3. ask' \in [Asker -> {Idle} \cup Asking]
        BY <1>2, <2>1, <2>2 DEF LookUp, TypeOK, Asking
    <2>4. QED
        BY <1>2, <2>3 DEF LookUp, TypeOK, gitVars
<1>3. ASSUME NEW t \in Asker, NEW answers \in BOOLEAN, Query(t, answers) PROVE TypeOK'
    <2>1. ask[t] \in Asking
        BY <1>3, Askers DEF Query
    <2>2. tip[ask[t].p] \in Commit
        BY <2>1 DEF TypeOK, Asking
    <2>3. ask' \in [Asker -> {Idle} \cup Asking]
        BY <1>3, <2>1, <2>2 DEF Query, TypeOK, Asking
    <2>4. QED
        BY <1>3, <2>3 DEF Query, TypeOK, gitVars
<1>4. ASSUME NEW t \in Asker, Remember(t) PROVE TypeOK'
    <2>1. ask[t] \in Asking
        BY <1>4, Askers DEF Remember
    <2>2. ask' \in [Asker -> {Idle} \cup Asking]
        BY <1>4, <2>1 DEF Remember, TypeOK, Asking
    <2>3. memo' \in [Product -> Commit \cup {None, NoAnswer}]
        BY <1>4, <2>1 DEF Remember, TypeOK, Asking
    <2>4. QED
        BY <1>4, <2>2, <2>3 DEF Remember, TypeOK
<1>5. ASSUME NEW t \in Asker, Judge(t) PROVE TypeOK'
    <2>1. ask[t] \in Asking
        BY <1>5, Askers DEF Judge
    <2>2. ask[t].at = "judging" => ask[t].sha \in Commit
        BY <1>5 DEF CheckoutsInv, AnswersAreOld, AnswerIsOld
    <2>3. Behind(ask[t].p, ask[t].sha, ask[t].cur) \in BOOLEAN
        BY DEF Behind
    <2>4. shown' \in [Product -> [available : BOOLEAN, latest : Commit]]
        BY <1>5, <2>1, <2>2, <2>3 DEF Judge, TypeOK, Asking
    <2>5. QED
        BY <1>5, <2>4 DEF Judge, TypeOK, gitVars
<1>6. ASSUME NEW p \in Product, Expire(p) \/ Release(p) \/ Start(p) PROVE TypeOK'
    <2>1. CASE Expire(p)
        BY <2>1 DEF Expire, TypeOK
    <2>2. CASE Release(p)
        <3>1. tip' \in [Product -> Commit]
            BY <2>2, NextCommit DEF Release, TypeOK
        <3>2. QED
            BY <2>2, <3>1 DEF Release, TypeOK
    <2>3. CASE Start(p)
        BY <2>3 DEF Start, TypeOK, gitVars
    <2>4. QED
        BY <1>6, <2>1, <2>2, <2>3
<1>7. ASSUME NEW ok \in BOOLEAN, Pull(ok) \/ HelperPulls(ok) \/ HelperBuilds(ok) PROVE TypeOK'
    <2>1. CASE Pull(ok)
        BY <2>1 DEF Pull, TypeOK, Idle
    <2>2. CASE HelperPulls(ok)
        BY <2>2, CheckoutsAssumption DEF HelperPulls, TypeOK
    <2>3. CASE HelperBuilds(ok)
        BY <2>3 DEF HelperBuilds, TypeOK, gitVars
    <2>4. QED
        BY <1>7, <2>1, <2>2, <2>3
<1>8. CASE Forget
    BY <1>8 DEF Forget, TypeOK
<1>9. CASE NoticeDetachedPull
    BY <1>9 DEF NoticeDetachedPull, TypeOK
<1>10. CASE Restart
    <2>1. restarts' \in 0..MaxRestarts
        BY <1>10, CheckoutsAssumption DEF Restart, TypeOK
    <2>2. QED
        BY <1>10, <2>1 DEF Restart, TypeOK
<1>11. CASE UNCHANGED vars
    BY <1>11 DEF TypeOK, vars, gitVars
<1>12. QED
    BY <1>1, <1>2, <1>3, <1>4, <1>5, <1>6, <1>7, <1>8, <1>9, <1>10, <1>11 DEF Next

-----------------------------------------------------------------------------
(* Nothing is ahead of the remote *)

\* A release is all that moves a remote.
LEMMA TipGrows ==
    ASSUME TypeOK, [Next]_vars, NEW p \in Product
    PROVE  tip[p] <= tip'[p] /\ tip[p] \in Nat /\ tip'[p] \in Nat
<1>0. tip[p] \in Nat
    BY DEF TypeOK, Commit
<1>1. CASE tip' = tip
    BY <1>0, <1>1
<1>2. ASSUME NEW q \in Product, Release(q) PROVE tip[p] <= tip'[p] /\ tip'[p] \in Nat
    BY <1>0, <1>2 DEF Release, TypeOK
<1>3. tip' = tip \/ \E q \in Product : Release(q)
    BY DEF Next, vars, gitVars, Ask, LookUp, Query, Remember, Judge, Expire, Start, Pull,
           HelperPulls, HelperBuilds, Forget, NoticeDetachedPull, Restart
<1>4. QED
    BY <1>0, <1>1, <1>2, <1>3

\* Every step keeps checkouts and memo behind the remote.
LEMMA NothingAheadStep == CheckoutsInv /\ [Next]_vars => NothingAhead'
<1> SUFFICES ASSUME CheckoutsInv, [Next]_vars, NEW p \in Product
             PROVE  /\ head'[p] <= tip'[p]
                    /\ memo'[p] \in Commit => memo'[p] <= tip'[p]
    BY DEF NothingAhead, Commit
<1>0. /\ TypeOK /\ NothingAhead /\ AnswersAreOld
      /\ tip[p] <= tip'[p] /\ tip[p] \in Nat /\ tip'[p] \in Nat
      /\ head[p] \in Nat /\ \A c \in Commit : c \in Nat
    BY TipGrows DEF CheckoutsInv, TypeOK, Commit
<1>1. head'[p] = head[p] \/ head'[p] = tip[p]
    BY <1>0 DEF Next, vars, gitVars, Ask, LookUp, Query, Remember, Judge, Expire, Release, Start,
           Pull, HelperPulls, HelperBuilds, Forget, NoticeDetachedPull, Restart, TypeOK
<1>2. \/ memo'[p] = memo[p] \/ memo'[p] = None
      \/ \E t \in Asker : Remember(t) /\ ask[t].p = p /\ memo'[p] = ask[t].sha
    BY <1>0 DEF Next, vars, gitVars, Ask, LookUp, Query, Remember, Judge, Expire, Release, Start,
           Pull, HelperPulls, HelperBuilds, Forget, NoticeDetachedPull, Restart, TypeOK
<1>3. memo'[p] \in Commit => memo'[p] <= tip[p]
    BY <1>0, <1>2, Marks DEF NothingAhead, AnswersAreOld, AnswerIsOld, Remember
<1>4. QED
    BY <1>0, <1>1, <1>3 DEF NothingAhead

-----------------------------------------------------------------------------
(* What askers know *)

\* Only the asker's own steps change what it knows.
LEMMA AskerSteps ==
    ASSUME TypeOK, [Next]_vars, NEW t \in Asker
    PROVE  \/ ask'[t] = ask[t]
           \/ ask'[t] = Idle
           \/ \E p \in Product, fresh \in BOOLEAN : Ask(t, p, fresh)
           \/ LookUp(t)
           \/ \E answers \in BOOLEAN : Query(t, answers)
           \/ Remember(t)
BY ZenonT(30) DEF Next, vars, gitVars, Ask, LookUp, Query, Remember, Judge, Expire, Release, Start,
       Pull, HelperPulls, HelperBuilds, Forget, NoticeDetachedPull, Restart, TypeOK

\* Every step keeps what askers know no newer than the remote, and fresh answers no
\* older than their question.
LEMMA AnswersAreOldStep == CheckoutsInv /\ [Next]_vars => AnswersAreOld'
<1> SUFFICES ASSUME CheckoutsInv, [Next]_vars, NEW t \in Asker
             PROVE  AnswerIsOld(ask'[t], tip')
    BY DEF AnswersAreOld, AnswerIsOld, Commit
<1>0. TypeOK /\ NothingAhead /\ AnswerIsOld(ask[t], tip)
    BY DEF CheckoutsInv, AnswersAreOld, AnswerIsOld
<1>1. \A p \in Product : tip[p] <= tip'[p] /\ tip[p] \in Nat /\ tip'[p] \in Nat
    BY <1>0, TipGrows
<1>2. \A c \in Commit : c \in Nat
    BY DEF Commit
<1>3. CASE ask'[t] = ask[t]
    <2>1. CASE ask[t].at = "idle"
        BY <1>3, <2>1 DEF AnswerIsOld
    <2>2. CASE ask[t].at # "idle"
        <3>1. ask[t] \in Asking
            BY <1>0, <2>2, Askers
        <3>2. QED
            BY <1>0, <1>1, <1>2, <1>3, <3>1 DEF AnswerIsOld, Asking
    <2>3. QED
        BY <2>1, <2>2
<1>4. CASE ask'[t] = Idle
    BY <1>4 DEF Idle, AnswerIsOld
<1>5. ASSUME NEW p \in Product, NEW fresh \in BOOLEAN, Ask(t, p, fresh)
      PROVE  AnswerIsOld(ask'[t], tip')
    <2>1. ask'[t] = [at |-> "asked", p |-> p, fresh |-> fresh, cur |-> head[p],
                     since |-> tip[p], sha |-> 0]
        BY <1>0, <1>5 DEF Ask, TypeOK
    <2>2. QED
        BY <1>1, <2>1 DEF AnswerIsOld
<1>6. CASE LookUp(t)
    <2>1. ask[t] \in Asking
        BY <1>0, <1>6, Askers DEF LookUp
    <2>2. /\ ask'[t] = [ask[t] EXCEPT !.sha = memo[ask[t].p],
                          !.at = IF memo[ask[t].p] = NoAnswer THEN "failed" ELSE "judging"]
          /\ ~ask[t].fresh /\ memo[ask[t].p] # None /\ ask[t].p \in Product
        BY <1>0, <1>6, <2>1 DEF LookUp, Remembered, TypeOK, Asking
    <2>3. memo[ask[t].p] \in Commit \cup {NoAnswer}
        BY <1>0, <2>2 DEF TypeOK
    <2>4. ask[t].since <= tip'[ask[t].p] /\ (memo[ask[t].p] \in Commit => memo[ask[t].p] <= tip'[ask[t].p])
        BY <1>0, <1>1, <1>2, <1>6, <2>1, <2>2 DEF NothingAhead, AnswerIsOld, LookUp, Asking
    <2>5. QED
        BY <2>1, <2>2, <2>3, <2>4, Marks DEF AnswerIsOld, Asking
<1>7. ASSUME NEW answers \in BOOLEAN, Query(t, answers) PROVE AnswerIsOld(ask'[t], tip')
    <2>1. ask[t] \in Asking
        BY <1>0, <1>7, Askers DEF Query
    <2>2. /\ ask'[t] = [ask[t] EXCEPT !.sha = IF answers THEN tip[ask[t].p] ELSE NoAnswer,
                                      !.at = "answered"]
          /\ ask[t].p \in Product
        BY <1>0, <1>7, <2>1 DEF Query, TypeOK, Asking
    <2>3. ask[t].since <= tip[ask[t].p] /\ ask[t].since \in Nat
        BY <1>0, <1>2, <1>7, <2>1 DEF AnswerIsOld, Query, Asking
    <2>4. QED
        BY <1>1, <2>1, <2>2, <2>3, Marks DEF AnswerIsOld, Asking
<1>8. CASE Remember(t)
    <2>1. ask[t] \in Asking
        BY <1>0, <1>8, Askers DEF Remember
    <2>2. /\ ask'[t] = [ask[t] EXCEPT !.at = IF ask[t].sha = NoAnswer THEN "failed" ELSE "judging"]
          /\ ask[t].p \in Product /\ ask[t].at = "answered" /\ ask[t].sha \in Commit \cup {NoAnswer}
        BY <1>0, <1>8, <2>1 DEF Remember, TypeOK, Asking
    <2>3. QED
        BY <1>0, <1>1, <1>2, <2>1, <2>2, Marks DEF AnswerIsOld, Asking
<1>9. QED
    BY <1>0, <1>3, <1>4, <1>5, <1>6, <1>7, <1>8, AskerSteps

-----------------------------------------------------------------------------
\* The invariant holds throughout.
LEMMA CheckoutsInvariant == Spec => []CheckoutsInv
<1>1. CheckoutsInv /\ [Next]_vars => CheckoutsInv'
    BY CheckoutsTypeStep, NothingAheadStep, AnswersAreOldStep DEF CheckoutsInv
<1>2. QED
    BY <1>1, CheckoutsInit, PTL DEF Spec

\* For any products, askers and releases, what the updater remembers, knows and shows
\* has its type, and only commits are judged.
THEOREM CheckoutsTypeCorrect == Spec => []TypeOK
<1>1. CheckoutsInv => TypeOK
    BY DEF CheckoutsInv
<1>2. QED
    BY <1>1, CheckoutsInvariant, PTL

\* An offer is made only where there is something to pull (git.py _behind): however
\* old the answer it rests on, and whatever was pulled since the status was asked for.
THEOREM OffersAreReal == Spec => OfferIsReal
<1>1. CheckoutsInv /\ [Next]_vars =>
        [\A p \in Product : shown'[p] # shown[p] /\ shown'[p].available
                              => head[p] < tip[p]]_shown
    <2> SUFFICES ASSUME CheckoutsInv, [Next]_vars, shown' # shown, NEW p \in Product,
                        shown'[p] # shown[p], shown'[p].available
                 PROVE  head[p] < tip[p]
        OBVIOUS
    <2>0. TypeOK /\ AnswersAreOld /\ NothingAhead
        BY DEF CheckoutsInv
    <2>1. PICK t \in Asker : Judge(t)
        BY DEF Next, vars, gitVars, Ask, LookUp, Query, Remember, Expire, Release, Start, Pull,
               HelperPulls, HelperBuilds, Forget, NoticeDetachedPull, Restart
    <2>2. ask[t] \in Asking
        BY <2>0, <2>1, Askers DEF Judge
    <2>3. /\ ask[t].at = "judging" /\ ask[t].p = p
          /\ shown'[p].available = Behind(p, ask[t].sha, ask[t].cur)
        BY <2>0, <2>1, <2>2 DEF Judge, TypeOK, Asking
    <2>4. ask[t].sha \in Commit /\ ask[t].sha <= tip[p] /\ ask[t].sha > head[p]
        BY <2>0, <2>3 DEF AnswersAreOld, AnswerIsOld, Behind
    <2>5. QED
        BY <2>0, <2>4 DEF TypeOK, Commit
<1>2. QED
    BY <1>1, CheckoutsInvariant, PTL DEF Spec, OfferIsReal

\* "The console's Check now always asks for a fresh one" (git.py): its answer is no
\* older than the click.
THEOREM CheckNowAsksNow == Spec => CheckNowIsCurrent
<1>1. CheckoutsInv /\ [Next]_vars =>
        [\A t \in Asker :
            ask[t].at = "judging" /\ ask[t].fresh /\ ask'[t] = Idle /\ restarts' = restarts
              => ask[t].since <= shown'[ask[t].p].latest]_vars
    <2> SUFFICES ASSUME CheckoutsInv, Next, NEW t \in Asker, ask[t].at = "judging",
                        ask[t].fresh, ask'[t] = Idle, restarts' = restarts
                 PROVE  ask[t].since <= shown'[ask[t].p].latest
        BY DEF vars
    <2>0. TypeOK /\ AnswersAreOld
        BY DEF CheckoutsInv
    <2>1. ask[t] \in Asking
        BY <2>0, Askers
    <2>2. ask'[t] # ask[t]
        BY DEF Idle
    <2>3. ~Restart
        BY <2>0 DEF Restart, TypeOK
    <2>4. Judge(t)
        <3>1. \A u \in Asker : Judge(u) => u = t
            BY <2>0, <2>2 DEF Judge, TypeOK
        <3>2. \A u \in Asker : LookUp(u) \/ Remember(u) => u # t
            BY DEF LookUp, Remember
        <3>3. \A u \in Asker, answers \in BOOLEAN : Query(u, answers) => u # t
            BY DEF Query
        <3>4. \A u \in Asker, p \in Product, fresh \in BOOLEAN : Ask(u, p, fresh) => u # t
            BY DEF Ask, Idle
        <3>5. QED
            BY <2>0, <2>2, <2>3, <3>1, <3>2, <3>3, <3>4
            DEF Next, gitVars, Ask, LookUp, Query, Remember, Expire, Release, Start, Pull,
                HelperPulls, HelperBuilds, Forget, NoticeDetachedPull, TypeOK
    <2>5. shown'[ask[t].p].latest = ask[t].sha
        BY <2>0, <2>1, <2>4 DEF Judge, TypeOK, Asking
    <2>6. ask[t].sha \in Commit /\ ask[t].since <= ask[t].sha
        BY <2>0 DEF AnswersAreOld, AnswerIsOld
    <2>7. QED
        BY <2>5, <2>6
<1>2. QED
    BY <1>1, CheckoutsInvariant, PTL DEF Spec, CheckNowIsCurrent
=============================================================================
