------------------------- MODULE BaselineApplyProofs -------------------------
(***************************************************************************)
(* Proofs about BaselineApply for any hosts, lists of them, lanes and      *)
(* calls: an apply that is left alone asks every host once.                *)
(*                                                                         *)
(* A row is asked by the lane that took it from the call's cursor, so rows *)
(* that are being asked lie up to the cursor (Alone); a lane that goes on  *)
(* takes the row after it, which nobody can be asking yet.                 *)
(***************************************************************************)
EXTENDS BaselineApply, SequenceTheorems, TLAPS

RowState == {"waiting", "running"} \cup Answered

\* While there is one call, its lanes are asking for rows of its own panel that its
\* cursor has passed.
Alone ==
    Len(ops) = 1 => \A l \in DOMAIN lanes : lanes[l].at = "asking" =>
                        lanes[l].panel = 1 /\ lanes[l].row <= ops[1].next

\* What a lane writes, as one function of the calls each, so that lemmas can be cited by
\* name.
WithRow(calls, op, i, v) == [calls EXCEPT ![op].rows[i] = v]

WithNext(calls, op, n) == [calls EXCEPT ![op].next = n]

WithEnd(calls, op) == [calls EXCEPT ![op].running = FALSE]

ApplyInv == TypeOK /\ Alone /\ AskedOnce

-----------------------------------------------------------------------------
(* Calls *)

\* A call's record, from its parts.
LEMMA CallIs ==
    ASSUME NEW c \in Call
    PROVE  /\ c.hosts \in HostLists /\ c.hosts \in Seq(Host) /\ Len(c.hosts) \in Nat
           /\ c.next \in Nat /\ c.rows \in Seq(RowState) /\ c.preview \in BOOLEAN
           /\ DOMAIN c.hosts = 1..Len(c.hosts) /\ DOMAIN c.rows = 1..Len(c.rows)
           /\ c.hosts # <<>> /\ Len(c.rows) \in Nat
<1>1. c.hosts \in HostLists /\ c.next \in Nat /\ c.rows \in Seq(RowState) /\ c.preview \in BOOLEAN
    BY DEF Call, RowState
<1>2. c.hosts \in Seq(Host) /\ c.hosts # <<>>
    BY <1>1, ApplyAssumption
<1>3. QED
    BY <1>1, <1>2, LenProperties

\* Calls stay calls when each is replaced by one.
LEMMA SetCalls ==
    ASSUME NEW calls, Shape(calls), NEW new \in [DOMAIN calls -> Call],
           \A op \in DOMAIN calls : Len(new[op].rows) = Len(new[op].hosts)
    PROVE  Shape(new) /\ Len(new) = Len(calls)
<1>1. calls \in Seq(Call) /\ DOMAIN calls = 1..Len(calls) /\ Len(calls) \in Nat
    BY LenProperties DEF Shape
<1>2. new \in Seq(Call)
    BY <1>1, SeqDef
<1>3. DOMAIN new = 1..Len(new) /\ Len(new) \in Nat
    BY <1>2, LenProperties
<1>4. Len(new) = Len(calls)
    BY <1>1, <1>3
<1>5. QED
    BY <1>2, <1>4 DEF Shape

\* What is known of each call.
LEMMA CallOf ==
    ASSUME NEW calls, Shape(calls)
    PROVE  /\ DOMAIN calls = 1..Len(calls) /\ Len(calls) \in Nat
           /\ \A op \in DOMAIN calls :
                calls[op] \in Call /\ Len(calls[op].rows) = Len(calls[op].hosts)
<1>1. calls \in Seq(Call)
    BY DEF Shape
<1>2. QED
    BY <1>1, LenProperties, ElementOfSeq DEF Shape

\* One row of one call is written.
LEMMA SetRow ==
    ASSUME NEW calls, Shape(calls), NEW op \in DOMAIN calls,
           NEW i \in DOMAIN calls[op].rows, NEW v \in RowState,
           NEW new, new = WithRow(calls, op, i, v)
    PROVE  /\ Shape(new) /\ Len(new) = Len(calls) /\ DOMAIN new = DOMAIN calls
           /\ \A o \in DOMAIN calls :
                /\ new[o].hosts = calls[o].hosts /\ new[o].next = calls[o].next
                /\ new[o].preview = calls[o].preview
                /\ DOMAIN new[o].rows = DOMAIN calls[o].rows
                /\ Len(new[o].rows) = Len(calls[o].rows)
           /\ \A j \in DOMAIN calls[op].rows :
                new[op].rows[j] = IF j = i THEN v ELSE calls[op].rows[j]
<1> DEFINE rows == [calls[op].rows EXCEPT ![i] = v]
<1>1. calls[op] \in Call /\ Len(calls[op].rows) = Len(calls[op].hosts)
    BY CallOf
<1>2. calls[op].rows \in Seq(RowState) /\ i \in 1..Len(calls[op].rows)
    BY <1>1, CallIs
<1>3. rows \in Seq(RowState) /\ Len(rows) = Len(calls[op].rows)
    BY <1>2, ExceptSeq
<1>4. /\ DOMAIN rows = DOMAIN calls[op].rows
      /\ \A j \in DOMAIN calls[op].rows : rows[j] = IF j = i THEN v ELSE calls[op].rows[j]
    OBVIOUS
<1>5. new = [calls EXCEPT ![op] = [@ EXCEPT !.rows = rows]]
    BY DEF WithRow
<1> HIDE DEF rows
<1>6. /\ DOMAIN new = DOMAIN calls
      /\ new[op] = [calls[op] EXCEPT !.rows = rows]
      /\ \A o \in DOMAIN calls : o # op => new[o] = calls[o]
    BY <1>5
<1>7. [calls[op] EXCEPT !.rows = rows] \in Call
    BY <1>1, <1>3 DEF Call, RowState
<1>8. /\ new[op].hosts = calls[op].hosts /\ new[op].next = calls[op].next
      /\ new[op].preview = calls[op].preview /\ new[op].rows = rows
    BY <1>1, <1>6 DEF Call
<1>9. new \in [DOMAIN calls -> Call]
    <2>1. \A o \in DOMAIN calls : new[o] \in Call
        BY <1>6, <1>7, CallOf
    <2>2. new = [o \in DOMAIN calls |-> new[o]]
        BY <1>5
    <2>3. QED
        BY <2>1, <2>2
<1>10. \A o \in DOMAIN calls : Len(new[o].rows) = Len(new[o].hosts)
    <2>1. Len(new[op].rows) = Len(new[op].hosts)
        BY <1>1, <1>3, <1>8
    <2>2. \A o \in DOMAIN calls : Len(calls[o].rows) = Len(calls[o].hosts)
        BY CallOf
    <2>3. QED
        BY ONLY <2>1, <2>2, <1>6
<1>11. Shape(new) /\ Len(new) = Len(calls)
    BY <1>9, <1>10, SetCalls
<1>12. QED
    BY <1>3, <1>4, <1>6, <1>8, <1>11

\* The cursor of one call moves.
LEMMA SetNext ==
    ASSUME NEW calls, Shape(calls), NEW op \in DOMAIN calls, NEW n \in Nat,
           NEW new, new = WithNext(calls, op, n)
    PROVE  /\ Shape(new) /\ Len(new) = Len(calls) /\ DOMAIN new = DOMAIN calls
           /\ \A o \in DOMAIN calls :
                new[o].hosts = calls[o].hosts /\ new[o].rows = calls[o].rows
           /\ new[op].next = n
<1>1. calls[op] \in Call /\ Len(calls[op].rows) = Len(calls[op].hosts)
    BY CallOf
<1>2. /\ DOMAIN new = DOMAIN calls
      /\ new[op] = [calls[op] EXCEPT !.next = n]
      /\ \A o \in DOMAIN calls : o # op => new[o] = calls[o]
    BY DEF WithNext
<1>3. new[op] \in Call /\ new[op].next = n
      /\ new[op].hosts = calls[op].hosts /\ new[op].rows = calls[op].rows
    BY <1>1, <1>2 DEF Call
<1>4. new \in [DOMAIN calls -> Call]
    <2>1. \A o \in DOMAIN calls : new[o] \in Call
        BY <1>2, <1>3, CallOf
    <2>2. new = [o \in DOMAIN calls |-> new[o]]
        BY DEF WithNext
    <2>3. QED
        BY <2>1, <2>2
<1>5. \A o \in DOMAIN calls : Len(new[o].rows) = Len(new[o].hosts)
    <2>1. Len(new[op].rows) = Len(new[op].hosts)
        BY <1>1, <1>3
    <2>2. \A o \in DOMAIN calls : Len(calls[o].rows) = Len(calls[o].hosts)
        BY CallOf
    <2>3. QED
        BY ONLY <2>1, <2>2, <1>2
<1>6. Shape(new) /\ Len(new) = Len(calls)
    BY <1>4, <1>5, SetCalls
<1>7. QED
    BY <1>2, <1>3, <1>6

\* The panel's call ends.
LEMMA SetRunning ==
    ASSUME NEW calls, Shape(calls), NEW op \in DOMAIN calls,
           NEW new, new = WithEnd(calls, op)
    PROVE  /\ Shape(new) /\ Len(new) = Len(calls) /\ DOMAIN new = DOMAIN calls
           /\ \A o \in DOMAIN calls : /\ new[o].hosts = calls[o].hosts
                                      /\ new[o].rows = calls[o].rows
                                      /\ new[o].next = calls[o].next
<1>1. calls[op] \in Call /\ Len(calls[op].rows) = Len(calls[op].hosts)
    BY CallOf
<1>2. /\ DOMAIN new = DOMAIN calls
      /\ new[op] = [calls[op] EXCEPT !.running = FALSE]
      /\ \A o \in DOMAIN calls : o # op => new[o] = calls[o]
    BY DEF WithEnd
<1>3. new[op] \in Call /\ new[op].next = calls[op].next
      /\ new[op].hosts = calls[op].hosts /\ new[op].rows = calls[op].rows
    BY <1>1, <1>2 DEF Call
<1>4. new \in [DOMAIN calls -> Call]
    <2>1. \A o \in DOMAIN calls : new[o] \in Call
        BY <1>2, <1>3, CallOf
    <2>2. new = [o \in DOMAIN calls |-> new[o]]
        BY DEF WithEnd
    <2>3. QED
        BY <2>1, <2>2
<1>5. \A o \in DOMAIN calls : Len(new[o].rows) = Len(new[o].hosts)
    <2>1. Len(new[op].rows) = Len(new[op].hosts)
        BY <1>1, <1>3
    <2>2. \A o \in DOMAIN calls : Len(calls[o].rows) = Len(calls[o].hosts)
        BY CallOf
    <2>3. QED
        BY ONLY <2>1, <2>2, <1>2
<1>6. Shape(new) /\ Len(new) = Len(calls)
    BY <1>4, <1>5, SetCalls
<1>7. QED
    BY <1>2, <1>3, <1>6

-----------------------------------------------------------------------------
(* Types *)

\* Lanes stay where they are while panels keep their rows.
LEMMA PlacedStays ==
    ASSUME NEW calls, NEW new, NEW lane, Placed(lane, calls), DOMAIN calls \subseteq DOMAIN new,
           \A o \in DOMAIN calls : DOMAIN new[o].rows = DOMAIN calls[o].rows
    PROVE  Placed(lane, new)
BY DEF Placed

\* The lesser of two numbers is neither's greater.
LEMMA LesserIs ==
    \A m, n \in Nat : Lesser(m, n) \in Nat /\ Lesser(m, n) <= m /\ Lesser(m, n) <= n
BY DEF Lesser

\* A call as it is made: a row for each host, and no more lanes than rows.
LEMMA NewCall ==
    ASSUME NEW hosts \in HostLists, NEW preview \in BOOLEAN,
           NEW count, count = Lesser(APPLY_LANES, Len(hosts)),
           NEW rows, rows = [i \in DOMAIN hosts |-> IF i <= count THEN "running" ELSE "waiting"],
           NEW c, c = [preview |-> preview, hosts |-> hosts, next |-> count,
                       running |-> TRUE, rows |-> rows]
    PROVE  /\ count \in Nat /\ count <= APPLY_LANES /\ count <= Len(hosts)
           /\ Len(rows) = Len(hosts) /\ DOMAIN rows = 1..Len(hosts)
           /\ c \in Call
<1>1. hosts \in Seq(Host) /\ Len(hosts) \in Nat /\ DOMAIN hosts = 1..Len(hosts)
    BY ApplyAssumption, LenProperties
<1>2. count \in Nat /\ count <= APPLY_LANES /\ count <= Len(hosts)
    <2>1. APPLY_LANES \in Nat
        BY ApplyAssumption
    <2>2. QED
        BY <1>1, <2>1, LesserIs
<1>3. rows \in [1..Len(hosts) -> RowState]
    BY <1>1 DEF RowState
<1>4. rows \in Seq(RowState)
    BY <1>1, <1>3, SeqDef
<1>5. DOMAIN rows = 1..Len(rows) /\ Len(rows) \in Nat /\ DOMAIN rows = 1..Len(hosts)
    BY <1>3, <1>4, LenProperties
<1>6. Len(rows) = Len(hosts)
    BY <1>1, <1>5
<1>7. c \in Call
    BY <1>2, <1>4 DEF Call, RowState
<1>8. QED
    BY ONLY <1>2, <1>5, <1>6, <1>7

\* applyMany adds a call and its lanes, and touches no other.
LEMMA ApplyAdds ==
    ASSUME TypeOK, NEW hosts \in HostLists, NEW preview \in BOOLEAN,
           ApplyMany(hosts, preview), NEW op, op = Len(ops) + 1
    PROVE  /\ Shape(ops') /\ Len(ops') = op /\ op <= MaxOps /\ panel' = op
           /\ DOMAIN ops' = 1..op /\ DOMAIN ops = 1..Len(ops) /\ op \in Nat
           /\ \A o \in DOMAIN ops : ops'[o] = ops[o]
           /\ \A l \in DOMAIN lanes : l \in DOMAIN lanes' /\ lanes'[l] = lanes[l] /\ l[1] # op
           /\ \A l \in DOMAIN lanes' : l \notin DOMAIN lanes =>
                \E k \in 1..APPLY_LANES :
                  /\ l = <<op, k>> /\ k \in DOMAIN ops'[op].rows /\ k <= ops'[op].next
                  /\ lanes'[l] = [at |-> "asking", panel |-> op, row |-> k]
           /\ ops'[op].next \in Nat
           /\ \A i \in DOMAIN ops'[op].rows :
                ops'[op].rows[i] = IF i <= ops'[op].next THEN "running" ELSE "waiting"
<1> DEFINE count == Lesser(APPLY_LANES, Len(hosts))
           rows  == [i \in DOMAIN hosts |-> IF i <= count THEN "running" ELSE "waiting"]
           c     == [preview |-> preview, hosts |-> hosts, next |-> count,
                     running |-> TRUE, rows |-> rows]
<1>1. /\ count \in Nat /\ count <= APPLY_LANES /\ count <= Len(hosts)
      /\ Len(rows) = Len(hosts) /\ DOMAIN rows = 1..Len(hosts) /\ c \in Call
    BY NewCall
<1>2. /\ op <= MaxOps /\ ops' = Append(ops, c) /\ panel' = op
      /\ lanes' = [l \in DOMAIN lanes \cup {<<op, k>> : k \in 1..count} |->
                     IF l[1] = op THEN [at |-> "asking", panel |-> op, row |-> l[2]]
                     ELSE lanes[l]]
    BY DEF ApplyMany
<1>3. ops \in Seq(Call) /\ DOMAIN ops = 1..Len(ops) /\ Len(ops) \in Nat
    BY CallOf DEF TypeOK, Shape
<1>4. c.rows = rows /\ c.hosts = hosts /\ c.next = count
    OBVIOUS
<1>5. \A i \in DOMAIN rows : rows[i] = IF i <= count THEN "running" ELSE "waiting"
    OBVIOUS
<1> HIDE DEF c, rows, count
<1>6. /\ ops' \in Seq(Call) /\ Len(ops') = op /\ ops'[op] = c
      /\ \A o \in DOMAIN ops : ops'[o] = ops[o]
    BY <1>1, <1>2, <1>3, AppendProperties
<1>7. DOMAIN ops' = 1..op
    BY <1>6, LenProperties
<1>8. Shape(ops')
    <2> SUFFICES ASSUME NEW o \in DOMAIN ops' PROVE Len(ops'[o].rows) = Len(ops'[o].hosts)
        BY <1>6 DEF Shape
    <2>1. o \in DOMAIN ops \/ o = op
        BY <1>3, <1>7
    <2>2. QED
        BY <2>1, <1>1, <1>4, <1>6 DEF TypeOK, Shape
<1>9. \A l \in DOMAIN lanes : l[1] # op
    BY <1>3 DEF TypeOK
<1>10. \A l \in DOMAIN lanes : l \in DOMAIN lanes' /\ lanes'[l] = lanes[l]
    BY <1>2, <1>9
<1>11. ASSUME NEW l \in DOMAIN lanes', l \notin DOMAIN lanes
       PROVE  \E k \in 1..APPLY_LANES :
                  /\ l = <<op, k>> /\ k \in DOMAIN ops'[op].rows /\ k <= ops'[op].next
                  /\ lanes'[l] = [at |-> "asking", panel |-> op, row |-> k]
    <2>1. PICK k \in 1..count : l = <<op, k>>
        BY <1>2, <1>11
    <2>2. k \in 1..APPLY_LANES /\ k \in DOMAIN ops'[op].rows /\ k <= ops'[op].next
        <3>1. k \in Nat /\ 1 <= k /\ k <= count
            BY <2>1, <1>1
        <3>2. Len(hosts) \in Nat
            BY ApplyAssumption, LenProperties
        <3>3. QED
            BY <3>1, <3>2, <1>1, <1>4, <1>6, ApplyAssumption
    <2>3. lanes'[l] = [at |-> "asking", panel |-> op, row |-> k]
        BY <2>1, <1>2
    <2>4. QED
        BY <2>1, <2>2, <2>3
<1>12. ops'[op].next \in Nat /\ \A i \in DOMAIN ops'[op].rows :
            ops'[op].rows[i] = IF i <= ops'[op].next THEN "running" ELSE "waiting"
    BY <1>1, <1>4, <1>5, <1>6
<1>13. \A l \in DOMAIN lanes' : l \notin DOMAIN lanes =>
           \E k \in 1..APPLY_LANES :
             /\ l = <<op, k>> /\ k \in DOMAIN ops'[op].rows /\ k <= ops'[op].next
             /\ lanes'[l] = [at |-> "asking", panel |-> op, row |-> k]
    BY <1>11
<1>14. op \in Nat
    BY <1>3
<1>15. QED
    BY ONLY <1>2, <1>3, <1>6, <1>7, <1>8, <1>9, <1>10, <1>12, <1>13, <1>14

\* applyMany keeps the types.
LEMMA ApplyTypes ==
    ASSUME TypeOK, NEW hosts \in HostLists, NEW preview \in BOOLEAN, ApplyMany(hosts, preview)
    PROVE  TypeOK'
<1> DEFINE op == Len(ops) + 1
<1>1. /\ Shape(ops') /\ Len(ops') = op /\ op <= MaxOps /\ panel' = op
      /\ DOMAIN ops' = 1..op /\ DOMAIN ops = 1..Len(ops) /\ op \in Nat
      /\ \A o \in DOMAIN ops : ops'[o] = ops[o]
      /\ \A l \in DOMAIN lanes : l \in DOMAIN lanes' /\ lanes'[l] = lanes[l] /\ l[1] # op
      /\ \A l \in DOMAIN lanes' : l \notin DOMAIN lanes =>
           \E k \in 1..APPLY_LANES :
             /\ l = <<op, k>> /\ k \in DOMAIN ops'[op].rows /\ k <= ops'[op].next
             /\ lanes'[l] = [at |-> "asking", panel |-> op, row |-> k]
    BY ApplyAdds
<1>2. Len(ops) \in Nat /\ DOMAIN ops \subseteq DOMAIN ops' /\ op \in DOMAIN ops'
    BY <1>1, CallOf DEF TypeOK
<1>3. panel' \in 0..Len(ops') /\ Len(ops') <= MaxOps
    BY <1>1
<1>4. ASSUME NEW l \in DOMAIN lanes'
      PROVE  l \in (DOMAIN ops') \X (1..APPLY_LANES) /\ Placed(lanes'[l], ops')
    <2>1. CASE l \in DOMAIN lanes
        <3>1. l \in (DOMAIN ops') \X (1..APPLY_LANES)
            BY <2>1, <1>2 DEF TypeOK
        <3>2. Placed(lanes[l], ops)
            BY <2>1 DEF TypeOK
        <3>3. lanes'[l] = lanes[l]
            BY <2>1, <1>1
        <3>4. Placed(lanes'[l], ops')
            BY <3>2, <3>3, <1>1, <1>2, PlacedStays
        <3>5. QED
            BY <3>1, <3>4
    <2>2. CASE l \notin DOMAIN lanes
        <3>1. PICK k \in 1..APPLY_LANES :
                  /\ l = <<op, k>> /\ k \in DOMAIN ops'[op].rows /\ k <= ops'[op].next
                  /\ lanes'[l] = [at |-> "asking", panel |-> op, row |-> k]
            BY <2>2, <1>1
        <3>2. l \in (DOMAIN ops') \X (1..APPLY_LANES) /\ k \in Nat
            BY <3>1, <1>2, ApplyAssumption
        <3> HIDE DEF op
        <3>3. Placed(lanes'[l], ops')
            BY <3>1, <3>2, <1>2 DEF Placed
        <3>4. QED
            BY <3>2, <3>3
    <2>3. QED
        BY <2>1, <2>2
<1>5. answers' \subseteq [host : Host, preview : BOOLEAN, result : Answered]
    BY DEF TypeOK, ApplyMany
<1>6. QED
    BY <1>1, <1>3, <1>4, <1>5 DEF TypeOK

\* A lane that is asking asks for a row that there is, for a host of its panel's call.
LEMMA AskingLane ==
    ASSUME TypeOK, NEW l \in DOMAIN lanes, lanes[l].at = "asking"
    PROVE  /\ lanes[l].panel \in DOMAIN ops /\ lanes[l].row \in DOMAIN ops[lanes[l].panel].rows
           /\ lanes[l].row \in Nat /\ l[1] \in DOMAIN ops
           /\ ops[lanes[l].panel].hosts[lanes[l].row] \in Host
           /\ ops[l[1]].preview \in BOOLEAN /\ ops[l[1]].next \in Nat
<1>1. /\ lanes[l].panel \in DOMAIN ops /\ lanes[l].row \in DOMAIN ops[lanes[l].panel].rows
      /\ lanes[l].row \in Nat /\ l[1] \in DOMAIN ops
    BY DEF TypeOK, Placed
<1> DEFINE q == ops[lanes[l].panel]
<1>2. q \in Call /\ Len(q.rows) = Len(q.hosts) /\ ops[l[1]] \in Call
    BY <1>1, CallOf DEF TypeOK
<1>3. /\ q.hosts \in Seq(Host) /\ DOMAIN q.hosts = 1..Len(q.hosts)
      /\ DOMAIN q.rows = 1..Len(q.rows)
      /\ ops[l[1]].preview \in BOOLEAN /\ ops[l[1]].next \in Nat
    BY <1>2, CallIs
<1>4. lanes[l].row \in 1..Len(q.hosts)
    BY <1>1, <1>2, <1>3
<1>5. q.hosts[lanes[l].row] \in Host
    BY <1>3, <1>4, ElementOfSeq
<1>6. QED
    BY <1>1, <1>3, <1>5

\* The three ways on: the lane's row is answered; then it takes the next, ends, or is
\* rejected.
LEMMA LaneGoes ==
    ASSUME TypeOK, NEW l \in DOMAIN lanes, NEW result \in Answered, LaneResumes(l, result)
    PROVE  \E mine :
             /\ mine = WithRow(ops, lanes[l].panel, lanes[l].row, result)
             /\ \/ /\ panel # 0 /\ ops[l[1]].next < Len(ops[panel].rows)
                   /\ \E two : /\ two = WithNext(mine, l[1], ops[l[1]].next + 1)
                               /\ ops' = WithRow(two, panel, ops[l[1]].next + 1, "running")
                   /\ lanes' = [lanes EXCEPT ![l] = [at |-> "asking", panel |-> panel,
                                                    row |-> ops[l[1]].next + 1]]
                \/ /\ panel # 0
                   /\ ops' = mine \/ ops' = WithEnd(mine, panel)
                   /\ lanes' = [lanes EXCEPT ![l] = [at |-> "over"]]
                \/ /\ ops' = mine
                   /\ lanes' = [lanes EXCEPT ![l] = [at |-> "rejected"]]
<1> DEFINE mine == WithRow(ops, lanes[l].panel, lanes[l].row, result)
           two  == WithNext(mine, l[1], ops[l[1]].next + 1)
<1>1. CASE /\ panel # 0 /\ TakesNext(l)
           /\ ops' = [[ops EXCEPT ![lanes[l].panel].rows[lanes[l].row] = result]
                       EXCEPT ![l[1]].next = NextRow(l), ![panel].rows[NextRow(l)] = "running"]
           /\ lanes' = [lanes EXCEPT ![l] =
                          [at |-> "asking", panel |-> panel, row |-> NextRow(l)]]
    <2>1. ops' = WithRow(two, panel, ops[l[1]].next + 1, "running")
        BY <1>1 DEF NextRow, WithRow, WithNext
    <2> HIDE DEF two, mine
    <2>2. QED
        BY <1>1, <2>1 DEF NextRow, TakesNext, mine, two
<1>2. CASE /\ panel # 0
           /\ ops' = IF LastOf(l)
                     THEN [[ops EXCEPT ![lanes[l].panel].rows[lanes[l].row] = result]
                             EXCEPT ![panel].running = FALSE]
                     ELSE [ops EXCEPT ![lanes[l].panel].rows[lanes[l].row] = result]
           /\ lanes' = [lanes EXCEPT ![l] = [at |-> "over"]]
    <2>1. ops' = mine \/ ops' = WithEnd(mine, panel)
        BY <1>2 DEF WithRow, WithEnd
    <2> HIDE DEF mine
    <2>2. QED
        BY <1>2, <2>1 DEF mine
<1>3. CASE /\ ops' = [ops EXCEPT ![lanes[l].panel].rows[lanes[l].row] = result]
           /\ lanes' = [lanes EXCEPT ![l] = [at |-> "rejected"]]
    <2>1. ops' = mine
        BY <1>3 DEF WithRow
    <2> HIDE DEF mine
    <2>2. QED
        BY <1>3, <2>1 DEF mine
<1>4. QED
    BY <1>1, <1>2, <1>3 DEF LaneResumes, RowOf, TakesNext

\* The row that a lane answers, and the calls then.
LEMMA LaneAnswers ==
    ASSUME TypeOK, NEW l \in DOMAIN lanes, lanes[l].at = "asking", NEW result \in Answered,
           NEW mine, mine = WithRow(ops, lanes[l].panel, lanes[l].row, result)
    PROVE  /\ Shape(mine) /\ Len(mine) = Len(ops) /\ DOMAIN mine = DOMAIN ops
           /\ \A o \in DOMAIN ops :
                /\ mine[o].hosts = ops[o].hosts /\ mine[o].next = ops[o].next
                /\ DOMAIN mine[o].rows = DOMAIN ops[o].rows
                /\ Len(mine[o].rows) = Len(ops[o].rows)
           /\ \A j \in DOMAIN ops[lanes[l].panel].rows :
                mine[lanes[l].panel].rows[j] =
                  IF j = lanes[l].row THEN result ELSE ops[lanes[l].panel].rows[j]
<1>1. Shape(ops) /\ result \in RowState
    BY DEF TypeOK, RowState
<1>2. lanes[l].panel \in DOMAIN ops /\ lanes[l].row \in DOMAIN ops[lanes[l].panel].rows
    BY AskingLane
<1>3. QED
    BY <1>1, <1>2, SetRow

\* The row that a lane takes next is one of the panel's.
LEMMA NextIsARow ==
    ASSUME TypeOK, NEW l \in DOMAIN lanes, lanes[l].at = "asking",
           panel # 0, ops[l[1]].next < Len(ops[panel].rows)
    PROVE  /\ panel \in DOMAIN ops /\ ops[l[1]].next + 1 \in Nat
           /\ ops[l[1]].next + 1 \in DOMAIN ops[panel].rows
<1>1. panel \in DOMAIN ops
    BY CallOf DEF TypeOK
<1>2. ops[panel] \in Call /\ ops[l[1]].next \in Nat
    BY <1>1, CallOf, AskingLane DEF TypeOK
<1>3. DOMAIN ops[panel].rows = 1..Len(ops[panel].rows) /\ Len(ops[panel].rows) \in Nat
    BY <1>2, CallIs
<1>4. QED
    BY <1>1, <1>2, <1>3

\* A lane that goes on keeps the calls and moves only itself.
LEMMA LaneMoves ==
    ASSUME TypeOK, NEW l \in DOMAIN lanes, NEW result \in Answered, LaneResumes(l, result)
    PROVE  /\ Shape(ops') /\ Len(ops') = Len(ops) /\ DOMAIN ops' = DOMAIN ops
           /\ \A o \in DOMAIN ops : DOMAIN ops'[o].rows = DOMAIN ops[o].rows
           /\ DOMAIN lanes' = DOMAIN lanes
           /\ \A m \in DOMAIN lanes : m # l => lanes'[m] = lanes[m]
           /\ Placed(lanes'[l], ops)
<1>1. lanes[l].at = "asking"
    BY DEF LaneResumes
<1>2. PICK mine :
        /\ mine = WithRow(ops, lanes[l].panel, lanes[l].row, result)
        /\ \/ /\ panel # 0 /\ ops[l[1]].next < Len(ops[panel].rows)
              /\ \E two : /\ two = WithNext(mine, l[1], ops[l[1]].next + 1)
                          /\ ops' = WithRow(two, panel, ops[l[1]].next + 1, "running")
              /\ lanes' = [lanes EXCEPT ![l] = [at |-> "asking", panel |-> panel,
                                               row |-> ops[l[1]].next + 1]]
           \/ /\ panel # 0
              /\ ops' = mine \/ ops' = WithEnd(mine, panel)
              /\ lanes' = [lanes EXCEPT ![l] = [at |-> "over"]]
           \/ /\ ops' = mine
              /\ lanes' = [lanes EXCEPT ![l] = [at |-> "rejected"]]
    BY LaneGoes
<1>3. /\ Shape(mine) /\ Len(mine) = Len(ops) /\ DOMAIN mine = DOMAIN ops
      /\ \A o \in DOMAIN ops : DOMAIN mine[o].rows = DOMAIN ops[o].rows
    BY <1>1, <1>2, LaneAnswers
<1>4. panel # 0 => panel \in DOMAIN ops
    BY CallOf DEF TypeOK
<1>5. CASE /\ panel # 0 /\ ops[l[1]].next < Len(ops[panel].rows)
           /\ \E two : /\ two = WithNext(mine, l[1], ops[l[1]].next + 1)
                       /\ ops' = WithRow(two, panel, ops[l[1]].next + 1, "running")
           /\ lanes' = [lanes EXCEPT ![l] = [at |-> "asking", panel |-> panel,
                                            row |-> ops[l[1]].next + 1]]
    <2> DEFINE n == ops[l[1]].next + 1
    <2>1. PICK two : two = WithNext(mine, l[1], n) /\ ops' = WithRow(two, panel, n, "running")
        BY <1>5
    <2>2. panel \in DOMAIN ops /\ n \in Nat /\ n \in DOMAIN ops[panel].rows
        BY <1>1, <1>5, NextIsARow
    <2>3. l[1] \in DOMAIN mine
        BY <1>1, <1>3, AskingLane
    <2>4. /\ DOMAIN lanes' = DOMAIN lanes
          /\ \A m \in DOMAIN lanes : m # l => lanes'[m] = lanes[m]
          /\ lanes'[l] = [at |-> "asking", panel |-> panel, row |-> n]
        BY <1>5
    <2> HIDE DEF n
    <2>5. /\ Shape(two) /\ Len(two) = Len(ops) /\ DOMAIN two = DOMAIN ops
          /\ \A o \in DOMAIN ops : DOMAIN two[o].rows = DOMAIN ops[o].rows
        <3>1. /\ Shape(two) /\ Len(two) = Len(mine) /\ DOMAIN two = DOMAIN mine
              /\ \A o \in DOMAIN mine : two[o].rows = mine[o].rows
            <4>1. Shape(mine)
                BY <1>3
            <4>2. n \in Nat
                BY <2>2
            <4>3. two = WithNext(mine, l[1], n)
                BY <2>1
            <4> DEFINE op == l[1]
            <4>4. op \in DOMAIN mine /\ two = WithNext(mine, op, n)
                BY <2>3, <4>3
            <4> HIDE DEF op
            <4>5. QED
                BY ONLY <4>1, <4>2, <4>4, SetNext
        <3>2. QED
            BY <1>3, <3>1
    <2>6. panel \in DOMAIN two /\ n \in DOMAIN two[panel].rows /\ "running" \in RowState
        BY <2>2, <2>5 DEF RowState
    <2>7. /\ Shape(ops') /\ Len(ops') = Len(two) /\ DOMAIN ops' = DOMAIN two
          /\ \A o \in DOMAIN two : DOMAIN ops'[o].rows = DOMAIN two[o].rows
        BY <2>1, <2>5, <2>6, SetRow
    <2>8. Placed(lanes'[l], ops)
        BY <2>2, <2>4 DEF Placed
    <2>9. QED
        BY <2>5, <2>7, <2>4, <2>8
<1>6. CASE /\ panel # 0
           /\ ops' = mine \/ ops' = WithEnd(mine, panel)
           /\ lanes' = [lanes EXCEPT ![l] = [at |-> "over"]]
    <2>1. /\ Shape(ops') /\ Len(ops') = Len(mine) /\ DOMAIN ops' = DOMAIN mine
          /\ \A o \in DOMAIN mine : ops'[o].rows = mine[o].rows
        <3>1. CASE ops' = mine
            BY <3>1, <1>3
        <3>2. CASE ops' = WithEnd(mine, panel)
            BY <3>2, <1>3, <1>4, <1>6, SetRunning
        <3>3. QED
            BY <1>6, <3>1, <3>2
    <2>2. Placed(lanes'[l], ops) /\ DOMAIN lanes' = DOMAIN lanes
          /\ \A m \in DOMAIN lanes : m # l => lanes'[m] = lanes[m]
        BY <1>6 DEF Placed
    <2>3. QED
        BY <1>3, <2>1, <2>2
<1>7. CASE /\ ops' = mine
           /\ lanes' = [lanes EXCEPT ![l] = [at |-> "rejected"]]
    <2>1. Placed(lanes'[l], ops) /\ DOMAIN lanes' = DOMAIN lanes
          /\ \A m \in DOMAIN lanes : m # l => lanes'[m] = lanes[m]
        BY <1>7 DEF Placed
    <2>2. QED
        BY <1>3, <1>7, <2>1
<1>8. QED
    BY <1>2, <1>5, <1>6, <1>7

\* A lane that goes on keeps the types.
LEMMA LaneTypes ==
    ASSUME TypeOK, NEW l \in DOMAIN lanes, NEW result \in Answered, LaneResumes(l, result)
    PROVE  TypeOK'
<1>1. /\ Shape(ops') /\ Len(ops') = Len(ops) /\ DOMAIN ops' = DOMAIN ops
      /\ \A o \in DOMAIN ops : DOMAIN ops'[o].rows = DOMAIN ops[o].rows
      /\ DOMAIN lanes' = DOMAIN lanes
      /\ \A m \in DOMAIN lanes : m # l => lanes'[m] = lanes[m]
      /\ Placed(lanes'[l], ops)
    BY LaneMoves
<1>2. Len(ops') <= MaxOps /\ panel' \in 0..Len(ops')
    BY <1>1 DEF TypeOK, LaneResumes
<1>3. \A m \in DOMAIN lanes' : Placed(lanes'[m], ops)
    BY <1>1 DEF TypeOK
<1>4. \A m \in DOMAIN lanes' : Placed(lanes'[m], ops')
    BY <1>1, <1>3, PlacedStays
<1>5. answers' \subseteq [host : Host, preview : BOOLEAN, result : Answered]
    <2>1. lanes[l].at = "asking"
        BY DEF LaneResumes
    <2>2. /\ ops[lanes[l].panel].hosts[lanes[l].row] \in Host
          /\ ops[l[1]].preview \in BOOLEAN
        BY <2>1, AskingLane
    <2>3. answers' = answers \cup
             {[host |-> ops[lanes[l].panel].hosts[lanes[l].row],
               preview |-> ops[l[1]].preview, result |-> result]}
        BY DEF LaneResumes
    <2>4. QED
        BY <2>2, <2>3 DEF TypeOK
<1>6. QED
    BY <1>1, <1>2, <1>4, <1>5 DEF TypeOK

-----------------------------------------------------------------------------
(* An apply that is left alone *)

\* The first call's lanes have each taken a row of their own.
LEMMA ApplyAlone ==
    ASSUME TypeOK, NEW hosts \in HostLists, NEW preview \in BOOLEAN, ApplyMany(hosts, preview)
    PROVE  Alone' /\ AskedOnce'
<1> DEFINE op == Len(ops) + 1
<1>1. /\ Len(ops') = op /\ op \in Nat /\ DOMAIN ops = 1..Len(ops)
      /\ \A l \in DOMAIN lanes' : l \notin DOMAIN lanes =>
           \E k \in 1..APPLY_LANES :
             /\ l = <<op, k>> /\ k \in DOMAIN ops'[op].rows /\ k <= ops'[op].next
             /\ lanes'[l] = [at |-> "asking", panel |-> op, row |-> k]
      /\ \A i \in DOMAIN ops'[op].rows :
           ops'[op].rows[i] = IF i <= ops'[op].next THEN "running" ELSE "waiting"
      /\ Shape(ops') /\ DOMAIN ops' = 1..op
    BY ApplyAdds
<1>2. SUFFICES ASSUME Len(ops') = 1 PROVE Alone' /\ AskedOnce'
    BY DEF Alone, AskedOnce
<1>3. op = 1 /\ DOMAIN lanes = {}
    <2>1. Len(ops) \in Nat
        BY CallOf DEF TypeOK
    <2>2. op = 1
        BY <1>1, <1>2
    <2>3. Len(ops) = 0
        BY <2>1, <2>2
    <2>4. DOMAIN ops = {}
        BY <1>1, <2>3
    <2>5. QED
        BY <2>2, <2>4 DEF TypeOK
<1>4. \A l \in DOMAIN lanes' : \E k \in 1..APPLY_LANES :
            /\ l = <<1, k>> /\ k <= ops'[1].next
            /\ lanes'[l] = [at |-> "asking", panel |-> 1, row |-> k]
    BY <1>1, <1>3
<1>5. Alone'
    <2> SUFFICES ASSUME NEW l \in DOMAIN lanes'
                 PROVE  lanes'[l].panel = 1 /\ lanes'[l].row <= ops'[1].next
        BY DEF Alone
    <2>1. QED
        BY <1>4
<1>6. ops'[1].next \in Nat /\ \A i \in DOMAIN ops'[1].rows :
        i \in Nat /\ (ops'[1].rows[i] = "waiting" <=> i > ops'[1].next)
    <2>1. ops'[1] \in Call
        BY <1>1, <1>3, CallOf
    <2>2. ops'[1].next \in Nat /\ DOMAIN ops'[1].rows = 1..Len(ops'[1].rows)
          /\ Len(ops'[1].rows) \in Nat
        BY <2>1, CallIs
    <2>3. \A i \in DOMAIN ops'[1].rows : i \in Nat
        BY <2>2
    <2>4. \A i \in DOMAIN ops'[1].rows :
            ops'[1].rows[i] = IF i <= ops'[1].next THEN "running" ELSE "waiting"
        BY <1>1, <1>3
    <2>5. QED
        BY <2>2, <2>3, <2>4
<1>7. \A l, m \in DOMAIN lanes' : l # m => lanes'[l].row # lanes'[m].row
    <2> SUFFICES ASSUME NEW l \in DOMAIN lanes', NEW m \in DOMAIN lanes',
                        lanes'[l].row = lanes'[m].row
                 PROVE  l = m
        OBVIOUS
    <2>1. PICK j \in 1..APPLY_LANES : l = <<1, j>> /\ lanes'[l].row = j
        BY <1>4
    <2>2. PICK k \in 1..APPLY_LANES : m = <<1, k>> /\ lanes'[m].row = k
        BY <1>4
    <2>3. QED
        BY <2>1, <2>2
<1>8. QED
    BY <1>5, <1>6, <1>7 DEF AskedOnce

\* A lane takes the row after those that were taken, or none.
LEMMA LaneAlone ==
    ASSUME ApplyInv, NEW l \in DOMAIN lanes, NEW result \in Answered, LaneResumes(l, result)
    PROVE  Alone' /\ AskedOnce'
<1>1. TypeOK /\ lanes[l].at = "asking"
    BY DEF ApplyInv, LaneResumes
<1>2. /\ Shape(ops') /\ Len(ops') = Len(ops) /\ DOMAIN ops' = DOMAIN ops
      /\ \A o \in DOMAIN ops : DOMAIN ops'[o].rows = DOMAIN ops[o].rows
      /\ DOMAIN lanes' = DOMAIN lanes
      /\ \A m \in DOMAIN lanes : m # l => lanes'[m] = lanes[m]
    BY <1>1, LaneMoves
<1>3. SUFFICES ASSUME Len(ops) = 1 PROVE Alone' /\ AskedOnce'
    BY <1>2 DEF Alone, AskedOnce
<1> DEFINE n == ops[1].next
           r == lanes[l].row
<1>4. /\ \A m \in DOMAIN lanes : lanes[m].at = "asking" =>
           lanes[m].panel = 1 /\ lanes[m].row <= n /\ lanes[m].row \in Nat
      /\ \A m, k \in DOMAIN lanes :
           lanes[m].at = "asking" /\ lanes[k].at = "asking" /\ m # k =>
             lanes[m].row # lanes[k].row
      /\ \A i \in DOMAIN ops[1].rows : ops[1].rows[i] = "waiting" <=> i > n
    BY <1>1, <1>3, AskingLane DEF ApplyInv, Alone, AskedOnce
<1>5. DOMAIN ops = {1} /\ l[1] = 1 /\ n \in Nat
    BY <1>1, <1>3, CallOf, AskingLane DEF TypeOK
<1>6. panel # 0 => panel = 1
    BY <1>1, <1>3 DEF TypeOK
<1>7. DOMAIN ops[1].rows = 1..Len(ops[1].rows) /\ Len(ops[1].rows) \in Nat
    <2>1. ops[1] \in Call
        BY <1>1, <1>5, CallOf DEF TypeOK
    <2>2. QED
        BY <2>1, CallIs
<1>8. r \in DOMAIN ops[1].rows /\ r <= n /\ r \in Nat /\ lanes[l].panel = 1
    BY <1>1, <1>4, AskingLane
<1>9. PICK mine :
        /\ mine = WithRow(ops, lanes[l].panel, lanes[l].row, result)
        /\ \/ /\ panel # 0 /\ ops[l[1]].next < Len(ops[panel].rows)
              /\ \E two : /\ two = WithNext(mine, l[1], ops[l[1]].next + 1)
                          /\ ops' = WithRow(two, panel, ops[l[1]].next + 1, "running")
              /\ lanes' = [lanes EXCEPT ![l] = [at |-> "asking", panel |-> panel,
                                               row |-> ops[l[1]].next + 1]]
           \/ /\ panel # 0
              /\ ops' = mine \/ ops' = WithEnd(mine, panel)
              /\ lanes' = [lanes EXCEPT ![l] = [at |-> "over"]]
           \/ /\ ops' = mine
              /\ lanes' = [lanes EXCEPT ![l] = [at |-> "rejected"]]
    BY <1>1, LaneGoes
<1>10. /\ Shape(mine) /\ 1 \in DOMAIN mine /\ mine[1].next = n
       /\ DOMAIN mine[1].rows = DOMAIN ops[1].rows
       /\ \A j \in DOMAIN ops[1].rows :
            mine[1].rows[j] = IF j = r THEN result ELSE ops[1].rows[j]
    BY <1>1, <1>5, <1>8, <1>9, LaneAnswers
<1>11. result # "waiting"
    BY DEF Answered
<1>12. CASE /\ panel # 0 /\ ops[l[1]].next < Len(ops[panel].rows)
            /\ \E two : /\ two = WithNext(mine, l[1], ops[l[1]].next + 1)
                        /\ ops' = WithRow(two, panel, ops[l[1]].next + 1, "running")
            /\ lanes' = [lanes EXCEPT ![l] = [at |-> "asking", panel |-> panel,
                                             row |-> ops[l[1]].next + 1]]
    <2> DEFINE k == n + 1
    <2>1. panel = 1 /\ k \in Nat /\ k \in DOMAIN ops[1].rows
        BY <1>5, <1>6, <1>7, <1>12
    <2>2. PICK two : two = WithNext(mine, 1, k) /\ ops' = WithRow(two, 1, k, "running")
        BY <1>5, <1>12, <2>1
    <2>3. lanes'[l] = [at |-> "asking", panel |-> 1, row |-> k]
        BY <1>5, <1>12, <2>1
    <2>4. k > n /\ \A i \in Nat : i > k <=> i > n /\ i # k
        BY <1>5
    <2> HIDE DEF k
    <2>5. /\ Shape(two) /\ DOMAIN two = DOMAIN mine
          /\ two[1].rows = mine[1].rows /\ two[1].next = k
        BY <1>10, <2>1, <2>2, SetNext
    <2>6. 1 \in DOMAIN two /\ k \in DOMAIN two[1].rows /\ "running" \in RowState
        BY <1>10, <2>1, <2>5 DEF RowState
    <2>7. /\ ops'[1].next = two[1].next
          /\ \A j \in DOMAIN two[1].rows :
               ops'[1].rows[j] = IF j = k THEN "running" ELSE two[1].rows[j]
        BY <2>2, <2>5, <2>6, SetRow
    <2>8. /\ ops'[1].next = k
          /\ \A j \in DOMAIN ops[1].rows :
               ops'[1].rows[j] = IF j = k THEN "running"
                                 ELSE IF j = r THEN result ELSE ops[1].rows[j]
        BY <1>10, <2>5, <2>7
    <2>9. \A i \in DOMAIN ops'[1].rows : ops'[1].rows[i] = "waiting" <=> i > ops'[1].next
        <3> SUFFICES ASSUME NEW i \in DOMAIN ops[1].rows
                     PROVE  ops'[1].rows[i] = "waiting" <=> i > k
            BY <1>2, <1>5, <2>8
        <3>1. i \in Nat
            BY <1>7
        <3>2. CASE i = k
            BY <3>1, <3>2, <2>4, <2>8
        <3>3. CASE i # k /\ i = r
            <4>1. ops'[1].rows[i] # "waiting"
                BY <3>3, <2>8, <1>11
            <4>2. ~(i > n)
                BY <3>3, <1>5, <1>8
            <4>3. QED
                BY <3>1, <4>1, <4>2, <2>4
        <3>4. CASE i # k /\ i # r
            <4>1. ops'[1].rows[i] = ops[1].rows[i]
                BY <3>4, <2>8
            <4>2. ops[1].rows[i] = "waiting" <=> i > n
                BY <1>4
            <4>3. QED
                BY <3>1, <3>4, <4>1, <4>2, <2>4
        <3>5. QED
            BY <3>2, <3>3, <3>4
    <2>10. \A m \in DOMAIN lanes : m # l /\ lanes[m].at = "asking" => lanes[m].row # k
                                    /\ lanes[m].row <= k
        BY <1>4, <1>5, <2>1, <2>4
    <2>11. Alone'
        BY <1>2, <1>4, <2>1, <2>3, <2>8, <2>10 DEF Alone
    <2>12. AskedOnce'
        BY <1>2, <1>4, <2>3, <2>9, <2>10 DEF AskedOnce
    <2>13. QED
        BY <2>11, <2>12
<1>13. CASE /\ ops' = mine \/ (panel # 0 /\ ops' = WithEnd(mine, panel))
            /\ lanes'[l].at \in {"over", "rejected"}
    <2>1. ops'[1].next = mine[1].next /\ ops'[1].rows = mine[1].rows
        <3>1. CASE ops' = mine
            BY <3>1
        <3>2. CASE panel # 0 /\ ops' = WithEnd(mine, panel)
            BY <3>2, <1>6, <1>10, SetRunning
        <3>3. QED
            BY <1>13, <3>1, <3>2
    <2>2. \A i \in DOMAIN ops'[1].rows : ops'[1].rows[i] = "waiting" <=> i > ops'[1].next
        <3> SUFFICES ASSUME NEW i \in DOMAIN ops[1].rows
                     PROVE  mine[1].rows[i] = "waiting" <=> i > n
            BY <1>10, <2>1
        <3>1. CASE i = r
            <4>1. ~(i > n)
                BY <3>1, <1>5, <1>8
            <4>2. mine[1].rows[i] # "waiting"
                BY <3>1, <1>10, <1>11
            <4>3. QED
                BY <4>1, <4>2
        <3>2. CASE i # r
            BY <3>2, <1>4, <1>10
        <3>3. QED
            BY <3>1, <3>2
    <2>3. \A m \in DOMAIN lanes' : lanes'[m].at = "asking" =>
            m # l /\ m \in DOMAIN lanes /\ lanes'[m] = lanes[m]
        BY <1>2, <1>13
    <2>4. Alone'
        BY <2>1, <2>3, <1>4, <1>10 DEF Alone
    <2>5. AskedOnce'
        BY <2>2, <2>3, <1>4 DEF AskedOnce
    <2>6. QED
        BY <2>4, <2>5
<1>14. QED
    BY <1>9, <1>12, <1>13

\* Nothing has been asked at first.
LEMMA ApplyInit == Init => ApplyInv
<1> SUFFICES ASSUME Init PROVE ApplyInv
    OBVIOUS
<1>1. ops \in Seq(Call) /\ Len(ops) = 0 /\ DOMAIN ops = {} /\ DOMAIN lanes = {}
    BY EmptySeq DEF Init
<1>2. TypeOK
    BY <1>1, ApplyAssumption DEF Init, TypeOK, Shape
<1>3. QED
    BY <1>1, <1>2 DEF ApplyInv, Alone, AskedOnce

\* Every step keeps the invariant.
LEMMA ApplyStep == ApplyInv /\ [Next]_vars => ApplyInv'
<1> SUFFICES ASSUME ApplyInv, [Next]_vars PROVE ApplyInv'
    OBVIOUS
<1>1. ASSUME NEW hosts \in HostLists, NEW preview \in BOOLEAN, ApplyMany(hosts, preview)
      PROVE  ApplyInv'
    BY <1>1, ApplyTypes, ApplyAlone DEF ApplyInv
<1>2. ASSUME NEW l \in DOMAIN lanes, NEW result \in Answered, LaneResumes(l, result)
      PROVE  ApplyInv'
    BY <1>2, LaneTypes, LaneAlone DEF ApplyInv
<1>3. CASE Dismiss
    <2>1. panel' \in 0..Len(ops')
        BY <1>3, CallOf DEF ApplyInv, TypeOK, Dismiss
    <2>2. QED
        BY <1>3, <2>1 DEF Dismiss, ApplyInv, TypeOK, Alone, AskedOnce
<1>4. CASE UNCHANGED vars
    BY <1>4 DEF vars, ApplyInv, TypeOK, Alone, AskedOnce
<1>5. QED
    BY <1>1, <1>2, <1>3, <1>4 DEF Next

\* The invariant holds throughout.
LEMMA ApplyInvariant == Spec => []ApplyInv
<1>1. QED
    BY ApplyInit, ApplyStep, PTL DEF Spec

\* Calls, rows and lanes are what they are meant to be: a row for each host, and no
\* lane asking for a row that is not there, whatever panel it finds (applyMany).
THEOREM ApplyTypeCorrect == Spec => []TypeOK
<1>1. ApplyInv => TypeOK
    BY DEF ApplyInv
<1>2. QED
    BY <1>1, ApplyInvariant, PTL

\* However many hosts and lanes there are, an apply that is left alone never asks a
\* host from two lanes, and passes none over (applyMany's cursor).
THEOREM HostsAreAskedOnce == Spec => []AskedOnce
<1>1. ApplyInv => AskedOnce
    BY DEF ApplyInv
<1>2. QED
    BY <1>1, ApplyInvariant, PTL

=============================================================================
