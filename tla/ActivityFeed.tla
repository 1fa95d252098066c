---------------------------- MODULE ActivityFeed ----------------------------
(***************************************************************************)
(* The Visualizer's readings of the applications                           *)
(* (visualizer/backend/sources.py) and the filters of its activity page    *)
(* (srcCounts, render in ui.py).  Pure.                                    *)
(*                                                                         *)
(* A reading is [result, rows]: result is how the request ended, rows what *)
(* the application had to give.  An event is a record with a time, whether *)
(* it is the fleet's own housekeeping and who caused it.                   *)
(***************************************************************************)
EXTENDS Naturals, Sequences, FiniteSets, SequencesExt, Lists

CONSTANTS
    OldCap,       \* the runs an older SLEP gives at most: 100
    MaxLimit,     \* MAX_LIMIT
    None

Apps == {"controller", "slep", "connect", "flashback", "baseline"}

\* How a request can end; "denied" is 401 or 403, "missing" 404.
Results == {"ok", "unreachable", "denied", "missing", "refused", "malformed"}

\* _get: nothing is raised; anything but "ok" is a message and no data.
Get(reading) ==
    IF reading.result = "ok" THEN [rows |-> reading.rows, err |-> None]
    ELSE [rows |-> <<>>, err |-> reading.result]

-----------------------------------------------------------------------------
(* Events *)

Sources == {"user", "api", "automation"}

\* _source_for: the application's own word if it gives one, else by the actor: one
\* of _SERVICE_ACTORS or nobody is automation, anybody else a person
SourceFor(row, given) ==
    CASE given \in Sources -> given
      [] OTHER -> IF row.service THEN "automation" ELSE "user"

\* _ev; row.sweep: its action is one of ROUTINE_ACTIONS
Event(row, given) ==
    [ts |-> row.ts, source |-> SourceFor(row, given),
     routine |-> SourceFor(row, given) = "automation" /\ row.sweep]

\* Of a trail whose rows say who caused them, as the Controller's activity does, or
\* of another.
Events(rows, told) ==
    [i \in DOMAIN rows |-> Event(rows[i], IF told THEN rows[i].source ELSE None)]

Feed(events, errors, notes) == [events |-> events, errors |-> errors, notes |-> notes]

Said(what, err) == IF err = None THEN {} ELSE {<<what, err>>}

-----------------------------------------------------------------------------
(* The adapters *)

\* Two trails; the second is for superusers, so that its failure is a note.
Controller(activity, audit) ==
    Feed(Events(Get(activity).rows, TRUE) \o Events(Get(audit).rows, FALSE),
         Said("activity", Get(activity).err), Said("admin audit-log", Get(audit).err))

\* What SLEP answers of the runs it has: an older one takes no limit and echoes
\* none, a newer one echoes what it served at most.
SlepServes(slep, limit) ==
    CASE slep.age = "old" ->
           [rows |-> SubSeq(slep.rows, 1, IF Len(slep.rows) < OldCap THEN Len(slep.rows)
                                          ELSE OldCap), served |-> None]
      [] OTHER ->
           LET most == IF limit < slep.most THEN limit ELSE slep.most
           IN  [rows |-> SubSeq(slep.rows, 1, IF Len(slep.rows) < most THEN Len(slep.rows)
                                              ELSE most), served |-> most]

BugTruncated(rows, served, limit) ==
    IF served = None THEN Len(rows) >= OldCap /\ limit > OldCap
    ELSE Len(rows) > served /\ limit > served

Truncated(rows, served, limit) ==
    IF served = None THEN Len(rows) >= OldCap /\ limit > OldCap
    ELSE Len(rows) >= served /\ limit > served

Slep(slep, audit, limit) ==
    LET reply == SlepServes(slep, limit)
        runs  == Get([result |-> slep.result, rows |-> reply.rows])
        shown == SubSeq(runs.rows, 1, IF Len(runs.rows) < limit THEN Len(runs.rows) ELSE limit)
    IN  Feed(Events(shown, FALSE) \o Events(Get(audit).rows, FALSE),
             Said("runs", runs.err),
             Said("audit", Get(audit).err)
               \cup IF runs.err = None /\ Truncated(runs.rows, reply.served, limit)
                    THEN {<<"runs", "truncated">>} ELSE {})

\* An older Connect has no trail: a note.
Connect(audit) == Feed(Events(Get(audit).rows, FALSE), {}, Said("audit", Get(audit).err))

Flashback(audit) == Feed(Events(Get(audit).rows, FALSE), Said("audit", Get(audit).err), {})

\* One of Baseline's runs in a word.
BaselineWord(run) ==
    CASE run.preview -> "preview"
      [] ~run.preview /\ (run.error # "none" \/ run.failed > 0) -> "failed"
      [] OTHER -> IF run.changed > 0 THEN "changed" ELSE "ok"

BaselineEvents(runs) ==
    [i \in DOMAIN runs |->
       Joined(Event([ts |-> runs[i].started, service |-> TRUE, sweep |-> FALSE], None),
              [action |-> BaselineWord(runs[i])])]

Baseline(reading) ==
    Feed(BaselineEvents(Get(reading).rows), Said("runs", Get(reading).err), {})

-----------------------------------------------------------------------------
(* fetch *)

Clamped(limit) == IF limit < 1 THEN 1 ELSE IF limit > MaxLimit THEN MaxLimit ELSE limit

\* sorted(reverse=True) keeps the order of equals
Before(events, i, j) ==
    events[i].ts > events[j].ts \/ (events[i].ts = events[j].ts /\ i < j)

Newest(events, limit) ==
    LET place(i) == Cardinality({j \in DOMAIN events : Before(events, j, i)}) + 1
    IN  [n \in 1..(IF Len(events) < limit THEN Len(events) ELSE limit) |->
           events[CHOOSE i \in DOMAIN events : place(i) = n]]

Fetch(feed, limit) == [feed EXCEPT !.events = Newest(feed.events, Clamped(limit))]

-----------------------------------------------------------------------------
(* The page: the text filter, the routine toggle, the chips with their counts,   *)
(* the table                                                                     *)

\* The rows that what was typed is found in, hits by their places; with nothing
\* typed, all of them.
Matched(events, hits) == At(events, hits \cap DOMAIN events)

Kept(matched, showRoutine) ==
    At(matched, {i \in DOMAIN matched : showRoutine \/ ~matched[i].routine})

ChipCount(kept, chip) ==
    IF chip = "all" THEN Len(kept) ELSE Cardinality({i \in DOMAIN kept : kept[i].source = chip})

Table(matched, showRoutine, chip) ==
    LET kept == Kept(matched, showRoutine)
    IN  At(kept, {i \in DOMAIN kept : chip \in {"all", kept[i].source}})

\* The sentence in place of an empty table.
WhyEmpty(feed, hits, showRoutine) ==
    LET matched == Matched(feed.events, hits)
        kept    == Kept(matched, showRoutine)
    IN  CASE matched # <<>> /\ kept = <<>> -> "routine only"
          [] kept # <<>> -> "no such rows"
          [] matched = <<>> /\ kept = <<>> /\ feed.events # <<>> -> "no rows match"
          [] OTHER -> IF feed.errors # {} THEN "could not read" ELSE "no activity yet"

-----------------------------------------------------------------------------
(* topology *)

\* The readings, fetched together; only the list of hosts is no overlay.
Readings(posture) ==
    {"hosts", "health", "agents", "supps"} \cup (IF posture THEN {"posture"} ELSE {})

Topology(readings) ==
    [errors |-> {r \in DOMAIN readings \cap {"hosts"} : readings[r].result # "ok"},
     notes  |-> {r \in DOMAIN readings \ {"hosts"} : readings[r].result # "ok"}]

-----------------------------------------------------------------------------
CountAt(events, ts) == Cardinality({i \in DOMAIN events : events[i].ts = ts})

\* What is shown of a feed is its newest, in order: nothing that is left out is newer
\* than anything that is kept, and nothing is shown twice.
ShowsTheNewest(all, shown, limit) ==
    /\ Len(shown) = IF Len(all) < limit THEN Len(all) ELSE limit
    /\ \A i, j \in DOMAIN shown : i < j => shown[i].ts >= shown[j].ts
    /\ shown # <<>> =>
         /\ \A e \in Range(all) :
              e.ts > Last(shown).ts => CountAt(shown, e.ts) = CountAt(all, e.ts)
         /\ \A e \in Range(shown) : CountAt(shown, e.ts) <= CountAt(all, e.ts)

\* The counts on the chips are of the rows the chips lead to, whatever was typed.
ChipsAddUp(matched, showRoutine) ==
    LET kept == Kept(matched, showRoutine)
    IN  /\ ChipCount(kept, "all") =
             ChipCount(kept, "user") + ChipCount(kept, "api") + ChipCount(kept, "automation")
        /\ \A chip \in Sources \cup {"all"} :
             Len(Table(matched, showRoutine, chip)) = ChipCount(kept, chip)

\* The table of a feed without events says that it could not be read exactly when
\* it could not.
EmptySaysWhy(feed, hits, showRoutine, unread) ==
    feed.events = <<>> =>
        (WhyEmpty(feed, hits, showRoutine) = "could not read" <=> unread)

\* A run that SLEP has and the limit would admit is shown, or its absence is said.
\* (Of the other lists, each cut to the limit, none is known to stop short of it.)
NothingCutInSilence(slep, audit, limit) ==
    LET feed  == Slep(slep, audit, limit)
        runs  == Len(feed.events) - Len(Get(audit).rows)
        asked == IF Len(slep.rows) < limit THEN Len(slep.rows) ELSE limit
    IN  slep.result = "ok" /\ runs < asked => <<"runs", "truncated">> \in feed.notes

\* Every reading that failed is named, as an error or as a note.
FailuresAreNamed(feed, readings) ==
    \A what \in DOMAIN readings :
        readings[what].result # "ok" =>
            <<what, readings[what].result>> \in feed.errors \cup feed.notes

=============================================================================
