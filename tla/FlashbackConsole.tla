-------------------------- MODULE FlashbackConsole --------------------------
(***************************************************************************)
(* What Flashback's console is told: the hosts, what can be asked of them, *)
(* how one file compares across them and what a restore point holds        *)
(* (flashback/backend/app.py, controller.py, and the reading half of       *)
(* store.py).  Pure.                                                       *)
(*                                                                         *)
(* held     host -> [label, versions, points], the hosts the store knows   *)
(* ctl      the Controller: [wired, result, backup, hosts, posts]: result  *)
(*          of the reading of its list, hosts a function from ids to       *)
(*          [agent, label, env, online, polled], and posts what the        *)
(*          request made for a host comes to, whatever the reading did     *)
(* None     what was not said                                              *)
(***************************************************************************)
EXTENDS Naturals, Sequences, FiniteSets, FiniteSetsExt, Functions, SequencesExt

CONSTANTS
    None,
    MostAsked, \* the ids that one request is cut to ([:500] of api_backup_now_many)
    Invalid,   \* the ids that no host can have
    Order(_),  \* label -> its place, case apart
    Under(_)   \* path -> the roots it is under, itself included

-----------------------------------------------------------------------------
(* controller.py *)

\* list_hosts: only hosts with an agent.  A Controller that cannot be used is one
\* that blocks, not one that is unknown; no Controller at all is no fault.
ListHosts(ctl) ==
    CASE ~ctl.wired ->
           [hosts |-> <<>>, note |-> None, configured |-> None]
      [] ctl.wired /\ ctl.result # "ok" ->
           [hosts |-> <<>>, note |-> ctl.result, configured |-> FALSE]
      [] OTHER ->
           [hosts |-> [id \in {x \in DOMAIN ctl.hosts : ctl.hosts[x].agent} |-> ctl.hosts[id]],
            note |-> None, configured |-> ctl.backup]

\* request_capture, request_restore_point: a request of its own for each host, that
\* may be refused or time out though the list was read, and the reverse
RequestCapture(ctl, id) ==
    CASE ~ctl.wired -> "no Controller"
      [] ctl.wired /\ id \in Invalid -> "invalid"
      [] OTHER -> ctl.posts[id]

-----------------------------------------------------------------------------
(* /api/hosts *)

BackedUp(held, id) == id \in DOMAIN held /\ held[id].versions > 0

BugBlocked(ctl) == ~ctl.wired \/ ctl.backup = FALSE

Blocked(ctl) == ListHosts(ctl).configured = FALSE

\* A host that has captured can; for the others the fleet's word is taken, and
\* nobody's while the fault is upstream.
Capable(held, ctl, id) ==
    LET fleet == ListHosts(ctl).hosts
    IN  CASE BackedUp(held, id) -> TRUE
          [] ~BackedUp(held, id) /\ Blocked(ctl) -> None
          [] OTHER -> id \in DOMAIN fleet /\ fleet[id].polled

HostRows(held, ctl) ==
    LET fleet == ListHosts(ctl).hosts
    IN  [id \in DOMAIN held \cup DOMAIN fleet |->
           [backedUp |-> BackedUp(held, id),
            points   |-> IF id \in DOMAIN held THEN held[id].points ELSE 0,
            env      |-> IF id \in DOMAIN fleet THEN fleet[id].env ELSE None,
            online   |-> IF id \in DOMAIN fleet THEN fleet[id].online ELSE None,
            capable  |-> Capable(held, ctl, id)]]

CanRequest(ctl) == ctl.wired /\ ~Blocked(ctl)

-----------------------------------------------------------------------------
(* /api/backup-now *)

\* Those named, or all: the Controller's, or when it names none the store's.
Everyone(held, ctl, ids) ==
    IF ids # {} THEN ids
    ELSE IF DOMAIN ListHosts(ctl).hosts # {} THEN DOMAIN ListHosts(ctl).hosts
    ELSE DOMAIN held

\* Whom it may come to: the list is cut, wherever in it a host stands.
Chosen(held, ctl, ids) ==
    {chosen \in SUBSET Everyone(held, ctl, ids) :
        \/ chosen = Everyone(held, ctl, ids) /\ Cardinality(chosen) <= MostAsked
        \/ Cardinality(chosen) = MostAsked}

\* Every one of them is tried.  When none could be asked the request itself fails: by
\* the caller's fault when no id was one, else by the Controller's.
Answer(ctl, chosen, writer) ==
    LET ok     == {id \in chosen : RequestCapture(ctl, id) = "ok"}
        status == CASE ~writer -> 403
                    [] writer /\ chosen = {} -> 409
                    [] writer /\ chosen # {} /\ ok = {} ->
                         IF \A id \in chosen : RequestCapture(ctl, id) = "invalid"
                         THEN 400 ELSE 502
                    [] OTHER -> 200
    IN  [status |-> status, requested |-> IF writer THEN ok ELSE {},
         failed |-> IF writer THEN chosen \ ok ELSE {}]

BackupNow(held, ctl, ids, writer) ==
    {Answer(ctl, chosen, writer) : chosen \in Chosen(held, ctl, ids)}

-----------------------------------------------------------------------------
(* The column of hosts on the page (ui.py).  A page is [writer, filter, folded,  *)
(* picked]; a filter is what it matches, hosts and environments, or None.        *)

EnvName(row) == IF row.env = None THEN "Unassigned" ELSE row.env

\* The status line of a row
RowSays(row) ==
    CASE row.backedUp \/ row.points > 0 -> "what it has"
      [] ~row.backedUp /\ row.points = 0 /\ row.capable = FALSE -> "update the agent"
      [] OTHER -> IF row.capable = None THEN "nothing yet" ELSE "next check-in"

\* matchesFilter: of no environment, a row matches by its host alone
Matching(rows, filter) ==
    IF filter = None THEN DOMAIN rows
    ELSE {id \in DOMAIN rows : id \in filter.hosts \/ rows[id].env \in filter.envs}

\* A filter opens the environments that are folded.
Shown(rows, page) ==
    {id \in Matching(rows, page.filter) :
        page.filter = None => EnvName(rows[id]) \notin page.folded}

\* The hosts that an environment's box stands for
EnvHosts(rows, page, env) ==
    {id \in Matching(rows, page.filter) : EnvName(rows[id]) = env}

BoxOf(rows, page, env) ==
    LET ids == EnvHosts(rows, page, env)
    IN  IF ids \cap page.picked = {} THEN "none"
        ELSE IF ids \subseteq page.picked THEN "all" ELSE "some"

ClickBox(rows, page, env) ==
    LET ids == EnvHosts(rows, page, env)
    IN  IF BoxOf(rows, page, env) = "all" THEN page.picked \ ids ELSE page.picked \cup ids

\* loadHosts: of a selection, what is still listed
Reselected(rows, picked) == picked \cap DOMAIN rows

\* "Back up all" and "Back up selected" are there
FleetButtons(ctl, page) == page.writer /\ ~Blocked(ctl)

CanPick(ctl, page) == page.writer /\ CanRequest(ctl)

\* Hosts whose own "Back up now" can be pressed
NowButtons(rows, ctl, page) ==
    {id \in Shown(rows, page) : page.writer /\ CanRequest(ctl) /\ rows[id].capable # FALSE}

\* Whom "Back up selected" may come to; the service takes no names for all of them.
Sent(held, ctl, picked) == IF picked = {} THEN {{}} ELSE Chosen(held, ctl, picked)

-----------------------------------------------------------------------------
(* compare_path: newest, one path's newest content per host that has it *)

Agreeing(newest, sha) == Cardinality({h \in DOMAIN newest : newest[h] = sha})

Label(held, h) == IF held[h].label # None THEN held[h].label ELSE h

\* The host asked for if it has the file, else one of the majority, ties by label.
Base(held, newest, asked) ==
    IF asked \in DOMAIN newest THEN asked
    ELSE LET top == Max({Agreeing(newest, newest[h]) : h \in DOMAIN newest})
             all == {h \in DOMAIN newest : Agreeing(newest, newest[h]) = top}
         IN  CHOOSE h \in all : \A g \in all : Order(Label(held, h)) <= Order(Label(held, g))

\* With the hosts of the fleet that the store has not heard of (api_compare).
Compare(held, ctl, newest, asked) ==
    LET fleet   == DOMAIN ListHosts(ctl).hosts
        missing == (DOMAIN held \cup fleet) \ DOMAIN newest
    IN  IF DOMAIN newest = {}
        THEN [base |-> None, same |-> {}, differ |-> {}, distinct |-> 0, missing |-> fleet]
        ELSE LET base == Base(held, newest, asked)
                 rest == DOMAIN newest \ {base}
             IN  [base     |-> base,
                  same     |-> {h \in rest : newest[h] = newest[base]},
                  differ   |-> {h \in rest : newest[h] # newest[base]},
                  distinct |-> Cardinality(Range(newest)),
                  missing  |-> missing]

-----------------------------------------------------------------------------
(* restore_point_roots and the pages of a manifest *)

\* The longest root that an entry is under; none is "elsewhere".
RootOf(path, roots) ==
    LET hits == {r \in roots : r.path \in Under(path)}
    IN  IF hits = {} THEN "elsewhere"
        ELSE (CHOOSE r \in hits : \A s \in hits : s.length <= r.length).path

\* entries: path -> [kind, size].  What is counted for each root; a root that the
\* point names twice is drawn twice, with the same counts.
RootSummary(entries, roots) ==
    [r \in {RootOf(p, roots) : p \in DOMAIN entries} |->
       LET mine == {p \in DOMAIN entries : RootOf(p, roots) = r}
       IN  [files |-> Cardinality({p \in mine : entries[p].kind \notin {"d", "l"}}),
            dirs  |-> Cardinality({p \in mine : entries[p].kind = "d"}),
            links |-> Cardinality({p \in mine : entries[p].kind = "l"}),
            bytes |-> SumFunctionOnSet([p \in DOMAIN entries |-> entries[p].size],
                                       {p \in mine : entries[p].kind \notin {"d", "l"}})]]

\* restore_point_entries: LIMIT and OFFSET of the paths in order; no limit, all.
Page(paths, limit, offset) ==
    IF limit = 0 THEN paths
    ELSE SubSeq(paths, offset + 1,
                IF offset + limit < Len(paths) THEN offset + limit ELSE Len(paths))

-----------------------------------------------------------------------------
\* The base is the host asked for, if it can be, and otherwise one from which fewest
\* differ; every host the console knows is in exactly one of the four places.
ComparesFairly(held, ctl, newest, asked) ==
    LET it == Compare(held, ctl, newest, asked)
        differing(h) == Cardinality({g \in DOMAIN newest : newest[g] # newest[h]})
    IN  DOMAIN newest # {} =>
          /\ asked \in DOMAIN newest => it.base = asked
          /\ asked \notin DOMAIN newest =>
               \A h \in DOMAIN newest : differing(it.base) <= differing(h)
          /\ {it.base} \cup it.same \cup it.differ = DOMAIN newest
          /\ Cardinality(it.same) + Cardinality(it.differ) + 1 = Cardinality(DOMAIN newest)
          /\ it.missing = (DOMAIN HostRows(held, ctl)) \ DOMAIN newest
          /\ it.differ = {} <=> it.distinct = 1

\* A part of some ids, of which it leaves out none unless it is full
FullPart(part, ids) ==
    part \subseteq ids /\ (part = ids \/ Cardinality(part) = MostAsked)

\* Success means that some host was asked, and who was and who could not be is told
\* host by host, of all up to the MostAsked that one request takes; a request is
\* called the caller's fault only when no id in it was one.  A host that has a history
\* is not called incapable, nor any while the fault is the Controller's, and then
\* nothing is offered.
PromisesNothing(held, ctl, ids, writer) ==
    LET rows == HostRows(held, ctl)
    IN  /\ \A reply \in BackupNow(held, ctl, ids, writer) :
             /\ reply.status = 200 <=> reply.requested # {}
             /\ reply.status = 400 => reply.failed # {} /\ reply.failed \subseteq Invalid
             /\ reply.requested # {} => writer /\ ctl.wired
             /\ \A id \in reply.requested : id \notin Invalid /\ ctl.posts[id] = "ok"
             /\ \A id \in reply.failed :
                  ctl.wired /\ id \notin Invalid => ctl.posts[id] # "ok"
             /\ writer => FullPart(reply.requested \cup reply.failed, Everyone(held, ctl, ids))
        /\ \A id \in DOMAIN rows :
             /\ rows[id].backedUp => rows[id].capable = TRUE
             /\ ~rows[id].backedUp /\ ctl.wired /\ ctl.result # "ok" => rows[id].capable = None
        /\ ctl.wired /\ ctl.result # "ok" => ~CanRequest(ctl)

\* "... so each result is reported" (app.py api_backup_now_many): every host that was named,
\* or the whole fleet, is either asked or named as one that could not be.
EachResultIsReported(held, ctl, ids, writer) ==
    writer => \A reply \in BackupNow(held, ctl, ids, writer) :
                reply.requested \cup reply.failed = Everyone(held, ctl, ids)

\* The column says only what can be held to: a row that is told to wait for its next
\* check-in is of a host of the fleet whose button, where it is shown, can be pressed,
\* none is told to update its agent while the Controller is at fault, and then no
\* button is left.  What an environment's box picks is what it showed, and what was
\* picked is whom a request may come to, all of it up to MostAsked, never the fleet.
PageKeepsItsWord(held, ctl, page) ==
    LET rows == HostRows(held, ctl)
        kept == [page EXCEPT !.picked = Reselected(rows, page.picked)]
    IN  /\ \A id \in DOMAIN rows :
             /\ RowSays(rows[id]) = "next check-in" =>
                  /\ id \in DOMAIN ListHosts(ctl).hosts
                  /\ page.writer /\ id \in Shown(rows, kept) => id \in NowButtons(rows, ctl, kept)
             /\ RowSays(rows[id]) = "update the agent" => ~Blocked(ctl)
        /\ Blocked(ctl) =>
             ~FleetButtons(ctl, kept) /\ ~CanPick(ctl, kept) /\ NowButtons(rows, ctl, kept) = {}
        /\ \A id \in DOMAIN rows \ Shown(rows, kept) :
             \/ kept.filter = None /\ EnvName(rows[id]) \in kept.folded
             \/ kept.filter # None /\ id \notin Matching(rows, kept.filter)
        /\ \A env \in {EnvName(rows[id]) : id \in Matching(rows, kept.filter)} :
             LET picked == ClickBox(rows, kept, env)
                 after  == [kept EXCEPT !.picked = picked]
             IN  /\ BoxOf(rows, after, env) \in {"all", "none"}
                 /\ BoxOf(rows, after, env) # BoxOf(rows, kept, env)
                 /\ picked \ kept.picked \subseteq Matching(rows, kept.filter)
                 /\ picked \subseteq DOMAIN rows
                 /\ \A sent \in Sent(held, ctl, picked) : FullPart(sent, picked)

\* A restore point's different roots hold its entries, each once, and so do its pages.
RootsAndPagesCover(entries, roots, paths, size) ==
    LET total == RootSummary(entries, roots)
        pages[n \in 0..Len(paths)] ==
          IF n = 0 THEN <<>> ELSE pages[n - 1] \o Page(paths, size, (n - 1) * size)
    IN  /\ SumFunction([r \in DOMAIN total |-> total[r].files + total[r].dirs + total[r].links])
             = Cardinality(DOMAIN entries)
        /\ pages[Len(paths)] = paths

=============================================================================
