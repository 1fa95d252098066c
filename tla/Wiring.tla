------------------------------- MODULE Wiring -------------------------------
(***************************************************************************)
(* Carrying SLOP's settings into the Controller's .env                     *)
(* (updater/backend/wiring.py): read_env, plan, upsert.  Pure: no state.   *)
(*                                                                         *)
(* A .env is a sequence of lines [key, value, quoted].  Keys are           *)
(* <<service, "token" | "url" | "port">>; any other line, a comment or     *)
(* another setting, has a key of its own.  Values are text without quotes, *)
(* blanks or #, "" for none.  A file that is not there is <<>>.            *)
(***************************************************************************)
EXTENDS Naturals, Sequences, FiniteSets, Lists

CONSTANTS
    AddressOf,    \* port -> http://host.docker.internal:<port>
    DefaultPort   \* service -> _FLASHBACK_PORT, _BASELINE_PORT

Services == {"flashback", "baseline"}

Tok(s) == <<s, "token">>

Url(s) == <<s, "url">>

Port(s) == <<s, "port">>

\* The order in which plan comes to them.
PlanOrder == <<Url("flashback"), Tok("flashback"), Url("baseline"), Tok("baseline")>>

-----------------------------------------------------------------------------
Has(file, k) == \E i \in DOMAIN file : file[i].key = k

LastLine(file, k) ==
    CHOOSE i \in DOMAIN file :
        file[i].key = k /\ \A j \in DOMAIN file : file[j].key = k => j <= i

BugReadEnv(file) ==
    [k \in {file[i].key : i \in DOMAIN file} |->
        file[CHOOSE i \in DOMAIN file : file[i].key = k
               /\ \A j \in DOMAIN file : file[j].key = k => i <= j].value]

\* read_env: the last of duplicates, without its quotes
ReadEnv(file) ==
    [k \in {file[i].key : i \in DOMAIN file} |-> file[LastLine(file, k)].value]

\* env.get(k) or ""
Get(env, k) == IF k \in DOMAIN env THEN env[k] ELSE ""

Or(value, other) == IF value # "" THEN value ELSE other

\* The address that SLOP's .env gives a service.
Want(slop, s) ==
    Or(Get(slop, Url(s)), AddressOf[Or(Get(slop, Port(s)), DefaultPort[s])])

\* An address is corrected when there is none, and Baseline's when it is
\* Flashback's; any other is a choice, and left alone.
WrongUrl(slop, ctl, s) ==
    \/ Get(ctl, Url(s)) = ""
    \/ /\ s = "baseline"
       /\ Get(ctl, Url(s)) = Want(slop, "flashback")
       /\ Want(slop, s) # Get(ctl, Url(s))

WrongTok(slop, ctl, s) == Get(ctl, Tok(s)) # Get(slop, Tok(s))

\* plan: what to set to what.  A service that SLOP has no token for is passed over.
Plan(slop, ctl) ==
    LET known == {s \in Services : Get(slop, Tok(s)) # ""}
    IN  [k \in {Url(s) : s \in {x \in known : WrongUrl(slop, ctl, x)}}
              \cup {Tok(s) : s \in {x \in known : WrongTok(slop, ctl, x)}} |->
           IF k[2] = "url" THEN Want(slop, k[1]) ELSE Get(slop, k)]

\* upsert: the last line of a key is rewritten and earlier ones are dropped; keys
\* without a line are appended; every other line stays where it is.
Upsert(file, changes) ==
    LET Set(k)  == [key |-> k, value |-> changes[k], quoted |-> FALSE]
        stays   == At(file, {i \in DOMAIN file : file[i].key \in DOMAIN changes =>
                                                   i = LastLine(file, file[i].key)})
        missing == At(PlanOrder, {i \in DOMAIN PlanOrder :
                                    PlanOrder[i] \in DOMAIN changes /\ ~Has(file, PlanOrder[i])})
    IN  [i \in DOMAIN stays |->
           IF stays[i].key \in DOMAIN changes THEN Set(stays[i].key) ELSE stays[i]]
        \o [i \in DOMAIN missing |-> Set(missing[i])]

\* What the consumer of a .env, docker compose, makes of it.
ComposeReads(file) == [k \in {file[i].key : i \in DOMAIN file} |-> file[LastLine(file, k)].value]

\* The Controller can reach what SLOP has, and is let in.
Wired(slop, ctl) ==
    \A s \in Services : Get(slop, Tok(s)) # "" =>
        /\ Get(ctl, Tok(s)) = Get(slop, Tok(s))
        /\ ~WrongUrl(slop, ctl, s)

\* The lines of a file that carry none of these keys, in their order.
Others(file, keys) == At(file, {i \in DOMAIN file : file[i].key \notin keys})

\* The repair, run once: it wires, it settles, and what it has no reason to touch
\* stays: the other lines, and an address that was somebody's choice.
Settles(slopFile, ctlFile) ==
    LET slop    == ReadEnv(slopFile)
        changes == Plan(slop, ReadEnv(ctlFile))
        after   == Upsert(ctlFile, changes)
        env     == ReadEnv(after)
    IN  /\ Wired(ComposeReads(slopFile), ComposeReads(after))
        /\ Plan(slop, env) = <<>>
        /\ Others(after, DOMAIN changes) = Others(ctlFile, DOMAIN changes)
        /\ \A k \in DOMAIN changes :
             /\ env[k] = changes[k]
             /\ Cardinality({i \in DOMAIN after : after[i].key = k}) = 1
             /\ k[2] = "url" /\ k[1] = "flashback" => Get(ReadEnv(ctlFile), k) = ""

=============================================================================
