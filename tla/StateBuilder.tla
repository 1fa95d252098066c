---------------------------- MODULE StateBuilder ----------------------------
(***************************************************************************)
(* From a list of items to Salt SLS (baseline/backend/build.py).  Pure.    *)
(*                                                                         *)
(* Every value is a sequence of words: <<>> is an empty box, an unticked   *)
(* one or an empty list; a text or a body is one word; a list of lines has *)
(* any number; a ticked box is Ticked.  Blank is a word of blanks only and *)
(* Broken one with a line break in it.  An item is a function from its     *)
(* field keys, and "kind", to values.  A document is a sequence of blocks  *)
(* [id, fn, args, short], fn = <<module, function>>, args a function from  *)
(* argument names to values; "short" is Salt's other way of writing one.   *)
(***************************************************************************)
EXTENDS Naturals, Sequences, FiniteSets, SequencesExt, Lists

CONSTANTS
    Blank,     \* a word that .strip() leaves nothing of
    Broken,    \* a word with a line break in it
    Slug,      \* word -> the parts that _SLUG and the cut at 60 characters leave of it
    Numeral(_) \* a number as a word

Ticked == <<"true">>

Field(key, type, required) == [key |-> key, type |-> type, required |-> required]

Required(key) == Field(key, "text", TRUE)

Text(key) == Field(key, "text", FALSE)

Owner == <<Text("user"), Text("group"), Text("mode")>>

Fields == [
    package        |-> <<Field("names", "lines", TRUE), Text("version")>>,
    package_absent |-> <<Field("names", "lines", TRUE)>>,
    service        |-> <<Required("name"), Field("enable", "bool", FALSE)>>,
    service_off    |-> <<Required("name")>>,
    file           |-> <<Required("path"), Field("contents", "body", TRUE)>> \o Owner,
    dir            |-> <<Required("path")>> \o Owner,
    line           |-> <<Required("path"), Required("line"), Text("after")>>,
    user           |-> <<Required("name"), Text("fullname"), Field("groups", "lines", FALSE),
                         Text("shell"), Text("home"), Field("system", "bool", FALSE)>>,
    group          |-> <<Required("name")>>,
    sysctl         |-> <<Required("name"), Required("value")>>,
    cron           |-> <<Required("command"), Text("user"), Text("minute"), Text("hour"),
                         Text("daymonth"), Text("month"), Text("dayweek")>>,
    command        |-> <<Required("command"), Text("unless"), Text("creates")>>]

Kinds == DOMAIN Fields

Keys(kind) == {Fields[kind][i].key : i \in DOMAIN Fields[kind]}

-----------------------------------------------------------------------------
(* normalise and problems *)

Default(kind, key) == IF kind = "service" /\ key = "enable" THEN Ticked ELSE <<>>

Stripped(value) == At(value, {i \in DOMAIN value : value[i] # Blank})

Clean(raw, field) ==
    IF field.key \notin DOMAIN raw THEN Default(raw.kind, field.key)
    ELSE IF field.type \in {"bool", "body"} THEN raw[field.key]
    ELSE Stripped(raw[field.key])

NormaliseOne(raw) ==
    [k \in Keys(raw.kind) \cup {"kind"} |->
       IF k = "kind" THEN raw.kind
       ELSE Clean(raw, CHOOSE f \in Range(Fields[raw.kind]) : f.key = k)]

\* An item of no known kind is dropped, and so is a key its kind does not have.
Normalise(items) ==
    LET known == At(items, {i \in DOMAIN items : items[i].kind \in Kinds})
    IN  [i \in DOMAIN known |-> NormaliseOne(known[i])]

BugWrong(item) ==
    \/ \E f \in Range(Fields[item.kind]) : f.required /\ item[f.key] = <<>>
    \/ \E k \in {"path", "name", "command"} \cap DOMAIN item : item[k] = <<Broken>>

\* What problems finds wrong with one item.
Wrong(item) ==
    \/ \E f \in Range(Fields[item.kind]) : f.required /\ item[f.key] = <<>>
    \/ item.kind = "package" /\ item.version # <<>> /\ Len(item.names) > 1
    \/ \E k \in {"path", "name", "command"} \cap DOMAIN item : item[k] = <<Broken>>

Problems(items) == items = <<>> \/ \E i \in DOMAIN items : Wrong(items[i])

-----------------------------------------------------------------------------
(* The emitters *)

\* {key: it[key]} for those of keys that have something in them
Given(item, keys) == [k \in {x \in keys : item[x] # <<>>} |-> item[k]]

Arg(name, value) == [k \in {name} |-> value]

Named(item, key) == Arg("name", item[key])

OwnerKeys == {"user", "group", "mode"}

EmitPackage(item) ==
    [fn |-> <<"pkg", "installed">>,
     args |-> IF item.version = <<>> THEN Arg("pkgs", item.names)
              ELSE Joined(Arg("name", <<item.names[1]>>), Arg("version", item.version))]

EmitService(item) ==
    [fn |-> <<"service", "running">>,
     args |-> Joined(Named(item, "name"), Arg("enable", item.enable))]

EmitFile(item) ==
    [fn |-> <<"file", "managed">>,
     args |-> Joined(Joined(Named(item, "path"), Arg("contents", item.contents)),
                     Joined(Given(item, OwnerKeys), Arg("makedirs", Ticked)))]

EmitLine(item) ==
    [fn |-> <<"file", "line">>,
     args |-> Joined(Joined(Named(item, "path"), Arg("content", item.line)),
                     Joined(Arg("mode", <<"ensure">>),
                            IF item.after # <<>> THEN Arg("after", item.after)
                            ELSE Arg("location", <<"end">>)))]

EmitUser(item) ==
    [fn |-> <<"user", "present">>,
     args |-> Joined(Named(item, "name"),
                     Given(item, {"groups", "shell", "home", "fullname", "system"}))]

EmitCron(item) ==
    [fn |-> <<"cron", "present">>,
     args |-> Joined(Joined(Named(item, "command"),
                            Arg("user", IF item.user = <<>> THEN <<"root">> ELSE item.user)),
                     Given(item, {"minute", "hour", "daymonth", "month", "dayweek"}))]

Emit(item) ==
    CASE item.kind = "package" -> EmitPackage(item)
      [] item.kind = "package_absent" ->
            [fn |-> <<"pkg", "removed">>, args |-> Arg("pkgs", item.names)]
      [] item.kind = "service" -> EmitService(item)
      [] item.kind = "service_off" ->
            [fn |-> <<"service", "dead">>, args |-> Joined(Named(item, "name"), Arg("enable", <<>>))]
      [] item.kind = "file" -> EmitFile(item)
      [] item.kind = "dir" ->
            [fn |-> <<"file", "directory">>,
             args |-> Joined(Joined(Named(item, "path"), Given(item, OwnerKeys)),
                             Arg("makedirs", Ticked))]
      [] item.kind = "line" -> EmitLine(item)
      [] item.kind = "user" -> EmitUser(item)
      [] item.kind = "group" ->
            [fn |-> <<"group", "present">>, args |-> Named(item, "name")]
      [] item.kind = "sysctl" ->
            [fn |-> <<"sysctl", "present">>,
             args |-> Joined(Named(item, "name"), Arg("value", item.value))]
      [] item.kind = "cron" -> EmitCron(item)
      [] item.kind = "command" ->
            [fn |-> <<"cmd", "run">>,
             args |-> Joined(Named(item, "command"), Given(item, {"unless", "creates"}))]

\* What the emitter offers as a name: the field a kind asks for first.
Hint(item) ==
    LET first == item[Fields[item.kind][1].key][1]
    IN  IF item.kind = "line" THEN Slug[first] \o <<"line">> ELSE Slug[first]

-----------------------------------------------------------------------------
(* to_sls *)

\* base, then base_2, base_3, ... until one is free
StateId(base, used) ==
    LET numbered(n) == base \o <<Numeral(n)>>
    IN  IF base \notin used THEN base
        ELSE numbered(CHOOSE n \in 2..Cardinality(used) + 2 :
                        /\ numbered(n) \notin used
                        /\ \A m \in 2..(n - 1) : numbered(m) \in used)

\* The ids are made by the first n items, in order.
Ids(items) ==
    LET ids[n \in 0..Len(items)] ==
          IF n = 0 THEN <<>>
          ELSE Append(ids[n - 1],
                      StateId(Slug[items[n].kind] \o Hint(items[n]), Range(ids[n - 1])))
    IN  ids[Len(items)]

ToSls(items) ==
    [n \in DOMAIN items |->
       [id |-> Ids(items)[n], fn |-> Emit(items[n]).fn, args |-> Emit(items[n]).args,
        short |-> FALSE]]

-----------------------------------------------------------------------------
(* summarise *)

Every == "*"

\* The first line that fits names the thing.
Nouns == <<
    <<"pkg", "installed", "package">>, <<"pkg", "latest", "package">>,
    <<"pkg", "removed", "package removed">>, <<"pkg", "purged", "package removed">>,
    <<"service", "running", "service">>, <<"service", "enabled", "service">>,
    <<"service", "dead", "service stopped">>, <<"service", "disabled", "service stopped">>,
    <<"file", "directory", "directory">>,
    <<"file", "line", "file edit">>, <<"file", "append", "file edit">>,
    <<"file", "replace", "file edit">>, <<"file", "absent", "file removed">>,
    <<"file", "symlink", "symlink">>, <<"file", Every, "file">>, <<"user", Every, "user">>,
    <<"group", Every, "group">>, <<"sysctl", Every, "kernel parameter">>,
    <<"cron", Every, "scheduled command">>, <<"cmd", Every, "command">>,
    <<"host", Every, "hosts entry">>, <<"mount", Every, "mount">>,
    <<"archive", Every, "archive">>, <<"git", Every, "git checkout">>>>

Noun(fn) ==
    LET fits == {i \in DOMAIN Nouns : Nouns[i][1] = fn[1] /\ Nouns[i][2] \in {fn[2], Every}}
    IN  IF fits = {} THEN fn[1]
        ELSE Nouns[CHOOSE i \in fits : \A j \in fits : i <= j][3]

\* A block in Salt's other shape is looked up under a name it does not have.
Count(block) ==
    IF block.fn[1] = "pkg" /\ ~block.short /\ "pkgs" \in DOMAIN block.args
         /\ block.args.pkgs # <<>>
    THEN Len(block.args.pkgs)
    ELSE 1

\* noun -> how many
Tally(doc) ==
    [noun \in {Noun(doc[i].fn) : i \in DOMAIN doc} |->
       SumFunctionOnSet([i \in DOMAIN doc |-> Count(doc[i])],
                        {i \in DOMAIN doc : Noun(doc[i].fn) = noun})]

ItemCount(doc) == SumFunction(Tally(doc))

-----------------------------------------------------------------------------
(* templates *)

Item(kind, given) == Joined([kind |-> kind], given)

Line(path, text) == Item("line", [path |-> <<path>>, line |-> <<text>>])

Service(name) == Item("service", [name |-> <<name>>, enable |-> Ticked])

Templates == {
    <<Item("package", [names |-> <<"nginx">>]),
      Item("dir", [path |-> <<"/srv/www">>, mode |-> <<"0755">>]), Service("nginx")>>,
    <<Line("/etc/ssh/sshd_config", "PermitRootLogin no"),
      Line("/etc/ssh/sshd_config", "PasswordAuthentication no"), Service("ssh")>>,
    <<Item("package", [names |-> <<"curl", "git", "htop", "rsync", "vim", "ca-certificates">>])>>,
    <<Item("package", [names |-> <<"systemd-timesyncd">>]), Service("systemd-timesyncd")>>,
    <<Item("group", [name |-> <<"deploy">>]),
      Item("user", [name |-> <<"deploy">>, fullname |-> <<"Deployment account">>,
                    groups |-> <<"sudo", "deploy">>, shell |-> <<"/bin/bash">>,
                    home |-> <<"/home/deploy">>])>>,
    <<Item("file", [path |-> <<"/etc/motd">>, mode |-> <<"0644">>,
                    contents |-> <<"Managed by Sysible Baseline">>])>>}

-----------------------------------------------------------------------------
Declares(item) ==
    IF item.kind \in {"package", "package_absent"} THEN Len(item.names) ELSE 1

\* A list of items that the form accepts becomes a document with one block for each,
\* in their order and under names of their own; everything that was filled in is in
\* it, an unticked box stays unticked, and the list of states counts what it declares.
\* To read the items a second time changes nothing.
ShipsWhatIsAsked(raw) ==
    LET items == Normalise(raw)
        doc   == ToSls(items)
    IN  /\ Normalise(items) = items
        /\ ~Problems(items) =>
             /\ Len(doc) = Len(items)
             /\ \A i, j \in DOMAIN doc : doc[i].id = doc[j].id => i = j
             /\ \A i \in DOMAIN doc : \A k \in Keys(items[i].kind) :
                  /\ items[i][k] # <<>> => items[i][k] \in Range(doc[i].args)
                  /\ k = "enable" => doc[i].args.enable = items[i].enable
             /\ ItemCount(doc) = SumFunction([i \in DOMAIN items |-> Declares(items[i])])

\* Every template can be saved as it is offered.
TemplatesAreSound == \A t \in Templates : ~Problems(Normalise(t))

=============================================================================
