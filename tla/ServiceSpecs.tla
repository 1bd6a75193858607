---------------------------- MODULE ServiceSpecs ----------------------------
(* The way of a service's declaration into its guest, one key at a time:      *)
(* compose's flexible YAML forms are decoded                                  *)
(* (crates/mc2-api/src/stack/decode.rs), validated (validate.rs), completed   *)
(* by the apply handler, and stored as JSON; every pass of the node decodes   *)
(* that JSON again, with the same decoders, before it builds the guest. A     *)
(* stored spec the decoders refuse or read differently would leave its        *)
(* instance unresolved, or recreate it, for ever.                             *)
(*                                                                            *)
(* A form or a value is a tuple that starts with its kind. Numbers with a     *)
(* fraction count halves. Plain strings, lists of them and structures whose   *)
(* decoders are derived (image, labels, secrets, the node's selector) are     *)
(* left out, as are numbers of 2^32 and more.                                 *)
EXTENDS Integers, SpecNames, TLC

CONSTANTS MaxCpus,    \* MAX_CPUS, what the microVM builder takes
          Kilo,       \* stands for 1024
          MaxSizeMib, \* stands for u32::MAX, the builder's sizes in MiB
          SpecKeys,   \* the keys of a document this instance looks at
          SpecForms(_) \* the forms a document may write such a key in

MaxDisk == Kilo * Kilo           \* MAX_DISK_SIZE_MIB: 1 TiB
Bytes   == Kilo * Kilo           \* in a MiB

ASSUME SpecBounds ==
    /\ MaxCpus \in Nat \ {0} /\ Kilo \in Nat \ {0, 1}
    /\ MaxSizeMib \in Nat /\ MaxSizeMib > Kilo * Kilo

VARIABLES specKey, specForm,  \* a key of the document, and how it was written
          specStage,          \* how far it has come
          specValue,          \* what it was decoded to
          specJson,           \* what the instance row holds
          specRead            \* what the node decoded from there

specVars == <<specKey, specForm, specStage, specValue, specJson, specRead>>

CeilDiv(a, b) == (a + b - 1) \div b
AtLeast(n, low) == IF n < low THEN low ELSE n
AtMost(n, high) == IF n > high THEN high ELSE n

-----------------------------------------------------------------------------
\* The decoders. Each returns the set of what a form decodes to: empty if the
\* form is refused.

\* de_cpus: a whole number, however it is written.
DecodeCpus(f) ==
    {n \in 0 .. f[2] : f \in {<<"int", n>>, <<"float", 2 * n>>, <<"text", 2 * n>>}}

\* parse_byte_size_mib's units, as a fraction of a MiB.
SizeUnits == [b |-> <<1, Bytes>>, k |-> <<1, Kilo>>, m |-> <<1, 1>>,
              g |-> <<Kilo, 1>>, t |-> <<Kilo * Kilo, 1>>]

\* de_byte_size_mib: a bare number is bytes; MiB are rounded up.
DecodeSize(f) ==
    IF f[2] < 0 THEN {}
    ELSE IF f[1] = "int" THEN {CeilDiv(f[2], Bytes)}
    ELSE {CeilDiv(f[2] * SizeUnits[f[3]][1], 2 * SizeUnits[f[3]][2])}

\* Durations in halves of a unit, rounded up to seconds.
Seconds(halves, unit) ==
    CASE unit = "ms" -> CeilDiv(halves, 2000)
      [] unit = "s"  -> CeilDiv(halves, 2)
      [] unit = "m"  -> halves * 30
      [] unit = "h"  -> halves * 1800

\* de_interval: at least a second.
DecodeInterval(f) ==
    IF f[1] = "int" THEN {n \in {AtLeast(f[2], 1)} : f[2] >= 0}
    ELSE {AtLeast(Seconds(AtLeast(f[2], 0), f[3]), 1)}

\* de_duration, de_healthcheck_timeout: no deadline means waiting for ever.
DecodeDuration(f) ==
    IF f[1] = "int" THEN {n \in {f[2]} : n >= 0}
    ELSE {Seconds(AtLeast(f[2], 0), f[3])}
DecodeTimeout(f) == DecodeDuration(f) \ {0}

\* de_ports, one entry. A part of the short form is a number or a word; in the
\* long form every key but target may be missing.
DecodeShortPort(parts, protocol) ==
    LET port(published, target, host) ==
            {[published |-> p[2], target |-> t[2], protocol |-> protocol,
              hostname |-> host] :
                p \in {q \in {published} : q[1] = "number"},
                t \in {q \in {target} : q[1] = "number"}}
        auto == <<"number", 0>>
    IN  CASE Len(parts) = 1 -> port(auto, parts[1], <<>>)
          [] Len(parts) = 2 ->
               IF parts[1][1] = "number" THEN port(parts[1], parts[2], <<>>)
               ELSE {p \in port(auto, parts[2], parts[1][2]) : ValidHostname(p.hostname)}
          [] Len(parts) = 3 -> port(parts[2], parts[3], <<>>)
          [] OTHER -> {}

DecodeLongPort(map) ==
    {[published |-> IF "published" \in DOMAIN map THEN map.published ELSE 0,
      target    |-> t,
      protocol  |-> IF "protocol" \in DOMAIN map THEN map.protocol ELSE "tcp",
      hostname  |-> IF "hostname" \in DOMAIN map THEN map.hostname ELSE <<>>] :
        t \in {n \in {map[k] : k \in (DOMAIN map) \cap {"target"}} :
                 /\ DOMAIN map \subseteq {"target", "published", "protocol", "hostname"}
                 /\ "published" \in DOMAIN map => map.published # 0
                 /\ "hostname" \in DOMAIN map =>
                      map.hostname = <<>> \/ ValidHostname(map.hostname)}}

DecodePort(f) == IF f[1] = "short" THEN DecodeShortPort(f[2], f[3])
                 ELSE DecodeLongPort(f[2])

\* de_expose: a number, "port" or "port/protocol", or a map.
DecodeExpose(f) ==
    {[i \in DOMAIN f[2] |-> [port     |-> f[2][i][2],
                             protocol |-> IF Len(f[2][i]) = 3 THEN f[2][i][3] ELSE "tcp"]]}

\* de_env: a map, or a list in which the last of a name counts.
DecodeEnv(f) ==
    IF f[1] = "map" THEN {f[2]}
    ELSE IF \E i \in DOMAIN f[2] : Len(f[2][i]) # 2 THEN {}
    ELSE {FoldLeft(LAMBDA env, kv : (kv[1] :> kv[2]) @@ env, <<>>, f[2])}

\* split_command_string: one character at a time, in a mode. A word may be empty
\* if it was quoted; what a backslash or a quote leaves open ends with the text.
SplitIdle == [out |-> <<>>, word |-> <<>>, open |-> FALSE, mode |-> "plain"]
SplitInto(s, mode) == [s EXCEPT !.mode = mode, !.open = TRUE]
SplitPush(s, c)    == [s EXCEPT !.word = Append(@, c), !.open = TRUE]
SplitEnd(s) == IF s.open THEN [SplitIdle EXCEPT !.out = Append(s.out, s.word)] ELSE s

SplitTake(s, c) ==
    CASE s.mode = "escaped"           -> SplitPush([s EXCEPT !.mode = "plain"], c)
      [] s.mode = "escaped in quotes" -> SplitPush([s EXCEPT !.mode = "double"], c)
      [] s.mode = "single" -> IF c = "'" THEN SplitInto(s, "plain") ELSE SplitPush(s, c)
      [] s.mode = "double" ->
           CASE c = "\"" -> SplitInto(s, "plain")
             [] c = "\\" -> SplitInto(s, "escaped in quotes")
             [] OTHER    -> SplitPush(s, c)
      [] s.mode = "plain" ->
           CASE c = "'"  -> SplitInto(s, "single")
             [] c = "\"" -> SplitInto(s, "double")
             [] c = "\\" -> SplitInto(s, "escaped")
             [] c = " "  -> SplitEnd(s)
             [] OTHER    -> SplitPush(s, c)

SplitCommandString(text) ==
    LET last == FoldLeft(SplitTake, SplitIdle, text)
    IN  SplitEnd(IF last.mode \in {"escaped", "escaped in quotes"}
                 THEN SplitPush(last, "\\") ELSE last).out

\* de_command: an option; a text without a word is none.
DecodeCommand(f) ==
    CASE f[1] = "null" -> {<<>>}
      [] f[1] = "list" -> {<<f[2]>>}
      [] f[1] = "text" -> LET words == SplitCommandString(f[2])
                          IN  {IF words = <<>> THEN <<>> ELSE <<words>>}

\* de_depends_on: a list, or a map to conditions; a bare text instead of a map
\* is read as service_started, whatever it says.
DecodeDependsOn(f) ==
    CASE f[1] = "null" -> {<<>>}
      [] f[1] = "list" -> {[d \in ToSet(f[2]) |-> "service_started"]}
      [] f[1] = "map"  -> {[d \in DOMAIN f[2] |->
                             IF f[2][d][1] = "text" THEN "service_started" ELSE f[2][d][2]]}

\* de_healthcheck_test: an option of an argv. A word is a sequence of texts, so
\* that the words of a script can be joined.
ToShell(script) == <<<<"/bin/sh">>, <<"-c">>, script>>
TestHeads == {<<"CMD">>, <<"CMD-SHELL">>, <<"NONE">>}

DecodeTest(f) ==
    IF f[1] = "null" THEN {<<>>}
    ELSE IF f[1] = "text" THEN {<<ToShell(f[2])>>}
    ELSE LET argv == f[2]
         IN  IF argv = <<>> \/ argv[1] = <<"NONE">> THEN {<<>>}
             ELSE IF argv[1] \notin TestHeads THEN {<<argv>>}
             ELSE IF Len(argv) = 1 THEN {<<>>}
             ELSE IF argv[1] = <<"CMD">> THEN {<<Tail(argv)>>}
             ELSE {<<ToShell(FlattenSeq(Tail(argv)))>>}

\* de_ssh: a flag, or a map whose keys have defaults.
SshDefaults == [enabled |-> FALSE, port |-> 0, keys |-> {}]
WithSshDefaults(map) ==
    [k \in DOMAIN map \cup DOMAIN SshDefaults |->
        IF k \in DOMAIN map THEN map[k] ELSE SshDefaults[k]]

DecodeSsh(f) ==
    CASE f[1] = "null" -> {<<>>}
      [] f[1] = "flag" -> {<<[enabled |-> f[2], port |-> 0, keys |-> {}]>>}
      [] f[1] = "map"  -> {<<WithSshDefaults(f[2])>>}

\* What serde gives a key the document leaves out.
Defaults ==
    [cpus |-> 1, mem_limit |-> 1, disk |-> Kilo, interval |-> 30, timeout |-> 30,
     start_period |-> 0, expose |-> <<>>, environment |-> <<>>, command |-> <<>>,
     depends_on |-> <<>>, test |-> <<>>, ssh |-> <<>>]

Decoded(key, f) ==
    IF key \in DOMAIN Defaults /\ f = <<"absent">> THEN {Defaults[key]}
    ELSE
    CASE key = "cpus"         -> DecodeCpus(f)
      [] key \in {"mem_limit", "disk"} -> DecodeSize(f)
      [] key = "interval"     -> DecodeInterval(f)
      [] key = "timeout"      -> DecodeTimeout(f)
      [] key = "start_period" -> DecodeDuration(f)
      [] key = "ports"        -> DecodePort(f)
      [] key = "expose"       -> DecodeExpose(f)
      [] key = "environment"  -> DecodeEnv(f)
      [] key = "command"      -> DecodeCommand(f)
      [] key = "depends_on"   -> DecodeDependsOn(f)
      [] key = "test"         -> DecodeTest(f)
      [] key = "ssh"          -> DecodeSsh(f)
      [] OTHER                -> {f}

-----------------------------------------------------------------------------
\* The checks of validate_stack on one key.

\* Across the services of a stack too: a splice binds one port per exposed port.
ValidExpose(list) ==
    /\ \A i \in DOMAIN list : list[i].port # 0 /\ list[i].protocol = "tcp"
    /\ \A i, j \in DOMAIN list : i # j => list[i].port # list[j].port

\* validate_profiles: the closed set, "none" alone, no duplicates.
ValidProfiles(list) ==
    /\ ToSet(list) \subseteq {"public", "private", "host", "none"}
    /\ "none" \in ToSet(list) => Len(list) = 1
    /\ IsInjective(list)

\* validate_volumes: sizes (validate_disk_size) and mounts.
ValidSize(mib) == mib \in 1 .. MaxDisk
ValidMounts(doc) ==
    /\ \A v \in DOMAIN doc.volumes : ValidSize(doc.volumes[v])
    /\ \A i \in DOMAIN doc.mounts :
          /\ doc.mounts[i].name \in DOMAIN doc.volumes
          /\ Head(doc.mounts[i].path) = "/"
          /\ \A j \in DOMAIN doc.mounts : i # j => doc.mounts[i].path # doc.mounts[j].path

\* The routes of a document: HTTP rules, TCP routes, and a route for every
\* ports entry with a hostname (routes_from_port_hostnames).
SugarRoute(p) == [host |-> p.host, path |-> <<"/">>, service |-> p.service, port |-> p.port]
RouteIds(doc) ==
    [i \in DOMAIN doc.tcp |-> TcpRouteId(doc.stack, doc.tcp[i])]
    \o [i \in DOMAIN doc.rules |-> IngressRouteId(doc.stack, doc.rules[i])]
    \o [i \in DOMAIN doc.sugar |-> IngressRouteId(doc.stack, SugarRoute(doc.sugar[i]))]

\* insert_route_key: two routes with one key would overwrite each other.
KeysDistinct(ids) ==
    \A i, j \in DOMAIN ids : i # j => RouteKeyOf(ids[i]) # RouteKeyOf(ids[j])

\* validate_ingress, of a document with an ingress block.
ValidIngress(doc) ==
    doc.ingress =>
      /\ doc.rules # <<>> \/ doc.tcp # <<>>
      /\ \A i \in DOMAIN doc.tcp :
            /\ ValidIdent(doc.tcp[i].name) /\ ValidIdent(doc.tcp[i].entry)
            /\ doc.ssh.enabled /\ doc.ssh.port # 0
      /\ \A i \in DOMAIN doc.rules :
            /\ ValidHostname(doc.rules[i].host) /\ ValidPath(doc.rules[i].path)
            /\ LET at == {p \in DOMAIN doc.ports : <<doc.ports[p].target>> = doc.rules[i].port}
               IN  at # {} /\ doc.ports[Min(at)].protocol = "tcp"
      /\ KeysDistinct(RouteIds(doc))

\* validate_stack: what it refuses of a key.
Valid(key, v) ==
    CASE key = "cpus"       -> v \in 1 .. MaxCpus
      [] key = "disk"       -> ValidSize(v)
      [] key = "expose"     -> ValidExpose(v)
      [] key = "depends_on" -> \A d \in DOMAIN v : v[d] \in {"service_started", "service_healthy"}
      [] key = "test"       -> v = <<>> \/ v[1] # <<>>
      [] key = "profiles"   -> ValidProfiles(v)
      [] key = "mounts"     -> ValidMounts(v)
      [] key = "routes"     -> ValidIngress(v)
      [] key \in {"stack", "service"} -> LowerNameAccepted(v)
      [] key = "volume"     -> ValidVolumeName(v) /\ Len(v) <= NameMax
      [] key = "scale"      -> v # 0
      [] key = "restart"    -> v \in {"no", "always", "on-failure", "unless-stopped"}
      [] key = "mode"       -> v = "mediated"
      [] OTHER              -> TRUE

-----------------------------------------------------------------------------
\* mutation: the automatic port is stored as it was declared
ResolvePortKeepsAuto(p) == {p}

\* resolve_replica_ports: an automatic port gets one of the pool's.
ResolvePort(p) ==
    IF p.published # 0 THEN {p} ELSE {[p EXCEPT !.published = n] : n \in {7, 8}}

\* with_volume_sizes: a mount carries the size of its volume.
WithVolumeSizes(doc) ==
    [doc EXCEPT !.mounts = [i \in DOMAIN @ |->
        [@[i] EXCEPT !.size = doc.volumes[doc.mounts[i].name]]]]

\* plan_stack, before it stores a spec.
Completed(key, v) ==
    CASE key = "ports"  -> ResolvePort(v)
      [] key = "mounts" -> {WithVolumeSizes(v)}
      [] OTHER          -> {v}

\* The serializers: sizes as bytes (se_disk_size_mib), everything else in the
\* form a list, a map or a number has; an absent option is null.
Encoded(key, v) ==
    LET option(tag) == IF v = <<>> THEN <<"null">> ELSE <<tag, v[1]>> IN
    CASE key \in {"cpus", "interval", "timeout", "start_period"} -> <<"int", v>>
      [] key \in {"mem_limit", "disk"} -> <<"int", v * Bytes>>
      [] key = "ports"        -> <<"long", v>>
      [] key = "expose"       -> <<"list", [i \in DOMAIN v |-> <<"map", v[i].port, v[i].protocol>>]>>
      [] key = "environment"  -> <<"map", v>>
      [] key \in {"command", "test"} -> option("list")
      [] key = "depends_on"   -> <<"map", [d \in DOMAIN v |-> <<"map", v[d]>>]>>
      [] key = "ssh"          -> option("map")
      [] OTHER                -> v

-----------------------------------------------------------------------------
\* What YAML and compose's syntax leave of a key's form: the kinds it can have
\* and the shape of each. The decoders match on these.
Texts == Seq(STRING)
SpecFormed(key, f) ==
    CASE key = "cpus" -> f \in {"int", "float", "text"} \X Int
      [] key \in {"mem_limit", "disk"} ->
           f \in ({"int"} \X Int) \cup ({"text"} \X Int \X DOMAIN SizeUnits)
      [] key \in {"interval", "timeout", "start_period"} ->
           f \in ({"int"} \X Int) \cup ({"text"} \X Int \X {"ms", "s", "m", "h"})
      [] key = "command" ->
           f \in {<<"null">>} \cup ({"list"} \X Seq(Texts)) \cup ({"text"} \X Texts)
      [] key = "depends_on" -> f[1] \in {"null", "list", "map"}
      [] key = "ssh"        -> f[1] \in {"null", "flag", "map"}
      [] key = "profiles"   -> f \in Texts
      [] key = "mounts"     ->
           /\ DOMAIN f = {"volumes", "mounts"}
           /\ \A i \in DOMAIN f.mounts : DOMAIN f.mounts[i] = {"name", "path", "size"}
      [] key = "routes"     ->
           /\ f.tcp \in Seq(Range(f.tcp)) /\ f.rules \in Seq(Range(f.rules))
           /\ f.sugar \in Seq(Range(f.sugar))
      [] key \in {"stack", "service", "volume"} -> f \in Texts
      [] OTHER -> TRUE

ASSUME FormsAreFormed ==
    \A key \in SpecKeys : \A f \in SpecForms(key) :
        (key \in DOMAIN Defaults /\ f = <<"absent">>) \/ SpecFormed(key, f)

-----------------------------------------------------------------------------
SpecInit ==
    /\ specKey \in SpecKeys
    /\ specForm \in SpecForms(specKey)
    /\ specStage = "yaml"
    /\ specValue = <<>> /\ specJson = <<>> /\ specRead = <<>>

\* parse_stack_yaml decodes, then validates.
DecodeYaml ==
    /\ specStage = "yaml"
    /\ \/ /\ Decoded(specKey, specForm) = {}
          /\ specStage' = "refused" /\ UNCHANGED specValue
       \/ \E v \in Decoded(specKey, specForm) :
             specStage' = "decoded" /\ specValue' = <<v>>
    /\ UNCHANGED <<specKey, specForm, specJson, specRead>>

ValidateStack ==
    /\ specStage = "decoded"
    /\ specStage' = IF Valid(specKey, specValue[1]) THEN "valid" ELSE "refused"
    /\ UNCHANGED <<specKey, specForm, specValue, specJson, specRead>>

\* plan_stack: complete the spec and serialize it into the instance's row.
PlanSpec ==
    /\ specStage = "valid"
    /\ \E v \in Completed(specKey, specValue[1]) :
          specValue' = <<v>> /\ specJson' = <<Encoded(specKey, v)>>
    /\ specStage' = "stored"
    /\ UNCHANGED <<specKey, specForm, specRead>>

\* desired_for_instance: every pass decodes the row.
ReadStored ==
    /\ specStage = "stored"
    /\ \/ /\ Decoded(specKey, specJson[1]) = {}
          /\ specStage' = "unreadable" /\ UNCHANGED specRead
       \/ \E v \in Decoded(specKey, specJson[1]) :
             specStage' = "read" /\ specRead' = <<v>>
    /\ UNCHANGED <<specKey, specForm, specValue, specJson>>

SpecNext == DecodeYaml \/ ValidateStack \/ PlanSpec \/ ReadStored

-----------------------------------------------------------------------------
\* What the runtime makes of a stored spec (create_detached).
CpusGiven(n)    == AtMost(AtLeast(n, 1), MaxCpus)
RootDiskGiven(mib) == AtMost(AtLeast(mib, 1), MaxSizeMib)

\* network_profiles and disable_network.
ProfilesGiven(list) ==
    IF "none" \in ToSet(list) THEN {}
    ELSE IF list = <<>> THEN {"public"}
    ELSE ToSet(list) \cap {"public", "private", "host"}

\* start_command_parts: a guest without a command is kept alive.
CommandGiven(v) == IF v \in {<<>>, <<<<>>>>} THEN <<<<"sleep">>, <<"infinity">>>> ELSE v[1]

SpecSpec == SpecInit /\ [][SpecNext]_specVars

-----------------------------------------------------------------------------
SpecTypeOK ==
    /\ specKey \in SpecKeys
    /\ specStage \in {"yaml", "decoded", "valid", "stored", "read", "refused", "unreadable"}
    /\ Len(specValue) <= 1 /\ Len(specJson) <= 1 /\ Len(specRead) <= 1

At(key, stage) == specKey = key /\ specStage = stage
Value == specValue[1]

\* An argv that starts with one of compose's own words is read as that word the
\* second time: the only form whose stored spec means something else.
HeadTwice == specKey = "test" /\ Value # <<>> /\ Value[1][1] \in TestHeads

StoredSpecReads ==
    /\ specStage # "unreadable"
    /\ specStage = "read" /\ ~HeadTwice => specRead = specValue

\* A command split into words survives being quoted and split again.
QuotedChar(c) == IF c = "'" THEN <<"'", "\"", "'", "\"", "'">> ELSE <<c>>
QuotedWord(word) ==
    <<" ", "'">> \o FlattenSeq([j \in DOMAIN word |-> QuotedChar(word[j])]) \o <<"'">>
Quoted(words) == FlattenSeq([i \in DOMAIN words |-> QuotedWord(words[i])])

GuestGetsTheDeclared ==
    /\ At("cpus", "read") => CpusGiven(specRead[1]) = Value
    /\ At("disk", "read") => RootDiskGiven(specRead[1]) = Value
    /\ At("interval", "read") \/ At("timeout", "read") => specRead[1] >= 1
    /\ specKey \in {"mem_limit", "disk", "start_period"} =>
         (specStage = "read" /\ specForm # <<"absent">> =>
            (specForm[2] > 0 => specRead[1] > 0))
    /\ At("command", "read") /\ Value # <<>> =>
         /\ SplitCommandString(Quoted(Value[1])) = Value[1]
         /\ Value[1] # <<>> => CommandGiven(specRead[1]) = Value[1]
    /\ At("mounts", "read") => \A i \in DOMAIN specRead[1].mounts :
         LET m == specRead[1].mounts[i] IN m.size = Value.volumes[m.name]
    /\ At("profiles", "read") =>
         ProfilesGiven(specRead[1]) = IF Value = <<>> THEN {"public"} ELSE ToSet(Value) \ {"none"}
    /\ specKey = "profiles" /\ specForm # <<>> =>
         ("public" \in ProfilesGiven(specForm) => "public" \in ToSet(specForm))

\* A name that was accepted can be found again in the names joined from it; one
\* that was not has a suggestion that would be.
NamesParseBack ==
    /\ At("stack", "read") => \A v \in {<<"b">>, <<"b", "-", "a">>, <<"b", ".">>} :
         /\ ParseVolumeName(VolumeName(Value, v)) = <<Value, v>>
         /\ ParseVolumeName(SandboxName(Value, <<"b">>, <<"1">>))[1] = Value
    /\ At("service", "read") =>
         ParseVolumeName(SandboxName(<<"b">>, Value, <<"1">>)) = <<<<"b">>, Value \o <<"-", "-", "1">>>>
    /\ At("service", "read") => ParseVolumeName(Value \o <<"-", "-", "1">>) = <<Value, <<"1">>>>
    /\ At("volume", "read") => ParseVolumeName(VolumeName(<<"b">>, Value)) = <<<<"b">>, Value>>
    /\ specKey \in {"stack", "service", "volume"} /\ specStage = "refused" =>
         \A s \in Suggestions(specForm) : LowerNameAccepted(s) /\ ValidVolumeName(s)

\* The routes of an accepted document with an ingress block have a key each.
RoutesKeepApart ==
    At("routes", "valid") /\ Value.ingress =>
        Cardinality({RouteKeyOf(id) : id \in ToSet(RouteIds(Value))}) = Len(RouteIds(Value))

\* What validation accepts is stored in a form the node reads back as it was
\* declared and hands to the guest unchanged: no stored spec is unreadable, none
\* is clamped, no name loses its parts, no profile opens more than was asked for
\* (decode.rs and validate.rs against desired_for_instance and create_detached).
AcceptedReachesGuest ==
    StoredSpecReads /\ GuestGetsTheDeclared /\ NamesParseBack /\ RoutesKeepApart
=============================================================================
