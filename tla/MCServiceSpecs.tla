-------------------------- MODULE MCServiceSpecs --------------------------
(* The forms of every key of ServiceSpecs that TLC goes through.              *)
EXTENDS ServiceSpecs

LOCAL Halves == -1 .. 6
LOCAL Sized == ({"int"} \X (0 .. 40)) \cup ({"text"} \X Halves \X DOMAIN SizeUnits)
LOCAL Lasting == ({"int"} \X (-1 .. 3)) \cup ({"text"} \X Halves \X {"ms", "s", "m", "h"})

LOCAL Part == ({"number"} \X {0, 3}) \cup ({"word"} \X {<<"a", ".", "b">>, <<"A">>})
LOCAL ShortPorts ==
    {"short"} \X (SeqOf(Part, 3) \cup {[i \in 1 .. 4 |-> <<"number", 3>>]}) \X {"tcp", "udp"}
LOCAL LongPorts ==
    {<<"long", m>> : m \in
        {[target |-> t] @@ o : t \in {0, 3},
            o \in {<<>>, [published |-> 0], [published |-> 4], [protocol |-> "udp"],
                   [hostname |-> <<"a">>], [hostname |-> <<"-", "a">>], [publish |-> 4],
                   [published |-> 5, hostname |-> <<>>]}}
        \cup {[published |-> 4]}}

LOCAL ExposeEntry ==
    {<<"number", p>> : p \in 0 .. 2}
    \cup {<<k, p, t>> : k \in {"text", "map"}, p \in {1, 2}, t \in {"tcp", "udp"}}

LOCAL EnvEntry == {<<"K">>} \cup ({"K", "L"} \X {"1", "2"})

LOCAL Words == {<<"CMD">>, <<"CMD-SHELL">>, <<"NONE">>, <<"test">>, <<"/bin/sh">>}

LOCAL Condition == {<<"text", "service_healthy">>} \cup
                   {<<"map", c>> : c \in {"service_started", "service_healthy", "other"}}

LOCAL Doc(rules, sugar, tcp) ==
    {[stack |-> <<"b">>, ingress |-> g, rules |-> r, sugar |-> s, tcp |-> t, ssh |-> h,
      ports |-> <<[target |-> "1", protocol |-> "tcp"], [target |-> "2", protocol |-> "udp"],
                  [target |-> "2", protocol |-> "tcp"]>>] :
        g \in BOOLEAN, r \in rules, s \in sugar, t \in tcp,
        h \in {[enabled |-> TRUE, port |-> 2], [enabled |-> TRUE, port |-> 0]}}
LOCAL Rule == {[host |-> h, path |-> p, service |-> <<"a">>, port |-> <<n>>] :
    h \in {<<"a", ".", "b">>, <<"a", "-", "b">>, <<"A">>},
    p \in {<<"/">>, <<"/", "a">>, <<"/", " ">>}, n \in {"1", "2"}}
LOCAL Sugar == {[host |-> h, service |-> <<"a">>, port |-> <<"1">>] :
    h \in {<<"a", ".", "b">>, <<"a", "-", "b">>}}
LOCAL Tcp == {[name |-> n, entry |-> <<"a">>, service |-> <<"a">>] : n \in {<<"a">>, <<"A">>, <<".">>}}

LOCAL Written(key) ==
    CASE key = "cpus" -> {"int", "float", "text"} \X (-1 .. 2 * MaxCpus + 2)
      [] key \in {"mem_limit", "disk"} -> Sized
      [] key \in {"interval", "timeout", "start_period"} -> Lasting
      [] key = "ports"  -> ShortPorts \cup LongPorts
      [] key = "expose" -> {"list"} \X SeqOf(ExposeEntry, 2)
      [] key = "environment" ->
            ({"list"} \X SeqOf(EnvEntry, 3)) \cup {<<"map", "K" :> "1">>}
      [] key = "command" -> {<<"null">>, <<"list", <<>>>>, <<"list", <<<<"a">>, <<>>>>>>}
            \cup ({"text"} \X SeqOf({"a", " ", "'", "\"", "\\"}, 4))
      [] key = "depends_on" -> {<<"null">>} \cup ({"list"} \X SeqOf({"db", "web"}, 2))
            \cup ({"map"} \X [{"db", "web"} -> Condition])
      [] key = "test" -> {<<"null">>, <<"text", <<"test">>>>} \cup ({"seq"} \X SeqOf(Words, 3))
      [] key = "ssh" -> {<<"null">>} \cup ({"flag"} \X BOOLEAN) \cup
            {<<"map", m>> : m \in {<<>>, [enabled |-> TRUE], [enabled |-> TRUE, port |-> 2]}}
      [] key = "profiles" -> SeqOf({"public", "private", "host", "none", "other"}, 3)
      [] key = "mounts" -> {[volumes |-> v, mounts |-> m] :
            v \in {"d" :> 0, "d" :> 2, ("d" :> 2) @@ ("e" :> 3), "d" :> MaxDisk + 1},
            m \in SeqOf({[name |-> n, path |-> p, size |-> 1] :
                            n \in {"d", "e"}, p \in {<<"/", "a">>, <<"/", "b">>, <<"a">>}}, 2)}
      [] key = "routes" -> Doc(SeqOf(Rule, 2), SeqOf(Sugar, 1), {<<>>})
            \cup Doc(SeqOf(Rule, 1), SeqOf(Sugar, 1), SeqOf(Tcp, 2))
      [] key \in {"stack", "service", "volume"} -> SeqOf({"a", "A", "-", "_", "."}, 4)
      [] key = "scale"   -> 0 .. 2
      [] key = "restart" -> {"no", "always", "on-failure", "unless-stopped", "other"}
      [] key = "mode"    -> {"mediated", "other"}

Forms(key) == Written(key) \cup (IF key \in DOMAIN Defaults THEN {<<"absent">>} ELSE {})

AllKeys == {"cpus", "mem_limit", "disk", "interval", "timeout", "start_period", "ports",
            "expose", "environment", "command", "depends_on", "test", "ssh", "profiles",
            "mounts", "routes", "stack", "service", "volume", "scale", "restart", "mode"}
=============================================================================
