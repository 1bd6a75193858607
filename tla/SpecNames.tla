----------------------------- MODULE SpecNames -----------------------------
(* The names of a stack document, character by character, because what        *)
(* matters is where their separators are: the grammar of names and hostnames  *)
(* (crates/mc2-api/src/stack/validate.rs), the runtime names joined from them *)
(* (crates/mc2-runtime/src/naming.rs), and the proxy's router keys            *)
(* (crates/mc2-api/src/stack/mod.rs).                                         *)
(*                                                                            *)
(* A character stands for its class: "a" and "b" for [a-z0-9], "A" for        *)
(* [A-Z], " " for everything no grammar takes (blanks, quotes, ":", "*"). Of  *)
(* the lengths only the maximum of a name is kept.                            *)
EXTENDS Naturals, SequencesExt

CONSTANT NameMax   \* STACK_NAME_MAX and its siblings

ASSUME NameMaxIsPositive == NameMax \in Nat \ {0}

Lower == {"a", "b"}

Pairs(n) == {i \in 1 .. Len(n) - 1 : n[i] = "-" /\ n[i + 1] = "-"}

\* mutation: a name may end with the character of the separator
ValidLowerNameDashAtEnd(n) ==
    /\ n # <<>> /\ Head(n) \in Lower
    /\ ToSet(n) \subseteq Lower \cup {"-", "_"}
    /\ Pairs(n) = {}

\* valid_lower_name: stack, service and network names.
ValidLowerName(n) ==
    /\ n # <<>> /\ Head(n) \in Lower /\ Last(n) \in Lower
    /\ ToSet(n) \subseteq Lower \cup {"-", "_"}
    /\ Pairs(n) = {}

\* validate_lower_name.
LowerNameAccepted(n) == ValidLowerName(n) /\ Len(n) <= NameMax

\* valid_volume_name: dots are allowed, and an underscore or a dot may end it.
ValidVolumeName(n) ==
    /\ n # <<>> /\ Head(n) \in Lower /\ Last(n) # "-"
    /\ ToSet(n) \subseteq Lower \cup {"-", "_", "."}
    /\ Pairs(n) = {}

Trimmed(n) ==
    LET inner == {i \in DOMAIN n : n[i] \notin {"-", "_"}}
    IN  IF inner = {} THEN <<>> ELSE SubSeq(n, Min(inner), Max(inner))

\* suggest_lower_name: lower case, every other character a dash, runs of
\* dashes collapsed, the edges trimmed before and after the cut to the maximum.
LowerCase(c) == IF c = "A" THEN "a" ELSE c
Dashed(out, c) ==
    IF LowerCase(c) \in Lower \cup {"_"} THEN Append(out, LowerCase(c))
    ELSE IF out # <<>> /\ Last(out) = "-" THEN out
    ELSE Append(out, "-")

SuggestLowerName(n) ==
    LET dashed == Trimmed(FoldLeft(Dashed, <<>>, n))
    IN  Trimmed(SubSeq(dashed, 1, Min({Len(dashed), NameMax})))

\* with_suggestion: none if nothing is left, or nothing changed.
Suggestions(n) == {SuggestLowerName(n)} \ {<<>>, n}

\* validate_hostname: labels of lower-case letters, digits and inner dashes.
ValidHostname(h) ==
    LET edge(i) == i \notin DOMAIN h \/ h[i] \in {".", "-"}
    IN  /\ h # <<>> /\ ToSet(h) \subseteq Lower \cup {"-", "."}
        /\ ~edge(1) /\ ~edge(Len(h))
        /\ \A i \in DOMAIN h : h[i] = "." => ~edge(i - 1) /\ ~edge(i + 1)

\* validate_traefik_ident and validate_ingress_path.
ValidIdent(n) == n # <<>> /\ ToSet(n) \subseteq Lower \cup {"A", "-", "_"}
ValidPath(p)  == p # <<>> /\ Head(p) = "/" /\ " " \notin ToSet(p)

-----------------------------------------------------------------------------
\* sandbox_name and volume_name; the latter's fixed "mc2-" is left out.
SandboxName(stack, service, ordinal) ==
    stack \o <<"-", "-">> \o service \o <<"-", "-">> \o ordinal
VolumeName(stack, volume) == stack \o <<"-", "-">> \o volume

\* parse_volume_name: split at the first "--".
ParseVolumeName(n) ==
    LET i == Min(Pairs(n)) IN <<SubSeq(n, 1, i - 1), SubSeq(n, i + 2, Len(n))>>

-----------------------------------------------------------------------------
\* normalize_ingress_path, for a path without blanks around it.
NormalizeIngressPath(p) == IF p # <<>> /\ Head(p) = "/" THEN p ELSE <<"/">> \o p

\* make_ingress_route_id and the id of a TCP route.
IngressRouteId(stack, r) ==
    FlattenSeq(<<stack, <<"-">>, r.host, <<"-">>, NormalizeIngressPath(r.path),
                 <<"-">>, r.service, <<"-">>, r.port>>)
TcpRouteId(stack, r) ==
    FlattenSeq(<<stack, <<"-", "t", "-">>, r.name, <<"-">>, r.service>>)

RouteKeyOf(id) ==
    [i \in DOMAIN id |->
        IF id[i] \in Lower \cup {"A", "t", "1", "2", "-", "_"} THEN id[i] ELSE "-"]
=============================================================================
