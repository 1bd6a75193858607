---------------------------- MODULE MCStackApply ----------------------------
\* Small documents for StackApply.
EXTENDS StackApply

Free(t)     == [published |-> 0, target |-> t, protocol |-> "tcp"]
Fixed(p, t) == [published |-> p, target |-> t, protocol |-> "tcp"]
Udp(e)      == [e EXCEPT !.protocol = "udp"]

Plain(scale, ports, expose) ==
    [scale |-> scale, ports |-> ports, expose |-> expose, cpus |-> 1,
     never |-> FALSE, node |-> "any"]
OneShot(service) == [service EXCEPT !.never = TRUE]
Doc(s, services) == [stack |-> s, services |-> services]

\* Free and fixed ports, blocks that move, targets that come and go,
\* exposes that collide, services that grow, one for another node, one pinned to
\* this one, and one that is not restarted but, exposing, created again.
ApplyDocs == {
    Doc("a", [web |-> Plain(2, <<Free("http")>>, {})]),
    Doc("a", [web |-> [Plain(1, <<Free("admin"), Free("http")>>, {}) EXCEPT !.cpus = 3]]),
    Doc("a", [web |-> Plain(2, <<Fixed(3, "http")>>, {5}), db |-> Plain(1, <<>>, {6})]),
    Doc("a", [web |-> Plain(2, <<Fixed(4, "http")>>, {}),
              db  |-> [Plain(1, <<>>, {6}) EXCEPT !.node = "other"]]),
    Doc("a", [web |-> Plain(1, <<Free("http")>>, {}), db |-> Plain(1, <<Free("sql")>>, {})]),
    Doc("b", [api |-> Plain(1, <<Free("http"), Udp(Fixed(6, "dns"))>>, {})]),
    Doc("b", [api |-> Plain(1, <<Fixed(3, "http")>>, {}), db |-> OneShot(Plain(1, <<>>, {5}))]),
    Doc("b", [api |-> [Plain(1, <<Fixed(2, "http")>>, {6})
                          EXCEPT !.cpus = 2, !.node = "this"]])}

\* Two services, each with an automatic port.
TwoAutoDocs == {
    Doc("a", [web |-> Plain(1, <<Free("http")>>, {}), db |-> Plain(1, <<Free("sql")>>, {})])}

=============================================================================
