----------------------------- MODULE HostPorts -----------------------------
(***************************************************************************)
(* How an apply turns the `ports` and `expose` of a stack document into    *)
(* host ports (crates/mc2-server/src/apply.rs): the per-replica allocation,*)
(* the expose checks and the (port, protocol) claims that back them.       *)
(*                                                                         *)
(* A document is [stack, services], a function from service names to       *)
(* [scale, ports, expose, cpus, never, node]; an instance is               *)
(* [stack, service, ordinal, ports, expose, cpus, never, node].  A `ports` *)
(* entry is [published, target, protocol], published 0 for an automatic    *)
(* port.                                                                   *)
(***************************************************************************)
EXTENDS Naturals, FiniteSets, Sequences, SequencesExt

CONSTANTS
    MaxPort,     \* u16::MAX
    PoolFirst,   \* the first automatic port, 10000
    ServerPorts  \* the REST bind and the guest DNS interceptor's 53

ASSUME PortRange == MaxPort \in Nat /\ PoolFirst \in 1..MaxPort

\* An entry of a document's `ports`.
IsEntry(e) ==
    /\ e = [published |-> e.published, target |-> e.target, protocol |-> e.protocol]
    /\ e.published \in 0..MaxPort /\ e.protocol \in {"tcp", "udp"}

Indices(i)   == DOMAIN i.ports
Published(i) == {i.ports[k].published : k \in Indices(i)}
SameService(i, doc, v) == i.stack = doc.stack /\ i.service = v

DocExposes(doc) == UNION {doc.services[v].expose : v \in DOMAIN doc.services}

-----------------------------------------------------------------------------
(***************************************************************************)
(* resolve_replica_ports, for service v of a document.                     *)
(***************************************************************************)

\* What a `ports` publish may not take: other services' publishes, every
\* expose claim, this document's own exposes, and the server's ports.
Taken(instances, doc, v) ==
    (UNION {i.expose : i \in instances})
    \cup (UNION {Published(i) : i \in {j \in instances : ~SameService(j, doc, v)}})
    \cup DocExposes(doc)
    \cup ServerPorts

\* (ordinal, target) -> published, as stored: of two entries of a target the
\* later one is remembered.
ExistingForgotten(instances, doc, v) == {}                        \* mutation
Existing(instances, doc, v) ==
    UNION {{[ordinal |-> i.ordinal, target |-> i.ports[k].target,
             published |-> i.ports[k].published] :
                k \in {k \in Indices(i) :
                         \A l \in Indices(i) :
                            l > k => i.ports[l].target # i.ports[k].target}} :
           i \in {j \in instances : SameService(j, doc, v)}}

\* The host port entry e of replica ord asks for; 0 when there is none.
Candidate(existing, taken, assigned, ord, e) ==
    LET prev == {x \in existing : x.ordinal = ord /\ x.target = e.target}
        free == (PoolFirst..MaxPort)
                    \ (taken \cup assigned \cup {x.published : x \in existing})
    IN IF e.published # 0 THEN e.published + ord
       ELSE IF prev # {} THEN (CHOOSE x \in prev : TRUE).published
       ELSE IF free # {} THEN CHOOSE p \in free : \A q \in free : p <= q
       ELSE 0

\* The ports handed out, replica by replica and entry by entry, up to the first
\* request that is refused.
Allocation(instances, doc, v) ==
    LET svc      == doc.services[v]
        n        == Len(svc.ports)
        taken    == Taken(instances, doc, v)
        existing == Existing(instances, doc, v)
        Grant(done, j) ==
            LET used == {done[k] : k \in DOMAIN done}
                cand == Candidate(existing, taken, used,
                                  (j - 1) \div n, svc.ports[((j - 1) % n) + 1])
            IN IF Len(done) = j - 1 /\ cand \in (1..MaxPort) \ (taken \cup used)
               THEN Append(done, cand) ELSE done
    IN FoldLeft(Grant, <<>>, [j \in 1..(svc.scale * n) |-> j])

Allocated(instances, doc, v) ==
    Len(Allocation(instances, doc, v)) =
        doc.services[v].scale * Len(doc.services[v].ports)

\* The instances of the plan, with the ports they were given.
Replica(instances, doc, v, ord) ==
    LET svc   == doc.services[v]
        given == Allocation(instances, doc, v)
    IN [stack |-> doc.stack, service |-> v, ordinal |-> ord,
        ports |-> [k \in DOMAIN svc.ports |->
                     [svc.ports[k] EXCEPT !.published = given[ord * Len(svc.ports) + k]]],
        expose |-> svc.expose, cpus |-> svc.cpus, never |-> svc.never,
        node |-> svc.node]

Resolved(instances, doc) ==
    UNION {{Replica(instances, doc, v, ord) : ord \in 0..(doc.services[v].scale - 1)} :
           v \in DOMAIN doc.services}

-----------------------------------------------------------------------------
\* check_expose_ports: an exposed port must not be another stack's, and unless
\* this stack holds it already it must not be published, or the server's.
ExposeRefused(instances, doc, resolved, p) ==
    \/ \E i \in instances : i.stack # doc.stack /\ p \in i.expose
    \/ /\ \A i \in instances : i.stack = doc.stack => p \notin i.expose
       /\ p \in ServerPorts \cup UNION {Published(i) : i \in instances \cup resolved}

\* Ports of the document that are probed on the host: any that is not already
\* this stack's may turn out to be taken by another program.
Probed(instances, doc) ==
    {p \in DocExposes(doc) : \A i \in instances : i.stack = doc.stack => p \notin i.expose}

\* Everything plan_stack decides about ports.
PortsResolve(instances, doc) ==
    /\ \A v \in DOMAIN doc.services : Allocated(instances, doc, v)
    /\ \A p \in DocExposes(doc) :
          ~ExposeRefused(instances, doc, Resolved(instances, doc), p)

-----------------------------------------------------------------------------
\* The host_port_claims rows of an instance.  A publish belongs to a replica; an
\* expose is claimed once for the service, every replica stating the same one.
Claim(port, protocol, i, replica) ==
    [port |-> port, protocol |-> protocol, stack |-> i.stack,
     service |-> i.service, replica |-> replica]

PublishClaims(i) ==
    {Claim(i.ports[k].published, i.ports[k].protocol, i, {i.ordinal}) : k \in Indices(i)}
ExposeClaims(i) == {Claim(p, "tcp", i, {}) : p \in i.expose}

ClaimsOf(instances) == UNION {PublishClaims(i) \cup ExposeClaims(i) : i \in instances}

\* The table's primary key.
KeyIsUnique(claims) ==
    \A c, d \in claims : c.port = d.port /\ c.protocol = d.protocol => c = d

\* Inserting the claims of a plan row by row beside those of other stacks: an
\* instance that lists a port twice inserts the same key twice.
DistinctWithin(i) ==
    \A k, l \in Indices(i) :
        /\ i.ports[k].published = i.ports[l].published
        /\ i.ports[k].protocol = i.ports[l].protocol
        => k = l

InsertUnchecked(others, instances) == TRUE                        \* mutation
Insertable(others, instances) ==
    /\ KeyIsUnique(others \cup ClaimsOf(instances))
    /\ \A i \in instances : DistinctWithin(i)
=============================================================================
