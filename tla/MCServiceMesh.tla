---------------------------- MODULE MCServiceMesh ----------------------------
\* ServiceMesh for TLC: a database that exposes a port and is probed, a cache
\* that exposes another and waits for it to be healthy, and a worker that only
\* consumes.
EXTENDS ServiceMesh, TLC

CONSTANTS db, cache, worker, p1, p2

MeshServiceOf == [i \in Instances |-> i]
MeshExposed == [s \in Services |-> IF s = db THEN p1 ELSE IF s = cache THEN p2 ELSE NoPort]
MeshNetworks == [s \in Services |-> {"shop"}]
MeshDependsOn == [s \in Services |-> IF s = db THEN {} ELSE {[service |-> db, healthy |-> s = cache]}]
MeshRank == [s \in Services |-> IF s = cache THEN 1 ELSE 2]
=============================================================================
