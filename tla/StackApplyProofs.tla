-------------------------- MODULE StackApplyProofs --------------------------
(***************************************************************************)
(* Proofs about StackApply: the claims table mirrors the instances, no     *)
(* host port is given out twice, what is placed fits the node, and         *)
(* applying what a stack runs changes nothing.                             *)
(***************************************************************************)
EXTENDS StackApply, FiniteSums, SequenceTheorems, TLAPS

UniqueKeys(instances) == \A i, j \in instances : Key(i) = Key(j) => i = j

\* What the plan, the rows and the claims have to satisfy between two steps.
PInv ==
    /\ ClaimsMatchRows
    /\ KeyIsUnique(claims)
    /\ \A i \in rows : DistinctWithin(i)
    /\ UniqueKeys(rows)
    /\ pc = "commit" => UniqueKeys(plan) /\ \A i \in plan : i.stack = doc.stack

\* A resolved plan is one document's, with one instance per service and replica.
LEMMA ResolvedFacts ==
    ASSUME NEW instances, NEW d
    PROVE  /\ UniqueKeys(Resolved(instances, d))
           /\ \A i \in Resolved(instances, d) : i.stack = d.stack
<1>1. \A i \in Resolved(instances, d) :
         \E v, ord : i = Replica(instances, d, v, ord)
  BY DEF Resolved
<1>2. \A v, ord : LET i == Replica(instances, d, v, ord)
                  IN i.stack = d.stack /\ i.service = v /\ i.ordinal = ord
  BY DEF Replica
<1>3. \A i \in Resolved(instances, d) : i.stack = d.stack
  BY <1>1, <1>2
<1>4. ASSUME NEW i \in Resolved(instances, d), NEW j \in Resolved(instances, d),
             Key(i) = Key(j)
      PROVE  i = j
  <2>1. PICK v, ord : i = Replica(instances, d, v, ord)  BY <1>1
  <2>2. PICK w, ore : j = Replica(instances, d, w, ore)  BY <1>1
  <2>3. v = w /\ ord = ore
    BY <1>2, <1>4, <2>1, <2>2 DEF Key
  <2>. QED  BY <2>1, <2>2, <2>3
<1>. QED  BY <1>3, <1>4 DEF UniqueKeys

\* A claim names the stack and service of the instance that makes it.
LEMMA ClaimOwner ==
    ASSUME NEW instances, NEW c \in ClaimsOf(instances)
    PROVE  \E i \in instances : /\ c \in PublishClaims(i) \cup ExposeClaims(i)
                                /\ c.stack = i.stack /\ c.service = i.service
  BY DEF ClaimsOf, PublishClaims, ExposeClaims, Claim

\* Deleting a stack's rows and deleting its claims go together.
LEMMA OtherStacksClaims ==
    ASSUME NEW instances, NEW s
    PROVE  OtherStacks(s, ClaimsOf(instances)) = ClaimsOf(OtherStacks(s, instances))
<1>1. ASSUME NEW i \in instances, NEW c \in PublishClaims(i) \cup ExposeClaims(i)
      PROVE  c.stack = i.stack
  BY DEF PublishClaims, ExposeClaims, Claim
<1>. QED  BY <1>1 DEF OtherStacks, ClaimsOf

\* Claims are made instance by instance.
LEMMA ClaimsOfUnion ==
    ASSUME NEW S, NEW T
    PROVE  ClaimsOf(S \cup T) = ClaimsOf(S) \cup ClaimsOf(T)
  BY DEF ClaimsOf

\* What makes the claims a faithful record is inductive: keys stay unique, and a
\* plan names only the stack being applied.
LEMMA PInvHolds == Spec => []PInv
<1>1. Init => PInv
  BY DEF Init, PInv, ClaimsMatchRows, ClaimsOf, KeyIsUnique, UniqueKeys
<1>2. PInv /\ [Next]_vars => PInv'
  <2>. SUFFICES ASSUME PInv, [Next]_vars PROVE PInv'
    OBVIOUS
  <2>. USE DEF PInv
  <2>0. CASE UNCHANGED <<store, pc, doc, plan>>
    BY <2>0 DEF store, ClaimsMatchRows
  <2>1. CASE UNCHANGED store /\ pc' # "commit"
    BY <2>1 DEF store, ClaimsMatchRows
  <2>2. CASE PlanStack
    BY <2>2, ResolvedFacts DEF PlanStack, store, ClaimsMatchRows
  <2>3. CASE Commit
    <3>. DEFINE kept == OtherStacks(doc.stack, rows)
    <3>1. /\ rows' = kept \cup plan
          /\ claims' = ClaimsLeft(doc) \cup ClaimsOf(plan)
          /\ pc' = "schedule"
      BY <2>3 DEF Commit
    <3>2. ClaimsMatchRows'
      <4>1. ClaimsLeft(doc) = ClaimsOf(kept)
        BY OtherStacksClaims DEF ClaimsLeft, ClaimsMatchRows
      <4>. QED  BY <3>1, <4>1, ClaimsOfUnion DEF ClaimsMatchRows
    <3>3. KeyIsUnique(claims') /\ \A i \in rows' : DistinctWithin(i)
      BY <2>3, <3>1 DEF Commit, Insertable, OtherStacks
    <3>4. UniqueKeys(rows')
      <4>1. \A i \in kept, j \in plan : Key(i) # Key(j)
        BY <2>3 DEF OtherStacks, Key, Commit
      <4>2. UniqueKeys(kept) /\ UniqueKeys(plan)
        BY <2>3 DEF UniqueKeys, OtherStacks, Commit
      <4>. QED  BY <3>1, <4>1, <4>2 DEF UniqueKeys
    <3>. QED  BY <3>1, <3>2, <3>3, <3>4
  <2>4. ASSUME NEW s \in Stacks, DeleteStack(s)
        PROVE  PInv'
    <3>1. /\ rows' = OtherStacks(s, rows)
          /\ claims' = OtherStacks(s, claims)
          /\ pc' = "idle"
      BY <2>4 DEF DeleteStack, request
    <3>2. ClaimsMatchRows'
      BY <3>1, OtherStacksClaims DEF ClaimsMatchRows
    <3>3. KeyIsUnique(claims') /\ UniqueKeys(rows') /\ \A i \in rows' : DistinctWithin(i)
      BY <3>1 DEF OtherStacks, KeyIsUnique, UniqueKeys
    <3>. QED  BY <3>1, <3>2, <3>3
  <2>5. ASSUME NEW d \in Docs, BeginApply(d)
        PROVE  PInv'
    BY <2>1, <2>5 DEF BeginApply
  <2>6. CASE RefuseApply \/ CommitConflict \/ FinishApply \/ Cancel
    BY <2>1, <2>6 DEF RefuseApply, CommitConflict, FinishApply, Cancel, Release
  <2>7. CASE ListPending
    BY <2>7 DEF ListPending, ClaimsMatchRows
  <2>8. ASSUME NEW i \in rows, BindNext(i) \/ NodeReports(i)
        PROVE  PInv'
    <3>1. UNCHANGED <<rows, claims, pc, doc, plan>>
      BY <2>8 DEF BindNext, NodeReports, request
    <3>. QED  BY <3>1 DEF ClaimsMatchRows
  <2>9. CASE UNCHANGED vars
    BY <2>0, <2>9 DEF vars, request, store
  <2>. QED
    BY <2>2, <2>3, <2>4, <2>5, <2>6, <2>7, <2>8, <2>9 DEF Next, Handler
<1>. QED  BY <1>1, <1>2, PTL DEF Spec

\* The claims table says, in every reachable state, exactly what the stored
\* instances publish and expose (sqlite.rs:443-462 and 986-1149).
THEOREM ClaimsMirrorRows == Spec => []ClaimsMatchRows
  BY PInvHolds, PTL DEF PInv

\* No host port is published twice, or published and exposed, or exposed by two
\* services, whatever documents are applied in whatever order (A1, C4, C5).
THEOREM PortsAreExclusive == Spec => []PortsExclusive
<1>1. PInv => PortsExclusive
  <2>. SUFFICES ASSUME PInv, NEW i \in rows, NEW j \in rows
                PROVE  /\ \A k \in Indices(i), l \in Indices(j) :
                            /\ i.ports[k].published = j.ports[l].published
                            /\ i.ports[k].protocol = j.ports[l].protocol
                            => Key(i) = Key(j) /\ k = l
                       /\ i.expose \cap j.expose # {} =>
                            i.stack = j.stack /\ i.service = j.service
                       /\ \A k \in Indices(i) :
                            i.ports[k].protocol = "tcp" =>
                                i.ports[k].published \notin j.expose
    BY DEF PortsExclusive
  <2>1. PublishClaims(i) \cup ExposeClaims(i) \cup PublishClaims(j) \cup ExposeClaims(j)
          \subseteq claims
    BY DEF PInv, ClaimsMatchRows, ClaimsOf
  <2>2. ASSUME NEW k \in Indices(i), NEW l \in Indices(j),
               i.ports[k].published = j.ports[l].published,
               i.ports[k].protocol = j.ports[l].protocol
        PROVE  Key(i) = Key(j) /\ k = l
    <3>. DEFINE c == Claim(i.ports[k].published, i.ports[k].protocol, i, {i.ordinal})
                d == Claim(j.ports[l].published, j.ports[l].protocol, j, {j.ordinal})
    <3>1. c \in claims /\ d \in claims
      BY <2>1 DEF PublishClaims
    <3>2. c = d
      BY <2>2, <3>1 DEF PInv, KeyIsUnique, Claim
    <3>3. i.stack = j.stack /\ i.service = j.service /\ {i.ordinal} = {j.ordinal}
      BY <3>2 DEF Claim
    <3>4. Key(i) = Key(j)
      BY <3>3 DEF Key
    <3>5. i = j
      BY <3>4 DEF PInv, UniqueKeys
    <3>. QED  BY <2>2, <3>4, <3>5 DEF PInv, DistinctWithin
  <2>3. ASSUME NEW p \in i.expose \cap j.expose
        PROVE  i.stack = j.stack /\ i.service = j.service
    <3>1. Claim(p, "tcp", i, {}) \in claims /\ Claim(p, "tcp", j, {}) \in claims
      BY <2>1 DEF ExposeClaims
    <3>2. Claim(p, "tcp", i, {}) = Claim(p, "tcp", j, {})
      BY <3>1 DEF PInv, KeyIsUnique, Claim
    <3>. QED  BY <3>2 DEF Claim
  <2>4. ASSUME NEW k \in Indices(i), i.ports[k].protocol = "tcp",
               i.ports[k].published \in j.expose
        PROVE  FALSE
    <3>. DEFINE p == i.ports[k].published
    <3>1. Claim(p, "tcp", i, {i.ordinal}) \in claims /\ Claim(p, "tcp", j, {}) \in claims
      BY <2>1, <2>4 DEF PublishClaims, ExposeClaims
    <3>2. Claim(p, "tcp", i, {i.ordinal}) = Claim(p, "tcp", j, {})
      BY <3>1 DEF PInv, KeyIsUnique, Claim
    <3>3. {i.ordinal} = {}
      BY <3>2 DEF Claim
    <3>. QED  BY <3>3
  <2>. QED  BY <2>2, <2>3, <2>4
<1>. QED  BY <1>1, PInvHolds, PTL

-----------------------------------------------------------------------------
(***************************************************************************)
(* Capacity.  The sums are folds over sets of instances and of services;   *)
(* FiniteSums says what they compute.                                      *)
(***************************************************************************)
CpuOf(S) == [i \in S |-> i.cpus]

LEMMA CpusTotal ==
    ASSUME NEW S, IsFiniteSet(S), NEW T \in SUBSET S
    PROVE  Cpus(T) = Total(CpuOf(S), T)
<1>1. IsFiniteSet(T)
  BY FS_Subset
<1>2. PICK g : SumsUp(g, CpuOf(S), T)
  BY <1>1, SumsUpExists
<1>3. ASSUME NEW h
      PROVE  SumsUp(h, CpuOf(S), T) <=>
               h = [s \in SUBSET T |->
                      IF s = {} THEN 0
                      ELSE LET x == CHOOSE x \in s : TRUE IN x.cpus + h[s \ {x}]]
  <2>. DEFINE left(s) == IF s = {} THEN 0 ELSE CpuOf(S)[Pick(s)] + h[Rest(s)]
              right(s) == IF s = {} THEN 0
                          ELSE LET x == CHOOSE x \in s : TRUE IN x.cpus + h[s \ {x}]
  <2>1. ASSUME NEW s \in SUBSET T PROVE left(s) = right(s)
    <3>1. s # {} => CpuOf(S)[Pick(s)] = Pick(s).cpus
      BY PickIn DEF CpuOf
    <3>. QED  BY <3>1 DEF Pick, Rest
  <2>. HIDE DEF left, right
  <2>2. [s \in SUBSET T |-> left(s)] = [s \in SUBSET T |-> right(s)]
    BY <2>1
  <2>. QED  BY <2>2, Zenon DEF SumsUp, left, right
<1>4. \A h : SumsUp(h, CpuOf(S), T) => h = g
  BY <1>1, <1>2, SumsUpUnique
<1>5. Cpus(T) = g[T]
  BY <1>2, <1>3, <1>4, Zenon DEF Cpus, MapThenSumSet, MapThenFoldSet
<1>6. Total(CpuOf(S), T) = g[T]
  BY <1>1, <1>2, TotalIs
<1>. QED  BY <1>5, <1>6

\* Sums of what instances reserve, over finite sets of instances.
Counted(S) == IsFiniteSet(S) /\ \A i \in S : i.cpus \in Nat

LEMMA CpusNat ==
    ASSUME NEW S, Counted(S), NEW T \in SUBSET S
    PROVE  Counted(T) /\ Cpus(T) \in Nat /\ Cpus(T) <= Cpus(S)
<1>1. IsFiniteSet(S) /\ \A i \in S : CpuOf(S)[i] \in Nat
  BY DEF Counted, CpuOf
<1>2. Counted(T)
  BY FS_Subset DEF Counted
<1>3. Cpus(T) = Total(CpuOf(S), T) /\ Cpus(S) = Total(CpuOf(S), S)
  BY <1>1, CpusTotal
<1>4. Total(CpuOf(S), T) \in Nat /\ Total(CpuOf(S), T) <= Total(CpuOf(S), S)
  BY <1>1, FS_Subset, TotalNat, TotalMonotone
<1>. QED  BY <1>2, <1>3, <1>4

LEMMA CpusEmpty == Cpus({}) = 0
<1>1. IsFiniteSet({})
  BY FS_EmptySet
<1>2. Total(CpuOf({}), {}) = 0
  BY <1>1, TotalPick
<1>. QED  BY <1>1, <1>2, CpusTotal

LEMMA CpusUnion ==
    ASSUME NEW S, NEW T, Counted(S), Counted(T), S \cap T = {}
    PROVE  Counted(S \cup T) /\ Cpus(S \cup T) = Cpus(S) + Cpus(T)
<1>. DEFINE U == S \cup T
<1>1. Counted(U)
  BY FS_Union DEF Counted
<1>2. IsFiniteSet(U) /\ (\A i \in U : CpuOf(U)[i] \in Nat) /\ S \in SUBSET U /\ T \in SUBSET U
  BY <1>1 DEF Counted, CpuOf
<1>3. /\ Cpus(U) = Total(CpuOf(U), U)
      /\ Cpus(S) = Total(CpuOf(U), S)
      /\ Cpus(T) = Total(CpuOf(U), T)
  <2>. HIDE DEF U
  <2>. QED  BY <1>2, CpusTotal
<1>4. Total(CpuOf(U), U) = Total(CpuOf(U), S) + Total(CpuOf(U), T)
  <2>1. U = S \cup T
    OBVIOUS
  <2>. HIDE DEF U
  <2>2. Total(CpuOf(U), S \cup T) = Total(CpuOf(U), S) + Total(CpuOf(U), T)
    BY <1>2, TotalUnion
  <2>. QED  BY <2>1, <2>2
<1>. QED  BY <1>1, <1>3, <1>4

LEMMA CpusSingle ==
    ASSUME NEW i, i.cpus \in Nat
    PROVE  Counted({i}) /\ Cpus({i}) = i.cpus
<1>1. IsFiniteSet({i})
  BY FS_Singleton
<1>2. Pick({i}) = i /\ Rest({i}) = {}
  BY DEF Pick, Rest
<1>3. Total(CpuOf({i}), {}) = 0
  BY FS_EmptySet, TotalPick
<1>4. Total(CpuOf({i}), {i}) = CpuOf({i})[i] + 0
  BY <1>1, <1>2, <1>3, TotalPick
<1>5. CpuOf({i})[i] = i.cpus
  BY DEF CpuOf
<1>. QED  BY <1>1, <1>4, <1>5, CpusTotal DEF Counted

\* The replicas of one service reserve its CPUs each.
ReplicasOf(instances, d, v, ords) == {Replica(instances, d, v, ord) : ord \in ords}

LEMMA ReplicasSum ==
    ASSUME NEW instances, NEW d, NEW v, d.services[v].cpus \in Nat,
           NEW n \in Nat
    PROVE  /\ Counted(ReplicasOf(instances, d, v, 0..(n - 1)))
           /\ Cpus(ReplicasOf(instances, d, v, 0..(n - 1))) = n * d.services[v].cpus
<1>. DEFINE All == 0..(n - 1)
            c == d.services[v].cpus
            Made(s) == ReplicasOf(instances, d, v, s)
            Right(s) == Counted(Made(s)) /\ Cpus(Made(s)) = Cardinality(s) * c
            B == {s \in SUBSET All : ~Right(s)}
<1>1. IsFiniteSet(All) /\ Cardinality(All) = n
  <2>1. 0 \in Int /\ n - 1 \in Int
    OBVIOUS
  <2>2. IsFiniteSet(All) /\ Cardinality(All) = IF 0 > n - 1 THEN 0 ELSE (n - 1) - 0 + 1
    BY <2>1, FS_Interval
  <2>. HIDE DEF All
  <2>. QED  BY <2>2
<1>2. ASSUME B # {} PROVE FALSE
  <2>1. PICK T \in B : \A U \in SUBSET T : U # T => U \notin B
    <3>1. B \in SUBSET (SUBSET All)
      OBVIOUS
    <3>. HIDE DEF B, All
    <3>. QED  BY <1>1, <1>2, <3>1, SmallestSubset
  <2>2. IsFiniteSet(T) /\ T \in SUBSET All
    <3>. HIDE DEF All, Right
    <3>. QED  BY <1>1, FS_Subset
  <2>3. CASE T = {}
    <3>1. Made(T) = {}
      BY <2>3 DEF ReplicasOf
    <3>2. Cardinality(T) = 0
      BY <2>3, FS_EmptySet
    <3>. QED  BY <3>1, <3>2, CpusEmpty, FS_EmptySet DEF Counted
  <2>4. CASE T # {}
    <3>1. PICK ord \in T : TRUE
      BY <2>4
    <3>. DEFINE U == T \ {ord}
                r == Replica(instances, d, v, ord)
    <3>2. Right(U)
      <4>1. U \in SUBSET T /\ U # T /\ U \in SUBSET All
        BY <2>2, <3>1
      <4>. HIDE DEF Right, U, All
      <4>. QED  BY <2>1, <4>1
    <3>3. Counted({r}) /\ Cpus({r}) = c
      <4>1. r.cpus = c
        BY DEF Replica
      <4>. HIDE DEF r
      <4>. QED  BY <4>1, CpusSingle
    <3>4. Made(T) = Made(U) \cup {r}
      BY <3>1 DEF ReplicasOf
    <3>5. Made(U) \cap {r} = {}
      <4>1. \A q \in U : Replica(instances, d, v, q).ordinal = q /\ q # ord
        BY DEF Replica
      <4>2. r.ordinal = ord
        BY DEF Replica
      <4>3. \A x \in Made(U) : \E q \in U : x = Replica(instances, d, v, q)
        BY DEF ReplicasOf
      <4>. HIDE DEF Made, U, r
      <4>. QED  BY <4>1, <4>2, <4>3
    <3>6. Counted(Made(T)) /\ Cpus(Made(T)) = Cardinality(U) * c + c
      <4>1. Counted(Made(U)) /\ Cpus(Made(U)) = Cardinality(U) * c
        BY <3>2
      <4>. HIDE DEF Made, U, r
      <4>2. /\ Counted(Made(U) \cup {r})
            /\ Cpus(Made(U) \cup {r}) = Cpus(Made(U)) + Cpus({r})
        BY <3>3, <3>5, <4>1, CpusUnion
      <4>. HIDE DEF c
      <4>. QED  BY <3>3, <3>4, <4>1, <4>2
    <3>7. Cardinality(T) \in Nat /\ Cardinality(U) = Cardinality(T) - 1
      BY <2>2, <3>1, FS_CardinalityType, FS_RemoveElement
    <3>8. (Cardinality(T) - 1) * c + c = Cardinality(T) * c
      BY <3>7
    <3>. HIDE DEF Made, U
    <3>. QED  BY <2>1, <3>6, <3>7, <3>8
  <2>. QED  BY <2>3, <2>4
<1>3. Right(All)
  <2>. HIDE DEF Right
  <2>. QED  BY <1>2
<1>. QED  BY <1>1, <1>3

\* stack_reserved, service by service.
NeedOf(d) == [v \in DOMAIN d.services |-> d.services[v].scale * d.services[v].cpus]

LEMMA NeedsTotal ==
    ASSUME NEW d, IsFiniteSet(DOMAIN d.services)
    PROVE  Needs(d) = Total(NeedOf(d), DOMAIN d.services)
<1>. DEFINE D == DOMAIN d.services
<1>1. PICK g : SumsUp(g, NeedOf(d), D)
  BY SumsUpExists
<1>2. ASSUME NEW h
      PROVE  SumsUp(h, NeedOf(d), D) <=>
               h = [s \in SUBSET D |->
                      IF s = {} THEN 0
                      ELSE LET x == CHOOSE x \in s : TRUE
                           IN d.services[x].scale * d.services[x].cpus + h[s \ {x}]]
  <2>. DEFINE left(s) == IF s = {} THEN 0 ELSE NeedOf(d)[Pick(s)] + h[Rest(s)]
              right(s) == IF s = {} THEN 0
                          ELSE LET x == CHOOSE x \in s : TRUE
                               IN d.services[x].scale * d.services[x].cpus + h[s \ {x}]
  <2>1. ASSUME NEW s \in SUBSET D PROVE left(s) = right(s)
    <3>1. s # {} => NeedOf(d)[Pick(s)] = d.services[Pick(s)].scale * d.services[Pick(s)].cpus
      BY PickIn DEF NeedOf
    <3>. QED  BY <3>1 DEF Pick, Rest
  <2>. HIDE DEF left, right
  <2>2. [s \in SUBSET D |-> left(s)] = [s \in SUBSET D |-> right(s)]
    BY <2>1
  <2>. QED  BY <2>2, Zenon DEF SumsUp, left, right
<1>3. \A h : SumsUp(h, NeedOf(d), D) => h = g
  BY <1>1, SumsUpUnique
<1>4. Needs(d) = g[D]
  <2>. DEFINE sums(h) == h = [s \in SUBSET D |->
                      IF s = {} THEN 0
                      ELSE LET x == CHOOSE x \in s : TRUE
                           IN d.services[x].scale * d.services[x].cpus + h[s \ {x}]]
  <2>1. Needs(d) = (CHOOSE h : sums(h))[D]
    BY Zenon DEF Needs, MapThenSumSet, MapThenFoldSet
  <2>2. sums(g) /\ \A h : sums(h) => h = g
    BY <1>1, <1>2, <1>3, Zenon
  <2>. HIDE DEF sums
  <2>3. (CHOOSE h : sums(h)) = g
    BY <2>2
  <2>. QED  BY <2>1, <2>3
<1>5. Total(NeedOf(d), D) = g[D]
  BY <1>1, TotalIs
<1>. QED  BY <1>4, <1>5

\* A resolved plan reserves what plan_stack compared with the capacity.
LEMMA ResolvedSum ==
    ASSUME NEW instances, NEW d \in Docs
    PROVE  /\ Counted(Resolved(instances, d))
           /\ Cpus(Resolved(instances, d)) = Needs(d)
           /\ Needs(d) \in Nat
<1>. DEFINE D == DOMAIN d.services
            One(v) == ReplicasOf(instances, d, v, 0..(d.services[v].scale - 1))
            Made(V) == UNION {One(v) : v \in V}
            Right(V) == Counted(Made(V)) /\ Cpus(Made(V)) = Total(NeedOf(d), V)
            B == {V \in SUBSET D : ~Right(V)}
<1>1. /\ IsFiniteSet(D)
      /\ \A v \in D : d.services[v].scale \in Nat /\ d.services[v].cpus \in Nat
      /\ \A v \in D : NeedOf(d)[v] \in Nat
  BY DocsAreValid DEF NeedOf
<1>2. ASSUME NEW v \in D
      PROVE  Counted(One(v)) /\ Cpus(One(v)) = NeedOf(d)[v]
  BY <1>1, ReplicasSum DEF NeedOf
<1>3. ASSUME B # {} PROVE FALSE
  <2>1. PICK T \in B : \A U \in SUBSET T : U # T => U \notin B
    <3>1. B \in SUBSET (SUBSET D)
      OBVIOUS
    <3>. HIDE DEF B, D
    <3>. QED  BY <1>1, <1>3, <3>1, SmallestSubset
  <2>2. IsFiniteSet(T) /\ T \in SUBSET D
    <3>. HIDE DEF D, Right
    <3>. QED  BY <1>1, FS_Subset
  <2>3. CASE T = {}
    <3>1. Made(T) = {}
      BY <2>3
    <3>2. Total(NeedOf(d), T) = 0
      BY <2>2, <2>3, TotalPick
    <3>. QED  BY <3>1, <3>2, CpusEmpty, FS_EmptySet DEF Counted
  <2>4. CASE T # {}
    <3>1. PICK v \in T : v \in D
      BY <2>2, <2>4
    <3>. DEFINE U == T \ {v}
    <3>2. Right(U)
      <4>1. U \in SUBSET T /\ U # T /\ U \in SUBSET D
        BY <2>2, <3>1
      <4>. HIDE DEF Right, U, D
      <4>. QED  BY <2>1, <4>1
    <3>3. Made(T) = Made(U) \cup One(v)
      <4>. HIDE DEF One
      <4>. QED  BY <3>1
    <3>4. Made(U) \cap One(v) = {}
      BY DEF ReplicasOf, Replica
    <3>5. Total(NeedOf(d), T) = NeedOf(d)[v] + Total(NeedOf(d), U)
      <4>1. \A x \in T : NeedOf(d)[x] \in Nat
        BY <1>1, <2>2
      <4>. QED  BY <2>2, <3>1, <4>1, TotalRemove
    <3>6. Counted(Made(T)) /\ Cpus(Made(T)) = Total(NeedOf(d), U) + NeedOf(d)[v]
      <4>1. Counted(Made(U)) /\ Cpus(Made(U)) = Total(NeedOf(d), U)
        BY <3>2
      <4>2. Counted(One(v)) /\ Cpus(One(v)) = NeedOf(d)[v]
        BY <1>2, <3>1
      <4>. HIDE DEF Made, U, One
      <4>3. /\ Counted(Made(U) \cup One(v))
            /\ Cpus(Made(U) \cup One(v)) = Cpus(Made(U)) + Cpus(One(v))
        BY <3>4, <4>1, <4>2, CpusUnion
      <4>. QED  BY <3>3, <4>1, <4>2, <4>3
    <3>7. Total(NeedOf(d), U) \in Nat /\ NeedOf(d)[v] \in Nat
      <4>1. IsFiniteSet(U) /\ \A x \in U : NeedOf(d)[x] \in Nat
        BY <1>1, <2>2, FS_Subset
      <4>. HIDE DEF U
      <4>. QED  BY <1>1, <3>1, <4>1, TotalNat
    <3>. HIDE DEF Made, U
    <3>. QED  BY <2>1, <3>5, <3>6, <3>7
  <2>. QED  BY <2>3, <2>4
<1>4. Right(D)
  <2>. HIDE DEF Right
  <2>. QED  BY <1>3
<1>5. Made(D) = Resolved(instances, d)
  BY DEF Resolved, ReplicasOf
<1>6. Needs(d) = Total(NeedOf(d), D) /\ Total(NeedOf(d), D) \in Nat
  BY <1>1, NeedsTotal, TotalNat
<1>. QED  BY <1>4, <1>5, <1>6

-----------------------------------------------------------------------------
(***************************************************************************)
(* The types, and what the sums need of them: every row is of a document   *)
(* that may be applied, the plan is still the one resolved from the rows,  *)
(* and the scheduler's queue is empty when it does not run.                *)
(***************************************************************************)
OfADoc(i) ==
    \E d \in Docs : \E v \in DOMAIN d.services :
        /\ i.cpus = d.services[v].cpus
        /\ i.never = d.services[v].never
        /\ i.node = d.services[v].node

TInv ==
    /\ TypeOK
    /\ \A i \in rows : OfADoc(i)
    /\ pc = "commit" => plan = Resolved(rows, doc)
    /\ pc # "bind" => queue = {}

LEMMA OfADocCpus == \A i : OfADoc(i) => i.cpus \in Nat
  BY DocsAreValid DEF OfADoc

LEMMA RowsCounted == TInv => Counted(rows)
  BY OfADocCpus DEF TInv, TypeOK, Counted

LEMMA ResolvedOfADoc ==
    ASSUME NEW instances, NEW d \in Docs, NEW i \in Resolved(instances, d)
    PROVE  OfADoc(i)
<1>1. PICK v \in DOMAIN d.services :
        \E ord \in 0..(d.services[v].scale - 1) : i = Replica(instances, d, v, ord)
  BY DEF Resolved
<1>2. /\ i.cpus = d.services[v].cpus
      /\ i.never = d.services[v].never
      /\ i.node = d.services[v].node
  BY <1>1 DEF Replica
<1>. QED  BY <1>2 DEF OfADoc

\* A step that leaves the rows and the plan's basis alone.
LEMMA TypesKept ==
    ASSUME TInv, UNCHANGED <<rows, stacks>>,
           observed' \in [Keys(rows) -> Observations],
           pc' \in {"idle", "plan", "commit", "schedule", "bind"},
           doc' \in Docs \cup {NoDoc}, pc' = "idle" <=> doc' = NoDoc,
           pc' # "commit" => plan' = {},
           pc' = "commit" => plan' = Resolved(rows, doc'),
           pc' # "bind" => queue' = {},
           residual' \in 0..Capacity, queue' \subseteq Keys(rows)
    PROVE  TInv'
  BY DEF TInv, TypeOK, OfADoc

LEMMA ReleaseKept ==
    ASSUME TInv, Release, UNCHANGED store
    PROVE  TInv'
  BY TypesKept, ApplyConstants DEF Release, store, TInv, TypeOK

LEMMA CommitTypes ==
    ASSUME PInv, TInv, Commit
    PROVE  TInv'
<1>. DEFINE kept == OtherStacks(doc.stack, rows)
            Seen(k) == IF k \in Keys(kept) THEN observed[k]
                       ELSE Refreshed(CHOOSE i \in plan : Key(i) = k)
<1>1. /\ pc = "commit" /\ doc \in Docs /\ plan = Resolved(rows, doc)
      /\ doc.stack \in Stacks
  BY DocsAreValid DEF Commit, TInv, TypeOK
<1>2. /\ rows' = kept \cup plan
      /\ observed' = [k \in Keys(kept) \cup Keys(plan) |-> Seen(k)]
      /\ stacks' = [stacks EXCEPT ![doc.stack] = doc]
      /\ pc' = "schedule" /\ plan' = {} /\ residual' = 0 /\ queue' = {} /\ doc' = doc
  BY DEF Commit
<1>3. Keys(rows') = Keys(kept) \cup Keys(plan)
  BY <1>2 DEF Keys
<1>4. IsFiniteSet(rows') /\ \A i \in rows' : OfADoc(i)
  <2>1. IsFiniteSet(plan) /\ IsFiniteSet(kept)
    BY <1>1, ResolvedSum, FS_Subset DEF Counted, OtherStacks, TInv, TypeOK
  <2>2. \A i \in plan : OfADoc(i)
    BY <1>1, ResolvedOfADoc
  <2>. QED  BY <1>2, <2>1, <2>2, FS_Union DEF OtherStacks, TInv, OfADoc
<1>5. \A k \in Keys(kept) \cup Keys(plan) : Seen(k) \in Observations
  <2>1. \A k \in Keys(rows) : observed[k] \in Observations
    BY DEF TInv, TypeOK
  <2>2. Keys(kept) \subseteq Keys(rows)
    BY DEF Keys, OtherStacks
  <2>3. \A i : Refreshed(i) \in Observations
    BY <2>1 DEF Refreshed, New, Observations
  <2>. QED  BY <2>1, <2>2, <2>3
<1>6. observed' \in [Keys(rows') -> Observations]
  BY <1>2, <1>3, <1>5
<1>7. \A i, j \in rows' : Key(i) = Key(j) => i = j
  <2>1. \A i \in kept, j \in plan : i.stack # j.stack
    BY <1>1 DEF PInv, OtherStacks
  <2>2. UniqueKeys(kept) /\ UniqueKeys(plan)
    BY <1>1 DEF PInv, UniqueKeys, OtherStacks
  <2>. QED  BY <1>2, <2>1, <2>2 DEF Key, UniqueKeys
<1>8. stacks' \in [Stacks -> Docs \cup {NoDoc}] /\ \A i \in rows' : stacks'[i.stack] # NoDoc
  <2>1. doc # NoDoc
    BY <1>1, NoDocIsNoDoc
  <2>2. \A i \in plan : i.stack = doc.stack
    BY <1>1 DEF PInv
  <2>3. \A i \in kept : i.stack # doc.stack /\ stacks[i.stack] # NoDoc
    BY DEF OtherStacks, TInv, TypeOK
  <2>. QED  BY <1>1, <1>2, <2>1, <2>2, <2>3 DEF TInv, TypeOK
<1>9. doc' # NoDoc /\ (\A i \in rows' : OfADoc(i)') /\ residual' \in 0..Capacity
  BY <1>1, <1>2, <1>4, NoDocIsNoDoc, ApplyConstants DEF OfADoc
<1>. QED  BY <1>1, <1>2, <1>4, <1>6, <1>7, <1>8, <1>9 DEF TInv, TypeOK

LEMMA DeleteTypes ==
    ASSUME TInv, NEW s \in Stacks, DeleteStack(s)
    PROVE  TInv'
<1>1. /\ rows' = OtherStacks(s, rows) /\ pc = "idle"
      /\ observed' = [k \in Keys(rows') |-> observed[k]]
      /\ stacks' = [stacks EXCEPT ![s] = NoDoc]
      /\ UNCHANGED <<pc, doc, plan, residual, queue>>
  BY DEF DeleteStack, request
<1>2. rows' \subseteq rows /\ Keys(rows') \subseteq Keys(rows)
  BY <1>1 DEF OtherStacks, Keys
<1>3. observed' \in [Keys(rows') -> Observations]
  BY <1>1, <1>2 DEF TInv, TypeOK
<1>4. stacks' \in [Stacks -> Docs \cup {NoDoc}] /\ \A i \in rows' : stacks'[i.stack] # NoDoc
  BY <1>1 DEF TInv, TypeOK, OtherStacks
<1>5. IsFiniteSet(rows')
  BY <1>2, FS_Subset DEF TInv, TypeOK
<1>6. queue = {} /\ \A i \in rows' : OfADoc(i)'
  BY <1>1, <1>2 DEF TInv, OfADoc
<1>. QED  BY <1>1, <1>2, <1>3, <1>4, <1>5, <1>6 DEF TInv, TypeOK

\* What a step changes about a row is one of the fields observed of it.
LEMMA ObservedChanged ==
    ASSUME observed \in [Keys(rows) -> Observations], NEW i \in rows
    PROVE  /\ \A b \in BOOLEAN : [observed EXCEPT ![Key(i)].bound = TRUE, ![Key(i)].skipped = b]
                                   \in [Keys(rows) -> Observations]
           /\ [observed EXCEPT ![Key(i)].phase = "Down"] \in [Keys(rows) -> Observations]
           /\ [observed EXCEPT ![Key(i)] = [@ EXCEPT !.phase = "Up", !.changed = FALSE]]
                \in [Keys(rows) -> Observations]
<1>1. Key(i) \in Keys(rows)
  BY DEF Keys
<1>. QED  BY <1>1 DEF Observations

\* Recording what a sum leaves out changes nothing else of a row.
LEMMA RecordedFacts ==
    ASSUME TInv, NEW S \in SUBSET rows
    PROVE  /\ Recorded(S) \in [Keys(rows) -> Observations]
           /\ \A i \in rows :
                 /\ Recorded(S)[Key(i)].bound = observed[Key(i)].bound
                 /\ Recorded(S)[Key(i)].skipped
                      <=> observed[Key(i)].skipped \/ (i \in S /\ Skipped(i))
<1>. DEFINE left == Keys({i \in S : Skipped(i)})
            seen(k) == [observed[k] EXCEPT !.skipped = @ \/ k \in left]
<1>1. \A k \in Keys(rows) : observed[k] \in Observations
  BY DEF TInv, TypeOK
<1>2. \A k \in Keys(rows) :
        /\ seen(k) \in Observations
        /\ seen(k).bound = observed[k].bound
        /\ seen(k).skipped = (observed[k].skipped \/ k \in left)
  BY <1>1 DEF Observations
<1>3. \A i \in rows : Key(i) \in Keys(rows) /\ (Key(i) \in left <=> i \in S /\ Skipped(i))
  BY DEF Keys, TInv, TypeOK
<1>4. Recorded(S) = [k \in Keys(rows) |-> seen(k)]
  BY DEF Recorded
<1>. HIDE DEF seen, left
<1>. QED  BY <1>2, <1>3, <1>4

LEMMA TypesNext ==
    ASSUME PInv, TInv, [Next]_vars
    PROVE  TInv'
<1>1. ASSUME NEW d \in Docs, BeginApply(d) PROVE TInv'
  BY <1>1, TypesKept, NoDocIsNoDoc DEF BeginApply, store, TInv, TypeOK
<1>2. CASE PlanStack
  BY <1>2, RecordedFacts, TypesKept DEF PlanStack, TInv, TypeOK
<1>3. CASE RefuseApply \/ CommitConflict \/ FinishApply \/ Cancel
  BY <1>3, ReleaseKept DEF RefuseApply, CommitConflict, FinishApply, Cancel
<1>4. CASE ListPending
  <2>1. Reserved(rows) \in Nat
    BY RowsCounted, CpusNat DEF Reserved
  <2>2. residual' \in 0..Capacity
    BY <1>4, <2>1, ApplyConstants DEF ListPending
  <2>3. queue' \subseteq Keys(rows)
    BY <1>4 DEF ListPending, Pending, Keys
  <2>4. observed' \in [Keys(rows) -> Observations]
    BY <1>4, RecordedFacts DEF ListPending
  <2>. QED  BY <1>4, <2>2, <2>3, <2>4, TypesKept DEF ListPending, TInv, TypeOK
<1>5. ASSUME NEW i \in rows, BindNext(i) PROVE TInv'
  <2>1. residual' \in 0..Capacity
    BY <1>5, RowsCounted, ApplyConstants DEF BindNext, Left, Counted, TInv, TypeOK
  <2>2. observed' \in [Keys(rows) -> Observations]
    <3>. DEFINE over == i.cpus > residual
    <3>1. over = TRUE \/ over = FALSE
      <4>1. i.cpus \in Nat /\ residual \in Nat
        BY RowsCounted, ApplyConstants DEF Counted, TInv, TypeOK
      <4>. QED  BY <4>1
    <3>2. \/ observed' = observed
          \/ observed' = [observed EXCEPT ![Key(i)].bound = TRUE, ![Key(i)].skipped = over]
      BY <1>5 DEF BindNext
    <3>3. observed \in [Keys(rows) -> Observations]
      BY DEF TInv, TypeOK
    <3>. HIDE DEF over
    <3>4. over \in BOOLEAN
      BY <3>1
    <3>5. [observed EXCEPT ![Key(i)].bound = TRUE, ![Key(i)].skipped = over]
            \in [Keys(rows) -> Observations]
      BY <3>3, <3>4, ObservedChanged
    <3>. QED  BY <3>2, <3>3, <3>5
  <2>. QED  BY <1>5, <2>1, <2>2, TypesKept DEF BindNext, TInv, TypeOK
<1>6. ASSUME NEW i \in rows, NodeReports(i) PROVE TInv'
  <2>1. observed' \in [Keys(rows) -> Observations]
    <3>1. \/ observed' = [observed EXCEPT ![Key(i)].phase = "Down"]
          \/ observed' = [observed EXCEPT ![Key(i)] = [@ EXCEPT !.phase = "Up", !.changed = FALSE]]
      BY <1>6 DEF NodeReports
    <3>2. observed \in [Keys(rows) -> Observations]
      BY DEF TInv, TypeOK
    <3>. QED  BY <3>1, <3>2, ObservedChanged
  <2>. QED  BY <1>6, <2>1, TypesKept DEF NodeReports, request, TInv, TypeOK
<1>7. CASE UNCHANGED vars
  BY <1>7, TypesKept DEF vars, store, request, TInv, TypeOK
<1>. QED
  BY <1>1, <1>2, <1>3, <1>4, <1>5, <1>6, <1>7, CommitTypes, DeleteTypes DEF Next, Handler

LEMMA TInvHolds == Spec => []TInv
<1>1. Init => TInv
  BY ApplyConstants, NoDocIsNoDoc, FS_EmptySet DEF Init, TInv, TypeOK, Keys
<1>. QED  BY <1>1, TypesNext, PInvHolds, PTL DEF Spec

\* In every reachable state rows have their documents' shape, are unique, belong
\* to stored stacks, and the request holds what its step needs.
THEOREM StackApplyTyped == Spec => []TypeOK
  BY TInvHolds, PTL DEF TInv

-----------------------------------------------------------------------------
(***************************************************************************)
(* What fits.  A plan is checked against the bound instances of the other  *)
(* stacks and replaces its own, the scheduler subtracts what it binds from *)
(* what was left, and nothing else binds.  What either leaves out of its   *)
(* sum is skipped from then on; the rest always fits, and between commit   *)
(* and scheduling so does it with all rows of the stack.                   *)
(***************************************************************************)
OwnRows(s) == {i \in rows : i.stack = s}
OnlyTheseSkipped ==
    \A i \in rows : observed[Key(i)].skipped => i.never \/ i.node = "this"

FitInv ==
    /\ Cpus(Accounted(rows)) <= Capacity
    /\ OnlyTheseSkipped
    /\ pc = "commit" => Cpus(Accounted(OtherStacks(doc.stack, rows))) + Needs(doc) <= Capacity
    /\ pc = "schedule" => Cpus(Accounted(OtherStacks(doc.stack, rows)))
                            + Cpus(OwnRows(doc.stack)) <= Capacity
    /\ pc = "bind" => Cpus(Accounted(rows)) + residual <= Capacity

LEMMA AccountedNat ==
    ASSUME TInv, NEW S \in SUBSET rows
    PROVE  /\ Accounted(S) \in SUBSET rows
           /\ Counted(Accounted(S)) /\ Cpus(Accounted(S)) \in Nat
<1>1. Accounted(S) \in SUBSET rows
  BY DEF Accounted
<1>. QED  BY <1>1, RowsCounted, CpusNat

\* A step that neither binds nor skips changes no sum.
SameAccount ==
    \A i \in rows : /\ observed'[Key(i)].bound = observed[Key(i)].bound
                    /\ observed'[Key(i)].skipped = observed[Key(i)].skipped

LEMMA FitKept ==
    ASSUME FitInv, UNCHANGED rows, SameAccount,
           pc' \in {"commit", "schedule", "bind"} =>
               pc' = pc /\ doc' = doc /\ residual' = residual
    PROVE  FitInv'
<1>1. /\ Accounted(rows)' = Accounted(rows)
      /\ \A s : Accounted(OtherStacks(s, rows))' = Accounted(OtherStacks(s, rows))
      /\ \A s : OwnRows(s)' = OwnRows(s)
  BY DEF Accounted, SameAccount, OtherStacks, OwnRows
<1>2. OnlyTheseSkipped'
  BY DEF FitInv, OnlyTheseSkipped, SameAccount
<1>3. Cpus(Accounted(rows))' = Cpus(Accounted(rows))
  BY <1>1
<1>4. pc' \in {"commit", "schedule"} =>
        /\ Cpus(Accounted(OtherStacks(doc.stack, rows)))'
             = Cpus(Accounted(OtherStacks(doc.stack, rows)))
        /\ Cpus(OwnRows(doc.stack))' = Cpus(OwnRows(doc.stack))
        /\ Needs(doc)' = Needs(doc)
  BY <1>1
<1>. QED  BY <1>2, <1>3, <1>4 DEF FitInv

\* What a sum over S leaves out is skipped, so what is accounted for in S is in
\* the sum, and nothing is accounted for that was not before.
StillAccounted(T) == {i \in T : observed'[Key(i)].bound /\ ~observed'[Key(i)].skipped}

LEMMA RecordedFits ==
    ASSUME TInv, FitInv, NEW S \in SUBSET rows, rows' = rows, observed' = Recorded(S)
    PROVE  /\ Cpus(StillAccounted(S)) \in Nat /\ Reserved(S) \in Nat
           /\ Cpus(StillAccounted(S)) <= Reserved(S)
           /\ Cpus(StillAccounted(rows)) \in Nat /\ Cpus(StillAccounted(rows)) <= Capacity
           /\ OnlyTheseSkipped'
<1>. DEFINE held == {i \in S : observed[Key(i)].bound /\ Holds(i)}
            after(T) == StillAccounted(T)
<1>1. \A i \in rows :
        /\ observed'[Key(i)].bound = observed[Key(i)].bound
        /\ observed'[Key(i)].skipped
             <=> observed[Key(i)].skipped \/ (i \in S /\ Skipped(i))
  BY RecordedFacts
<1>2. after(S) \in SUBSET held /\ after(rows) \in SUBSET Accounted(rows)
  BY <1>1 DEF Accounted, Skipped, StillAccounted
<1>3. Counted(held) /\ Cpus(held) \in Nat /\ Counted(Accounted(rows))
  BY RowsCounted, AccountedNat, CpusNat
<1>4. /\ Cpus(after(S)) \in Nat /\ Cpus(after(S)) <= Cpus(held)
      /\ Cpus(after(rows)) \in Nat /\ Cpus(after(rows)) <= Cpus(Accounted(rows))
  <2>. HIDE DEF held, after
  <2>. QED  BY <1>2, <1>3, CpusNat
<1>5. OnlyTheseSkipped'
  BY <1>1 DEF FitInv, OnlyTheseSkipped, Skipped, Holds
<1>6. Reserved(S) = Cpus(held)
  BY DEF Reserved
<1>7. Cpus(Accounted(rows)) \in Nat /\ Cpus(Accounted(rows)) <= Capacity
  BY AccountedNat DEF FitInv
<1>. QED  BY <1>3, <1>4, <1>5, <1>6, <1>7, ApplyConstants

\* Committing puts the plan in the place of the stack's own rows.
LEMMA FitCommit ==
    ASSUME PInv, TInv, TInv', FitInv, Commit
    PROVE  FitInv'
<1>. DEFINE kept == OtherStacks(doc.stack, rows)
<1>1. /\ pc = "commit" /\ doc \in Docs /\ plan = Resolved(rows, doc)
      /\ rows' = kept \cup plan /\ pc' = "schedule" /\ doc' = doc
      /\ \A i \in kept : observed'[Key(i)] = observed[Key(i)]
      /\ \A i \in plan : i.stack = doc.stack
  BY DEF Commit, TInv, TypeOK, Keys, PInv
<1>2. Accounted(rows)' \subseteq Accounted(kept) \cup plan
  BY <1>1 DEF Accounted
<1>3. Counted(plan) /\ Cpus(plan) = Needs(doc) /\ Needs(doc) \in Nat
  BY <1>1, ResolvedSum
<1>4. Counted(Accounted(kept)) /\ Cpus(Accounted(kept)) \in Nat
  BY AccountedNat DEF OtherStacks
<1>5. Accounted(kept) \cap plan = {}
  BY <1>1 DEF Accounted, OtherStacks
<1>6. /\ Counted(Accounted(kept) \cup plan)
      /\ Cpus(Accounted(kept) \cup plan) = Cpus(Accounted(kept)) + Cpus(plan)
  BY <1>3, <1>4, <1>5, CpusUnion
<1>7. /\ Cpus(Accounted(rows)') \in Nat
      /\ Cpus(Accounted(rows)') <= Cpus(Accounted(kept) \cup plan)
  BY <1>2, <1>6, CpusNat
<1>8. Cpus(Accounted(kept)) + Needs(doc) <= Capacity
  BY <1>1 DEF FitInv
<1>9. Cpus(Accounted(rows)') <= Capacity
  BY <1>3, <1>4, <1>6, <1>7, <1>8, ApplyConstants
<1>10. Accounted(OtherStacks(doc.stack, rows))' = Accounted(kept)
  BY <1>1 DEF Accounted, OtherStacks
<1>11. OwnRows(doc.stack)' = plan
  BY <1>1 DEF OwnRows, OtherStacks
<1>12. ASSUME NEW i \in rows', observed'[Key(i)].skipped
       PROVE  i.never \/ i.node = "this"
  <2>1. CASE i \in kept
    BY <1>1, <1>12, <2>1 DEF FitInv, OnlyTheseSkipped, OtherStacks
  <2>2. CASE i \in plan /\ i \notin kept
    <3>1. Key(i) \notin Keys(kept) /\ Key(i) \in Keys(plan)
      BY <1>1, <2>2 DEF Keys, Key, OtherStacks
    <3>2. PICK r \in plan : Key(r) = Key(i) /\ observed'[Key(i)] = Refreshed(r)
      <4>1. observed' = [k \in Keys(kept) \cup Keys(plan) |->
                           IF k \in Keys(kept) THEN observed[k]
                           ELSE Refreshed(CHOOSE q \in plan : Key(q) = k)]
        BY DEF Commit
      <4>2. observed'[Key(i)] = Refreshed(CHOOSE q \in plan : Key(q) = Key(i))
        BY <3>1, <4>1
      <4>3. \E q \in plan : Key(q) = Key(i)
        BY <2>2
      <4>. QED  BY <4>2, <4>3
    <3>3. ~Refreshed(r).skipped
      <4>1. CASE Key(r) \in Keys(rows)
        <5>1. observed[Key(r)] \in Observations
          BY <4>1 DEF TInv, TypeOK
        <5>. QED  BY <4>1, <5>1 DEF Refreshed, Observations
      <4>2. CASE Key(r) \notin Keys(rows)
        BY <4>2 DEF Refreshed, New
      <4>. QED  BY <4>1, <4>2
    <3>. QED  BY <1>12, <3>2, <3>3
  <2>. QED  BY <1>1, <2>1, <2>2
<1>. QED
  BY <1>1, <1>3, <1>8, <1>9, <1>10, <1>11, <1>12 DEF FitInv, OnlyTheseSkipped

\* One row more is bound, out of what was left or else skipped.
LEMMA FitBind ==
    ASSUME PInv, TInv, FitInv, NEW i \in rows, BindNext(i)
    PROVE  FitInv'
<1>1. /\ pc = "bind" /\ pc' = "bind" /\ rows' = rows
      /\ Cpus(Accounted(rows)) + residual <= Capacity
      /\ i.cpus \in Nat /\ residual \in Nat
  BY RowsCounted, ApplyConstants DEF BindNext, FitInv, Counted, TInv, TypeOK
<1>2. Counted(Accounted(rows)) /\ Cpus(Accounted(rows)) \in Nat
  BY AccountedNat
<1>3. CASE ~Placeable(i)
  <2>1. SameAccount /\ residual' = residual /\ doc' = doc
    BY <1>3 DEF BindNext, SameAccount
  <2>. QED  BY <1>1, <2>1, FitKept
<1>4. CASE Placeable(i)
  <2>1. /\ observed' = [observed EXCEPT ![Key(i)].bound = TRUE,
                                        ![Key(i)].skipped = i.cpus > residual]
        /\ residual' = Left(i)
    BY <1>4 DEF BindNext
  <2>2. observed \in [Keys(rows) -> Observations] /\ \A j \in rows : Key(j) \in Keys(rows)
    BY DEF TInv, TypeOK, Keys
  <2>3. \A j \in rows : j # i => observed'[Key(j)] = observed[Key(j)]
    <3>1. \A j \in rows : j # i => Key(j) # Key(i)
      BY DEF PInv, UniqueKeys
    <3>. QED  BY <2>1, <2>2, <3>1
  <2>4. observed'[Key(i)].bound /\ (observed'[Key(i)].skipped <=> i.cpus > residual)
    BY <2>1, <2>2 DEF Observations
  <2>5. CASE i.cpus > residual
    <3>1. i.node = "this"
      BY <1>1, <1>4, <2>5 DEF Placeable
    <3>2. Accounted(rows)' \subseteq Accounted(rows)
      BY <1>1, <2>3, <2>4, <2>5 DEF Accounted
    <3>3. Cpus(Accounted(rows)') \in Nat /\ Cpus(Accounted(rows)') <= Cpus(Accounted(rows))
      BY <1>2, <3>2, CpusNat
    <3>4. residual' = 0
      BY <1>1, <2>1, <2>5 DEF Left
    <3>5. OnlyTheseSkipped'
      BY <1>1, <2>3, <3>1 DEF FitInv, OnlyTheseSkipped
    <3>. QED  BY <1>1, <1>2, <3>3, <3>4, <3>5, ApplyConstants DEF FitInv
  <2>6. CASE ~(i.cpus > residual)
    <3>1. i.cpus <= residual /\ residual' = residual - i.cpus
      BY <1>1, <2>1, <2>6 DEF Left
    <3>2. Accounted(rows)' \subseteq (Accounted(rows) \ {i}) \cup {i}
      BY <1>1, <2>3 DEF Accounted
    <3>3. /\ Counted(Accounted(rows) \ {i}) /\ Cpus(Accounted(rows) \ {i}) \in Nat
          /\ Cpus(Accounted(rows) \ {i}) <= Cpus(Accounted(rows))
      BY <1>2, CpusNat
    <3>4. Counted({i}) /\ Cpus({i}) = i.cpus
      BY <1>1, CpusSingle
    <3>5. /\ Counted((Accounted(rows) \ {i}) \cup {i})
          /\ Cpus((Accounted(rows) \ {i}) \cup {i}) = Cpus(Accounted(rows) \ {i}) + Cpus({i})
      BY <3>3, <3>4, CpusUnion
    <3>6. /\ Cpus(Accounted(rows)') \in Nat
          /\ Cpus(Accounted(rows)') <= Cpus((Accounted(rows) \ {i}) \cup {i})
      BY <3>2, <3>5, CpusNat
    <3>7. Cpus(Accounted(rows)') + residual' <= Capacity /\ residual' \in Nat
      BY <1>1, <1>2, <3>1, <3>3, <3>4, <3>5, <3>6, ApplyConstants
    <3>8. OnlyTheseSkipped'
      BY <1>1, <2>3, <2>4, <2>6 DEF FitInv, OnlyTheseSkipped
    <3>. QED  BY <1>1, <3>6, <3>7, <3>8, ApplyConstants DEF FitInv
  <2>. QED  BY <2>5, <2>6
<1>. QED  BY <1>3, <1>4

LEMMA FitNext ==
    ASSUME PInv, TInv, TInv', FitInv, [Next]_vars
    PROVE  FitInv'
<1>1. ASSUME NEW d \in Docs, BeginApply(d) PROVE FitInv'
  BY <1>1, FitKept DEF BeginApply, store, SameAccount
<1>2. CASE PlanStack
  <2>. DEFINE others == OtherStacks(doc.stack, rows)
  <2>1. /\ rows' = rows /\ doc' = doc /\ pc' = "commit" /\ doc \in Docs
        /\ ReservedByOthers(doc) + Needs(doc) <= Capacity
        /\ observed' = Recorded(others) /\ others \in SUBSET rows
    BY <1>2 DEF PlanStack, Plannable, OtherStacks, TInv, TypeOK
  <2>2. ReservedByOthers(doc) = Reserved(others)
    BY DEF ReservedByOthers, OtherStacks
  <2>3. /\ Cpus(StillAccounted(others)) \in Nat /\ Reserved(others) \in Nat
        /\ Cpus(StillAccounted(others)) <= Reserved(others)
        /\ Cpus(StillAccounted(rows)) <= Capacity /\ OnlyTheseSkipped'
    <3>. HIDE DEF others
    <3>. QED  BY <2>1, RecordedFits
  <2>4. Needs(doc) \in Nat
    BY <2>1, ResolvedSum
  <2>5. Cpus(StillAccounted(others)) + Needs(doc) <= Capacity
    BY <2>1, <2>2, <2>3, <2>4, ApplyConstants
  <2>6. /\ Accounted(OtherStacks(doc.stack, rows))' = StillAccounted(others)
        /\ Accounted(rows)' = StillAccounted(rows)
    BY <2>1 DEF Accounted, StillAccounted, OtherStacks
  <2>. QED  BY <2>1, <2>3, <2>5, <2>6 DEF FitInv
<1>3. CASE RefuseApply \/ CommitConflict \/ FinishApply \/ Cancel
  BY <1>3, FitKept
  DEF RefuseApply, CommitConflict, FinishApply, Cancel, Release, store, SameAccount
<1>4. CASE ListPending
  <2>1. /\ rows' = rows /\ pc' = "bind" /\ observed' = Recorded(rows)
        /\ residual' = IF Reserved(rows) <= Capacity THEN Capacity - Reserved(rows) ELSE 0
    BY <1>4 DEF ListPending
  <2>2. /\ Cpus(Accounted(rows)') \in Nat /\ Reserved(rows) \in Nat
        /\ Cpus(Accounted(rows)') <= Reserved(rows) /\ Cpus(Accounted(rows)') <= Capacity
        /\ OnlyTheseSkipped'
    <3>1. Accounted(rows)' = StillAccounted(rows)
      BY <2>1 DEF Accounted, StillAccounted
    <3>. QED  BY <2>1, <3>1, RecordedFits
  <2>3. Cpus(Accounted(rows)') + residual' <= Capacity
    BY <2>1, <2>2, ApplyConstants
  <2>. QED  BY <2>1, <2>2, <2>3 DEF FitInv
<1>5. ASSUME NEW s \in Stacks, DeleteStack(s) PROVE FitInv'
  <2>1. /\ rows' \subseteq rows /\ pc' = "idle"
        /\ \A i \in rows' : observed'[Key(i)] = observed[Key(i)]
    BY <1>5 DEF DeleteStack, request, OtherStacks, Keys
  <2>2. Accounted(rows)' \subseteq Accounted(rows)
    BY <2>1 DEF Accounted
  <2>3. Counted(Accounted(rows)) /\ Cpus(Accounted(rows)) \in Nat
    BY AccountedNat
  <2>4. Cpus(Accounted(rows)') \in Nat /\ Cpus(Accounted(rows)') <= Cpus(Accounted(rows))
    BY <2>2, <2>3, CpusNat
  <2>5. OnlyTheseSkipped'
    BY <2>1 DEF FitInv, OnlyTheseSkipped
  <2>. QED  BY <2>1, <2>3, <2>4, <2>5, ApplyConstants DEF FitInv
<1>6. ASSUME NEW i \in rows, NodeReports(i) PROVE FitInv'
  <2>1. SameAccount
    <3>1. observed \in [Keys(rows) -> Observations] /\ \A j \in rows : Key(j) \in Keys(rows)
      BY DEF TInv, TypeOK, Keys
    <3>2. \A j \in rows : observed[Key(j)] \in Observations
      BY <3>1
    <3>. QED  BY ZenonT(40), <1>6, <3>1, <3>2 DEF NodeReports, SameAccount, Observations
  <2>. QED  BY <1>6, <2>1, FitKept DEF NodeReports, request
<1>7. CASE UNCHANGED vars
  BY <1>7, FitKept DEF vars, store, request, SameAccount
<1>. QED
  BY <1>1, <1>2, <1>3, <1>4, <1>5, <1>6, <1>7, FitCommit, FitBind DEF Next, Handler

\* The rows an apply has just committed fit, bound or pending, beside the rest.
LEMMA FitMeansAccepted ==
    ASSUME TInv, FitInv
    PROVE  AcceptedFits
<1>. DEFINE others == Accounted(OtherStacks(doc.stack, rows))
            own    == OwnRows(doc.stack)
            bound  == Accounted(own)
            room   == {i \in Pending : i.stack = doc.stack /\ i.node # "other"}
<1>. SUFFICES ASSUME pc = "schedule"
              PROVE  Cpus(Accounted(rows)) + Cpus(room) <= Capacity
  BY DEF AcceptedFits
<1>1. Counted(rows) /\ others \in SUBSET rows /\ own \in SUBSET rows
  BY RowsCounted DEF Accounted, OtherStacks, OwnRows
<1>2. /\ Counted(others) /\ Cpus(others) \in Nat
      /\ Counted(own) /\ Cpus(own) \in Nat
  <2>. HIDE DEF others, own
  <2>. QED  BY <1>1, CpusNat
<1>3. bound \in SUBSET own /\ room \in SUBSET own /\ bound \cap room = {}
  BY DEF Accounted, OwnRows, Pending
<1>4. Accounted(rows) = others \cup bound /\ others \cap bound = {}
  BY DEF Accounted, OtherStacks, OwnRows
<1>5. Cpus(others) + Cpus(own) <= Capacity
  BY DEF FitInv
<1>. HIDE DEF others, own, bound, room
<1>6. Counted(bound) /\ Counted(room) /\ Cpus(bound) \in Nat /\ Cpus(room) \in Nat
  BY <1>2, <1>3, CpusNat
<1>7. Cpus(bound \cup room) = Cpus(bound) + Cpus(room)
  BY <1>3, <1>6, CpusUnion
<1>8. bound \cup room \in SUBSET own
  BY <1>3
<1>9. Cpus(bound \cup room) <= Cpus(own)
  BY <1>2, <1>8, CpusNat
<1>10. Cpus(Accounted(rows)) = Cpus(others) + Cpus(bound)
  BY <1>2, <1>4, <1>6, CpusUnion
<1>. QED  BY <1>2, <1>5, <1>6, <1>7, <1>9, <1>10, ApplyConstants

LEMMA FitHolds == Spec => []FitInv
<1>1. Init => FitInv
  BY CpusEmpty, ApplyConstants DEF Init, FitInv, Accounted, OnlyTheseSkipped
<1>. QED  BY <1>1, FitNext, PInvHolds, TInvHolds, PTL DEF Spec

\* Of any documents, restarted or not, pinned or not: what an apply commits fits
\* beside all that is accounted for (plan_stack, run_scheduler).
THEOREM AcceptedAppliesFit == Spec => []AcceptedFits
  BY FitMeansAccepted, FitHolds, TInvHolds, PTL

\* Of any documents: what bound instances were given fits the node in every
\* state, except what a later apply counted for nothing while it was down for
\* good, or a pin bound beyond the room there was; no other instance is ever
\* excepted (apply.rs:276-361, scheduler.rs:21-64, 105-151).
THEOREM CapacityIsRespected == Spec => []CapacityRespected
<1>1. TInv /\ FitInv => CapacityRespected
  BY FitMeansAccepted DEF CapacityRespected, FitInv, OnlyTheseSkipped
<1>. QED  BY <1>1, FitHolds, TInvHolds, PTL

-----------------------------------------------------------------------------
(***************************************************************************)
(* Re-applying.  Requests for ports are numbered replica by replica, entry *)
(* by entry.                                                               *)
(***************************************************************************)
Requests(svc)   == svc.scale * Len(svc.ports)
OrdOf(svc, j)   == (j - 1) \div Len(svc.ports)
EntryOf(svc, j) == svc.ports[((j - 1) % Len(svc.ports)) + 1]

-----------------------------------------------------------------------------
(***************************************************************************)
(* The allocation is a fold over the requests' numbers in order.           *)
(***************************************************************************)
Asked(instances, d, v, used, j) ==
    Candidate(Existing(instances, d, v), Taken(instances, d, v), used,
              OrdOf(d.services[v], j), EntryOf(d.services[v], j))

Granted(instances, d, v, done, j) ==
    LET used == {done[k] : k \in DOMAIN done}
        cand == Asked(instances, d, v, used, j)
    IN IF Len(done) = j - 1 /\ cand \in (1..MaxPort) \ (Taken(instances, d, v) \cup used)
       THEN Append(done, cand) ELSE done

\* h allocates for every set of requests within S, the last one last.
GrantsUp(h, instances, d, v, S) ==
    h = [s \in SUBSET S |->
           IF s = {} THEN <<>> ELSE Granted(instances, d, v, h[s \ {Max(s)}], Max(s))]

\* Every set of requests has its allocation.
LEMMA GrantsExist ==
    ASSUME NEW instances, NEW d, NEW v, NEW n \in Nat
    PROVE  \E h : GrantsUp(h, instances, d, v, 1..n)
<1>. DEFINE All == 1..n
            B == {s \in SUBSET All : ~ \E h : GrantsUp(h, instances, d, v, s)}
<1>0. IsFiniteSet(All)
  BY FS_Interval
<1>1. ASSUME B # {} PROVE FALSE
  <2>1. PICK T \in B : \A U \in SUBSET T : U # T => U \notin B
    <3>1. B \in SUBSET (SUBSET All)
      OBVIOUS
    <3>. HIDE DEF B, All
    <3>. QED  BY <1>0, <1>1, <3>1, SmallestSubset
  <2>2. T # {}
    <3>1. ASSUME T = {} PROVE FALSE
      <4>. DEFINE g == [s \in SUBSET T |-> <<>>]
      <4>1. GrantsUp(g, instances, d, v, T)
        BY <3>1 DEF GrantsUp
      <4>. QED  BY <4>1
    <3>. QED  BY <3>1
  <2>. DEFINE m == Max(T)
              R == T \ {m}
  <2>3. m \in T /\ R \in SUBSET T /\ R # T /\ R \in SUBSET All
    BY <2>2, MaxIn
  <2>4. PICK h : GrantsUp(h, instances, d, v, R)
    <3>. HIDE DEF m, R, All
    <3>. QED  BY <2>1, <2>3
  <2>5. ASSUME NEW s \in SUBSET T
        PROVE  /\ m \in s => Max(s) = m /\ s \ {m} \in SUBSET R
               /\ m \notin s => s \in SUBSET R /\ (s # {} => Max(s) \in s)
    <3>1. s # {} => Max(s) \in s /\ \A y \in s : Max(s) >= y
      BY MaxIn
    <3>2. \A y \in T : m >= y
      BY <2>2, MaxIn
    <3>3. T \in SUBSET (1..n)
      BY <2>1
    <3>4. m \in s => m >= Max(s) /\ Max(s) >= m /\ m \in 1..n /\ Max(s) \in 1..n
      <4>. HIDE DEF m
      <4>. QED  BY <3>1, <3>2, <3>3
    <3>5. m \in s => Max(s) = m
      <4>. HIDE DEF m
      <4>. QED  BY <3>4
    <3>6. s # {} => Max(s) \in s
      BY <3>1
    <3>. HIDE DEF m
    <3>. QED  BY <3>5, <3>6
  <2>. DEFINE V(s) == IF m \in s THEN Granted(instances, d, v, h[s \ {m}], m) ELSE h[s]
              k == [s \in SUBSET T |-> V(s)]
  <2>6. ASSUME NEW s \in SUBSET T
        PROVE  k[s] = IF s = {} THEN <<>>
                      ELSE Granted(instances, d, v, k[s \ {Max(s)}], Max(s))
    <3>0. k[s] = V(s)
      OBVIOUS
    <3>1. CASE m \in s
      <4>1. k[s \ {m}] = h[s \ {m}]
        <5>1. s \ {m} \in SUBSET T
          OBVIOUS
        <5>2. m \notin s \ {m}
          OBVIOUS
        <5>. QED  BY <5>1, <5>2
      <4>2. Max(s) = m /\ s # {}
        BY <2>5, <3>1
      <4>3. V(s) = Granted(instances, d, v, h[s \ {m}], m)
        BY <3>1
      <4>. HIDE DEF k, V, m
      <4>. QED  BY <3>0, <4>1, <4>2, <4>3
    <3>2. CASE m \notin s
      <4>1. s \in SUBSET R /\ V(s) = h[s]
        BY <2>5, <3>2
      <4>2. h[s] = IF s = {} THEN <<>>
                   ELSE Granted(instances, d, v, h[s \ {Max(s)}], Max(s))
        <5>. HIDE DEF V, k, m, R
        <5>. QED  BY <2>4, <4>1 DEF GrantsUp
      <4>3. k[s \ {Max(s)}] = h[s \ {Max(s)}]
        <5>1. s \ {Max(s)} \in SUBSET T /\ m \notin s \ {Max(s)}
          BY <3>2
        <5>. QED  BY <5>1
      <4>. HIDE DEF k, V, m
      <4>. QED  BY <3>0, <4>1, <4>2, <4>3
    <3>. QED  BY <3>1, <3>2
  <2>7. k = [s \in SUBSET T |-> k[s]]
    OBVIOUS
  <2>. HIDE DEF k
  <2>8. GrantsUp(k, instances, d, v, T)
    BY <2>6, <2>7 DEF GrantsUp
  <2>. QED  BY <2>8
<1>2. \E h : GrantsUp(h, instances, d, v, All)
  <2>. HIDE DEF All
  <2>. QED  BY <1>1
<1>. QED  BY <1>2

\* Request by request: the allocation is what n grants make of nothing.
LEMMA AllocationGrants ==
    ASSUME NEW instances, NEW d, NEW v, NEW n \in Nat, n = Requests(d.services[v])
    PROVE  \E g : /\ g[0] = <<>>
                  /\ \A m \in 1..n : g[m] = Granted(instances, d, v, g[m - 1], m)
                  /\ Allocation(instances, d, v) = g[n]
<1>. DEFINE h == CHOOSE h : GrantsUp(h, instances, d, v, 1..n)
            g == [m \in 0..n |-> h[1..m]]
<1>1. GrantsUp(h, instances, d, v, 1..n)
  <2>1. \E k : GrantsUp(k, instances, d, v, 1..n)
    BY GrantsExist
  <2>. QED  BY <2>1
<1>2. Allocation(instances, d, v) = h[1..n]
  <2>1. ASSUME NEW k
        PROVE  GrantsUp(k, instances, d, v, 1..n) <=>
                 k = [s \in SUBSET (1..n) |->
                        IF s = {} THEN <<>>
                        ELSE LET x == Max(s) IN
                             Granted(instances, d, v, k[s \ {x}], [j \in 1..n |-> j][x])]
    <3>1. ASSUME NEW s \in SUBSET (1..n), s # {}
          PROVE  [j \in 1..n |-> j][Max(s)] = Max(s)
      BY <3>1, MaxIn
    <3>. QED  BY <3>1 DEF GrantsUp
  <2>. DEFINE grants(k, c) == k = [s \in SUBSET (1..c) |->
                        IF s = {} THEN <<>>
                        ELSE LET x == Max(s) IN
                             Granted(instances, d, v, k[s \ {x}], [j \in 1..c |-> j][x])]
              r == Requests(d.services[v])
  <2>2. Allocation(instances, d, v) = (CHOOSE k : grants(k, r))[1..r]
    BY Zenon DEF Allocation, FoldLeft, MapThenFoldSet, Granted, Asked, OrdOf, EntryOf, Requests
  <2>3. \A k : GrantsUp(k, instances, d, v, 1..n) <=> grants(k, n)
    BY <2>1
  <2>. HIDE DEF grants
  <2>. QED  BY <2>2, <2>3
<1>. HIDE DEF h
<1>3. g[0] = <<>>
  <2>1. g[0] = h[1..0] /\ 1..0 = {} /\ {} \in SUBSET (1..n)
    OBVIOUS
  <2>2. h[{}] = <<>>
    <3>. HIDE DEF g
    <3>. QED  BY <1>1, <2>1 DEF GrantsUp
  <2>. QED  BY <2>1, <2>2
<1>4. ASSUME NEW m \in 1..n PROVE g[m] = Granted(instances, d, v, g[m - 1], m)
  <2>1. g[m] = h[1..m] /\ g[m - 1] = h[1..(m - 1)]
    OBVIOUS
  <2>2. 1..m \in SUBSET (1..n) /\ 1..m # {}
    OBVIOUS
  <2>3. Max(1..m) = m
    <3>1. Max(1..m) \in 1..m /\ \A y \in 1..m : Max(1..m) >= y
      <4>. HIDE DEF g
      <4>. QED  BY <2>2, MaxIn
    <3>. QED  BY <3>1
  <2>4. (1..m) \ {m} = 1..(m - 1)
    OBVIOUS
  <2>5. h[1..m] = IF 1..m = {} THEN <<>>
                  ELSE Granted(instances, d, v, h[(1..m) \ {Max(1..m)}], Max(1..m))
    <3>. HIDE DEF g
    <3>. QED  BY <1>1, <2>2 DEF GrantsUp
  <2>. QED  BY <2>1, <2>2, <2>3, <2>4, <2>5
<1>5. Allocation(instances, d, v) = g[n]
  BY <1>2
<1>. HIDE DEF g
<1>. QED  BY <1>3, <1>4, <1>5

-----------------------------------------------------------------------------
(***************************************************************************)
(* What an allocation is: each port is the candidate of its request after  *)
(* the ports before it, and free.                                          *)
(***************************************************************************)
Fair(instances, d, v, s, j) ==
    LET used == {s[k] : k \in 1..(j - 1)}
    IN /\ s[j] = Asked(instances, d, v, used, j)
       /\ s[j] \in (1..MaxPort) \ (Taken(instances, d, v) \cup used)

\* Whether a request is fairly served depends on what is served before it.
LEMMA FairSame ==
    ASSUME NEW instances, NEW d, NEW v, NEW s, NEW t, NEW j \in Nat \ {0},
           \A k \in 1..j : s[k] = t[k], Fair(instances, d, v, s, j)
    PROVE  Fair(instances, d, v, t, j)
<1>1. {s[k] : k \in 1..(j - 1)} = {t[k] : k \in 1..(j - 1)}
  OBVIOUS
<1>2. s[j] = t[j]
  OBVIOUS
<1>. QED  BY <1>1, <1>2 DEF Fair

FairSoFar(instances, d, v, s, m) ==
    /\ s \in Seq(1..MaxPort) /\ Len(s) <= m
    /\ \A j \in 1..Len(s) : Fair(instances, d, v, s, j)

\* Serving one more request keeps the others fairly served.
LEMMA GrantedFair ==
    ASSUME NEW instances, NEW d, NEW v, NEW done, NEW m \in Nat \ {0},
           FairSoFar(instances, d, v, done, m - 1)
    PROVE  FairSoFar(instances, d, v, Granted(instances, d, v, done, m), m)
<1>. DEFINE used == {done[k] : k \in DOMAIN done}
            cand == Asked(instances, d, v, used, m)
            fits == /\ Len(done) = m - 1
                    /\ cand \in (1..MaxPort) \ (Taken(instances, d, v) \cup used)
            more == Append(done, cand)
<1>1. done \in Seq(1..MaxPort) /\ Len(done) \in Nat /\ Len(done) <= m - 1
  BY DEF FairSoFar
<1>2. CASE fits
  <2>1. Granted(instances, d, v, done, m) = more
    BY <1>2 DEF Granted
  <2>2. more \in Seq(1..MaxPort) /\ Len(more) = m /\ more[m] = cand
        /\ \A k \in 1..(m - 1) : more[k] = done[k]
    <3>1. cand \in 1..MaxPort
      BY <1>2
    <3>. HIDE DEF cand
    <3>. QED  BY <1>1, <1>2, <3>1, AppendProperties
  <2>3. ASSUME NEW j \in 1..m PROVE Fair(instances, d, v, more, j)
    <3>1. CASE j = m
      <4>1. {more[k] : k \in 1..(m - 1)} = used
        <5>1. DOMAIN done = 1..(m - 1)
          BY <1>1, <1>2
        <5>. HIDE DEF more
        <5>. QED  BY <2>2, <5>1
      <4>. HIDE DEF more, used
      <4>. QED  BY <1>2, <2>2, <3>1, <4>1 DEF Fair
    <3>2. CASE j # m
      <4>1. j \in 1..(m - 1) /\ j \in Nat \ {0}
        BY <3>2
      <4>2. Fair(instances, d, v, done, j)
        BY <1>2, <4>1 DEF FairSoFar
      <4>3. \A k \in 1..j : done[k] = more[k]
        BY <2>2, <4>1
      <4>. HIDE DEF more
      <4>. QED  BY <4>1, <4>2, <4>3, FairSame
    <3>. QED  BY <3>1, <3>2
  <2>. HIDE DEF more
  <2>. QED  BY <2>1, <2>2, <2>3 DEF FairSoFar
<1>3. CASE ~fits
  <2>1. Granted(instances, d, v, done, m) = done
    BY <1>3 DEF Granted
  <2>. QED  BY <1>1, <2>1 DEF FairSoFar
<1>. QED  BY <1>2, <1>3

\* What was allocated in full is fair.
LEMMA AllocatedIsFair ==
    ASSUME NEW instances, NEW d, NEW v, NEW n \in Nat, n = Requests(d.services[v]),
           Allocated(instances, d, v)
    PROVE  /\ Allocation(instances, d, v) \in Seq(1..MaxPort)
           /\ Len(Allocation(instances, d, v)) = n
           /\ \A j \in 1..n : Fair(instances, d, v, Allocation(instances, d, v), j)
<1>1. PICK g : /\ g[0] = <<>>
               /\ \A m \in 1..n : g[m] = Granted(instances, d, v, g[m - 1], m)
               /\ Allocation(instances, d, v) = g[n]
  BY AllocationGrants
<1>. DEFINE B == {m \in 0..n : ~FairSoFar(instances, d, v, g[m], m)}
<1>2. ASSUME B # {} PROVE FALSE
  <2>1. PICK m \in B : \A y \in B : m <= y
    <3>1. B \in SUBSET Nat
      OBVIOUS
    <3>. HIDE DEF B
    <3>. QED  BY <1>2, <3>1, LeastIn
  <2>2. m # 0
    <3>1. FairSoFar(instances, d, v, <<>>, 0)
      BY DEF FairSoFar
    <3>. QED  BY <1>1, <2>1, <3>1
  <2>3. m - 1 \in 0..n /\ m - 1 \notin B /\ m \in 1..n /\ m \in Nat \ {0}
    BY <2>1, <2>2
  <2>4. FairSoFar(instances, d, v, g[m - 1], m - 1)
    BY <2>3
  <2>5. FairSoFar(instances, d, v, g[m], m)
    BY <1>1, <2>3, <2>4, GrantedFair
  <2>. QED  BY <2>1, <2>5
<1>3. FairSoFar(instances, d, v, g[n], n)
  BY <1>2
<1>4. Len(Allocation(instances, d, v)) = n
  BY DEF Allocated, Requests
<1>. QED  BY <1>1, <1>3, <1>4 DEF FairSoFar

\* There is one fair sequence of ports for all requests.
LEMMA FairIsAllocated ==
    ASSUME NEW instances, NEW d, NEW v, NEW n \in Nat, n = Requests(d.services[v]),
           NEW s \in Seq(1..MaxPort), Len(s) = n,
           \A j \in 1..n : Fair(instances, d, v, s, j)
    PROVE  Allocation(instances, d, v) = s /\ Allocated(instances, d, v)
<1>1. PICK g : /\ g[0] = <<>>
               /\ \A m \in 1..n : g[m] = Granted(instances, d, v, g[m - 1], m)
               /\ Allocation(instances, d, v) = g[n]
  BY AllocationGrants
<1>. DEFINE Prefix(m) == [k \in 1..m |-> s[k]]
            B == {m \in 0..n : g[m] # Prefix(m)}
<1>2. ASSUME B # {} PROVE FALSE
  <2>1. PICK m \in B : \A y \in B : m <= y
    <3>1. B \in SUBSET Nat
      OBVIOUS
    <3>. HIDE DEF B
    <3>. QED  BY <1>2, <3>1, LeastIn
  <2>2. m # 0
    <3>1. Prefix(0) = <<>>
      OBVIOUS
    <3>. QED  BY <1>1, <2>1, <3>1
  <2>3. m - 1 \in 0..n /\ m - 1 \notin B /\ m \in 1..n /\ m \in Nat \ {0}
    BY <2>1, <2>2
  <2>. DEFINE done == Prefix(m - 1)
              used == {done[k] : k \in DOMAIN done}
  <2>4. g[m] = Granted(instances, d, v, done, m)
    BY <1>1, <2>3
  <2>5. done \in Seq(1..MaxPort) /\ Len(done) = m - 1 /\ DOMAIN done = 1..(m - 1)
        /\ \A k \in 1..(m - 1) : done[k] = s[k]
    <3>1. \A k \in 1..(m - 1) : s[k] \in 1..MaxPort
      <4>. HIDE DEF B, Prefix
      <4>1. \A k \in 1..Len(s) : s[k] \in 1..MaxPort
        BY ElementOfSeq
      <4>. QED  BY <2>3, <4>1
    <3>. QED  BY <2>3, <3>1
  <2>6. used = {s[k] : k \in 1..(m - 1)}
    <3>. HIDE DEF done
    <3>. QED  BY <2>5
  <2>. HIDE DEF used
  <2>7. /\ s[m] = Asked(instances, d, v, used, m)
        /\ s[m] \in (1..MaxPort) \ (Taken(instances, d, v) \cup used)
    BY <2>3, <2>6 DEF Fair
  <2>8. Granted(instances, d, v, done, m) = Append(done, s[m])
    <3>. HIDE DEF done
    <3>. QED  BY <2>5, <2>7 DEF Granted, used
  <2>9. Append(done, s[m]) = Prefix(m)
    <3>1. Len(done) = m - 1 /\ Len(done) + 1 = m
      BY <2>3, <2>5
    <3>. QED  BY <2>3, <2>5, <3>1
  <2>. QED  BY <2>1, <2>4, <2>8, <2>9
<1>3. g[n] = Prefix(n)
  <2>1. B = {}
    <3>. HIDE DEF B
    <3>. QED  BY <1>2
  <2>2. n \in 0..n
    OBVIOUS
  <2>. HIDE DEF Prefix
  <2>. QED  BY <2>1, <2>2
<1>4. Prefix(n) = s
  OBVIOUS
<1>. QED  BY <1>1, <1>3, <1>4 DEF Allocated, Requests

-----------------------------------------------------------------------------
(***************************************************************************)
(* The instances made of ports given to the services of a document.        *)
(***************************************************************************)
Placed(d, v, ord, s) ==
    LET svc == d.services[v]
    IN [stack |-> d.stack, service |-> v, ordinal |-> ord,
        ports |-> [k \in DOMAIN svc.ports |->
                     [svc.ports[k] EXCEPT !.published = s[ord * Len(svc.ports) + k]]],
        expose |-> svc.expose, cpus |-> svc.cpus, never |-> svc.never,
        node |-> svc.node]

PlacedAll(d, g) ==
    UNION {{Placed(d, v, ord, g[v]) : ord \in 0..(d.services[v].scale - 1)} :
           v \in DOMAIN d.services}

\* A resolved plan is made of the ports allocated.
LEMMA ResolvedPlaced ==
    ASSUME NEW instances, NEW d
    PROVE  Resolved(instances, d)
             = PlacedAll(d, [v \in DOMAIN d.services |-> Allocation(instances, d, v)])
<1>. DEFINE g == [v \in DOMAIN d.services |-> Allocation(instances, d, v)]
<1>1. \A v \in DOMAIN d.services : \A ord :
        Replica(instances, d, v, ord) = Placed(d, v, ord, g[v])
  BY DEF Replica, Placed
<1>. HIDE DEF g
<1>2. Resolved(instances, d) = PlacedAll(d, g)
  BY <1>1 DEF Resolved, PlacedAll
<1>. QED  BY <1>2 DEF g

\* A request is an entry of a replica.
LEMMA RequestFacts ==
    ASSUME NEW d \in Docs, NEW v \in DOMAIN d.services
    PROVE  LET svc == d.services[v]
               n   == Len(svc.ports)
           IN /\ Requests(svc) \in Nat /\ n \in Nat
              /\ DOMAIN svc.ports = 1..n
              /\ \A k \in 1..n : IsEntry(svc.ports[k])
              /\ \A j \in 1..Requests(svc) :
                    /\ OrdOf(svc, j) \in 0..(svc.scale - 1)
                    /\ \E k \in 1..n : /\ j = OrdOf(svc, j) * n + k
                                       /\ EntryOf(svc, j) = svc.ports[k]
              /\ \A ord \in 0..(svc.scale - 1), k \in 1..n :
                    /\ ord * n + k \in 1..Requests(svc)
                    /\ OrdOf(svc, ord * n + k) = ord
                    /\ EntryOf(svc, ord * n + k) = svc.ports[k]
<1>. DEFINE svc == d.services[v]
            n == Len(svc.ports)
            c == svc.scale
<1>1. c \in Nat /\ svc.ports \in Seq(Range(svc.ports))
      /\ \A k \in DOMAIN svc.ports : IsEntry(svc.ports[k])
  BY DocsAreValid
<1>2. n \in Nat /\ DOMAIN svc.ports = 1..n
  BY <1>1, LenProperties
<1>. HIDE DEF n, c, svc
<1>3. Requests(svc) = c * n /\ c * n \in Nat
  BY <1>1, <1>2 DEF Requests, n, c
<1>4. ASSUME NEW j \in 1..Requests(svc)
      PROVE  /\ OrdOf(svc, j) \in 0..(c - 1)
             /\ \E k \in 1..n : /\ j = OrdOf(svc, j) * n + k
                                /\ EntryOf(svc, j) = svc.ports[k]
  <2>1. /\ n # 0
        /\ (j - 1) \div n \in 0..(c - 1)
        /\ (j - 1) % n \in 0..(n - 1)
        /\ j = ((j - 1) \div n) * n + (((j - 1) % n) + 1)
    BY <1>1, <1>2, <1>3, SlotOf
  <2>2. ((j - 1) % n) + 1 \in 1..n
    BY <1>2, <2>1
  <2>3. OrdOf(svc, j) = (j - 1) \div n /\ EntryOf(svc, j) = svc.ports[((j - 1) % n) + 1]
    BY DEF OrdOf, EntryOf, n
  <2>. QED  BY <2>1, <2>2, <2>3
<1>5. ASSUME NEW ord \in 0..(c - 1), NEW k \in 1..n
      PROVE  /\ ord * n + k \in 1..Requests(svc)
             /\ OrdOf(svc, ord * n + k) = ord
             /\ EntryOf(svc, ord * n + k) = svc.ports[k]
  <2>1. /\ ord * n + k \in 1..(c * n)
        /\ (ord * n + k - 1) \div n = ord
        /\ ((ord * n + k - 1) % n) + 1 = k
    BY <1>1, <1>2, SlotAt
  <2>2. OrdOf(svc, ord * n + k) = (ord * n + k - 1) \div n
        /\ EntryOf(svc, ord * n + k) = svc.ports[((ord * n + k - 1) % n) + 1]
    BY DEF OrdOf, EntryOf, n
  <2>. QED  BY <1>3, <2>1, <2>2
<1>. QED  BY <1>1, <1>2, <1>3, <1>4, <1>5 DEF n, c, svc

\* The ports of a placed replica are those of its requests.
LEMMA PlacedFacts ==
    ASSUME NEW d \in Docs, NEW v \in DOMAIN d.services, NEW ord, NEW s
    PROVE  LET i == Placed(d, v, ord, s)
               svc == d.services[v]
           IN /\ i.stack = d.stack /\ i.service = v /\ i.ordinal = ord
              /\ i.expose = svc.expose
              /\ Indices(i) = DOMAIN svc.ports
              /\ \A k \in Indices(i) :
                    /\ i.ports[k].published = s[ord * Len(svc.ports) + k]
                    /\ i.ports[k].target = svc.ports[k].target
                    /\ i.ports[k].protocol = svc.ports[k].protocol
<1>. DEFINE i == Placed(d, v, ord, s)
            svc == d.services[v]
<1>1. \A k \in DOMAIN svc.ports :
        svc.ports[k] = [published |-> svc.ports[k].published, target |-> svc.ports[k].target,
                        protocol |-> svc.ports[k].protocol]
  BY DocsAreValid DEF IsEntry
<1>2. i.ports = [k \in DOMAIN svc.ports |->
                   [svc.ports[k] EXCEPT !.published = s[ord * Len(svc.ports) + k]]]
  BY DEF Placed
<1>3. ASSUME NEW k \in DOMAIN svc.ports
      PROVE  /\ i.ports[k].published = s[ord * Len(svc.ports) + k]
             /\ i.ports[k].target = svc.ports[k].target
             /\ i.ports[k].protocol = svc.ports[k].protocol
  <2>. HIDE DEF i, svc
  <2>1. i.ports[k] = [svc.ports[k] EXCEPT !.published = s[ord * Len(svc.ports) + k]]
    BY <1>2
  <2>2. svc.ports[k] = [published |-> svc.ports[k].published, target |-> svc.ports[k].target,
                        protocol |-> svc.ports[k].protocol]
    BY <1>1
  <2>. DEFINE e == svc.ports[k]
  <2>3. e = [published |-> e.published, target |-> e.target, protocol |-> e.protocol]
    BY <2>2
  <2>. HIDE DEF e
  <2>4. \A p : LET f == [e EXCEPT !.published = p]
               IN f.published = p /\ f.target = e.target /\ f.protocol = e.protocol
    BY <2>3
  <2>. QED  BY <2>1, <2>4 DEF e
<1>4. Indices(i) = DOMAIN svc.ports
  BY <1>2 DEF Indices
<1>5. i.stack = d.stack /\ i.service = v /\ i.ordinal = ord /\ i.expose = svc.expose
  BY DEF Placed
<1>. QED  BY <1>3, <1>4, <1>5

\* Such replicas publish what their requests were given, and nothing else.
LEMMA PlacedPublishes ==
    ASSUME NEW d \in Docs, NEW v \in DOMAIN d.services, NEW s
    PROVE  LET svc == d.services[v]
           IN /\ \A ord \in 0..(svc.scale - 1) : \A p \in Published(Placed(d, v, ord, s)) :
                    \E j \in 1..Requests(svc) : p = s[j]
              /\ \A j \in 1..Requests(svc) :
                    s[j] \in Published(Placed(d, v, OrdOf(svc, j), s))
<1>. DEFINE svc == d.services[v]
            n == Len(svc.ports)
<1>1. \A ord : /\ Indices(Placed(d, v, ord, s)) = 1..n
               /\ \A k \in 1..n : Placed(d, v, ord, s).ports[k].published = s[ord * n + k]
  BY RequestFacts, PlacedFacts
<1>2. \A ord : Published(Placed(d, v, ord, s)) = {s[ord * n + k] : k \in 1..n}
  BY <1>1 DEF Published
<1>3. \A ord \in 0..(svc.scale - 1), k \in 1..n : ord * n + k \in 1..Requests(svc)
  BY RequestFacts
<1>4. \A j \in 1..Requests(svc) : \E k \in 1..n : j = OrdOf(svc, j) * n + k
  BY RequestFacts
<1>. QED  BY <1>2, <1>3, <1>4

-----------------------------------------------------------------------------
(***************************************************************************)
(* A stack keeps its ports: its rows are made of ports that everything     *)
(* else leaves free.                                                       *)
(***************************************************************************)
GoodPorts(instances, d, v, s) ==
    LET svc == d.services[v]
    IN /\ s \in Seq(1..MaxPort) /\ Len(s) = Requests(svc)
       /\ \A j, k \in 1..Requests(svc) : s[j] = s[k] => j = k
       /\ \A j \in 1..Requests(svc) :
             /\ s[j] \notin Taken(instances, d, v)
             /\ EntryOf(svc, j).published # 0 =>
                   s[j] = EntryOf(svc, j).published + OrdOf(svc, j)

Keeps(instances, d, g) ==
    /\ {i \in instances : i.stack = d.stack} = PlacedAll(d, g)
    /\ \A v \in DOMAIN d.services : GoodPorts(instances, d, v, g[v])
    /\ \A i \in instances : i.stack # d.stack => i.expose \cap DocExposes(d) = {}

\* An automatic entry's target is no other entry's of the service.
OneTargetEach ==
    \A d \in Docs : \A v \in DOMAIN d.services : \A k, l \in DOMAIN d.services[v].ports :
        /\ d.services[v].ports[k].published = 0
        /\ d.services[v].ports[k].target = d.services[v].ports[l].target
        => k = l

\* An allocation gives free ports, none twice, fixed ones as numbered.
LEMMA AllocationIsGood ==
    ASSUME NEW instances, NEW d \in Docs, NEW v \in DOMAIN d.services,
           Allocated(instances, d, v)
    PROVE  GoodPorts(instances, d, v, Allocation(instances, d, v))
<1>. DEFINE svc == d.services[v]
            n == Requests(svc)
            s == Allocation(instances, d, v)
<1>1. n \in Nat
  BY RequestFacts
<1>2. /\ s \in Seq(1..MaxPort) /\ Len(s) = n
      /\ \A j \in 1..n : Fair(instances, d, v, s, j)
  BY <1>1, AllocatedIsFair
<1>. HIDE DEF s, n, svc
<1>3. \A j \in 1..n : \A k \in 1..(j - 1) : s[j] # s[k]
  BY <1>2 DEF Fair
<1>4. ASSUME NEW j \in 1..n, NEW k \in 1..n, s[j] = s[k] PROVE j = k
  <2>1. ~(k < j) /\ ~(j < k)
    BY <1>1, <1>3, <1>4
  <2>. QED  BY <1>1, <2>1
<1>5. ASSUME NEW j \in 1..n
      PROVE  /\ s[j] \notin Taken(instances, d, v)
             /\ EntryOf(svc, j).published # 0 =>
                   s[j] = EntryOf(svc, j).published + OrdOf(svc, j)
  BY <1>2 DEF Fair, Asked, Candidate, svc
<1>. QED  BY <1>2, <1>4, <1>5 DEF GoodPorts, n, svc, s

\* What the store remembers of an automatic request of a stack that keeps its
\* ports is the port it has.
LEMMA Remembered ==
    ASSUME OneTargetEach, NEW instances, NEW d \in Docs, NEW v \in DOMAIN d.services, NEW g,
           Keeps(instances, d, g), NEW j \in 1..Requests(d.services[v]),
           EntryOf(d.services[v], j).published = 0
    PROVE  {x \in Existing(instances, d, v) :
               x.ordinal = OrdOf(d.services[v], j) /\ x.target = EntryOf(d.services[v], j).target}
             = {[ordinal |-> OrdOf(d.services[v], j), target |-> EntryOf(d.services[v], j).target,
                 published |-> g[v][j]]}
<1>. DEFINE svc == d.services[v]
            n == Len(svc.ports)
            ord == OrdOf(svc, j)
            e == EntryOf(svc, j)
            mine == {i \in instances : SameService(i, d, v)}
            x0 == [ordinal |-> ord, target |-> e.target, published |-> g[v][j]]
<1>1. PICK k \in 1..n : j = ord * n + k /\ e = svc.ports[k]
  BY RequestFacts
<1>2. ord \in 0..(svc.scale - 1) /\ DOMAIN svc.ports = 1..n /\ n \in Nat
  BY RequestFacts
<1>3. mine = {Placed(d, v, o, g[v]) : o \in 0..(svc.scale - 1)}
  <2>1. mine = {i \in PlacedAll(d, g) : i.service = v}
    BY DEF Keeps, SameService
  <2>2. \A w \in DOMAIN d.services : \A o : Placed(d, w, o, g[w]).service = w
    BY PlacedFacts
  <2>3. mine \subseteq {Placed(d, v, o, g[v]) : o \in 0..(svc.scale - 1)}
    <3>. SUFFICES ASSUME NEW i \in PlacedAll(d, g), i.service = v
                  PROVE  i \in {Placed(d, v, o, g[v]) : o \in 0..(svc.scale - 1)}
      BY <2>1
    <3>1. PICK w \in DOMAIN d.services :
            \E o \in 0..(d.services[w].scale - 1) : i = Placed(d, w, o, g[w])
      BY DEF PlacedAll
    <3>. QED  BY <2>2, <3>1
  <2>4. \A o \in 0..(svc.scale - 1) : Placed(d, v, o, g[v]) \in PlacedAll(d, g)
    BY DEF PlacedAll
  <2>5. {Placed(d, v, o, g[v]) : o \in 0..(svc.scale - 1)} \subseteq mine
    <3>1. \A o \in 0..(svc.scale - 1) :
            Placed(d, v, o, g[v]) \in {i \in PlacedAll(d, g) : i.service = v}
      BY <2>2, <2>4
    <3>. HIDE DEF mine
    <3>. QED  BY <2>1, <3>1
  <2>. QED  BY <2>3, <2>5
<1>4. \A l \in 1..n : svc.ports[l].target = e.target => l = k
  BY <1>1, <1>2 DEF OneTargetEach
<1>5. ASSUME NEW x \in Existing(instances, d, v), x.ordinal = ord, x.target = e.target
      PROVE  x = x0
  <2>1. PICK i \in mine : \E l \in Indices(i) :
          x = [ordinal |-> i.ordinal, target |-> i.ports[l].target,
               published |-> i.ports[l].published]
    BY DEF Existing
  <2>2. PICK l \in Indices(i) :
          x = [ordinal |-> i.ordinal, target |-> i.ports[l].target,
               published |-> i.ports[l].published]
    BY <2>1
  <2>3. PICK o \in 0..(svc.scale - 1) : i = Placed(d, v, o, g[v])
    BY <1>3, <2>1
  <2>4. /\ i.ordinal = o /\ l \in 1..n
        /\ i.ports[l].published = g[v][o * n + l]
        /\ i.ports[l].target = svc.ports[l].target
    <3>1. i.ordinal = o /\ l \in 1..n
      BY <1>2, <2>2, <2>3, PlacedFacts
    <3>2. l \in Indices(Placed(d, v, o, g[v]))
      BY <2>2, <2>3
    <3>3. /\ Placed(d, v, o, g[v]).ports[l].published = g[v][o * n + l]
          /\ Placed(d, v, o, g[v]).ports[l].target = svc.ports[l].target
      BY <3>2, PlacedFacts
    <3>. QED  BY <2>3, <3>1, <3>3
  <2>5. o = ord /\ l = k
    BY <1>4, <1>5, <2>2, <2>4
  <2>. QED  BY <1>1, <2>2, <2>4, <2>5
<1>6. x0 \in Existing(instances, d, v)
  <2>. DEFINE i == Placed(d, v, ord, g[v])
  <2>1. i \in mine
    BY <1>2, <1>3
  <2>2. /\ i.ordinal = ord /\ Indices(i) = 1..n
        /\ \A l \in 1..n : i.ports[l].target = svc.ports[l].target
        /\ i.ports[k].published = g[v][ord * n + k]
    <3>1. i.ordinal = ord /\ Indices(i) = 1..n
      BY <1>2, PlacedFacts
    <3>2. \A l \in Indices(i) : /\ i.ports[l].published = g[v][ord * n + l]
                                /\ i.ports[l].target = svc.ports[l].target
      BY PlacedFacts
    <3>. QED  BY <3>1, <3>2
  <2>. HIDE DEF i, e, ord, svc
  <2>3. \A l \in Indices(i) : l > k => i.ports[l].target # i.ports[k].target
    BY <1>1, <1>2, <1>4, <2>2
  <2>4. x0 = [ordinal |-> i.ordinal, target |-> i.ports[k].target,
              published |-> i.ports[k].published]
    BY <1>1, <2>2
  <2>5. k \in Indices(i)
    BY <1>1, <2>2
  <2>6. x0 \in {[ordinal |-> i.ordinal, target |-> i.ports[m].target,
                published |-> i.ports[m].published] :
                  m \in {m \in Indices(i) : \A l \in Indices(i) :
                           l > m => i.ports[l].target # i.ports[m].target}}
    <3>. HIDE DEF x0, n
    <3>. QED  BY <2>3, <2>4, <2>5
  <2>. HIDE DEF x0, n
  <2>. QED  BY <2>1, <2>6 DEF Existing
<1>. QED  BY <1>5, <1>6

\* Its ports are what an allocation from its own rows would give.
LEMMA KeptIsFair ==
    ASSUME OneTargetEach, NEW instances, NEW d \in Docs, NEW v \in DOMAIN d.services, NEW g,
           Keeps(instances, d, g), NEW j \in 1..Requests(d.services[v])
    PROVE  Fair(instances, d, v, g[v], j)
<1>. DEFINE svc == d.services[v]
            n == Requests(svc)
            s == g[v]
            used == {s[k] : k \in 1..(j - 1)}
<1>1. /\ s \in Seq(1..MaxPort) /\ Len(s) = n /\ n \in Nat
      /\ \A k \in 1..n : s[j] = s[k] => j = k
      /\ s[j] \notin Taken(instances, d, v)
      /\ EntryOf(svc, j).published # 0 =>
            s[j] = EntryOf(svc, j).published + OrdOf(svc, j)
  BY RequestFacts DEF Keeps, GoodPorts
<1>2. s[j] \in (1..MaxPort) \ (Taken(instances, d, v) \cup used)
  <2>1. s[j] \in 1..MaxPort
    BY <1>1, ElementOfSeq
  <2>2. s[j] \notin used
    BY <1>1
  <2>. QED  BY <1>1, <2>1, <2>2
<1>3. s[j] = Asked(instances, d, v, used, j)
  <2>1. CASE EntryOf(svc, j).published # 0
    BY <1>1, <2>1 DEF Asked, Candidate
  <2>2. CASE EntryOf(svc, j).published = 0
    <3>. DEFINE prev == {x \in Existing(instances, d, v) :
                          x.ordinal = OrdOf(svc, j) /\ x.target = EntryOf(svc, j).target}
    <3>1. prev = {[ordinal |-> OrdOf(svc, j), target |-> EntryOf(svc, j).target,
                   published |-> s[j]]}
      BY <2>2, Remembered
    <3>2. prev # {} /\ (CHOOSE x \in prev : TRUE).published = s[j]
      <4>. DEFINE y == [ordinal |-> OrdOf(svc, j), target |-> EntryOf(svc, j).target,
                        published |-> s[j]]
      <4>1. prev = {y} /\ y.published = s[j]
        BY <3>1
      <4>. HIDE DEF prev, y
      <4>. QED  BY <4>1
    <3>. QED  BY <2>2, <3>2 DEF Asked, Candidate
  <2>. QED  BY <2>1, <2>2
<1>. QED  BY <1>2, <1>3 DEF Fair

\* Its exposed ports are stated by a row, every service having one.
LEMMA KeptExposes ==
    ASSUME NEW instances, NEW d \in Docs, NEW g, Keeps(instances, d, g),
           NEW p \in DocExposes(d)
    PROVE  \E i \in instances : i.stack = d.stack /\ p \in i.expose
<1>1. PICK v \in DOMAIN d.services : p \in d.services[v].expose
  BY DEF DocExposes
<1>2. Placed(d, v, 0, g[v]) \in PlacedAll(d, g)
  <2>1. 0 \in 0..(d.services[v].scale - 1)
    BY DocsAreValid
  <2>. QED  BY <2>1 DEF PlacedAll
<1>. QED  BY <1>1, <1>2, PlacedFacts DEF Keeps

\* Such a stack is resolved to itself.
LEMMA KeptIsStable ==
    ASSUME OneTargetEach, NEW instances, NEW d \in Docs, NEW g, Keeps(instances, d, g)
    PROVE  /\ PortsResolve(instances, d)
           /\ Resolved(instances, d) = {i \in instances : i.stack = d.stack}
<1>1. ASSUME NEW v \in DOMAIN d.services
      PROVE  Allocation(instances, d, v) = g[v] /\ Allocated(instances, d, v)
  <2>1. \A j \in 1..Requests(d.services[v]) : Fair(instances, d, v, g[v], j)
    BY KeptIsFair
  <2>2. g[v] \in Seq(1..MaxPort) /\ Len(g[v]) = Requests(d.services[v])
        /\ Requests(d.services[v]) \in Nat
    BY RequestFacts DEF Keeps, GoodPorts
  <2>. QED  BY <2>1, <2>2, FairIsAllocated
<1>2. Resolved(instances, d) = PlacedAll(d, g)
  <2>1. PlacedAll(d, [v \in DOMAIN d.services |-> Allocation(instances, d, v)]) = PlacedAll(d, g)
    <3>. DEFINE f == [v \in DOMAIN d.services |-> Allocation(instances, d, v)]
    <3>1. \A v \in DOMAIN d.services : f[v] = g[v]
      BY <1>1
    <3>. HIDE DEF f
    <3>2. PlacedAll(d, f) = PlacedAll(d, g)
      BY <3>1 DEF PlacedAll
    <3>. QED  BY <3>2 DEF f
  <2>. QED  BY <2>1, ResolvedPlaced
<1>3. Resolved(instances, d) = {i \in instances : i.stack = d.stack}
  BY <1>2 DEF Keeps
<1>4. ASSUME NEW p \in DocExposes(d)
      PROVE  ~ExposeRefused(instances, d, Resolved(instances, d), p)
  <2>3. \E i \in instances : i.stack = d.stack /\ p \in i.expose
    BY KeptExposes
  <2>4. \A i \in instances : i.stack # d.stack => p \notin i.expose
    BY DEF Keeps
  <2>. QED  BY <2>3, <2>4 DEF ExposeRefused
<1>. QED  BY <1>1, <1>3, <1>4 DEF PortsResolve

-----------------------------------------------------------------------------
(***************************************************************************)
(* Every stored stack keeps its ports.  A commit gives its own stack ports *)
(* that were free, and its exposed ports are checked against what others   *)
(* publish; between the services of one document only the claims stand,    *)
(* and those tell protocols apart, which Taken does not.                   *)
(***************************************************************************)
\* Services of one document publish with one protocol.
OneProtocol ==
    \A d \in Docs : \A v, w \in DOMAIN d.services : v # w =>
        \A k \in DOMAIN d.services[v].ports, l \in DOMAIN d.services[w].ports :
            d.services[v].ports[k].protocol = d.services[w].ports[l].protocol

KeepInv ==
    /\ \A s \in Stacks : stacks[s] # NoDoc =>
          /\ stacks[s] \in Docs /\ stacks[s].stack = s
          /\ \E g : Keeps(rows, stacks[s], g)
    /\ pc = "commit" => PortsResolve(rows, doc)

\* A stack's rows publish all its ports and state its exposes.
LEMMA KeptPublishes ==
    ASSUME NEW instances, NEW d \in Docs, NEW g, Keeps(instances, d, g),
           NEW v \in DOMAIN d.services, NEW j \in 1..Requests(d.services[v])
    PROVE  \E i \in instances : i.stack = d.stack /\ g[v][j] \in Published(i)
<1>. DEFINE i == Placed(d, v, OrdOf(d.services[v], j), g[v])
<1>1. OrdOf(d.services[v], j) \in 0..(d.services[v].scale - 1)
  BY RequestFacts
<1>2. i \in PlacedAll(d, g)
  BY <1>1 DEF PlacedAll
<1>3. i.stack = d.stack /\ g[v][j] \in Published(i)
  BY PlacedFacts, PlacedPublishes
<1>. HIDE DEF i
<1>. QED  BY <1>2, <1>3 DEF Keeps

\* What it takes for a port not to be taken.
LEMMA NotTaken ==
    ASSUME NEW I, NEW d, NEW v, NEW p
    PROVE  p \notin Taken(I, d, v) <=>
             /\ \A i \in I : p \notin i.expose
             /\ \A i \in I : ~SameService(i, d, v) => p \notin Published(i)
             /\ p \notin DocExposes(d) \cup ServerPorts
<1>. DEFINE exposed == UNION {i.expose : i \in I}
            published == UNION {Published(i) : i \in {j \in I : ~SameService(j, d, v)}}
<1>1. Taken(I, d, v) = exposed \cup published \cup DocExposes(d) \cup ServerPorts
  BY DEF Taken
<1>2. p \in exposed <=> \E i \in I : p \in i.expose
  OBVIOUS
<1>3. p \in published <=> \E i \in I : ~SameService(i, d, v) /\ p \in Published(i)
  OBVIOUS
<1>. HIDE DEF exposed, published
<1>. QED  BY <1>1, <1>2, <1>3

\* Other rows may come and go as long as the ports stay free.
LEMMA KeepsWithOthers ==
    ASSUME NEW I, NEW J, NEW d, NEW g, Keeps(I, d, g),
           {i \in J : i.stack = d.stack} = {i \in I : i.stack = d.stack},
           \A v \in DOMAIN d.services : \A j \in 1..Requests(d.services[v]) :
              \A i \in J : i.stack # d.stack =>
                 g[v][j] \notin i.expose /\ g[v][j] \notin Published(i),
           \A i \in J : i.stack # d.stack => i.expose \cap DocExposes(d) = {}
    PROVE  Keeps(J, d, g)
<1>1. ASSUME NEW v \in DOMAIN d.services, NEW j \in 1..Requests(d.services[v])
      PROVE  g[v][j] \notin Taken(J, d, v)
  <2>1. g[v][j] \notin Taken(I, d, v)
    BY DEF Keeps, GoodPorts
  <2>2. /\ \A i \in I : g[v][j] \notin i.expose
        /\ \A i \in I : ~SameService(i, d, v) => g[v][j] \notin Published(i)
        /\ g[v][j] \notin DocExposes(d) \cup ServerPorts
    BY <2>1, NotTaken
  <2>3. \A i \in J : i.stack = d.stack => i \in I
    OBVIOUS
  <2>4. \A i \in J : i.stack # d.stack =>
          g[v][j] \notin i.expose /\ g[v][j] \notin Published(i)
    OBVIOUS
  <2>5. /\ \A i \in J : g[v][j] \notin i.expose
        /\ \A i \in J : ~SameService(i, d, v) => g[v][j] \notin Published(i)
    BY <2>2, <2>3, <2>4
  <2>. QED  BY <2>2, <2>5, NotTaken
<1>. QED  BY <1>1 DEF Keeps, GoodPorts

-----------------------------------------------------------------------------
\* The entry of a replica that has the port a request was given.
LEMMA PlacedRequest ==
    ASSUME NEW d \in Docs, NEW v \in DOMAIN d.services, NEW s,
           NEW j \in 1..Requests(d.services[v])
    PROVE  LET i == Placed(d, v, OrdOf(d.services[v], j), s)
           IN \E k \in Indices(i) : /\ i.ports[k].published = s[j]
                                    /\ k \in DOMAIN d.services[v].ports
                                    /\ i.ports[k].protocol = d.services[v].ports[k].protocol
<1>. DEFINE svc == d.services[v]
            ord == OrdOf(svc, j)
            i == Placed(d, v, ord, s)
<1>1. PICK k \in 1..Len(svc.ports) : j = ord * Len(svc.ports) + k
  BY RequestFacts
<1>2. k \in DOMAIN svc.ports
  BY RequestFacts
<1>3. k \in Indices(i)
  BY <1>2, PlacedFacts
<1>4. /\ i.ports[k].published = s[ord * Len(svc.ports) + k]
      /\ i.ports[k].protocol = svc.ports[k].protocol
  BY <1>3, PlacedFacts
<1>5. i.ports[k].published = s[j]
  BY <1>1, <1>4
<1>. HIDE DEF i
<1>6. \E l \in Indices(i) : /\ i.ports[l].published = s[j]
                            /\ l \in DOMAIN svc.ports
                            /\ i.ports[l].protocol = svc.ports[l].protocol
  BY <1>2, <1>3, <1>4, <1>5
<1>. QED  BY <1>6 DEF i

\* Two services of a resolved plan have no port in common: their claims differ
\* in the replica, so their keys do, and with one protocol that is the port.
LEMMA PlanPortsDiffer ==
    ASSUME OneProtocol, NEW d \in Docs, NEW g, KeyIsUnique(ClaimsOf(PlacedAll(d, g))),
           NEW v \in DOMAIN d.services, NEW w \in DOMAIN d.services, v # w,
           NEW j \in 1..Requests(d.services[v]), NEW l \in 1..Requests(d.services[w])
    PROVE  g[v][j] # g[w][l]
<1>. DEFINE i == Placed(d, v, OrdOf(d.services[v], j), g[v])
            h == Placed(d, w, OrdOf(d.services[w], l), g[w])
<1>0. /\ OrdOf(d.services[v], j) \in 0..(d.services[v].scale - 1)
      /\ OrdOf(d.services[w], l) \in 0..(d.services[w].scale - 1)
  BY RequestFacts
<1>1. i \in PlacedAll(d, g) /\ h \in PlacedAll(d, g)
  BY <1>0 DEF PlacedAll
<1>2. PICK k \in Indices(i) : /\ i.ports[k].published = g[v][j]
                              /\ k \in DOMAIN d.services[v].ports
                              /\ i.ports[k].protocol = d.services[v].ports[k].protocol
  BY PlacedRequest
<1>3. PICK m \in Indices(h) : /\ h.ports[m].published = g[w][l]
                              /\ m \in DOMAIN d.services[w].ports
                              /\ h.ports[m].protocol = d.services[w].ports[m].protocol
  BY PlacedRequest
<1>4. i.service = v /\ h.service = w
  BY PlacedFacts
<1>5. i.ports[k].protocol = h.ports[m].protocol
  BY <1>2, <1>3 DEF OneProtocol
<1>. DEFINE c == Claim(i.ports[k].published, i.ports[k].protocol, i, {i.ordinal})
            e == Claim(h.ports[m].published, h.ports[m].protocol, h, {h.ordinal})
<1>. HIDE DEF i, h
<1>6. c \in ClaimsOf(PlacedAll(d, g)) /\ e \in ClaimsOf(PlacedAll(d, g))
  <2>1. c \in PublishClaims(i) /\ e \in PublishClaims(h)
    BY DEF PublishClaims
  <2>. HIDE DEF c, e
  <2>. QED  BY <1>1, <2>1 DEF ClaimsOf
<1>7. c.port = g[v][j] /\ e.port = g[w][l] /\ c.protocol = e.protocol
      /\ c.service = v /\ e.service = w
  BY <1>2, <1>3, <1>4, <1>5 DEF Claim
<1>. HIDE DEF c, e
<1>. QED  BY <1>6, <1>7 DEF KeyIsUnique

\* A stack just committed keeps the ports its plan was given.
LEMMA PlanKeeps ==
    ASSUME OneProtocol, NEW I, NEW d \in Docs, PortsResolve(I, d),
           KeyIsUnique(ClaimsOf(Resolved(I, d)))
    PROVE  Keeps(OtherStacks(d.stack, I) \cup Resolved(I, d), d,
                 [v \in DOMAIN d.services |-> Allocation(I, d, v)])
<1>. DEFINE g == [v \in DOMAIN d.services |-> Allocation(I, d, v)]
            J == OtherStacks(d.stack, I) \cup Resolved(I, d)
<1>1. Resolved(I, d) = PlacedAll(d, g)
  BY ResolvedPlaced
<1>2. \A v \in DOMAIN d.services : GoodPorts(I, d, v, g[v])
  BY AllocationIsGood DEF PortsResolve
<1>. HIDE DEF g
<1>3. {i \in J : i.stack = d.stack} = PlacedAll(d, g)
  BY <1>1, ResolvedFacts DEF OtherStacks
<1>4. ASSUME NEW i \in J, i.stack # d.stack
      PROVE  i \in I /\ i.expose \cap DocExposes(d) = {}
  <2>1. i \in I
    BY <1>4, ResolvedFacts DEF OtherStacks
  <2>. QED  BY <1>4, <2>1 DEF PortsResolve, ExposeRefused
<1>5. ASSUME NEW v \in DOMAIN d.services, NEW j \in 1..Requests(d.services[v])
      PROVE  g[v][j] \notin Taken(J, d, v)
  <2>1. /\ \A i \in I : g[v][j] \notin i.expose
        /\ \A i \in I : ~SameService(i, d, v) => g[v][j] \notin Published(i)
        /\ g[v][j] \notin DocExposes(d) \cup ServerPorts
    BY <1>2, NotTaken DEF GoodPorts
  <2>2. ASSUME NEW i \in PlacedAll(d, g)
        PROVE  /\ g[v][j] \notin i.expose
               /\ ~SameService(i, d, v) => g[v][j] \notin Published(i)
    <3>0. PICK w \in DOMAIN d.services :
            \E o \in 0..(d.services[w].scale - 1) : i = Placed(d, w, o, g[w])
      BY DEF PlacedAll
    <3>1. PICK o \in 0..(d.services[w].scale - 1) : i = Placed(d, w, o, g[w])
      BY <3>0
    <3>2. i.expose = d.services[w].expose /\ i.stack = d.stack /\ i.service = w
      BY <3>1, PlacedFacts
    <3>3. g[v][j] \notin i.expose
      BY <2>1, <3>2 DEF DocExposes
    <3>4. ASSUME w # v, g[v][j] \in Published(i) PROVE FALSE
      <4>1. PICK l \in 1..Requests(d.services[w]) : g[v][j] = g[w][l]
        BY <3>1, <3>4, PlacedPublishes
      <4>. QED  BY <1>1, <3>4, <4>1, PlanPortsDiffer
    <3>. QED  BY <3>2, <3>3, <3>4 DEF SameService
  <2>3. \A i \in J : i \in PlacedAll(d, g) \/ i \in I
    BY <1>1 DEF OtherStacks
  <2>. QED  BY <2>1, <2>2, <2>3, NotTaken
<1>6. \A v \in DOMAIN d.services : GoodPorts(J, d, v, g[v])
  BY <1>2, <1>5 DEF GoodPorts
<1>. HIDE DEF J
<1>7. Keeps(J, d, g)
  BY <1>3, <1>4, <1>6 DEF Keeps
<1>. QED  BY <1>7 DEF J, g

\* The other stacks keep theirs when a plan takes the place of a stack's rows.
LEMMA OthersKeep ==
    ASSUME NEW I, NEW d \in Docs, PortsResolve(I, d),
           NEW e \in Docs, NEW g, Keeps(I, e, g), e.stack # d.stack
    PROVE  Keeps(OtherStacks(d.stack, I) \cup Resolved(I, d), e, g)
<1>. DEFINE f == [v \in DOMAIN d.services |-> Allocation(I, d, v)]
            J == OtherStacks(d.stack, I) \cup Resolved(I, d)
<1>1. Resolved(I, d) = PlacedAll(d, f)
  BY ResolvedPlaced
<1>2. \A v \in DOMAIN d.services : GoodPorts(I, d, v, f[v])
  BY AllocationIsGood DEF PortsResolve
<1>. HIDE DEF f
<1>3. {i \in J : i.stack = e.stack} = {i \in I : i.stack = e.stack}
  BY ResolvedFacts DEF OtherStacks
<1>4. ASSUME NEW p \in DocExposes(d)
      PROVE  /\ \A i \in I : i.stack # d.stack => p \notin i.expose
             /\ \/ \E i \in I : p \in i.expose
                \/ \A i \in I : p \notin Published(i)
  BY DEF PortsResolve, ExposeRefused
<1>5. ASSUME NEW i \in PlacedAll(d, f)
      PROVE  /\ i.expose \subseteq DocExposes(d)
             /\ \A p \in Published(i) :
                   \A h \in I : h.stack # d.stack => p \notin Published(h)
  <2>1. PICK w \in DOMAIN d.services :
          \E o \in 0..(d.services[w].scale - 1) : i = Placed(d, w, o, f[w])
    BY DEF PlacedAll
  <2>2. PICK o \in 0..(d.services[w].scale - 1) : i = Placed(d, w, o, f[w])
    BY <2>1
  <2>3. i.expose \subseteq DocExposes(d)
    BY <2>2, PlacedFacts DEF DocExposes
  <2>4. ASSUME NEW p \in Published(i), NEW h \in I, h.stack # d.stack
        PROVE  p \notin Published(h)
    <3>1. PICK l \in 1..Requests(d.services[w]) : p = f[w][l]
      BY <2>2, PlacedPublishes
    <3>2. p \notin Taken(I, d, w)
      BY <1>2, <3>1 DEF GoodPorts
    <3>. QED  BY <2>4, <3>2, NotTaken DEF SameService
  <2>. QED  BY <2>3, <2>4
<1>6. ASSUME NEW v \in DOMAIN e.services, NEW j \in 1..Requests(e.services[v]),
             NEW i \in J, i.stack # e.stack
      PROVE  g[v][j] \notin i.expose /\ g[v][j] \notin Published(i)
  <2>1. g[v][j] \notin Taken(I, e, v)
    BY DEF Keeps, GoodPorts
  <2>2. /\ \A h \in I : g[v][j] \notin h.expose
        /\ \A h \in I : ~SameService(h, e, v) => g[v][j] \notin Published(h)
    BY <2>1, NotTaken
  <2>3. \E h \in I : h.stack = e.stack /\ g[v][j] \in Published(h)
    BY KeptPublishes
  <2>4. CASE i \in I
    BY <1>6, <2>2, <2>4 DEF SameService
  <2>5. CASE i \in PlacedAll(d, f)
    <3>1. g[v][j] \notin DocExposes(d)
      BY <1>4, <2>2, <2>3
    <3>. QED  BY <1>5, <2>3, <2>5, <3>1
  <2>. QED  BY <1>1, <2>4, <2>5 DEF OtherStacks
<1>7. ASSUME NEW i \in J, i.stack # e.stack
      PROVE  i.expose \cap DocExposes(e) = {}
  <2>1. CASE i \in I
    BY <1>7, <2>1 DEF Keeps
  <2>2. CASE i \in PlacedAll(d, f)
    <3>1. ASSUME NEW p \in i.expose, p \in DocExposes(e) PROVE FALSE
      <4>1. \E h \in I : h.stack = e.stack /\ p \in h.expose
        BY <3>1, KeptExposes
      <4>. QED  BY <1>4, <1>5, <2>2, <3>1, <4>1
    <3>. QED  BY <3>1
  <2>. QED  BY <1>1, <2>1, <2>2 DEF OtherStacks
<1>. HIDE DEF J
<1>8. Keeps(J, e, g)
  BY <1>3, <1>6, <1>7, KeepsWithOthers
<1>. QED  BY <1>8 DEF J

\* One step per action.
LEMMA KeepCommit ==
    ASSUME OneProtocol, TInv, KeepInv, Commit
    PROVE  KeepInv'
<1>1. /\ pc = "commit" /\ doc \in Docs /\ plan = Resolved(rows, doc)
      /\ PortsResolve(rows, doc) /\ doc.stack \in Stacks
  BY DocsAreValid DEF Commit, TInv, TypeOK, KeepInv
<1>2. /\ rows' = OtherStacks(doc.stack, rows) \cup Resolved(rows, doc)
      /\ stacks' = [stacks EXCEPT ![doc.stack] = doc]
      /\ pc' = "schedule" /\ stacks \in [Stacks -> Docs \cup {NoDoc}]
  BY <1>1 DEF Commit, TInv, TypeOK
<1>3. KeyIsUnique(ClaimsOf(Resolved(rows, doc)))
  BY <1>1 DEF Commit, Insertable, KeyIsUnique
<1>4. \E g : Keeps(rows', doc, g)
  BY <1>1, <1>2, <1>3, PlanKeeps
<1>5. ASSUME NEW s \in Stacks, stacks'[s] # NoDoc
      PROVE  /\ stacks'[s] \in Docs /\ stacks'[s].stack = s
             /\ \E g : Keeps(rows', stacks'[s], g)
  <2>1. CASE s = doc.stack
    <3>1. stacks'[s] = doc
      BY <1>2, <2>1
    <3>. QED  BY <1>1, <1>4, <2>1, <3>1
  <2>2. CASE s # doc.stack
    <3>1. stacks'[s] = stacks[s]
      BY <1>2, <2>2
    <3>2. /\ stacks[s] \in Docs /\ stacks[s].stack = s
          /\ \E g : Keeps(rows, stacks[s], g)
      BY <1>5, <3>1 DEF KeepInv
    <3>3. PICK g : Keeps(rows, stacks[s], g)
      BY <3>2
    <3>4. Keeps(rows', stacks[s], g)
      BY <1>1, <1>2, <2>2, <3>2, <3>3, OthersKeep
    <3>. QED  BY <3>1, <3>2, <3>4
  <2>. QED  BY <2>1, <2>2
<1>. QED  BY <1>2, <1>5 DEF KeepInv

LEMMA KeepDelete ==
    ASSUME TInv, KeepInv, NEW t \in Stacks, DeleteStack(t)
    PROVE  KeepInv'
<1>1. /\ rows' = OtherStacks(t, rows) /\ stacks' = [stacks EXCEPT ![t] = NoDoc]
      /\ pc' = "idle" /\ stacks \in [Stacks -> Docs \cup {NoDoc}]
  BY DEF DeleteStack, request, TInv, TypeOK
<1>2. ASSUME NEW s \in Stacks, stacks'[s] # NoDoc
      PROVE  /\ stacks'[s] \in Docs /\ stacks'[s].stack = s
             /\ \E g : Keeps(rows', stacks'[s], g)
  <2>1. s # t /\ stacks'[s] = stacks[s]
    BY <1>1, <1>2
  <2>2. stacks[s] \in Docs /\ stacks[s].stack = s
    BY <1>2, <2>1 DEF KeepInv
  <2>3. PICK g : Keeps(rows, stacks[s], g)
    BY <1>2, <2>1 DEF KeepInv
  <2>. DEFINE d == stacks[s]
  <2>4. {i \in rows' : i.stack = d.stack} = {i \in rows : i.stack = d.stack}
    BY <1>1, <2>1, <2>2 DEF OtherStacks
  <2>5. ASSUME NEW v \in DOMAIN d.services, NEW j \in 1..Requests(d.services[v]),
               NEW i \in rows', i.stack # d.stack
        PROVE  g[v][j] \notin i.expose /\ g[v][j] \notin Published(i)
    <3>1. g[v][j] \notin Taken(rows, d, v) /\ i \in rows
      BY <1>1, <2>3 DEF Keeps, GoodPorts, OtherStacks
    <3>. QED  BY <2>5, <3>1, NotTaken DEF SameService
  <2>6. \A i \in rows' : i.stack # d.stack => i.expose \cap DocExposes(d) = {}
    BY <1>1, <2>3 DEF Keeps, OtherStacks
  <2>7. Keeps(rows', d, g)
    <3>. HIDE DEF d
    <3>1. Keeps(rows, d, g)
      BY <2>3 DEF d
    <3>. QED  BY <2>4, <2>5, <2>6, <3>1, KeepsWithOthers
  <2>. QED  BY <2>1, <2>2, <2>7
<1>. QED  BY <1>1, <1>2 DEF KeepInv

LEMMA KeepNext ==
    ASSUME OneProtocol, TInv, KeepInv, [Next]_vars
    PROVE  KeepInv'
<1>1. ASSUME UNCHANGED <<rows, stacks>>, pc' = "commit" => PortsResolve(rows, doc')
      PROVE  KeepInv'
  BY <1>1 DEF KeepInv
<1>2. ASSUME UNCHANGED <<rows, stacks>>, pc' # "commit" PROVE KeepInv'
  BY <1>1, <1>2
<1>3. CASE PlanStack
  BY <1>1, <1>3 DEF PlanStack, Plannable, store
<1>4. CASE RefuseApply \/ CommitConflict \/ FinishApply \/ Cancel
  BY <1>2, <1>4 DEF RefuseApply, CommitConflict, FinishApply, Cancel, Release, store
<1>5. ASSUME (\E d \in Docs : BeginApply(d)) \/ ListPending PROVE KeepInv'
  BY <1>2, <1>5 DEF BeginApply, ListPending, store
<1>6. ASSUME NEW i \in rows, BindNext(i) PROVE KeepInv'
  BY <1>2, <1>6 DEF BindNext
<1>7. ASSUME NEW i \in rows, NodeReports(i) PROVE KeepInv'
  BY <1>1, <1>7 DEF NodeReports, request, KeepInv
<1>8. CASE UNCHANGED vars
  BY <1>1, <1>8 DEF vars, store, request, KeepInv
<1>. QED
  BY <1>3, <1>4, <1>5, <1>6, <1>7, <1>8, KeepCommit, KeepDelete DEF Next, Handler

\* With documents that publish a target of their own for each automatic port,
\* and one protocol for all services: applying what a stack runs is never
\* refused for its ports and resolves to the very rows it has, whatever was
\* applied and deleted around it (apply.rs:142-157, 232-266).
THEOREM ReapplyIsStable == OneTargetEach /\ OneProtocol => (Spec => []ReapplyStable)
<1>. SUFFICES ASSUME OneTargetEach, OneProtocol PROVE Spec => []ReapplyStable
  OBVIOUS
<1>1. Init => KeepInv
  BY DEF Init, KeepInv
<1>2. TInv /\ KeepInv /\ [Next]_vars => KeepInv'
  BY KeepNext
<1>3. KeepInv => ReapplyStable
  BY KeptIsStable DEF KeepInv, ReapplyStable
<1>. QED  BY <1>1, <1>2, <1>3, TInvHolds, PTL DEF Spec
=============================================================================
