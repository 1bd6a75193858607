----------------------------- MODULE FiniteSums -----------------------------
(***************************************************************************)
(* Sums over finite sets and folds over sequences, for proofs about the    *)
(* community modules' operators.  MapThenSumSet is the value, at the whole *)
(* set, of a function defined recursively over the subsets; FoldLeft the   *)
(* value, at all places, of one over the sets of places.  Such a function  *)
(* exists and is unique; a sum does not depend on the order, and a fold    *)
(* can be cut in two.  The induction is on subsets, by a minimal           *)
(* counterexample.                                                         *)
(***************************************************************************)
EXTENDS Integers, FiniteSets, FiniteSetsExt, SequencesExt, FiniteSetTheorems,
        SequenceTheorems, WellFoundedInduction, TLAPS

\* The element a fold takes next, and what remains.
Pick(s) == CHOOSE x \in s : TRUE
Rest(s) == s \ {Pick(s)}

\* g sums the weights w over each subset of S.
SumsUp(g, w, S) ==
    g = [s \in SUBSET S |-> IF s = {} THEN 0 ELSE w[Pick(s)] + g[Rest(s)]]

Total(w, S) == (CHOOSE g : SumsUp(g, w, S))[S]

-----------------------------------------------------------------------------
\* A set of subsets of a finite set that is not empty has a smallest element.
LEMMA SmallestSubset ==
    ASSUME NEW S, IsFiniteSet(S), NEW B \in SUBSET (SUBSET S), B # {}
    PROVE  \E T \in B : \A U \in SUBSET T : U # T => U \notin B
<1>1. IsWellFoundedOn(StrictSubsetOrdering(S), SUBSET S)
  BY FS_StrictSubsetOrderingWellFounded, FS_FiniteSubsetsOfFinite
<1>2. PICK T \in B : \A U \in B : ~(<<U, T>> \in StrictSubsetOrdering(S))
  BY <1>1, WFMin
<1>3. ASSUME NEW U \in SUBSET T, U # T, U \in B PROVE FALSE
  BY <1>2, <1>3 DEF StrictSubsetOrdering
<1>. QED  BY <1>3

LEMMA PickIn ==
    ASSUME NEW s, s # {}
    PROVE  Pick(s) \in s /\ Rest(s) \subseteq s /\ Rest(s) # s
  BY DEF Pick, Rest

\* What sums up a set sums up its subsets.
LEMMA SumsUpWithin ==
    ASSUME NEW S, NEW T \in SUBSET S, NEW w, NEW g, SumsUp(g, w, S)
    PROVE  SumsUp([s \in SUBSET T |-> g[s]], w, T)
<1>. DEFINE h == [s \in SUBSET T |-> g[s]]
<1>1. ASSUME NEW s \in SUBSET T
      PROVE  h[s] = IF s = {} THEN 0 ELSE w[Pick(s)] + h[Rest(s)]
  <2>1. g[s] = IF s = {} THEN 0 ELSE w[Pick(s)] + g[Rest(s)]
    BY DEF SumsUp
  <2>2. s # {} => Rest(s) \in SUBSET T
    BY PickIn
  <2>. QED  BY <2>1, <2>2
<1>2. h = [s \in SUBSET T |-> h[s]]
  OBVIOUS
<1>. HIDE DEF h
<1>3. h = [s \in SUBSET T |-> IF s = {} THEN 0 ELSE w[Pick(s)] + h[Rest(s)]]
  BY <1>1, <1>2
<1>. QED  BY <1>3 DEF SumsUp, h

LEMMA SumsUpUnique ==
    ASSUME NEW S, IsFiniteSet(S), NEW w, NEW g, NEW h, SumsUp(g, w, S), SumsUp(h, w, S)
    PROVE  g = h
<1>. DEFINE B == {s \in SUBSET S : g[s] # h[s]}
<1>1. ASSUME B # {} PROVE FALSE
  <2>1. PICK T \in B : \A U \in SUBSET T : U # T => U \notin B
    <3>1. B \in SUBSET (SUBSET S)
      OBVIOUS
    <3>. HIDE DEF B
    <3>. QED  BY <1>1, <3>1, SmallestSubset
  <2>2. /\ g[T] = IF T = {} THEN 0 ELSE w[Pick(T)] + g[Rest(T)]
        /\ h[T] = IF T = {} THEN 0 ELSE w[Pick(T)] + h[Rest(T)]
    BY DEF SumsUp
  <2>3. T # {} => g[Rest(T)] = h[Rest(T)]
    BY <2>1, PickIn
  <2>. QED  BY <2>2, <2>3
<1>2. g = [s \in SUBSET S |-> g[s]] /\ h = [s \in SUBSET S |-> h[s]]
  BY DEF SumsUp
<1>. QED  BY <1>1, <1>2

\* The sums of the sets one element smaller make the sum of a set.
LEMMA SumsUpExists ==
    ASSUME NEW S, IsFiniteSet(S), NEW w
    PROVE  \E g : SumsUp(g, w, S)
<1>. DEFINE B == {s \in SUBSET S : ~ \E g : SumsUp(g, w, s)}
<1>1. ASSUME B # {} PROVE FALSE
  <2>1. PICK T \in B : \A U \in SUBSET T : U # T => U \notin B
    <3>1. B \in SUBSET (SUBSET S)
      OBVIOUS
    <3>. HIDE DEF B
    <3>. QED  BY <1>1, <3>1, SmallestSubset
  <2>. DEFINE G(U) == CHOOSE g : SumsUp(g, w, U)
              V(U) == IF U = {} THEN 0 ELSE w[Pick(U)] + G(Rest(U))[Rest(U)]
              k == [U \in SUBSET T |-> V(U)]
  <2>2. ASSUME NEW U \in SUBSET T, U # T PROVE SumsUp(G(U), w, U)
    <3>1. \E g : SumsUp(g, w, U)
      BY <2>1, <2>2
    <3>. QED  BY <3>1
  <2>3. ASSUME NEW U \in SUBSET T, U # {} PROVE k[Rest(U)] = G(Rest(U))[Rest(U)]
    <3>1. Rest(U) \in SUBSET T /\ Rest(U) # T
      BY <2>3, PickIn
    <3>. DEFINE R == Rest(U)
    <3>2. SumsUp(G(R), w, R)
      BY <2>2, <3>1
    <3>. HIDE DEF G
    <3>3. G(R)[R] = IF R = {} THEN 0 ELSE w[Pick(R)] + G(R)[Rest(R)]
      BY <3>2 DEF SumsUp
    <3>4. R # {} => G(R)[Rest(R)] = G(Rest(R))[Rest(R)]
      <4>. SUFFICES ASSUME R # {} PROVE G(R)[Rest(R)] = G(Rest(R))[Rest(R)]
        OBVIOUS
      <4>1. Rest(R) \in SUBSET R /\ Rest(R) # R
        BY PickIn
      <4>2. Rest(R) \in SUBSET T /\ Rest(R) # T
        BY <3>1, <4>1
      <4>3. SumsUp([s \in SUBSET Rest(R) |-> G(R)[s]], w, Rest(R))
        BY <3>2, <4>1, SumsUpWithin
      <4>4. SumsUp(G(Rest(R)), w, Rest(R))
        BY <2>2, <4>2
      <4>5. IsFiniteSet(Rest(R))
        BY <4>2, FS_Subset
      <4>6. G(Rest(R)) = [s \in SUBSET Rest(R) |-> G(R)[s]]
        BY <4>3, <4>4, <4>5, SumsUpUnique
      <4>. QED  BY <4>6
    <3>5. G(R)[R] = V(R)
      BY <3>3, <3>4
    <3>. QED  BY <3>1, <3>5
  <2>4. SumsUp(k, w, T)
    <3>1. \A U \in SUBSET T : k[U] = V(U)
      OBVIOUS
    <3>3. \A U \in SUBSET T : k[U] = IF U = {} THEN 0 ELSE w[Pick(U)] + k[Rest(U)]
      <4>. HIDE DEF G, k
      <4>. QED  BY <2>3, <3>1
    <3>2. k = [U \in SUBSET T |-> k[U]]
      OBVIOUS
    <3>. HIDE DEF k
    <3>. QED  BY <3>2, <3>3 DEF SumsUp
  <2>. QED  BY <2>4
<1>. QED  BY <1>1

-----------------------------------------------------------------------------
(***************************************************************************)
(* Total, the sum of the weights over a finite set.                        *)
(***************************************************************************)

\* One function sums up every subset.
LEMMA TotalIs ==
    ASSUME NEW S, IsFiniteSet(S), NEW w, NEW g, SumsUp(g, w, S), NEW T \in SUBSET S
    PROVE  Total(w, T) = g[T]
<1>. DEFINE h == CHOOSE k : SumsUp(k, w, T)
<1>1. IsFiniteSet(T)
  BY FS_Subset
<1>2. SumsUp([s \in SUBSET T |-> g[s]], w, T)
  BY SumsUpWithin
<1>3. SumsUp(h, w, T)
  BY <1>2
<1>. HIDE DEF h
<1>4. h = [s \in SUBSET T |-> g[s]]
  BY <1>1, <1>2, <1>3, SumsUpUnique
<1>5. h[T] = g[T]
  BY <1>4
<1>. QED  BY <1>5 DEF Total, h

LEMMA TotalPick ==
    ASSUME NEW S, IsFiniteSet(S), NEW w
    PROVE  Total(w, S) = IF S = {} THEN 0 ELSE w[Pick(S)] + Total(w, Rest(S))
<1>1. PICK g : SumsUp(g, w, S)
  BY SumsUpExists
<1>2. g[S] = IF S = {} THEN 0 ELSE w[Pick(S)] + g[Rest(S)]
  BY <1>1 DEF SumsUp
<1>3. Total(w, S) = g[S]
  BY <1>1, TotalIs
<1>4. S # {} => Total(w, Rest(S)) = g[Rest(S)]
  BY <1>1, PickIn, TotalIs
<1>. QED  BY <1>2, <1>3, <1>4

\* Sums of natural numbers are natural numbers.
LEMMA TotalNat ==
    ASSUME NEW S, IsFiniteSet(S), NEW w, \A x \in S : w[x] \in Nat
    PROVE  Total(w, S) \in Nat
<1>. DEFINE B == {s \in SUBSET S : Total(w, s) \notin Nat}
<1>1. ASSUME B # {} PROVE FALSE
  <2>1. PICK T \in B : \A U \in SUBSET T : U # T => U \notin B
    <3>1. B \in SUBSET (SUBSET S)
      OBVIOUS
    <3>. HIDE DEF B
    <3>. QED  BY <1>1, <3>1, SmallestSubset
  <2>2. Total(w, T) = IF T = {} THEN 0 ELSE w[Pick(T)] + Total(w, Rest(T))
    BY FS_Subset, TotalPick
  <2>3. T # {} => Pick(T) \in S /\ Total(w, Rest(T)) \in Nat
    BY <2>1, PickIn
  <2>. QED  BY <2>2, <2>3
<1>. QED  BY <1>1

\* It does not matter which element is taken first.
LEMMA TotalRemove ==
    ASSUME NEW S, IsFiniteSet(S), NEW w, \A x \in S : w[x] \in Nat, NEW x \in S
    PROVE  Total(w, S) = w[x] + Total(w, S \ {x})
<1>. DEFINE B == {s \in SUBSET S :
                    ~ \A y \in s : Total(w, s) = w[y] + Total(w, s \ {y})}
<1>1. ASSUME B # {} PROVE FALSE
  <2>1. PICK T \in B : \A U \in SUBSET T : U # T => U \notin B
    <3>1. B \in SUBSET (SUBSET S)
      OBVIOUS
    <3>. HIDE DEF B
    <3>. QED  BY <1>1, <3>1, SmallestSubset
  <2>2. PICK y \in T : Total(w, T) # w[y] + Total(w, T \ {y})
    OBVIOUS
  <2>. DEFINE p == Pick(T)
              N == (T \ {p}) \ {y}
  <2>3. p \in T /\ Rest(T) = T \ {p}
    BY <2>2, PickIn DEF Rest
  <2>. HIDE DEF p
  <2>4. Total(w, T) = w[p] + Total(w, T \ {p})
    BY <2>2, <2>3, FS_Subset, TotalPick DEF p
  <2>5. p # y
    BY <2>2, <2>4
  <2>6. Total(w, T \ {p}) = w[y] + Total(w, N)
    <3>1. T \ {p} \in SUBSET T /\ T \ {p} # T /\ y \in T \ {p}
      BY <2>3, <2>5
    <3>. QED  BY <2>1, <3>1
  <2>7. Total(w, T \ {y}) = w[p] + Total(w, N)
    <3>1. T \ {y} \in SUBSET T /\ T \ {y} # T /\ p \in T \ {y}
      BY <2>3, <2>5
    <3>2. (T \ {y}) \ {p} = N
      OBVIOUS
    <3>. QED  BY <2>1, <3>1, <3>2
  <2>8. Total(w, N) \in Nat /\ w[p] \in Nat /\ w[y] \in Nat
    <3>1. N \in SUBSET S
      OBVIOUS
    <3>. HIDE DEF N
    <3>. QED  BY <2>3, <3>1, FS_Subset, TotalNat
  <2>. HIDE DEF N
  <2>. QED  BY <2>2, <2>4, <2>6, <2>7, <2>8
<1>. QED  BY <1>1

\* The sum over two disjoint sets.
LEMMA TotalUnion ==
    ASSUME NEW S, IsFiniteSet(S), NEW w, \A x \in S : w[x] \in Nat,
           NEW A \in SUBSET S, NEW C \in SUBSET S, A \cap C = {}
    PROVE  Total(w, A \cup C) = Total(w, A) + Total(w, C)
<1>. DEFINE B == {s \in SUBSET A : Total(w, s \cup C) # Total(w, s) + Total(w, C)}
<1>0. IsFiniteSet(A)
  BY FS_Subset
<1>1. ASSUME B # {} PROVE FALSE
  <2>1. PICK T \in B : \A U \in SUBSET T : U # T => U \notin B
    <3>1. B \in SUBSET (SUBSET A)
      OBVIOUS
    <3>. HIDE DEF B
    <3>. QED  BY <1>0, <1>1, <3>1, SmallestSubset
  <2>2. Total(w, C) \in Nat
    BY FS_Subset, TotalNat
  <2>3. CASE T = {}
    <3>1. Total(w, T) = 0 /\ T \cup C = C
      BY <2>3, FS_Subset, TotalPick
    <3>. QED  BY <2>2, <3>1
  <2>4. CASE T # {}
    <3>1. PICK x \in T : TRUE
      BY <2>4
    <3>. DEFINE U == T \ {x}
    <3>2. Total(w, U \cup C) = Total(w, U) + Total(w, C)
      <4>1. U \in SUBSET T /\ U # T
        BY <3>1
      <4>. QED  BY <2>1, <4>1
    <3>3. Total(w, T) = w[x] + Total(w, U)
      <4>1. IsFiniteSet(T)
        BY FS_Subset
      <4>. QED  BY <3>1, <4>1, TotalRemove
    <3>4. Total(w, T \cup C) = w[x] + Total(w, U \cup C)
      <4>1. IsFiniteSet(T \cup C) /\ \A y \in T \cup C : w[y] \in Nat
        BY FS_Subset
      <4>2. x \in T \cup C /\ (T \cup C) \ {x} = U \cup C
        BY <3>1
      <4>3. Total(w, T \cup C) = w[x] + Total(w, (T \cup C) \ {x})
        BY <4>1, <4>2, TotalRemove
      <4>. QED  BY <4>2, <4>3
    <3>5. Total(w, U) \in Nat /\ w[x] \in Nat
      <4>1. IsFiniteSet(U)
        BY FS_Subset
      <4>. QED  BY <4>1, <3>1, TotalNat
    <3>. HIDE DEF U
    <3>. QED  BY <2>1, <2>2, <3>2, <3>3, <3>4, <3>5
  <2>. QED  BY <2>3, <2>4
<1>. QED  BY <1>1

\* More elements never sum to less.
LEMMA TotalMonotone ==
    ASSUME NEW S, IsFiniteSet(S), NEW w, \A x \in S : w[x] \in Nat, NEW A \in SUBSET S
    PROVE  Total(w, A) <= Total(w, S)
<1>1. Total(w, A \cup (S \ A)) = Total(w, A) + Total(w, S \ A)
  BY TotalUnion
<1>2. A \cup (S \ A) = S
  OBVIOUS
<1>3. Total(w, A) \in Nat /\ Total(w, S \ A) \in Nat
  BY FS_Subset, TotalNat
<1>4. Total(w, S) = Total(w, A) + Total(w, S \ A)
  BY <1>1, <1>2
<1>. QED  BY <1>3, <1>4

\* The sum depends on the weights of the set's elements only.
LEMMA TotalSame ==
    ASSUME NEW S, IsFiniteSet(S), NEW v, NEW w, \A x \in S : v[x] = w[x]
    PROVE  Total(v, S) = Total(w, S)
<1>1. PICK g : SumsUp(g, v, S)
  BY SumsUpExists
<1>2. SumsUp(g, w, S)
  <2>1. ASSUME NEW s \in SUBSET S
        PROVE  g[s] = IF s = {} THEN 0 ELSE w[Pick(s)] + g[Rest(s)]
    <3>1. s # {} => Pick(s) \in S
      BY PickIn
    <3>. QED  BY <1>1, <3>1 DEF SumsUp
  <2>2. g = [s \in SUBSET S |-> g[s]]
    BY <1>1 DEF SumsUp
  <2>. QED  BY <2>1, <2>2 DEF SumsUp
<1>. QED  BY <1>1, <1>2, TotalIs
-----------------------------------------------------------------------------
(***************************************************************************)
(* Numbers: the least of a set, and a sequence read as rows of n.          *)
(***************************************************************************)
\* A set of numbers that is not empty has a least one.
LEMMA LeastIn ==
    ASSUME NEW S \in SUBSET Nat, S # {}
    PROVE  \E m \in S : \A y \in S : m <= y
<1>1. PICK n \in S : TRUE
  OBVIOUS
<1>. DEFINE B == {0 .. k : k \in S \cap (0 .. n)}
<1>2. IsFiniteSet(0 .. n) /\ B \in SUBSET (SUBSET (0 .. n)) /\ B # {}
  <2>1. n \in Nat /\ n \in S \cap (0 .. n)
    BY <1>1
  <2>2. IsFiniteSet(0 .. n)
    BY <2>1, FS_Interval
  <2>3. 0 .. n \in B
    BY <2>1
  <2>4. \A k \in 0 .. n : 0 .. k \subseteq 0 .. n
    BY <2>1
  <2>. QED  BY <2>2, <2>3, <2>4
<1>. HIDE DEF B
<1>3. PICK T \in B : \A U \in SUBSET T : U # T => U \notin B
  BY ZenonT(40), <1>2, SmallestSubset
<1>4. PICK m \in S \cap (0 .. n) : T = 0 .. m
  BY DEF B
<1>5. ASSUME NEW y \in S, y < m PROVE FALSE
  <2>1. 0 .. y \in B
    BY <1>4, <1>5 DEF B
  <2>2. 0 .. y \in SUBSET T /\ m \in T /\ m \notin 0 .. y
    BY <1>1, <1>4, <1>5
  <2>. QED  BY <1>3, <2>1, <2>2
<1>6. \A y \in S : m <= y
  BY <1>4, <1>5
<1>. QED  BY <1>4, <1>6

\* Division with a remainder.
LEMMA DivMod ==
    ASSUME NEW n \in Nat \ {0}, NEW a \in Nat
    PROVE  /\ a \div n \in Nat /\ a % n \in 0..(n - 1)
           /\ a = (a \div n) * n + (a % n)
  OBVIOUS

\* Quotient and remainder are unique.
LEMMA DivModUnique ==
    ASSUME NEW n \in Nat \ {0}, NEW q \in Nat, NEW p \in Nat, NEW r \in 0..(n - 1), NEW t \in 0..(n - 1),
           q * n + r = p * n + t
    PROVE  q = p /\ r = t
<1>1. ASSUME NEW x \in Nat, NEW y \in Nat, x < y PROVE x * n + n <= y * n
  <2>1. PICK z \in Nat : y = x + 1 + z
    <3>1. y - x - 1 \in Nat /\ y = x + 1 + (y - x - 1)
      BY <1>1
    <3>. QED  BY <3>1
  <2>2. y * n = x * n + n + z * n
    BY <2>1
  <2>3. z * n \in Nat /\ x * n \in Nat
    OBVIOUS
  <2>. QED  BY <2>2, <2>3
<1>2. q * n \in Nat /\ p * n \in Nat
  OBVIOUS
<1>3. ~(q < p) /\ ~(p < q)
  BY <1>1, <1>2
<1>4. q = p
  BY <1>3
<1>. QED  BY <1>2, <1>4

\* The numbers 1..c*n in c rows of n: the row and the place of each ...
LEMMA SlotOf ==
    ASSUME NEW c \in Nat, NEW n \in Nat, NEW j \in 1..(c * n)
    PROVE  /\ n # 0
           /\ (j - 1) \div n \in 0..(c - 1)
           /\ (j - 1) % n \in 0..(n - 1)
           /\ j = ((j - 1) \div n) * n + (((j - 1) % n) + 1)
<1>1. n # 0
  OBVIOUS
<1>. DEFINE q == (j - 1) \div n
            r == (j - 1) % n
<1>2. j - 1 \in Nat /\ c * n \in Nat /\ j <= c * n
  OBVIOUS
<1>3. q \in Nat /\ r \in 0..(n - 1) /\ j - 1 = q * n + r
  BY <1>1, <1>2, DivMod
<1>. HIDE DEF q, r
<1>4. q < c
  <2>. SUFFICES ASSUME c <= q PROVE FALSE
    BY <1>3
  <2>1. PICK z \in Nat : q = c + z
    <3>1. q - c \in Nat /\ q = c + (q - c)
      BY <1>3
    <3>. QED  BY <3>1
  <2>2. q * n = c * n + z * n /\ z * n \in Nat
    BY <2>1
  <2>. QED  BY <1>2, <1>3, <2>2
<1>. QED  BY <1>1, <1>3, <1>4 DEF q, r

\* ... and the number at each row and place.
LEMMA SlotAt ==
    ASSUME NEW c \in Nat, NEW n \in Nat, NEW o \in 0..(c - 1), NEW k \in 1..n
    PROVE  /\ o * n + k \in 1..(c * n)
           /\ (o * n + k - 1) \div n = o
           /\ ((o * n + k - 1) % n) + 1 = k
<1>. DEFINE a == o * n + (k - 1)
<1>1. n \in Nat \ {0} /\ o \in Nat /\ k - 1 \in 0..(n - 1) /\ o * n \in Nat
  OBVIOUS
<1>2. a \in Nat /\ o * n + k = a + 1 /\ o * n + k - 1 = a
  BY <1>1
<1>3. a + 1 <= c * n
  <2>1. PICK z \in Nat : c = o + 1 + z
    <3>1. c - o - 1 \in Nat /\ c = o + 1 + (c - o - 1)
      OBVIOUS
    <3>. QED  BY <3>1
  <2>2. c * n = o * n + n + z * n /\ z * n \in Nat
    BY <2>1
  <2>. QED  BY <1>1, <2>2
<1>4. a \div n = o /\ a % n = k - 1
  <2>. DEFINE q == a \div n
              r == a % n
  <2>1. q \in Nat /\ r \in 0..(n - 1) /\ a = q * n + r
    <3>. HIDE DEF a
    <3>. QED  BY <1>1, <1>2, DivMod
  <2>. HIDE DEF q, r
  <2>2. q * n + r = o * n + (k - 1)
    BY <2>1
  <2>3. q = o /\ r = k - 1
    BY <1>1, <2>1, <2>2, DivModUnique
  <2>. QED  BY <2>3 DEF q, r
<1>. HIDE DEF a
<1>5. a + 1 \in 1..(c * n) /\ (a % n) + 1 = k
  BY <1>1, <1>2, <1>3, <1>4
<1>. QED  BY <1>2, <1>4, <1>5

-----------------------------------------------------------------------------
\* The smallest of a set of numbers is one of them.
LEMMA MinIn ==
    ASSUME NEW S \in SUBSET Nat, S # {}
    PROVE  Min(S) \in S /\ \A y \in S : Min(S) <= y
  BY LeastIn DEF Min

\* The largest of finitely many numbers is one of them.
LEMMA MaxIn ==
    ASSUME NEW n \in Nat, NEW S \in SUBSET (1..n), S # {}
    PROVE  Max(S) \in S /\ \A y \in S : Max(S) >= y
<1>. DEFINE D == {n - y : y \in S}
<1>1. D \in SUBSET Nat /\ D # {}
  <2>1. \A y \in S : n - y \in Nat
    OBVIOUS
  <2>. QED  BY <2>1
<1>. HIDE DEF D
<1>2. PICK m \in D : \A y \in D : m <= y
  BY <1>1, LeastIn
<1>3. PICK x \in S : m = n - x
  BY DEF D
<1>4. \A y \in S : x >= y
  <2>. SUFFICES ASSUME NEW y \in S PROVE x >= y
    OBVIOUS
  <2>1. n - y \in D
    BY DEF D
  <2>. QED  BY <1>2, <1>3, <2>1
<1>. QED  BY <1>3, <1>4 DEF Max

\* h folds F over the elements of t at every set of places within S, the last
\* place last.
FoldsUp(h, F, base, t, S) ==
    h = [s \in SUBSET S |->
           IF s = {} THEN base ELSE F[<<t[Max(s)], h[s \ {Max(s)}]>>]]

\* What holds of no places, and of some if it holds without the last of them,
\* holds of all.
LEMMA PlacesInduction ==
    ASSUME NEW n \in Nat, NEW P \in SUBSET (SUBSET (1..n)), {} \in P,
           \A s \in SUBSET (1..n) : s # {} /\ s \ {Max(s)} \in P => s \in P
    PROVE  \A s \in SUBSET (1..n) : s \in P
<1>. DEFINE B == (SUBSET (1..n)) \ P
<1>1. IsFiniteSet(1..n)
  BY FS_Interval
<1>2. ASSUME B # {} PROVE FALSE
  <2>1. PICK T \in B : \A U \in SUBSET T : U # T => U \notin B
    <3>1. B \in SUBSET (SUBSET (1..n))
      OBVIOUS
    <3>. HIDE DEF B
    <3>. QED  BY <1>1, <1>2, <3>1, SmallestSubset
  <2>2. T # {} /\ T \in SUBSET (1..n)
    OBVIOUS
  <2>3. Max(T) \in T
    BY <2>2, MaxIn
  <2>4. T \ {Max(T)} \in SUBSET T /\ T \ {Max(T)} # T
    BY <2>3
  <2>5. T \ {Max(T)} \notin B
    BY <2>1, <2>4
  <2>. QED  BY <2>2, <2>4, <2>5
<1>. QED  BY <1>2

\* There is such a function, by induction on the set of places.
LEMMA FoldsUpExist ==
    ASSUME NEW F, NEW base, NEW t, NEW n \in Nat
    PROVE  \E h : FoldsUp(h, F, base, t, 1..n)
<1>. DEFINE All == 1..n
            P == {s \in SUBSET All : \E h : FoldsUp(h, F, base, t, s)}
<1>1. {} \in P
  <2>. DEFINE g == [s \in SUBSET {} |-> base]
  <2>1. \A s \in SUBSET {} : s = {}
    OBVIOUS
  <2>2. FoldsUp(g, F, base, t, {})
    BY <2>1 DEF FoldsUp
  <2>. QED  BY <2>2
<1>2. ASSUME NEW T \in SUBSET All, T # {}, T \ {Max(T)} \in P
      PROVE  T \in P
  <2>. DEFINE m == Max(T)
              R == T \ {m}
  <2>1. m \in T /\ \A y \in T : m >= y
    BY <1>2, MaxIn
  <2>4. PICK h : FoldsUp(h, F, base, t, R)
    BY <1>2
  <2>5. ASSUME NEW s \in SUBSET T
        PROVE  /\ m \in s => Max(s) = m /\ s \ {m} \in SUBSET R
               /\ m \notin s => s \in SUBSET R /\ (s # {} => Max(s) \in s)
    <3>1. s # {} => Max(s) \in s /\ \A y \in s : Max(s) >= y
      BY MaxIn
    <3>4. m \in s => m >= Max(s) /\ Max(s) >= m /\ m \in 1..n /\ Max(s) \in 1..n
      <4>. HIDE DEF m
      <4>. QED  BY <2>1, <3>1
    <3>5. m \in s => Max(s) = m
      <4>. HIDE DEF m
      <4>. QED  BY <3>4
    <3>. HIDE DEF m
    <3>. QED  BY <3>1, <3>5
  <2>. DEFINE V(s) == IF m \in s THEN F[<<t[m], h[s \ {m}]>>] ELSE h[s]
              k == [s \in SUBSET T |-> V(s)]
  <2>6. ASSUME NEW s \in SUBSET T
        PROVE  k[s] = IF s = {} THEN base ELSE F[<<t[Max(s)], k[s \ {Max(s)}]>>]
    <3>0. k[s] = V(s)
      OBVIOUS
    <3>1. CASE m \in s
      <4>1. k[s \ {m}] = h[s \ {m}]
        <5>1. s \ {m} \in SUBSET T
          OBVIOUS
        <5>2. m \notin s \ {m}
          OBVIOUS
        <5>. QED  BY <5>1, <5>2
      <4>2. Max(s) = m /\ s # {}
        BY <2>5, <3>1
      <4>3. V(s) = F[<<t[m], h[s \ {m}]>>]
        BY <3>1
      <4>. HIDE DEF k, V, m
      <4>. QED  BY <3>0, <4>1, <4>2, <4>3
    <3>2. CASE m \notin s
      <4>1. s \in SUBSET R /\ V(s) = h[s]
        BY <2>5, <3>2
      <4>2. h[s] = IF s = {} THEN base ELSE F[<<t[Max(s)], h[s \ {Max(s)}]>>]
        <5>. HIDE DEF V, k, m, R
        <5>. QED  BY <2>4, <4>1 DEF FoldsUp
      <4>3. k[s \ {Max(s)}] = h[s \ {Max(s)}]
        <5>1. s \ {Max(s)} \in SUBSET T /\ m \notin s \ {Max(s)}
          BY <3>2
        <5>. QED  BY <5>1
      <4>. HIDE DEF k, V, m
      <4>. QED  BY <3>0, <4>1, <4>2, <4>3
    <3>. QED  BY <3>1, <3>2
  <2>7. k = [s \in SUBSET T |-> k[s]]
    OBVIOUS
  <2>. HIDE DEF k
  <2>8. FoldsUp(k, F, base, t, T)
    BY <2>6, <2>7 DEF FoldsUp
  <2>. QED  BY <2>8
<1>3. P \in SUBSET (SUBSET All)
  OBVIOUS
<1>. HIDE DEF P
<1>4. All \in P
  BY <1>1, <1>2, <1>3, PlacesInduction
<1>. QED  BY <1>4 DEF P

\* A fold of a function from a set to that set stays in it.
StepsIn(F, C, Z) == F \in [C \X Z -> Z]

\* A fold whose steps stay within a set does so too.
LEMMA FoldsUpType ==
    ASSUME NEW C, NEW Z, NEW F, StepsIn(F, C, Z), NEW base \in Z, NEW t \in Seq(C),
           NEW h, FoldsUp(h, F, base, t, 1..Len(t))
    PROVE  \A s \in SUBSET (1..Len(t)) : h[s] \in Z
<1>. DEFINE n == Len(t)
            P == {s \in SUBSET (1..n) : h[s] \in Z}
<1>1. n \in Nat
  OBVIOUS
<1>2. \A s \in SUBSET (1..n) :
        h[s] = IF s = {} THEN base ELSE F[<<t[Max(s)], h[s \ {Max(s)}]>>]
  BY DEF FoldsUp
<1>3. {} \in P
  BY <1>2
<1>4. ASSUME NEW s \in SUBSET (1..n), s # {}, s \ {Max(s)} \in P PROVE s \in P
  <2>1. Max(s) \in 1..n
    BY <1>1, <1>4, MaxIn
  <2>2. t[Max(s)] \in C
    BY <2>1
  <2>3. h[s \ {Max(s)}] \in Z
    BY <1>4
  <2>4. h[s] = F[<<t[Max(s)], h[s \ {Max(s)}]>>]
    BY <1>2, <1>4
  <2>. QED  BY <2>2, <2>3, <2>4 DEF StepsIn
<1>5. P \in SUBSET (SUBSET (1..n))
  OBVIOUS
<1>. HIDE DEF P
<1>6. \A s \in SUBSET (1..n) : s \in P
  BY <1>1, <1>3, <1>4, <1>5, PlacesInduction
<1>. QED  BY <1>6 DEF P

-----------------------------------------------------------------------------
(***************************************************************************)
(* Fold, the value of the fold of a function, element by element.          *)
(***************************************************************************)
Fold(F, base, t) == (CHOOSE h : FoldsUp(h, F, base, t, 1..Len(t)))[1..Len(t)]

\* g takes the elements of t one after the other, from base.
Traces(g, F, base, t) ==
    g[0] = base /\ \A m \in 1..Len(t) : g[m] = F[<<t[m], g[m - 1]>>]

\* Such a fold can be followed place by place ...
LEMMA FoldTrace ==
    ASSUME NEW C, NEW Z, NEW F, StepsIn(F, C, Z), NEW base \in Z, NEW t \in Seq(C)
    PROVE  \E g \in [0..Len(t) -> Z] : Traces(g, F, base, t) /\ Fold(F, base, t) = g[Len(t)]
<1>. DEFINE n == Len(t)
            h == CHOOSE h : FoldsUp(h, F, base, t, 1..n)
            g == [m \in 0..n |-> h[1..m]]
<1>0. n \in Nat
  OBVIOUS
<1>1. FoldsUp(h, F, base, t, 1..n)
  <2>1. \E k : FoldsUp(k, F, base, t, 1..n)
    BY <1>0, FoldsUpExist
  <2>. QED  BY <2>1
<1>. HIDE DEF h
<1>2. g \in [0..n -> Z]
  <2>1. \A s \in SUBSET (1..n) : h[s] \in Z
    BY <1>1, FoldsUpType
  <2>2. \A m \in 0..n : 1..m \in SUBSET (1..n)
    BY <1>0
  <2>. QED  BY <2>1, <2>2
<1>3. g[0] = base
  <2>1. g[0] = h[1..0] /\ 1..0 = {} /\ {} \in SUBSET (1..n)
    BY <1>0
  <2>2. h[{}] = base
    <3>. HIDE DEF g
    <3>. QED  BY <1>1, <2>1 DEF FoldsUp
  <2>. QED  BY <2>1, <2>2
<1>4. ASSUME NEW m \in 1..n PROVE g[m] = F[<<t[m], g[m - 1]>>]
  <2>1. g[m] = h[1..m] /\ g[m - 1] = h[1..(m - 1)]
    BY <1>0
  <2>2. 1..m \in SUBSET (1..n) /\ 1..m # {}
    BY <1>0
  <2>3. Max(1..m) = m
    <3>1. Max(1..m) \in 1..m /\ \A y \in 1..m : Max(1..m) >= y
      <4>. HIDE DEF g
      <4>. QED  BY <1>0, <2>2, MaxIn
    <3>. QED  BY <3>1
  <2>4. (1..m) \ {m} = 1..(m - 1)
    BY <1>0
  <2>5. h[1..m] = IF 1..m = {} THEN base ELSE F[<<t[Max(1..m)], h[(1..m) \ {Max(1..m)}]>>]
    <3>. HIDE DEF g
    <3>. QED  BY <1>1, <2>2 DEF FoldsUp
  <2>. QED  BY <2>1, <2>2, <2>3, <2>4, <2>5
<1>5. Fold(F, base, t) = g[n]
  BY <1>0 DEF Fold, h
<1>. HIDE DEF g
<1>. QED  BY <1>2, <1>3, <1>4, <1>5 DEF Traces

\* Where two sequences agree, so do the traces of a fold over them.
LEMMA TracesAgree ==
    ASSUME NEW F, NEW base, NEW t, NEW u, NEW g, NEW h, NEW n \in Nat,
           Traces(g, F, base, t), Traces(h, F, base, u),
           n \in 0..Len(t), n \in 0..Len(u), Len(t) \in Nat, Len(u) \in Nat,
           \A m \in 1..n : t[m] = u[m]
    PROVE  g[n] = h[n]
<1>. DEFINE B == {m \in 0..n : g[m] # h[m]}
<1>1. ASSUME B # {} PROVE FALSE
  <2>1. B \in SUBSET Nat
    OBVIOUS
  <2>2. PICK m \in B : \A y \in B : m <= y
    BY <1>1, <2>1, LeastIn
  <2>3. m \in 0..n /\ g[m] # h[m]
    OBVIOUS
  <2>4. m # 0
    BY <2>3 DEF Traces
  <2>5. m - 1 \in 0..n /\ m \in 1..n /\ m \in 1..Len(t) /\ m \in 1..Len(u)
    BY <2>3, <2>4
  <2>6. g[m - 1] = h[m - 1]
    BY <2>2, <2>3, <2>5
  <2>7. g[m] = F[<<t[m], g[m - 1]>>] /\ h[m] = F[<<u[m], h[m - 1]>>]
    BY <2>5 DEF Traces
  <2>. QED  BY <2>3, <2>5, <2>6, <2>7
<1>2. n \in 0..n
  OBVIOUS
<1>. QED  BY <1>1, <1>2

\* So the value of a fold is of its steps' type, ...
LEMMA FoldType ==
    ASSUME NEW C, NEW Z, NEW F, StepsIn(F, C, Z), NEW base \in Z, NEW t \in Seq(C)
    PROVE  Fold(F, base, t) \in Z
<1>1. PICK g \in [0..Len(t) -> Z] : Fold(F, base, t) = g[Len(t)]
  BY FoldTrace
<1>. QED  BY <1>1

\* ... it is the base over nothing, ...
LEMMA FoldEmpty ==
    ASSUME NEW C, NEW Z, NEW F, StepsIn(F, C, Z), NEW base \in Z
    PROVE  Fold(F, base, <<>>) = base
<1>. DEFINE e == <<>>
<1>0. e \in Seq(C)
  OBVIOUS
<1>1. Len(e) = 0
  OBVIOUS
<1>. HIDE DEF e
<1>2. PICK g \in [0..Len(e) -> Z] : Traces(g, F, base, e) /\ Fold(F, base, e) = g[Len(e)]
  BY <1>0, FoldTrace
<1>3. Fold(F, base, e) = base
  BY <1>1, <1>2 DEF Traces
<1>. QED  BY <1>3 DEF e

\* ... one element more is one step more, ...
LEMMA FoldAppend ==
    ASSUME NEW C, NEW Z, NEW F, StepsIn(F, C, Z), NEW base \in Z, NEW t \in Seq(C), NEW c \in C
    PROVE  Fold(F, base, Append(t, c)) = F[<<c, Fold(F, base, t)>>]
<1>. DEFINE u == Append(t, c)
            n == Len(t)
<1>1. u \in Seq(C) /\ n \in Nat /\ Len(u) = n + 1 /\ u[n + 1] = c /\ \A m \in 1..n : u[m] = t[m]
  OBVIOUS
<1>. HIDE DEF u
<1>2. PICK g \in [0..Len(t) -> Z] : Traces(g, F, base, t) /\ Fold(F, base, t) = g[n]
  BY FoldTrace
<1>3. PICK h \in [0..Len(u) -> Z] : Traces(h, F, base, u) /\ Fold(F, base, u) = h[n + 1]
  BY <1>1, FoldTrace
<1>4. g[n] = h[n]
  BY <1>1, <1>2, <1>3, TracesAgree
<1>5. h[n + 1] = F[<<u[n + 1], h[n]>>]
  BY <1>1, <1>3 DEF Traces
<1>. QED  BY <1>1, <1>2, <1>3, <1>4, <1>5 DEF u

\* Appending commutes with joining.
LEMMA ConcatThenAppend ==
    ASSUME NEW S, NEW t \in Seq(S), NEW u \in Seq(S), NEW c \in S
    PROVE  t \o u \in Seq(S) /\ Append(t \o u, c) = t \o Append(u, c)
<1>. DEFINE one == <<c>>
            tu == t \o u
<1>1. one \in Seq(S) /\ tu \in Seq(S)
  BY ConcatProperties
<1>2. Append(tu, c) = tu \o one /\ Append(u, c) = u \o one
  BY <1>1, AppendIsConcat
<1>. HIDE DEF one
<1>3. tu \o one = t \o (u \o one)
  BY <1>1, ConcatAssociative
<1>. QED  BY <1>1, <1>2, <1>3

\* ... and two sequences are folded one after the other.
LEMMA FoldConcat ==
    ASSUME NEW C, NEW Z, NEW F, StepsIn(F, C, Z), NEW base \in Z,
           NEW t \in Seq(C), NEW u \in Seq(C)
    PROVE  Fold(F, base, t \o u) = Fold(F, Fold(F, base, t), u)
<1>. DEFINE B == {n \in Nat : \E v \in Seq(C) : Len(v) = n
                    /\ Fold(F, base, t \o v) # Fold(F, Fold(F, base, t), v)}
<1>1. ASSUME B # {} PROVE FALSE
  <2>1. B \in SUBSET Nat
    OBVIOUS
  <2>2. PICK n \in B : \A y \in B : n <= y
    BY <1>1, <2>1, LeastIn
  <2>3. PICK v \in Seq(C) : Len(v) = n /\ Fold(F, base, t \o v) # Fold(F, Fold(F, base, t), v)
    OBVIOUS
  <2>4. Fold(F, base, t) \in Z
    BY FoldType
  <2>5. v # <<>>
    <3>1. t \o <<>> = t
      OBVIOUS
    <3>2. Fold(F, Fold(F, base, t), <<>>) = Fold(F, base, t)
      BY <2>4, FoldEmpty
    <3>. QED  BY <2>3, <3>1, <3>2
  <2>6. PICK w \in Seq(C), c \in C : v = Append(w, c)
    BY <2>5, SequenceEmptyOrAppend
  <2>7. Len(w) \in Nat /\ n = Len(w) + 1
    BY <2>3, <2>6
  <2>8. Fold(F, base, t \o w) = Fold(F, Fold(F, base, t), w)
    <3>1. Len(w) \notin B
      <4>. HIDE DEF B
      <4>. QED  BY <2>2, <2>7
    <3>. QED  BY <2>7, <3>1
  <2>9. t \o v = Append(t \o w, c) /\ t \o w \in Seq(C)
    BY <2>6, ConcatThenAppend
  <2>10. Fold(F, base, t \o v) = F[<<c, Fold(F, base, t \o w)>>]
    <3>. DEFINE tw == t \o w
    <3>1. tw \in Seq(C) /\ t \o v = Append(tw, c)
      BY <2>9
    <3>. HIDE DEF tw
    <3>2. Fold(F, base, Append(tw, c)) = F[<<c, Fold(F, base, tw)>>]
      BY <3>1, FoldAppend
    <3>. QED  BY <3>1, <3>2 DEF tw
  <2>11. Fold(F, Fold(F, base, t), v) = F[<<c, Fold(F, Fold(F, base, t), w)>>]
    BY <2>4, <2>6, FoldAppend
  <2>. QED  BY <2>3, <2>8, <2>10, <2>11
<1>2. Len(u) \in Nat
  OBVIOUS
<1>. QED  BY <1>1, <1>2

-----------------------------------------------------------------------------
(***************************************************************************)
(* Flattening a sequence of sequences joins them one after the other.      *)
(***************************************************************************)
Joins(A) == [p \in Seq(A) \X Seq(A) |-> p[2] \o p[1]]

\* The step joins the next sequence to what there is.
LEMMA JoinsStep ==
    ASSUME NEW A
    PROVE  /\ StepsIn(Joins(A), Seq(A), Seq(A)) /\ <<>> \in Seq(A)
           /\ \A s \in Seq(A) : \A t \in Seq(A) : Joins(A)[<<s, t>>] = t \o s
<1>. DEFINE Z == Seq(A)
<1>1. \A p \in Z \X Z : p[2] \o p[1] \in Z
  OBVIOUS
<1>2. <<>> \in Z
  OBVIOUS
<1>. HIDE DEF Z
<1>3. Joins(A) \in [Z \X Z -> Z]
  BY <1>1 DEF Joins, Z
<1>4. \A s \in Z : \A t \in Z : Joins(A)[<<s, t>>] = t \o s
  BY DEF Joins, Z
<1>. QED  BY <1>2, <1>3, <1>4 DEF StepsIn, Z

\* The community module defines it by recursion over the places.
LEMMA FlattenFold ==
    ASSUME NEW A, NEW ss \in Seq(Seq(A))
    PROVE  FlattenSeq(ss) = Fold(Joins(A), <<>>, ss)
<1>. DEFINE n == Len(ss)
            F == Joins(A)
            flat(f) == f = [i \in 1..n |-> IF i = 1 THEN ss[i] ELSE f[i - 1] \o ss[i]]
            f == CHOOSE f : flat(f)
<1>0. n \in Nat /\ \A i \in 1..n : ss[i] \in Seq(A)
  OBVIOUS
<1>. DEFINE Z == Seq(A)
            e == <<>>
<1>a. /\ StepsIn(F, Z, Z) /\ e \in Z /\ ss \in Seq(Z)
      /\ \A s \in Z : \A t \in Z : F[<<s, t>>] = t \o s
  BY JoinsStep
<1>b. \A s \in Z : e \o s = s
  OBVIOUS
<1>. HIDE DEF F, Z, e
<1>1. PICK g \in [0..n -> Z] : Traces(g, F, e, ss) /\ Fold(F, e, ss) = g[n]
  BY <1>a, FoldTrace
<1>2. g[0] = e /\ \A m \in 1..n : g[m] = g[m - 1] \o ss[m]
  <2>1. g[0] = e /\ \A m \in 1..n : g[m] = F[<<ss[m], g[m - 1]>>]
    BY <1>1 DEF Traces
  <2>2. \A m \in 1..n : ss[m] \in Z /\ m - 1 \in 0..n
    BY <1>0 DEF Z
  <2>. QED  BY <1>a, <1>1, <2>1, <2>2
<1>c. n # 0 => g[1] = e \o ss[1] /\ ss[1] \in Z
  <2>. SUFFICES ASSUME n # 0 PROVE g[1] = e \o ss[1] /\ ss[1] \in Z
    OBVIOUS
  <2>1. 1 \in 1..n /\ 1 - 1 = 0
    BY <1>0
  <2>2. g[1] = g[1 - 1] \o ss[1]
    BY <1>2, <2>1
  <2>3. g[1 - 1] = e
    BY <1>2, <2>1
  <2>. QED  BY <1>0, <2>1, <2>2, <2>3 DEF Z
<1>3. CASE n = 0
  <2>1. ss = <<>> /\ FlattenSeq(ss) = ss
    BY <1>0, <1>3 DEF FlattenSeq
  <2>. QED  BY <1>1, <1>2, <1>3, <2>1 DEF e
<1>4. CASE n # 0
  <2>1. flat([i \in 1..n |-> g[i]])
    <3>. DEFINE k == [i \in 1..n |-> g[i]]
    <3>1. ASSUME NEW i \in 1..n PROVE k[i] = IF i = 1 THEN ss[i] ELSE k[i - 1] \o ss[i]
      <4>1. CASE i = 1
        <5>1. g[1] = e \o ss[1] /\ ss[1] \in Z
          BY <1>c, <1>4
        <5>. QED  BY <1>b, <4>1, <5>1
      <4>2. CASE i # 1
        <5>1. i - 1 \in 1..n
          BY <1>0, <4>2
        <5>. QED  BY <1>2, <4>2, <5>1
      <4>. QED  BY <4>1, <4>2
    <3>2. k = [i \in 1..n |-> k[i]]
      OBVIOUS
    <3>. HIDE DEF k
    <3>3. flat(k)
      BY <3>1, <3>2
    <3>. QED  BY <3>3 DEF k
  <2>2. flat(f)
    <3>1. \E k : flat(k)
      BY <2>1
    <3>. QED  BY <3>1
  <2>3. FlattenSeq(ss) = f[n]
    BY <1>4 DEF FlattenSeq
  <2>. HIDE DEF f
  <2>4. \A m \in 1..n : f[m] = IF m = 1 THEN ss[m] ELSE f[m - 1] \o ss[m]
    BY <2>2
  <2>. HIDE DEF flat
  <2>. DEFINE B == {m \in 1..n : f[m] # g[m]}
  <2>5. ASSUME B # {} PROVE FALSE
    <3>1. B \in SUBSET Nat
      OBVIOUS
    <3>2. PICK m \in B : \A y \in B : m <= y
      BY <2>5, <3>1, LeastIn
    <3>3. m \in 1..n /\ f[m] # g[m]
      OBVIOUS
    <3>4. CASE m = 1
      <4>1. g[1] = e \o ss[1] /\ ss[1] \in Z /\ f[1] = ss[1]
        BY <1>c, <1>4, <2>4, <3>3, <3>4
      <4>2. g[1] = ss[1]
        BY <1>b, <4>1
      <4>. QED  BY <3>3, <3>4, <4>1, <4>2
    <3>5. CASE m # 1
      <4>1. m - 1 \in 1..n
        BY <1>0, <3>3, <3>5
      <4>2. m - 1 \notin B
        <5>. HIDE DEF B
        <5>. QED  BY <3>2, <3>3, <4>1
      <4>3. f[m - 1] = g[m - 1]
        BY <4>1, <4>2
      <4>. QED  BY <1>2, <2>4, <3>3, <3>5, <4>3
    <3>. QED  BY <3>4, <3>5
  <2>6. n \in 1..n
    BY <1>0, <1>4
  <2>7. f[n] = g[n]
    BY <2>5, <2>6
  <2>. QED  BY <1>1, <2>3, <2>7 DEF e
<1>. QED  BY <1>3, <1>4 DEF F, e

\* Nothing is flattened to nothing, ...
LEMMA FlattenEmpty == FlattenSeq(<<>>) = <<>>
  BY DEF FlattenSeq

\* ... sequences over a set to one over the set, ...
LEMMA FlattenType ==
    ASSUME NEW A, NEW ss \in Seq(Seq(A))
    PROVE  FlattenSeq(ss) \in Seq(A)
<1>. DEFINE Z == Seq(A)
            e == <<>>
<1>1. StepsIn(Joins(A), Z, Z) /\ e \in Z /\ ss \in Seq(Z)
  BY JoinsStep
<1>. HIDE DEF Z, e
<1>2. Fold(Joins(A), e, ss) \in Z
  BY <1>1, FoldType
<1>3. FlattenSeq(ss) = Fold(Joins(A), e, ss)
  BY FlattenFold DEF e
<1>. QED  BY <1>2, <1>3 DEF Z

\* ... and a sequence more is joined at the end.
LEMMA FlattenAppend ==
    ASSUME NEW A, NEW ss \in Seq(Seq(A)), NEW s \in Seq(A)
    PROVE  FlattenSeq(Append(ss, s)) = FlattenSeq(ss) \o s
<1>1. Append(ss, s) \in Seq(Seq(A))
  OBVIOUS
<1>2. /\ FlattenSeq(ss) = Fold(Joins(A), <<>>, ss)
      /\ FlattenSeq(Append(ss, s)) = Fold(Joins(A), <<>>, Append(ss, s))
  BY <1>1, FlattenFold
<1>3. Fold(Joins(A), <<>>, Append(ss, s)) = Joins(A)[<<s, Fold(Joins(A), <<>>, ss)>>]
  <2>. DEFINE Z == Seq(A)
              e == <<>>
  <2>1. StepsIn(Joins(A), Z, Z) /\ e \in Z /\ ss \in Seq(Z) /\ s \in Z
    BY JoinsStep
  <2>. HIDE DEF Z, e
  <2>2. Fold(Joins(A), e, Append(ss, s)) = Joins(A)[<<s, Fold(Joins(A), e, ss)>>]
    BY <2>1, FoldAppend
  <2>. QED  BY <2>2 DEF e
<1>4. FlattenSeq(ss) \in Seq(A)
  BY FlattenType
<1>. QED  BY <1>2, <1>3, <1>4, JoinsStep
=============================================================================
