---------------------------- MODULE BrokerProofs ----------------------------
(***************************************************************************)
(* The broker for any names, keys, sizes and lengths of routes: taking a   *)
(* queue off a route leaves the other queues' routes alone; routes ascend; *)
(* and every queue made by CreateQueue keeps a route.                      *)
(***************************************************************************)
EXTENDS Broker, ListLemmas, FiniteSetTheorems

-----------------------------------------------------------------------------
(* Routes *)

\* The places of a queue on a route
Places(l, m) == {i \in DOMAIN l : l[i] = m}

\* Removing an entry for one queue keeps the number of entries of every other.
LEMMA OtherPlacesKept ==
    ASSUME NEW l, IsList(l), NEW n, n \in Range(l), NEW m, m # n
    PROVE  /\ IsList(RemoveFirst(l, n))
           /\ Cardinality(Places(RemoveFirst(l, n), m)) = Cardinality(Places(l, m))
  <1> DEFINE r == RemoveFirst(l, n)
  <1>1. PICK p \in DOMAIN l :
          /\ l[p] = n
          /\ r = [i \in 1..(Len(l) - 1) |-> IF i < p THEN l[i] ELSE l[i + 1]]
    BY RemoveFirstEffect
  <1>2. Len(l) \in Nat /\ DOMAIN l = 1..Len(l) /\ Len(l) - 1 \in Nat
    <2>1. Len(l) \in Nat /\ DOMAIN l = 1..Len(l)
      BY ListIsFunction
    <2> QED
      BY <1>1, <2>1
  <1> HIDE DEF r
  <1>3. IsList(r)
    BY <1>1, <1>2, FunctionIsList
  <1> DEFINE S == Places(l, m)
             T == Places(r, m)
             f == [i \in S |-> IF i < p THEN i ELSE i - 1]
  <1>4. \A i \in S : i \in 1..Len(l) /\ i # p /\ l[i] = m
    BY <1>1, <1>2 DEF Places
  <1>5. \A i \in T : i \in 1..(Len(l) - 1) /\ r[i] = m
    BY <1>1 DEF Places
  <1>6. \A i \in S : f[i] \in T
    <2> SUFFICES ASSUME NEW i \in S PROVE f[i] \in T
      OBVIOUS
    <2>1. f[i] = IF i < p THEN i ELSE i - 1
      OBVIOUS
    <2>2. f[i] \in 1..(Len(l) - 1) /\ r[f[i]] = l[i]
      BY <1>1, <1>2, <1>4, <2>1
    <2> QED
      BY <1>1, <1>4, <2>2 DEF Places
  <1>7. \A i, j \in S : f[i] = f[j] => i = j
    BY <1>1, <1>2, <1>4
  <1>8. \A y \in T : \E i \in S : f[i] = y
    <2> SUFFICES ASSUME NEW y \in T PROVE \E i \in S : f[i] = y
      OBVIOUS
    <2>1. CASE y < p
      <3>1. y \in DOMAIN l /\ l[y] = m
        BY <1>1, <1>2, <1>5, <2>1
      <3>2. y \in S
        BY <3>1 DEF Places
      <3>3. f[y] = y
        BY <2>1, <3>2
      <3> QED
        BY <3>2, <3>3
    <2>2. CASE ~(y < p)
      <3>1. y + 1 \in DOMAIN l /\ l[y + 1] = m /\ ~(y + 1 < p) /\ (y + 1) - 1 = y
        <4>1. y \in 1..(Len(l) - 1) /\ r[y] = m
          BY <1>5
        <4>2. r[y] = l[y + 1]
          BY <1>1, <2>2, <4>1
        <4>3. y + 1 \in 1..Len(l) /\ ~(y + 1 < p) /\ (y + 1) - 1 = y
          BY <1>2, <2>2, <4>1
        <4> QED
          BY <1>2, <4>1, <4>2, <4>3
      <3>2. y + 1 \in S
        BY <3>1 DEF Places
      <3> QED
        BY <3>1, <3>2
    <2> QED
      BY <2>1, <2>2
  <1>9. f \in Bijection(S, T)
    <2>1. f \in [S -> T]
      BY <1>6
    <2> HIDE DEF f
    <2>2. f \in Injection(S, T)
      BY <1>7, <2>1 DEF Injection, IsInjective
    <2>3. f \in Surjection(S, T)
      BY <1>8, <2>1 DEF Surjection
    <2> QED
      BY <2>2, <2>3 DEF Bijection
  <1>10. IsFiniteSet(S)
    <2>1. IsFiniteSet(1..Len(l))
      <3>1. 1 \in Int /\ Len(l) \in Int
        BY <1>2
      <3> QED
        BY ONLY <3>1, FS_Interval
    <2>2. S \subseteq 1..Len(l)
      BY <1>4
    <2> QED
      BY <2>1, <2>2, FS_Subset
  <1> HIDE DEF S, T, f
  <1>11. Cardinality(T) = Cardinality(S)
    BY <1>9, <1>10, FS_Bijection DEF ExistsBijection
  <1> QED
    BY <1>3, <1>11 DEF r, S, T

-----------------------------------------------------------------------------
(* sort.Strings *)

\* The entries below a value, and those up to it
Below(s, v) == {j \in DOMAIN s : s[j] < v}
UpTo(s, v) == {j \in DOMAIN s : s[j] <= v}

\* The value that belongs at place i
AtPlace(s, i, v) == Cardinality(Below(s, v)) < i /\ Cardinality(UpTo(s, v)) >= i

LEMMA Counts ==
    ASSUME NEW s \in Seq(Nat)
    PROVE  /\ IsFiniteSet(DOMAIN s) /\ Cardinality(DOMAIN s) = Len(s)
           /\ \A S \in SUBSET DOMAIN s : /\ IsFiniteSet(S) /\ Cardinality(S) \in Nat
                                         /\ Cardinality(S) <= Len(s)
           /\ \A S, T \in SUBSET DOMAIN s : S \subseteq T => Cardinality(S) <= Cardinality(T)
           /\ \A v : Below(s, v) \in SUBSET DOMAIN s /\ UpTo(s, v) \in SUBSET DOMAIN s
  <1>1. Len(s) \in Nat /\ DOMAIN s = 1..Len(s)
    OBVIOUS
  <1>2. IsFiniteSet(1..Len(s)) /\ Cardinality(1..Len(s)) = Len(s)
    <2>1. 1 \in Int /\ Len(s) \in Int
      BY <1>1
    <2>2. IsFiniteSet(1..Len(s)) /\ Cardinality(1..Len(s)) = IF 1 > Len(s) THEN 0 ELSE Len(s) - 1 + 1
      BY ONLY <2>1, FS_Interval
    <2> QED
      BY <1>1, <2>2
  <1>3. IsFiniteSet(DOMAIN s) /\ Cardinality(DOMAIN s) = Len(s)
    BY <1>1, <1>2
  <1>4. \A S \in SUBSET DOMAIN s : /\ IsFiniteSet(S) /\ Cardinality(S) \in Nat
                                   /\ Cardinality(S) <= Len(s)
    BY <1>3, FS_Subset, FS_CardinalityType
  <1>5. \A S, T \in SUBSET DOMAIN s : S \subseteq T => Cardinality(S) <= Cardinality(T)
    BY <1>4, FS_Subset
  <1>6. \A v : Below(s, v) \in SUBSET DOMAIN s /\ UpTo(s, v) \in SUBSET DOMAIN s
    BY DEF Below, UpTo
  <1> QED
    BY <1>3, <1>4, <1>5, <1>6

\* The entries of a list are bounded.
LEMMA Bounded ==
    ASSUME NEW s \in Seq(Nat)
    PROVE  \E b \in Nat : \A j \in DOMAIN s : s[j] <= b
  <1> DEFINE P == {k \in Nat : k <= Len(s) => \E b \in Nat : \A j \in 1..k : s[j] <= b}
  <1>1. Len(s) \in Nat /\ DOMAIN s = 1..Len(s) /\ \A j \in 1..Len(s) : s[j] \in Nat
    OBVIOUS
  <1>2. 0 \in P
    OBVIOUS
  <1>3. ASSUME NEW k \in Nat, k \in P PROVE k + 1 \in P
    <2> SUFFICES ASSUME k + 1 <= Len(s) PROVE \E b \in Nat : \A j \in 1..(k + 1) : s[j] <= b
      OBVIOUS
    <2>1. PICK b \in Nat : \A j \in 1..k : s[j] <= b
      BY <1>1, <1>3
    <2>2. s[k + 1] \in Nat /\ \A j \in 1..(k + 1) : s[j] \in Nat /\ (j \in 1..k \/ j = k + 1)
      BY <1>1
    <2>3. \A j \in 1..(k + 1) : s[j] <= b + s[k + 1]
      BY <2>1, <2>2
    <2>4. b + s[k + 1] \in Nat
      BY <2>2
    <2> QED
      BY <2>3, <2>4
  <1>4. Nat \subseteq P
    <2> HIDE DEF P
    <2> QED
      BY <1>2, <1>3, Induction
  <1>5. Len(s) \in P
    BY <1>1, <1>4
  <1> QED
    BY <1>1, <1>5

\* Every place has a value.
LEMMA PlaceFilled ==
    ASSUME NEW s \in Seq(Nat \ {0}), NEW i \in 1..Len(s)
    PROVE  \E v \in Range(s) : AtPlace(s, i, v)
  <1> DEFINE U == {v \in Range(s) : Cardinality(UpTo(s, v)) >= i}
  <1>1. /\ Len(s) \in Nat /\ DOMAIN s = 1..Len(s) /\ s \in Seq(Nat)
        /\ \A j \in DOMAIN s : s[j] \in Nat /\ s[j] # 0
    OBVIOUS
  <1>2. /\ Cardinality(DOMAIN s) = Len(s)
        /\ \A S \in SUBSET DOMAIN s : Cardinality(S) \in Nat
        /\ \A v : Below(s, v) \in SUBSET DOMAIN s /\ UpTo(s, v) \in SUBSET DOMAIN s
    BY <1>1, Counts
  <1>3. Range(s) \subseteq Nat \ {0} /\ \A j \in DOMAIN s : s[j] \in Range(s)
    BY <1>1 DEF Range
  <1>4. U # {}
    <2>1. PICK b \in Nat : \A j \in DOMAIN s : s[j] <= b
      BY <1>1, Bounded
    <2>2. Range(s) \in SUBSET (1..b) /\ Range(s) # {}
      <3>1. \A v \in Range(s) : v \in 1..b
        BY <1>1, <2>1 DEF Range
      <3> QED
        BY <1>1, <1>3, <3>1
    <2>3. PICK w : w = Max(Range(s))
      OBVIOUS
    <2>4. w \in Range(s) /\ \A y \in Range(s) : y <= w
      BY <2>2, <2>3, MaxOf
    <2>5. UpTo(s, w) = DOMAIN s
      BY <1>3, <2>4 DEF UpTo
    <2>6. w \in U
      BY <1>1, <1>2, <2>4, <2>5
    <2> QED
      BY <2>6
  <1>5. PICK v \in U : \A y \in U : v <= y
    <2>1. U \subseteq Nat
      BY <1>3
    <2> HIDE DEF U
    <2> QED
      BY <1>4, <2>1, LeastExists
  <1>6. v \in Range(s) /\ v \in Nat
    BY <1>3, <1>5
  <1>7. Cardinality(Below(s, v)) < i
    <2> DEFINE W == {w \in Range(s) : w < v}
    <2>1. CASE W = {}
      <3>1. Below(s, v) = {}
        BY <1>3, <2>1 DEF Below
      <3> QED
        BY <1>1, <3>1, FS_EmptySet
    <2>2. CASE W # {}
      <3>1. W \in SUBSET (1..v)
        BY <1>3, <1>6
      <3>2. PICK w : w = Max(W)
        OBVIOUS
      <3>3. w \in W /\ \A y \in W : y <= w
        <4> HIDE DEF W
        <4> QED
          BY <1>6, <2>2, <3>1, <3>2, MaxOf
      <3>4. w \in Range(s) /\ w \in Nat /\ w < v
        BY <1>3, <3>3
      <3>5. Below(s, v) = UpTo(s, w)
        <4>1. ASSUME NEW j \in DOMAIN s PROVE s[j] < v <=> s[j] <= w
          <5>1. s[j] \in Nat /\ s[j] \in Range(s)
            BY <1>1, <1>3
          <5>2. s[j] < v => s[j] \in W
            BY <5>1
          <5> QED
            BY <1>6, <3>3, <3>4, <5>1, <5>2
        <4> QED
          BY <4>1 DEF Below, UpTo
      <3>6. w \notin U
        BY <1>5, <1>6, <3>4
      <3>7. ~(Cardinality(UpTo(s, w)) >= i) /\ Cardinality(UpTo(s, w)) \in Nat
        BY <1>2, <3>4, <3>6
      <3> QED
        BY <1>1, <3>5, <3>7
    <2> QED
      BY <2>1, <2>2
  <1> QED
    BY <1>5, <1>6, <1>7 DEF AtPlace

\* A smaller value belongs at an earlier place.
LEMMA PlacesAscend ==
    ASSUME NEW s \in Seq(Nat), NEW i \in Nat, NEW j \in Nat, NEW v \in Nat, NEW w \in Nat,
           AtPlace(s, i, v), AtPlace(s, j, w), i <= j
    PROVE  v <= w
  <1> SUFFICES ASSUME w < v PROVE FALSE
    OBVIOUS
  <1>1. \A k \in DOMAIN s : s[k] \in Nat
    OBVIOUS
  <1>2. UpTo(s, w) \subseteq Below(s, v)
    BY <1>1 DEF UpTo, Below
  <1>3. /\ Cardinality(UpTo(s, w)) <= Cardinality(Below(s, v))
        /\ Cardinality(UpTo(s, w)) \in Nat /\ Cardinality(Below(s, v)) \in Nat
    BY <1>2, Counts
  <1> QED
    BY <1>3 DEF AtPlace

\* Every value has a place.
LEMMA ValuePlaced ==
    ASSUME NEW s \in Seq(Nat), NEW v \in Range(s)
    PROVE  \E i \in 1..Len(s) : AtPlace(s, i, v)
  <1>1. PICK j \in DOMAIN s : s[j] = v
    BY DEF Range
  <1>2. v \in Nat /\ Len(s) \in Nat
    BY <1>1
  <1> DEFINE B == Below(s, v)
             i == Cardinality(B) + 1
  <1>3. j \notin B /\ B \cup {j} \subseteq UpTo(s, v) /\ j \in UpTo(s, v)
    BY <1>1, <1>2 DEF Below, UpTo
  <1>4. IsFiniteSet(B) /\ Cardinality(B) \in Nat /\ B \in SUBSET DOMAIN s
    BY Counts
  <1>5. Cardinality(B \cup {j}) = i
    BY <1>3, <1>4, FS_AddElement
  <1>6. /\ Cardinality(B \cup {j}) <= Cardinality(UpTo(s, v))
        /\ Cardinality(UpTo(s, v)) <= Len(s) /\ Cardinality(UpTo(s, v)) \in Nat
    <2>1. B \cup {j} \in SUBSET DOMAIN s /\ UpTo(s, v) \in SUBSET DOMAIN s
      BY <1>4, Counts
    <2> QED
      BY <1>3, <2>1, Counts
  <1> HIDE DEF B
  <1>7. i \in 1..Len(s) /\ Cardinality(B) < i /\ Cardinality(UpTo(s, v)) >= i
    BY <1>2, <1>4, <1>5, <1>6
  <1> HIDE DEF i
  <1> QED
    BY <1>7 DEF AtPlace, B

\* Sorted has the entries of the list, in order.
LEMMA SortedEffect ==
    ASSUME NEW s \in Seq(Nat \ {0}), NEW r, r = Sorted(s)
    PROVE  /\ IsList(r) /\ Len(r) = Len(s) /\ DOMAIN r = 1..Len(s)
           /\ Range(r) = Range(s)
           /\ \A i, j \in DOMAIN r : i < j => r[i] <= r[j]
  <1> DEFINE V(i) == CHOOSE v \in Range(s) : AtPlace(s, i, v)
  <1>1. /\ Len(s) \in Nat /\ DOMAIN s = 1..Len(s) /\ s \in Seq(Nat)
        /\ \A j \in DOMAIN s : s[j] \in Nat
    OBVIOUS
  <1>2. r = [i \in 1..Len(s) |-> V(i)]
    BY <1>1, Zenon DEF Sorted, AtPlace, Below, UpTo
  <1>3. \A i \in 1..Len(s) : V(i) \in Range(s) /\ AtPlace(s, i, V(i))
    BY PlaceFilled
  <1> HIDE DEF V
  <1>4. DOMAIN r = 1..Len(s) /\ \A i \in 1..Len(s) : r[i] \in Range(s) /\ AtPlace(s, i, r[i])
    BY <1>2, <1>3
  <1>5. r = [i \in 1..Len(s) |-> r[i]]
    BY <1>2
  <1>6. IsList(r) /\ Len(r) = Len(s)
    BY <1>1, <1>5, FunctionIsList
  <1>7. Range(s) \subseteq Nat
    BY <1>1 DEF Range
  <1>8. \A i, j \in DOMAIN r : i <= j => r[i] <= r[j]
    BY <1>1, <1>4, <1>7, PlacesAscend
  <1>9. ASSUME NEW v \in Range(s) PROVE v \in Range(r)
    <2>1. PICK i \in 1..Len(s) : AtPlace(s, i, v)
      BY <1>1, ValuePlaced
    <2>2. AtPlace(s, i, r[i]) /\ r[i] \in Nat /\ v \in Nat /\ i \in Nat /\ i <= i
      BY <1>1, <1>4, <1>7
    <2>3. r[i] <= v /\ v <= r[i]
      BY <1>1, <2>1, <2>2, PlacesAscend
    <2>4. r[i] = v
      BY <2>2, <2>3
    <2> QED
      BY <1>4, <2>4 DEF Range
  <1>10. Range(r) = Range(s)
    BY <1>4, <1>9 DEF Range
  <1> QED
    BY <1>1, <1>4, <1>6, <1>8, <1>10

-----------------------------------------------------------------------------
(* The broker *)

Routed == \A k \in DOMAIN routing : IsList(routing[k])

\* Adding a queue to a key makes a route of it.
LEMMA BoundRouted ==
    ASSUME Routed, NEW k, NEW n, routing' = Bound(k, n)
    PROVE  Routed'
  <1> DEFINE new == IF k \in DOMAIN routing THEN Sorted(Append(routing[k], n)) ELSE <<n>>
  <1>1. IsList(new)
    <2>1. CASE k \in DOMAIN routing
      <3> DEFINE s == Append(routing[k], n)
                 E == {routing[k][i] : i \in DOMAIN routing[k]} \cup {n}
      <3>1. IsList(routing[k])
        BY <2>1 DEF Routed
      <3>2. routing[k] \in Seq(E)
        <4>1. Len(routing[k]) \in Nat /\ routing[k] = [i \in 1..Len(routing[k]) |-> routing[k][i]]
          BY <3>1, ListIsFunction
        <4>2. \A i \in 1..Len(routing[k]) : routing[k][i] \in E
          BY <4>1
        <4> HIDE DEF E
        <4> QED
          BY <4>1, <4>2
      <3>3. s \in Seq(E)
        BY <3>2
      <3> HIDE DEF s, E
      <3>4. Len(s) \in Nat /\ DOMAIN s = 1..Len(s)
        BY <3>3
      <3>5. Sorted(s) = [i \in 1..Len(s) |-> Sorted(s)[i]]
        <4> DEFINE V(i) == CHOOSE v \in Range(s) :
                             /\ Cardinality({j \in DOMAIN s : s[j] < v}) < i
                             /\ Cardinality({j \in DOMAIN s : s[j] <= v}) >= i
                   f == Sorted(s)
        <4>1. f = [i \in 1..Len(s) |-> V(i)]
          BY <3>4, Zenon DEF Sorted
        <4> HIDE DEF V, f
        <4>2. f = [i \in 1..Len(s) |-> f[i]]
          BY <4>1
        <4> QED
          BY <4>2 DEF f
      <3>6. IsList(Sorted(s))
        BY <3>4, <3>5, FunctionIsList
      <3> QED
        BY <2>1, <3>6 DEF s
    <2>2. CASE k \notin DOMAIN routing
      <3>1. <<n>> = [i \in 1..1 |-> <<n>>[i]]
        OBVIOUS
      <3>2. IsList(<<n>>)
        BY <3>1, FunctionIsList
      <3> QED
        BY <2>2, <3>2
    <2> QED
      BY <2>1, <2>2
  <1>2. routing' = With(routing, k, new)
    BY DEF Bound
  <1> HIDE DEF new
  <1> QED
    BY <1>1, <1>2 DEF Routed, With

\* Taking a queue off a key that has it makes a route of it, and keeps the
\* entries of other queues.
LEMMA UnboundRouted ==
    ASSUME Routed, NEW n, NEW k \in KeysOf(n), routing' = Unbound(k, n)
    PROVE  /\ Routed'
           /\ \A m, j : m # n => Entries(routing', j, m) = Entries(routing, j, m)
  <1>1. k \in DOMAIN routing /\ n \in Range(routing[k])
    BY DEF KeysOf
  <1>2. IsList(routing[k])
    BY <1>1 DEF Routed
  <1> DEFINE new == RemoveFirst(routing[k], n)
  <1>3. routing' = With(routing, k, new)
    BY DEF Unbound
  <1>4. IsList(new)
    <2>1. PICK p \in DOMAIN routing[k] :
            new = [i \in 1..(Len(routing[k]) - 1) |-> IF i < p THEN routing[k][i] ELSE routing[k][i + 1]]
      BY <1>1, <1>2, RemoveFirstEffect
    <2>2. Len(routing[k]) - 1 \in Nat
      BY <1>2, ListIsFunction
    <2> HIDE DEF new
    <2> QED
      BY <2>1, <2>2, FunctionIsList
  <1>5. \A m : m # n => Cardinality(Places(new, m)) = Cardinality(Places(routing[k], m))
    BY <1>1, <1>2, OtherPlacesKept
  <1> HIDE DEF new
  <1>6. DOMAIN routing' = DOMAIN routing /\ routing'[k] = new
        /\ \A j \in DOMAIN routing : j # k => routing'[j] = routing[j]
    BY <1>1, <1>3 DEF With
  <1>7. Routed'
    BY <1>4, <1>6 DEF Routed
  <1>8. ASSUME NEW m, NEW j, m # n
        PROVE  Entries(routing', j, m) = Entries(routing, j, m)
    <2>1. CASE j = k
      <3>1. Entries(routing, k, m) = Cardinality(Places(routing[k], m))
        BY <1>1 DEF Entries, Places
      <3>2. Entries(routing', k, m) = Cardinality(Places(new, m))
        <4>1. k \in DOMAIN routing' /\ routing'[k] = new
          BY <1>1, <1>6
        <4> QED
          BY <4>1 DEF Entries, Places
      <3> QED
        BY <1>5, <1>8, <2>1, <3>1, <3>2
    <2>2. CASE j # k
      BY <1>6, <2>2 DEF Entries
    <2> QED
      BY <2>1, <2>2
  <1> QED
    BY <1>7, <1>8

\* Every key has a list of queues, whatever commands are applied.
LEMMA RoutesKept ==
    ASSUME Routed, [Next]_vars
    PROVE  Routed'
  <1>1. CASE UNCHANGED vars
    BY <1>1 DEF vars, Routed
  <1>2. ASSUME UNCHANGED routing
        PROVE  Routed'
    BY <1>2 DEF Routed
  <1>3. ASSUME NEW n, NEW k, NEW size, NEW hasDLQ, CreateQueue(n, k, size, hasDLQ)
        PROVE  Routed'
    <2>1. UNCHANGED routing \/ routing' = Bound(k, n)
      BY <1>3 DEF CreateQueue, Refuses
    <2> QED
      BY <1>2, <2>1, BoundRouted
  <1>4. ASSUME NEW n, DeleteQueue(n)
        PROVE  Routed'
    <2>1. UNCHANGED routing \/ \E k \in KeysOf(n) : routing' = Unbound(k, n)
      BY <1>4 DEF DeleteQueue, Refuses
    <2> QED
      BY <1>2, <2>1, UnboundRouted
  <1>5. ASSUME NEW k, NEW n, AddRouteKey(k, n)
        PROVE  Routed'
    <2>1. UNCHANGED routing \/ routing' = Bound(k, n)
      BY <1>5 DEF AddRouteKey, Refuses
    <2> QED
      BY <1>2, <2>1, BoundRouted
  <1>6. ASSUME NEW k, NEW n, DeleteRoutingKey(k, n)
        PROVE  Routed'
    <2>1. UNCHANGED routing \/ (k \in KeysOf(n) /\ routing' = Unbound(k, n))
      BY <1>6 DEF DeleteRoutingKey, Refuses, Panics
    <2> QED
      BY <1>2, <2>1, UnboundRouted
  <1>7. ASSUME NEW k, NEW ids, BatchAddMessage(k, ids)
        PROVE  Routed'
    BY <1>2, <1>7 DEF BatchAddMessage, Refuses
  <1>8. ASSUME NEW n, NEW want, NEW c, Dequeue(n, want, c)
        PROVE  Routed'
    BY <1>2, <1>8 DEF Dequeue, Refuses
  <1>9. ASSUME NEW n, NEW id, NEW c, Ack(n, id, c) \/ Nack(n, id, c)
        PROVE  Routed'
    BY <1>2, <1>9 DEF Ack, AcksOne, Nack, Refuses, Panics
  <1>10. ASSUME NEW n, NEW ids, NEW c, BatchAck(n, ids, c)
         PROVE  Routed'
    BY <1>2, <1>10 DEF BatchAck, AcksOne, Refuses, Panics
  <1> QED
    BY <1>1, <1>3, <1>4, <1>5, <1>6, <1>7, <1>8, <1>9, <1>10 DEF Next, AddMessage

\* DeleteRoutingKey and DeleteQueue take the entry found by a search off a sorted
\* list; for any queues, keys and lengths of lists, with queues listed twice or
\* sharing keys, no other queue loses or gains an entry by it.
THEOREM OthersKeepRoutes == Spec => OthersRouted
  <1>1. Init => Routed
    BY DEF Init, Routed
  <1>2. Routed /\ [Next]_vars => Routed'
    BY RoutesKept
  <1>3. ASSUME Routed, routing' # routing, NEW n,
               DeleteQueue(n) \/ \E k \in Keys : DeleteRoutingKey(k, n)
        PROVE  \A m \in AllNames \ {n}, k \in Keys : Entries(routing', k, m) = Entries(routing, k, m)
    <2>1. PICK k \in KeysOf(n) : routing' = Unbound(k, n)
      BY <1>3 DEF DeleteQueue, DeleteRoutingKey, Refuses, Panics
    <2> QED
      BY <1>3, <2>1, UnboundRouted
  <1>4. Routed => [routing' # routing => \A n \in AllNames :
            DeleteQueue(n) \/ (\E k \in Keys : DeleteRoutingKey(k, n)) =>
            \A m \in AllNames \ {n}, k \in Keys :
                Entries(routing', k, m) = Entries(routing, k, m)]_vars
    BY <1>3
  <1> QED
    BY <1>1, <1>2, <1>4, PTL DEF Spec, OthersRouted

-----------------------------------------------------------------------------
(* The invariant: types, order, the routes of every queue, dead-letter queues *)

\* No queue is its own dead-letter queue.
DeadLetterApart == \A o \in Objects : heap[o].deadLetter # o

BrokerInv == TypeOK /\ RoutesAscend /\ EveryQueueRouted /\ DeadLetterApart

Ascends(l) == \A i, j \in DOMAIN l : i < j => l[i] <= l[j]

LEMMA NamesPositive ==
    ASSUME BrokerAssumption
    PROVE  AllNames \subseteq Nat \ {0}
  <1>1. \A n \in Names : n \in Nat \ {0} /\ n + 1 \in Nat \ {0}
    BY DEF BrokerAssumption
  <1> QED
    BY <1>1 DEF AllNames, Dlq

\* The list without one entry
LEMMA RemovedEntry ==
    ASSUME NEW X, NEW l \in Seq(X), NEW n, NEW r, r = RemoveFirst(l, n)
    PROVE  /\ r \in Seq(X)
           /\ \A m \in Range(l) : m # n => m \in Range(r)
           /\ X \subseteq Nat /\ Ascends(l) => Ascends(r)
  <1>1. CASE n \notin Range(l)
    <2>1. r = l
      BY <1>1 DEF RemoveFirst, Range
    <2> QED
      BY <2>1
  <1>2. CASE n \in Range(l)
    <2>1. IsList(l) /\ Len(l) \in Nat /\ DOMAIN l = 1..Len(l) /\ \A i \in 1..Len(l) : l[i] \in X
      BY SeqIsList
    <2>2. PICK p \in DOMAIN l :
            /\ l[p] = n
            /\ r = [i \in 1..(Len(l) - 1) |-> IF i < p THEN l[i] ELSE l[i + 1]]
      BY <1>2, <2>1, RemoveFirstEffect
    <2> DEFINE At(i) == IF i < p THEN i ELSE i + 1
    <2>3. /\ p \in 1..Len(l) /\ Len(l) - 1 \in Nat /\ DOMAIN r = 1..(Len(l) - 1)
          /\ \A i \in 1..(Len(l) - 1) : At(i) \in 1..Len(l) /\ r[i] = l[At(i)]
      BY <2>1, <2>2
    <2>4. r \in Seq(X)
      <3>1. \A i \in 1..(Len(l) - 1) : r[i] \in X
        BY <2>1, <2>3
      <3>2. r = [i \in 1..(Len(l) - 1) |-> r[i]]
        BY <2>2
      <3>3. r \in [1..(Len(l) - 1) -> X]
        BY <3>1, <3>2
      <3> QED
        BY <2>3, <3>3
    <2>5. ASSUME NEW m \in Range(l), m # n PROVE m \in Range(r)
      <3>1. PICK j \in DOMAIN l : l[j] = m
        BY DEF Range
      <3>2. j # p /\ j \in Nat
        BY <2>1, <2>2, <2>5, <3>1
      <3>3. CASE j < p
        <4>1. j \in DOMAIN r /\ r[j] = m
          BY <2>1, <2>3, <3>1, <3>3
        <4> QED
          BY <4>1 DEF Range
      <3>4. CASE ~(j < p)
        <4> DEFINE k == j - 1
        <4>1. k \in 1..(Len(l) - 1) /\ ~(k < p) /\ k + 1 = j
          BY <2>1, <2>3, <3>1, <3>2, <3>4
        <4> HIDE DEF k
        <4>2. k \in DOMAIN r /\ r[k] = m
          BY <2>3, <3>1, <4>1
        <4> QED
          BY <4>2 DEF Range
      <3> QED
        BY <3>3, <3>4
    <2>6. \A i, j \in DOMAIN r : i < j => At(i) < At(j)
      BY <2>3
    <2> HIDE DEF At
    <2>7. Ascends(l) => Ascends(r)
      BY <2>1, <2>3, <2>6 DEF Ascends
    <2> QED
      BY <2>4, <2>5, <2>7
  <1> QED
    BY <1>1, <1>2

\* The routes of the queues that are left alone
KeysKept(m) == \A k \in KeysOf(m) : k \in KeysOf(m)'

LEMMA BoundEffect ==
    ASSUME BrokerAssumption, TypeOK, RoutesAscend, NEW k \in Keys, NEW n \in AllNames,
           routing' = Bound(k, n)
    PROVE  /\ DOMAIN routing' \subseteq Keys
           /\ \A j \in DOMAIN routing' : routing'[j] \in Seq(AllNames)
           /\ RoutesAscend'
           /\ k \in KeysOf(n)' /\ \A m : KeysKept(m)
  <1> DEFINE new == IF k \in DOMAIN routing THEN Sorted(Append(routing[k], n)) ELSE <<n>>
  <1>1. /\ DOMAIN routing \subseteq Keys /\ AllNames \subseteq Nat \ {0}
        /\ \A j \in DOMAIN routing : routing[j] \in Seq(AllNames) /\ Ascends(routing[j])
    BY NamesPositive DEF TypeOK, RoutesAscend, Ascends
  <1>2. routing' = With(routing, k, new)
    BY DEF Bound
  <1>3. /\ new \in Seq(AllNames) /\ Ascends(new) /\ n \in Range(new)
        /\ k \in DOMAIN routing => Range(routing[k]) \subseteq Range(new)
    <2>1. CASE k \in DOMAIN routing
      <3> DEFINE l == routing[k]
                 s == Append(l, n)
      <3>1. l \in Seq(AllNames) /\ new = Sorted(s)
        BY <1>1, <2>1
      <3> HIDE DEF l, new
      <3>2. /\ s \in Seq(AllNames) /\ DOMAIN l = 1..Len(l) /\ DOMAIN s = 1..(Len(l) + 1)
            /\ Len(l) \in Nat /\ \A i \in 1..Len(l) : s[i] = l[i] /\ i \in 1..(Len(l) + 1)
            /\ s[Len(l) + 1] = n /\ Len(l) + 1 \in 1..(Len(l) + 1)
        BY <3>1
      <3> HIDE DEF s
      <3>3. Range(l) \subseteq Range(s) /\ n \in Range(s) /\ Range(s) \subseteq AllNames
        BY <3>2 DEF Range
      <3>4. s \in Seq(Nat \ {0})
        <4>1. \A i \in 1..(Len(l) + 1) : s[i] \in Nat \ {0}
          BY <1>1, <3>2, <3>3 DEF Range
        <4>2. s = [i \in 1..(Len(l) + 1) |-> s[i]] /\ Len(l) + 1 \in Nat
          BY <3>2
        <4>3. s \in [1..(Len(l) + 1) -> Nat \ {0}]
          BY <4>1, <4>2
        <4> QED
          BY <4>2, <4>3
      <3>5. /\ IsList(new) /\ Len(new) = Len(s) /\ DOMAIN new = 1..Len(s)
            /\ Range(new) = Range(s)
            /\ \A i, j \in DOMAIN new : i < j => new[i] <= new[j]
        BY <3>1, <3>4, SortedEffect
      <3>6. new \in Seq(AllNames)
        <4>1. Len(new) \in Nat /\ new = [i \in 1..Len(new) |-> new[i]]
          BY <3>5, ListIsFunction
        <4>2. \A i \in 1..Len(new) : new[i] \in AllNames
          BY <3>3, <3>5 DEF Range
        <4> QED
          BY <4>1, <4>2
      <3> QED
        BY <3>3, <3>5, <3>6 DEF Ascends, l
    <2>2. CASE k \notin DOMAIN routing
      <3>1. new = <<n>>
        BY <2>2
      <3> HIDE DEF new
      <3>2. new \in Seq(AllNames) /\ DOMAIN new = {1} /\ new[1] = n
        BY <3>1
      <3> QED
        BY <2>2, <3>2 DEF Ascends, Range
    <2> QED
      BY <2>1, <2>2
  <1> HIDE DEF new
  <1>4. /\ DOMAIN routing' = DOMAIN routing \cup {k} /\ routing'[k] = new
        /\ \A j \in DOMAIN routing \ {k} : routing'[j] = routing[j]
    BY <1>2 DEF With
  <1>5. /\ DOMAIN routing' \subseteq Keys
        /\ \A j \in DOMAIN routing' : routing'[j] \in Seq(AllNames) /\ Ascends(routing'[j])
    BY <1>1, <1>3, <1>4
  <1>6. RoutesAscend'
    BY <1>5 DEF RoutesAscend, Ascends
  <1>7. k \in KeysOf(n)' /\ \A m : KeysKept(m)
    BY <1>3, <1>4 DEF KeysOf, KeysKept
  <1> QED
    BY <1>5, <1>6, <1>7

LEMMA UnboundEffect ==
    ASSUME BrokerAssumption, TypeOK, RoutesAscend, NEW n, NEW k \in KeysOf(n),
           routing' = Unbound(k, n)
    PROVE  /\ DOMAIN routing' \subseteq Keys
           /\ \A j \in DOMAIN routing' : routing'[j] \in Seq(AllNames)
           /\ RoutesAscend'
           /\ \A m : m # n => KeysKept(m)
           /\ \A j \in KeysOf(n) \ {k} : j \in KeysOf(n)'
  <1> DEFINE new == RemoveFirst(routing[k], n)
  <1>1. /\ DOMAIN routing \subseteq Keys /\ AllNames \subseteq Nat
        /\ \A j \in DOMAIN routing : routing[j] \in Seq(AllNames) /\ Ascends(routing[j])
    BY NamesPositive DEF TypeOK, RoutesAscend, Ascends
  <1>2. k \in DOMAIN routing
    BY DEF KeysOf
  <1>3. routing' = With(routing, k, new)
    BY DEF Unbound
  <1>4. PICK r : r = new
    OBVIOUS
  <1>5. /\ r \in Seq(AllNames) /\ Ascends(r)
        /\ \A m \in Range(routing[k]) : m # n => m \in Range(r)
    <2> HIDE DEF new
    <2>1. routing[k] \in Seq(AllNames) /\ Ascends(routing[k])
      BY <1>1, <1>2
    <2>2. r = RemoveFirst(routing[k], n)
      BY <1>4 DEF new
    <2> QED
      BY <1>1, <2>1, <2>2, RemovedEntry
  <1>6. /\ DOMAIN routing' = DOMAIN routing /\ routing'[k] = r
        /\ \A j \in DOMAIN routing \ {k} : routing'[j] = routing[j]
    <2> HIDE DEF new
    <2> QED
      BY <1>2, <1>3, <1>4 DEF With
  <1>7. /\ DOMAIN routing' \subseteq Keys
        /\ \A j \in DOMAIN routing' : routing'[j] \in Seq(AllNames) /\ Ascends(routing'[j])
    BY <1>1, <1>5, <1>6
  <1>8. RoutesAscend'
    BY <1>7 DEF RoutesAscend, Ascends
  <1>9. \A m : m # n => KeysKept(m)
    BY <1>5, <1>6 DEF KeysOf, KeysKept
  <1>10. \A j \in KeysOf(n) \ {k} : j \in KeysOf(n)'
    BY <1>6 DEF KeysOf
  <1> QED
    BY <1>7, <1>8, <1>9, <1>10

-----------------------------------------------------------------------------
(* Messages move and pointers to dead-letter queues do not. *)

Pointers == Objects \cup {NilPointer, NilInterface}
Queue == {q \in [msgs : Seq(Node), tail : Nat, amount : Int, cap : Nat, deadLetter : Pointers] :
            q.tail <= Len(q.msgs)}

\* The heaps with the pointers that this one has
SamePointers == {h \in [Objects -> Queue] :
                   \A o \in Objects : h[o].deadLetter = heap[o].deadLetter}

LEMMA HeapType ==
    ASSUME TypeOK
    PROVE  heap \in [Objects -> Queue]
  BY DEF TypeOK, Queue, Pointers

LEMMA QueueParts ==
    ASSUME NEW q \in Queue
    PROVE  /\ IsList(q.msgs) /\ Range(q.msgs) \subseteq Node
           /\ Len(q.msgs) \in Nat /\ DOMAIN q.msgs = 1..Len(q.msgs)
           /\ \A i \in DOMAIN q.msgs : q.msgs[i] \in Node
           /\ q.tail \in 0..Len(q.msgs) /\ q.tail \in Nat /\ q.amount \in Int /\ q.cap \in Nat
           /\ q.deadLetter \in Pointers
  <1>1. /\ q.msgs \in Seq(Node) /\ q.tail \in Nat /\ q.amount \in Int /\ q.cap \in Nat
        /\ q.deadLetter \in Pointers /\ q.tail <= Len(q.msgs)
    BY DEF Queue
  <1>2. PICK l : l = q.msgs
    OBVIOUS
  <1>3. l \in Seq(Node)
    BY <1>1, <1>2
  <1>4. IsList(l)
    BY <1>3, SeqIsList
  <1>5. Len(l) \in Nat /\ DOMAIN l = 1..Len(l) /\ \A i \in DOMAIN l : l[i] \in Node
    BY <1>3
  <1>6. Range(l) \subseteq Node
    BY <1>5 DEF Range
  <1> QED
    BY <1>1, <1>2, <1>4, <1>5, <1>6

\* A queue with another chain
Rechained(q, l, t, a) == [q EXCEPT !.msgs = l, !.tail = t, !.amount = a]

LEMMA QueueSet ==
    ASSUME NEW q \in Queue, NEW l \in Seq(Node), NEW t \in 0..Len(l), NEW a \in Int,
           NEW e, e = Rechained(q, l, t, a)
    PROVE  e \in Queue /\ e.deadLetter = q.deadLetter
  <1>1. t \in Nat /\ t <= Len(l)
    OBVIOUS
  <1> QED
    BY <1>1 DEF Queue, Rechained

LEMMA NodeOf ==
    ASSUME NEW id \in Ids, NEW c \in Consumers \cup {None}
    PROVE  [id |-> id, owner |-> c] \in Node
  BY DEF Node

LEMMA EnqueuedType ==
    ASSUME NEW q \in Queue, NEW ids \in Seq(Ids), NEW e, e = Enqueued(q, ids)
    PROVE  e \in Queue /\ e.deadLetter = q.deadLetter
  <1>1. /\ IsList(q.msgs) /\ Range(q.msgs) \subseteq Node /\ Len(q.msgs) \in Nat
        /\ q.tail \in 0..Len(q.msgs) /\ q.tail \in Nat /\ q.amount \in Int
    BY QueueParts
  <1>2. IsList(ids) /\ Len(ids) \in Nat /\ \A i \in DOMAIN ids : ids[i] \in Ids
    BY SeqIsList
  <1>3. q.amount + Len(ids) \in Int /\ q.tail + Len(ids) \in Nat
    BY <1>1, <1>2
  <1>4. CASE e = q
    BY <1>4
  <1>5. CASE e = [q EXCEPT !.amount = q.amount + Len(ids)]
    BY <1>3, <1>5 DEF Queue
  <1>6. CASE e = [q EXCEPT !.msgs = [i \in 1..(q.tail + Len(ids)) |->
                                      IF i <= q.tail THEN q.msgs[i]
                                      ELSE [id |-> ids[i - q.tail], owner |-> None]],
                           !.tail = q.tail + Len(ids), !.amount = q.amount + Len(ids)]
    <2>1. PICK s, t : s = q.msgs /\ t = q.tail
      OBVIOUS
    <2>2. PICK l, u, a : l = NodesBehind(s, t, ids, None) /\ u = t + Len(ids) /\ a = q.amount + Len(ids)
      OBVIOUS
    <2>3. e = Rechained(q, l, u, a)
      BY <1>6, <2>1, <2>2 DEF NodesBehind, Rechained
    <2>4. /\ IsList(l) /\ Len(l) = t + Len(ids)
          /\ Range(l) \subseteq Range(s) \cup {[id |-> y, owner |-> None] : y \in Range(ids)}
      BY <1>1, <1>2, <2>1, <2>2, ListBehind
    <2>5. Range(l) \subseteq Node
      <3>1. \A y \in Range(ids) : [id |-> y, owner |-> None] \in Node
        BY <1>2, NodeOf DEF Range
      <3> QED
        BY <1>1, <2>1, <2>4, <3>1
    <2>6. u \in 0..Len(l) /\ a \in Int
      BY <1>3, <2>1, <2>2, <2>4
    <2>7. l \in Seq(Node)
      BY <2>4, <2>5, ListOver
    <2> QED
      BY <2>3, <2>6, <2>7, QueueSet
  <1> QED
    BY <1>4, <1>5, <1>6 DEF Enqueued, Linked

LEMMA LockedType ==
    ASSUME NEW q \in Queue, NEW taken, NEW c \in Consumers \cup {None},
           NEW e, e = Locked(q, taken, c)
    PROVE  e \in Queue /\ e.deadLetter = q.deadLetter
  <1>1. /\ Len(q.msgs) \in Nat /\ DOMAIN q.msgs = 1..Len(q.msgs)
        /\ \A i \in DOMAIN q.msgs : q.msgs[i] \in Node
        /\ q.tail \in 0..Len(q.msgs) /\ q.amount \in Int
    BY QueueParts
  <1>2. PICK n, l : /\ n = Len(q.msgs)
                    /\ l = [i \in 1..n |-> IF i \in taken THEN [id |-> q.msgs[i].id, owner |-> c]
                                          ELSE q.msgs[i]]
    OBVIOUS
  <1>3. \A i \in 1..n : l[i] \in Node
    <2> SUFFICES ASSUME NEW i \in 1..n PROVE l[i] \in Node
      OBVIOUS
    <2>1. q.msgs[i] \in Node /\ q.msgs[i].id \in Ids
      BY <1>1, <1>2 DEF Node
    <2>2. [id |-> q.msgs[i].id, owner |-> c] \in Node
      BY <2>1, NodeOf
    <2> QED
      BY <1>2, <2>1, <2>2
  <1>4. DOMAIN l = 1..n /\ l = [i \in 1..n |-> l[i]] /\ n \in Nat
    BY <1>1, <1>2
  <1>5. IsList(l) /\ Len(l) = n
    BY <1>4, FunctionIsList
  <1>6. Range(l) \subseteq Node
    BY <1>3, <1>4 DEF Range
  <1>7. e = Rechained(q, l, q.tail, q.amount)
    <2>1. e = [q EXCEPT !.msgs = l]
      BY <1>1, <1>2 DEF Locked
    <2> QED
      BY <2>1 DEF Queue, Rechained
  <1>8. q.tail \in 0..Len(l)
    BY <1>1, <1>2, <1>5
  <1>9. l \in Seq(Node)
    BY <1>5, <1>6, ListOver
  <1> QED
    BY <1>1, <1>7, <1>8, <1>9, QueueSet

LEMMA UnlinkedType ==
    ASSUME NEW q \in Queue, NEW i \in DOMAIN q.msgs, NEW e, e = Unlinked(q, i)
    PROVE  e \in Queue /\ e.deadLetter = q.deadLetter
  <1>1. PICK s, n, t : s = q.msgs /\ n = Len(s) /\ t = q.tail
    OBVIOUS
  <1>2. /\ IsList(s) /\ Range(s) \subseteq Node /\ n \in Nat /\ DOMAIN s = 1..n /\ i \in 1..n
        /\ \A j \in DOMAIN s : s[j] \in Node
        /\ t \in 0..n /\ q.amount \in Int
    BY <1>1, QueueParts
  <1>3. PICK l : l = IF i = t THEN FirstOf(s, i - 1) ELSE DropAt(s, i)
    OBVIOUS
  <1>4. PICK u, a : u = (IF i <= t THEN t - 1 ELSE t) /\ a = q.amount - 1
    OBVIOUS
  <1>5. e = Rechained(q, l, u, a)
    BY <1>1, <1>3, <1>4 DEF Unlinked, Q!Prefix, Q!RemoveAtPos, FirstOf, DropAt, Rechained
  <1>6. CASE i = t
    <2>1. l = FirstOf(s, u) /\ u \in 0..Len(s) /\ u < i
      BY <1>1, <1>2, <1>3, <1>4, <1>6
    <2>2. IsList(l) /\ Len(l) = u /\ Range(l) = {s[j] : j \in 1..u}
      BY <1>2, <2>1, ListPrefix
    <2>3. Range(l) \subseteq Node
      <3>1. \A j \in 1..u : j \in DOMAIN s
        BY <1>1, <1>2, <2>1
      <3> QED
        BY <1>2, <2>2, <3>1
    <2>4. u \in 0..Len(l) /\ a \in Int
      BY <1>2, <1>4, <2>1, <2>2
    <2>5. l \in Seq(Node)
      BY <2>2, <2>3, ListOver
    <2> QED
      BY <1>5, <2>4, <2>5, QueueSet
  <1>7. CASE i # t
    <2>1. l = DropAt(s, i) /\ i \in DOMAIN s
      BY <1>2, <1>3, <1>7
    <2>2. IsList(l) /\ Len(l) = Len(s) - 1 /\ Range(l) = {s[j] : j \in DOMAIN s \ {i}}
      BY <1>2, <2>1, ListRemoveAt
    <2>3. Range(l) \subseteq Node
      BY <1>2, <2>2
    <2>4. u \in 0..Len(l) /\ a \in Int
      BY <1>1, <1>2, <1>4, <1>7, <2>2
    <2>5. l \in Seq(Node)
      BY <2>2, <2>3, ListOver
    <2> QED
      BY <1>5, <2>4, <2>5, QueueSet
  <1> QED
    BY <1>6, <1>7

LEMMA SameCardinality ==
    ASSUME NEW q, NEW S
    PROVE  Q(q)!Cardinality(S) = Cardinality(S)
  BY DEF Q!Cardinality, Cardinality

LEMMA InOrderEnumerates ==
    ASSUME NEW q, NEW S, NEW f \in Q(q)!InOrder(S)
    PROVE  Enumerates(f, S)
  <1>1. Q(q)!Cardinality(S) = Cardinality(S)
    BY SameCardinality
  <1> QED
    BY <1>1 DEF Q!InOrder, Enumerates

\* What a batch acknowledgement keeps, and where Tail is then
LEMMA KeptType ==
    ASSUME NEW q \in Queue, NEW taken, taken \subseteq DOMAIN q.msgs,
           NEW kept, kept = Q(q)!KeptBy(taken)
    PROVE  /\ kept \subseteq DOMAIN q.msgs
           /\ Cardinality(kept) \in Nat
           /\ Q(q)!TailAmong(kept, taken) \in 0..Cardinality(kept)
  <1>1. Len(q.msgs) \in Nat /\ DOMAIN q.msgs = 1..Len(q.msgs) /\ q.tail \in 0..Len(q.msgs)
    BY QueueParts
  <1>2. kept \subseteq 1..Len(q.msgs)
    <2>1. \A j \in 1..(q.tail - 1) : j \in 1..Len(q.msgs)
      BY <1>1
    <2> QED
      BY <2>1 DEF Q!KeptBy, Q!Positions
  <1>3. Cardinality(kept) \in Nat /\ Cardinality({k \in kept : k <= q.tail}) \in 0..Cardinality(kept)
    BY <1>1, <1>2, UpToCount
  <1>4. Q(q)!TailAmong(kept, taken) \in {Cardinality(kept), 0, Cardinality({k \in kept : k <= q.tail})}
    BY SameCardinality DEF Q!TailAmong
  <1> QED
    BY <1>1, <1>2, <1>3, <1>4

LEMMA AllAckedType ==
    ASSUME NEW q \in Queue, NEW taken, taken \subseteq DOMAIN q.msgs,
           NEW f \in Q(q)!InOrder(Q(q)!KeptBy(taken)), NEW e, e = AllAcked(q, taken, f)
    PROVE  e \in Queue /\ e.deadLetter = q.deadLetter
  <1>1. PICK s, kept, u : s = q.msgs /\ kept = Q(q)!KeptBy(taken) /\ u = Q(q)!TailAmong(kept, taken)
    OBVIOUS
  <1>2. f \in Q(q)!InOrder(kept) /\ e = [q EXCEPT !.msgs = Selected(s, f), !.tail = u]
    BY <1>1 DEF AllAcked, Selected
  <1>3. PICK l : l = Selected(s, f)
    OBVIOUS
  <1>4. kept \subseteq DOMAIN s /\ u \in 0..Cardinality(kept)
    BY <1>1, KeptType
  <1>5. IsList(s) /\ (\A i \in DOMAIN s : s[i] \in Node) /\ q.amount \in Int
    BY <1>1, QueueParts
  <1>6. IsList(l) /\ Len(l) = Cardinality(kept) /\ Range(l) = {s[k] : k \in kept}
    BY <1>2, <1>3, <1>4, <1>5, InOrderEnumerates, ListSelect
  <1>7. Range(l) \subseteq Node
    BY <1>4, <1>5, <1>6
  <1>8. e = Rechained(q, l, u, q.amount)
    BY <1>2, <1>3 DEF Queue, Rechained
  <1>9. l \in Seq(Node) /\ u \in 0..Len(l)
    BY <1>4, <1>6, <1>7, ListOver
  <1> QED
    BY <1>5, <1>8, <1>9, QueueSet

LEMMA RestoredType ==
    ASSUME NEW q \in Queue, NEW taken, taken \subseteq DOMAIN q.msgs, taken # {},
           ~Q(q)!RestorePanics(taken),
           NEW f \in Q(q)!InOrder(Q(q)!KeptBy(taken)), NEW g \in Q(q)!InOrder(taken),
           NEW e, e = Restored(q, taken, f, g)
    PROVE  e \in Queue /\ e.deadLetter = q.deadLetter
  <1>1. PICK s, kept, at : /\ s = q.msgs /\ kept = Q(q)!KeptBy(taken)
                           /\ at = Q(q)!TailAmong(kept, taken)
    OBVIOUS
  <1>2. /\ f \in Q(q)!InOrder(kept)
        /\ e = [q EXCEPT !.msgs = LinkedBack(s, f, g),
                         !.tail = IF q.tail \in taken /\ ~Q(q)!TookTail(taken) THEN 2
                                  ELSE IF at > 1 THEN at + Len(g) ELSE at]
    BY <1>1 DEF Restored, LinkedBack
  <1>3. PICK l, u : /\ l = LinkedBack(s, f, g)
                    /\ u = IF q.tail \in taken /\ ~Q(q)!TookTail(taken) THEN 2
                           ELSE IF at > 1 THEN at + Len(g) ELSE at
    OBVIOUS
  <1>4. kept \subseteq DOMAIN s /\ taken \subseteq DOMAIN s /\ at \in 0..Cardinality(kept)
    BY <1>1, KeptType
  <1>5. /\ IsList(s) /\ (\A i \in DOMAIN s : s[i] \in Node) /\ q.amount \in Int
        /\ Len(s) \in Nat /\ DOMAIN s = 1..Len(s)
    BY <1>1, QueueParts
  <1>6. kept # {}
    BY <1>1 DEF Q!RestorePanics
  <1>7. Enumerates(f, kept) /\ Enumerates(g, taken)
    BY <1>2, InOrderEnumerates
  <1>8. /\ Cardinality(kept) \in Nat /\ Cardinality(taken) \in Nat /\ Len(g) = Cardinality(taken)
        /\ Cardinality(kept) > 0 /\ Cardinality(taken) > 0
    <2>1. /\ Cardinality(kept) \in Nat /\ DOMAIN f = 1..Cardinality(kept)
          /\ \A x \in kept : \E i \in DOMAIN f : f[i] = x
      BY <1>4, <1>5, <1>7, EnumeratesAll
    <2>2. /\ Cardinality(taken) \in Nat /\ DOMAIN g = 1..Cardinality(taken)
          /\ Len(g) = Cardinality(taken)
          /\ \A x \in taken : \E i \in DOMAIN g : g[i] = x
      BY <1>4, <1>5, <1>7, EnumeratesAll
    <2>3. DOMAIN f # {} /\ DOMAIN g # {}
      BY <1>6, <2>1, <2>2
    <2> QED
      BY <2>1, <2>2, <2>3
  <1>9. /\ IsList(l) /\ Len(l) = Cardinality(kept) + Cardinality(taken)
        /\ Range(l) = {s[k] : k \in kept \cup taken}
    BY <1>3, <1>4, <1>5, <1>6, <1>7, ListBack
  <1>10. Range(l) \subseteq Node
    BY <1>4, <1>5, <1>9
  <1>11. u \in 0..Len(l)
    <2>1. u \in {2, at, at + Cardinality(taken)}
      BY <1>3, <1>8
    <2> QED
      BY <1>4, <1>8, <1>9, <2>1
  <1>12. e = Rechained(q, l, u, q.amount)
    BY <1>2, <1>3 DEF Queue, Rechained
  <1>13. l \in Seq(Node)
    BY <1>9, <1>10, ListOver
  <1> QED
    BY <1>5, <1>11, <1>12, <1>13, QueueSet

LEMMA HeapSet ==
    ASSUME NEW h \in SamePointers, NEW o \in Objects, NEW q \in Queue,
           q.deadLetter = h[o].deadLetter
    PROVE  [h EXCEPT ![o] = q] \in SamePointers
  BY DEF SamePointers

\* Delivery, one entry of the route after another
LEMMA DeliveredType ==
    ASSUME TypeOK, NEW k \in DOMAIN routing, NEW ids \in Seq(Ids)
    PROVE  Delivered(heap, k, ids) \in SamePointers
  <1> DEFINE l == routing[k]
             n == Len(l)
             H == SamePointers
             Put(g, m) == IF Exists(m) THEN [g EXCEPT ![queues[m]] = Enqueued(@, ids)] ELSE g
             Rec(it) == it = [s \in SUBSET (1..n) |->
                              IF s = {} THEN heap ELSE Put(it[s \ {Max(s)}], l[Max(s)])]
             it0 == CHOOSE it : Rec(it)
             step == [i \in 1..n |-> [g \in H |-> Put(g, l[i])]]
  <1>1. n \in Nat /\ DOMAIN l = 1..n
    BY DEF TypeOK
  <1>2. Delivered(heap, k, ids) = it0[1..n]
    <2> HIDE DEF n
    <2> QED
      BY <1>1 DEF Delivered, FoldLeft, MapThenFoldSet
  <1> HIDE DEF n, l
  <1>3. heap \in H
    BY HeapType DEF SamePointers
  <1>4. ASSUME NEW g \in H, NEW m PROVE Put(g, m) \in H
    <2>1. CASE Exists(m)
      <3>1. PICK o : o = queues[m]
        OBVIOUS
      <3>2. PICK e : e = Enqueued(g[o], ids)
        OBVIOUS
      <3>3. o \in Objects /\ g[o] \in Queue
        BY <2>1, <3>1 DEF TypeOK, Exists, SamePointers
      <3>4. e \in Queue /\ e.deadLetter = g[o].deadLetter
        BY <3>2, <3>3, EnqueuedType
      <3>5. [g EXCEPT ![o] = e] \in H
        BY <3>3, <3>4, HeapSet
      <3>6. Put(g, m) = [g EXCEPT ![o] = e]
        BY <2>1, <3>1, <3>2
      <3> QED
        BY <3>5, <3>6
    <2>2. CASE ~Exists(m)
      BY <2>2
    <2> QED
      BY <2>1, <2>2
  <1> HIDE DEF Put, H
  <1>5. step \in [1..n -> [H -> H]] /\ \A i \in 1..n, g \in H : step[i][g] = Put(g, l[i])
    BY <1>4
  <1> HIDE DEF step
  <1>6. PICK it \in [SUBSET (1..n) -> H] : IsFold(it, n, heap, step)
    BY <1>1, <1>3, <1>5, FoldExists
  <1>7. \E x : Rec(x)
    <2>1. ASSUME NEW s \in SUBSET (1..n), s # {}
          PROVE  step[Max(s)][it[s \ {Max(s)}]] = Put(it[s \ {Max(s)}], l[Max(s)])
      <3>1. Max(s) \in 1..n /\ it[s \ {Max(s)}] \in H
        BY <1>1, <2>1, MaxOf
      <3> QED
        BY <1>5, <3>1
    <2>2. Rec(it)
      BY <1>6, <2>1 DEF IsFold
    <2> QED
      BY <2>2
  <1>8. Rec(it0)
    <2> HIDE DEF Rec
    <2> QED
      BY <1>7
  <1> HIDE DEF it0
  <1>9. it0[1..0] = heap
    <2>1. 1..0 = {} /\ {} \in SUBSET (1..n)
      OBVIOUS
    <2> QED
      BY <1>8, <2>1
  <1>10. ASSUME NEW i \in 1..n
         PROVE  it0[1..i] = Put(it0[1..(i - 1)], l[i])
    <2>1. i \in Nat /\ i # 0 /\ i \in 1..i /\ \A j \in 1..i : j \in 1..n
      BY <1>1
    <2>2. 1..i \in SUBSET (1..n) /\ 1..i # {}
      BY <2>1
    <2>3. Max(1..i) = i /\ (1..i) \ {i} = 1..(i - 1)
      BY <2>1, MaxOfPrefix
    <2>4. it0[1..i] = Put(it0[(1..i) \ {Max(1..i)}], l[Max(1..i)])
      BY <1>8, <2>2
    <2> QED
      BY <2>3, <2>4
  <1> HIDE DEF Rec
  <1> DEFINE P == {i \in Nat : i <= n => it0[1..i] \in H}
  <1>11. 0 \in P
    BY <1>3, <1>9
  <1>12. ASSUME NEW i \in Nat, i \in P PROVE i + 1 \in P
    <2> SUFFICES ASSUME i + 1 <= n PROVE it0[1..(i + 1)] \in H
      OBVIOUS
    <2>1. it0[1..i] \in H /\ i + 1 \in 1..n /\ (i + 1) - 1 = i
      BY <1>1, <1>12
    <2>2. it0[1..(i + 1)] = Put(it0[1..i], l[i + 1])
      BY <1>10, <2>1
    <2> QED
      BY <1>4, <2>1, <2>2
  <1>13. Nat \subseteq P
    <2> HIDE DEF P
    <2> QED
      BY <1>11, <1>12, Induction
  <1>14. n \in P
    BY <1>1, <1>13
  <1> QED
    BY <1>1, <1>2, <1>14 DEF H

\* Messages only
LEMMA MessagesKeep ==
    ASSUME BrokerInv, UNCHANGED <<routing, queues, status>>, failed' \in BOOLEAN,
           heap' \in SamePointers
    PROVE  BrokerInv'
  <1>1. TypeOK'
    BY DEF BrokerInv, TypeOK, SamePointers, Queue, Pointers
  <1>2. RoutesAscend'
    BY DEF BrokerInv, RoutesAscend
  <1>3. EveryQueueRouted'
    <2>1. \A n \in DOMAIN queues : queues[n] \in Objects
      BY DEF BrokerInv, TypeOK
    <2>2. \A o \in Objects : heap'[o].deadLetter = heap[o].deadLetter
      BY DEF SamePointers
    <2>3. \A n : KeysOf(n)' = KeysOf(n)
      BY DEF KeysOf
    <2> QED
      BY <2>1, <2>2, <2>3 DEF BrokerInv, EveryQueueRouted
  <1>4. DeadLetterApart'
    BY DEF BrokerInv, DeadLetterApart, SamePointers
  <1> QED
    BY <1>1, <1>2, <1>3, <1>4 DEF BrokerInv

-----------------------------------------------------------------------------
(* Queues and routes change together. *)

LEMMA NewQueueType ==
    ASSUME NEW size \in Nat, NEW p \in Pointers
    PROVE  NewQueue(size, p) \in Queue /\ NewQueue(size, p).deadLetter = p
  <1>1. <<>> \in Seq(Node) /\ Len(<<>>) = 0
    OBVIOUS
  <1> QED
    BY <1>1 DEF NewQueue, Queue

\* Collection spares the queues that are named.
LEMMA CollectedKeeps ==
    ASSUME BrokerAssumption, NEW reg, \A n \in DOMAIN reg : reg[n] \in Objects,
           NEW h \in [Objects -> Queue]
    PROVE  /\ Collected(reg, h) \in [Objects -> Queue]
           /\ \A n \in DOMAIN reg : Collected(reg, h)[reg[n]] = h[reg[n]]
           /\ (\A o \in Objects : h[o].deadLetter # o) =>
                 \A o \in Objects : Collected(reg, h)[o].deadLetter # o
  <1>1. Garbage \in Queue /\ Garbage.deadLetter = NilPointer
    BY NewQueueType DEF Garbage, Pointers
  <1>2. \A n \in DOMAIN reg : reg[n] \in InUse(reg, h)
    BY DEF InUse
  <1>3. NilPointer \notin Objects
    BY DEF BrokerAssumption, NilPointer
  <1> QED
    BY <1>1, <1>2, <1>3 DEF Collected

\* The least free address
LEMMA Address ==
    ASSUME BrokerAssumption, NEW S, S \subseteq Objects, S # {}
    PROVE  Min(S) \in S
  <1>1. S \subseteq Nat
    BY DEF BrokerAssumption
  <1>2. \E x \in S : \A y \in S : x <= y
    BY <1>1, LeastExists
  <1> QED
    BY <1>2 DEF Min

LEMMA InvParts ==
    ASSUME BrokerInv
    PROVE  /\ TypeOK /\ RoutesAscend /\ EveryQueueRouted
           /\ heap \in [Objects -> Queue]
           /\ \A o \in Objects : heap[o].deadLetter # o
           /\ \A n \in DOMAIN queues : queues[n] \in Objects /\ n \in AllNames
  <1>1. TypeOK /\ RoutesAscend /\ EveryQueueRouted /\ \A o \in Objects : heap[o].deadLetter # o
    BY DEF BrokerInv, DeadLetterApart
  <1>2. heap \in [Objects -> Queue]
    BY <1>1, HeapType
  <1> QED
    BY <1>1, <1>2 DEF TypeOK

\* A call that refuses or panics leaves the routes and the queues alone.
LEMMA StandsStill ==
    ASSUME BrokerInv, UNCHANGED <<routing, queues, heap>>,
           failed' \in BOOLEAN, status' \in {"up", "panic"}
    PROVE  BrokerInv'
  <1>1. TypeOK'
    BY DEF BrokerInv, TypeOK
  <1>2. RoutesAscend'
    BY DEF BrokerInv, RoutesAscend
  <1>3. EveryQueueRouted'
    BY DEF BrokerInv, EveryQueueRouted, KeysOf
  <1>4. DeadLetterApart'
    BY DEF BrokerInv, DeadLetterApart
  <1> QED
    BY <1>1, <1>2, <1>3, <1>4 DEF BrokerInv

LEMMA RefusesKeeps ==
    ASSUME BrokerInv, NEW err \in BOOLEAN, Refuses(err)
    PROVE  BrokerInv'
  <1>1. UNCHANGED <<routing, queues, heap>> /\ failed' \in BOOLEAN /\ status' \in {"up", "panic"}
    BY InvParts DEF Refuses, Returns, TypeOK
  <1> QED
    BY <1>1, StandsStill

LEMMA PanicsKeeps ==
    ASSUME BrokerInv, Panics
    PROVE  BrokerInv'
  <1>1. UNCHANGED <<routing, queues, heap>> /\ failed' \in BOOLEAN /\ status' \in {"up", "panic"}
    BY InvParts DEF Panics, TypeOK
  <1> QED
    BY <1>1, StandsStill

LEMMA CreateQueueKeeps ==
    ASSUME BrokerAssumption, BrokerInv,
           NEW n \in Names \cup {NoName}, NEW k \in Keys \cup {NoKey}, NEW size \in Sizes,
           NEW hasDLQ \in BOOLEAN, CreateQueue(n, k, size, hasDLQ)
    PROVE  BrokerInv'
  <1>1. CASE Refuses(TRUE)
    BY <1>1, RefusesKeeps
  <1>2. CASE ~Refuses(TRUE)
    <2> DEFINE free == Objects \ InUse(queues, heap)
    <2>1. PICK o : o = Min(free)
      OBVIOUS
    <2>2. PICK d : d = Min(free \ {o})
      OBVIOUS
    <2>3. /\ k # NoKey /\ n # NoName /\ ~Exists(n)
          /\ free # {} /\ free \ {o} # {}
          /\ queues' = Registered(n, hasDLQ, o, d)
          /\ heap' = Collected(queues', NewQueues(size, hasDLQ, o, d))
          /\ routing' = Bound(k, n)
          /\ Returns(FALSE)
      BY <1>2, <2>1, <2>2 DEF CreateQueue
    <2>4. o \in free /\ d \in free /\ o # d
      <3>1. free \subseteq Objects /\ free \ {o} \subseteq Objects
        OBVIOUS
      <3> HIDE DEF free
      <3>2. Min(free) \in free /\ Min(free \ {o}) \in free \ {o}
        BY <2>3, <3>1, Address
      <3> QED
        BY <2>1, <2>2, <3>2
    <2>5. /\ TypeOK /\ RoutesAscend /\ EveryQueueRouted
          /\ heap \in [Objects -> Queue] /\ \A x \in Objects : heap[x].deadLetter # x
          /\ \A m \in DOMAIN queues : queues[m] \in Objects /\ m \in AllNames
      BY InvParts
    <2>6. o \in Objects /\ d \in Objects /\ \A m \in DOMAIN queues : queues[m] \notin {o, d}
      BY <2>4 DEF InUse
    <2> HIDE DEF free
    <2>7. n \in AllNames /\ Dlq(n) \in AllNames /\ k \in Keys /\ Dlq(n) # n /\ size \in Nat
      <3>1. n \in Names /\ k \in Keys
        BY <2>3
      <3>2. n \in Nat \ {0} /\ size \in Nat
        BY <3>1 DEF BrokerAssumption
      <3>3. Dlq(n) # n
        BY <3>2 DEF Dlq
      <3>4. n \in AllNames /\ Dlq(n) \in AllNames
        BY <3>1 DEF AllNames
      <3> QED
        BY <3>1, <3>2, <3>3, <3>4
    <2>8. PICK g : g = NewQueues(size, hasDLQ, o, d)
      OBVIOUS
    <2>9. /\ g \in [Objects -> Queue] /\ g[d].deadLetter = NilPointer /\ g[o].deadLetter # o
          /\ g[d].deadLetter # d
          /\ \A x \in Objects \ {o, d} : g[x] = heap[x]
      <3> DEFINE p == IF hasDLQ THEN d ELSE NilInterface
                 q == NewQueue(size, p)
                 e == NewQueue(size, NilPointer)
      <3>1. /\ q \in Queue /\ e \in Queue /\ q.deadLetter = p /\ e.deadLetter = NilPointer
            /\ p # o /\ NilPointer # d
        <4>1. p \in Pointers /\ NilPointer \in Pointers
          BY <2>6 DEF Pointers
        <4>2. p # o /\ NilPointer # d
          BY <2>4, <2>6 DEF BrokerAssumption, NilInterface, NilPointer
        <4> HIDE DEF p
        <4> QED
          BY <2>7, <4>1, <4>2, NewQueueType
      <3>2. g = [heap EXCEPT ![o] = q, ![d] = e]
        BY <2>8 DEF NewQueues
      <3> HIDE DEF p, q, e
      <3> QED
        BY <2>4, <2>5, <2>6, <3>1, <3>2
    <2>10. PICK reg : reg = queues'
      OBVIOUS
    <2>11. /\ DOMAIN reg \subseteq AllNames
           /\ \A m \in DOMAIN reg :
                \/ m = n /\ reg[m] = o
                \/ m # n /\ reg[m] = d
                \/ m # n /\ m \in DOMAIN queues /\ reg[m] = queues[m]
      <3>1. reg = With(IF hasDLQ THEN With(queues, Dlq(n), d) ELSE queues, n, o)
        BY <2>3, <2>10 DEF Registered
      <3>2. CASE hasDLQ
        BY <2>5, <2>7, <3>1, <3>2 DEF With
      <3>3. CASE ~hasDLQ
        BY <2>5, <2>7, <3>1, <3>3 DEF With
      <3> QED
        BY <3>2, <3>3
    <2>12. \A m \in DOMAIN reg : reg[m] \in Objects
      BY <2>5, <2>6, <2>11
    <2>13. heap' = Collected(reg, g)
      BY <2>3, <2>8, <2>10
    <2>14. /\ heap' \in [Objects -> Queue] /\ \A m \in DOMAIN reg : heap'[reg[m]] = g[reg[m]]
           /\ DeadLetterApart'
      <3>1. \A x \in Objects : g[x].deadLetter # x
        BY <2>5, <2>9
      <3> QED
        BY <2>9, <2>12, <2>13, <3>1, CollectedKeeps DEF DeadLetterApart
    <2>15. /\ DOMAIN routing' \subseteq Keys
           /\ \A j \in DOMAIN routing' : routing'[j] \in Seq(AllNames)
           /\ RoutesAscend'
           /\ k \in KeysOf(n)' /\ \A m : KeysKept(m)
      BY <2>3, <2>5, <2>7, BoundEffect
    <2>16. TypeOK'
      BY <2>3, <2>5, <2>10, <2>11, <2>12, <2>14, <2>15 DEF TypeOK, Returns, Queue, Pointers
    <2>17. EveryQueueRouted'
      <3> SUFFICES ASSUME NEW m \in DOMAIN reg, heap'[reg[m]].deadLetter # NilPointer
                   PROVE  KeysOf(m)' # {}
        BY <2>10 DEF EveryQueueRouted
      <3>1. CASE m = n
        BY <2>15, <3>1
      <3>2. CASE m # n /\ m \in DOMAIN queues /\ reg[m] = queues[m]
        <4>1. heap[queues[m]].deadLetter # NilPointer
          BY <2>5, <2>6, <2>9, <2>14, <3>2
        <4>2. KeysOf(m) # {}
          BY <2>5, <3>2, <4>1 DEF EveryQueueRouted
        <4> QED
          BY <2>15, <4>2 DEF KeysKept
      <3> QED
        BY <2>9, <2>11, <2>14, <3>1, <3>2
    <2> QED
      BY <2>14, <2>15, <2>16, <2>17 DEF BrokerInv
  <1> QED
    BY <1>1, <1>2

LEMMA DeleteQueueKeeps ==
    ASSUME BrokerAssumption, BrokerInv, NEW n \in AllNames, DeleteQueue(n)
    PROVE  BrokerInv'
  <1>1. CASE Refuses(FALSE) \/ Refuses(TRUE)
    BY <1>1, RefusesKeeps
  <1>2. CASE ~(Refuses(FALSE) \/ Refuses(TRUE))
    <2>1. PICK k \in KeysOf(n) :
            /\ queues' = Without(queues, n)
            /\ heap' = Collected(queues', heap)
            /\ routing' = Unbound(k, n)
            /\ Returns(FALSE)
      BY <1>2 DEF DeleteQueue
    <2>2. /\ TypeOK /\ RoutesAscend /\ EveryQueueRouted
          /\ heap \in [Objects -> Queue] /\ \A x \in Objects : heap[x].deadLetter # x
          /\ \A m \in DOMAIN queues : queues[m] \in Objects /\ m \in AllNames
      BY InvParts
    <2>3. PICK reg : reg = queues'
      OBVIOUS
    <2>4. \A m \in DOMAIN reg : m \in DOMAIN queues /\ m # n /\ reg[m] = queues[m]
      BY <2>1, <2>3 DEF Without
    <2>5. /\ heap' \in [Objects -> Queue] /\ \A m \in DOMAIN reg : heap'[reg[m]] = heap[reg[m]]
          /\ DeadLetterApart'
      <3>1. \A m \in DOMAIN reg : reg[m] \in Objects
        BY <2>2, <2>4
      <3>2. PICK h : h = heap
        OBVIOUS
      <3>3. heap' = Collected(reg, h) /\ h \in [Objects -> Queue]
        BY <2>1, <2>2, <2>3, <3>2
      <3> QED
        BY <2>2, <3>1, <3>2, <3>3, CollectedKeeps DEF DeadLetterApart
    <2>6. /\ DOMAIN routing' \subseteq Keys
          /\ \A j \in DOMAIN routing' : routing'[j] \in Seq(AllNames)
          /\ RoutesAscend'
          /\ \A m : m # n => KeysKept(m)
      BY <2>1, <2>2, UnboundEffect
    <2>7. TypeOK'
      BY <2>1, <2>2, <2>3, <2>4, <2>5, <2>6 DEF TypeOK, Returns, Queue, Pointers
    <2>8. EveryQueueRouted'
      <3> SUFFICES ASSUME NEW m \in DOMAIN reg, heap'[reg[m]].deadLetter # NilPointer
                   PROVE  KeysOf(m)' # {}
        BY <2>3 DEF EveryQueueRouted
      <3>1. m \in DOMAIN queues /\ m # n /\ heap[queues[m]].deadLetter # NilPointer
        BY <2>4, <2>5
      <3>2. KeysOf(m) # {}
        BY <2>2, <3>1 DEF EveryQueueRouted
      <3> QED
        BY <2>6, <3>1, <3>2 DEF KeysKept
    <2> QED
      BY <2>5, <2>6, <2>7, <2>8 DEF BrokerInv
  <1> QED
    BY <1>1, <1>2

\* The routes change and the queues stay
LEMMA RoutesChange ==
    ASSUME BrokerInv, UNCHANGED <<queues, heap>>, Returns(FALSE),
           DOMAIN routing' \subseteq Keys,
           \A j \in DOMAIN routing' : routing'[j] \in Seq(AllNames),
           RoutesAscend',
           \A m \in DOMAIN queues : KeysOf(m) # {} => KeysOf(m)' # {}
    PROVE  BrokerInv'
  <1>1. TypeOK'
    BY DEF BrokerInv, TypeOK, Returns
  <1>2. EveryQueueRouted'
    BY DEF BrokerInv, EveryQueueRouted
  <1>3. DeadLetterApart'
    BY DEF BrokerInv, DeadLetterApart
  <1> QED
    BY <1>1, <1>2, <1>3 DEF BrokerInv

LEMMA AddRouteKeyKeeps ==
    ASSUME BrokerAssumption, BrokerInv, NEW k \in Keys \cup {NoKey},
           NEW n \in AllNames \cup {NoName}, AddRouteKey(k, n)
    PROVE  BrokerInv'
  <1>1. CASE Refuses(TRUE)
    BY <1>1, RefusesKeeps
  <1>2. CASE ~Refuses(TRUE)
    <2>1. /\ k \in Keys /\ n \in AllNames /\ routing' = Bound(k, n)
          /\ Returns(FALSE) /\ UNCHANGED <<queues, heap>>
      BY <1>2 DEF AddRouteKey
    <2>2. /\ DOMAIN routing' \subseteq Keys
          /\ \A j \in DOMAIN routing' : routing'[j] \in Seq(AllNames)
          /\ RoutesAscend'
          /\ \A m : KeysKept(m)
      BY <2>1, InvParts, BoundEffect
    <2>3. \A m \in DOMAIN queues : KeysOf(m) # {} => KeysOf(m)' # {}
      BY <2>2 DEF KeysKept
    <2> QED
      BY <2>1, <2>2, <2>3, RoutesChange
  <1> QED
    BY <1>1, <1>2

\* The key that goes is not the last one, so another one has the queue.
LEMMA DeleteRoutingKeyKeeps ==
    ASSUME BrokerAssumption, BrokerInv, NEW k \in Keys \cup {NoKey},
           NEW n \in AllNames \cup {NoName}, DeleteRoutingKey(k, n)
    PROVE  BrokerInv'
  <1>1. CASE Refuses(TRUE)
    BY <1>1, RefusesKeeps
  <1>2. CASE Panics
    BY <1>2, PanicsKeeps
  <1>3. CASE ~Refuses(TRUE) /\ ~Panics
    <2>1. /\ ~LastKey(n) /\ k \in KeysOf(n) /\ routing' = Unbound(k, n)
          /\ Returns(FALSE) /\ UNCHANGED <<queues, heap>>
      BY <1>3 DEF DeleteRoutingKey
    <2>2. /\ DOMAIN routing' \subseteq Keys
          /\ \A j \in DOMAIN routing' : routing'[j] \in Seq(AllNames)
          /\ RoutesAscend'
          /\ \A m : m # n => KeysKept(m)
          /\ \A j \in KeysOf(n) \ {k} : j \in KeysOf(n)'
      BY <2>1, InvParts, UnboundEffect
    <2>3. KeysOf(n) # {k}
      BY <2>1, FS_Singleton DEF LastKey
    <2>4. KeysOf(n)' # {}
      BY <2>1, <2>2, <2>3
    <2>5. \A m \in DOMAIN queues : KeysOf(m) # {} => KeysOf(m)' # {}
      <3> SUFFICES ASSUME NEW m, KeysOf(m) # {} PROVE KeysOf(m)' # {}
        OBVIOUS
      <3>1. CASE m = n
        BY <2>4, <3>1
      <3>2. CASE m # n
        BY <2>2, <3>2 DEF KeysKept
      <3> QED
        BY <3>1, <3>2
    <2> QED
      BY <2>1, <2>2, <2>5, RoutesChange
  <1> QED
    BY <1>1, <1>2, <1>3

LEMMA BatchAddMessageKeeps ==
    ASSUME BrokerAssumption, BrokerInv, NEW k \in Keys, NEW ids,
           ids \in Batches \cup {<<id>> : id \in Ids \cup {NoData}}, BatchAddMessage(k, ids)
    PROVE  BrokerInv'
  <1>1. CASE Refuses(TRUE)
    BY <1>1, RefusesKeeps
  <1>2. CASE ~Refuses(TRUE)
    <2>1. /\ NoData \notin Range(ids) /\ k \in DOMAIN routing
          /\ heap' = Delivered(heap, k, ids)
          /\ Returns(FALSE) /\ UNCHANGED <<routing, queues>>
      BY <1>2 DEF BatchAddMessage
    <2>2. ids \in Seq(Ids)
      <3>1. CASE \E x \in Ids \cup {NoData} : ids = <<x>>
        <4>1. PICK x \in Ids \cup {NoData} : ids = <<x>>
          BY <3>1
        <4>2. DOMAIN ids = {1} /\ ids[1] = x
          BY <4>1
        <4>3. x # NoData
          BY <2>1, <4>2 DEF Range
        <4> QED
          BY <4>1, <4>3
      <3>2. CASE \E x, y \in Ids : ids = <<x, y>>
        BY <3>2
      <3> QED
        BY <3>1, <3>2 DEF Batches
    <2>3. heap' \in SamePointers
      BY <2>1, <2>2, InvParts, DeliveredType
    <2>4. failed' \in BOOLEAN /\ status' = status
      BY <2>1 DEF Returns
    <2> QED
      BY <2>1, <2>3, <2>4, MessagesKeep
  <1> QED
    BY <1>1, <1>2

\* One queue changes, and keeps its pointer
LEMMA QueueChanges ==
    ASSUME BrokerInv, NEW o \in Objects, NEW e \in Queue, e.deadLetter = heap[o].deadLetter,
           heap' = [heap EXCEPT ![o] = e], failed' \in BOOLEAN, UNCHANGED <<routing, queues, status>>
    PROVE  BrokerInv'
  <1>1. heap \in SamePointers
    BY InvParts DEF SamePointers
  <1>2. heap' \in SamePointers
    BY <1>1, HeapSet
  <1> QED
    BY <1>2, MessagesKeep

LEMMA DequeueKeeps ==
    ASSUME BrokerInv, NEW n, NEW want, NEW c \in Consumers, Dequeue(n, want, c)
    PROVE  BrokerInv'
  <1>1. CASE Refuses(TRUE)
    BY <1>1, RefusesKeeps
  <1>2. CASE ~Refuses(TRUE)
    <2>1. PICK o : o = queues[n]
      OBVIOUS
    <2>2. PICK taken : /\ Exists(n) /\ heap' = [heap EXCEPT ![o] = Locked(heap[o], taken, c)]
                       /\ Returns(FALSE) /\ UNCHANGED <<routing, queues>>
      BY <1>2, <2>1 DEF Dequeue
    <2>3. o \in Objects /\ heap[o] \in Queue
      BY <2>1, <2>2, InvParts DEF Exists
    <2>4. PICK e : e = Locked(heap[o], taken, c)
      OBVIOUS
    <2>5. e \in Queue /\ e.deadLetter = heap[o].deadLetter
      BY <2>3, <2>4, LockedType
    <2>6. heap' = [heap EXCEPT ![o] = e] /\ failed' \in BOOLEAN /\ status' = status
      BY <2>2, <2>4 DEF Returns
    <2> QED
      BY <2>2, <2>3, <2>5, <2>6, QueueChanges
  <1> QED
    BY <1>1, <1>2

LEMMA AcksOneKeeps ==
    ASSUME BrokerInv, NEW o \in Objects, NEW id, NEW c, AcksOne(o, id, c)
    PROVE  BrokerInv'
  <1>1. CASE Refuses(TRUE)
    BY <1>1, RefusesKeeps
  <1>2. CASE ~Refuses(TRUE)
    <2>1. PICK i \in Q(heap[o])!HeldBy(c, id) :
            /\ heap' = [heap EXCEPT ![o] = Unlinked(heap[o], i)]
            /\ Returns(FALSE) /\ UNCHANGED <<routing, queues>>
      BY <1>2 DEF AcksOne
    <2>2. heap[o] \in Queue
      BY InvParts
    <2>3. i \in DOMAIN heap[o].msgs
      BY <2>2, QueueParts DEF Q!HeldBy, Q!Positions
    <2>4. PICK e : e = Unlinked(heap[o], i)
      OBVIOUS
    <2>5. e \in Queue /\ e.deadLetter = heap[o].deadLetter
      BY <2>2, <2>3, <2>4, UnlinkedType
    <2>6. heap' = [heap EXCEPT ![o] = e] /\ failed' \in BOOLEAN /\ status' = status
      BY <2>1, <2>4 DEF Returns
    <2> QED
      BY <2>1, <2>5, <2>6, QueueChanges
  <1> QED
    BY <1>1, <1>2

LEMMA AckKeeps ==
    ASSUME BrokerInv, NEW n, NEW id, NEW c, Ack(n, id, c)
    PROVE  BrokerInv'
  <1>1. CASE Refuses(TRUE)
    BY <1>1, RefusesKeeps
  <1>2. CASE ~Refuses(TRUE)
    <2>1. Exists(n) /\ AcksOne(queues[n], id, c)
      BY <1>2 DEF Ack
    <2>2. queues[n] \in Objects
      BY <2>1, InvParts DEF Exists
    <2> QED
      BY <2>1, <2>2, AcksOneKeeps
  <1> QED
    BY <1>1, <1>2

\* The dead-letter queue and the queue change, one after the other.
LEMMA ExpiredType ==
    ASSUME BrokerInv, NEW o \in Objects, NEW i \in DOMAIN heap[o].msgs,
           heap[o].deadLetter # NilInterface, NEW g, g = Expired(o, i)
    PROVE  g \in SamePointers
  <1>1. PICK d : d = heap[o].deadLetter
    OBVIOUS
  <1>2. PICK h : h = IF d = NilPointer THEN heap
                     ELSE [heap EXCEPT ![d] = Enqueued(heap[d], <<heap[o].msgs[i].id>>)]
    OBVIOUS
  <1>3. /\ heap \in [Objects -> Queue] /\ heap \in SamePointers /\ heap[o] \in Queue
        /\ d \in Pointers \ {NilInterface} /\ d # o /\ heap[o].msgs[i].id \in Ids
    <2>1. heap \in [Objects -> Queue] /\ heap[o] \in Queue /\ heap[o].deadLetter # o
      BY InvParts
    <2>2. heap[o].deadLetter \in Pointers /\ heap[o].msgs[i] \in Node
      BY <2>1, QueueParts
    <2> QED
      BY <1>1, <2>1, <2>2 DEF Node, SamePointers
  <1>4. h \in SamePointers /\ h[o] = heap[o]
    <2>1. CASE d = NilPointer
      BY <1>2, <1>3, <2>1
    <2>2. CASE d # NilPointer
      <3>1. d \in Objects
        BY <1>3, <2>2 DEF Pointers
      <3>2. PICK e, ids : ids = <<heap[o].msgs[i].id>> /\ e = Enqueued(heap[d], ids)
        OBVIOUS
      <3>3. heap[d] \in Queue /\ ids \in Seq(Ids)
        BY <1>3, <3>1, <3>2
      <3>4. e \in Queue /\ e.deadLetter = heap[d].deadLetter
        BY <3>2, <3>3, EnqueuedType
      <3>5. h = [heap EXCEPT ![d] = e]
        BY <1>2, <2>2, <3>2
      <3>6. h \in SamePointers
        BY <1>3, <3>1, <3>4, <3>5, HeapSet
      <3> QED
        BY <1>3, <3>1, <3>5, <3>6
    <2> QED
      BY <2>1, <2>2
  <1>5. PICK e : e = Unlinked(heap[o], i)
    OBVIOUS
  <1>6. e \in Queue /\ e.deadLetter = h[o].deadLetter
    BY <1>3, <1>4, <1>5, UnlinkedType
  <1>7. g = [h EXCEPT ![o] = e]
    BY <1>1, <1>2, <1>4, <1>5 DEF Expired
  <1> QED
    BY <1>4, <1>6, <1>7, HeapSet

LEMMA NackKeeps ==
    ASSUME BrokerInv, NEW n, NEW id, NEW c, Nack(n, id, c)
    PROVE  BrokerInv'
  <1>1. CASE Refuses(TRUE)
    BY <1>1, RefusesKeeps
  <1>2. CASE Panics
    BY <1>2, PanicsKeeps
  <1>3. CASE ~(Refuses(TRUE) \/ Panics)
    <2>1. PICK o : o = queues[n]
      OBVIOUS
    <2>2. PICK i \in DOMAIN heap[o].msgs :
            /\ Exists(n)
            /\ \/ heap' = Released(o, i)
               \/ heap[o].deadLetter # NilInterface /\ heap' = Expired(o, i)
            /\ Returns(FALSE) /\ UNCHANGED <<routing, queues>>
      BY <1>3, <2>1 DEF Nack
    <2>3. o \in Objects /\ heap[o] \in Queue
      BY <2>1, <2>2, InvParts DEF Exists
    <2>4. failed' \in BOOLEAN /\ status' = status
      BY <2>2 DEF Returns
    <2>5. CASE heap' = Released(o, i)
      <3>1. PICK e : e = Locked(heap[o], {i}, None)
        OBVIOUS
      <3>2. e \in Queue /\ e.deadLetter = heap[o].deadLetter
        BY <2>3, <3>1, LockedType
      <3>3. heap' = [heap EXCEPT ![o] = e]
        BY <2>5, <3>1 DEF Released
      <3> QED
        BY <2>2, <2>3, <2>4, <3>2, <3>3, QueueChanges
    <2>6. CASE heap[o].deadLetter # NilInterface /\ heap' = Expired(o, i)
      <3>1. heap' \in SamePointers
        BY <2>2, <2>3, <2>6, ExpiredType
      <3> QED
        BY <2>2, <2>4, <3>1, MessagesKeep
    <2> QED
      BY <2>2, <2>5, <2>6
  <1> QED
    BY <1>1, <1>2, <1>3

LEMMA BatchAckKeeps ==
    ASSUME BrokerInv, NEW n, NEW ids, NEW c, BatchAck(n, ids, c)
    PROVE  BrokerInv'
  <1>1. CASE Refuses(TRUE)
    BY <1>1, RefusesKeeps
  <1>2. CASE Panics
    BY <1>2, PanicsKeeps
  <1>3. CASE Exists(n) /\ AcksOne(queues[n], ids[1], c)
    <2>1. queues[n] \in Objects
      BY <1>3, InvParts DEF Exists
    <2> QED
      BY <1>3, <2>1, AcksOneKeeps
  <1>4. CASE ~(Refuses(TRUE) \/ Panics \/ (Exists(n) /\ AcksOne(queues[n], ids[1], c)))
    <2>1. PICK o, q, taken : o = queues[n] /\ q = heap[o] /\ taken = Q(q)!TakenBy(c, ids)
      OBVIOUS
    <2>2. PICK f \in Q(q)!InOrder(Q(q)!KeptBy(taken)) :
            /\ Exists(n) /\ taken # {}
            /\ \/ heap' = [heap EXCEPT ![o] = AllAcked(q, taken, f)]
               \/ /\ ~Q(q)!RestorePanics(taken)
                  /\ \E g \in Q(q)!InOrder(taken) : heap' = [heap EXCEPT ![o] = Restored(q, taken, f, g)]
            /\ failed' \in BOOLEAN /\ UNCHANGED <<routing, queues, status>>
      BY <1>4, <2>1 DEF BatchAck, Returns
    <2>3. o \in Objects /\ q \in Queue
      BY <2>1, <2>2, InvParts DEF Exists
    <2>4. taken \subseteq DOMAIN q.msgs
      <3>1. taken \subseteq Q(q)!Positions
        BY <2>1 DEF Q!TakenBy, Q!Smallest
      <3> QED
        BY <2>3, <3>1, QueueParts DEF Q!Positions
    <2>5. CASE heap' = [heap EXCEPT ![o] = AllAcked(q, taken, f)]
      <3>1. PICK e : e = AllAcked(q, taken, f)
        OBVIOUS
      <3>2. e \in Queue /\ e.deadLetter = q.deadLetter
        BY <2>3, <2>4, <3>1, AllAckedType
      <3> QED
        BY <2>1, <2>2, <2>3, <2>5, <3>1, <3>2, QueueChanges
    <2>6. ASSUME ~Q(q)!RestorePanics(taken), NEW g \in Q(q)!InOrder(taken),
                 heap' = [heap EXCEPT ![o] = Restored(q, taken, f, g)]
          PROVE  BrokerInv'
      <3>1. PICK e : e = Restored(q, taken, f, g)
        OBVIOUS
      <3>2. e \in Queue /\ e.deadLetter = q.deadLetter
        BY <2>2, <2>3, <2>4, <2>6, <3>1, RestoredType
      <3> QED
        BY <2>1, <2>2, <2>3, <2>6, <3>1, <3>2, QueueChanges
    <2> QED
      BY <2>2, <2>5, <2>6
  <1> QED
    BY <1>1, <1>2, <1>3, <1>4

-----------------------------------------------------------------------------
(* The invariant *)

LEMMA InvStarts ==
    ASSUME BrokerAssumption, Init
    PROVE  BrokerInv
  <1>1. DOMAIN routing = {} /\ DOMAIN queues = {}
    BY DEF Init
  <1>2. heap \in [Objects -> Queue] /\ DeadLetterApart
    <2>1. Garbage \in Queue /\ Garbage.deadLetter = NilPointer
      BY NewQueueType DEF Garbage, Pointers
    <2>2. NilPointer \notin Objects
      BY DEF BrokerAssumption, NilPointer
    <2> QED
      BY <2>1, <2>2 DEF Init, DeadLetterApart
  <1>3. TypeOK
    BY <1>1, <1>2 DEF Init, TypeOK, Queue, Pointers
  <1> QED
    BY <1>1, <1>2, <1>3 DEF BrokerInv, RoutesAscend, EveryQueueRouted

LEMMA InvStep ==
    ASSUME BrokerAssumption, BrokerInv, [Next]_vars
    PROVE  BrokerInv'
  <1>1. ASSUME NEW n \in Names \cup {NoName}, NEW k \in Keys \cup {NoKey}, NEW size \in Sizes,
               NEW hasDLQ \in BOOLEAN, CreateQueue(n, k, size, hasDLQ)
        PROVE  BrokerInv'
    BY <1>1, CreateQueueKeeps
  <1>2. ASSUME NEW n \in AllNames, DeleteQueue(n)
        PROVE  BrokerInv'
    BY <1>2, DeleteQueueKeeps
  <1>3. ASSUME NEW k \in Keys \cup {NoKey}, NEW n \in AllNames \cup {NoName}, AddRouteKey(k, n)
        PROVE  BrokerInv'
    BY <1>3, AddRouteKeyKeeps
  <1>4. ASSUME NEW k \in Keys \cup {NoKey}, NEW n \in AllNames \cup {NoName},
               DeleteRoutingKey(k, n)
        PROVE  BrokerInv'
    BY <1>4, DeleteRoutingKeyKeeps
  <1>5. ASSUME NEW k \in Keys, NEW id \in Ids \cup {NoData}, AddMessage(k, id)
        PROVE  BrokerInv'
    <2>1. BatchAddMessage(k, <<id>>)
      BY <1>5 DEF AddMessage
    <2>2. <<id>> \in Batches \cup {<<x>> : x \in Ids \cup {NoData}}
      OBVIOUS
    <2> QED
      BY <2>1, <2>2, BatchAddMessageKeeps
  <1>6. ASSUME NEW k \in Keys, NEW ids \in Batches, BatchAddMessage(k, ids)
        PROVE  BrokerInv'
    BY <1>6, BatchAddMessageKeeps
  <1>7. ASSUME NEW n \in AllNames, NEW want \in 1..2, NEW c \in Consumers, Dequeue(n, want, c)
        PROVE  BrokerInv'
    BY <1>7, DequeueKeeps
  <1>8. ASSUME NEW n \in AllNames, NEW id \in Ids, NEW c \in Consumers, Ack(n, id, c)
        PROVE  BrokerInv'
    BY <1>8, AckKeeps
  <1>9. ASSUME NEW n \in AllNames, NEW id \in Ids, NEW c \in Consumers, Nack(n, id, c)
        PROVE  BrokerInv'
    BY <1>9, NackKeeps
  <1>10. ASSUME NEW n \in AllNames, NEW ids \in Batches, NEW c \in Consumers, BatchAck(n, ids, c)
         PROVE  BrokerInv'
    BY <1>10, BatchAckKeeps
  <1>11. CASE UNCHANGED vars
    <2>1. UNCHANGED <<routing, queues, heap>> /\ failed' \in BOOLEAN /\ status' \in {"up", "panic"}
      BY <1>11, InvParts DEF vars, TypeOK
    <2> QED
      BY <2>1, StandsStill
  <1> QED
    BY <1>1, <1>2, <1>3, <1>4, <1>5, <1>6, <1>7, <1>8, <1>9, <1>10, <1>11 DEF Next

\* BrokerInv is inductive.
THEOREM BrokerInvariant == Spec => []BrokerInv
  <1>1. Init => BrokerInv
    BY BrokerAssumption, InvStarts
  <1>2. BrokerInv /\ [Next]_vars => BrokerInv'
    BY BrokerAssumption, InvStep
  <1> QED
    BY <1>1, <1>2, PTL DEF Spec

\* The broker is type correct: routes hold queue names, names stand for queues,
\* and a queue's dead-letter pointer is a queue or one of the two kinds of nil.
THEOREM BrokerTypeCorrect == Spec => []TypeOK
  <1>1. BrokerInv => TypeOK
    BY DEF BrokerInv
  <1> QED
    BY <1>1, BrokerInvariant, PTL

\* Every route ascends at all times: AddRouteKey and CreateQueue sort what they
\* append to, and taking entries out never leaves two out of order.
THEOREM RoutesStayOrdered == Spec => []RoutesAscend
  <1>1. BrokerInv => RoutesAscend
    BY DEF BrokerInv
  <1> QED
    BY <1>1, BrokerInvariant, PTL

\* A queue made by CreateQueue is on a route as long as it exists, whatever routes
\* and queues are deleted in between (ErrQueueMustHaveOneRoutingKey).
THEOREM QueuesStayRouted == Spec => []EveryQueueRouted
  <1>1. BrokerInv => EveryQueueRouted
    BY DEF BrokerInv
  <1> QED
    BY <1>1, BrokerInvariant, PTL

=============================================================================
