-------------------------- MODULE LinkedListProofs --------------------------
(***************************************************************************)
(* The pointers of core.LinkedList implement the queue of MessageQueue,    *)
(* for every size, retry limit, lock time, batch size and set of clients.  *)
(***************************************************************************)
EXTENDS LinkedList, ListLemmas, FiniteSetTheorems

\* What is proved of the queue, of the queue that the pointers stand for.
MQ == INSTANCE MessageQueueProofs WITH
    msgs <- view.msgs, tail <- view.tail, amount <- Amount

\* The numbers the list is made with are those of a queue.
LEMMA QueueAssumed == MQ!QueueAssumption
  BY LinkedListAssumption DEF MQ!QueueAssumption, Queue!QueueAssumption,
     MQ!DeadLetterKinds, Queue!DeadLetterKinds

-----------------------------------------------------------------------------
(* Recursion *)

\* There are n numbers in 1..n.
LEMMA IntervalSize ==
    ASSUME NEW n \in Nat
    PROVE  IsFiniteSet(1..n) /\ Cardinality(1..n) = n
  <1>1. 1 \in Int /\ n \in Int
    OBVIOUS
  <1>2. IsFiniteSet(1..n) /\ Cardinality(1..n) = IF 1 > n THEN 0 ELSE n - 1 + 1
    BY ONLY <1>1, FS_Interval
  <1> QED
    BY <1>2

\* The function that a loop of n rounds goes through.
LEMMA RoundsExist ==
    ASSUME NEW n \in Nat, NEW X, NEW base \in X, NEW step \in [X -> X]
    PROVE  \E f \in [0..n -> X] : f = [i \in 0..n |-> IF i = 0 THEN base ELSE step[f[i - 1]]]
  <1> DEFINE Exists(k) == \E f \in [0..k -> X] : \A i \in 0..k :
                            f[i] = IF i = 0 THEN base ELSE step[f[i - 1]]
             P == {k \in Nat : Exists(k)}
  <1>1. Exists(0)
    <2> DEFINE f == [i \in 0..0 |-> base]
    <2>1. f \in [0..0 -> X] /\ \A i \in 0..0 : f[i] = base /\ i = 0
      OBVIOUS
    <2> HIDE DEF f
    <2>2. \A i \in 0..0 : f[i] = IF i = 0 THEN base ELSE step[f[i - 1]]
      BY <2>1
    <2> QED
      BY <2>1, <2>2
  <1>2. ASSUME NEW k \in Nat, Exists(k) PROVE Exists(k + 1)
    <2>1. PICK f \in [0..k -> X] : \A i \in 0..k :
            f[i] = IF i = 0 THEN base ELSE step[f[i - 1]]
      BY <1>2
    <2> DEFINE g == [i \in 0..(k + 1) |-> IF i <= k THEN f[i] ELSE step[f[k]]]
    <2>2. g \in [0..(k + 1) -> X]
      OBVIOUS
    <2>3. ASSUME NEW i \in 0..(k + 1)
          PROVE  g[i] = IF i = 0 THEN base ELSE step[g[i - 1]]
      <3>1. CASE i <= k
        BY <2>1, <3>1
      <3>2. CASE i = k + 1
        BY <3>2
      <3> QED
        BY <3>1, <3>2
    <2> HIDE DEF g
    <2> QED
      BY <2>2, <2>3
  <1> HIDE DEF Exists
  <1>3. Nat \subseteq P
    <2>1. 0 \in P /\ \A k \in Nat : k \in P => k + 1 \in P
      BY <1>1, <1>2
    <2> HIDE DEF P
    <2> QED
      BY <2>1, Induction
  <1>4. Exists(n)
    BY <1>3
  <1>5. PICK f \in [0..n -> X] : \A i \in 0..n : f[i] = IF i = 0 THEN base ELSE step[f[i - 1]]
    BY <1>4 DEF Exists
  <1>6. f = [i \in 0..n |-> f[i]]
    OBVIOUS
  <1>7. f = [i \in 0..n |-> IF i = 0 THEN base ELSE step[f[i - 1]]]
    BY <1>5, <1>6
  <1> QED
    BY <1>7

-----------------------------------------------------------------------------
(* Walking *)

\* Every pointer is nil or a node.
Pointers == [Head : Node \cup {nil}, Tail : Node \cup {nil}, Next : [Node -> Node \cup {nil}]]

\* The nodes p[1], ..., p[m] are distinct, head points to the first, each to the next, and
\* the last to nothing.
Linked(head, next, p, m) ==
    /\ m \in Nat /\ p \in [1..m -> Node]
    /\ \A i, j \in 1..m : p[i] = p[j] => i = j
    /\ head = IF m = 0 THEN nil ELSE p[1]
    /\ \A i \in 1..m : next[p[i]] = IF i = m THEN nil ELSE p[i + 1]

\* The recursion of Walk has a solution, which Walk is.
LEMMA WalkIs ==
    ASSUME NEW q \in Pointers, NEW n \in Node \cup {nil}
    PROVE  /\ Walk(q, n) \in [0..MaxNodes -> Node \cup {nil}]
           /\ Walk(q, n)[0] = n
           /\ \A k \in 1..MaxNodes : Walk(q, n)[k] =
                IF Walk(q, n)[k - 1] = nil THEN nil ELSE q.Next[Walk(q, n)[k - 1]]
  <1> DEFINE X == Node \cup {nil}
             step == [x \in X |-> IF x = nil THEN nil ELSE q.Next[x]]
             R(f) == f = [k \in 0..MaxNodes |->
                            IF k = 0 THEN n ELSE IF f[k - 1] = nil THEN nil ELSE q.Next[f[k - 1]]]
  <1>1. MaxNodes \in Nat
    BY LinkedListAssumption
  <1>2. step \in [X -> X]
    BY DEF Pointers
  <1>3. PICK f \in [0..MaxNodes -> X] :
          f = [k \in 0..MaxNodes |-> IF k = 0 THEN n ELSE step[f[k - 1]]]
    <2> HIDE DEF X, step
    <2>1. n \in X
      BY DEF X
    <2> QED
      BY <1>1, <1>2, <2>1, RoundsExist
  <1>4. \A k \in 0..MaxNodes : k # 0 => f[k - 1] \in X
    BY <1>1
  <1>5. \A k \in 0..MaxNodes : k # 0 => 
           step[f[k - 1]] = IF f[k - 1] = nil THEN nil ELSE q.Next[f[k - 1]]
    BY <1>4
  <1> HIDE DEF step, X
  <1>6. R(f)
    BY <1>3, <1>5
  <1> DEFINE w == CHOOSE g : R(g)
  <1>7. R(w)
    BY <1>6
  <1>8. Walk(q, n) = w
    BY DEF Walk
  <1> HIDE DEF w
  <1>9. DOMAIN w = 0..MaxNodes /\ w[0] = n
    BY <1>1, <1>7
  <1>10. \A k \in 1..MaxNodes : w[k] = IF w[k - 1] = nil THEN nil ELSE q.Next[w[k - 1]]
    BY <1>1, <1>7
  <1>11. \A k \in 0..MaxNodes : w[k] \in X
    <2> DEFINE P == {k \in Nat : k <= MaxNodes => w[k] \in X}
    <2>1. 0 \in P
      BY <1>9 DEF X
    <2>2. ASSUME NEW k \in Nat, k \in P PROVE k + 1 \in P
      <3> SUFFICES ASSUME k + 1 <= MaxNodes PROVE w[k + 1] \in X
        OBVIOUS
      <3>1. w[k] \in X /\ k + 1 \in 1..MaxNodes /\ (k + 1) - 1 = k
        BY <1>1, <2>2
      <3>2. w[k + 1] = IF w[k] = nil THEN nil ELSE q.Next[w[k]]
        BY <1>10, <3>1
      <3> QED
        BY <3>1, <3>2 DEF Pointers, X
    <2>3. Nat \subseteq P
      <3> HIDE DEF P
      <3> QED
        BY <2>1, <2>2, Induction
    <2> QED
      BY <1>1, <2>3
  <1>12. w = [k \in 0..MaxNodes |-> w[k]]
    BY <1>7
  <1> QED
    BY <1>8, <1>9, <1>10, <1>11, <1>12 DEF X

\* A walk along a chain meets its nodes in order and then nil.
LEMMA LinkedWalk ==
    ASSUME NEW q \in Pointers, NEW m, NEW p, Linked(q.Head, q.Next, p, m)
    PROVE  /\ m <= MaxNodes
           /\ \A k \in 0..MaxNodes :
                Walk(q, q.Head)[k] = IF k < m THEN p[k + 1] ELSE nil
  <1> DEFINE w == Walk(q, q.Head)
  <1>1. MaxNodes \in Nat /\ m \in Nat
    BY LinkedListAssumption DEF Linked
  <1>2. /\ w[0] = q.Head
        /\ \A k \in 1..MaxNodes : w[k] = IF w[k - 1] = nil THEN nil ELSE q.Next[w[k - 1]]
    <2>1. q.Head \in Node \cup {nil}
      BY DEF Pointers
    <2> QED
      BY <2>1, WalkIs
  <1> HIDE DEF w
  <1>3. m <= MaxNodes
    <2>1. IsFiniteSet(1..m) /\ Cardinality(1..m) = m
      BY <1>1, IntervalSize
    <2>2. IsFiniteSet(Node) /\ Cardinality(Node) = MaxNodes
      BY <1>1, IntervalSize DEF Node
    <2>3. p \in Injection(1..m, Node)
      BY DEF Linked, Injection, IsInjective
    <2> QED
      BY <2>1, <2>2, <2>3, FS_Injection
  <1>4. \A k \in 0..MaxNodes : w[k] = IF k < m THEN p[k + 1] ELSE nil
    <2> DEFINE P == {k \in Nat : k <= MaxNodes => w[k] = IF k < m THEN p[k + 1] ELSE nil}
    <2>1. 0 \in P
      BY <1>1, <1>2 DEF Linked
    <2>2. ASSUME NEW k \in Nat, k \in P PROVE k + 1 \in P
      <3> SUFFICES ASSUME k + 1 <= MaxNodes
                   PROVE  w[k + 1] = IF k + 1 < m THEN p[(k + 1) + 1] ELSE nil
        OBVIOUS
      <3>1. w[k] = IF k < m THEN p[k + 1] ELSE nil
        BY <1>1, <2>2
      <3>2. w[k + 1] = IF w[k] = nil THEN nil ELSE q.Next[w[k]]
        BY <1>1, <1>2
      <3>3. CASE k < m
        <4>1. k + 1 \in 1..m
          BY <1>1, <3>3
        <4>2. p[k + 1] \in Node /\ p[k + 1] # nil
          BY <4>1, <1>1 DEF Linked, Node, nil
        <4>3. q.Next[p[k + 1]] = IF k + 1 = m THEN nil ELSE p[(k + 1) + 1]
          BY <4>1 DEF Linked
        <4> QED
          BY <1>1, <3>1, <3>2, <3>3, <4>1, <4>2, <4>3
      <3>4. CASE ~(k < m)
        BY <1>1, <3>1, <3>2, <3>4
      <3> QED
        BY <3>3, <3>4
    <2>3. Nat \subseteq P
      <3> HIDE DEF P
      <3> QED
        BY <2>1, <2>2, Induction
    <2> QED
      BY <1>1, <2>3
  <1> QED
    BY <1>3, <1>4 DEF w

\* ... so the chain is what Chain computes, it ends, and nothing on it is garbage.
LEMMA LinkedChain ==
    ASSUME NEW q \in Pointers, NEW m, NEW p, Linked(q.Head, q.Next, p, m)
    PROVE  /\ Chain(q) = p /\ DOMAIN Chain(q) = 1..m
           /\ Acyclic(q)
           /\ \A i \in 1..m : p[i] \in Range(Walk(q, q.Head))
  <1> DEFINE w == Walk(q, q.Head)
             S == {j \in 0..MaxNodes : w[j] # nil}
  <1>1. MaxNodes \in Nat /\ m \in Nat /\ m <= MaxNodes
    BY LinkedListAssumption, LinkedWalk DEF Linked
  <1>2. \A k \in 0..MaxNodes : w[k] = IF k < m THEN p[k + 1] ELSE nil
    BY LinkedWalk
  <1>3. q.Head \in Node \cup {nil} /\ w \in [0..MaxNodes -> Node \cup {nil}]
    <2>1. q.Head \in Node \cup {nil}
      BY DEF Pointers
    <2> QED
      BY <2>1, WalkIs
  <1>4. \A i \in 1..m : p[i] # nil
    BY <1>1 DEF Linked, Node, nil
  <1> HIDE DEF w
  <1>5. S = 0..(m - 1)
    BY <1>1, <1>2, <1>4
  <1>6. Cardinality(S) = m
    <2>1. 0 \in Int /\ m - 1 \in Int
      BY <1>1
    <2>2. Cardinality(0..(m - 1)) = IF 0 > m - 1 THEN 0 ELSE (m - 1) - 0 + 1
      BY ONLY <2>1, FS_Interval
    <2>3. Cardinality(0..(m - 1)) = m
      BY <1>1, <2>2
    <2> HIDE DEF S
    <2> QED
      BY <1>5, <2>3
  <1> HIDE DEF S
  <1>7. Chain(q) = [k \in 1..m |-> w[k - 1]]
    BY <1>6 DEF Chain, w, S
  <1>8. \A k \in 1..m : w[k - 1] = p[k]
    BY <1>1, <1>2
  <1>9. Chain(q) = p /\ DOMAIN Chain(q) = 1..m
    BY <1>7, <1>8 DEF Linked
  <1>10. Acyclic(q)
    BY <1>1, <1>2 DEF Acyclic, w
  <1>11. \A i \in 1..m : p[i] \in Range(w)
    BY <1>1, <1>3, <1>8 DEF Range
  <1> QED
    BY <1>9, <1>10, <1>11 DEF w

\* Nodes given out as new are no node of the chain, not Tail and not in the pool.
LEMMA NewNodesNotInUse ==
    ASSUME ll \in Pointers, pool \in Seq(Node), NEW m, NEW p, Linked(ll.Head, ll.Next, p, m),
           NEW n \in Int, NEW new \in NewNodes(n)
    PROVE  /\ new \in [1..n -> Node]
           /\ \A i, j \in 1..n : new[i] = new[j] => i = j
           /\ \A i \in 1..n : /\ new[i] # ll.Tail /\ new[i] \notin Range(pool)
                              /\ \A k \in 1..m : p[k] # new[i]
  <1> DEFINE free == Node \ Reachable
  <1>1. new \in [1..n -> free] /\ \A i, j \in 1..n : i < j => new[i] < new[j]
    BY DEF NewNodes
  <1>2. \A x \in {ll.Head, ll.Tail} \cup Range(pool) : Range(Walk(ll, x)) \subseteq Reachable
    BY DEF Reachable
  <1>3. \A k \in 1..m : p[k] \in Reachable
    BY <1>2, LinkedChain
  <1>4. ASSUME NEW x \in {ll.Tail} \cup Range(pool) PROVE x \in Reachable \/ x = nil
    <2>1. x \in Node \cup {nil} /\ 0 \in 0..MaxNodes
      BY <1>4, LinkedListAssumption DEF Pointers, Range
    <2>2. Walk(ll, x)[0] = x /\ DOMAIN Walk(ll, x) = 0..MaxNodes
      BY <2>1, WalkIs
    <2>3. x \in Range(Walk(ll, x))
      BY <2>1, <2>2 DEF Range
    <2> QED
      BY <1>2, <2>3
  <1>5. \A i \in 1..n : new[i] \in Node /\ new[i] \notin Reachable /\ new[i] # nil
    BY <1>1, LinkedListAssumption DEF Node, nil
  <1>6. \A i, j \in 1..n : new[i] = new[j] => i = j
    <2>1. \A i \in 1..n : new[i] \in Int
      BY <1>5, LinkedListAssumption DEF Node
    <2> SUFFICES ASSUME NEW i \in 1..n, NEW j \in 1..n, i # j PROVE new[i] # new[j]
      OBVIOUS
    <2>2. i < j \/ j < i
      OBVIOUS
    <2> QED
      BY <1>1, <2>1, <2>2
  <1> HIDE DEF free
  <1>7. new \in [1..n -> Node]
    BY <1>1 DEF free
  <1> QED
    BY <1>3, <1>4, <1>5, <1>6, <1>7

-----------------------------------------------------------------------------
(* The invariant of the heap *)

\* What a node holds; a clean one has no id.
Content == [id : Ids \cup {nil}, owner : Consumers \cup {None}, time : Nat, fetched : Nat]

\* The pool has each of its nodes once, clean, and neither on the chain p nor as Tail.
PoolClean(q, contents, pl, p, m) ==
    /\ pl \in Seq(Node)
    /\ \A i, j \in 1..Len(pl) : pl[i] = pl[j] => i = j
    /\ \A i \in 1..Len(pl) : /\ contents[pl[i]] = Clean /\ q.Next[pl[i]] = nil
                             /\ pl[i] # q.Tail
                             /\ \A k \in 1..m : p[k] # pl[i]

\* The pointers q with the contents and the pool pl are a list whose chain is p.
ListAlong(q, contents, pl, p, m) ==
    /\ q \in Pointers /\ contents \in [Node -> Content]
    /\ Linked(q.Head, q.Next, p, m)
    /\ m # 0 => q.Tail # nil
    /\ PoolClean(q, contents, pl, p, m)

\* Tail is the node at position t of the chain p, or t is 0 and it is not on the chain.
TailAt(q, p, m, t) ==
    \/ t \in 1..m /\ p[t] = q.Tail
    \/ t = 0 /\ \A k \in 1..m : p[k] # q.Tail

\* view has the position of Tail.
TailHere(p, m) == TailAt(ll, p, m, view.tail)

\* The nodes form a list and view is what MessageQueue sees of it.
HeapInv ==
    /\ \E m, p : ListAlong(ll, node, pool, p, m)
    /\ view = View(ll, node)

\* What MessageQueue sees of a chain.
LEMMA ViewAlong ==
    ASSUME NEW q \in Pointers, NEW contents, NEW m, NEW p, Linked(q.Head, q.Next, p, m)
    PROVE  /\ View(q, contents).msgs = [k \in 1..m |-> contents[p[k]]]
           /\ TailAt(q, p, m, View(q, contents).tail)
           /\ \A t : TailAt(q, p, m, t) => View(q, contents).tail = t
  <1>1. Chain(q) = p /\ DOMAIN p = 1..m
    BY LinkedChain
  <1>2. View(q, contents) =
          [msgs |-> [k \in 1..m |-> contents[p[k]]],
           tail |-> IF \E k \in 1..m : p[k] = q.Tail
                    THEN CHOOSE k \in 1..m : p[k] = q.Tail ELSE 0]
    BY <1>1 DEF View
  <1>3. ASSUME NEW k \in 1..m, p[k] = q.Tail PROVE View(q, contents).tail = k
    <2>1. (CHOOSE j \in 1..m : p[j] = q.Tail) \in 1..m
          /\ p[CHOOSE j \in 1..m : p[j] = q.Tail] = q.Tail
      BY <1>3
    <2>2. (CHOOSE j \in 1..m : p[j] = q.Tail) = k
      BY <1>3, <2>1 DEF Linked
    <2> QED
      BY <1>2, <1>3, <2>2
  <1>4. (\A k \in 1..m : p[k] # q.Tail) => View(q, contents).tail = 0
    BY <1>2
  <1> QED
    BY <1>2, <1>3, <1>4 DEF TailAt

\* The state after a call that returns with a list along p.
LEMMA ReturnsAlong ==
    ASSUME NEW q, NEW contents, NEW err, NEW m, NEW p, NEW t, TailAt(q, p, m, t),
           Returns(q, contents, err), ListAlong(q, contents, pool', p, m)
    PROVE  /\ HeapInv'
           /\ (view.msgs)' = [k \in 1..m |-> contents[p[k]]]
           /\ (view.tail)' = t
  <1>1. ll' = q /\ node' = contents /\ view' = View(q, contents)
    BY DEF Returns
  <1>2. q \in Pointers /\ Linked(q.Head, q.Next, p, m)
    BY DEF ListAlong
  <1>3. HeapInv'
    BY <1>1 DEF HeapInv
  <1>4. View(q, contents).msgs = [k \in 1..m |-> contents[p[k]]] /\ View(q, contents).tail = t
    BY <1>2, ViewAlong
  <1> QED
    BY <1>1, <1>3, <1>4

\* ... that leaves the pointers alone.
LEMMA ReturnsContents ==
    ASSUME NEW contents, NEW err, NEW p, NEW m, Returns(ll, contents, err),
           ListAlong(ll, contents, pool', p, m), TailHere(p, m)
    PROVE  /\ HeapInv'
           /\ (view.msgs)' = [k \in 1..m |-> contents[p[k]]]
           /\ (view.tail)' = view.tail
  <1>1. PICK t : t = view.tail
    OBVIOUS
  <1>2. TailAt(ll, p, m, t)
    BY <1>1 DEF TailHere
  <1>3. HeapInv' /\ (view.msgs)' = [k \in 1..m |-> contents[p[k]]] /\ (view.tail)' = t
    BY <1>2, ReturnsAlong
  <1> QED
    BY <1>1, <1>3

\* The state before a call.
LEMMA HeapAlong ==
    ASSUME HeapInv
    PROVE  \E m, p : /\ ListAlong(ll, node, pool, p, m)
                     /\ Chain(ll) = p /\ DOMAIN p = 1..m /\ m \in Nat
                     /\ view.msgs = [k \in 1..m |-> node[p[k]]] /\ Len(view.msgs) = m
                     /\ TailHere(p, m)
  <1>1. PICK m, p : ListAlong(ll, node, pool, p, m)
    BY DEF HeapInv
  <1>2. ll \in Pointers /\ Linked(ll.Head, ll.Next, p, m) /\ view = View(ll, node) /\ m \in Nat
    BY <1>1 DEF ListAlong, HeapInv, Linked
  <1>3. Chain(ll) = p /\ DOMAIN p = 1..m
    BY <1>2, LinkedChain
  <1>4. view.msgs = [k \in 1..m |-> node[p[k]]] /\ TailHere(p, m)
    <2>0. ll \in Pointers /\ Linked(ll.Head, ll.Next, p, m)
      BY <1>2
    <2>1. View(ll, node).msgs = [k \in 1..m |-> node[p[k]]] /\ TailAt(ll, p, m, View(ll, node).tail)
      BY ONLY <2>0, ViewAlong
    <2> QED
      BY <1>2, <2>1 DEF TailHere
  <1>5. Len(view.msgs) = m
    <2>1. view.msgs \in [1..m -> {node[x] : x \in Node}]
      BY <1>2, <1>4 DEF Linked
    <2> QED
      BY <1>2, <2>1
  <1> QED
    BY <1>1, <1>2, <1>3, <1>4, <1>5

\* Nothing but the result changes.
LEMMA RefusesSteps ==
    ASSUME HeapInv, NEW err, Refuses(err)
    PROVE  HeapInv' /\ Queue!Refuses(err)
  <1>1. ll' = ll /\ node' = node /\ pool' = pool /\ view' = view
    BY DEF Refuses, Returns, HeapInv
  <1>2. HeapInv'
    BY <1>1 DEF HeapInv
  <1> QED
    BY <1>1, <1>2 DEF Refuses, Returns, Queue!Refuses, Queue!Returns

\* A call that panics.
LEMMA PanicsSteps ==
    ASSUME HeapInv, Panics
    PROVE  HeapInv' /\ Queue!Panics
  <1>1. ll' = ll /\ node' = node /\ pool' = pool /\ view' = view
    BY DEF Panics
  <1>2. HeapInv'
    BY <1>1 DEF HeapInv
  <1> QED
    BY <1>1, <1>2 DEF Panics, Queue!Panics

-----------------------------------------------------------------------------
(* Producing *)

\* The nodes `made' are not in use, and all that are in the pool are clean.
Given(made, n, p, m) ==
    /\ made \in [1..n -> Node]
    /\ \A i, j \in 1..n : made[i] = made[j] => i = j
    /\ \A i \in 1..n : made[i] # ll.Tail /\ \A k \in 1..m : p[k] # made[i]
    /\ \A x \in Range(pool) : node[x] = Clean /\ ll.Next[x] = nil

\* The pool without its first n nodes, and without the nodes `made'.
Left(rest, made, n) ==
    /\ rest \in Seq(Node)
    /\ \A i \in 1..Len(rest) : i + n \in 1..Len(pool) /\ rest[i] = pool[i + n]
    /\ \A i \in 1..Len(rest), j \in 1..n : rest[i] # made[j]

\* What GetObject hands out is not in use, is clean where it comes from the pool, and
\* leaves the pool.
LEMMA GetObjectsGive ==
    ASSUME NEW m, NEW p, ListAlong(ll, node, pool, p, m), NEW n \in Nat, NEW made \in GetObjects(n)
    PROVE  Given(made, n, p, m) /\ Left(SubSeq(pool, n + 1, Len(pool)), made, n)
  <1> DEFINE l == Len(pool)
             rest == SubSeq(pool, n + 1, l)
  <1>1. /\ ll \in Pointers /\ pool \in Seq(Node) /\ Linked(ll.Head, ll.Next, p, m)
        /\ \A i, j \in 1..l : pool[i] = pool[j] => i = j
        /\ \A i \in 1..l : /\ node[pool[i]] = Clean /\ ll.Next[pool[i]] = nil
                           /\ pool[i] # ll.Tail
                           /\ \A k \in 1..m : p[k] # pool[i]
    BY DEF ListAlong, PoolClean
  <1>2. l \in Nat /\ \A i \in 1..l : pool[i] \in Node
    BY <1>1
  <1>3. PICK new \in NewNodes(n - l) :
          made = [i \in 1..n |-> IF i <= l THEN pool[i] ELSE new[i - l]]
    BY DEF GetObjects
  <1>4. /\ new \in [1..(n - l) -> Node]
        /\ \A i, j \in 1..(n - l) : new[i] = new[j] => i = j
        /\ \A i \in 1..(n - l) : /\ new[i] # ll.Tail /\ new[i] \notin Range(pool)
                                 /\ \A k \in 1..m : p[k] # new[i]
    <2>1. n - l \in Int
      BY <1>2
    <2> HIDE DEF l
    <2> QED
      BY <1>1, <2>1, NewNodesNotInUse
  <1>5. DOMAIN pool = 1..l /\ \A i \in 1..l : pool[i] \in Range(pool)
    BY <1>1 DEF Range
  <1>6. rest \in Seq(Node) /\ \A i \in 1..Len(rest) : i + n \in 1..l /\ rest[i] = pool[i + n]
    <2>1. CASE n + 1 <= l
      <3>1. n + 1 \in 1..(l + 1) /\ l \in n..l
        BY <1>2, <2>1
      <3>2. rest \in Seq(Node) /\ Len(rest) = l - n
        BY <1>1, <1>2, <2>1
      <3>3. \A i \in 1..(l - n) : rest[i] = pool[i + n]
        BY <1>1, <1>2, <2>1
      <3> QED
        BY <1>2, <3>2, <3>3
    <2>2. CASE ~(n + 1 <= l)
      <3>1. rest = <<>>
        BY <1>1, <1>2, <2>2
      <3>2. <<>> \in Seq(Node) /\ Len(<<>>) = 0 /\ 1..0 = {}
        OBVIOUS
      <3> QED
        BY <3>1, <3>2, Zenon
    <2> QED
      BY <2>1, <2>2
  <1> HIDE DEF l, rest
  <1>7. \A i \in 1..n : (i <= l => i \in 1..l /\ made[i] = pool[i])
                     /\ (~(i <= l) => i - l \in 1..(n - l) /\ made[i] = new[i - l])
    BY <1>2, <1>3
  <1>8. made \in [1..n -> Node]
    <2>1. \A i \in 1..n : made[i] \in Node
      BY <1>2, <1>4, <1>7
    <2> QED
      BY <1>3, <2>1
  <1>9. ASSUME NEW i \in 1..n, NEW j \in 1..n, made[i] = made[j] PROVE i = j
    <2>1. CASE i <= l /\ j <= l
      BY <1>1, <1>7, <1>9, <2>1
    <2>2. CASE ~(i <= l) /\ ~(j <= l)
      <3>1. i - l = j - l
        BY <1>4, <1>7, <1>9, <2>2
      <3> QED
        BY <1>2, <3>1
    <2>3. CASE i <= l /\ ~(j <= l)
      BY <1>4, <1>5, <1>7, <1>9, <2>3
    <2>4. CASE ~(i <= l) /\ j <= l
      BY <1>4, <1>5, <1>7, <1>9, <2>4
    <2> QED
      BY <2>1, <2>2, <2>3, <2>4
  <1>10. \A i \in 1..n : made[i] # ll.Tail /\ \A k \in 1..m : p[k] # made[i]
    BY <1>1, <1>4, <1>7
  <1>11. \A x \in Range(pool) : node[x] = Clean /\ ll.Next[x] = nil
    BY <1>1, <1>5 DEF Range
  <1>12. ASSUME NEW i \in 1..Len(rest), NEW j \in 1..n PROVE rest[i] # made[j]
    <2>1. i + n \in 1..l /\ rest[i] = pool[i + n] /\ i \in Nat /\ i > 0
      BY <1>6
    <2>2. CASE j <= l
      <3>1. i + n # j
        BY <2>1
      <3> QED
        BY <1>1, <1>7, <2>1, <2>2, <3>1
    <2>3. CASE ~(j <= l)
      BY <1>4, <1>5, <1>7, <2>1, <2>3
    <2> QED
      BY <2>2, <2>3
  <1> QED
    BY <1>6, <1>8, <1>9, <1>10, <1>11, <1>12 DEF l, rest, Given, Left

\* The pointers after the new nodes are linked.
LEMMA LinkPointers ==
    ASSUME NEW m, NEW p, ListAlong(ll, node, pool, p, m), NEW n \in Nat \ {0}, NEW made,
           Given(made, n, p, m)
    PROVE  /\ Link(made) \in Pointers
           /\ Link(made).Head = IF ll.Head = nil THEN made[1] ELSE ll.Head
           /\ Link(made).Tail = made[n]
           /\ \A i \in 1..n : Link(made).Next[made[i]] = IF i = n THEN nil ELSE made[i + 1]
           /\ ll.Head # nil => Link(made).Next[ll.Tail] = made[1]
           /\ \A x \in Node : (\A i \in 1..n : made[i] # x) /\ (ll.Head # nil => x # ll.Tail) =>
                Link(made).Next[x] = ll.Next[x]
  <1>0. /\ ll \in Pointers /\ (ll.Head # nil => ll.Tail # nil)
        /\ made \in [1..n -> Node] /\ Len(made) = n
        /\ \A i, j \in 1..n : made[i] = made[j] => i = j
        /\ \A i \in 1..n : made[i] # ll.Tail
        /\ \A x \in Range(pool) : ll.Next[x] = nil
    <2>1. made \in [1..n -> Node] /\ n \in Nat
      BY DEF Given
    <2>2. Len(made) = n
      BY <2>1
    <2> QED
      BY <2>1, <2>2 DEF ListAlong, Linked, Given
  <1> USE <1>0
  <1> DEFINE next == [x \in Node |->
                   IF \E i \in 1..(n - 1) : made[i] = x
                   THEN made[1 + CHOOSE i \in 1..(n - 1) : made[i] = x]
                   ELSE IF x \in Range(made) \ Range(pool) THEN nil ELSE ll.Next[x]]
  <1>1. DOMAIN made = 1..n /\ 1 \in 1..n /\ n \in 1..n /\ Range(made) = {made[i] : i \in 1..n}
    BY DEF Range
  <1>2. ASSUME NEW i \in 1..(n - 1) PROVE next[made[i]] = made[i + 1]
    <2>1. made[i] \in Node /\ i \in 1..n
      OBVIOUS
    <2>2. (CHOOSE j \in 1..(n - 1) : made[j] = made[i]) \in 1..(n - 1)
          /\ made[CHOOSE j \in 1..(n - 1) : made[j] = made[i]] = made[i]
      OBVIOUS
    <2>3. (CHOOSE j \in 1..(n - 1) : made[j] = made[i]) = i
      <3> DEFINE c == CHOOSE j \in 1..(n - 1) : made[j] = made[i]
      <3>1. c \in 1..n /\ made[c] = made[i]
        BY <2>2
      <3> HIDE DEF c
      <3>2. c = i
        BY <2>1, <3>1
      <3> QED
        BY <3>2 DEF c
    <2>4. next[made[i]] = made[1 + i]
      BY <2>1, <2>3
    <2> QED
      BY <2>4
  <1>3. next[made[n]] = nil
    <2>1. ~\E i \in 1..(n - 1) : made[i] = made[n]
      <3> SUFFICES ASSUME NEW i \in 1..(n - 1), made[i] = made[n] PROVE FALSE
        OBVIOUS
      <3>1. i \in 1..n /\ i # n
        OBVIOUS
      <3> QED
        BY <1>1, <3>1
    <2>2. made[n] \in Node /\ made[n] \in Range(made)
      BY <1>1
    <2> QED
      BY <2>1, <2>2
  <1>4. \A x \in Node : (\A i \in 1..n : made[i] # x) => next[x] = ll.Next[x]
    <2> SUFFICES ASSUME NEW x \in Node, \A i \in 1..n : made[i] # x PROVE next[x] = ll.Next[x]
      OBVIOUS
    <2>1. ~(\E i \in 1..(n - 1) : made[i] = x) /\ x \notin Range(made)
      BY <1>1
    <2> QED
      BY <2>1
  <1>5. next \in [Node -> Node \cup {nil}]
    <2>1. \A x \in Node : next[x] \in Node \cup {nil}
      <3> SUFFICES ASSUME NEW x \in Node PROVE next[x] \in Node \cup {nil}
        OBVIOUS
      <3>1. CASE \E i \in 1..n : made[i] = x
        <4>1. PICK i \in 1..n : made[i] = x
          BY <3>1
        <4>2. CASE i = n
          BY <1>3, <4>1, <4>2
        <4>3. CASE i # n
          <5>1. i \in 1..(n - 1) /\ i + 1 \in 1..n
            BY <4>3
          <5> QED
            BY <1>2, <4>1, <5>1
        <4> QED
          BY <4>2, <4>3
      <3>2. CASE \A i \in 1..n : made[i] # x
        BY <1>4, <3>2 DEF Pointers
      <3> QED
        BY <3>1, <3>2
    <2>2. next = [x \in Node |-> next[x]]
      OBVIOUS
    <2> HIDE DEF next
    <2> QED
      BY <2>1, <2>2
  <1>6. Link(made) = IF ll.Head = nil
        THEN [Head |-> made[1], Tail |-> made[n], Next |-> [next EXCEPT ![made[n]] = nil]]
        ELSE [Head |-> ll.Head, Tail |-> made[n], Next |-> [next EXCEPT ![ll.Tail] = made[1]]]
    BY DEF Link
  <1> HIDE DEF next
  <1>7. made[1] \in Node /\ made[n] \in Node /\ ll.Head \in Node \cup {nil} /\ ll.Tail \in Node \cup {nil}
    BY <1>1 DEF Pointers
  <1>8. \A i \in 1..n : next[made[i]] = IF i = n THEN nil ELSE made[i + 1]
    BY <1>2, <1>3
  <1>9. CASE ll.Head = nil
    <2>1. Link(made) = [Head |-> made[1], Tail |-> made[n], Next |-> [next EXCEPT ![made[n]] = nil]]
      BY <1>6, <1>9
    <2>2. [next EXCEPT ![made[n]] = nil] = next
      BY <1>3, <1>5
    <2>3. Link(made) = [Head |-> made[1], Tail |-> made[n], Next |-> next]
      BY <2>1, <2>2
    <2> QED
      BY <1>4, <1>5, <1>7, <1>8, <1>9, <2>3 DEF Pointers
  <1>10. CASE ll.Head # nil
    <2>1. Link(made) = [Head |-> ll.Head, Tail |-> made[n], Next |-> [next EXCEPT ![ll.Tail] = made[1]]]
      BY <1>6, <1>10
    <2>2. ll.Tail \in Node
      BY <1>7, <1>10
    <2>3. [next EXCEPT ![ll.Tail] = made[1]] \in [Node -> Node \cup {nil}]
      BY <1>5, <1>7
    <2>4. Link(made) \in Pointers
      BY <1>7, <2>1, <2>3 DEF Pointers
    <2>5. \A x \in Node : Link(made).Next[x] = IF x = ll.Tail THEN made[1] ELSE next[x]
      BY <1>5, <2>1
    <2> QED
      BY <1>4, <1>7, <1>8, <1>10, <2>1, <2>2, <2>4, <2>5
  <1> QED
    BY <1>9, <1>10

\* The new nodes hold fresh messages, whether they come from the pool or not.
LEMMA FilledContents ==
    ASSUME NEW m, NEW p, ListAlong(ll, node, pool, p, m), NEW n \in Nat, NEW made,
           Given(made, n, p, m), NEW ids \in Seq(Ids), Len(ids) = n
    PROVE  /\ Filled(made, ids) \in [Node -> Content]
           /\ \A i \in 1..n : Filled(made, ids)[made[i]] = Queue!Fresh(ids[i])
           /\ \A x \in Node : (\A i \in 1..n : made[i] # x) => Filled(made, ids)[x] = node[x]
  <1>0. /\ node \in [Node -> Content] /\ made \in [1..n -> Node]
        /\ \A i, j \in 1..n : made[i] = made[j] => i = j
        /\ \A x \in Range(pool) : node[x] = Clean
    BY DEF ListAlong, Given
  <1> USE <1>0
  <1> DEFINE F == Filled(made, ids)
             old(x) == IF x \in Range(pool) THEN node[x].fetched ELSE 0
             new(x) == [id |-> ids[CHOOSE i \in DOMAIN made : made[i] = x], owner |-> None, time |-> 0,
                        fetched |-> old(x)]
  <1>1. DOMAIN made = 1..n /\ Range(made) = {made[i] : i \in 1..n}
    BY DEF Range
  <1>2. F = [x \in Node |-> IF x \in Range(made) THEN new(x) ELSE node[x]]
    BY DEF Filled
  <1>3. \A x : old(x) = 0
    BY DEF Clean
  <1>4. ASSUME NEW i \in 1..n PROVE F[made[i]] = Queue!Fresh(ids[i])
    <2> DEFINE c == CHOOSE j \in DOMAIN made : made[j] = made[i]
    <2>1. c \in 1..n /\ made[c] = made[i]
      BY <1>1
    <2>2. c = i
      <3> HIDE DEF c
      <3> QED
        BY <2>1
    <2>3. F[made[i]] = new(made[i])
      BY <1>1, <1>2
    <2>4. new(made[i]) = [id |-> ids[i], owner |-> None, time |-> 0, fetched |-> 0]
      BY <1>3, <2>2
    <2> QED
      BY <2>3, <2>4 DEF Queue!Fresh
  <1>5. \A x \in Node : (\A i \in 1..n : made[i] # x) => F[x] = node[x]
    BY <1>1, <1>2
  <1>6. ASSUME NEW x \in Node PROVE F[x] \in Content
    <2>1. CASE \E i \in 1..n : made[i] = x
      <3>1. PICK i \in 1..n : made[i] = x
        BY <2>1
      <3>2. F[x] = Queue!Fresh(ids[i])
        BY <1>4, <3>1
      <3>3. ids[i] \in Ids
        OBVIOUS
      <3> HIDE DEF F
      <3> QED
        BY <3>2, <3>3 DEF Queue!Fresh, Content
    <2>2. CASE \A i \in 1..n : made[i] # x
      BY <1>5, <2>2
    <2> QED
      BY <2>1, <2>2
  <1>7. F = [x \in Node |-> F[x]]
    BY <1>2
  <1> HIDE DEF F
  <1>8. F \in [Node -> Content]
    BY <1>6, <1>7
  <1> QED
    BY <1>4, <1>5, <1>8 DEF F

\* New nodes behind Tail
LEMMA AddsSteps ==
    ASSUME HeapInv, NEW ids \in Seq(Ids), Len(ids) # 0, Adds(ids)
    PROVE  HeapInv' /\ Queue!Link(ids) /\ Queue!Returns(FALSE)
  <1> DEFINE n == Len(ids)
  <1>1. n \in Nat \ {0}
    OBVIOUS
  <1>2. PICK m, p : /\ ListAlong(ll, node, pool, p, m)
                    /\ view.msgs = [k \in 1..m |-> node[p[k]]] /\ Len(view.msgs) = m
                    /\ TailHere(p, m)
    BY HeapAlong
  <1>3. PICK made \in GetObjects(n) :
          /\ Returns(Link(made), Filled(made, ids), FALSE)
          /\ pool' = SubSeq(pool, n + 1, Len(pool))
          /\ Amount' = Amount + n
          /\ UNCHANGED dlq
    BY DEF Adds
  <1> DEFINE q == Link(made)
             F == Filled(made, ids)
             rest == SubSeq(pool, n + 1, Len(pool))
  <1> HIDE DEF n, q, F, rest
  <1>4. /\ Given(made, n, p, m)
        /\ made \in [1..n -> Node]
        /\ \A i, j \in 1..n : made[i] = made[j] => i = j
        /\ \A i \in 1..n : made[i] # ll.Tail /\ \A k \in 1..m : p[k] # made[i]
        /\ \A x \in Range(pool) : node[x] = Clean /\ ll.Next[x] = nil
        /\ rest \in Seq(Node)
        /\ \A i \in 1..Len(rest) : i + n \in 1..Len(pool) /\ rest[i] = pool[i + n]
        /\ \A i \in 1..Len(rest), j \in 1..n : rest[i] # made[j]
    <2>1. Given(made, n, p, m) /\ Left(rest, made, n)
      BY <1>1, <1>2, GetObjectsGive DEF rest
    <2> QED
      BY <2>1 DEF Given, Left
  <1>5. /\ ll \in Pointers /\ node \in [Node -> Content] /\ Linked(ll.Head, ll.Next, p, m)
        /\ (m # 0 => ll.Tail # nil) /\ PoolClean(ll, node, pool, p, m)
    BY <1>2 DEF ListAlong
  <1>6. /\ m \in Nat /\ p \in [1..m -> Node] /\ (ll.Head = nil <=> m = 0)
        /\ \A i, j \in 1..m : p[i] = p[j] => i = j
        /\ m # 0 => ll.Head = p[1]
        /\ \A i \in 1..m : ll.Next[p[i]] = IF i = m THEN nil ELSE p[i + 1]
    BY <1>5, LinkedListAssumption DEF Linked, Node, nil
  <1>7. /\ F \in [Node -> Content]
        /\ \A i \in 1..n : F[made[i]] = Queue!Fresh(ids[i])
        /\ \A x \in Node : (\A i \in 1..n : made[i] # x) => F[x] = node[x]
    <2>1. /\ ListAlong(ll, node, pool, p, m) /\ Given(made, n, p, m)
          /\ n \in Nat /\ ids \in Seq(Ids) /\ Len(ids) = n
      BY <1>1, <1>2, <1>4 DEF n
    <2> QED
      BY ONLY <2>1, FilledContents DEF F
  <1>9. /\ q \in Pointers
        /\ q.Head = IF m = 0 THEN made[1] ELSE ll.Head
        /\ q.Tail = made[n]
        /\ \A i \in 1..n : q.Next[made[i]] = IF i = n THEN nil ELSE made[i + 1]
        /\ m # 0 => q.Next[ll.Tail] = made[1]
        /\ \A x \in Node : (\A i \in 1..n : made[i] # x) /\ (m # 0 => x # ll.Tail) =>
             q.Next[x] = ll.Next[x]
    <2>1. /\ q \in Pointers
          /\ q.Head = IF ll.Head = nil THEN made[1] ELSE ll.Head
          /\ q.Tail = made[n]
          /\ \A i \in 1..n : q.Next[made[i]] = IF i = n THEN nil ELSE made[i + 1]
          /\ ll.Head # nil => q.Next[ll.Tail] = made[1]
          /\ \A x \in Node : (\A i \in 1..n : made[i] # x) /\ (ll.Head # nil => x # ll.Tail) =>
               q.Next[x] = ll.Next[x]
      <3>1. ListAlong(ll, node, pool, p, m) /\ Given(made, n, p, m) /\ n \in Nat \ {0}
        BY <1>1, <1>2, <1>4
      <3> QED
        BY ONLY <3>1, LinkPointers DEF q
    <2> QED
      BY <1>6, <2>1
  <1>10. made[1] \in Node /\ made[n] \in Node /\ made[n] # nil /\ 1 \in 1..n /\ n \in 1..n
    BY <1>1, <1>4, LinkedListAssumption DEF Node, nil
  <1>11. /\ \A i \in 1..Len(rest) : /\ F[rest[i]] = Clean /\ q.Next[rest[i]] = nil
                                    /\ rest[i] # q.Tail /\ rest[i] \in Node
                                    /\ \A k \in 1..m : p[k] # rest[i]
         /\ \A i, j \in 1..Len(rest) : rest[i] = rest[j] => i = j
    <2>1. ASSUME NEW i \in 1..Len(rest)
          PROVE  /\ F[rest[i]] = Clean /\ q.Next[rest[i]] = nil
                 /\ rest[i] # q.Tail /\ rest[i] \in Node
                 /\ \A k \in 1..m : p[k] # rest[i]
      <3>1. i + n \in 1..Len(pool) /\ rest[i] = pool[i + n] /\ \A j \in 1..n : rest[i] # made[j]
        BY <1>4
      <3>2. /\ node[rest[i]] = Clean /\ ll.Next[rest[i]] = nil /\ rest[i] # ll.Tail
            /\ \A k \in 1..m : p[k] # rest[i]
        BY <1>5, <3>1 DEF PoolClean
      <3>3. rest[i] \in Node
        BY <1>4
      <3> QED
        BY <1>7, <1>9, <1>10, <3>1, <3>2, <3>3
    <2>2. ASSUME NEW i \in 1..Len(rest), NEW j \in 1..Len(rest), rest[i] = rest[j] PROVE i = j
      <3>1. i + n = j + n
        BY <1>4, <1>5, <2>2 DEF PoolClean
      <3> QED
        BY <1>1, <3>1
    <2> QED
      BY <2>1, <2>2
  <1>12. Returns(q, F, FALSE) /\ pool' = rest /\ Amount' = Amount + n /\ dlq' = dlq
    BY <1>3 DEF q, F, rest
  <1>13. ASSUME NEW l, NEW s, Linked(q.Head, q.Next, s, l),
                \A i \in 1..l : (\E k \in 1..m : s[i] = p[k]) \/ (\E k \in 1..n : s[i] = made[k])
         PROVE  ListAlong(q, F, pool', s, l)
    <2>1. PoolClean(q, F, rest, s, l)
      BY <1>4, <1>11, <1>13 DEF PoolClean
    <2> QED
      BY <1>7, <1>9, <1>10, <1>12, <1>13, <2>1 DEF ListAlong
  <1>14. Queue!Returns(FALSE)
    BY <1>12 DEF Returns, Queue!Returns
  <1>15. CASE m = 0
    <2>1. Linked(q.Head, q.Next, made, n)
      BY <1>1, <1>4, <1>9, <1>15 DEF Linked
    <2>2. ListAlong(q, F, pool', made, n)
      BY <1>13, <2>1
    <2>3. /\ HeapInv'
          /\ (view.msgs)' = [k \in 1..n |-> F[made[k]]]
          /\ (view.tail)' = n
      <3>1. TailAt(q, made, n, n)
        BY <1>9, <1>10 DEF TailHere, TailAt
      <3> QED
        BY <1>12, <2>2, <3>1, ReturnsAlong
    <2>4. view.msgs = <<>> /\ view.tail = 0
      BY <1>2, <1>15 DEF TailHere, TailAt
    <2>5. (view.msgs)' = [i \in 1..(view.tail + Len(ids)) |->
                            IF i <= view.tail THEN view.msgs[i] ELSE Queue!Fresh(ids[i - view.tail])]
      BY <1>1, <1>7, <2>3, <2>4 DEF n
    <2>6. (view.tail)' = view.tail + Len(ids)
      BY <1>1, <2>3, <2>4 DEF n
    <2> QED
      BY <1>12, <1>14, <2>3, <2>4, <2>5, <2>6 DEF Queue!Link, n
  <1>16. CASE m # 0 /\ \A k \in 1..m : p[k] # ll.Tail
    <2>1. ASSUME NEW i \in 1..m
          PROVE  p[i] \in Node /\ q.Next[p[i]] = ll.Next[p[i]] /\ F[p[i]] = node[p[i]]
      <3>1. p[i] \in Node /\ p[i] # ll.Tail /\ \A j \in 1..n : made[j] # p[i]
        BY <1>4, <1>6, <1>16
      <3> QED
        BY <1>7, <1>9, <3>1
    <2>2. Linked(q.Head, q.Next, p, m)
      BY <1>6, <1>9, <1>16, <2>1 DEF Linked
    <2>3. ListAlong(q, F, pool', p, m)
      BY <1>13, <2>2
    <2>4. \A k \in 1..m : p[k] # q.Tail
      BY <1>4, <1>9, <1>10
    <2>5. /\ HeapInv'
          /\ (view.msgs)' = [k \in 1..m |-> F[p[k]]]
          /\ (view.tail)' = 0
      <3>1. TailAt(q, p, m, 0)
        BY <2>4 DEF TailHere, TailAt
      <3> QED
        BY <1>12, <2>3, <3>1, ReturnsAlong
    <2>6. view.tail = 0 /\ view.msgs # <<>>
      BY <1>2, <1>6, <1>16 DEF TailHere, TailAt
    <2>7. (view.msgs)' = view.msgs
      BY <1>2, <2>1, <2>5
    <2> QED
      BY <1>12, <1>14, <2>5, <2>6, <2>7 DEF Queue!Link, n
  <1>17. ASSUME NEW t \in 1..m, p[t] = ll.Tail PROVE HeapInv' /\ Queue!Link(ids)
    <2> DEFINE s == [i \in 1..(t + n) |-> IF i <= t THEN p[i] ELSE made[i - t]]
    <2>1. t \in Nat /\ t + n \in Nat /\ t <= m /\ m # 0 /\ view.tail = t
      BY <1>1, <1>2, <1>6, <1>17 DEF TailHere, TailAt
    <2>2. \A i \in 1..(t + n) : (i <= t => i \in 1..m /\ s[i] = p[i])
                             /\ (~(i <= t) => i - t \in 1..n /\ s[i] = made[i - t])
      BY <1>1, <1>6, <2>1
    <2>3. s \in [1..(t + n) -> Node]
      BY <1>4, <1>6, <2>2
    <2> HIDE DEF s
    <2>4. \A i, j \in 1..(t + n) : s[i] = s[j] => i = j
      <3> SUFFICES ASSUME NEW i \in 1..(t + n), NEW j \in 1..(t + n), s[i] = s[j] PROVE i = j
        OBVIOUS
      <3>1. CASE i <= t /\ j <= t
        BY <1>6, <2>2, <3>1
      <3>2. CASE ~(i <= t) /\ ~(j <= t)
        <4>1. i - t = j - t
          BY <1>4, <2>2, <3>2
        <4> QED
          BY <2>1, <4>1
      <3>3. CASE (i <= t) # (j <= t)
        BY <1>4, <2>2, <3>3
      <3> QED
        BY <3>1, <3>2, <3>3
    <2>5. ASSUME NEW i \in 1..(t + n)
          PROVE  q.Next[s[i]] = IF i = t + n THEN nil ELSE s[i + 1]
      <3>1. CASE i < t
        <4>1. i \in 1..m /\ i # m /\ s[i] = p[i] /\ s[i + 1] = p[i + 1]
          <5>1. i <= t /\ i + 1 <= t /\ i + 1 \in 1..(t + n) /\ i # m
            BY <1>1, <1>6, <2>1, <3>1
          <5> QED
            BY <2>2, <5>1
        <4>2. p[i] # ll.Tail
          BY <1>6, <1>17, <3>1, <4>1
        <4>3. q.Next[p[i]] = ll.Next[p[i]]
          BY <1>4, <1>6, <1>9, <4>1, <4>2
        <4>4. i # t + n
          BY <1>1, <2>1, <3>1
        <4> QED
          BY <1>6, <4>1, <4>3, <4>4
      <3>2. CASE i = t
        <4>1. s[i] = ll.Tail /\ i + 1 \in 1..(t + n) /\ ~(i + 1 <= t) /\ (i + 1) - t = 1 /\ i # t + n
          BY <1>1, <1>17, <2>1, <2>2, <3>2
        <4>2. s[i + 1] = made[1]
          BY <2>2, <4>1
        <4> QED
          BY <1>9, <2>1, <4>1, <4>2
      <3>3. CASE i > t
        <4>1. i - t \in 1..n /\ s[i] = made[i - t] /\ (i = t + n <=> i - t = n)
          BY <1>1, <2>1, <2>2, <3>3
        <4>2. i # t + n => s[i + 1] = made[(i - t) + 1]
          <5> SUFFICES ASSUME i # t + n PROVE s[i + 1] = made[(i - t) + 1]
            OBVIOUS
          <5>1. i + 1 \in 1..(t + n) /\ ~(i + 1 <= t) /\ (i + 1) - t = (i - t) + 1
            BY <1>1, <2>1, <3>3
          <5> QED
            BY <2>2, <5>1
        <4> QED
          BY <1>9, <4>1, <4>2
      <3> QED
        BY <2>1, <3>1, <3>2, <3>3
    <2>6. q.Head = s[1] /\ t + n # 0
      <3>1. 1 \in 1..(t + n) /\ 1 <= t
        BY <1>1, <2>1
      <3>2. s[1] = p[1]
        BY <2>2, <3>1
      <3> QED
        BY <1>1, <1>6, <1>9, <2>1, <3>2
    <2>7. Linked(q.Head, q.Next, s, t + n)
      BY <2>1, <2>3, <2>4, <2>5, <2>6 DEF Linked
    <2>8. ListAlong(q, F, pool', s, t + n)
      BY <1>13, <2>2, <2>7
    <2>9. t + n \in 1..(t + n) /\ s[t + n] = q.Tail
      <3>1. t + n \in 1..(t + n) /\ ~(t + n <= t) /\ (t + n) - t = n
        BY <1>1, <2>1
      <3> QED
        BY <1>9, <2>2, <3>1
    <2>10. /\ HeapInv'
           /\ (view.msgs)' = [k \in 1..(t + n) |-> F[s[k]]]
           /\ (view.tail)' = t + n
      <3>1. TailAt(q, s, t + n, t + n)
        BY <2>9 DEF TailHere, TailAt
      <3> QED
        BY <1>12, <2>8, <3>1, ReturnsAlong
    <2>11. \A i \in 1..(t + n) :
             F[s[i]] = IF i <= t THEN view.msgs[i] ELSE Queue!Fresh(ids[i - t])
      <3> SUFFICES ASSUME NEW i \in 1..(t + n)
                   PROVE  F[s[i]] = IF i <= t THEN view.msgs[i] ELSE Queue!Fresh(ids[i - t])
        OBVIOUS
      <3>1. CASE i <= t
        <4>1. i \in 1..m /\ s[i] = p[i]
          BY <2>2, <3>1
        <4>2. F[p[i]] = node[p[i]]
          BY <1>4, <1>6, <1>7, <4>1
        <4>3. view.msgs[i] = node[p[i]]
          BY <1>2, <4>1
        <4> QED
          BY <3>1, <4>1, <4>2, <4>3
      <3>2. CASE ~(i <= t)
        BY <1>7, <2>2, <3>2
      <3> QED
        BY <3>1, <3>2
    <2>12. (view.msgs)' = [i \in 1..(view.tail + Len(ids)) |->
                            IF i <= view.tail THEN view.msgs[i] ELSE Queue!Fresh(ids[i - view.tail])]
      BY <2>1, <2>10, <2>11 DEF n
    <2>13. (view.tail)' = view.tail + Len(ids) /\ view.tail # 0
      BY <2>1, <2>10 DEF n
    <2> QED
      BY <1>12, <2>10, <2>12, <2>13 DEF Queue!Link, n
  <1> QED
    BY <1>6, <1>14, <1>15, <1>16, <1>17

\* Enqueue: the node is linked, or lost when the queue is full.
LEMMA EnqueueSteps ==
    ASSUME HeapInv, NEW id \in Ids, Enqueue(id)
    PROVE  HeapInv' /\ Queue!Enqueue(id)
  <1>1. CASE ~IsFull /\ Adds(<<id>>)
    <2>1. <<id>> \in Seq(Ids) /\ Len(<<id>>) # 0
      OBVIOUS
    <2>2. HeapInv' /\ Queue!Link(<<id>>) /\ Queue!Returns(FALSE)
      BY <1>1, <2>1, AddsSteps
    <2> QED
      BY <1>1, <2>2 DEF Enqueue, IsFull, Queue!Enqueue, Queue!IsFull
  <1>2. CASE IsFull /\ ~(~IsFull /\ Adds(<<id>>))
    <2>1. PICK made \in GetObjects(1) : Returns(ll, Filled(made, <<id>>), FALSE)
      BY <1>2 DEF Enqueue
    <2>2. pool' = SubSeq(pool, 2, Len(pool)) /\ Amount' = Amount /\ dlq' = dlq /\ status = "up"
      BY <1>2 DEF Enqueue
    <2>3. PICK m, p : /\ ListAlong(ll, node, pool, p, m)
                      /\ view.msgs = [k \in 1..m |-> node[p[k]]]
                      /\ TailHere(p, m)
      BY HeapAlong
    <2> DEFINE F == Filled(made, <<id>>)
               rest == SubSeq(pool, 1 + 1, Len(pool))
    <2> HIDE DEF F, rest
    <2>4. Given(made, 1, p, m) /\ Left(rest, made, 1)
      BY <2>3, GetObjectsGive DEF rest
    <2>5. /\ F \in [Node -> Content]
          /\ \A x \in Node : (\A i \in 1..1 : made[i] # x) => F[x] = node[x]
      <3>1. PICK n \in Nat, ids \in Seq(Ids) : n = 1 /\ ids = <<id>> /\ Len(ids) = n
        <4>1. 1 \in Nat /\ <<id>> \in Seq(Ids) /\ Len(<<id>>) = 1
          OBVIOUS
        <4> QED
          BY <4>1, Zenon
      <3>2. Given(made, n, p, m) /\ F = Filled(made, ids)
        BY <2>4, <3>1 DEF F
      <3>3. /\ F \in [Node -> Content]
            /\ \A x \in Node : (\A i \in 1..n : made[i] # x) => F[x] = node[x]
        <4>1. Len(ids) = n
          BY <3>1
        <4> QED
          BY <2>3, <3>2, <4>1, FilledContents
      <3> QED
        BY <3>1, <3>3
    <2>6. \A k \in 1..m : F[p[k]] = node[p[k]]
      BY <2>3, <2>4, <2>5 DEF Given, ListAlong, Linked
    <2>7. PoolClean(ll, F, rest, p, m)
      <3>1. rest \in Seq(Node)
        BY <2>4 DEF Left
      <3>2. ASSUME NEW i \in 1..Len(rest)
            PROVE  /\ F[rest[i]] = Clean /\ ll.Next[rest[i]] = nil /\ rest[i] # ll.Tail
                   /\ \A k \in 1..m : p[k] # rest[i]
        <4>1. i + 1 \in 1..Len(pool) /\ rest[i] = pool[i + 1] /\ \A j \in 1..1 : rest[i] # made[j]
          BY <2>4 DEF Left
        <4>2. /\ node[rest[i]] = Clean /\ ll.Next[rest[i]] = nil /\ rest[i] # ll.Tail
              /\ \A k \in 1..m : p[k] # rest[i]
          BY <2>3, <4>1 DEF ListAlong, PoolClean
        <4>3. rest[i] \in Node
          BY <3>1
        <4> QED
          BY <2>5, <4>1, <4>2, <4>3
      <3>3. ASSUME NEW i \in 1..Len(rest), NEW j \in 1..Len(rest), rest[i] = rest[j] PROVE i = j
        <4>1. i + 1 = j + 1
          BY <2>3, <2>4, <3>3 DEF ListAlong, PoolClean, Left
        <4> QED
          BY <4>1
      <3> QED
        BY <3>1, <3>2, <3>3 DEF PoolClean
    <2>8. ListAlong(ll, F, pool', p, m)
      <3>1. pool' = rest
        BY <2>2 DEF rest
      <3> QED
        BY <2>3, <2>5, <2>7, <3>1 DEF ListAlong
    <2>9. Returns(ll, F, FALSE)
      BY <2>1 DEF F
    <2>10. HeapInv' /\ (view.msgs)' = [k \in 1..m |-> F[p[k]]] /\ (view.tail)' = view.tail
      <3>1. TailHere(p, m)
        BY <2>3
      <3> QED
        BY ONLY <2>8, <2>9, <3>1, ReturnsContents
    <2>11. (view.msgs)' = view.msgs
      BY <2>3, <2>6, <2>10
    <2>12. Queue!Refuses(FALSE)
      BY <2>2, <2>9, <2>10, <2>11 DEF Returns, Queue!Refuses, Queue!Returns
    <2> QED
      BY <1>2, <2>2, <2>10, <2>12 DEF IsFull, Queue!Enqueue, Queue!IsFull
  <1> QED
    BY <1>1, <1>2 DEF Enqueue

\* The batches of ids a call may carry.
LEMMA BatchIsSeq ==
    ASSUME NEW ids \in Batches
    PROVE  ids \in Seq(Ids) /\ Len(ids) \in Nat
  <1>1. PICK n \in 0..MaxBatch : ids \in [1..n -> Ids]
    BY DEF Batches
  <1> QED
    BY <1>1

\* Enqueueing a batch.
LEMMA BatchEnqueueSteps ==
    ASSUME HeapInv, NEW ids \in Batches, BatchEnqueue(ids)
    PROVE  HeapInv' /\ Queue!BatchEnqueue(ids)
  <1>1. CASE (Len(ids) = 0 \/ IsFull) /\ Refuses(FALSE)
    <2>1. HeapInv' /\ Queue!Refuses(FALSE)
      BY <1>1, RefusesSteps
    <2> QED
      BY <1>1, <2>1 DEF BatchEnqueue, IsFull, Queue!BatchEnqueue, Queue!IsFull
  <1>2. CASE Len(ids) > 0 /\ ~IsFull /\ Adds(ids)
    <2>1. ids \in Seq(Ids) /\ Len(ids) # 0
      BY <1>2, BatchIsSeq
    <2>2. HeapInv' /\ Queue!Link(ids) /\ Queue!Returns(FALSE)
      BY <1>2, <2>1, AddsSteps
    <2> QED
      BY <1>2, <2>2 DEF BatchEnqueue, IsFull, Queue!BatchEnqueue, Queue!IsFull
  <1> QED
    BY <1>1, <1>2 DEF BatchEnqueue

-----------------------------------------------------------------------------
(* Fetching *)

\* Both modules count with the same Cardinality.
LEMMA SameCardinality ==
    ASSUME NEW S
    PROVE  Queue!Cardinality(S) = Cardinality(S)
  BY DEF Queue!Cardinality, Cardinality

\* Fetching.
LEMMA DequeueSteps ==
    ASSUME HeapInv, NEW want, NEW c \in Consumers, NEW t \in Times, Dequeue(want, c, t)
    PROVE  HeapInv' /\ Queue!Dequeue(want, c, t)
  <1>1. PICK m, p : /\ ListAlong(ll, node, pool, p, m)
                    /\ Chain(ll) = p /\ DOMAIN p = 1..m
                    /\ view.msgs = [k \in 1..m |-> node[p[k]]] /\ Len(view.msgs) = m
                    /\ TailHere(p, m)
    BY HeapAlong
  <1>2. /\ node \in [Node -> Content] /\ p \in [1..m -> Node]
        /\ \A i, j \in 1..m : p[i] = p[j] => i = j
    BY <1>1 DEF ListAlong, Linked
  <1> DEFINE open == {k \in DOMAIN Chain(ll) : Available(Chain(ll)[k], c, t)}
             first == {j \in open : Cardinality({i \in open : i <= j}) <= want}
             got == {Chain(ll)[k] : k \in first}
             F == [n \in Node |-> IF n \in got THEN [node[n] EXCEPT !.owner = c, !.time = t] ELSE node[n]]
  <1>3. Returns(ll, F, FALSE) /\ pool' = pool /\ Amount' = Amount /\ dlq' = dlq /\ status = "up"
    BY DEF Dequeue
  <1>4. Queue!Fetched(want, c, t) = first
    <2>1. open = {k \in 1..m : Queue!Available(k, c, t)}
      BY <1>1 DEF Available, Queue!Available
    <2>2. Queue!Positions = 1..m
      BY <1>1 DEF Queue!Positions
    <2> HIDE DEF open
    <2>3. Queue!Fetched(want, c, t) = Queue!Smallest(open, want)
      BY <2>1, <2>2 DEF Queue!Fetched
    <2> QED
      BY <2>3, SameCardinality DEF Queue!Smallest
  <1>5. first \subseteq 1..m
    BY <1>1
  <1> HIDE DEF first
  <1>6. \A k \in 1..m : p[k] \in got <=> k \in first
    BY <1>1, <1>2, <1>5
  <1>7. F \in [Node -> Content]
    <2>1. t \in Nat
      BY QueueAssumed DEF MQ!QueueAssumption
    <2>2. \A n \in Node : [node[n] EXCEPT !.owner = c, !.time = t] \in Content
      <3> SUFFICES ASSUME NEW n \in Node PROVE [node[n] EXCEPT !.owner = c, !.time = t] \in Content
        OBVIOUS
      <3>1. node[n] \in Content
        BY <1>2
      <3> QED
        BY <2>1, <3>1 DEF Content
    <2> QED
      BY <1>2, <2>2
  <1>8. \A k \in 1..m : F[p[k]] = IF k \in first THEN [node[p[k]] EXCEPT !.owner = c, !.time = t] ELSE node[p[k]]
    BY <1>2, <1>6
  <1>9. \A x \in Node : (\A k \in 1..m : p[k] # x) => F[x] = node[x]
    BY <1>1, <1>5
  <1> HIDE DEF F
  <1>10. ListAlong(ll, F, pool', p, m)
    <2>1. PoolClean(ll, F, pool, p, m)
      <3>1. pool \in Seq(Node)
        BY <1>1 DEF ListAlong, PoolClean
      <3> QED
        BY <1>1, <1>9, <3>1 DEF ListAlong, PoolClean
    <2> QED
      BY <1>1, <1>3, <1>7, <2>1 DEF ListAlong
  <1>11. HeapInv' /\ (view.msgs)' = [k \in 1..m |-> F[p[k]]] /\ (view.tail)' = view.tail
    <2>1. Returns(ll, F, FALSE) /\ ListAlong(ll, F, pool', p, m) /\ TailHere(p, m)
      BY <1>1, <1>3, <1>10
    <2> QED
      BY ONLY <2>1, ReturnsContents
  <1>12. (view.msgs)' = [k \in Queue!Positions |->
                          IF k \in Queue!Fetched(want, c, t)
                          THEN [view.msgs[k] EXCEPT !.owner = c, !.time = t]
                          ELSE view.msgs[k]]
    <2>1. Queue!Positions = 1..m
      BY <1>1 DEF Queue!Positions
    <2>2. \A k \in 1..m : F[p[k]] = IF k \in Queue!Fetched(want, c, t)
                                     THEN [view.msgs[k] EXCEPT !.owner = c, !.time = t]
                                     ELSE view.msgs[k]
      <3>1. \A k \in 1..m : view.msgs[k] = node[p[k]]
        BY <1>1
      <3> QED
        BY <1>4, <1>8, <3>1
    <2> QED
      BY <1>11, <2>1, <2>2
  <1> QED
    BY <1>3, <1>11, <1>12 DEF Returns, Queue!Dequeue, Queue!Returns

-----------------------------------------------------------------------------
(* Settling one message *)

\* The chain p of length m without its k-th node; if that is Tail, at t, the chain ends
\* before it.
Without(p, m, k, t) ==
    [i \in 1..(IF k = t THEN k - 1 ELSE m - 1) |-> IF i < k THEN p[i] ELSE p[i + 1]]

\* The node at position k, unlinked and reset.
Gone(k, p) == Reset(Unlinked(ll, IF k = 1 THEN nil ELSE p[k - 1], p[k]), p[k])

\* The pointers after the k-th node is unlinked.
LEMMA UnlinkedPointers ==
    ASSUME NEW m, NEW p, ListAlong(ll, node, pool, p, m), NEW t, TailAt(ll, p, m, t),
           NEW k \in 1..m
    PROVE  /\ Gone(k, p) \in Pointers
           /\ Gone(k, p).Head = IF k # 1 THEN p[1] ELSE IF k = t \/ m = 1 THEN nil ELSE p[2]
           /\ Gone(k, p).Tail = IF k # t THEN ll.Tail ELSE IF k = 1 THEN nil ELSE p[k - 1]
           /\ Gone(k, p).Next[p[k]] = nil
           /\ k # 1 => Gone(k, p).Next[p[k - 1]] = IF k = t \/ k = m THEN nil ELSE p[k + 1]
           /\ \A x \in Node : x # p[k] /\ (k # 1 => x # p[k - 1]) => Gone(k, p).Next[x] = ll.Next[x]
           /\ k = t <=> p[k] = ll.Tail
  <1>1. /\ ll \in Pointers /\ m \in Nat /\ p \in [1..m -> Node]
        /\ \A i, j \in 1..m : p[i] = p[j] => i = j
        /\ ll.Head = p[1]
        /\ \A i \in 1..m : ll.Next[p[i]] = IF i = m THEN nil ELSE p[i + 1]
    BY DEF ListAlong, Linked
  <1>2. /\ p[k] \in Node /\ p[1] \in Node /\ 1 \in 1..m
        /\ k # 1 => k - 1 \in 1..m /\ p[k - 1] \in Node /\ p[k - 1] # p[k] /\ p[k] # p[1]
        /\ k # m => k + 1 \in 1..m /\ p[k + 1] \in Node
    <2>1. 1 \in 1..m /\ (k # 1 => k - 1 \in 1..m /\ k - 1 # k) /\ (k # m => k + 1 \in 1..m)
      BY <1>1
    <2> QED
      BY <1>1, <2>1
  <1>3. k = t <=> p[k] = ll.Tail
    BY <1>1 DEF TailAt
  <1> DEFINE prev == IF k = 1 THEN nil ELSE p[k - 1]
             q == Unlinked(ll, prev, p[k])
             nx == ll.Next[p[k]]
  <1>4. nx = IF k = m THEN nil ELSE p[k + 1]
    BY <1>1
  <1>5. nx \in Node \cup {nil} /\ (k = m /\ k = 1 => m = 1)
    BY <1>2, <1>4
  <1>6. ll = [Head |-> ll.Head, Tail |-> ll.Tail, Next |-> ll.Next] /\ ll.Next \in [Node -> Node \cup {nil}]
        /\ ll.Tail \in Node \cup {nil}
    BY <1>1 DEF Pointers
  <1>7. CASE k = 1
    <2>1. prev = nil /\ p[k] = ll.Head
      BY <1>1, <1>7
    <2>2. q = IF k = t THEN [ll EXCEPT !.Head = nil, !.Tail = nil] ELSE [ll EXCEPT !.Head = nx]
      BY <1>3, <2>1 DEF Unlinked
    <2>3. q = [Head |-> IF k = t THEN nil ELSE nx, Tail |-> IF k = t THEN nil ELSE ll.Tail, Next |-> ll.Next]
      BY <1>6, <2>2
    <2>4. Gone(k, p) = [q EXCEPT !.Next[p[k]] = nil]
      BY DEF Gone, Reset
    <2> HIDE DEF q, prev, nx
    <2>5. Gone(k, p) = [Head |-> IF k = t THEN nil ELSE nx, Tail |-> IF k = t THEN nil ELSE ll.Tail,
                        Next |-> [ll.Next EXCEPT ![p[k]] = nil]]
      BY <2>3, <2>4
    <2>6. k = t \/ m = 1 <=> (IF k = t THEN nil ELSE nx) = nil
      BY <1>2, <1>4, <1>7, LinkedListAssumption DEF Node, nil
    <2> QED
      BY <1>2, <1>3, <1>4, <1>5, <1>6, <1>7, <2>5, <2>6 DEF Pointers
  <1>8. CASE k # 1
    <2>1. prev = p[k - 1] /\ p[k] # ll.Head
      BY <1>1, <1>2, <1>8
    <2>2. q = IF k = t THEN [ll EXCEPT !.Tail = prev, !.Next[prev] = nil] ELSE [ll EXCEPT !.Next[prev] = nx]
      BY <1>3, <2>1 DEF Unlinked
    <2>3. q = [Head |-> ll.Head, Tail |-> IF k = t THEN prev ELSE ll.Tail,
               Next |-> [ll.Next EXCEPT ![prev] = IF k = t THEN nil ELSE nx]]
      BY <1>6, <2>2
    <2>4. Gone(k, p) = [q EXCEPT !.Next[p[k]] = nil]
      BY DEF Gone, Reset
    <2> HIDE DEF q, prev, nx
    <2>5. Gone(k, p) = [Head |-> ll.Head, Tail |-> IF k = t THEN prev ELSE ll.Tail,
               Next |-> [[ll.Next EXCEPT ![prev] = IF k = t THEN nil ELSE nx] EXCEPT ![p[k]] = nil]]
      BY <2>3, <2>4
    <2>6. (IF k = t THEN nil ELSE nx) = IF k = t \/ k = m THEN nil ELSE p[k + 1]
      BY <1>4
    <2>7. [[ll.Next EXCEPT ![prev] = IF k = t THEN nil ELSE nx] EXCEPT ![p[k]] = nil]
            \in [Node -> Node \cup {nil}]
      BY <1>2, <1>5, <1>6, <1>8, <2>1
    <2>8. Gone(k, p) \in Pointers
      BY <1>2, <1>1, <1>6, <1>8, <2>1, <2>5, <2>7 DEF Pointers
    <2> QED
      BY <1>1, <1>2, <1>3, <1>6, <1>8, <2>1, <2>5, <2>6, <2>8
  <1> QED
    BY <1>7, <1>8

\* They are a chain, with Tail where MessageQueue says.
LEMMA UnlinkedAlong ==
    ASSUME NEW m, NEW p, ListAlong(ll, node, pool, p, m), NEW t, TailAt(ll, p, m, t),
           NEW k \in 1..m
    PROVE  /\ Linked(Gone(k, p).Head, Gone(k, p).Next, Without(p, m, k, t), IF k = t THEN k - 1 ELSE m - 1)
           /\ TailAt(Gone(k, p), Without(p, m, k, t), IF k = t THEN k - 1 ELSE m - 1,
                     IF k <= t THEN t - 1 ELSE t)
  <1>1. /\ ll \in Pointers /\ m \in Nat /\ p \in [1..m -> Node]
        /\ \A i, j \in 1..m : p[i] = p[j] => i = j
        /\ \A i \in 1..m : ll.Next[p[i]] = IF i = m THEN nil ELSE p[i + 1]
        /\ k \in Nat /\ k > 0 /\ k <= m
    BY DEF ListAlong, Linked
  <1> DEFINE g == Gone(k, p)
             l == IF k = t THEN k - 1 ELSE m - 1
             s == Without(p, m, k, t)
  <1>2. /\ g.Head = IF k # 1 THEN p[1] ELSE IF k = t \/ m = 1 THEN nil ELSE p[2]
        /\ g.Tail = IF k # t THEN ll.Tail ELSE IF k = 1 THEN nil ELSE p[k - 1]
        /\ k # 1 => g.Next[p[k - 1]] = IF k = t \/ k = m THEN nil ELSE p[k + 1]
        /\ \A x \in Node : x # p[k] /\ (k # 1 => x # p[k - 1]) => g.Next[x] = ll.Next[x]
        /\ k = t <=> p[k] = ll.Tail
    BY UnlinkedPointers
  <1> HIDE DEF g
  <1>3. s = [i \in 1..l |-> IF i < k THEN p[i] ELSE p[i + 1]] /\ l \in Nat /\ l < m /\ (k = t => l = k - 1)
        /\ (k # t => l = m - 1) /\ k - 1 <= l
    BY <1>1 DEF Without
  <1> HIDE DEF s, l
  <1>4. \A i \in 1..l : (i < k => s[i] = p[i] /\ i \in 1..m)
                     /\ (~(i < k) => s[i] = p[i + 1] /\ i + 1 \in 1..m /\ k # t)
    BY <1>1, <1>3
  <1>5. s \in [1..l -> Node]
    BY <1>1, <1>3, <1>4
  <1>6. ASSUME NEW i \in 1..l, NEW j \in 1..l, s[i] = s[j] PROVE i = j
    <2>1. CASE i < k /\ j < k
      BY <1>1, <1>4, <1>6, <2>1
    <2>2. CASE ~(i < k) /\ ~(j < k)
      <3>1. i + 1 = j + 1
        BY <1>1, <1>4, <1>6, <2>2
      <3> QED
        BY <3>1
    <2>3. CASE i < k /\ ~(j < k)
      <3>1. i = j + 1
        BY <1>1, <1>4, <1>6, <2>3
      <3> QED
        BY <1>1, <2>3, <3>1
    <2>4. CASE ~(i < k) /\ j < k
      <3>1. i + 1 = j
        BY <1>1, <1>4, <1>6, <2>4
      <3> QED
        BY <1>1, <2>4, <3>1
    <2> QED
      BY <2>1, <2>2, <2>3, <2>4
  <1>7. g.Head = IF l = 0 THEN nil ELSE s[1]
    <2>1. CASE k = 1
      <3>1. CASE k = t
        BY <1>2, <1>3, <2>1, <3>1
      <3>2. CASE k # t
        <4>1. m = 1 <=> l = 0
          BY <1>1, <1>3, <3>2
        <4>2. l # 0 => s[1] = p[2]
          <5> SUFFICES ASSUME l # 0 PROVE s[1] = p[1 + 1]
            OBVIOUS
          <5>1. 1 \in 1..l /\ ~(1 < k)
            BY <1>3, <2>1
          <5> QED
            BY <1>4, <5>1
        <4> QED
          BY <1>2, <2>1, <3>2, <4>1, <4>2
      <3> QED
        BY <3>1, <3>2
    <2>2. CASE k # 1
      <3>1. 1 \in 1..l /\ 1 < k /\ l # 0
        BY <1>1, <1>3, <2>2
      <3> QED
        BY <1>2, <1>4, <2>2, <3>1
    <2> QED
      BY <2>1, <2>2
  <1>8. ASSUME NEW i \in 1..l PROVE g.Next[s[i]] = IF i = l THEN nil ELSE s[i + 1]
    <2>1. CASE i = k - 1
      <3>1. s[i] = p[k - 1] /\ k # 1
        BY <1>1, <1>4, <2>1
      <3>2. i = l <=> k = t \/ k = m
        BY <1>1, <1>3, <2>1
      <3>3. i # l => s[i + 1] = p[k + 1]
        <4> SUFFICES ASSUME i # l PROVE s[k] = p[k + 1]
          BY <1>1, <2>1
        <4>1. k \in 1..l /\ ~(k < k)
          BY <1>1, <1>3, <2>1
        <4> QED
          BY <1>4, <4>1
      <3> QED
        BY <1>2, <3>1, <3>2, <3>3
    <2>2. CASE i < k - 1
      <3>1. /\ s[i] = p[i] /\ i \in 1..m /\ i # k /\ i # k - 1 /\ i # m /\ i # l
            /\ i + 1 \in 1..l /\ i + 1 < k
        BY <1>1, <1>3, <1>4, <2>2
      <3>2. s[i + 1] = p[i + 1]
        BY <1>4, <3>1
      <3>3. p[i] \in Node /\ p[i] # p[k] /\ (k # 1 => p[i] # p[k - 1])
        <4>1. k # 1 => k - 1 \in 1..m
          BY <1>1
        <4> QED
          BY <1>1, <3>1, <4>1
      <3> QED
        BY <1>1, <1>2, <3>1, <3>2, <3>3
    <2>3. CASE i > k - 1
      <3>1. /\ s[i] = p[i + 1] /\ i + 1 \in 1..m /\ i + 1 # k /\ i + 1 # k - 1 /\ k # t
            /\ (i + 1 = m <=> i = l)
        BY <1>1, <1>3, <1>4, <2>3
      <3>2. i # l => s[i + 1] = p[(i + 1) + 1]
        <4> SUFFICES ASSUME i # l PROVE s[i + 1] = p[(i + 1) + 1]
          OBVIOUS
        <4>1. i + 1 \in 1..l /\ ~(i + 1 < k)
          BY <1>1, <1>3, <2>3
        <4> QED
          BY <1>4, <4>1
      <3>3. p[i + 1] \in Node /\ p[i + 1] # p[k] /\ (k # 1 => p[i + 1] # p[k - 1])
        <4>1. k # 1 => k - 1 \in 1..m
          BY <1>1
        <4> QED
          BY <1>1, <3>1, <4>1
      <3>4. g.Next[p[i + 1]] = ll.Next[p[i + 1]]
        BY <1>2, <3>3
      <3> QED
        BY <1>1, <3>1, <3>2, <3>4
    <2> QED
      BY <1>1, <2>1, <2>2, <2>3
  <1>9. Linked(g.Head, g.Next, s, l)
    BY <1>3, <1>5, <1>6, <1>7, <1>8 DEF Linked
  <1> DEFINE u == IF k <= t THEN t - 1 ELSE t
  <1>10. TailAt(g, s, l, u)
    <2>1. CASE k = t
      <3>1. u = k - 1 /\ l = k - 1 /\ k <= t
        BY <1>1, <1>3, <2>1
      <3>2. CASE k = 1
        BY <3>1, <3>2 DEF TailAt
      <3>3. CASE k # 1
        <4>1. k - 1 \in 1..l /\ k - 1 < k
          BY <1>1, <3>1, <3>3
        <4>2. s[k - 1] = p[k - 1]
          BY <1>4, <4>1
        <4> QED
          BY <1>2, <2>1, <3>1, <3>3, <4>1, <4>2 DEF TailAt
      <3> QED
        BY <3>2, <3>3
    <2>2. CASE k # t /\ t \in 1..m /\ p[t] = ll.Tail
      <3>1. CASE k < t
        <4>1. u = t - 1 /\ t - 1 \in 1..l /\ ~(t - 1 < k) /\ (t - 1) + 1 = t
          BY <1>1, <1>3, <2>2, <3>1
        <4>2. s[t - 1] = p[t]
          BY <1>4, <4>1
        <4> QED
          BY <1>2, <2>2, <4>1, <4>2 DEF TailAt
      <3>2. CASE ~(k < t)
        <4>1. u = t /\ t \in 1..l /\ t < k
          BY <1>1, <1>3, <2>2, <3>2
        <4>2. s[t] = p[t]
          BY <1>4, <4>1
        <4> QED
          BY <1>2, <2>2, <4>1, <4>2 DEF TailAt
      <3> QED
        BY <3>1, <3>2
    <2>3. CASE t = 0 /\ \A j \in 1..m : p[j] # ll.Tail
      <3>1. u = 0 /\ k # t
        BY <1>1, <2>3
      <3>2. \A i \in 1..l : s[i] # ll.Tail
        BY <1>4, <2>3
      <3> QED
        BY <1>2, <3>1, <3>2 DEF TailAt
    <2> QED
      BY <2>1, <2>2, <2>3 DEF TailAt
  <1> QED
    BY <1>9, <1>10 DEF g, s, l

\* The pool takes the node, or is full.
LEMMA PoolTakes ==
    ASSUME NEW q, NEW contents, NEW p, NEW m, PoolClean(q, contents, pool, p, m),
           NEW n \in Node, n # q.Tail, contents[n] = Clean, q.Next[n] = nil,
           \A i \in 1..m : p[i] # n, \A i \in 1..Len(pool) : pool[i] # n
    PROVE  /\ PoolClean(q, contents, Append(pool, n), p, m)
  <1>1. pool \in Seq(Node) /\ Len(pool) \in Nat
    BY DEF PoolClean
  <1> DEFINE a == Append(pool, n)
             l == Len(pool)
  <1>2. /\ a \in Seq(Node) /\ Len(a) = l + 1 /\ a[l + 1] = n
        /\ \A i \in 1..l : a[i] = pool[i]
    BY <1>1
  <1> HIDE DEF a, l
  <1>3. /\ l \in Nat
        /\ \A i, j \in 1..l : pool[i] = pool[j] => i = j
        /\ \A i \in 1..l : pool[i] # n
        /\ \A i \in 1..l : /\ contents[pool[i]] = Clean /\ q.Next[pool[i]] = nil
                           /\ pool[i] # q.Tail
                           /\ \A k \in 1..m : p[k] # pool[i]
    BY <1>1 DEF PoolClean, l
  <1>4. \A i \in 1..(l + 1) : i \in 1..l \/ i = l + 1
    BY <1>3
  <1>5. \A i, j \in 1..(l + 1) : a[i] = a[j] => i = j
    BY <1>2, <1>3, <1>4
  <1>6. \A i \in 1..(l + 1) : /\ contents[a[i]] = Clean /\ q.Next[a[i]] = nil
                              /\ a[i] # q.Tail
                              /\ \A k \in 1..m : p[k] # a[i]
    BY <1>2, <1>3, <1>4
  <1> QED
    BY <1>2, <1>5, <1>6 DEF PoolClean, a

\* `contents' is what was in the nodes, but for the node n.
SameBut(contents, n) ==
    /\ contents \in [Node -> Content]
    /\ \A x \in Node : x # n => contents[x] = node[x]

\* Unlinking the node at k and releasing it.
LEMMA RemovesSteps ==
    ASSUME HeapInv, NEW k \in DOMAIN Chain(ll), NEW contents, SameBut(contents, Chain(ll)[k]),
           Removes(k, contents)
    PROVE  HeapInv' /\ Queue!Unlink(k) /\ Queue!Returns(FALSE)
  <1>1. PICK m, p : /\ ListAlong(ll, node, pool, p, m)
                    /\ Chain(ll) = p /\ DOMAIN p = 1..m /\ m \in Nat
                    /\ view.msgs = [i \in 1..m |-> node[p[i]]] /\ Len(view.msgs) = m
                    /\ TailHere(p, m)
    BY HeapAlong
  <1>2. PICK t : t = view.tail
    OBVIOUS
  <1>3. k \in 1..m /\ TailAt(ll, p, m, t) /\ p \in [1..m -> Node] /\ p[k] \in Node
    BY <1>1, <1>2 DEF TailHere, ListAlong, Linked
  <1> DEFINE g == Gone(k, p)
             l == IF k = t THEN k - 1 ELSE m - 1
             s == Without(p, m, k, t)
             u == IF k <= t THEN t - 1 ELSE t
             F == [contents EXCEPT ![p[k]] = Clean]
  <1>4. /\ Returns(g, F, FALSE) /\ Amount' = Amount - 1
        /\ pool' = IF Len(pool) < Cap THEN Append(pool, p[k]) ELSE pool
    BY <1>1 DEF Removes, ReleaseObject, Gone
  <1>5. /\ Linked(g.Head, g.Next, s, l) /\ TailAt(g, s, l, u)
        /\ g \in Pointers
        /\ g.Tail = IF k # t THEN ll.Tail ELSE IF k = 1 THEN nil ELSE p[k - 1]
        /\ g.Next[p[k]] = nil
        /\ \A x \in Node : x # p[k] /\ (k # 1 => x # p[k - 1]) => g.Next[x] = ll.Next[x]
        /\ k = t <=> p[k] = ll.Tail
    <2>1. ListAlong(ll, node, pool, p, m) /\ TailAt(ll, p, m, t) /\ k \in 1..m
      BY <1>1, <1>3
    <2> QED
      BY ONLY <2>1, UnlinkedPointers, UnlinkedAlong
  <1> HIDE DEF g, u
  <1>6. /\ s = [i \in 1..l |-> IF i < k THEN p[i] ELSE p[i + 1]] /\ l \in Nat /\ l < m
        /\ k = t => l = k - 1
        /\ k # t => l = m - 1
    BY <1>1, <1>3 DEF Without
  <1> HIDE DEF s, l
  <1>7. /\ \A i, j \in 1..m : p[i] = p[j] => i = j
        /\ m # 0 => ll.Tail # nil
        /\ PoolClean(ll, node, pool, p, m)
        /\ node \in [Node -> Content]
    BY <1>1 DEF ListAlong, Linked
  <1>8. \A i \in 1..l : \E j \in 1..m : s[i] = p[j] /\ j # k /\ j = (IF i < k THEN i ELSE i + 1)
    <2> SUFFICES ASSUME NEW i \in 1..l
                 PROVE  \E j \in 1..m : s[i] = p[j] /\ j # k /\ j = (IF i < k THEN i ELSE i + 1)
      OBVIOUS
    <2>1. CASE i < k
      <3>1. i \in 1..m /\ i # k /\ s[i] = p[i]
        BY <1>1, <1>3, <1>6, <2>1
      <3> QED
        BY <2>1, <3>1
    <2>2. CASE ~(i < k)
      <3>1. i + 1 \in 1..m /\ i + 1 # k /\ s[i] = p[i + 1]
        BY <1>1, <1>3, <1>6, <2>2
      <3> QED
        BY <2>2, <3>1
    <2> QED
      BY <2>1, <2>2
  <1>9. /\ F \in [Node -> Content] /\ F[p[k]] = Clean
        /\ \A x \in Node : x # p[k] => F[x] = node[x]
    <2>1. Clean \in Content
      BY DEF Clean, Content
    <2>2. contents \in [Node -> Content] /\ \A x \in Node : x # p[k] => contents[x] = node[x]
      BY <1>1 DEF SameBut
    <2> QED
      BY <1>3, <2>1, <2>2
  <1> HIDE DEF F
  <1>10. k # 1 => k - 1 \in 1..m /\ p[k - 1] \in Node /\ p[k - 1] # p[k] /\ p[k - 1] # nil
    <2>1. k # 1 => k - 1 \in 1..m /\ k - 1 # k
      BY <1>1, <1>3
    <2> QED
      BY <1>3, <1>7, <2>1, LinkedListAssumption DEF Node, nil
  <1>11. PoolClean(g, F, pool, s, l)
    <2>1. pool \in Seq(Node)
      BY <1>7 DEF PoolClean
    <2>2. ASSUME NEW i \in 1..Len(pool)
          PROVE  /\ F[pool[i]] = Clean /\ g.Next[pool[i]] = nil
                 /\ pool[i] # g.Tail /\ \A j \in 1..l : s[j] # pool[i]
      <3>1. /\ pool[i] \in Node /\ node[pool[i]] = Clean /\ ll.Next[pool[i]] = nil
            /\ pool[i] # ll.Tail /\ \A j \in 1..m : p[j] # pool[i]
        BY <1>7, <2>1 DEF PoolClean
      <3>2. pool[i] # nil /\ pool[i] # p[k] /\ (k # 1 => pool[i] # p[k - 1])
        BY <1>3, <1>10, <3>1, LinkedListAssumption DEF Node, nil
      <3> QED
        BY <1>5, <1>8, <1>9, <3>1, <3>2
    <2> QED
      BY <1>7, <2>1, <2>2 DEF PoolClean
  <1>12. PoolClean(g, F, pool', s, l)
    <2>1. g.Tail # p[k]
      BY <1>3, <1>5, <1>10, LinkedListAssumption DEF Node, nil
    <2>2. (\A i \in 1..l : s[i] # p[k]) /\ \A i \in 1..Len(pool) : pool[i] # p[k]
      BY <1>3, <1>7, <1>8 DEF PoolClean
    <2>3. PICK n : n = p[k]
      OBVIOUS
    <2>4. /\ PoolClean(g, F, pool, s, l) /\ n \in Node /\ n # g.Tail /\ F[n] = Clean /\ g.Next[n] = nil
          /\ \A i \in 1..l : s[i] # n
          /\ \A i \in 1..Len(pool) : pool[i] # n
      BY <1>3, <1>5, <1>9, <1>11, <2>1, <2>2, <2>3
    <2>5. PoolClean(g, F, Append(pool, n), s, l)
      BY ONLY <2>4, PoolTakes
    <2> QED
      BY <1>4, <1>11, <2>3, <2>5
  <1>13. l # 0 => g.Tail # nil
    BY <1>1, <1>3, <1>5, <1>6, <1>7, <1>10
  <1>14. ListAlong(g, F, pool', s, l)
    BY <1>5, <1>9, <1>12, <1>13 DEF ListAlong
  <1>15. HeapInv' /\ (view.msgs)' = [i \in 1..l |-> F[s[i]]] /\ (view.tail)' = u
    <2>1. Returns(g, F, FALSE) /\ ListAlong(g, F, pool', s, l) /\ TailAt(g, s, l, u)
      BY <1>4, <1>5, <1>14
    <2> QED
      BY ONLY <2>1, ReturnsAlong
  <1>16. \A i \in 1..l : F[s[i]] = IF i < k THEN view.msgs[i] ELSE view.msgs[i + 1]
    <2> SUFFICES ASSUME NEW i \in 1..l PROVE F[s[i]] = IF i < k THEN view.msgs[i] ELSE view.msgs[i + 1]
      OBVIOUS
    <2>1. PICK j \in 1..m : s[i] = p[j] /\ j # k /\ j = (IF i < k THEN i ELSE i + 1)
      BY <1>8
    <2>2. F[p[j]] = node[p[j]]
      BY <1>3, <1>7, <1>9, <2>1
    <2>3. view.msgs[j] = node[p[j]]
      BY <1>1
    <2> QED
      BY <2>1, <2>2, <2>3
  <1>17. (view.msgs)' = IF k = view.tail THEN Queue!Prefix(view.msgs, k - 1)
                        ELSE Queue!RemoveAtPos(view.msgs, k)
    <2>1. CASE k = t
      <3>1. l = k - 1 /\ \A i \in 1..l : i < k
        BY <1>3, <1>6, <2>1
      <3>2. (view.msgs)' = [i \in 1..(k - 1) |-> view.msgs[i]]
        BY <1>15, <1>16, <3>1
      <3> QED
        BY <1>2, <2>1, <3>2 DEF Queue!Prefix
    <2>2. CASE k # t
      <3>1. (view.msgs)' = [i \in 1..(Len(view.msgs) - 1) |-> IF i < k THEN view.msgs[i] ELSE view.msgs[i + 1]]
        BY <1>1, <1>6, <1>15, <1>16, <2>2
      <3> QED
        BY <1>2, <2>2, <3>1 DEF Queue!RemoveAtPos
    <2> QED
      BY <2>1, <2>2
  <1>18. Queue!Unlink(k)
    BY <1>2, <1>4, <1>15, <1>17 DEF Queue!Unlink, u
  <1>19. Queue!Returns(FALSE)
    BY <1>4 DEF Returns, Queue!Returns
  <1> QED
    BY <1>15, <1>18, <1>19

\* Ack: the first message of the walk that the consumer holds.
LEMMA UnlockAndEmptyOneSteps ==
    ASSUME HeapInv, NEW c, NEW id, UnlockAndEmptyOne(c, id)
    PROVE  HeapInv' /\ Queue!UnlockAndEmptyOne(c, id)
  <1>1. PICK m, p : /\ ListAlong(ll, node, pool, p, m)
                    /\ Chain(ll) = p /\ DOMAIN p = 1..m /\ m \in Nat
                    /\ view.msgs = [i \in 1..m |-> node[p[i]]] /\ Len(view.msgs) = m
    BY HeapAlong
  <1> DEFINE mine == {k \in DOMAIN Chain(ll) : node[Chain(ll)[k]].id = id /\ node[Chain(ll)[k]].owner = c}
  <1>2. Queue!HeldBy(c, id) = mine
    BY <1>1 DEF Queue!HeldBy, Queue!Positions
  <1>3. CASE mine = {} /\ Refuses(TRUE)
    BY <1>2, <1>3, RefusesSteps DEF Queue!UnlockAndEmptyOne
  <1>4. ASSUME NEW k \in DOMAIN Chain(ll), StopsAt(k, mine), Removes(k, node), dlq' = dlq
        PROVE  HeapInv' /\ Queue!UnlockAndEmptyOne(c, id)
    <2>1. SameBut(node, Chain(ll)[k])
      BY <1>1 DEF SameBut, ListAlong
    <2>2. HeapInv' /\ Queue!Unlink(k) /\ Queue!Returns(FALSE)
      BY <1>4, <2>1, RemovesSteps
    <2>3. k \in mine /\ Queue!IsFirst(k, mine)
      BY <1>4 DEF StopsAt, Queue!IsFirst
    <2> QED
      BY <1>2, <1>4, <2>2, <2>3 DEF Queue!UnlockAndEmptyOne
  <1> QED
    BY <1>3, <1>4 DEF UnlockAndEmptyOne

\* Ack.
LEMMA UnlockAndEmptySteps ==
    ASSUME HeapInv, NEW c, NEW id, UnlockAndEmpty(c, id)
    PROVE  HeapInv' /\ Queue!UnlockAndEmpty(c, id)
  BY UnlockAndEmptyOneSteps DEF UnlockAndEmpty, Queue!UnlockAndEmpty

\* Nack: the message is free again, goes to the dead-letter queue, or the call panics.
LEMMA UnlocksSteps ==
    ASSUME HeapInv, NEW k \in DOMAIN Chain(ll), Unlocks(k, Chain(ll)[k])
    PROVE  /\ HeapInv'
           /\ \/ /\ ~Queue!Exhausted(k)
                 /\ (view.msgs)' = [view.msgs EXCEPT ![k].owner = None, ![k].fetched = @ + 1]
                 /\ Queue!Returns(FALSE)
                 /\ UNCHANGED <<view.tail, Amount, dlq>>
              \/ /\ Queue!Exhausted(k)
                 /\ Queue!HandleThresholdExpire(k)
  <1>1. PICK m, p : /\ ListAlong(ll, node, pool, p, m)
                    /\ Chain(ll) = p /\ DOMAIN p = 1..m /\ m \in Nat
                    /\ view.msgs = [i \in 1..m |-> node[p[i]]] /\ Len(view.msgs) = m
                    /\ TailHere(p, m)
    BY HeapAlong
  <1>2. /\ node \in [Node -> Content] /\ k \in 1..m /\ p \in [1..m -> Node] /\ p[k] \in Node
        /\ \A i, j \in 1..m : p[i] = p[j] => i = j
    BY <1>1 DEF ListAlong, Linked
  <1>3. PICK n \in Node : n = p[k]
    BY <1>2
  <1> DEFINE F == [node EXCEPT ![n].owner = None, ![n].fetched = @ + 1]
  <1>4. /\ F \in [Node -> Content] /\ F[n].fetched = node[n].fetched + 1
        /\ F[n] = [node[n] EXCEPT !.owner = None, !.fetched = @ + 1]
        /\ \A x \in Node : x # n => F[x] = node[x]
    <2>1. node[n] \in Content
      BY <1>2
    <2>2. F = [node EXCEPT ![n] = [node[n] EXCEPT !.owner = None, !.fetched = @ + 1]]
      BY <1>2, <2>1 DEF Content
    <2>3. [node[n] EXCEPT !.owner = None, !.fetched = @ + 1] \in Content
      <3>1. node[n].fetched + 1 \in Nat
        BY <2>1 DEF Content
      <3> HIDE DEF F
      <3> QED
        BY <2>1, <3>1 DEF Content
    <2>4. [node[n] EXCEPT !.owner = None, !.fetched = @ + 1].fetched = node[n].fetched + 1
      BY <2>1 DEF Content
    <2> HIDE DEF F
    <2> QED
      BY <1>2, <2>2, <2>3, <2>4
  <1>5. IF F[n].fetched < FetchLimit
        THEN Returns(ll, F, FALSE) /\ UNCHANGED <<pool, Amount, dlq>>
        ELSE IF DeadLetter = "nilInterface" THEN Panics
        ELSE DeadLetterEnqueue(node[n].id) /\ Removes(k, F)
    BY <1>1, <1>3 DEF Unlocks
  <1> HIDE DEF F
  <1>6. view.msgs[k] = node[n] /\ node[n].fetched \in Nat
    <2>1. view.msgs[k] = node[p[k]]
      BY <1>1, <1>2
    <2> QED
      BY <1>2, <1>3, <2>1 DEF Content
  <1>7. Queue!Exhausted(k) <=> ~(F[n].fetched < FetchLimit)
    <2>1. FetchLimit \in Nat
      BY QueueAssumed DEF MQ!QueueAssumption
    <2> QED
      BY <1>4, <1>6, <2>1 DEF Queue!Exhausted
  <1>8. CASE F[n].fetched < FetchLimit
    <2>1. Returns(ll, F, FALSE) /\ pool' = pool /\ Amount' = Amount /\ dlq' = dlq
      BY <1>5, <1>8
    <2>2. ListAlong(ll, F, pool', p, m)
      <3>1. pool \in Seq(Node) /\ \A i \in 1..Len(pool) : pool[i] # n
        BY <1>1, <1>2, <1>3 DEF ListAlong, PoolClean
      <3>2. PoolClean(ll, F, pool, p, m)
        BY <1>1, <1>4, <3>1 DEF ListAlong, PoolClean
      <3> QED
        BY <1>1, <1>4, <2>1, <3>2 DEF ListAlong
    <2>3. HeapInv' /\ (view.msgs)' = [i \in 1..m |-> F[p[i]]] /\ (view.tail)' = view.tail
      <3>1. Returns(ll, F, FALSE) /\ ListAlong(ll, F, pool', p, m) /\ TailHere(p, m)
        BY <1>1, <2>1, <2>2
      <3> QED
        BY ONLY <3>1, ReturnsContents
    <2>4. \A i \in 1..m : F[p[i]] = IF i = k THEN [node[n] EXCEPT !.owner = None, !.fetched = @ + 1]
                                     ELSE node[p[i]]
      BY <1>2, <1>3, <1>4
    <2>5. (view.msgs)' = [view.msgs EXCEPT ![k].owner = None, ![k].fetched = @ + 1]
      <3>1. PICK s : s = view.msgs
        OBVIOUS
      <3>2. s = [i \in 1..m |-> node[p[i]]] /\ s[k] = node[n] /\ node[n] \in Content
        BY <1>1, <1>2, <1>6, <3>1
      <3>3. [s EXCEPT ![k].owner = None, ![k].fetched = @ + 1]
            = [i \in 1..m |-> IF i = k THEN [node[n] EXCEPT !.owner = None, !.fetched = @ + 1] ELSE s[i]]
        BY <1>2, <3>2 DEF Content
      <3>4. \A i \in 1..m : s[i] = node[p[i]]
        BY <3>2
      <3>5. \A i \in 1..m : F[p[i]] = IF i = k THEN [node[n] EXCEPT !.owner = None, !.fetched = @ + 1] ELSE s[i]
        BY <2>4, <3>4
      <3>6. (view.msgs)' = [s EXCEPT ![k].owner = None, ![k].fetched = @ + 1]
        BY <2>3, <3>3, <3>5
      <3> QED
        BY <3>1, <3>6, Zenon
    <2>6. Queue!Returns(FALSE)
      BY <2>1 DEF Returns, Queue!Returns
    <2> QED
      BY <1>7, <1>8, <2>1, <2>3, <2>5, <2>6
  <1>9. CASE ~(F[n].fetched < FetchLimit) /\ DeadLetter = "nilInterface"
    <2>1. HeapInv' /\ Queue!Panics
      BY <1>5, <1>9, PanicsSteps
    <2> QED
      BY <1>7, <1>9, <2>1 DEF Queue!HandleThresholdExpire
  <1>10. CASE ~(F[n].fetched < FetchLimit) /\ DeadLetter # "nilInterface"
    <2>1. DeadLetterEnqueue(node[n].id) /\ Removes(k, F)
      BY <1>5, <1>10
    <2>2. SameBut(F, Chain(ll)[k])
      BY <1>1, <1>3, <1>4 DEF SameBut
    <2>3. HeapInv' /\ Queue!Unlink(k) /\ Queue!Returns(FALSE)
      BY <2>1, <2>2, RemovesSteps
    <2>4. Queue!DeadLetterEnqueue(view.msgs[k].id)
      BY <1>6, <2>1 DEF DeadLetterEnqueue, Queue!DeadLetterEnqueue
    <2> QED
      BY <1>7, <1>10, <2>3, <2>4 DEF Queue!HandleThresholdExpire
  <1> QED
    BY <1>8, <1>9, <1>10

\* Nack.
LEMMA UnlockSteps ==
    ASSUME HeapInv, NEW c, NEW id, Unlock(c, id)
    PROVE  HeapInv' /\ Queue!Unlock(c, id)
  <1>1. PICK m, p : /\ Chain(ll) = p /\ DOMAIN p = 1..m /\ m \in Nat
                    /\ view.msgs = [i \in 1..m |-> node[p[i]]] /\ Len(view.msgs) = m
    BY HeapAlong
  <1> DEFINE same == {k \in DOMAIN Chain(ll) : node[Chain(ll)[k]].id = id}
  <1>2. /\ same = {k \in Queue!Positions : view.msgs[k].id = id}
        /\ \A k \in same : k \in DOMAIN Chain(ll) /\ k \in Nat /\ view.msgs[k] = node[Chain(ll)[k]]
    BY <1>1 DEF Queue!Positions
  <1>3. \A k : StopsAt(k, same) <=> Queue!IsFirst(k, same)
    BY DEF StopsAt, Queue!IsFirst
  <1>4. \A j, k : StopsAt(j, same) /\ StopsAt(k, same) => j = k
    BY <1>2 DEF StopsAt
  <1>5. /\ status = "up"
        /\ \/ same = {} /\ Refuses(TRUE)
           \/ \E k \in DOMAIN Chain(ll) :
                /\ StopsAt(k, same)
                /\ \/ node[Chain(ll)[k]].owner # c /\ Refuses(TRUE)
                   \/ node[Chain(ll)[k]].owner = c /\ Unlocks(k, Chain(ll)[k])
    BY DEF Unlock
  <1> DEFINE Free(k) == /\ ~Queue!Exhausted(k)
                        /\ (view.msgs)' = [view.msgs EXCEPT ![k].owner = None, ![k].fetched = @ + 1]
                        /\ Queue!Returns(FALSE)
                        /\ UNCHANGED <<view.tail, Amount, dlq>>
             Expire(k) == Queue!Exhausted(k) /\ Queue!HandleThresholdExpire(k)
  <1>6. Queue!Unlock(c, id) <=>
          /\ status = "up"
          /\ \/ (\A k \in same : Queue!IsFirst(k, same) => view.msgs[k].owner # c) /\ Queue!Refuses(TRUE)
             \/ \E k \in same : Queue!IsFirst(k, same) /\ view.msgs[k].owner = c /\ (Free(k) \/ Expire(k))
    BY <1>2 DEF Queue!Unlock
  <1>7. ASSUME NEW k \in DOMAIN Chain(ll), Unlocks(k, Chain(ll)[k]) PROVE HeapInv' /\ (Free(k) \/ Expire(k))
    BY <1>7, UnlocksSteps
  <1> HIDE DEF same, Free, Expire
  <1>8. CASE same = {} /\ Refuses(TRUE)
    <2>1. HeapInv' /\ Queue!Refuses(TRUE)
      BY <1>8, RefusesSteps
    <2> QED
      BY <1>5, <1>6, <1>8, <2>1
  <1>9. ASSUME NEW k \in DOMAIN Chain(ll), StopsAt(k, same), node[Chain(ll)[k]].owner # c, Refuses(TRUE)
        PROVE  HeapInv' /\ Queue!Unlock(c, id)
    <2>1. HeapInv' /\ Queue!Refuses(TRUE)
      BY <1>9, RefusesSteps
    <2>2. \A j \in same : Queue!IsFirst(j, same) => view.msgs[j].owner # c
      BY <1>2, <1>3, <1>4, <1>9
    <2> QED
      BY <1>5, <1>6, <2>1, <2>2
  <1>10. ASSUME NEW k \in DOMAIN Chain(ll), StopsAt(k, same), node[Chain(ll)[k]].owner = c,
                Unlocks(k, Chain(ll)[k])
         PROVE  HeapInv' /\ Queue!Unlock(c, id)
    <2>1. HeapInv' /\ (Free(k) \/ Expire(k))
      BY <1>7, <1>10
    <2>2. k \in same /\ Queue!IsFirst(k, same)
      BY <1>3, <1>10 DEF StopsAt
    <2>3. view.msgs[k].owner = c
      BY <1>2, <1>10, <2>2
    <2> QED
      BY <1>5, <1>6, <2>1, <2>2, <2>3
  <1> QED
    BY <1>5, <1>8, <1>9, <1>10

-----------------------------------------------------------------------------
(* Positions of the chain in order *)

\* f lists the l positions of K in order.
Lists(f, l, K) ==
    /\ l \in Nat /\ f \in [1..l -> K] /\ K \subseteq Nat
    /\ \A a, b \in 1..l : a < b => f[a] < f[b]
    /\ \A k \in K : \E a \in 1..l : f[a] = k

\* One more position, behind the others.
LEMMA ListsMore ==
    ASSUME NEW f, NEW l, NEW K, Lists(f, l, K), NEW j \in Nat, \A k \in K : k < j
    PROVE  Lists([a \in 1..(l + 1) |-> IF a <= l THEN f[a] ELSE j], l + 1, K \cup {j})
  <1> DEFINE h == [a \in 1..(l + 1) |-> IF a <= l THEN f[a] ELSE j]
  <1>1. l \in Nat /\ f \in [1..l -> K] /\ K \subseteq Nat
    BY DEF Lists
  <1>2. (\A a \in 1..l : a \in 1..(l + 1) /\ h[a] = f[a]) /\ l + 1 \in 1..(l + 1) /\ h[l + 1] = j
    BY <1>1
  <1>3. \A a \in 1..(l + 1) : a \in 1..l \/ a = l + 1
    BY <1>1
  <1>4. h \in [1..(l + 1) -> K \cup {j}]
    <2>1. \A a \in 1..(l + 1) : h[a] \in K \cup {j}
      BY <1>1, <1>2, <1>3
    <2>2. h = [a \in 1..(l + 1) |-> h[a]]
      OBVIOUS
    <2> HIDE DEF h
    <2> QED
      BY <2>1, <2>2
  <1> HIDE DEF h
  <1>5. ASSUME NEW a \in 1..(l + 1), NEW b \in 1..(l + 1), a < b PROVE h[a] < h[b]
    <2>1. a \in 1..l
      BY <1>1, <1>5
    <2>2. CASE b \in 1..l
      BY <1>2, <1>5, <2>1, <2>2 DEF Lists
    <2>3. CASE b = l + 1
      BY <1>1, <1>2, <2>1, <2>3
    <2> QED
      BY <1>3, <2>2, <2>3
  <1>6. \A k \in K \cup {j} : \E a \in 1..(l + 1) : h[a] = k
    <2> SUFFICES ASSUME NEW k \in K \cup {j} PROVE \E a \in 1..(l + 1) : h[a] = k
      OBVIOUS
    <2>1. CASE k \in K
      <3>1. PICK a \in 1..l : f[a] = k
        BY <2>1 DEF Lists
      <3> QED
        BY <1>2, <3>1
    <2>2. CASE k = j
      BY <1>2, <2>2
    <2> QED
      BY <2>1, <2>2
  <1>7. l + 1 \in Nat /\ K \cup {j} \subseteq Nat
    BY <1>1
  <1> QED
    BY <1>4, <1>5, <1>6, <1>7 DEF Lists, h

\* Every set of positions can be listed.
LEMMA ListsExist ==
    ASSUME NEW m \in Nat, NEW K \in SUBSET (1..m)
    PROVE  \E l, f : Lists(f, l, K)
  <1> DEFINE Some(k) == \E l, f : Lists(f, l, K \cap (1..k))
             P == {k \in Nat : Some(k)}
  <1>1. Some(0)
    <2> DEFINE f == [a \in 1..0 |-> 0]
    <2>1. Lists(f, 0, {})
      <3>1. 1..0 = {}
        OBVIOUS
      <3> QED
        BY <3>1 DEF Lists
    <2>2. K \cap (1..0) = {}
      OBVIOUS
    <2> HIDE DEF f
    <2> QED
      BY <2>1, <2>2
  <1>2. ASSUME NEW k \in Nat, Some(k) PROVE Some(k + 1)
    <2>1. PICK l, f : Lists(f, l, K \cap (1..k))
      BY <1>2
    <2>2. CASE k + 1 \notin K
      <3>1. K \cap (1..(k + 1)) = K \cap (1..k)
        BY <2>2
      <3> QED
        BY <2>1, <3>1
    <2>3. CASE k + 1 \in K
      <3> DEFINE S == K \cap (1..k)
      <3>1. K \cap (1..(k + 1)) = S \cup {k + 1}
        BY <2>3
      <3>2. PICK j \in Nat : j = k + 1
        OBVIOUS
      <3>3. \A i \in S : i < j
        BY <3>2
      <3>4. Lists(f, l, S)
        BY <2>1
      <3> HIDE DEF S
      <3>5. \E h : Lists(h, l + 1, S \cup {j})
        BY <3>3, <3>4, ListsMore
      <3> QED
        BY <3>1, <3>2, <3>5
    <2> QED
      BY <2>2, <2>3
  <1> HIDE DEF Some
  <1>3. Nat \subseteq P
    <2>1. 0 \in P /\ \A k \in Nat : k \in P => k + 1 \in P
      BY <1>1, <1>2
    <2> HIDE DEF P
    <2> QED
      BY <2>1, Induction
  <1>4. Some(m)
    BY <1>3
  <1>5. K \cap (1..m) = K
    OBVIOUS
  <1> QED
    BY <1>4, <1>5 DEF Some

\* A list of the positions of K is as long as K is large, and so are its beginnings.
LEMMA ListsCount ==
    ASSUME NEW f, NEW l, NEW K, Lists(f, l, K)
    PROVE  /\ IsFiniteSet(K) /\ Cardinality(K) = l
           /\ \A a \in 1..l : Cardinality({k \in K : k <= f[a]}) = a
  <1>1. l \in Nat /\ f \in [1..l -> K] /\ K \subseteq Nat
    BY DEF Lists
  <1>2. \A a, b \in 1..l : a < b => f[a] < f[b]
    BY DEF Lists
  <1>3. \A k \in K : \E a \in 1..l : f[a] = k
    BY DEF Lists
  <1>4. \A a, b \in 1..l : f[a] = f[b] => a = b
    <2> SUFFICES ASSUME NEW a \in 1..l, NEW b \in 1..l, a # b PROVE f[a] # f[b]
      OBVIOUS
    <2>1. f[a] \in Nat /\ f[b] \in Nat
      BY <1>1
    <2>2. a < b \/ b < a
      OBVIOUS
    <2> QED
      BY <1>2, <2>1, <2>2
  <1>5. ASSUME NEW n \in 0..l, NEW S, S = {f[a] : a \in 1..n}
        PROVE  IsFiniteSet(S) /\ Cardinality(S) = n
    <2> DEFINE h == [a \in 1..n |-> f[a]]
    <2>1. n \in Nat /\ \A a \in 1..n : a \in 1..l
      BY <1>1
    <2>2. IsFiniteSet(1..n) /\ Cardinality(1..n) = n
      BY <2>1, IntervalSize
    <2>3. h \in [1..n -> S] /\ (\A a, b \in 1..n : h[a] = h[b] => a = b) /\ \A s \in S : \E a \in 1..n : h[a] = s
      BY <1>4, <1>5, <2>1
    <2> HIDE DEF h
    <2>4. h \in Bijection(1..n, S)
      BY <2>3 DEF Bijection, Injection, Surjection, IsInjective
    <2>5. ExistsBijection(1..n, S)
      BY <2>4 DEF ExistsBijection
    <2> QED
      BY <2>2, <2>5, FS_Bijection
  <1>6. IsFiniteSet(K) /\ Cardinality(K) = l
    <2>1. \A a \in 1..l : f[a] \in K
      BY <1>1
    <2>2. K = {f[a] : a \in 1..l}
      BY <1>3, <2>1
    <2>3. l \in 0..l
      BY <1>1
    <2> QED
      BY <1>5, <2>2, <2>3
  <1>7. ASSUME NEW a \in 1..l PROVE Cardinality({k \in K : k <= f[a]}) = a
    <2>1. a \in 0..l /\ \A b \in 1..a : b \in 1..l
      BY <1>1
    <2>2. \A b \in 1..l : f[b] <= f[a] <=> b <= a
      <3> SUFFICES ASSUME NEW b \in 1..l PROVE f[b] <= f[a] <=> b <= a
        OBVIOUS
      <3>1. f[a] \in Nat /\ f[b] \in Nat
        BY <1>1
      <3>2. (b < a /\ f[b] < f[a]) \/ b = a \/ (a < b /\ f[a] < f[b])
        BY <1>2
      <3> QED
        BY <3>1, <3>2
    <2>3. {k \in K : k <= f[a]} = {f[b] : b \in 1..a}
      <3>1. ASSUME NEW k \in K, k <= f[a] PROVE k \in {f[b] : b \in 1..a}
        <4>1. PICK b \in 1..l : f[b] = k
          BY <1>3
        <4>2. b \in 1..a
          BY <2>2, <3>1, <4>1
        <4> QED
          BY <4>1, <4>2
      <3>2. ASSUME NEW b \in 1..a PROVE f[b] \in K /\ f[b] <= f[a]
        BY <1>1, <2>1, <2>2
      <3> QED
        BY <3>1, <3>2
    <2> QED
      BY <1>5, <2>1, <2>3
  <1> QED
    BY <1>6, <1>7

\* Neighbours in the list are neighbours in K.
LEMMA ListsNeighbours ==
    ASSUME NEW f, NEW l, NEW K, Lists(f, l, K)
    PROVE  /\ \A a \in 1..l : f[a] \in K
           /\ l = 0 <=> K = {}
           /\ l # 0 => \A k \in K : f[1] <= k
           /\ l # 0 => \A k \in K : k <= f[l]
           /\ \A a \in 1..l : a # l => f[a] < f[a + 1] /\ \A k \in K : k <= f[a] \/ f[a + 1] <= k
           /\ \A a, b \in 1..l : f[a] = f[b] => a = b
  <1>1. l \in Nat /\ f \in [1..l -> K] /\ K \subseteq Nat
    BY DEF Lists
  <1>2. \A a, b \in 1..l : (a < b <=> f[a] < f[b]) /\ (a = b <=> f[a] = f[b])
    <2> SUFFICES ASSUME NEW a \in 1..l, NEW b \in 1..l
                 PROVE (a < b <=> f[a] < f[b]) /\ (a = b <=> f[a] = f[b])
      OBVIOUS
    <2>1. f[a] \in Nat /\ f[b] \in Nat
      BY <1>1
    <2>2. (a < b /\ f[a] < f[b]) \/ (b < a /\ f[b] < f[a]) \/ a = b
      BY DEF Lists
    <2> QED
      BY <2>1, <2>2
  <1>3. \A k \in K : \E a \in 1..l : f[a] = k
    BY DEF Lists
  <1>4. l = 0 <=> K = {}
    <2>1. l # 0 => 1 \in 1..l
      BY <1>1
    <2>2. l = 0 => 1..l = {}
      BY <1>1
    <2> QED
      BY <1>1, <1>3, <2>1, <2>2
  <1>5. ASSUME l # 0, NEW k \in K PROVE f[1] <= k /\ k <= f[l]
    <2>1. PICK a \in 1..l : f[a] = k
      BY <1>3
    <2>2. 1 \in 1..l /\ l \in 1..l /\ f[1] \in Nat /\ f[l] \in Nat /\ k \in Nat
      <3>1. 1 \in 1..l /\ l \in 1..l
        BY <1>1, <1>5
      <3>2. f[1] \in K /\ f[l] \in K
        BY <1>1, <3>1
      <3> QED
        BY <1>1, <3>1, <3>2
    <2>3. ~(a < 1) /\ ~(l < a)
      BY <1>1
    <2>4. ~(k < f[1]) /\ ~(f[l] < k)
      BY <1>2, <2>1, <2>2, <2>3
    <2> QED
      BY <2>2, <2>4
  <1>6. ASSUME NEW a \in 1..l, a # l
        PROVE  f[a] < f[a + 1] /\ \A k \in K : k <= f[a] \/ f[a + 1] <= k
    <2>1. a + 1 \in 1..l /\ a < a + 1
      BY <1>1, <1>6
    <2>2. ASSUME NEW k \in K PROVE k <= f[a] \/ f[a + 1] <= k
      <3>1. PICK b \in 1..l : f[b] = k
        BY <1>3
      <3>2. b < a \/ b = a \/ b = a + 1 \/ a + 1 < b
        OBVIOUS
      <3>3. f[a] \in Nat /\ f[a + 1] \in Nat /\ k \in Nat
        BY <1>1, <2>1
      <3> QED
        BY <1>2, <2>1, <3>1, <3>2, <3>3
    <2> QED
      BY <1>2, <2>1, <2>2
  <1> QED
    BY <1>1, <1>2, <1>4, <1>5, <1>6

\* What MessageQueue calls an enumeration in order.
LEMMA ListsInOrder ==
    ASSUME NEW f, NEW l, NEW K, Lists(f, l, K)
    PROVE  f \in Queue!InOrder(K) /\ Queue!Cardinality(K) = l
  <1>1. Queue!Cardinality(K) = l
    BY ListsCount, SameCardinality
  <1> QED
    BY <1>1 DEF Queue!InOrder, Lists

\* Of the nodes of p, those at the positions K are chained in order.
ChainedAt(head, next, p, K) ==
    /\ K = {} => head = nil
    /\ \A k \in K : (\A i \in K : k <= i) => head = p[k]
    /\ \A k \in K : (\A i \in K : i <= k) => next[p[k]] = nil
    /\ \A k, i \in K : k < i /\ (\A b \in K : b <= k \/ i <= b) => next[p[k]] = p[i]

\* Nodes that are chained in order are a list.
LEMMA ChainedLinked ==
    ASSUME NEW m \in Nat, NEW p \in [1..m -> Node], \A i, j \in 1..m : p[i] = p[j] => i = j,
           NEW K \in SUBSET (1..m), NEW head, NEW next, ChainedAt(head, next, p, K),
           NEW f, NEW l, Lists(f, l, K)
    PROVE  Linked(head, next, [a \in 1..l |-> p[f[a]]], l)
  <1> DEFINE s == [a \in 1..l |-> p[f[a]]]
  <1>1. l \in Nat
    BY DEF Lists
  <1>2. /\ \A a \in 1..l : f[a] \in K
        /\ l = 0 <=> K = {}
        /\ l # 0 => \A k \in K : f[1] <= k
        /\ l # 0 => \A k \in K : k <= f[l]
        /\ \A a \in 1..l : a # l => f[a] < f[a + 1] /\ \A k \in K : k <= f[a] \/ f[a + 1] <= k
        /\ \A a, b \in 1..l : f[a] = f[b] => a = b
    BY ListsNeighbours
  <1>3. s \in [1..l -> Node] /\ \A a, b \in 1..l : s[a] = s[b] => a = b
    BY <1>2
  <1>4. head = IF l = 0 THEN nil ELSE s[1]
    <2>1. l # 0 => 1 \in 1..l
      BY <1>1
    <2> QED
      BY <1>2, <2>1 DEF ChainedAt
  <1>5. ASSUME NEW a \in 1..l PROVE next[s[a]] = IF a = l THEN nil ELSE s[a + 1]
    <2>1. CASE a = l
      BY <1>1, <1>2, <2>1 DEF ChainedAt
    <2>2. CASE a # l
      <3>1. a + 1 \in 1..l /\ f[a] \in K /\ f[a + 1] \in K
        BY <1>1, <1>2, <2>2
      <3>2. next[p[f[a]]] = p[f[a + 1]]
        BY <1>2, <2>2, <3>1 DEF ChainedAt
      <3> QED
        BY <2>2, <3>1, <3>2
    <2> QED
      BY <2>1, <2>2
  <1> HIDE DEF s
  <1>6. Linked(head, next, s, l)
    BY <1>1, <1>3, <1>4, <1>5 DEF Linked
  <1> QED
    BY <1>6 DEF s

\* x is the last of the nodes of p at the positions K, nil if there are none.
LastAt(x, p, K) ==
    \/ K = {} /\ x = nil
    \/ \E k \in K : x = p[k] /\ \A i \in K : i <= k

\* A walk along the chain of the nodes at K is at j, with prev behind it.
ChainStopped(m, p, K, head, next, j, prev) ==
    /\ m \in Nat /\ p \in [1..m -> Node] /\ (\A i, k \in 1..m : p[i] = p[k] => i = k)
    /\ K \in SUBSET (1..m) /\ next \in [Node -> Node \cup {nil}]
    /\ ChainedAt(head, next, p, K) /\ j \in K /\ LastAt(prev, p, {k \in K : k < j})

\* Taking the node at j off a chain: its predecessor, or the head, points to its successor.
LEMMA ChainedSkip ==
    ASSUME NEW m, NEW p, NEW K, NEW head, NEW next, NEW j, NEW prev,
           ChainStopped(m, p, K, head, next, j, prev)
    PROVE  ChainedAt(IF prev = nil THEN next[p[j]] ELSE head,
                     IF prev = nil THEN next ELSE [next EXCEPT ![prev] = next[p[j]]], p, K \ {j})
  <1> DEFINE L == K \ {j}
             nx == next[p[j]]
             before == {k \in K : k < j}
             after == {k \in K : j < k}
  <1>0. /\ m \in Nat /\ p \in [1..m -> Node] /\ (\A i, k \in 1..m : p[i] = p[k] => i = k)
        /\ K \in SUBSET (1..m) /\ next \in [Node -> Node \cup {nil}]
        /\ ChainedAt(head, next, p, K) /\ j \in K /\ LastAt(prev, p, before)
    BY DEF ChainStopped
  <1> USE <1>0
  <1>1. /\ \A k \in K : k \in Nat /\ p[k] \in Node /\ p[k] # nil
        /\ \A k, i \in K : p[k] = p[i] => k = i
    BY LinkedListAssumption DEF Node, nil
  <1>2. \A k \in K : k \in before \/ k = j \/ k \in after
    BY <1>1
  <1>3. CASE after = {}
    <2>1. nx = nil
      BY <1>1, <1>2, <1>3 DEF ChainedAt
    <2>2. CASE before = {}
      <3>1. L = {} /\ prev = nil
        BY <1>1, <1>2, <1>3, <2>2 DEF LastAt
      <3> QED
        BY <2>1, <3>1 DEF ChainedAt
    <2>3. CASE before # {}
      <3>1. PICK k0 \in before : prev = p[k0] /\ \A i \in before : i <= k0
        BY <2>3 DEF LastAt
      <3> DEFINE nn == [next EXCEPT ![prev] = nx]
      <3>2. prev # nil /\ prev \in Node /\ k0 \in L /\ k0 \in K
        BY <1>1, <3>1
      <3>3. L = before
        BY <1>1, <1>2, <1>3
      <3>4. nn[prev] = nil /\ \A k \in L : k # k0 => nn[p[k]] = next[p[k]]
        BY <1>1, <2>1, <3>1, <3>2
      <3>5. ASSUME NEW k \in L, \A i \in L : k <= i PROVE head = p[k]
        <4>1. k \in K /\ \A i \in K : k <= i
          BY <1>1, <1>2, <1>3, <3>3, <3>5
        <4> QED
          BY <4>1 DEF ChainedAt
      <3>6. ASSUME NEW k \in L, \A i \in L : i <= k PROVE nn[p[k]] = nil
        <4>1. k = k0
          BY <1>1, <3>1, <3>2, <3>3, <3>6
        <4> QED
          BY <3>1, <3>4, <4>1
      <3>7. ASSUME NEW k \in L, NEW i \in L, k < i, \A b \in L : b <= k \/ i <= b
            PROVE  nn[p[k]] = p[i]
        <4>1. k # k0
          BY <1>1, <3>1, <3>3, <3>7
        <4>2. \A b \in K : b <= k \/ i <= b
          <5> SUFFICES ASSUME NEW b \in K PROVE b <= k \/ i <= b
            OBVIOUS
          <5>1. b \in L \/ b = j
            BY <1>2
          <5>2. i < j
            BY <3>3, <3>7
          <5> QED
            BY <1>1, <3>7, <5>1, <5>2
        <4> QED
          BY <3>4, <3>7, <4>1, <4>2 DEF ChainedAt
      <3> HIDE DEF nn, L
      <3>8. ChainedAt(head, nn, p, L)
        BY <3>2, <3>5, <3>6, <3>7 DEF ChainedAt
      <3> QED
        BY <3>2, <3>8 DEF nn, L
    <2> QED
      BY <2>2, <2>3
  <1>4. CASE after # {}
    <2>1. PICK s \in after : \A i \in after : s <= i
      <3>1. after \subseteq Nat
        BY <1>1
      <3> HIDE DEF after
      <3> QED
        BY <1>4, <3>1, LeastExists
    <2>2. s \in L /\ s \in K /\ j < s /\ s \in Nat
      BY <1>1, <2>1
    <2>3. nx = p[s]
      <3>1. \A b \in K : b <= j \/ s <= b
        BY <1>1, <1>2, <2>1
      <3> QED
        BY <2>2, <3>1 DEF ChainedAt
    <2>4. CASE before = {}
      <3>1. prev = nil /\ \A k \in K : j <= k
        BY <1>1, <1>2, <2>4 DEF LastAt
      <3>2. ASSUME NEW k \in L, \A i \in L : k <= i PROVE nx = p[k]
        <4>1. k = s
          BY <1>1, <1>2, <2>1, <2>2, <2>4, <3>2
        <4> QED
          BY <2>3, <4>1
      <3>3. ASSUME NEW k \in L, \A i \in L : i <= k PROVE next[p[k]] = nil
        <4>1. \A i \in K : i <= k
          BY <1>1, <3>1, <3>3
        <4> QED
          BY <3>3, <4>1 DEF ChainedAt
      <3>4. ASSUME NEW k \in L, NEW i \in L, k < i, \A b \in L : b <= k \/ i <= b
            PROVE  next[p[k]] = p[i]
        <4>1. \A b \in K : b <= k \/ i <= b
          BY <1>1, <3>1, <3>4
        <4> QED
          BY <3>4, <4>1 DEF ChainedAt
      <3> HIDE DEF L
      <3>5. ChainedAt(nx, next, p, L)
        BY <2>2, <3>2, <3>3, <3>4 DEF ChainedAt
      <3> QED
        BY <3>1, <3>5 DEF L
    <2>5. CASE before # {}
      <3>1. PICK k0 \in before : prev = p[k0] /\ \A i \in before : i <= k0
        BY <2>5 DEF LastAt
      <3> DEFINE nn == [next EXCEPT ![prev] = nx]
      <3>2. prev # nil /\ prev \in Node /\ k0 \in L /\ k0 \in K /\ k0 < j /\ k0 \in Nat
        BY <1>1, <3>1
      <3>4. nn[prev] = p[s] /\ \A k \in L : k # k0 => nn[p[k]] = next[p[k]]
        BY <1>1, <2>3, <3>1, <3>2
      <3>5. ASSUME NEW k \in L, \A i \in L : k <= i PROVE head = p[k]
        <4>1. k \in K /\ k <= k0
          BY <3>2, <3>5
        <4>2. \A i \in K : k <= i
          BY <1>1, <3>2, <3>5, <4>1
        <4> QED
          BY <4>1, <4>2 DEF ChainedAt
      <3>6. ASSUME NEW k \in L, \A i \in L : i <= k PROVE nn[p[k]] = nil
        <4>1. k \in K /\ s <= k /\ k # k0
          BY <1>1, <2>2, <3>2, <3>6
        <4>2. \A i \in K : i <= k
          BY <1>1, <2>2, <3>6, <4>1
        <4>3. next[p[k]] = nil
          BY <4>1, <4>2 DEF ChainedAt
        <4> QED
          BY <3>4, <4>1, <4>3
      <3>7. ASSUME NEW k \in L, NEW i \in L, k < i, \A b \in L : b <= k \/ i <= b
            PROVE  nn[p[k]] = p[i]
        <4>0. k \in Nat /\ i \in Nat /\ k \in K /\ i \in K /\ k # j /\ i # j
          BY <1>1
        <4>1. CASE k = k0
          <5>1. i <= s
            BY <2>2, <3>2, <3>7, <4>0, <4>1
          <5>2. ~(i < j)
            BY <3>1, <3>2, <3>7, <4>0, <4>1
          <5>3. i \in after
            BY <1>1, <4>0, <5>2
          <5>4. i = s
            BY <1>1, <2>1, <5>1, <5>3
          <5> QED
            BY <3>1, <3>4, <4>1, <5>4
        <4>2. CASE k # k0
          <5>1. \A b \in K : b <= k \/ i <= b
            <6>1. j <= k \/ i <= j
              <7>1. k0 <= k \/ i <= k0
                BY <3>2, <3>7
              <7>2. k < j => k <= k0
                BY <3>1, <4>0
              <7> QED
                BY <1>1, <3>2, <4>0, <4>2, <7>1, <7>2
            <6> QED
              BY <3>7, <6>1
          <5>2. next[p[k]] = p[i]
            BY <3>7, <4>0, <5>1 DEF ChainedAt
          <5> QED
            BY <3>4, <4>2, <5>2
        <4> QED
          BY <4>1, <4>2
      <3> HIDE DEF nn, L
      <3>8. ChainedAt(head, nn, p, L)
        BY <3>2, <3>5, <3>6, <3>7 DEF ChainedAt
      <3> QED
        BY <3>2, <3>8 DEF nn, L
    <2> QED
      BY <2>4, <2>5
  <1> QED
    BY <1>3, <1>4

\* The head of a chain is the node that has none before it.
LEMMA ChainedHead ==
    ASSUME NEW m, NEW p, NEW K, NEW head, NEW next, NEW j, NEW prev,
           ChainStopped(m, p, K, head, next, j, prev)
    PROVE  head = p[j] <=> prev = nil
  <1> DEFINE before == {k \in K : k < j}
  <1>0. /\ m \in Nat /\ p \in [1..m -> Node] /\ (\A i, k \in 1..m : p[i] = p[k] => i = k)
        /\ K \in SUBSET (1..m) /\ ChainedAt(head, next, p, K) /\ j \in K /\ LastAt(prev, p, before)
    BY DEF ChainStopped
  <1> USE <1>0
  <1>1. /\ \A k \in K : k \in Nat /\ p[k] \in Node /\ p[k] # nil
        /\ \A k, i \in K : p[k] = p[i] => k = i
    BY LinkedListAssumption DEF Node, nil
  <1>2. CASE before = {}
    <2>1. prev = nil /\ \A k \in K : j <= k
      BY <1>1, <1>2 DEF LastAt
    <2> QED
      BY <2>1 DEF ChainedAt
  <1>3. CASE before # {}
    <2>1. prev # nil
      BY <1>1, <1>3 DEF LastAt
    <2>2. PICK k1 \in before : \A i \in before : k1 <= i
      <3>1. before \subseteq Nat
        BY <1>1
      <3> HIDE DEF before
      <3> QED
        BY <1>3, <3>1, LeastExists
    <2>3. k1 \in K /\ head = p[k1] /\ k1 # j
      <3>1. \A i \in K : k1 <= i
        BY <1>1, <2>2
      <3> QED
        BY <1>1, <2>2, <3>1 DEF ChainedAt
    <2> QED
      BY <1>1, <2>1, <2>3
  <1> QED
    BY <1>2, <1>3

\* Ending a chain before the node at j.
LEMMA ChainedCut ==
    ASSUME NEW m, NEW p, NEW K, NEW head, NEW next, NEW j, NEW prev,
           ChainStopped(m, p, K, head, next, j, prev),
           NEW before, before = {k \in K : k < j},
           NEW head2, head2 = IF prev = nil THEN nil ELSE head,
           NEW next2, next2 = IF prev = nil THEN next ELSE [next EXCEPT ![prev] = nil]
    PROVE  ChainedAt(head2, next2, p, before)
  <1>0. /\ m \in Nat /\ p \in [1..m -> Node] /\ (\A i, k \in 1..m : p[i] = p[k] => i = k)
        /\ K \in SUBSET (1..m) /\ next \in [Node -> Node \cup {nil}]
        /\ ChainedAt(head, next, p, K) /\ j \in K /\ LastAt(prev, p, before)
    BY DEF ChainStopped
  <1> USE <1>0
  <1>1. /\ \A k \in K : k \in Nat /\ p[k] \in Node /\ p[k] # nil
        /\ \A k, i \in K : p[k] = p[i] => k = i
    BY LinkedListAssumption DEF Node, nil
  <1>2. CASE before = {}
    <2>1. prev = nil /\ \A k \in K : j <= k
      BY <1>1, <1>2 DEF LastAt
    <2>2. ChainedAt(nil, next, p, before)
      BY <1>2 DEF ChainedAt
    <2> QED
      BY <2>1, <2>2
  <1>3. CASE before # {}
    <2>1. PICK k0 \in before : prev = p[k0] /\ \A i \in before : i <= k0
      BY <1>3 DEF LastAt
    <2>2. prev # nil /\ prev \in Node /\ k0 \in K /\ k0 < j /\ k0 \in Nat
      BY <1>1, <2>1
    <2> DEFINE nn == [next EXCEPT ![prev] = nil]
    <2>3. nn[prev] = nil /\ \A k \in before : k # k0 => nn[p[k]] = next[p[k]]
      BY <1>1, <2>1, <2>2
    <2>4. PICK k1 \in before : \A i \in before : k1 <= i
      <3>1. before \subseteq Nat
        BY <1>1
      <3> QED
        BY <1>3, <3>1, LeastExists
    <2>5. head = p[k1]
      <3>1. \A i \in K : k1 <= i
        BY <1>1, <2>4
      <3> QED
        BY <1>1, <2>4, <3>1 DEF ChainedAt
    <2>7. ASSUME NEW k \in before, \A i \in before : k <= i PROVE head = p[k]
      <3>1. k = k1
        BY <1>1, <2>4, <2>7
      <3> QED
        BY <2>5, <3>1
    <2>8. ASSUME NEW k \in before, \A i \in before : i <= k PROVE nn[p[k]] = nil
      <3>1. k = k0
        BY <1>1, <2>1, <2>8
      <3> QED
        BY <2>1, <2>3, <3>1
    <2>9. ASSUME NEW k \in before, NEW i \in before, k < i, \A b \in before : b <= k \/ i <= b
          PROVE  nn[p[k]] = p[i]
      <3>1. k # k0
        BY <1>1, <2>1, <2>9
      <3>2. \A b \in K : b <= k \/ i <= b
        BY <1>1, <2>9
      <3>3. next[p[k]] = p[i]
        BY <2>9, <3>2 DEF ChainedAt
      <3> QED
        BY <2>3, <3>1, <3>3
    <2>10. before # {}
      BY <1>3
    <2> HIDE DEF nn
    <2>11. ChainedAt(head, nn, p, before)
      BY <2>7, <2>8, <2>9, <2>10 DEF ChainedAt
    <2> QED
      BY <2>2, <2>11 DEF nn
  <1> QED
    BY <1>2, <1>3

-----------------------------------------------------------------------------
(* The walk of a batch acknowledgement *)

\* The states of the walk.
Walks == [q : Pointers, prev : Node \cup {nil}, cur : Node \cup {nil}, took : Seq(Node), done : BOOLEAN]

\* Updates of the pointers
LEMMA PointerUpdates ==
    ASSUME NEW h, NEW t, NEW next, NEW q, q = [Head |-> h, Tail |-> t, Next |-> next], NEW x, NEW y, NEW r
    PROVE  /\ r = [q EXCEPT !.Head = x, !.Tail = y] => r = [Head |-> x, Tail |-> y, Next |-> next]
           /\ r = [q EXCEPT !.Tail = x, !.Next[x] = y] =>
                r = [Head |-> h, Tail |-> x, Next |-> [next EXCEPT ![x] = y]]
  <1>1. r = [q EXCEPT !.Head = x, !.Tail = y] => r = [Head |-> x, Tail |-> y, Next |-> next]
    OBVIOUS
  <1>2. r = [q EXCEPT !.Tail = x, !.Next[x] = y] =>
          r = [Head |-> h, Tail |-> x, Next |-> [next EXCEPT ![x] = y]]
    OBVIOUS
  <1> QED
    BY <1>1, <1>2

\* A round leads to a state of the walk.
LEMMA RoundType ==
    ASSUME NEW w \in Walks, NEW c, NEW ids
    PROVE  Round(w, c, ids) \in Walks
  <1> DEFINE q == w.q
             next == q.Next[w.cur]
             cut == IF q.Head = q.Tail THEN [q EXCEPT !.Head = nil, !.Tail = nil]
                    ELSE [q EXCEPT !.Tail = w.prev, !.Next[w.prev] = nil]
             skip == IF w.prev = nil THEN [q EXCEPT !.Head = next] ELSE [q EXCEPT !.Next[w.prev] = next]
  <1>1. /\ q \in Pointers /\ w.prev \in Node \cup {nil} /\ w.cur \in Node \cup {nil}
        /\ w.took \in Seq(Node) /\ w.done \in BOOLEAN
    BY DEF Walks
  <1>2. CASE w.done \/ w.cur = nil \/ Len(w.took) >= Len(ids)
    BY <1>2 DEF Round
  <1>3. CASE ~(w.done \/ w.cur = nil \/ Len(w.took) >= Len(ids))
    <2>1. w.cur \in Node /\ next \in Node \cup {nil} /\ Append(w.took, w.cur) \in Seq(Node)
      BY <1>1, <1>3 DEF Pointers
    <2>2. cut \in Pointers
      BY <1>1 DEF Pointers
    <2>3. skip \in Pointers
      <3>1. CASE w.prev = nil
        BY <1>1, <2>1, <3>1 DEF Pointers
      <3>2. CASE w.prev # nil
        <4>1. [q.Next EXCEPT ![w.prev] = next] \in [Node -> Node \cup {nil}]
          BY <1>1, <2>1 DEF Pointers
        <4> QED
          BY <1>1, <3>2, <4>1 DEF Pointers
      <3> QED
        BY <3>1, <3>2
    <2>4. Round(w, c, ids) =
            IF ~Mine(w.cur, c, ids) THEN [w EXCEPT !.prev = w.cur, !.cur = next]
            ELSE IF w.cur = q.Tail
            THEN [w EXCEPT !.took = Append(@, w.cur), !.done = TRUE, !.q = cut]
            ELSE [w EXCEPT !.took = Append(@, w.cur), !.cur = next, !.q = skip]
      BY <1>3 DEF Round
    <2> HIDE DEF q, next, cut, skip
    <2> QED
      BY <1>1, <2>1, <2>2, <2>3, <2>4 DEF Walks
  <1> QED
    BY <1>2, <1>3

\* The nodes taken are those at the positions T, in order.
Took(took, p, T) ==
    /\ took \in Seq(Node)
    /\ \E g : Lists(g, Len(took), T) /\ \A b \in 1..Len(took) : took[b] = p[g[b]]

\* Only nodes at the positions K may have another successor than they had.
Untouched(q, p, K) == \A x \in Node : (\A k \in K : p[k] # x) => q.Next[x] = ll.Next[x]

\* The walk is at position j: it has taken the caller's nodes before j.
Walking(w, j, p, m, M, t, n) ==
    /\ w \in Walks /\ w.done = FALSE /\ j \in 1..(m + 1) /\ w.q.Tail = ll.Tail
    /\ w.cur = IF j <= m THEN p[j] ELSE nil
    /\ LastAt(w.prev, p, (1..(j - 1)) \ M)
    /\ ChainedAt(w.q.Head, w.q.Next, p, (1..m) \ (M \cap (1..(j - 1))))
    /\ Took(w.took, p, M \cap (1..(j - 1))) /\ Len(w.took) <= n
    /\ Untouched(w.q, p, (1..(j - 1)) \ M)
    /\ t \in M /\ t < j => t = 1
    /\ 1 \in M => j # 1

\* The walk has ended by taking Tail, at t.
TailTaken(w, p, m, M, t, n) ==
    /\ w \in Walks /\ w.done = TRUE /\ t \in M \ {1}
    /\ w.cur = p[t]
    /\ LastAt(w.q.Tail, p, (1..(t - 1)) \ M)
    /\ ChainedAt(w.q.Head, w.q.Next, p, (1..(t - 1)) \ M)
    /\ Took(w.took, p, M \cap (1..t)) /\ Len(w.took) <= n
    /\ Untouched(w.q, p, (1..(t - 1)) \ M)

\* The list, and the caller's positions on it.
Batch(p, m, M, t, c, ids) ==
    /\ ListAlong(ll, node, pool, p, m) /\ TailAt(ll, p, m, t)
    /\ M = {k \in 1..m : Mine(p[k], c, ids)}
    /\ ids \in Seq(Ids) /\ Len(ids) # 1

\* One more node is taken, from behind the others.
LEMMA TookMore ==
    ASSUME NEW took, NEW p, NEW T, Took(took, p, T), NEW j \in Nat, \A k \in T : k < j, p[j] \in Node
    PROVE  Took(Append(took, p[j]), p, T \cup {j}) /\ Len(Append(took, p[j])) = Len(took) + 1
  <1> DEFINE a == Append(took, p[j])
             l == Len(took)
  <1>1. took \in Seq(Node) /\ l \in Nat
    BY DEF Took
  <1>2. a \in Seq(Node) /\ Len(a) = l + 1 /\ a[l + 1] = p[j] /\ \A b \in 1..l : a[b] = took[b]
    BY <1>1
  <1>3. PICK g : Lists(g, l, T) /\ \A b \in 1..l : took[b] = p[g[b]]
    BY DEF Took
  <1> HIDE DEF a, l
  <1> DEFINE h == [b \in 1..(l + 1) |-> IF b <= l THEN g[b] ELSE j]
  <1>4. Lists(h, l + 1, T \cup {j})
    BY <1>3, ListsMore
  <1>5. ASSUME NEW b \in 1..(l + 1) PROVE a[b] = p[h[b]]
    <2>1. CASE b <= l
      BY <1>1, <1>2, <1>3, <2>1
    <2>2. CASE ~(b <= l)
      <3>1. b = l + 1
        BY <1>1, <2>2
      <3> QED
        BY <1>2, <2>2, <3>1
    <2> QED
      BY <2>1, <2>2
  <1> HIDE DEF h
  <1> QED
    BY <1>2, <1>4, <1>5 DEF Took, a, l

\* One round: the walk stops for good, goes on to the next position, or takes Tail.
LEMMA RoundSteps ==
    ASSUME NEW p, NEW m, NEW M, NEW t, NEW c, NEW ids, Batch(p, m, M, t, c, ids),
           NEW w, NEW j, Walking(w, j, p, m, M, t, Len(ids))
    PROVE  \/ (j = m + 1 \/ Len(w.took) = Len(ids)) /\ Round(w, c, ids) = w
           \/ Walking(Round(w, c, ids), j + 1, p, m, M, t, Len(ids))
           \/ TailTaken(Round(w, c, ids), p, m, M, t, Len(ids))
  <1>1. /\ ll \in Pointers /\ m \in Nat /\ p \in [1..m -> Node]
        /\ \A i, k \in 1..m : p[i] = p[k] => i = k
        /\ \A i \in 1..m : ll.Next[p[i]] = IF i = m THEN nil ELSE p[i + 1]
        /\ M = {k \in 1..m : Mine(p[k], c, ids)} /\ M \in SUBSET (1..m)
        /\ TailAt(ll, p, m, t) /\ Len(ids) \in Nat
    BY DEF Batch, ListAlong, Linked
  <1>2. /\ w \in Walks /\ w.done = FALSE /\ j \in 1..(m + 1) /\ w.q.Tail = ll.Tail
        /\ w.cur = IF j <= m THEN p[j] ELSE nil
        /\ LastAt(w.prev, p, (1..(j - 1)) \ M)
        /\ ChainedAt(w.q.Head, w.q.Next, p, (1..m) \ (M \cap (1..(j - 1))))
        /\ Took(w.took, p, M \cap (1..(j - 1))) /\ Len(w.took) <= Len(ids)
        /\ Untouched(w.q, p, (1..(j - 1)) \ M)
        /\ (t \in M /\ t < j => t = 1)
        /\ (1 \in M => j # 1)
    BY DEF Walking
  <1>3. /\ w.q \in Pointers /\ w.took \in Seq(Node) /\ Len(w.took) \in Nat
        /\ w = [q |-> w.q, prev |-> w.prev, cur |-> w.cur, took |-> w.took, done |-> w.done]
    BY <1>2 DEF Walks
  <1>4. PICK r : r = Round(w, c, ids)
    OBVIOUS
  <1>5. r \in Walks
    BY <1>2, <1>4, RoundType
  <1>6. \A k \in 1..m : p[k] # nil /\ p[k] \in Node
    BY <1>1, LinkedListAssumption DEF Node, nil
  <1> DEFINE q == w.q
             next == q.Next[w.cur]
             cut == IF q.Head = q.Tail THEN [q EXCEPT !.Head = nil, !.Tail = nil]
                    ELSE [q EXCEPT !.Tail = w.prev, !.Next[w.prev] = nil]
             skip == IF w.prev = nil THEN [q EXCEPT !.Head = next] ELSE [q EXCEPT !.Next[w.prev] = next]
  <1>7. r = IF w.done \/ w.cur = nil \/ Len(w.took) >= Len(ids) THEN w
            ELSE IF ~Mine(w.cur, c, ids) THEN [w EXCEPT !.prev = w.cur, !.cur = next]
            ELSE IF w.cur = q.Tail
            THEN [w EXCEPT !.took = Append(@, w.cur), !.done = TRUE, !.q = cut]
            ELSE [w EXCEPT !.took = Append(@, w.cur), !.cur = next, !.q = skip]
    BY <1>4 DEF Round
  <1> HIDE DEF q, next, cut, skip
  <1>8. CASE w.cur = nil \/ Len(w.took) >= Len(ids)
    <2>1. r = w
      BY <1>7, <1>8
    <2>2. w.cur = nil => j = m + 1
      BY <1>1, <1>2, <1>6
    <2>3. Len(w.took) >= Len(ids) => Len(w.took) = Len(ids)
      BY <1>1, <1>2, <1>3
    <2> QED
      BY <1>4, <1>8, <2>1, <2>2, <2>3
  <1>9. CASE ~(w.cur = nil \/ Len(w.took) >= Len(ids))
    <2>1. j \in 1..m /\ w.cur = p[j] /\ j \in Nat /\ j + 1 \in 1..(m + 1) /\ (j + 1) - 1 = j
      BY <1>1, <1>2, <1>9
    <2>2. next = IF j = m THEN nil ELSE p[j + 1]
      <3>1. \A k \in (1..(j - 1)) \ M : p[k] # p[j]
        <4>1. \A k \in 1..(j - 1) : k \in 1..m /\ k # j
          BY <1>1, <2>1
        <4> QED
          BY <1>1, <2>1, <4>1
      <3>2. q.Next[p[j]] = ll.Next[p[j]]
        BY <1>2, <1>6, <2>1, <3>1 DEF Untouched, q
      <3> QED
        BY <1>1, <2>1, <3>2 DEF next
    <2>3. next = IF j + 1 <= m THEN p[j + 1] ELSE nil
      BY <1>1, <2>1, <2>2
    <2>4. Mine(w.cur, c, ids) <=> j \in M
      BY <1>1, <2>1
    <2>5. CASE j \notin M
      <3>1. r = [w EXCEPT !.prev = w.cur, !.cur = next]
        BY <1>2, <1>7, <1>9, <2>4, <2>5
      <3>2. r.q = w.q /\ r.prev = p[j] /\ r.cur = next /\ r.took = w.took /\ r.done = FALSE
        BY <1>2, <1>3, <2>1, <3>1
      <3>3. M \cap (1..((j + 1) - 1)) = M \cap (1..(j - 1))
        BY <1>1, <2>1, <2>5
      <3>4. LastAt(p[j], p, (1..((j + 1) - 1)) \ M)
        BY <2>1, <2>5 DEF LastAt
      <3>5. Untouched(w.q, p, (1..((j + 1) - 1)) \ M)
        BY <1>2, <2>1 DEF Untouched
      <3>6. t \in M /\ t < j + 1 => t = 1
        BY <1>1, <1>2, <2>1, <2>5
      <3>7. 1 \in M => j + 1 # 1
        BY <2>1
      <3>8. Walking(r, j + 1, p, m, M, t, Len(ids))
        BY <1>2, <1>5, <2>1, <2>3, <3>2, <3>3, <3>4, <3>5, <3>6, <3>7 DEF Walking
      <3> QED
        BY <1>4, <3>8
    <2>6. CASE j \in M
      <3> DEFINE T == M \cap (1..(j - 1))
                 K == (1..m) \ T
      <3>1. /\ K \in SUBSET (1..m) /\ j \in K /\ j # 1
            /\ {k \in K : k < j} = (1..(j - 1)) \ M
            /\ K \ {j} = (1..m) \ (M \cap (1..((j + 1) - 1)))
            /\ T \cup {j} = M \cap (1..((j + 1) - 1))
            /\ (\A k \in T : k < j)
            /\ (1..((j + 1) - 1)) \ M = (1..(j - 1)) \ M
        BY <1>1, <1>2, <2>1, <2>6
      <3>2. /\ Took(Append(w.took, p[j]), p, T \cup {j})
            /\ Len(Append(w.took, p[j])) = Len(w.took) + 1
        <4>1. Took(w.took, p, T) /\ j \in Nat /\ (\A k \in T : k < j) /\ p[j] \in Node
          BY <1>2, <1>6, <2>1, <3>1
        <4> HIDE DEF T
        <4> QED
          BY ONLY <4>1, TookMore
      <3>3. Len(Append(w.took, p[j])) <= Len(ids)
        BY <1>1, <1>3, <1>9, <3>2
      <3> DEFINE head == w.q.Head
                 nexts == w.q.Next
                 prev == w.prev
      <3>4. /\ ChainedAt(IF prev = nil THEN nexts[p[j]] ELSE head,
                         IF prev = nil THEN nexts ELSE [nexts EXCEPT ![prev] = nexts[p[j]]], p, K \ {j})
            /\ ChainedAt(IF prev = nil THEN nil ELSE head,
                         IF prev = nil THEN nexts ELSE [nexts EXCEPT ![prev] = nil], p, {k \in K : k < j})
            /\ head = p[j] <=> prev = nil
        <4>1. ChainStopped(m, p, K, head, nexts, j, prev)
          BY <1>1, <1>2, <1>3, <3>1 DEF Pointers, ChainStopped
        <4> HIDE DEF T, K, head, nexts, prev
        <4>2. ChainedAt(IF prev = nil THEN nexts[p[j]] ELSE head,
                        IF prev = nil THEN nexts ELSE [nexts EXCEPT ![prev] = nexts[p[j]]], p, K \ {j})
          BY ONLY <4>1, ChainedSkip
        <4>3. ChainedAt(IF prev = nil THEN nil ELSE head,
                        IF prev = nil THEN nexts ELSE [nexts EXCEPT ![prev] = nil], p, {k \in K : k < j})
          <5>1. PICK head2, next2, before :
                  /\ before = {k \in K : k < j}
                  /\ head2 = IF prev = nil THEN nil ELSE head
                  /\ next2 = IF prev = nil THEN nexts ELSE [nexts EXCEPT ![prev] = nil]
            OBVIOUS
          <5>2. ChainedAt(head2, next2, p, before)
            BY ONLY <4>1, <5>1, ChainedCut
          <5> QED
            BY <5>1, <5>2, Zenon
        <4>4. head = p[j] <=> prev = nil
          BY ONLY <4>1, ChainedHead
        <4> QED
          BY <4>2, <4>3, <4>4
      <3>5. prev = nil \/ (prev \in Node /\ \E k \in (1..(j - 1)) \ M : prev = p[k])
        <4>1. \A k \in (1..(j - 1)) \ M : k \in 1..m
          BY <1>1, <2>1
        <4> QED
          BY <1>2, <1>6, <4>1 DEF LastAt
      <3>6. \A z : prev # nil => \A x \in Node : (\A k \in (1..(j - 1)) \ M : p[k] # x) =>
              [nexts EXCEPT ![prev] = z][x] = ll.Next[x]
        BY <1>2, <1>3, <3>5 DEF Untouched, Pointers
      <3>7. q = [Head |-> head, Tail |-> ll.Tail, Next |-> nexts] /\ next = nexts[p[j]]
        BY <1>2, <1>3, <2>1 DEF Pointers, q, next
      <3>8. CASE w.cur = q.Tail
        <4>1. r = [w EXCEPT !.took = Append(@, w.cur), !.done = TRUE, !.q = cut]
          BY <1>2, <1>7, <1>9, <2>4, <2>6, <3>8
        <4>2. r.q = cut /\ r.cur = p[j] /\ r.took = Append(w.took, p[j]) /\ r.done = TRUE
          BY <1>3, <2>1, <4>1
        <4>3. t = j
          <5>1. p[j] = ll.Tail
            BY <1>2, <2>1, <3>8 DEF q
          <5> QED
            BY <1>1, <2>1, <5>1 DEF TailAt
        <4>4. cut = IF prev = nil THEN [Head |-> nil, Tail |-> nil, Next |-> nexts]
                    ELSE [Head |-> head, Tail |-> prev, Next |-> [nexts EXCEPT ![prev] = nil]]
          <5>1. q.Head = q.Tail <=> prev = nil
            BY <2>1, <3>4, <3>7, <3>8
          <5>2. PICK z : z = nil
            OBVIOUS
          <5>3. cut = IF prev = nil THEN [q EXCEPT !.Head = z, !.Tail = z]
                      ELSE [q EXCEPT !.Tail = prev, !.Next[prev] = z]
            BY <5>1, <5>2 DEF cut
          <5> HIDE DEF head, nexts, prev
          <5>4. q = [Head |-> head, Tail |-> ll.Tail, Next |-> nexts]
            BY <3>7
          <5>5. cut = [q EXCEPT !.Head = z, !.Tail = z] => cut = [Head |-> z, Tail |-> z, Next |-> nexts]
            BY ONLY <5>4, PointerUpdates
          <5>6. cut = [q EXCEPT !.Tail = prev, !.Next[prev] = z] =>
                  cut = [Head |-> head, Tail |-> prev, Next |-> [nexts EXCEPT ![prev] = z]]
            BY ONLY <5>4, PointerUpdates
          <5>7. cut = IF prev = nil THEN [Head |-> z, Tail |-> z, Next |-> nexts]
                      ELSE [Head |-> head, Tail |-> prev, Next |-> [nexts EXCEPT ![prev] = z]]
            BY <5>3, <5>5, <5>6
          <5> QED
            BY <5>2, <5>7
        <4>5. ChainedAt(cut.Head, cut.Next, p, (1..(j - 1)) \ M)
          <5> HIDE DEF head, nexts, prev, K, T
          <5>1. cut.Head = (IF prev = nil THEN nil ELSE head)
                /\ cut.Next = (IF prev = nil THEN nexts ELSE [nexts EXCEPT ![prev] = nil])
            BY <4>4
          <5> QED
            BY <3>1, <3>4, <5>1
        <4>6. LastAt(cut.Tail, p, (1..(j - 1)) \ M)
          BY <1>2, <4>4
        <4>7. Untouched(cut, p, (1..(j - 1)) \ M)
          <5>1. CASE prev = nil
            BY <1>2, <4>4, <5>1 DEF Untouched
          <5>2. CASE prev # nil
            BY <3>6, <4>4, <5>2 DEF Untouched
          <5> QED
            BY <5>1, <5>2
        <4>8. T \cup {j} = M \cap (1..j)
          BY <2>1, <3>1
        <4>9. TailTaken(r, p, m, M, t, Len(ids))
          <5>1. t \in M \ {1} /\ r.cur = p[t] /\ r.done = TRUE
            BY <2>6, <3>1, <4>2, <4>3
          <5>2. Took(r.took, p, M \cap (1..t)) /\ Len(r.took) <= Len(ids)
            BY <3>2, <3>3, <4>2, <4>3, <4>8
          <5>3. /\ LastAt(r.q.Tail, p, (1..(t - 1)) \ M)
                /\ ChainedAt(r.q.Head, r.q.Next, p, (1..(t - 1)) \ M)
                /\ Untouched(r.q, p, (1..(t - 1)) \ M)
            BY <4>2, <4>3, <4>5, <4>6, <4>7
          <5> QED
            BY <1>5, <5>1, <5>2, <5>3 DEF TailTaken
        <4> QED
          BY <1>4, <4>9
      <3>9. CASE w.cur # q.Tail
        <4>1. r = [w EXCEPT !.took = Append(@, w.cur), !.cur = next, !.q = skip]
          BY <1>2, <1>7, <1>9, <2>4, <2>6, <3>9
        <4>2. r.q = skip /\ r.cur = next /\ r.took = Append(w.took, p[j]) /\ r.done = FALSE /\ r.prev = prev
          BY <1>2, <1>3, <2>1, <4>1
        <4>3. t # j
          BY <1>2, <2>1, <3>9, <1>1 DEF TailAt, q
        <4>4. skip = IF prev = nil THEN [Head |-> next, Tail |-> ll.Tail, Next |-> nexts]
                     ELSE [Head |-> head, Tail |-> ll.Tail, Next |-> [nexts EXCEPT ![prev] = next]]
          <5> HIDE DEF head, nexts
          <5> QED
            BY <3>7 DEF skip
        <4>5. ChainedAt(skip.Head, skip.Next, p, K \ {j})
          <5> HIDE DEF head, nexts, prev, K, T
          <5>1. skip.Head = (IF prev = nil THEN nexts[p[j]] ELSE head)
                /\ skip.Next = (IF prev = nil THEN nexts ELSE [nexts EXCEPT ![prev] = nexts[p[j]]])
            BY <3>7, <4>4
          <5> QED
            BY <3>4, <5>1
        <4>6. Untouched(skip, p, (1..(j - 1)) \ M)
          <5>1. CASE prev = nil
            BY <1>2, <4>4, <5>1 DEF Untouched
          <5>2. CASE prev # nil
            BY <3>6, <4>4, <5>2 DEF Untouched
          <5> QED
            BY <5>1, <5>2
        <4>7. skip.Tail = ll.Tail
          BY <4>4
        <4>8. t \in M /\ t < j + 1 => t = 1
          BY <1>1, <1>2, <2>1, <4>3
        <4>9. Walking(r, j + 1, p, m, M, t, Len(ids))
          <5>1. /\ ChainedAt(r.q.Head, r.q.Next, p, (1..m) \ (M \cap (1..((j + 1) - 1))))
                /\ Untouched(r.q, p, (1..((j + 1) - 1)) \ M)
            BY <3>1, <4>2, <4>5, <4>6
          <5>2. Took(r.took, p, M \cap (1..((j + 1) - 1))) /\ Len(r.took) <= Len(ids)
            BY <3>1, <3>2, <3>3, <4>2
          <5>3. LastAt(r.prev, p, (1..((j + 1) - 1)) \ M)
            BY <1>2, <3>1, <4>2
          <5>4. r.cur = (IF j + 1 <= m THEN p[j + 1] ELSE nil) /\ r.done = FALSE /\ r.q.Tail = ll.Tail
            BY <2>3, <4>2, <4>7
          <5>5. j + 1 \in 1..(m + 1) /\ j + 1 # 1
            BY <2>1
          <5> QED
            BY <1>5, <4>8, <5>1, <5>2, <5>3, <5>4, <5>5 DEF Walking
        <4> QED
          BY <1>4, <4>9
      <3> QED
        BY <3>8, <3>9
    <2> QED
      BY <2>5, <2>6
  <1> QED
    BY <1>8, <1>9

\* The whole list is chained at all its positions.
LEMMA LinkedChained ==
    ASSUME NEW head, NEW next, NEW p, NEW m, Linked(head, next, p, m)
    PROVE  ChainedAt(head, next, p, 1..m)
  <1>1. /\ m \in Nat /\ head = (IF m = 0 THEN nil ELSE p[1])
        /\ \A i \in 1..m : next[p[i]] = IF i = m THEN nil ELSE p[i + 1]
    BY DEF Linked
  <1>2. 1..m = {} => head = nil
    BY <1>1
  <1>3. ASSUME NEW k \in 1..m, \A i \in 1..m : k <= i PROVE head = p[k]
    <2>1. 1 \in 1..m /\ m # 0
      BY <1>1
    <2>2. k = 1
      BY <1>3, <2>1
    <2> QED
      BY <1>1, <2>1, <2>2
  <1>4. ASSUME NEW k \in 1..m, \A i \in 1..m : i <= k PROVE next[p[k]] = nil
    <2>1. m \in 1..m
      BY <1>1
    <2>2. k = m
      BY <1>4, <2>1
    <2> QED
      BY <1>1, <2>2
  <1>5. ASSUME NEW k \in 1..m, NEW i \in 1..m, k < i, \A b \in 1..m : b <= k \/ i <= b
        PROVE  next[p[k]] = p[i]
    <2>1. k + 1 \in 1..m /\ k # m
      BY <1>1, <1>5
    <2>2. i = k + 1
      BY <1>5, <2>1
    <2> QED
      BY <1>1, <2>1, <2>2
  <1> QED
    BY <1>2, <1>3, <1>4, <1>5 DEF ChainedAt

\* The walk begins at the head, or behind it when that is taken.
LEMMA TakeHeadSteps ==
    ASSUME NEW p, NEW m, NEW M, NEW t, NEW c, NEW ids, Batch(p, m, M, t, c, ids), ll.Head # nil
    PROVE  \E j : Walking(TakeHead(c, ids), j, p, m, M, t, Len(ids))
  <1>1. /\ ll \in Pointers /\ m \in Nat /\ p \in [1..m -> Node]
        /\ \A i, k \in 1..m : p[i] = p[k] => i = k
        /\ \A i \in 1..m : ll.Next[p[i]] = IF i = m THEN nil ELSE p[i + 1]
        /\ M = {k \in 1..m : Mine(p[k], c, ids)} /\ M \in SUBSET (1..m)
        /\ TailAt(ll, p, m, t) /\ ids \in Seq(Ids) /\ Len(ids) \in Nat
        /\ Linked(ll.Head, ll.Next, p, m)
        /\ m # 0 /\ ll.Head = p[1]
    BY DEF Batch, ListAlong, Linked
  <1>2. 1 \in 1..m /\ p[1] \in Node /\ (1 \in M <=> Mine(ll.Head, c, ids)) /\ ll.Next \in [Node -> Node \cup {nil}]
        /\ ll.Head \in Node \cup {nil}
    BY <1>1 DEF Pointers
  <1>3. ChainedAt(ll.Head, ll.Next, p, 1..m)
    BY <1>1, LinkedChained
  <1>4. Took(<<>>, p, {})
    <2>1. Lists([a \in 1..0 |-> 0], 0, {})
      <3>1. 1..0 = {}
        OBVIOUS
      <3> QED
        BY <3>1 DEF Lists
    <2>2. <<>> \in Seq(Node) /\ Len(<<>>) = 0 /\ 1..0 = {}
      OBVIOUS
    <2>3. PICK g : Lists(g, 0, {})
      BY <2>1
    <2> QED
      BY <2>2, <2>3 DEF Took
  <1>5. CASE 1 \notin M
    <2> DEFINE w == [q |-> ll, prev |-> nil, cur |-> ll.Head, took |-> <<>>, done |-> FALSE]
    <2>1. TakeHead(c, ids) = w
      BY <1>2, <1>5 DEF TakeHead
    <2>2. w \in Walks
      <3>1. <<>> \in Seq(Node)
        OBVIOUS
      <3> QED
        BY <1>1, <1>2, <3>1 DEF Walks
    <2>3. 1..(1 - 1) = {}
      OBVIOUS
    <2>4. M \cap (1..(1 - 1)) = {} /\ (1..(1 - 1)) \ M = {} /\ (1..m) \ (M \cap (1..(1 - 1))) = 1..m
      BY <2>3
    <2>5. LastAt(nil, p, (1..(1 - 1)) \ M) /\ Untouched(ll, p, (1..(1 - 1)) \ M)
      BY <2>4 DEF LastAt, Untouched
    <2>6. Took(<<>>, p, M \cap (1..(1 - 1))) /\ ChainedAt(ll.Head, ll.Next, p, (1..m) \ (M \cap (1..(1 - 1))))
      BY <1>3, <1>4, <2>4
    <2>7. t \in M /\ t < 1 => t = 1
      BY <1>1
    <2>8. Len(<<>>) <= Len(ids) /\ 1 \in 1..(m + 1) /\ 1 <= m
      BY <1>1, <1>2
    <2>9. Walking(w, 1, p, m, M, t, Len(ids))
      BY <1>1, <1>5, <2>2, <2>5, <2>6, <2>7, <2>8 DEF Walking
    <2> QED
      BY <2>1, <2>9
  <1>6. CASE 1 \in M
    <2> DEFINE nx == ll.Next[p[1]]
               q == [ll EXCEPT !.Head = nx]
               w == [q |-> q, prev |-> nil, cur |-> nx, took |-> <<p[1]>>, done |-> FALSE]
    <2>1. q = [Head |-> nx, Tail |-> ll.Tail, Next |-> ll.Next] /\ nx \in Node \cup {nil}
          /\ q \in Pointers
      BY <1>1, <1>2 DEF Pointers
    <2>2. TakeHead(c, ids) = w
      <3>1. TakeHead(c, ids) = [q |-> q, prev |-> nil, cur |-> q.Head, took |-> <<ll.Head>>, done |-> FALSE]
        BY <1>1, <1>2, <1>6 DEF TakeHead
      <3> HIDE DEF q
      <3> QED
        BY <1>1, <2>1, <3>1
    <2> HIDE DEF q, nx
    <2>3. w \in Walks
      <3>1. <<p[1]>> \in Seq(Node)
        BY <1>2
      <3> QED
        BY <2>1, <3>1 DEF Walks
    <2>4. 1..(2 - 1) = {1}
      OBVIOUS
    <2>5. M \cap (1..(2 - 1)) = {1} /\ (1..(2 - 1)) \ M = {} /\ (1..m) \ (M \cap (1..(2 - 1))) = (1..m) \ {1}
      BY <1>6, <2>4
    <2>6. LastAt(nil, p, (1..(2 - 1)) \ M) /\ Untouched(q, p, (1..(2 - 1)) \ M)
      BY <2>1, <2>5 DEF LastAt, Untouched
    <2>7. Took(<<p[1]>>, p, {1}) /\ Len(<<p[1]>>) = 1
      <3>1. PICK j, T : j = 1 /\ j \in Nat /\ T = {}
        OBVIOUS
      <3>2. Took(Append(<<>>, p[j]), p, T \cup {j})
        <4>1. Took(<<>>, p, T) /\ j \in Nat /\ (\A k \in T : k < j) /\ p[j] \in Node
          BY <1>2, <1>4, <3>1
        <4> QED
          BY ONLY <4>1, TookMore
      <3>3. Append(<<>>, p[1]) = <<p[1]>> /\ {} \cup {1} = {1}
        OBVIOUS
      <3> QED
        BY <3>1, <3>2, <3>3
    <2>8. ChainedAt(nx, ll.Next, p, (1..m) \ {1})
      <3>1. PICK j, K, prev : j = 1 /\ K = 1..m /\ prev = nil
        OBVIOUS
      <3>2. ChainStopped(m, p, K, ll.Head, ll.Next, j, prev)
        <4>1. {k \in K : k < j} = {}
          BY <3>1
        <4>2. LastAt(prev, p, {k \in K : k < j})
          BY <3>1, <4>1 DEF LastAt
        <4> QED
          BY <1>1, <1>2, <1>3, <3>1, <4>2 DEF ChainStopped
      <3>3. ChainedAt(IF prev = nil THEN ll.Next[p[j]] ELSE ll.Head,
                      IF prev = nil THEN ll.Next ELSE [ll.Next EXCEPT ![prev] = ll.Next[p[j]]], p, K \ {j})
        BY ONLY <3>2, ChainedSkip
      <3> QED
        BY <3>1, <3>3 DEF nx
    <2>9. nx = IF 2 <= m THEN p[2] ELSE nil
      BY <1>1, <1>2 DEF nx
    <2>10. t \in M /\ t < 2 => t = 1
      BY <1>1
    <2>11. 1 <= Len(ids)
      <3>1. Mine(ll.Head, c, ids)
        BY <1>2, <1>6
      <3> QED
        BY <1>1, <3>1 DEF Mine
    <2>12. 2 \in 1..(m + 1) /\ 2 # 1
      BY <1>1
    <2>13. Walking(w, 2, p, m, M, t, Len(ids))
      BY <2>1, <2>3, <2>5, <2>6, <2>7, <2>8, <2>9, <2>10, <2>11, <2>12 DEF Walking
    <2> QED
      BY <2>2, <2>13
  <1> QED
    BY <1>5, <1>6

\* The walk ends: at the end of the chain, with enough nodes, or by taking Tail.
LEMMA TakeAllEnds ==
    ASSUME NEW p, NEW m, NEW M, NEW t, NEW c, NEW ids, Batch(p, m, M, t, c, ids), ll.Head # nil
    PROVE  \/ TailTaken(TakeAll(c, ids), p, m, M, t, Len(ids))
           \/ \E j : /\ Walking(TakeAll(c, ids), j, p, m, M, t, Len(ids))
                     /\ j = m + 1 \/ Len(TakeAll(c, ids).took) = Len(ids)
  <1> DEFINE base == TakeHead(c, ids)
             step == [w \in Walks |-> Round(w, c, ids)]
             R(f) == f = [i \in 0..MaxNodes |-> IF i = 0 THEN TakeHead(c, ids) ELSE Round(f[i - 1], c, ids)]
             On(w, i) == \E j : /\ Walking(w, j, p, m, M, t, Len(ids))
                                /\ i < j \/ j = m + 1 \/ Len(w.took) = Len(ids)
             End(w) == TailTaken(w, p, m, M, t, Len(ids))
  <1>1. MaxNodes \in Nat /\ m \in Nat /\ m <= MaxNodes
    <2>1. ll \in Pointers /\ Linked(ll.Head, ll.Next, p, m)
      BY DEF Batch, ListAlong
    <2>2. m <= MaxNodes
      BY <2>1, LinkedWalk
    <2> QED
      BY <2>1, <2>2, LinkedListAssumption DEF Linked
  <1>2. \E j : Walking(base, j, p, m, M, t, Len(ids))
    BY TakeHeadSteps
  <1>3. base \in Walks /\ On(base, 0)
    <2>1. PICK j : Walking(base, j, p, m, M, t, Len(ids))
      BY <1>2
    <2>2. base \in Walks /\ j \in 1..(m + 1)
      BY <2>1 DEF Walking
    <2>3. 0 < j
      BY <1>1, <2>2
    <2> QED
      BY <2>1, <2>2, <2>3
  <1>4. step \in [Walks -> Walks]
    BY RoundType
  <1>5. PICK f \in [0..MaxNodes -> Walks] :
          f = [i \in 0..MaxNodes |-> IF i = 0 THEN base ELSE step[f[i - 1]]]
    <2> HIDE DEF base, step
    <2>1. PICK X : X = Walks
      OBVIOUS
    <2>2. MaxNodes \in Nat /\ base \in X /\ step \in [X -> X]
      BY <1>1, <1>3, <1>4, <2>1
    <2>3. \E f \in [0..MaxNodes -> X] : f = [i \in 0..MaxNodes |-> IF i = 0 THEN base ELSE step[f[i - 1]]]
      BY ONLY <2>2, RoundsExist, SMTT(30)
    <2> QED
      BY <2>1, <2>3
  <1>6. \A i \in 0..MaxNodes : i # 0 => step[f[i - 1]] = Round(f[i - 1], c, ids)
    <2>1. \A i \in 0..MaxNodes : i # 0 => f[i - 1] \in Walks
      BY <1>1
    <2> QED
      BY <2>1
  <1>7. R(f)
    <2> HIDE DEF step
    <2> QED
      BY <1>5, <1>6
  <1> DEFINE g == CHOOSE h : R(h)
  <1>8. R(g)
    BY <1>7
  <1>9. TakeAll(c, ids) = g[MaxNodes]
    BY DEF TakeAll
  <1> HIDE DEF g
  <1>10. g[0] = base /\ \A i \in 0..MaxNodes : i # 0 => g[i] = Round(g[i - 1], c, ids)
    BY <1>1, <1>8
  <1>11. ASSUME NEW w, End(w) PROVE Round(w, c, ids) = w
    BY <1>11 DEF TailTaken, Round
  <1>12. ASSUME NEW w, NEW i \in Nat, On(w, i) PROVE On(Round(w, c, ids), i + 1) \/ End(Round(w, c, ids))
    <2>1. PICK j : /\ Walking(w, j, p, m, M, t, Len(ids))
                   /\ i < j \/ j = m + 1 \/ Len(w.took) = Len(ids)
      BY <1>12
    <2>2. \/ (j = m + 1 \/ Len(w.took) = Len(ids)) /\ Round(w, c, ids) = w
          \/ Walking(Round(w, c, ids), j + 1, p, m, M, t, Len(ids))
          \/ TailTaken(Round(w, c, ids), p, m, M, t, Len(ids))
      <3>1. Walking(w, j, p, m, M, t, Len(ids)) /\ Batch(p, m, M, t, c, ids)
        BY <2>1
      <3> QED
        BY ONLY <3>1, RoundSteps
    <2>3. CASE (j = m + 1 \/ Len(w.took) = Len(ids)) /\ Round(w, c, ids) = w
      BY <2>1, <2>3
    <2>4. CASE /\ Walking(Round(w, c, ids), j + 1, p, m, M, t, Len(ids))
               /\ ~((j = m + 1 \/ Len(w.took) = Len(ids)) /\ Round(w, c, ids) = w)
      <3>1. j + 1 \in 1..(m + 1) /\ j \in 1..(m + 1)
        BY <2>1, <2>4 DEF Walking
      <3>2. j # m + 1
        BY <1>1, <3>1
      <3>3. CASE i < j
        <4>1. i + 1 < j + 1
          BY <1>1, <3>1, <3>3
        <4> QED
          BY <2>4, <4>1
      <3>4. CASE Len(w.took) = Len(ids)
        <4>1. Round(w, c, ids) = w
          <5>1. Len(w.took) \in Nat
            BY <2>1 DEF Walking, Walks
          <5>2. Len(w.took) >= Len(ids)
            BY <3>4, <5>1
          <5> QED
            BY <5>2 DEF Round
        <4> QED
          BY <2>4, <3>4, <4>1
      <3> QED
        BY <2>1, <3>2, <3>3, <3>4
    <2>5. CASE End(Round(w, c, ids))
      BY <2>5
    <2> QED
      BY <2>2, <2>3, <2>4, <2>5
  <1> HIDE DEF On, End, base
  <1> DEFINE P == {i \in Nat : i <= MaxNodes => On(g[i], i) \/ End(g[i])}
  <1>13. 0 \in P
    BY <1>3, <1>10
  <1>14. ASSUME NEW i \in Nat, i \in P PROVE i + 1 \in P
    <2> SUFFICES ASSUME i + 1 <= MaxNodes PROVE On(g[i + 1], i + 1) \/ End(g[i + 1])
      OBVIOUS
    <2>1. On(g[i], i) \/ End(g[i])
      BY <1>1, <1>14
    <2>2. g[i + 1] = Round(g[i], c, ids)
      <3>1. i + 1 \in 0..MaxNodes /\ i + 1 # 0 /\ (i + 1) - 1 = i
        BY <1>1
      <3> QED
        BY <1>10, <3>1
    <2> QED
      BY <1>11, <1>12, <2>1, <2>2
  <1>15. On(g[MaxNodes], MaxNodes) \/ End(g[MaxNodes])
    <2>1. Nat \subseteq P
      <3> HIDE DEF P
      <3> QED
        BY <1>13, <1>14, Induction
    <2> QED
      BY <1>1, <2>1
  <1>16. ASSUME NEW j, NEW w, Walking(w, j, p, m, M, t, Len(ids)), MaxNodes < j PROVE j = m + 1
    <2>1. j \in 1..(m + 1)
      BY <1>16 DEF Walking
    <2> QED
      BY <1>1, <1>16, <2>1
  <1> QED
    BY <1>9, <1>15, <1>16 DEF On, End

\* T is what S has below j; it is at most n positions, and fewer only if it is all of S.
Begins(T, S, m, n, j) ==
    /\ m \in Nat /\ n \in Nat /\ j \in Nat /\ S \in SUBSET (1..m)
    /\ T = {k \in S : k < j}
    /\ Cardinality(T) <= n /\ (T = S \/ Cardinality(T) = n)

\* The first positions of S are its smallest ones.
LEMMA SmallestIs ==
    ASSUME NEW T, NEW S, NEW m, NEW n, NEW j, Begins(T, S, m, n, j)
    PROVE  Queue!Smallest(S, n) = T
  <1>0. /\ m \in Nat /\ n \in Nat /\ j \in Nat /\ S \in SUBSET (1..m)
        /\ T = {k \in S : k < j}
        /\ Cardinality(T) <= n /\ (T = S \/ Cardinality(T) = n)
    BY DEF Begins
  <1>a. \A k \in S : k \in Int /\ (k \in T <=> k < j)
    BY <1>0
  <1>1. IsFiniteSet(S) /\ IsFiniteSet(T) /\ Cardinality(T) \in Nat
    <2>1. IsFiniteSet(1..m)
      BY <1>0, IntervalSize
    <2>2. T \in SUBSET (1..m)
      BY <1>0
    <2> QED
      BY <1>0, <2>1, <2>2, FS_Subset, FS_CardinalityType
  <1> DEFINE Up(k) == {i \in S : i <= k}
  <1>2. Queue!Smallest(S, n) = {k \in S : Cardinality(Up(k)) <= n}
    BY SameCardinality DEF Queue!Smallest
  <1>3. \A k \in S : IsFiniteSet(Up(k)) /\ Cardinality(Up(k)) \in Nat
    <2> SUFFICES ASSUME NEW k \in S PROVE IsFiniteSet(Up(k)) /\ Cardinality(Up(k)) \in Nat
      OBVIOUS
    <2>1. Up(k) \in SUBSET S
      OBVIOUS
    <2> HIDE DEF Up
    <2> QED
      BY <1>1, <2>1, FS_Subset, FS_CardinalityType
  <1>4. ASSUME NEW k \in S, k \in T PROVE Cardinality(Up(k)) <= n
    <2>1. Up(k) \in SUBSET T
      <3> SUFFICES ASSUME NEW i \in S, i <= k PROVE i \in T
        OBVIOUS
      <3>1. k < j /\ k \in Int /\ i \in Int
        BY <1>a, <1>4
      <3>2. i < j
        BY <1>0, <3>1
      <3> QED
        BY <1>a, <3>2
    <2> HIDE DEF Up
    <2>2. Cardinality(Up(k)) <= Cardinality(T)
      BY <1>1, <2>1, FS_Subset
    <2> QED
      BY <1>0, <1>1, <1>3, <2>2
  <1>5. ASSUME NEW k \in S, k \notin T PROVE ~(Cardinality(Up(k)) <= n)
    <2>1. Cardinality(T) = n
      BY <1>0, <1>5
    <2>2. (T \cup {k}) \in SUBSET Up(k)
      <3>1. ~(k < j) /\ k \in Int
        BY <1>a, <1>5
      <3>2. \A i \in T : i \in S /\ i <= k
        <4> SUFFICES ASSUME NEW i \in T PROVE i \in S /\ i <= k
          OBVIOUS
        <4>1. i \in S /\ i \in Int /\ i < j
          BY <1>0, <1>a
        <4> QED
          BY <1>0, <3>1, <4>1
      <3>3. k <= k
        BY <3>1
      <3> QED
        BY <3>2, <3>3
    <2>3. IsFiniteSet(T \cup {k}) /\ Cardinality(T \cup {k}) = n + 1
      BY <1>1, <1>5, <2>1, FS_AddElement
    <2> HIDE DEF Up
    <2>4. Cardinality(T \cup {k}) <= Cardinality(Up(k))
      BY <1>3, <2>2, FS_Subset
    <2> QED
      BY <1>0, <1>3, <2>3, <2>4
  <1> HIDE DEF Up
  <1>6. T \in SUBSET S
    BY <1>0
  <1> QED
    BY <1>2, <1>4, <1>5, <1>6

\* The positions that stay on the chain when T is taken and Tail is at t.
Kept(T, m, t) == (IF t \in T \ {1} THEN 1..(t - 1) ELSE 1..m) \ T

\* What the walk leaves when it has taken the nodes at T.
Walked(w, p, m, T, t, n) ==
    /\ w.q \in Pointers /\ T \in SUBSET (1..m)
    /\ ChainedAt(w.q.Head, w.q.Next, p, Kept(T, m, t))
    /\ Took(w.took, p, T) /\ Len(w.took) <= n
    /\ Untouched(w.q, p, Kept(T, m, t))
    /\ t \in T \ {1} => LastAt(w.q.Tail, p, Kept(T, m, t)) /\ w.cur = p[t] /\ T \subseteq 1..t
    /\ t \notin T \ {1} => w.q.Tail = ll.Tail /\ (Len(w.took) < n => w.cur = nil)

\* The walk takes what MessageQueue says it takes.
LEMMA TakenWalked ==
    ASSUME NEW p, NEW m, NEW M, NEW t, NEW c, NEW ids, Batch(p, m, M, t, c, ids), ll.Head # nil,
           t = view.tail, view.msgs = [k \in 1..m |-> node[p[k]]], Len(view.msgs) = m
    PROVE  Walked(TakeAll(c, ids), p, m, Queue!TakenBy(c, ids), t, Len(ids))
  <1> DEFINE n == Len(ids)
             some == IF t \in M \ {1} THEN {k \in M : k <= t} ELSE M
  <1>1. /\ m \in Nat /\ p \in [1..m -> Node]
        /\ M = {k \in 1..m : Mine(p[k], c, ids)} /\ M \in SUBSET (1..m)
        /\ TailAt(ll, p, m, t) /\ n \in Nat
    BY DEF Batch, ListAlong, Linked
  <1>2. Queue!TakenBy(c, ids) = Queue!Smallest(some, n)
    <2> DEFINE mine == {k \in Queue!Positions : view.msgs[k].owner = c /\ \E i \in DOMAIN ids : ids[i] = view.msgs[k].id}
    <2>1. mine = M
      BY <1>1 DEF Queue!Positions, Mine
    <2>2. Queue!TakenBy(c, ids) = Queue!Smallest(IF t \in mine \ {1} THEN {k \in mine : k <= t} ELSE mine, n)
      BY DEF Queue!TakenBy
    <2> HIDE DEF mine
    <2> QED
      BY <2>1, <2>2
  <1>3. some \in SUBSET (1..m)
    BY <1>1
  <1>4. PICK w : w = TakeAll(c, ids)
    OBVIOUS
  <1>5. \/ TailTaken(w, p, m, M, t, n)
        \/ \E j : /\ Walking(w, j, p, m, M, t, n)
                  /\ j = m + 1 \/ Len(w.took) = n
    BY <1>4, TakeAllEnds
  <1> HIDE DEF n
  <1>6. ASSUME NEW took, NEW T, Took(took, p, T) PROVE Cardinality(T) = Len(took)
    BY <1>6, ListsCount DEF Took
  <1>7. CASE TailTaken(w, p, m, M, t, n)
    <2> DEFINE T == M \cap (1..t)
    <2>1. /\ w \in Walks /\ t \in M \ {1} /\ w.cur = p[t]
          /\ LastAt(w.q.Tail, p, (1..(t - 1)) \ M)
          /\ ChainedAt(w.q.Head, w.q.Next, p, (1..(t - 1)) \ M)
          /\ Took(w.took, p, T) /\ Len(w.took) <= n
          /\ Untouched(w.q, p, (1..(t - 1)) \ M)
      BY <1>7 DEF TailTaken
    <2>2. /\ t \in Nat /\ T = some /\ T = {k \in some : k < t + 1} /\ t \in T \ {1} /\ T \in SUBSET (1..m)
          /\ T \subseteq 1..t
      BY <1>1, <2>1
    <2>3. Kept(T, m, t) = (1..(t - 1)) \ M
      BY <1>1, <2>1, <2>2 DEF Kept
    <2> HIDE DEF T
    <2>4. Cardinality(T) <= n
      BY <1>6, <2>1
    <2>5. Queue!Smallest(some, n) = T
      <3>1. PICK j : j = t + 1
        OBVIOUS
      <3>2. j \in Nat /\ T = {k \in some : k < j}
        BY <2>2, <3>1
      <3>3. PICK S : S = some
        OBVIOUS
      <3>4. T = S /\ S \in SUBSET (1..m) /\ T = {k \in S : k < j}
        BY <1>3, <2>2, <3>2, <3>3
      <3> HIDE DEF some
      <3>5. Begins(T, S, m, n, j)
        BY <1>1, <2>4, <3>2, <3>4 DEF Begins
      <3> QED
        BY <3>3, <3>5, SmallestIs
    <2>6. Walked(w, p, m, T, t, n)
      BY <2>1, <2>2, <2>3 DEF Walked, Walks
    <2> QED
      BY <1>2, <1>4, <2>5, <2>6 DEF n
  <1>8. ASSUME NEW j, Walking(w, j, p, m, M, t, n), j = m + 1 \/ Len(w.took) = n
        PROVE  Walked(w, p, m, Queue!TakenBy(c, ids), t, n)
    <2> DEFINE T == M \cap (1..(j - 1))
    <2>1. /\ w \in Walks /\ j \in 1..(m + 1) /\ w.q.Tail = ll.Tail
          /\ w.cur = IF j <= m THEN p[j] ELSE nil
          /\ ChainedAt(w.q.Head, w.q.Next, p, (1..m) \ T)
          /\ Took(w.took, p, T) /\ Len(w.took) <= n
          /\ Untouched(w.q, p, (1..(j - 1)) \ M)
          /\ (t \in M /\ t < j => t = 1)
      BY <1>8 DEF Walking
    <2>2. j \in Nat /\ T \in SUBSET (1..m) /\ t \notin T \ {1}
      BY <1>1, <2>1
    <2>3. T = {k \in some : k < j}
      <3>1. CASE t \in M \ {1}
        <4>1. ~(t < j) /\ t \in Nat
          BY <1>1, <2>1, <3>1
        <4> QED
          BY <1>1, <2>2, <3>1, <4>1
      <3>2. CASE t \notin M \ {1}
        BY <1>1, <2>2, <3>2
      <3> QED
        BY <3>1, <3>2
    <2>4. j = m + 1 => T = some
      BY <1>1, <1>3, <2>3
    <2>5. Kept(T, m, t) = (1..m) \ T
      BY <2>2 DEF Kept
    <2>6. Untouched(w.q, p, (1..m) \ T)
      <3>1. (1..(j - 1)) \ M \subseteq (1..m) \ T
        BY <1>1, <2>1
      <3> HIDE DEF T
      <3> QED
        BY <2>1, <3>1 DEF Untouched
    <2>7. Len(w.took) < n => w.cur = nil
      <3>1. Len(w.took) \in Nat
        BY <2>1 DEF Walks
      <3>2. Len(w.took) < n => j = m + 1
        BY <1>1, <1>8, <3>1
      <3> QED
        BY <1>1, <2>1, <3>2
    <2> HIDE DEF T
    <2>8. Cardinality(T) <= n /\ (T = some \/ Cardinality(T) = n)
      <3>1. Cardinality(T) = Len(w.took)
        BY <1>6, <2>1
      <3> QED
        BY <1>8, <2>1, <2>4, <3>1
    <2>9. Queue!Smallest(some, n) = T
      <3>1. PICK S : S = some
        OBVIOUS
      <3>2. /\ T = {k \in S : k < j} /\ (T = S \/ Cardinality(T) = n) /\ Cardinality(T) <= n
            /\ m \in Nat /\ n \in Nat /\ S \in SUBSET (1..m) /\ j \in Nat
        BY <1>1, <1>3, <2>2, <2>3, <2>8, <3>1
      <3> HIDE DEF some
      <3>3. Begins(T, S, m, n, j)
        BY ONLY <3>2 DEF Begins
      <3> QED
        BY <3>1, <3>3, SmallestIs
    <2>10. Walked(w, p, m, T, t, n)
      BY <2>1, <2>2, <2>5, <2>6, <2>7 DEF Walked, Walks
    <2> QED
      BY <1>2, <2>9, <2>10
  <1> QED
    BY <1>4, <1>5, <1>7, <1>8 DEF n

\* The nodes kept are a list, with Tail where MessageQueue says.
LEMMA KeptAlong ==
    ASSUME NEW p, NEW m, ListAlong(ll, node, pool, p, m), NEW t, TailAt(ll, p, m, t), t = view.tail,
           NEW w, NEW T, NEW n, Walked(w, p, m, T, t, n),
           NEW f, NEW l, Lists(f, l, Kept(T, m, t)), NEW s, s = [a \in 1..l |-> p[f[a]]]
    PROVE  ListAlong(w.q, node, pool, s, l) /\ TailAt(w.q, s, l, Queue!TailAmong(Kept(T, m, t), T))
  <1> DEFINE K == Kept(T, m, t)
             at == Queue!TailAmong(K, T)
  <1>1. /\ ll \in Pointers /\ m \in Nat /\ p \in [1..m -> Node] /\ node \in [Node -> Content]
        /\ \A i, j \in 1..m : p[i] = p[j] => i = j
        /\ PoolClean(ll, node, pool, p, m) /\ (m # 0 => ll.Tail # nil)
    BY DEF ListAlong, Linked
  <1>2. /\ w.q \in Pointers /\ T \in SUBSET (1..m)
        /\ ChainedAt(w.q.Head, w.q.Next, p, K) /\ Untouched(w.q, p, K)
        /\ t \in T \ {1} => LastAt(w.q.Tail, p, K)
        /\ t \notin T \ {1} => w.q.Tail = ll.Tail
    BY DEF Walked
  <1>3. K \in SUBSET (1..m) /\ (t \notin T \ {1} => K = (1..m) \ T)
    <2>1. t \in T => t \in 1..m
      BY <1>2
    <2>2. CASE t \in T \ {1}
      <3>1. 1..(t - 1) \subseteq 1..m
        BY <1>1, <2>1, <2>2
      <3> QED
        BY <2>2, <3>1 DEF Kept
    <2>3. CASE t \notin T \ {1}
      BY <2>3 DEF Kept
    <2> QED
      BY <2>2, <2>3
  <1>4. at = IF t \in T \ {1} THEN Cardinality(K)
             ELSE IF t \in T THEN 0 ELSE Cardinality({k \in K : k <= t})
    BY SameCardinality DEF Queue!TailAmong, Queue!TookTail
  <1> HIDE DEF K, at
  <1>5. Lists(f, l, K)
    BY DEF K
  <1>6. Linked(w.q.Head, w.q.Next, s, l)
    <2>1. /\ m \in Nat /\ p \in [1..m -> Node] /\ (\A i, j \in 1..m : p[i] = p[j] => i = j)
          /\ K \in SUBSET (1..m) /\ ChainedAt(w.q.Head, w.q.Next, p, K) /\ Lists(f, l, K)
      BY <1>1, <1>2, <1>3, <1>5
    <2>2. Linked(w.q.Head, w.q.Next, [a \in 1..l |-> p[f[a]]], l)
      BY ONLY <2>1, ChainedLinked
    <2> QED
      BY <2>2
  <1>7. /\ l \in Nat /\ (l = 0 <=> K = {})
        /\ \A a \in 1..l : f[a] \in K /\ f[a] \in 1..m
        /\ \A k \in K : \E a \in 1..l : f[a] = k
        /\ l # 0 => \A k \in K : k <= f[l]
    BY <1>3, <1>5, ListsNeighbours DEF Lists
  <1>8. Cardinality(K) = l /\ \A a \in 1..l : Cardinality({k \in K : k <= f[a]}) = a
    BY <1>5, ListsCount
  <1>9. \A a \in 1..l : s[a] = p[f[a]]
    OBVIOUS
  <1>10. CASE t \in T \ {1}
    <2>1. at = l
      BY <1>4, <1>8, <1>10
    <2>4. TailAt(w.q, s, l, at)
      <3>2. CASE K = {}
        <4>1. l = 0 /\ 1..l = {} /\ w.q.Tail = nil
          BY <1>2, <1>7, <1>10, <3>2 DEF LastAt
        <4> QED
          BY <2>1, <4>1 DEF TailAt
      <3>3. CASE K # {}
        <4>1. PICK k \in K : w.q.Tail = p[k] /\ \A i \in K : i <= k
          BY <1>2, <1>10, <3>3 DEF LastAt
        <4>2. l \in 1..l /\ l # 0
          BY <1>7, <3>3
        <4>3. f[l] = k
          <5>1. k <= f[l] /\ f[l] <= k /\ k \in 1..m /\ f[l] \in 1..m
            BY <1>3, <1>7, <4>1, <4>2
          <5> QED
            BY <1>1, <5>1
        <4> QED
          BY <1>9, <2>1, <4>1, <4>2, <4>3 DEF TailAt
      <3> QED
        BY <3>2, <3>3
    <2>5. l # 0 => w.q.Tail # nil
      <3> SUFFICES ASSUME l # 0 PROVE w.q.Tail # nil
        OBVIOUS
      <3>1. PICK k \in K : w.q.Tail = p[k]
        BY <1>2, <1>7, <1>10 DEF LastAt
      <3> QED
        BY <1>1, <1>3, <3>1, LinkedListAssumption DEF Node, nil
    <2>6. \A i \in 1..Len(pool) : pool[i] # w.q.Tail
      <3>1. pool \in Seq(Node) /\ \A i \in 1..Len(pool) : \A k \in 1..m : p[k] # pool[i]
        BY <1>1 DEF PoolClean
      <3> QED
        BY <1>2, <1>3, <1>10, <3>1, LinkedListAssumption DEF Node, nil, LastAt
    <2> QED
      <3>1. PoolClean(w.q, node, pool, s, l)
        <4>1. pool \in Seq(Node)
          BY <1>1 DEF PoolClean
        <4>2. ASSUME NEW i \in 1..Len(pool)
              PROVE  node[pool[i]] = Clean /\ w.q.Next[pool[i]] = nil /\ \A k \in 1..l : s[k] # pool[i]
          <5>1. /\ pool[i] \in Node /\ node[pool[i]] = Clean /\ ll.Next[pool[i]] = nil
                /\ \A k \in 1..m : p[k] # pool[i]
            BY <1>1, <4>1 DEF PoolClean
          <5>2. w.q.Next[pool[i]] = nil
            BY <1>2, <1>3, <5>1 DEF Untouched
          <5>3. \A k \in 1..l : s[k] # pool[i]
            BY <1>7, <1>9, <5>1
          <5> QED
            BY <5>1, <5>2, <5>3
        <4>3. \A i, j \in 1..Len(pool) : pool[i] = pool[j] => i = j
          BY <1>1 DEF PoolClean
        <4> QED
          BY <2>6, <4>1, <4>2, <4>3 DEF PoolClean
      <3> QED
        BY <1>1, <1>2, <1>6, <2>4, <2>5, <3>1 DEF ListAlong, at, K
  <1>11. CASE t \notin T \ {1}
    <2>1. w.q.Tail = ll.Tail /\ K = (1..m) \ T
      BY <1>2, <1>3, <1>11
    <2>2. TailAt(w.q, s, l, at)
      <3>1. CASE t \in T
        <4>1. at = 0 /\ t = 1 /\ p[t] = ll.Tail /\ t \in 1..m
          BY <1>2, <1>4, <1>11, <3>1 DEF TailAt
        <4>2. \A a \in 1..l : s[a] # ll.Tail
          BY <1>1, <1>7, <1>9, <2>1, <3>1, <4>1
        <4> QED
          BY <2>1, <4>1, <4>2 DEF TailAt
      <3>2. CASE t \notin T /\ t \in 1..m /\ p[t] = ll.Tail
        <4>1. PICK a \in 1..l : f[a] = t
          BY <1>7, <2>1, <3>2
        <4>2. at = a
          BY <1>4, <1>8, <3>2, <4>1
        <4> QED
          BY <1>9, <2>1, <3>2, <4>1, <4>2 DEF TailAt
      <3>3. CASE t \notin T /\ t = 0 /\ \A k \in 1..m : p[k] # ll.Tail
        <4>1. {k \in K : k <= t} = {}
          BY <1>1, <1>3, <3>3
        <4>2. at = 0
          BY <1>4, <3>3, <4>1, FS_EmptySet
        <4> QED
          BY <1>7, <1>9, <2>1, <3>3, <4>2 DEF TailAt
      <3> QED
        BY <3>1, <3>2, <3>3 DEF TailAt
    <2>3. l # 0 => w.q.Tail # nil
      BY <1>1, <1>3, <1>7, <2>1
    <2>4. PoolClean(w.q, node, pool, s, l)
      <3>1. pool \in Seq(Node)
        BY <1>1 DEF PoolClean
      <3> QED
        BY <1>1, <1>2, <1>3, <1>7, <1>9, <2>1, <3>1 DEF PoolClean, Untouched
    <2> QED
      BY <1>1, <1>2, <1>6, <2>2, <2>3, <2>4 DEF ListAlong, at, K
  <1> QED
    BY <1>10, <1>11

\* The walk on the list that MessageQueue sees has taken the nodes at T.
Taken(w, p, m, T, t, n) ==
    /\ ListAlong(ll, node, pool, p, m) /\ TailAt(ll, p, m, t) /\ t = view.tail
    /\ view.msgs = [k \in 1..m |-> node[p[k]]] /\ Len(view.msgs) = m
    /\ Walked(w, p, m, T, t, n)

\* What stays is what MessageQueue keeps.
LEMMA TakenKept ==
    ASSUME NEW w, NEW p, NEW m, NEW T, NEW t, NEW n, Taken(w, p, m, T, t, n)
    PROVE  /\ Queue!KeptBy(T) = Kept(T, m, t) /\ (Queue!TookTail(T) <=> t \in T \ {1})
           /\ Kept(T, m, t) \in SUBSET (1..m) /\ m \in Nat
           /\ Queue!Cardinality(T) = Len(w.took)
  <1>1. t = view.tail /\ Len(view.msgs) = m /\ T \in SUBSET (1..m) /\ Took(w.took, p, T)
    BY DEF Taken, Walked
  <1>2. m \in Nat
    BY DEF Taken, ListAlong, Linked
  <1>3. Queue!TookTail(T) <=> t \in T \ {1}
    BY <1>1 DEF Queue!TookTail
  <1>4. Queue!KeptBy(T) = Kept(T, m, t)
    BY <1>1, <1>3 DEF Queue!KeptBy, Queue!Positions, Kept
  <1>5. Kept(T, m, t) \in SUBSET (1..m)
    <2>1. CASE t \in T \ {1}
      <3>0. t \in 1..m
        BY <1>1, <2>1
      <3>1. 1..(t - 1) \subseteq 1..m
        BY <1>2, <3>0
      <3> QED
        BY <2>1, <3>1 DEF Kept
    <2>2. CASE t \notin T \ {1}
      BY <2>2 DEF Kept
    <2> QED
      BY <2>1, <2>2
  <1>6. Queue!Cardinality(T) = Len(w.took)
    BY <1>1, ListsInOrder DEF Took
  <1> QED
    BY <1>2, <1>3, <1>4, <1>5, <1>6

\* Every id was found.
LEMMA BatchSettledSteps ==
    ASSUME NEW w, NEW p, NEW m, NEW T, NEW t, NEW n, Taken(w, p, m, T, t, n),
           Returns(w.q, node, FALSE), UNCHANGED <<pool, Amount, dlq>>
    PROVE  HeapInv' /\ Queue!BatchSettled(T)
  <1> DEFINE K == Kept(T, m, t)
             at == Queue!TailAmong(K, T)
  <1>1. K \in SUBSET (1..m) /\ m \in Nat /\ Queue!KeptBy(T) = K
    BY TakenKept
  <1>2. PICK l, f : Lists(f, l, K)
    <2> HIDE DEF K
    <2> QED
      BY <1>1, ListsExist
  <1>3. PICK s : s = [a \in 1..l |-> p[f[a]]]
    OBVIOUS
  <1>4. ListAlong(w.q, node, pool, s, l) /\ TailAt(w.q, s, l, at)
    BY <1>2, <1>3, KeptAlong DEF Taken
  <1>5. ListAlong(w.q, node, pool', s, l)
    BY <1>4
  <1> HIDE DEF K, at
  <1>6. HeapInv' /\ (view.msgs)' = [a \in 1..l |-> node[s[a]]] /\ (view.tail)' = at
    <2>1. PICK e : e = FALSE
      OBVIOUS
    <2>2. Returns(w.q, node, e)
      BY <2>1
    <2> QED
      BY ONLY <1>4, <1>5, <2>2, ReturnsAlong
  <1>7. f \in Queue!InOrder(K) /\ Queue!Cardinality(K) = l
    BY <1>2, ListsInOrder
  <1>8. [a \in 1..l |-> node[s[a]]] = [a \in 1..l |-> view.msgs[f[a]]]
    <2>1. \A a \in 1..l : f[a] \in 1..m
      BY <1>1, <1>2 DEF Lists
    <2>2. view.msgs = [k \in 1..m |-> node[p[k]]]
      BY DEF Taken
    <2> QED
      BY <1>3, <2>1, <2>2
  <1>9. Queue!Returns(FALSE) /\ UNCHANGED <<Amount, dlq>>
    BY DEF Returns, Queue!Returns
  <1> QED
    BY <1>1, <1>6, <1>7, <1>8, <1>9 DEF Queue!BatchSettled, at

\* Linking back fails where MessageQueue says so.
LEMMA RelinkPanicsIs ==
    ASSUME NEW w, NEW p, NEW m, NEW T, NEW t, NEW n, Taken(w, p, m, T, t, n),
           Len(w.took) < n, Queue!TailShape
    PROVE  RelinkPanics(w) <=> Queue!RestorePanics(T)
  <1> DEFINE K == Kept(T, m, t)
  <1>1. /\ K \in SUBSET (1..m) /\ m \in Nat /\ Queue!KeptBy(T) = K
        /\ (Queue!TookTail(T) <=> t \in T \ {1}) /\ Queue!Cardinality(T) = Len(w.took)
    BY TakenKept
  <1>2. /\ w.q \in Pointers /\ T \in SUBSET (1..m) /\ Took(w.took, p, T)
        /\ ChainedAt(w.q.Head, w.q.Next, p, K) /\ Untouched(w.q, p, K)
        /\ t \in T \ {1} => w.cur = p[t] /\ T \subseteq 1..t
        /\ t \notin T \ {1} => w.cur = nil
    BY DEF Taken, Walked
  <1>3. /\ p \in [1..m -> Node] /\ (\A i, j \in 1..m : p[i] = p[j] => i = j)
        /\ \A i \in 1..m : ll.Next[p[i]] = IF i = m THEN nil ELSE p[i + 1]
    BY DEF Taken, ListAlong, Linked
  <1>4. nil \notin Node
    BY LinkedListAssumption DEF Node, nil
  <1>5. Len(w.took) \in Nat
    BY <1>2 DEF Took
  <1>6. t \in T => t \notin K
    BY DEF Kept
  <1> HIDE DEF K
  <1>7. w.q.Head = nil <=> K = {}
    <2>1. PICK l, f : Lists(f, l, K)
      BY <1>1, ListsExist
    <2>2. Linked(w.q.Head, w.q.Next, [a \in 1..l |-> p[f[a]]], l)
      BY <1>1, <1>2, <1>3, <2>1, ChainedLinked
    <2>3. (l = 0 <=> K = {}) /\ \A a \in 1..l : f[a] \in 1..m
      BY <1>1, <2>1, ListsNeighbours
    <2>4. l \in Nat
      BY <2>1 DEF Lists
    <2>5. l # 0 => 1 \in 1..l
      BY <2>4
    <2> QED
      BY <1>3, <1>4, <2>2, <2>3, <2>5 DEF Linked
  <1>8. CASE t \notin T \ {1}
    <2>1. RelinkPanics(w) <=> K = {} \/ Len(w.took) > 1
      BY <1>2, <1>7, <1>8 DEF RelinkPanics
    <2>2. Queue!RestorePanics(T) <=> K = {} \/ Len(w.took) = 2 \/ Len(w.took) > 2
      BY <1>1, <1>8 DEF Queue!RestorePanics
    <2>3. Len(w.took) > 1 <=> Len(w.took) = 2 \/ Len(w.took) > 2
      <3>1. \A i \in Nat : i > 1 <=> i = 2 \/ i > 2
        OBVIOUS
      <3> QED
        BY ONLY <1>5, <3>1
    <2> QED
      BY <2>1, <2>2, <2>3
  <1>9. CASE t \in T \ {1}
    <2>0. t \in 1..m /\ t \in T /\ T \in SUBSET (1..t)
      BY <1>2, <1>9
    <2>1. w.cur = p[t] /\ p[t] # nil /\ t \in 1..m /\ t \notin K
      BY <1>2, <1>3, <1>4, <1>6, <1>9, <2>0
    <2>2. ASSUME Len(w.took) > 2 PROVE w.q.Next[w.cur] = nil
      <3>1. IsFiniteSet(1..t) /\ Cardinality(1..t) = t
        BY <1>1, <2>1, IntervalSize
      <3>2. Cardinality(T) <= t
        BY <2>0, <3>1, FS_Subset
      <3>3. Cardinality(T) = Len(w.took)
        BY <1>1, SameCardinality
      <3>4. t > 2
        BY <1>1, <1>5, <2>1, <2>2, <3>2, <3>3
      <3>5. t = view.tail /\ Len(view.msgs) = m
        BY DEF Taken
      <3>6. t = m
        BY <1>1, <2>1, <3>4, <3>5 DEF Queue!TailShape
      <3>7. \A k \in K : p[k] # p[t]
        BY <1>1, <1>3, <2>1
      <3>8. w.q.Next[p[t]] = ll.Next[p[t]]
        BY <1>2, <1>3, <2>1, <3>7 DEF Untouched
      <3> QED
        BY <1>3, <2>1, <3>6, <3>8
    <2> QED
      <3>1. RelinkPanics(w) <=> K = {} \/ Len(w.took) > 2
        BY <1>7, <2>1, <2>2 DEF RelinkPanics
      <3>2. Queue!RestorePanics(T) <=> K = {} \/ Len(w.took) > 2
        BY <1>1, <1>9 DEF Queue!RestorePanics
      <3> QED
        BY <3>1, <3>2
  <1> QED
    BY <1>8, <1>9

\* took is linked in behind the first node of the chain s.
Inserts(next, new, s, l, took, k) ==
    /\ l \in Nat \ {0} /\ k \in Nat \ {0} /\ took \in [1..k -> Node]
    /\ \A a, b \in 1..k : took[a] = took[b] => a = b
    /\ \A a \in 1..l, b \in 1..k : s[a] # took[b]
    /\ new[s[1]] = took[1]
    /\ \A b \in 1..k : new[took[b]] = IF b = k THEN next[s[1]] ELSE took[b + 1]
    /\ \A a \in 1..l : a # 1 => new[s[a]] = next[s[a]]

\* The chain with took behind its first node.
Inserted(s, l, took, k) ==
    [i \in 1..(l + k) |-> IF i = 1 THEN s[1] ELSE IF i <= k + 1 THEN took[i - 1] ELSE s[i - k]]

\* The positions of r: the first, those of took, and those of the others.
Behind(r, s, l, took, k) ==
    /\ 1 \in 1..(l + k) /\ r[1] = s[1]
    /\ \A b \in 1..k : b + 1 \in 1..(l + k) /\ r[b + 1] = took[b]
    /\ \A a \in 1..l : a # 1 => a + k \in 1..(l + k) /\ r[a + k] = s[a]
    /\ \A i \in 1..(l + k) : \/ i = 1
                             \/ \E b \in 1..k : i = b + 1
                             \/ \E a \in 1..l : a # 1 /\ i = a + k

\* Where the nodes are when took has been inserted.
LEMMA InsertedAt ==
    ASSUME NEW next, NEW new, NEW s, NEW l, NEW took, NEW k, Inserts(next, new, s, l, took, k)
    PROVE  Behind(Inserted(s, l, took, k), s, l, took, k)
  <1>0. l \in Nat \ {0} /\ k \in Nat \ {0}
    BY DEF Inserts
  <1> DEFINE r == Inserted(s, l, took, k)
  <1>1. \A i \in 1..(l + k) :
          r[i] = IF i = 1 THEN s[1] ELSE IF i <= k + 1 THEN took[i - 1] ELSE s[i - k]
    BY DEF Inserted
  <1> HIDE DEF r
  <1>2. 1 \in 1..(l + k) /\ r[1] = s[1]
    <2>1. 1 \in 1..(l + k)
      BY <1>0
    <2> QED
      BY <1>1, <2>1
  <1>3. ASSUME NEW b \in 1..k PROVE b + 1 \in 1..(l + k) /\ r[b + 1] = took[b]
    <2>1. b + 1 \in 1..(l + k) /\ b + 1 # 1 /\ b + 1 <= k + 1 /\ (b + 1) - 1 = b
      BY <1>0
    <2> QED
      BY <1>1, <2>1
  <1>4. ASSUME NEW a \in 1..l, a # 1 PROVE a + k \in 1..(l + k) /\ r[a + k] = s[a]
    <2>1. a + k \in 1..(l + k) /\ a + k # 1 /\ ~(a + k <= k + 1) /\ (a + k) - k = a
      BY <1>0, <1>4
    <2> QED
      BY <1>1, <2>1
  <1>5. ASSUME NEW i \in 1..(l + k), i # 1, ~(\E b \in 1..k : i = b + 1)
        PROVE  \E a \in 1..l : a # 1 /\ i = a + k
    <2>1. i > k + 1
      <3>1. i <= k + 1 => i - 1 \in 1..k /\ i = (i - 1) + 1
        BY <1>0, <1>5
      <3> QED
        BY <1>0, <1>5, <3>1
    <2>2. i - k \in 1..l /\ i - k # 1 /\ i = (i - k) + k
      BY <1>0, <2>1
    <2> QED
      BY <2>2
  <1> QED
    BY <1>2, <1>3, <1>4, <1>5 DEF r, Behind

\* The chain with took behind its first node is a list.
LEMMA InsertedLinked ==
    ASSUME NEW head, NEW next, NEW new, NEW s, NEW l, NEW took, NEW k,
           Linked(head, next, s, l), Inserts(next, new, s, l, took, k)
    PROVE  Linked(head, new, Inserted(s, l, took, k), l + k)
  <1> DEFINE r == Inserted(s, l, took, k)
  <1>1. /\ l \in Nat \ {0} /\ k \in Nat \ {0} /\ took \in [1..k -> Node]
        /\ \A a, b \in 1..k : took[a] = took[b] => a = b
        /\ \A a \in 1..l, b \in 1..k : s[a] # took[b]
        /\ new[s[1]] = took[1]
        /\ \A b \in 1..k : new[took[b]] = IF b = k THEN next[s[1]] ELSE took[b + 1]
        /\ \A a \in 1..l : a # 1 => new[s[a]] = next[s[a]]
    BY DEF Inserts
  <1>2. /\ s \in [1..l -> Node] /\ (\A a, b \in 1..l : s[a] = s[b] => a = b)
        /\ head = s[1] /\ \A a \in 1..l : next[s[a]] = IF a = l THEN nil ELSE s[a + 1]
    BY <1>1 DEF Linked
  <1>3. /\ 1 \in 1..(l + k) /\ r[1] = s[1]
        /\ \A b \in 1..k : b + 1 \in 1..(l + k) /\ r[b + 1] = took[b]
        /\ \A a \in 1..l : a # 1 => a + k \in 1..(l + k) /\ r[a + k] = s[a]
        /\ \A i \in 1..(l + k) : \/ i = 1
                                 \/ \E b \in 1..k : i = b + 1
                                 \/ \E a \in 1..l : a # 1 /\ i = a + k
    <2>1. Behind(r, s, l, took, k)
      BY InsertedAt
    <2> QED
      BY <2>1 DEF Behind
  <1>4. r = [i \in 1..(l + k) |-> r[i]]
    BY DEF Inserted
  <1> HIDE DEF r
  <1>5. 1 \in 1..l /\ 1 \in 1..k /\ l + k \in Nat /\ l + k # 0 /\ 2 \in 1..(l + k)
    BY <1>1
  <1> DEFINE New(i) == \E b \in 1..k : i = b + 1 /\ r[i] = took[b]
             Old(i) == \E a \in 1..l : r[i] = s[a] /\ i = IF a = 1 THEN 1 ELSE a + k
  <1>a. ASSUME NEW i \in 1..(l + k) PROVE New(i) \/ Old(i)
    <2>1. CASE i = 1
      <3>1. Old(i)
        BY <1>3, <1>5, <2>1
      <3> QED
        BY <3>1
    <2>2. ASSUME NEW b \in 1..k, i = b + 1 PROVE New(i)
      BY <1>3, <2>2
    <2>3. ASSUME NEW a \in 1..l, a # 1, i = a + k PROVE Old(i)
      BY <1>3, <2>3
    <2> HIDE DEF New, Old
    <2> QED
      BY <1>3, <2>1, <2>2, <2>3
  <1>6. \A i \in 1..(l + k) : r[i] \in Node
    BY <1>1, <1>2, <1>a
  <1>7. r \in [1..(l + k) -> Node]
    BY <1>4, <1>6
  <1>8. ASSUME NEW i \in 1..(l + k), NEW j \in 1..(l + k), r[i] = r[j] PROVE i = j
    <2>1. CASE New(i) /\ New(j)
      <3>1. PICK a \in 1..k : i = a + 1 /\ r[i] = took[a]
        BY <2>1
      <3>2. PICK b \in 1..k : j = b + 1 /\ r[j] = took[b]
        BY <2>1
      <3>3. a = b
        BY <1>1, <1>8, <3>1, <3>2
      <3> QED
        BY <3>1, <3>2, <3>3
    <2>2. CASE Old(i) /\ Old(j)
      <3>1. PICK a \in 1..l : r[i] = s[a] /\ i = IF a = 1 THEN 1 ELSE a + k
        BY <2>2
      <3>2. PICK b \in 1..l : r[j] = s[b] /\ j = IF b = 1 THEN 1 ELSE b + k
        BY <2>2
      <3>3. a = b
        BY <1>2, <1>8, <3>1, <3>2
      <3> QED
        BY <3>1, <3>2, <3>3
    <2>3. ASSUME NEW x, NEW y, New(x), Old(y) PROVE r[x] # r[y]
      <3>1. PICK b \in 1..k : r[x] = took[b]
        BY <2>3
      <3>2. PICK a \in 1..l : r[y] = s[a]
        BY <2>3
      <3> QED
        BY <1>1, <3>1, <3>2
    <2> HIDE DEF New, Old
    <2> QED
      BY <1>8, <1>a, <2>1, <2>2, <2>3
  <1>9. ASSUME NEW i \in 1..(l + k) PROVE new[r[i]] = IF i = l + k THEN nil ELSE r[i + 1]
    <2>1. CASE i = 1
      <3>1. 1 # l + k /\ r[1 + 1] = took[1]
        BY <1>1, <1>3, <1>5
      <3> QED
        BY <1>1, <1>3, <2>1, <3>1
    <2>2. ASSUME NEW b \in 1..k, i = b + 1, b # k PROVE new[r[i]] = IF i = l + k THEN nil ELSE r[i + 1]
      <3>1. b + 1 \in 1..k /\ i # l + k /\ i + 1 = (b + 1) + 1
        BY <1>1, <2>2
      <3>2. r[i] = took[b] /\ r[i + 1] = took[b + 1]
        BY <1>3, <2>2, <3>1
      <3> QED
        BY <1>1, <2>2, <3>1, <3>2
    <2>3. CASE i = k + 1
      <3>1. k \in 1..k /\ r[i] = took[k] /\ new[r[i]] = next[s[1]]
        BY <1>1, <1>3, <2>3
      <3>2. CASE l = 1
        BY <1>1, <1>2, <1>5, <2>3, <3>1, <3>2
      <3>3. CASE l # 1
        <4>1. 2 \in 1..l /\ 2 # 1 /\ i # l + k /\ i + 1 = 2 + k /\ 1 + 1 = 2
          BY <1>1, <2>3, <3>3
        <4>2. r[i + 1] = s[2] /\ next[s[1]] = s[2]
          BY <1>2, <1>3, <1>5, <3>3, <4>1
        <4> QED
          BY <3>1, <4>1, <4>2
      <3> QED
        BY <3>2, <3>3
    <2>4. ASSUME NEW a \in 1..l, a # 1, i = a + k PROVE new[r[i]] = IF i = l + k THEN nil ELSE r[i + 1]
      <3>1. r[i] = s[a] /\ new[r[i]] = next[s[a]]
        BY <1>1, <1>3, <2>4
      <3>2. CASE a = l
        BY <1>2, <2>4, <3>1, <3>2
      <3>3. CASE a # l
        <4>1. a + 1 \in 1..l /\ a + 1 # 1 /\ i # l + k /\ i + 1 = (a + 1) + k
          BY <1>1, <2>4, <3>3
        <4>2. r[i + 1] = s[a + 1]
          BY <1>3, <4>1
        <4> QED
          BY <1>2, <3>1, <3>3, <4>1, <4>2
      <3> QED
        BY <3>2, <3>3
    <2> QED
      BY <1>3, <2>1, <2>2, <2>3, <2>4
  <1>10. head = IF l + k = 0 THEN nil ELSE r[1]
    BY <1>2, <1>3, <1>5
  <1> QED
    BY <1>5, <1>7, <1>8, <1>9, <1>10 DEF Linked, r

\* r is q with one Next pointer set.
NextSet(r, q, x, y) ==
    q \in Pointers /\ x \in Node /\ y \in Node \cup {nil} /\ r = [q EXCEPT !.Next[x] = y]

\* What is read after one Next pointer was set.
LEMMA NextUpdate ==
    ASSUME NEW r, NEW q, NEW x, NEW y, NextSet(r, q, x, y)
    PROVE  /\ r \in Pointers /\ r.Head = q.Head /\ r.Tail = q.Tail /\ r.Next[x] = y
           /\ \A z \in Node : z # x => r.Next[z] = q.Next[z]
  <1> DEFINE next == [q.Next EXCEPT ![x] = y]
  <1>0. q \in Pointers /\ x \in Node /\ y \in Node \cup {nil} /\ r = [q EXCEPT !.Next[x] = y]
    BY DEF NextSet
  <1>1. r = [q EXCEPT !.Next = next]
    BY <1>0
  <1>2. next \in [Node -> Node \cup {nil}] /\ next[x] = y /\ \A z \in Node : z # x => next[z] = q.Next[z]
    BY <1>0 DEF Pointers
  <1> HIDE DEF next
  <1> QED
    BY <1>0, <1>1, <1>2 DEF Pointers

\* The pointers when one or two nodes have been linked back.
LEMMA RestoredPointers ==
    ASSUME NEW w, w.q \in Pointers, NEW k, k = 1 \/ k = 2, w.took \in Seq(Node), Len(w.took) = k,
           w.q.Head \in Node, \A b \in 1..k : w.took[b] # w.q.Head, k = 2 => w.took[1] # w.took[2]
    PROVE  /\ Restored(w) \in Pointers
           /\ Restored(w).Head = w.q.Head /\ Restored(w).Tail = w.q.Tail
           /\ Restored(w).Next[w.q.Head] = w.took[1]
           /\ Restored(w).Next[w.took[k]] = w.q.Next[w.q.Head]
           /\ k = 2 => Restored(w).Next[w.took[1]] = w.took[2]
           /\ \A z \in Node : z # w.q.Head /\ (\A b \in 1..k : w.took[b] # z) =>
                Restored(w).Next[z] = w.q.Next[z]
  <1>1. PICK h : h = w.q.Head
    OBVIOUS
  <1>2. PICK x : x = w.took[1]
    OBVIOUS
  <1>3. PICK y : y = w.took[k]
    OBVIOUS
  <1>4. /\ 1 \in 1..k /\ k \in 1..k /\ (k = 2 => 2 \in 1..k) /\ (k # 2 => k = 1)
        /\ \A b \in 1..k : b = 1 \/ b = k
    OBVIOUS
  <1>5. /\ x \in Node /\ y \in Node /\ h \in Node /\ x # h /\ y # h
        /\ k = 2 => x # y
        /\ k # 2 => x = y
    BY <1>1, <1>2, <1>3, <1>4
  <1>6. PICK q : q = Relinked(w)
    OBVIOUS
  <1>7. /\ q \in Pointers /\ q.Head = h /\ q.Tail = w.q.Tail
        /\ k = 2 => q.Next[x] = y
        /\ \A z \in Node : z # x => q.Next[z] = w.q.Next[z]
    <2>1. CASE k = 1
      <3>1. q = w.q
        BY <1>6, <2>1 DEF Relinked
      <3> QED
        BY <1>1, <2>1, <3>1
    <2>2. CASE k = 2
      <3>1. q = [w.q EXCEPT !.Next[x] = y]
        BY <1>2, <1>3, <1>6, <2>2 DEF Relinked
      <3>2. PICK o : o = w.q
        OBVIOUS
      <3>3. NextSet(q, o, x, y)
        BY <1>5, <3>1, <3>2 DEF NextSet
      <3> QED
        BY <1>1, <3>2, <3>3, NextUpdate
    <2> QED
      BY <2>1, <2>2
  <1>8. PICK v : v = q.Next[h]
    OBVIOUS
  <1>9. v = w.q.Next[h] /\ v \in Node \cup {nil}
    BY <1>5, <1>7, <1>8 DEF Pointers
  <1>10. PICK q2 : q2 = [q EXCEPT !.Next[h] = x]
    OBVIOUS
  <1>11. /\ q2 \in Pointers /\ q2.Head = h /\ q2.Tail = w.q.Tail /\ q2.Next[h] = x
         /\ \A z \in Node : z # h => q2.Next[z] = q.Next[z]
    <2>1. NextSet(q2, q, h, x)
      BY <1>5, <1>7, <1>10 DEF NextSet
    <2> QED
      BY <1>7, <2>1, NextUpdate
  <1>12. PICK q3 : q3 = [q2 EXCEPT !.Next[y] = v]
    OBVIOUS
  <1>13. /\ q3 \in Pointers /\ q3.Head = h /\ q3.Tail = w.q.Tail /\ q3.Next[y] = v
         /\ \A z \in Node : z # y => q3.Next[z] = q2.Next[z]
    <2>1. NextSet(q3, q2, y, v)
      BY <1>5, <1>9, <1>11, <1>12 DEF NextSet
    <2> QED
      BY <1>11, <2>1, NextUpdate
  <1>14. Restored(w) = q3
    BY <1>2, <1>3, <1>6, <1>7, <1>8, <1>10, <1>12 DEF Restored
  <1>15. q3.Next[h] = x /\ (k = 2 => q3.Next[x] = y)
    BY <1>5, <1>7, <1>11, <1>13
  <1>16. ASSUME NEW z \in Node, z # h, \A b \in 1..k : w.took[b] # z PROVE q3.Next[z] = w.q.Next[z]
    <2>1. z # x /\ z # y
      BY <1>2, <1>3, <1>4, <1>16
    <2> QED
      BY <1>7, <1>11, <1>13, <1>16, <2>1
  <1> QED
    BY <1>1, <1>2, <1>3, <1>9, <1>13, <1>14, <1>15, <1>16

\* Not every id was found: what was taken is linked in behind the head.
LEMMA BatchRestoredSteps ==
    ASSUME NEW w, NEW p, NEW m, NEW T, NEW t, NEW n, Taken(w, p, m, T, t, n),
           0 < Len(w.took), ~Queue!RestorePanics(T),
           Returns(Restored(w), node, TRUE), UNCHANGED <<pool, Amount, dlq>>
    PROVE  HeapInv' /\ Queue!BatchRestored(T)
  <1> DEFINE K == Kept(T, m, t)
             at == Queue!TailAmong(K, T)
             k == Len(w.took)
             to == IF t \in T /\ t \notin T \ {1} THEN 2 ELSE IF at > 1 THEN at + k ELSE at
  <1>1. /\ K \in SUBSET (1..m) /\ m \in Nat /\ Queue!KeptBy(T) = K
        /\ (Queue!TookTail(T) <=> t \in T \ {1}) /\ Queue!Cardinality(T) = k
    BY TakenKept
  <1>2. /\ w.q \in Pointers /\ T \in SUBSET (1..m) /\ Took(w.took, p, T)
        /\ ListAlong(ll, node, pool, p, m) /\ TailAt(ll, p, m, t) /\ t = view.tail
        /\ Walked(w, p, m, T, t, n)
        /\ t \notin T \ {1} => w.q.Tail = ll.Tail
        /\ t \in T \ {1} => LastAt(w.q.Tail, p, K)
    BY DEF Taken, Walked
  <1>3. p \in [1..m -> Node] /\ (\A i, j \in 1..m : p[i] = p[j] => i = j)
    BY <1>2 DEF ListAlong, Linked
  <1>4. PICK l, f : Lists(f, l, K)
    <2> HIDE DEF K
    <2> QED
      BY <1>1, ListsExist
  <1>5. PICK s : s = [a \in 1..l |-> p[f[a]]]
    OBVIOUS
  <1>6. ListAlong(w.q, node, pool, s, l) /\ TailAt(w.q, s, l, at)
    BY <1>2, <1>4, <1>5, KeptAlong
  <1>7. w.took \in Seq(Node) /\ k \in Nat \ {0} /\ w.took \in [1..k -> Node]
    BY <1>2 DEF Took
  <1>8. PICK g : Lists(g, k, T) /\ \A b \in 1..k : w.took[b] = p[g[b]]
    BY <1>2 DEF Took
  <1>9. K \cap T = {}
    BY DEF Kept
  <1>10. K # {} /\ (k = 1 \/ k = 2) /\ (k = 2 => t \in T \ {1})
    <2>1. K # {} /\ ~(k = 2 /\ t \notin T \ {1}) /\ ~(k > 2)
      BY <1>1 DEF Queue!RestorePanics
    <2>2. \A i \in Nat \ {0} : i > 2 \/ i = 1 \/ i = 2
      OBVIOUS
    <2> QED
      BY <1>7, <2>1, <2>2
  <1> HIDE DEF K, at, k
  <1>11. /\ l \in Nat \ {0} /\ \A a \in 1..l : f[a] \in K /\ f[a] \in 1..m
         /\ \A i \in K : \E a \in 1..l : f[a] = i
    BY <1>1, <1>4, <1>10, ListsNeighbours DEF Lists
  <1>12. \A b \in 1..k : g[b] \in T /\ g[b] \in 1..m
    BY <1>2, <1>8, ListsNeighbours
  <1>13. \A a, b \in 1..k : w.took[a] = w.took[b] => a = b
    <2>1. \A a, b \in 1..k : g[a] = g[b] => a = b
      BY <1>8, ListsNeighbours
    <2> QED
      BY <1>3, <1>8, <1>12, <2>1
  <1>14. \A a \in 1..l, b \in 1..k : s[a] # w.took[b]
    BY <1>3, <1>5, <1>8, <1>9, <1>11, <1>12
  <1>15. Linked(w.q.Head, w.q.Next, s, l) /\ w.q.Head = s[1] /\ w.q.Head \in Node /\ 1 \in 1..l
    BY <1>6, <1>11 DEF ListAlong, Linked
  <1>16. PICK q : q = Restored(w)
    OBVIOUS
  <1>17. /\ q \in Pointers /\ q.Head = w.q.Head /\ q.Tail = w.q.Tail
         /\ q.Next[w.q.Head] = w.took[1]
         /\ q.Next[w.took[k]] = w.q.Next[w.q.Head]
         /\ k = 2 => q.Next[w.took[1]] = w.took[2]
         /\ \A z \in Node : z # w.q.Head /\ (\A b \in 1..k : w.took[b] # z) => q.Next[z] = w.q.Next[z]
    <2>1. /\ w.q \in Pointers /\ (k = 1 \/ k = 2) /\ w.took \in Seq(Node) /\ Len(w.took) = k
          /\ w.q.Head \in Node /\ \A b \in 1..k : w.took[b] # w.q.Head
      BY <1>2, <1>7, <1>10, <1>14, <1>15 DEF k
    <2>2. k = 2 => w.took[1] # w.took[2]
      <3>1. k = 2 => 1 \in 1..k /\ 2 \in 1..k
        OBVIOUS
      <3> QED
        BY <1>13, <3>1
    <2> QED
      BY <1>16, <2>1, <2>2, RestoredPointers
  <1>18. Inserts(w.q.Next, q.Next, s, l, w.took, k)
    <2>1. ASSUME NEW b \in 1..k PROVE q.Next[w.took[b]] = IF b = k THEN w.q.Next[s[1]] ELSE w.took[b + 1]
      <3>1. CASE b = k
        BY <1>15, <1>17, <3>1
      <3>2. CASE b # k
        <4>1. k = 2 /\ b = 1 /\ b + 1 = 2
          BY <1>10, <3>2
        <4> QED
          BY <1>17, <3>2, <4>1
      <3> QED
        BY <3>1, <3>2
    <2>2. ASSUME NEW a \in 1..l, a # 1 PROVE q.Next[s[a]] = w.q.Next[s[a]]
      <3>1. s[a] \in Node /\ s[a] # w.q.Head /\ \A b \in 1..k : w.took[b] # s[a]
        BY <1>14, <1>15, <2>2 DEF Linked
      <3> QED
        BY <1>17, <3>1
    <2>3. q.Next[s[1]] = w.took[1]
      BY <1>15, <1>17
    <2> QED
      BY <1>7, <1>11, <1>13, <1>14, <2>1, <2>2, <2>3 DEF Inserts
  <1>19. PICK r : r = Inserted(s, l, w.took, k)
    OBVIOUS
  <1>20. /\ 1 \in 1..(l + k) /\ r[1] = s[1]
         /\ \A b \in 1..k : b + 1 \in 1..(l + k) /\ r[b + 1] = w.took[b]
         /\ \A a \in 1..l : a # 1 => a + k \in 1..(l + k) /\ r[a + k] = s[a]
         /\ \A i \in 1..(l + k) : \/ i = 1
                                  \/ \E b \in 1..k : i = b + 1
                                  \/ \E a \in 1..l : a # 1 /\ i = a + k
    <2>1. Behind(r, s, l, w.took, k)
      BY <1>18, <1>19, InsertedAt
    <2> QED
      BY <2>1 DEF Behind
  <1>21. Linked(q.Head, q.Next, r, l + k)
    BY <1>15, <1>17, <1>18, <1>19, InsertedLinked
  <1>22. \A i \in 1..(l + k) : (\E a \in 1..l : r[i] = s[a]) \/ (\E b \in 1..k : r[i] = w.took[b])
    BY <1>15, <1>20
  <1>23. ListAlong(q, node, pool, r, l + k)
    <2>1. w.q.Tail # nil /\ node \in [Node -> Content] /\ PoolClean(w.q, node, pool, s, l)
      BY <1>6, <1>11 DEF ListAlong
    <2>2. PoolClean(ll, node, pool, p, m)
      BY <1>2 DEF ListAlong
    <2>3. pool \in Seq(Node) /\ \A i, j \in 1..Len(pool) : pool[i] = pool[j] => i = j
      BY <2>1 DEF PoolClean
    <2>4. ASSUME NEW i \in 1..Len(pool)
          PROVE  /\ node[pool[i]] = Clean /\ q.Next[pool[i]] = nil /\ pool[i] # q.Tail
                 /\ \A j \in 1..(l + k) : r[j] # pool[i]
      <3>1. /\ pool[i] \in Node /\ node[pool[i]] = Clean /\ w.q.Next[pool[i]] = nil
            /\ pool[i] # w.q.Tail /\ \A a \in 1..l : s[a] # pool[i]
        BY <2>1, <2>3 DEF PoolClean
      <3>2. \A b \in 1..k : w.took[b] # pool[i]
        BY <1>8, <1>12, <2>2 DEF PoolClean
      <3>3. q.Next[pool[i]] = nil
        BY <1>15, <1>17, <3>1, <3>2
      <3>4. \A j \in 1..(l + k) : r[j] # pool[i]
        BY <1>22, <3>1, <3>2
      <3> QED
        BY <1>17, <3>1, <3>3, <3>4
    <2>5. PoolClean(q, node, pool, r, l + k)
      BY <2>3, <2>4 DEF PoolClean
    <2> QED
      BY <1>17, <1>21, <2>1, <2>5 DEF ListAlong
  <1>24. TailAt(q, r, l + k, to)
    <2>1. CASE t \in T /\ t \notin T \ {1}
      <3>1. t = 1 /\ k = 1 /\ to = 2 /\ 1 \in 1..k /\ p[1] = q.Tail /\ 1 \in 1..m
        BY <1>2, <1>10, <1>17, <2>1 DEF TailAt
      <3>2. g[1] = 1
        <4>1. PICK b \in 1..k : g[b] = t
          BY <1>8, <2>1 DEF Lists
        <4> QED
          BY <3>1, <4>1
      <3>3. w.took[1] = q.Tail
        BY <1>8, <3>1, <3>2
      <3>4. 1 + 1 \in 1..(l + k) /\ r[1 + 1] = w.took[1]
        BY <1>20, <3>1
      <3>5. 2 \in 1..(l + k) /\ r[2] = q.Tail
        BY <3>3, <3>4
      <3> QED
        BY <3>1, <3>5 DEF TailAt
    <2>2. CASE ~(t \in T /\ t \notin T \ {1})
      <3>1. to = IF at > 1 THEN at + k ELSE at
        BY <2>2
      <3>2. CASE at \in 1..l /\ s[at] = w.q.Tail
        <4>1. CASE at = 1
          <5>1. to = 1 /\ r[1] = q.Tail
            BY <1>17, <1>20, <3>1, <3>2, <4>1
          <5> QED
            BY <1>20, <5>1 DEF TailAt
        <4>2. CASE at # 1
          <5>1. to = at + k
            BY <3>1, <3>2, <4>2
          <5> QED
            BY <1>17, <1>20, <3>2, <4>2, <5>1 DEF TailAt
        <4> QED
          BY <4>1, <4>2
      <3>3. CASE at = 0 /\ \A a \in 1..l : s[a] # w.q.Tail
        <4>1. t \notin T
          <5>1. SUFFICES ASSUME t \in T \ {1} PROVE FALSE
            BY <2>2
          <5>2. PICK i \in K : w.q.Tail = p[i]
            BY <1>2, <1>10, <5>1 DEF LastAt
          <5>3. PICK a \in 1..l : f[a] = i
            BY <1>11, <5>2
          <5> QED
            BY <1>5, <3>3, <5>2, <5>3
        <4>2. \A b \in 1..k : w.took[b] # ll.Tail
          BY <1>2, <1>3, <1>8, <1>12, <4>1 DEF TailAt
        <4>3. w.q.Tail = ll.Tail
          BY <1>2, <4>1
        <4>4. \A i \in 1..(l + k) : r[i] # q.Tail
          BY <1>17, <1>22, <3>3, <4>2, <4>3
        <4>5. to = 0
          BY <3>1, <3>3
        <4> QED
          BY <4>4, <4>5 DEF TailAt
      <3> QED
        BY <1>6, <3>2, <3>3 DEF TailAt
    <2> QED
      BY <2>1, <2>2
  <1> HIDE DEF to
  <1>25. HeapInv' /\ (view.msgs)' = [i \in 1..(l + k) |-> node[r[i]]] /\ (view.tail)' = to
    <2>1. PICK e : e = TRUE
      OBVIOUS
    <2>2. PICK d : d = l + k
      OBVIOUS
    <2>3. Returns(q, node, e) /\ ListAlong(q, node, pool', r, d) /\ TailAt(q, r, d, to)
      BY <1>16, <1>23, <1>24, <2>1, <2>2
    <2>4. HeapInv' /\ (view.msgs)' = [i \in 1..d |-> node[r[i]]] /\ (view.tail)' = to
      BY ONLY <2>3, ReturnsAlong
    <2> QED
      BY <2>2, <2>4
  <1>26. f \in Queue!InOrder(K) /\ Queue!Cardinality(K) = l /\ g \in Queue!InOrder(T)
    BY <1>4, <1>8, ListsInOrder
  <1>27. [i \in 1..(l + k) |-> node[r[i]]] =
           [i \in 1..(l + k) |-> IF i = 1 THEN view.msgs[f[1]]
                                 ELSE IF i <= k + 1 THEN view.msgs[g[i - 1]] ELSE view.msgs[f[i - k]]]
    <2> SUFFICES ASSUME NEW i \in 1..(l + k)
                 PROVE  node[r[i]] = IF i = 1 THEN view.msgs[f[1]]
                                     ELSE IF i <= k + 1 THEN view.msgs[g[i - 1]] ELSE view.msgs[f[i - k]]
      OBVIOUS
    <2>0. view.msgs = [j \in 1..m |-> node[p[j]]]
      BY DEF Taken
    <2>1. \A a \in 1..l : view.msgs[f[a]] = node[s[a]]
      BY <1>5, <1>11, <2>0
    <2>2. \A b \in 1..k : view.msgs[g[b]] = node[w.took[b]]
      BY <1>8, <1>12, <2>0
    <2>3. CASE i = 1
      BY <1>15, <1>20, <2>1, <2>3
    <2>4. ASSUME NEW b \in 1..k, i = b + 1
          PROVE node[r[i]] = IF i = 1 THEN view.msgs[f[1]]
                             ELSE IF i <= k + 1 THEN view.msgs[g[i - 1]] ELSE view.msgs[f[i - k]]
      <3>1. i # 1 /\ i <= k + 1 /\ i - 1 = b
        BY <1>7, <2>4
      <3> QED
        BY <1>20, <2>2, <2>4, <3>1
    <2>5. ASSUME NEW a \in 1..l, a # 1, i = a + k
          PROVE node[r[i]] = IF i = 1 THEN view.msgs[f[1]]
                             ELSE IF i <= k + 1 THEN view.msgs[g[i - 1]] ELSE view.msgs[f[i - k]]
      <3>1. i # 1 /\ ~(i <= k + 1) /\ i - k = a
        BY <1>7, <2>5
      <3> QED
        BY <1>20, <2>1, <2>5, <3>1
    <2> QED
      BY <1>20, <2>3, <2>4, <2>5
  <1>28. Queue!Returns(TRUE) /\ UNCHANGED <<Amount, dlq>>
    BY DEF Returns, Queue!Returns
  <1>29. to = IF view.tail \in T /\ ~Queue!TookTail(T) THEN 2 ELSE IF at > 1 THEN at + k ELSE at
    BY <1>1, <1>2 DEF to
  <1>30. \E a \in Queue!InOrder(Queue!KeptBy(T)), b \in Queue!InOrder(T) :
           (view.msgs)' = [i \in 1..(Queue!Cardinality(Queue!KeptBy(T)) + Queue!Cardinality(T)) |->
                             IF i = 1 THEN view.msgs[a[1]]
                             ELSE IF i <= Queue!Cardinality(T) + 1 THEN view.msgs[b[i - 1]]
                             ELSE view.msgs[a[i - Queue!Cardinality(T)]]]
    <2>1. (view.msgs)' = [i \in 1..(Queue!Cardinality(K) + Queue!Cardinality(T)) |->
                             IF i = 1 THEN view.msgs[f[1]]
                             ELSE IF i <= Queue!Cardinality(T) + 1 THEN view.msgs[g[i - 1]]
                             ELSE view.msgs[f[i - Queue!Cardinality(T)]]]
      <3>1. (view.msgs)' = [i \in 1..(l + k) |-> IF i = 1 THEN view.msgs[f[1]]
                              ELSE IF i <= k + 1 THEN view.msgs[g[i - 1]] ELSE view.msgs[f[i - k]]]
        BY <1>25, <1>27
      <3>2. Queue!Cardinality(K) = l /\ Queue!Cardinality(T) = k
        BY <1>1, <1>26
      <3> QED
        BY ONLY <3>1, <3>2
    <2> QED
      BY <1>1, <1>26, <2>1
  <1>31. (view.tail)' = to
    BY <1>25
  <1>32. Queue!BatchRestored(T)
    <2>1. (view.tail)' = IF view.tail \in T /\ ~Queue!TookTail(T) THEN 2
                         ELSE IF Queue!TailAmong(Queue!KeptBy(T), T) > 1
                         THEN Queue!TailAmong(Queue!KeptBy(T), T) + Queue!Cardinality(T)
                         ELSE Queue!TailAmong(Queue!KeptBy(T), T)
      BY <1>1, <1>29, <1>31 DEF at
    <2> QED
      BY ONLY <1>28, <1>30, <2>1 DEF Queue!BatchRestored
  <1> QED
    BY <1>25, <1>32

\* Batch ack
LEMMA UnlockAndEmptyBatchSteps ==
    ASSUME HeapInv, Queue!TailShape, NEW c, NEW ids \in Batches, UnlockAndEmptyBatch(c, ids)
    PROVE  HeapInv' /\ Queue!UnlockAndEmptyBatch(c, ids)
  <1>1. PICK m, p : /\ ListAlong(ll, node, pool, p, m)
                    /\ Chain(ll) = p /\ DOMAIN p = 1..m /\ m \in Nat
                    /\ view.msgs = [k \in 1..m |-> node[p[k]]] /\ Len(view.msgs) = m
                    /\ TailHere(p, m)
    BY HeapAlong
  <1>2. ids \in Seq(Ids) /\ Len(ids) \in Nat
    BY BatchIsSeq
  <1>3. ll.Head = nil <=> view.msgs = <<>>
    <2>1. (ll.Head = nil <=> m = 0) /\ p \in [1..m -> Node]
      <3>1. /\ ll.Head = IF m = 0 THEN nil ELSE p[1]
            /\ p \in [1..m -> Node]
        BY <1>1 DEF ListAlong, Linked
      <3>2. m # 0 => p[1] \in Node
        BY <1>1, <3>1
      <3>3. nil \notin Node
        BY LinkedListAssumption DEF nil, Node
      <3> QED
        BY <3>1, <3>2, <3>3
    <2>2. m = 0 <=> view.msgs = <<>>
      <3>1. view.msgs \in [1..m -> {node[x] : x \in Node}]
        BY <1>1, <2>1
      <3>2. view.msgs \in Seq({node[x] : x \in Node})
        BY <1>1, <3>1
      <3> QED
        BY <1>1, <3>2
    <2> QED
      BY <2>1, <2>2
  <1> DEFINE w == TakeAll(c, ids)
             n == Len(w.took)
             T == Queue!TakenBy(c, ids)
  <1>4. status = "up"
    BY DEF UnlockAndEmptyBatch
  <1>5. CASE ll.Head = nil /\ Refuses(TRUE)
    <2>1. HeapInv' /\ Queue!Refuses(TRUE)
      BY <1>5, RefusesSteps
    <2> QED
      BY <1>3, <1>4, <1>5, <2>1 DEF Queue!UnlockAndEmptyBatch
  <1>6. CASE ll.Head # nil /\ Len(ids) = 1 /\ UnlockAndEmptyOne(c, ids[1])
    <2>1. HeapInv' /\ Queue!UnlockAndEmptyOne(c, ids[1])
      BY <1>6, UnlockAndEmptyOneSteps
    <2> QED
      BY <1>3, <1>4, <1>6, <2>1 DEF Queue!UnlockAndEmptyBatch
  <1>7. ASSUME ll.Head # nil, Len(ids) # 1
        PROVE  \E t : Taken(w, p, m, T, t, Len(ids)) /\ Queue!Cardinality(T) = n /\ n \in Nat /\ n <= Len(ids)
    <2>1. PICK t : t = view.tail
      OBVIOUS
    <2>2. PICK M : M = {k \in 1..m : Mine(p[k], c, ids)}
      OBVIOUS
    <2>3. Batch(p, m, M, t, c, ids)
      BY <1>1, <1>2, <1>7, <2>1, <2>2 DEF Batch, TailHere
    <2>4. Walked(w, p, m, T, t, Len(ids))
      BY <1>1, <1>7, <2>1, <2>3, TakenWalked
    <2> HIDE DEF w, T
    <2>5. Taken(w, p, m, T, t, Len(ids))
      BY <1>1, <2>1, <2>4 DEF Taken, TailHere
    <2>6. Queue!Cardinality(T) = Len(w.took)
      BY <2>5, TakenKept
    <2>7. Len(w.took) \in Nat /\ Len(w.took) <= Len(ids)
      BY <2>4 DEF Walked, Took
    <2> QED
      BY <2>5, <2>6, <2>7
  <1>8. ASSUME ll.Head # nil, Len(ids) # 1, Amount < Len(ids) \/ n = 0, Refuses(TRUE)
        PROVE  HeapInv' /\ Queue!UnlockAndEmptyBatch(c, ids)
    <2>1. HeapInv' /\ Queue!Refuses(TRUE)
      BY <1>8, RefusesSteps
    <2>2. Amount < Len(ids) \/ Queue!Cardinality(T) = 0
      BY <1>7, <1>8
    <2> QED
      BY <1>3, <1>4, <1>8, <2>1, <2>2 DEF Queue!UnlockAndEmptyBatch
  <1>9. ASSUME ll.Head # nil, Len(ids) # 1, Amount >= Len(ids), n > 0, n = Len(ids),
               Returns(w.q, node, FALSE), UNCHANGED <<pool, Amount, dlq>>
        PROVE  HeapInv' /\ Queue!UnlockAndEmptyBatch(c, ids)
    <2>1. PICK t : Taken(w, p, m, T, t, Len(ids)) /\ Queue!Cardinality(T) = n
      BY <1>7, <1>9
    <2>2. HeapInv' /\ Queue!BatchSettled(T)
      <3> HIDE DEF w, T
      <3> QED
        BY <1>9, <2>1, BatchSettledSteps
    <2>3. Queue!Cardinality(T) > 0 /\ Queue!Cardinality(T) = Len(ids)
      BY <1>9, <2>1
    <2> QED
      BY <1>3, <1>4, <1>9, <2>2, <2>3 DEF Queue!UnlockAndEmptyBatch
  <1>10. ASSUME ll.Head # nil, Len(ids) # 1, Amount >= Len(ids), n > 0, n < Len(ids),
                RelinkPanics(w), Panics
         PROVE  HeapInv' /\ Queue!UnlockAndEmptyBatch(c, ids)
    <2>1. PICK t : Taken(w, p, m, T, t, Len(ids)) /\ Queue!Cardinality(T) = n
      BY <1>7, <1>10
    <2>2. HeapInv' /\ Queue!Panics
      BY <1>10, PanicsSteps
    <2>3. Queue!RestorePanics(T)
      <3> HIDE DEF w, T
      <3> QED
        BY <1>10, <2>1, RelinkPanicsIs
    <2>4. Queue!Cardinality(T) > 0 /\ Queue!Cardinality(T) < Len(ids)
      BY <1>10, <2>1
    <2> QED
      BY <1>3, <1>4, <1>10, <2>2, <2>3, <2>4 DEF Queue!UnlockAndEmptyBatch
  <1>11. ASSUME ll.Head # nil, Len(ids) # 1, Amount >= Len(ids), n > 0, n < Len(ids),
                ~RelinkPanics(w), Returns(Restored(w), node, TRUE), UNCHANGED <<pool, Amount, dlq>>
         PROVE  HeapInv' /\ Queue!UnlockAndEmptyBatch(c, ids)
    <2>1. PICK t : Taken(w, p, m, T, t, Len(ids)) /\ Queue!Cardinality(T) = n /\ n \in Nat
      BY <1>7, <1>11
    <2>2. 0 < n
      BY <1>11, <2>1
    <2>3. ~Queue!RestorePanics(T)
      <3> HIDE DEF w, T
      <3> QED
        BY <1>11, <2>1, RelinkPanicsIs
    <2>4. HeapInv' /\ Queue!BatchRestored(T)
      <3> HIDE DEF w, T
      <3> QED
        BY <1>11, <2>1, <2>2, <2>3, BatchRestoredSteps
    <2>5. Queue!Cardinality(T) > 0 /\ Queue!Cardinality(T) < Len(ids)
      BY <1>11, <2>1
    <2> QED
      BY <1>3, <1>4, <1>11, <2>3, <2>4, <2>5 DEF Queue!UnlockAndEmptyBatch
  <1> QED
    BY <1>5, <1>6, <1>8, <1>9, <1>10, <1>11 DEF UnlockAndEmptyBatch

-----------------------------------------------------------------------------
(* The specification *)

\* Every call is a call of the queue.
LEMMA NextSteps ==
    ASSUME HeapInv, Queue!TailShape, [Next]_vars
    PROVE  HeapInv' /\ [Queue!Next]_(Queue!vars)
  <1>1. ASSUME NEW id \in Ids, Enqueue(id) PROVE HeapInv' /\ Queue!Next
    BY <1>1, EnqueueSteps DEF Queue!Next, Queue!SingleNext
  <1>2. ASSUME NEW ids \in Batches, BatchEnqueue(ids) PROVE HeapInv' /\ Queue!Next
    <2>1. ids \in Queue!Batches
      BY DEF Batches, Queue!Batches
    <2> QED
      BY <1>2, <2>1, BatchEnqueueSteps DEF Queue!Next, Queue!SingleNext
  <1>3. ASSUME NEW want \in 0..MaxBatch, NEW c \in Consumers, NEW t \in Times, Dequeue(want, c, t)
        PROVE  HeapInv' /\ Queue!Next
    BY <1>3, DequeueSteps DEF Queue!Next, Queue!SingleNext
  <1>4. ASSUME NEW c \in Consumers, NEW id \in Ids, UnlockAndEmpty(c, id) PROVE HeapInv' /\ Queue!Next
    BY <1>4, UnlockAndEmptySteps DEF Queue!Next, Queue!SingleNext
  <1>5. ASSUME NEW c \in Consumers, NEW id \in Ids, Unlock(c, id) PROVE HeapInv' /\ Queue!Next
    BY <1>5, UnlockSteps DEF Queue!Next, Queue!SingleNext
  <1>6. ASSUME NEW c \in Consumers, NEW ids \in Batches, UnlockAndEmptyBatch(c, ids) PROVE HeapInv' /\ Queue!Next
    <2>1. ids \in Queue!Batches
      BY DEF Batches, Queue!Batches
    <2> QED
      BY <1>6, <2>1, UnlockAndEmptyBatchSteps DEF Queue!Next
  <1>7. CASE UNCHANGED vars
    <2>1. HeapInv'
      BY <1>7 DEF vars, HeapInv
    <2> QED
      BY <1>7, <2>1 DEF vars, Queue!vars
  <1> QED
    BY <1>1, <1>2, <1>3, <1>4, <1>5, <1>6, <1>7 DEF Next

\* Counting is counting.
LEMMA CountsAgree ==
    ASSUME NEW S
    PROVE  Queue!Cardinality(S) = MQ!Cardinality(S)
  BY DEF Queue!Cardinality, MQ!Cardinality

\* A step of the queue is a step of the queue that MessageQueueProofs is about.
LEMMA QueueNextIs ==
    ASSUME [Queue!Next]_(Queue!vars)
    PROVE  [MQ!Next]_(MQ!vars)
  <1>1. ASSUME NEW id, Queue!Enqueue(id) PROVE MQ!Enqueue(id)
    BY <1>1 DEF Queue!Enqueue, MQ!Enqueue, Queue!IsFull, MQ!IsFull, Queue!Refuses, MQ!Refuses,
       Queue!Returns, MQ!Returns, Queue!Link, MQ!Link, Queue!Fresh, MQ!Fresh
  <1>2. ASSUME NEW ids, Queue!BatchEnqueue(ids) PROVE MQ!BatchEnqueue(ids)
    BY <1>2 DEF Queue!BatchEnqueue, MQ!BatchEnqueue, Queue!IsFull, MQ!IsFull, Queue!Refuses, MQ!Refuses,
       Queue!Returns, MQ!Returns, Queue!Link, MQ!Link, Queue!Fresh, MQ!Fresh
  <1>3. ASSUME NEW want, NEW c, NEW t, Queue!Dequeue(want, c, t) PROVE MQ!Dequeue(want, c, t)
    <2>1. Queue!Fetched(want, c, t) = MQ!Fetched(want, c, t)
      BY CountsAgree DEF Queue!Fetched, MQ!Fetched, Queue!Smallest, MQ!Smallest, Queue!Available, MQ!Available,
         Queue!Positions, MQ!Positions
    <2> QED
      BY <1>3, <2>1 DEF Queue!Dequeue, MQ!Dequeue, Queue!Returns, MQ!Returns, Queue!Positions, MQ!Positions
  <1>4. ASSUME NEW k, Queue!Unlink(k) PROVE MQ!Unlink(k)
    BY <1>4 DEF Queue!Unlink, MQ!Unlink, Queue!Prefix, MQ!Prefix, Queue!RemoveAtPos, MQ!RemoveAtPos
  <1>5. ASSUME NEW c, NEW id, Queue!UnlockAndEmptyOne(c, id) PROVE MQ!UnlockAndEmptyOne(c, id)
    BY <1>4, <1>5 DEF Queue!UnlockAndEmptyOne, MQ!UnlockAndEmptyOne, Queue!HeldBy, MQ!HeldBy, Queue!Positions, MQ!Positions,
       Queue!Refuses, MQ!Refuses, Queue!Returns, MQ!Returns, Queue!IsFirst, MQ!IsFirst
  <1>6. ASSUME NEW c, NEW id, Queue!UnlockAndEmpty(c, id) PROVE MQ!UnlockAndEmpty(c, id)
    BY <1>5, <1>6 DEF Queue!UnlockAndEmpty, MQ!UnlockAndEmpty
  <1>7. ASSUME NEW k, Queue!HandleThresholdExpire(k) PROVE MQ!HandleThresholdExpire(k)
    BY <1>4, <1>7 DEF Queue!HandleThresholdExpire, MQ!HandleThresholdExpire, Queue!Panics, MQ!Panics,
       Queue!DeadLetterEnqueue, MQ!DeadLetterEnqueue, Queue!Returns, MQ!Returns
  <1>8. ASSUME NEW c, NEW id, Queue!Unlock(c, id) PROVE MQ!Unlock(c, id)
    BY <1>7, <1>8 DEF Queue!Unlock, MQ!Unlock, Queue!Positions, MQ!Positions, Queue!Refuses, MQ!Refuses,
       Queue!Returns, MQ!Returns, Queue!IsFirst, MQ!IsFirst, Queue!Exhausted, MQ!Exhausted
  <1>9. ASSUME NEW k, Queue!SettleDeadLetter(k) PROVE MQ!SettleDeadLetter(k)
    BY <1>9 DEF Queue!SettleDeadLetter, MQ!SettleDeadLetter, Queue!RemoveAtPos, MQ!RemoveAtPos
  <1>10. ASSUME NEW S
         PROVE  /\ Queue!KeptBy(S) = MQ!KeptBy(S) /\ (Queue!TookTail(S) <=> MQ!TookTail(S))
                /\ Queue!InOrder(S) = MQ!InOrder(S)
                /\ \A K : Queue!TailAmong(K, S) = MQ!TailAmong(K, S)
    <2>1. Queue!TookTail(S) <=> MQ!TookTail(S)
      BY DEF Queue!TookTail, MQ!TookTail
    <2>2. Queue!KeptBy(S) = MQ!KeptBy(S)
      BY <2>1 DEF Queue!KeptBy, MQ!KeptBy, Queue!Positions, MQ!Positions
    <2>3. Queue!InOrder(S) = MQ!InOrder(S)
      BY CountsAgree DEF Queue!InOrder, MQ!InOrder
    <2>4. \A K : Queue!TailAmong(K, S) = MQ!TailAmong(K, S)
      BY <2>1, CountsAgree DEF Queue!TailAmong, MQ!TailAmong
    <2> QED
      BY <2>1, <2>2, <2>3, <2>4
  <1>11. ASSUME NEW S, Queue!BatchSettled(S) PROVE MQ!BatchSettled(S)
    BY <1>10, <1>11, CountsAgree DEF Queue!BatchSettled, MQ!BatchSettled, Queue!Returns, MQ!Returns
  <1>12. ASSUME NEW S, Queue!BatchRestored(S) PROVE MQ!BatchRestored(S)
    BY <1>10, <1>12, CountsAgree DEF Queue!BatchRestored, MQ!BatchRestored, Queue!Returns, MQ!Returns
  <1>13. ASSUME NEW S PROVE Queue!RestorePanics(S) <=> MQ!RestorePanics(S)
    BY <1>10, CountsAgree DEF Queue!RestorePanics, MQ!RestorePanics
  <1>14. ASSUME NEW c, NEW ids, Queue!UnlockAndEmptyBatch(c, ids) PROVE MQ!UnlockAndEmptyBatch(c, ids)
    <2>1. Queue!TakenBy(c, ids) = MQ!TakenBy(c, ids)
      BY CountsAgree DEF Queue!TakenBy, MQ!TakenBy, Queue!Smallest, MQ!Smallest, Queue!Positions, MQ!Positions
    <2> QED
      BY <1>5, <1>11, <1>12, <1>13, <1>14, <2>1, CountsAgree DEF Queue!UnlockAndEmptyBatch, MQ!UnlockAndEmptyBatch,
         Queue!Refuses, MQ!Refuses, Queue!Returns, MQ!Returns, Queue!Panics, MQ!Panics
  <1>15. Queue!Batches = MQ!Batches /\ Queue!vars = MQ!vars
    BY DEF Queue!Batches, MQ!Batches, Queue!vars, MQ!vars
  <1>16. CASE Queue!SingleNext
    BY <1>1, <1>2, <1>3, <1>6, <1>8, <1>9, <1>15, <1>16 DEF Queue!SingleNext, MQ!SingleNext, MQ!Next
  <1>17. CASE \E c \in Consumers, ids \in Queue!Batches : Queue!UnlockAndEmptyBatch(c, ids)
    BY <1>14, <1>15, <1>17 DEF MQ!Next
  <1>18. CASE UNCHANGED Queue!vars
    BY <1>18 DEF Queue!vars, MQ!vars
  <1> QED
    BY <1>16, <1>17, <1>18 DEF Queue!Next

\* The pointers are those of a queue that MessageQueueProofs knows.
LLInv == HeapInv /\ MQ!IInv

\* An empty list is an empty queue.
LEMMA InitLLInv == Init => LLInv /\ Queue!Init
  <1> SUFFICES ASSUME Init PROVE LLInv /\ Queue!Init
    OBVIOUS
  <1>1. Queue!Init /\ MQ!Init
    BY DEF Init, Queue!Init, MQ!Init
  <1>2. MQ!IInv
    BY <1>1, MQ!InitIInv, QueueAssumed
  <1>3. PICK p : p = [k \in 1..0 |-> nil]
    OBVIOUS
  <1>4. p \in [1..0 -> Node] /\ 1..0 = {}
    BY <1>3
  <1>5. ll = [Head |-> nil, Tail |-> nil, Next |-> [x \in Node |-> nil]] /\ ll \in Pointers
    BY DEF Init, Pointers
  <1>6. node \in [Node -> Content]
    BY LinkedListAssumption DEF Init, Content, Clean, Queue!QueueAssumption
  <1>7. Linked(ll.Head, ll.Next, p, 0)
    BY <1>4, <1>5 DEF Linked
  <1>8. PoolClean(ll, node, pool, p, 0)
    <2>1. pool = <<>> /\ pool \in Seq(Node) /\ 1..Len(pool) = {}
      BY DEF Init
    <2> QED
      BY <2>1 DEF PoolClean
  <1>9. ListAlong(ll, node, pool, p, 0)
    BY <1>5, <1>6, <1>7, <1>8 DEF ListAlong
  <1>10. view = View(ll, node)
    <2>1. PICK z : z = 0
      OBVIOUS
    <2>a. TailAt(ll, p, z, z) /\ Linked(ll.Head, ll.Next, p, z) /\ ll \in Pointers
      BY <1>4, <1>5, <1>7, <2>1 DEF TailAt
    <2>b. View(ll, node).msgs = [k \in 1..z |-> node[p[k]]] /\ View(ll, node).tail = z
      BY ONLY <2>a, ViewAlong
    <2>2. View(ll, node).msgs = [k \in 1..0 |-> node[p[k]]] /\ View(ll, node).tail = 0
      BY <2>1, <2>b
    <2>3. [k \in 1..0 |-> node[p[k]]] = <<>>
      BY <1>4
    <2>4. View(ll, node) = [msgs |-> View(ll, node).msgs, tail |-> View(ll, node).tail]
      BY DEF View
    <2> QED
      BY <2>2, <2>3, <2>4 DEF Init
  <1> QED
    BY <1>1, <1>2, <1>9, <1>10 DEF LLInv, HeapInv

\* Every call keeps the invariant and is a call of the queue.
LEMMA NextLLInv ==
    ASSUME LLInv, [Next]_vars
    PROVE  LLInv' /\ [Queue!Next]_(Queue!vars)
  <1>1. Queue!TailShape
    BY DEF LLInv, MQ!IInv, MQ!TailShape, Queue!TailShape
  <1>2. HeapInv' /\ [Queue!Next]_(Queue!vars)
    BY <1>1, NextSteps DEF LLInv
  <1>3. [MQ!Next]_(MQ!vars)
    BY <1>2, QueueNextIs
  <1>4. MQ!IInv'
    BY <1>3, MQ!NextIInv, QueueAssumed DEF LLInv
  <1> QED
    BY <1>2, <1>4 DEF LLInv

\* The invariant of the induction holds of every behaviour.
LEMMA LLInductive == Spec => []LLInv
  <1>1. Init => LLInv
    BY InitLLInv
  <1>2. LLInv /\ [Next]_vars => LLInv'
    BY NextLLInv
  <1> QED
    BY <1>1, <1>2, PTL DEF Spec

-----------------------------------------------------------------------------
(* Theorems *)

\* Whatever clients do, batch acknowledgement included, the pool of NodeObjectPool
\* holds each node once and clean, and no node of the chain nor Tail is in it.
THEOREM PoolIsIsolated == Spec => []PoolIsolated
  <1>1. ASSUME LLInv PROVE PoolIsolated
    <2>1. PICK m, p : /\ ListAlong(ll, node, pool, p, m)
                      /\ Chain(ll) = p /\ DOMAIN p = 1..m /\ m \in Nat
      BY <1>1, HeapAlong DEF LLInv
    <2>2. PoolClean(ll, node, pool, p, m)
      BY <2>1 DEF ListAlong
    <2>3. pool \in Seq(Node) /\ DOMAIN pool = 1..Len(pool)
      BY <2>2 DEF PoolClean
    <2>4. IsInjective(pool)
      BY <2>2, <2>3 DEF PoolClean, IsInjective
    <2>5. ASSUME NEW i \in DOMAIN pool
          PROVE  /\ node[pool[i]] = Clean /\ ll.Next[pool[i]] = nil
                 /\ pool[i] \notin Range(Chain(ll)) \cup {ll.Tail}
      BY <2>1, <2>2, <2>3 DEF PoolClean, Range
    <2> QED
      BY <2>4, <2>5 DEF PoolIsolated
  <1> QED
    BY <1>1, LLInductive, PTL

\* The chain of LinkedList never closes into a cycle, so every walk along it ends,
\* and a list with a Head has a Tail.
THEOREM ChainAlwaysEnds == Spec => []ChainEnds
  <1>1. ASSUME LLInv PROVE ChainEnds
    <2>1. PICK m, p : ListAlong(ll, node, pool, p, m)
      BY <1>1 DEF LLInv, HeapInv
    <2>2. ll \in Pointers /\ Linked(ll.Head, ll.Next, p, m) /\ (m # 0 => ll.Tail # nil)
      BY <2>1 DEF ListAlong
    <2>3. Acyclic(ll)
      BY <2>2, LinkedChain
    <2>4. ll.Head # nil => m # 0
      BY <2>2 DEF Linked
    <2> QED
      BY <2>2, <2>3, <2>4 DEF ChainEnds
  <1> QED
    BY <1>1, LLInductive, PTL

\* Every method of LinkedList does to the pointers what MessageQueue says it does to
\* the sequence: what is proved of MessageQueue holds of the list.
THEOREM ListImplementsQueue == Spec => ImplementsQueue
  <1>1. Init => Queue!Init
    BY InitLLInv
  <1>2. LLInv /\ [Next]_vars => [Queue!Next]_(Queue!vars)
    BY NextLLInv
  <1> QED
    BY <1>1, <1>2, LLInductive, PTL DEF Spec, ImplementsQueue, Queue!Spec

=============================================================================
