----------------------------- MODULE LinkedList -----------------------------
(***************************************************************************)
(* core.LinkedList on the heap: nodes with Next pointers, the Head and     *)
(* Tail pointers, the Amount counter and the pool that recycles nodes.     *)
(*                                                                         *)
(* Each method holds ll.mutex throughout and is one action.  The pointers  *)
(* are one record `ll', and pointer surgery is an operator from `ll' to    *)
(* `ll', so that its assignments happen in the order of the code.  A node  *)
(* is a number, its address; 0 is nil.                                     *)
(***************************************************************************)
EXTENDS Integers, Sequences, FiniteSets, SequencesExt

CONSTANTS Ids, Consumers, None, Cap, FetchLimit, NodeTTL, Times, MaxBatch, DeadLetter,
          MaxNodes   \* bound: heap cells; more than chain, pool and a stale Tail need

VARIABLES
    ll,       \* Head, Tail and the Next pointer of every node
    node,     \* what else is in every node
    pool,     \* objPool, the nodes to be used again, first in first out
    Amount,   \* ll.Amount
    dlq,      \* the ids that expired here and are still in the dead-letter queue
    failed,   \* did the last call return an error (or, for Unlock, false)
    status,   \* "up", or "panic" after a nil dereference
    view      \* auxiliary: the list as MessageQueue sees it, always View(ll, node)

vars == <<ll, node, pool, Amount, dlq, failed, status, view>>

\* What MessageQueue says of the calls, and of the numbers a queue is made with.
Queue == INSTANCE MessageQueue WITH
    msgs <- view.msgs, tail <- view.tail, amount <- Amount

ASSUME LinkedListAssumption ==
    /\ Queue!QueueAssumption
    /\ MaxNodes \in Nat

nil == 0
Node == 1..MaxNodes
Clean == [id |-> nil, owner |-> None, time |-> 0, fetched |-> 0]

Init ==
    /\ ll = [Head |-> nil, Tail |-> nil, Next |-> [n \in Node |-> nil]]
    /\ node = [n \in Node |-> Clean]
    /\ pool = <<>>
    /\ Amount = 0
    /\ dlq = <<>>
    /\ failed = FALSE
    /\ status = "up"
    /\ view = [msgs |-> <<>>, tail |-> 0]

Batches == UNION {[1..n -> Ids] : n \in 0..MaxBatch}

-----------------------------------------------------------------------------
(* Walking *)

\* The nodes met from n along Next; one more than there are nodes, so that a walk
\* that does not end in nil is in a cycle.
Walk(q, n) ==
    LET at[k \in 0..MaxNodes] ==
          IF k = 0 THEN n ELSE IF at[k - 1] = nil THEN nil ELSE q.Next[at[k - 1]]
    IN  at

Acyclic(q) == Walk(q, q.Head)[MaxNodes] = nil

\* The chain from Head as a sequence of nodes (for an acyclic chain).
Chain(q) ==
    LET at == Walk(q, q.Head)
    IN  [k \in 1..Cardinality({j \in 0..MaxNodes : at[j] # nil}) |-> at[k - 1]]

\* The chain as a sequence of messages, and the position of Tail in it.
View(q, contents) ==
    LET chain == Chain(q)
    IN  [msgs |-> [k \in DOMAIN chain |-> contents[chain[k]]],
         tail |-> IF \E k \in DOMAIN chain : chain[k] = q.Tail
                  THEN CHOOSE k \in DOMAIN chain : chain[k] = q.Tail ELSE 0]

\* The nodes that the list still refers to; the others are garbage.
Reachable == UNION {Range(Walk(ll, n)) : n \in {ll.Head, ll.Tail} \cup Range(pool)}

-----------------------------------------------------------------------------
(* Outcomes of a call *)

Returns(q, contents, err) ==
    /\ ll' = q
    /\ node' = contents
    /\ view' = View(q, contents)
    /\ failed' = err
    /\ status' = status

Refuses(err) == Returns(ll, node, err) /\ UNCHANGED <<pool, Amount, dlq>>

Panics == status' = "panic" /\ UNCHANGED <<ll, node, pool, Amount, dlq, failed, view>>

-----------------------------------------------------------------------------
(* NodeObjectPool *)

\* Mutant of Reset: the Next pointer survives.
ResetKeepsNext(q, n) == q

\* The pointer of a node that is reset; ReleaseObject clears the rest of it.
Reset(q, n) == [q EXCEPT !.Next[n] = nil]

\* n goes back to the pool, unless that is full; the pointers are q by then.
ReleaseObject(q, contents, n) ==
    /\ pool' = IF Len(pool) < Cap THEN Append(pool, n) ELSE pool
    /\ Returns(Reset(q, n), [contents EXCEPT ![n] = Clean], FALSE)

\* n new nodes.  Addresses mean nothing: the lowest free ones are taken.
NewNodes(n) ==
    LET free == Node \ Reachable
        low == {m \in free : Cardinality({k \in free : k <= m}) <= n}
    IN  {f \in [1..n -> low] : \A i, j \in 1..n : i < j => f[i] < f[j]}

\* What n calls of GetObject may return.
GetObjects(n) ==
    {[i \in 1..n |-> IF i <= Len(pool) THEN pool[i] ELSE new[i - Len(pool)]] :
       new \in NewNodes(n - Len(pool))}

\* The assignments that follow GetObject: the retry count stays as the pool has it.
Filled(made, ids) ==
    [n \in Node |->
       IF n \in Range(made)
       THEN [id |-> ids[CHOOSE i \in DOMAIN made : made[i] = n], owner |-> None, time |-> 0,
             fetched |-> IF n \in Range(pool) THEN node[n].fetched ELSE 0]
       ELSE node[n]]

-----------------------------------------------------------------------------
(* Producing *)

IsFull == Amount >= Cap

\* The new nodes are chained to each other and hung behind Tail; the last one keeps
\* the successor that it has in the pool.
Link(made) ==
    LET last == made[Len(made)]
        next == [n \in Node |->
                   IF \E i \in 1..(Len(made) - 1) : made[i] = n
                   THEN made[1 + CHOOSE i \in 1..(Len(made) - 1) : made[i] = n]
                   ELSE IF n \in Range(made) \ Range(pool) THEN nil ELSE ll.Next[n]]
    IN  IF ll.Head = nil
        THEN [Head |-> made[1], Tail |-> last, Next |-> [next EXCEPT ![last] = nil]]
        ELSE [Head |-> ll.Head, Tail |-> last, Next |-> [next EXCEPT ![ll.Tail] = made[1]]]

\* One node per id is linked, unless the queue is full.
Adds(ids) ==
    \E made \in GetObjects(Len(ids)) :
      /\ Returns(Link(made), Filled(made, ids), FALSE)
      /\ pool' = SubSeq(pool, Len(ids) + 1, Len(pool))
      /\ Amount' = Amount + Len(ids)
      /\ UNCHANGED dlq

\* The node is taken from the pool before the queue is found to be full, and then lost.
Enqueue(id) ==
    /\ status = "up"
    /\ \/ ~IsFull /\ Adds(<<id>>)
       \/ /\ IsFull
          /\ \E made \in GetObjects(1) : Returns(ll, Filled(made, <<id>>), FALSE)
          /\ pool' = SubSeq(pool, 2, Len(pool))
          /\ UNCHANGED <<Amount, dlq>>

BatchEnqueue(ids) ==
    /\ status = "up"
    /\ \/ (Len(ids) = 0 \/ IsFull) /\ Refuses(FALSE)
       \/ Len(ids) > 0 /\ ~IsFull /\ Adds(ids)

-----------------------------------------------------------------------------
(* Fetching *)

Available(n, c, t) ==
    \/ node[n].owner \in {c, None}
    \/ t - node[n].time > NodeTTL

\* The first `want' nodes of the walk that c may have are locked for it.
Dequeue(want, c, t) ==
    LET chain == Chain(ll)
        open == {k \in DOMAIN chain : Available(chain[k], c, t)}
        got == {chain[k] : k \in {j \in open : Cardinality({i \in open : i <= j}) <= want}}
    IN  /\ status = "up"
        /\ Returns(ll, [n \in Node |-> IF n \in got THEN [node[n] EXCEPT !.owner = c, !.time = t]
                                       ELSE node[n]], FALSE)
        /\ UNCHANGED <<pool, Amount, dlq>>

-----------------------------------------------------------------------------
(* Settling one message *)

\* The walk stops at k, the first position of S.
StopsAt(k, S) == k \in S /\ \A j \in S : k <= j

\* The pointer surgery of handleThresholdExpire; unlockAndEmpty makes the same
\* assignments in its own order.
Unlinked(q, prev, n) ==
    IF n = q.Tail
    THEN IF n = q.Head THEN [q EXCEPT !.Head = nil, !.Tail = nil]
         ELSE [q EXCEPT !.Tail = prev, !.Next[prev] = nil]
    ELSE IF n = q.Head THEN [q EXCEPT !.Head = q.Next[n]]
         ELSE [q EXCEPT !.Next[prev] = q.Next[n]]

\* The node at position k leaves the list; the walk has its predecessor at hand.
Removes(k, contents) ==
    LET chain == Chain(ll)
        prev == IF k = 1 THEN nil ELSE chain[k - 1]
    IN  /\ ReleaseObject(Unlinked(ll, prev, chain[k]), contents, chain[k])
        /\ Amount' = Amount - 1

UnlockAndEmptyOne(c, id) ==
    LET chain == Chain(ll)
        mine == {k \in DOMAIN chain : node[chain[k]].id = id /\ node[chain[k]].owner = c}
    IN  \/ mine = {} /\ Refuses(TRUE)
        \/ \E k \in DOMAIN chain : StopsAt(k, mine) /\ Removes(k, node) /\ UNCHANGED dlq

\* Ack
UnlockAndEmpty(c, id) == status = "up" /\ UnlockAndEmptyOne(c, id)

DeadLetterEnqueue(id) ==
    \/ DeadLetter = "queue" /\ Len(dlq) < Cap /\ dlq' = Append(dlq, id)
    \/ dlq' = dlq

\* Nack of the message at position k by the consumer that holds it
Unlocks(k, n) ==
    LET nacked == [node EXCEPT ![n].owner = None, ![n].fetched = @ + 1]
    IN  IF nacked[n].fetched < FetchLimit
        THEN Returns(ll, nacked, FALSE) /\ UNCHANGED <<pool, Amount, dlq>>
        ELSE IF DeadLetter = "nilInterface" THEN Panics
        ELSE DeadLetterEnqueue(node[n].id) /\ Removes(k, nacked)

\* Nack
Unlock(c, id) ==
    LET chain == Chain(ll)
        same == {k \in DOMAIN chain : node[chain[k]].id = id}
    IN  /\ status = "up"
        /\ \/ same = {} /\ Refuses(TRUE)
           \/ \E k \in DOMAIN chain :
                /\ StopsAt(k, same)
                /\ \/ node[chain[k]].owner # c /\ Refuses(TRUE)
                   \/ node[chain[k]].owner = c /\ Unlocks(k, chain[k])

-----------------------------------------------------------------------------
(* Batch acknowledgement: the loop and the re-linking of UnlockAndEmptyBatch *)

Mine(n, c, ids) == node[n].owner = c /\ \E i \in DOMAIN ids : ids[i] = node[n].id

\* One round of the walk: w is its pointers q, prev and cur, the nodes it took,
\* and whether it left the loop because it took Tail.
Round(w, c, ids) ==
    LET q == w.q
        next == q.Next[w.cur]
    IN  IF w.done \/ w.cur = nil \/ Len(w.took) >= Len(ids) THEN w
        ELSE IF ~Mine(w.cur, c, ids) THEN [w EXCEPT !.prev = w.cur, !.cur = next]
        ELSE IF w.cur = q.Tail
        THEN [w EXCEPT !.took = Append(@, w.cur), !.done = TRUE,
                       !.q = IF q.Head = q.Tail THEN [q EXCEPT !.Head = nil, !.Tail = nil]
                             ELSE [q EXCEPT !.Tail = w.prev, !.Next[w.prev] = nil]]
        ELSE [w EXCEPT !.took = Append(@, w.cur), !.cur = next,
                       !.q = IF w.prev = nil THEN [q EXCEPT !.Head = next]
                             ELSE [q EXCEPT !.Next[w.prev] = next]]

\* Before the walk the head is taken, whether or not Tail points to it.
TakeHead(c, ids) ==
    LET mine == Mine(ll.Head, c, ids)
        q == IF mine THEN [ll EXCEPT !.Head = ll.Next[ll.Head]] ELSE ll
    IN  [q |-> q, prev |-> nil, cur |-> q.Head, took |-> IF mine THEN <<ll.Head>> ELSE <<>>,
         done |-> FALSE]

\* The walk; it has no more rounds than there are nodes.
TakeAll(c, ids) ==
    LET after[i \in 0..MaxNodes] ==
          IF i = 0 THEN TakeHead(c, ids) ELSE Round(after[i - 1], c, ids)
    IN  after[MaxNodes]

\* start.Next = nodes[i]; start = current.Next, for i from 1: from the second round
\* on it is the successor of `current' that is written.
Relinked(w) ==
    LET n == Len(w.took)
        one == [w.q EXCEPT !.Next[w.took[1]] = w.took[2]]
    IN  IF n = 1 THEN w.q
        ELSE IF n = 2 THEN one ELSE [one EXCEPT !.Next[w.q.Next[w.cur]] = w.took[n]]

RelinkPanics(w) ==
    \/ w.q.Head = nil
    \/ Len(w.took) > 1 /\ w.cur = nil
    \/ Len(w.took) > 2 /\ w.cur # nil /\ w.q.Next[w.cur] = nil

\* Mutant of Restored: what was taken goes in front of the head.
RestoredInFront(w) ==
    LET q == Relinked(w)
    IN  [q EXCEPT !.Next[Last(w.took)] = q.Head, !.Head = w.took[1]]

Restored(w) ==
    LET q == Relinked(w)
        behind == [q EXCEPT !.Next[q.Head] = w.took[1]]
    IN  [behind EXCEPT !.Next[w.took[Len(w.took)]] = q.Next[q.Head]]

\* Batch ack
UnlockAndEmptyBatch(c, ids) ==
    LET w == TakeAll(c, ids)
        n == Len(w.took)
    IN  /\ status = "up"
        /\ \/ ll.Head = nil /\ Refuses(TRUE)
           \/ ll.Head # nil /\ Len(ids) = 1 /\ UnlockAndEmptyOne(c, ids[1])
           \/ /\ ll.Head # nil /\ Len(ids) # 1
              /\ \/ (Amount < Len(ids) \/ n = 0) /\ Refuses(TRUE)
                 \/ /\ Amount >= Len(ids) /\ n > 0
                    /\ \/ /\ n = Len(ids)
                          /\ Returns(w.q, node, FALSE) /\ UNCHANGED <<pool, Amount, dlq>>
                       \/ n < Len(ids) /\ RelinkPanics(w) /\ Panics
                       \/ /\ n < Len(ids) /\ ~RelinkPanics(w)
                          /\ Returns(Restored(w), node, TRUE) /\ UNCHANGED <<pool, Amount, dlq>>

-----------------------------------------------------------------------------
(* Specification *)

\* The calls clients can cause: no request reaches BatchUnlock, as
\* handler.BatchNack logs a batch ack.
Next ==
    \/ \E id \in Ids : Enqueue(id)
    \/ \E ids \in Batches : BatchEnqueue(ids)
    \/ \E want \in 0..MaxBatch, c \in Consumers, t \in Times : Dequeue(want, c, t)
    \/ \E c \in Consumers, id \in Ids : UnlockAndEmpty(c, id)
    \/ \E c \in Consumers, id \in Ids : Unlock(c, id)
    \/ \E c \in Consumers, ids \in Batches : UnlockAndEmptyBatch(c, ids)

Spec == Init /\ [][Next]_vars

-----------------------------------------------------------------------------
(* Properties *)

\* The pool holds each free node once, holds it clean, and no node of the chain
\* (nor Tail) is in it: a recycled node can neither appear twice in the queue nor
\* bring the successor or the retry count of its former message along.
PoolIsolated ==
    /\ IsInjective(pool)
    /\ \A i \in DOMAIN pool :
         /\ node[pool[i]] = Clean /\ ll.Next[pool[i]] = nil
         /\ pool[i] \notin Range(Chain(ll)) \cup {ll.Tail}

\* The chain from Head never closes into a cycle, so the walks of Dequeue, Unlock
\* and the acknowledgements end, and a list with a Head has a Tail, so Enqueue never
\* dereferences a nil Tail.
ChainEnds == Acyclic(ll) /\ (ll.Head # nil => ll.Tail # nil)

\* The pointers implement the queue of MessageQueue, batch acknowledgement with its
\* stale Tail, its unreturned Amount and its nil dereferences included.
ImplementsQueue == Queue!Spec

=============================================================================
