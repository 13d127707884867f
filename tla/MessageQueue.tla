---------------------------- MODULE MessageQueue ----------------------------
(***************************************************************************)
(* One Sybline queue (core.LinkedList) seen as a sequence of messages.     *)
(*                                                                         *)
(* Every method of LinkedList holds ll.mutex from start to end, so each is *)
(* one action.  The chain Head, Head.Next, ... is the sequence `msgs';     *)
(* the Tail pointer is its position `tail' in that sequence, 0 when Tail   *)
(* is nil or points to a node that is no longer on the chain.  Batch       *)
(* acknowledgement does not maintain Tail and Amount, so neither is a      *)
(* function of `msgs': both are kept as the code keeps them.               *)
(*                                                                         *)
(* LinkedList.tla models the same methods on the heap of nodes and is      *)
(* checked to implement this specification.                                *)
(***************************************************************************)
EXTENDS Integers, Sequences, FiniteSets

CONSTANTS
    Ids,          \* message ids
    Consumers,    \* consumer ids
    None,         \* NO_CONSUMER, the empty consumer id
    Cap,          \* ll.cap, the size given to NewQueue
    FetchLimit,   \* ll.fetchLimit, the retry limit of the queue
    NodeTTL,      \* ll.nodeTTL, how long a lock lasts
    Times,        \* the clock readings the leader may stamp on a fetch
    MaxBatch,     \* bound: the longest batch and the largest fetch
    DeadLetter    \* what ll.deadLetter is: see DeadLetterKinds

\* NewQueue is given nil for a dead-letter queue; QueueManager.CreateQueue gives
\* every other queue &dlq, which is never a nil pointer: it points to a queue,
\* or to a nil interface when the queue was created without a dead-letter queue.
DeadLetterKinds == {"nil", "queue", "nilInterface"}

ASSUME QueueAssumption ==
    /\ Cap \in Nat \ {0}
    /\ FetchLimit \in Nat
    /\ NodeTTL \in Nat
    /\ MaxBatch \in Nat \ {0}
    /\ Times \subseteq Nat
    /\ None \notin Consumers
    /\ DeadLetter \in DeadLetterKinds

VARIABLES
    msgs,     \* the chain from Head
    tail,     \* the position of Tail on the chain, 0 if it is not on it
    amount,   \* ll.Amount
    dlq,      \* the ids that expired here and are still in the dead-letter queue
    failed,   \* did the last call return an error (or, for Unlock, false)
    status    \* "up", or "panic" after a nil dereference

vars == <<msgs, tail, amount, dlq, failed, status>>

Message == [id : Ids, owner : Consumers \cup {None}, time : Nat, fetched : Nat]

Batches == UNION {[1..n -> Ids] : n \in 0..MaxBatch}

TypeOK ==
    /\ msgs \in Seq(Message)
    /\ tail \in 0..Len(msgs)
    /\ amount \in Nat
    /\ dlq \in Seq(Ids) /\ Len(dlq) <= Cap
    /\ failed \in BOOLEAN
    /\ status \in {"up", "panic"}

Init ==
    /\ msgs = <<>>
    /\ tail = 0
    /\ amount = 0
    /\ dlq = <<>>
    /\ failed = FALSE
    /\ status = "up"

-----------------------------------------------------------------------------
(* Sequences *)

Positions == 1..Len(msgs)

RemoveAtPos(s, k) ==
    [i \in 1..(Len(s) - 1) |-> IF i < k THEN s[i] ELSE s[i + 1]]

Prefix(s, n) == [i \in 1..n |-> s[i]]

\* The members of S that are among its n smallest.
Smallest(S, n) == {k \in S : Cardinality({j \in S : j <= k}) <= n}

\* The enumerations of a set of positions in the order of the chain (there is one).
InOrder(S) ==
    {f \in [1..Cardinality(S) -> S] : \A i, j \in 1..Cardinality(S) : i < j => f[i] < f[j]}

-----------------------------------------------------------------------------
(* Outcomes of a call *)

Returns(err) == failed' = err /\ status' = status

\* Nothing changes but the result.
Refuses(err) == Returns(err) /\ UNCHANGED <<msgs, tail, amount, dlq>>

\* A nil dereference: the process dies in the middle of the call.
Panics == status' = "panic" /\ UNCHANGED <<msgs, tail, amount, dlq, failed>>

-----------------------------------------------------------------------------
(* Producing *)

\* Mutant of IsFull: off by one.
IsFullLate == amount > Cap

IsFull == amount >= Cap

Fresh(id) == [id |-> id, owner |-> None, time |-> 0, fetched |-> 0]

\* Mutant of Link: new nodes are put between Tail and its successor.
LinkInserts(ids) ==
    /\ amount' = amount + Len(ids)
    /\ msgs' = Prefix(msgs, tail) \o [i \in DOMAIN ids |-> Fresh(ids[i])]
                  \o SubSeq(msgs, tail + 1, Len(msgs))
    /\ tail' = tail + Len(ids)
    /\ UNCHANGED dlq

\* New nodes are linked behind the Tail node: what followed it on the chain is cut
\* off, and nodes linked behind a Tail that is off the chain are never reached.
Link(ids) ==
    /\ amount' = amount + Len(ids)
    /\ IF msgs # <<>> /\ tail = 0
       THEN UNCHANGED <<msgs, tail>>
       ELSE /\ msgs' = [i \in 1..(tail + Len(ids)) |->
                          IF i <= tail THEN msgs[i] ELSE Fresh(ids[i - tail])]
            /\ tail' = tail + Len(ids)
    /\ UNCHANGED dlq

Enqueue(id) ==
    /\ status = "up"
    /\ \/ IsFull /\ Refuses(FALSE)
       \/ ~IsFull /\ Link(<<id>>) /\ Returns(FALSE)

BatchEnqueue(ids) ==
    /\ status = "up"
    /\ \/ (Len(ids) = 0 \/ IsFull) /\ Refuses(FALSE)
       \/ Len(ids) > 0 /\ ~IsFull /\ Link(ids) /\ Returns(FALSE)

-----------------------------------------------------------------------------
(* Fetching *)

\* Mutant of Available: a lock lapses one tick early.
AvailableEarly(k, c, t) ==
    \/ msgs[k].owner \in {c, None}
    \/ t - msgs[k].time >= NodeTTL

Available(k, c, t) ==
    \/ msgs[k].owner \in {c, None}
    \/ t - msgs[k].time > NodeTTL

\* The positions Dequeue(want, c, t) hands to consumer c and locks for it.
Fetched(want, c, t) == Smallest({k \in Positions : Available(k, c, t)}, want)

Dequeue(want, c, t) ==
    /\ status = "up"
    /\ msgs' = [k \in Positions |->
                  IF k \in Fetched(want, c, t)
                  THEN [msgs[k] EXCEPT !.owner = c, !.time = t]
                  ELSE msgs[k]]
    /\ Returns(FALSE)
    /\ UNCHANGED <<tail, amount, dlq>>

-----------------------------------------------------------------------------
(* Settling one message *)

IsFirst(k, S) == k \in S /\ \A j \in S : k <= j

\* Mutant of Unlink: Tail is not moved back when its node goes.
UnlinkKeepsTail(k) ==
    /\ msgs' = RemoveAtPos(msgs, k)
    /\ tail' = IF k < tail THEN tail - 1 ELSE IF k = tail THEN 0 ELSE tail
    /\ amount' = amount - 1

\* Unlinking the node at k.  Tail moves only when k is its node, and then the
\* chain ends at the predecessor, whatever followed.
Unlink(k) ==
    /\ msgs' = IF k = tail THEN Prefix(msgs, k - 1) ELSE RemoveAtPos(msgs, k)
    /\ tail' = IF k <= tail THEN tail - 1 ELSE tail
    /\ amount' = amount - 1

\* Mutant of HeldBy: the consumer is not compared.
HeldByAnyone(c, id) == {k \in Positions : msgs[k].id = id}

HeldBy(c, id) == {k \in Positions : msgs[k].id = id /\ msgs[k].owner = c}

UnlockAndEmptyOne(c, id) ==
    LET mine == HeldBy(c, id)
    IN  \/ mine = {} /\ Refuses(TRUE)
        \/ \E k \in mine : IsFirst(k, mine) /\ Unlink(k) /\ Returns(FALSE) /\ UNCHANGED dlq

\* Ack
UnlockAndEmpty(c, id) == status = "up" /\ UnlockAndEmptyOne(c, id)

\* Mutant of DeadLetterEnqueue: the size of the dead-letter queue is ignored.
DeadLetterAlways(id) == dlq' = IF DeadLetter = "queue" THEN Append(dlq, id) ELSE dlq

\* Enqueue of the dead-letter queue.  Clients can route a key to it as to any other
\* queue, so besides dlq it may hold messages of other senders, or an Amount and a
\* Tail that a batch acknowledgement left behind: it may refuse or lose the message
\* with any number of expired ones in it, but never takes one more than its size,
\* because its Amount covers all of them (AmountCoversChain).
DeadLetterEnqueue(id) ==
    \/ DeadLetter = "queue" /\ Len(dlq) < Cap /\ dlq' = Append(dlq, id)
    \/ dlq' = dlq

HandleThresholdExpire(k) ==
    \/ DeadLetter = "nilInterface" /\ Panics
    \/ /\ DeadLetter # "nilInterface"
       /\ DeadLetterEnqueue(msgs[k].id)
       /\ Unlink(k)
       /\ Returns(FALSE)

\* Mutant of Exhausted: one retry too many.
ExhaustedLate(k) == msgs[k].fetched + 1 > FetchLimit

Exhausted(k) == msgs[k].fetched + 1 >= FetchLimit

\* Nack
Unlock(c, id) ==
    LET same == {k \in Positions : msgs[k].id = id}
    IN  /\ status = "up"
        /\ \/ (\A k \in same : IsFirst(k, same) => msgs[k].owner # c) /\ Refuses(TRUE)
           \/ \E k \in same :
                /\ IsFirst(k, same)
                /\ msgs[k].owner = c
                /\ \/ /\ ~Exhausted(k)
                      /\ msgs' = [msgs EXCEPT ![k].owner = None, ![k].fetched = @ + 1]
                      /\ Returns(FALSE)
                      /\ UNCHANGED <<tail, amount, dlq>>
                   \/ /\ Exhausted(k)
                      /\ HandleThresholdExpire(k)

\* An expired message leaves the dead-letter queue: a consumer of that queue has
\* settled it, or it was behind a stale Tail of that queue and was cut off.
SettleDeadLetter(k) ==
    /\ status = "up"
    /\ dlq' = RemoveAtPos(dlq, k)
    /\ failed' = FALSE
    /\ UNCHANGED <<msgs, tail, amount, status>>

-----------------------------------------------------------------------------
(* Settling a batch: UnlockAndEmptyBatch *)

\* The walk takes the caller's nodes off the chain until it has Len(ids) of them
\* or has taken the Tail node.  The head is taken before the walk, Tail or not.
TakenBy(c, ids) ==
    LET mine == {k \in Positions : msgs[k].owner = c /\ \E i \in DOMAIN ids : ids[i] = msgs[k].id}
    IN  Smallest(IF tail \in mine \ {1} THEN {k \in mine : k <= tail} ELSE mine, Len(ids))

TookTail(taken) == tail \in taken \ {1}

\* What is left on the chain; taking the Tail node ends the chain before it.
KeptBy(taken) == (IF TookTail(taken) THEN 1..(tail - 1) ELSE Positions) \ taken

\* The position, among those kept, of Tail once the walk is over.
TailAmong(kept, taken) ==
    IF TookTail(taken) THEN Cardinality(kept)
    ELSE IF tail \in taken THEN 0 ELSE Cardinality({k \in kept : k <= tail})

\* Every id was found: nodes are dropped; Amount and the pool are left alone.
BatchSettled(taken) ==
    LET kept == KeptBy(taken) IN
    /\ \E f \in InOrder(kept) : msgs' = [i \in 1..Cardinality(kept) |-> msgs[f[i]]]
    /\ tail' = TailAmong(kept, taken)
    /\ Returns(FALSE)
    /\ UNCHANGED <<amount, dlq>>

\* Not every id was found: what was taken is linked back behind the head.
\* Tail keeps pointing to the node it pointed to.
BatchRestored(taken) ==
    LET kept == KeptBy(taken)
        n == Cardinality(taken)
        at == TailAmong(kept, taken)
    IN  /\ \E f \in InOrder(kept), g \in InOrder(taken) :
             msgs' = [i \in 1..(Cardinality(kept) + n) |->
                        IF i = 1 THEN msgs[f[1]]
                        ELSE IF i <= n + 1 THEN msgs[g[i - 1]] ELSE msgs[f[i - n]]]
        /\ tail' = IF tail \in taken /\ ~TookTail(taken) THEN 2
                   ELSE IF at > 1 THEN at + n ELSE at
        /\ Returns(TRUE)
        /\ UNCHANGED <<amount, dlq>>

\* Linking back dereferences the head, and with several nodes also the successor
\* of the last node looked at: only two nodes, the second being Tail, survive that.
RestorePanics(taken) ==
    \/ KeptBy(taken) = {}
    \/ Cardinality(taken) = 2 /\ ~TookTail(taken)
    \/ Cardinality(taken) > 2

\* Batch ack
UnlockAndEmptyBatch(c, ids) ==
    LET taken == TakenBy(c, ids)
        n == Cardinality(taken)
    IN  /\ status = "up"
        /\ \/ msgs = <<>> /\ Refuses(TRUE)
           \/ msgs # <<>> /\ Len(ids) = 1 /\ UnlockAndEmptyOne(c, ids[1])
           \/ /\ msgs # <<>> /\ Len(ids) # 1
              /\ \/ (amount < Len(ids) \/ n = 0) /\ Refuses(TRUE)
                 \/ /\ amount >= Len(ids) /\ n > 0
                    /\ \/ n = Len(ids) /\ BatchSettled(taken)
                       \/ n < Len(ids) /\ RestorePanics(taken) /\ Panics
                       \/ n < Len(ids) /\ ~RestorePanics(taken) /\ BatchRestored(taken)

-----------------------------------------------------------------------------
(* Specification *)

\* The calls that settle messages one at a time, and everything else.
SingleNext ==
    \/ \E id \in Ids : Enqueue(id)
    \/ \E ids \in Batches : BatchEnqueue(ids)
    \/ \E want \in 0..MaxBatch, c \in Consumers, t \in Times : Dequeue(want, c, t)
    \/ \E c \in Consumers, id \in Ids : UnlockAndEmpty(c, id)
    \/ \E c \in Consumers, id \in Ids : Unlock(c, id)
    \/ \E k \in DOMAIN dlq : SettleDeadLetter(k)

\* All calls a client can cause.
Next ==
    \/ SingleNext
    \/ \E c \in Consumers, ids \in Batches : UnlockAndEmptyBatch(c, ids)

SingleSpec == Init /\ [][SingleNext]_vars

Spec == Init /\ [][Next]_vars
-----------------------------------------------------------------------------
(* Properties *)

\* While messages are settled one at a time, no accepted message drops off the
\* chain: Tail is its last node and Amount counts exactly its nodes, through every
\* order of Enqueue, BatchEnqueue, Dequeue, Unlock (expiry included) and UnlockAndEmpty.
ListIntact == tail = Len(msgs) /\ amount = Len(msgs)

\* Unlock moves a message away the moment its retries are used up, so no message
\* on the chain has been nacked FetchLimit times.
RetryBound == \A k \in Positions : msgs[k].fetched = 0 \/ msgs[k].fetched < FetchLimit

\* Amount never undercounts the chain, whatever batch acknowledgements did to
\* Tail, and a queue overshoots its size by less than one batch: BatchEnqueue
\* looks at Amount only once.
AmountCoversChain == Len(msgs) <= amount /\ amount < Cap + MaxBatch

\* A Tail that batch acknowledgement left in the middle of the chain is one of the
\* first two nodes of at most three.  So UnlockAndEmptyBatch, when it takes three
\* nodes and the third is Tail, has reached the end of the chain: linking them back
\* dereferences nil (RestorePanics) and can never close the chain into a cycle.
TailShape == tail \in {0, Len(msgs)} \/ (tail <= 2 /\ Len(msgs) <= 3)

Distinct(s) == \A i, j \in DOMAIN s : s[i].id = s[j].id => i = j

\* One consumer per message: a message locked by one consumer is handed to another
\* only by a fetch stamped more than NodeTTL after the lock was taken.
LockHonoured ==
    [][Distinct(msgs) /\ Distinct(msgs') =>
        \A i \in DOMAIN msgs, j \in DOMAIN msgs' :
            /\ msgs[i].id = msgs'[j].id
            /\ msgs[i].owner # None /\ msgs'[j].owner \notin {None, msgs[i].owner}
            => msgs'[j].time - msgs[i].time > NodeTTL]_vars

\* A message that no consumer holds stays on the chain: no call for another
\* message, by any client, removes it, and it keeps its place but for one position.
UnheldStays ==
    [][\A i \in DOMAIN msgs : msgs[i].owner = None =>
        \E j \in {i - 1, i} \cap DOMAIN msgs' : msgs'[j].id = msgs[i].id]_vars

\* An acknowledgement or a rejection by one consumer leaves every message that
\* another consumer holds as it is.
OthersKept ==
    [][\A c \in Consumers :
        (\E id \in Ids : UnlockAndEmpty(c, id) \/ Unlock(c, id)) =>
            \A i \in DOMAIN msgs : msgs[i].owner \notin {c, None} =>
                \E j \in {i - 1, i} \cap DOMAIN msgs' : msgs'[j] = msgs[i]]_vars

\* The process that applies the queue's calls never dies.
NeverPanics == status = "up"

=============================================================================
