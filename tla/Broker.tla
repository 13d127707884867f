------------------------------- MODULE Broker -------------------------------
(***************************************************************************)
(* The broker: which queues a routing key feeds (core.broker) and which    *)
(* queue a name stands for (core.queueManager).                            *)
(*                                                                         *)
(* Committed log entries are applied one after another, so a method is one *)
(* action.  Queues are objects: a queue holds a pointer to its dead-letter *)
(* queue, and the registry finds that queue by name, so the two can part.  *)
(*                                                                         *)
(* A queue is the record of its chain, Tail and Amount, which its calls    *)
(* treat as in MessageQueue: batch acknowledgement leaves Tail and Amount  *)
(* behind here too.  Clocks and retry counts are left out: whether a lock  *)
(* has lapsed or the retries of a message are used up is a free choice.    *)
(*                                                                         *)
(* Names are the ranks of the queue names in string order: the name        *)
(* n + 1 is n with "-dlq" appended, and 0 is the empty name.               *)
(***************************************************************************)
EXTENDS Integers, Sequences, FiniteSets, SequencesExt

CONSTANTS
    Names,       \* the queue names clients use
    Keys,        \* the routing keys clients use
    NoKey,       \* the empty routing key
    Ids,         \* message ids
    NoData,      \* a message without data
    Consumers,   \* consumer ids
    None,        \* NO_CONSUMER, the empty consumer id
    Sizes,       \* the queue sizes clients ask for
    Objects,     \* bound: addresses of queues
    MaxRoute     \* bound: entries of one routing key

NoName == 0
Dlq(n) == n + 1

ASSUME BrokerAssumption ==
    /\ Names \subseteq Nat \ {0}
    /\ Sizes \subseteq Nat
    /\ Objects \subseteq Nat \ {0}
    /\ NoKey \notin Keys /\ NoData \notin Ids /\ None \notin Consumers

VARIABLES
    routing,   \* routing key -> queue names
    queues,    \* queue name -> queue
    heap,      \* the queues
    failed,    \* did the last call return an error
    status     \* "up", or "panic" after an index out of range or a nil call

vars == <<routing, queues, heap, failed, status>>

\* What the deadLetter pointer of a queue refers to, when it is not a queue:
\* NewQueue was given nil, or a pointer to a nil interface.
NilPointer == 0
NilInterface == -1

\* NewQueue
NewQueue(size, deadLetter) ==
    [msgs |-> <<>>, tail |-> 0, amount |-> 0, cap |-> size, deadLetter |-> deadLetter]

Garbage == NewQueue(0, NilPointer)

\* The nodes of a chain as far as the broker tells them apart
Node == [id : Ids, owner : Consumers \cup {None}]

IdsIn(q) == {q.msgs[i].id : i \in DOMAIN q.msgs}

AllNames == Names \cup {Dlq(n) : n \in Names}

TypeOK ==
    /\ DOMAIN routing \subseteq Keys
    /\ \A k \in DOMAIN routing : routing[k] \in Seq(AllNames)
    /\ DOMAIN queues \subseteq AllNames
    /\ \A n \in DOMAIN queues : queues[n] \in Objects
    /\ heap \in [Objects -> [msgs : Seq(Node), tail : Nat, amount : Int, cap : Nat,
                             deadLetter : Objects \cup {NilPointer, NilInterface}]]
    /\ \A o \in Objects : heap[o].tail <= Len(heap[o].msgs)
    /\ failed \in BOOLEAN
    /\ status \in {"up", "panic"}

Init ==
    /\ routing = <<>>
    /\ queues = <<>>
    /\ heap = [o \in Objects |-> Garbage]
    /\ failed = FALSE
    /\ status = "up"

-----------------------------------------------------------------------------
(* Partial functions, queues in use, outcomes *)

With(f, x, y) == [z \in DOMAIN f \cup {x} |-> IF z = x THEN y ELSE f[z]]

Without(f, x) == [z \in DOMAIN f \ {x} |-> f[z]]

\* The queues a registry refers to, directly or as a dead-letter queue.
InUse(reg, h) ==
    LET named == {reg[n] : n \in DOMAIN reg}
    IN  named \cup ({h[o].deadLetter : o \in named} \cap Objects)

\* Queues that nothing refers to belong to the garbage collector.
Collected(reg, h) == [o \in Objects |-> IF o \in InUse(reg, h) THEN h[o] ELSE Garbage]

Returns(err) == failed' = err /\ status' = status

Refuses(err) == Returns(err) /\ UNCHANGED <<routing, queues, heap>>

Panics == status' = "panic" /\ UNCHANGED <<routing, queues, heap, failed>>

Exists(n) == n \in DOMAIN queues

\* Ids are fresh: handler.SubmitMessage draws a new one for every message.
Unused(id) == \A o \in Objects : id \notin IdsIn(heap[o])

-----------------------------------------------------------------------------
(* Routes *)

\* sort.Strings: the entry at i is the value with fewer than i entries below it
\* and at least i entries up to it.
Sorted(s) ==
    [i \in DOMAIN s |-> CHOOSE v \in Range(s) :
        /\ Cardinality({j \in DOMAIN s : s[j] < v}) < i
        /\ Cardinality({j \in DOMAIN s : s[j] <= v}) >= i]

\* Mutant of Bound: key and name swapped.
BoundSwapped(k, n) == With(routing, n, <<k>>)

\* Mutant of Bound: the entries are not sorted.
BoundUnsorted(k, n) ==
    With(routing, k, IF k \in DOMAIN routing THEN Append(routing[k], n) ELSE <<n>>)

\* The routes with queue n added to key k; it may be there already.
Bound(k, n) ==
    With(routing, k, IF k \in DOMAIN routing THEN Sorted(Append(routing[k], n)) ELSE <<n>>)

\* Mutant of Unbound: off by one.
UnboundNext(k, n) ==
    With(routing, k, RemoveAt(routing[k],
        LET i == SelectInSeq(routing[k], LAMBDA m : m = n)
        IN  IF i < Len(routing[k]) THEN i + 1 ELSE i))

\* Mutant of Unbound: a key without queues is forgotten.
UnboundForgetsKey(k, n) ==
    IF Len(routing[k]) = 1 THEN Without(routing, k) ELSE With(routing, k, RemoveFirst(routing[k], n))

\* The routes with the first entry for queue n removed from key k.
Unbound(k, n) == With(routing, k, RemoveFirst(routing[k], n))

KeysOf(n) == {k \in DOMAIN routing : n \in Range(routing[k])}

AddRouteKey(k, n) ==
    /\ status = "up"
    /\ \/ (k = NoKey \/ n = NoName \/ ~Exists(n)) /\ Refuses(TRUE)
       \/ /\ k # NoKey /\ n # NoName /\ Exists(n)
          /\ k \in DOMAIN routing => Len(routing[k]) < MaxRoute
          /\ routing' = Bound(k, n)
          /\ Returns(FALSE)
          /\ UNCHANGED <<queues, heap>>

\* Mutant of LastKey: the count is not looked at.
LastKeyNever(n) == FALSE

\* Exactly one key has the queue, whichever key it is.
LastKey(n) == Cardinality(KeysOf(n)) = 1

DeleteRoutingKey(k, n) ==
    /\ status = "up"
    /\ \/ (k = NoKey \/ n = NoName \/ ~Exists(n) \/ k \notin DOMAIN routing) /\ Refuses(TRUE)
       \/ /\ k \in DOMAIN routing /\ Exists(n)
          /\ \/ LastKey(n) /\ Refuses(TRUE)
             \/ ~LastKey(n) /\ k \notin KeysOf(n) /\ Panics
             \/ /\ ~LastKey(n) /\ k \in KeysOf(n)
                /\ routing' = Unbound(k, n)
                /\ Returns(FALSE)
                /\ UNCHANGED <<queues, heap>>

-----------------------------------------------------------------------------
(* Queues *)

\* The dead-letter queue is registered before the queue, whether or not its name
\* is taken: o and d are the addresses of the two.
Registered(n, hasDLQ, o, d) ==
    With(IF hasDLQ THEN With(queues, Dlq(n), d) ELSE queues, n, o)

NewQueues(size, hasDLQ, o, d) ==
    [heap EXCEPT ![o] = NewQueue(size, IF hasDLQ THEN d ELSE NilInterface),
                 ![d] = NewQueue(size, NilPointer)]

\* The queue is registered, then the key is routed to it.
CreateQueue(n, k, size, hasDLQ) ==
    /\ status = "up"
    /\ \/ (k = NoKey \/ n = NoName \/ size = 0 \/ Exists(n)) /\ Refuses(TRUE)
       \/ /\ k # NoKey /\ n # NoName /\ size # 0 /\ ~Exists(n)
          /\ k \in DOMAIN routing => Len(routing[k]) < MaxRoute
          /\ LET free == Objects \ InUse(queues, heap)
                 o == Min(free)
                 d == Min(free \ {o})
             IN  /\ free # {} /\ free \ {o} # {}
                 /\ queues' = Registered(n, hasDLQ, o, d)
                 /\ heap' = Collected(queues', NewQueues(size, hasDLQ, o, d))
          /\ routing' = Bound(k, n)
          /\ Returns(FALSE)

\* The routes are searched in the random order of a map; the first key found to
\* have the queue loses one entry, the others keep theirs.
DeleteQueue(n) ==
    /\ status = "up"
    /\ \/ KeysOf(n) = {} /\ Refuses(FALSE)
       \/ KeysOf(n) # {} /\ ~Exists(n) /\ Refuses(TRUE)
       \/ \E k \in KeysOf(n) :
            /\ Exists(n)
            /\ queues' = Without(queues, n)
            /\ heap' = Collected(queues', heap)
            /\ routing' = Unbound(k, n)
            /\ Returns(FALSE)

-----------------------------------------------------------------------------
(* Messages *)

\* The calls of one queue, looked at in state q: what they take, keep and refuse.
Q(q) == INSTANCE MessageQueue WITH msgs <- q.msgs, tail <- q.tail, amount <- q.amount, dlq <- <<>>,
            Cap <- 1, FetchLimit <- 0, NodeTTL <- 0, Times <- {0}, MaxBatch <- 1, DeadLetter <- "queue"

\* The nodes of ids are linked behind Tail, and Tail is moved to the last: see
\* MessageQueue.Link.
Linked(q, ids) ==
    IF q.msgs # <<>> /\ q.tail = 0 THEN [q EXCEPT !.amount = @ + Len(ids)]
    ELSE [q EXCEPT !.msgs = [i \in 1..(q.tail + Len(ids)) |->
                               IF i <= q.tail THEN q.msgs[i]
                               ELSE [id |-> ids[i - q.tail], owner |-> None]],
                   !.tail = @ + Len(ids), !.amount = @ + Len(ids)]

\* BatchEnqueue on a queue; Enqueue when ids has one element.
Enqueued(q, ids) == IF ids = <<>> \/ q.amount >= q.cap THEN q ELSE Linked(q, ids)

\* One goroutine per entry of the route; entries without a queue drop the message.
Delivered(h, k, ids) ==
    FoldLeft(LAMBDA g, n : IF Exists(n) THEN [g EXCEPT ![queues[n]] = Enqueued(@, ids)] ELSE g,
             h, routing[k])

BatchAddMessage(k, ids) ==
    /\ status = "up"
    /\ IsInjective(ids) /\ \A i \in DOMAIN ids : Unused(ids[i])
    /\ \/ (NoData \in Range(ids) \/ k \notin DOMAIN routing) /\ Refuses(TRUE)
       \/ /\ NoData \notin Range(ids) /\ k \in DOMAIN routing
          /\ heap' = Delivered(heap, k, ids)
          /\ Returns(FALSE)
          /\ UNCHANGED <<routing, queues>>

\* The same for one message
AddMessage(k, id) == BatchAddMessage(k, <<id>>)

\* The queue with the nodes of `taken' locked by consumer c
Locked(q, taken, c) ==
    [q EXCEPT !.msgs = [i \in DOMAIN q.msgs |->
        IF i \in taken THEN [id |-> q.msgs[i].id, owner |-> c] ELSE q.msgs[i]]]

\* GetMessages.  Consumer c is given the first of the messages that it holds, that
\* nobody holds or whose lock has lapsed.
Dequeue(n, want, c) ==
    /\ status = "up"
    /\ \/ ~Exists(n) /\ Refuses(TRUE)
       \/ /\ Exists(n)
          /\ LET q == heap[queues[n]]
                 free == {i \in DOMAIN q.msgs : q.msgs[i].owner \in {c, None}}
             IN  \E lapsed \in SUBSET DOMAIN q.msgs :
                   heap' = [heap EXCEPT ![queues[n]] = Locked(q, Q(q)!Smallest(free \cup lapsed, want), c)]
          /\ Returns(FALSE)
          /\ UNCHANGED <<routing, queues>>

\* The node at i is unlinked: see MessageQueue.Unlink.
Unlinked(q, i) ==
    [q EXCEPT !.msgs = IF i = q.tail THEN Q(q)!Prefix(q.msgs, i - 1) ELSE Q(q)!RemoveAtPos(q.msgs, i),
              !.tail = IF i <= q.tail THEN q.tail - 1 ELSE q.tail,
              !.amount = @ - 1]

\* UnlockAndEmpty: the first node of id that c holds
AcksOne(o, id, c) ==
    LET mine == Q(heap[o])!HeldBy(c, id)
    IN  \/ mine = {} /\ Refuses(TRUE)
        \/ \E i \in mine :
             /\ Q(heap[o])!IsFirst(i, mine)
             /\ heap' = [heap EXCEPT ![o] = Unlinked(@, i)]
             /\ Returns(FALSE)
             /\ UNCHANGED <<routing, queues>>

Ack(n, id, c) ==
    /\ status = "up"
    /\ \/ ~Exists(n) /\ Refuses(TRUE)
       \/ Exists(n) /\ AcksOne(queues[n], id, c)

\* HandleThresholdExpire: the node at i of queue o goes, its message is put into the
\* dead-letter queue.
Expired(o, i) ==
    LET d == heap[o].deadLetter
        h == IF d = NilPointer THEN heap
             ELSE [heap EXCEPT ![d] = Enqueued(@, <<heap[o].msgs[i].id>>)]
    IN  [h EXCEPT ![o] = Unlinked(@, i)]

Released(o, i) == [heap EXCEPT ![o] = Locked(@, {i}, None)]

\* The first node of id, when c holds it, is free again, or its retries are used up.
Nack(n, id, c) ==
    /\ status = "up"
    /\ \/ ~Exists(n) /\ Refuses(TRUE)
       \/ /\ Exists(n)
          /\ LET o == queues[n]
                 same == {i \in DOMAIN heap[o].msgs : heap[o].msgs[i].id = id}
                 mine == {i \in same : Q(heap[o])!IsFirst(i, same) /\ heap[o].msgs[i].owner = c}
             IN  \/ mine = {} /\ Refuses(TRUE)
                 \/ mine # {} /\ heap[o].deadLetter = NilInterface /\ Panics
                 \/ \E i \in mine :
                      /\ \/ heap' = Released(o, i)
                         \/ heap[o].deadLetter # NilInterface /\ heap' = Expired(o, i)
                      /\ Returns(FALSE)
                      /\ UNCHANGED <<routing, queues>>

\* Every id of a batch was found, and f is what is kept: see MessageQueue.BatchSettled.
AllAcked(q, taken, f) ==
    [q EXCEPT !.msgs = [i \in DOMAIN f |-> q.msgs[f[i]]],
              !.tail = Q(q)!TailAmong(Q(q)!KeptBy(taken), taken)]

\* Some were not, and g, what was taken, is linked back: see MessageQueue.BatchRestored.
Restored(q, taken, f, g) ==
    LET at == Q(q)!TailAmong(Q(q)!KeptBy(taken), taken)
    IN  [q EXCEPT !.msgs = [i \in 1..(Len(f) + Len(g)) |->
                              IF i = 1 THEN q.msgs[f[1]]
                              ELSE IF i <= Len(g) + 1 THEN q.msgs[g[i - 1]]
                              ELSE q.msgs[f[i - Len(g)]]],
                  !.tail = IF q.tail \in taken /\ ~Q(q)!TookTail(taken) THEN 2
                           ELSE IF at > 1 THEN at + Len(g) ELSE at]

\* UnlockAndEmptyBatch: one id is settled as by Ack.
BatchAck(n, ids, c) ==
    /\ status = "up"
    /\ \/ ~Exists(n) /\ Refuses(TRUE)
       \/ Exists(n) /\ Len(ids) = 1 /\ AcksOne(queues[n], ids[1], c)
       \/ /\ Exists(n) /\ Len(ids) # 1
          /\ LET o == queues[n]
                 q == heap[o]
                 taken == Q(q)!TakenBy(c, ids)
                 found == Cardinality(taken)
                 orders == Q(q)!InOrder(Q(q)!KeptBy(taken))
             IN  \/ (q.amount < Len(ids) \/ taken = {}) /\ Refuses(TRUE)
                 \/ /\ q.amount >= Len(ids) /\ taken # {}
                    /\ \/ found < Len(ids) /\ Q(q)!RestorePanics(taken) /\ Panics
                       \/ /\ found = Len(ids)
                          /\ \E f \in orders : heap' = [heap EXCEPT ![o] = AllAcked(q, taken, f)]
                          /\ Returns(FALSE)
                          /\ UNCHANGED <<routing, queues>>
                       \/ /\ found < Len(ids) /\ ~Q(q)!RestorePanics(taken)
                          /\ \E f \in orders, g \in Q(q)!InOrder(taken) :
                               heap' = [heap EXCEPT ![o] = Restored(q, taken, f, g)]
                          /\ Returns(TRUE)
                          /\ UNCHANGED <<routing, queues>>

-----------------------------------------------------------------------------
(* Specification *)

Batches == {<<id>> : id \in Ids \cup {NoData}}
             \cup {<<x, y>> : x \in Ids, y \in Ids}

Next ==
    \/ \E n \in Names \cup {NoName}, k \in Keys \cup {NoKey}, size \in Sizes, hasDLQ \in BOOLEAN :
          CreateQueue(n, k, size, hasDLQ)
    \/ \E n \in AllNames : DeleteQueue(n)
    \/ \E k \in Keys \cup {NoKey}, n \in AllNames \cup {NoName} : AddRouteKey(k, n)
    \/ \E k \in Keys \cup {NoKey}, n \in AllNames \cup {NoName} : DeleteRoutingKey(k, n)
    \/ \E k \in Keys, id \in Ids \cup {NoData} : AddMessage(k, id)
    \/ \E k \in Keys, ids \in Batches : BatchAddMessage(k, ids)
    \/ \E n \in AllNames, want \in 1..2, c \in Consumers : Dequeue(n, want, c)
    \/ \E n \in AllNames, id \in Ids, c \in Consumers : Ack(n, id, c)
    \/ \E n \in AllNames, id \in Ids, c \in Consumers : Nack(n, id, c)
    \/ \E n \in AllNames, ids \in Batches, c \in Consumers : BatchAck(n, ids, c)

Spec == Init /\ [][Next]_vars

-----------------------------------------------------------------------------
(* Properties *)

\* "each queue must have at least one routing key" (ErrQueueMustHaveOneRoutingKey):
\* a queue made by CreateQueue is on a route as long as it exists, although routes
\* are deleted in any order and with them the queues they share keys with.
EveryQueueRouted ==
    \A n \in DOMAIN queues : heap[queues[n]].deadLetter # NilPointer => KeysOf(n) # {}

\* "maintain increasing order": the entries of every key ascend, deletions included.
RoutesAscend ==
    \A k \in DOMAIN routing : \A i, j \in DOMAIN routing[k] :
        i < j => routing[k][i] <= routing[k][j]

Entries(r, k, n) ==
    IF k \in DOMAIN r THEN Cardinality({i \in DOMAIN r[k] : r[k][i] = n}) ELSE 0

\* Taking a queue off a route, on its own or with the queue, leaves the routes of
\* every other queue alone, the key they share included.
OthersRouted ==
    [][routing' # routing => \A n \in AllNames :
        DeleteQueue(n) \/ (\E k \in Keys : DeleteRoutingKey(k, n)) =>
        \A m \in AllNames \ {n}, k \in Keys : Entries(routing', k, m) = Entries(routing, k, m)]_vars

=============================================================================
