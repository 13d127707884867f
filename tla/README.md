# Sybline in TLA+

Sybline is a message broker: clients submit messages under routing keys, the
broker puts them in queues, consumers fetch messages under a lock and settle
them by acknowledging (ack) or rejecting (nack) them, one by one or in batches.
Every change goes through a Raft log, so that each node of a cluster applies the
same commands in the same order. This directory holds TLA+ models of its core,
the TLC configurations that check them and TLAPS proofs about them. Paths below
are relative to the repository (`src/`).

## 1. The system

| Component | State | Operations | Correct when |
|---|---|---|---|
| queue, `pkg/core/LinkedList.go` | Head, Tail, nodes, Amount, pool, dead-letter pointer | Enqueue, BatchEnqueue, Dequeue, Unlock (nack), UnlockAndEmpty (ack), UnlockAndEmptyBatch, BatchUnlock | accepted messages stay until settled; one consumer per message while its lock lasts; expired messages move to the dead-letter queue; the size is respected |
| node pool, `pkg/core/NodeObjectPool.go` | free nodes | GetObject, ReleaseObject | a node is in the pool or in the queue, and clean when it is in the pool |
| registry, `pkg/core/QueueManager.go` | name -> queue | CreateQueue (with `name-dlq`), Delete, AddMessage, Ack, Nack, ... | creating or deleting one queue leaves the others alone |
| routing, `pkg/core/Broker.go` | routing key -> sorted queue names | CreateQueue, DeleteQueue, AddRouteKey, DeleteRoutingKey, AddMessage, BatchAddMessage | every queue keeps a key; entries ascend; a message is delivered once |
| consumers, `pkg/core/ConsumerManager.go` | none | passes calls to the registry | - |
| log batcher, `pkg/fsm/batcher.go` | nextFreeIndex, dataSlice, outputChans, two locks, a WaitGroup, a timer | SendLog, two goroutines of ProcessLogs, sendLogs | each log is applied once, its sender gets its result, nobody waits for ever |
| state machine, `pkg/fsm/syblineFSM.go` | the components above | Apply of a batch, one case per command with its permission check | nodes with the same log have the same state |
| roles, `pkg/rbac` | roles, roles of each user | CreateRole, AssignRole, UnassignRole, HasPermission, HasAdminPermission | a role that denies outweighs those that allow; a queue denied by name stays denied |
| accounts, `pkg/auth/AuthManager.go` | credentials | CreateUser, ChangePassword, DeleteUser, Login, LogOut | an account remains; no name twice |
| sessions, `pkg/auth/SessionHandler.go`, `followerSessions.go` | user -> tokens, on every node | AddToken, RemoveToken, GetConsumerID, propagation to followers | a token is valid until it is removed or expires, then on no node |
| handler, `pkg/handler/Handler.go` | none | validation, permission checks, then one log command per request; waits for the answer | the logged command is the requested one, and takes effect only if its sender is permitted it when it is applied |
| REST and gRPC, `pkg/rest`, `pkg/rpc` | none | leader check, authentication, decoding, the handler's method; GET /info reads the routes past the log | requests without a session do nothing; answers are complete |

How they meet: an API goroutine calls the handler, the handler serialises a
command and calls `batcher.SendLog`, which returns a channel; the batcher hands a
batch to Raft (`ApplyLog`); each node's `syblineFSM.Apply` runs the commands one by
one on broker, registry, queues, accounts and roles, and the results travel back
through the channels. Reads for the info endpoints go past the log.

What is hard in it: the batcher (three kinds of goroutines, two locks that do not
guard the same data, a timer); the queue's pointer surgery, where batch calls and
single calls keep different bookkeeping; locks that lapse by the clock of the
leader; retries and dead-letter queues; roles, accounts and routes that change between
the handler's checks and the application of its command; agreement of nodes although Go maps
iterate in random order; sessions copied between nodes by calls that may fail.
`PROJECT.json` lists each hazard at its line with the properties aimed at it.

## 2. Modules

* **MessageQueue** - one queue as a sequence of messages: the abstract
  specification. Each LinkedList method holds `ll.mutex` from start to end and is
  one action. `msgs` is the chain from Head; `tail` is the position of the Tail
  node on it (0: nil or off the chain); `amount` is `ll.Amount`. Batch
  acknowledgement does not maintain Tail and Amount, so both are state of their own.
  `dlq` holds the expired ids that are in the dead-letter queue. That queue is an ordinary
  one, to which clients may route keys and send batch acknowledgements: whether it takes
  an expired message is therefore a free choice, within its size. `DeadLetter` says what the pointer
  refers to: `QueueManager.CreateQueue` always passes `&dlq`, which for a queue
  without a dead-letter queue points to a nil interface. `SingleSpec` leaves batch
  acknowledgement out, `Spec` has every call a client can cause.
* **LinkedList**, **MCLinkedList** - the same methods on the heap: nodes, `Next`, Head, Tail, the
  pool. The pointers are one record `ll`, and every piece of pointer surgery is an
  operator from `ll` to `ll` that makes the assignments in the order of the code; a new
  node takes the lowest free address. Walks are recursive functions. `view` is the
  auxiliary refinement mapping; `ImplementsQueue` states that this module implements MessageQueue. MCLinkedList has the
  symmetry and `UpToAddresses`, the VIEW under which states that differ only in garbage
  and in the numbering of nodes are one.
* **Batcher** - SendLog by request goroutines, the storing goroutine and the timer
  goroutine. `nextFreeIndex` and `outputChans` are accessed under different locks,
  so each access is a step; everything else between two lock operations is one.
  A batch and its output channels carry a generation number. `ApplyLog` is
  Raft and the state machine together (external; `Apply` skips empty entries);
  `ApplyLogFails` is an error after which the entry may or may not be committed.
* **Broker**, **MCBroker** - routes and registry. Queues are objects: consumers find a
  dead-letter queue by name, its queue by pointer. A queue is the record of its chain
  (ids and the consumers that hold them), Tail, Amount, size and dead-letter pointer.
  `Q(q)` is MessageQueue looked at in the state of queue `q`: its operators say which
  positions a batch takes and keeps, and where Tail comes to lie, so that a batch
  acknowledgement leaves a stale Tail and Amount here too. Clocks and retry counts are
  free choices. Names are ranks in string order, `n + 1` being `n` with `-dlq` appended.
  MCBroker has the symmetry.
* **Replicas** - two instances of Broker fed with the same log.
* **Accounts**, **MCAccounts** - credentials, roles, the commands of the log that
  change them and their permission checks at the time they are applied; MCAccounts
  has one user-defined role, `allow:*,deny:q1`, which grants q1 as the code does.
* **TokenLists** - AddToken and RemoveToken on the map of one node.
* **Sessions** - the token lists of every node, Login and LogOut as one step per call
  to another node, each of which may be served, lost, served with its answer lost, or
  served late; restarts; deletion of a user. Whether a token has expired is a free
  choice.
* **Handler** - operators only: which requests pass the middleware of each API, which
  the APIs decode, and for each method of the handler its validation, its checks in
  order and the command it logs. `Logged` is sendCommand with the ids it draws and the
  random order of the keys of a batch.
* **Server**, **MCServer** - one node, composed of Handler, Accounts and Broker (by
  INSTANCE) and TokenLists. Each client goroutine is a small machine: `check` (one step
  per check), `wait` (its command is in `log`), `login` (the password was checked, the
  other nodes are being called), `info` (keys read, queues of some still to be read).
  The state machine takes the first command of `log`, checks the permission of its
  sender once more and applies it in one step, as Apply does. `log` stands for Batcher
  and Raft: an error loses the command or leaves it committed with nobody waiting.
  Logins and logouts served by other nodes arrive as `PropagateSession` and
  `DeleteSession` at any time, also for a user whose account is deleted here and not yet
  there; `overtaken` records the tokens that no deletion applied here could see. Checks read
  roles under their lock, in one step; `UserExists` reads the accounts without one,
  and `AccountsRace` is what it meets while the state machine takes an account out: a
  missing account, or a nil. Whether the node leads is a free choice where it is asked, so it does
  not matter that the REST middleware tells open routes by substrings of their path.
* **MessageQueueProofs**, **LinkedListProofs**, **AccountsProofs**, **BatcherProofs**,
  **BrokerProofs**, **SessionsProofs**, **ServerProofs** - theorems.
* **ListLemmas** - what the proofs need of lists, of the least and greatest number of a
  set, of induction over numbers and of FoldLeft.

Names are those of the code (`UnlockAndEmptyBatch`, `handleThresholdExpire` as
`HandleThresholdExpire`). An operator called "Mutant of X" is a plausible bug in X;
replacing X by it makes the property named in `PROJECT.json` fail.

## 3. Runs

Passing:

| Run | Shows | Bounds |
|---|---|---|
| queue_single | ListIntact, RetryBound, LockHonoured, UnheldStays, OthersKept under SingleSpec | 2 ids, 2 consumers, size 2, 2 retries, 3 clock readings around the lock time, batches of 2 |
| queue_batch | AmountCoversChain, TailShape with batch acknowledgement | 3 ids, 1 consumer, size 3, batches of 3, so that the chain reaches 5 nodes and a batch can be incomplete in every way |
| list_refines | PoolIsolated, ChainEnds, ImplementsQueue | 2 ids, 2 consumers (interchangeable: symmetry), size 2, batches of 3, so that chains of four occur and a batch walk meets Tail first, in the middle and last; messages expire at the first rejection; 6 heap cells, of which one is free whenever a call needs one; states up to addresses (VIEW) |
| batcher_flushes | AppliedAtMostOnce, SendLogReturns under FairSpec | 3 requests, batches of 2, Raft errors: a full flush and timer flushes before, between and after |
| broker_routes | EveryQueueRouted, RoutesAscend, OthersRouted | 2 names, the second being that of the first one's dead-letter queue, and its own; 2 keys (interchangeable: symmetry), 2 entries per key, sizes 0 and 1, one message, one consumer, batches of 1 and 2 |
| sessions_logout | OnlySessionEnds, OtherSessionsKept | 3 nodes, so that a LogOut can stop between two others; 2 tokens of one user; one late call at a time |
| server | InfoComplete, SessionsHaveAccounts, PermittedEffects, OwnPassword, OnlyHolderSettles | 2 goroutines (interchangeable: symmetry), 2 requests out of 20, logins or calls of other nodes, by 2 users with 3 sessions; 9 starting states that calls of the API reach: a queue on two keys with its dead-letter queue on one of them, two messages that nobody, alice, or alice and root hold, three pairs of roles for alice |
| accounts_roles | AccountRemains, DenialOutweighs | 2 users, 2 passwords, 5 built-in roles and one more, 2 roles per user |

The bounds are small because every call is local: a queue call looks at one node,
its neighbours, Head and Tail, and the batch rules change only up to the third
node; two keys suffice to have a queue on one key, on another and on both; two
roles suffice for every order of an allowance and a denial. `MaxNodes` and
`Objects` are larger than what can be in use at once, and `MaxRoute`, `MaxRoles`
only cap how often an entry is repeated. Deadlock is not checked where a panic
ends the process, and a panicked model takes no more steps.

For `server` two requests are what it takes: every property relates a request that
has passed its checks to one command of somebody else that is applied before it. It
starts from prepared states so that these two requests are all that is explored.
A batch of two messages under two keys of which one is permitted, and a batch
acknowledgement of two ids of which the sender holds one or both, are among the requests: the
refused one leaves Tail inside the chain, and the second request can submit to that
queue. Whether the node leads, whether a token or a lock has lapsed, whether retries are
used up and whether arguments are malformed are free choices.

PermittedEffects ties each change to the permission of its own command: an account that
appears needs CreateUser, one that disappears DeleteUser, a password ChangePassword; a
longer list of roles AssignRole, any other change of it UnassignRole; likewise for queues and
routes. A new message must be in queues that its *own* key feeds, and the sender
permitted under *every* key of the batch. OnlyHolderSettles, and the part of
PermittedEffects about messages that leave, are stated of queues whose Tail is the last node
(`TailLast`). Without that they are false: what a refused batch acknowledgement
leaves behind Tail is cut off by the next message, whoever holds it and whoever submits
(`BatchRestored` and `Enqueue` of MessageQueue). SessionsHaveAccounts excepts the tokens in `overtaken`; what is
left is that DELETE_USER, in whatever order with logins and logouts, ends every session it can see.

Violations, each a disagreement between the code and a statement of the
repository (quoted in `PROJECT.json`, "findings"):

| Run | What happens |
|---|---|
| queue_without_dlq | the last rejection in a queue without a dead-letter queue calls a nil interface |
| batcher_drops | a log is stored in slot 0, a second SendLog wraps nextFreeIndex to 0, and the timer goroutine, reading 0, sends the empty dataSlice[0:0] and renews the slice: the stored log is never applied |
| batcher_answers | SendLog returns a channel of the next batch: a request gets another's result |
| replicas | DeleteQueue takes the queue off the key the map yields first, which differs between nodes |

The models show these too, without a run of their own: a batch acknowledgement that is
refused leaves Tail inside the chain, and the next message cuts off what is behind it,
messages that nobody has fetched included, against "ensure messages are not lost"
(src/README.md:30); the role `allow:*,deny:q1` grants q1, since `*` is looked up first and ends the
search in that role (`Verdict`), against "Denys take precedence" (src/README.md:57), so that
DenialOutweighs is about denials between roles only; a batch acknowledged in full
leaves Amount as it was, so an emptied queue may count as full (`BatchSettled`);
deleting a route from a key that does not have the queue slices at index -1
(`DeleteRoutingKey`); a queue added twice to a key receives each message twice
(`Bound`, `Delivered`); creating a queue replaces an existing queue called `name-dlq`
(`Registered`); a role assigned twice survives being unassigned (`Unassigned`);
a full dead-letter queue drops the expired message (`DeadLetterEnqueue`, `Expired`); a
token that is last in a list of several survives its LogOut (`RemoveToken`), and an expired one is never removed
(`RemoveExpired`); a batch nack is logged as a batch acknowledgement, so that the
messages are removed (`BatchNack`); the handler checks the permission to assign roles
where one is unassigned, the state machine the permission to unassign
(`UnassignRole`); a login that is calling the other nodes when its account is deleted
ends with a session without an account, and so does one served by a node that applies
the deletion later (`LoginDone`, `PropagateSession`, recorded in `overtaken`); GET /info
reads the map of routes without its lock, which Go answers by ending the process when a
command writes it at that moment (`MapRace`); `UserExists` reads the accounts without a lock
(`AccountsRace`).

Fairness (`Batcher!FairSpec`) is weak fairness of each goroutine and of Raft: the
Go scheduler runs every runnable goroutine, `sync.Mutex` does not starve a waiter,
the timer is reset after every firing, and `ApplyLog` returns (with a result or an
error). Weak fairness is enough: SendLogReturns starts once the sender holds `b.lock`,
and the other goroutines hold `batchLock` only finitely often, as every flush empties a
batch with a log in it. `TimerSkip` changes nothing and needs none.

## 4. Proofs

Proved by TLAPS for every value of the constants. The assumptions used are those of the
modules, which TLC evaluates in the runs: `QueueAssumption` (size and batch bound
positive, naturals for limits and times, `None` no consumer), `AccountsAssumption` (roles
in JSON say "allow" or "deny" of actions, there is a password), `BatcherAssumption`
(finitely many requests, a positive batch length, `Nil` nobody), `BrokerAssumption`
and `ServerAssumption` (names and addresses are positive numbers; a batch of messages has
finitely many keys), `SessionsAssumption` (users are not tokens), `LinkedListAssumption`
(`QueueAssumption`, and a number of heap cells).

Queue:

* `TypeCorrect`, `CapacityBounded`, `StaleTailNearHead` (Spec) - one inductive
  invariant `IInv == TypeOK /\ AmountCoversChain /\ TailShape`. The parts need each
  other: linking behind a stale Tail shortens the chain, so the chain is bounded by
  Amount only because Tail lies on it; re-linking an incomplete batch moves Tail by
  the number of nodes put before it, and its result is in range only because at
  most two nodes come back (`RestorePanics` otherwise), which in turn yields the
  shape of the chain. The lemmas `KeptCount`, `TailAmongRange`,
  `BatchSettledEffect` and `BatchRestoredEffect` count the positions taken and kept.
* `NothingLost` (SingleSpec) - `ListIntact` on top of `IInv`: without batch
  acknowledgement Tail is the last node and Amount the length, for any queue.
* `RetriesBounded`, `LocksHonoured` (Spec) - every call but a fetch *carries the
  messages over* (`Carried`): a node of the new chain is one of the old chain as it was,
  or has no owner and retries left. One lemma per call shows it, for batches through the
  enumerations of the positions kept and taken; a fetch is described by `DequeueEffect`.
  Both theorems follow on top of `IInv`, which is needed for the positions to be those
  of the chain.
* `OthersUntouched`, `UnheldKept` (SingleSpec) - action properties. With `ListIntact`
  Tail is the last node, so unlinking a node and linking new ones leave every other node
  where it was or one place ahead (`UnlinkKeepsOthers`, `LinkKeepsAll`).

The list on the heap:

* `PoolIsIsolated`, `ChainAlwaysEnds`, `ListImplementsQueue` (LinkedList, for any number of
  heap cells) - one invariant `LLInv == HeapInv /\ MQ!IInv`. `HeapInv`: there is a path
  of distinct nodes from Head to nil (`Linked`), the nodes of the pool are distinct, reset
  and neither on the path nor Tail, and `view` is what the path reads as. The queue's own
  invariant is needed on the heap as well: by `TailShape` a stale Tail is one of the first
  nodes, so that re-linking an incomplete batch either puts back one or two nodes or
  dereferences nil (`RelinkPanicsIs`), and never closes a cycle.
* Every method has a lemma (`DequeueSteps`, `UnlockAndEmptySteps` ...) that gives, from
  `LLInv`, both `HeapInv'` and the queue's action on `view`; the refinement and the
  invariants follow from the same lemmas. A change of Next at one node is
  a change of the path at one place: cutting a node out, inserting behind Head
  (`InsertedLinked`), appending behind Tail, which drops what a stale Tail precedes.
* The walk of a batch acknowledgement is followed round by round (`Walking`, `RoundSteps`,
  `TakeAllEnds`): after each round the path is the old one without the nodes taken so far;
  when the node of Tail is taken, other than as Head, the walk ends and what followed it is
  cut off (`TailTaken`). The positions kept and taken are enumerated in
  ascending order (`Lists`), which makes the path that is left the sequence that
  MessageQueue keeps. That the recursive functions of the walks are defined at all is
  `RoundsExist`, from `Induction` of ListLemmas.

Lists and loops (`ListLemmas`): the library's induction theorems take an operator, which
the provers cannot instantiate, so induction is stated of sets: a set of naturals that
contains 0 and is closed under successor contains them all (`Induction`, from
`LeastExists`). `FoldExists` and `FoldSteps` build on it: FoldLeft over a list is the last
of a sequence of intermediate results, each made from the one before, and `FoldStays`
says that a set closed under the loop's body contains the result. These carry the
permission loop, the delivery to the queues of a key and the loop over a batch's keys.

Accounts and roles:

* `AnAccountRemains` - `AccountsInv` adds the type of the credentials; the lemma
  `SwapRemoveKeeps` shows that removal by swapping keeps names distinct.
* `DenialsOutweigh` - `RolesInv`: every verdict of every role, built in or parsed, is
  "allow" or "deny", and every user has a list of such roles. The loop is then followed
  step by step (`AdminLoop`, `MessageLoop`): it has denied when a role so far denies, else
  allowed when one allows.

Batcher:

* `BatcherTypeCorrect`, `NoLogAppliedTwice` - `BatcherInv`. That a log is applied once is
  not inductive: `OnePlace` says that a submitted log is in one place at most, the input
  channel, one slot of the batch, the flusher's hands or the state machine; `LockOK` and
  `FlightOK` say who is between which lock operations, so that one goroutine at a time
  flushes and one log at a time is submitted; `SwapsCounted` bounds the generations, each
  swap having taken a log out of the batch (a counting argument over the finitely many
  requests).

Sessions:

* `LogOutsEndOne` (Sessions) - `SessInv`: the lists hold tokens, and so do the calls under
  way, late ones included. `RemoveKeeps` is the core: RemoveToken overwrites one place with
  the last token and cuts the list by one, and the place it overwrites is one of the token
  named (`FoundAt`), so every other token is still in the list. No assumption is used.
* `SessionsTypeCorrect`, `OnlySessionsEnd` - `LoneInv`. A session that ended may be brought
  back by a Login that is late, so the invariant follows the token: it is on its way to a
  node once (`CallsInv`), a node it is on its way to does not have it yet (`MapsInv`), and
  a user's only token is alone in its list, so that removal drops the list. A
  node that the LogOut has passed neither has the token nor will get it (`EndInv`).

Routes and queues:

* `OthersKeepRoutes` (Broker) - the invariant `Routed` (every key has a list) makes the
  entry found by the search one of the queue named (`RemoveFirstEffect`); the places of
  any other queue before and after are then in bijection, those behind the entry moving
  up by one (`OtherPlacesKept`). Routes are typed by their own entries only, so names and
  keys are arbitrary; that they are sorted is not needed.
* `BrokerTypeCorrect`, `RoutesStayOrdered`, `QueuesStayRouted` - `BrokerInv`. `Sorted` picks
  for place i a value with fewer than i smaller entries and at least i entries up to it;
  that there is one, that the choices ascend and that every entry is chosen are counting
  arguments (`PlaceFilled`, `PlacesAscend`, `ValuePlaced`). A route is given up only when the queue
  has another key or goes with it; a dead-letter queue that takes the name
  of another queue has no dead-letter queue itself and needs no route (`CreateQueueKeeps`).
  That Tail lies on its chain after a batch was settled or linked back
  (`AllAckedType`, `RestoredType`) is counted on the enumerations of the positions kept
  and taken (`EnumeratesAll`, `UpToCount`); that it does after an expiry (`ExpiredType`) rests on
  `DeadLetterApart`: no queue is its own dead-letter queue, so that an expiring
  message enters one queue and leaves another.

One node at work:

* `SessionsAccounted`, `InfoNeverBlank` (Server) - the invariant `ServerInv` of a node
  without any assumption on its constants. `SessionsBacked` alone is not inductive: a
  login adds its token steps after the password was checked, so `LoginsAccounted` says
  the same of tokens on their way; a token that another node reports is fresh, and is
  recorded when its user has no account here. `KeysRouted` says that what a reader has still to read
  is routed; it holds because keys keep an empty list when their last queue goes
  (`WithDomain`). The accounts are a sequence from which entries are removed by swapping
  (`SwapRemoveNames`): a password change removes a name and puts it back, a deletion
  removes that name only.
* `PasswordsOwn` - `PasswordInv` adds that names are unique and that every request under
  way and every logged command is one the handler makes: a password change names its
  sender (`RequestsOk`). This is followed through the checks, the log, lost and orphaned
  commands. An account whose password differs afterwards is then the one the
  command replaced.
* `EffectsPermitted`, `HoldersSettle` - `WorkInv` adds that routes and lists of roles are
  lists, that every queue has a chain with Tail on it (`QueueOk`), that no queue is its own
  dead-letter queue, and that a queue nothing refers to is empty (`HeapOk`): without the last a
  new queue could take the address of one that still holds messages. Every queue call is
  brought into one form, `Becomes(q, e, N, L)`: queue `q` becomes `e`, new nodes
  are in `N`, and while Tail is last no message is gone but those whose copies are all held by
  `L`. There is one such lemma for enqueueing, locking, unlinking and each outcome of a
  batch acknowledgement (`AllAckedBecomes`, `RestoredBecomes`). A command has then one of
  three effects on the messages (`HeapEffect`): none; queues come and go (`Renewed`); or every
  queue `Becomes` another, with `N` and `L` according to the command: settled or released
  by the sender (`SettlesOwn`), locked for the sender (`Fetches`), or added to the queues that the keys
  of the command feed (`Delivers`; the loops over keys and routes by `BatchGrows` and
  `DeliveredGrows`). `MessagesFollow` reads both theorems off the effect. Accounts,
  roles and routes are followed command by command (`AccountsAre`, `RolesAre`, `AddKeyEffect` ...):
  removal by swapping loses one name, and a list of roles or a route gets longer or shorter by one.

Only model-checked:

* `SendLogReturns` of Batcher: liveness under fairness is out of the prover's reach.
* The runs that end in a violation.

## 5. Not modelled

Configuration and start-up (wiring), generated code, hashing and token generation,
msgpack (assumed to round-trip), the Raft library (external: one log, applied in order
everywhere; ApplyLog may fail), metrics and logging. Info routes other than
GET /info/all are single reads. Methods nobody calls (`UnlockAllFromConsumer`,
`DeleteRole`, the pool's `Close`) are left out, and so are `BatchUnlock` and the command
`BATCH_NACK` that would reach it: `handler.BatchNack` logs a batch acknowledgement, so no
run of the program applies one. Restart and snapshots belong to the Raft library.

## 6. Plan

In order of importance; all done.

1. MessageQueue, its runs and the inductive invariant.
2. LinkedList and the refinement.
3. Batcher: safety, liveness, the two races.
4. Broker and Replicas.
5. Accounts.
6. Sessions.
7. Handler, APIs and state machine composed in Server: the checks before a command is
   logged against the ones when it is applied, logins and info reads past the log.
8. Proofs of every safety invariant, every action property and the refinement. Liveness
   stays with TLC.
