------------------------------ MODULE Handler ------------------------------
(***************************************************************************)
(* What a request passes before its command is logged: the leader and      *)
(* authentication middleware of the two APIs (rest, rpc), their decoding,  *)
(* and the methods of handler.Handler with their validation and permission *)
(* checks.  Operators only: Server puts them to work.                      *)
(*                                                                         *)
(* A request is a record with its `op', the method of the handler, and the *)
(* arguments of that method.  Empty stands for the empty string, for no    *)
(* data and for an id of length zero; Malformed for a value that cannot be *)
(* parsed: an id that is no UUID, an amount that is no 32-bit number, a    *)
(* role that is no JSON.                                                   *)
(***************************************************************************)
EXTENDS Integers, Sequences, FiniteSets, SequencesExt

CONSTANTS Empty, Malformed

-----------------------------------------------------------------------------
(* Middleware *)

\* The ops of the REST API besides those of the handler: every GET below /info,
\* GET /login, /metrics.  Followers serve them, to take some of the load.  (The paths
\* are searched for these words, so that others that contain one pass as well: who
\* calls chooses `leader' freely, which covers them.)
RestIsLeader(op, leader) == leader \/ op \in {"Info", "InfoIsLeader", "Login", "CheckLogin", "Metrics"}

\* GET /login is authenticated, POST /login is not.
RestOpen(op) == op \in {"InfoIsLeader", "Login", "Metrics"}

GrpcIsLeader(op, leader) == leader \/ op = "IsLeaderNode"

GrpcOpen(op) == op \in {"Login", "IsLeaderNode"}

Apis == {"rest", "grpc"}

\* May a request come through on this node, its session being valid or not?
PassesMiddleware(api, op, leader, session) ==
    IF api = "rest" THEN RestIsLeader(op, leader) /\ (RestOpen(op) \/ session)
    ELSE GrpcIsLeader(op, leader) /\ (GrpcOpen(op) \/ session)

-----------------------------------------------------------------------------
(* Decoding.  What a route cannot decode is answered with an error. *)

RestQueue(r) ==
    \/ r.op = "CreateQueue"
    \/ r.op = "GetMessages" /\ r.queue # Empty /\ r.amount # Malformed
    \/ r.op \in {"Ack", "Nack"} /\ r.id \notin {Empty, Malformed}

RestBroker(r) == r.op = "SubmitMessage"

RestAccounts(r) ==
    \/ r.op \in {"CreateUser", "CreateRole"}
    \/ r.op \in {"AssignRole", "UnassignRole"} /\ r.user # Empty /\ r.role # Empty

\* Messages, queues and passwords: a method of the service calls the handler's
\* method of that name with the fields of its message, where an amount is a number.
GrpcMessages(r) ==
    \/ r.op \in {"SubmitMessage", "CreateQueue", "Ack", "ChangePassword", "Nack",
                 "DeleteQueue", "AddRoutingKey", "DeleteRoutingKey"}
    \/ r.op = "GetMessages" /\ r.amount # Malformed

\* Accounts, roles and batches
GrpcAccounts(r) ==
    r.op \in {"CreateUser", "SubmitBatchedMessages", "DeleteUser", "BatchAck", "BatchNack",
              "CreateRole", "AssignRole", "UnassignRole"}

Decodes(api, r) ==
    IF api = "rest" THEN RestQueue(r) \/ RestBroker(r) \/ RestAccounts(r)
    ELSE GrpcMessages(r) \/ GrpcAccounts(r)

-----------------------------------------------------------------------------
(* Validation *)

ValidateMessage(data, key) == data # Empty /\ key # Empty

ValidateRequestMessages(queue, amount) == queue # Empty /\ amount # 0

ValidateCreateQueue(key, name, size) == key # Empty /\ name # Empty /\ size # 0

ValidateAck(queue, id) == queue # Empty /\ id # Empty

ValidateBatchAck(queue, ids) == queue # Empty /\ ids # <<>>

ValidateChangePassword(user, old, new) == user # Empty /\ old # Empty /\ new # Empty

ValidateUsernamePassword(user, password) == user # Empty /\ password # Empty

ValidateRoutingKeyChange(queue, key) == key # Empty /\ queue # Empty

\* Login over gRPC goes through the handler; POST /login calls the accounts directly.
ValidateLogin(api, user, password) == api = "grpc" => user # Empty /\ password # Empty

-----------------------------------------------------------------------------
(* Checks that read the state of the node *)

Admin(by, perm) == [check |-> "admin", by |-> by, perm |-> perm]
Message(by, entity, action) == [check |-> "message", by |-> by, entity |-> entity, action |-> action]
Account(user) == [check |-> "account", user |-> user]
KnownRole(role) == [check |-> "role", role |-> role]
NewRole(role) == [check |-> "newRole", role |-> role]

-----------------------------------------------------------------------------
(* The methods.  ctx holds the user and the token of the session, which      *)
(* stands for the consumer id that came with it.  A method is described by   *)
(* whether its arguments are valid, the checks it makes, in order, and the   *)
(* command it gives to sendCommand.                                          *)

Method(valid, checks, command) == [valid |-> valid, checks |-> checks, command |-> command]

AddRoutingKey(ctx, r) ==
    Method(ValidateRoutingKeyChange(r.queue, r.key),
           <<Admin(ctx.user, "AddRoutingKey")>>,
           [op |-> "ADD_ROUTING_KEY", by |-> ctx.user, key |-> r.key, queue |-> r.queue])

DeleteRoutingKey(ctx, r) ==
    Method(ValidateRoutingKeyChange(r.queue, r.key),
           <<Admin(ctx.user, "DeleteRoutingKey")>>,
           [op |-> "DELETE_ROUTING_KEY", by |-> ctx.user, key |-> r.key, queue |-> r.queue])

CreateQueue(ctx, r) ==
    Method(ValidateCreateQueue(r.key, r.queue, r.size),
           <<Admin(ctx.user, "CreateQueue")>>,
           [op |-> "CREATE_QUEUE", by |-> ctx.user, key |-> r.key, queue |-> r.queue,
            size |-> r.size, hasDLQ |-> r.hasDLQ])

DeleteQueue(ctx, r) ==
    Method(r.queue # Empty,
           <<Admin(ctx.user, "DeleteQueue")>>,
           [op |-> "DELETE_QUEUE", by |-> ctx.user, queue |-> r.queue])

\* `counts' has the number of messages for each key; sendCommand's data carries an
\* id for each of them (see Logged).
SubmitMessage(ctx, r) ==
    Method(ValidateMessage(r.data, r.key),
           <<Message(ctx.user, r.key, "SubmitMessage")>>,
           [op |-> "SUBMIT_MESSAGE", by |-> ctx.user, counts |-> [k \in {r.key} |-> 1]])

FirstOfKey(messages, i) == \A j \in 1..(i - 1) : messages[j].key # messages[i].key

\* The permission is checked the first time a key is seen.  An empty batch is logged.
SubmitBatchedMessages(ctx, r) ==
    LET ms == r.messages
        firsts == SetToSortSeq({i \in DOMAIN ms : FirstOfKey(ms, i)}, <)
    IN  Method(\A i \in DOMAIN ms : ValidateMessage(ms[i].data, ms[i].key),
               [i \in DOMAIN firsts |-> Message(ctx.user, ms[firsts[i]].key, "SubmitBatchedMessages")],
               [op |-> "SUBMIT_BATCH_MESSAGE", by |-> ctx.user,
                counts |-> [k \in {ms[i].key : i \in DOMAIN ms} |->
                              Cardinality({i \in DOMAIN ms : ms[i].key = k})]])

GetMessages(ctx, r) ==
    Method(ValidateRequestMessages(r.queue, r.amount),
           <<Message(ctx.user, r.queue, "GetMessages")>>,
           [op |-> "GET_MESSAGES", by |-> ctx.user, queue |-> r.queue, amount |-> r.amount,
            consumer |-> ctx.token])

Settles(op, ctx, queue, ids) ==
    [op |-> op, by |-> ctx.user, queue |-> queue, ids |-> ids, consumer |-> ctx.token]

Ack(ctx, r) ==
    Method(ValidateAck(r.queue, r.id) /\ r.id # Malformed,
           <<Message(ctx.user, r.queue, "Ack")>>,
           Settles("ACK", ctx, r.queue, <<r.id>>))

Nack(ctx, r) ==
    Method(ValidateAck(r.queue, r.id) /\ r.id # Malformed,
           <<Message(ctx.user, r.queue, "Ack")>>,
           Settles("NACK", ctx, r.queue, <<r.id>>))

BatchAck(ctx, r) ==
    Method(ValidateBatchAck(r.queue, r.ids),
           <<Message(ctx.user, r.queue, "BatchAck")>>,
           Settles("BATCH_ACK", ctx, r.queue, r.ids))

\* It is a batch acknowledgement that is logged.
BatchNack(ctx, r) ==
    Method(ValidateBatchAck(r.queue, r.ids),
           <<Message(ctx.user, r.queue, "BatchAck")>>,
           Settles("BATCH_ACK", ctx, r.queue, r.ids))

CreateUser(ctx, r) ==
    Method(ValidateUsernamePassword(r.user, r.password),
           <<Admin(ctx.user, "CreateUser")>>,
           [op |-> "CREATE_ACCOUNT", by |-> ctx.user, user |-> r.user, password |-> r.password])

\* Mutant of ChangePassword: the user named in the request.
ChangeAnyPassword(ctx, r) ==
    Method(ValidateChangePassword(r.user, r.old, r.new),
           <<Admin(ctx.user, "ChangePassword")>>,
           [op |-> "CHANGE_PASSWORD", by |-> ctx.user, user |-> r.user, old |-> r.old, new |-> r.new])

\* The user of the session, whatever user the request names.
ChangePassword(ctx, r) ==
    Method(ValidateChangePassword(r.user, r.old, r.new),
           <<Admin(ctx.user, "ChangePassword")>>,
           [op |-> "CHANGE_PASSWORD", by |-> ctx.user, user |-> ctx.user, old |-> r.old, new |-> r.new])

DeleteUser(ctx, r) ==
    Method(r.user # Empty,
           <<Admin(ctx.user, "DeleteUser")>>,
           [op |-> "DELETE_USER", by |-> ctx.user, user |-> r.user])

\* The role is parsed here, unless its name is taken; the state machine gets the result.
CreateRole(ctx, r) ==
    Method(r.role # Malformed,
           <<Admin(ctx.user, "CreateRole"), NewRole(r.role)>>,
           [op |-> "CREATE_ROLE", by |-> ctx.user, role |-> r.role])

AssignRole(ctx, r) ==
    Method(r.role # Empty /\ r.user # Empty,
           <<Account(r.user), KnownRole(r.role), Admin(ctx.user, "AssignRole")>>,
           [op |-> "ASSIGN_ROLE", by |-> ctx.user, user |-> r.user, role |-> r.role])

\* It is the permission to assign that is checked here, and the permission to
\* unassign when the command is applied.
UnassignRole(ctx, r) ==
    Method(r.role # Empty /\ r.user # Empty,
           <<Account(r.user), KnownRole(r.role), Admin(ctx.user, "AssignRole")>>,
           [op |-> "UNASSIGN_ROLE", by |-> ctx.user, user |-> r.user, role |-> r.role])

Handle(ctx, r) ==
    CASE r.op = "AddRoutingKey" -> AddRoutingKey(ctx, r)
      [] r.op = "DeleteRoutingKey" -> DeleteRoutingKey(ctx, r)
      [] r.op = "CreateQueue" -> CreateQueue(ctx, r)
      [] r.op = "DeleteQueue" -> DeleteQueue(ctx, r)
      [] r.op = "SubmitMessage" -> SubmitMessage(ctx, r)
      [] r.op = "SubmitBatchedMessages" -> SubmitBatchedMessages(ctx, r)
      [] r.op = "GetMessages" -> GetMessages(ctx, r)
      [] r.op = "Ack" -> Ack(ctx, r)
      [] r.op = "Nack" -> Nack(ctx, r)
      [] r.op = "BatchAck" -> BatchAck(ctx, r)
      [] r.op = "BatchNack" -> BatchNack(ctx, r)
      [] r.op = "CreateUser" -> CreateUser(ctx, r)
      [] r.op = "ChangePassword" -> ChangePassword(ctx, r)
      [] r.op = "DeleteUser" -> DeleteUser(ctx, r)
      [] r.op = "CreateRole" -> CreateRole(ctx, r)
      [] r.op = "AssignRole" -> AssignRole(ctx, r)
      [] r.op = "UnassignRole" -> UnassignRole(ctx, r)

-----------------------------------------------------------------------------
(* sendCommand *)

\* The ids drawn for n messages: any new ones.
Draw(n, free) == CHOOSE s \in [1..n -> free] : IsInjective(s)

\* The batches of one key each that stand in the command, the keys in the order ks
Drawn(counts, ks, free) ==
    LET before(i) == FoldLeft(LAMBDA a, j : a + counts[ks[j]], 0, [j \in 1..(i - 1) |-> j])
        ids == Draw(FoldLeft(LAMBDA a, k : a + counts[k], 0, ks), free)
    IN  [i \in DOMAIN ks |-> [key |-> ks[i], ids |-> [j \in 1..counts[ks[i]] |-> ids[before(i) + j]]]]

Submits(c) == c.op \in {"SUBMIT_MESSAGE", "SUBMIT_BATCH_MESSAGE"}

\* Bound: are there ids for the messages of c?
Room(c, free) ==
    Submits(c) => MapThenSumSet(LAMBDA k : c.counts[k], DOMAIN c.counts) <= Cardinality(free)

\* The commands that may be logged for c.  Messages get ids, and the keys of a batch
\* come in the random order of a map.
Logged(c, free) ==
    IF ~Submits(c) THEN {c}
    ELSE {[op |-> c.op, by |-> c.by, batches |-> Drawn(c.counts, ks, free)] :
              ks \in SetToSeqs(DOMAIN c.counts)}

\* The message ids in a command that was logged
IdsOf(c) == IF Submits(c) THEN UNION {Range(c.batches[i].ids) : i \in DOMAIN c.batches} ELSE {}

=============================================================================
