------------------------------- MODULE Server -------------------------------
(***************************************************************************)
(* One node at work: requests come in, pass the middleware and the handler *)
(* (Handler), become commands of the log, and the state machine applies    *)
(* the commands to the broker (Broker) and to the accounts (Accounts).     *)
(*                                                                         *)
(* A request is served by a goroutine of its own.  It reads the roles and  *)
(* the accounts while the state machine applies the commands of others, so *)
(* every check is a step; a command is applied in one step.                *)
(*                                                                         *)
(* The log stands for the batcher (Batcher) and for Raft.  Logins and      *)
(* logouts on other nodes reach this one as calls; what becomes of calls   *)
(* that are lost or repeated is the subject of Sessions, and retry counts  *)
(* and clocks that of MessageQueue.  A token stands for the consumer id    *)
(* generated with it.  Leadership moves at any time: whether the node is   *)
(* the leader is a free choice where it is asked.                          *)
(***************************************************************************)
EXTENDS Handler, TokenLists

CONSTANTS
    Clients,       \* the goroutines that serve requests
    Requests,      \* the requests clients make
    Usernames, Root, Passwords, CustomRoles,
    Tokens,        \* session tokens
    Names, Keys, Ids, Sizes,
    Objects,       \* bound: addresses of queues
    MaxRoute,      \* bound: entries of one routing key
    MaxRoles,      \* bound: roles assigned to one user
    MaxRequests    \* bound: requests made, calls of other nodes included

ASSUME ServerAssumption ==
    /\ Objects \subseteq Nat \ {0}
    /\ \A r \in Requests : r.op = "SubmitBatchedMessages" => IsFiniteSet(DOMAIN r.messages)

VARIABLES
    credentials, roles, users,        \* see Accounts
    routing, queues, heap, status,    \* see Broker
    failed,        \* did the last command return an error
    sessions,      \* user -> tokens (sessionHandler.sessionIDs)
    issued,        \* the tokens and message ids generated so far
    serving,       \* what each goroutine is doing
    log,           \* the commands logged and not yet applied, with who waits for the result
    received,      \* how many requests were made
    overtaken      \* auxiliary: tokens whose login a deletion overtook

accounts == <<credentials, roles, users>>
broker == <<routing, queues, heap, status>>
front == <<sessions, issued, received, overtaken>>
vars == <<accounts, broker, failed, front, serving, log>>

A == INSTANCE Accounts WITH Entities <- Names \cup Keys

Nobody == Empty

B == INSTANCE Broker WITH NoKey <- Empty, NoData <- Empty, Consumers <- Tokens, None <- Nobody

Idle == [at |-> "idle"]

Init ==
    /\ A!Init /\ B!Init
    /\ sessions = <<>> /\ issued = {}
    /\ serving = [c \in Clients |-> Idle]
    /\ log = <<>>
    /\ received = 0
    /\ overtaken = {}

Goes(c, to) == serving' = [serving EXCEPT ![c] = to]

\* Goroutine c starts to serve a request.
Starts(c) ==
    /\ status = "up"
    /\ serving[c] = Idle
    /\ received < MaxRequests /\ received' = received + 1

-----------------------------------------------------------------------------
(* Sessions *)

Password(u, p) == \E i \in A!At(u) : credentials[i].password = p

\* The password is checked and a token generated; then the other nodes are called.
Login(c, api, leader, u, p, t) ==
    /\ Starts(c)
    /\ PassesMiddleware(api, "Login", leader, FALSE)
    /\ ValidateLogin(api, u, p) /\ Password(u, p)
    /\ t \notin issued
    /\ issued' = issued \cup {t}
    /\ Goes(c, [at |-> "login", user |-> u, token |-> t])
    /\ UNCHANGED <<accounts, broker, failed, sessions, log, overtaken>>

LoginDone(c) ==
    /\ status = "up" /\ serving[c].at = "login"
    /\ sessions' = AddToken(sessions, serving[c].token, serving[c].user)
    /\ Goes(c, Idle)
    /\ UNCHANGED <<accounts, broker, failed, issued, log, received, overtaken>>

\* Another node has served a login of u.  The node may be behind, and still have an
\* account that is deleted here, or ahead.
PropagateSession(u, t) ==
    /\ status = "up"
    /\ received < MaxRequests /\ received' = received + 1
    /\ t \notin issued
    /\ issued' = issued \cup {t}
    /\ sessions' = AddToken(sessions, t, u)
    /\ overtaken' = IF A!UserExists(u) THEN overtaken ELSE overtaken \cup {t}
    /\ UNCHANGED <<accounts, broker, failed, serving, log>>

\* Another node has served a logout.
DeleteSession(u, t) ==
    /\ status = "up"
    /\ received < MaxRequests /\ received' = received + 1
    /\ sessions' = RemoveToken(sessions, t, u)
    /\ UNCHANGED <<accounts, broker, failed, issued, serving, log, overtaken>>

\* The other nodes have dropped the token.
LogOut(c, api, u, t) ==
    /\ Starts(c)
    /\ PassesMiddleware(api, "LogOut", TRUE, Has(sessions, u, t))
    /\ sessions' = RemoveToken(sessions, t, u)
    /\ UNCHANGED <<accounts, broker, failed, issued, serving, log, overtaken>>

-----------------------------------------------------------------------------
(* Requests *)

\* Any request may be refused: the node may not be the leader, the token may have
\* expired or be unknown, the password wrong, the arguments malformed or invalid.
Refuse(c) ==
    /\ Starts(c)
    /\ UNCHANGED <<accounts, broker, failed, sessions, issued, serving, log, overtaken>>

\* The node is the leader, and the token has not expired.
Receive(c, api, r, u, t) ==
    /\ Starts(c)
    /\ PassesMiddleware(api, r.op, TRUE, Has(sessions, u, t))
    /\ Decodes(api, r)
    /\ LET m == Handle([user |-> u, token |-> t], r)
       IN  m.valid /\ Goes(c, [at |-> "check", checks |-> m.checks, command |-> m.command])
    /\ UNCHANGED <<accounts, broker, failed, sessions, issued, log, overtaken>>

Passed(k) ==
    CASE k.check = "admin" -> A!HasAdminPermission(k.by, k.perm)
      [] k.check = "message" -> A!HasPermission(k.by, k.entity, k.action)
      [] k.check = "account" -> A!UserExists(k.user)
      [] k.check = "role" -> k.role \in DOMAIN roles
      [] k.check = "newRole" -> k.role.name \notin DOMAIN roles

\* The next check of the method; the first that fails ends the request.
Check(c) ==
    /\ status = "up" /\ serving[c].at = "check" /\ serving[c].checks # <<>>
    /\ \/ /\ Passed(Head(serving[c].checks))
          /\ Goes(c, [at |-> "check", checks |-> Tail(serving[c].checks), command |-> serving[c].command])
       \/ ~Passed(Head(serving[c].checks)) /\ Goes(c, Idle)
    /\ UNCHANGED <<accounts, broker, failed, front, log>>

\* UserExists reads the accounts without a lock.  While the state machine takes one out
\* it may miss the one that is moved, or meet the nil that is left at the end.
AccountsRace(c) ==
    /\ status = "up" /\ serving[c].at = "check" /\ serving[c].checks # <<>>
    /\ Head(serving[c].checks).check = "account"
    /\ log # <<>> /\ Head(log).command.op \in {"DELETE_USER", "CHANGE_PASSWORD"}
    /\ \/ Goes(c, Idle) /\ UNCHANGED status
       \/ status' = "panic" /\ UNCHANGED serving
    /\ UNCHANGED <<accounts, routing, queues, heap, failed, front, log>>

\* sendCommand: the command goes to the batcher, and c waits for its result.
SendLog(c) ==
    /\ status = "up" /\ serving[c].at = "check" /\ serving[c].checks = <<>>
    /\ Room(serving[c].command, Ids \ issued)
    /\ \E command \in Logged(serving[c].command, Ids \ issued) :
         /\ log' = Append(log, [command |-> command, from |-> c])
         /\ issued' = issued \cup IdsOf(command)
    /\ Goes(c, [at |-> "wait"])
    /\ UNCHANGED <<accounts, broker, failed, sessions, received, overtaken>>

\* Raft answers with an error, as it does when the node is no longer the leader: the
\* command is lost, or committed all the same.
ApplyLogFails(c) ==
    /\ status = "up" /\ serving[c].at = "wait"
    /\ \E i \in DOMAIN log :
         /\ log[i].from = c
         /\ log' = RemoveAt(log, i) \/ log' = [log EXCEPT ![i].from = Nobody]
    /\ Goes(c, Idle)
    /\ UNCHANGED <<accounts, broker, failed, front>>

-----------------------------------------------------------------------------
(* GET /info/all.  It reads the routes past the log and without their lock. *)

\* GetKeys
ReadKeys(c, leader, u, t) ==
    /\ Starts(c)
    /\ PassesMiddleware("rest", "Info", leader, Has(sessions, u, t))
    /\ Goes(c, [at |-> "info", left |-> DOMAIN routing, blank |-> FALSE])
    /\ UNCHANGED <<accounts, broker, failed, sessions, issued, log, overtaken>>

\* GetQueues for the next key.  A key that is not found leaves a blank entry.
ReadQueues(c) ==
    /\ status = "up" /\ serving[c].at = "info"
    /\ \/ serving[c].left = {} /\ Goes(c, Idle)
       \/ \E k \in serving[c].left :
            Goes(c, [at |-> "info", left |-> serving[c].left \ {k},
                     blank |-> serving[c].blank \/ k \notin DOMAIN routing])
    /\ UNCHANGED <<accounts, broker, failed, front, log>>

RouteCommands == {"CREATE_QUEUE", "DELETE_QUEUE", "ADD_ROUTING_KEY", "DELETE_ROUTING_KEY"}

\* The map is written while it is read: Go ends the process.
MapRace(c) ==
    /\ status = "up" /\ serving[c].at = "info"
    /\ log # <<>> /\ Head(log).command.op \in RouteCommands
    /\ status' = "panic"
    /\ UNCHANGED <<accounts, routing, queues, heap, failed, front, serving, log>>

-----------------------------------------------------------------------------
(* The state machine.  The next command of the log is applied; whoever waits *)
(* for it gets its result.                                                   *)

Command == Head(log).command

Takes(op) ==
    /\ status = "up"
    /\ log # <<>> /\ Command.op = op
    /\ log' = Tail(log)
    /\ serving' = [c \in Clients |-> IF c = Head(log).from THEN Idle ELSE serving[c]]

Applies(op) == Takes(op) /\ UNCHANGED front

AdminNeeded == [CREATE_QUEUE |-> "CreateQueue", DELETE_QUEUE |-> "DeleteQueue",
                ADD_ROUTING_KEY |-> "AddRoutingKey", DELETE_ROUTING_KEY |-> "DeleteRoutingKey"]

ActionNeeded == [SUBMIT_MESSAGE |-> "SubmitMessage", SUBMIT_BATCH_MESSAGE |-> "SubmitBatchedMessages",
                 GET_MESSAGES |-> "GetMessages", ACK |-> "Ack", NACK |-> "Ack", BATCH_ACK |-> "BatchAck"]

\* Mutant of Permitted: one key of a batch is enough.
PermittedSome(c) ==
    IF c.op \in DOMAIN AdminNeeded THEN A!HasAdminPermission(c.by, AdminNeeded[c.op])
    ELSE \E e \in (IF Submits(c) THEN {b.key : b \in Range(c.batches)} ELSE {c.queue}) :
           A!HasPermission(c.by, e, ActionNeeded[c.op])

\* The permission check of a command: every key of a batch before its first message.
Permitted(c) ==
    IF c.op \in DOMAIN AdminNeeded THEN A!HasAdminPermission(c.by, AdminNeeded[c.op])
    ELSE \A e \in (IF Submits(c) THEN {b.key : b \in Range(c.batches)} ELSE {c.queue}) :
           A!HasPermission(c.by, e, ActionNeeded[c.op])

Denied == ~Permitted(Command) /\ B!Refuses(TRUE)

CREATE_QUEUE ==
    /\ Applies("CREATE_QUEUE")
    /\ \/ Denied
       \/ /\ Permitted(Command)
          /\ B!CreateQueue(Command.queue, Command.key, Command.size, Command.hasDLQ)
    /\ UNCHANGED accounts

DELETE_QUEUE ==
    /\ Applies("DELETE_QUEUE")
    /\ Denied \/ (Permitted(Command) /\ B!DeleteQueue(Command.queue))
    /\ UNCHANGED accounts

ADD_ROUTING_KEY ==
    /\ Applies("ADD_ROUTING_KEY")
    /\ Denied \/ (Permitted(Command) /\ B!AddRouteKey(Command.key, Command.queue))
    /\ UNCHANGED accounts

DELETE_ROUTING_KEY ==
    /\ Applies("DELETE_ROUTING_KEY")
    /\ Denied \/ (Permitted(Command) /\ B!DeleteRoutingKey(Command.key, Command.queue))
    /\ UNCHANGED accounts

SUBMIT_MESSAGE ==
    /\ Applies("SUBMIT_MESSAGE")
    /\ LET b == Command.batches[1]
       IN  Denied \/ (Permitted(Command) /\ B!AddMessage(b.key, b.ids[1]))
    /\ UNCHANGED accounts

Routed(b) == b.key \in DOMAIN routing

\* A key that is unknown does not keep the messages of the others back.
SUBMIT_BATCH_MESSAGE ==
    /\ Applies("SUBMIT_BATCH_MESSAGE")
    /\ \/ Denied
       \/ /\ Permitted(Command)
          /\ heap' = FoldLeft(LAMBDA h, b : IF Routed(b) THEN B!Delivered(h, b.key, b.ids) ELSE h,
                              heap, Command.batches)
          /\ B!Returns(\E b \in Range(Command.batches) : ~Routed(b))
          /\ UNCHANGED <<routing, queues>>
    /\ UNCHANGED accounts

GET_MESSAGES ==
    /\ Applies("GET_MESSAGES")
    /\ \/ Denied
       \/ Permitted(Command) /\ B!Dequeue(Command.queue, Command.amount, Command.consumer)
    /\ UNCHANGED accounts

ACK ==
    /\ Applies("ACK")
    /\ Denied \/ (Permitted(Command) /\ B!Ack(Command.queue, Command.ids[1], Command.consumer))
    /\ UNCHANGED accounts

NACK ==
    /\ Applies("NACK")
    /\ Denied \/ (Permitted(Command) /\ B!Nack(Command.queue, Command.ids[1], Command.consumer))
    /\ UNCHANGED accounts

BATCH_ACK ==
    /\ Applies("BATCH_ACK")
    /\ Denied \/ (Permitted(Command) /\ B!BatchAck(Command.queue, Command.ids, Command.consumer))
    /\ UNCHANGED accounts

CREATE_ACCOUNT ==
    /\ Applies("CREATE_ACCOUNT")
    /\ A!CreateUser(Command.by, Command.user, Command.password)
    /\ UNCHANGED broker

CHANGE_PASSWORD ==
    /\ Applies("CHANGE_PASSWORD")
    /\ A!ChangePassword(Command.by, Command.user, Command.old, Command.new)
    /\ UNCHANGED broker

\* Mutant of DropsSessions: the tokens stay.
DropsNothing(u) == sessions

\* sessionHandler.DeleteUser
DropsSessions(u) == [v \in DOMAIN sessions \ {u} |-> sessions[v]]

\* The user's sessions end with the account.  A login that is calling the other
\* nodes has no session yet: `overtaken' records its token.
DELETE_USER ==
    /\ Takes("DELETE_USER")
    /\ A!DeleteUser(Command.by, Command.user)
    /\ LET u == Command.user
       IN  IF failed' THEN UNCHANGED <<sessions, overtaken>>
           ELSE /\ sessions' = DropsSessions(u)
                /\ overtaken' = overtaken \cup {serving[c].token :
                     c \in {d \in Clients : serving[d].at = "login" /\ serving[d].user = u}}
    /\ UNCHANGED <<broker, issued, received>>

CREATE_ROLE ==
    /\ Applies("CREATE_ROLE")
    /\ A!CreateRole(Command.by, Command.role)
    /\ UNCHANGED broker

ASSIGN_ROLE ==
    /\ Applies("ASSIGN_ROLE")
    /\ A!AssignRole(Command.by, Command.user, Command.role)
    /\ UNCHANGED broker

UNASSIGN_ROLE ==
    /\ Applies("UNASSIGN_ROLE")
    /\ A!UnassignRole(Command.by, Command.user, Command.role)
    /\ UNCHANGED broker

-----------------------------------------------------------------------------
(* Specification *)

Frontend(c) ==
    \/ \E api \in Apis, leader \in BOOLEAN, u \in Usernames, p \in Passwords, t \in Tokens :
          Login(c, api, leader, u, p, t)
    \/ LoginDone(c)
    \/ \E api \in Apis, u \in Usernames, t \in Tokens :
          LogOut(c, api, u, t)
    \/ Refuse(c)
    \/ \E api \in Apis, r \in Requests, u \in Usernames, t \in Tokens : Receive(c, api, r, u, t)
    \/ Check(c)
    \/ AccountsRace(c)
    \/ SendLog(c)
    \/ ApplyLogFails(c)
    \/ \E leader \in BOOLEAN, u \in Usernames, t \in Tokens :
          ReadKeys(c, leader, u, t)
    \/ ReadQueues(c)
    \/ MapRace(c)

Apply ==
    \/ CREATE_QUEUE \/ DELETE_QUEUE \/ ADD_ROUTING_KEY \/ DELETE_ROUTING_KEY
    \/ SUBMIT_MESSAGE \/ SUBMIT_BATCH_MESSAGE \/ GET_MESSAGES \/ ACK \/ NACK \/ BATCH_ACK
    \/ CREATE_ACCOUNT \/ CHANGE_PASSWORD \/ DELETE_USER
    \/ CREATE_ROLE \/ ASSIGN_ROLE \/ UNASSIGN_ROLE

\* Calls of other nodes
Peers == \E u \in Usernames, t \in Tokens : PropagateSession(u, t) \/ DeleteSession(u, t)

Next == (\E c \in Clients : Frontend(c)) \/ Peers \/ Apply

Spec == Init /\ [][Next]_vars

-----------------------------------------------------------------------------
(* Properties *)

Sender == Command.by

SenderAdmin(perm) == log # <<>> /\ A!HasAdminPermission(Sender, perm)

SenderMay(e, action) == log # <<>> /\ A!HasPermission(Sender, e, action)

Named(s) == {s[i].username : i \in DOMAIN s}

\* Accounts come, go and change their passwords each with a permission of its own.
AccountsPermitted ==
    credentials' # credentials =>
        /\ Named(credentials') \ Named(credentials) # {} => SenderAdmin("CreateUser")
        /\ Named(credentials) \ Named(credentials') # {} => SenderAdmin("DeleteUser")
        /\ Named(credentials) = Named(credentials') => SenderAdmin("ChangePassword")

\* A user whose list of roles gets longer was assigned one, any other that changes was
\* unassigned one.
RolesPermitted ==
    /\ roles' # roles => SenderAdmin("CreateRole")
    /\ users' # users => \A u \in DOMAIN users' :
         IF u \notin DOMAIN users THEN SenderAdmin("AssignRole")
         ELSE /\ Len(users'[u]) > Len(users[u]) => SenderAdmin("AssignRole")
              /\ users'[u] # users[u] /\ Len(users'[u]) <= Len(users[u]) => SenderAdmin("UnassignRole")

\* Queues and routes: an entry comes with a queue that is made or by itself, and goes
\* with a queue that is deleted or by itself.
RoutesPermitted ==
    /\ queues' # queues =>
         /\ (\E n \in DOMAIN queues' : n \in DOMAIN queues => queues'[n] # queues[n])
              => SenderAdmin("CreateQueue")
         /\ DOMAIN queues \ DOMAIN queues' # {} => SenderAdmin("DeleteQueue")
    /\ routing' # routing => \A k \in DOMAIN routing' :
         IF k \notin DOMAIN routing \/ Len(routing'[k]) > Len(routing[k])
         THEN SenderAdmin(IF queues' = queues THEN "AddRoutingKey" ELSE "CreateQueue")
         ELSE routing'[k] # routing[k] =>
                SenderAdmin(IF queues' = queues THEN "DeleteRoutingKey" ELSE "DeleteQueue")

Stored(h) == UNION {B!IdsIn(h[o]) : o \in Objects}

\* Is the queue at o on the route of key k?
FedBy(k, o) ==
    k \in DOMAIN routing /\ \E n \in Range(routing[k]) \cap DOMAIN queues : queues[n] = o

\* The messages of queue o that step takes out of it, while the queue stays
Leaving(o) == IF o \in B!InUse(queues', heap') THEN B!IdsIn(heap[o]) \ B!IdsIn(heap'[o]) ELSE {}

\* Is Tail the last node of the chain?  (Not so after some batch acknowledgements that
\* were refused: what is behind Tail is then cut off by the next message that is
\* submitted or expires into the queue, whoever holds it.)
TailLast(o) == heap[o].tail = Len(heap[o].msgs)

\* A new message is in the queues its own key feeds, and its sender may submit under
\* every key of the batch; a message is settled or locked in a queue that the sender
\* has the permission for under one of its names.
MessagesPermitted ==
    heap' # heap => \A o \in Objects :
        /\ \A i \in B!IdsIn(heap'[o]) \ Stored(heap) :
             /\ log # <<>> /\ Submits(Command)
             /\ \E b \in Range(Command.batches) : i \in Range(b.ids) /\ FedBy(b.key, o)
             /\ \A b \in Range(Command.batches) :
                  SenderMay(b.key, IF Command.op = "SUBMIT_MESSAGE" THEN "SubmitMessage"
                                   ELSE "SubmitBatchedMessages")
        /\ TailLast(o) /\ Leaving(o) # {} => \E n \in DOMAIN queues :
             queues[n] = o /\ SenderMay(n, IF Command.op = "BATCH_ACK" THEN "BatchAck" ELSE "Ack")
        /\ \A m \in Range(heap'[o].msgs) \ Range(heap[o].msgs) : m.owner # Nobody =>
             /\ log # <<>> /\ Command.op = "GET_MESSAGES" /\ m.owner = Command.consumer
             /\ \E n \in DOMAIN queues : queues[n] = o /\ SenderMay(n, "GetMessages")

\* Whatever changes the broker, the accounts or the roles is a command whose sender
\* has the permission for that very change at that moment: the roles may have been
\* taken away since the handler checked them, by a command that was logged before.
PermittedEffects ==
    [][AccountsPermitted /\ RolesPermitted /\ RoutesPermitted /\ MessagesPermitted]_vars

\* A password changes through a session of its user only, whoever else may change
\* passwords and whatever user a request names.
OwnPassword ==
    [][credentials' # credentials => \A u \in Usernames : \A i \in A!At(u), p \in Passwords :
         (\E j \in A!At(u)' : credentials'[j].password = p) /\ credentials[i].password # p
         => log # <<>> /\ Sender = u]_vars

\* As long as Tail is the last node of its chain (see TailLast), a message leaves a
\* queue by a command of the session that holds every copy of it there: a lock that
\* lapsed and was given to another session does not settle it, nor does a batch
\* acknowledgement that names it among the sender's own.
OnlyHolderSettles ==
    [][heap' # heap => \A o \in Objects : TailLast(o) =>
         \A i \in Leaving(o) :
            /\ log # <<>> /\ Command.op \in {"ACK", "NACK", "BATCH_ACK"}
            /\ \A j \in DOMAIN heap[o].msgs :
                 heap[o].msgs[j].id = i => heap[o].msgs[j].owner = Command.consumer]_vars

\* GET /info/all never answers with a blank entry, although keys and queues are read
\* one after another while commands are applied.
InfoComplete == \A c \in Clients : serving[c].at = "info" => ~serving[c].blank

\* The sessions a node has of a user end when DELETE_USER is applied there.  A session
\* of a user who has no account arrived later: its login had checked the password
\* before, on this node or on one that applies the log at another pace.
SessionsHaveAccounts ==
    \A u \in DOMAIN sessions : ~A!UserExists(u) => Range(sessions[u]) \subseteq overtaken

=============================================================================
