------------------------------ MODULE MCServer ------------------------------
(***************************************************************************)
(* Server on a small instance.  It starts when root has made the account   *)
(* of alice and given her two roles, has made a role, and a queue on two   *)
(* keys with its dead-letter queue on one of them; root is logged in once  *)
(* and alice twice, two messages were submitted, and nobody, alice, or     *)
(* alice and root have fetched them.                                       *)
(***************************************************************************)
EXTENDS Server, TLC

CONSTANTS sybline, alice, p1, p2, t1, t2, t3, k1, k2, k3, m1, m2

\* Batches may be submitted under one key.
K1Only == [name |-> "K1ONLY",
           grants |-> [a \in {"SubmitBatchedMessages"} |-> <<[entity |-> k1, verdict |-> "allow"]>>],
           admin |-> <<>>]

\* A role that takes permissions away
NoSubmit == [name |-> "NOSUBMIT",
             grants |-> [a \in {"SubmitMessage"} |-> <<[entity |-> "*", verdict |-> "deny"]>>],
             admin |-> <<>>]

MCCustomRoles == {K1Only, NoSubmit}

\* Messages m1 and m2, fetched by the consumers of `owner'
Filled(owner) ==
    [msgs |-> <<[id |-> m1, owner |-> owner[1]], [id |-> m2, owner |-> owner[2]]>>,
     tail |-> 2, amount |-> 2, cap |-> 3, deadLetter |-> 2]

MCInit ==
    /\ credentials = <<[username |-> sybline, password |-> p1], [username |-> alice, password |-> p1]>>
    /\ roles = A!BuiltInRoles @@ (K1Only.name :> A!Parsed(K1Only))
    /\ \E names \in {<<"PRODUCER", "CONSUMER">>, <<"ADMIN", "CONSUMER">>, <<"PRODUCER", "K1ONLY">>} :
         users = (sybline :> <<roles["ROOT"]>> @@ alice :> [i \in DOMAIN names |-> roles[names[i]]])
    /\ routing = (k1 :> <<1>> @@ k2 :> <<1, 2>>)
    /\ queues = (1 :> 1 @@ 2 :> 2)
    /\ \E owner \in {<<Nobody, Nobody>>, <<t2, t1>>, <<t2, t2>>} :
         heap = [o \in Objects |->
                   CASE o = 1 -> Filled(owner)
                     [] o = 2 -> B!NewQueue(3, B!NilPointer)
                     [] OTHER -> B!Garbage]
    /\ status = "up" /\ failed = FALSE
    /\ sessions = (sybline :> <<t1>> @@ alice :> <<t2, t3>>)
    /\ issued = {t1, t2, t3, m1, m2}
    /\ serving = [c \in Clients |-> Idle]
    /\ log = <<>>
    /\ received = 0
    /\ overtaken = {}

Msg(k) == [key |-> k, data |-> "data"]

MCRequests ==
    {[op |-> "CreateQueue", queue |-> 3, key |-> k3, size |-> 1, hasDLQ |-> FALSE],
     [op |-> "DeleteQueue", queue |-> 1],
     [op |-> "AddRoutingKey", key |-> k3, queue |-> 1],
     [op |-> "DeleteRoutingKey", key |-> k2, queue |-> 1],
     [op |-> "SubmitMessage", key |-> k1, data |-> "data"],
     [op |-> "SubmitMessage", key |-> k1, data |-> Empty],
     [op |-> "SubmitBatchedMessages", messages |-> <<Msg(k1), Msg(k2)>>],
     [op |-> "GetMessages", queue |-> 1, amount |-> 1],
     [op |-> "GetMessages", queue |-> 1, amount |-> Malformed],
     [op |-> "Ack", queue |-> 1, id |-> m1],
     [op |-> "Nack", queue |-> 1, id |-> m1],
     [op |-> "BatchAck", queue |-> 1, ids |-> <<m1, m2>>],
     [op |-> "BatchNack", queue |-> 1, ids |-> <<m1>>],
     [op |-> "CreateUser", user |-> alice, password |-> p2],
     [op |-> "ChangePassword", user |-> alice, old |-> p1, new |-> p2],
     [op |-> "DeleteUser", user |-> alice],
     [op |-> "CreateRole", role |-> NoSubmit],
     [op |-> "AssignRole", user |-> alice, role |-> "DENY"],
     [op |-> "AssignRole", user |-> alice, role |-> "K1ONLY"],
     [op |-> "UnassignRole", user |-> alice, role |-> "PRODUCER"]}

ClientSymmetry == Permutations(Clients)

MCSpec == MCInit /\ [][Next]_vars

=============================================================================
