------------------------------ MODULE Replicas ------------------------------
(***************************************************************************)
(* Two nodes of the cluster applying the same committed log.               *)
(*                                                                         *)
(* Raft gives every node the same entries in the same order, and the state *)
(* machine of a node is the broker (the queues' own calls, which read and  *)
(* write one queue only, are left out).  The nodes are compared at equal   *)
(* positions of the log, so one step applies the next entry on both.       *)
(***************************************************************************)
EXTENDS Integers

CONSTANTS Names, Keys, NoKey, Ids, NoData, Consumers, None, Sizes, Objects, MaxRoute

VARIABLES
    routing1, queues1, heap1, failed1, status1,
    routing2, queues2, heap2, failed2, status2

node1 == <<routing1, queues1, heap1, failed1, status1>>
node2 == <<routing2, queues2, heap2, failed2, status2>>

One == INSTANCE Broker WITH routing <- routing1, queues <- queues1, heap <- heap1,
                            failed <- failed1, status <- status1

Two == INSTANCE Broker WITH routing <- routing2, queues <- queues2, heap <- heap2,
                            failed <- failed2, status <- status2

Init == One!Init /\ Two!Init

\* The next entry is applied by the state machine of both nodes.
Next ==
    \/ \E n \in Names, k \in Keys, size \in Sizes, hasDLQ \in BOOLEAN :
          One!CreateQueue(n, k, size, hasDLQ) /\ Two!CreateQueue(n, k, size, hasDLQ)
    \/ \E n \in Names : One!DeleteQueue(n) /\ Two!DeleteQueue(n)
    \/ \E k \in Keys, n \in Names : One!AddRouteKey(k, n) /\ Two!AddRouteKey(k, n)
    \/ \E k \in Keys, n \in Names : One!DeleteRoutingKey(k, n) /\ Two!DeleteRoutingKey(k, n)
    \/ \E k \in Keys, ids \in One!Batches :
          One!BatchAddMessage(k, ids) /\ Two!BatchAddMessage(k, ids)

Spec == Init /\ [][Next]_<<node1, node2>>

\* Nodes that applied the same log hold the same messages in the same queues, so a
\* new leader serves what the old one accepted.
ReplicasAgree ==
    \A n \in DOMAIN queues1 \cap DOMAIN queues2 :
        heap1[queues1[n]].msgs = heap2[queues2[n]].msgs

=============================================================================
