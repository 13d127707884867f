---------------------------- MODULE MCLinkedList ----------------------------
(* The names of messages and of consumers are interchangeable, and so are addresses. *)
EXTENDS LinkedList

Symmetry == Permutations(Ids) \cup Permutations(Consumers)

\* A state up to garbage and addresses: the nodes in use are numbered along the chain,
\* then through the pool, then Tail, then whatever else the list still refers to.
UpToAddresses ==
    LET named == Chain(ll) \o pool \o (IF ll.Tail = nil THEN <<>> ELSE <<ll.Tail>>)
        order == named \o SetToSeq(Reachable \ (Range(named) \cup {nil}))
        number(n) == IF n = nil THEN nil ELSE SelectInSeq(order, LAMBDA m : m = n)
    IN  <<number(ll.Head), number(ll.Tail), [i \in DOMAIN pool |-> number(pool[i])],
          {<<number(n), number(ll.Next[n]), node[n]>> : n \in Range(order)},
          Amount, dlq, failed, status, view>>

=============================================================================
