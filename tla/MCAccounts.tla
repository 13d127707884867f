----------------------------- MODULE MCAccounts -----------------------------
(* Values for the constants of Accounts. *)
EXTENDS Accounts

\* The role "allow:*,deny:q1".  It reads as every queue but q1, and in the code it
\* lets its holders read q1 too: HasPermission looks no further than "*".
MCCustomRoles ==
    {[name |-> "READER",
      grants |-> [a \in {"GetMessages"} |->
                    <<[entity |-> "*", verdict |-> "allow"], [entity |-> "q1", verdict |-> "deny"]>>],
      admin |-> [c \in {"CreateQueue"} |-> "deny"]]}

MCEntities == {"q1", "q2"}

=============================================================================
