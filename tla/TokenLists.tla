---------------------------- MODULE TokenLists ----------------------------
(* The maps of auth.sessionHandler: s maps a user to a list of tokens. *)
EXTENDS Integers, Sequences, SequencesExt

Has(s, u, t) == u \in DOMAIN s /\ t \in Range(s[u])

AddToken(s, t, u) ==
    [v \in DOMAIN s \cup {u} |->
        IF v # u THEN s[v] ELSE IF u \in DOMAIN s THEN Append(s[u], t) ELSE <<t>>]

\* Mutant of RemoveToken: the user's entry stays when the list gets empty.
RemoveKeepsUser(s, t, u) ==
    IF ~Has(s, u, t) THEN s
    ELSE IF Len(s[u]) = 1 THEN [s EXCEPT ![u] = <<>>]
    ELSE [s EXCEPT ![u][SelectInSeq(s[u], LAMBDA x : x = t)] = Last(s[u])]

\* Mutant of RemoveToken: the token that is last in the list goes.
RemoveLastToken(s, t, u) ==
    IF ~Has(s, u, t) THEN s
    ELSE IF Len(s[u]) = 1 THEN [v \in DOMAIN s \ {u} |-> s[v]]
    ELSE [s EXCEPT ![u] = Front(@)]

\* The last token is copied over the one removed.  The shorter slice is assigned
\* to a local variable only: the map keeps the slice with its length.
RemoveToken(s, t, u) ==
    IF ~Has(s, u, t) THEN s
    ELSE IF Len(s[u]) = 1 THEN [v \in DOMAIN s \ {u} |-> s[v]]
    ELSE [s EXCEPT ![u][SelectInSeq(s[u], LAMBDA x : x = t)] = Last(s[u])]

=============================================================================
