------------------------------ MODULE Sessions ------------------------------
(***************************************************************************)
(* Sessions: every node keeps the tokens of the users who logged in        *)
(* (auth.sessionHandler).  The node that serves a Login or a LogOut calls  *)
(* the other nodes one after another (auth.followerSessions); a call may   *)
(* fail, and one that failed for its caller may still be served later.     *)
(* Nodes lose their sessions when they restart.                            *)
(*                                                                         *)
(* Any node may serve requests: POST /login is served by followers too,    *)
(* and leadership moves.  A node serves one Login or LogOut at a time.     *)
(* Passwords, consumer ids and the accounts themselves are left out, and   *)
(* time is: whether a token has expired is a free choice.                  *)
(***************************************************************************)
EXTENDS Integers, Sequences, FiniteSets, SequencesExt, TokenLists

CONSTANTS
    N,        \* nodes are 1..N
    Users,
    Tokens,   \* bound: the tokens there are; each is generated once
    MaxDelayed,   \* bound: calls under way between nodes after their caller gave up
    NoUser    \* the owner of a token that was not generated yet

ASSUME SessionsAssumption ==
    /\ N \in Nat \ {0} /\ MaxDelayed \in Nat
    /\ Users \cap Tokens = {} /\ NoUser \notin Users

Nodes == 1..N

VARIABLES
    sessionIDs,   \* node -> user -> the tokens in the slice
    owner,        \* token -> the user it was generated for
    calls,        \* node -> the Login or LogOut it is serving
    delayed,      \* calls between nodes that failed for the caller but may still be served
    known,        \* the tokens Login returned to a client
    ended         \* auxiliary: see LogOutDone

vars == <<sessionIDs, owner, calls, delayed, known, ended>>

Idle == [op |-> "none", user |-> NoUser, token |-> NoUser, left |-> <<>>]

Call == [op : {"login", "logout"}, user : Users, token : Tokens, left : Seq(Nodes)]

Remote == [op : {"login", "logout"}, to : Nodes, user : Users, token : Tokens]

TypeOK ==
    /\ \A n \in Nodes : /\ DOMAIN sessionIDs[n] \subseteq Users
                        /\ \A u \in DOMAIN sessionIDs[n] :
                             sessionIDs[n][u] \in Seq(Tokens) /\ sessionIDs[n][u] # <<>>
    /\ owner \in [Tokens -> Users \cup {NoUser}]
    /\ \A n \in Nodes : calls[n] \in Call \cup {Idle}
    /\ delayed \subseteq Remote
    /\ known \subseteq Tokens /\ ended \subseteq known

Init ==
    /\ sessionIDs = [n \in Nodes |-> <<>>]
    /\ owner = [t \in Tokens |-> NoUser]
    /\ calls = [n \in Nodes |-> Idle]
    /\ delayed = {}
    /\ known = {}
    /\ ended = {}

-----------------------------------------------------------------------------
(* Login *)

\* The other nodes, in the order of the configuration
Clients(n) == [i \in 1..(N - 1) |-> IF i < n THEN i ELSE i + 1]

\* The password is right; a token is generated.
Login(n, u, t) ==
    /\ calls[n] = Idle
    /\ owner[t] = NoUser
    /\ owner' = [owner EXCEPT ![t] = u]
    /\ calls' = [calls EXCEPT ![n] = [op |-> "login", user |-> u, token |-> t, left |-> Clients(n)]]
    /\ UNCHANGED <<sessionIDs, delayed, known, ended>>

\* What the next of the other nodes is asked to do for the call that n is serving
Request(n) == [op |-> calls[n].op, to |-> Head(calls[n].left),
               user |-> calls[n].user, token |-> calls[n].token]

Serve(r) ==
    sessionIDs' = [sessionIDs EXCEPT ![r.to] =
        IF r.op = "login" THEN AddToken(@, r.token, r.user) ELSE RemoveToken(@, r.token, r.user)]

GoesOn(n) == calls' = [calls EXCEPT ![n].left = Tail(@)]

GivesUp(n) == calls' = [calls EXCEPT ![n] = Idle]

\* The call fails for n: it was never served, its answer was lost, or it is late.
Fails(n) ==
    \/ UNCHANGED <<sessionIDs, delayed>>
    \/ Serve(Request(n)) /\ UNCHANGED delayed
    \/ /\ Cardinality(delayed) < MaxDelayed
       /\ delayed' = delayed \cup {Request(n)}
       /\ UNCHANGED sessionIDs

\* Errors are logged and nothing else.
PropagateSession(n) ==
    /\ calls[n].op = "login" /\ calls[n].left # <<>>
    /\ (Serve(Request(n)) /\ UNCHANGED delayed) \/ Fails(n)
    /\ GoesOn(n)
    /\ UNCHANGED <<owner, known, ended>>

LoginDone(n) ==
    /\ calls[n].op = "login" /\ calls[n].left = <<>>
    /\ sessionIDs' = [sessionIDs EXCEPT ![n] = AddToken(@, calls[n].token, calls[n].user)]
    /\ known' = known \cup {calls[n].token}
    /\ GivesUp(n)
    /\ UNCHANGED <<owner, delayed, ended>>

-----------------------------------------------------------------------------
(* LogOut *)

\* The request has passed the authentication of node n.
LogOut(n, u, t) ==
    /\ calls[n] = Idle
    /\ t \in known /\ Has(sessionIDs[n], u, t)
    /\ calls' = [calls EXCEPT ![n] = [op |-> "logout", user |-> u, token |-> t, left |-> Clients(n)]]
    /\ UNCHANGED <<sessionIDs, owner, delayed, known, ended>>

\* Mutant of DeleteSession: errors are logged and nothing else.
DeleteSessionGoesOn(n) ==
    /\ calls[n].op = "logout" /\ calls[n].left # <<>>
    /\ (Serve(Request(n)) /\ UNCHANGED delayed) \/ Fails(n)
    /\ GoesOn(n)
    /\ UNCHANGED <<owner, known, ended>>

\* The first error ends the LogOut; a node that does not have the token is one.
DeleteSession(n) ==
    /\ calls[n].op = "logout" /\ calls[n].left # <<>>
    /\ \/ /\ Has(sessionIDs[Head(calls[n].left)], calls[n].user, calls[n].token)
          /\ Serve(Request(n)) /\ UNCHANGED delayed
          /\ GoesOn(n)
       \/ Fails(n) /\ GivesUp(n)
    /\ UNCHANGED <<owner, known, ended>>

\* `ended' records the tokens whose LogOut returned without an error and was the
\* user's only session: no other token had been generated for the user.
LogOutDone(n) ==
    LET u == calls[n].user
        t == calls[n].token
        only == \A x \in Tokens \ {t} : owner[x] # u
    IN  /\ calls[n].op = "logout" /\ calls[n].left = <<>>
        /\ sessionIDs' = [sessionIDs EXCEPT ![n] = RemoveToken(@, t, u)]
        /\ ended' = IF Has(sessionIDs[n], u, t) /\ only THEN ended \cup {t} ELSE ended
        /\ GivesUp(n)
        /\ UNCHANGED <<owner, delayed, known>>

-----------------------------------------------------------------------------
(* Late calls, expiry, deletion of the user, restart *)

ServeLate(r) ==
    /\ Serve(r)
    /\ delayed' = delayed \ {r}
    /\ UNCHANGED <<owner, calls, known, ended>>

\* A request with an expired token: GetConsumerID starts r.RemoveToken(username, token),
\* the arguments in the wrong order.
RemoveExpired(n, u, t) ==
    /\ Has(sessionIDs[n], u, t)
    /\ sessionIDs' = [sessionIDs EXCEPT ![n] = RemoveToken(@, u, t)]
    /\ UNCHANGED <<owner, calls, delayed, known, ended>>

\* DELETE_USER is applied on node n.
DeleteUser(n, u) ==
    /\ u \in DOMAIN sessionIDs[n]
    /\ sessionIDs' = [sessionIDs EXCEPT ![n] = [v \in DOMAIN @ \ {u} |-> @[v]]]
    /\ UNCHANGED <<owner, calls, delayed, known, ended>>

Restart(n) ==
    /\ sessionIDs' = [sessionIDs EXCEPT ![n] = <<>>]
    /\ GivesUp(n)
    /\ UNCHANGED <<owner, delayed, known, ended>>

-----------------------------------------------------------------------------
(* Specification *)

Next ==
    \/ \E n \in Nodes, u \in Users, t \in Tokens : Login(n, u, t)
    \/ \E n \in Nodes : PropagateSession(n)
    \/ \E n \in Nodes : LoginDone(n)
    \/ \E n \in Nodes, u \in Users, t \in Tokens : LogOut(n, u, t)
    \/ \E n \in Nodes : DeleteSession(n)
    \/ \E n \in Nodes : LogOutDone(n)
    \/ \E r \in delayed : ServeLate(r)
    \/ \E n \in Nodes, u \in Users, t \in Tokens : RemoveExpired(n, u, t)
    \/ \E n \in Nodes, u \in Users : DeleteUser(n, u)
    \/ \E n \in Nodes : Restart(n)

Spec == Init /\ [][Next]_vars

-----------------------------------------------------------------------------
(* Properties *)

\* A LogOut of a user's only session that returned without an error ended it on
\* every node for good, whatever calls were lost, late or overtaken by a restart:
\* LogOut answers with an error as soon as one node may have kept the token.
OnlySessionEnds ==
    \A t \in ended, n \in Nodes : ~Has(sessionIDs[n], owner[t], t)

\* Logging out, late deletions included, ends no session but its own: the swap of
\* RemoveToken keeps every other token of the list, repeated ones too.
OtherSessionsKept ==
    [][\A t \in Tokens :
        \/ \E n \in Nodes : calls[n].token = t /\ (DeleteSession(n) \/ LogOutDone(n))
        \/ \E r \in delayed : r.op = "logout" /\ r.token = t /\ ServeLate(r)
        => \A m \in Nodes, u \in Users, x \in Tokens \ {t} :
             Has(sessionIDs[m], u, x) => Has(sessionIDs'[m], u, x)]_vars

=============================================================================
