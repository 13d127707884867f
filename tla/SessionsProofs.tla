--------------------------- MODULE SessionsProofs ---------------------------
(***************************************************************************)
(* Logging out ends no session but its own, and a user's only session it   *)
(* ends on every node for good: for any number of nodes, users and tokens, *)
(* with calls between nodes that are lost or late.                         *)
(***************************************************************************)
EXTENDS Sessions, ListLemmas

-----------------------------------------------------------------------------
(* Token lists *)

Listed(s) == \A u \in DOMAIN s : s[u] \in Seq(Tokens)

\* The first place of a token that is in the list.
LEMMA FoundAt ==
    ASSUME NEW l \in Seq(Tokens), NEW t, t \in Range(l)
    PROVE  LET j == SelectInSeq(l, LAMBDA x : x = t)
           IN  j \in DOMAIN l /\ l[j] = t
  <1> DEFINE I == {i \in 1..Len(l) : l[i] = t}
             j == SelectInSeq(l, LAMBDA x : x = t)
  <1>1. DOMAIN l = 1..Len(l) /\ Len(l) \in Nat
    OBVIOUS
  <1>2. I # {}
    BY <1>1 DEF Range
  <1>3. j = Min(I)
    BY <1>2 DEF SelectInSeq
  <1>4. I \subseteq Nat
    BY <1>1
  <1> HIDE DEF I, j
  <1>5. \E x \in I : \A y \in I : x <= y
    BY <1>2, <1>4, LeastExists
  <1>6. j \in I
    BY <1>3, <1>5 DEF Min
  <1>7. j \in DOMAIN l /\ l[j] = t
    BY <1>1, <1>6 DEF I
  <1> QED
    BY <1>7 DEF j

\* A function on 1..n is a sequence.
LEMMA TokensList ==
    ASSUME NEW n \in Nat, NEW f \in [1..n -> Tokens]
    PROVE  f \in Seq(Tokens)
  OBVIOUS

\* AddToken leaves lists of tokens.
LEMMA AddListed ==
    ASSUME NEW s, Listed(s), NEW t \in Tokens, NEW u
    PROVE  Listed(AddToken(s, t, u))
  <1> DEFINE r == AddToken(s, t, u)
  <1>1. DOMAIN r = DOMAIN s \cup {u} /\ \A v \in DOMAIN s \ {u} : r[v] = s[v]
    BY DEF AddToken
  <1>2. r[u] \in Seq(Tokens)
    <2>1. CASE u \in DOMAIN s
      <3>1. r[u] = Append(s[u], t) /\ s[u] \in Seq(Tokens)
        BY <2>1 DEF AddToken, Listed
      <3> QED
        BY <3>1
    <2>2. CASE u \notin DOMAIN s
      <3>1. r[u] = <<t>>
        BY <2>2 DEF AddToken
      <3> QED
        BY <3>1
    <2> QED
      BY <2>1, <2>2
  <1>3. \A v \in DOMAIN s : s[v] \in Seq(Tokens)
    BY DEF Listed
  <1> HIDE DEF r
  <1>4. Listed(r)
    BY <1>1, <1>2, <1>3 DEF Listed
  <1> QED
    BY <1>4 DEF r

\* RemoveToken leaves lists of tokens, and every token but the one named: the swap
\* overwrites a place of that one.
LEMMA RemoveKeeps ==
    ASSUME NEW s, Listed(s), NEW t, NEW u
    PROVE  /\ Listed(RemoveToken(s, t, u))
           /\ \A v, x : x # t /\ Has(s, v, x) => Has(RemoveToken(s, t, u), v, x)
  <1> DEFINE r == RemoveToken(s, t, u)
             j == SelectInSeq(s[u], LAMBDA x : x = t)
             l == [s[u] EXCEPT ![j] = Last(s[u])]
  <1>1. CASE ~Has(s, u, t)
    <2>1. r = s
      BY <1>1 DEF RemoveToken
    <2> QED
      BY <2>1
  <1>2. CASE Has(s, u, t) /\ Len(s[u]) = 1
    <2>1. RemoveToken(s, t, u) = [v \in DOMAIN s \ {u} |-> s[v]]
      BY <1>2 DEF RemoveToken
    <2>2. Listed(RemoveToken(s, t, u))
      BY <2>1 DEF Listed
    <2>3. \A x \in Range(s[u]) : x = t
      <3>1. s[u] \in Seq(Tokens) /\ DOMAIN s[u] = 1..1
        BY <1>2 DEF Has, Listed
      <3>2. \A a, b \in DOMAIN s[u] : a = b
        BY <3>1
      <3> QED
        BY <1>2, <3>2 DEF Has, Range
    <2>4. ASSUME NEW v, NEW x, x # t, Has(s, v, x) PROVE Has(RemoveToken(s, t, u), v, x)
      <3>1. v \in DOMAIN s /\ v # u
        BY <2>3, <2>4 DEF Has
      <3>2. v \in DOMAIN RemoveToken(s, t, u) /\ RemoveToken(s, t, u)[v] = s[v]
        BY <2>1, <3>1
      <3> QED
        BY <2>4, <3>2 DEF Has
    <2> QED
      BY <2>2, <2>4
  <1>3. CASE Has(s, u, t) /\ Len(s[u]) # 1
    <2>1. u \in DOMAIN s /\ s[u] \in Seq(Tokens) /\ t \in Range(s[u])
      BY <1>3 DEF Has, Listed
    <2>2. j \in DOMAIN s[u] /\ s[u][j] = t
      BY <2>1, FoundAt
    <2>3. RemoveToken(s, t, u) = [s EXCEPT ![u] = l]
      BY <1>3 DEF RemoveToken
    <2>4. Len(s[u]) \in Nat /\ DOMAIN s[u] = 1..Len(s[u]) /\ s[u] \in [1..Len(s[u]) -> Tokens]
      BY <2>1
    <2>5. Last(s[u]) \in Tokens
      <3>1. Len(s[u]) \in 1..Len(s[u])
        BY <2>2, <2>4
      <3> QED
        BY <2>4, <3>1 DEF Last
    <2> HIDE DEF j
    <2>6. l \in [1..Len(s[u]) -> Tokens] /\ \A i \in DOMAIN s[u] \ {j} : i \in DOMAIN l /\ l[i] = s[u][i]
      BY <2>4, <2>5
    <2> HIDE DEF l
    <2>7. l \in Seq(Tokens)
      BY <2>4, <2>6, TokensList
    <2>8. DOMAIN r = DOMAIN s /\ r[u] = l /\ \A v \in DOMAIN s \ {u} : r[v] = s[v]
      BY <2>1, <2>3
    <2>9. \A x \in Range(s[u]) : x # t => x \in Range(l)
      BY <2>2, <2>6 DEF Range
    <2> HIDE DEF r
    <2>10. Listed(r)
      BY <2>7, <2>8 DEF Listed
    <2>11. ASSUME NEW v, NEW x, x # t, Has(s, v, x) PROVE Has(r, v, x)
      BY <2>1, <2>8, <2>9, <2>11 DEF Has
    <2> QED
      BY <2>10, <2>11 DEF r
  <1> QED
    BY <1>1, <1>2, <1>3

-----------------------------------------------------------------------------
(* The invariant: lists hold tokens, and so do the calls under way. *)

Fields == {"op", "user", "token", "left"}

ListsTyped ==
    /\ DOMAIN sessionIDs = Nodes
    /\ \A n \in Nodes : Listed(sessionIDs[n])

CallsTyped ==
    /\ DOMAIN calls = Nodes
    /\ \A n \in Nodes : /\ DOMAIN calls[n] = Fields
                        /\ calls[n].op # "none" => calls[n].token \in Tokens

SessInv ==
    /\ ListsTyped
    /\ CallsTyped
    /\ \A r \in delayed : r.token \in Tokens

\* Another node serves a call.
LEMMA ServeTyped ==
    ASSUME ListsTyped, NEW r, r.token \in Tokens, Serve(r)
    PROVE  ListsTyped'
  <1>1. DOMAIN sessionIDs' = Nodes /\ \A n \in Nodes \ {r.to} : sessionIDs'[n] = sessionIDs[n]
    BY DEF Serve, ListsTyped
  <1>2. ASSUME r.to \in Nodes PROVE Listed(sessionIDs'[r.to])
    <2>1. Listed(sessionIDs[r.to])
      BY <1>2 DEF ListsTyped
    <2>2. \/ sessionIDs'[r.to] = AddToken(sessionIDs[r.to], r.token, r.user)
          \/ sessionIDs'[r.to] = RemoveToken(sessionIDs[r.to], r.token, r.user)
      BY <1>2 DEF Serve, ListsTyped
    <2> QED
      BY <2>1, <2>2, AddListed, RemoveKeeps
  <1> QED
    BY <1>1, <1>2 DEF ListsTyped

\* One node's map is replaced by one that holds lists of tokens.
LEMMA ReplacedTyped ==
    ASSUME ListsTyped, NEW n, NEW s, n \in Nodes => Listed(s),
           sessionIDs' = [sessionIDs EXCEPT ![n] = s]
    PROVE  ListsTyped'
  BY DEF ListsTyped

\* A call goes on with the next node, or ends.
LEMMA CallTyped ==
    ASSUME CallsTyped, NEW n \in Nodes, GoesOn(n) \/ GivesUp(n)
    PROVE  CallsTyped'
  <1>1. CASE GoesOn(n)
    <2>1. DOMAIN calls' = Nodes /\ \A m \in Nodes \ {n} : calls'[m] = calls[m]
      BY <1>1 DEF GoesOn, CallsTyped
    <2>2. DOMAIN calls'[n] = Fields /\ calls'[n].op = calls[n].op /\ calls'[n].token = calls[n].token
      BY <1>1 DEF GoesOn, CallsTyped, Fields
    <2> QED
      BY <2>1, <2>2 DEF CallsTyped
  <1>2. CASE GivesUp(n)
    <2>1. DOMAIN calls' = Nodes /\ calls'[n] = Idle /\ \A m \in Nodes \ {n} : calls'[m] = calls[m]
      BY <1>2 DEF GivesUp, CallsTyped
    <2>2. DOMAIN Idle = Fields /\ Idle.op = "none"
      BY DEF Idle, Fields
    <2> QED
      BY <2>1, <2>2 DEF CallsTyped
  <1> QED
    BY <1>1, <1>2

\* A call starts.
LEMMA StartTyped ==
    ASSUME CallsTyped, NEW n \in Nodes, NEW op, NEW u, NEW t \in Tokens, NEW l,
           calls' = [calls EXCEPT ![n] = [op |-> op, user |-> u, token |-> t, left |-> l]]
    PROVE  CallsTyped'
  BY DEF CallsTyped, Fields

\* A call of node n to another: served, lost or late.
LEMMA RequestTyped ==
    ASSUME SessInv, NEW n \in Nodes, calls[n].op # "none",
           (Serve(Request(n)) /\ UNCHANGED delayed) \/ Fails(n)
    PROVE  ListsTyped' /\ \A r \in delayed' : r.token \in Tokens
  <1>1. Request(n).token = calls[n].token /\ calls[n].token \in Tokens
    BY DEF Request, SessInv, CallsTyped
  <1>2. Serve(Request(n)) => ListsTyped'
    BY <1>1, ServeTyped DEF SessInv
  <1>3. sessionIDs' = sessionIDs => ListsTyped'
    BY DEF SessInv, ListsTyped
  <1>4. delayed' \subseteq delayed \cup {Request(n)}
    BY DEF Fails
  <1> QED
    BY <1>1, <1>2, <1>3, <1>4 DEF Fails, SessInv

\* Every step keeps the invariant.
LEMMA SessInvKept == SessInv /\ [Next]_vars => SessInv'
  <1> SUFFICES ASSUME SessInv, [Next]_vars PROVE SessInv'
    OBVIOUS
  <1> USE DEF SessInv
  <1>1. ASSUME NEW n \in Nodes, NEW u \in Users, NEW t \in Tokens, Login(n, u, t) \/ LogOut(n, u, t)
        PROVE  SessInv'
    <2>1. PICK op, l : calls' = [calls EXCEPT ![n] = [op |-> op, user |-> u, token |-> t, left |-> l]]
      BY <1>1 DEF Login, LogOut
    <2>2. UNCHANGED <<sessionIDs, delayed>>
      BY <1>1 DEF Login, LogOut
    <2>3. ListsTyped'
      BY <2>2 DEF ListsTyped
    <2>4. CallsTyped'
      BY <2>1, StartTyped
    <2> QED
      BY <2>2, <2>3, <2>4
  <1>2. ASSUME NEW n \in Nodes, PropagateSession(n) \/ DeleteSession(n)
        PROVE  SessInv'
    <2>1. calls[n].op # "none" /\ ((Serve(Request(n)) /\ UNCHANGED delayed) \/ Fails(n))
          /\ (GoesOn(n) \/ GivesUp(n))
      BY <1>2 DEF PropagateSession, DeleteSession
    <2> QED
      BY <2>1, RequestTyped, CallTyped
  <1>3. ASSUME NEW n \in Nodes, LoginDone(n) \/ LogOutDone(n)
        PROVE  SessInv'
    <2>1. calls[n].token \in Tokens /\ GivesUp(n) /\ delayed' = delayed
      BY <1>3 DEF LoginDone, LogOutDone, CallsTyped
    <2>2. \/ sessionIDs' = [sessionIDs EXCEPT ![n] = AddToken(sessionIDs[n], calls[n].token, calls[n].user)]
          \/ sessionIDs' = [sessionIDs EXCEPT ![n] = RemoveToken(sessionIDs[n], calls[n].token, calls[n].user)]
      BY <1>3 DEF LoginDone, LogOutDone
    <2>3. Listed(sessionIDs[n])
      BY DEF ListsTyped
    <2>4. ListsTyped'
      BY <2>1, <2>2, <2>3, AddListed, RemoveKeeps, ReplacedTyped
    <2> QED
      BY <2>1, <2>4, CallTyped
  <1>4. ASSUME NEW r \in delayed, ServeLate(r)
        PROVE  SessInv'
    <2>1. ListsTyped'
      BY <1>4, ServeTyped DEF ServeLate
    <2> QED
      BY <1>4, <2>1 DEF ServeLate, CallsTyped
  <1>5. ASSUME NEW n \in Nodes, NEW u, NEW t, RemoveExpired(n, u, t)
        PROVE  SessInv'
    <2>1. Listed(RemoveToken(sessionIDs[n], u, t))
      BY RemoveKeeps DEF ListsTyped
    <2>2. ListsTyped'
      BY <1>5, <2>1, ReplacedTyped DEF RemoveExpired
    <2> QED
      BY <1>5, <2>2 DEF RemoveExpired, CallsTyped
  <1>6. ASSUME NEW n \in Nodes, NEW u, DeleteUser(n, u)
        PROVE  SessInv'
    <2>1. Listed([v \in DOMAIN sessionIDs[n] \ {u} |-> sessionIDs[n][v]])
      BY DEF ListsTyped, Listed
    <2>2. ListsTyped'
      BY <1>6, <2>1, ReplacedTyped DEF DeleteUser
    <2> QED
      BY <1>6, <2>2 DEF DeleteUser, CallsTyped
  <1>7. ASSUME NEW n \in Nodes, Restart(n)
        PROVE  SessInv'
    <2>1. Listed(<<>>)
      BY DEF Listed
    <2>2. ListsTyped'
      BY <1>7, <2>1, ReplacedTyped DEF Restart
    <2> QED
      BY <1>7, <2>2, CallTyped DEF Restart
  <1>8. CASE UNCHANGED vars
    BY <1>8 DEF vars, ListsTyped, CallsTyped
  <1> QED
    BY <1>1, <1>2, <1>3, <1>4, <1>5, <1>6, <1>7, <1>8 DEF Next

-----------------------------------------------------------------------------
(* The theorem *)

\* A deletion that is served takes no token but its own from any node.
LEMMA LogOutServed ==
    ASSUME ListsTyped, NEW r, r.op = "logout", Serve(r) \/ sessionIDs' = sessionIDs,
           NEW m \in Nodes, NEW u, NEW x, x # r.token, Has(sessionIDs[m], u, x)
    PROVE  Has(sessionIDs'[m], u, x)
  <1>1. CASE sessionIDs'[m] = sessionIDs[m]
    BY <1>1
  <1>2. CASE sessionIDs'[m] = RemoveToken(sessionIDs[m], r.token, r.user)
    <2>1. Listed(sessionIDs[m])
      BY DEF ListsTyped
    <2> QED
      BY <1>2, <2>1, RemoveKeeps
  <1> QED
    BY <1>1, <1>2 DEF Serve, ListsTyped

\* LogOut on a node, DeleteSession on the others and deletions that come late
\* (SessionHandler.RemoveToken) end no session but the one they name, although the
\* list keeps its length and the last token is copied over the one removed.
THEOREM LogOutsEndOne == Spec => OtherSessionsKept
  <1> DEFINE Ends(t) ==
               \/ \E n \in Nodes : calls[n].token = t /\ (DeleteSession(n) \/ LogOutDone(n))
               \/ \E r \in delayed : r.op = "logout" /\ r.token = t /\ ServeLate(r)
             Keeps == \A t \in Tokens :
               Ends(t) => \A m \in Nodes, u \in Users, x \in Tokens \ {t} :
                            Has(sessionIDs[m], u, x) => Has(sessionIDs'[m], u, x)
  <1>1. Init => SessInv
    BY DEF Init, SessInv, ListsTyped, CallsTyped, Listed, Idle, Fields
  <1>2. ASSUME SessInv
        PROVE  Keeps
    <2> SUFFICES ASSUME NEW t \in Tokens, Ends(t), NEW m \in Nodes, NEW u \in Users,
                        NEW x \in Tokens \ {t}, Has(sessionIDs[m], u, x)
                 PROVE  Has(sessionIDs'[m], u, x)
      OBVIOUS
    <2>1. ListsTyped
      BY <1>2 DEF SessInv
    <2>2. ASSUME NEW n \in Nodes, calls[n].token = t, DeleteSession(n)
          PROVE  Has(sessionIDs'[m], u, x)
      <3>1. Serve(Request(n)) \/ sessionIDs' = sessionIDs
        BY <2>2 DEF DeleteSession, Fails
      <3>2. Request(n).op = "logout" /\ Request(n).token = t
        BY <2>2 DEF DeleteSession, Request
      <3> QED
        BY <2>1, <3>1, <3>2, LogOutServed
    <2>3. ASSUME NEW n \in Nodes, calls[n].token = t, LogOutDone(n)
          PROVE  Has(sessionIDs'[m], u, x)
      <3>1. sessionIDs'[m] = sessionIDs[m]
            \/ sessionIDs'[m] = RemoveToken(sessionIDs[m], t, calls[n].user)
        BY <2>1, <2>3 DEF LogOutDone, ListsTyped
      <3>2. Listed(sessionIDs[m])
        BY <2>1 DEF ListsTyped
      <3> QED
        BY <3>1, <3>2, RemoveKeeps
    <2>4. ASSUME NEW r \in delayed, r.op = "logout", r.token = t, ServeLate(r)
          PROVE  Has(sessionIDs'[m], u, x)
      BY <2>1, <2>4, LogOutServed DEF ServeLate
    <2> QED
      BY <2>2, <2>3, <2>4
  <1>3. SessInv => [Keeps]_vars
    BY <1>2
  <1> QED
    BY <1>1, <1>3, SessInvKept, PTL DEF Spec, OtherSessionsKept

-----------------------------------------------------------------------------
(* The only session of a user: the invariant *)

\* Node m has the token; node n is serving its login; a late call brings it to m.
At(m, t) == \E u \in DOMAIN sessionIDs[m] : t \in Range(sessionIDs[m][u])
LoginAt(n, t) == calls[n].op = "login" /\ calls[n].token = t
Late(t, m) == \E r \in delayed : r.op = "login" /\ r.token = t /\ r.to = m

\* A login may still bring the token to node m.
Ahead(n, m) == m = n \/ m \in Range(calls[n].left)
Pending(t, m) == Late(t, m) \/ \E n \in Nodes : LoginAt(n, t) /\ Ahead(n, m)

\* Node m does not have the token and never will.
Cleared(t, m) == ~At(m, t) /\ ~Pending(t, m)

\* No other token was generated for the user.
Only(u, t) == \A x \in Tokens \ {t} : owner[x] # u

Typed ==
    /\ TypeOK
    /\ DOMAIN sessionIDs = Nodes /\ DOMAIN calls = Nodes

\* The calls under way: each token is on its way to a node once.
CallsInv ==
    /\ \A n \in Nodes :
         /\ n \notin Range(calls[n].left)
         /\ \A i, j \in DOMAIN calls[n].left : calls[n].left[i] = calls[n].left[j] => i = j
         /\ calls[n].op # "none" => owner[calls[n].token] = calls[n].user
         /\ calls[n].op = "logout" => calls[n].token \in known
    /\ \A n, m \in Nodes, t \in Tokens : LoginAt(n, t) /\ LoginAt(m, t) => n = m
    /\ \A n, m \in Nodes, t \in Tokens : LoginAt(n, t) /\ Ahead(n, m) => ~Late(t, m)
    /\ \A r \in delayed : owner[r.token] = r.user
    /\ \A t \in known : owner[t] # NoUser

\* The lists: a token is added to a node once, so that the list of a user with one
\* token has one entry.
MapsInv ==
    /\ \A t \in Tokens, m \in Nodes : Pending(t, m) => ~At(m, t)
    /\ \A m \in Nodes : \A u \in DOMAIN sessionIDs[m] :
         /\ \A x \in Range(sessionIDs[m][u]) : owner[x] = u
         /\ \A t \in Tokens : Only(u, t) => Len(sessionIDs[m][u]) = 1

\* Node n is serving the logout.
LogOutAt(n, u, t) == calls[n].op = "logout" /\ calls[n].user = u /\ calls[n].token = t

\* The nodes a LogOut has passed, and all of them once it has returned.
EndInv ==
    /\ \A n, m \in Nodes, u \in Users, t \in Tokens :
         LogOutAt(n, u, t) /\ Only(u, t) => Ahead(n, m) \/ Cleared(t, m)
    /\ \A t \in ended, m \in Nodes : Cleared(t, m)

LoneInv == Typed /\ CallsInv /\ MapsInv /\ EndInv

-----------------------------------------------------------------------------
(* What happens to the lists of a node *)

ListsOK(s) ==
    /\ DOMAIN s \subseteq Users
    /\ \A u \in DOMAIN s : s[u] \in Seq(Tokens) /\ s[u] # <<>>

\* Users go, and tokens of the others: the lists keep their lengths.
Shrinks(s, r) ==
    /\ ListsOK(r)
    /\ \A u \in DOMAIN r : /\ u \in DOMAIN s
                           /\ Len(r[u]) = Len(s[u])
                           /\ Range(r[u]) \subseteq Range(s[u])

LEMMA AddEffect ==
    ASSUME NEW s, ListsOK(s), NEW t \in Tokens, NEW u \in Users, NEW r, r = AddToken(s, t, u)
    PROVE  /\ ListsOK(r)
           /\ DOMAIN r = DOMAIN s \cup {u}
           /\ \A v \in DOMAIN s \ {u} : r[v] = s[v]
           /\ u \in DOMAIN s => Range(r[u]) \subseteq Range(s[u]) \cup {t}
           /\ u \notin DOMAIN s => r[u] = <<t>>
  <1>1. DOMAIN r = DOMAIN s \cup {u} /\ \A v \in DOMAIN s \ {u} : r[v] = s[v]
    BY DEF AddToken
  <1>2. u \in DOMAIN s => r[u] = Append(s[u], t)
    BY DEF AddToken
  <1>3. u \notin DOMAIN s => r[u] = <<t>>
    BY DEF AddToken
  <1>4. ASSUME u \in DOMAIN s
        PROVE  r[u] \in Seq(Tokens) /\ r[u] # <<>> /\ Range(r[u]) \subseteq Range(s[u]) \cup {t}
    <2> DEFINE l == s[u]
               a == Append(l, t)
    <2>1. l \in Seq(Tokens) /\ r[u] = a
      BY <1>2, <1>4 DEF ListsOK
    <2> HIDE DEF l
    <2>2. /\ a \in Seq(Tokens) /\ Len(a) = Len(l) + 1 /\ Len(l) \in Nat
          /\ DOMAIN a = 1..(Len(l) + 1) /\ DOMAIN l = 1..Len(l)
          /\ \A i \in 1..Len(l) : a[i] = l[i]
          /\ a[Len(l) + 1] = t
      BY <2>1
    <2> HIDE DEF a
    <2>3. a # <<>>
      BY <2>2
    <2>4. \A i \in DOMAIN a : i \in DOMAIN l \/ i = Len(l) + 1
      BY <2>2
    <2>5. Range(a) \subseteq Range(l) \cup {t}
      BY <2>2, <2>4 DEF Range
    <2> QED
      BY <2>1, <2>2, <2>3, <2>5 DEF l
  <1>5. u \notin DOMAIN s => r[u] \in Seq(Tokens) /\ r[u] # <<>>
    <2>1. <<t>> \in Seq(Tokens) /\ <<t>> # <<>>
      OBVIOUS
    <2> QED
      BY <1>3, <2>1
  <1>6. ListsOK(r)
    <2>1. \A v \in DOMAIN s : s[v] \in Seq(Tokens) /\ s[v] # <<>>
      BY DEF ListsOK
    <2>2. r[u] \in Seq(Tokens) /\ r[u] # <<>>
      BY <1>4, <1>5
    <2>3. DOMAIN r \subseteq Users
      BY <1>1 DEF ListsOK
    <2>4. \A v \in DOMAIN r : r[v] \in Seq(Tokens) /\ r[v] # <<>>
      BY <1>1, <2>1, <2>2
    <2> QED
      BY <2>3, <2>4 DEF ListsOK
  <1> QED
    BY <1>1, <1>3, <1>4, <1>6

LEMMA RemoveShrinks ==
    ASSUME NEW s, ListsOK(s), NEW t, NEW u, NEW r, r = RemoveToken(s, t, u)
    PROVE  /\ Shrinks(s, r)
           /\ Has(s, u, t) /\ Len(s[u]) = 1 => u \notin DOMAIN r
  <1> DEFINE j == SelectInSeq(s[u], LAMBDA x : x = t)
             l == [s[u] EXCEPT ![j] = Last(s[u])]
  <1>1. CASE ~Has(s, u, t)
    <2>1. r = s
      BY <1>1 DEF RemoveToken
    <2> QED
      BY <1>1, <2>1 DEF Shrinks
  <1>2. CASE Has(s, u, t) /\ Len(s[u]) = 1
    <2>1. r = [v \in DOMAIN s \ {u} |-> s[v]]
      BY <1>2 DEF RemoveToken
    <2>2. DOMAIN r = DOMAIN s \ {u} /\ \A v \in DOMAIN s \ {u} : r[v] = s[v]
      BY <2>1
    <2>3. Shrinks(s, r) /\ u \notin DOMAIN r
      BY <2>2 DEF Shrinks, ListsOK
    <2> QED
      BY <2>3
  <1>3. CASE Has(s, u, t) /\ Len(s[u]) # 1
    <2>1. u \in DOMAIN s /\ s[u] \in Seq(Tokens) /\ t \in Range(s[u])
      BY <1>3 DEF Has, ListsOK
    <2>2. j \in DOMAIN s[u] /\ s[u][j] = t
      BY <2>1, FoundAt
    <2>3. r = [s EXCEPT ![u] = l]
      BY <1>3 DEF RemoveToken
    <2>4. Len(s[u]) \in Nat /\ DOMAIN s[u] = 1..Len(s[u]) /\ s[u] \in [1..Len(s[u]) -> Tokens]
      BY <2>1
    <2>5. Len(s[u]) \in 1..Len(s[u]) /\ Last(s[u]) = s[u][Len(s[u])] /\ Last(s[u]) \in Tokens
      <3>1. Len(s[u]) \in 1..Len(s[u])
        BY <2>2, <2>4
      <3> QED
        BY <2>4, <3>1 DEF Last
    <2> HIDE DEF j
    <2>6. /\ l \in [1..Len(s[u]) -> Tokens] /\ l[j] = Last(s[u])
          /\ \A i \in DOMAIN s[u] \ {j} : l[i] = s[u][i]
      BY <2>2, <2>4, <2>5
    <2> HIDE DEF l
    <2>7. l \in Seq(Tokens) /\ Len(l) = Len(s[u]) /\ DOMAIN l = DOMAIN s[u]
      BY <2>4, <2>6, TokensList
    <2>8. l # <<>>
      BY <2>5, <2>7
    <2>9. Range(l) \subseteq Range(s[u])
      BY <2>2, <2>4, <2>5, <2>6, <2>7 DEF Range
    <2>10. DOMAIN r = DOMAIN s /\ r[u] = l /\ \A v \in DOMAIN s \ {u} : r[v] = s[v]
      BY <2>1, <2>3
    <2>11. Shrinks(s, r)
      BY <2>7, <2>8, <2>9, <2>10 DEF Shrinks, ListsOK
    <2> QED
      BY <1>3, <2>11
  <1> QED
    BY <1>1, <1>2, <1>3

\* The lists of a node after a step: some went, or a login that was on its way to the
\* node arrived there.
Arrives(m, t) ==
    /\ Pending(t, m) /\ ~Pending(t, m)'
    /\ owner[t] \in Users
    /\ sessionIDs'[m] = AddToken(sessionIDs[m], t, owner[t])

ListsStep ==
    /\ DOMAIN sessionIDs' = Nodes
    /\ \A m \in Nodes : \/ Shrinks(sessionIDs[m], sessionIDs'[m])
                        \/ \E t \in Tokens : Arrives(m, t)

\* No step but Login puts a token on its way.
LEMMA MapsKept ==
    ASSUME Typed, MapsInv, ListsStep, owner' = owner,
           \A t \in Tokens, m \in Nodes : Pending(t, m)' => Pending(t, m)
    PROVE  /\ \A m \in Nodes : ListsOK(sessionIDs'[m])
           /\ MapsInv'
           /\ \A t \in Tokens, m \in Nodes : Cleared(t, m) => Cleared(t, m)'
  <1>1. ASSUME NEW m \in Nodes PROVE ListsOK(sessionIDs[m])
    BY DEF Typed, TypeOK, ListsOK
  <1>2. ASSUME NEW m \in Nodes
        PROVE  /\ ListsOK(sessionIDs'[m])
               /\ \A t \in Tokens : At(m, t)' => At(m, t) \/ Arrives(m, t)
               /\ \A u \in DOMAIN sessionIDs'[m] :
                    /\ \A x \in Range(sessionIDs'[m][u]) : owner[x] = u
                    /\ \A t \in Tokens : Only(u, t) => Len(sessionIDs'[m][u]) = 1
    <2> DEFINE s == sessionIDs[m]
               r == sessionIDs'[m]
    <2>1. ListsOK(s)
      BY <1>1
    <2>2. \A u \in DOMAIN s : /\ \A x \in Range(s[u]) : owner[x] = u
                              /\ \A t \in Tokens : Only(u, t) => Len(s[u]) = 1
      BY DEF MapsInv
    <2>3. CASE Shrinks(s, r)
      <3>1. ListsOK(r)
        BY <2>3 DEF Shrinks
      <3>2. \A t \in Tokens : At(m, t)' => At(m, t)
        BY <2>3 DEF Shrinks, At
      <3>3. \A u \in DOMAIN r : /\ \A x \in Range(r[u]) : owner[x] = u
                                /\ \A t \in Tokens : Only(u, t) => Len(r[u]) = 1
        BY <2>2, <2>3 DEF Shrinks
      <3> QED
        BY <3>1, <3>2, <3>3
    <2>4. ASSUME NEW t \in Tokens, Arrives(m, t)
          PROVE  /\ ListsOK(r)
                 /\ \A x \in Tokens : At(m, x)' => At(m, x) \/ Arrives(m, x)
                 /\ \A u \in DOMAIN r : /\ \A x \in Range(r[u]) : owner[x] = u
                                        /\ \A x \in Tokens : Only(u, x) => Len(r[u]) = 1
      <3> DEFINE o == owner[t]
      <3>1. Pending(t, m) /\ o \in Users /\ r = AddToken(s, t, o)
        BY <2>4 DEF Arrives
      <3>2. ~At(m, t)
        BY <3>1 DEF MapsInv
      <3> HIDE DEF s, r, o
      <3>3. /\ ListsOK(r)
            /\ DOMAIN r = DOMAIN s \cup {o}
            /\ \A v \in DOMAIN s \ {o} : r[v] = s[v]
            /\ o \in DOMAIN s => Range(r[o]) \subseteq Range(s[o]) \cup {t}
            /\ o \notin DOMAIN s => r[o] = <<t>>
        BY <2>1, <3>1, AddEffect
      <3>4. o \notin DOMAIN s => Range(r[o]) = {t} /\ Len(r[o]) = 1
        BY <3>3 DEF Range
      <3>5. \A x \in Tokens : At(m, x)' => At(m, x) \/ x = t
        <4>1. \A x \in Tokens : (\E u \in DOMAIN r : x \in Range(r[u]))
                                  => (\E u \in DOMAIN s : x \in Range(s[u])) \/ x = t
          BY <3>3, <3>4
        <4> QED
          BY <4>1 DEF At, s, r
      <3>6. \A u \in DOMAIN r : \A x \in Range(r[u]) : owner[x] = u
        BY <2>2, <3>3, <3>4 DEF o
      <3>7. ASSUME NEW u \in DOMAIN r, NEW x \in Tokens, Only(u, x)
            PROVE  Len(r[u]) = 1
        <4>1. CASE u # o
          <5>1. u \in DOMAIN s /\ r[u] = s[u]
            BY <3>3, <4>1
          <5> QED
            BY <2>2, <3>7, <5>1
        <4>2. CASE u = o /\ o \notin DOMAIN s
          BY <3>4, <4>2
        <4>3. CASE u = o /\ o \in DOMAIN s
          <5>1. s[o] \in Seq(Tokens) /\ s[o] # <<>>
            BY <2>1, <4>3 DEF ListsOK
          <5>2. 1 \in DOMAIN s[o] /\ s[o][1] \in Tokens
            BY <5>1
          <5>3. s[o][1] \in Range(s[o])
            BY <5>2 DEF Range
          <5>4. owner[s[o][1]] = o /\ s[o][1] # t
            <6>1. s[o][1] # t
              BY <3>2, <4>3, <5>3 DEF At, s
            <6> QED
              BY <2>2, <4>3, <5>3, <6>1
          <5>5. owner[t] = o
            BY DEF o
          <5> QED
            BY <3>7, <4>3, <5>2, <5>4, <5>5 DEF Only
        <4> QED
          BY <4>1, <4>2, <4>3
      <3> QED
        BY <2>4, <3>3, <3>5, <3>6, <3>7
    <2> QED
      BY <2>3, <2>4 DEF ListsStep
  <1>3. \A u, t : Only(u, t)' <=> Only(u, t)
    BY DEF Only
  <1>4. MapsInv'
    <2>1. ASSUME NEW t \in Tokens, NEW m \in Nodes, Pending(t, m)' PROVE ~At(m, t)'
      BY <1>2, <2>1 DEF MapsInv, Arrives
    <2>2. ASSUME NEW m \in Nodes, NEW u \in DOMAIN sessionIDs'[m]
          PROVE  /\ \A x \in Range(sessionIDs'[m][u]) : owner'[x] = u
                 /\ \A t \in Tokens : Only(u, t)' => Len(sessionIDs'[m][u]) = 1
      BY <1>2, <1>3
    <2> QED
      BY <2>1, <2>2 DEF MapsInv
  <1>5. ASSUME NEW t \in Tokens, NEW m \in Nodes, Cleared(t, m) PROVE Cleared(t, m)'
    BY <1>2, <1>5 DEF Cleared, Arrives
  <1> QED
    BY <1>2, <1>4, <1>5

-----------------------------------------------------------------------------
(* What happens to the calls under way *)

OneEach(l) == \A i, j \in DOMAIN l : l[i] = l[j] => i = j

LEMMA ClientsOf ==
    ASSUME SessionsAssumption, NEW n \in Nodes
    PROVE  /\ Clients(n) \in Seq(Nodes) /\ OneEach(Clients(n))
           /\ Range(Clients(n)) = Nodes \ {n}
  <1> DEFINE l == Clients(n)
  <1>1. N \in Nat /\ n \in 1..N /\ N - 1 \in Nat
    BY DEF SessionsAssumption, Nodes
  <1>2. DOMAIN l = 1..(N - 1) /\ \A i \in 1..(N - 1) : l[i] = IF i < n THEN i ELSE i + 1
    BY DEF Clients
  <1>3. l = [i \in 1..(N - 1) |-> l[i]]
    BY DEF Clients
  <1> HIDE DEF l
  <1>4. \A i \in 1..(N - 1) : l[i] \in Nodes \ {n}
    BY <1>1, <1>2 DEF Nodes
  <1>5. l \in [1..(N - 1) -> Nodes]
    BY <1>3, <1>4
  <1>6. l \in Seq(Nodes)
    BY <1>1, <1>5
  <1>7. OneEach(l)
    BY <1>1, <1>2 DEF OneEach
  <1>8. ASSUME NEW m \in Nodes \ {n} PROVE m \in Range(l)
    <2>1. m \in Nat /\ m >= 1 /\ m <= N /\ m # n
      BY <1>1 DEF Nodes
    <2>2. CASE m < n
      <3>1. m \in 1..(N - 1) /\ l[m] = m
        BY <1>1, <1>2, <2>1, <2>2
      <3> QED
        BY <1>2, <3>1 DEF Range
    <2>3. CASE ~(m < n)
      <3> DEFINE k == m - 1
      <3>1. k \in 1..(N - 1) /\ ~(k < n) /\ k + 1 = m
        BY <1>1, <2>1, <2>3
      <3> HIDE DEF k
      <3>2. l[k] = m
        BY <1>2, <3>1
      <3> QED
        BY <1>2, <3>1, <3>2 DEF Range
    <2> QED
      BY <2>2, <2>3
  <1>9. Range(l) = Nodes \ {n}
    BY <1>2, <1>4, <1>8 DEF Range
  <1> QED
    BY <1>6, <1>7, <1>9 DEF l

\* The first node is called, the others are left.
LEMMA TailOf ==
    ASSUME NEW l \in Seq(Nodes), l # <<>>, OneEach(l)
    PROVE  /\ Head(l) \in Range(l) /\ Head(l) \in Nodes /\ Tail(l) \in Seq(Nodes)
           /\ OneEach(Tail(l)) /\ Range(Tail(l)) = Range(l) \ {Head(l)}
  <1> DEFINE a == Tail(l)
  <1>1. /\ Len(l) \in Nat /\ DOMAIN l = 1..Len(l) /\ Len(l) # 0
        /\ \A i \in DOMAIN l : l[i] \in Nodes
    BY EmptySeq
  <1>2. Head(l) = l[1] /\ 1 \in DOMAIN l
    BY <1>1
  <1>3. /\ a \in Seq(Nodes) /\ Len(a) = Len(l) - 1
        /\ \A i \in 1..(Len(l) - 1) : a[i] = l[i + 1]
    BY <1>1, HeadTailProperties
  <1>4. DOMAIN a = 1..(Len(l) - 1)
    BY <1>3
  <1> HIDE DEF a
  <1>5. \A i \in DOMAIN a : i + 1 \in DOMAIN l /\ a[i] = l[i + 1] /\ i + 1 # 1 /\ i \in Nat
    BY <1>1, <1>3, <1>4
  <1>6. OneEach(a)
    <2> SUFFICES ASSUME NEW i \in DOMAIN a, NEW j \in DOMAIN a, a[i] = a[j] PROVE i = j
      BY DEF OneEach
    <2>1. i + 1 = j + 1
      BY <1>5 DEF OneEach
    <2> QED
      BY <1>5, <2>1
  <1>7. Range(a) \subseteq Range(l) \ {Head(l)}
    BY <1>2, <1>5 DEF Range, OneEach
  <1>8. ASSUME NEW x \in Range(l) \ {Head(l)} PROVE x \in Range(a)
    <2>1. PICK i \in DOMAIN l : x = l[i]
      BY DEF Range
    <2>2. i # 1
      BY <1>2, <2>1
    <2> DEFINE k == i - 1
    <2>3. k \in DOMAIN a /\ k + 1 = i
      BY <1>1, <1>4, <2>2
    <2> HIDE DEF k
    <2>4. a[k] = x
      BY <1>5, <2>1, <2>3
    <2> QED
      BY <2>3, <2>4 DEF Range
  <1>9. Head(l) \in Range(l) /\ Head(l) \in Nodes
    BY <1>1, <1>2 DEF Range
  <1> QED
    BY <1>3, <1>6, <1>7, <1>8, <1>9 DEF a

\* A node is idle or serves a call.
LEMMA CallOf ==
    ASSUME Typed, NEW n \in Nodes
    PROVE  /\ calls[n].left \in Seq(Nodes)
           /\ calls[n].op # "none" => calls[n] \in Call
           /\ calls[n] \in Call => calls[n].op \in {"login", "logout"}
           /\ calls[n] \in Call => calls[n].user \in Users /\ calls[n].token \in Tokens
           /\ calls[n] \notin Call => calls[n] = Idle
           /\ Idle.op = "none" /\ Idle.left = <<>>
  <1>1. calls[n] \in Call \cup {Idle}
    BY DEF Typed, TypeOK
  <1>2. Idle.op = "none" /\ Idle.left = <<>> /\ <<>> \in Seq(Nodes)
    BY DEF Idle
  <1>3. ASSUME calls[n] \in Call
        PROVE  /\ calls[n].left \in Seq(Nodes) /\ calls[n].op \in {"login", "logout"}
               /\ calls[n].user \in Users /\ calls[n].token \in Tokens
    BY <1>3 DEF Call
  <1> QED
    BY <1>1, <1>2, <1>3

CallsTypes ==
    /\ DOMAIN calls = Nodes
    /\ \A n \in Nodes : calls[n] \in Call \cup {Idle}
    /\ delayed \subseteq Remote

\* Nothing new is on its way to a node.
NothingNew == \A t \in Tokens, m \in Nodes : Pending(t, m)' => Pending(t, m)

\* Node n has called the next node, which has served the call, will do so late, or
\* never will.
LEMMA GoesOnKeeps ==
    ASSUME Typed, CallsInv, NEW n \in Nodes, calls[n].op # "none", calls[n].left # <<>>,
           NEW k, k = calls[n].token, NEW h, h = Head(calls[n].left),
           GoesOn(n), owner' = owner, known' = known,
           delayed' \in {delayed, delayed \cup {Request(n)}}
    PROVE  /\ CallsTypes' /\ CallsInv' /\ NothingNew
           /\ h \in Nodes /\ \A m \in Nodes : Ahead(n, m) => Ahead(n, m)' \/ m = h
           /\ calls'[n].op = calls[n].op /\ calls'[n].user = calls[n].user /\ calls'[n].token = k
           /\ \A m \in Nodes \ {n} : calls'[m] = calls[m]
           /\ calls[n].op = "login" =>
                Pending(k, h) /\ (delayed' = delayed => ~Pending(k, h)')
  <1> DEFINE l == calls[n].left
  <1>1. /\ calls[n] \in Call /\ l \in Seq(Nodes) /\ k \in Tokens
        /\ calls[n].op \in {"login", "logout"} /\ calls[n].user \in Users
    BY CallOf
  <1>2. OneEach(l) /\ n \notin Range(l)
    BY DEF CallsInv, OneEach
  <1>3. /\ h \in Range(l) /\ h \in Nodes /\ Tail(l) \in Seq(Nodes)
        /\ OneEach(Tail(l)) /\ Range(Tail(l)) = Range(l) \ {h} /\ h # n
    BY <1>1, <1>2, TailOf
  <1>4. /\ DOMAIN calls' = Nodes /\ \A m \in Nodes \ {n} : calls'[m] = calls[m]
        /\ calls'[n] = [calls[n] EXCEPT !.left = Tail(l)]
    BY DEF GoesOn, Typed
  <1>5. /\ calls'[n] \in Call /\ calls'[n].op = calls[n].op /\ calls'[n].user = calls[n].user
        /\ calls'[n].token = k /\ calls'[n].left = Tail(l)
    BY <1>1, <1>3, <1>4 DEF Call
  <1> DEFINE q == Request(n)
  <1>6. /\ q \in Remote /\ q.op = calls[n].op /\ q.to = h /\ q.user = calls[n].user /\ q.token = k
    BY <1>1, <1>3 DEF Request, Remote
  <1> HIDE DEF q
  <1>7. delayed' \subseteq delayed \cup {q} /\ delayed \subseteq delayed'
    BY DEF q
  <1>8. CallsTypes'
    BY <1>4, <1>5, <1>6, <1>7 DEF CallsTypes, Typed, TypeOK
  <1> HIDE DEF l
  <1>9. ASSUME NEW m \in Nodes, NEW t
        PROVE  LoginAt(m, t)' <=> LoginAt(m, t)
    BY <1>4, <1>5 DEF LoginAt
  <1>10. \A m, p \in Nodes : Ahead(m, p)' => Ahead(m, p)
    BY <1>3, <1>4, <1>5 DEF Ahead, l
  <1>11. \A m \in Nodes : Ahead(n, m)' => m # h
    BY <1>3, <1>5 DEF Ahead
  <1>12. \A m \in Nodes : Ahead(n, m) => Ahead(n, m)' \/ m = h
    BY <1>3, <1>5 DEF Ahead, l
  <1>13. \A t \in Tokens, m \in Nodes : Late(t, m)' => Late(t, m) \/ (t = k /\ m = h /\ LoginAt(n, k))
    BY <1>6, <1>7 DEF Late, LoginAt
  <1>14. Ahead(n, h)
    BY <1>3 DEF Ahead, l
  <1>15. NothingNew
    BY <1>9, <1>10, <1>13, <1>14 DEF NothingNew, Pending
  <1>16. CallsInv'
    <2>1. ASSUME NEW m \in Nodes
          PROVE  /\ m \notin Range(calls'[m].left)
                 /\ \A i, j \in DOMAIN calls'[m].left : calls'[m].left[i] = calls'[m].left[j] => i = j
                 /\ calls'[m].op # "none" => owner'[calls'[m].token] = calls'[m].user
                 /\ calls'[m].op = "logout" => calls'[m].token \in known'
      <3>1. CASE m = n
        <4>1. n \notin Range(calls'[n].left) /\ OneEach(calls'[n].left)
          BY <1>2, <1>3, <1>5
        <4>2. owner[k] = calls[n].user /\ (calls[n].op = "logout" => k \in known)
          BY DEF CallsInv
        <4> QED
          BY <1>5, <3>1, <4>1, <4>2 DEF OneEach
      <3>2. CASE m # n
        BY <1>4, <3>2 DEF CallsInv
      <3> QED
        BY <3>1, <3>2
    <2>2. \A m, p \in Nodes, t \in Tokens : LoginAt(m, t)' /\ LoginAt(p, t)' => m = p
      BY <1>9 DEF CallsInv
    <2>3. ASSUME NEW m \in Nodes, NEW p \in Nodes, NEW t \in Tokens, LoginAt(m, t)', Ahead(m, p)'
          PROVE  ~Late(t, p)'
      <3>1. LoginAt(m, t) /\ Ahead(m, p) /\ ~Late(t, p)
        BY <1>9, <1>10, <2>3 DEF CallsInv
      <3>2. ~(t = k /\ p = h /\ LoginAt(n, k))
        BY <1>1, <1>11, <2>3, <3>1 DEF CallsInv
      <3> QED
        BY <1>13, <3>1, <3>2
    <2>4. \A r \in delayed' : owner'[r.token] = r.user
      BY <1>6, <1>7 DEF CallsInv
    <2>5. \A t \in known' : owner'[t] # NoUser
      BY DEF CallsInv
    <2> QED
      BY <2>1, <2>2, <2>3, <2>4, <2>5 DEF CallsInv
  <1>17. ASSUME calls[n].op = "login"
         PROVE  Pending(k, h) /\ (delayed' = delayed => ~Pending(k, h)')
    <2>1. LoginAt(n, k)
      BY <1>17 DEF LoginAt
    <2>2. ~Late(k, h)
      BY <1>1, <1>3, <1>14, <2>1 DEF CallsInv
    <2>3. delayed' = delayed => ~Late(k, h)'
      BY <2>2 DEF Late
    <2>4. \A m \in Nodes : LoginAt(m, k)' => m = n
      BY <1>1, <1>9, <2>1 DEF CallsInv
    <2> QED
      BY <1>3, <1>11, <1>14, <2>1, <2>3, <2>4 DEF Pending
  <1> QED
    BY <1>3, <1>4, <1>5, <1>8, <1>12, <1>15, <1>16, <1>17 DEF l

\* Node n has finished: a Login that has returned has let its client know the token.
LEMMA GivesUpKeeps ==
    ASSUME Typed, CallsInv, NEW n \in Nodes, GivesUp(n), owner' = owner,
           NEW k, k = calls[n].token, known' \in {known, known \cup {k}},
           known' = known \/ calls[n].op = "login", NoUser \notin Users,
           \/ delayed' = delayed
           \/ /\ calls[n].op = "logout" /\ calls[n].left # <<>>
              /\ delayed' = delayed \cup {Request(n)}
    PROVE  /\ CallsTypes' /\ CallsInv' /\ NothingNew
           /\ \A m \in Nodes \ {n} : calls'[m] = calls[m]
           /\ calls'[n].op = "none"
           /\ calls[n].op = "login" => Pending(k, n) /\ ~Pending(k, n)'
  <1> DEFINE q == Request(n)
  <1>1. /\ DOMAIN calls' = Nodes /\ \A m \in Nodes \ {n} : calls'[m] = calls[m]
        /\ calls'[n] = Idle
    BY DEF GivesUp, Typed
  <1>2. calls'[n].op = "none" /\ calls'[n].left = <<>>
    BY <1>1, CallOf
  <1>3. calls[n].op = "logout" /\ calls[n].left # <<>>
          => q \in Remote /\ q.op = "logout" /\ owner[q.token] = q.user
    <2> SUFFICES ASSUME calls[n].op = "logout", calls[n].left # <<>>
                 PROVE  q \in Remote /\ q.op = "logout" /\ owner[q.token] = q.user
      OBVIOUS
    <2>1. calls[n] \in Call /\ calls[n].left \in Seq(Nodes) /\ k \in Tokens /\ calls[n].user \in Users
      BY CallOf
    <2>2. Head(calls[n].left) \in Nodes
      BY <2>1
    <2>3. owner[k] = calls[n].user
      BY DEF CallsInv
    <2> QED
      BY <2>1, <2>2, <2>3 DEF Request, Remote
  <1> HIDE DEF q
  <1>4. \A r \in delayed' : r \in delayed \/ (r \in Remote /\ r.op = "logout" /\ owner[r.token] = r.user)
    BY <1>3 DEF q
  <1>5. CallsTypes'
    BY <1>1, <1>4 DEF CallsTypes, Typed, TypeOK
  <1>6. \A t, m : Late(t, m)' => Late(t, m)
    BY <1>4 DEF Late
  <1>7. \A m \in Nodes : \A t : LoginAt(m, t)' => LoginAt(m, t) /\ m # n
    BY <1>1, <1>2 DEF LoginAt
  <1>8. \A m \in Nodes \ {n}, p \in Nodes : Ahead(m, p)' => Ahead(m, p)
    BY <1>1 DEF Ahead
  <1>9. NothingNew
    BY <1>6, <1>7, <1>8 DEF NothingNew, Pending
  <1>10. CallsInv'
    <2>1. ASSUME NEW m \in Nodes
          PROVE  /\ m \notin Range(calls'[m].left)
                 /\ \A i, j \in DOMAIN calls'[m].left : calls'[m].left[i] = calls'[m].left[j] => i = j
                 /\ calls'[m].op # "none" => owner'[calls'[m].token] = calls'[m].user
                 /\ calls'[m].op = "logout" => calls'[m].token \in known'
      <3>1. CASE m = n
        BY <1>2, <3>1 DEF Range
      <3>2. CASE m # n
        BY <1>1, <3>2 DEF CallsInv
      <3> QED
        BY <3>1, <3>2
    <2>2. \A m, p \in Nodes, t \in Tokens : LoginAt(m, t)' /\ LoginAt(p, t)' => m = p
      BY <1>7 DEF CallsInv
    <2>3. \A m, p \in Nodes, t \in Tokens : LoginAt(m, t)' /\ Ahead(m, p)' => ~Late(t, p)'
      BY <1>6, <1>7, <1>8 DEF CallsInv
    <2>4. \A r \in delayed' : owner'[r.token] = r.user
      BY <1>4 DEF CallsInv
    <2>5. calls[n].op = "login" => owner[k] # NoUser
      BY CallOf DEF CallsInv
    <2>6. \A t \in known' : owner'[t] # NoUser
      BY <2>5 DEF CallsInv
    <2> QED
      BY <2>1, <2>2, <2>3, <2>4, <2>6 DEF CallsInv
  <1>11. ASSUME calls[n].op = "login"
         PROVE  Pending(k, n) /\ ~Pending(k, n)'
    <2>1. LoginAt(n, k) /\ k \in Tokens /\ Ahead(n, n)
      BY <1>11, CallOf DEF LoginAt, Ahead
    <2>2. ~Late(k, n)
      BY <2>1 DEF CallsInv
    <2>3. \A m \in Nodes : ~LoginAt(m, k)'
      BY <1>7, <2>1 DEF CallsInv
    <2> QED
      BY <1>6, <2>1, <2>2, <2>3 DEF Pending
  <1> QED
    BY <1>1, <1>2, <1>5, <1>9, <1>10, <1>11

-----------------------------------------------------------------------------
(* The steps *)

\* What a LogOut and an ended session need of a step.
EndStep ==
    /\ \A n, m \in Nodes, u \in Users, t \in Tokens :
         LogOutAt(n, u, t)' /\ Only(u, t)
           => Ahead(n, m)' \/ Cleared(t, m)' \/ (LogOutAt(n, u, t) /\ ~Ahead(n, m))
    /\ \A t \in ended', m \in Nodes : t \in ended \/ Cleared(t, m) \/ Cleared(t, m)'

\* All steps but Login
LEMMA StepKeeps ==
    ASSUME LoneInv, owner' = owner, CallsTypes', CallsInv', NothingNew, ListsStep, EndStep,
           known' \subseteq Tokens, ended' \subseteq known'
    PROVE  LoneInv'
  <1>1. /\ \A m \in Nodes : ListsOK(sessionIDs'[m])
        /\ MapsInv'
        /\ \A t \in Tokens, m \in Nodes : Cleared(t, m) => Cleared(t, m)'
    BY MapsKept DEF LoneInv, NothingNew
  <1>2. Typed'
    BY <1>1 DEF LoneInv, Typed, TypeOK, ListsOK, CallsTypes, ListsStep
  <1>3. \A u, t : Only(u, t)' <=> Only(u, t)
    BY DEF Only
  <1>4. EndInv'
    <2>1. ASSUME NEW n \in Nodes, NEW m \in Nodes, NEW u \in Users, NEW t \in Tokens,
                 LogOutAt(n, u, t)', Only(u, t)'
          PROVE  Ahead(n, m)' \/ Cleared(t, m)'
      <3>1. Only(u, t)
        BY <1>3, <2>1
      <3>2. CASE LogOutAt(n, u, t) /\ ~Ahead(n, m)
        BY <1>1, <3>1, <3>2 DEF LoneInv, EndInv
      <3> QED
        BY <2>1, <3>1, <3>2 DEF EndStep
    <2>2. ASSUME NEW t \in ended', NEW m \in Nodes PROVE Cleared(t, m)'
      <3>1. t \in Tokens
        OBVIOUS
      <3> QED
        BY <1>1, <3>1 DEF EndStep, LoneInv, EndInv
    <2> QED
      BY <2>1, <2>2 DEF EndInv
  <1> QED
    BY <1>1, <1>2, <1>4 DEF LoneInv

LEMMA ListsOf ==
    ASSUME Typed, NEW m \in Nodes
    PROVE  ListsOK(sessionIDs[m]) /\ Shrinks(sessionIDs[m], sessionIDs[m])
  BY DEF Typed, TypeOK, ListsOK, Shrinks

\* One node's lists are replaced.
LEMMA OneNode ==
    ASSUME Typed, NEW h \in Nodes, NEW s, sessionIDs' = [sessionIDs EXCEPT ![h] = s],
           Shrinks(sessionIDs[h], s) \/ \E t \in Tokens : Arrives(h, t)
    PROVE  ListsStep /\ sessionIDs'[h] = s
  <1>1. /\ DOMAIN sessionIDs' = Nodes /\ sessionIDs'[h] = s
        /\ \A m \in Nodes \ {h} : sessionIDs'[m] = sessionIDs[m]
    BY DEF Typed
  <1>2. ASSUME NEW m \in Nodes
        PROVE  Shrinks(sessionIDs[m], sessionIDs'[m]) \/ \E t \in Tokens : Arrives(m, t)
    <2>1. CASE m = h
      BY <1>1, <2>1
    <2>2. CASE m # h
      BY <1>1, <2>2, ListsOf
    <2> QED
      BY <2>1, <2>2
  <1> QED
    BY <1>1, <1>2 DEF ListsStep

LEMMA NoNode ==
    ASSUME Typed, sessionIDs' = sessionIDs
    PROVE  ListsStep
  BY ListsOf DEF ListsStep, Typed

\* A node that has the only token of a user and removes it will not have it again.
LEMMA RemovedCleared ==
    ASSUME LoneInv, NothingNew, NEW h \in Nodes, NEW u, NEW t \in Tokens,
           Has(sessionIDs[h], u, t), Only(u, t),
           sessionIDs'[h] = RemoveToken(sessionIDs[h], t, u)
    PROVE  Cleared(t, h)'
  <1>1. ListsOK(sessionIDs[h])
    BY ListsOf DEF LoneInv
  <1>2. u \in DOMAIN sessionIDs[h] /\ t \in Range(sessionIDs[h][u]) /\ At(h, t)
    BY DEF Has, At
  <1>3. ~Pending(t, h)'
    BY <1>2 DEF LoneInv, MapsInv, NothingNew
  <1>4. Len(sessionIDs[h][u]) = 1 /\ owner[t] = u
    BY <1>2 DEF LoneInv, MapsInv
  <1>5. Shrinks(sessionIDs[h], sessionIDs'[h]) /\ u \notin DOMAIN sessionIDs'[h]
    BY <1>1, <1>4, RemoveShrinks
  <1>6. ~At(h, t)'
    <2> SUFFICES ASSUME NEW v \in DOMAIN sessionIDs'[h], t \in Range(sessionIDs'[h][v])
                 PROVE  FALSE
      BY DEF At
    <2>1. v \in DOMAIN sessionIDs[h] /\ t \in Range(sessionIDs[h][v])
      BY <1>5 DEF Shrinks
    <2>2. owner[t] = v
      BY <2>1 DEF LoneInv, MapsInv
    <2> QED
      BY <1>4, <1>5, <2>2
  <1> QED
    BY <1>3, <1>6 DEF Cleared

\* Nothing is different for the calls, or some late calls are over.
LEMMA CallsStay ==
    ASSUME LoneInv, UNCHANGED <<owner, calls, known, ended>>, delayed' \subseteq delayed
    PROVE  CallsTypes' /\ CallsInv' /\ NothingNew /\ EndStep
  <1>1. CallsTypes'
    BY DEF LoneInv, Typed, TypeOK, CallsTypes
  <1>2. /\ \A t, m : Late(t, m)' => Late(t, m)
        /\ \A n, t : LoginAt(n, t)' <=> LoginAt(n, t)
        /\ \A n, m : Ahead(n, m)' <=> Ahead(n, m)
        /\ \A n, u, t : LogOutAt(n, u, t)' <=> LogOutAt(n, u, t)
    BY DEF Late, LoginAt, Ahead, LogOutAt
  <1>3. NothingNew
    BY <1>2 DEF NothingNew, Pending
  <1>4. CallsInv'
    BY <1>2 DEF LoneInv, CallsInv
  <1>5. EndStep
    BY <1>2 DEF EndStep
  <1> QED
    BY <1>1, <1>3, <1>4, <1>5

\* A node that serves another's call
LEMMA ServedAt ==
    ASSUME Typed, CallsInv, NEW r \in Remote, Serve(r), owner[r.token] = r.user,
           r.op = "login" => Pending(r.token, r.to) /\ ~Pending(r.token, r.to)'
    PROVE  ListsStep /\ (r.op = "logout" =>
                           sessionIDs'[r.to] = RemoveToken(sessionIDs[r.to], r.token, r.user))
  <1>1. /\ r.to \in Nodes /\ r.op \in {"login", "logout"}
        /\ r.token \in Tokens /\ r.user \in Users
    BY DEF Remote
  <1>2. PICK h, t, u : h = r.to /\ t = r.token /\ u = r.user
    OBVIOUS
  <1>3. ListsOK(sessionIDs[h]) /\ h \in Nodes
    BY <1>1, <1>2, ListsOf
  <1>4. CASE r.op = "login"
    <2>1. sessionIDs' = [sessionIDs EXCEPT ![h] = AddToken(sessionIDs[h], t, u)]
      BY <1>2, <1>4 DEF Serve
    <2>2. sessionIDs'[h] = AddToken(sessionIDs[h], t, u)
      BY <1>3, <2>1 DEF Typed
    <2>3. Arrives(h, t) /\ t \in Tokens
      BY <1>1, <1>2, <1>4, <2>2 DEF Arrives
    <2> QED
      BY <1>3, <1>4, <2>1, <2>3, OneNode
  <1>5. CASE r.op = "logout"
    <2>1. sessionIDs' = [sessionIDs EXCEPT ![h] = RemoveToken(sessionIDs[h], t, u)]
      BY <1>2, <1>5 DEF Serve
    <2>2. PICK s : s = RemoveToken(sessionIDs[h], t, u)
      OBVIOUS
    <2>3. Shrinks(sessionIDs[h], s)
      BY <1>3, <2>2, RemoveShrinks
    <2>4. ListsStep /\ sessionIDs'[h] = s
      BY <1>3, <2>1, <2>2, <2>3, OneNode
    <2> QED
      BY <1>2, <2>2, <2>4
  <1> QED
    BY <1>1, <1>4, <1>5

\* A token is generated: nothing has been said of it before.
LEMMA LoginKeeps ==
    ASSUME SessionsAssumption, LoneInv, NEW n \in Nodes, NEW u \in Users, NEW t \in Tokens,
           Login(n, u, t)
    PROVE  LoneInv'
  <1>1. /\ calls[n] = Idle /\ owner[t] = NoUser /\ owner' = [owner EXCEPT ![t] = u]
        /\ calls' = [calls EXCEPT ![n] = [op |-> "login", user |-> u, token |-> t,
                                          left |-> Clients(n)]]
        /\ UNCHANGED <<sessionIDs, delayed, known, ended>>
    BY DEF Login
  <1>2. /\ Clients(n) \in Seq(Nodes) /\ OneEach(Clients(n)) /\ Range(Clients(n)) = Nodes \ {n}
    BY ClientsOf
  <1>3. /\ owner \in [Tokens -> Users \cup {NoUser}] /\ delayed \subseteq Remote
        /\ known \subseteq Tokens /\ ended \subseteq known
    BY DEF LoneInv, Typed, TypeOK
  <1>4. NoUser \notin Users /\ NoUser # u
    BY DEF SessionsAssumption
  <1>5. /\ owner'[t] = u /\ owner' \in [Tokens -> Users \cup {NoUser}]
        /\ \A x \in Tokens \ {t} : owner'[x] = owner[x]
    BY <1>1, <1>3
  <1>6. /\ DOMAIN calls' = Nodes /\ \A m \in Nodes \ {n} : calls'[m] = calls[m]
        /\ calls'[n].op = "login" /\ calls'[n].user = u /\ calls'[n].token = t
        /\ calls'[n].left = Clients(n) /\ calls'[n] \in Call
    BY <1>1, <1>2 DEF LoneInv, Typed, Call
  <1>7. calls[n].op = "none"
    BY <1>1 DEF Idle
  <1>8. ASSUME NEW m \in Nodes, calls[m].op # "none"
        PROVE  calls[m].token \in Tokens \ {t}
    <2>1. calls[m].token \in Tokens /\ calls[m].user \in Users
      BY <1>8, CallOf DEF LoneInv
    <2>2. owner[calls[m].token] = calls[m].user
      BY <1>8 DEF LoneInv, CallsInv
    <2> QED
      BY <1>1, <1>4, <2>1, <2>2
  <1>9. \A r \in delayed : r.token \in Tokens \ {t} /\ owner[r.token] = r.user
    <2>1. \A r \in delayed : r.token \in Tokens /\ r.user \in Users /\ owner[r.token] = r.user
      BY <1>3 DEF Remote, LoneInv, CallsInv
    <2> QED
      BY <1>1, <1>4, <2>1
  <1>10. \A m \in Nodes : ~At(m, t)
    <2> SUFFICES ASSUME NEW m \in Nodes, NEW v \in DOMAIN sessionIDs[m],
                        t \in Range(sessionIDs[m][v])
                 PROVE  FALSE
      BY DEF At
    <2>1. owner[t] = v /\ v \in Users
      BY ListsOf DEF LoneInv, MapsInv, ListsOK
    <2> QED
      BY <1>1, <1>4, <2>1
  <1>11. /\ \A x, m : Late(x, m)' <=> Late(x, m)
         /\ \A m \in Nodes \ {n} : \A x : LoginAt(m, x)' <=> LoginAt(m, x)
         /\ \A x : LoginAt(n, x)' <=> x = t
         /\ \A m \in Nodes \ {n}, p \in Nodes : Ahead(m, p)' <=> Ahead(m, p)
         /\ \A m, x : At(m, x)' <=> At(m, x)
    BY <1>1, <1>6 DEF Late, LoginAt, Ahead, At
  <1>12. /\ \A m \in Nodes : ~Late(t, m) /\ ~LoginAt(m, t) /\ ~Pending(t, m)
         /\ \A x : ~LoginAt(n, x)
    BY <1>7, <1>8, <1>9 DEF Late, LoginAt, Pending
  <1>13. \A x \in Tokens \ {t}, m \in Nodes : Pending(x, m)' <=> Pending(x, m)
    BY <1>11, <1>12 DEF Pending
  <1>14. Typed'
    BY <1>1, <1>5, <1>6 DEF LoneInv, Typed, TypeOK
  <1>15. CallsInv'
    <2>1. ASSUME NEW m \in Nodes
          PROVE  /\ m \notin Range(calls'[m].left)
                 /\ \A i, j \in DOMAIN calls'[m].left : calls'[m].left[i] = calls'[m].left[j] => i = j
                 /\ calls'[m].op # "none" => owner'[calls'[m].token] = calls'[m].user
                 /\ calls'[m].op = "logout" => calls'[m].token \in known'
      <3>1. CASE m = n
        BY <1>2, <1>5, <1>6, <3>1 DEF OneEach
      <3>2. CASE m # n
        <4>1. calls[m].op # "none" => owner'[calls[m].token] = owner[calls[m].token]
          BY <1>5, <1>8
        <4> QED
          BY <1>1, <1>6, <3>2, <4>1 DEF LoneInv, CallsInv
      <3> QED
        BY <3>1, <3>2
    <2>2. \A m, p \in Nodes, x \in Tokens : LoginAt(m, x)' /\ LoginAt(p, x)' => m = p
      BY <1>11, <1>12 DEF LoneInv, CallsInv
    <2>3. \A m, p \in Nodes, x \in Tokens : LoginAt(m, x)' /\ Ahead(m, p)' => ~Late(x, p)'
      BY <1>11, <1>12 DEF LoneInv, CallsInv
    <2>4. \A r \in delayed' : owner'[r.token] = r.user
      BY <1>1, <1>5, <1>9
    <2>5. \A x \in known' : owner'[x] # NoUser
      BY <1>1, <1>3, <1>4, <1>5 DEF LoneInv, CallsInv
    <2> QED
      BY <2>1, <2>2, <2>3, <2>4, <2>5 DEF CallsInv
  <1>16. MapsInv'
    <2>1. \A x \in Tokens, m \in Nodes : Pending(x, m)' => ~At(m, x)'
      BY <1>10, <1>11, <1>13 DEF LoneInv, MapsInv
    <2>2. ASSUME NEW m \in Nodes, NEW v \in DOMAIN sessionIDs'[m]
          PROVE  /\ \A x \in Range(sessionIDs'[m][v]) : owner'[x] = v
                 /\ \A x \in Tokens : Only(v, x)' => Len(sessionIDs'[m][v]) = 1
      <3> DEFINE l == sessionIDs[m][v]
      <3>1. v \in DOMAIN sessionIDs[m] /\ sessionIDs'[m][v] = l
        BY <1>1, <2>2
      <3>2. l \in Seq(Tokens) /\ l # <<>>
        BY <3>1, ListsOf DEF LoneInv, ListsOK
      <3>3. \A x \in Range(l) : owner[x] = v /\ x # t
        BY <1>10, <3>1 DEF LoneInv, MapsInv, At
      <3>4. \A x \in Tokens : Only(v, x) => Len(l) = 1
        BY <3>1 DEF LoneInv, MapsInv
      <3> HIDE DEF l
      <3>5. \A x \in Range(l) : x \in Tokens
        BY <3>2 DEF Range
      <3>6. \A x \in Range(l) : owner'[x] = v
        BY <1>5, <3>3, <3>5
      <3>7. ASSUME NEW x \in Tokens, Only(v, x)' PROVE Len(l) = 1
        <4>1. \A y \in Tokens \ {x} : owner'[y] # v
          BY <3>7 DEF Only
        <4>2. 1 \in DOMAIN l /\ l[1] \in Range(l)
          BY <3>2 DEF Range
        <4>3. l[1] \in Tokens /\ owner[l[1]] = v /\ l[1] # t
          BY <3>3, <3>5, <4>2
        <4>4. x = l[1]
          BY <1>5, <4>1, <4>3
        <4>5. owner[t] # v
          BY <1>1, <1>4, <3>1, ListsOf DEF LoneInv, ListsOK
        <4>6. Only(v, x)
          BY <1>5, <4>1, <4>5 DEF Only
        <4> QED
          BY <3>4, <4>6
      <3> QED
        BY <3>1, <3>6, <3>7
    <2> QED
      BY <2>1, <2>2 DEF MapsInv
  <1>17. \A x \in Tokens \ {t}, m \in Nodes : Cleared(x, m) => Cleared(x, m)'
    BY <1>11, <1>13 DEF Cleared
  <1>18. EndInv'
    <2>1. ASSUME NEW m \in Nodes, NEW p \in Nodes, NEW v \in Users, NEW x \in Tokens,
                 LogOutAt(m, v, x)', Only(v, x)'
          PROVE  Ahead(m, p)' \/ Cleared(x, p)'
      <3>1. m # n /\ LogOutAt(m, v, x)
        BY <1>6, <2>1 DEF LogOutAt
      <3>2. x # t /\ owner[x] = v
        BY <1>8, <3>1 DEF LogOutAt, LoneInv, CallsInv
      <3>3. Only(v, x)
        <4>1. owner[t] # v
          BY <1>1, <1>4
        <4> QED
          BY <1>5, <2>1, <4>1 DEF Only
      <3>4. Ahead(m, p) \/ Cleared(x, p)
        BY <3>1, <3>3 DEF LoneInv, EndInv
      <3> QED
        BY <1>11, <1>17, <3>1, <3>2, <3>4
    <2>2. ASSUME NEW x \in ended', NEW m \in Nodes PROVE Cleared(x, m)'
      <3>1. x \in ended /\ x \in Tokens /\ x \in known
        BY <1>1, <1>3
      <3>2. owner[x] # NoUser
        BY <3>1 DEF LoneInv, CallsInv
      <3>3. x # t /\ Cleared(x, m)
        BY <1>1, <3>1, <3>2 DEF LoneInv, EndInv
      <3> QED
        BY <1>17, <3>1, <3>3
    <2> QED
      BY <2>1, <2>2 DEF EndInv
  <1> QED
    BY <1>14, <1>15, <1>16, <1>18 DEF LoneInv

LEMMA PropagateSessionKeeps ==
    ASSUME SessionsAssumption, LoneInv, NEW n \in Nodes, PropagateSession(n)
    PROVE  LoneInv'
  <1>1. PICK k, h : k = calls[n].token /\ h = Head(calls[n].left)
    OBVIOUS
  <1>2. /\ calls[n].op = "login" /\ calls[n].left # <<>> /\ GoesOn(n)
        /\ UNCHANGED <<owner, known, ended>> /\ Typed /\ CallsInv
        /\ delayed' \in {delayed, delayed \cup {Request(n)}}
    BY DEF PropagateSession, Fails, LoneInv
  <1>3. /\ CallsTypes' /\ CallsInv' /\ NothingNew
        /\ h \in Nodes /\ \A m \in Nodes : Ahead(n, m) => Ahead(n, m)' \/ m = h
        /\ calls'[n].op = calls[n].op
        /\ \A m \in Nodes \ {n} : calls'[m] = calls[m]
        /\ Pending(k, h) /\ (delayed' = delayed => ~Pending(k, h)')
    BY <1>1, <1>2, GoesOnKeeps
  <1>4. ListsStep
    <2>1. CASE sessionIDs' = sessionIDs
      BY <1>2, <2>1, NoNode
    <2>2. CASE Serve(Request(n)) /\ delayed' = delayed
      <3>1. PICK r : r = Request(n)
        OBVIOUS
      <3>2. r \in Remote /\ r.token = k /\ r.to = h /\ owner[r.token] = r.user
        <4>1. k \in Tokens /\ calls[n].user \in Users
          BY <1>1, <1>2, CallOf
        <4>2. owner[k] = calls[n].user
          BY <1>1, <1>2 DEF CallsInv
        <4> QED
          BY <1>1, <1>2, <1>3, <3>1, <4>1, <4>2 DEF Request, Remote
      <3>3. Pending(r.token, r.to) /\ ~Pending(r.token, r.to)'
        BY <1>3, <2>2, <3>2
      <3> QED
        BY <1>2, <2>2, <3>1, <3>2, <3>3, ServedAt
    <2> QED
      BY <2>1, <2>2 DEF PropagateSession, Fails
  <1>5. EndStep
    <2>1. \A m \in Nodes : \A u, t : LogOutAt(m, u, t)' => m # n /\ LogOutAt(m, u, t)
      BY <1>2, <1>3 DEF LogOutAt
    <2>2. \A m \in Nodes \ {n}, p \in Nodes : Ahead(m, p)' <=> Ahead(m, p)
      BY <1>3 DEF Ahead
    <2> QED
      BY <1>2, <2>1, <2>2 DEF EndStep
  <1> QED
    BY <1>2, <1>3, <1>4, <1>5, StepKeeps DEF Typed, TypeOK

LEMMA LoginDoneKeeps ==
    ASSUME SessionsAssumption, LoneInv, NEW n \in Nodes, LoginDone(n)
    PROVE  LoneInv'
  <1>1. PICK k, s : k = calls[n].token /\ s = AddToken(sessionIDs[n], k, calls[n].user)
    OBVIOUS
  <1>2. /\ calls[n].op = "login" /\ GivesUp(n) /\ UNCHANGED <<owner, delayed, ended>>
        /\ known' = known \cup {k} /\ sessionIDs' = [sessionIDs EXCEPT ![n] = s]
        /\ Typed /\ CallsInv /\ NoUser \notin Users
    BY <1>1 DEF LoginDone, LoneInv, SessionsAssumption
  <1>3. /\ CallsTypes' /\ CallsInv' /\ NothingNew
        /\ \A m \in Nodes \ {n} : calls'[m] = calls[m]
        /\ calls'[n].op = "none"
        /\ Pending(k, n) /\ ~Pending(k, n)'
    BY <1>1, <1>2, GivesUpKeeps
  <1>4. k \in Tokens /\ calls[n].user \in Users /\ owner[k] = calls[n].user
    BY <1>1, <1>2, CallOf DEF CallsInv
  <1>5. ListsStep
    <2>1. sessionIDs'[n] = s
      BY <1>2 DEF Typed
    <2>2. Arrives(n, k)
      BY <1>1, <1>3, <1>4, <2>1 DEF Arrives
    <2> QED
      BY <1>2, <1>4, <2>2, OneNode
  <1>6. EndStep
    <2>1. \A m \in Nodes : \A u, t : LogOutAt(m, u, t)' => m # n /\ LogOutAt(m, u, t)
      BY <1>3 DEF LogOutAt
    <2>2. \A m \in Nodes \ {n}, p \in Nodes : Ahead(m, p)' <=> Ahead(m, p)
      BY <1>3 DEF Ahead
    <2> QED
      BY <1>2, <2>1, <2>2 DEF EndStep
  <1> QED
    BY <1>2, <1>3, <1>4, <1>5, <1>6, StepKeeps DEF Typed, TypeOK

\* A LogOut starts with every node ahead of it.
LEMMA LogOutKeeps ==
    ASSUME SessionsAssumption, LoneInv, NEW n \in Nodes, NEW u \in Users, NEW t \in Tokens,
           LogOut(n, u, t)
    PROVE  LoneInv'
  <1>1. /\ calls[n] = Idle /\ t \in known /\ Has(sessionIDs[n], u, t)
        /\ calls' = [calls EXCEPT ![n] = [op |-> "logout", user |-> u, token |-> t,
                                          left |-> Clients(n)]]
        /\ UNCHANGED <<sessionIDs, owner, delayed, known, ended>> /\ Typed /\ CallsInv
    BY DEF LogOut, LoneInv
  <1>2. /\ Clients(n) \in Seq(Nodes) /\ OneEach(Clients(n)) /\ Range(Clients(n)) = Nodes \ {n}
    BY ClientsOf
  <1>3. /\ DOMAIN calls' = Nodes /\ \A m \in Nodes \ {n} : calls'[m] = calls[m]
        /\ calls'[n].op = "logout" /\ calls'[n].user = u /\ calls'[n].token = t
        /\ calls'[n].left = Clients(n) /\ calls'[n] \in Call
    BY <1>1, <1>2 DEF Typed, Call
  <1>4. owner[t] = u
    BY <1>1 DEF Has, LoneInv, MapsInv
  <1>5. calls[n].op = "none"
    BY <1>1 DEF Idle
  <1>6. CallsTypes'
    BY <1>1, <1>3 DEF CallsTypes, Typed, TypeOK
  <1>7. /\ \A x, m : Late(x, m)' <=> Late(x, m)
        /\ \A m \in Nodes : \A x : LoginAt(m, x)' => LoginAt(m, x) /\ m # n
        /\ \A m \in Nodes \ {n}, p \in Nodes : Ahead(m, p)' <=> Ahead(m, p)
        /\ \A m \in Nodes \ {n} : \A v, x : LogOutAt(m, v, x)' <=> LogOutAt(m, v, x)
    BY <1>1, <1>3 DEF Late, LoginAt, Ahead, LogOutAt
  <1>8. NothingNew
    BY <1>7 DEF NothingNew, Pending
  <1>9. CallsInv'
    <2>1. ASSUME NEW m \in Nodes
          PROVE  /\ m \notin Range(calls'[m].left)
                 /\ \A i, j \in DOMAIN calls'[m].left : calls'[m].left[i] = calls'[m].left[j] => i = j
                 /\ calls'[m].op # "none" => owner'[calls'[m].token] = calls'[m].user
                 /\ calls'[m].op = "logout" => calls'[m].token \in known'
      <3>1. CASE m = n
        BY <1>1, <1>2, <1>3, <1>4, <3>1 DEF OneEach
      <3>2. CASE m # n
        BY <1>1, <1>3, <3>2 DEF CallsInv
      <3> QED
        BY <3>1, <3>2
    <2> QED
      BY <1>1, <1>7, <2>1 DEF CallsInv
  <1>10. EndStep
    <2>1. \A m \in Nodes : Ahead(n, m)'
      BY <1>2, <1>3 DEF Ahead
    <2> QED
      BY <1>1, <1>7, <2>1 DEF EndStep
  <1>11. ListsStep
    BY <1>1, NoNode
  <1> QED
    BY <1>1, <1>6, <1>8, <1>9, <1>10, <1>11, StepKeeps DEF Typed, TypeOK

\* The next node had the token and has removed it, or the LogOut ends with an error.
LEMMA DeleteSessionKeeps ==
    ASSUME SessionsAssumption, LoneInv, NEW n \in Nodes, DeleteSession(n)
    PROVE  LoneInv'
  <1>1. PICK k, h, r : k = calls[n].token /\ h = Head(calls[n].left) /\ r = Request(n)
    OBVIOUS
  <1>2. /\ calls[n].op = "logout" /\ calls[n].left # <<>>
        /\ UNCHANGED <<owner, known, ended>> /\ Typed /\ CallsInv /\ NoUser \notin Users
    BY DEF DeleteSession, LoneInv, SessionsAssumption
  <1>3. /\ k \in Tokens /\ calls[n].user \in Users /\ calls[n].left \in Seq(Nodes)
        /\ owner[k] = calls[n].user /\ h \in Nodes
    <2>1. /\ k \in Tokens /\ calls[n].user \in Users /\ calls[n].left \in Seq(Nodes)
          /\ owner[k] = calls[n].user
      BY <1>1, <1>2, CallOf DEF CallsInv
    <2> QED
      BY <1>1, <1>2, <2>1
  <1>4. /\ r \in Remote /\ r.token = k /\ r.to = h /\ r.user = calls[n].user
        /\ r.op = "logout" /\ owner[r.token] = r.user
    BY <1>1, <1>2, <1>3 DEF Request, Remote
  <1>5. Serve(r) \/ sessionIDs' = sessionIDs
    BY <1>1 DEF DeleteSession, Fails
  <1>6. /\ ListsStep
        /\ Serve(r) => sessionIDs'[h] = RemoveToken(sessionIDs[h], k, calls[n].user)
    BY <1>2, <1>4, <1>5, ServedAt, NoNode
  <1>7. CASE GoesOn(n) /\ Serve(r) /\ delayed' = delayed /\ Has(sessionIDs[h], calls[n].user, k)
    <2>1. /\ CallsTypes' /\ CallsInv' /\ NothingNew
          /\ \A m \in Nodes : Ahead(n, m) => Ahead(n, m)' \/ m = h
          /\ calls'[n].op = calls[n].op /\ calls'[n].user = calls[n].user /\ calls'[n].token = k
          /\ \A m \in Nodes \ {n} : calls'[m] = calls[m]
      BY <1>1, <1>2, <1>7, GoesOnKeeps
    <2>2. \A u : u = calls[n].user /\ Only(u, k) => Cleared(k, h)'
      BY <1>3, <1>6, <1>7, <2>1, RemovedCleared
    <2>3. \A m \in Nodes : \A u, t : LogOutAt(m, u, t)' => LogOutAt(m, u, t)
      BY <1>1, <1>2, <2>1 DEF LogOutAt
    <2>4. \A u, t : LogOutAt(n, u, t) => u = calls[n].user /\ t = k
      BY <1>1 DEF LogOutAt
    <2>5. \A m \in Nodes \ {n}, p \in Nodes : Ahead(m, p)' <=> Ahead(m, p)
      BY <2>1 DEF Ahead
    <2>6. ASSUME NEW m \in Nodes, NEW p \in Nodes, NEW u \in Users, NEW t \in Tokens,
                 LogOutAt(m, u, t)', Only(u, t)
          PROVE  Ahead(m, p)' \/ Cleared(t, p)' \/ (LogOutAt(m, u, t) /\ ~Ahead(m, p))
      <3>1. LogOutAt(m, u, t)
        BY <2>3, <2>6
      <3>2. CASE m # n
        BY <2>5, <3>1, <3>2
      <3>3. CASE m = n /\ p # h
        BY <2>1, <3>1, <3>3
      <3>4. CASE m = n /\ p = h
        BY <2>2, <2>4, <2>6, <3>1, <3>4
      <3> QED
        BY <3>2, <3>3, <3>4
    <2>7. EndStep
      BY <1>2, <2>6 DEF EndStep
    <2> QED
      BY <1>2, <1>6, <2>1, <2>7, StepKeeps DEF Typed, TypeOK
  <1>8. CASE GivesUp(n) /\ delayed' \in {delayed, delayed \cup {Request(n)}}
    <2>1. /\ CallsTypes' /\ CallsInv' /\ NothingNew
          /\ \A m \in Nodes \ {n} : calls'[m] = calls[m]
          /\ calls'[n].op = "none"
      BY <1>1, <1>2, <1>8, GivesUpKeeps
    <2>2. \A m \in Nodes : \A u, t : LogOutAt(m, u, t)' => m # n /\ LogOutAt(m, u, t)
      BY <2>1 DEF LogOutAt
    <2>3. \A m \in Nodes \ {n}, p \in Nodes : Ahead(m, p)' <=> Ahead(m, p)
      BY <2>1 DEF Ahead
    <2>4. EndStep
      BY <1>2, <2>2, <2>3 DEF EndStep
    <2> QED
      BY <1>2, <1>6, <2>1, <2>4, StepKeeps DEF Typed, TypeOK
  <1> QED
    BY <1>1, <1>7, <1>8 DEF DeleteSession, Fails

\* The LogOut returns: every other node is cleared, and node n is now.
LEMMA LogOutDoneKeeps ==
    ASSUME SessionsAssumption, LoneInv, NEW n \in Nodes, LogOutDone(n)
    PROVE  LoneInv'
  <1>1. PICK k, u, s : k = calls[n].token /\ u = calls[n].user /\ s = RemoveToken(sessionIDs[n], k, u)
    OBVIOUS
  <1>2. /\ calls[n].op = "logout" /\ calls[n].left = <<>> /\ GivesUp(n)
        /\ UNCHANGED <<owner, delayed, known>>
        /\ sessionIDs' = [sessionIDs EXCEPT ![n] = s]
        /\ ended' = IF Has(sessionIDs[n], u, k) /\ Only(u, k) THEN ended \cup {k} ELSE ended
        /\ Typed /\ CallsInv /\ NoUser \notin Users
    BY <1>1 DEF LogOutDone, LoneInv, SessionsAssumption, Only
  <1>3. /\ CallsTypes' /\ CallsInv' /\ NothingNew
        /\ \A m \in Nodes \ {n} : calls'[m] = calls[m]
        /\ calls'[n].op = "none"
    BY <1>1, <1>2, GivesUpKeeps
  <1>4. k \in Tokens /\ u \in Users /\ k \in known /\ ended \subseteq known /\ known \subseteq Tokens
    BY <1>1, <1>2, CallOf DEF CallsInv, Typed, TypeOK
  <1>5. ListsStep /\ sessionIDs'[n] = s
    <2>1. Shrinks(sessionIDs[n], s)
      BY <1>1, <1>2, ListsOf, RemoveShrinks
    <2> QED
      BY <1>2, <2>1, OneNode
  <1>6. EndStep
    <2>1. \A m \in Nodes : \A v, t : LogOutAt(m, v, t)' => m # n /\ LogOutAt(m, v, t)
      BY <1>3 DEF LogOutAt
    <2>2. \A m \in Nodes \ {n}, p \in Nodes : Ahead(m, p)' <=> Ahead(m, p)
      BY <1>3 DEF Ahead
    <2>3. ASSUME Has(sessionIDs[n], u, k), Only(u, k), NEW m \in Nodes
          PROVE  Cleared(k, m) \/ Cleared(k, m)'
      <3>1. CASE m = n
        BY <1>1, <1>3, <1>4, <1>5, <2>3, <3>1, RemovedCleared
      <3>2. CASE m # n
        <4>1. LogOutAt(n, u, k) /\ ~Ahead(n, m)
          BY <1>1, <1>2, <3>2 DEF LogOutAt, Ahead, Range
        <4> QED
          BY <1>4, <2>3, <4>1 DEF LoneInv, EndInv
      <3> QED
        BY <3>1, <3>2
    <2> QED
      BY <1>2, <2>1, <2>2, <2>3 DEF EndStep
  <1> QED
    BY <1>2, <1>3, <1>4, <1>5, <1>6, StepKeeps

LEMMA ServeLateKeeps ==
    ASSUME SessionsAssumption, LoneInv, NEW r \in delayed, ServeLate(r)
    PROVE  LoneInv'
  <1>1. /\ Serve(r) /\ delayed' = delayed \ {r} /\ UNCHANGED <<owner, calls, known, ended>>
        /\ Typed /\ CallsInv
    BY DEF ServeLate, LoneInv
  <1>2. CallsTypes' /\ CallsInv' /\ NothingNew /\ EndStep
    BY <1>1, CallsStay
  <1>3. r \in Remote /\ r.token \in Tokens /\ r.to \in Nodes /\ owner[r.token] = r.user
    BY <1>1 DEF Typed, TypeOK, Remote, CallsInv
  <1>4. ASSUME r.op = "login"
        PROVE  Pending(r.token, r.to) /\ ~Pending(r.token, r.to)'
    <2>1. Late(r.token, r.to)
      BY <1>4 DEF Late
    <2>2. ~Late(r.token, r.to)'
      <3> SUFFICES ASSUME NEW q \in delayed', q.op = "login", q.token = r.token, q.to = r.to
                   PROVE  FALSE
        BY DEF Late
      <3>1. q \in delayed /\ q \in Remote /\ q # r /\ owner[q.token] = q.user
        BY <1>1 DEF Typed, TypeOK, CallsInv
      <3>2. q = r
        BY <1>3, <1>4, <3>1 DEF Remote
      <3> QED
        BY <3>1, <3>2
    <2>3. \A n \in Nodes : ~(LoginAt(n, r.token) /\ Ahead(n, r.to))
      BY <1>1, <1>3, <2>1 DEF CallsInv
    <2>4. \A n \in Nodes : ~(LoginAt(n, r.token)' /\ Ahead(n, r.to)')
      BY <1>1, <2>3 DEF LoginAt, Ahead
    <2> QED
      BY <2>1, <2>2, <2>4 DEF Pending
  <1>5. ListsStep
    BY <1>1, <1>3, <1>4, ServedAt
  <1> QED
    BY <1>1, <1>2, <1>5, StepKeeps DEF Typed, TypeOK

\* Tokens and users go from one node: expiry with its arguments swapped, DELETE_USER.
LEMMA LocalKeeps ==
    ASSUME LoneInv, NEW n \in Nodes, NEW s, Shrinks(sessionIDs[n], s),
           sessionIDs' = [sessionIDs EXCEPT ![n] = s],
           UNCHANGED <<owner, calls, delayed, known, ended>>
    PROVE  LoneInv'
  <1>1. CallsTypes' /\ CallsInv' /\ NothingNew /\ EndStep
    BY CallsStay
  <1>2. ListsStep
    BY OneNode DEF LoneInv
  <1> QED
    BY <1>1, <1>2, StepKeeps DEF LoneInv, Typed, TypeOK

LEMMA RestartKeeps ==
    ASSUME SessionsAssumption, LoneInv, NEW n \in Nodes, Restart(n)
    PROVE  LoneInv'
  <1>1. /\ sessionIDs' = [sessionIDs EXCEPT ![n] = <<>>] /\ GivesUp(n)
        /\ UNCHANGED <<owner, delayed, known, ended>> /\ Typed /\ CallsInv /\ NoUser \notin Users
    BY DEF Restart, LoneInv, SessionsAssumption
  <1>2. PICK k : k = calls[n].token
    OBVIOUS
  <1>3. /\ CallsTypes' /\ CallsInv' /\ NothingNew
        /\ \A m \in Nodes \ {n} : calls'[m] = calls[m]
        /\ calls'[n].op = "none"
    BY <1>1, <1>2, GivesUpKeeps
  <1>4. ListsStep
    <2>1. Shrinks(sessionIDs[n], <<>>)
      BY DEF Shrinks, ListsOK
    <2> QED
      BY <1>1, <2>1, OneNode
  <1>5. EndStep
    <2>1. \A m \in Nodes : \A v, t : LogOutAt(m, v, t)' => m # n /\ LogOutAt(m, v, t)
      BY <1>3 DEF LogOutAt
    <2>2. \A m \in Nodes \ {n}, p \in Nodes : Ahead(m, p)' <=> Ahead(m, p)
      BY <1>3 DEF Ahead
    <2> QED
      BY <1>1, <2>1, <2>2 DEF EndStep
  <1> QED
    BY <1>1, <1>3, <1>4, <1>5, StepKeeps DEF Typed, TypeOK

LEMMA LoneInit ==
    ASSUME SessionsAssumption, Init
    PROVE  LoneInv
  <1>1. Typed
    BY DEF Init, Typed, TypeOK
  <1>2. /\ \A n \in Nodes : calls[n].op = "none" /\ calls[n].left = <<>>
        /\ delayed = {} /\ known = {} /\ ended = {}
        /\ \A n \in Nodes : DOMAIN sessionIDs[n] = {}
    BY DEF Init, Idle
  <1>3. CallsInv
    BY <1>2 DEF CallsInv, Range, LoginAt
  <1>4. MapsInv
    BY <1>2 DEF MapsInv, At
  <1>5. EndInv
    BY <1>2 DEF EndInv, LogOutAt
  <1> QED
    BY <1>1, <1>3, <1>4, <1>5 DEF LoneInv

LEMMA LoneKept ==
    ASSUME SessionsAssumption, LoneInv, [Next]_vars
    PROVE  LoneInv'
  <1>1. ASSUME NEW n \in Nodes, NEW u \in Users, NEW t \in Tokens, RemoveExpired(n, u, t)
        PROVE  LoneInv'
    <2>1. PICK s : s = RemoveToken(sessionIDs[n], u, t)
      OBVIOUS
    <2>2. Shrinks(sessionIDs[n], s)
      BY <2>1, ListsOf, RemoveShrinks DEF LoneInv
    <2> QED
      BY <1>1, <2>1, <2>2, LocalKeeps DEF RemoveExpired
  <1>2. ASSUME NEW n \in Nodes, NEW u \in Users, DeleteUser(n, u)
        PROVE  LoneInv'
    <2>1. PICK s : s = [v \in DOMAIN sessionIDs[n] \ {u} |-> sessionIDs[n][v]]
      OBVIOUS
    <2>2. Shrinks(sessionIDs[n], s)
      BY <2>1, ListsOf DEF LoneInv, Shrinks, ListsOK
    <2> QED
      BY <1>2, <2>1, <2>2, LocalKeeps DEF DeleteUser
  <1>3. CASE UNCHANGED vars
    <2>1. CallsTypes' /\ CallsInv' /\ NothingNew /\ EndStep
      BY <1>3, CallsStay DEF vars
    <2>2. ListsStep
      BY <1>3, NoNode DEF vars, LoneInv
    <2> QED
      BY <1>3, <2>1, <2>2, StepKeeps DEF vars, LoneInv, Typed, TypeOK
  <1> QED
    BY <1>1, <1>2, <1>3, LoginKeeps, PropagateSessionKeeps, LoginDoneKeeps, LogOutKeeps,
       DeleteSessionKeeps, LogOutDoneKeeps, ServeLateKeeps, RestartKeeps DEF Next

\* Every behaviour of the sessions keeps the invariant.
THEOREM LoneInvariant == Spec => []LoneInv
  <1>1. Init => LoneInv
    BY LoneInit, SessionsAssumption
  <1>2. LoneInv /\ [Next]_vars => LoneInv'
    BY LoneKept, SessionsAssumption
  <1> QED
    BY <1>1, <1>2, PTL DEF Spec

\* The maps of auth.sessionHandler hold non-empty lists of tokens on every node, for any
\* number of nodes, users and tokens, and whatever calls are late: RemoveToken drops a
\* user's entry rather than leave an empty list, and every call under way is for a user
\* and a token that Login has generated.
THEOREM SessionsTypeCorrect == Spec => []TypeOK
  <1>1. LoneInv => TypeOK
    BY DEF LoneInv, Typed
  <1> QED
    BY <1>1, LoneInvariant, PTL

\* A LogOut that returned without an error has ended the user's only session on every
\* node for good, for any number of nodes and any number of lost and late calls: a late
\* Login cannot bring the token back to a node that DeleteSession has passed, because a
\* node that had the token has no Login left to serve.
THEOREM OnlySessionsEnd == Spec => []OnlySessionEnds
  <1>1. LoneInv => OnlySessionEnds
    BY DEF LoneInv, EndInv, Cleared, At, OnlySessionEnds, Has
  <1> QED
    BY <1>1, LoneInvariant, PTL

=============================================================================
