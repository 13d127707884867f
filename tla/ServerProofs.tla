---------------------------- MODULE ServerProofs ----------------------------
(***************************************************************************)
(* What holds of a node for any number of users, sessions, requests under  *)
(* way, keys and queues.                                                   *)
(***************************************************************************)
EXTENDS Server, ListLemmas, FiniteSetTheorems

-----------------------------------------------------------------------------
(* Sequences of accounts.  Requests may name any user, so the accounts are   *)
(* typed by their own entries.                                               *)

\* A function on 1..n is a sequence of length n.
LEMMA FunctionIsSequence ==
    ASSUME NEW S, NEW n \in Nat, NEW f \in [1..n -> S]
    PROVE  f \in Seq(S) /\ Len(f) = n /\ DOMAIN f = 1..n
  OBVIOUS

\* A new account is added to the names there are.
LEMMA AppendNames ==
    ASSUME NEW s, IsList(s), NEW e
    PROVE  /\ IsList(Append(s, e))
           /\ Named(s) \subseteq Named(Append(s, e))
           /\ e.username \in Named(Append(s, e))
  <1> DEFINE E == {s[i] : i \in DOMAIN s}
             T == E \cup {e}
             t == Append(s, e)
  <1>1. s \in Seq(E)
    BY DEF IsList
  <1> HIDE DEF E
  <1>2. s \in Seq(T) /\ e \in T
    BY <1>1
  <1> HIDE DEF T
  <1>3. /\ t \in Seq(T)
        /\ Len(s) \in Nat /\ DOMAIN s = 1..Len(s) /\ DOMAIN t = 1..(Len(s) + 1)
        /\ \A i \in 1..Len(s) : t[i] = s[i]
        /\ t[Len(s) + 1] = e
    BY <1>2
  <1>4. IsList(t)
    BY <1>3, SeqIsList
  <1>5. \A i \in DOMAIN s : i \in DOMAIN t /\ t[i] = s[i]
    BY <1>3
  <1>6. Len(s) + 1 \in DOMAIN t
    BY <1>3
  <1> HIDE DEF t
  <1>7. Named(s) \subseteq Named(t) /\ e.username \in Named(t)
    BY <1>3, <1>5, <1>6 DEF Named
  <1> QED
    BY <1>4, <1>7 DEF t

\* Swapping the last account into the place of another loses that one's name only.
LEMMA SwapRemoveNames ==
    ASSUME NEW s, IsList(s), NEW i \in DOMAIN s
    PROVE  /\ IsList(A!SwapRemove(s, i))
           /\ Named(s) \subseteq Named(A!SwapRemove(s, i)) \cup {s[i].username}
  <1> DEFINE E == {s[j] : j \in DOMAIN s}
             n == Len(s)
             t == A!SwapRemove(s, i)
  <1>1. s \in Seq(E)
    BY DEF IsList
  <1> HIDE DEF E
  <1>2. n \in Nat /\ n >= 1 /\ DOMAIN s = 1..n /\ s \in [1..n -> E] /\ i \in 1..n
    BY <1>1
  <1>3. t = [k \in 1..(n - 1) |-> IF k = i THEN s[n] ELSE s[k]]
    BY DEF A!SwapRemove
  <1> HIDE DEF n, t
  <1>4. n - 1 \in Nat /\ t \in [1..(n - 1) -> E]
    BY <1>2, <1>3
  <1>5. t \in Seq(E) /\ DOMAIN t = 1..(n - 1)
    BY <1>4, FunctionIsSequence
  <1>6. IsList(t)
    BY <1>5, SeqIsList
  <1>7. ASSUME NEW j \in DOMAIN s, s[j].username # s[i].username
        PROVE  s[j].username \in Named(t)
    <2>1. j # i /\ j \in 1..n
      BY <1>2, <1>7
    <2>2. CASE j = n
      <3>1. i \in DOMAIN t /\ t[i] = s[j]
        BY <1>2, <1>3, <1>5, <2>1, <2>2
      <3> QED
        BY <3>1 DEF Named
    <2>3. CASE j # n
      <3>1. j \in DOMAIN t /\ t[j] = s[j]
        BY <1>2, <1>3, <1>5, <2>1, <2>3
      <3> QED
        BY <3>1 DEF Named
    <2> QED
      BY <2>2, <2>3
  <1>8. Named(s) \subseteq Named(t) \cup {s[i].username}
    BY <1>7 DEF Named
  <1> QED
    BY <1>6, <1>8 DEF t

\* An account exists when its name is among the names.
LEMMA ExistsByName ==
    ASSUME NEW u
    PROVE  A!UserExists(u) <=> u \in Named(credentials)
  BY DEF A!UserExists, A!At, Named


-----------------------------------------------------------------------------
(* Lists of tokens *)

\* AddToken gives the user one more token and touches no one else.
LEMMA AddTokenEffect ==
    ASSUME NEW s, NEW u, NEW t \in Tokens,
           \A v \in DOMAIN s : s[v] \in Seq(Tokens),
           NEW r, r = AddToken(s, t, u)
    PROVE  /\ DOMAIN r = DOMAIN s \cup {u}
           /\ \A v \in DOMAIN r : r[v] \in Seq(Tokens)
           /\ \A v \in DOMAIN s \ {u} : r[v] = s[v]
           /\ \A x \in Range(r[u]) : x = t \/ (u \in DOMAIN s /\ x \in Range(s[u]))
  <1>1. DOMAIN r = DOMAIN s \cup {u} /\ \A v \in DOMAIN s \ {u} : r[v] = s[v]
    BY DEF AddToken
  <1>2. CASE u \in DOMAIN s
    <2>1. r[u] = Append(s[u], t) /\ s[u] \in Seq(Tokens)
      BY <1>2 DEF AddToken
    <2>2. /\ Append(s[u], t) \in Seq(Tokens)
          /\ Len(s[u]) \in Nat /\ DOMAIN s[u] = 1..Len(s[u])
          /\ DOMAIN Append(s[u], t) = 1..(Len(s[u]) + 1)
          /\ \A i \in 1..Len(s[u]) : Append(s[u], t)[i] = s[u][i]
          /\ Append(s[u], t)[Len(s[u]) + 1] = t
      BY <2>1
    <2>3. \A i \in DOMAIN Append(s[u], t) :
             Append(s[u], t)[i] = t \/ (i \in DOMAIN s[u] /\ Append(s[u], t)[i] = s[u][i])
      BY <2>2
    <2>4. Range(Append(s[u], t)) \subseteq {t} \cup Range(s[u])
      BY <2>3 DEF Range
    <2> QED
      BY <1>1, <1>2, <2>1, <2>2, <2>4
  <1>3. CASE u \notin DOMAIN s
    <2>1. r[u] = <<t>>
      BY <1>3 DEF AddToken
    <2>2. <<t>> \in Seq(Tokens) /\ DOMAIN <<t>> = 1..1 /\ <<t>>[1] = t
      OBVIOUS
    <2>3. Range(<<t>>) \subseteq {t}
      BY <2>2 DEF Range
    <2> QED
      BY <1>1, <1>3, <2>1, <2>2, <2>3
  <1> QED
    BY <1>2, <1>3

\* RemoveToken leaves lists of tokens that were there.
LEMMA RemoveTokenEffect ==
    ASSUME NEW s, NEW u, NEW t,
           \A v \in DOMAIN s : s[v] \in Seq(Tokens)
    PROVE  LET r == RemoveToken(s, t, u) IN
           /\ DOMAIN r \subseteq DOMAIN s
           /\ \A v \in DOMAIN r : r[v] \in Seq(Tokens) /\ Range(r[v]) \subseteq Range(s[v])
  <1> DEFINE r == RemoveToken(s, t, u)
             j == SelectInSeq(s[u], LAMBDA x : x = t)
             l == [s[u] EXCEPT ![j] = Last(s[u])]
  <1>1. CASE ~Has(s, u, t)
    <2>1. r = s
      BY <1>1 DEF RemoveToken
    <2> QED
      BY <2>1
  <1>2. CASE Has(s, u, t) /\ Len(s[u]) = 1
    <2>1. r = [v \in DOMAIN s \ {u} |-> s[v]]
      BY <1>2 DEF RemoveToken
    <2> QED
      BY <2>1
  <1>3. CASE Has(s, u, t) /\ Len(s[u]) # 1
    <2>1. u \in DOMAIN s /\ s[u] \in Seq(Tokens) /\ \E i \in DOMAIN s[u] : TRUE
      BY <1>3 DEF Has, Range
    <2>2. Len(s[u]) \in DOMAIN s[u] /\ Last(s[u]) = s[u][Len(s[u])] /\ Last(s[u]) \in Tokens
      BY <2>1 DEF Last
    <2>3. r = [s EXCEPT ![u] = l]
      BY <1>3 DEF RemoveToken
    <2> HIDE DEF j
    <2>4. DOMAIN l = DOMAIN s[u] /\ \A i \in DOMAIN l : l[i] = s[u][i] \/ l[i] = Last(s[u])
      OBVIOUS
    <2>5. l \in Seq(Tokens)
      <3>1. Len(s[u]) \in Nat /\ DOMAIN s[u] = 1..Len(s[u]) /\ s[u] \in [1..Len(s[u]) -> Tokens]
        BY <2>1
      <3>2. l \in [1..Len(s[u]) -> Tokens]
        BY <2>2, <3>1
      <3> HIDE DEF l
      <3> QED
        BY <3>1, <3>2, FunctionIsSequence
    <2>6. Range(l) \subseteq Range(s[u])
      BY <2>2, <2>4 DEF Range
    <2> HIDE DEF l
    <2>7. DOMAIN r = DOMAIN s /\ r[u] = l /\ \A v \in DOMAIN s \ {u} : r[v] = s[v]
      BY <2>1, <2>3
    <2> HIDE DEF r
    <2>8. DOMAIN r \subseteq DOMAIN s
          /\ \A v \in DOMAIN r : r[v] \in Seq(Tokens) /\ Range(r[v]) \subseteq Range(s[v])
      BY <2>5, <2>6, <2>7
    <2> QED
      BY <2>8 DEF r
  <1> QED
    BY <1>1, <1>2, <1>3

-----------------------------------------------------------------------------
(* The inductive invariant.  A login that has not added its token yet carries *)
(* the obligation the session will have; what is left to read of the keys     *)
(* stays routed.                                                              *)

LoginsAccounted ==
    \A c \in Clients : serving[c].at = "login" =>
        /\ serving[c].token \in Tokens
        /\ serving[c].user \in Named(credentials) \/ serving[c].token \in overtaken

SessionsBacked ==
    \A u \in DOMAIN sessions :
        /\ sessions[u] \in Seq(Tokens)
        /\ u \in Named(credentials) \/ Range(sessions[u]) \subseteq overtaken

KeysRouted ==
    \A c \in Clients : serving[c].at = "info" =>
        serving[c].left \subseteq DOMAIN routing /\ ~serving[c].blank

ServerInv ==
    /\ IsList(credentials)
    /\ DOMAIN serving = Clients /\ serving = [c \in Clients |-> serving[c]]
    /\ LoginsAccounted
    /\ SessionsBacked
    /\ KeysRouted

\* A goroutine that keeps what it does, or does something else than log in or read.
Calm(c) == serving'[c] = serving[c] \/ serving'[c].at \notin {"login", "info"}

\* Steps that lose no account, no session and no key keep the invariant.
LEMMA Quiet ==
    ASSUME ServerInv,
           IsList(credentials)', Named(credentials) \subseteq Named(credentials'),
           sessions' = sessions, overtaken' = overtaken,
           DOMAIN routing \subseteq DOMAIN routing',
           DOMAIN serving' = Clients, serving' = [c \in Clients |-> serving'[c]],
           \A c \in Clients : Calm(c)
    PROVE  ServerInv'
  <1>1. LoginsAccounted'
    BY DEF ServerInv, LoginsAccounted, Calm
  <1>2. SessionsBacked'
    BY DEF ServerInv, SessionsBacked
  <1>3. KeysRouted'
    BY DEF ServerInv, KeysRouted, Calm
  <1> QED
    BY <1>1, <1>2, <1>3 DEF ServerInv

\* What Goes makes of the goroutines.
LEMMA GoesEffect ==
    ASSUME ServerInv, NEW c \in Clients, NEW to, Goes(c, to)
    PROVE  /\ DOMAIN serving' = Clients /\ serving' = [d \in Clients |-> serving'[d]]
           /\ serving'[c] = to
           /\ \A d \in Clients \ {c} : serving'[d] = serving[d]
  BY DEF ServerInv, Goes

\* A command is applied: one goroutine at most becomes idle.
LEMMA TakesEffect ==
    ASSUME ServerInv, NEW op, Takes(op)
    PROVE  /\ DOMAIN serving' = Clients /\ serving' = [d \in Clients |-> serving'[d]]
           /\ \A d \in Clients : serving'[d] = serving[d] \/ serving'[d] = Idle
           /\ \A d \in Clients : Calm(d)
  BY DEF ServerInv, Takes, Calm, Idle

\* Routes are never dropped from the map.
LEMMA WithDomain ==
    ASSUME NEW k, NEW n
    PROVE  /\ DOMAIN routing \subseteq DOMAIN B!Bound(k, n)
           /\ DOMAIN routing \subseteq DOMAIN B!Unbound(k, n)
  BY DEF B!Bound, B!Unbound, B!With

-----------------------------------------------------------------------------
(* The requests *)

\* The password is checked, so the account exists.
LEMMA LoginKeeps ==
    ASSUME ServerInv, NEW c \in Clients, NEW api, NEW leader, NEW u, NEW p, NEW t \in Tokens,
           Login(c, api, leader, u, p, t)
    PROVE  ServerInv'
  <1> DEFINE to == [at |-> "login", user |-> u, token |-> t]
  <1>1. u \in Named(credentials)
    BY DEF Login, Password, A!At, Named
  <1>2. /\ DOMAIN serving' = Clients /\ serving' = [d \in Clients |-> serving'[d]]
        /\ serving'[c] = to
        /\ \A d \in Clients \ {c} : serving'[d] = serving[d]
    BY GoesEffect DEF Login
  <1>3. credentials' = credentials /\ sessions' = sessions /\ overtaken' = overtaken
        /\ routing' = routing
    BY DEF Login, accounts, broker
  <1>4. LoginsAccounted'
    BY <1>1, <1>2, <1>3 DEF ServerInv, LoginsAccounted
  <1>5. SessionsBacked'
    BY <1>3 DEF ServerInv, SessionsBacked
  <1>6. KeysRouted'
    BY <1>2, <1>3 DEF ServerInv, KeysRouted
  <1> QED
    BY <1>2, <1>3, <1>4, <1>5, <1>6 DEF ServerInv

\* The token of the login is added to the user's sessions, and was accounted for.
LEMMA LoginDoneKeeps ==
    ASSUME ServerInv, NEW c \in Clients, LoginDone(c)
    PROVE  ServerInv'
  <1>a. PICK u, t : u = serving[c].user /\ t = serving[c].token
    OBVIOUS
  <1>1. /\ DOMAIN serving' = Clients /\ serving' = [d \in Clients |-> serving'[d]]
        /\ serving'[c] = Idle
        /\ \A d \in Clients \ {c} : serving'[d] = serving[d]
    BY GoesEffect DEF LoginDone
  <1>2. credentials' = credentials /\ overtaken' = overtaken /\ routing' = routing
    BY DEF LoginDone, accounts, broker
  <1>3. t \in Tokens /\ (u \in Named(credentials) \/ t \in overtaken)
    BY <1>a DEF LoginDone, ServerInv, LoginsAccounted
  <1>4. \A v \in DOMAIN sessions : sessions[v] \in Seq(Tokens)
    BY DEF ServerInv, SessionsBacked
  <1>5. sessions' = AddToken(sessions, t, u)
    BY <1>a DEF LoginDone
  <1>6. /\ DOMAIN sessions' = DOMAIN sessions \cup {u}
        /\ \A v \in DOMAIN sessions' : sessions'[v] \in Seq(Tokens)
        /\ \A v \in DOMAIN sessions \ {u} : sessions'[v] = sessions[v]
        /\ \A x \in Range(sessions'[u]) :
             x = t \/ (u \in DOMAIN sessions /\ x \in Range(sessions[u]))
    <2>1. \A r : r = AddToken(sessions, t, u) =>
            /\ DOMAIN r = DOMAIN sessions \cup {u}
            /\ \A v \in DOMAIN r : r[v] \in Seq(Tokens)
            /\ \A v \in DOMAIN sessions \ {u} : r[v] = sessions[v]
            /\ \A x \in Range(r[u]) : x = t \/ (u \in DOMAIN sessions /\ x \in Range(sessions[u]))
      BY <1>3, <1>4, AddTokenEffect, Zenon
    <2> QED
      BY <1>5, <2>1, Zenon
  <1>7. u \in Named(credentials) \/ Range(sessions'[u]) \subseteq overtaken
    BY <1>3, <1>6 DEF ServerInv, SessionsBacked
  <1>8. SessionsBacked'
    BY <1>2, <1>6, <1>7 DEF ServerInv, SessionsBacked
  <1>9. LoginsAccounted' /\ KeysRouted'
    BY <1>1, <1>2 DEF ServerInv, LoginsAccounted, KeysRouted, Idle
  <1> QED
    BY <1>1, <1>2, <1>8, <1>9 DEF ServerInv

\* Logging out leaves no token that was not there.
LEMMA LogOutKeeps ==
    ASSUME ServerInv, NEW c \in Clients, NEW api, NEW u, NEW t, LogOut(c, api, u, t)
    PROVE  ServerInv'
  <1>1. UNCHANGED <<credentials, overtaken, routing, serving>>
    BY DEF LogOut, accounts, broker
  <1>2. \A v \in DOMAIN sessions : sessions[v] \in Seq(Tokens)
    BY DEF ServerInv, SessionsBacked
  <1>3. /\ DOMAIN sessions' \subseteq DOMAIN sessions
        /\ \A v \in DOMAIN sessions' :
             sessions'[v] \in Seq(Tokens) /\ Range(sessions'[v]) \subseteq Range(sessions[v])
    BY <1>2, RemoveTokenEffect DEF LogOut
  <1>4. SessionsBacked'
    BY <1>1, <1>3 DEF ServerInv, SessionsBacked
  <1>5. LoginsAccounted' /\ KeysRouted'
    BY <1>1 DEF ServerInv, LoginsAccounted, KeysRouted
  <1> QED
    BY <1>1, <1>4, <1>5 DEF ServerInv

\* A call of another node adds a token; without an account it counts as overtaken.
LEMMA PropagateSessionKeeps ==
    ASSUME ServerInv, NEW u, NEW t \in Tokens, PropagateSession(u, t)
    PROVE  ServerInv'
  <1>1. UNCHANGED <<credentials, routing, serving>>
    BY DEF PropagateSession, accounts, broker
  <1>2. \A v \in DOMAIN sessions : sessions[v] \in Seq(Tokens)
    BY DEF ServerInv, SessionsBacked
  <1>3. sessions' = AddToken(sessions, t, u)
    BY DEF PropagateSession
  <1>4. /\ overtaken \subseteq overtaken'
        /\ u \in Named(credentials) \/ t \in overtaken'
    BY ExistsByName DEF PropagateSession
  <1>5. /\ DOMAIN sessions' = DOMAIN sessions \cup {u}
        /\ \A v \in DOMAIN sessions' : sessions'[v] \in Seq(Tokens)
        /\ \A v \in DOMAIN sessions \ {u} : sessions'[v] = sessions[v]
        /\ \A x \in Range(sessions'[u]) :
             x = t \/ (u \in DOMAIN sessions /\ x \in Range(sessions[u]))
    <2>1. \A r : r = AddToken(sessions, t, u) =>
            /\ DOMAIN r = DOMAIN sessions \cup {u}
            /\ \A v \in DOMAIN r : r[v] \in Seq(Tokens)
            /\ \A v \in DOMAIN sessions \ {u} : r[v] = sessions[v]
            /\ \A x \in Range(r[u]) : x = t \/ (u \in DOMAIN sessions /\ x \in Range(sessions[u]))
      BY <1>2, AddTokenEffect, Zenon
    <2> QED
      BY <1>3, <2>1, Zenon
  <1>6. u \in Named(credentials) \/ Range(sessions'[u]) \subseteq overtaken'
    BY <1>4, <1>5 DEF ServerInv, SessionsBacked
  <1>7. SessionsBacked'
    BY <1>1, <1>4, <1>5, <1>6 DEF ServerInv, SessionsBacked
  <1>8. LoginsAccounted' /\ KeysRouted'
    BY <1>1, <1>4 DEF ServerInv, LoginsAccounted, KeysRouted
  <1> QED
    BY <1>1, <1>7, <1>8 DEF ServerInv

\* A call of another node that drops a token leaves none that was not there.
LEMMA DeleteSessionKeeps ==
    ASSUME ServerInv, NEW u, NEW t, DeleteSession(u, t)
    PROVE  ServerInv'
  <1>1. UNCHANGED <<credentials, overtaken, routing, serving>>
    BY DEF DeleteSession, accounts, broker
  <1>2. \A v \in DOMAIN sessions : sessions[v] \in Seq(Tokens)
    BY DEF ServerInv, SessionsBacked
  <1>3. /\ DOMAIN sessions' \subseteq DOMAIN sessions
        /\ \A v \in DOMAIN sessions' :
             sessions'[v] \in Seq(Tokens) /\ Range(sessions'[v]) \subseteq Range(sessions[v])
    BY <1>2, RemoveTokenEffect DEF DeleteSession
  <1>4. SessionsBacked'
    BY <1>1, <1>3 DEF ServerInv, SessionsBacked
  <1>5. LoginsAccounted' /\ KeysRouted'
    BY <1>1 DEF ServerInv, LoginsAccounted, KeysRouted
  <1> QED
    BY <1>1, <1>4, <1>5 DEF ServerInv

\* The keys read are the keys routed at that moment.
LEMMA ReadKeysKeeps ==
    ASSUME ServerInv, NEW c \in Clients, NEW leader, NEW u, NEW t, ReadKeys(c, leader, u, t)
    PROVE  ServerInv'
  <1> DEFINE to == [at |-> "info", left |-> DOMAIN routing, blank |-> FALSE]
  <1>1. /\ DOMAIN serving' = Clients /\ serving' = [d \in Clients |-> serving'[d]]
        /\ serving'[c] = to
        /\ \A d \in Clients \ {c} : serving'[d] = serving[d]
    BY GoesEffect DEF ReadKeys
  <1>2. UNCHANGED <<credentials, sessions, overtaken, routing>>
    BY DEF ReadKeys, accounts, broker
  <1>3. to.at = "info" /\ to.left = DOMAIN routing /\ ~to.blank
    OBVIOUS
  <1> HIDE DEF to
  <1>4. LoginsAccounted'
    BY <1>1, <1>2, <1>3 DEF ServerInv, LoginsAccounted
  <1>5. SessionsBacked'
    BY <1>2 DEF ServerInv, SessionsBacked
  <1>6. KeysRouted'
    BY <1>1, <1>2, <1>3 DEF ServerInv, KeysRouted
  <1> QED
    BY <1>1, <1>2, <1>4, <1>5, <1>6 DEF ServerInv

\* A key that was routed when the keys were read is found.
LEMMA ReadQueuesKeeps ==
    ASSUME ServerInv, NEW c \in Clients, ReadQueues(c)
    PROVE  ServerInv'
  <1>1. UNCHANGED <<credentials, sessions, overtaken, routing>>
    BY DEF ReadQueues, accounts, broker, front
  <1>2. serving[c].left \subseteq DOMAIN routing /\ ~serving[c].blank
    BY DEF ServerInv, KeysRouted, ReadQueues
  <1>3. SessionsBacked'
    BY <1>1 DEF ServerInv, SessionsBacked
  <1>4. CASE Goes(c, Idle)
    <2>1. /\ DOMAIN serving' = Clients /\ serving' = [d \in Clients |-> serving'[d]]
          /\ serving'[c] = Idle
          /\ \A d \in Clients \ {c} : serving'[d] = serving[d]
      BY <1>4, GoesEffect
    <2> QED
      BY <1>1, <2>1, Quiet DEF Calm, Idle, ServerInv
  <1>5. ASSUME NEW k \in serving[c].left,
               Goes(c, [at |-> "info", left |-> serving[c].left \ {k},
                        blank |-> serving[c].blank \/ k \notin DOMAIN routing])
        PROVE  ServerInv'
    <2> DEFINE to == [at |-> "info", left |-> serving[c].left \ {k},
                      blank |-> serving[c].blank \/ k \notin DOMAIN routing]
    <2>1. /\ DOMAIN serving' = Clients /\ serving' = [d \in Clients |-> serving'[d]]
          /\ serving'[c] = to
          /\ \A d \in Clients \ {c} : serving'[d] = serving[d]
      BY <1>5, GoesEffect
    <2>2. to.at = "info" /\ to.left = serving[c].left \ {k}
          /\ (to.blank <=> serving[c].blank \/ k \notin DOMAIN routing)
      OBVIOUS
    <2> HIDE DEF to
    <2>3. LoginsAccounted'
      BY <1>1, <2>1, <2>2 DEF ServerInv, LoginsAccounted
    <2>4. to.left \subseteq DOMAIN routing /\ ~to.blank
      BY <1>2, <2>2
    <2>5. KeysRouted'
      BY <1>1, <2>1, <2>4 DEF ServerInv, KeysRouted
    <2> QED
      BY <1>1, <1>3, <2>1, <2>3, <2>5 DEF ServerInv
  <1> QED
    BY <1>4, <1>5 DEF ReadQueues

-----------------------------------------------------------------------------
(* The other steps of a request touch neither accounts nor sessions nor routes. *)

\* The steps that only move a goroutine, or end the process.
LEMMA RequestKeeps ==
    ASSUME ServerInv, NEW c \in Clients,
           \/ Refuse(c)
           \/ \E api \in Apis, r \in Requests, u \in Usernames, t \in Tokens : Receive(c, api, r, u, t)
           \/ Check(c) \/ AccountsRace(c) \/ SendLog(c) \/ ApplyLogFails(c) \/ MapRace(c)
    PROVE  ServerInv'
  <1>1. UNCHANGED <<credentials, sessions, overtaken, routing>>
    BY DEF Refuse, Receive, Check, AccountsRace, SendLog, ApplyLogFails, MapRace, accounts, broker,
           front
  <1>2. CASE serving' = serving
    BY <1>1, <1>2, Quiet DEF Calm, ServerInv
  <1>3. ASSUME NEW to, to.at \notin {"login", "info"}, Goes(c, to)
        PROVE  ServerInv'
    <2>1. /\ DOMAIN serving' = Clients /\ serving' = [d \in Clients |-> serving'[d]]
          /\ serving'[c] = to
          /\ \A d \in Clients \ {c} : serving'[d] = serving[d]
      BY <1>3, GoesEffect
    <2> QED
      BY <1>1, <1>3, <2>1, Quiet DEF Calm, ServerInv
  <1>4. CASE Refuse(c) \/ MapRace(c)
    BY <1>2, <1>4 DEF Refuse, MapRace
  <1>5. CASE \E api \in Apis, r \in Requests, u \in Usernames, t \in Tokens :
               Receive(c, api, r, u, t)
    <2>1. PICK checks, command : Goes(c, [at |-> "check", checks |-> checks, command |-> command])
      BY <1>5 DEF Receive
    <2> QED
      BY <1>3, <2>1
  <1>6. CASE Check(c)
    <2>1. CASE Goes(c, Idle)
      BY <1>3, <2>1 DEF Idle
    <2>2. ASSUME NEW checks, NEW command,
                 Goes(c, [at |-> "check", checks |-> checks, command |-> command])
          PROVE  ServerInv'
      BY <1>3, <2>2
    <2> QED
      BY <1>6, <2>1, <2>2 DEF Check
  <1>7. CASE SendLog(c)
    <2>1. Goes(c, [at |-> "wait"])
      BY <1>7 DEF SendLog
    <2> QED
      BY <1>3, <2>1
  <1>8. CASE ApplyLogFails(c)
    <2>1. Goes(c, Idle)
      BY <1>8 DEF ApplyLogFails
    <2> QED
      BY <1>3, <2>1 DEF Idle
  <1>9. CASE AccountsRace(c)
    <2>1. CASE Goes(c, Idle)
      BY <1>3, <2>1 DEF Idle
    <2> QED
      BY <1>2, <1>9, <2>1 DEF AccountsRace
  <1> QED
    BY <1>4, <1>5, <1>6, <1>7, <1>8, <1>9

-----------------------------------------------------------------------------
(* The commands *)

\* A command that leaves accounts and sessions alone and drops no key.
LEMMA CommandQuiet ==
    ASSUME ServerInv, NEW op, Applies(op), credentials' = credentials,
           DOMAIN routing \subseteq DOMAIN routing'
    PROVE  ServerInv'
  <1>1. Takes(op) /\ sessions' = sessions /\ overtaken' = overtaken
    BY DEF Applies, front
  <1> QED
    BY <1>1, TakesEffect, Quiet DEF ServerInv

\* Creating, binding and deleting queues and keys leaves every key in the map.
LEMMA RouteCommandKeeps ==
    ASSUME ServerInv,
           CREATE_QUEUE \/ DELETE_QUEUE \/ ADD_ROUTING_KEY \/ DELETE_ROUTING_KEY
    PROVE  ServerInv'
  <1>1. CASE CREATE_QUEUE
    <2>1. Applies("CREATE_QUEUE") /\ credentials' = credentials
      BY <1>1 DEF CREATE_QUEUE, accounts
    <2>2. DOMAIN routing \subseteq DOMAIN routing'
      BY <1>1, WithDomain DEF CREATE_QUEUE, Denied, B!CreateQueue, B!Refuses
    <2> QED
      BY <2>1, <2>2, CommandQuiet
  <1>2. CASE DELETE_QUEUE
    <2>1. Applies("DELETE_QUEUE") /\ credentials' = credentials
      BY <1>2 DEF DELETE_QUEUE, accounts
    <2>2. DOMAIN routing \subseteq DOMAIN routing'
      BY <1>2, WithDomain DEF DELETE_QUEUE, Denied, B!DeleteQueue, B!Refuses
    <2> QED
      BY <2>1, <2>2, CommandQuiet
  <1>3. CASE ADD_ROUTING_KEY
    <2>1. Applies("ADD_ROUTING_KEY") /\ credentials' = credentials
      BY <1>3 DEF ADD_ROUTING_KEY, accounts
    <2>2. DOMAIN routing \subseteq DOMAIN routing'
      BY <1>3, WithDomain DEF ADD_ROUTING_KEY, Denied, B!AddRouteKey, B!Refuses
    <2> QED
      BY <2>1, <2>2, CommandQuiet
  <1>4. CASE DELETE_ROUTING_KEY
    <2>1. Applies("DELETE_ROUTING_KEY") /\ credentials' = credentials
      BY <1>4 DEF DELETE_ROUTING_KEY, accounts
    <2>2. DOMAIN routing \subseteq DOMAIN routing'
      BY <1>4, WithDomain DEF DELETE_ROUTING_KEY, Denied, B!DeleteRoutingKey, B!Refuses, B!Panics
    <2> QED
      BY <2>1, <2>2, CommandQuiet
  <1> QED
    BY <1>1, <1>2, <1>3, <1>4

\* Messages come and go without the routes changing.
LEMMA MessageCommandKeeps ==
    ASSUME ServerInv,
           \/ SUBMIT_MESSAGE \/ SUBMIT_BATCH_MESSAGE \/ GET_MESSAGES
           \/ ACK \/ NACK \/ BATCH_ACK
    PROVE  ServerInv'
  <1>1. \E op : Applies(op)
    BY DEF SUBMIT_MESSAGE, SUBMIT_BATCH_MESSAGE, GET_MESSAGES, ACK, NACK, BATCH_ACK
  <1>2. credentials' = credentials
    BY DEF SUBMIT_MESSAGE, SUBMIT_BATCH_MESSAGE, GET_MESSAGES, ACK, NACK, BATCH_ACK, accounts
  <1>3. routing' = routing
    <2>1. CASE SUBMIT_MESSAGE
      BY <2>1 DEF SUBMIT_MESSAGE, Denied, B!Refuses, B!AddMessage, B!BatchAddMessage
    <2>2. CASE SUBMIT_BATCH_MESSAGE
      BY <2>2 DEF SUBMIT_BATCH_MESSAGE, Denied, B!Refuses
    <2>3. CASE GET_MESSAGES
      BY <2>3 DEF GET_MESSAGES, Denied, B!Refuses, B!Dequeue
    <2>4. CASE ACK
      BY <2>4 DEF ACK, Denied, B!Refuses, B!Ack, B!AcksOne
    <2>5. CASE NACK
      BY <2>5 DEF NACK, Denied, B!Refuses, B!Nack, B!Panics
    <2>6. CASE BATCH_ACK
      BY <2>6 DEF BATCH_ACK, Denied, B!Refuses, B!BatchAck, B!AcksOne, B!Panics
    <2> QED
      BY <2>1, <2>2, <2>3, <2>4, <2>5, <2>6
  <1> QED
    BY <1>1, <1>2, <1>3, CommandQuiet

\* Roles are not part of the invariant.
LEMMA RoleCommandKeeps ==
    ASSUME ServerInv, CREATE_ROLE \/ ASSIGN_ROLE \/ UNASSIGN_ROLE
    PROVE  ServerInv'
  <1>1. \E op : Applies(op)
    BY DEF CREATE_ROLE, ASSIGN_ROLE, UNASSIGN_ROLE
  <1>2. credentials' = credentials /\ routing' = routing
    BY DEF CREATE_ROLE, ASSIGN_ROLE, UNASSIGN_ROLE, A!CreateRole, A!AssignRole, A!UnassignRole,
           A!Refuses, broker
  <1> QED
    BY <1>1, <1>2, CommandQuiet

\* A new account adds a name.
LEMMA CreateAccountKeeps ==
    ASSUME ServerInv, CREATE_ACCOUNT
    PROVE  ServerInv'
  <1>1. PICK e : credentials' = credentials \/ credentials' = Append(credentials, e)
    BY DEF CREATE_ACCOUNT, A!CreateUser, A!Added, A!Refuses
  <1>2. IsList(credentials)
    BY DEF ServerInv
  <1>3. IsList(credentials') /\ Named(credentials) \subseteq Named(credentials')
    BY <1>1, <1>2, AppendNames
  <1>4. UNCHANGED <<sessions, overtaken, routing>> /\ Takes("CREATE_ACCOUNT")
    BY DEF CREATE_ACCOUNT, Applies, front, broker
  <1> QED
    BY <1>3, <1>4, TakesEffect, Quiet

\* The entry is removed, and one of the same name appended.
LEMMA ChangePasswordKeeps ==
    ASSUME ServerInv, CHANGE_PASSWORD
    PROVE  ServerInv'
  <1>1. IsList(credentials)
    BY DEF ServerInv
  <1>2. IsList(credentials') /\ Named(credentials) \subseteq Named(credentials')
    <2>1. CASE credentials' = credentials
      BY <1>1, <2>1
    <2>2. ASSUME NEW i \in DOMAIN credentials, NEW p,
                 credentials' = Append(A!SwapRemove(credentials, i),
                                       [username |-> credentials[i].username, password |-> p])
          PROVE  IsList(credentials') /\ Named(credentials) \subseteq Named(credentials')
      <3> DEFINE s == A!SwapRemove(credentials, i)
                 e == [username |-> credentials[i].username, password |-> p]
      <3>1. IsList(s) /\ Named(credentials) \subseteq Named(s) \cup {credentials[i].username}
        BY <1>1, SwapRemoveNames
      <3>2. e.username = credentials[i].username
        OBVIOUS
      <3> HIDE DEF s, e
      <3>3. /\ IsList(Append(s, e)) /\ Named(s) \subseteq Named(Append(s, e))
            /\ e.username \in Named(Append(s, e))
        BY <3>1, AppendNames
      <3>4. credentials' = Append(s, e)
        BY <2>2 DEF s, e
      <3> QED
        BY <3>1, <3>2, <3>3, <3>4
    <2> QED
      BY <2>1, <2>2 DEF CHANGE_PASSWORD, A!ChangePassword, A!Refuses, A!Replaced, A!At
  <1>3. UNCHANGED <<sessions, overtaken, routing>> /\ Takes("CHANGE_PASSWORD")
    BY DEF CHANGE_PASSWORD, Applies, front, broker
  <1> QED
    BY <1>2, <1>3, TakesEffect, Quiet

\* The user's sessions go with the account, and logins under way are recorded.
LEMMA DeleteUserKeeps ==
    ASSUME ServerInv, DELETE_USER
    PROVE  ServerInv'
  <1>a. PICK u : u = Command.user
    OBVIOUS
  <1>1. /\ DOMAIN serving' = Clients /\ serving' = [d \in Clients |-> serving'[d]]
        /\ \A d \in Clients : serving'[d] = serving[d] \/ serving'[d] = Idle
        /\ \A d \in Clients : Calm(d)
    BY TakesEffect DEF DELETE_USER
  <1>2. routing' = routing
    BY DEF DELETE_USER, broker
  <1>3. IsList(credentials)
    BY DEF ServerInv
  <1>4. CASE failed'
    <2>1. UNCHANGED <<sessions, overtaken>>
      BY <1>4 DEF DELETE_USER
    <2>2. credentials' = credentials
      BY <1>4 DEF DELETE_USER, A!DeleteUser, A!Refuses, A!Returns
    <2> QED
      BY <1>1, <1>2, <1>3, <2>1, <2>2, Quiet
  <1>5. CASE ~failed'
    <2>1. PICK i \in A!At(u) : credentials' = A!SwapRemove(credentials, i)
      BY <1>a, <1>5 DEF DELETE_USER, A!DeleteUser, A!Refuses, A!Returns
    <2>2. i \in DOMAIN credentials /\ credentials[i].username = u
      BY <2>1 DEF A!At
    <2>3. IsList(credentials') /\ Named(credentials) \subseteq Named(credentials') \cup {u}
      BY <1>3, <2>1, <2>2, SwapRemoveNames
    <2>4. /\ DOMAIN sessions' = DOMAIN sessions \ {u}
          /\ \A v \in DOMAIN sessions' : sessions'[v] = sessions[v]
      BY <1>a, <1>5 DEF DELETE_USER, DropsSessions
    <2>5. /\ overtaken \subseteq overtaken'
          /\ \A c \in Clients : serving[c].at = "login" /\ serving[c].user = u
                => serving[c].token \in overtaken'
      BY <1>a, <1>5 DEF DELETE_USER
    <2>6. LoginsAccounted'
      BY <1>1, <2>3, <2>5 DEF ServerInv, LoginsAccounted, Idle
    <2>7. SessionsBacked'
      BY <2>3, <2>4, <2>5 DEF ServerInv, SessionsBacked
    <2>8. KeysRouted'
      BY <1>1, <1>2 DEF ServerInv, KeysRouted, Idle
    <2> QED
      BY <1>1, <2>3, <2>6, <2>7, <2>8 DEF ServerInv
  <1> QED
    BY <1>4, <1>5

-----------------------------------------------------------------------------
(* The theorems *)

\* A node starts with the root account, no session, and no goroutine at work.
LEMMA InitHolds == Init => ServerInv
  <1> SUFFICES ASSUME Init PROVE ServerInv
    OBVIOUS
  <1>1. IsList(credentials)
    <2>1. PICK e : credentials = <<e>>
      BY DEF Init, A!Init
    <2>2. <<e>> \in Seq({e})
      OBVIOUS
    <2> QED
      BY <2>1, <2>2, SeqIsList
  <1>2. serving = [c \in Clients |-> Idle] /\ sessions = <<>>
    BY DEF Init
  <1> QED
    BY <1>1, <1>2 DEF ServerInv, LoginsAccounted, SessionsBacked, KeysRouted, Idle

\* Every step of a node keeps the invariant.
LEMMA NextKeeps == ServerInv /\ [Next]_vars => ServerInv'
  <1> SUFFICES ASSUME ServerInv, [Next]_vars PROVE ServerInv'
    OBVIOUS
  <1>1. ASSUME NEW c \in Clients, Frontend(c)
        PROVE  ServerInv'
    BY <1>1, LoginKeeps, LoginDoneKeeps, LogOutKeeps, RequestKeeps, ReadKeysKeeps, ReadQueuesKeeps
       DEF Frontend
  <1>2. CASE Apply
    BY <1>2, RouteCommandKeeps, MessageCommandKeeps, RoleCommandKeeps, CreateAccountKeeps,
       ChangePasswordKeeps, DeleteUserKeeps DEF Apply
  <1>3. CASE UNCHANGED vars
    <2>1. UNCHANGED <<credentials, routing, sessions, overtaken, serving>>
      BY <1>3 DEF vars, accounts, broker, front
    <2> QED
      BY <2>1 DEF ServerInv, LoginsAccounted, SessionsBacked, KeysRouted
  <1>4. CASE Peers
    BY <1>4, PropagateSessionKeeps, DeleteSessionKeeps DEF Peers
  <1> QED
    BY <1>1, <1>2, <1>3, <1>4 DEF Next

\* The invariant holds throughout.
THEOREM ServerInvariant == Spec => []ServerInv
  BY InitHolds, NextKeeps, PTL DEF Spec

\* Deleting an account ends its sessions: however logins and logouts of this node, the
\* tokens that other nodes propagate or drop, and deletions of accounts interleave
\* (AuthManager.Login, sessionHandler, sessionServer), a session without an account
\* belongs to a login that a deletion overtook, on this node or on the way to it.
THEOREM SessionsAccounted == Spec => []SessionsHaveAccounts
  <1>1. ServerInv => SessionsHaveAccounts
    BY ExistsByName DEF ServerInv, SessionsBacked, SessionsHaveAccounts
  <1> QED
    BY <1>1, ServerInvariant, PTL

\* GET /info/all finds every key it has read, whatever commands are applied between
\* its reads: keys are never dropped from the routes (Broker.go).
THEOREM InfoNeverBlank == Spec => []InfoComplete
  <1>1. ServerInv => InfoComplete
    BY DEF ServerInv, KeysRouted, InfoComplete
  <1> QED
    BY <1>1, ServerInvariant, PTL

-----------------------------------------------------------------------------
(* Passwords.  A name has one account. *)

Unique(s) == \A i, j \in DOMAIN s : s[i].username = s[j].username => i = j

NamesUnique == Unique(credentials)

\* A name that is new
LEMMA AppendUnique ==
    ASSUME NEW s, IsList(s), Unique(s), NEW e, e.username \notin Named(s)
    PROVE  /\ Unique(Append(s, e))
           /\ \A j \in DOMAIN Append(s, e) :
                Append(s, e)[j] = e \/ \E i \in DOMAIN s : Append(s, e)[j] = s[i]
  <1> DEFINE t == Append(s, e)
             n == Len(s)
  <1>1. n \in Nat /\ DOMAIN s = 1..n
    BY ListIsFunction
  <1>2. DOMAIN t = 1..(n + 1) /\ (\A i \in 1..n : t[i] = s[i]) /\ t[n + 1] = e
    BY ListAppend
  <1> HIDE DEF t, n
  <1>3. \A i \in 1..n : s[i].username # e.username
    BY <1>1 DEF Named
  <1>4. \A i \in DOMAIN t : i = n + 1 \/ i \in 1..n
    BY <1>1, <1>2
  <1>5. Unique(t)
    BY <1>1, <1>2, <1>3, <1>4 DEF Unique
  <1>6. \A j \in DOMAIN t : t[j] = e \/ \E i \in DOMAIN s : t[j] = s[i]
    BY <1>1, <1>2, <1>4
  <1> QED
    BY <1>5, <1>6 DEF t

\* The entry of a name goes, the others stay what they are.
LEMMA SwapRemoveUnique ==
    ASSUME NEW s, IsList(s), Unique(s), NEW i \in DOMAIN s
    PROVE  /\ Unique(A!SwapRemove(s, i))
           /\ s[i].username \notin Named(A!SwapRemove(s, i))
           /\ \A j \in DOMAIN A!SwapRemove(s, i) : \E m \in DOMAIN s : A!SwapRemove(s, i)[j] = s[m]
  <1> DEFINE n == Len(s)
             t == A!SwapRemove(s, i)
             At(k) == IF k = i THEN n ELSE k
  <1>1. n \in Nat /\ DOMAIN s = 1..n
    BY ListIsFunction
  <1>2. t = [k \in 1..(n - 1) |-> IF k = i THEN s[n] ELSE s[k]]
    BY DEF A!SwapRemove
  <1> HIDE DEF n, t
  <1>3. /\ DOMAIN t = 1..(n - 1)
        /\ \A k \in DOMAIN t : At(k) \in DOMAIN s /\ At(k) # i /\ t[k] = s[At(k)]
    BY <1>1, <1>2
  <1>4. \A k, l \in DOMAIN t : At(k) = At(l) => k = l
    BY <1>1, <1>3
  <1> HIDE DEF At
  <1>5. Unique(t)
    BY <1>3, <1>4 DEF Unique
  <1>6. s[i].username \notin Named(t)
    BY <1>3 DEF Unique, Named
  <1>7. \A j \in DOMAIN t : \E m \in DOMAIN s : t[j] = s[m]
    BY <1>3
  <1> QED
    BY <1>5, <1>6, <1>7 DEF t

\* What a command leaves in the place of the accounts: accounts that were there, new
\* names, and an account of the sender when it changes the sender's own password.
KeptOrOwn ==
    \A j \in DOMAIN credentials' :
        \/ \E i \in DOMAIN credentials : credentials'[j] = credentials[i]
        \/ credentials'[j].username \notin Named(credentials)
        \/ credentials'[j].username = Sender

\* A change of password names its sender.
OwnUser(command) == command.op = "CHANGE_PASSWORD" => command.user = command.by

LEMMA AccountCommandEffect ==
    ASSUME IsList(credentials), NamesUnique, OwnUser(Command),
           CREATE_ACCOUNT \/ CHANGE_PASSWORD \/ DELETE_USER
    PROVE  NamesUnique' /\ KeptOrOwn
  <1>1. CASE credentials' = credentials
    BY <1>1 DEF NamesUnique, KeptOrOwn
  <1>2. CASE CREATE_ACCOUNT /\ credentials' # credentials
    <2>1. PICK e : /\ credentials' = Append(credentials, e)
                   /\ e.username \notin Named(credentials)
      <3>1. PICK u, p : credentials' = A!Added(u, p) /\ ~A!UserExists(u)
        BY <1>2 DEF CREATE_ACCOUNT, A!CreateUser, A!Refuses
      <3> DEFINE e == [username |-> u, password |-> p]
      <3>2. e.username = u /\ credentials' = Append(credentials, e)
        BY <3>1 DEF A!Added
      <3> HIDE DEF e
      <3> QED
        BY <3>1, <3>2, ExistsByName
    <2> QED
      BY <2>1, AppendUnique DEF NamesUnique, KeptOrOwn
  <1>3. CASE CHANGE_PASSWORD /\ credentials' # credentials
    <2>1. PICK i \in A!At(Command.user) :
            credentials' = A!Replaced(i, Command.user, Command.new)
      BY <1>3 DEF CHANGE_PASSWORD, A!ChangePassword, A!Refuses
    <2>2. PICK e : e = [username |-> Command.user, password |-> Command.new]
      OBVIOUS
    <2>3. PICK t : t = A!SwapRemove(credentials, i)
      OBVIOUS
    <2>4. credentials' = Append(t, e)
      BY <2>1, <2>2, <2>3 DEF A!Replaced
    <2>5. i \in DOMAIN credentials /\ credentials[i].username = Command.user
      BY <2>1 DEF A!At
    <2>6. e.username = Command.user /\ Command.user = Sender
      BY <1>3, <2>2 DEF CHANGE_PASSWORD, Applies, Takes, OwnUser, Command, Sender
    <2>7. /\ IsList(t) /\ Unique(t) /\ e.username \notin Named(t)
          /\ \A j \in DOMAIN t : \E m \in DOMAIN credentials : t[j] = credentials[m]
      BY <2>3, <2>5, <2>6, SwapRemoveNames, SwapRemoveUnique DEF NamesUnique
    <2>8. /\ Unique(Append(t, e))
          /\ \A j \in DOMAIN Append(t, e) :
                Append(t, e)[j] = e \/ \E m \in DOMAIN t : Append(t, e)[j] = t[m]
      BY <2>7, AppendUnique
    <2> QED
      BY <2>4, <2>6, <2>7, <2>8 DEF NamesUnique, KeptOrOwn
  <1>4. CASE DELETE_USER /\ credentials' # credentials
    <2>1. PICK i \in DOMAIN credentials : credentials' = A!SwapRemove(credentials, i)
      BY <1>4 DEF DELETE_USER, A!DeleteUser, A!Refuses, A!At
    <2> QED
      BY <2>1, SwapRemoveUnique DEF NamesUnique, KeptOrOwn
  <1> QED
    BY <1>1, <1>2, <1>3, <1>4

-----------------------------------------------------------------------------
(* Commands on their way to the log and in it *)

RequestOk(command) ==
    /\ OwnUser(command)
    /\ Submits(command) => /\ IsFiniteSet(DOMAIN command.counts)
                           /\ \A k \in DOMAIN command.counts : command.counts[k] \in Nat
    /\ command.op = "SUBMIT_MESSAGE" =>
         \E k : DOMAIN command.counts = {k} /\ command.counts[k] = 1

CommandOk(command) ==
    /\ OwnUser(command)
    /\ Submits(command) => /\ IsList(command.batches)
                           /\ \A i \in DOMAIN command.batches : IsList(command.batches[i].ids)
    /\ command.op = "SUBMIT_MESSAGE" =>
         1 \in DOMAIN command.batches /\ 1 \in DOMAIN command.batches[1].ids

EntryOk(e) == e = [command |-> e.command, from |-> e.from] /\ CommandOk(e.command)

RequestsOk ==
    /\ \A c \in Clients : serving[c].at = "check" => RequestOk(serving[c].command)
    /\ IsList(log) /\ \A i \in DOMAIN log : EntryOk(log[i])

Ops == {"AddRoutingKey", "DeleteRoutingKey", "CreateQueue", "DeleteQueue", "SubmitMessage",
        "SubmitBatchedMessages", "GetMessages", "Ack", "Nack", "BatchAck", "BatchNack",
        "CreateUser", "ChangePassword", "DeleteUser", "CreateRole", "AssignRole", "UnassignRole"}

\* Only what the APIs decode reaches the handler.
LEMMA DecodedOps ==
    ASSUME NEW api, NEW r, Decodes(api, r)
    PROVE  r.op \in Ops
  BY DEF Decodes, RestQueue, RestBroker, RestAccounts, GrpcMessages, GrpcAccounts, Ops

LEMMA HandlePrepares ==
    ASSUME ServerAssumption, NEW ctx, NEW r \in Requests, r.op \in Ops
    PROVE  RequestOk(Handle(ctx, r).command)
  <1>1. CASE r.op = "SubmitMessage"
    <2>1. Handle(ctx, r) = SubmitMessage(ctx, r)
      BY <1>1 DEF Handle
    <2>2. PICK command : command = Handle(ctx, r).command
      OBVIOUS
    <2>3. command.op = "SUBMIT_MESSAGE" /\ command.counts = [k \in {r.key} |-> 1]
      BY <2>1, <2>2 DEF SubmitMessage, Method
    <2>4. PICK k : k = r.key
      OBVIOUS
    <2>5. DOMAIN command.counts = {k} /\ command.counts[k] = 1 /\ IsFiniteSet({k})
      BY <2>3, <2>4, FS_Singleton
    <2>6. IsFiniteSet(DOMAIN command.counts) /\ \A j \in DOMAIN command.counts : command.counts[j] \in Nat
      BY <2>5
    <2>7. RequestOk(command)
      BY <2>3, <2>5, <2>6 DEF RequestOk, OwnUser
    <2> QED
      BY <2>2, <2>7
  <1>2. CASE r.op = "SubmitBatchedMessages"
    <2>1. Handle(ctx, r) = SubmitBatchedMessages(ctx, r)
      BY <1>2 DEF Handle
    <2>2. PICK command : command = Handle(ctx, r).command
      OBVIOUS
    <2>3. PICK ms : ms = r.messages
      OBVIOUS
    <2> DEFINE D == DOMAIN ms
               K == {ms[i].key : i \in D}
    <2>4. /\ command.op = "SUBMIT_BATCH_MESSAGE"
          /\ command.counts = [k \in K |-> Cardinality({i \in D : ms[i].key = k})]
      <3>1. PICK counts : counts = [k \in K |-> Cardinality({i \in D : ms[i].key = k})]
        OBVIOUS
      <3>2. PICK valid, checks : SubmitBatchedMessages(ctx, r) =
               Method(valid, checks, [op |-> "SUBMIT_BATCH_MESSAGE", by |-> ctx.user, counts |-> counts])
        BY <2>3, <3>1, Zenon DEF SubmitBatchedMessages
      <3> QED
        <4>1. Handle(ctx, r) = Method(valid, checks, [op |-> "SUBMIT_BATCH_MESSAGE", by |-> ctx.user, counts |-> counts])
          BY <2>1, <3>2
        <4>2. command.op = "SUBMIT_BATCH_MESSAGE" /\ command.counts = counts
          BY <2>2, <4>1 DEF Method
        <4> QED
          BY <3>1, <4>2
    <2>5. IsFiniteSet(D)
      BY <1>2, <2>3 DEF ServerAssumption
    <2> HIDE DEF D
    <2>6. IsFiniteSet(K)
      <3> DEFINE f == [i \in D |-> ms[i].key]
      <3>1. f \in Surjection(D, K)
        BY DEF Surjection
      <3> HIDE DEF f, K
      <3> QED
        BY <2>5, <3>1, FS_Surjection
    <2> HIDE DEF K
    <2>7. \A k \in K : Cardinality({i \in D : ms[i].key = k}) \in Nat
      <3> SUFFICES ASSUME NEW k \in K PROVE Cardinality({i \in D : ms[i].key = k}) \in Nat
        OBVIOUS
      <3>1. {i \in D : ms[i].key = k} \subseteq D
        OBVIOUS
      <3>2. IsFiniteSet({i \in D : ms[i].key = k})
        BY <2>5, <3>1, FS_Subset
      <3> QED
        BY <3>2, FS_CardinalityType
    <2>8. IsFiniteSet(DOMAIN command.counts) /\ \A j \in DOMAIN command.counts : command.counts[j] \in Nat
      BY <2>4, <2>6, <2>7
    <2>9. RequestOk(command)
      BY <2>4, <2>8 DEF RequestOk, OwnUser
    <2> QED
      BY <2>2, <2>9
  <1>3. CASE r.op \notin {"SubmitMessage", "SubmitBatchedMessages"}
    <2>1. /\ OwnUser(Handle(ctx, r).command)
          /\ Handle(ctx, r).command.op \notin {"SUBMIT_MESSAGE", "SUBMIT_BATCH_MESSAGE"}
      BY <1>3 DEF Ops, OwnUser, Handle, Method, Settles, AddRoutingKey, DeleteRoutingKey, CreateQueue,
         DeleteQueue, GetMessages, Ack, Nack, BatchAck, BatchNack, CreateUser, ChangePassword,
         DeleteUser, CreateRole, AssignRole, UnassignRole, NewRole
    <2> QED
      BY <2>1 DEF RequestOk, Submits
  <1> QED
    BY <1>1, <1>2, <1>3

\* Ids are drawn for the messages of a command.
LEMMA LoggedOk ==
    ASSUME NEW c, RequestOk(c), NEW free, NEW command \in Logged(c, free)
    PROVE  CommandOk(command)
  <1>1. CASE ~Submits(c)
    <2>1. command = c
      BY <1>1 DEF Logged
    <2> QED
      BY <1>1, <2>1 DEF RequestOk, CommandOk, Submits
  <1>2. CASE Submits(c)
    <2>1. PICK ks \in SetToSeqs(DOMAIN c.counts) :
            command = [op |-> c.op, by |-> c.by, batches |-> Drawn(c.counts, ks, free)]
      BY <1>2 DEF Logged
    <2>2. PICK n : n = Cardinality(DOMAIN c.counts)
      OBVIOUS
    <2>3. n \in Nat
      BY <1>2, <2>2, FS_CardinalityType DEF RequestOk
    <2>4. ks \in [1..n -> DOMAIN c.counts]
      BY <2>1, <2>2 DEF SetToSeqs
    <2>5. PICK bs : bs = Drawn(c.counts, ks, free)
      OBVIOUS
    <2>6. PICK ids : bs = [i \in DOMAIN ks |-> [key |-> ks[i], ids |-> ids[i]]]
                     /\ \A i \in DOMAIN ks : ids[i] = [j \in 1..c.counts[ks[i]] |-> ids[i][j]]
      <3> DEFINE d == Draw(FoldLeft(LAMBDA a, k : a + c.counts[k], 0, ks), free)
                 before(i) == FoldLeft(LAMBDA a, j : a + c.counts[ks[j]], 0, [j \in 1..(i - 1) |-> j])
                 ids == [i \in DOMAIN ks |-> [j \in 1..c.counts[ks[i]] |-> d[before(i) + j]]]
      <3>1. bs = [i \in DOMAIN ks |->
                   [key |-> ks[i], ids |-> [j \in 1..c.counts[ks[i]] |-> d[before(i) + j]]]]
        BY <2>5 DEF Drawn
      <3> HIDE DEF d, before
      <3>2. \A i \in DOMAIN ks : ids[i] = [j \in 1..c.counts[ks[i]] |-> d[before(i) + j]]
        OBVIOUS
      <3> HIDE DEF ids
      <3>3. bs = [i \in DOMAIN ks |-> [key |-> ks[i], ids |-> ids[i]]]
        BY <3>1, <3>2
      <3>4. \A i \in DOMAIN ks : ids[i] = [j \in 1..c.counts[ks[i]] |-> ids[i][j]]
        BY <3>2
      <3> QED
        BY <3>3, <3>4
    <2>7. DOMAIN ks = 1..n /\ bs = [i \in 1..n |-> bs[i]] /\ DOMAIN bs = 1..n
      BY <2>4, <2>6
    <2>8. IsList(bs)
      BY <2>3, <2>7, FunctionIsList
    <2>9. ASSUME NEW i \in 1..n PROVE IsList(bs[i].ids)
      <3>1. bs[i].ids = ids[i]
        BY <2>6, <2>7
      <3>2. c.counts[ks[i]] \in Nat
        BY <1>2, <2>4 DEF RequestOk
      <3>3. PICK m, f : m = c.counts[ks[i]] /\ f = ids[i]
        OBVIOUS
      <3>4. m \in Nat /\ f = [j \in 1..m |-> f[j]]
        BY <2>6, <2>7, <3>2, <3>3
      <3> QED
        BY <3>1, <3>3, <3>4, FunctionIsList
    <2>10. c.op = "SUBMIT_MESSAGE" => 1 \in DOMAIN bs /\ 1 \in DOMAIN bs[1].ids
      <3> SUFFICES ASSUME c.op = "SUBMIT_MESSAGE" PROVE 1 \in DOMAIN bs /\ 1 \in DOMAIN bs[1].ids
        OBVIOUS
      <3>1. PICK k : DOMAIN c.counts = {k} /\ c.counts[k] = 1
        BY DEF RequestOk
      <3>2. n = 1
        BY <2>2, <3>1, FS_Singleton
      <3>3. 1 \in DOMAIN ks /\ ks[1] = k
        BY <2>4, <3>1, <3>2
      <3>4. PICK f : f = ids[1]
        OBVIOUS
      <3>5. f = [j \in 1..1 |-> f[j]]
        BY <2>6, <3>1, <3>3, <3>4
      <3>6. bs[1].ids = f
        BY <2>6, <3>3, <3>4
      <3> QED
        BY <2>7, <3>2, <3>5, <3>6
    <2>11. command.op = c.op /\ command.batches = bs /\ c.op # "CHANGE_PASSWORD"
      BY <1>2, <2>1, <2>5 DEF Submits
    <2> QED
      BY <2>7, <2>8, <2>9, <2>10, <2>11 DEF CommandOk, OwnUser
  <1> QED
    BY <1>1, <1>2

\* A goroutine that checks does so for a command that is in order.
Prepared(c) == serving'[c] = serving[c] \/ (serving'[c].at = "check" => RequestOk(serving'[c].command))

LEMMA LogStands ==
    ASSUME RequestsOk, \A c \in Clients : Prepared(c),
           IsList(log'), \A i \in DOMAIN log' : EntryOk(log'[i])
    PROVE  RequestsOk'
  BY DEF RequestsOk, Prepared

LEMMA LogUnchanged ==
    ASSUME RequestsOk, log' = log, \A c \in Clients : Prepared(c)
    PROVE  RequestsOk'
  BY LogStands DEF RequestsOk

LEMMA SendLogEntry ==
    ASSUME RequestsOk, NEW c, NEW command, CommandOk(command),
           log' = Append(log, [command |-> command, from |-> c])
    PROVE  IsList(log') /\ \A i \in DOMAIN log' : EntryOk(log'[i])
  <1>1. PICK e, n, t : e = [command |-> command, from |-> c] /\ n = Len(log) /\ t = log'
    OBVIOUS
  <1>2. EntryOk(e)
    BY <1>1 DEF EntryOk
  <1>3. IsList(log) /\ DOMAIN log = 1..n /\ n \in Nat /\ \A i \in 1..n : EntryOk(log[i])
    BY <1>1, ListIsFunction DEF RequestsOk
  <1>4. t = Append(log, e)
    BY <1>1
  <1>5. /\ IsList(t) /\ DOMAIN t = 1..(n + 1)
        /\ \A i \in 1..n : t[i] = log[i]
        /\ t[n + 1] = e
    BY <1>1, <1>3, <1>4, ListAppend
  <1>6. \A i \in 1..(n + 1) : EntryOk(t[i])
    <2> SUFFICES ASSUME NEW i \in 1..(n + 1) PROVE EntryOk(t[i])
      OBVIOUS
    <2>1. i = n + 1 \/ i \in 1..n
      BY <1>3
    <2> QED
      BY <1>2, <1>3, <1>5, <2>1
  <1> QED
    BY <1>1, <1>5, <1>6

\* The log loses an entry in its midst, or who waits for it.
LEMMA FailedEntry ==
    ASSUME RequestsOk, NEW i \in DOMAIN log,
           log' = RemoveAt(log, i) \/ log' = [log EXCEPT ![i].from = Nobody]
    PROVE  IsList(log') /\ \A j \in DOMAIN log' : EntryOk(log'[j])
  <1> DEFINE E == {log[j] : j \in DOMAIN log}
  <1>1. log \in Seq(E) /\ \A e \in E : EntryOk(e)
    BY DEF RequestsOk, IsList
  <1>2. Len(log) \in Nat /\ DOMAIN log = 1..Len(log) /\ log = [j \in 1..Len(log) |-> log[j]]
    BY ListIsFunction DEF RequestsOk
  <1>3. PICK t : t = log'
    OBVIOUS
  <1>4. CASE log' = RemoveAt(log, i)
    <2> HIDE DEF E
    <2>1. t = SubSeq(log, 1, i - 1) \o SubSeq(log, i + 1, Len(log))
      BY <1>3, <1>4 DEF RemoveAt
    <2>2. SubSeq(log, 1, i - 1) \in Seq(E) /\ SubSeq(log, i + 1, Len(log)) \in Seq(E)
      BY <1>1, <1>2
    <2>3. t \in Seq(E)
      BY <2>1, <2>2
    <2>4. IsList(t) /\ \A j \in DOMAIN t : t[j] \in E
      BY <2>3, SeqIsList
    <2> QED
      BY <1>1, <1>3, <2>4
  <1>5. CASE log' = [log EXCEPT ![i].from = Nobody]
    <2>1. PICK e : e = [log[i] EXCEPT !.from = Nobody]
      OBVIOUS
    <2>2. EntryOk(log[i])
      BY <1>1
    <2>3. PICK command, from : log[i] = [command |-> command, from |-> from] /\ CommandOk(command)
      BY <2>2 DEF EntryOk
    <2>4. e = [command |-> command, from |-> Nobody]
      BY <2>1, <2>3
    <2>5. EntryOk(e)
      BY <2>3, <2>4 DEF EntryOk
    <2>6. t = [log EXCEPT ![i] = e]
      BY <1>3, <1>5, <2>1
    <2>7. /\ t = [j \in 1..Len(log) |-> t[j]] /\ DOMAIN t = DOMAIN log
          /\ \A j \in DOMAIN t : t[j] = e \/ t[j] \in E
      BY <1>2, <2>6
    <2>8. IsList(t)
      BY <1>2, <2>7, FunctionIsList
    <2> QED
      BY <1>1, <1>3, <2>5, <2>7, <2>8
  <1> QED
    BY <1>4, <1>5

LEMMA TakenEntry ==
    ASSUME ServerInv, RequestsOk, NEW op, Takes(op)
    PROVE  RequestsOk'
  <1>1. \A c \in Clients : Prepared(c)
    BY TakesEffect DEF Prepared, Idle
  <1> DEFINE E == {log[j] : j \in DOMAIN log}
  <1>2. log \in Seq(E) /\ \A e \in E : EntryOk(e)
    BY DEF RequestsOk, IsList
  <1>3. log # <<>> /\ log' = Tail(log)
    BY DEF Takes
  <1>4. PICK t : t = log'
    OBVIOUS
  <1> HIDE DEF E
  <1>5. t \in Seq(E)
    BY <1>2, <1>3, <1>4
  <1>6. IsList(t) /\ \A j \in DOMAIN t : t[j] \in E
    BY <1>5, SeqIsList
  <1> QED
    BY <1>1, <1>2, <1>4, <1>6, LogStands

\* The steps of a goroutine keep the requests and the log in order.
LEMMA FrontendRequests ==
    ASSUME ServerAssumption, ServerInv, RequestsOk, NEW c \in Clients, Frontend(c)
    PROVE  RequestsOk'
  <1>1. ASSUME NEW to, Goes(c, to), to.at # "check" \/ RequestOk(to.command)
        PROVE  \A d \in Clients : Prepared(d)
    BY <1>1, GoesEffect DEF Prepared
  <1>2. ASSUME NEW to, Goes(c, to), to.at # "check" \/ RequestOk(to.command), log' = log
        PROVE  RequestsOk'
    BY <1>1, <1>2, LogUnchanged
  <1>3. CASE serving' = serving /\ log' = log
    BY <1>3, LogUnchanged DEF Prepared
  <1>4. CASE \E api \in Apis, leader \in BOOLEAN, u \in Usernames, p \in Passwords, t \in Tokens :
               Login(c, api, leader, u, p, t)
    <2>1. PICK u, t : Goes(c, [at |-> "login", user |-> u, token |-> t]) /\ log' = log
      BY <1>4 DEF Login
    <2> QED
      BY <1>2, <2>1
  <1>5. CASE LoginDone(c)
    BY <1>2, <1>5 DEF LoginDone, Idle
  <1>6. CASE \E api \in Apis, u \in Usernames, t \in Tokens : LogOut(c, api, u, t)
    BY <1>3, <1>6 DEF LogOut
  <1>7. CASE Refuse(c) \/ MapRace(c) \/ AccountsRace(c)
    <2>1. CASE Goes(c, Idle) /\ AccountsRace(c)
      BY <1>2, <2>1 DEF AccountsRace, Idle
    <2> QED
      BY <1>3, <1>7, <2>1 DEF Refuse, MapRace, AccountsRace
  <1>8. CASE \E api \in Apis, r \in Requests, u \in Usernames, t \in Tokens :
               Receive(c, api, r, u, t)
    <2>0. PICK api \in Apis, r \in Requests, u \in Usernames, t \in Tokens :
            Receive(c, api, r, u, t)
      BY <1>8
    <2>1. PICK ctx, m :
            /\ Decodes(api, r) /\ m = Handle(ctx, r) /\ log' = log
            /\ Goes(c, [at |-> "check", checks |-> m.checks, command |-> m.command])
      BY <2>0, Zenon DEF Receive
    <2>2. RequestOk(m.command)
      BY <2>1, DecodedOps, HandlePrepares
    <2>3. PICK to : to = [at |-> "check", checks |-> m.checks, command |-> m.command]
      OBVIOUS
    <2>4. Goes(c, to) /\ to.command = m.command
      BY <2>1, <2>3
    <2> QED
      BY <1>2, <2>1, <2>2, <2>4
  <1>9. CASE Check(c)
    <2>1. log' = log /\ RequestOk(serving[c].command)
      BY <1>9 DEF Check, RequestsOk
    <2>2. CASE Goes(c, Idle)
      BY <1>2, <2>1, <2>2 DEF Idle
    <2>3. CASE ~Goes(c, Idle)
      <3>1. PICK checks, command, to :
              /\ to = [at |-> "check", checks |-> checks, command |-> command] /\ Goes(c, to)
              /\ command = serving[c].command
        BY <1>9, <2>3 DEF Check
      <3>2. to.command = serving[c].command
        BY <3>1
      <3> QED
        BY <1>2, <2>1, <3>1, <3>2
    <2> QED
      BY <2>2, <2>3
  <1>10. CASE SendLog(c)
    <2>1. PICK command \in Logged(serving[c].command, Ids \ issued) :
            log' = Append(log, [command |-> command, from |-> c])
      BY <1>10 DEF SendLog
    <2>2. PICK cmd, free : cmd = serving[c].command /\ free = Ids \ issued
      OBVIOUS
    <2>3. RequestOk(cmd) /\ command \in Logged(cmd, free)
      BY <1>10, <2>1, <2>2 DEF SendLog, RequestsOk
    <2>4. CommandOk(command)
      BY <2>3, LoggedOk
    <2>5. Goes(c, [at |-> "wait"])
      BY <1>10 DEF SendLog
    <2> QED
      BY <1>1, <2>1, <2>4, <2>5, SendLogEntry, LogStands
  <1>11. CASE ApplyLogFails(c)
    <2>1. PICK i \in DOMAIN log :
            log' = RemoveAt(log, i) \/ log' = [log EXCEPT ![i].from = Nobody]
      BY <1>11 DEF ApplyLogFails
    <2>2. Goes(c, Idle) /\ Idle.at = "idle"
      BY <1>11 DEF ApplyLogFails, Idle
    <2> QED
      BY <1>1, <2>1, <2>2, FailedEntry, LogStands
  <1>12. CASE \E leader \in BOOLEAN, u \in Usernames, t \in Tokens : ReadKeys(c, leader, u, t)
    <2>1. PICK to : to = [at |-> "info", left |-> DOMAIN routing, blank |-> FALSE]
      OBVIOUS
    <2>2. Goes(c, to) /\ log' = log /\ to.at = "info"
      BY <1>12, <2>1 DEF ReadKeys
    <2> QED
      BY <1>2, <2>2
  <1>13. CASE ReadQueues(c)
    <2>1. log' = log
      BY <1>13 DEF ReadQueues
    <2>2. CASE Goes(c, Idle)
      BY <1>2, <2>1, <2>2 DEF Idle
    <2>3. CASE ~Goes(c, Idle)
      <3>1. PICK left, blank : Goes(c, [at |-> "info", left |-> left, blank |-> blank])
        BY <1>13, <2>3 DEF ReadQueues
      <3> QED
        BY <1>2, <2>1, <3>1
    <2> QED
      BY <2>2, <2>3
  <1> QED
    BY <1>4, <1>5, <1>6, <1>7, <1>8, <1>9, <1>10, <1>11, <1>12, <1>13 DEF Frontend

\* What the goroutines do leaves the broker and the accounts to the commands.
LEMMA FrontendKeeps ==
    ASSUME NEW c, Frontend(c)
    PROVE  UNCHANGED <<credentials, roles, users, routing, queues, heap>>
  BY DEF Frontend, Login, LoginDone, LogOut, Refuse, Receive, Check, AccountsRace, SendLog,
     ApplyLogFails, ReadKeys, ReadQueues, MapRace, accounts, broker

\* So do the calls of other nodes.
LEMMA PeersKeep ==
    ASSUME Peers
    PROVE  UNCHANGED <<credentials, roles, users, routing, queues, heap, serving, log>>
  BY DEF Peers, PropagateSession, DeleteSession, accounts, broker

LEMMA ApplyTakes ==
    ASSUME Apply
    PROVE  (\E op : Takes(op)) /\ log # <<>>
  <1>1. \E op : Takes(op)
    BY DEF Apply, Applies, CREATE_QUEUE, DELETE_QUEUE, ADD_ROUTING_KEY, DELETE_ROUTING_KEY,
       SUBMIT_MESSAGE, SUBMIT_BATCH_MESSAGE, GET_MESSAGES, ACK, NACK, BATCH_ACK,
       CREATE_ACCOUNT, CHANGE_PASSWORD, DELETE_USER, CREATE_ROLE, ASSIGN_ROLE, UNASSIGN_ROLE
  <1> QED
    BY <1>1 DEF Takes

LEMMA NextCommand ==
    ASSUME RequestsOk, log # <<>>
    PROVE  CommandOk(Command)
  <1>1. Len(log) \in Nat /\ DOMAIN log = 1..Len(log) /\ Head(log) = log[1] /\ Len(log) # 0
    BY DEF RequestsOk, IsList
  <1> QED
    BY <1>1 DEF RequestsOk, EntryOk, Command

-----------------------------------------------------------------------------
(* Passwords change through their user's sessions. *)

PasswordInv == ServerInv /\ NamesUnique /\ RequestsOk

LEMMA PasswordInit == Init => PasswordInv
  <1> SUFFICES ASSUME Init PROVE PasswordInv
    OBVIOUS
  <1>1. ServerInv
    BY InitHolds
  <1>2. PICK e : credentials = <<e>>
    BY DEF Init, A!Init
  <1>3. DOMAIN credentials = {1}
    BY <1>2
  <1>4. NamesUnique
    BY <1>3 DEF NamesUnique, Unique
  <1>5. log = <<>> /\ serving = [c \in Clients |-> Idle]
    BY DEF Init
  <1>6. IsList(log) /\ DOMAIN log = {}
    <2>1. <<>> \in Seq({}) /\ DOMAIN <<>> = {}
      OBVIOUS
    <2> QED
      BY <1>5, <2>1, SeqIsList
  <1>7. RequestsOk
    BY <1>5, <1>6 DEF RequestsOk, Idle
  <1> QED
    BY <1>1, <1>4, <1>7 DEF PasswordInv

LEMMA PasswordStep ==
    ASSUME ServerAssumption, PasswordInv, [Next]_vars
    PROVE  PasswordInv' /\ (credentials' # credentials => log # <<>> /\ KeptOrOwn)
  <1>1. ServerInv'
    BY NextKeeps DEF PasswordInv
  <1>2. ASSUME NEW c \in Clients, Frontend(c)
        PROVE  RequestsOk' /\ credentials' = credentials
    BY <1>2, FrontendRequests, FrontendKeeps DEF PasswordInv
  <1>3. CASE Apply
    <2>1. RequestsOk' /\ log # <<>>
      BY <1>3, ApplyTakes, TakenEntry DEF PasswordInv
    <2>2. OwnUser(Command)
      BY <2>1, NextCommand DEF PasswordInv, CommandOk
    <2>3. CASE CREATE_ACCOUNT \/ CHANGE_PASSWORD \/ DELETE_USER
      BY <1>1, <2>1, <2>2, <2>3, AccountCommandEffect DEF PasswordInv, ServerInv
    <2>4. CASE ~(CREATE_ACCOUNT \/ CHANGE_PASSWORD \/ DELETE_USER)
      <3>1. credentials' = credentials
        BY <1>3, <2>4 DEF Apply, CREATE_QUEUE, DELETE_QUEUE, ADD_ROUTING_KEY, DELETE_ROUTING_KEY,
           SUBMIT_MESSAGE, SUBMIT_BATCH_MESSAGE, GET_MESSAGES, ACK, NACK, BATCH_ACK,
           CREATE_ROLE, ASSIGN_ROLE, UNASSIGN_ROLE, A!CreateRole, A!AssignRole, A!UnassignRole,
           A!Refuses, accounts
      <3> QED
        BY <1>1, <2>1, <3>1 DEF PasswordInv, NamesUnique
    <2> QED
      BY <2>3, <2>4
  <1>4. CASE UNCHANGED vars
    <2>1. UNCHANGED <<credentials, serving, log>>
      BY <1>4 DEF vars, accounts
    <2> QED
      BY <1>1, <2>1 DEF PasswordInv, NamesUnique, RequestsOk
  <1>5. CASE \E c \in Clients : Frontend(c)
    BY <1>1, <1>2, <1>5 DEF PasswordInv, NamesUnique
  <1>6. CASE Peers
    <2>1. UNCHANGED <<credentials, serving, log>>
      BY <1>6, PeersKeep
    <2> QED
      BY <1>1, <2>1 DEF PasswordInv, NamesUnique, RequestsOk
  <1> QED
    BY <1>3, <1>4, <1>5, <1>6 DEF Next

\* A password changes by a command of its own user only, for any users, requests and
\* interleavings: handler.ChangePassword puts the session's user into the command,
\* and the other commands leave the accounts they do not name as they are.
THEOREM PasswordsOwn == Spec => OwnPassword
  <1>1. Init => PasswordInv
    BY PasswordInit
  <1>2. PasswordInv /\ [Next]_vars => PasswordInv'
    BY ServerAssumption, PasswordStep
  <1>3. PasswordInv /\ [Next]_vars =>
          [credentials' # credentials => \A u \in Usernames : \A i \in A!At(u), p \in Passwords :
             (\E j \in A!At(u)' : credentials'[j].password = p) /\ credentials[i].password # p
             => log # <<>> /\ Sender = u]_vars
    <2> SUFFICES ASSUME PasswordInv, [Next]_vars, credentials' # credentials, NEW u \in Usernames,
                        NEW i \in A!At(u), NEW p, NEW j \in A!At(u)',
                        credentials'[j].password = p, credentials[i].password # p
                 PROVE  log # <<>> /\ Sender = u
      OBVIOUS
    <2>1. log # <<>> /\ KeptOrOwn
      BY ServerAssumption, PasswordStep
    <2>2. /\ i \in DOMAIN credentials /\ credentials[i].username = u
          /\ j \in DOMAIN credentials' /\ credentials'[j].username = u
      BY DEF A!At
    <2>3. u \in Named(credentials)
      BY <2>2 DEF Named
    <2>4. ASSUME NEW m \in DOMAIN credentials, credentials'[j] = credentials[m] PROVE FALSE
      BY <2>2, <2>4 DEF PasswordInv, NamesUnique, Unique
    <2> QED
      BY <2>1, <2>2, <2>3, <2>4 DEF KeptOrOwn
  <1> QED
    BY <1>1, <1>2, <1>3, PTL DEF Spec, OwnPassword

-----------------------------------------------------------------------------
(* Queues and their messages *)

QueueOk(q) ==
    /\ q = [msgs |-> q.msgs, tail |-> q.tail, amount |-> q.amount, cap |-> q.cap,
            deadLetter |-> q.deadLetter]
    /\ IsList(q.msgs) /\ q.tail \in 0..Len(q.msgs) /\ q.amount \in Int

\* A call makes e of queue q: nodes of N may be new in it, and as long as Tail is the
\* last node of its chain, no message is gone but those whose copies L holds.
Becomes(q, e, N, L) ==
    /\ QueueOk(e) /\ e.deadLetter = q.deadLetter /\ e.cap = q.cap
    /\ Range(e.msgs) \subseteq Range(q.msgs) \cup N
    /\ q.tail = Len(q.msgs) =>
         \A j \in DOMAIN q.msgs : q.msgs[j].id \in B!IdsIn(e) \/ q.msgs[j].owner \in L

Nodes(S, x) == {[id |-> y, owner |-> x] : y \in S}

LEMMA NodesParts ==
    ASSUME NEW S, NEW x, NEW m \in Nodes(S, x)
    PROVE  m.id \in S /\ m.owner = x
  BY DEF Nodes

LEMMA QueueParts ==
    ASSUME NEW q, QueueOk(q)
    PROVE  /\ IsList(q.msgs) /\ Len(q.msgs) \in Nat /\ DOMAIN q.msgs = 1..Len(q.msgs)
           /\ q.tail \in 0..Len(q.msgs) /\ q.tail \in Nat /\ q.amount \in Int
  <1>1. PICK s : s = q.msgs
    OBVIOUS
  <1>2. IsList(s) /\ q.tail \in 0..Len(s) /\ q.amount \in Int
    BY <1>1 DEF QueueOk
  <1>3. Len(s) \in Nat /\ DOMAIN s = 1..Len(s)
    BY <1>2, ListIsFunction
  <1> QED
    BY <1>1, <1>2, <1>3

\* The messages of a queue by its nodes
LEMMA IdsByNode ==
    ASSUME NEW q
    PROVE  B!IdsIn(q) = {m.id : m \in Range(q.msgs)}
  BY DEF B!IdsIn, Range

LEMMA EmptyList == IsList(<<>>) /\ Range(<<>>) = {} /\ Len(<<>>) = 0
  <1>1. <<>> \in Seq({}) /\ DOMAIN <<>> = {} /\ Len(<<>>) = 0
    OBVIOUS
  <1> QED
    BY <1>1, SeqIsList DEF Range

LEMMA NothingInside ==
    ASSUME NEW l, IsList(l), Range(l) = {}
    PROVE  l = <<>>
  <1>1. Len(l) \in Nat /\ DOMAIN l = 1..Len(l) /\ l = [i \in 1..Len(l) |-> l[i]]
    BY ListIsFunction
  <1>2. DOMAIN l = {}
    BY DEF Range
  <1> QED
    BY <1>1, <1>2

\* A queue with another chain
Rechained(q, l, t, a) == [q EXCEPT !.msgs = l, !.tail = t, !.amount = a]

LEMMA QueueSet ==
    ASSUME NEW q, QueueOk(q), NEW l, IsList(l), NEW t \in 0..Len(l), NEW a \in Int,
           NEW e, e = Rechained(q, l, t, a)
    PROVE  /\ QueueOk(e) /\ e.msgs = l /\ e.tail = t
           /\ e.deadLetter = q.deadLetter /\ e.cap = q.cap
  <1>1. PICK m, u, b, c, d :
          q = [msgs |-> m, tail |-> u, amount |-> b, cap |-> c, deadLetter |-> d]
    BY DEF QueueOk
  <1>2. e = [msgs |-> l, tail |-> t, amount |-> a, cap |-> c, deadLetter |-> d]
    BY <1>1 DEF Rechained
  <1> QED
    BY <1>1, <1>2 DEF QueueOk

\* No new nodes, and what is missing is held by L.
LEMMA ChainBecomes ==
    ASSUME NEW q, QueueOk(q), NEW l, IsList(l), NEW t \in 0..Len(l), NEW a \in Int,
           NEW e, e = Rechained(q, l, t, a), NEW N, NEW L,
           Range(l) \subseteq Range(q.msgs) \cup N,
           q.tail = Len(q.msgs) =>
             \A j \in DOMAIN q.msgs : q.msgs[j].owner \in L \/ \E m \in Range(l) : m.id = q.msgs[j].id
    PROVE  Becomes(q, e, N, L)
  <1>1. QueueOk(e) /\ e.msgs = l /\ e.deadLetter = q.deadLetter /\ e.cap = q.cap
    BY QueueSet
  <1>2. B!IdsIn(e) = {m.id : m \in Range(l)}
    BY <1>1, IdsByNode
  <1> QED
    BY <1>1, <1>2 DEF Becomes

LEMMA StaysAsItIs ==
    ASSUME NEW q, QueueOk(q), NEW N, NEW L
    PROVE  Becomes(q, q, N, L)
  BY DEF Becomes, B!IdsIn

\* Nodes of N are added to q, and none is lost when Tail is the last.
Grows(q, e, N) ==
    /\ QueueOk(e) /\ e.deadLetter = q.deadLetter /\ e.cap = q.cap
    /\ Range(e.msgs) \subseteq Range(q.msgs) \cup N
    /\ q.tail = Len(q.msgs) => e.tail = Len(e.msgs) /\ Range(q.msgs) \subseteq Range(e.msgs)

\* What is added behind Tail
LEMMA LinkedEffect ==
    ASSUME NEW q, QueueOk(q), NEW ids, IsList(ids), NEW x, NEW a \in Int,
           NEW l, l = NodesBehind(q.msgs, q.tail, ids, x),
           NEW u, u = q.tail + Len(ids), NEW e, e = Rechained(q, l, u, a)
    PROVE  Grows(q, e, Nodes(Range(ids), x))
  <1>1. PICK s, t, n : s = q.msgs /\ t = q.tail /\ n = Len(ids)
    OBVIOUS
  <1>2. IsList(s) /\ Len(s) \in Nat /\ DOMAIN s = 1..Len(s) /\ t \in 0..Len(s) /\ t \in Nat
    BY <1>1, QueueParts
  <1>3. n \in Nat
    BY <1>1, ListIsFunction
  <1>4. l = NodesBehind(s, t, ids, x) /\ u = t + n /\ u \in Nat
    BY <1>1, <1>2, <1>3
  <1>9. QueueOk(q) /\ IsList(ids) /\ a \in Int /\ e = Rechained(q, l, u, a)
    OBVIOUS
  <1>5. /\ IsList(l) /\ Len(l) = t + Len(ids)
        /\ \A i \in 1..t : i \in DOMAIN l /\ l[i] = s[i]
        /\ Range(l) \subseteq Range(s) \cup {[id |-> y, owner |-> x] : y \in Range(ids)}
    BY ONLY <1>2, <1>4, <1>9, ListBehind
  <1>6. Len(l) = u /\ u \in 0..Len(l)
    BY <1>1, <1>4, <1>5
  <1>7. QueueOk(e) /\ e.msgs = l /\ e.tail = u /\ e.deadLetter = q.deadLetter /\ e.cap = q.cap
    <2>1. QueueOk(q) /\ IsList(l) /\ u \in 0..Len(l) /\ a \in Int /\ e = Rechained(q, l, u, a)
      BY <1>5, <1>6, <1>9
    <2> QED
      BY ONLY <2>1, QueueSet
  <1>8. t = Len(s) => Range(s) \subseteq Range(l)
    <2>1. t = Len(s) => DOMAIN s = 1..t
      BY <1>2
    <2> QED
      BY <1>5, <2>1 DEF Range
  <1> QED
    BY <1>1, <1>5, <1>6, <1>7, <1>8 DEF Nodes, Grows

LEMMA CountedEffect ==
    ASSUME NEW q, QueueOk(q), NEW a \in Int, NEW e, e = Rechained(q, q.msgs, q.tail, a)
    PROVE  QueueOk(e) /\ e.msgs = q.msgs /\ e.tail = q.tail /\ e.deadLetter = q.deadLetter /\ e.cap = q.cap
  <1>1. PICK s, t : s = q.msgs /\ t = q.tail
    OBVIOUS
  <1>2. IsList(s) /\ t \in 0..Len(s)
    BY <1>1, QueueParts
  <1>3. e = Rechained(q, s, t, a)
    BY <1>1
  <1> QED
    BY <1>1, <1>2, <1>3, QueueSet

\* Messages are added behind Tail.
LEMMA EnqueuedEffect ==
    ASSUME NEW q, QueueOk(q), NEW ids, IsList(ids), NEW e, e = B!Enqueued(q, ids)
    PROVE  Grows(q, e, Nodes(Range(ids), Nobody))
  <1>1. q.tail \in Nat /\ q.amount \in Int
    BY QueueParts
  <1>2. Len(ids) \in Nat
    BY ListIsFunction
  <1>3. PICK a : a = q.amount + Len(ids)
    OBVIOUS
  <1>4. a \in Int
    BY <1>1, <1>2, <1>3
  <1>5. CASE e = q
    BY <1>5 DEF Grows
  <1>6. CASE e = [q EXCEPT !.amount = q.amount + Len(ids)]
    <2>1. e = Rechained(q, q.msgs, q.tail, a)
      BY <1>3, <1>6 DEF QueueOk, Rechained
    <2>2. QueueOk(e) /\ e.msgs = q.msgs /\ e.tail = q.tail /\ e.deadLetter = q.deadLetter /\ e.cap = q.cap
      BY <1>4, <2>1, CountedEffect
    <2> QED
      BY <2>2 DEF Grows
  <1>7. CASE e = [q EXCEPT !.msgs = [i \in 1..(q.tail + Len(ids)) |->
                                      IF i <= q.tail THEN q.msgs[i]
                                      ELSE [id |-> ids[i - q.tail], owner |-> Nobody]],
                           !.tail = q.tail + Len(ids), !.amount = q.amount + Len(ids)]
    <2>1. PICK l, u, x : l = NodesBehind(q.msgs, q.tail, ids, x) /\ u = q.tail + Len(ids) /\ x = Nobody
      OBVIOUS
    <2>2. e = Rechained(q, l, u, a)
      BY <1>3, <1>7, <2>1 DEF NodesBehind, Rechained
    <2>3. QueueOk(q) /\ IsList(ids)
      OBVIOUS
    <2>4. Grows(q, e, Nodes(Range(ids), x))
      BY ONLY <1>4, <2>1, <2>2, <2>3, LinkedEffect
    <2> QED
      BY <2>1, <2>4
  <1> QED
    BY <1>5, <1>6, <1>7 DEF B!Enqueued, B!Linked

LEMMA EnqueuedBecomes ==
    ASSUME NEW q, QueueOk(q), NEW ids, IsList(ids), NEW e, e = B!Enqueued(q, ids),
           NEW L, NEW N, Nodes(Range(ids), Nobody) \subseteq N
    PROVE  Becomes(q, e, N, L)
  <1>1. /\ QueueOk(e) /\ e.deadLetter = q.deadLetter /\ e.cap = q.cap
        /\ Range(e.msgs) \subseteq Range(q.msgs) \cup Nodes(Range(ids), Nobody)
        /\ q.tail = Len(q.msgs) => Range(q.msgs) \subseteq Range(e.msgs)
    BY EnqueuedEffect DEF Grows
  <1>2. q.tail = Len(q.msgs) => \A j \in DOMAIN q.msgs : q.msgs[j].id \in B!IdsIn(e)
    <2>1. \A j \in DOMAIN q.msgs : q.msgs[j] \in Range(q.msgs)
      BY DEF Range
    <2> QED
      BY <1>1, <2>1, IdsByNode
  <1> QED
    BY <1>1, <1>2 DEF Becomes

\* Nodes are locked, or released.
LEMMA LockedBecomes ==
    ASSUME NEW q, QueueOk(q), NEW taken, NEW c, NEW e, e = B!Locked(q, taken, c),
           NEW L, NEW N, Nodes(B!IdsIn(q), c) \subseteq N
    PROVE  Becomes(q, e, N, L)
  <1>1. /\ IsList(q.msgs) /\ Len(q.msgs) \in Nat /\ DOMAIN q.msgs = 1..Len(q.msgs)
        /\ q.tail \in 0..Len(q.msgs) /\ q.amount \in Int
    BY QueueParts
  <1>2. PICK n, s, l : /\ n = Len(q.msgs) /\ s = q.msgs
                       /\ l = [i \in 1..n |-> IF i \in taken THEN [id |-> s[i].id, owner |-> c]
                                             ELSE s[i]]
    OBVIOUS
  <1>3. DOMAIN l = 1..n /\ l = [i \in 1..n |-> l[i]] /\ n \in Nat
    BY <1>1, <1>2
  <1>4. IsList(l) /\ Len(l) = n
    BY <1>3, FunctionIsList
  <1>5. e = Rechained(q, l, q.tail, q.amount)
    <2>1. e = [q EXCEPT !.msgs = l]
      BY <1>1, <1>2 DEF B!Locked
    <2> QED
      BY <2>1 DEF QueueOk, Rechained
  <1>6. \A i \in 1..n : l[i].id = s[i].id /\ (l[i] = s[i] \/ l[i] = [id |-> s[i].id, owner |-> c])
    BY <1>2
  <1>7. \A i \in 1..n : /\ i \in DOMAIN s /\ s[i] \in Range(s) /\ l[i] \in Range(l)
                        /\ [id |-> s[i].id, owner |-> c] \in N
    <2>1. \A i \in 1..n : i \in DOMAIN s /\ s[i].id \in B!IdsIn(q)
      BY <1>1, <1>2 DEF B!IdsIn
    <2>2. \A i \in 1..n : [id |-> s[i].id, owner |-> c] \in N
      BY <2>1 DEF Nodes
    <2> QED
      BY <1>3, <2>1, <2>2 DEF Range
  <1>8. Range(l) \subseteq Range(q.msgs) \cup N
    <2>1. \A i \in DOMAIN l : l[i] \in Range(s) \cup N
      BY <1>3, <1>6, <1>7
    <2> QED
      BY <1>2, <2>1 DEF Range
  <1>9. \A j \in DOMAIN q.msgs : \E m \in Range(l) : m.id = q.msgs[j].id
    BY <1>1, <1>2, <1>6, <1>7
  <1>10. q.tail \in 0..Len(l)
    BY <1>1, <1>2, <1>4
  <1> QED
    BY <1>1, <1>4, <1>5, <1>8, <1>9, <1>10, ChainBecomes

\* The node at i goes.
LEMMA UnlinkedBecomes ==
    ASSUME NEW q, QueueOk(q), NEW i \in DOMAIN q.msgs, NEW e, e = B!Unlinked(q, i),
           NEW N, NEW L, q.msgs[i].owner \in L
    PROVE  Becomes(q, e, N, L)
  <1>1. PICK s, n, t : s = q.msgs /\ n = Len(s) /\ t = q.tail
    OBVIOUS
  <1>2. IsList(s) /\ n \in Nat /\ DOMAIN s = 1..n /\ i \in 1..n /\ t \in 0..n /\ q.amount \in Int
    BY <1>1, QueueParts
  <1>3. PICK l : l = IF i = t THEN FirstOf(s, i - 1) ELSE DropAt(s, i)
    OBVIOUS
  <1>4. PICK u, a : u = (IF i <= t THEN t - 1 ELSE t) /\ a = q.amount - 1
    OBVIOUS
  <1>5. e = Rechained(q, l, u, a)
    BY <1>1, <1>3, <1>4 DEF B!Unlinked, B!Q!Prefix, B!Q!RemoveAtPos, FirstOf, DropAt, Rechained
  <1>6. \A K : Range(l) = {s[j] : j \in K} => \A j \in K : \E m \in Range(l) : m.id = s[j].id
    OBVIOUS
  <1>7. CASE i = t
    <2>1. l = FirstOf(s, u) /\ u \in 0..Len(s) /\ u = i - 1
      BY <1>1, <1>2, <1>3, <1>4, <1>7
    <2>2. IsList(l) /\ Len(l) = u /\ Range(l) = {s[j] : j \in 1..u}
      BY <1>2, <2>1, ListPrefix
    <2>3. Range(l) \subseteq Range(q.msgs) \cup N
      <3>1. \A j \in 1..u : j \in DOMAIN s
        BY <1>1, <1>2, <2>1
      <3> QED
        BY <1>1, <2>2, <3>1 DEF Range
    <2>4. u \in 0..Len(l) /\ a \in Int
      BY <1>2, <1>4, <2>1, <2>2
    <2>5. t = n => \A j \in DOMAIN s : j = i \/ j \in 1..u
      BY <1>2, <1>7, <2>1
    <2>6. t = n => \A j \in DOMAIN s : s[j].owner \in L \/ \E m \in Range(l) : m.id = s[j].id
      BY <1>1, <1>6, <2>2, <2>5
    <2> QED
      BY <1>1, <1>5, <2>2, <2>3, <2>4, <2>6, ChainBecomes
  <1>8. CASE i # t
    <2>1. l = DropAt(s, i) /\ i \in DOMAIN s
      BY <1>2, <1>3, <1>8
    <2>2. IsList(l) /\ Len(l) = Len(s) - 1 /\ Range(l) = {s[j] : j \in DOMAIN s \ {i}}
      BY <1>2, <2>1, ListRemoveAt
    <2>3. Range(l) \subseteq Range(q.msgs) \cup N
      BY <1>1, <2>2 DEF Range
    <2>4. u \in 0..Len(l) /\ a \in Int
      BY <1>1, <1>2, <1>4, <1>8, <2>2
    <2>5. \A j \in DOMAIN s : s[j].owner \in L \/ \E m \in Range(l) : m.id = s[j].id
      BY <1>1, <1>6, <2>2
    <2> QED
      BY <1>1, <1>5, <2>2, <2>3, <2>4, <2>5, ChainBecomes
  <1> QED
    BY <1>7, <1>8

-----------------------------------------------------------------------------
(* Batch acknowledgement *)

LEMMA SameCardinality ==
    ASSUME NEW q, NEW S
    PROVE  B!Q(q)!Cardinality(S) = Cardinality(S)
  BY DEF B!Q!Cardinality, Cardinality

LEMMA InOrderEnumerates ==
    ASSUME NEW q, NEW S, NEW f \in B!Q(q)!InOrder(S)
    PROVE  Enumerates(f, S)
  <1>1. B!Q(q)!Cardinality(S) = Cardinality(S)
    BY SameCardinality
  <1> QED
    BY <1>1 DEF B!Q!InOrder, Enumerates

\* What is kept, and where Tail is then.  Nothing is cut off behind a Tail that is last.
LEMMA KeptEffect ==
    ASSUME NEW q, QueueOk(q), NEW taken, taken \subseteq DOMAIN q.msgs,
           NEW kept, kept = B!Q(q)!KeptBy(taken)
    PROVE  /\ kept \subseteq DOMAIN q.msgs
           /\ Cardinality(kept) \in Nat
           /\ B!Q(q)!TailAmong(kept, taken) \in 0..Cardinality(kept)
           /\ q.tail = Len(q.msgs) => DOMAIN q.msgs \subseteq kept \cup taken
  <1>1. Len(q.msgs) \in Nat /\ DOMAIN q.msgs = 1..Len(q.msgs) /\ q.tail \in 0..Len(q.msgs)
    BY QueueParts
  <1>2. kept \subseteq 1..Len(q.msgs)
    <2>1. \A j \in 1..(q.tail - 1) : j \in 1..Len(q.msgs)
      BY <1>1
    <2> QED
      BY <2>1 DEF B!Q!KeptBy, B!Q!Positions
  <1>3. Cardinality(kept) \in Nat /\ Cardinality({k \in kept : k <= q.tail}) \in 0..Cardinality(kept)
    BY <1>1, <1>2, UpToCount
  <1>4. B!Q(q)!TailAmong(kept, taken) \in {Cardinality(kept), 0, Cardinality({k \in kept : k <= q.tail})}
    BY SameCardinality DEF B!Q!TailAmong
  <1>5. q.tail = Len(q.msgs) => DOMAIN q.msgs \subseteq kept \cup taken
    <2>1. kept = 1..Len(q.msgs) \ taken \/ (q.tail \in taken /\ kept = 1..(q.tail - 1) \ taken)
      BY DEF B!Q!KeptBy, B!Q!TookTail, B!Q!Positions
    <2>2. \A j \in 1..Len(q.msgs) : q.tail = Len(q.msgs) => j \in 1..(q.tail - 1) \/ j = q.tail
      BY <1>1
    <2> QED
      BY <1>1, <2>1, <2>2
  <1> QED
    BY <1>1, <1>2, <1>3, <1>4, <1>5

\* Every id of the batch was found.
LEMMA AllAckedBecomes ==
    ASSUME NEW q, QueueOk(q), NEW taken, taken \subseteq DOMAIN q.msgs,
           NEW f \in B!Q(q)!InOrder(B!Q(q)!KeptBy(taken)), NEW e, e = B!AllAcked(q, taken, f),
           NEW N, NEW L, \A k \in taken : q.msgs[k].owner \in L
    PROVE  Becomes(q, e, N, L)
  <1>1. PICK s, kept, u : /\ s = q.msgs /\ kept = B!Q(q)!KeptBy(taken)
                          /\ u = B!Q(q)!TailAmong(kept, taken)
    OBVIOUS
  <1>2. f \in B!Q(q)!InOrder(kept) /\ e = [q EXCEPT !.msgs = Selected(s, f), !.tail = u]
    BY <1>1 DEF B!AllAcked, Selected
  <1>3. PICK l : l = Selected(s, f)
    OBVIOUS
  <1>4. /\ kept \subseteq DOMAIN s /\ u \in 0..Cardinality(kept)
        /\ q.tail = Len(q.msgs) => DOMAIN s \subseteq kept \cup taken
    BY <1>1, KeptEffect
  <1>5. IsList(s) /\ q.amount \in Int
    BY <1>1, QueueParts
  <1>6. IsList(l) /\ Len(l) = Cardinality(kept) /\ Range(l) = {s[k] : k \in kept}
    BY <1>2, <1>3, <1>4, <1>5, InOrderEnumerates, ListSelect
  <1>7. Range(l) \subseteq Range(q.msgs) \cup N
    BY <1>1, <1>4, <1>6 DEF Range
  <1>8. e = Rechained(q, l, u, q.amount)
    BY <1>2, <1>3 DEF QueueOk, Rechained
  <1>9. u \in 0..Len(l)
    BY <1>4, <1>6
  <1>10. q.tail = Len(q.msgs) =>
           \A j \in DOMAIN q.msgs : q.msgs[j].owner \in L \/ \E m \in Range(l) : m.id = q.msgs[j].id
    BY <1>1, <1>4, <1>6
  <1> QED
    BY <1>5, <1>6, <1>7, <1>8, <1>9, <1>10, ChainBecomes

\* Some were not, and what was taken is linked back.
LEMMA RestoredBecomes ==
    ASSUME NEW q, QueueOk(q), NEW taken, taken \subseteq DOMAIN q.msgs, taken # {},
           ~B!Q(q)!RestorePanics(taken),
           NEW f \in B!Q(q)!InOrder(B!Q(q)!KeptBy(taken)), NEW g \in B!Q(q)!InOrder(taken),
           NEW e, e = B!Restored(q, taken, f, g), NEW N, NEW L
    PROVE  Becomes(q, e, N, L)
  <1>1. PICK s, kept, at : /\ s = q.msgs /\ kept = B!Q(q)!KeptBy(taken)
                           /\ at = B!Q(q)!TailAmong(kept, taken)
    OBVIOUS
  <1>2. /\ f \in B!Q(q)!InOrder(kept)
        /\ e = [q EXCEPT !.msgs = LinkedBack(s, f, g),
                         !.tail = IF q.tail \in taken /\ ~B!Q(q)!TookTail(taken) THEN 2
                                  ELSE IF at > 1 THEN at + Len(g) ELSE at]
    BY <1>1 DEF B!Restored, LinkedBack
  <1>3. PICK l, u : /\ l = LinkedBack(s, f, g)
                    /\ u = IF q.tail \in taken /\ ~B!Q(q)!TookTail(taken) THEN 2
                           ELSE IF at > 1 THEN at + Len(g) ELSE at
    OBVIOUS
  <1>4. /\ kept \subseteq DOMAIN s /\ taken \subseteq DOMAIN s /\ at \in 0..Cardinality(kept)
        /\ q.tail = Len(q.msgs) => DOMAIN s \subseteq kept \cup taken
    BY <1>1, KeptEffect
  <1>5. IsList(s) /\ q.amount \in Int /\ Len(s) \in Nat /\ DOMAIN s = 1..Len(s)
    BY <1>1, QueueParts
  <1>6. kept # {}
    BY <1>1 DEF B!Q!RestorePanics
  <1>7. Enumerates(f, kept) /\ Enumerates(g, taken)
    BY <1>2, InOrderEnumerates
  <1>8. /\ Cardinality(kept) \in Nat /\ Cardinality(taken) \in Nat /\ Len(g) = Cardinality(taken)
        /\ Cardinality(kept) > 0 /\ Cardinality(taken) > 0
    <2>1. /\ Cardinality(kept) \in Nat /\ DOMAIN f = 1..Cardinality(kept)
          /\ \A x \in kept : \E i \in DOMAIN f : f[i] = x
      BY <1>4, <1>5, <1>7, EnumeratesAll
    <2>2. /\ Cardinality(taken) \in Nat /\ DOMAIN g = 1..Cardinality(taken)
          /\ Len(g) = Cardinality(taken)
          /\ \A x \in taken : \E i \in DOMAIN g : g[i] = x
      BY <1>4, <1>5, <1>7, EnumeratesAll
    <2>3. DOMAIN f # {} /\ DOMAIN g # {}
      BY <1>6, <2>1, <2>2
    <2> QED
      BY <2>1, <2>2, <2>3
  <1>9. /\ IsList(l) /\ Len(l) = Cardinality(kept) + Cardinality(taken)
        /\ Range(l) = {s[k] : k \in kept \cup taken}
    BY <1>3, <1>4, <1>5, <1>6, <1>7, ListBack
  <1>10. Range(l) \subseteq Range(q.msgs) \cup N
    BY <1>1, <1>4, <1>9 DEF Range
  <1>11. u \in 0..Len(l)
    <2>1. u \in {2, at, at + Cardinality(taken)}
      BY <1>3, <1>8
    <2> QED
      BY <1>4, <1>8, <1>9, <2>1
  <1>12. e = Rechained(q, l, u, q.amount)
    BY <1>2, <1>3 DEF QueueOk, Rechained
  <1>13. q.tail = Len(q.msgs) =>
           \A j \in DOMAIN q.msgs : q.msgs[j].owner \in L \/ \E m \in Range(l) : m.id = q.msgs[j].id
    BY <1>1, <1>4, <1>9
  <1> QED
    BY <1>5, <1>9, <1>10, <1>11, <1>12, <1>13, ChainBecomes

-----------------------------------------------------------------------------
(* Queues come and go.  One that nothing refers to is empty, and none is its own *)
(* dead-letter queue.                                                            *)

HeapOk(reg, h) ==
    /\ \A n \in DOMAIN reg : reg[n] \in Objects
    /\ h = [o \in Objects |-> h[o]]
    /\ \A o \in Objects : QueueOk(h[o]) /\ h[o].deadLetter # o
    /\ \A o \in Objects : o \notin B!InUse(reg, h) => h[o].msgs = <<>>

BrokerOk ==
    /\ \A k \in DOMAIN routing : IsList(routing[k])
    /\ HeapOk(queues, heap)

LEMMA NewQueueOk ==
    ASSUME NEW size, NEW d, NEW q, q = B!NewQueue(size, d)
    PROVE  QueueOk(q) /\ q.msgs = <<>> /\ q.deadLetter = d
  <1>1. q = [msgs |-> <<>>, tail |-> 0, amount |-> 0, cap |-> size, deadLetter |-> d]
    BY DEF B!NewQueue
  <1>2. q.msgs = <<>> /\ q.tail = 0 /\ q.amount = 0 /\ q.cap = size /\ q.deadLetter = d
    BY <1>1
  <1> QED
    BY <1>1, <1>2, EmptyList DEF QueueOk

\* The nil pointers are no addresses.
LEMMA NilsApart ==
    ASSUME ServerAssumption
    PROVE  B!NilPointer \notin Objects /\ B!NilInterface \notin Objects
  BY DEF ServerAssumption, B!NilPointer, B!NilInterface

\* The queues in use depend on the pointers only.
LEMMA SameInUse ==
    ASSUME NEW reg, NEW g, NEW h, \A n \in DOMAIN reg : g[reg[n]].deadLetter = h[reg[n]].deadLetter
    PROVE  B!InUse(reg, g) = B!InUse(reg, h)
  <1> DEFINE named == {reg[n] : n \in DOMAIN reg}
  <1>1. {g[o].deadLetter : o \in named} = {h[o].deadLetter : o \in named}
    OBVIOUS
  <1> QED
    BY <1>1 DEF B!InUse

\* What collection does to a heap
LEMMA CollectedEffect ==
    ASSUME ServerAssumption, NEW reg, \A n \in DOMAIN reg : reg[n] \in Objects,
           NEW h, \A o \in Objects : QueueOk(h[o]) /\ h[o].deadLetter # o,
           NEW g, g = B!Collected(reg, h)
    PROVE  /\ HeapOk(reg, g)
           /\ \A o \in Objects : g[o] = h[o] \/ (g[o].msgs = <<>> /\ o \notin B!InUse(reg, g))
  <1>1. /\ g = [o \in Objects |-> g[o]]
        /\ \A o \in Objects : g[o] = IF o \in B!InUse(reg, h) THEN h[o] ELSE B!Garbage
    BY DEF B!Collected
  <1>2. \A n \in DOMAIN reg : reg[n] \in B!InUse(reg, h)
    BY DEF B!InUse
  <1>3. B!InUse(reg, g) = B!InUse(reg, h)
    BY <1>1, <1>2, SameInUse
  <1>4. QueueOk(B!Garbage) /\ B!Garbage.msgs = <<>> /\ B!Garbage.deadLetter = B!NilPointer
    BY NewQueueOk DEF B!Garbage
  <1>5. \A o \in Objects : QueueOk(g[o]) /\ g[o].deadLetter # o
    BY <1>1, <1>4, NilsApart
  <1>6. \A o \in Objects : o \notin B!InUse(reg, g) => g[o].msgs = <<>>
    BY <1>1, <1>3, <1>4
  <1> QED
    BY <1>1, <1>3, <1>5, <1>6 DEF HeapOk

\* Queues come and go: a queue that stays in use keeps its messages, and a new one
\* takes an address where there are none.
Renewed ==
    \A o \in Objects :
        \/ heap'[o] = heap[o]
        \/ heap'[o].msgs = <<>> /\ (o \notin B!InUse(queues', heap') \/ heap[o].msgs = <<>>)

LEMMA FreeAddress ==
    ASSUME ServerAssumption, NEW S, S \subseteq Objects, S # {}
    PROVE  B!Min(S) \in S
  <1>1. S \subseteq Nat
    BY DEF ServerAssumption
  <1>2. \E x \in S : \A y \in S : x <= y
    BY <1>1, LeastExists
  <1> QED
    BY <1>2 DEF B!Min

LEMMA CreateQueueEffect ==
    ASSUME ServerAssumption, BrokerOk, NEW n, NEW k, NEW size, NEW hasDLQ,
           B!CreateQueue(n, k, size, hasDLQ), ~B!Refuses(TRUE)
    PROVE  HeapOk(queues', heap') /\ Renewed
  <1> DEFINE free == Objects \ B!InUse(queues, heap)
  <1>1. PICK o : o = B!Min(free)
    OBVIOUS
  <1>2. PICK d : d = B!Min(free \ {o})
    OBVIOUS
  <1>3. /\ free # {} /\ free \ {o} # {}
        /\ queues' = B!Registered(n, hasDLQ, o, d)
        /\ heap' = B!Collected(queues', B!NewQueues(size, hasDLQ, o, d))
    BY <1>1, <1>2 DEF B!CreateQueue
  <1>4. o \in free /\ d \in free /\ o # d
    <2>1. free \subseteq Objects /\ free \ {o} \subseteq Objects
      OBVIOUS
    <2> HIDE DEF free
    <2>2. B!Min(free) \in free /\ B!Min(free \ {o}) \in free \ {o}
      BY <1>3, <2>1, FreeAddress
    <2> QED
      BY <1>1, <1>2, <2>2
  <1>5. /\ \A m \in DOMAIN queues : queues[m] \in Objects
        /\ heap = [x \in Objects |-> heap[x]]
        /\ \A x \in Objects : QueueOk(heap[x]) /\ heap[x].deadLetter # x
        /\ \A x \in free : x \in Objects /\ heap[x].msgs = <<>>
    BY DEF BrokerOk, HeapOk
  <1> HIDE DEF free
  <1>6. PICK reg, g : reg = queues' /\ g = B!NewQueues(size, hasDLQ, o, d)
    OBVIOUS
  <1>7. \A m \in DOMAIN reg : reg[m] \in Objects
    <2>1. reg = B!With(IF hasDLQ THEN B!With(queues, B!Dlq(n), d) ELSE queues, n, o)
      BY <1>3, <1>6 DEF B!Registered
    <2>2. CASE hasDLQ
      BY <1>4, <1>5, <2>1, <2>2 DEF B!With
    <2>3. CASE ~hasDLQ
      BY <1>4, <1>5, <2>1, <2>3 DEF B!With
    <2> QED
      BY <2>2, <2>3
  <1>8. /\ \A x \in Objects : QueueOk(g[x]) /\ g[x].deadLetter # x
        /\ \A x \in Objects : g[x] = heap[x] \/ (g[x].msgs = <<>> /\ heap[x].msgs = <<>>)
    <2>1. PICK p, q, e : /\ p = (IF hasDLQ THEN d ELSE B!NilInterface)
                         /\ q = B!NewQueue(size, p) /\ e = B!NewQueue(size, B!NilPointer)
      OBVIOUS
    <2>2. g = [heap EXCEPT ![o] = q, ![d] = e]
      BY <1>6, <2>1 DEF B!NewQueues
    <2>3. /\ QueueOk(q) /\ q.msgs = <<>> /\ q.deadLetter = p
          /\ QueueOk(e) /\ e.msgs = <<>> /\ e.deadLetter = B!NilPointer
      BY <2>1, NewQueueOk
    <2>4. p # o /\ B!NilPointer # d
      BY <1>4, <1>5, <2>1, NilsApart
    <2>5. \A x \in Objects : g[x] = heap[x] \/ (g[x] = q /\ x = o) \/ (g[x] = e /\ x = d)
      BY <1>4, <1>5, <2>2
    <2> QED
      BY <1>4, <1>5, <2>3, <2>4, <2>5
  <1>9. PICK h : h = heap'
    OBVIOUS
  <1>10. h = B!Collected(reg, g)
    BY <1>3, <1>6, <1>9
  <1>11. /\ HeapOk(reg, h)
         /\ \A x \in Objects : h[x] = g[x] \/ (h[x].msgs = <<>> /\ x \notin B!InUse(reg, h))
    BY <1>7, <1>8, <1>10, CollectedEffect
  <1>12. \A x \in Objects :
           h[x] = heap[x] \/ (h[x].msgs = <<>> /\ (x \notin B!InUse(reg, h) \/ heap[x].msgs = <<>>))
    BY <1>8, <1>11
  <1> QED
    BY <1>6, <1>9, <1>11, <1>12 DEF Renewed

LEMMA DeleteQueueEffect ==
    ASSUME ServerAssumption, BrokerOk, NEW n, queues' = B!Without(queues, n), heap' = B!Collected(queues', heap)
    PROVE  HeapOk(queues', heap') /\ Renewed
  <1>1. PICK reg, g, h : reg = queues' /\ g = heap' /\ h = heap
    OBVIOUS
  <1>2. \A m \in DOMAIN reg : reg[m] \in Objects
    BY <1>1 DEF BrokerOk, HeapOk, B!Without
  <1>3. (\A o \in Objects : QueueOk(h[o]) /\ h[o].deadLetter # o) /\ g = B!Collected(reg, h)
    BY <1>1 DEF BrokerOk, HeapOk
  <1>4. /\ HeapOk(reg, g)
        /\ \A o \in Objects : g[o] = h[o] \/ (g[o].msgs = <<>> /\ o \notin B!InUse(reg, g))
    BY <1>2, <1>3, CollectedEffect
  <1> QED
    BY <1>1, <1>4 DEF Renewed

LEMMA SameRange == \A l : B!Range(l) = Range(l)
  BY DEF B!Range, Range

LEMMA SameRemoveFirst == \A l, x : B!RemoveFirst(l, x) = RemoveFirst(l, x)
  BY DEF B!RemoveFirst, RemoveFirst, B!RemoveAt, RemoveAt, B!SelectInSeq, SelectInSeq, B!Min, Min

LEMMA SameMax == \A S : B!Max(S) = Max(S)
  BY DEF B!Max, Max

-----------------------------------------------------------------------------
(* Messages are locked, released and settled in one queue. *)

\* A call makes g of the heap: N and L have for every queue the nodes that may be new
\* in it, and the holders of the messages that may be gone (see Becomes).
HeapBecomes(g, N, L) ==
    /\ g = [o \in Objects |-> g[o]]
    /\ \A o \in Objects : /\ Becomes(heap[o], g[o], N[o], L[o])
                          /\ o \notin B!InUse(queues, heap) => g[o].msgs = heap[o].msgs

LEMMA BecomesOk ==
    ASSUME BrokerOk, UNCHANGED <<routing, queues>>, NEW N, NEW L, HeapBecomes(heap', N, L)
    PROVE  BrokerOk'
  <1>1. PICK g : g = heap'
    OBVIOUS
  <1>2. /\ g = [o \in Objects |-> g[o]]
        /\ \A o \in Objects : /\ QueueOk(g[o]) /\ g[o].deadLetter = heap[o].deadLetter
                              /\ o \notin B!InUse(queues, heap) => g[o].msgs = heap[o].msgs
    BY <1>1 DEF HeapBecomes, Becomes
  <1>3. \A n \in DOMAIN queues : queues[n] \in Objects
    BY DEF BrokerOk, HeapOk
  <1>4. B!InUse(queues, g) = B!InUse(queues, heap)
    BY <1>2, <1>3, SameInUse
  <1>5. HeapOk(queues, g)
    BY <1>2, <1>3, <1>4 DEF BrokerOk, HeapOk
  <1> QED
    BY <1>1, <1>5 DEF BrokerOk

\* One queue changes.
LEMMA OneBecomes ==
    ASSUME BrokerOk, NEW n \in DOMAIN queues, NEW o, o = queues[n], NEW e, NEW N, NEW L,
           Becomes(heap[o], e, N[o], L[o]), NEW g, g = [heap EXCEPT ![o] = e]
    PROVE  HeapBecomes(g, N, L)
  <1>1. o \in Objects /\ o \in B!InUse(queues, heap)
    BY DEF BrokerOk, HeapOk, B!InUse
  <1>2. heap = [x \in Objects |-> heap[x]] /\ \A x \in Objects : QueueOk(heap[x])
    BY DEF BrokerOk, HeapOk
  <1>3. /\ g = [x \in Objects |-> g[x]] /\ g[o] = e
        /\ \A x \in Objects \ {o} : g[x] = heap[x]
    BY <1>1, <1>2
  <1>4. \A x \in Objects : Becomes(heap[x], heap[x], N[x], L[x])
    BY <1>2, StaysAsItIs
  <1> QED
    BY <1>1, <1>3, <1>4 DEF HeapBecomes

\* A message leaves a queue for its dead-letter queue.
LEMMA ExpiredBecomes ==
    ASSUME ServerAssumption, BrokerOk, NEW n \in DOMAIN queues, NEW o, o = queues[n],
           NEW i \in DOMAIN heap[o].msgs, NEW g, g = B!Expired(o, i), NEW N, NEW L,
           heap[o].msgs[i].owner \in L[o],
           \A x \in Objects : Nodes(Stored(heap), Nobody) \subseteq N[x]
    PROVE  HeapBecomes(g, N, L)
  <1>1. o \in Objects /\ o \in B!InUse(queues, heap)
    BY DEF BrokerOk, HeapOk, B!InUse
  <1>2. /\ heap = [x \in Objects |-> heap[x]]
        /\ \A x \in Objects : QueueOk(heap[x]) /\ heap[x].deadLetter # x
    BY DEF BrokerOk, HeapOk
  <1>3. PICK d, id, ids : d = heap[o].deadLetter /\ id = heap[o].msgs[i].id /\ ids = <<id>>
    OBVIOUS
  <1>4. PICK h, q, e : /\ h = (IF d = B!NilPointer THEN heap ELSE [heap EXCEPT ![d] = B!Enqueued(@, ids)])
                       /\ q = heap[o] /\ e = B!Unlinked(q, i)
    OBVIOUS
  <1>5. g = [h EXCEPT ![o] = B!Unlinked(h[o], i)]
    BY <1>3, <1>4 DEF B!Expired
  <1>6. Becomes(q, e, N[o], L[o])
    <2>1. QueueOk(q) /\ i \in DOMAIN q.msgs /\ q.msgs[i].owner \in L[o]
      BY <1>1, <1>2, <1>4
    <2> QED
      BY <1>4, <2>1, UnlinkedBecomes
  <1>7. CASE h = heap
    <2>1. g = [heap EXCEPT ![o] = e]
      BY <1>4, <1>5, <1>7
    <2> QED
      BY <1>4, <1>6, <2>1, OneBecomes
  <1>8. CASE h # heap
    <2>1. d \in Objects /\ h = [heap EXCEPT ![d] = B!Enqueued(@, ids)]
      BY <1>2, <1>4, <1>8
    <2>2. PICK p, f : p = heap[d] /\ f = B!Enqueued(p, ids)
      OBVIOUS
    <2>3. IsList(ids) /\ Range(ids) = {id}
      <3>1. ids \in Seq({id}) /\ DOMAIN ids = {1} /\ ids[1] = id
        BY <1>3
      <3> QED
        BY <3>1, SeqIsList DEF Range
    <2>4. id \in Stored(heap)
      <3>1. id \in B!IdsIn(heap[o])
        BY <1>3 DEF B!IdsIn
      <3> QED
        BY <1>1, <3>1 DEF Stored
    <2>5. Nodes(Range(ids), Nobody) \subseteq N[d]
      BY <2>1, <2>3, <2>4 DEF Nodes
    <2>6. Becomes(p, f, N[d], L[d])
      BY <1>2, <2>1, <2>2, <2>3, <2>5, EnqueuedBecomes
    <2>7. d # o /\ d \in B!InUse(queues, heap)
      BY <1>1, <1>2, <1>3, <2>1 DEF B!InUse
    <2>8. h = [heap EXCEPT ![d] = f]
      BY <2>1, <2>2
    <2>9. h = [x \in Objects |-> h[x]] /\ h[d] = f /\ \A x \in Objects \ {d} : h[x] = heap[x]
      BY <1>2, <2>1, <2>8
    <2>10. h[o] = q
      BY <1>1, <1>4, <2>7, <2>9
    <2>11. g = [h EXCEPT ![o] = e]
      BY <1>4, <1>5, <2>10
    <2>12. g = [x \in Objects |-> g[x]] /\ g[o] = e /\ \A x \in Objects \ {o} : g[x] = h[x]
      BY <1>1, <2>9, <2>11
    <2>13. \A x \in Objects : Becomes(heap[x], heap[x], N[x], L[x])
      BY <1>2, StaysAsItIs
    <2>14. ASSUME NEW x \in Objects
           PROVE  /\ Becomes(heap[x], g[x], N[x], L[x])
                  /\ x \notin B!InUse(queues, heap) => g[x].msgs = heap[x].msgs
      <3>1. CASE x = o
        BY <1>1, <1>4, <1>6, <2>12, <3>1
      <3>2. CASE x = d
        BY <2>2, <2>6, <2>7, <2>9, <2>12, <3>2
      <3>3. CASE x # o /\ x # d
        BY <2>9, <2>12, <2>13, <3>3
      <3> QED
        BY <3>1, <3>2, <3>3
    <2> QED
      BY <2>12, <2>14 DEF HeapBecomes
  <1> QED
    BY <1>7, <1>8

\* What a command settles: messages that its consumer holds, in the queue it names.
SettlesOwn(N, L) ==
    /\ log # <<>> /\ Command.op \in {"ACK", "NACK", "BATCH_ACK"}
    /\ \E n \in DOMAIN queues :
         /\ SenderMay(n, IF Command.op = "BATCH_ACK" THEN "BatchAck" ELSE "Ack")
         /\ \A o \in Objects : L[o] = IF o = queues[n] THEN {Command.consumer} ELSE {}
    /\ \A o \in Objects : N[o] = Nodes(Stored(heap), Nobody)

\* What a command locks: messages that are stored, in the queue it names.
Fetches(N, L) ==
    /\ log # <<>> /\ Command.op = "GET_MESSAGES"
    /\ \E n \in DOMAIN queues :
         /\ SenderMay(n, "GetMessages")
         /\ \A o \in Objects :
              N[o] = IF o = queues[n] THEN Nodes(Stored(heap), Command.consumer) ELSE {}
    /\ \A o \in Objects : L[o] = {}

\* The messages of the command whose key feeds queue o
SentTo(o) == UNION {Range(b.ids) : b \in {x \in Range(Command.batches) : FedBy(x.key, o)}}

Delivers(N, L) ==
    /\ log # <<>> /\ Submits(Command)
    /\ \A b \in Range(Command.batches) :
         SenderMay(b.key, IF Command.op = "SUBMIT_MESSAGE" THEN "SubmitMessage"
                          ELSE "SubmitBatchedMessages")
    /\ \A o \in Objects : N[o] = Nodes(SentTo(o), Nobody) /\ L[o] = {}

HeapEffect ==
    \/ heap' = heap
    \/ Renewed
    \/ \E N, L : HeapBecomes(heap', N, L) /\ (SettlesOwn(N, L) \/ Fetches(N, L) \/ Delivers(N, L))

\* The permission for a message command is checked for its queue.
LEMMA QueuePermitted ==
    ASSUME log # <<>>, Permitted(Command), NEW op, Command.op = op,
           op \in {"GET_MESSAGES", "ACK", "NACK", "BATCH_ACK"}
    PROVE  SenderMay(Command.queue, ActionNeeded[op])
  <1>1. op \notin DOMAIN AdminNeeded /\ ~Submits(Command)
    BY DEF AdminNeeded, Submits
  <1> QED
    BY <1>1 DEF Permitted, SenderMay, Sender, Command

\* A session settles a message it holds.
LEMMA AckBecomes ==
    ASSUME BrokerOk, NEW n \in DOMAIN queues, NEW o, o = queues[n], NEW id, NEW c,
           B!AcksOne(o, id, c), ~UNCHANGED <<routing, queues, heap>>, NEW N, NEW L, c \in L[o]
    PROVE  HeapBecomes(heap', N, L) /\ UNCHANGED <<routing, queues>>
  <1>1. PICK g, q : g = heap' /\ q = heap[o]
    OBVIOUS
  <1>2. PICK i \in B!Q(q)!HeldBy(c, id) : g = [heap EXCEPT ![o] = B!Unlinked(q, i)]
    BY <1>1 DEF B!AcksOne, B!Refuses
  <1>3. UNCHANGED <<routing, queues>>
    BY DEF B!AcksOne, B!Refuses
  <1>4. QueueOk(q)
    BY <1>1 DEF BrokerOk, HeapOk
  <1>5. DOMAIN q.msgs = 1..Len(q.msgs)
    BY <1>4, QueueParts
  <1>6. i \in DOMAIN q.msgs /\ q.msgs[i].owner = c
    BY <1>2, <1>5 DEF B!Q!HeldBy, B!Q!Positions
  <1>7. PICK e : e = B!Unlinked(q, i)
    OBVIOUS
  <1>8. Becomes(q, e, N[o], L[o])
    BY <1>4, <1>6, <1>7, UnlinkedBecomes
  <1>9. g = [heap EXCEPT ![o] = e]
    BY <1>2, <1>7
  <1>10. HeapBecomes(g, N, L)
    BY <1>1, <1>8, <1>9, OneBecomes
  <1> QED
    BY <1>1, <1>3, <1>10

\* A message it holds is free again, or expires.
LEMMA NackBecomes ==
    ASSUME ServerAssumption, BrokerOk, NEW n, NEW id, NEW c,
           B!Nack(n, id, c), ~UNCHANGED <<routing, queues, heap>>, NEW N, NEW L,
           c \in L[queues[n]], \A x \in Objects : Nodes(Stored(heap), Nobody) \subseteq N[x]
    PROVE  HeapBecomes(heap', N, L) /\ UNCHANGED <<routing, queues>> /\ n \in DOMAIN queues
  <1>1. PICK g, o, q : g = heap' /\ o = queues[n] /\ q = heap[o]
    OBVIOUS
  <1>2. n \in DOMAIN queues /\ UNCHANGED <<routing, queues>>
    BY DEF B!Nack, B!Refuses, B!Panics, B!Exists
  <1>3. PICK i \in DOMAIN q.msgs : /\ q.msgs[i].owner = c
                                   /\ g = B!Released(o, i) \/ g = B!Expired(o, i)
    BY <1>1 DEF B!Nack, B!Refuses, B!Panics
  <1>4. QueueOk(q) /\ o \in Objects
    BY <1>1, <1>2 DEF BrokerOk, HeapOk
  <1>5. CASE g = B!Released(o, i)
    <2>1. PICK taken, x, e : taken = {i} /\ x = Nobody /\ e = B!Locked(q, taken, x)
      OBVIOUS
    <2>2. Nodes(B!IdsIn(q), x) \subseteq N[o]
      <3>1. B!IdsIn(q) \subseteq Stored(heap)
        BY <1>1, <1>4 DEF Stored
      <3>2. Nodes(Stored(heap), x) \subseteq N[o]
        BY <1>4, <2>1
      <3> QED
        BY <3>1, <3>2 DEF Nodes
    <2>3. Becomes(q, e, N[o], L[o])
      BY <1>4, <2>1, <2>2, LockedBecomes
    <2>4. g = [heap EXCEPT ![o] = e]
      BY <1>1, <1>5, <2>1 DEF B!Released
    <2> QED
      BY <1>1, <1>2, <2>3, <2>4, OneBecomes
  <1>6. CASE g = B!Expired(o, i)
    <2>1. HeapBecomes(g, N, L)
      BY <1>1, <1>2, <1>3, <1>6, ExpiredBecomes
    <2> QED
      BY <1>1, <1>2, <2>1
  <1> QED
    BY <1>3, <1>5, <1>6

\* A batch takes what its consumer holds.
LEMMA TakenHeld ==
    ASSUME NEW q, QueueOk(q), NEW c, NEW ids, NEW k \in B!Q(q)!TakenBy(c, ids)
    PROVE  k \in DOMAIN q.msgs /\ q.msgs[k].owner = c
  <1>1. DOMAIN q.msgs = 1..Len(q.msgs)
    BY QueueParts
  <1> DEFINE mine == {j \in 1..Len(q.msgs) : q.msgs[j].owner = c /\ \E i \in DOMAIN ids : ids[i] = q.msgs[j].id}
  <1>2. k \in mine
    BY DEF B!Q!TakenBy, B!Q!Smallest, B!Q!Positions
  <1> QED
    BY <1>1, <1>2

LEMMA BatchAckBecomes ==
    ASSUME BrokerOk, NEW n, NEW ids, NEW c,
           B!BatchAck(n, ids, c), ~UNCHANGED <<routing, queues, heap>>, NEW N, NEW L,
           c \in L[queues[n]]
    PROVE  HeapBecomes(heap', N, L) /\ UNCHANGED <<routing, queues>> /\ n \in DOMAIN queues
  <1>1. PICK g, o, q : g = heap' /\ o = queues[n] /\ q = heap[o]
    OBVIOUS
  <1>2. n \in DOMAIN queues
    BY DEF B!BatchAck, B!Refuses, B!Exists
  <1>3. QueueOk(q) /\ o \in Objects
    BY <1>1, <1>2 DEF BrokerOk, HeapOk
  <1>4. CASE B!AcksOne(o, ids[1], c)
    BY <1>1, <1>2, <1>4, AckBecomes
  <1>5. CASE ~B!AcksOne(o, ids[1], c)
    <2>1. PICK taken : taken = B!Q(q)!TakenBy(c, ids)
      OBVIOUS
    <2>2. taken \subseteq DOMAIN q.msgs /\ \A k \in taken : q.msgs[k].owner \in L[o]
      BY <1>1, <1>3, <2>1, TakenHeld
    <2>3. UNCHANGED <<routing, queues>> /\ taken # {}
      BY <1>1, <1>5, <2>1 DEF B!BatchAck, B!Refuses, B!Panics
    <2>4. PICK f \in B!Q(q)!InOrder(B!Q(q)!KeptBy(taken)) :
            \/ g = [heap EXCEPT ![o] = B!AllAcked(q, taken, f)]
            \/ /\ ~B!Q(q)!RestorePanics(taken)
               /\ \E h \in B!Q(q)!InOrder(taken) : g = [heap EXCEPT ![o] = B!Restored(q, taken, f, h)]
      <3> DEFINE p == heap[queues[n]]
                 T == B!Q(p)!TakenBy(c, ids)
                 F == B!Q(p)!InOrder(B!Q(p)!KeptBy(T))
                 G == B!Q(p)!InOrder(T)
                 AllOf(f) == [heap EXCEPT ![queues[n]] = B!AllAcked(p, T, f)]
                 SomeOf(f, h) == [heap EXCEPT ![queues[n]] = B!Restored(p, T, f, h)]
                 Undo == B!Q(p)!RestorePanics(T)
      <3>1. \/ \E f \in F : heap' = AllOf(f)
            \/ ~Undo /\ \E f \in F, h \in G : heap' = SomeOf(f, h)
        BY <1>1, <1>5 DEF B!BatchAck, B!Refuses, B!Panics
      <3>2. PICK f \in F : heap' = AllOf(f) \/ (~Undo /\ \E h \in G : heap' = SomeOf(f, h))
        <4> HIDE DEF F, G, AllOf, SomeOf, Undo
        <4> QED
          BY <3>1
      <3>3. p = q /\ T = taken
        BY <1>1, <2>1
      <3>4. AllOf(f) = [heap EXCEPT ![o] = B!AllAcked(q, taken, f)]
        BY <1>1, <3>3
      <3>5. \A h : SomeOf(f, h) = [heap EXCEPT ![o] = B!Restored(q, taken, f, h)]
        BY <1>1, <3>3
      <3>6. /\ F = B!Q(q)!InOrder(B!Q(q)!KeptBy(taken)) /\ G = B!Q(q)!InOrder(taken)
            /\ Undo <=> B!Q(q)!RestorePanics(taken)
        BY <3>3
      <3> HIDE DEF F, G, AllOf, SomeOf, Undo
      <3> QED
        BY <1>1, <3>2, <3>4, <3>5, <3>6
    <2>5. PICK e : Becomes(q, e, N[o], L[o]) /\ g = [heap EXCEPT ![o] = e]
      <3>1. CASE g = [heap EXCEPT ![o] = B!AllAcked(q, taken, f)]
        <4>1. PICK e : e = B!AllAcked(q, taken, f)
          OBVIOUS
        <4>2. Becomes(q, e, N[o], L[o])
          BY <1>3, <2>2, <4>1, AllAckedBecomes
        <4> QED
          BY <3>1, <4>1, <4>2
      <3>2. ASSUME ~B!Q(q)!RestorePanics(taken), NEW h \in B!Q(q)!InOrder(taken),
                   g = [heap EXCEPT ![o] = B!Restored(q, taken, f, h)]
            PROVE  \E e : Becomes(q, e, N[o], L[o]) /\ g = [heap EXCEPT ![o] = e]
        <4>1. PICK e : e = B!Restored(q, taken, f, h)
          OBVIOUS
        <4>2. Becomes(q, e, N[o], L[o])
          BY <1>3, <2>2, <2>3, <3>2, <4>1, RestoredBecomes
        <4> QED
          BY <3>2, <4>1, <4>2
      <3> QED
        BY <2>4, <3>1, <3>2
    <2>6. HeapBecomes(g, N, L)
      BY <1>1, <1>2, <2>5, OneBecomes
    <2> QED
      BY <1>1, <1>2, <2>3, <2>6
  <1> QED
    BY <1>4, <1>5

LEMMA DequeueBecomes ==
    ASSUME BrokerOk, NEW n, NEW want, NEW c,
           B!Dequeue(n, want, c), ~UNCHANGED <<routing, queues, heap>>, NEW N, NEW L,
           Nodes(Stored(heap), c) \subseteq N[queues[n]]
    PROVE  HeapBecomes(heap', N, L) /\ UNCHANGED <<routing, queues>> /\ n \in DOMAIN queues
  <1>1. PICK g, o, q : g = heap' /\ o = queues[n] /\ q = heap[o]
    OBVIOUS
  <1>2. n \in DOMAIN queues /\ UNCHANGED <<routing, queues>>
    BY DEF B!Dequeue, B!Refuses, B!Exists
  <1>3. PICK taken : g = [heap EXCEPT ![o] = B!Locked(q, taken, c)]
    BY <1>1 DEF B!Dequeue, B!Refuses
  <1>4. QueueOk(q) /\ o \in Objects
    BY <1>1, <1>2 DEF BrokerOk, HeapOk
  <1>5. PICK e : e = B!Locked(q, taken, c)
    OBVIOUS
  <1>6. Nodes(B!IdsIn(q), c) \subseteq N[o]
    <2>1. B!IdsIn(q) \subseteq Stored(heap)
      BY <1>1, <1>4 DEF Stored
    <2> QED
      BY <1>1, <2>1 DEF Nodes
  <1>7. Becomes(q, e, N[o], L[o])
    BY <1>4, <1>5, <1>6, LockedBecomes
  <1>8. g = [heap EXCEPT ![o] = e]
    BY <1>3, <1>5
  <1>9. HeapBecomes(g, N, L)
    BY <1>1, <1>2, <1>7, <1>8, OneBecomes
  <1> QED
    BY <1>1, <1>2, <1>9

-----------------------------------------------------------------------------
(* What a command does to routes, queues and messages, and with which permission *)

BrokerEffect == BrokerOk' /\ HeapEffect /\ RoutesPermitted

LEMMA NoEffect ==
    ASSUME BrokerOk, UNCHANGED <<routing, queues, heap>>
    PROVE  BrokerEffect
  BY DEF BrokerOk, BrokerEffect, HeapEffect, RoutesPermitted

LEMMA MessageEffect ==
    ASSUME BrokerOk, UNCHANGED <<routing, queues>>, NEW N, NEW L, HeapBecomes(heap', N, L),
           SettlesOwn(N, L) \/ Fetches(N, L) \/ Delivers(N, L)
    PROVE  BrokerEffect
  <1>1. BrokerOk'
    BY BecomesOk
  <1>2. HeapEffect
    BY DEF HeapEffect
  <1> QED
    BY <1>1, <1>2 DEF BrokerEffect, RoutesPermitted

LEMMA FetchEffect ==
    ASSUME BrokerOk, GET_MESSAGES
    PROVE  BrokerEffect
  <1>1. CASE UNCHANGED <<routing, queues, heap>>
    BY <1>1, NoEffect
  <1>2. CASE ~UNCHANGED <<routing, queues, heap>>
    <2>1. PICK n, c, want : n = Command.queue /\ c = Command.consumer /\ want = Command.amount
      OBVIOUS
    <2>2. log # <<>> /\ Command.op = "GET_MESSAGES" /\ Permitted(Command) /\ B!Dequeue(n, want, c)
      BY <1>2, <2>1 DEF GET_MESSAGES, Applies, Takes, Denied, B!Refuses
    <2>3. SenderMay(n, "GetMessages")
      BY <2>1, <2>2, QueuePermitted DEF ActionNeeded
    <2>4. PICK N, L : /\ N = [o \in Objects |-> IF o = queues[n] THEN Nodes(Stored(heap), c) ELSE {}]
                      /\ L = [o \in Objects |-> {}]
      OBVIOUS
    <2>5. \A o \in Objects : /\ N[o] = IF o = queues[n] THEN Nodes(Stored(heap), c) ELSE {}
                             /\ L[o] = {}
      BY <2>4
    <2>6. n \in DOMAIN queues
      BY <1>2, <2>2 DEF B!Dequeue, B!Refuses, B!Exists
    <2>7. Nodes(Stored(heap), c) \subseteq N[queues[n]]
      BY <2>5, <2>6 DEF BrokerOk, HeapOk
    <2>8. HeapBecomes(heap', N, L) /\ UNCHANGED <<routing, queues>>
      BY <1>2, <2>2, <2>7, DequeueBecomes
    <2>9. Fetches(N, L)
      BY <2>1, <2>2, <2>3, <2>5, <2>6 DEF Fetches
    <2> QED
      BY <2>8, <2>9, MessageEffect
  <1> QED
    BY <1>1, <1>2

LEMMA SettleEffect ==
    ASSUME ServerAssumption, BrokerOk, ACK \/ NACK \/ BATCH_ACK
    PROVE  BrokerEffect
  <1>1. CASE UNCHANGED <<routing, queues, heap>>
    BY <1>1, NoEffect
  <1>2. CASE ~UNCHANGED <<routing, queues, heap>>
    <2>1. PICK n, c, ids : n = Command.queue /\ c = Command.consumer /\ ids = Command.ids
      OBVIOUS
    <2>2. /\ log # <<>> /\ Permitted(Command)
          /\ \/ Command.op = "ACK" /\ B!Ack(n, ids[1], c)
             \/ Command.op = "NACK" /\ B!Nack(n, ids[1], c)
             \/ Command.op = "BATCH_ACK" /\ B!BatchAck(n, ids, c)
      BY <1>2, <2>1 DEF ACK, NACK, BATCH_ACK, Applies, Takes, Denied, B!Refuses
    <2>3. SenderMay(n, IF Command.op = "BATCH_ACK" THEN "BatchAck" ELSE "Ack")
      <3>1. PICK op : op = Command.op
        OBVIOUS
      <3>2. op \in {"ACK", "NACK", "BATCH_ACK"}
        BY <2>2, <3>1
      <3>3. SenderMay(n, ActionNeeded[op])
        BY <2>1, <2>2, <3>1, <3>2, QueuePermitted
      <3>4. ActionNeeded[op] = IF op = "BATCH_ACK" THEN "BatchAck" ELSE "Ack"
        BY <3>2 DEF ActionNeeded
      <3> QED
        BY <3>1, <3>3, <3>4
    <2>4. PICK N, L : /\ N = [o \in Objects |-> Nodes(Stored(heap), Nobody)]
                      /\ L = [o \in Objects |-> IF o = queues[n] THEN {c} ELSE {}]
      OBVIOUS
    <2>5. \A o \in Objects : /\ N[o] = Nodes(Stored(heap), Nobody)
                             /\ L[o] = IF o = queues[n] THEN {c} ELSE {}
      BY <2>4
    <2>6. n \in DOMAIN queues
      BY <1>2, <2>2 DEF B!Ack, B!Nack, B!BatchAck, B!Refuses, B!Exists
    <2>7. c \in L[queues[n]]
      BY <2>5, <2>6 DEF BrokerOk, HeapOk
    <2>8. HeapBecomes(heap', N, L) /\ UNCHANGED <<routing, queues>>
      <3>1. CASE B!Ack(n, ids[1], c)
        <4>1. PICK o, id : o = queues[n] /\ id = ids[1]
          OBVIOUS
        <4>2. B!AcksOne(o, id, c)
          BY <2>6, <3>1, <4>1 DEF B!Ack, B!Exists
        <4> QED
          BY <1>2, <2>6, <2>7, <4>1, <4>2, AckBecomes
      <3>2. CASE B!Nack(n, ids[1], c)
        <4>1. PICK id : id = ids[1]
          OBVIOUS
        <4>2. B!Nack(n, id, c)
          BY <3>2, <4>1
        <4>3. \A x \in Objects : Nodes(Stored(heap), Nobody) \subseteq N[x]
          BY <2>5
        <4> QED
          BY <1>2, <2>7, <4>2, <4>3, NackBecomes
      <3>3. CASE B!BatchAck(n, ids, c)
        BY <1>2, <2>7, <3>3, BatchAckBecomes
      <3> QED
        BY <2>2, <3>1, <3>2, <3>3
    <2>9. SettlesOwn(N, L)
      BY <2>1, <2>2, <2>3, <2>5, <2>6 DEF SettlesOwn
    <2> QED
      BY <2>8, <2>9, MessageEffect
  <1> QED
    BY <1>1, <1>2

-----------------------------------------------------------------------------
(* Messages are delivered to the queues of their keys. *)

\* The queues that have nodes of the heap or of N, and the other parts of queues of the heap
QueuesWith(N) ==
    [msgs : Seq(UNION {Range(heap[o].msgs) \cup N[o] : o \in Objects}), tail : Nat, amount : Int,
     cap : {heap[o].cap : o \in Objects}, deadLetter : {heap[o].deadLetter : o \in Objects}]

\* The heaps with further nodes of N in queues that are in use
Grown(N) ==
    {g \in [Objects -> QueuesWith(N)] : \A o \in Objects :
       /\ Grows(heap[o], g[o], N[o])
       /\ o \notin B!InUse(queues, heap) => g[o].msgs = heap[o].msgs}

LEMMA GrowsWithin ==
    ASSUME NEW N, NEW o \in Objects, NEW e, Grows(heap[o], e, N[o])
    PROVE  e \in QueuesWith(N)
  <1>1. PICK M, C, D : /\ M = UNION {Range(heap[x].msgs) \cup N[x] : x \in Objects}
                       /\ C = {heap[x].cap : x \in Objects} /\ D = {heap[x].deadLetter : x \in Objects}
    OBVIOUS
  <1>2. Range(heap[o].msgs) \cup N[o] \subseteq M /\ heap[o].cap \in C /\ heap[o].deadLetter \in D
    BY <1>1
  <1>3. PICK l : l = e.msgs
    OBVIOUS
  <1>4. /\ QueueOk(e) /\ e.cap \in C /\ e.deadLetter \in D /\ Range(l) \subseteq M
        /\ e = [msgs |-> l, tail |-> e.tail, amount |-> e.amount, cap |-> e.cap, deadLetter |-> e.deadLetter]
    BY <1>2, <1>3 DEF Grows, QueueOk
  <1>5. IsList(l) /\ e.tail \in Nat /\ e.amount \in Int
    BY <1>3, <1>4, QueueParts
  <1>6. l \in Seq(M)
    BY <1>4, <1>5, ListOver
  <1>7. e \in [msgs : Seq(M), tail : Nat, amount : Int, cap : C, deadLetter : D]
    BY <1>4, <1>5, <1>6
  <1> QED
    BY <1>1, <1>7 DEF QueuesWith

LEMMA StartsGrown ==
    ASSUME BrokerOk, NEW N
    PROVE  heap \in Grown(N)
  <1>1. \A o \in Objects : Grows(heap[o], heap[o], N[o])
    BY DEF BrokerOk, HeapOk, Grows
  <1>2. \A o \in Objects : heap[o] \in QueuesWith(N)
    BY <1>1, GrowsWithin
  <1>3. heap = [o \in Objects |-> heap[o]]
    BY DEF BrokerOk, HeapOk
  <1> QED
    BY <1>1, <1>2, <1>3 DEF Grown

LEMMA GrowsFurther ==
    ASSUME NEW q, NEW e, NEW f, NEW N, NEW M, Grows(q, e, N), Grows(e, f, M), M \subseteq N
    PROVE  Grows(q, f, N)
  BY DEF Grows

LEMMA GrownSet ==
    ASSUME NEW N, NEW g \in Grown(N), NEW o \in Objects, o \in B!InUse(queues, heap),
           NEW ids, IsList(ids), Nodes(Range(ids), Nobody) \subseteq N[o],
           NEW e, e = B!Enqueued(g[o], ids)
    PROVE  [g EXCEPT ![o] = e] \in Grown(N)
  <1>1. PICK q, M : q = g[o] /\ M = Nodes(Range(ids), Nobody)
    OBVIOUS
  <1>2. Grows(heap[o], q, N[o]) /\ QueueOk(q)
    BY <1>1 DEF Grown, Grows
  <1>3. Grows(q, e, M)
    BY <1>1, <1>2, EnqueuedEffect
  <1>4. Grows(heap[o], e, N[o])
    BY <1>1, <1>2, <1>3, GrowsFurther
  <1>5. e \in QueuesWith(N)
    BY <1>4, GrowsWithin
  <1>6. g \in [Objects -> QueuesWith(N)]
    BY DEF Grown
  <1>7. PICK h : h = [g EXCEPT ![o] = e]
    OBVIOUS
  <1>8. h \in [Objects -> QueuesWith(N)] /\ h[o] = e /\ \A x \in Objects \ {o} : h[x] = g[x]
    BY <1>5, <1>6, <1>7
  <1>9. \A x \in Objects : /\ Grows(heap[x], h[x], N[x])
                           /\ x \notin B!InUse(queues, heap) => h[x].msgs = heap[x].msgs
    BY <1>4, <1>8 DEF Grown
  <1>10. h \in Grown(N)
    BY <1>8, <1>9 DEF Grown
  <1> QED
    BY <1>7, <1>10

LEMMA GrownBecomes ==
    ASSUME NEW N, NEW L, NEW g \in Grown(N)
    PROVE  HeapBecomes(g, N, L)
  <1>1. g = [o \in Objects |-> g[o]]
    BY DEF Grown
  <1>2. ASSUME NEW o \in Objects
        PROVE  Becomes(heap[o], g[o], N[o], L[o])
    <2>1. PICK q, e : q = heap[o] /\ e = g[o]
      OBVIOUS
    <2>2. Grows(q, e, N[o])
      BY <2>1 DEF Grown
    <2>3. q.tail = Len(q.msgs) => \A j \in DOMAIN q.msgs : q.msgs[j].id \in B!IdsIn(e)
      <3>1. \A j \in DOMAIN q.msgs : q.msgs[j] \in Range(q.msgs)
        BY DEF Range
      <3> QED
        BY <2>2, <3>1, IdsByNode DEF Grows
    <2>4. Becomes(q, e, N[o], L[o])
      BY <2>2, <2>3 DEF Becomes, Grows
    <2> QED
      BY <2>1, <2>4
  <1> QED
    BY <1>1, <1>2 DEF HeapBecomes, Grown

\* One entry of the route after another
LEMMA DeliveredGrows ==
    ASSUME BrokerOk, NEW N, NEW k \in DOMAIN routing, NEW ids, IsList(ids),
           \A o \in Objects : FedBy(k, o) => Nodes(Range(ids), Nobody) \subseteq N[o],
           NEW h \in Grown(N)
    PROVE  B!Delivered(h, k, ids) \in Grown(N)
  <1> DEFINE l == routing[k]
             n == Len(l)
             H == Grown(N)
             Put(g, m) == IF B!Exists(m) THEN [g EXCEPT ![queues[m]] = B!Enqueued(@, ids)] ELSE g
             Rec(it) == it = [s \in SUBSET (1..n) |->
                              IF s = {} THEN h ELSE Put(it[s \ {Max(s)}], l[Max(s)])]
             it0 == CHOOSE it : Rec(it)
             step == [i \in 1..n |-> [g \in H |-> Put(g, l[i])]]
  <1>1. n \in Nat /\ DOMAIN l = 1..n
    BY ListIsFunction DEF BrokerOk
  <1>2. B!Delivered(h, k, ids) = it0[1..n]
    <2> HIDE DEF n
    <2> QED
      BY <1>1, SameMax DEF B!Delivered, B!FoldLeft, B!MapThenFoldSet
  <1>3. \A i \in 1..n : l[i] \in Range(l)
    BY <1>1 DEF Range
  <1>4. ASSUME NEW g \in H, NEW i \in 1..n PROVE Put(g, l[i]) \in H
    <2>1. PICK m : m = l[i]
      OBVIOUS
    <2>2. CASE B!Exists(m)
      <3>1. PICK o : o = queues[m]
        OBVIOUS
      <3>2. PICK e : e = B!Enqueued(g[o], ids)
        OBVIOUS
      <3>3. o \in Objects /\ m \in DOMAIN queues
        BY <2>2, <3>1 DEF BrokerOk, HeapOk, B!Exists
      <3>4. FedBy(k, o) /\ o \in B!InUse(queues, heap)
        BY <1>3, <2>1, <3>1, <3>3 DEF FedBy, B!InUse
      <3>5. [g EXCEPT ![o] = e] \in H
        <4>1. Nodes(Range(ids), Nobody) \subseteq N[o]
          BY <3>3, <3>4
        <4> QED
          BY <3>2, <3>3, <3>4, <4>1, GrownSet
      <3>6. Put(g, m) = [g EXCEPT ![o] = e]
        BY <2>2, <3>1, <3>2
      <3> QED
        BY <2>1, <3>5, <3>6
    <2>3. CASE ~B!Exists(m)
      BY <2>1, <2>3
    <2> QED
      BY <2>2, <2>3
  <1> HIDE DEF n, l, Put, H
  <1>5. step \in [1..n -> [H -> H]] /\ \A i \in 1..n, g \in H : step[i][g] = Put(g, l[i])
    BY <1>4
  <1> HIDE DEF step
  <1>6. h \in H
    BY DEF H
  <1>7. PICK it \in [SUBSET (1..n) -> H] : IsFold(it, n, h, step)
    BY <1>1, <1>5, <1>6, FoldExists
  <1>8. \A s \in SUBSET (1..n) : s # {} => Max(s) \in 1..n
    BY <1>1, MaxOf
  <1>9. Rec(it)
    <2>1. ASSUME NEW s \in SUBSET (1..n), s # {}
          PROVE  step[Max(s)][it[s \ {Max(s)}]] = Put(it[s \ {Max(s)}], l[Max(s)])
      <3>1. Max(s) \in 1..n /\ it[s \ {Max(s)}] \in H
        BY <1>8, <2>1
      <3> QED
        BY <1>5, <3>1
    <2> QED
      BY <1>7, <2>1 DEF IsFold
  <1>10. Rec(it0)
    <2> HIDE DEF Rec
    <2> QED
      BY <1>9
  <1> HIDE DEF it0
  <1>11. it0[{}] \in H
    <2>1. {} \in SUBSET (1..n)
      OBVIOUS
    <2> QED
      BY <1>6, <1>10, <2>1
  <1>12. ASSUME NEW s \in SUBSET (1..n), s # {}, it0[s \ {Max(s)}] \in H
         PROVE  it0[s] \in H
    <2>1. it0[s] = Put(it0[s \ {Max(s)}], l[Max(s)])
      BY <1>10, <1>12
    <2>2. Max(s) \in 1..n
      BY <1>8, <1>12
    <2> QED
      BY <1>4, <1>12, <2>1, <2>2
  <1> HIDE DEF Rec
  <1>13. it0[1..n] \in H
    BY <1>1, <1>11, <1>12, FoldStays
  <1> QED
    BY <1>2, <1>13 DEF H

\* One key of a batch after another
LEMMA BatchGrows ==
    ASSUME BrokerOk, NEW bs, IsList(bs), \A i \in DOMAIN bs : IsList(bs[i].ids),
           NEW N, \A i \in DOMAIN bs, o \in Objects :
                    FedBy(bs[i].key, o) => Nodes(Range(bs[i].ids), Nobody) \subseteq N[o]
    PROVE  FoldLeft(LAMBDA h, b : IF Routed(b) THEN B!Delivered(h, b.key, b.ids) ELSE h, heap, bs)
             \in Grown(N)
  <1> DEFINE n == Len(bs)
             H == Grown(N)
             Put(g, b) == IF Routed(b) THEN B!Delivered(g, b.key, b.ids) ELSE g
             Rec(it) == it = [s \in SUBSET (1..n) |->
                              IF s = {} THEN heap ELSE Put(it[s \ {Max(s)}], bs[Max(s)])]
             it0 == CHOOSE it : Rec(it)
             step == [i \in 1..n |-> [g \in H |-> Put(g, bs[i])]]
  <1>1. n \in Nat /\ DOMAIN bs = 1..n
    BY ListIsFunction
  <1>2. FoldLeft(LAMBDA h, b : IF Routed(b) THEN B!Delivered(h, b.key, b.ids) ELSE h, heap, bs)
          = it0[1..n]
    <2> HIDE DEF n
    <2> QED
      BY <1>1 DEF FoldLeft, MapThenFoldSet
  <1>3. ASSUME NEW g \in H, NEW i \in 1..n PROVE Put(g, bs[i]) \in H
    <2>1. PICK b : b = bs[i]
      OBVIOUS
    <2>2. CASE Routed(b)
      <3>1. PICK ids, k : ids = b.ids /\ k = b.key
        OBVIOUS
      <3>3. IsList(ids) /\ \A o \in Objects : FedBy(k, o) => Nodes(Range(ids), Nobody) \subseteq N[o]
        BY <1>1, <2>1, <3>1
      <3>4. k \in DOMAIN routing
        BY <2>2, <3>1 DEF Routed
      <3>5. B!Delivered(g, k, ids) \in H
        BY <3>3, <3>4, DeliveredGrows
      <3> QED
        BY <2>1, <2>2, <3>1, <3>5
    <2>3. CASE ~Routed(b)
      BY <2>1, <2>3
    <2> QED
      BY <2>2, <2>3
  <1>4. heap \in H
    BY StartsGrown
  <1> HIDE DEF n, Put, H
  <1>5. step \in [1..n -> [H -> H]] /\ \A i \in 1..n, g \in H : step[i][g] = Put(g, bs[i])
    BY <1>3
  <1> HIDE DEF step
  <1>6. PICK it \in [SUBSET (1..n) -> H] : IsFold(it, n, heap, step)
    BY <1>1, <1>5, <1>4, FoldExists
  <1>7. \A s \in SUBSET (1..n) : s # {} => Max(s) \in 1..n
    BY <1>1, MaxOf
  <1>8. Rec(it)
    <2>1. ASSUME NEW s \in SUBSET (1..n), s # {}
          PROVE  step[Max(s)][it[s \ {Max(s)}]] = Put(it[s \ {Max(s)}], bs[Max(s)])
      <3>1. Max(s) \in 1..n /\ it[s \ {Max(s)}] \in H
        BY <1>7, <2>1
      <3> QED
        BY <1>5, <3>1
    <2> QED
      BY <1>6, <2>1 DEF IsFold
  <1>9. Rec(it0)
    <2> HIDE DEF Rec
    <2> QED
      BY <1>8
  <1> HIDE DEF it0
  <1>10. it0[{}] \in H
    <2>1. {} \in SUBSET (1..n)
      OBVIOUS
    <2> QED
      BY <1>4, <1>9, <2>1
  <1>11. ASSUME NEW s \in SUBSET (1..n), s # {}, it0[s \ {Max(s)}] \in H
         PROVE  it0[s] \in H
    <2>1. it0[s] = Put(it0[s \ {Max(s)}], bs[Max(s)])
      BY <1>9, <1>11
    <2>2. Max(s) \in 1..n
      BY <1>7, <1>11
    <2> QED
      BY <1>3, <1>11, <2>1, <2>2
  <1> HIDE DEF Rec
  <1>12. it0[1..n] \in H
    BY <1>1, <1>10, <1>11, FoldStays
  <1> QED
    BY <1>2, <1>12 DEF H

\* The permission is checked for every key of a batch.
LEMMA SubmitPermitted ==
    ASSUME log # <<>>, Permitted(Command), Submits(Command), NEW b \in Range(Command.batches)
    PROVE  SenderMay(b.key, IF Command.op = "SUBMIT_MESSAGE" THEN "SubmitMessage"
                            ELSE "SubmitBatchedMessages")
  <1>1. PICK op : op = Command.op
    OBVIOUS
  <1>2. op \notin DOMAIN AdminNeeded /\ op \in {"SUBMIT_MESSAGE", "SUBMIT_BATCH_MESSAGE"}
    BY <1>1 DEF AdminNeeded, Submits
  <1>3. ActionNeeded[op] = IF op = "SUBMIT_MESSAGE" THEN "SubmitMessage" ELSE "SubmitBatchedMessages"
    BY <1>2 DEF ActionNeeded
  <1>4. A!HasPermission(Command.by, b.key, ActionNeeded[op])
    BY <1>1, <1>2 DEF Permitted
  <1> QED
    BY <1>1, <1>3, <1>4 DEF SenderMay, Sender, Command

\* A message is sent to the queues that its key feeds.
LEMMA SentWithin ==
    ASSUME NEW b \in Range(Command.batches), NEW ids, Range(ids) \subseteq Range(b.ids),
           NEW o, FedBy(b.key, o)
    PROVE  Nodes(Range(ids), Nobody) \subseteq Nodes(SentTo(o), Nobody)
  <1>1. Range(b.ids) \subseteq SentTo(o)
    BY DEF SentTo
  <1> QED
    BY <1>1 DEF Nodes

LEMMA SubmitEffect ==
    ASSUME BrokerOk, CommandOk(Command), SUBMIT_MESSAGE \/ SUBMIT_BATCH_MESSAGE
    PROVE  BrokerEffect
  <1>1. CASE UNCHANGED <<routing, queues, heap>>
    BY <1>1, NoEffect
  <1>2. PICK N, L : /\ N = [o \in Objects |-> Nodes(SentTo(o), Nobody)]
                    /\ L = [o \in Objects |-> {}]
    OBVIOUS
  <1>3. \A o \in Objects : N[o] = Nodes(SentTo(o), Nobody) /\ L[o] = {}
    BY <1>2
  <1>4. ASSUME log # <<>>, Permitted(Command), Submits(Command), heap' \in Grown(N),
               UNCHANGED <<routing, queues>>
        PROVE  BrokerEffect
    <2>1. HeapBecomes(heap', N, L)
      BY <1>4, GrownBecomes
    <2>2. Delivers(N, L)
      BY <1>3, <1>4, SubmitPermitted DEF Delivers
    <2> QED
      BY <1>4, <2>1, <2>2, MessageEffect
  <1>5. CASE SUBMIT_MESSAGE /\ ~UNCHANGED <<routing, queues, heap>>
    <2>1. PICK b : b = Command.batches[1]
      OBVIOUS
    <2>2. PICK k, id, ids : k = b.key /\ id = b.ids[1] /\ ids = <<id>>
      OBVIOUS
    <2>3. /\ log # <<>> /\ Command.op = "SUBMIT_MESSAGE" /\ Permitted(Command)
          /\ B!AddMessage(k, id)
      BY <1>5, <2>1, <2>2 DEF SUBMIT_MESSAGE, Applies, Takes, Denied, B!Refuses
    <2>4. k \in DOMAIN routing /\ heap' = B!Delivered(heap, k, ids) /\ UNCHANGED <<routing, queues>>
      BY <1>5, <2>2, <2>3 DEF B!AddMessage, B!BatchAddMessage, B!Refuses
    <2>5. b \in Range(Command.batches) /\ id \in Range(b.ids)
      BY <2>1, <2>2, <2>3 DEF CommandOk, Range
    <2>6. IsList(ids) /\ Range(ids) \subseteq Range(b.ids)
      <3>1. ids \in Seq({id}) /\ DOMAIN ids = {1} /\ ids[1] = id
        BY <2>2
      <3>2. IsList(ids) /\ Range(ids) = {id}
        BY <3>1, SeqIsList DEF Range
      <3> QED
        BY <2>5, <3>2
    <2>7. \A o \in Objects : FedBy(k, o) => Nodes(Range(ids), Nobody) \subseteq N[o]
      BY <1>3, <2>2, <2>5, <2>6, SentWithin
    <2>8. PICK g, h : g = heap' /\ h = heap
      OBVIOUS
    <2>9. h \in Grown(N)
      BY <2>8, StartsGrown
    <2>10. B!Delivered(h, k, ids) \in Grown(N)
      BY <2>4, <2>6, <2>7, <2>9, DeliveredGrows
    <2>11. heap' \in Grown(N) /\ Submits(Command)
      BY <2>3, <2>4, <2>8, <2>10 DEF Submits
    <2> QED
      BY <1>4, <2>3, <2>4, <2>11
  <1>6. CASE SUBMIT_BATCH_MESSAGE /\ ~UNCHANGED <<routing, queues, heap>>
    <2>1. PICK bs : bs = Command.batches
      OBVIOUS
    <2>2. /\ log # <<>> /\ Command.op = "SUBMIT_BATCH_MESSAGE" /\ Permitted(Command)
          /\ heap' = FoldLeft(LAMBDA h, b : IF Routed(b) THEN B!Delivered(h, b.key, b.ids) ELSE h,
                              heap, Command.batches)
          /\ UNCHANGED <<routing, queues>>
      BY <1>6 DEF SUBMIT_BATCH_MESSAGE, Applies, Takes, Denied, B!Refuses
    <2>3. Submits(Command)
      BY <2>2 DEF Submits
    <2>4. IsList(bs) /\ \A i \in DOMAIN bs : IsList(bs[i].ids)
      BY <2>1, <2>3 DEF CommandOk
    <2>5. ASSUME NEW i \in DOMAIN bs, NEW o \in Objects, FedBy(bs[i].key, o)
          PROVE  Nodes(Range(bs[i].ids), Nobody) \subseteq N[o]
      <3>1. PICK b, ids : b = bs[i] /\ ids = b.ids
        OBVIOUS
      <3>2. b \in Range(Command.batches)
        BY <2>1, <2>5, <3>1 DEF Range
      <3>3. Nodes(Range(ids), Nobody) \subseteq Nodes(SentTo(o), Nobody)
        BY <2>5, <3>1, <3>2, SentWithin
      <3> QED
        BY <1>3, <3>1, <3>3
    <2>6. \A i \in DOMAIN bs, o \in Objects :
            FedBy(bs[i].key, o) => Nodes(Range(bs[i].ids), Nobody) \subseteq N[o]
      BY <2>5
    <2>7. FoldLeft(LAMBDA h, b : IF Routed(b) THEN B!Delivered(h, b.key, b.ids) ELSE h, heap, bs)
            \in Grown(N)
      BY <2>4, <2>6, BatchGrows
    <2>8. heap' \in Grown(N)
      BY <2>1, <2>2, <2>7
    <2> QED
      BY <1>4, <2>2, <2>3, <2>8
  <1> QED
    BY <1>1, <1>5, <1>6

-----------------------------------------------------------------------------
(* Routes and queues *)

RoutesOk == \A k \in DOMAIN routing : IsList(routing[k])

\* The route of key k changes, or comes, and no other.
OnlyRoute(k) ==
    /\ DOMAIN routing' = DOMAIN routing \cup {k}
    /\ \A j \in DOMAIN routing \ {k} : routing'[j] = routing[j] /\ ~(Len(routing'[j]) > Len(routing[j]))

LEMMA WithRoute ==
    ASSUME RoutesOk, NEW k, NEW r, IsList(r), routing' = B!With(routing, k, r)
    PROVE  RoutesOk' /\ OnlyRoute(k) /\ routing'[k] = r
  <1>1. /\ DOMAIN routing' = DOMAIN routing \cup {k} /\ routing'[k] = r
        /\ \A j \in DOMAIN routing \ {k} : routing'[j] = routing[j]
    BY DEF B!With
  <1>2. \A j \in DOMAIN routing : Len(routing[j]) \in Nat
    BY ListIsFunction DEF RoutesOk
  <1>3. \A m \in Nat : ~(m > m)
    OBVIOUS
  <1> QED
    BY <1>1, <1>2, <1>3 DEF RoutesOk, OnlyRoute

LEMMA BoundEffect ==
    ASSUME RoutesOk, NEW k, NEW n, routing' = B!Bound(k, n)
    PROVE  /\ RoutesOk' /\ OnlyRoute(k)
           /\ k \in DOMAIN routing => Len(routing'[k]) > Len(routing[k])
  <1>1. CASE k \in DOMAIN routing
    <2>1. PICK s, r : s = Append(routing[k], n) /\ r = B!Sorted(s)
      OBVIOUS
    <2>2. PICK m : m = Len(routing[k]) + 1
      OBVIOUS
    <2>3. m \in Nat /\ DOMAIN s = 1..m /\ m > Len(routing[k])
      <3>1. IsList(routing[k])
        BY <1>1 DEF RoutesOk
      <3>2. Len(routing[k]) \in Nat /\ DOMAIN Append(routing[k], n) = 1..(Len(routing[k]) + 1)
        BY <3>1, ListIsFunction, ListAppend
      <3> QED
        BY <2>1, <2>2, <3>2
    <2>4. r = [i \in 1..m |-> r[i]]
      <3> DEFINE E(i) == CHOOSE v \in B!Range(s) :
                           /\ B!Cardinality({j \in DOMAIN s : s[j] < v}) < i
                           /\ B!Cardinality({j \in DOMAIN s : s[j] <= v}) >= i
      <3>1. r = [i \in DOMAIN s |-> E(i)]
        BY <2>1 DEF B!Sorted
      <3> HIDE DEF E
      <3> QED
        BY <2>3, <3>1
    <2>5. IsList(r) /\ Len(r) = m
      BY <2>3, <2>4, FunctionIsList
    <2>6. routing' = B!With(routing, k, r)
      BY <1>1, <2>1 DEF B!Bound
    <2>7. RoutesOk' /\ OnlyRoute(k) /\ routing'[k] = r
      BY <2>5, <2>6, WithRoute
    <2> QED
      BY <2>3, <2>5, <2>7
  <1>2. CASE k \notin DOMAIN routing
    <2>1. PICK r : r = <<n>>
      OBVIOUS
    <2>2. IsList(r)
      <3>1. r \in Seq({n})
        BY <2>1
      <3> QED
        BY <3>1, SeqIsList
    <2>3. routing' = B!With(routing, k, r)
      BY <1>2, <2>1 DEF B!Bound
    <2> QED
      BY <1>2, <2>2, <2>3, WithRoute
  <1> QED
    BY <1>1, <1>2

LEMMA RemoveFirstShorter ==
    ASSUME NEW l, IsList(l), NEW x, x \in Range(l)
    PROVE  IsList(RemoveFirst(l, x)) /\ ~(Len(RemoveFirst(l, x)) > Len(l))
  <1> DEFINE n == Len(l)
  <1>1. PICK r : r = RemoveFirst(l, x)
    OBVIOUS
  <1>2. PICK p \in DOMAIN l :
          l[p] = x /\ r = [i \in 1..(n - 1) |-> IF i < p THEN l[i] ELSE l[i + 1]]
    BY <1>1, RemoveFirstEffect
  <1>3. n \in Nat /\ DOMAIN l = 1..n
    BY ListIsFunction
  <1> HIDE DEF n
  <1>4. n - 1 \in Nat /\ ~(n - 1 > n) /\ r = [i \in 1..(n - 1) |-> r[i]]
    BY <1>2, <1>3
  <1>5. IsList(r) /\ Len(r) = n - 1
    BY <1>4, FunctionIsList
  <1> QED
    BY <1>1, <1>4, <1>5 DEF n

LEMMA UnboundEffect ==
    ASSUME RoutesOk, NEW n, NEW k \in B!KeysOf(n), routing' = B!Unbound(k, n)
    PROVE  RoutesOk' /\ OnlyRoute(k) /\ k \in DOMAIN routing /\ ~(Len(routing'[k]) > Len(routing[k]))
  <1>1. k \in DOMAIN routing /\ n \in Range(routing[k])
    BY SameRange DEF B!KeysOf
  <1>2. PICK s, r : s = routing[k] /\ r = RemoveFirst(s, n)
    OBVIOUS
  <1>3. IsList(s) /\ n \in Range(s)
    BY <1>1, <1>2 DEF RoutesOk
  <1>4. IsList(r) /\ ~(Len(r) > Len(s))
    BY <1>2, <1>3, RemoveFirstShorter
  <1>5. routing' = B!With(routing, k, r)
    BY <1>2, SameRemoveFirst DEF B!Unbound
  <1>6. RoutesOk' /\ OnlyRoute(k) /\ routing'[k] = r
    BY <1>4, <1>5, WithRoute
  <1> QED
    BY <1>1, <1>2, <1>4, <1>6

LEMMA AdminPermitted ==
    ASSUME log # <<>>, Permitted(Command), NEW op, Command.op = op,
           NEW p, p = AdminNeeded[op], op \in DOMAIN AdminNeeded
    PROVE  SenderAdmin(p)
  BY DEF Permitted, Command, Sender, SenderAdmin

LEMMA CreateCommandEffect ==
    ASSUME ServerAssumption, BrokerOk, CREATE_QUEUE, ~UNCHANGED <<routing, queues, heap>>
    PROVE  BrokerEffect
  <1>1. PICK n, k, size, hasDLQ : /\ n = Command.queue /\ k = Command.key
                                  /\ size = Command.size /\ hasDLQ = Command.hasDLQ
    OBVIOUS
  <1>2. /\ log # <<>> /\ Command.op = "CREATE_QUEUE" /\ Permitted(Command)
        /\ B!CreateQueue(n, k, size, hasDLQ) /\ ~B!Refuses(TRUE)
    BY <1>1 DEF CREATE_QUEUE, Applies, Takes, Denied, B!Refuses
  <1>3. SenderAdmin("CreateQueue")
    BY <1>2, AdminPermitted DEF AdminNeeded
  <1>4. HeapOk(queues', heap') /\ Renewed
    BY <1>2, CreateQueueEffect
  <1>5. routing' = B!Bound(k, n) /\ n \notin DOMAIN queues
        /\ \E o, d : queues' = B!Registered(n, hasDLQ, o, d)
    BY <1>2 DEF B!CreateQueue, B!Exists
  <1>6. RoutesOk' /\ OnlyRoute(k) /\ (k \in DOMAIN routing => Len(routing'[k]) > Len(routing[k]))
    BY <1>5, BoundEffect DEF BrokerOk, RoutesOk
  <1>7. DOMAIN queues \cup {n} \subseteq DOMAIN queues'
    <2>1. PICK o, d, reg : queues' = B!With(reg, n, o) /\ (reg = queues \/ reg = B!With(queues, B!Dlq(n), d))
      BY <1>5 DEF B!Registered
    <2> QED
      BY <2>1 DEF B!With
  <1>8. RoutesPermitted
    <2>1. queues' # queues /\ DOMAIN queues \ DOMAIN queues' = {}
      BY <1>5, <1>7
    <2> QED
      BY <1>3, <1>6, <2>1 DEF RoutesPermitted, OnlyRoute
  <1> QED
    BY <1>4, <1>6, <1>8 DEF BrokerEffect, HeapEffect, BrokerOk, RoutesOk

LEMMA DeleteCommandEffect ==
    ASSUME ServerAssumption, BrokerOk, DELETE_QUEUE, ~UNCHANGED <<routing, queues, heap>>
    PROVE  BrokerEffect
  <1>1. PICK n : n = Command.queue
    OBVIOUS
  <1>2. /\ log # <<>> /\ Command.op = "DELETE_QUEUE" /\ Permitted(Command) /\ B!DeleteQueue(n)
    BY <1>1 DEF DELETE_QUEUE, Applies, Takes, Denied, B!Refuses
  <1>3. SenderAdmin("DeleteQueue")
    BY <1>2, AdminPermitted DEF AdminNeeded
  <1>4. PICK k \in B!KeysOf(n) : /\ n \in DOMAIN queues /\ queues' = B!Without(queues, n)
                                 /\ heap' = B!Collected(queues', heap)
                                 /\ routing' = B!Unbound(k, n)
    BY <1>2 DEF B!DeleteQueue, B!Refuses, B!Exists
  <1>5. HeapOk(queues', heap') /\ Renewed
    BY <1>4, DeleteQueueEffect
  <1>6. RoutesOk' /\ OnlyRoute(k) /\ k \in DOMAIN routing /\ ~(Len(routing'[k]) > Len(routing[k]))
    BY <1>4, UnboundEffect DEF BrokerOk, RoutesOk
  <1>7. /\ DOMAIN queues' = DOMAIN queues \ {n}
        /\ \A m \in DOMAIN queues' : m \in DOMAIN queues /\ queues'[m] = queues[m]
    BY <1>4 DEF B!Without
  <1>8. RoutesPermitted
    <2>1. queues' # queues
      BY <1>4, <1>7
    <2> QED
      BY <1>3, <1>6, <1>7, <2>1 DEF RoutesPermitted, OnlyRoute
  <1> QED
    BY <1>5, <1>6, <1>8 DEF BrokerEffect, HeapEffect, BrokerOk, RoutesOk

LEMMA AddKeyEffect ==
    ASSUME BrokerOk, ADD_ROUTING_KEY, ~UNCHANGED <<routing, queues, heap>>
    PROVE  BrokerEffect
  <1>1. PICK n, k : n = Command.queue /\ k = Command.key
    OBVIOUS
  <1>2. /\ log # <<>> /\ Command.op = "ADD_ROUTING_KEY" /\ Permitted(Command) /\ B!AddRouteKey(k, n)
    BY <1>1 DEF ADD_ROUTING_KEY, Applies, Takes, Denied, B!Refuses
  <1>3. SenderAdmin("AddRoutingKey")
    BY <1>2, AdminPermitted DEF AdminNeeded
  <1>4. UNCHANGED <<queues, heap>> /\ routing' = B!Bound(k, n)
    BY <1>2 DEF B!AddRouteKey, B!Refuses
  <1>5. RoutesOk' /\ OnlyRoute(k) /\ (k \in DOMAIN routing => Len(routing'[k]) > Len(routing[k]))
    BY <1>4, BoundEffect DEF BrokerOk, RoutesOk
  <1>6. RoutesPermitted
    BY <1>3, <1>4, <1>5 DEF RoutesPermitted, OnlyRoute
  <1> QED
    BY <1>4, <1>5, <1>6 DEF BrokerEffect, HeapEffect, BrokerOk, RoutesOk

LEMMA DeleteKeyEffect ==
    ASSUME BrokerOk, DELETE_ROUTING_KEY, ~UNCHANGED <<routing, queues, heap>>
    PROVE  BrokerEffect
  <1>1. PICK n, k : n = Command.queue /\ k = Command.key
    OBVIOUS
  <1>2. /\ log # <<>> /\ Command.op = "DELETE_ROUTING_KEY" /\ Permitted(Command)
        /\ B!DeleteRoutingKey(k, n)
    BY <1>1 DEF DELETE_ROUTING_KEY, Applies, Takes, Denied, B!Refuses
  <1>3. SenderAdmin("DeleteRoutingKey")
    BY <1>2, AdminPermitted DEF AdminNeeded
  <1>4. UNCHANGED <<queues, heap>> /\ routing' = B!Unbound(k, n) /\ k \in B!KeysOf(n)
    BY <1>2 DEF B!DeleteRoutingKey, B!Refuses, B!Panics
  <1>5. RoutesOk' /\ OnlyRoute(k) /\ k \in DOMAIN routing /\ ~(Len(routing'[k]) > Len(routing[k]))
    BY <1>4, UnboundEffect DEF BrokerOk, RoutesOk
  <1>6. RoutesPermitted
    BY <1>3, <1>4, <1>5 DEF RoutesPermitted, OnlyRoute
  <1> QED
    BY <1>4, <1>5, <1>6 DEF BrokerEffect, HeapEffect, BrokerOk, RoutesOk

LEMMA StepEffect ==
    ASSUME ServerAssumption, BrokerOk, RequestsOk, [Next]_vars
    PROVE  BrokerEffect
  <1>1. CASE UNCHANGED <<routing, queues, heap>>
    BY <1>1, NoEffect
  <1>2. CASE (\E c \in Clients : Frontend(c)) \/ Peers \/ UNCHANGED vars
    <2>1. UNCHANGED <<routing, queues, heap>>
      BY <1>2, FrontendKeeps, PeersKeep DEF vars, broker
    <2> QED
      BY <1>1, <2>1
  <1>3. CASE CREATE_QUEUE \/ DELETE_QUEUE \/ ADD_ROUTING_KEY \/ DELETE_ROUTING_KEY
    BY <1>1, <1>3, CreateCommandEffect, DeleteCommandEffect, AddKeyEffect, DeleteKeyEffect
  <1>4. CASE SUBMIT_MESSAGE \/ SUBMIT_BATCH_MESSAGE
    <2>1. log # <<>>
      BY <1>4 DEF SUBMIT_MESSAGE, SUBMIT_BATCH_MESSAGE, Applies, Takes
    <2> QED
      BY <1>4, <2>1, NextCommand, SubmitEffect
  <1>5. CASE ACK \/ NACK \/ BATCH_ACK
    BY <1>5, SettleEffect
  <1>6. CASE GET_MESSAGES
    BY <1>6, FetchEffect
  <1>7. CASE CREATE_ACCOUNT \/ CHANGE_PASSWORD \/ DELETE_USER
               \/ CREATE_ROLE \/ ASSIGN_ROLE \/ UNASSIGN_ROLE
    <2>1. UNCHANGED <<routing, queues, heap>>
      BY <1>7 DEF CREATE_ACCOUNT, CHANGE_PASSWORD, DELETE_USER,
         CREATE_ROLE, ASSIGN_ROLE, UNASSIGN_ROLE, broker
    <2> QED
      BY <1>1, <2>1
  <1> QED
    BY <1>2, <1>3, <1>4, <1>5, <1>6, <1>7 DEF Next, Apply

-----------------------------------------------------------------------------
(* What a step does to the messages, said of every queue *)

LEMMA EmptyQueue ==
    ASSUME NEW q, q.msgs = <<>>
    PROVE  B!IdsIn(q) = {} /\ Range(q.msgs) = {}
  <1>1. DOMAIN <<>> = {}
    OBVIOUS
  <1> QED
    BY <1>1, EmptyList DEF B!IdsIn

\* The three things to show of queue o
NewIn(o) ==
    \A i \in B!IdsIn(heap'[o]) \ Stored(heap) :
        /\ log # <<>> /\ Submits(Command)
        /\ \E b \in Range(Command.batches) : i \in Range(b.ids) /\ FedBy(b.key, o)
        /\ \A b \in Range(Command.batches) :
             SenderMay(b.key, IF Command.op = "SUBMIT_MESSAGE" THEN "SubmitMessage"
                              ELSE "SubmitBatchedMessages")

LockedIn(o) ==
    \A m \in Range(heap'[o].msgs) \ Range(heap[o].msgs) : m.owner # Nobody =>
        /\ log # <<>> /\ Command.op = "GET_MESSAGES" /\ m.owner = Command.consumer
        /\ \E n \in DOMAIN queues : queues[n] = o /\ SenderMay(n, "GetMessages")

SettledIn(o) ==
    \A i \in Leaving(o) :
        /\ log # <<>> /\ Command.op \in {"ACK", "NACK", "BATCH_ACK"}
        /\ \A j \in DOMAIN heap[o].msgs :
             heap[o].msgs[j].id = i => heap[o].msgs[j].owner = Command.consumer
        /\ \E n \in DOMAIN queues :
             queues[n] = o /\ SenderMay(n, IF Command.op = "BATCH_ACK" THEN "BatchAck" ELSE "Ack")

LEMMA RenewedMessages ==
    ASSUME NEW o \in Objects,
           \/ heap'[o] = heap[o]
           \/ heap'[o].msgs = <<>> /\ (o \notin B!InUse(queues', heap') \/ heap[o].msgs = <<>>)
    PROVE  NewIn(o) /\ LockedIn(o) /\ SettledIn(o)
  <1>1. B!IdsIn(heap[o]) \subseteq Stored(heap)
    BY DEF Stored
  <1>2. CASE heap'[o] = heap[o]
    BY <1>1, <1>2 DEF NewIn, LockedIn, SettledIn, Leaving
  <1>3. CASE heap'[o].msgs = <<>> /\ (o \notin B!InUse(queues', heap') \/ heap[o].msgs = <<>>)
    <2>1. B!IdsIn(heap'[o]) = {} /\ Range(heap'[o].msgs) = {}
      <3>1. PICK q : q = heap'[o]
        OBVIOUS
      <3> QED
        BY <1>3, <3>1, EmptyQueue
    <2>2. Leaving(o) = {}
      BY <1>3, EmptyQueue DEF Leaving
    <2> QED
      BY <2>1, <2>2 DEF NewIn, LockedIn, SettledIn
  <1> QED
    BY <1>2, <1>3

\* Nodes that are new in a queue, and messages that leave it
LEMMA BecomesMessages ==
    ASSUME NEW N, NEW L, HeapBecomes(heap', N, L), NEW o \in Objects
    PROVE  /\ \A m \in Range(heap'[o].msgs) \ Range(heap[o].msgs) : m \in N[o]
           /\ \A i \in B!IdsIn(heap'[o]) \ Stored(heap) : \E m \in N[o] : m.id = i
           /\ TailLast(o) => \A i \in Leaving(o) :
                /\ \A j \in DOMAIN heap[o].msgs : heap[o].msgs[j].id = i => heap[o].msgs[j].owner \in L[o]
                /\ L[o] # {}
  <1>1. PICK q, e : q = heap[o] /\ e = heap'[o]
    OBVIOUS
  <1>2. Becomes(q, e, N[o], L[o])
    BY <1>1 DEF HeapBecomes
  <1>3. Range(e.msgs) \subseteq Range(q.msgs) \cup N[o]
    BY <1>2 DEF Becomes
  <1>4. \A i \in B!IdsIn(e) : \E m \in Range(e.msgs) : m.id = i
    BY DEF B!IdsIn, Range
  <1>5. \A m \in Range(q.msgs) : m.id \in Stored(heap)
    <2>1. \A m \in Range(q.msgs) : m.id \in B!IdsIn(q)
      BY DEF B!IdsIn, Range
    <2> QED
      BY <1>1, <2>1 DEF Stored
  <1>6. TailLast(o) => \A j \in DOMAIN q.msgs : q.msgs[j].id \in B!IdsIn(e) \/ q.msgs[j].owner \in L[o]
    BY <1>1, <1>2 DEF TailLast, Becomes
  <1>7. \A i \in Leaving(o) : i \notin B!IdsIn(e) /\ \E j \in DOMAIN q.msgs : q.msgs[j].id = i
    BY <1>1 DEF Leaving, B!IdsIn
  <1>8. \A m \in Range(e.msgs) \ Range(q.msgs) : m \in N[o]
    BY <1>3
  <1>9. \A i \in B!IdsIn(e) \ Stored(heap) : \E m \in N[o] : m.id = i
    BY <1>3, <1>4, <1>5
  <1>10. TailLast(o) => \A i \in Leaving(o) :
           /\ \A j \in DOMAIN q.msgs : q.msgs[j].id = i => q.msgs[j].owner \in L[o]
           /\ L[o] # {}
    BY <1>6, <1>7
  <1> QED
    BY <1>1, <1>8, <1>9, <1>10

LEMMA ChangedMessages ==
    ASSUME NEW N, NEW L, HeapBecomes(heap', N, L),
           SettlesOwn(N, L) \/ Fetches(N, L) \/ Delivers(N, L), NEW o \in Objects
    PROVE  NewIn(o) /\ LockedIn(o) /\ (TailLast(o) => SettledIn(o))
  <1>1. /\ \A m \in Range(heap'[o].msgs) \ Range(heap[o].msgs) : m \in N[o]
        /\ \A i \in B!IdsIn(heap'[o]) \ Stored(heap) : \E m \in N[o] : m.id = i
        /\ TailLast(o) => \A i \in Leaving(o) :
             /\ \A j \in DOMAIN heap[o].msgs : heap[o].msgs[j].id = i => heap[o].msgs[j].owner \in L[o]
             /\ L[o] # {}
    BY BecomesMessages
  <1>2. CASE SettlesOwn(N, L)
    <2>1. N[o] = Nodes(Stored(heap), Nobody)
      BY <1>2 DEF SettlesOwn
    <2>2. \A m \in N[o] : m.id \in Stored(heap) /\ m.owner = Nobody
      BY <2>1, NodesParts
    <2>3. NewIn(o) /\ LockedIn(o)
      BY <1>1, <2>2 DEF NewIn, LockedIn
    <2>4. PICK n \in DOMAIN queues :
            /\ SenderMay(n, IF Command.op = "BATCH_ACK" THEN "BatchAck" ELSE "Ack")
            /\ L[o] = IF o = queues[n] THEN {Command.consumer} ELSE {}
      BY <1>2 DEF SettlesOwn
    <2>5. log # <<>> /\ Command.op \in {"ACK", "NACK", "BATCH_ACK"}
      BY <1>2 DEF SettlesOwn
    <2>6. TailLast(o) => SettledIn(o)
      BY <1>1, <2>4, <2>5 DEF SettledIn
    <2> QED
      BY <2>3, <2>6
  <1>3. CASE Fetches(N, L)
    <2>1. TailLast(o) => SettledIn(o)
      BY <1>1, <1>3 DEF Fetches, SettledIn
    <2>2. PICK n \in DOMAIN queues :
            /\ SenderMay(n, "GetMessages")
            /\ N[o] = IF o = queues[n] THEN Nodes(Stored(heap), Command.consumer) ELSE {}
      BY <1>3 DEF Fetches
    <2>3. PICK x : x = Command.consumer
      OBVIOUS
    <2>4. \A m \in N[o] : m.id \in Stored(heap) /\ m.owner = x /\ o = queues[n]
      BY <2>2, <2>3, NodesParts
    <2>5. log # <<>> /\ Command.op = "GET_MESSAGES"
      BY <1>3 DEF Fetches
    <2>6. NewIn(o)
      BY <1>1, <2>4 DEF NewIn
    <2>7. LockedIn(o)
      BY <1>1, <2>2, <2>3, <2>4, <2>5 DEF LockedIn
    <2> QED
      BY <2>1, <2>6, <2>7
  <1>4. CASE Delivers(N, L)
    <2>1. TailLast(o) => SettledIn(o)
      BY <1>1, <1>4 DEF Delivers, SettledIn
    <2>2. N[o] = Nodes(SentTo(o), Nobody)
      BY <1>4 DEF Delivers
    <2>3. \A m \in N[o] : m.id \in SentTo(o) /\ m.owner = Nobody
      BY <2>2, NodesParts
    <2>4. \A i \in SentTo(o) : \E b \in Range(Command.batches) : i \in Range(b.ids) /\ FedBy(b.key, o)
      BY DEF SentTo
    <2>5. \A i \in B!IdsIn(heap'[o]) \ Stored(heap) :
            \E b \in Range(Command.batches) : i \in Range(b.ids) /\ FedBy(b.key, o)
      BY <1>1, <2>3, <2>4
    <2>6. NewIn(o)
      BY <1>4, <2>5 DEF NewIn, Delivers
    <2>7. LockedIn(o)
      BY <1>1, <2>3 DEF LockedIn
    <2> QED
      BY <2>1, <2>6, <2>7
  <1> QED
    BY <1>2, <1>3, <1>4

LEMMA MessagesFollow ==
    ASSUME HeapEffect, heap' # heap, NEW o \in Objects
    PROVE  NewIn(o) /\ LockedIn(o) /\ (TailLast(o) => SettledIn(o))
  <1>1. CASE Renewed
    BY <1>1, RenewedMessages DEF Renewed
  <1>2. CASE \E N, L : HeapBecomes(heap', N, L) /\ (SettlesOwn(N, L) \/ Fetches(N, L) \/ Delivers(N, L))
    BY <1>2, ChangedMessages
  <1> QED
    BY <1>1, <1>2 DEF HeapEffect

LEMMA MessagesAre ==
    ASSUME HeapEffect
    PROVE  MessagesPermitted
  <1> SUFFICES ASSUME heap' # heap PROVE MessagesPermitted
    BY DEF MessagesPermitted
  <1>1. ASSUME NEW o \in Objects
        PROVE  /\ NewIn(o) /\ LockedIn(o)
               /\ TailLast(o) /\ Leaving(o) # {} => \E n \in DOMAIN queues :
                    queues[n] = o /\ SenderMay(n, IF Command.op = "BATCH_ACK" THEN "BatchAck" ELSE "Ack")
    BY <1>1, MessagesFollow DEF SettledIn
  <1> QED
    BY <1>1 DEF MessagesPermitted, NewIn, LockedIn

-----------------------------------------------------------------------------
(* Accounts and roles *)

UsersOk == \A u \in DOMAIN users : IsList(users[u])

\* Names that come and go
LEMMA AppendNamed ==
    ASSUME NEW s, IsList(s), NEW e
    PROVE  Named(Append(s, e)) = Named(s) \cup {e.username}
  <1> DEFINE t == Append(s, e)
             n == Len(s)
  <1>1. n \in Nat /\ DOMAIN s = 1..n
    BY ListIsFunction
  <1>2. DOMAIN t = 1..(n + 1) /\ (\A i \in 1..n : t[i] = s[i]) /\ t[n + 1] = e
    BY ListAppend
  <1> HIDE DEF t, n
  <1>3. \A i \in DOMAIN t : i = n + 1 \/ i \in 1..n
    BY <1>1, <1>2
  <1>4. \A i \in 1..n : i \in DOMAIN t
    BY <1>1, <1>2
  <1>5. n + 1 \in DOMAIN t
    BY <1>1, <1>2
  <1>6. Named(t) = Named(s) \cup {e.username}
    BY <1>1, <1>2, <1>3, <1>4, <1>5 DEF Named
  <1> QED
    BY <1>6 DEF t

LEMMA SwapRemoveNamed ==
    ASSUME NEW s, IsList(s), Unique(s), NEW i \in DOMAIN s
    PROVE  Named(A!SwapRemove(s, i)) = Named(s) \ {s[i].username}
  <1>1. PICK t : t = A!SwapRemove(s, i)
    OBVIOUS
  <1>2. /\ Named(s) \subseteq Named(t) \cup {s[i].username}
        /\ s[i].username \notin Named(t)
        /\ \A j \in DOMAIN t : \E m \in DOMAIN s : t[j] = s[m]
    BY <1>1, SwapRemoveNames, SwapRemoveUnique
  <1>3. Named(t) \subseteq Named(s)
    BY <1>2 DEF Named
  <1> QED
    BY <1>1, <1>2, <1>3

LEMMA AccountsAre ==
    ASSUME IsList(credentials), NamesUnique, CREATE_ACCOUNT \/ CHANGE_PASSWORD \/ DELETE_USER
    PROVE  AccountsPermitted
  <1> SUFFICES ASSUME credentials' # credentials PROVE AccountsPermitted
    BY DEF AccountsPermitted
  <1>1. CASE CREATE_ACCOUNT
    <2>1. /\ SenderAdmin("CreateUser") /\ ~A!UserExists(Command.user)
          /\ credentials' = A!Added(Command.user, Command.password)
      BY <1>1 DEF CREATE_ACCOUNT, Applies, Takes, A!CreateUser, A!Refuses, SenderAdmin, Sender
    <2>2. PICK e, u : u = Command.user /\ e = [username |-> u, password |-> Command.password]
      OBVIOUS
    <2>3. e.username = u /\ credentials' = Append(credentials, e)
      BY <2>1, <2>2 DEF A!Added
    <2>4. Named(credentials') = Named(credentials) \cup {u}
      BY <2>3, AppendNamed
    <2>5. u \notin Named(credentials)
      BY <2>1, <2>2, ExistsByName
    <2> QED
      BY <2>1, <2>4, <2>5 DEF AccountsPermitted
  <1>2. CASE CHANGE_PASSWORD
    <2>1. SenderAdmin("ChangePassword")
      BY <1>2 DEF CHANGE_PASSWORD, Applies, Takes, A!ChangePassword, A!Refuses, SenderAdmin, Sender
    <2>2. PICK i \in A!At(Command.user) :
            credentials' = A!Replaced(i, Command.user, Command.new)
      BY <1>2 DEF CHANGE_PASSWORD, A!ChangePassword, A!Refuses
    <2>3. PICK e, u, t : /\ u = Command.user /\ e = [username |-> u, password |-> Command.new]
                         /\ t = A!SwapRemove(credentials, i)
      OBVIOUS
    <2>4. e.username = u /\ credentials' = Append(t, e)
      BY <2>2, <2>3 DEF A!Replaced
    <2>5. i \in DOMAIN credentials /\ credentials[i].username = u
      BY <2>2, <2>3 DEF A!At
    <2>6. IsList(t) /\ Named(t) = Named(credentials) \ {u}
      BY <2>3, <2>5, SwapRemoveNames, SwapRemoveNamed DEF NamesUnique
    <2>7. Named(credentials') = Named(t) \cup {u}
      BY <2>4, <2>6, AppendNamed
    <2>8. u \in Named(credentials)
      BY <2>5 DEF Named
    <2> QED
      BY <2>1, <2>6, <2>7, <2>8 DEF AccountsPermitted
  <1>3. CASE DELETE_USER
    <2>1. SenderAdmin("DeleteUser")
      BY <1>3 DEF DELETE_USER, Takes, A!DeleteUser, A!Refuses, SenderAdmin, Sender
    <2>2. PICK i \in DOMAIN credentials : credentials' = A!SwapRemove(credentials, i)
      BY <1>3 DEF DELETE_USER, A!DeleteUser, A!Refuses, A!At
    <2>3. PICK u : u = credentials[i].username
      OBVIOUS
    <2>4. Named(credentials') = Named(credentials) \ {u} /\ u \in Named(credentials)
      BY <2>2, <2>3, SwapRemoveNamed DEF NamesUnique, Named
    <2> QED
      BY <2>1, <2>4 DEF AccountsPermitted
  <1> QED
    BY <1>1, <1>2, <1>3

\* The roles of user u change, or come, and no others.
OnlyUser(u) ==
    /\ DOMAIN users' = DOMAIN users \cup {u}
    /\ \A v \in DOMAIN users \ {u} : users'[v] = users[v] /\ ~(Len(users'[v]) > Len(users[v]))
    /\ IsList(users'[u])

LEMMA OnlyUserOk ==
    ASSUME UsersOk, NEW u, DOMAIN users' = DOMAIN users \cup {u}, IsList(users'[u]),
           \A v \in DOMAIN users \ {u} : users'[v] = users[v]
    PROVE  UsersOk' /\ OnlyUser(u)
  <1>1. \A v \in DOMAIN users : Len(users[v]) \in Nat
    BY ListIsFunction DEF UsersOk
  <1>2. \A m \in Nat : ~(m > m)
    OBVIOUS
  <1> QED
    BY <1>1, <1>2 DEF UsersOk, OnlyUser

LEMMA AssignEffect ==
    ASSUME UsersOk, NEW u, NEW r, users' = A!Assigned(u, r)
    PROVE  UsersOk' /\ OnlyUser(u) /\ (u \in DOMAIN users => ~(Len(users'[u]) <= Len(users[u])))
  <1>1. PICK s, x : x = roles[r] /\ s = IF u \in DOMAIN users THEN Append(users[u], x) ELSE <<x>>
    OBVIOUS
  <1>2. /\ DOMAIN users' = DOMAIN users \cup {u} /\ users'[u] = s
        /\ \A v \in DOMAIN users \ {u} : users'[v] = users[v]
    BY <1>1 DEF A!Assigned, A!With
  <1>3. IsList(s) /\ (u \in DOMAIN users => ~(Len(s) <= Len(users[u])))
    <2>1. CASE u \in DOMAIN users
      <3>1. PICK l : l = users[u]
        OBVIOUS
      <3>2. IsList(l) /\ s = Append(l, x)
        BY <1>1, <2>1, <3>1 DEF UsersOk
      <3>3. IsList(s) /\ DOMAIN s = 1..(Len(l) + 1) /\ Len(l) \in Nat
        BY <3>2, ListAppend, ListIsFunction
      <3>4. Len(s) \in Nat /\ DOMAIN s = 1..Len(s)
        BY <3>3, ListIsFunction
      <3>5. Len(l) + 1 \in 1..Len(s)
        BY <3>3, <3>4
      <3> QED
        BY <3>1, <3>3, <3>4, <3>5
    <2>2. CASE u \notin DOMAIN users
      <3>1. s \in Seq({x})
        BY <1>1, <2>2
      <3> QED
        BY <2>2, <3>1, SeqIsList
    <2> QED
      BY <2>1, <2>2
  <1> QED
    BY <1>2, <1>3, OnlyUserOk

LEMMA UnassignEffect ==
    ASSUME UsersOk, NEW u, NEW r, A!Holds(u, r), users' = A!Unassigned(u, r)
    PROVE  UsersOk' /\ OnlyUser(u) /\ u \in DOMAIN users /\ ~(Len(users'[u]) > Len(users[u]))
  <1>1. PICK l, i : l = users[u] /\ i = A!SelectInSeq(l, LAMBDA x : x.name = r)
    OBVIOUS
  <1>2. PICK t : t = A!SwapRemove(l, i)
    OBVIOUS
  <1>3. u \in DOMAIN users /\ IsList(l) /\ DOMAIN l # {}
    BY <1>1 DEF A!Holds, UsersOk
  <1>4. users' = [users EXCEPT ![u] = t]
    BY <1>1, <1>2 DEF A!Unassigned
  <1>5. /\ DOMAIN users' = DOMAIN users \cup {u} /\ users'[u] = t
        /\ \A v \in DOMAIN users \ {u} : users'[v] = users[v]
    BY <1>3, <1>4
  <1> DEFINE n == Len(l)
  <1>6. n \in Nat /\ DOMAIN l = 1..n
    BY <1>3, ListIsFunction
  <1>7. t = [k \in 1..(n - 1) |-> IF k = i THEN l[n] ELSE l[k]]
    BY <1>2 DEF A!SwapRemove
  <1> HIDE DEF n
  <1>8. n - 1 \in Nat /\ ~(n - 1 > n) /\ t = [k \in 1..(n - 1) |-> t[k]]
    BY <1>3, <1>6, <1>7
  <1>9. IsList(t) /\ Len(t) = n - 1
    BY <1>8, FunctionIsList
  <1>10. ~(Len(t) > Len(l))
    BY <1>8, <1>9 DEF n
  <1> QED
    BY <1>1, <1>3, <1>5, <1>9, <1>10, OnlyUserOk

LEMMA RolesAre ==
    ASSUME UsersOk, CREATE_ROLE \/ ASSIGN_ROLE \/ UNASSIGN_ROLE
    PROVE  UsersOk' /\ RolesPermitted
  <1>1. CASE roles' = roles /\ users' = users
    BY <1>1 DEF UsersOk, RolesPermitted
  <1>2. CASE ~(roles' = roles /\ users' = users) /\ CREATE_ROLE
    <2>1. SenderAdmin("CreateRole") /\ users' = users
      BY <1>2 DEF CREATE_ROLE, Applies, Takes, A!CreateRole, A!Refuses, SenderAdmin, Sender
    <2> QED
      BY <2>1 DEF UsersOk, RolesPermitted
  <1>3. CASE ~(roles' = roles /\ users' = users) /\ ASSIGN_ROLE
    <2>1. PICK u : /\ SenderAdmin("AssignRole") /\ roles' = roles
                   /\ users' = A!Assigned(u, Command.role)
      BY <1>3 DEF ASSIGN_ROLE, Applies, Takes, A!AssignRole, A!Refuses, SenderAdmin, Sender
    <2>2. UsersOk' /\ OnlyUser(u) /\ (u \in DOMAIN users => ~(Len(users'[u]) <= Len(users[u])))
      BY <2>1, AssignEffect
    <2> QED
      BY <2>1, <2>2 DEF OnlyUser, RolesPermitted
  <1>4. CASE ~(roles' = roles /\ users' = users) /\ UNASSIGN_ROLE
    <2>1. PICK u : /\ SenderAdmin("UnassignRole") /\ roles' = roles /\ A!Holds(u, Command.role)
                   /\ users' = A!Unassigned(u, Command.role)
      BY <1>4 DEF UNASSIGN_ROLE, Applies, Takes, A!UnassignRole, A!Refuses, SenderAdmin, Sender
    <2>2. UsersOk' /\ OnlyUser(u) /\ u \in DOMAIN users /\ ~(Len(users'[u]) > Len(users[u]))
      BY <2>1, UnassignEffect
    <2> QED
      BY <2>1, <2>2 DEF OnlyUser, RolesPermitted
  <1> QED
    BY <1>1, <1>2, <1>3, <1>4

LEMMA AccountsStep ==
    ASSUME IsList(credentials), NamesUnique, UsersOk, [Next]_vars
    PROVE  UsersOk' /\ AccountsPermitted /\ RolesPermitted
  <1>1. CASE UNCHANGED <<credentials, roles, users>>
    BY <1>1 DEF UsersOk, AccountsPermitted, RolesPermitted
  <1>2. CASE (\E c \in Clients : Frontend(c)) \/ Peers \/ UNCHANGED vars
    <2>1. UNCHANGED <<credentials, roles, users>>
      BY <1>2, FrontendKeeps, PeersKeep DEF vars, accounts
    <2> QED
      BY <1>1, <2>1
  <1>3. CASE CREATE_ACCOUNT \/ CHANGE_PASSWORD \/ DELETE_USER
    <2>1. roles' = roles /\ users' = users
      BY <1>3 DEF CREATE_ACCOUNT, CHANGE_PASSWORD, DELETE_USER, A!CreateUser, A!ChangePassword,
         A!DeleteUser, A!Refuses
    <2> QED
      BY <1>3, <2>1, AccountsAre DEF UsersOk, RolesPermitted
  <1>4. CASE CREATE_ROLE \/ ASSIGN_ROLE \/ UNASSIGN_ROLE
    <2>1. credentials' = credentials
      BY <1>4 DEF CREATE_ROLE, ASSIGN_ROLE, UNASSIGN_ROLE, A!CreateRole, A!AssignRole,
         A!UnassignRole, A!Refuses
    <2> QED
      BY <1>4, <2>1, RolesAre DEF AccountsPermitted
  <1>5. CASE CREATE_QUEUE \/ DELETE_QUEUE \/ ADD_ROUTING_KEY \/ DELETE_ROUTING_KEY \/ SUBMIT_MESSAGE
               \/ SUBMIT_BATCH_MESSAGE \/ GET_MESSAGES \/ ACK \/ NACK \/ BATCH_ACK
    <2>1. UNCHANGED <<credentials, roles, users>>
      BY <1>5 DEF CREATE_QUEUE, DELETE_QUEUE, ADD_ROUTING_KEY, DELETE_ROUTING_KEY, SUBMIT_MESSAGE,
         SUBMIT_BATCH_MESSAGE, GET_MESSAGES, ACK, NACK, BATCH_ACK, accounts
    <2> QED
      BY <1>1, <2>1
  <1> QED
    BY <1>2, <1>3, <1>4, <1>5 DEF Next, Apply

-----------------------------------------------------------------------------
(* What a command may change *)

WorkInv == PasswordInv /\ BrokerOk /\ UsersOk

LEMMA WorkInit ==
    ASSUME ServerAssumption, Init
    PROVE  WorkInv
  <1>1. PasswordInv
    BY PasswordInit
  <1>2. routing = <<>> /\ queues = <<>> /\ heap = [o \in Objects |-> B!Garbage]
    BY DEF Init, B!Init
  <1>3. DOMAIN <<>> = {}
    OBVIOUS
  <1>4. PICK q, size : q = B!Garbage /\ q = B!NewQueue(size, B!NilPointer)
    BY DEF B!Garbage
  <1>5. QueueOk(q) /\ q.msgs = <<>> /\ q.deadLetter = B!NilPointer
    BY <1>4, NewQueueOk
  <1>6. \A o \in Objects : QueueOk(heap[o]) /\ heap[o].deadLetter # o /\ heap[o].msgs = <<>>
    BY <1>2, <1>4, <1>5, NilsApart
  <1>7. heap = [o \in Objects |-> heap[o]]
    BY <1>2
  <1>8. BrokerOk
    BY <1>2, <1>3, <1>6, <1>7 DEF BrokerOk, HeapOk
  <1>9. PICK r : users = [u \in {Root} |-> <<r>>]
    BY DEF Init, A!Init
  <1>10. <<r>> \in Seq({r})
    OBVIOUS
  <1>11. UsersOk
    BY <1>9, <1>10, SeqIsList DEF UsersOk
  <1> QED
    BY <1>1, <1>8, <1>11 DEF WorkInv

LEMMA WorkStep ==
    ASSUME ServerAssumption, WorkInv, [Next]_vars
    PROVE  /\ WorkInv'
           /\ AccountsPermitted /\ RolesPermitted /\ RoutesPermitted /\ MessagesPermitted
           /\ HeapEffect
  <1>1. PasswordInv'
    BY PasswordStep DEF WorkInv
  <1>2. BrokerEffect
    BY StepEffect DEF WorkInv, PasswordInv
  <1>3. UsersOk' /\ AccountsPermitted /\ RolesPermitted
    BY AccountsStep DEF WorkInv, PasswordInv, ServerInv
  <1> QED
    BY <1>1, <1>2, <1>3, MessagesAre DEF WorkInv, BrokerEffect

\* Whatever a step changes, the command it applies has the permission for that very
\* change when it is applied, for any users, roles, requests and interleavings: a
\* role that is taken away after the handler's check is not used any more.
THEOREM EffectsPermitted == Spec => PermittedEffects
  <1>1. Init => WorkInv
    BY ServerAssumption, WorkInit
  <1>2. WorkInv /\ [Next]_vars => WorkInv'
    BY ServerAssumption, WorkStep
  <1>3. WorkInv /\ [Next]_vars =>
          [AccountsPermitted /\ RolesPermitted /\ RoutesPermitted /\ MessagesPermitted]_vars
    BY ServerAssumption, WorkStep
  <1> QED
    BY <1>1, <1>2, <1>3, PTL DEF Spec, PermittedEffects

\* While Tail is the last node of its chain a message leaves its queue by a command of
\* the session that holds every copy of it there, for any number of sessions and for
\* batches of any length.
THEOREM HoldersSettle == Spec => OnlyHolderSettles
  <1>1. Init => WorkInv
    BY ServerAssumption, WorkInit
  <1>2. WorkInv /\ [Next]_vars => WorkInv'
    BY ServerAssumption, WorkStep
  <1>3. WorkInv /\ [Next]_vars =>
          [heap' # heap => \A o \in Objects : TailLast(o) =>
             \A i \in Leaving(o) :
                /\ log # <<>> /\ Command.op \in {"ACK", "NACK", "BATCH_ACK"}
                /\ \A j \in DOMAIN heap[o].msgs :
                     heap[o].msgs[j].id = i => heap[o].msgs[j].owner = Command.consumer]_vars
    <2> SUFFICES ASSUME WorkInv, [Next]_vars, heap' # heap, NEW o \in Objects, TailLast(o)
                 PROVE  SettledIn(o)
      BY DEF SettledIn
    <2> QED
      BY ServerAssumption, WorkStep, MessagesFollow
  <1> QED
    BY <1>1, <1>2, <1>3, PTL DEF Spec, OnlyHolderSettles

=============================================================================
