--------------------------- MODULE AccountsProofs ---------------------------
(***************************************************************************)
(* What holds of the accounts for every set of users, passwords and roles. *)
(***************************************************************************)
EXTENDS Accounts, ListLemmas

Credential == [username : Usernames, password : Passwords]

\* A function on 1..n is a sequence of length n.
LEMMA FunctionIsSeq ==
    ASSUME NEW S, NEW n \in Nat, NEW f \in [1..n -> S]
    PROVE  f \in Seq(S) /\ Len(f) = n
  OBVIOUS

\* AccountRemains and the type it needs: the invariant of the induction.
AccountsInv == credentials \in Seq(Credential) /\ AccountRemains

\* Start-up makes exactly one account.
LEMMA InitAccounts ==
    ASSUME Init
    PROVE  AccountsInv
  <1> DEFINE root == [username |-> Root, password |-> CHOOSE p \in Passwords : TRUE]
  <1>1. root \in Credential
    BY AccountsAssumption DEF Credential
  <1>2. credentials = <<root>>
    BY DEF Init
  <1> HIDE DEF root
  <1>3. <<root>> \in Seq(Credential) /\ Len(<<root>>) = 1 /\ DOMAIN <<root>> = 1..1
    BY <1>1
  <1> QED
    BY <1>2, <1>3 DEF AccountsInv, AccountRemains

\* Swapping the last account into the place of another removes that account only.
LEMMA SwapRemoveKeeps ==
    ASSUME AccountsInv, NEW i \in DOMAIN credentials
    PROVE  LET s == SwapRemove(credentials, i) IN
           /\ s \in Seq(Credential)
           /\ Len(s) = Len(credentials) - 1
           /\ \A j \in DOMAIN s : s[j].username # credentials[i].username
           /\ \A j, k \in DOMAIN s : s[j].username = s[k].username => j = k
  <1> DEFINE n == Len(credentials)
             s == SwapRemove(credentials, i)
  <1>1. n \in Nat /\ n >= 1 /\ DOMAIN credentials = 1..n /\ credentials \in [1..n -> Credential]
    BY DEF AccountsInv
  <1>2. s \in [1..(n - 1) -> Credential]
    BY <1>1 DEF SwapRemove
  <1>3. s \in Seq(Credential) /\ Len(s) = n - 1 /\ DOMAIN s = 1..(n - 1)
    <2> HIDE DEF s, n
    <2>1. n - 1 \in Nat
      BY <1>1
    <2> QED
      BY <1>2, <2>1, FunctionIsSeq
  <1>4. ASSUME NEW j \in 1..(n - 1)
        PROVE  /\ s[j] = credentials[IF j = i THEN n ELSE j]
               /\ (IF j = i THEN n ELSE j) \in (1..n) \ {i}
    BY <1>1 DEF SwapRemove
  <1>5. \A j, k \in 1..n : credentials[j].username = credentials[k].username => j = k
    BY <1>1 DEF AccountsInv, AccountRemains
  <1>6. ASSUME NEW j \in 1..(n - 1)
        PROVE  s[j].username # credentials[i].username
    BY <1>1, <1>4, <1>5
  <1>7. ASSUME NEW j \in 1..(n - 1), NEW k \in 1..(n - 1), s[j].username = s[k].username
        PROVE  j = k
    BY <1>1, <1>4, <1>5, <1>7
  <1> QED
    BY <1>3, <1>6, <1>7

\* An account for a name that no account has.
LEMMA AppendKeeps ==
    ASSUME NEW s \in Seq(Credential), NEW c \in Credential,
           \A j, k \in DOMAIN s : s[j].username = s[k].username => j = k,
           \A j \in DOMAIN s : s[j].username # c.username
    PROVE  LET t == Append(s, c) IN
           /\ t \in Seq(Credential) /\ t # <<>>
           /\ \A j, k \in DOMAIN t : t[j].username = t[k].username => j = k
  <1> DEFINE t == Append(s, c)
  <1>1. t \in Seq(Credential) /\ Len(t) = Len(s) + 1 /\ DOMAIN t = 1..(Len(s) + 1)
        /\ Len(s) \in Nat /\ DOMAIN s = 1..Len(s)
    OBVIOUS
  <1>2. \A j \in 1..Len(s) : t[j] = s[j]
    OBVIOUS
  <1>3. t[Len(s) + 1] = c
    OBVIOUS
  <1>4. t # <<>>
    BY <1>1
  <1>5. ASSUME NEW j \in 1..(Len(s) + 1), NEW k \in 1..(Len(s) + 1), t[j].username = t[k].username
        PROVE  j = k
    <2>1. CASE j <= Len(s) /\ k <= Len(s)
      BY <1>1, <1>2, <1>5, <2>1
    <2>2. CASE j = Len(s) + 1 /\ k <= Len(s)
      BY <1>1, <1>2, <1>3, <1>5, <2>2
    <2>3. CASE j <= Len(s) /\ k = Len(s) + 1
      BY <1>1, <1>2, <1>3, <1>5, <2>3
    <2> QED
      BY <1>1, <2>1, <2>2, <2>3
  <1> QED
    BY <1>1, <1>4, <1>5

\* The commands that change the accounts, and those that do not.
LEMMA NextAccounts ==
    ASSUME AccountsInv, [Next]_vars
    PROVE  AccountsInv'
  <1>1. CASE UNCHANGED credentials
    BY <1>1 DEF AccountsInv, AccountRemains
  <1>2. ASSUME NEW by \in Usernames, NEW u \in Usernames, NEW p \in Passwords, CreateUser(by, u, p)
        PROVE  AccountsInv'
    <2>1. CASE Refuses
      BY <1>1, <2>1 DEF Refuses
    <2>2. CASE ~UserExists(u) /\ credentials' = Append(credentials, [username |-> u, password |-> p])
      <3>1. \A j \in DOMAIN credentials : credentials[j].username # u
        BY <2>2 DEF UserExists, At
      <3>2. [username |-> u, password |-> p] \in Credential
        BY DEF Credential
      <3> QED
        BY <2>2, <3>1, <3>2, AppendKeeps DEF AccountsInv, AccountRemains
    <2> QED
      BY <1>2, <2>1, <2>2 DEF CreateUser, Added
  <1>3. ASSUME NEW by \in Usernames, NEW u \in Usernames, NEW old \in Passwords, NEW new \in Passwords,
               ChangePassword(by, u, old, new)
        PROVE  AccountsInv'
    <2>1. CASE Refuses
      BY <1>1, <2>1 DEF Refuses
    <2>2. ASSUME NEW i \in At(u),
                 credentials' = Append(SwapRemove(credentials, i), [username |-> u, password |-> new])
          PROVE  AccountsInv'
      <3>1. i \in DOMAIN credentials /\ credentials[i].username = u
        BY DEF At
      <3>2. [username |-> u, password |-> new] \in Credential
        BY DEF Credential
      <3> DEFINE s == SwapRemove(credentials, i)
      <3>3. /\ s \in Seq(Credential)
            /\ \A j \in DOMAIN s : s[j].username # u
            /\ \A j, k \in DOMAIN s : s[j].username = s[k].username => j = k
        BY <3>1, SwapRemoveKeeps
      <3> QED
        BY <2>2, <3>2, <3>3, AppendKeeps DEF AccountsInv, AccountRemains
    <2> QED
      BY <1>1, <1>3, <2>1, <2>2 DEF ChangePassword, Replaced
  <1>4. ASSUME NEW by \in Usernames, NEW u \in Usernames, DeleteUser(by, u)
        PROVE  AccountsInv'
    <2>1. CASE Refuses
      BY <1>1, <2>1 DEF Refuses
    <2>2. ASSUME NEW i \in At(u), ~LastAccount, credentials' = SwapRemove(credentials, i)
          PROVE  AccountsInv'
      <3>1. i \in DOMAIN credentials
        BY DEF At
      <3>2. Len(credentials) \in Nat /\ Len(credentials) > 1
        <4>1. credentials \in Seq(Credential)
          BY DEF AccountsInv
        <4>2. Len(credentials) \in Nat /\ DOMAIN credentials = 1..Len(credentials)
          BY <4>1
        <4>3. Len(credentials) # 1
          BY <2>2 DEF LastAccount
        <4> QED
          BY <3>1, <4>2, <4>3
      <3> DEFINE s == SwapRemove(credentials, i)
      <3>3. /\ s \in Seq(Credential)
            /\ Len(s) = Len(credentials) - 1
            /\ \A j, k \in DOMAIN s : s[j].username = s[k].username => j = k
        BY <3>1, SwapRemoveKeeps
      <3>4. s # <<>>
        BY <3>2, <3>3
      <3> QED
        BY <2>2, <3>3, <3>4 DEF AccountsInv, AccountRemains
    <2> QED
      BY <1>4, <2>1, <2>2 DEF DeleteUser
  <1>5. ASSUME NEW by \in Usernames,
               \/ \E raw \in CustomRoles : CreateRole(by, raw)
               \/ \E u \in Usernames, r \in RoleNames : AssignRole(by, u, r) \/ UnassignRole(by, u, r)
        PROVE  AccountsInv'
    BY <1>1, <1>5 DEF CreateRole, AssignRole, UnassignRole, Refuses
  <1> QED
    BY <1>1, <1>2, <1>3, <1>4, <1>5 DEF Next, vars

\* DeleteUser never removes the last account, and no order of CreateUser,
\* ChangePassword and DeleteUser gives a name two accounts, whatever the users,
\* passwords and roles.
THEOREM AnAccountRemains == Spec => []AccountRemains
  <1>1. Init => AccountsInv
    BY InitAccounts
  <1>2. AccountsInv /\ [Next]_vars => AccountsInv'
    BY NextAccounts
  <1>3. AccountsInv => AccountRemains
    BY DEF AccountsInv
  <1> QED
    BY <1>1, <1>2, <1>3, PTL DEF Spec

-----------------------------------------------------------------------------
(* Permission checks.  The loop over the roles of a user sees one verdict   *)
(* after another; V holds them.                                             *)

Says == {"allow", "deny"}
Say == Says \cup {"none"}

\* The loop ends with an allowance when one was seen and no denial.
LEMMA LoopOutcome ==
    ASSUME NEW n \in Nat, NEW V \in [1..n -> Say], NEW g, g[0] = "none",
           \A i \in 1..n : g[i] = Seen(g[i - 1], V[i])
    PROVE  g[n] = "allow" <=> /\ \E i \in 1..n : V[i] = "allow"
                              /\ \A i \in 1..n : V[i] # "deny"
  <1> DEFINE Denied(k) == \E i \in 1..k : V[i] = "deny"
             Allowed(k) == \E i \in 1..k : V[i] = "allow"
             Right(k) == g[k] = IF Denied(k) THEN "deny" ELSE IF Allowed(k) THEN "allow" ELSE "none"
             P == {k \in Nat : k <= n => Right(k)}
  <1>1. Right(0)
    OBVIOUS
  <1>2. ASSUME NEW k \in Nat, k + 1 <= n, Right(k)
        PROVE  Right(k + 1)
    <2>1. k + 1 \in 1..n /\ (k + 1) - 1 = k
      BY <1>2
    <2>2. g[k + 1] = Seen(g[k], V[k + 1]) /\ V[k + 1] \in Say
      BY <2>1
    <2>3. \A i : i \in 1..(k + 1) <=> i \in 1..k \/ i = k + 1
      OBVIOUS
    <2>4. Denied(k + 1) <=> Denied(k) \/ V[k + 1] = "deny"
      BY <2>3
    <2>5. Allowed(k + 1) <=> Allowed(k) \/ V[k + 1] = "allow"
      BY <2>3
    <2> HIDE DEF Denied, Allowed
    <2> QED
      BY <1>2, <2>2, <2>4, <2>5 DEF Seen, Say, Says
  <1> HIDE DEF Right
  <1>3. 0 \in P /\ \A k \in Nat : k \in P => k + 1 \in P
    BY <1>1, <1>2
  <1>4. Nat \subseteq P
    <2> HIDE DEF P
    <2> QED
      BY <1>3, Induction
  <1>5. Right(n)
    BY <1>4
  <1> QED
    BY <1>5 DEF Right

\* The values of a fold on the first positions, when every round is Seen.
LEMMA LoopFold ==
    ASSUME NEW n \in Nat, NEW V \in [1..n -> Say], NEW it, it[{}] = "none",
           \A s \in SUBSET (1..n) : s # {} => it[s] = Seen(it[s \ {Max(s)}], V[Max(s)])
    PROVE  it[1..n] = "allow" <=> /\ \E i \in 1..n : V[i] = "allow"
                                  /\ \A i \in 1..n : V[i] # "deny"
  <1> DEFINE g == [i \in 0..n |-> it[1..i]]
  <1>1. g[0] = "none"
    <2>1. 1..0 = {} /\ 0 \in 0..n
      OBVIOUS
    <2> QED
      BY <2>1
  <1>2. ASSUME NEW i \in 1..n
        PROVE  g[i] = Seen(g[i - 1], V[i])
    <2>1. 1..i \in SUBSET (1..n) /\ i \in 1..i /\ i \in Nat /\ i - 1 \in 0..n /\ i \in 0..n
      OBVIOUS
    <2>2. Max(1..i) = i /\ (1..i) \ {i} = 1..(i - 1)
      BY <2>1, MaxOfPrefix
    <2>3. it[1..i] = Seen(it[(1..i) \ {Max(1..i)}], V[Max(1..i)])
      BY <2>1
    <2>4. g[i] = it[1..i] /\ g[i - 1] = it[1..(i - 1)]
      BY <2>1
    <2> QED
      BY <2>2, <2>3, <2>4
  <1>3. g[n] = it[1..n]
    OBVIOUS
  <1> HIDE DEF g
  <1>4. g[n] = "allow" <=> /\ \E i \in 1..n : V[i] = "allow"
                           /\ \A i \in 1..n : V[i] # "deny"
    <2>1. \A i \in 1..n : g[i] = Seen(g[i - 1], V[i])
      BY <1>2
    <2>2. n \in Nat /\ V \in [1..n -> Say]
      OBVIOUS
    <2> QED
      BY ONLY <1>1, <2>1, <2>2, LoopOutcome, Zenon
  <1> QED
    BY <1>3, <1>4

\* There is such a function.
LEMMA LoopExists ==
    ASSUME NEW n \in Nat, NEW V \in [1..n -> Say]
    PROVE  \E it : /\ it = [s \in SUBSET (1..n) |-> it[s]]
                   /\ it[{}] = "none"
                   /\ \A s \in SUBSET (1..n) : s # {} => it[s] = Seen(it[s \ {Max(s)}], V[Max(s)])
  <1> DEFINE step == [i \in 1..n |-> [acc \in Say |-> Seen(acc, V[i])]]
  <1>1. step \in [1..n -> [Say -> Say]]
    BY DEF Seen, Say, Says
  <1>2. \A i \in 1..n, acc \in Say : step[i][acc] = Seen(acc, V[i])
    OBVIOUS
  <1> HIDE DEF step
  <1>3. PICK it \in [SUBSET (1..n) -> Say] : IsFold(it, n, "none", step)
    BY <1>1, FoldExists DEF Say
  <1>4. ASSUME NEW s \in SUBSET (1..n), s # {}
        PROVE  it[s] = Seen(it[s \ {Max(s)}], V[Max(s)])
    <2>1. Max(s) \in 1..n /\ it[s \ {Max(s)}] \in Say
      BY <1>4, MaxOf
    <2>2. it[s] = step[Max(s)][it[s \ {Max(s)}]]
      BY <1>3, <1>4 DEF IsFold
    <2> QED
      BY <1>2, <2>1, <2>2
  <1>5. it[{}] = "none"
    BY <1>3 DEF IsFold
  <1>6. it = [s \in SUBSET (1..n) |-> it[s]]
    OBVIOUS
  <1> QED
    BY <1>4, <1>5, <1>6

\* A role allows, denies or does not say.
Spoken(role) ==
    /\ \A a \in Actions : \A e \in DOMAIN role.grants[a] : role.grants[a][e] \in Says
    /\ \A c \in DOMAIN role.admin : role.admin[c] \in Says

SpokenList(l) == IsList(l) /\ \A i \in DOMAIN l : Spoken(l[i])

RolesInv ==
    /\ \A r \in DOMAIN roles : Spoken(roles[r])
    /\ \A u \in DOMAIN users : SpokenList(users[u])

\* HasAdminPermission: what the loop makes of a list of roles.
LEMMA AdminLoop ==
    ASSUME NEW u \in DOMAIN users, SpokenList(users[u]), NEW cmd
    PROVE  HasAdminPermission(u, cmd)
             <=> /\ \E i \in DOMAIN users[u] : AdminVerdict(users[u][i], cmd) = "allow"
                 /\ \A i \in DOMAIN users[u] : AdminVerdict(users[u][i], cmd) # "deny"
  <1> DEFINE l == users[u]
             n == Len(l)
             V == [i \in 1..n |-> AdminVerdict(l[i], cmd)]
             Q(it) == it = [s \in SUBSET (1..n) |->
                              IF s = {} THEN "none"
                              ELSE Seen(it[s \ {Max(s)}], AdminVerdict(l[Max(s)], cmd))]
             it0 == CHOOSE it : Q(it)
  <1>1. n \in Nat /\ DOMAIN l = 1..n
    BY ListIsFunction DEF SpokenList
  <1>2. HasAdminPermission(u, cmd) <=> it0[1..n] = "allow"
    <2> HIDE DEF n
    <2> QED
      BY <1>1 DEF HasAdminPermission, FoldLeft, MapThenFoldSet
  <1> HIDE DEF n, l
  <1>3. V \in [1..n -> Say]
    BY <1>1 DEF l, SpokenList, Spoken, AdminVerdict, Say, Says
  <1>4. \A i \in 1..n : V[i] = AdminVerdict(l[i], cmd)
    OBVIOUS
  <1> HIDE DEF V
  <1>5. \A s \in SUBSET (1..n) : s # {} => V[Max(s)] = AdminVerdict(l[Max(s)], cmd)
    BY <1>1, <1>4, MaxOf
  <1>6. PICK it : /\ it = [s \in SUBSET (1..n) |-> it[s]]
                  /\ it[{}] = "none"
                  /\ \A s \in SUBSET (1..n) : s # {} => it[s] = Seen(it[s \ {Max(s)}], V[Max(s)])
    BY <1>1, <1>3, LoopExists
  <1>7. \E x : Q(x)
    <2>1. Q(it)
      BY <1>5, <1>6
    <2> QED
      BY <2>1
  <1>8. Q(it0)
    <2> HIDE DEF Q
    <2> QED
      BY <1>7
  <1> HIDE DEF it0
  <1>9. it0[1..n] = "allow" <=> /\ \E i \in 1..n : V[i] = "allow"
                                /\ \A i \in 1..n : V[i] # "deny"
    <2>1. it0[{}] = "none"
      BY <1>8
    <2>2. \A s \in SUBSET (1..n) : s # {} => it0[s] = Seen(it0[s \ {Max(s)}], V[Max(s)])
      BY <1>5, <1>8
    <2> QED
      BY <1>1, <1>3, <2>1, <2>2, LoopFold
  <1> QED
    BY <1>1, <1>2, <1>4, <1>9 DEF l

\* HasPermission: the same for one entity.
LEMMA MessageLoop ==
    ASSUME NEW u \in DOMAIN users, SpokenList(users[u]), NEW a \in Actions, NEW e
    PROVE  HasPermission(u, e, a)
             <=> /\ \E i \in DOMAIN users[u] : Verdict(users[u][i], a, e) = "allow"
                 /\ \A i \in DOMAIN users[u] : Verdict(users[u][i], a, e) # "deny"
  <1> DEFINE l == users[u]
             n == Len(l)
             V == [i \in 1..n |-> Verdict(l[i], a, e)]
             Q(it) == it = [s \in SUBSET (1..n) |->
                              IF s = {} THEN "none"
                              ELSE Seen(it[s \ {Max(s)}], Verdict(l[Max(s)], a, e))]
             it0 == CHOOSE it : Q(it)
  <1>1. n \in Nat /\ DOMAIN l = 1..n
    BY ListIsFunction DEF SpokenList
  <1>2. HasPermission(u, e, a) <=> it0[1..n] = "allow"
    <2> HIDE DEF n
    <2> QED
      BY <1>1 DEF HasPermission, FoldLeft, MapThenFoldSet
  <1> HIDE DEF n, l
  <1>3. V \in [1..n -> Say]
    BY <1>1 DEF l, SpokenList, Spoken, Verdict, Say, Says
  <1>4. \A i \in 1..n : V[i] = Verdict(l[i], a, e)
    OBVIOUS
  <1> HIDE DEF V
  <1>5. \A s \in SUBSET (1..n) : s # {} => V[Max(s)] = Verdict(l[Max(s)], a, e)
    BY <1>1, <1>4, MaxOf
  <1>6. PICK it : /\ it = [s \in SUBSET (1..n) |-> it[s]]
                  /\ it[{}] = "none"
                  /\ \A s \in SUBSET (1..n) : s # {} => it[s] = Seen(it[s \ {Max(s)}], V[Max(s)])
    BY <1>1, <1>3, LoopExists
  <1>7. \E x : Q(x)
    <2>1. Q(it)
      BY <1>5, <1>6
    <2> QED
      BY <2>1
  <1>8. Q(it0)
    <2> HIDE DEF Q
    <2> QED
      BY <1>7
  <1> HIDE DEF it0
  <1>9. it0[1..n] = "allow" <=> /\ \E i \in 1..n : V[i] = "allow"
                                /\ \A i \in 1..n : V[i] # "deny"
    <2>1. it0[{}] = "none"
      BY <1>8
    <2>2. \A s \in SUBSET (1..n) : s # {} => it0[s] = Seen(it0[s \ {Max(s)}], V[Max(s)])
      BY <1>5, <1>8
    <2> QED
      BY <1>1, <1>3, <2>1, <2>2, LoopFold
  <1> QED
    BY <1>1, <1>2, <1>4, <1>9 DEF l

\* Every grant and every admin permission of a role is an allowance or a denial.
LEMMA RoleSpoken ==
    ASSUME NEW name, NEW grants, NEW admin,
           \A a \in DOMAIN grants : \A e \in DOMAIN grants[a] : grants[a][e] \in Says,
           \A c \in DOMAIN admin : admin[c] \in Says
    PROVE  Spoken(Role(name, grants, admin))
  <1> DEFINE g == [a \in Actions |-> IF a \in DOMAIN grants THEN grants[a] ELSE <<>>]
  <1>1. Role(name, grants, admin).grants = g /\ Role(name, grants, admin).admin = admin
    BY DEF Role
  <1>2. \A a \in Actions : \A e \in DOMAIN g[a] : g[a][e] \in Says
    OBVIOUS
  <1> HIDE DEF g
  <1> QED
    BY <1>1, <1>2 DEF Spoken

LEMMA BuiltInSpoken == \A r \in DOMAIN BuiltInRoles : Spoken(BuiltInRoles[r])
  <1> USE DEF Anything, Says
  <1>1. Spoken(Role("ROOT", [a \in Actions |-> Anything("allow")], [c \in Commands |-> "allow"]))
    BY RoleSpoken
  <1>2. Spoken(Role("ADMIN", <<>>, [c \in Commands |-> "allow"]))
    BY RoleSpoken
  <1>3. Spoken(Role("PRODUCER", [a \in {"SubmitMessage", "SubmitBatchedMessages"} |-> Anything("allow")], <<>>))
    BY RoleSpoken
  <1>4. Spoken(Role("CONSUMER", [a \in {"GetMessages", "Ack", "BatchAck"} |-> Anything("allow")], <<>>))
    BY RoleSpoken
  <1>5. Spoken(Role("DENY", [a \in Actions |-> Anything("deny")], [c \in Commands |-> "deny"]))
    BY RoleSpoken
  <1> QED
    BY <1>1, <1>2, <1>3, <1>4, <1>5 DEF BuiltInRoles

\* The entry that counts for an entity is one of the entries.
LEMMA ParsedSpoken ==
    ASSUME NEW raw \in CustomRoles
    PROVE  Spoken(Parsed(raw))
  <1> DEFINE Entry == [entity : Entities \cup {ALL}, verdict : Says]
             grants == [a \in DOMAIN raw.grants |-> ParsePermissions(raw.grants[a])]
  <1>1. ASSUME NEW l \in Seq(Entry), NEW e \in DOMAIN ParsePermissions(l)
        PROVE  ParsePermissions(l)[e] \in Says
    <2> DEFINE I == {i \in 1..Len(l) : l[i].entity = e}
    <2>1. Len(l) \in Nat /\ DOMAIN l = 1..Len(l)
      OBVIOUS
    <2>2. e \in {l[i].entity : i \in DOMAIN l}
      BY DEF ParsePermissions
    <2>3. I # {} /\ I \in SUBSET (1..Len(l))
      BY <2>1, <2>2
    <2>4. ParsePermissions(l)[e] = l[SelectLastInSeq(l, LAMBDA x : x.entity = e)].verdict
      BY <2>2 DEF ParsePermissions
    <2>5. SelectLastInSeq(l, LAMBDA x : x.entity = e) = Max(I)
      BY <2>3 DEF SelectLastInSeq
    <2> HIDE DEF I
    <2>6. Max(I) \in 1..Len(l)
      BY <2>1, <2>3, MaxOf
    <2>7. l[Max(I)] \in Entry
      <3> HIDE DEF Entry
      <3>1. \A i \in 1..Len(l) : l[i] \in Entry
        BY <2>1
      <3> QED
        BY <2>6, <3>1
    <2> QED
      BY <2>4, <2>5, <2>7
  <1>2. \A a \in DOMAIN raw.grants : raw.grants[a] \in Seq(Entry)
    BY AccountsAssumption DEF Says
  <1>3. \A c \in DOMAIN raw.admin : raw.admin[c] \in Says
    BY AccountsAssumption DEF Says
  <1> HIDE DEF Entry
  <1>4. \A a \in DOMAIN grants : \A e \in DOMAIN grants[a] : grants[a][e] \in Says
    BY <1>1, <1>2
  <1> HIDE DEF grants
  <1>5. Spoken(Role(raw.name, grants, raw.admin))
    BY <1>3, <1>4, RoleSpoken
  <1> QED
    BY <1>5 DEF Parsed, grants

\* A user gets one more role, or loses one by swapping.
LEMMA AssignedSpoken ==
    ASSUME NEW l, SpokenList(l), NEW role, Spoken(role)
    PROVE  SpokenList(Append(l, role))
  <1>1. Len(l) \in Nat /\ DOMAIN l = 1..Len(l)
    BY ListIsFunction DEF SpokenList
  <1>2. /\ IsList(Append(l, role)) /\ DOMAIN Append(l, role) = 1..(Len(l) + 1)
        /\ \A i \in 1..Len(l) : Append(l, role)[i] = l[i]
        /\ Append(l, role)[Len(l) + 1] = role
    BY ListAppend DEF SpokenList
  <1>3. \A i \in 1..(Len(l) + 1) : i \in 1..Len(l) \/ i = Len(l) + 1
    BY <1>1
  <1>4. \A i \in 1..Len(l) : Spoken(l[i])
    BY <1>1 DEF SpokenList
  <1> QED
    BY <1>2, <1>3, <1>4 DEF SpokenList

LEMMA SwappedSpoken ==
    ASSUME NEW l, SpokenList(l), l # <<>>, NEW k
    PROVE  SpokenList(SwapRemove(l, k))
  <1> DEFINE n == Len(l)
             r == SwapRemove(l, k)
  <1>1. n \in Nat /\ DOMAIN l = 1..n /\ IsList(l)
    BY ListIsFunction DEF SpokenList
  <1>2. n - 1 \in Nat /\ n \in 1..n
    BY <1>1 DEF IsList
  <1>3. r = [i \in 1..(n - 1) |-> r[i]] /\ DOMAIN r = 1..(n - 1)
    BY DEF SwapRemove
  <1>4. IsList(r)
    <2> HIDE DEF r, n
    <2> QED
      BY <1>2, <1>3, FunctionIsList
  <1>5. \A i \in 1..(n - 1) : i \in 1..n /\ (r[i] = l[n] \/ r[i] = l[i])
    BY <1>1 DEF SwapRemove
  <1> QED
    BY <1>1, <1>2, <1>3, <1>4, <1>5 DEF SpokenList

LEMMA RolesKept == RolesInv /\ [Next]_vars => RolesInv'
  <1> SUFFICES ASSUME RolesInv, [Next]_vars PROVE RolesInv'
    OBVIOUS
  <1>1. CASE UNCHANGED <<roles, users>>
    BY <1>1 DEF RolesInv
  <1>2. ASSUME NEW by \in Usernames, NEW raw \in CustomRoles, CreateRole(by, raw)
        PROVE  RolesInv'
    <2>1. CASE Refuses
      BY <1>1, <2>1 DEF Refuses
    <2>2. CASE roles' = AddRole(raw) /\ users' = users
      BY <2>2, ParsedSpoken DEF AddRole, With, RolesInv
    <2> QED
      BY <1>2, <2>1, <2>2 DEF CreateRole
  <1>3. ASSUME NEW by \in Usernames, NEW u, NEW r, AssignRole(by, u, r)
        PROVE  RolesInv'
    <2>1. CASE Refuses
      BY <1>1, <2>1 DEF Refuses
    <2>2. CASE users' = Assigned(u, r) /\ roles' = roles /\ r \in DOMAIN roles
      <3> DEFINE new == IF u \in DOMAIN users THEN Append(users[u], roles[r]) ELSE <<roles[r]>>
      <3>1. Spoken(roles[r])
        BY <2>2 DEF RolesInv
      <3>2. SpokenList(new)
        <4>1. CASE u \in DOMAIN users
          BY <3>1, <4>1, AssignedSpoken DEF RolesInv
        <4>2. CASE u \notin DOMAIN users
          <5>1. <<roles[r]>> = [i \in 1..1 |-> <<roles[r]>>[i]] /\ DOMAIN <<roles[r]>> = 1..1
            OBVIOUS
          <5>2. IsList(<<roles[r]>>)
            BY <5>1, FunctionIsList
          <5>3. \A i \in 1..1 : <<roles[r]>>[i] = roles[r]
            OBVIOUS
          <5> QED
            BY <3>1, <4>2, <5>1, <5>2, <5>3 DEF SpokenList
        <4> QED
          BY <4>1, <4>2
      <3>3. users' = With(users, u, new)
        BY <2>2 DEF Assigned
      <3> HIDE DEF new
      <3> QED
        BY <2>2, <3>2, <3>3 DEF With, RolesInv
    <2> QED
      BY <1>3, <2>1, <2>2 DEF AssignRole
  <1>4. ASSUME NEW by \in Usernames, NEW u, NEW r, UnassignRole(by, u, r)
        PROVE  RolesInv'
    <2>1. CASE Refuses
      BY <1>1, <2>1 DEF Refuses
    <2>2. CASE users' = Unassigned(u, r) /\ roles' = roles /\ Holds(u, r)
      <3> DEFINE k == SelectInSeq(users[u], LAMBDA x : x.name = r)
      <3>1. u \in DOMAIN users /\ users[u] # <<>> /\ SpokenList(users[u])
        BY <2>2 DEF Holds, RolesInv
      <3>2. users' = [users EXCEPT ![u] = SwapRemove(users[u], k)]
        BY <2>2 DEF Unassigned
      <3> HIDE DEF k
      <3>3. SpokenList(SwapRemove(users[u], k))
        BY <3>1, SwappedSpoken
      <3> QED
        BY <2>2, <3>1, <3>2, <3>3 DEF RolesInv
    <2> QED
      BY <1>4, <2>1, <2>2 DEF UnassignRole
  <1>5. ASSUME NEW by \in Usernames,
               \/ \E u \in Usernames, p \in Passwords : CreateUser(by, u, p)
               \/ \E u \in Usernames, old, new \in Passwords : ChangePassword(by, u, old, new)
               \/ \E u \in Usernames : DeleteUser(by, u)
        PROVE  RolesInv'
    BY <1>1, <1>5 DEF CreateUser, ChangePassword, DeleteUser, Refuses
  <1> QED
    BY <1>1, <1>2, <1>3, <1>4, <1>5 DEF Next, vars

\* The loops of HasPermission and HasAdminPermission stop at a denial and go on after
\* an allowance: for any roles, in any order and repeated or not, they answer yes when
\* a role of the user allows and none denies.
THEOREM DenialsOutweigh == Spec => []DenialOutweighs
  <1>1. Init => RolesInv
    <2> SUFFICES ASSUME Init PROVE RolesInv
      OBVIOUS
    <2> DEFINE l == <<BuiltInRoles["ROOT"]>>
    <2>1. Spoken(BuiltInRoles["ROOT"])
      <3>1. "ROOT" \in DOMAIN BuiltInRoles
        BY DEF BuiltInRoles
      <3> QED
        BY <3>1, BuiltInSpoken
    <2>2. l = [i \in 1..1 |-> l[i]] /\ DOMAIN l = 1..1 /\ \A i \in 1..1 : l[i] = BuiltInRoles["ROOT"]
      OBVIOUS
    <2> HIDE DEF l
    <2>3. IsList(l)
      BY <2>2, FunctionIsList
    <2>4. SpokenList(l)
      BY <2>1, <2>2, <2>3 DEF SpokenList
    <2>5. users = [u \in {Root} |-> l] /\ roles = BuiltInRoles
      BY DEF Init, l
    <2> QED
      BY <2>4, <2>5, BuiltInSpoken DEF RolesInv
  <1>2. RolesInv => DenialOutweighs
    <2> SUFFICES ASSUME RolesInv, NEW u \in DOMAIN users
                 PROVE  /\ \A cmd \in Commands :
                             HasAdminPermission(u, cmd) <=>
                               "allow" \in Verdicts(u, cmd) /\ "deny" \notin Verdicts(u, cmd)
                        /\ \A a \in Actions, e \in Entities :
                             HasPermission(u, e, a) <=>
                               "allow" \in MessageVerdicts(u, e, a) /\ "deny" \notin MessageVerdicts(u, e, a)
      BY DEF DenialOutweighs
    <2>1. SpokenList(users[u])
      BY DEF RolesInv
    <2>2. ASSUME NEW cmd \in Commands
          PROVE  HasAdminPermission(u, cmd) <=>
                   "allow" \in Verdicts(u, cmd) /\ "deny" \notin Verdicts(u, cmd)
      <3>1. HasAdminPermission(u, cmd) <=>
              /\ \E i \in DOMAIN users[u] : AdminVerdict(users[u][i], cmd) = "allow"
              /\ \A i \in DOMAIN users[u] : AdminVerdict(users[u][i], cmd) # "deny"
        BY <2>1, AdminLoop
      <3> QED
        BY <3>1 DEF Verdicts
    <2>3. ASSUME NEW a \in Actions, NEW e \in Entities
          PROVE  HasPermission(u, e, a) <=>
                   "allow" \in MessageVerdicts(u, e, a) /\ "deny" \notin MessageVerdicts(u, e, a)
      <3>1. HasPermission(u, e, a) <=>
              /\ \E i \in DOMAIN users[u] : Verdict(users[u][i], a, e) = "allow"
              /\ \A i \in DOMAIN users[u] : Verdict(users[u][i], a, e) # "deny"
        BY <2>1, MessageLoop
      <3> QED
        BY <3>1 DEF MessageVerdicts
    <2> QED
      BY <2>2, <2>3
  <1> QED
    BY <1>1, <1>2, RolesKept, PTL DEF Spec

=============================================================================
