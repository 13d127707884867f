------------------------------ MODULE Accounts ------------------------------
(***************************************************************************)
(* Accounts and roles as the state machine keeps them: the credentials of  *)
(* auth.authManager, the roles and the users' roles of rbac.roleManager,   *)
(* and the commands of the log that change them.  Every command is checked *)
(* against the roles of the user who sent it when it is applied.           *)
(*                                                                         *)
(* A password stands for its salt and hash.  Sessions are left out.        *)
(***************************************************************************)
EXTENDS Integers, Sequences, FiniteSets, SequencesExt

CONSTANTS
    Usernames,   \* user names, the built-in Root among them
    Root,        \* the account made at start-up ("sybline")
    Passwords,
    Entities,    \* queue names and routing keys
    CustomRoles, \* the roles users may define: records [name, grants, admin]
    MaxRoles     \* bound: roles assigned to one user

\* The entity "*"
ALL == "*"

\* Message actions, and the commands that need an admin permission
Actions == {"GetMessages", "SubmitMessage", "SubmitBatchedMessages", "Ack", "BatchAck"}
Commands == {"CreateUser", "DeleteUser", "ChangePassword", "CreateRole", "AssignRole",
             "UnassignRole", "CreateQueue", "DeleteQueue", "AddRoutingKey", "DeleteRoutingKey",
             "DeleteRole"}

ASSUME AccountsAssumption ==
    /\ Root \in Usernames
    /\ Passwords # {}
    /\ ALL \notin Entities
    /\ \A raw \in CustomRoles :
         /\ DOMAIN raw.admin \subseteq Commands /\ DOMAIN raw.grants \subseteq Actions
         /\ \A c \in DOMAIN raw.admin : raw.admin[c] \in {"allow", "deny"}
         /\ \A a \in DOMAIN raw.grants :
              raw.grants[a] \in Seq([entity : Entities \cup {ALL}, verdict : {"allow", "deny"}])

VARIABLES
    credentials,   \* authManager.credentials
    roles,         \* role name -> role
    users,         \* user name -> the roles assigned to it
    failed         \* did the last command return an error

vars == <<credentials, roles, users, failed>>

With(f, x, y) == [z \in DOMAIN f \cup {x} |-> IF z = x THEN y ELSE f[z]]

\* The slice idiom s[i] = s[len(s)-1]; s = s[:len(s)-1]
SwapRemove(s, i) == [k \in 1..(Len(s) - 1) |-> IF k = i THEN s[Len(s)] ELSE s[k]]

-----------------------------------------------------------------------------
(* Roles *)

\* "allow:a,deny:b,...": a later entry for the same entity replaces an earlier one.
ParsePermissions(entries) ==
    [e \in {entries[i].entity : i \in DOMAIN entries} |->
        entries[SelectLastInSeq(entries, LAMBDA x : x.entity = e)].verdict]

\* Actions a role does not name grant and deny nothing.
Role(name, grants, admin) ==
    [name |-> name,
     grants |-> [a \in Actions |-> IF a \in DOMAIN grants THEN grants[a] ELSE <<>>],
     admin |-> admin]

Anything(verdict) == [e \in {ALL} |-> verdict]

BuiltInRoles ==
    [r \in {"ROOT", "ADMIN", "PRODUCER", "CONSUMER", "DENY"} |->
        CASE r = "ROOT" -> Role(r, [a \in Actions |-> Anything("allow")], [c \in Commands |-> "allow"])
          [] r = "ADMIN" -> Role(r, <<>>, [c \in Commands |-> "allow"])
          [] r = "PRODUCER" ->
               Role(r, [a \in {"SubmitMessage", "SubmitBatchedMessages"} |-> Anything("allow")], <<>>)
          [] r = "CONSUMER" ->
               Role(r, [a \in {"GetMessages", "Ack", "BatchAck"} |-> Anything("allow")], <<>>)
          [] r = "DENY" -> Role(r, [a \in Actions |-> Anything("deny")], [c \in Commands |-> "deny"])]

\* What CreateRole makes of a role in JSON.
Parsed(raw) ==
    Role(raw.name, [a \in DOMAIN raw.grants |-> ParsePermissions(raw.grants[a])], raw.admin)

Init ==
    /\ credentials = <<[username |-> Root, password |-> CHOOSE p \in Passwords : TRUE]>>
    /\ roles = BuiltInRoles
    /\ users = [u \in {Root} |-> <<BuiltInRoles["ROOT"]>>]
    /\ failed = FALSE

-----------------------------------------------------------------------------
(* Permission checks *)

\* Mutant of Seen: the last role decides.
SeenLast(acc, verdict) == IF verdict = "none" THEN acc ELSE verdict

\* One round of the loop over the roles: a denial ends it, an allowance is kept.
Seen(acc, verdict) == IF acc = "deny" \/ verdict = "none" THEN acc ELSE verdict

\* A role's say on one entity: "*" is looked up first and settles it.
Verdict(role, action, entity) ==
    LET g == role.grants[action]
    IN  IF ALL \in DOMAIN g THEN g[ALL] ELSE IF entity \in DOMAIN g THEN g[entity] ELSE "none"

AdminVerdict(role, cmd) == IF cmd \in DOMAIN role.admin THEN role.admin[cmd] ELSE "none"

HasPermission(u, entity, action) ==
    /\ u \in DOMAIN users
    /\ FoldLeft(LAMBDA acc, r : Seen(acc, Verdict(r, action, entity)), "none", users[u]) = "allow"

HasAdminPermission(u, cmd) ==
    /\ u \in DOMAIN users
    /\ FoldLeft(LAMBDA acc, r : Seen(acc, AdminVerdict(r, cmd)), "none", users[u]) = "allow"

-----------------------------------------------------------------------------
(* Commands of the log *)

Returns(err) == failed' = err

Refuses == Returns(TRUE) /\ UNCHANGED <<credentials, roles, users>>

At(u) == {i \in DOMAIN credentials : credentials[i].username = u}

UserExists(u) == At(u) # {}

Added(u, p) == Append(credentials, [username |-> u, password |-> p])

CreateUser(by, u, p) ==
    \/ (~HasAdminPermission(by, "CreateUser") \/ UserExists(u)) /\ Refuses
    \/ /\ HasAdminPermission(by, "CreateUser") /\ ~UserExists(u)
       /\ credentials' = Added(u, p)
       /\ Returns(FALSE)
       /\ UNCHANGED <<roles, users>>

\* The entry is deleted and a new one appended.
Replaced(i, u, new) == Append(SwapRemove(credentials, i), [username |-> u, password |-> new])

\* A wrong old password is answered with false and no error.
ChangePassword(by, u, old, new) ==
    \/ (~HasAdminPermission(by, "ChangePassword") \/ ~UserExists(u)) /\ Refuses
    \/ /\ HasAdminPermission(by, "ChangePassword")
       /\ \E i \in At(u) :
            \/ /\ credentials[i].password # old
               /\ UNCHANGED <<credentials, roles, users>>
               /\ Returns(FALSE)
            \/ /\ credentials[i].password = old
               /\ credentials' = Replaced(i, u, new)
               /\ Returns(FALSE)
               /\ UNCHANGED <<roles, users>>

\* Mutant of LastAccount: off by one.
LastAccountOfOthers == Len(credentials) = 0

LastAccount == Len(credentials) = 1

\* The roles assigned to the name stay.
DeleteUser(by, u) ==
    \/ (~HasAdminPermission(by, "DeleteUser") \/ ~UserExists(u) \/ LastAccount) /\ Refuses
    \/ /\ HasAdminPermission(by, "DeleteUser") /\ ~LastAccount
       /\ \E i \in At(u) : credentials' = SwapRemove(credentials, i)
       /\ Returns(FALSE)
       /\ UNCHANGED <<roles, users>>

AddRole(raw) == With(roles, raw.name, Parsed(raw))

\* handler.CreateRole parses the role, the state machine adds it.
CreateRole(by, raw) ==
    \/ (~HasAdminPermission(by, "CreateRole") \/ raw.name \in DOMAIN roles) /\ Refuses
    \/ /\ HasAdminPermission(by, "CreateRole") /\ raw.name \notin DOMAIN roles
       /\ roles' = AddRole(raw)
       /\ Returns(FALSE)
       /\ UNCHANGED <<credentials, users>>

\* A role may be assigned again to a user who has it.
Assigned(u, r) ==
    With(users, u, IF u \in DOMAIN users THEN Append(users[u], roles[r]) ELSE <<roles[r]>>)

AssignRole(by, u, r) ==
    \/ (~HasAdminPermission(by, "AssignRole") \/ ~UserExists(u) \/ r \notin DOMAIN roles) /\ Refuses
    \/ /\ HasAdminPermission(by, "AssignRole") /\ UserExists(u) /\ r \in DOMAIN roles
       /\ u \in DOMAIN users => Len(users[u]) < MaxRoles
       /\ users' = Assigned(u, r)
       /\ Returns(FALSE)
       /\ UNCHANGED <<credentials, roles>>

Holds(u, r) == u \in DOMAIN users /\ \E i \in DOMAIN users[u] : users[u][i].name = r

\* The first entry of that name goes.
Unassigned(u, r) ==
    [users EXCEPT ![u] = SwapRemove(@, SelectInSeq(@, LAMBDA x : x.name = r))]

UnassignRole(by, u, r) ==
    \/ (~HasAdminPermission(by, "UnassignRole") \/ ~UserExists(u)
         \/ r \notin DOMAIN roles \/ ~Holds(u, r)) /\ Refuses
    \/ /\ HasAdminPermission(by, "UnassignRole") /\ UserExists(u)
       /\ r \in DOMAIN roles /\ Holds(u, r)
       /\ users' = Unassigned(u, r)
       /\ Returns(FALSE)
       /\ UNCHANGED <<credentials, roles>>

-----------------------------------------------------------------------------
(* Specification *)

RoleNames == DOMAIN BuiltInRoles \cup {raw.name : raw \in CustomRoles}

Next ==
    \E by \in Usernames :
        \/ \E u \in Usernames, p \in Passwords : CreateUser(by, u, p)
        \/ \E u \in Usernames, old, new \in Passwords : ChangePassword(by, u, old, new)
        \/ \E u \in Usernames : DeleteUser(by, u)
        \/ \E raw \in CustomRoles : CreateRole(by, raw)
        \/ \E u \in Usernames, r \in RoleNames : AssignRole(by, u, r)
        \/ \E u \in Usernames, r \in RoleNames : UnassignRole(by, u, r)

Spec == Init /\ [][Next]_vars

-----------------------------------------------------------------------------
(* Properties *)

\* "cannot delete all accounts, at least one must remain": through every order of
\* creation, deletion and password change there is an account, and no name has two.
AccountRemains ==
    /\ credentials # <<>>
    /\ \A i, j \in DOMAIN credentials : credentials[i].username = credentials[j].username => i = j

Verdicts(u, cmd) == {AdminVerdict(users[u][i], cmd) : i \in DOMAIN users[u]}
MessageVerdicts(u, e, a) == {Verdict(users[u][i], a, e) : i \in DOMAIN users[u]}

\* Between the roles of a user, one that denies outweighs all that allow, in whatever
\* order assignments and swapping removals left them: HasPermission and
\* HasAdminPermission depend on the set of a user's roles only.  What one role says
\* of an entity is Verdict, where an allowance of "*" hides a denial by name.
DenialOutweighs ==
    \A u \in DOMAIN users :
        /\ \A cmd \in Commands :
             HasAdminPermission(u, cmd) <=> "allow" \in Verdicts(u, cmd) /\ "deny" \notin Verdicts(u, cmd)
        /\ \A a \in Actions, e \in Entities :
             HasPermission(u, e, a) <=>
                 "allow" \in MessageVerdicts(u, e, a) /\ "deny" \notin MessageVerdicts(u, e, a)

=============================================================================
