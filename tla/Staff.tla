-------------------------------- MODULE Staff --------------------------------
(***************************************************************************)
(* Users, roles, the permissions of roles and the roles of users.          *)
(*                                                                         *)
(* Every handler checks with SELECTs and then writes; what the checks      *)
(* promise is only kept by the unique indexes, and these know nothing of   *)
(* deleted_at, of upper and lower case, or of a branch that is NULL.       *)
(*                                                                         *)
(* An e-mail address is a mailbox and the way it is typed; a user name is  *)
(* a base and the number _create_google_user appends, 1 for none.          *)
(***************************************************************************)
EXTENDS Integers, Sequences

CONSTANTS
    Organizations,
    Mailboxes,      \* e-mail addresses, lower case; each is also the base of a user name
    Branches,
    Permissions,
    Requests,       \* requests that may be in flight; a singleton is a serial run
    Null,
    GoogleDefault,  \* GOOGLE_DEFAULT_ORGANIZATION_ID
    MaxUsers,       \* bound of the model: users
    MaxRoles,       \* bound of the model: roles
    MaxServed       \* bound of the model: requests begun in a behaviour

VARIABLES
    users,         \* in the order of their ids
    roles,         \* in the order of their ids, with role_permissions
    user_roles,    \* rows, per user, role and branch
    staff_session, \* per request: what it has read
    staff_served   \* requests begun so far (bound of the model)

staff == <<users, roles, user_roles>>
staffVars == <<staff, staff_session, staff_served>>

Emails == Mailboxes \X {"lower", "typed"}
Lower(email) == <<email[1], "lower">>
Names == Mailboxes \X (Nat \ {0})

User == [organization : Organizations, username : Names, email : Emails, deleted : BOOLEAN]

\* asked: the permission_ids of the last request that wrote them (history).
Role == [name : Mailboxes, is_system : BOOLEAN, permissions : SUBSET Permissions,
         asked : SUBSET Permissions, deleted : BOOLEAN]

UserRole == [user : 1 .. MaxUsers, role : 1 .. MaxRoles, branch : Branches \union {Null}]

IdleRequest ==
    [stage |-> "idle", handler |-> Null, organization |-> Null, username |-> Null, email |-> Null,
     branches |-> FALSE, user |-> 0, role |-> 0, branch |-> Null, permissions |-> {}, removed |-> {}]

\* The seed writes one system role and no user.
Init ==
    /\ users = <<>>
    /\ roles = <<[name |-> CHOOSE m \in Mailboxes : TRUE, is_system |-> TRUE, permissions |-> {},
                  asked |-> {}, deleted |-> FALSE]>>
    /\ user_roles = [a \in UserRole |-> 0]
    /\ staff_session = [r \in Requests |-> IdleRequest]
    /\ staff_served = 0

-----------------------------------------------------------------------------
Begin(r, handler, s) ==
    /\ staff_session[r].stage = "idle"
    /\ staff_served < MaxServed
    /\ staff_served' = staff_served + 1
    /\ staff_session' = [staff_session EXCEPT ![r] = [s EXCEPT !.handler = handler]]
    /\ UNCHANGED staff

Commit(r) ==
    /\ staff_session' = [staff_session EXCEPT ![r] = IdleRequest]
    /\ UNCHANGED staff_served

\* An error of the handler, or the client is gone: close without commit.
Abandon(r) == staff_session[r].stage # "idle" /\ Commit(r) /\ UNCHANGED staff

Assignment(i, k, branch) == [user |-> i, role |-> k, branch |-> branch]

\* INSERT INTO user_roles.
Assigned(i, k, branch) == [user_roles EXCEPT ![Assignment(i, k, branch)] = @ + 1]

LiveIn(o) == {i \in DOMAIN users : users[i].organization = o /\ ~users[i].deleted}

-----------------------------------------------------------------------------
\* register, create_user, _create_google_user

NewUser(o, name, stored) ==
    [IdleRequest EXCEPT !.stage = "insert user", !.organization = o, !.username = name,
                        !.email = stored]

Stored(email) == Lower(email)

Register(r, o, name, email) ==
    /\ Len(users) < MaxUsers
    /\ \A i \in LiveIn(o) : users[i].username # name /\ Lower(users[i].email) # Lower(email)
    /\ Begin(r, "register", NewUser(o, name, Stored(email)))

\* find_by_username_or_email compares the address as it is.
Unused(o, name, email) ==
    \A i \in LiveIn(o) : users[i].username # name /\ users[i].email # email

CreateUser(r, o, name, email, branches) ==
    /\ Len(users) < MaxUsers
    /\ Unused(o, name, email)
    /\ Begin(r, "create", [NewUser(o, name, email) EXCEPT !.branches = branches])

\* The first of base, base-2, base-3, ... that no live user of the organization has.
FreeName(o, base) ==
    <<base, CHOOSE n \in 1..(Len(users) + 1) :
                /\ \A i \in LiveIn(o) : users[i].username # <<base, n>>
                /\ \A m \in 1..(n - 1) : \E i \in LiveIn(o) : users[i].username = <<base, m>>>>

\* A Google login of an address no user of any organization has.
GoogleUser(r, mailbox) ==
    /\ Len(users) < MaxUsers
    /\ \A i \in DOMAIN users : users[i].email[1] # mailbox
    /\ Begin(r, "google", NewUser(GoogleDefault, FreeName(GoogleDefault, mailbox),
                                  <<mailbox, "lower">>))

\* The unique indexes, over deleted users too.
Conflict(s, exclude) ==
    \E i \in DOMAIN users \ exclude :
        /\ users[i].organization = s.organization
        /\ users[i].username = s.username \/ users[i].email = s.email

\* branch_ids become user_roles without a role, which the schema refuses.
InsertUser(r) ==
    LET s == staff_session[r] IN
    /\ s.stage = "insert user"
    /\ Len(users) < MaxUsers
    /\ ~Conflict(s, {}) /\ ~s.branches
    /\ users' = Append(users, [organization |-> s.organization, username |-> s.username,
                               email |-> s.email, deleted |-> FALSE])
    /\ user_roles' = IF s.handler = "google"
                     THEN Assigned(Len(users) + 1, 1, Null) ELSE user_roles
    /\ Commit(r)
    /\ UNCHANGED roles

-----------------------------------------------------------------------------
\* update_user, delete_user

\* branch_ids: not given, or given, empty or not.
LoadUser(r, i, email, branchIds) ==
    /\ ~users[i].deleted
    /\ \A j \in LiveIn(users[i].organization) \ {i} : users[j].email # email
    /\ Begin(r, "update",
             [IdleRequest EXCEPT !.stage = "write user", !.user = i, !.email = email,
                                 !.organization = users[i].organization,
                                 !.username = users[i].username,
                                 !.branch = branchIds, !.branches = branchIds = "some"])

RolesWithout(i) == [a \in UserRole |-> IF a.user = i THEN 0 ELSE user_roles[a]]

\* Any branch_ids delete the user's roles; only the empty list gets as far as the commit.
WriteUser(r) ==
    LET s == staff_session[r] IN
    /\ s.stage = "write user"
    /\ ~Conflict(s, {s.user}) /\ ~s.branches
    /\ users' = [users EXCEPT ![s.user].email = s.email]
    /\ user_roles' = IF s.branch = "none" THEN RolesWithout(s.user) ELSE user_roles
    /\ Commit(r)
    /\ UNCHANGED roles

DeleteUser(r, i) ==
    /\ ~users[i].deleted
    /\ staff_session[r].stage = "idle" /\ staff_served < MaxServed
    /\ staff_served' = staff_served + 1
    /\ users' = [users EXCEPT ![i].deleted = TRUE]
    /\ UNCHANGED <<roles, user_roles, staff_session>>

-----------------------------------------------------------------------------
\* assign_role, remove_role

Fresh(i, k, branch) == user_roles[Assignment(i, k, branch)] = 0

\* The role and the user are not looked up; deleted users get roles.
FindAssignment(r, i, k, branch) ==
    /\ Fresh(i, k, branch)
    /\ Begin(r, "assign", [IdleRequest EXCEPT !.stage = "assign", !.user = i, !.role = k,
                                              !.branch = branch])

RoleExists(k) == ~roles[k].deleted

\* The foreign key, and the unique index, which takes every NULL for another branch.
AssignRole(r) ==
    LET s == staff_session[r] IN
    /\ s.stage = "assign"
    /\ RoleExists(s.role)
    /\ s.branch # Null => Fresh(s.user, s.role, s.branch)
    /\ user_roles' = Assigned(s.user, s.role, s.branch)
    /\ Commit(r)
    /\ UNCHANGED <<users, roles>>

\* The path of the endpoint holds a branch, so a role for all branches is never found.
RemoveRole(r, i, k, branch) ==
    /\ branch \in Branches /\ ~Fresh(i, k, branch)
    /\ staff_session[r].stage = "idle" /\ staff_served < MaxServed
    /\ staff_served' = staff_served + 1
    /\ user_roles' = [user_roles EXCEPT ![Assignment(i, k, branch)] = @ - 1]
    /\ UNCHANGED <<users, roles, staff_session>>

-----------------------------------------------------------------------------
\* create_role, update_role, delete_role

NamedRole(name) == {k \in DOMAIN roles : ~roles[k].deleted /\ roles[k].name = name}

FindRole(r, name, permissions) ==
    /\ Len(roles) < MaxRoles
    /\ NamedRole(name) = {}
    /\ Begin(r, "create role", [IdleRequest EXCEPT !.stage = "insert role", !.username = name,
                                                   !.permissions = permissions])

InsertRole(r) ==
    LET s == staff_session[r] IN
    /\ s.stage = "insert role"
    /\ Len(roles) < MaxRoles
    /\ NamedRole(s.username) = {}
    /\ roles' = Append(roles, [name |-> s.username, is_system |-> FALSE,
                               permissions |-> s.permissions, asked |-> s.permissions,
                               deleted |-> FALSE])
    /\ Commit(r)
    /\ UNCHANGED <<users, user_roles>>

\* Permission rows of role k that requests other than r have deleted and not yet committed.
Deleted(r, k) ==
    UNION {staff_session[q].removed :
              q \in {p \in Requests \ {r} : /\ staff_session[p].stage = "write permissions"
                                           /\ staff_session[p].role = k}}

\* Requests that send permission_ids.
LoadRole(r, k, name, permissions) ==
    /\ ~roles[k].deleted
    /\ roles[k].is_system => name = roles[k].name
    /\ NamedRole(name) \subseteq {k}
    /\ Begin(r, "update role", [IdleRequest EXCEPT !.stage = "delete permissions", !.role = k,
                                                   !.username = name,
                                                   !.permissions = permissions])

\* replace_role_permissions: the DELETE finds the rows that are committed when it starts.
FindPermissions(r) ==
    LET s == staff_session[r] IN
    /\ s.stage = "delete permissions"
    /\ staff_session' = [staff_session EXCEPT ![r].stage = "deleting",
                                              ![r].removed = roles[s.role].permissions]
    /\ UNCHANGED <<staff, staff_served>>

\* It waits for transactions that have deleted some of them, and deletes what these leave
\* of them; rows inserted meanwhile it does not see.
DeletePermissions(r) ==
    LET s == staff_session[r] IN
    /\ s.stage = "deleting"
    /\ s.removed \intersect Deleted(r, s.role) = {}
    /\ staff_session' = [staff_session EXCEPT ![r].stage = "write permissions"]
    /\ UNCHANGED <<staff, staff_served>>

\* The rows request r has deleted are gone for DELETEs that have found them.
Gone(r) ==
    LET s == staff_session[r] IN
    [q \in Requests |->
        IF q = r THEN IdleRequest
        ELSE IF staff_session[q].role = s.role
        THEN [staff_session[q] EXCEPT !.removed = @ \ s.removed]
        ELSE staff_session[q]]

\* Wrong on purpose: the old permissions stay.
Added(current, s) == current \union s.permissions

Replaced(current, s) == (current \ s.removed) \union s.permissions

\* A permission or a name another request has inserted meanwhile is an error of the commit.
WritePermissions(r) ==
    LET s == staff_session[r] IN
    /\ s.stage = "write permissions"
    /\ ~roles[s.role].deleted
    /\ NamedRole(s.username) \subseteq {s.role}
    /\ (roles[s.role].permissions \ s.removed) \intersect s.permissions = {}
    /\ roles' = [roles EXCEPT ![s.role].name = s.username,
                              ![s.role].permissions = Replaced(@, s),
                              ![s.role].asked = s.permissions]
    /\ staff_session' = Gone(r)
    /\ UNCHANGED <<users, user_roles, staff_served>>

AssignmentsOf(k) == {a \in UserRole : a.role = k /\ user_roles[a] > 0}

Deletable(k) == ~roles[k].is_system /\ AssignmentsOf(k) = {}

CountAssignments(r, k) ==
    /\ ~roles[k].deleted
    /\ Deletable(k)
    /\ Begin(r, "delete role", [IdleRequest EXCEPT !.stage = "delete role", !.role = k])

\* The session loads the role's assignments to set their role to NULL, which fails if
\* there are any; one committed after that is deleted by the foreign key.
LoadAssignments(r) ==
    LET s == staff_session[r] IN
    /\ s.stage = "delete role"
    /\ AssignmentsOf(s.role) = {}
    /\ staff_session' = [staff_session EXCEPT ![r].stage = "cascade"]
    /\ UNCHANGED <<staff, staff_served>>

DeleteRole(r) ==
    LET s == staff_session[r] IN
    /\ s.stage = "cascade"
    /\ roles' = [roles EXCEPT ![s.role].deleted = TRUE, ![s.role].permissions = {},
                              ![s.role].asked = {}]
    /\ user_roles' = [a \in UserRole |-> IF a.role = s.role THEN 0 ELSE user_roles[a]]
    /\ Commit(r)
    /\ UNCHANGED users

-----------------------------------------------------------------------------
BeginUser(r) ==
    \/ \E o \in Organizations, base \in Mailboxes, email \in Emails :
         Register(r, o, <<base, 1>>, email)
    \/ \E o \in Organizations, base \in Mailboxes, email \in Emails, branches \in BOOLEAN :
         CreateUser(r, o, <<base, 1>>, email, branches)
    \/ \E mailbox \in Mailboxes : GoogleUser(r, mailbox)
    \/ \E i \in DOMAIN users, email \in Emails, branchIds \in {"absent", "none", "some"} :
         LoadUser(r, i, email, branchIds)

BeginRole(r) ==
    \/ \E i \in DOMAIN users, k \in DOMAIN roles, branch \in Branches \union {Null} :
         FindAssignment(r, i, k, branch)
    \/ \E name \in Mailboxes, permissions \in SUBSET Permissions : FindRole(r, name, permissions)
    \/ \E k \in DOMAIN roles, name \in Mailboxes, permissions \in SUBSET Permissions :
         LoadRole(r, k, name, permissions)
    \/ \E k \in DOMAIN roles : CountAssignments(r, k)

Step(r) ==
    \/ InsertUser(r) \/ WriteUser(r) \/ AssignRole(r) \/ InsertRole(r)
    \/ FindPermissions(r) \/ DeletePermissions(r) \/ WritePermissions(r)
    \/ LoadAssignments(r) \/ DeleteRole(r)

Immediate(r) ==
    \/ \E i \in DOMAIN users : DeleteUser(r, i)
    \/ \E i \in DOMAIN users, k \in DOMAIN roles, branch \in Branches : RemoveRole(r, i, k, branch)

Next == \E r \in Requests : BeginUser(r) \/ BeginRole(r) \/ Immediate(r) \/ Step(r) \/ Abandon(r)

Spec == Init /\ [][Next]_staffVars

-----------------------------------------------------------------------------
(* The tables hold what the schema allows, and assignments name a role.     *)
TypeOK ==
    /\ \A i \in DOMAIN users : users[i] \in User
    /\ \A k \in DOMAIN roles : roles[k] \in Role
    /\ user_roles \in [UserRole -> Nat]
    /\ \A a \in UserRole : user_roles[a] > 0 =>
         a.user \in DOMAIN users /\ a.role \in DOMAIN roles /\ ~roles[a.role].deleted
    /\ \A k, m \in DOMAIN roles :
         ~roles[k].deleted /\ ~roles[m].deleted /\ roles[k].name = roles[m].name => k = m

(* While users only come by registration and Google, whatever overlaps: an  *)
(* organization has one user per address, however it is typed, so that      *)
(* find_by_email_in_org finds at most one (auth_repository.py:33).          *)
OneUserPerMailbox ==
    \A o \in Organizations : \A i, j \in LiveIn(o) :
        Lower(users[i].email) = Lower(users[j].email) => i = j

(* One request at a time, while no user is deleted: the checks of register, *)
(* create_user and Google logins foresee the unique indexes, so no INSERT   *)
(* fails for a name or an address.                                          *)
ChecksForeseeInserts ==
    \A r \in Requests :
        staff_session[r].stage = "insert user" => ~Conflict(staff_session[r], {})

(* One request at a time: no role is assigned twice for the same branch or  *)
(* for all branches (assign_role, users/service.py:96).                     *)
AssignedOnce == \A a \in UserRole : user_roles[a] <= 1

(* One request at a time: a role has the permissions last asked for         *)
(* (replace_role_permissions).                                              *)
PermissionsAsAsked == \A k \in DOMAIN roles : roles[k].permissions = roles[k].asked
=============================================================================
