------------------------------ MODULE MCPeople ------------------------------
\* Small instances of AuthSessions, Staff and Shifts for TLC, one component and
\* one workload per behaviour.
EXTENDS AuthSessions, TLC

CONSTANTS r1, r2, u1, d1, a1, a2, m1, m2, k1, p1, p2, t1, t2,
          Organizations, Mailboxes, Branches, Permissions, GoogleDefault,
          MaxUsers, MaxRoles, MaxServed,
          Registers, Cash, Amounts, MaxShifts, MaxTasks,
          Workloads \* what a behaviour may be about

VARIABLES users, roles, user_roles, staff_session, staff_served,
          shifts, cash_movements, shift_session, formed, tasks,
          workload \* what this behaviour is about; chosen once

Crew == INSTANCE Staff WITH Null <- None

Drawer == INSTANCE Shifts WITH Clerks <- Requests, Null <- None

\* The seed writes a role; amounts are as the request schemas validate them.
ASSUME PeopleAssumption ==
    /\ IsFiniteSet(Requests)
    /\ Mailboxes # {} /\ GoogleDefault \in Organizations /\ None \notin Branches
    /\ MaxUsers \in Nat /\ MaxRoles \in Nat \ {0}
    /\ Cash \subseteq Nat /\ Amounts \subseteq Nat \ {0}

\* component, requests in flight at a time, handlers used, requests begun, organizations.
Workload(component, width, handlers, limit, organizations) ==
    [component |-> component, width |-> width, handlers |-> handlers, limit |-> limit,
     organizations |-> organizations]

Guessing == {"login"}
Passwords == {"login", "right"}
Tokens == {"login", "right", "google", "refresh", "status"}
SelfService == {"register", "google"}
Editing == {"register", "create", "google", "update"}
Roles == {"assign", "remove", "create role", "update role", "delete role"}

MCWorkloads == {
    Workload("auth", 2, Guessing, 6, 1),
    Workload("auth", 1, Passwords, 6, 1),
    Workload("auth", 2, Passwords \union Tokens, 3, 1),
    Workload("auth", 1, Tokens, 4, 1),
    Workload("staff", 2, SelfService, 3, 1),
    Workload("staff", 1, Editing, 4, 2),
    Workload("staff", 1, Roles \union {"register"}, 5, 1),
    Workload("staff", 2, Editing \union {"delete"}, 3, 1),
    Workload("staff", 2, {"register", "assign", "remove", "update role", "delete role"}, 3, 1),
    Workload("deployed", 1, {}, 5, 1),
    Workload("drawer", 1, {}, 5, 1),
    Workload("drawer", 2, {}, 4, 1)}

StaffVars == <<users, roles, user_roles, staff_session, staff_served>>
DrawerVars == <<shifts, cash_movements, shift_session, formed, tasks>>

About(component) == workload.component = component

MCInit ==
    /\ workload \in Workloads /\ Init /\ Crew!Init /\ Drawer!Init
    /\ About("deployed") <=> ~formed

Serial == workload.width = 1
Uses(handler) == handler \in workload.handlers

Within(sessions, count) ==
    /\ Cardinality({r \in Requests : sessions[r].stage # "idle"}) <= workload.width
    /\ count <= workload.limit
    /\ UNCHANGED workload

Handled(sessions) == \A r \in Requests : sessions[r].stage = "idle" \/ Uses(sessions[r].handler)

AuthStep ==
    /\ About("auth")
    /\ Next
    /\ UNCHANGED <<StaffVars, DrawerVars>>
    /\ Within(auth_session', begun') /\ Handled(auth_session')
    /\ Uses("right") \/ \A r \in Requests : auth_session'[r].stage # "reset"
    /\ Uses("status") \/ \A u \in Users : accounts'[u].status = "active"

StaffStep ==
    /\ About("staff")
    /\ Crew!Next
    /\ UNCHANGED <<vars, DrawerVars>>
    /\ Within(staff_session', staff_served') /\ Handled(staff_session')
    /\ Uses("delete") \/ \A i \in DOMAIN users' : ~users'[i].deleted
    /\ \A i \in DOMAIN users' : workload.organizations = 2 \/ users'[i].organization = GoogleDefault

DrawerStep ==
    /\ About("deployed") \/ About("drawer")
    /\ Drawer!Next
    /\ UNCHANGED <<vars, StaffVars>>
    /\ Within(shift_session', tasks')

MCNext == AuthStep \/ StaffStep \/ DrawerStep

MCSpec == MCInit /\ [][MCNext]_<<vars, StaffVars, DrawerVars, workload>>

-----------------------------------------------------------------------------
(* Sessions, staff and shifts keep their types.                             *)
PeopleTypes == TypeOK /\ Crew!TypeOK /\ Drawer!TypeOK

(* Nobody is locked out before MAX_FAILED_ATTEMPTS wrong passwords, however *)
(* many overlap; one request at a time the counter counts them all; and no  *)
(* login is opened without its row in login_attempts.                       *)
LockoutCountsFailures ==
    /\ ~Uses("right") => NeverLockedEarly
    /\ Serial => CounterCountsFailures
    /\ LoginsAreRecorded

(* The lookups that expect one row find at most one, one request at a time: *)
(* the live token of a login, the assignment of a role, the open shift of a *)
(* register; and the user of a mailbox, whatever overlaps, while users only *)
(* come by registration or Google.  find_open_shift and the login by e-mail *)
(* raise for ever once they find two.                                       *)
FoundAtMostOnce ==
    /\ Serial => OneLiveTokenPerLogin /\ Crew!AssignedOnce /\ Drawer!OneOpenPerRegister
    /\ ~Uses("create") /\ ~Uses("update") => Crew!OneUserPerMailbox

(* AuthSessions.ImplementsLoginChains, one request at a time: rotation keeps*)
(* one usable token per login, and a login that ended stays ended.          *)
TokensImplementChains == [][Serial => [Chains!Next]_LoginStates]_vars

(* Requests for users and roles end as their checks foresee, one at a time: *)
(* where no user was deleted, no insert fails that the lookups let pass, and*)
(* a role has the permissions of the last update, no more and no less.      *)
StaffRequestsAsAsked ==
    /\ Serial /\ ~Uses("delete") => Crew!ChecksForeseeInserts
    /\ Serial => Crew!PermissionsAsAsked

(* One request at a time, the closing report of a shift adds up every cash  *)
(* movement (shifts/service.py:52).                                         *)
ShiftReportAddsUp == Serial => Drawer!ReportAddsUp

(* In the build of requirements.txt: an open shift can be closed.           *)
DeployedShiftsCanBeClosed == ~formed => Drawer!OpenShiftsCanBeClosed

(* One request at a time: a running lock keeps its end and lets no password *)
(* in, and a closed shift and its movements stay as they are.               *)
LocksAndClosuresHold ==
    [][Serial => LockStep]_vars /\ [][Serial => Drawer!ClosedStep]_DrawerVars

Symmetry == Permutations(Requests)
=============================================================================
