--------------------------------- MODULE Seed ---------------------------------
(***************************************************************************)
(* scripts/seed.py: one transaction that fills the tables of a new         *)
(* database and brings roles, permissions and the user ven of an older     *)
(* installation up to date, run by hand and perhaps twice at a time, while *)
(* a manager may be changing roles through the API.                        *)
(*                                                                         *)
(* A run takes the tables in a fixed order.  For each it looks at what is  *)
(* there and then inserts what it finds missing.  The rows it has inserted *)
(* are its own until it commits; whoever inserts the same key waits.       *)
(***************************************************************************)
EXTENDS Integers, Sequences, FiniteSetsExt

CONSTANTS
    Seeders,    \* processes that may run the script at a time
    Roles,      \* names of ROLE_PERMISSIONS
    Codes,      \* codes of PERMISSIONS
    Configured, \* ROLE_PERMISSIONS, a set of pairs of a role and a code
    OldRoles,   \* the roles and codes an older installation has
    OldCodes,
    MaxSeeds,   \* bound of the model: runs of the script
    MaxEdits    \* bound of the model: changes a manager makes

VARIABLES
    stored,     \* rows committed
    seeder,     \* per process: the step it is at, what it has found missing, its own rows
    seeds,      \* runs begun; a row carries the number of the run that inserted it
    edits,      \* changes by managers
    up_to_date, \* history: a run has committed and no manager has changed a role since
    began       \* history: edits when the run of a process began

seedVars == <<stored, seeder, seeds, edits, up_to_date, began>>

Row(table, key, run) == [table |-> table, key |-> key, run |-> run]
RowsOf(table, keys, run) == {Row(table, k, run) : k \in keys}
In(table, rows) == {row \in rows : row.table = table}
KeysIn(table, rows) == {row.key : row \in In(table, rows)}

\* What one row stands for where the rows of a table differ in nothing that matters here.
PlainTables == {"organizations", "branches", "categories", "suppliers", "products", "registers",
                "system_settings"}

\* Supplier names have no unique index, and settings of no branch escape theirs.
Keyed(table) == table \notin {"suppliers", "system_settings"}

SeedUsers == {<<"admin", "Superadmin">>, <<"ven", "Cashier">>}

OldInstall(users) ==
    (UNION {RowsOf(t, {"seeded"}, 0) : t \in PlainTables})
    \union RowsOf("roles", OldRoles, 0) \union RowsOf("permissions", OldCodes, 0)
    \union RowsOf("role_permissions", Configured \intersect (OldRoles \X OldCodes), 0)
    \union RowsOf("users", {u[1] : u \in users}, 0) \union RowsOf("user_roles", users, 0)

IdleSeeder == [step |-> 0, looked |-> FALSE, missing |-> {}, own |-> {}, run |-> 0]

\* A new database, or one of a version before the Kitchen, the Bar and ven.
Init ==
    /\ stored \in {{}, OldInstall({<<"admin", "Superadmin">>}), OldInstall(SeedUsers)}
    /\ seeder = [p \in Seeders |-> IdleSeeder]
    /\ seeds = 0
    /\ edits = 0
    /\ up_to_date = FALSE
    /\ began = [p \in Seeders |-> 0]

-----------------------------------------------------------------------------
Steps == <<"organizations", "branches", "permissions", "roles", "missing permissions",
           "role_permissions", "users", "user_roles", "categories", "suppliers", "products",
           "registers", "system_settings", "commit">>

At(p, step) == seeder[p].step # 0 /\ Steps[seeder[p].step] = step

TableEmpty(table, seen) == In(table, seen) = {}

\* Wrong on purpose: suppliers are inserted whatever is there.
FilledAgain(table, seen, run) ==
    IF TableEmpty(table, seen) \/ table = "suppliers" THEN RowsOf(table, {"seeded"}, run) ELSE {}

Filled(table, seen, run) == IF TableEmpty(table, seen) THEN RowsOf(table, {"seeded"}, run) ELSE {}

\* The reconciliation of role_permissions.
Assigned(seen, run) ==
    RowsOf("role_permissions", Configured \ KeysIn("role_permissions", seen), run)

\* Both users of an empty table; ven where other users are and he is not.
UsersMissing(seen, run) ==
    RowsOf("users", IF TableEmpty("users", seen) THEN {u[1] : u \in SeedUsers}
                    ELSE {"ven"} \ KeysIn("users", seen), run)

\* The roles of the users this run has inserted, and of no other.
UserRolesMissing(seen, run) ==
    RowsOf("user_roles", {u \in SeedUsers : Row("users", u[1], run) \in seen}, run)

\* What the step inserts, given what it sees.
Missing(step, seen, run) ==
    CASE step \in PlainTables -> Filled(step, seen, run)
      [] step = "permissions" ->
            IF TableEmpty("permissions", seen) THEN RowsOf("permissions", Codes, run) ELSE {}
      [] step = "roles" -> RowsOf("roles", Roles \ KeysIn("roles", seen), run)
      [] step = "missing permissions" ->
            RowsOf("permissions", Codes \ KeysIn("permissions", seen), run)
      [] step = "role_permissions" -> Assigned(seen, run)
      [] step = "users" -> UsersMissing(seen, run)
      [] step = "user_roles" -> UserRolesMissing(seen, run)

Seen(p) == stored \union seeder[p].own

Begin(p) ==
    /\ seeder[p].step = 0
    /\ seeds < MaxSeeds
    /\ seeds' = seeds + 1
    /\ seeder' = [seeder EXCEPT ![p] = [IdleSeeder EXCEPT !.step = 1, !.run = seeds + 1]]
    /\ began' = [began EXCEPT ![p] = edits]
    /\ UNCHANGED <<stored, edits, up_to_date>>

Look(p) ==
    /\ seeder[p].step # 0 /\ ~At(p, "commit") /\ ~seeder[p].looked
    /\ seeder' = [seeder EXCEPT ![p].looked = TRUE,
            ![p].missing = Missing(Steps[seeder[p].step], Seen(p), seeder[p].run)]
    /\ UNCHANGED <<stored, seeds, edits, up_to_date, began>>

\* Wrong on purpose: no table has a unique index.
SameKeyNever(rows, others) == FALSE

\* A row among others with a key of rows, under a unique index.
SameKey(rows, others) ==
    \E a \in rows, b \in others : Keyed(a.table) /\ a.table = b.table /\ a.key = b.key

\* An INSERT waits for the transaction that has inserted the same key.
Insert(p) ==
    LET s == seeder[p] IN
    /\ s.looked
    /\ ~SameKey(s.missing, UNION {seeder[q].own : q \in Seeders \ {p}})
    /\ ~SameKey(s.missing, stored)
    /\ seeder' = [seeder EXCEPT ![p].own = @ \union s.missing, ![p].step = @ + 1,
                                ![p].looked = FALSE, ![p].missing = {}]
    /\ UNCHANGED <<stored, seeds, edits, up_to_date, began>>

\* The connection's with statement rolls back what is not committed.
Closed(s) == IdleSeeder

Stop(p) ==
    /\ seeder' = [seeder EXCEPT ![p] = Closed(@)]
    /\ UNCHANGED <<seeds, edits, began>>

\* The unique index raises: nothing of the run stays.
Raise(p) ==
    /\ seeder[p].looked
    /\ SameKey(seeder[p].missing, stored)
    /\ Stop(p)
    /\ UNCHANGED <<stored, up_to_date>>

Abandoned(rows, own) == rows

\* The process or its connection dies.
Crash(p) ==
    /\ seeder[p].step # 0
    /\ stored' = Abandoned(stored, seeder[p].own)
    /\ Stop(p)
    /\ UNCHANGED up_to_date

Commit(p) ==
    /\ At(p, "commit")
    /\ stored' = stored \union seeder[p].own
    /\ up_to_date' = (began[p] = edits)
    /\ Stop(p)

-----------------------------------------------------------------------------
\* A manager, logged in as a user of the database.

Edit(rows) ==
    /\ In("users", stored) # {}
    /\ edits < MaxEdits
    /\ edits' = edits + 1
    /\ stored' = rows
    /\ up_to_date' = FALSE
    /\ UNCHANGED <<seeder, seeds, began>>

\* update_role with fewer permission_ids.
Narrow == \E row \in In("role_permissions", stored) : Edit(stored \ {row})

\* create_role, which takes names the seed does not have yet.
CreateRole ==
    \E name \in Roles \ KeysIn("roles", stored) :
        /\ \A q \in Seeders : ~SameKey({Row("roles", name, 0)}, seeder[q].own)
        /\ Edit(stored \union {Row("roles", name, 0)})

Work(p) == Look(p) \/ Insert(p) \/ Raise(p) \/ Commit(p)

Next ==
    \/ \E p \in Seeders : Begin(p) \/ Work(p) \/ Crash(p)
    \/ Narrow \/ CreateRole

Spec == Init /\ [][Next]_seedVars

Fairness == \A p \in Seeders : WF_seedVars(Work(p))

-----------------------------------------------------------------------------
TypeOK ==
    /\ \A row \in stored : row.run \in 0..seeds
    /\ \A p \in Seeders :
         /\ seeder[p].step \in 0..Len(Steps)
         /\ \A row \in seeder[p].own \union seeder[p].missing : row.run = seeder[p].run

(* Runs may overlap, fail and crash: no table is filled twice, although     *)
(* nothing keeps two suppliers or two settings of a name apart.             *)
TablesFilledOnce ==
    \A a, b \in stored : a.table = b.table /\ a.key = b.key => a = b

(* Whatever dies and whenever: a user of the seed has the role of the seed, *)
(* for a later run finds the users there and leaves them as they are.       *)
SeedUsersHaveRoles ==
    \A u \in SeedUsers : u[1] \in KeysIn("users", stored) => u \in KeysIn("user_roles", stored)

(* After a run during which no manager changed anything every role has the  *)
(* permissions configured for it, on a new database and on an old one.      *)
UpToDateIsComplete ==
    up_to_date =>
        /\ Roles \subseteq KeysIn("roles", stored)
        /\ Codes \subseteq KeysIn("permissions", stored)
        /\ Configured \subseteq KeysIn("role_permissions", stored)

(* A further run changes nothing: "Idempotent" (seed.py:7).                 *)
IdempotentStep == up_to_date /\ up_to_date' => stored' = stored

SeedsAreIdempotent == [][IdempotentStep]_seedVars

(* Every run ends, whichever run it waits for: all insert in one order.     *)
EverySeedEnds == \A p \in Seeders : seeder[p].step # 0 ~> seeder[p].step = 0

(* Refuted: "skips tables that already contain data" (seed.py:7).  The      *)
(* reconciliation gives a role the permissions a manager took from it.      *)
SkipsStep ==
    edits' = edits =>
        \A table \in {row.table : row \in stored} : In(table, stored') = In(table, stored)

SkipsFilledTables == [][SkipsStep]_seedVars
=============================================================================
