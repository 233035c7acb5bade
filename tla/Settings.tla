------------------------------ MODULE Settings ------------------------------
(***************************************************************************)
(* The settings of an organization: a row without a branch for all of it,  *)
(* a row per branch that overrides it.  update_setting SELECTs a row, then *)
(* writes or inserts one.  The unique constraint on organization, branch   *)
(* and key takes two NULL branches for different ones.                     *)
(***************************************************************************)
EXTENDS Integers, Sequences, FiniteSetsExt

CONSTANTS
    Branches,
    Keys,       \* setting keys
    Values,     \* setting values
    Null,       \* SQL NULL: the whole organization
    Requests,   \* requests that may be in flight; a singleton is a serial run
    MaxUpdates  \* bound of the model: requests begun

VARIABLES
    settings,         \* the system_settings rows
    wanted,           \* per key and scope: the value of the last update answered with success
    settings_session,
    updates           \* requests so far (bound of the model)

settingsVars == <<settings, wanted, settings_session, updates>>

Scopes == Branches \union {Null}

IdleRequest == [stage |-> "idle", key |-> Null, branch |-> Null, value |-> Null, row |-> 0]

Init ==
    /\ settings = <<>>
    /\ wanted = [p \in Keys \X Scopes |-> Null]
    /\ settings_session = [r \in Requests |-> IdleRequest]
    /\ updates = 0

-----------------------------------------------------------------------------
Matches(key, branch) ==
    {i \in DOMAIN settings : settings[i].key = key /\ settings[i].branch = branch}

Found(key, branch) ==
    IF Matches(key, branch) = {} THEN 0 ELSE CHOOSE i \in Matches(key, branch) : TRUE

\* Wrong on purpose: the organization's row is what an update of a branch finds.
FoundForUpdateAnywhere(key, branch) == Found(key, Null)

\* get_setting_for_branch_or_none; None as a branch is IS NULL.
FoundForUpdate(key, branch) == Found(key, branch)

\* scalar_one_or_none raises on two rows.
LoadSetting(r, key, branch, value) ==
    /\ settings_session[r].stage = "idle"
    /\ updates < MaxUpdates
    /\ updates' = updates + 1
    /\ Cardinality(Matches(key, branch)) <= 1
    /\ settings_session' = [settings_session EXCEPT ![r] =
            [stage |-> "write", key |-> key, branch |-> branch, value |-> value,
             row |-> FoundForUpdate(key, branch)]]
    /\ UNCHANGED <<settings, wanted>>

\* uq_system_setting_org_branch_key.
Admitted(key, branch) == branch = Null \/ Matches(key, branch) = {}

UpdateSetting(r) ==
    LET s == settings_session[r] IN
    /\ s.stage = "write"
    /\ IF s.row = 0
       THEN /\ Admitted(s.key, s.branch)
            /\ settings' = Append(settings, [key |-> s.key, branch |-> s.branch, value |-> s.value])
       ELSE settings' = [settings EXCEPT ![s.row].value = s.value]
    /\ wanted' = [wanted EXCEPT ![<<s.key, s.branch>>] = s.value]
    /\ settings_session' = [settings_session EXCEPT ![r] = IdleRequest]
    /\ UNCHANGED updates

Rollback(r) ==
    /\ settings_session[r].stage # "idle"
    /\ settings_session' = [settings_session EXCEPT ![r] = IdleRequest]
    /\ UNCHANGED <<settings, wanted, updates>>

\* get_setting and get_effective_setting: the branch's row, else the organization's;
\* Null for 404.
EffectiveSetting(key, branch) ==
    LET row == IF branch # Null /\ Found(key, branch) # 0 THEN Found(key, branch) ELSE Found(key, Null)
    IN  IF row = 0 THEN Null ELSE settings[row].value

Next ==
    \E r \in Requests :
        \/ \E key \in Keys, branch \in Scopes, value \in Values : LoadSetting(r, key, branch, value)
        \/ UpdateSetting(r)
        \/ Rollback(r)

Spec == Init /\ [][Next]_settingsVars

-----------------------------------------------------------------------------
TypeOK ==
    /\ \A i \in DOMAIN settings : settings[i] \in [key : Keys, branch : Scopes, value : Values]
    /\ \A r \in Requests : settings_session[r].row \in 0 .. Len(settings)

(* Whatever overlaps: the branches' settings stay readable.  (The           *)
(* organization's do not: two first updates at a time insert two rows, and  *)
(* every later read or update of the key raises MultipleResultsFound.)      *)
BranchSettingsReadable ==
    \A k \in Keys, b \in Branches : Cardinality(Matches(k, b)) <= 1

(* Refuted, with two requests in flight: so do the organization's.          *)
OrganizationSettingsReadable ==
    \A k \in Keys : Cardinality(Matches(k, Null)) <= 1

(* One request at a time: what a branch reads is what was last set for it,  *)
(* or for the organization when nothing was ever set for it.                *)
ReadsWhatWasSet ==
    \A k \in Keys, b \in Scopes :
        EffectiveSetting(k, b) =
            IF wanted[<<k, b>>] # Null THEN wanted[<<k, b>>] ELSE wanted[<<k, Null>>]
=============================================================================
