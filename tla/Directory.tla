------------------------------ MODULE Directory -------------------------------
(***************************************************************************)
(* The branches and customers of several organizations, and the reviews    *)
(* customers leave of products.                                            *)
(*                                                                         *)
(* As in Catalog the SELECTs of a request are one step and its flush and   *)
(* commit another.  A deleted customer keeps its row and, in the unique    *)
(* index of telephone numbers, its number.                                 *)
(***************************************************************************)
EXTENDS Integers, Sequences, FiniteSetsExt

CONSTANTS
    Organizations,
    Codes,      \* codes and names of branches
    Phones,
    Products,   \* product -> organization, for ever
    Null,
    Blank,      \* the empty string, which Python takes for no number and SQL for one
    Requests,   \* requests that may be in flight; a singleton is a serial run
    MaxRows,    \* bound of the model: rows of a table
    MaxRequests \* bound of the model: requests begun

VARIABLES
    entries,           \* the tables, by name; a row's id is its place
    directory_session, \* per request: the row it is to write
    directory_requests \* requests so far (bound of the model)

directoryVars == <<entries, directory_session, directory_requests>>

Numbers == Phones \union {Null, Blank}
ModerationStatuses == {"pending", "approved", "rejected", "hidden"}

Branch(org, code, name) ==
    [organization |-> org, code |-> code, name |-> name, is_active |-> TRUE]

Customer(org, phone) == [organization |-> org, phone |-> phone, deleted |-> FALSE]

Review(product, customer) == [product |-> product, customer |-> customer, status |-> "pending"]

IdleRequest == [stage |-> "idle", table |-> "branch", id |-> 0, row |-> Null, new |-> Null]

Init ==
    /\ entries = [branch |-> <<>>, customer |-> <<>>, review |-> <<>>]
    /\ directory_session = [r \in Requests |-> IdleRequest]
    /\ directory_requests = 0

-----------------------------------------------------------------------------
Ids(table) == DOMAIN entries[table]

Begin(r, stage, table, id, new) ==
    /\ directory_session[r].stage = "idle"
    /\ directory_requests < MaxRequests
    /\ directory_requests' = directory_requests + 1
    /\ directory_session' = [directory_session EXCEPT ![r] =
            [stage |-> stage, table |-> table, id |-> id, new |-> new,
             row |-> IF id = 0 THEN Null ELSE entries[table][id]]]
    /\ UNCHANGED entries

Insert(r, table, new) == Len(entries[table]) < MaxRows /\ Begin(r, "insert", table, 0, new)

Update(r, table, id, new) == Begin(r, "update", table, id, new)

-----------------------------------------------------------------------------
\* Branches.

\* find_by_code: the name, which is unique too, is not looked up.
FreeCode(org, code) ==
    \A b \in Ids("branch") :
        ~(entries["branch"][b].organization = org /\ entries["branch"][b].code = code)

CreateBranch(r, org, code, name) ==
    /\ FreeCode(org, code)
    /\ Insert(r, "branch", Branch(org, code, name))

\* The code stays.
UpdateBranch(r, org, id, name, is_active) ==
    LET branch == entries["branch"][id] IN
    /\ branch.organization = org
    /\ Update(r, "branch", id, [branch EXCEPT !.name = name, !.is_active = is_active])

DeleteBranch(r, org, id) == UpdateBranch(r, org, id, entries["branch"][id].name, FALSE)

-----------------------------------------------------------------------------
\* Customers.

OwnCustomer(id, org) ==
    entries["customer"][id].organization = org /\ ~entries["customer"][id].deleted

\* Wrong on purpose: a change of number is not checked.
FreePhoneOnCreate(id, org, phone) ==
    phone # Null /\ phone # Blank /\ id = 0 =>
        \A c \in Ids("customer") : OwnCustomer(c, org) => entries["customer"][c].phone # phone

\* find_by_phone, which an empty number skips.
FreePhone(id, org, phone) ==
    phone # Null /\ phone # Blank =>
        \A c \in Ids("customer") \ {id} : OwnCustomer(c, org) => entries["customer"][c].phone # phone

CreateCustomer(r, org, phone) ==
    /\ FreePhone(0, org, phone)
    /\ Insert(r, "customer", Customer(org, phone))

\* A number that is not sent, or sent as null, stays.
UpdateCustomer(r, org, id, phone) ==
    LET customer == entries["customer"][id] IN
    /\ OwnCustomer(id, org)
    /\ FreePhone(id, org, phone)
    /\ Update(r, "customer", id,
              [customer EXCEPT !.phone = IF phone = Null THEN @ ELSE phone])

SoftDelete(r, org, id) ==
    /\ OwnCustomer(id, org)
    /\ Update(r, "customer", id, [entries["customer"][id] EXCEPT !.deleted = TRUE])

-----------------------------------------------------------------------------
\* Reviews.

OwnProduct(product, org) == Products[product] = org

CreateReview(r, org, product, customer) ==
    /\ OwnProduct(product, org) /\ OwnCustomer(customer, org)
    /\ Insert(r, "review", Review(product, customer))

\* A review has no organization_id: its product's counts.
ModerateReview(r, org, id, status) ==
    LET review == entries["review"][id] IN
    /\ Products[review.product] = org
    /\ Update(r, "review", id, [review EXCEPT !.status = status])

-----------------------------------------------------------------------------
\* Flush and commit.

\* uq_branch_org_code, uq_branch_org_name and uq_customer_org_phone, which
\* leaves out numbers that are NULL and keeps those of deleted customers.
UniqueKeys(table, row) ==
    CASE table = "branch" -> {<<"code", row.organization, row.code>>,
                              <<"name", row.organization, row.name>>}
      [] table = "customer" -> IF row.phone = Null THEN {} ELSE {<<row.organization, row.phone>>}
      [] table = "review" -> {}

Collisions(table, id, row) ==
    {i \in Ids(table) \ {id} : UniqueKeys(table, entries[table][i]) \intersect UniqueKeys(table, row) # {}}

\* The changed columns over the row as it is by then.
Written(current, loaded, new) ==
    [column \in DOMAIN new |->
        IF new[column] # loaded[column] THEN new[column] ELSE current[column]]

Free(r) ==
    directory_session' = [directory_session EXCEPT ![r] = IdleRequest] /\ UNCHANGED directory_requests

FlushInsert(r) ==
    LET s == directory_session[r] IN
    /\ s.stage = "insert"
    /\ Collisions(s.table, 0, s.new) = {}
    /\ entries' = [entries EXCEPT ![s.table] = Append(@, s.new)]
    /\ Free(r)

FlushUpdate(r) ==
    LET s == directory_session[r]
        new == Written(entries[s.table][s.id], s.row, s.new)
    IN
    /\ s.stage = "update"
    /\ Collisions(s.table, s.id, new) = {}
    /\ entries' = [entries EXCEPT ![s.table][s.id] = new]
    /\ Free(r)

\* A flush that violates an index, or never happens.
Fail(r) == directory_session[r].stage # "idle" /\ Free(r) /\ UNCHANGED entries

-----------------------------------------------------------------------------
SomeBranch(r, org) ==
    \/ \E code, name \in Codes : CreateBranch(r, org, code, name)
    \/ \E id \in Ids("branch") :
         \/ \E name \in Codes, is_active \in BOOLEAN : UpdateBranch(r, org, id, name, is_active)
         \/ DeleteBranch(r, org, id)

SomeCustomer(r, org) ==
    \/ \E phone \in Numbers : CreateCustomer(r, org, phone)
    \/ \E id \in Ids("customer") :
         \/ \E phone \in Numbers : UpdateCustomer(r, org, id, phone)
         \/ SoftDelete(r, org, id)

SomeReview(r, org) ==
    \/ \E product \in DOMAIN Products, customer \in Ids("customer") :
         CreateReview(r, org, product, customer)
    \/ \E id \in Ids("review"), status \in ModerationStatuses : ModerateReview(r, org, id, status)

Next ==
    \E r \in Requests :
        \/ \E org \in Organizations :
             SomeBranch(r, org) \/ SomeCustomer(r, org) \/ SomeReview(r, org)
        \/ FlushInsert(r) \/ FlushUpdate(r) \/ Fail(r)

Spec == Init /\ [][Next]_directoryVars

-----------------------------------------------------------------------------
TypeOK ==
    /\ \A b \in Ids("branch") : entries["branch"][b] \in
         [organization : Organizations, code : Codes, name : Codes, is_active : BOOLEAN]
    /\ \A c \in Ids("customer") : entries["customer"][c] \in
         [organization : Organizations, phone : Numbers, deleted : BOOLEAN]
    /\ \A v \in Ids("review") : entries["review"][v] \in
         [product : DOMAIN Products, customer : Ids("customer"), status : ModerationStatuses]

(* Whatever overlaps: the customer of a review belongs to the organization  *)
(* of the product, although reviews carry no organization.                  *)
ReviewersBelong ==
    \A v \in Ids("review") : LET review == entries["review"][v] IN
        entries["customer"][review.customer].organization = Products[review.product]

(* One request at a time: a request past its checks fails on a unique index *)
(* only for the name of another branch, the number of a deleted customer or *)
(* an empty number.                                                         *)
ChecksForeseeInserts ==
    \A r \in Requests :
        LET s == directory_session[r] IN
        s.stage # "idle" =>
            \A i \in Collisions(s.table, s.id, s.new) :
                CASE s.table = "branch" -> entries["branch"][i].code # s.new.code
                  [] s.table = "customer" -> entries["customer"][i].deleted \/ s.new.phone = Blank

(* One request at a time: nothing of a deleted customer changes, and no     *)
(* review of his is added.                                                  *)
DeletedStep ==
    /\ \A c \in Ids("customer") :
         entries["customer"][c].deleted => entries'["customer"][c] = entries["customer"][c]
    /\ \A v \in DOMAIN entries'["review"] :
         v \in Ids("review") \/ ~entries["customer"][entries'["review"][v].customer].deleted

DeletedCustomersStay == [][DeletedStep]_directoryVars

(* Refuted: find_by_phone leaves deleted customers out so that their        *)
(* numbers can be given again; the index refuses every such request.        *)
FreedNumbersCanBeStored ==
    \A r \in Requests :
        LET s == directory_session[r] IN
        s.stage # "idle" /\ s.table = "customer" =>
            \A i \in Collisions(s.table, s.id, s.new) : ~entries["customer"][i].deleted
=============================================================================
