------------------------------ MODULE SiteProofs ------------------------------
(***************************************************************************)
(* Theorems about the tables that the organizations of a site share:       *)
(* Directory, Catalog, Promotions; and about the back office as a whole,   *)
(* which takes the other components' invariants from BackOfficeProofs.     *)
(***************************************************************************)
EXTENDS BackOfficeProofs

-----------------------------------------------------------------------------
\* Branches, customers and reviews.  No update changes whose row it is, so that what a
\* request has checked of organizations holds when it writes; the indexes keep keys apart.

DirectoryTables == {"branch", "customer", "review"}

BranchRow == [organization : Organizations, code : Names, name : Names, is_active : BOOLEAN]
CustomerRow == [organization : Organizations, phone : People!Numbers, deleted : BOOLEAN]
ReviewRow(e) ==
    [product : DOMAIN Products, customer : DOMAIN e["customer"], status : People!ModerationStatuses]

\* A row that may stand in the tables e.
DirectoryRow(e, table, row) ==
    /\ table = "branch" => row \in BranchRow
    /\ table = "customer" => row \in CustomerRow
    /\ table = "review" =>
        row \in ReviewRow(e) /\ e["customer"][row.customer].organization = Products[row.product]

SameOwner(table, a, b) ==
    IF table = "review" THEN a.product = b.product /\ a.customer = b.customer
    ELSE a.organization = b.organization

DirectoryTyped(e) ==
    /\ e = [table \in DirectoryTables |-> e[table]]
    /\ \A table \in DirectoryTables :
         IsTable(e[table]) /\ \A i \in DOMAIN e[table] : DirectoryRow(e, table, e[table][i])

DirectoryAsked(e, s) ==
    /\ s.stage \in {"idle", "insert", "update"}
    /\ s.stage # "idle" => s.table \in DirectoryTables /\ DirectoryRow(e, s.table, s.new)
    /\ s.stage = "insert" => s.id = 0
    /\ s.stage = "update" =>
        s.id \in DOMAIN e[s.table] /\ SameOwner(s.table, s.new, e[s.table][s.id])

\* No two rows of a table share a key of its unique indexes.
EntriesApart ==
    \A table \in DirectoryTables : \A i, j \in DOMAIN entries[table] :
        i # j => People!UniqueKeys(table, entries[table][i])
                   \intersect People!UniqueKeys(table, entries[table][j]) = {}

\* The collisions the lookups leave to the indexes.
EntryForeseen(table, i, new) ==
    /\ table = "branch" => entries["branch"][i].code # new.code
    /\ table = "customer" => entries["customer"][i].deleted \/ new.phone = Blank
    /\ table # "review"

\* What a request that is alone knows.
DirectoryKnown(s) ==
    s.stage # "idle" =>
        /\ \A i \in People!Collisions(s.table, s.id, s.new) : EntryForeseen(s.table, i, s.new)
        /\ s.stage = "update" =>
            s.row = entries[s.table][s.id] /\ (s.table = "customer" => ~s.row.deleted)
        /\ s.stage = "insert" /\ s.table = "review" => ~entries["customer"][s.new.customer].deleted

DirectorySerial ==
    AloneIn(directory_session) /\ \A t \in Threads : DirectoryKnown(directory_session[t])

DirectoryInv ==
    /\ DirectoryTyped(entries) /\ EntriesApart
    /\ DOMAIN directory_session = Threads
    /\ \A t \in Threads : DirectoryAsked(entries, directory_session[t])
    /\ Serial => DirectorySerial


\* The steps of the workloads about the directory.
DirectoryMoves(r) ==
    \/ \E org \in Organizations :
         People!SomeBranch(r, org) \/ People!SomeCustomer(r, org) \/ People!SomeReview(r, org)
    \/ People!FlushInsert(r) \/ People!FlushUpdate(r) \/ People!Fail(r)

\* What one step of the directory is.
LEMMA DirectorySteps ==
    [MCNext]_<<eventVars, NotEvents>> =>
        \/ /\ \E r \in Threads : DirectoryMoves(r)
           /\ Serial => AloneIn(directory_session')
        \/ UNCHANGED peopleVars
  <1> SUFFICES ASSUME PeopleStep
               PROVE  /\ \E r \in Threads : DirectoryMoves(r)
                      /\ Serial => AloneIn(directory_session')
    BY DEF MCNext, LogStep, GoodsStep, PassStep, PreferencesStep, DeliveryStep, PeopleStep,
           SiteStep, ScriptStep, NotEvents, NotScript
  <1>1. \E r \in Threads : DirectoryMoves(r)
    BY DEF PeopleStep, DirectoryMoves, OrganizationsUsed
  <1>2. ASSUME Serial PROVE AloneIn(directory_session')
    <2>1. Busy(directory_session') <= 1
      BY <1>2 DEF PeopleStep, Within, Serial
    <2> QED
      BY <2>1, NarrowIsAlone
  <1> QED
    BY <1>1, <1>2

\* Nothing is in the tables at first.
LEMMA InitDirectory == People!Init => DirectoryInv
  <1> SUFFICES ASSUME People!Init PROVE DirectoryInv
    OBVIOUS
  <1>1. /\ entries = [table \in DirectoryTables |-> entries[table]]
        /\ \A table \in DirectoryTables : entries[table] = <<>>
    BY DEF People!Init, DirectoryTables
  <1>2. \A table \in DirectoryTables : IsTable(entries[table]) /\ DOMAIN entries[table] = {}
    BY <1>1, EmptyTable
  <1>3. DirectoryTyped(entries) /\ EntriesApart
    BY <1>1, <1>2 DEF DirectoryTyped, EntriesApart
  <1>4. DOMAIN directory_session = Threads /\ \A t \in Threads : directory_session[t].stage = "idle"
    BY DEF People!Init, People!IdleRequest
  <1>5. \A t \in Threads : DirectoryAsked(entries, directory_session[t])
    BY <1>4 DEF DirectoryAsked
  <1>6. DirectorySerial
    BY <1>4 DEF DirectorySerial, DirectoryKnown, AloneIn
  <1> QED
    BY <1>3, <1>4, <1>5, <1>6 DEF DirectoryInv

\* When sets of one and of two elements meet.
LEMMA OnesMeet ==
    ASSUME NEW x, NEW y
    PROVE  {x} \intersect {y} # {} <=> x = y
  OBVIOUS

\* The same for two sets of two.
LEMMA PairsMeet ==
    ASSUME NEW x, NEW y, NEW v, NEW w
    PROVE  {x, y} \intersect {v, w} # {} <=> x = v \/ x = w \/ y = v \/ y = w
  <1>1. ASSUME {x, y} \intersect {v, w} # {} PROVE x = v \/ x = w \/ y = v \/ y = w
    <2>1. PICK z : z \in {x, y} /\ z \in {v, w}
      BY <1>1
    <2> QED
      BY <2>1
  <1>2. ASSUME x = v \/ x = w \/ y = v \/ y = w PROVE {x, y} \intersect {v, w} # {}
    <2>1. x \in {v, w} \/ y \in {v, w}
      BY <1>2
    <2> QED
      BY <2>1
  <1> QED
    BY <1>1, <1>2

\* Keys are equal when all their parts are.
LEMMA KeyTuples ==
    ASSUME NEW a, NEW b, NEW c, NEW d
    PROVE  /\ <<a, b>> = <<c, d>> <=> a = c /\ b = d
           /\ \A kind, other \in {"code", "name", "sku", "barcode"} :
                <<kind, a, b>> = <<other, c, d>> <=> kind = other /\ a = c /\ b = d
  OBVIOUS

\* The keys two rows share.
LEMMA SharedKeys ==
    ASSUME NEW a, NEW b
    PROVE  /\ People!UniqueKeys("branch", a) \intersect People!UniqueKeys("branch", b) # {} <=>
                a.organization = b.organization /\ (a.code = b.code \/ a.name = b.name)
           /\ People!UniqueKeys("customer", a) \intersect People!UniqueKeys("customer", b) # {} <=>
                a.organization = b.organization /\ a.phone = b.phone /\ a.phone # Null
           /\ People!UniqueKeys("review", a) = {}
  <1>1. /\ People!UniqueKeys("branch", a) =
             {<<"code", a.organization, a.code>>, <<"name", a.organization, a.name>>}
        /\ People!UniqueKeys("branch", b) =
             {<<"code", b.organization, b.code>>, <<"name", b.organization, b.name>>}
    BY DEF People!UniqueKeys
  <1>2. /\ People!UniqueKeys("customer", a) =
             IF a.phone = Null THEN {} ELSE {<<a.organization, a.phone>>}
        /\ People!UniqueKeys("customer", b) =
             IF b.phone = Null THEN {} ELSE {<<b.organization, b.phone>>}
        /\ People!UniqueKeys("review", a) = {}
    BY DEF People!UniqueKeys
  <1>3. People!UniqueKeys("branch", a) \intersect People!UniqueKeys("branch", b) # {} <=>
            a.organization = b.organization /\ (a.code = b.code \/ a.name = b.name)
    BY <1>1, PairsMeet, KeyTuples
  <1>4. People!UniqueKeys("customer", a) \intersect People!UniqueKeys("customer", b) # {} <=>
            a.organization = b.organization /\ a.phone = b.phone /\ a.phone # Null
    BY <1>2, OnesMeet, KeyTuples
  <1> QED
    BY <1>2, <1>3, <1>4

\* The changed columns over the row as it is by then.
LEMMA MixedColumns ==
    ASSUME NEW current, NEW loaded, NEW new, NEW written, written = People!Written(current, loaded, new)
    PROVE  /\ written = [column \in DOMAIN new |-> written[column]]
           /\ \A column \in DOMAIN new : written[column] \in {new[column], current[column]}
           /\ \A column \in DOMAIN new : loaded = current => written[column] = new[column]
  BY DEF People!Written

\* Rows stay rows while the customers they name keep their organizations.
LEMMA DirectoryGrows ==
    ASSUME NEW e, NEW f, NEW table, NEW row, DirectoryRow(e, table, row),
           \A i \in DOMAIN e["customer"] : /\ i \in DOMAIN f["customer"]
                                           /\ SameOwner("customer", f["customer"][i], e["customer"][i])
    PROVE  DirectoryRow(f, table, row)
  <1>1. ASSUME table = "review"
        PROVE  /\ row \in ReviewRow(f)
               /\ f["customer"][row.customer].organization = Products[row.product]
    <2>1. row \in ReviewRow(e) /\ e["customer"][row.customer].organization = Products[row.product]
      BY <1>1 DEF DirectoryRow
    <2>2. row.customer \in DOMAIN e["customer"]
      BY <2>1 DEF ReviewRow
    <2>3. row \in ReviewRow(f)
      BY <2>1, <2>2 DEF ReviewRow
    <2> QED
      BY <2>1, <2>2, <2>3 DEF SameOwner
  <1> QED
    BY <1>1 DEF DirectoryRow

\* The typed row that an update writes.
LEMMA DirectoryWritten ==
    ASSUME NEW e, NEW table \in DirectoryTables, NEW new, NEW current, NEW loaded, NEW written,
           written = People!Written(current, loaded, new),
           DirectoryRow(e, table, new), DirectoryRow(e, table, current),
           SameOwner(table, new, current)
    PROVE  /\ DirectoryRow(e, table, written) /\ SameOwner(table, written, current)
           /\ loaded = current => written = new
  <1>1. CASE table = "branch"
    <2>1. new \in BranchRow /\ current \in BranchRow
      BY <1>1 DEF DirectoryRow
    <2>2. DOMAIN new = {"organization", "code", "name", "is_active"}
      BY <2>1 DEF BranchRow
    <2>3. written = [organization |-> written.organization, code |-> written.code,
                     name |-> written.name, is_active |-> written.is_active]
      BY <2>2, MixedColumns
    <2>4. \A column \in DOMAIN new : /\ written[column] \in {new[column], current[column]}
                                     /\ loaded = current => written[column] = new[column]
      BY MixedColumns
    <2>5. /\ written.organization \in Organizations /\ written.code \in Names
          /\ written.name \in Names /\ written.is_active \in BOOLEAN
          /\ written.organization = current.organization
      BY <1>1, <2>1, <2>2, <2>4 DEF BranchRow, SameOwner
    <2>6. written \in BranchRow
      BY <2>3, <2>5 DEF BranchRow
    <2>7. loaded = current => written = new
      BY <2>1, <2>2, <2>4, <2>6 DEF BranchRow
    <2> QED
      BY <1>1, <2>5, <2>6, <2>7 DEF DirectoryRow, SameOwner
  <1>2. CASE table = "customer"
    <2>1. new \in CustomerRow /\ current \in CustomerRow
      BY <1>2 DEF DirectoryRow
    <2>2. DOMAIN new = {"organization", "phone", "deleted"}
      BY <2>1 DEF CustomerRow
    <2>3. written = [organization |-> written.organization, phone |-> written.phone,
                     deleted |-> written.deleted]
      BY <2>2, MixedColumns
    <2>4. \A column \in DOMAIN new : /\ written[column] \in {new[column], current[column]}
                                     /\ loaded = current => written[column] = new[column]
      BY MixedColumns
    <2>5. /\ written.organization \in Organizations /\ written.phone \in People!Numbers
          /\ written.deleted \in BOOLEAN /\ written.organization = current.organization
      BY <1>2, <2>1, <2>2, <2>4 DEF CustomerRow, SameOwner
    <2>6. written \in CustomerRow
      BY <2>3, <2>5 DEF CustomerRow
    <2>7. loaded = current => written = new
      BY <2>1, <2>2, <2>4, <2>6 DEF CustomerRow
    <2> QED
      BY <1>2, <2>5, <2>6, <2>7 DEF DirectoryRow, SameOwner
  <1>3. CASE table = "review"
    <2>1. /\ new \in ReviewRow(e) /\ current \in ReviewRow(e)
          /\ e["customer"][new.customer].organization = Products[new.product]
          /\ new.product = current.product /\ new.customer = current.customer
      BY <1>3 DEF DirectoryRow, SameOwner
    <2>2. DOMAIN new = {"product", "customer", "status"}
      BY <2>1 DEF ReviewRow
    <2>3. written = [product |-> written.product, customer |-> written.customer,
                     status |-> written.status]
      BY <2>2, MixedColumns
    <2>4. \A column \in DOMAIN new : /\ written[column] \in {new[column], current[column]}
                                     /\ loaded = current => written[column] = new[column]
      BY MixedColumns
    <2>5. /\ written.product \in DOMAIN Products /\ written.customer \in DOMAIN e["customer"]
          /\ written.status \in People!ModerationStatuses
          /\ written.product = new.product /\ written.customer = new.customer
      BY <2>1, <2>2, <2>4 DEF ReviewRow
    <2>6. written \in ReviewRow(e)
      BY <2>3, <2>5 DEF ReviewRow
    <2>7. loaded = current => written = new
      BY <2>1, <2>2, <2>4, <2>6 DEF ReviewRow
    <2> QED
      BY <1>3, <2>1, <2>5, <2>6, <2>7 DEF DirectoryRow, SameOwner
  <1> QED
    BY <1>1, <1>2, <1>3 DEF DirectoryTables


\* A request that has looked and is to write what s says.
DirectoryBegun(r, s) ==
    /\ directory_session[r].stage = "idle"
    /\ directory_session' = [directory_session EXCEPT ![r] = s]
    /\ entries' = entries

DirectoryAsks(r) ==
    \E s : /\ DirectoryBegun(r, s) /\ DirectoryAsked(entries, s)
           /\ Serial => DirectoryKnown(s)

\* What Insert leaves in the session.
LEMMA DirectoryInserts ==
    ASSUME NEW r, NEW table, NEW new, People!Insert(r, table, new)
    PROVE  \E s : /\ DirectoryBegun(r, s) /\ s.stage = "insert" /\ s.table = table
                  /\ s.id = 0 /\ s.new = new
  <1>1. PICK s : s = [stage |-> "insert", table |-> table, id |-> 0, new |-> new, row |-> Null]
    OBVIOUS
  <1>2. DirectoryBegun(r, s)
    BY <1>1 DEF People!Insert, People!Begin, DirectoryBegun
  <1> QED
    BY <1>1, <1>2

\* And Update.
LEMMA DirectoryUpdates ==
    ASSUME NEW r, NEW table, NEW id, NEW new, People!Update(r, table, id, new), id # 0
    PROVE  \E s : /\ DirectoryBegun(r, s) /\ s.stage = "update" /\ s.table = table
                  /\ s.id = id /\ s.new = new /\ s.row = entries[table][id]
  <1>1. PICK s : s = [stage |-> "update", table |-> table, id |-> id, new |-> new,
                      row |-> entries[table][id]]
    OBVIOUS
  <1>2. DirectoryBegun(r, s)
    BY <1>1 DEF People!Update, People!Begin, DirectoryBegun
  <1> QED
    BY <1>1, <1>2

\* The rows of a table are numbered from 1.
LEMMA RowNumbers ==
    ASSUME DirectoryTyped(entries), NEW table \in DirectoryTables
    PROVE  /\ 0 \notin DOMAIN entries[table]
           /\ \A i \in DOMAIN entries[table] : DirectoryRow(entries, table, entries[table][i])
  <1>1. IsTable(entries[table])
    BY DEF DirectoryTyped
  <1>2. 0 \notin DOMAIN entries[table]
    BY <1>1, TableIs
  <1> QED
    BY <1>2 DEF DirectoryTyped

\* Branches: the code was looked up, the name was not.
LEMMA BranchAsks ==
    ASSUME DirectoryInv, NEW r \in Threads, NEW org \in Organizations, People!SomeBranch(r, org)
    PROVE  DirectoryAsks(r)
  <1>1. "branch" \in DirectoryTables
    BY DEF DirectoryTables
  <1>2. /\ 0 \notin DOMAIN entries["branch"]
        /\ \A i \in DOMAIN entries["branch"] : entries["branch"][i] \in BranchRow
    BY <1>1, RowNumbers DEF DirectoryInv, DirectoryRow
  <1>3. ASSUME NEW code \in Names, NEW name \in Names, People!CreateBranch(r, org, code, name)
        PROVE  DirectoryAsks(r)
    <2>1. PICK new : new = People!Branch(org, code, name)
      OBVIOUS
    <2>2. new \in BranchRow /\ new.organization = org /\ new.code = code
      BY <2>1 DEF People!Branch, BranchRow
    <2>3. PICK s : /\ DirectoryBegun(r, s) /\ s.stage = "insert" /\ s.table = "branch"
                   /\ s.id = 0 /\ s.new = new
      BY <1>3, <2>1, DirectoryInserts DEF People!CreateBranch
    <2>4. DirectoryAsked(entries, s)
      BY <1>1, <2>2, <2>3 DEF DirectoryAsked, DirectoryRow
    <2>5. ASSUME NEW i \in People!Collisions("branch", 0, new)
          PROVE  entries["branch"][i].code # new.code
      <3>1. /\ i \in DOMAIN entries["branch"]
            /\ People!UniqueKeys("branch", entries["branch"][i])
                 \intersect People!UniqueKeys("branch", new) # {}
        BY <2>5 DEF People!Collisions, People!Ids
      <3>2. entries["branch"][i].organization = org
        BY <2>2, <3>1, SharedKeys
      <3> QED
        BY <1>3, <2>2, <3>1, <3>2 DEF People!CreateBranch, People!FreeCode, People!Ids
    <2>6. DirectoryKnown(s)
      BY <2>3, <2>5 DEF DirectoryKnown, EntryForeseen
    <2> QED
      BY <2>3, <2>4, <2>6 DEF DirectoryAsks
  <1>4. ASSUME NEW id \in DOMAIN entries["branch"], NEW name \in Names, NEW is_active \in BOOLEAN,
               People!UpdateBranch(r, org, id, name, is_active)
        PROVE  DirectoryAsks(r)
    <2>1. PICK branch : branch = entries["branch"][id]
      OBVIOUS
    <2>2. branch \in BranchRow
      BY <1>2, <2>1
    <2>3. PICK new : new = [branch EXCEPT !.name = name, !.is_active = is_active]
      OBVIOUS
    <2>4. new \in BranchRow /\ new.organization = branch.organization /\ new.code = branch.code
      BY <2>2, <2>3 DEF BranchRow
    <2>5. PICK s : /\ DirectoryBegun(r, s) /\ s.stage = "update" /\ s.table = "branch"
                   /\ s.id = id /\ s.new = new /\ s.row = branch
      BY <1>2, <1>4, <2>1, <2>3, DirectoryUpdates DEF People!UpdateBranch
    <2>6. DirectoryAsked(entries, s)
      BY <1>1, <2>1, <2>4, <2>5 DEF DirectoryAsked, DirectoryRow, SameOwner
    <2>7. ASSUME NEW i \in People!Collisions("branch", id, new)
          PROVE  entries["branch"][i].code # new.code
      <3>1. /\ i \in DOMAIN entries["branch"] /\ i # id
            /\ People!UniqueKeys("branch", entries["branch"][i])
                 \intersect People!UniqueKeys("branch", new) # {}
        BY <2>7 DEF People!Collisions, People!Ids
      <3>2. entries["branch"][i].organization = new.organization
        BY <3>1, SharedKeys
      <3>3. People!UniqueKeys("branch", entries["branch"][i])
              \intersect People!UniqueKeys("branch", branch) = {}
        BY <1>1, <2>1, <3>1 DEF DirectoryInv, EntriesApart
      <3> QED
        BY <2>4, <3>2, <3>3, SharedKeys
    <2>8. DirectoryKnown(s)
      BY <2>1, <2>5, <2>7 DEF DirectoryKnown, EntryForeseen
    <2> QED
      BY <2>5, <2>6, <2>8 DEF DirectoryAsks
  <1>5. ASSUME NEW id \in DOMAIN entries["branch"], People!DeleteBranch(r, org, id)
        PROVE  DirectoryAsks(r)
    <2>1. entries["branch"][id].name \in Names
      BY <1>2 DEF BranchRow
    <2> QED
      BY <1>4, <1>5, <2>1 DEF People!DeleteBranch
  <1> QED
    BY <1>3, <1>4, <1>5 DEF People!SomeBranch, People!Ids

\* Customers: the number was looked up among those who are not deleted.
LEMMA CustomerAsks ==
    ASSUME DirectoryInv, NEW r \in Threads, NEW org \in Organizations, People!SomeCustomer(r, org)
    PROVE  DirectoryAsks(r)
  <1>1. "customer" \in DirectoryTables
    BY DEF DirectoryTables
  <1>2. /\ 0 \notin DOMAIN entries["customer"]
        /\ \A i \in DOMAIN entries["customer"] : entries["customer"][i] \in CustomerRow
    BY <1>1, RowNumbers DEF DirectoryInv, DirectoryRow
  <1>3. ASSUME NEW id, NEW phone, People!FreePhone(id, org, phone),
               NEW new, new.organization = org, new.phone = phone,
               NEW i \in People!Collisions("customer", id, new)
        PROVE  EntryForeseen("customer", i, new)
    <2>1. /\ i \in DOMAIN entries["customer"] \ {id}
          /\ People!UniqueKeys("customer", entries["customer"][i])
               \intersect People!UniqueKeys("customer", new) # {}
      BY <1>3 DEF People!Collisions, People!Ids
    <2>2. /\ entries["customer"][i].organization = org
          /\ entries["customer"][i].phone = phone /\ phone # Null
      BY <1>3, <2>1, SharedKeys
    <2>3. entries["customer"][i].deleted \/ phone = Blank
      BY <1>3, <2>1, <2>2 DEF People!FreePhone, People!OwnCustomer, People!Ids
    <2> QED
      BY <1>3, <2>3 DEF EntryForeseen
  <1>4. ASSUME NEW phone \in People!Numbers, People!CreateCustomer(r, org, phone)
        PROVE  DirectoryAsks(r)
    <2>1. PICK new : new = People!Customer(org, phone)
      OBVIOUS
    <2>2. new \in CustomerRow /\ new.organization = org /\ new.phone = phone
      BY <2>1 DEF People!Customer, CustomerRow
    <2>3. PICK s : /\ DirectoryBegun(r, s) /\ s.stage = "insert" /\ s.table = "customer"
                   /\ s.id = 0 /\ s.new = new
      BY <1>4, <2>1, DirectoryInserts DEF People!CreateCustomer
    <2>4. DirectoryAsked(entries, s)
      BY <1>1, <2>2, <2>3 DEF DirectoryAsked, DirectoryRow
    <2>5. \A i \in People!Collisions("customer", 0, new) : EntryForeseen("customer", i, new)
      BY <1>3, <1>4, <2>2 DEF People!CreateCustomer
    <2>6. DirectoryKnown(s)
      BY <2>3, <2>5 DEF DirectoryKnown
    <2> QED
      BY <2>3, <2>4, <2>6 DEF DirectoryAsks
  <1>5. ASSUME NEW id \in DOMAIN entries["customer"], People!OwnCustomer(id, org),
               NEW new \in CustomerRow, new.organization = org,
               \/ new.phone = entries["customer"][id].phone
               \/ People!FreePhone(id, org, new.phone),
               People!Update(r, "customer", id, new)
        PROVE  DirectoryAsks(r)
    <2>1. PICK customer : customer = entries["customer"][id]
      OBVIOUS
    <2>2. customer \in CustomerRow /\ customer.organization = org /\ ~customer.deleted
      BY <1>2, <1>5, <2>1 DEF People!OwnCustomer
    <2>3. PICK s : /\ DirectoryBegun(r, s) /\ s.stage = "update" /\ s.table = "customer"
                   /\ s.id = id /\ s.new = new /\ s.row = customer
      BY <1>2, <1>5, <2>1, DirectoryUpdates
    <2>4. DirectoryAsked(entries, s)
      BY <1>1, <1>5, <2>1, <2>2, <2>3 DEF DirectoryAsked, DirectoryRow, SameOwner
    <2>5. ASSUME NEW i \in People!Collisions("customer", id, new)
          PROVE  EntryForeseen("customer", i, new)
      <3>1. CASE People!FreePhone(id, org, new.phone)
        BY <1>3, <1>5, <3>1
      <3>2. CASE new.phone = entries["customer"][id].phone
        <4>1. /\ i \in DOMAIN entries["customer"] /\ i # id
              /\ People!UniqueKeys("customer", entries["customer"][i])
                   \intersect People!UniqueKeys("customer", new) # {}
          BY <2>5 DEF People!Collisions, People!Ids
        <4>2. People!UniqueKeys("customer", entries["customer"][i])
                \intersect People!UniqueKeys("customer", customer) = {}
          BY <1>1, <2>1, <4>1 DEF DirectoryInv, EntriesApart
        <4> QED
          BY <1>5, <2>1, <2>2, <3>2, <4>1, <4>2, SharedKeys
      <3> QED
        BY <1>5, <3>1, <3>2
    <2>6. DirectoryKnown(s)
      BY <2>1, <2>2, <2>3, <2>5 DEF DirectoryKnown
    <2> QED
      BY <2>3, <2>4, <2>6 DEF DirectoryAsks
  <1>6. ASSUME NEW id \in DOMAIN entries["customer"], NEW phone \in People!Numbers,
               People!UpdateCustomer(r, org, id, phone)
        PROVE  DirectoryAsks(r)
    <2>1. PICK customer : customer = entries["customer"][id]
      OBVIOUS
    <2>2. customer \in CustomerRow /\ customer.organization = org
      BY <1>2, <1>6, <2>1 DEF People!UpdateCustomer, People!OwnCustomer
    <2>3. PICK new : new = [customer EXCEPT !.phone = IF phone = Null THEN @ ELSE phone]
      OBVIOUS
    <2>4. /\ new \in CustomerRow /\ new.organization = org
          /\ new.phone = IF phone = Null THEN customer.phone ELSE phone
      BY <2>2, <2>3 DEF CustomerRow
    <2>5. People!OwnCustomer(id, org) /\ People!FreePhone(id, org, phone)
          /\ People!Update(r, "customer", id, new)
      BY <1>6, <2>1, <2>3 DEF People!UpdateCustomer
    <2>6. new.phone = entries["customer"][id].phone \/ People!FreePhone(id, org, new.phone)
      BY <2>1, <2>4, <2>5
    <2> QED
      BY <1>5, <2>4, <2>5, <2>6
  <1>7. ASSUME NEW id \in DOMAIN entries["customer"], People!SoftDelete(r, org, id)
        PROVE  DirectoryAsks(r)
    <2>1. PICK customer : customer = entries["customer"][id]
      OBVIOUS
    <2>2. customer \in CustomerRow /\ customer.organization = org
      BY <1>2, <1>7, <2>1 DEF People!SoftDelete, People!OwnCustomer
    <2>3. PICK new : new = [customer EXCEPT !.deleted = TRUE]
      OBVIOUS
    <2>4. new \in CustomerRow /\ new.organization = org /\ new.phone = customer.phone
      BY <2>2, <2>3 DEF CustomerRow
    <2>5. People!OwnCustomer(id, org) /\ People!Update(r, "customer", id, new)
      BY <1>7, <2>1, <2>3 DEF People!SoftDelete
    <2> QED
      BY <1>5, <2>1, <2>4, <2>5
  <1> QED
    BY <1>4, <1>6, <1>7 DEF People!SomeCustomer, People!Ids

\* Reviews: of a product and a customer of the organization.
LEMMA ReviewAsks ==
    ASSUME DirectoryInv, NEW r \in Threads, NEW org \in Organizations, People!SomeReview(r, org)
    PROVE  DirectoryAsks(r)
  <1>1. "review" \in DirectoryTables
    BY DEF DirectoryTables
  <1>2. /\ 0 \notin DOMAIN entries["review"]
        /\ \A i \in DOMAIN entries["review"] : DirectoryRow(entries, "review", entries["review"][i])
    BY <1>1, RowNumbers DEF DirectoryInv
  <1>3. \A id, new : People!Collisions("review", id, new) = {}
    BY SharedKeys DEF People!Collisions
  <1>4. ASSUME NEW product \in DOMAIN Products, NEW customer \in DOMAIN entries["customer"],
               People!CreateReview(r, org, product, customer)
        PROVE  DirectoryAsks(r)
    <2>1. PICK new : new = People!Review(product, customer)
      OBVIOUS
    <2>2. new \in ReviewRow(entries) /\ new.product = product /\ new.customer = customer
      BY <2>1 DEF People!Review, ReviewRow, People!ModerationStatuses
    <2>3. /\ entries["customer"][customer].organization = Products[product]
          /\ ~entries["customer"][customer].deleted
      BY <1>4 DEF People!CreateReview, People!OwnProduct, People!OwnCustomer
    <2>4. PICK s : /\ DirectoryBegun(r, s) /\ s.stage = "insert" /\ s.table = "review"
                   /\ s.id = 0 /\ s.new = new
      BY <1>4, <2>1, DirectoryInserts DEF People!CreateReview
    <2>5. DirectoryAsked(entries, s)
      BY <1>1, <2>2, <2>3, <2>4 DEF DirectoryAsked, DirectoryRow
    <2>6. DirectoryKnown(s)
      BY <1>3, <2>2, <2>3, <2>4 DEF DirectoryKnown
    <2> QED
      BY <2>4, <2>5, <2>6 DEF DirectoryAsks
  <1>5. ASSUME NEW id \in DOMAIN entries["review"], NEW status \in People!ModerationStatuses,
               People!ModerateReview(r, org, id, status)
        PROVE  DirectoryAsks(r)
    <2>1. PICK review : review = entries["review"][id]
      OBVIOUS
    <2>2. /\ review \in ReviewRow(entries)
          /\ entries["customer"][review.customer].organization = Products[review.product]
      BY <1>2, <2>1 DEF DirectoryRow
    <2>3. PICK new : new = [review EXCEPT !.status = status]
      OBVIOUS
    <2>4. /\ new \in ReviewRow(entries) /\ new.product = review.product
          /\ new.customer = review.customer
      BY <2>2, <2>3 DEF ReviewRow
    <2>5. PICK s : /\ DirectoryBegun(r, s) /\ s.stage = "update" /\ s.table = "review"
                   /\ s.id = id /\ s.new = new /\ s.row = review
      BY <1>2, <1>5, <2>1, <2>3, DirectoryUpdates DEF People!ModerateReview
    <2>6. DirectoryAsked(entries, s)
      BY <1>1, <2>1, <2>2, <2>4, <2>5 DEF DirectoryAsked, DirectoryRow, SameOwner
    <2>7. DirectoryKnown(s)
      BY <1>3, <2>1, <2>5 DEF DirectoryKnown
    <2> QED
      BY <2>5, <2>6, <2>7 DEF DirectoryAsks
  <1> QED
    BY <1>4, <1>5 DEF People!SomeReview, People!Ids


\* The session of one request changes and the tables do not.
LEMMA DirectoryReads ==
    ASSUME DirectoryInv, workload' = workload, Serial => AloneIn(directory_session'),
           NEW r \in Threads, NEW s,
           directory_session' = [directory_session EXCEPT ![r] = s], entries' = entries,
           DirectoryAsked(entries, s), Serial => DirectoryKnown(s)
    PROVE  DirectoryInv'
  <1>1. /\ DOMAIN directory_session' = Threads
        /\ \A t \in Threads : directory_session'[t] = IF t = r THEN s ELSE directory_session[t]
    BY DEF DirectoryInv
  <1>2. DirectoryTyped(entries)' /\ EntriesApart'
    BY DEF DirectoryInv, EntriesApart
  <1>3. \A t \in Threads : DirectoryAsked(entries, directory_session[t])'
    BY <1>1 DEF DirectoryInv
  <1>4. ASSUME Serial' PROVE DirectorySerial'
    <2>1. Serial
      BY <1>4 DEF Serial
    <2>2. ASSUME NEW q, DirectoryKnown(q), NEW t \in Threads, directory_session'[t] = q
          PROVE  DirectoryKnown(directory_session[t])'
      BY <2>2 DEF DirectoryKnown, EntryForeseen, People!Collisions, People!Ids
    <2> QED
      BY <1>1, <2>1, <2>2 DEF DirectoryInv, DirectorySerial
  <1> QED
    BY <1>1, <1>2, <1>3, <1>4 DEF DirectoryInv

\* A request that begins, and one that fails.
LEMMA DirectoryBeginsOrFails ==
    ASSUME DirectoryInv, workload' = workload, Serial => AloneIn(directory_session'),
           NEW r \in Threads, DirectoryAsks(r) \/ People!Fail(r)
    PROVE  DirectoryInv' /\ entries' = entries
  <1>1. CASE DirectoryAsks(r)
    BY <1>1, DirectoryReads DEF DirectoryAsks, DirectoryBegun
  <1>2. CASE People!Fail(r)
    <2>1. PICK s : s = People!IdleRequest
      OBVIOUS
    <2>2. /\ directory_session' = [directory_session EXCEPT ![r] = s] /\ entries' = entries
          /\ s.stage = "idle"
      BY <1>2, <2>1 DEF People!Fail, People!Free, People!IdleRequest
    <2>3. DirectoryAsked(entries, s) /\ DirectoryKnown(s)
      BY <2>2 DEF DirectoryAsked, DirectoryKnown
    <2> QED
      BY <2>2, <2>3, DirectoryReads
  <1> QED
    BY <1>1, <1>2

\* What remains to be shown of a flush: no row changes its owner.
LEMMA DirectoryFlushed ==
    ASSUME DirectoryInv, workload' = workload,
           NEW r \in Threads, directory_session[r].stage # "idle", People!Free(r),
           entries' = [table \in DirectoryTables |-> entries'[table]],
           EntriesApart',
           \A table \in DirectoryTables :
             /\ IsTable(entries'[table])
             /\ \A i \in DOMAIN entries[table] :
                  i \in DOMAIN entries'[table] /\ SameOwner(table, entries'[table][i], entries[table][i])
             /\ \A i \in DOMAIN entries'[table] : DirectoryRow(entries, table, entries'[table][i])
    PROVE  DirectoryInv'
  <1>1. /\ DOMAIN directory_session' = Threads
        /\ directory_session'[r].stage = "idle"
        /\ \A t \in Threads \ {r} : directory_session'[t] = directory_session[t]
    BY DEF DirectoryInv, People!Free, People!IdleRequest
  <1>2. "customer" \in DirectoryTables
    BY DEF DirectoryTables
  <1>3. ASSUME NEW table, NEW row, DirectoryRow(entries, table, row)
        PROVE  DirectoryRow(entries', table, row)
    BY <1>2, <1>3, DirectoryGrows
  <1>4. DirectoryTyped(entries)'
    BY <1>3 DEF DirectoryTyped
  <1>5. ASSUME NEW t \in Threads PROVE DirectoryAsked(entries', directory_session'[t])
    <2>1. CASE t = r
      BY <1>1, <2>1 DEF DirectoryAsked
    <2>2. CASE t # r
      <3>1. PICK s : s = directory_session[t] /\ s = directory_session'[t]
        BY <1>1, <2>2
      <3>2. DirectoryAsked(entries, s)
        BY <3>1 DEF DirectoryInv
      <3>3. ASSUME s.stage = "update"
            PROVE  s.id \in DOMAIN entries'[s.table]
                   /\ SameOwner(s.table, s.new, entries'[s.table][s.id])
        BY <3>2, <3>3 DEF DirectoryAsked, SameOwner
      <3>4. DirectoryAsked(entries', s)
        BY <1>3, <3>2, <3>3 DEF DirectoryAsked
      <3> QED
        BY <3>1, <3>4
    <2> QED
      BY <2>1, <2>2
  <1>6. ASSUME Serial' PROVE DirectorySerial'
    <2>1. Serial
      BY <1>6 DEF Serial
    <2>2. \A t \in Threads : directory_session'[t].stage = "idle"
      BY <1>1, <2>1 DEF DirectoryInv, DirectorySerial, AloneIn
    <2> QED
      BY <2>2 DEF DirectorySerial, AloneIn, DirectoryKnown
  <1> QED
    BY <1>1, <1>4, <1>5, <1>6 DEF DirectoryInv

\* A row is added that no index refuses.
LEMMA DirectoryAdds ==
    ASSUME DirectoryInv, workload' = workload, NEW r \in Threads, People!FlushInsert(r)
    PROVE  DirectoryInv' /\ (Serial => People!DeletedStep)
  <1>1. PICK s : s = directory_session[r]
    OBVIOUS
  <1>2. PICK table : table = s.table
    OBVIOUS
  <1>3. PICK new : new = s.new
    OBVIOUS
  <1>4. PICK old : old = entries[table]
    OBVIOUS
  <1>5. PICK more : more = WithRow(old, new)
    OBVIOUS
  <1>6. /\ s.stage = "insert" /\ People!Free(r) /\ People!Collisions(table, 0, new) = {}
        /\ entries' = [entries EXCEPT ![table] = more]
    BY <1>1, <1>2, <1>3, <1>4, <1>5 DEF People!FlushInsert, WithRow
  <1>7. /\ DirectoryTyped(entries) /\ EntriesApart /\ DirectoryAsked(entries, s)
        /\ Serial => DirectoryKnown(s)
    BY <1>1 DEF DirectoryInv, DirectorySerial
  <1>8. table \in DirectoryTables /\ DirectoryRow(entries, table, new)
    BY <1>2, <1>3, <1>6, <1>7 DEF DirectoryAsked
  <1>9. /\ entries = [other \in DirectoryTables |-> entries[other]]
        /\ \A other \in DirectoryTables :
             IsTable(entries[other])
             /\ \A i \in DOMAIN entries[other] : DirectoryRow(entries, other, entries[other][i])
    BY <1>7 DEF DirectoryTyped
  <1>10. /\ entries' = [other \in DirectoryTables |-> entries'[other]]
         /\ entries'[table] = more
         /\ \A other \in DirectoryTables \ {table} : entries'[other] = entries[other]
    BY <1>6, <1>8, <1>9
  <1>11. /\ IsTable(more) /\ DOMAIN more = DOMAIN old \union {Len(old) + 1}
         /\ Len(old) + 1 \notin DOMAIN old /\ 0 \notin DOMAIN old
         /\ \A i \in DOMAIN old : more[i] = old[i]
         /\ more[Len(old) + 1] = new
    <2>1. IsTable(old)
      BY <1>4, <1>8, <1>9
    <2>2. /\ IsTable(more) /\ Len(old) \in Nat
          /\ DOMAIN old = 1 .. Len(old) /\ DOMAIN more = 1 .. Len(old) + 1
          /\ \A i \in DOMAIN old : more[i] = old[i]
          /\ more[Len(old) + 1] = new
      BY <1>5, <2>1, AppendRow
    <2> QED
      BY <2>2
  <1>12. \A i \in DOMAIN old :
            People!UniqueKeys(table, old[i]) \intersect People!UniqueKeys(table, new) = {}
    BY <1>4, <1>6, <1>11 DEF People!Collisions, People!Ids
  <1>13. EntriesApart'
    <2>1. ASSUME NEW i \in DOMAIN more, NEW j \in DOMAIN more, i # j
          PROVE  People!UniqueKeys(table, more[i]) \intersect People!UniqueKeys(table, more[j]) = {}
      <3>1. CASE i \in DOMAIN old /\ j \in DOMAIN old
        BY <1>4, <1>7, <1>8, <1>11, <2>1, <3>1 DEF EntriesApart
      <3>2. CASE i = Len(old) + 1 /\ j \in DOMAIN old
        BY <1>11, <1>12, <3>2
      <3>3. CASE j = Len(old) + 1 /\ i \in DOMAIN old
        BY <1>11, <1>12, <3>3
      <3> QED
        BY <1>11, <2>1, <3>1, <3>2, <3>3
    <2>2. ASSUME NEW other \in DirectoryTables,
                 NEW i \in DOMAIN entries'[other], NEW j \in DOMAIN entries'[other], i # j
          PROVE  People!UniqueKeys(other, entries'[other][i])
                   \intersect People!UniqueKeys(other, entries'[other][j]) = {}
      BY <1>7, <1>10, <2>1, <2>2 DEF EntriesApart
    <2> QED
      BY <2>2 DEF EntriesApart, People!UniqueKeys
  <1>14. \A other \in DirectoryTables :
           /\ IsTable(entries'[other])
           /\ \A i \in DOMAIN entries[other] :
                i \in DOMAIN entries'[other] /\ entries'[other][i] = entries[other][i]
           /\ \A i \in DOMAIN entries'[other] : DirectoryRow(entries, other, entries'[other][i])
    BY <1>4, <1>8, <1>9, <1>10, <1>11
  <1>15. DirectoryInv'
    BY <1>1, <1>6, <1>10, <1>13, <1>14, DirectoryFlushed DEF SameOwner
  <1>16. ASSUME Serial PROVE People!DeletedStep
    <2>1. "customer" \in DirectoryTables /\ "review" \in DirectoryTables
      BY DEF DirectoryTables
    <2>2. \A c \in DOMAIN entries["customer"] : entries'["customer"][c] = entries["customer"][c]
      BY <1>14, <2>1
    <2>3. ASSUME NEW v \in DOMAIN entries'["review"], v \notin DOMAIN entries["review"]
          PROVE  ~entries["customer"][entries'["review"][v].customer].deleted
      <3>1. table = "review" /\ v = Len(old) + 1
        BY <1>4, <1>10, <1>11, <2>1, <2>3
      <3>2. entries'["review"][v] = new
        BY <1>10, <1>11, <3>1
      <3> QED
        BY <1>2, <1>3, <1>6, <1>7, <1>16, <3>1, <3>2 DEF DirectoryKnown
    <2> QED
      BY <2>2, <2>3 DEF People!DeletedStep, People!Ids
  <1> QED
    BY <1>15, <1>16

\* A row is changed, and no index refuses it.
LEMMA DirectoryChanges ==
    ASSUME DirectoryInv, workload' = workload, NEW r \in Threads, People!FlushUpdate(r)
    PROVE  DirectoryInv' /\ (Serial => People!DeletedStep)
  <1>1. PICK s : s = directory_session[r]
    OBVIOUS
  <1>2. PICK table : table = s.table
    OBVIOUS
  <1>3. PICK id : id = s.id
    OBVIOUS
  <1>4. PICK old : old = entries[table]
    OBVIOUS
  <1>5. PICK new : new = People!Written(old[id], s.row, s.new)
    OBVIOUS
  <1>6. PICK more : more = [old EXCEPT ![id] = new]
    OBVIOUS
  <1>7. /\ s.stage = "update" /\ People!Free(r) /\ People!Collisions(table, id, new) = {}
        /\ entries' = [entries EXCEPT ![table] = more]
    BY <1>1, <1>2, <1>3, <1>4, <1>5, <1>6 DEF People!FlushUpdate
  <1>8. /\ DirectoryTyped(entries) /\ EntriesApart /\ DirectoryAsked(entries, s)
        /\ Serial => DirectoryKnown(s)
    BY <1>1 DEF DirectoryInv, DirectorySerial
  <1>9. /\ table \in DirectoryTables /\ DirectoryRow(entries, table, s.new)
        /\ id \in DOMAIN old /\ SameOwner(table, s.new, old[id])
    BY <1>2, <1>3, <1>4, <1>7, <1>8 DEF DirectoryAsked
  <1>10. /\ entries = [other \in DirectoryTables |-> entries[other]]
         /\ \A other \in DirectoryTables :
              IsTable(entries[other])
              /\ \A i \in DOMAIN entries[other] : DirectoryRow(entries, other, entries[other][i])
    BY <1>8 DEF DirectoryTyped
  <1>11. DirectoryRow(entries, table, old[id])
    BY <1>4, <1>9, <1>10
  <1>12. DirectoryRow(entries, table, new) /\ SameOwner(table, new, old[id])
    BY <1>5, <1>9, <1>11, DirectoryWritten
  <1>13. /\ entries' = [other \in DirectoryTables |-> entries'[other]]
         /\ entries'[table] = more
         /\ \A other \in DirectoryTables \ {table} : entries'[other] = entries[other]
    BY <1>7, <1>9, <1>10
  <1>14. /\ IsTable(more) /\ DOMAIN more = DOMAIN old
         /\ \A i \in DOMAIN old : more[i] = IF i = id THEN new ELSE old[i]
    <2>1. IsTable(old)
      BY <1>4, <1>9, <1>10
    <2> QED
      BY <1>6, <2>1, ReplaceRow
  <1>15. \A i \in DOMAIN old \ {id} :
            People!UniqueKeys(table, old[i]) \intersect People!UniqueKeys(table, new) = {}
    BY <1>4, <1>7 DEF People!Collisions, People!Ids
  <1>16. EntriesApart'
    <2>1. ASSUME NEW i \in DOMAIN more, NEW j \in DOMAIN more, i # j
          PROVE  People!UniqueKeys(table, more[i]) \intersect People!UniqueKeys(table, more[j]) = {}
      <3>1. CASE i # id /\ j # id
        BY <1>4, <1>8, <1>9, <1>14, <2>1, <3>1 DEF EntriesApart
      <3>2. CASE i = id
        BY <1>14, <1>15, <2>1, <3>2
      <3>3. CASE j = id
        BY <1>14, <1>15, <2>1, <3>3
      <3> QED
        BY <3>1, <3>2, <3>3
    <2>2. ASSUME NEW other \in DirectoryTables,
                 NEW i \in DOMAIN entries'[other], NEW j \in DOMAIN entries'[other], i # j
          PROVE  People!UniqueKeys(other, entries'[other][i])
                   \intersect People!UniqueKeys(other, entries'[other][j]) = {}
      BY <1>8, <1>13, <2>1, <2>2 DEF EntriesApart
    <2> QED
      BY <2>2 DEF EntriesApart, People!UniqueKeys
  <1>17. \A other \in DirectoryTables :
           /\ IsTable(entries'[other])
           /\ \A i \in DOMAIN entries[other] :
                i \in DOMAIN entries'[other] /\ SameOwner(other, entries'[other][i], entries[other][i])
           /\ \A i \in DOMAIN entries'[other] : DirectoryRow(entries, other, entries'[other][i])
    <2>1. \A a : SameOwner(table, a, a)
      BY DEF SameOwner
    <2>2. \A i \in DOMAIN old : SameOwner(table, more[i], old[i])
      BY <1>12, <1>14, <2>1
    <2>3. \A i \in DOMAIN more : DirectoryRow(entries, table, more[i])
      BY <1>4, <1>9, <1>10, <1>12, <1>14
    <2>4. \A other, a : SameOwner(other, a, a)
      BY DEF SameOwner
    <2> QED
      BY <1>4, <1>10, <1>13, <1>14, <2>2, <2>3, <2>4
  <1>18. DirectoryInv'
    BY <1>1, <1>7, <1>13, <1>16, <1>17, DirectoryFlushed
  <1>19. ASSUME Serial PROVE People!DeletedStep
    <2>1. "customer" \in DirectoryTables /\ "review" \in DirectoryTables
      BY DEF DirectoryTables
    <2>2. \A c \in DOMAIN entries["customer"] :
            entries["customer"][c].deleted => entries'["customer"][c] = entries["customer"][c]
      <3>1. table = "customer" => ~old[id].deleted
        BY <1>2, <1>3, <1>4, <1>7, <1>8, <1>19 DEF DirectoryKnown
      <3> QED
        BY <1>4, <1>13, <1>14, <2>1, <3>1
    <2>3. DOMAIN entries'["review"] = DOMAIN entries["review"]
      BY <1>4, <1>13, <1>14, <2>1
    <2> QED
      BY <2>2, <2>3 DEF People!DeletedStep, People!Ids
  <1> QED
    BY <1>18, <1>19

\* Whatever the behaviour is about.
LEMMA DirectoryKept ==
    ASSUME DirectoryInv, [MCNext]_<<eventVars, NotEvents>>
    PROVE  DirectoryInv' /\ [Serial => People!DeletedStep]_peopleVars
  <1>1. workload' = workload
    BY WorkloadStays
  <1>2. CASE UNCHANGED peopleVars
    <2>1. entries' = entries /\ directory_session' = directory_session
      BY <1>2 DEF peopleVars
    <2>2. (EntriesApart' <=> EntriesApart) /\ (DirectoryTyped(entries)' <=> DirectoryTyped(entries))
      BY <2>1 DEF EntriesApart
    <2>3. \A t \in Threads : DirectoryAsked(entries, directory_session[t])'
                            <=> DirectoryAsked(entries, directory_session[t])
      BY <2>1
    <2>4. \A t \in Threads : DirectoryKnown(directory_session[t])' <=> DirectoryKnown(directory_session[t])
      BY <2>1 DEF DirectoryKnown, EntryForeseen, People!Collisions, People!Ids
    <2>5. Serial' => Serial
      BY <1>1 DEF Serial
    <2> QED
      BY <1>2, <2>1, <2>2, <2>3, <2>4, <2>5 DEF DirectoryInv, DirectorySerial, AloneIn
  <1>3. CASE /\ \E r \in Threads : DirectoryMoves(r)
             /\ Serial => AloneIn(directory_session')
    <2>1. PICK r \in Threads : DirectoryMoves(r)
      BY <1>3
    <2>2. CASE People!FlushInsert(r)
      BY <1>1, <2>2, DirectoryAdds
    <2>3. CASE People!FlushUpdate(r)
      BY <1>1, <2>3, DirectoryChanges
    <2>4. CASE DirectoryAsks(r) \/ People!Fail(r)
      <3>1. DirectoryInv' /\ entries' = entries
        BY <1>1, <1>3, <2>4, DirectoryBeginsOrFails
      <3> QED
        BY <3>1 DEF People!DeletedStep, People!Ids
    <2> QED
      BY <2>1, <2>2, <2>3, <2>4, BranchAsks, CustomerAsks, ReviewAsks DEF DirectoryMoves
  <1> QED
    BY <1>2, <1>3, DirectorySteps

\* What the invariant says of the directory.
LEMMA DirectoryMeans ==
    ASSUME DirectoryInv
    PROVE  People!TypeOK /\ People!ReviewersBelong /\ (Serial => People!ChecksForeseeInserts)
  <1>1. /\ "branch" \in DirectoryTables /\ "customer" \in DirectoryTables
        /\ "review" \in DirectoryTables
    BY DEF DirectoryTables
  <1>2. \A table \in DirectoryTables :
          \A i \in DOMAIN entries[table] : DirectoryRow(entries, table, entries[table][i])
    BY DEF DirectoryInv, DirectoryTyped
  <1>3. People!TypeOK
    BY <1>1, <1>2 DEF People!TypeOK, People!Ids, DirectoryRow, BranchRow, CustomerRow, ReviewRow
  <1>4. People!ReviewersBelong
    BY <1>1, <1>2 DEF People!ReviewersBelong, People!Ids, DirectoryRow
  <1>5. ASSUME Serial PROVE People!ChecksForeseeInserts
    <2>1. ASSUME NEW t \in Threads, directory_session[t].stage # "idle",
                 NEW i \in People!Collisions(directory_session[t].table, directory_session[t].id,
                                             directory_session[t].new)
          PROVE  EntryForeseen(directory_session[t].table, i, directory_session[t].new)
                 /\ directory_session[t].table \in DirectoryTables
      BY <1>5, <2>1 DEF DirectoryInv, DirectorySerial, DirectoryKnown, DirectoryAsked
    <2> QED
      BY <2>1 DEF People!ChecksForeseeInserts, EntryForeseen, DirectoryTables
  <1> QED
    BY <1>3, <1>4, <1>5

-----------------------------------------------------------------------------
\* Categories, products, suppliers and links.  The same argument as for the directory;
\* a link belongs to the organization of its supplier and of its product.

GoodsTables == {"category", "product", "supplier", "link"}

CategoryRow(e) ==
    [organization : Organizations, name : Names, parent : DOMAIN e["category"] \union {Null},
     is_active : BOOLEAN]
ProductRow(e) ==
    [organization : Organizations, sku : Names, barcode : Digits \union {Null, Blank},
     category : DOMAIN e["category"] \union {Null}, deleted : BOOLEAN]
SupplierRow == [organization : Organizations, name : Names, is_active : BOOLEAN]
LinkRow(e) ==
    [supplier : DOMAIN e["supplier"], product : DOMAIN e["product"], cost_price : {0, 1},
     gone : BOOLEAN]

\* A row that may stand in the tables e: what it refers to is of its organization.
GoodsRow(e, table, row) ==
    /\ table = "category" =>
        /\ row \in CategoryRow(e)
        /\ row.parent # Null => e["category"][row.parent].organization = row.organization
    /\ table = "product" =>
        /\ row \in ProductRow(e)
        /\ row.category # Null => e["category"][row.category].organization = row.organization
    /\ table = "supplier" => row \in SupplierRow
    /\ table = "link" =>
        /\ row \in LinkRow(e)
        /\ e["supplier"][row.supplier].organization = e["product"][row.product].organization

SameParties(table, a, b) ==
    IF table = "link" THEN a.supplier = b.supplier /\ a.product = b.product
    ELSE a.organization = b.organization

GoodsTyped(e) ==
    /\ e = [table \in GoodsTables |-> e[table]]
    /\ \A table \in GoodsTables :
         IsTable(e[table]) /\ \A i \in DOMAIN e[table] : GoodsRow(e, table, e[table][i])

GoodsAsked(e, s) ==
    /\ s.stage \in {"idle", "insert", "update"}
    /\ s.stage # "idle" => s.table \in GoodsTables /\ GoodsRow(e, s.table, s.new)
    /\ s.stage = "insert" => s.id = 0
    /\ s.stage = "update" =>
        s.id \in DOMAIN e[s.table] /\ SameParties(s.table, s.new, e[s.table][s.id])

\* No two rows of a table share a key of its unique indexes.
GoodsApart ==
    \A table \in GoodsTables : \A i, j \in DOMAIN rows[table] :
        i # j => Goods!UniqueKeys(table, rows[table][i])
                   \intersect Goods!UniqueKeys(table, rows[table][j]) = {}

\* The collisions the lookups leave to the indexes.
GoodsForeseen(table, i, new) ==
    table = "product" /\ (rows["product"][i].deleted \/ new.barcode = Blank)

\* A supplier's name is not another's, which no index says.
NameFree(i, new) ==
    \A j \in DOMAIN rows["supplier"] \ {i} :
        ~(rows["supplier"][j].organization = new.organization /\ rows["supplier"][j].name = new.name)

\* What a request that is alone knows.
GoodsKnown(s) ==
    s.stage # "idle" =>
        /\ \A i \in Goods!Collisions(s.table, s.id, s.new) : GoodsForeseen(s.table, i, s.new)
        /\ s.table = "supplier" => NameFree(s.id, s.new)
        /\ s.stage = "update" =>
            s.row = rows[s.table][s.id] /\ (s.table = "product" => ~s.row.deleted)
        /\ s.stage = "insert" /\ s.table = "link" => ~rows["product"][s.new.product].deleted

NamesApart == \A i \in DOMAIN rows["supplier"] : NameFree(i, rows["supplier"][i])

GoodsSerial ==
    AloneIn(catalog_session) /\ NamesApart /\ \A t \in Threads : GoodsKnown(catalog_session[t])

GoodsInv ==
    /\ GoodsTyped(rows) /\ GoodsApart
    /\ DOMAIN catalog_session = Threads
    /\ \A t \in Threads : GoodsAsked(rows, catalog_session[t])
    /\ Serial => GoodsSerial


\* The steps of the workloads about the catalog.
GoodsMoves(r) ==
    \/ \E org \in Organizations :
         \/ Goods!SomeCategory(r, org) \/ Goods!SomeProduct(r, org) \/ Goods!SomeDelete(r, org)
         \/ Goods!SomeSupplier(r, org) \/ Goods!SomeLink(r, org)
    \/ Goods!FlushInsert(r) \/ Goods!FlushUpdate(r) \/ Goods!Fail(r)

\* What one step of the catalog is.
LEMMA GoodsSteps ==
    [MCNext]_<<eventVars, NotEvents>> =>
        \/ /\ \E r \in Threads : GoodsMoves(r)
           /\ Serial => AloneIn(catalog_session')
        \/ UNCHANGED goodsVars
  <1> SUFFICES ASSUME GoodsStep
               PROVE  /\ \E r \in Threads : GoodsMoves(r)
                      /\ Serial => AloneIn(catalog_session')
    BY DEF MCNext, LogStep, GoodsStep, PassStep, PreferencesStep, DeliveryStep, PeopleStep,
           SiteStep, ScriptStep, NotEvents, NotScript
  <1>1. \E r \in Threads : GoodsMoves(r)
    BY DEF GoodsStep, GoodsMoves, OrganizationsUsed
  <1>2. ASSUME Serial PROVE AloneIn(catalog_session')
    <2>1. Busy(catalog_session') <= 1
      BY <1>2 DEF GoodsStep, Within, Serial
    <2> QED
      BY <2>1, NarrowIsAlone
  <1> QED
    BY <1>1, <1>2

\* Nothing is in the tables at first.
LEMMA InitGoods == Goods!Init => GoodsInv
  <1> SUFFICES ASSUME Goods!Init PROVE GoodsInv
    OBVIOUS
  <1>1. /\ rows = [table \in GoodsTables |-> rows[table]]
        /\ \A table \in GoodsTables : rows[table] = <<>>
    BY DEF Goods!Init, GoodsTables
  <1>2. \A table \in GoodsTables : IsTable(rows[table]) /\ DOMAIN rows[table] = {}
    BY <1>1, EmptyTable
  <1>3. GoodsTyped(rows) /\ GoodsApart
    BY <1>1, <1>2 DEF GoodsTyped, GoodsApart
  <1>4. DOMAIN catalog_session = Threads /\ \A t \in Threads : catalog_session[t].stage = "idle"
    BY DEF Goods!Init, Goods!IdleRequest
  <1>5. \A t \in Threads : GoodsAsked(rows, catalog_session[t])
    BY <1>4 DEF GoodsAsked
  <1>6. GoodsSerial
    <2>1. NamesApart
      BY <1>2 DEF NamesApart, GoodsTables
    <2> QED
      BY <1>4, <2>1 DEF GoodsSerial, GoodsKnown, AloneIn
  <1> QED
    BY <1>3, <1>4, <1>5, <1>6 DEF GoodsInv

\* The keys two rows share.
LEMMA GoodsKeys ==
    ASSUME NEW a, NEW b
    PROVE  /\ Goods!UniqueKeys("category", a) \intersect Goods!UniqueKeys("category", b) # {} <=>
                a.organization = b.organization /\ a.name = b.name
           /\ Goods!UniqueKeys("product", a) \intersect Goods!UniqueKeys("product", b) # {} <=>
                /\ a.organization = b.organization
                /\ a.sku = b.sku \/ (a.barcode = b.barcode /\ a.barcode # Null)
           /\ Goods!UniqueKeys("supplier", a) = {}
           /\ Goods!UniqueKeys("link", a) \intersect Goods!UniqueKeys("link", b) # {} <=>
                a.supplier = b.supplier /\ a.product = b.product /\ ~a.gone /\ ~b.gone
  <1>1. Goods!UniqueKeys("category", a) \intersect Goods!UniqueKeys("category", b) # {} <=>
            a.organization = b.organization /\ a.name = b.name
    <2>1. /\ Goods!UniqueKeys("category", a) = {<<a.organization, a.name>>}
          /\ Goods!UniqueKeys("category", b) = {<<b.organization, b.name>>}
      BY DEF Goods!UniqueKeys
    <2> QED
      BY <2>1, OnesMeet, KeyTuples
  <1>2. Goods!UniqueKeys("product", a) \intersect Goods!UniqueKeys("product", b) # {} <=>
            /\ a.organization = b.organization
            /\ a.sku = b.sku \/ (a.barcode = b.barcode /\ a.barcode # Null)
    <2>1. /\ Goods!UniqueKeys("product", a) = {<<"sku", a.organization, a.sku>>} \union
               (IF a.barcode = Null THEN {} ELSE {<<"barcode", a.organization, a.barcode>>})
          /\ Goods!UniqueKeys("product", b) = {<<"sku", b.organization, b.sku>>} \union
               (IF b.barcode = Null THEN {} ELSE {<<"barcode", b.organization, b.barcode>>})
      BY DEF Goods!UniqueKeys
    <2>2. PICK x : x = <<"sku", a.organization, a.sku>>
      OBVIOUS
    <2>3. PICK y : y = <<"barcode", a.organization, a.barcode>>
      OBVIOUS
    <2>4. PICK v : v = <<"sku", b.organization, b.sku>>
      OBVIOUS
    <2>5. PICK w : w = <<"barcode", b.organization, b.barcode>>
      OBVIOUS
    <2>6. /\ x = v <=> a.organization = b.organization /\ a.sku = b.sku
          /\ y = w <=> a.organization = b.organization /\ a.barcode = b.barcode
          /\ x # w /\ y # v
      BY <2>2, <2>3, <2>4, <2>5, KeyTuples
    <2>7. CASE a.barcode # Null /\ b.barcode # Null
      <3>1. /\ Goods!UniqueKeys("product", a) = {x, y}
            /\ Goods!UniqueKeys("product", b) = {v, w}
        BY <2>1, <2>2, <2>3, <2>4, <2>5, <2>7
      <3> QED
        BY <2>6, <2>7, <3>1, PairsMeet
    <2>8. CASE a.barcode # Null /\ b.barcode = Null
      <3>1. /\ Goods!UniqueKeys("product", a) = {x, y}
            /\ Goods!UniqueKeys("product", b) = {v, v}
        BY <2>1, <2>2, <2>3, <2>4, <2>8
      <3> QED
        BY <2>6, <2>8, <3>1, PairsMeet
    <2>9. CASE a.barcode = Null
      <3>1. Goods!UniqueKeys("product", a) = {x, x}
        BY <2>1, <2>2, <2>9
      <3>2. CASE b.barcode = Null
        <4>1. Goods!UniqueKeys("product", b) = {v, v}
          BY <2>1, <2>4, <3>2
        <4> QED
          BY <2>6, <2>9, <3>1, <4>1, PairsMeet
      <3>3. CASE b.barcode # Null
        <4>1. Goods!UniqueKeys("product", b) = {v, w}
          BY <2>1, <2>4, <2>5, <3>3
        <4> QED
          BY <2>6, <2>9, <3>1, <4>1, PairsMeet
      <3> QED
        BY <3>2, <3>3
    <2> QED
      BY <2>7, <2>8, <2>9
  <1>3. Goods!UniqueKeys("supplier", a) = {}
    BY DEF Goods!UniqueKeys
  <1>4. Goods!UniqueKeys("link", a) \intersect Goods!UniqueKeys("link", b) # {} <=>
            a.supplier = b.supplier /\ a.product = b.product /\ ~a.gone /\ ~b.gone
    <2>1. /\ Goods!UniqueKeys("link", a) = IF a.gone THEN {} ELSE {<<a.supplier, a.product>>}
          /\ Goods!UniqueKeys("link", b) = IF b.gone THEN {} ELSE {<<b.supplier, b.product>>}
      BY DEF Goods!UniqueKeys
    <2> QED
      BY <2>1, OnesMeet, KeyTuples
  <1> QED
    BY <1>1, <1>2, <1>3, <1>4

\* The changed columns over the row as it is by then.
LEMMA GoodsMixed ==
    ASSUME NEW current, NEW loaded, NEW new, NEW written, written = Goods!Written(current, loaded, new)
    PROVE  /\ written = [column \in DOMAIN new |-> written[column]]
           /\ \A column \in DOMAIN new : written[column] \in {new[column], current[column]}
           /\ \A column \in DOMAIN new : loaded = current => written[column] = new[column]
  BY DEF Goods!Written

\* Rows stay rows while those they refer to keep their organizations.
LEMMA GoodsGrow ==
    ASSUME NEW e, NEW f, NEW table, NEW row, GoodsRow(e, table, row),
           \A other \in {"category", "product", "supplier"} : \A i \in DOMAIN e[other] :
              i \in DOMAIN f[other] /\ SameParties(other, f[other][i], e[other][i])
    PROVE  GoodsRow(f, table, row)
  <1>1. \A other \in {"category", "product", "supplier"} : \A i \in DOMAIN e[other] :
           i \in DOMAIN f[other] /\ f[other][i].organization = e[other][i].organization
    BY DEF SameParties
  <1>2. ASSUME table = "category"
        PROVE  /\ row \in CategoryRow(f)
               /\ row.parent # Null => f["category"][row.parent].organization = row.organization
    <2>1. /\ row \in CategoryRow(e)
          /\ row.parent # Null => e["category"][row.parent].organization = row.organization
      BY <1>2 DEF GoodsRow
    <2>2. row.parent \in DOMAIN e["category"] \union {Null}
      BY <2>1 DEF CategoryRow
    <2>3. row \in CategoryRow(f)
      BY <1>1, <2>1, <2>2 DEF CategoryRow
    <2> QED
      BY <1>1, <2>1, <2>2, <2>3
  <1>3. ASSUME table = "product"
        PROVE  /\ row \in ProductRow(f)
               /\ row.category # Null => f["category"][row.category].organization = row.organization
    <2>1. /\ row \in ProductRow(e)
          /\ row.category # Null => e["category"][row.category].organization = row.organization
      BY <1>3 DEF GoodsRow
    <2>2. row.category \in DOMAIN e["category"] \union {Null}
      BY <2>1 DEF ProductRow
    <2>3. row \in ProductRow(f)
      BY <1>1, <2>1, <2>2 DEF ProductRow
    <2> QED
      BY <1>1, <2>1, <2>2, <2>3
  <1>4. ASSUME table = "link"
        PROVE  /\ row \in LinkRow(f)
               /\ f["supplier"][row.supplier].organization = f["product"][row.product].organization
    <2>1. /\ row \in LinkRow(e)
          /\ e["supplier"][row.supplier].organization = e["product"][row.product].organization
      BY <1>4 DEF GoodsRow
    <2>2. row.supplier \in DOMAIN e["supplier"] /\ row.product \in DOMAIN e["product"]
      BY <2>1 DEF LinkRow
    <2>3. row \in LinkRow(f)
      BY <1>1, <2>1, <2>2 DEF LinkRow
    <2> QED
      BY <1>1, <2>1, <2>2, <2>3
  <1> QED
    BY <1>2, <1>3, <1>4 DEF GoodsRow

\* The typed row that an update writes.
LEMMA GoodsWritten ==
    ASSUME NEW e, NEW table \in GoodsTables, NEW new, NEW current, NEW loaded, NEW written,
           written = Goods!Written(current, loaded, new),
           GoodsRow(e, table, new), GoodsRow(e, table, current),
           SameParties(table, new, current)
    PROVE  /\ GoodsRow(e, table, written) /\ SameParties(table, written, current)
           /\ loaded = current => written = new
  <1>1. CASE table = "category"
    <2>1. new \in CategoryRow(e) /\ current \in CategoryRow(e)
      BY <1>1 DEF GoodsRow
    <2>2. DOMAIN new = {"organization", "name", "parent", "is_active"}
      BY <2>1 DEF CategoryRow
    <2>3. written = [organization |-> written.organization, name |-> written.name,
                     parent |-> written.parent, is_active |-> written.is_active]
      BY <2>2, GoodsMixed
    <2>4. \A column \in DOMAIN new : /\ written[column] \in {new[column], current[column]}
                                     /\ loaded = current => written[column] = new[column]
      BY GoodsMixed
    <2>5. /\ written.organization \in Organizations /\ written.name \in Names
          /\ written.parent \in DOMAIN e["category"] \union {Null} /\ written.is_active \in BOOLEAN
      BY <2>1, <2>2, <2>4 DEF CategoryRow
    <2>6. written \in CategoryRow(e)
      BY <2>3, <2>5 DEF CategoryRow
    <2>7. loaded = current => written = new
      BY <2>1, <2>2, <2>4, <2>6 DEF CategoryRow
    <2>8. new.organization = current.organization /\ written.organization = current.organization
      BY <1>1, <2>2, <2>4 DEF SameParties
    <2>9. written.parent # Null => e["category"][written.parent].organization = written.organization
      <3>1. /\ new.parent # Null => e["category"][new.parent].organization = new.organization
            /\ current.parent # Null => e["category"][current.parent].organization = current.organization
        BY <1>1 DEF GoodsRow
      <3>2. written.parent = new.parent \/ written.parent = current.parent
        BY <2>2, <2>4
      <3> QED
        BY <2>8, <3>1, <3>2
    <2> QED
      BY <1>1, <2>6, <2>7, <2>8, <2>9 DEF GoodsRow, SameParties
  <1>2. CASE table = "product"
    <2>1. new \in ProductRow(e) /\ current \in ProductRow(e)
      BY <1>2 DEF GoodsRow
    <2>2. DOMAIN new = {"organization", "sku", "barcode", "category", "deleted"}
      BY <2>1 DEF ProductRow
    <2>3. written = [organization |-> written.organization, sku |-> written.sku, barcode |-> written.barcode,
                     category |-> written.category, deleted |-> written.deleted]
      BY <2>2, GoodsMixed
    <2>4. \A column \in DOMAIN new : /\ written[column] \in {new[column], current[column]}
                                     /\ loaded = current => written[column] = new[column]
      BY GoodsMixed
    <2>5. /\ written.organization \in Organizations /\ written.sku \in Names
          /\ written.barcode \in Digits \union {Null, Blank}
          /\ written.category \in DOMAIN e["category"] \union {Null}
          /\ written.deleted \in BOOLEAN
      BY <2>1, <2>2, <2>4 DEF ProductRow
    <2>6. written \in ProductRow(e)
      BY <2>3, <2>5 DEF ProductRow
    <2>7. loaded = current => written = new
      BY <2>1, <2>2, <2>4, <2>6 DEF ProductRow
    <2>8. new.organization = current.organization /\ written.organization = current.organization
      BY <1>2, <2>2, <2>4 DEF SameParties
    <2>9. written.category # Null => e["category"][written.category].organization = written.organization
      <3>1. /\ new.category # Null => e["category"][new.category].organization = new.organization
            /\ current.category # Null => e["category"][current.category].organization = current.organization
        BY <1>2 DEF GoodsRow
      <3>2. written.category = new.category \/ written.category = current.category
        BY <2>2, <2>4
      <3> QED
        BY <2>8, <3>1, <3>2
    <2> QED
      BY <1>2, <2>6, <2>7, <2>8, <2>9 DEF GoodsRow, SameParties
  <1>3. CASE table = "supplier"
    <2>1. new \in SupplierRow /\ current \in SupplierRow
      BY <1>3 DEF GoodsRow
    <2>2. DOMAIN new = {"organization", "name", "is_active"}
      BY <2>1 DEF SupplierRow
    <2>3. written = [organization |-> written.organization, name |-> written.name,
                     is_active |-> written.is_active]
      BY <2>2, GoodsMixed
    <2>4. \A column \in DOMAIN new : /\ written[column] \in {new[column], current[column]}
                                     /\ loaded = current => written[column] = new[column]
      BY GoodsMixed
    <2>5. /\ written.organization \in Organizations /\ written.name \in Names
          /\ written.is_active \in BOOLEAN
      BY <2>1, <2>2, <2>4 DEF SupplierRow
    <2>6. written \in SupplierRow
      BY <2>3, <2>5 DEF SupplierRow
    <2>7. loaded = current => written = new
      BY <2>1, <2>2, <2>4, <2>6 DEF SupplierRow
    <2>8. new.organization = current.organization /\ written.organization = current.organization
      BY <1>3, <2>2, <2>4 DEF SameParties
    <2> QED
      BY <1>3, <2>6, <2>7, <2>8 DEF GoodsRow, SameParties
  <1>4. CASE table = "link"
    <2>1. new \in LinkRow(e) /\ current \in LinkRow(e)
      BY <1>4 DEF GoodsRow
    <2>2. DOMAIN new = {"supplier", "product", "cost_price", "gone"}
      BY <2>1 DEF LinkRow
    <2>3. written = [supplier |-> written.supplier, product |-> written.product,
                     cost_price |-> written.cost_price, gone |-> written.gone]
      BY <2>2, GoodsMixed
    <2>4. \A column \in DOMAIN new : /\ written[column] \in {new[column], current[column]}
                                     /\ loaded = current => written[column] = new[column]
      BY GoodsMixed
    <2>5. /\ written.supplier \in DOMAIN e["supplier"] /\ written.product \in DOMAIN e["product"]
          /\ written.cost_price \in {0, 1} /\ written.gone \in BOOLEAN
      BY <2>1, <2>2, <2>4 DEF LinkRow
    <2>6. written \in LinkRow(e)
      BY <2>3, <2>5 DEF LinkRow
    <2>7. loaded = current => written = new
      BY <2>1, <2>2, <2>4, <2>6 DEF LinkRow
    <2>8. /\ new.supplier = current.supplier /\ new.product = current.product
          /\ written.supplier = current.supplier /\ written.product = current.product
      BY <1>4, <2>2, <2>4 DEF SameParties
    <2>9. e["supplier"][new.supplier].organization = e["product"][new.product].organization
      BY <1>4 DEF GoodsRow
    <2> QED
      BY <1>4, <2>6, <2>7, <2>8, <2>9 DEF GoodsRow, SameParties
  <1> QED
    BY <1>1, <1>2, <1>3, <1>4 DEF GoodsTables


\* A request that has looked and is to write what s says.
GoodsBegun(r, s) ==
    /\ catalog_session[r].stage = "idle"
    /\ catalog_session' = [catalog_session EXCEPT ![r] = s]
    /\ rows' = rows

GoodsAsks(r) ==
    \E s : /\ GoodsBegun(r, s) /\ GoodsAsked(rows, s)
           /\ Serial => GoodsKnown(s)

\* What Insert leaves in the session.
LEMMA GoodsInsert ==
    ASSUME NEW r, NEW table, NEW new, Goods!Insert(r, table, new)
    PROVE  \E s : /\ GoodsBegun(r, s) /\ s.stage = "insert" /\ s.table = table
                  /\ s.id = 0 /\ s.new = new
  <1>1. PICK s : s = [stage |-> "insert", table |-> table, id |-> 0, new |-> new, row |-> Null]
    OBVIOUS
  <1>2. GoodsBegun(r, s)
    BY <1>1 DEF Goods!Insert, Goods!Begin, GoodsBegun
  <1> QED
    BY <1>1, <1>2

\* And Update.
LEMMA GoodsUpdate ==
    ASSUME NEW r, NEW table, NEW id, NEW new, Goods!Update(r, table, id, new), id # 0
    PROVE  \E s : /\ GoodsBegun(r, s) /\ s.stage = "update" /\ s.table = table
                  /\ s.id = id /\ s.new = new /\ s.row = rows[table][id]
  <1>1. PICK s : s = [stage |-> "update", table |-> table, id |-> id, new |-> new,
                      row |-> rows[table][id]]
    OBVIOUS
  <1>2. GoodsBegun(r, s)
    BY <1>1 DEF Goods!Update, Goods!Begin, GoodsBegun
  <1> QED
    BY <1>1, <1>2

\* The rows of a table are numbered from 1.
LEMMA GoodsNumbers ==
    ASSUME GoodsTyped(rows), NEW table \in GoodsTables
    PROVE  /\ 0 \notin DOMAIN rows[table]
           /\ \A i \in DOMAIN rows[table] : GoodsRow(rows, table, rows[table][i])
  <1>1. IsTable(rows[table])
    BY DEF GoodsTyped
  <1>2. 0 \notin DOMAIN rows[table]
    BY <1>1, TableIs
  <1> QED
    BY <1>2 DEF GoodsTyped

\* A request that is to insert a row.
LEMMA GoodsInsertAsks ==
    ASSUME GoodsInv, NEW r, NEW table \in GoodsTables, NEW new, Goods!Insert(r, table, new),
           GoodsRow(rows, table, new),
           Serial => /\ \A i \in Goods!Collisions(table, 0, new) : GoodsForeseen(table, i, new)
                     /\ table = "supplier" => NameFree(0, new)
                     /\ table = "link" => ~rows["product"][new.product].deleted
    PROVE  GoodsAsks(r)
  <1>1. PICK s : /\ GoodsBegun(r, s) /\ s.stage = "insert" /\ s.table = table
                 /\ s.id = 0 /\ s.new = new
    BY GoodsInsert
  <1>2. GoodsAsked(rows, s)
    BY <1>1 DEF GoodsAsked
  <1>3. Serial => GoodsKnown(s)
    BY <1>1 DEF GoodsKnown
  <1> QED
    BY <1>1, <1>2, <1>3 DEF GoodsAsks

\* A request that is to change one.
LEMMA GoodsUpdateAsks ==
    ASSUME GoodsInv, NEW r, NEW table \in GoodsTables, NEW id \in DOMAIN rows[table], NEW new,
           Goods!Update(r, table, id, new),
           GoodsRow(rows, table, new), SameParties(table, new, rows[table][id]),
           Serial => /\ \A i \in Goods!Collisions(table, id, new) : GoodsForeseen(table, i, new)
                     /\ table = "supplier" => NameFree(id, new)
                     /\ table = "product" => ~rows["product"][id].deleted
    PROVE  GoodsAsks(r)
  <1>1. id # 0
    BY GoodsNumbers DEF GoodsInv
  <1>2. PICK s : /\ GoodsBegun(r, s) /\ s.stage = "update" /\ s.table = table
                 /\ s.id = id /\ s.new = new /\ s.row = rows[table][id]
    BY <1>1, GoodsUpdate
  <1>3. GoodsAsked(rows, s)
    BY <1>2 DEF GoodsAsked
  <1>4. Serial => GoodsKnown(s)
    BY <1>2 DEF GoodsKnown
  <1> QED
    BY <1>2, <1>3, <1>4 DEF GoodsAsks

\* A row that keeps the key of the row it is to replace meets no other row that has it.
LEMMA OwnKey ==
    ASSUME GoodsInv, NEW table \in GoodsTables, NEW id \in DOMAIN rows[table], NEW new,
           NEW i \in Goods!Collisions(table, id, new)
    PROVE  /\ i \in DOMAIN rows[table] /\ i # id
           /\ Goods!UniqueKeys(table, rows[table][i]) \intersect Goods!UniqueKeys(table, new) # {}
           /\ Goods!UniqueKeys(table, rows[table][i])
                \intersect Goods!UniqueKeys(table, rows[table][id]) = {}
  BY DEF Goods!Collisions, Goods!Ids, GoodsInv, GoodsApart

\* Categories: the name was looked up, or is the one the category has.
LEMMA CategoryAsks ==
    ASSUME GoodsInv, NEW r \in Threads, NEW org \in Organizations, Goods!SomeCategory(r, org)
    PROVE  GoodsAsks(r)
  <1>1. "category" \in GoodsTables
    BY DEF GoodsTables
  <1>2. \A i \in DOMAIN rows["category"] :
          /\ rows["category"][i] \in CategoryRow(rows)
          /\ GoodsRow(rows, "category", rows["category"][i])
    BY <1>1, GoodsNumbers DEF GoodsInv, GoodsRow
  <1>3. ASSUME NEW id, NEW new, new.organization = org, ~Goods!NameTaken("category", id, org, new.name)
        PROVE  Goods!Collisions("category", id, new) = {}
    BY <1>3, GoodsKeys DEF Goods!Collisions, Goods!NameTaken, Goods!Ids
  <1>4. ASSUME NEW id \in DOMAIN rows["category"], NEW new, new.organization = org,
               rows["category"][id].organization = org, rows["category"][id].name = new.name
        PROVE  Goods!Collisions("category", id, new) = {}
    <2> SUFFICES ASSUME NEW i \in Goods!Collisions("category", id, new) PROVE FALSE
      OBVIOUS
    <2>1. PICK row, own : row = rows["category"][i] /\ own = rows["category"][id]
      OBVIOUS
    <2>2. /\ Goods!UniqueKeys("category", row) \intersect Goods!UniqueKeys("category", new) # {}
          /\ Goods!UniqueKeys("category", row) \intersect Goods!UniqueKeys("category", own) = {}
      BY <1>1, <2>1, OwnKey
    <2>3. row.organization = new.organization /\ row.name = new.name
      BY <2>2, GoodsKeys
    <2>4. ~(row.organization = own.organization /\ row.name = own.name)
      BY <2>2, GoodsKeys
    <2> QED
      BY <1>4, <2>1, <2>3, <2>4
  <1>5. ASSUME NEW name \in Names, NEW parent \in DOMAIN rows["category"] \union {Null},
               Goods!CreateCategory(r, org, name, parent)
        PROVE  GoodsAsks(r)
    <2>1. PICK new : new = Goods!Category(org, name, parent)
      OBVIOUS
    <2>2. /\ new \in CategoryRow(rows) /\ new.organization = org /\ new.name = name
          /\ new.parent = parent
      BY <2>1 DEF Goods!Category, CategoryRow
    <2>3. GoodsRow(rows, "category", new)
      BY <1>5, <2>2 DEF GoodsRow, Goods!CreateCategory, Goods!MayRefer, Goods!Owned
    <2>4. Goods!Collisions("category", 0, new) = {} /\ Goods!Insert(r, "category", new)
      BY <1>3, <1>5, <2>1, <2>2 DEF Goods!CreateCategory
    <2> QED
      BY <1>1, <2>3, <2>4, GoodsInsertAsks
  <1>6. ASSUME NEW id \in DOMAIN rows["category"], NEW name \in Names, NEW is_active \in BOOLEAN,
               NEW parent \in DOMAIN rows["category"] \union {Null},
               Goods!UpdateCategory(r, org, id, name, parent, is_active)
        PROVE  GoodsAsks(r)
    <2>1. PICK new : new = [organization |-> org, name |-> name, parent |-> parent,
                            is_active |-> is_active]
      OBVIOUS
    <2>2. /\ new \in CategoryRow(rows) /\ new.organization = org /\ new.name = name
          /\ new.parent = parent
      BY <2>1 DEF CategoryRow
    <2>3. rows["category"][id].organization = org
      BY <1>6 DEF Goods!UpdateCategory, Goods!Owned
    <2>4. GoodsRow(rows, "category", new)
      BY <1>6, <2>2 DEF GoodsRow, Goods!UpdateCategory, Goods!MayRefer, Goods!Owned
    <2>5. Goods!Update(r, "category", id, new)
      BY <1>6, <2>1 DEF Goods!UpdateCategory
    <2>6. Goods!Collisions("category", id, new) = {}
      BY <1>3, <1>4, <1>6, <2>2, <2>3 DEF Goods!UpdateCategory
    <2>7. SameParties("category", new, rows["category"][id])
      BY <2>2, <2>3 DEF SameParties
    <2> QED
      BY <1>1, <2>4, <2>5, <2>6, <2>7, GoodsUpdateAsks
  <1>7. ASSUME NEW id \in DOMAIN rows["category"], Goods!DeleteCategory(r, org, id)
        PROVE  GoodsAsks(r)
    <2>1. PICK category : category = rows["category"][id]
      OBVIOUS
    <2>2. /\ category \in CategoryRow(rows) /\ GoodsRow(rows, "category", category)
          /\ category.organization = org
      BY <1>2, <1>7, <2>1 DEF Goods!DeleteCategory, Goods!Owned
    <2>3. PICK new : new = [category EXCEPT !.is_active = FALSE]
      OBVIOUS
    <2>4. /\ new \in CategoryRow(rows) /\ new.organization = org /\ new.name = category.name
          /\ new.parent = category.parent
      BY <2>2, <2>3 DEF CategoryRow
    <2>5. GoodsRow(rows, "category", new) /\ SameParties("category", new, rows["category"][id])
      BY <2>1, <2>2, <2>4 DEF GoodsRow, SameParties
    <2>6. Goods!Collisions("category", id, new) = {}
      BY <1>4, <2>1, <2>2, <2>4
    <2>7. Goods!Update(r, "category", id, new)
      BY <1>7, <2>1, <2>3 DEF Goods!DeleteCategory
    <2> QED
      BY <1>1, <2>5, <2>6, <2>7, GoodsUpdateAsks
  <1> QED
    BY <1>5, <1>6, <1>7 DEF Goods!SomeCategory, Goods!Ids

\* What the lookups of SKU and barcode leave to the index.
LEMMA ProductForeseen ==
    ASSUME GoodsInv, NEW id, NEW new, NEW i \in Goods!Collisions("product", id, new),
           \/ Goods!FreeSku(id, new.organization, new.sku)
           \/ /\ id \in DOMAIN rows["product"]
              /\ rows["product"][id].organization = new.organization
              /\ rows["product"][id].sku = new.sku,
           \/ Goods!FreeBarcode(id, new.organization, new.barcode)
           \/ /\ id \in DOMAIN rows["product"]
              /\ rows["product"][id].organization = new.organization
              /\ rows["product"][id].barcode = new.barcode
    PROVE  GoodsForeseen("product", i, new)
  <1>1. "product" \in GoodsTables
    BY DEF GoodsTables
  <1>2. /\ i \in DOMAIN rows["product"] /\ i # id
        /\ Goods!UniqueKeys("product", rows["product"][i])
             \intersect Goods!UniqueKeys("product", new) # {}
    BY DEF Goods!Collisions, Goods!Ids
  <1>3. /\ rows["product"][i].organization = new.organization
        /\ \/ rows["product"][i].sku = new.sku
           \/ rows["product"][i].barcode = new.barcode /\ new.barcode # Null
    BY <1>2, GoodsKeys
  <1>4. CASE rows["product"][i].sku = new.sku
    <2>1. CASE Goods!FreeSku(id, new.organization, new.sku)
      BY <1>2, <1>3, <1>4, <2>1 DEF Goods!FreeSku, Goods!Live, Goods!Ids, GoodsForeseen
    <2>2. CASE /\ id \in DOMAIN rows["product"]
               /\ rows["product"][id].organization = new.organization
               /\ rows["product"][id].sku = new.sku
      BY <1>1, <1>3, <1>4, <2>2, OwnKey, GoodsKeys
    <2> QED
      BY <2>1, <2>2
  <1>5. CASE rows["product"][i].barcode = new.barcode /\ new.barcode # Null
    <2>1. CASE Goods!FreeBarcode(id, new.organization, new.barcode)
      BY <1>2, <1>3, <1>5, <2>1 DEF Goods!FreeBarcode, Goods!Live, Goods!Ids, GoodsForeseen
    <2>2. CASE /\ id \in DOMAIN rows["product"]
               /\ rows["product"][id].organization = new.organization
               /\ rows["product"][id].barcode = new.barcode
      <3>1. PICK row, own : row = rows["product"][i] /\ own = rows["product"][id]
        OBVIOUS
      <3>2. Goods!UniqueKeys("product", row) \intersect Goods!UniqueKeys("product", own) = {}
        BY <1>1, <2>2, <3>1, OwnKey
      <3>3. ~(/\ row.organization = own.organization
              /\ row.barcode = own.barcode /\ row.barcode # Null)
        BY <3>2, GoodsKeys
      <3> QED
        BY <1>3, <1>5, <2>2, <3>1, <3>3
    <2> QED
      BY <2>1, <2>2
  <1> QED
    BY <1>3, <1>4, <1>5

\* Products.
LEMMA ProductAsks ==
    ASSUME GoodsInv, NEW r \in Threads, NEW org \in Organizations,
           Goods!SomeProduct(r, org) \/ Goods!SomeDelete(r, org)
    PROVE  GoodsAsks(r)
  <1>1. "product" \in GoodsTables
    BY DEF GoodsTables
  <1>2. \A i \in DOMAIN rows["product"] :
          /\ rows["product"][i] \in ProductRow(rows)
          /\ GoodsRow(rows, "product", rows["product"][i])
    BY <1>1, GoodsNumbers DEF GoodsInv, GoodsRow
  <1>3. ASSUME NEW sku \in Names, NEW barcode \in Digits \union {Null, Blank},
               NEW category \in DOMAIN rows["category"] \union {Null},
               Goods!MayRefer("category", category, org),
               NEW new, new = Goods!Product(org, sku, barcode, category)
        PROVE  /\ GoodsRow(rows, "product", new)
               /\ new.organization = org /\ new.sku = sku /\ new.barcode = barcode
    <2>1. /\ new \in ProductRow(rows) /\ new.organization = org /\ new.sku = sku
          /\ new.barcode = barcode /\ new.category = category
      BY <1>3 DEF Goods!Product, ProductRow
    <2> QED
      BY <1>3, <2>1 DEF GoodsRow, Goods!MayRefer, Goods!Owned
  <1>4. ASSUME NEW sku \in Names, NEW barcode \in Digits \union {Null, Blank},
               NEW category \in DOMAIN rows["category"] \union {Null},
               Goods!CreateProduct(r, org, sku, barcode, category)
        PROVE  GoodsAsks(r)
    <2>1. PICK new : new = Goods!Product(org, sku, barcode, category)
      OBVIOUS
    <2>2. /\ GoodsRow(rows, "product", new)
          /\ new.organization = org /\ new.sku = sku /\ new.barcode = barcode
      BY <1>3, <1>4, <2>1 DEF Goods!CreateProduct
    <2>3. Goods!Insert(r, "product", new)
      BY <1>4, <2>1 DEF Goods!CreateProduct
    <2>4. \A i \in Goods!Collisions("product", 0, new) : GoodsForeseen("product", i, new)
      BY <1>4, <2>2, ProductForeseen DEF Goods!CreateProduct
    <2> QED
      BY <1>1, <2>2, <2>3, <2>4, GoodsInsertAsks
  <1>5. ASSUME NEW id \in DOMAIN rows["product"], NEW sku \in Names,
               NEW barcode \in Digits \union {Null, Blank},
               NEW category \in DOMAIN rows["category"] \union {Null},
               Goods!UpdateProduct(r, org, id, sku, barcode, category)
        PROVE  GoodsAsks(r)
    <2>1. PICK new : new = Goods!Product(org, sku, barcode, category)
      OBVIOUS
    <2>2. /\ GoodsRow(rows, "product", new)
          /\ new.organization = org /\ new.sku = sku /\ new.barcode = barcode
      BY <1>3, <1>5, <2>1 DEF Goods!UpdateProduct
    <2>3. Goods!Update(r, "product", id, new) /\ rows["product"][id].organization = org
          /\ ~rows["product"][id].deleted
      BY <1>5, <2>1 DEF Goods!UpdateProduct, Goods!Owned, Goods!Live
    <2>4. /\ sku # rows["product"][id].sku => Goods!FreeSku(id, org, sku)
          /\ barcode # rows["product"][id].barcode => Goods!FreeBarcode(id, org, barcode)
      BY <1>5 DEF Goods!UpdateProduct
    <2>5. \A i \in Goods!Collisions("product", id, new) : GoodsForeseen("product", i, new)
      BY <2>2, <2>3, <2>4, ProductForeseen
    <2>6. SameParties("product", new, rows["product"][id])
      BY <2>2, <2>3 DEF SameParties
    <2> QED
      BY <1>1, <2>2, <2>3, <2>5, <2>6, GoodsUpdateAsks
  <1>6. ASSUME NEW id \in DOMAIN rows["product"], Goods!DeleteProduct(r, org, id)
        PROVE  GoodsAsks(r)
    <2>1. PICK product : product = rows["product"][id]
      OBVIOUS
    <2>2. /\ product \in ProductRow(rows) /\ GoodsRow(rows, "product", product)
          /\ product.organization = org /\ ~product.deleted
      BY <1>2, <1>6, <2>1 DEF Goods!DeleteProduct, Goods!Owned, Goods!Live
    <2>3. PICK new : new = [product EXCEPT !.deleted = TRUE]
      OBVIOUS
    <2>4. /\ new \in ProductRow(rows) /\ new.organization = product.organization
          /\ new.sku = product.sku /\ new.barcode = product.barcode
          /\ new.category = product.category
      BY <2>2, <2>3 DEF ProductRow
    <2>5. GoodsRow(rows, "product", new) /\ SameParties("product", new, rows["product"][id])
      BY <2>1, <2>2, <2>4 DEF GoodsRow, SameParties
    <2>6. \A i \in Goods!Collisions("product", id, new) : GoodsForeseen("product", i, new)
      BY <2>1, <2>4, ProductForeseen
    <2>7. Goods!Update(r, "product", id, new)
      BY <1>6, <2>1, <2>3 DEF Goods!DeleteProduct
    <2> QED
      BY <1>1, <2>1, <2>2, <2>5, <2>6, <2>7, GoodsUpdateAsks
  <1> QED
    BY <1>4, <1>5, <1>6 DEF Goods!SomeProduct, Goods!SomeDelete, Goods!Ids

\* Suppliers: no index keeps their names apart, the lookups do.
LEMMA SupplierAsks ==
    ASSUME GoodsInv, NEW r \in Threads, NEW org \in Organizations, Goods!SomeSupplier(r, org)
    PROVE  GoodsAsks(r)
  <1>1. "supplier" \in GoodsTables
    BY DEF GoodsTables
  <1>2. \A i \in DOMAIN rows["supplier"] : rows["supplier"][i] \in SupplierRow
    BY <1>1, GoodsNumbers DEF GoodsInv, GoodsRow
  <1>3. \A id, new : Goods!Collisions("supplier", id, new) = {}
    BY GoodsKeys DEF Goods!Collisions
  <1>4. ASSUME NEW id, NEW new, new.organization = org, ~Goods!NameTaken("supplier", id, org, new.name)
        PROVE  NameFree(id, new)
    BY <1>4 DEF NameFree, Goods!NameTaken, Goods!Ids
  <1>5. ASSUME Serial, NEW id \in DOMAIN rows["supplier"], NEW new, new.organization = org,
               rows["supplier"][id].organization = org, rows["supplier"][id].name = new.name
        PROVE  NameFree(id, new)
    BY <1>5 DEF NameFree, GoodsInv, GoodsSerial, NamesApart
  <1>6. ASSUME NEW name \in Names, Goods!CreateSupplier(r, org, name)
        PROVE  GoodsAsks(r)
    <2>1. PICK new : new = Goods!Supplier(org, name)
      OBVIOUS
    <2>2. new \in SupplierRow /\ new.organization = org /\ new.name = name
      BY <2>1 DEF Goods!Supplier, SupplierRow
    <2>3. GoodsRow(rows, "supplier", new)
      BY <2>2 DEF GoodsRow
    <2>4. NameFree(0, new) /\ Goods!Insert(r, "supplier", new)
      BY <1>4, <1>6, <2>1, <2>2 DEF Goods!CreateSupplier
    <2> QED
      BY <1>1, <1>3, <2>3, <2>4, GoodsInsertAsks
  <1>7. ASSUME NEW id \in DOMAIN rows["supplier"], NEW name \in Names, NEW is_active \in BOOLEAN,
               Goods!UpdateSupplier(r, org, id, name, is_active)
        PROVE  GoodsAsks(r)
    <2>1. PICK new : new = [organization |-> org, name |-> name, is_active |-> is_active]
      OBVIOUS
    <2>2. new \in SupplierRow /\ new.organization = org /\ new.name = name
      BY <2>1 DEF SupplierRow
    <2>3. rows["supplier"][id].organization = org /\ Goods!Update(r, "supplier", id, new)
      BY <1>7, <2>1 DEF Goods!UpdateSupplier, Goods!Owned
    <2>4. Serial => NameFree(id, new)
      BY <1>4, <1>5, <1>7, <2>2, <2>3 DEF Goods!UpdateSupplier, Goods!Renamable
    <2>5. GoodsRow(rows, "supplier", new) /\ SameParties("supplier", new, rows["supplier"][id])
      BY <2>2, <2>3 DEF GoodsRow, SameParties
    <2> QED
      BY <1>1, <1>3, <2>3, <2>4, <2>5, GoodsUpdateAsks
  <1>8. ASSUME NEW id \in DOMAIN rows["supplier"], Goods!DeleteSupplier(r, org, id)
        PROVE  GoodsAsks(r)
    <2>1. PICK supplier : supplier = rows["supplier"][id]
      OBVIOUS
    <2>2. supplier \in SupplierRow /\ supplier.organization = org
      BY <1>2, <1>8, <2>1 DEF Goods!DeleteSupplier, Goods!Owned
    <2>3. PICK new : new = [supplier EXCEPT !.is_active = FALSE]
      OBVIOUS
    <2>4. new \in SupplierRow /\ new.organization = org /\ new.name = supplier.name
      BY <2>2, <2>3 DEF SupplierRow
    <2>5. Serial => NameFree(id, new)
      BY <1>5, <2>1, <2>2, <2>4
    <2>6. GoodsRow(rows, "supplier", new) /\ SameParties("supplier", new, rows["supplier"][id])
      BY <2>1, <2>2, <2>4 DEF GoodsRow, SameParties
    <2>7. Goods!Update(r, "supplier", id, new)
      BY <1>8, <2>1, <2>3 DEF Goods!DeleteSupplier
    <2> QED
      BY <1>1, <1>3, <2>5, <2>6, <2>7, GoodsUpdateAsks
  <1> QED
    BY <1>6, <1>7, <1>8 DEF Goods!SomeSupplier, Goods!Ids

\* Links: of a supplier and a live product of the organization.
LEMMA LinkAsks ==
    ASSUME GoodsInv, NEW r \in Threads, NEW org \in Organizations, Goods!SomeLink(r, org)
    PROVE  GoodsAsks(r)
  <1>1. "link" \in GoodsTables
    BY DEF GoodsTables
  <1>2. \A i \in DOMAIN rows["link"] :
          rows["link"][i] \in LinkRow(rows) /\ GoodsRow(rows, "link", rows["link"][i])
    BY <1>1, GoodsNumbers DEF GoodsInv, GoodsRow
  <1>3. ASSUME NEW supplier \in DOMAIN rows["supplier"], NEW product \in DOMAIN rows["product"],
               Goods!CreateSupplierProduct(r, org, supplier, product)
        PROVE  GoodsAsks(r)
    <2>1. PICK new : new = Goods!SupplierProduct(supplier, product)
      OBVIOUS
    <2>2. /\ new \in LinkRow(rows) /\ new.supplier = supplier /\ new.product = product
          /\ ~new.gone
      BY <2>1 DEF Goods!SupplierProduct, LinkRow
    <2>3. /\ rows["supplier"][supplier].organization = org
          /\ rows["product"][product].organization = org /\ ~rows["product"][product].deleted
          /\ Goods!Insert(r, "link", new)
      BY <1>3, <2>1 DEF Goods!CreateSupplierProduct, Goods!Owned, Goods!Live
    <2>4. GoodsRow(rows, "link", new)
      BY <2>2, <2>3 DEF GoodsRow
    <2>5. ASSUME NEW i \in Goods!Collisions("link", 0, new)
          PROVE  FALSE
      <3>1. /\ i \in DOMAIN rows["link"]
            /\ Goods!UniqueKeys("link", rows["link"][i]) \intersect Goods!UniqueKeys("link", new) # {}
        BY <2>5 DEF Goods!Collisions, Goods!Ids
      <3>2. /\ rows["link"][i].supplier = supplier /\ rows["link"][i].product = product
            /\ ~rows["link"][i].gone
        BY <2>2, <3>1, GoodsKeys
      <3> QED
        BY <1>3, <3>1, <3>2 DEF Goods!CreateSupplierProduct, Goods!Ids
    <2> QED
      BY <1>1, <2>2, <2>3, <2>4, <2>5, GoodsInsertAsks
  <1>4. ASSUME NEW id \in DOMAIN rows["link"], NEW new \in LinkRow(rows),
               new.supplier = rows["link"][id].supplier, new.product = rows["link"][id].product,
               ~rows["link"][id].gone, Goods!Update(r, "link", id, new)
        PROVE  GoodsAsks(r)
    <2>1. GoodsRow(rows, "link", new) /\ SameParties("link", new, rows["link"][id])
      BY <1>2, <1>4 DEF GoodsRow, SameParties
    <2>2. Goods!Collisions("link", id, new) = {}
      <3> SUFFICES ASSUME NEW i \in Goods!Collisions("link", id, new) PROVE FALSE
        OBVIOUS
      <3>1. PICK row, own : row = rows["link"][i] /\ own = rows["link"][id]
        OBVIOUS
      <3>2. /\ Goods!UniqueKeys("link", row) \intersect Goods!UniqueKeys("link", new) # {}
            /\ Goods!UniqueKeys("link", row) \intersect Goods!UniqueKeys("link", own) = {}
        BY <1>1, <3>1, OwnKey
      <3>3. row.supplier = new.supplier /\ row.product = new.product /\ ~row.gone
        BY <3>2, GoodsKeys
      <3>4. ~(row.supplier = own.supplier /\ row.product = own.product /\ ~row.gone /\ ~own.gone)
        BY <3>2, GoodsKeys
      <3> QED
        BY <1>4, <3>1, <3>3, <3>4
    <2> QED
      BY <1>1, <1>4, <2>1, <2>2, GoodsUpdateAsks
  <1>5. ASSUME NEW id \in DOMAIN rows["link"],
               \/ \E cost_price \in {0, 1} : Goods!UpdateSupplierProduct(r, org, id, cost_price)
               \/ Goods!DeleteSupplierProduct(r, org, id)
        PROVE  GoodsAsks(r)
    <2>1. PICK link : link = rows["link"][id]
      OBVIOUS
    <2>2. link \in LinkRow(rows) /\ ~link.gone
      BY <1>2, <1>5, <2>1 DEF Goods!UpdateSupplierProduct, Goods!DeleteSupplierProduct, Goods!OwnLink
    <2>3. CASE Goods!DeleteSupplierProduct(r, org, id)
      <3>1. PICK new : new = [link EXCEPT !.gone = TRUE]
        OBVIOUS
      <3>2. /\ new \in LinkRow(rows) /\ new.supplier = link.supplier /\ new.product = link.product
        BY <2>2, <3>1 DEF LinkRow
      <3>3. Goods!Update(r, "link", id, new)
        BY <2>1, <2>3, <3>1 DEF Goods!DeleteSupplierProduct
      <3> QED
        BY <1>4, <2>1, <2>2, <3>2, <3>3
    <2>4. ASSUME NEW cost_price \in {0, 1}, Goods!UpdateSupplierProduct(r, org, id, cost_price)
          PROVE  GoodsAsks(r)
      <3>1. PICK new : new = [link EXCEPT !.cost_price = cost_price]
        OBVIOUS
      <3>2. /\ new \in LinkRow(rows) /\ new.supplier = link.supplier /\ new.product = link.product
        BY <2>2, <3>1 DEF LinkRow
      <3>3. Goods!Update(r, "link", id, new)
        BY <2>1, <2>4, <3>1 DEF Goods!UpdateSupplierProduct
      <3> QED
        BY <1>4, <2>1, <2>2, <3>2, <3>3
    <2> QED
      BY <1>5, <2>3, <2>4
  <1> QED
    BY <1>3, <1>5 DEF Goods!SomeLink, Goods!Ids


\* The session of one request changes and the tables do not.
LEMMA GoodsReads ==
    ASSUME GoodsInv, workload' = workload, Serial => AloneIn(catalog_session'),
           NEW r \in Threads, NEW s,
           catalog_session' = [catalog_session EXCEPT ![r] = s], rows' = rows,
           GoodsAsked(rows, s), Serial => GoodsKnown(s)
    PROVE  GoodsInv'
  <1>1. /\ DOMAIN catalog_session' = Threads
        /\ \A t \in Threads : catalog_session'[t] = IF t = r THEN s ELSE catalog_session[t]
    BY DEF GoodsInv
  <1>2. GoodsTyped(rows)' /\ GoodsApart'
    BY DEF GoodsInv, GoodsApart
  <1>3. \A t \in Threads : GoodsAsked(rows, catalog_session[t])'
    BY <1>1 DEF GoodsInv
  <1>4. ASSUME Serial' PROVE GoodsSerial'
    <2>1. Serial
      BY <1>4 DEF Serial
    <2>2. ASSUME NEW q, GoodsKnown(q), NEW t \in Threads, catalog_session'[t] = q
          PROVE  GoodsKnown(catalog_session[t])'
      BY <2>2 DEF GoodsKnown, GoodsForeseen, NameFree, Goods!Collisions, Goods!Ids
    <2>3. NamesApart'
      BY <2>1 DEF GoodsInv, GoodsSerial, NamesApart, NameFree
    <2> QED
      BY <1>1, <2>1, <2>2, <2>3 DEF GoodsInv, GoodsSerial
  <1> QED
    BY <1>1, <1>2, <1>3, <1>4 DEF GoodsInv

\* A request that begins, and one that fails.
LEMMA GoodsBeginOrFail ==
    ASSUME GoodsInv, workload' = workload, Serial => AloneIn(catalog_session'),
           NEW r \in Threads, GoodsAsks(r) \/ Goods!Fail(r)
    PROVE  GoodsInv' /\ rows' = rows
  <1>1. CASE GoodsAsks(r)
    BY <1>1, GoodsReads DEF GoodsAsks, GoodsBegun
  <1>2. CASE Goods!Fail(r)
    <2>1. PICK s : s = Goods!IdleRequest
      OBVIOUS
    <2>2. /\ catalog_session' = [catalog_session EXCEPT ![r] = s] /\ rows' = rows
          /\ s.stage = "idle"
      BY <1>2, <2>1 DEF Goods!Fail, Goods!Free, Goods!IdleRequest
    <2>3. GoodsAsked(rows, s) /\ GoodsKnown(s)
      BY <2>2 DEF GoodsAsked, GoodsKnown
    <2> QED
      BY <2>2, <2>3, GoodsReads
  <1> QED
    BY <1>1, <1>2

\* What remains to be shown of a flush: no row changes its owner.
LEMMA GoodsFlushed ==
    ASSUME GoodsInv, workload' = workload,
           NEW r \in Threads, catalog_session[r].stage # "idle", Goods!Free(r),
           rows' = [table \in GoodsTables |-> rows'[table]],
           GoodsApart', Serial => NamesApart',
           \A table \in GoodsTables :
             /\ IsTable(rows'[table])
             /\ \A i \in DOMAIN rows[table] :
                  i \in DOMAIN rows'[table] /\ SameParties(table, rows'[table][i], rows[table][i])
             /\ \A i \in DOMAIN rows'[table] : GoodsRow(rows, table, rows'[table][i])
    PROVE  GoodsInv'
  <1>1. /\ DOMAIN catalog_session' = Threads
        /\ catalog_session'[r].stage = "idle"
        /\ \A t \in Threads \ {r} : catalog_session'[t] = catalog_session[t]
    BY DEF GoodsInv, Goods!Free, Goods!IdleRequest
  <1>2. {"category", "product", "supplier"} \subseteq GoodsTables
    BY DEF GoodsTables
  <1>3. ASSUME NEW table, NEW row, GoodsRow(rows, table, row)
        PROVE  GoodsRow(rows', table, row)
    BY <1>2, <1>3, GoodsGrow
  <1>4. GoodsTyped(rows)'
    BY <1>3 DEF GoodsTyped
  <1>5. ASSUME NEW t \in Threads PROVE GoodsAsked(rows', catalog_session'[t])
    <2>1. CASE t = r
      BY <1>1, <2>1 DEF GoodsAsked
    <2>2. CASE t # r
      <3>1. PICK s : s = catalog_session[t] /\ s = catalog_session'[t]
        BY <1>1, <2>2
      <3>2. GoodsAsked(rows, s)
        BY <3>1 DEF GoodsInv
      <3>3. ASSUME s.stage = "update"
            PROVE  s.id \in DOMAIN rows'[s.table]
                   /\ SameParties(s.table, s.new, rows'[s.table][s.id])
        BY <3>2, <3>3 DEF GoodsAsked, SameParties
      <3>4. GoodsAsked(rows', s)
        BY <1>3, <3>2, <3>3 DEF GoodsAsked
      <3> QED
        BY <3>1, <3>4
    <2> QED
      BY <2>1, <2>2
  <1>6. ASSUME Serial' PROVE GoodsSerial'
    <2>1. Serial
      BY <1>6 DEF Serial
    <2>2. \A t \in Threads : catalog_session'[t].stage = "idle"
      BY <1>1, <2>1 DEF GoodsInv, GoodsSerial, AloneIn
    <2> QED
      BY <2>1, <2>2 DEF GoodsSerial, AloneIn, GoodsKnown
  <1> QED
    BY <1>1, <1>4, <1>5, <1>6 DEF GoodsInv

\* A row is added that no index refuses.
LEMMA GoodsAdded ==
    ASSUME GoodsInv, workload' = workload, NEW r \in Threads, Goods!FlushInsert(r)
    PROVE  GoodsInv' /\ (Serial => Goods!DeletedStep)
  <1>1. PICK s : s = catalog_session[r]
    OBVIOUS
  <1>2. PICK table : table = s.table
    OBVIOUS
  <1>3. PICK new : new = s.new
    OBVIOUS
  <1>4. PICK old : old = rows[table]
    OBVIOUS
  <1>5. PICK more : more = WithRow(old, new)
    OBVIOUS
  <1>6. /\ s.stage = "insert" /\ Goods!Free(r) /\ Goods!Collisions(table, 0, new) = {}
        /\ rows' = [rows EXCEPT ![table] = more]
    BY <1>1, <1>2, <1>3, <1>4, <1>5 DEF Goods!FlushInsert, WithRow
  <1>7. /\ GoodsTyped(rows) /\ GoodsApart /\ GoodsAsked(rows, s)
        /\ Serial => GoodsKnown(s)
    BY <1>1 DEF GoodsInv, GoodsSerial
  <1>8. table \in GoodsTables /\ GoodsRow(rows, table, new)
    BY <1>2, <1>3, <1>6, <1>7 DEF GoodsAsked
  <1>9. /\ rows = [other \in GoodsTables |-> rows[other]]
        /\ \A other \in GoodsTables :
             IsTable(rows[other])
             /\ \A i \in DOMAIN rows[other] : GoodsRow(rows, other, rows[other][i])
    BY <1>7 DEF GoodsTyped
  <1>10. /\ rows' = [other \in GoodsTables |-> rows'[other]]
         /\ rows'[table] = more
         /\ \A other \in GoodsTables \ {table} : rows'[other] = rows[other]
    BY <1>6, <1>8, <1>9
  <1>11. /\ IsTable(more) /\ DOMAIN more = DOMAIN old \union {Len(old) + 1}
         /\ Len(old) + 1 \notin DOMAIN old /\ 0 \notin DOMAIN old
         /\ \A i \in DOMAIN old : more[i] = old[i]
         /\ more[Len(old) + 1] = new
    <2>1. IsTable(old)
      BY <1>4, <1>8, <1>9
    <2>2. /\ IsTable(more) /\ Len(old) \in Nat
          /\ DOMAIN old = 1 .. Len(old) /\ DOMAIN more = 1 .. Len(old) + 1
          /\ \A i \in DOMAIN old : more[i] = old[i]
          /\ more[Len(old) + 1] = new
      BY <1>5, <2>1, AppendRow
    <2> QED
      BY <2>2
  <1>12. \A i \in DOMAIN old :
            Goods!UniqueKeys(table, old[i]) \intersect Goods!UniqueKeys(table, new) = {}
    BY <1>4, <1>6, <1>11 DEF Goods!Collisions, Goods!Ids
  <1>13. GoodsApart'
    <2>1. ASSUME NEW i \in DOMAIN more, NEW j \in DOMAIN more, i # j
          PROVE  Goods!UniqueKeys(table, more[i]) \intersect Goods!UniqueKeys(table, more[j]) = {}
      <3>1. CASE i \in DOMAIN old /\ j \in DOMAIN old
        BY <1>4, <1>7, <1>8, <1>11, <2>1, <3>1 DEF GoodsApart
      <3>2. CASE i = Len(old) + 1 /\ j \in DOMAIN old
        BY <1>11, <1>12, <3>2
      <3>3. CASE j = Len(old) + 1 /\ i \in DOMAIN old
        BY <1>11, <1>12, <3>3
      <3> QED
        BY <1>11, <2>1, <3>1, <3>2, <3>3
    <2>2. ASSUME NEW other \in GoodsTables,
                 NEW i \in DOMAIN rows'[other], NEW j \in DOMAIN rows'[other], i # j
          PROVE  Goods!UniqueKeys(other, rows'[other][i])
                   \intersect Goods!UniqueKeys(other, rows'[other][j]) = {}
      BY <1>7, <1>10, <2>1, <2>2 DEF GoodsApart
    <2> QED
      BY <2>2 DEF GoodsApart, Goods!UniqueKeys
  <1>14. \A other \in GoodsTables :
           /\ IsTable(rows'[other])
           /\ \A i \in DOMAIN rows[other] :
                i \in DOMAIN rows'[other] /\ rows'[other][i] = rows[other][i]
           /\ \A i \in DOMAIN rows'[other] : GoodsRow(rows, other, rows'[other][i])
    BY <1>4, <1>8, <1>9, <1>10, <1>11
  <1>15. ASSUME Serial PROVE NamesApart'
    <2>1. NamesApart /\ (table = "supplier" => NameFree(0, new))
      BY <1>1, <1>2, <1>3, <1>6, <1>7, <1>15 DEF GoodsInv, GoodsSerial, GoodsKnown, GoodsAsked
    <2>2. CASE table # "supplier"
      BY <1>10, <2>1, <2>2 DEF NamesApart, NameFree, GoodsTables
    <2>3. CASE table = "supplier"
      BY <1>4, <1>10, <1>11, <2>1, <2>3 DEF NamesApart, NameFree
    <2> QED
      BY <2>2, <2>3
  <1>16. GoodsInv'
    BY <1>1, <1>6, <1>10, <1>13, <1>14, <1>15, GoodsFlushed DEF SameParties
  <1>17. ASSUME Serial PROVE Goods!DeletedStep
    <2>1. "product" \in GoodsTables /\ "link" \in GoodsTables
      BY DEF GoodsTables
    <2>2. \A p \in DOMAIN rows["product"] : rows'["product"][p] = rows["product"][p]
      BY <1>14, <2>1
    <2>3. ASSUME NEW v \in DOMAIN rows'["link"], v \notin DOMAIN rows["link"]
          PROVE  ~rows["product"][rows'["link"][v].product].deleted
      <3>1. table = "link" /\ v = Len(old) + 1
        BY <1>4, <1>10, <1>11, <2>1, <2>3
      <3>2. rows'["link"][v] = new
        BY <1>10, <1>11, <3>1
      <3> QED
        BY <1>2, <1>3, <1>6, <1>7, <1>17, <3>1, <3>2 DEF GoodsKnown
    <2> QED
      BY <2>2, <2>3 DEF Goods!DeletedStep, Goods!Ids
  <1> QED
    BY <1>16, <1>17

\* A row is changed, and no index refuses it.
LEMMA GoodsChanged ==
    ASSUME GoodsInv, workload' = workload, NEW r \in Threads, Goods!FlushUpdate(r)
    PROVE  GoodsInv' /\ (Serial => Goods!DeletedStep)
  <1>1. PICK s : s = catalog_session[r]
    OBVIOUS
  <1>2. PICK table : table = s.table
    OBVIOUS
  <1>3. PICK id : id = s.id
    OBVIOUS
  <1>4. PICK old : old = rows[table]
    OBVIOUS
  <1>5. PICK new : new = Goods!Written(old[id], s.row, s.new)
    OBVIOUS
  <1>6. PICK more : more = [old EXCEPT ![id] = new]
    OBVIOUS
  <1>7. /\ s.stage = "update" /\ Goods!Free(r) /\ Goods!Collisions(table, id, new) = {}
        /\ rows' = [rows EXCEPT ![table] = more]
    BY <1>1, <1>2, <1>3, <1>4, <1>5, <1>6 DEF Goods!FlushUpdate
  <1>8. /\ GoodsTyped(rows) /\ GoodsApart /\ GoodsAsked(rows, s)
        /\ Serial => GoodsKnown(s)
    BY <1>1 DEF GoodsInv, GoodsSerial
  <1>9. /\ table \in GoodsTables /\ GoodsRow(rows, table, s.new)
        /\ id \in DOMAIN old /\ SameParties(table, s.new, old[id])
    BY <1>2, <1>3, <1>4, <1>7, <1>8 DEF GoodsAsked
  <1>10. /\ rows = [other \in GoodsTables |-> rows[other]]
         /\ \A other \in GoodsTables :
              IsTable(rows[other])
              /\ \A i \in DOMAIN rows[other] : GoodsRow(rows, other, rows[other][i])
    BY <1>8 DEF GoodsTyped
  <1>11. GoodsRow(rows, table, old[id])
    BY <1>4, <1>9, <1>10
  <1>12. GoodsRow(rows, table, new) /\ SameParties(table, new, old[id])
    BY <1>5, <1>9, <1>11, GoodsWritten
  <1>13. /\ rows' = [other \in GoodsTables |-> rows'[other]]
         /\ rows'[table] = more
         /\ \A other \in GoodsTables \ {table} : rows'[other] = rows[other]
    BY <1>7, <1>9, <1>10
  <1>14. /\ IsTable(more) /\ DOMAIN more = DOMAIN old
         /\ \A i \in DOMAIN old : more[i] = IF i = id THEN new ELSE old[i]
    <2>1. IsTable(old)
      BY <1>4, <1>9, <1>10
    <2> QED
      BY <1>6, <2>1, ReplaceRow
  <1>15. \A i \in DOMAIN old \ {id} :
            Goods!UniqueKeys(table, old[i]) \intersect Goods!UniqueKeys(table, new) = {}
    BY <1>4, <1>7 DEF Goods!Collisions, Goods!Ids
  <1>16. GoodsApart'
    <2>1. ASSUME NEW i \in DOMAIN more, NEW j \in DOMAIN more, i # j
          PROVE  Goods!UniqueKeys(table, more[i]) \intersect Goods!UniqueKeys(table, more[j]) = {}
      <3>1. CASE i # id /\ j # id
        BY <1>4, <1>8, <1>9, <1>14, <2>1, <3>1 DEF GoodsApart
      <3>2. CASE i = id
        BY <1>14, <1>15, <2>1, <3>2
      <3>3. CASE j = id
        BY <1>14, <1>15, <2>1, <3>3
      <3> QED
        BY <3>1, <3>2, <3>3
    <2>2. ASSUME NEW other \in GoodsTables,
                 NEW i \in DOMAIN rows'[other], NEW j \in DOMAIN rows'[other], i # j
          PROVE  Goods!UniqueKeys(other, rows'[other][i])
                   \intersect Goods!UniqueKeys(other, rows'[other][j]) = {}
      BY <1>8, <1>13, <2>1, <2>2 DEF GoodsApart
    <2> QED
      BY <2>2 DEF GoodsApart, Goods!UniqueKeys
  <1>17. \A other \in GoodsTables :
           /\ IsTable(rows'[other])
           /\ \A i \in DOMAIN rows[other] :
                i \in DOMAIN rows'[other] /\ SameParties(other, rows'[other][i], rows[other][i])
           /\ \A i \in DOMAIN rows'[other] : GoodsRow(rows, other, rows'[other][i])
    <2>1. \A a : SameParties(table, a, a)
      BY DEF SameParties
    <2>2. \A i \in DOMAIN old : SameParties(table, more[i], old[i])
      BY <1>12, <1>14, <2>1
    <2>3. \A i \in DOMAIN more : GoodsRow(rows, table, more[i])
      BY <1>4, <1>9, <1>10, <1>12, <1>14
    <2>4. \A other, a : SameParties(other, a, a)
      BY DEF SameParties
    <2> QED
      BY <1>4, <1>10, <1>13, <1>14, <2>2, <2>3, <2>4
  <1>18. ASSUME Serial PROVE NamesApart'
    <2>1. NamesApart /\ (table = "supplier" => NameFree(id, s.new))
      BY <1>1, <1>2, <1>3, <1>7, <1>18 DEF GoodsInv, GoodsSerial, GoodsKnown
    <2>2. CASE table # "supplier"
      BY <1>13, <2>1, <2>2 DEF NamesApart, NameFree, GoodsTables
    <2>3. CASE table = "supplier"
      <3>1. s.row = old[id]
        BY <1>2, <1>3, <1>4, <1>7, <1>8, <1>18 DEF GoodsKnown
      <3>2. new = s.new
        BY <1>5, <1>9, <1>11, <3>1, GoodsWritten
      <3> QED
        BY <1>4, <1>13, <1>14, <2>1, <2>3, <3>2 DEF NamesApart, NameFree
    <2> QED
      BY <2>2, <2>3
  <1>19. GoodsInv'
    BY <1>1, <1>7, <1>13, <1>16, <1>17, <1>18, GoodsFlushed
  <1>20. ASSUME Serial PROVE Goods!DeletedStep
    <2>1. "product" \in GoodsTables /\ "link" \in GoodsTables
      BY DEF GoodsTables
    <2>2. \A p \in DOMAIN rows["product"] :
            rows["product"][p].deleted => rows'["product"][p] = rows["product"][p]
      <3>1. table = "product" => ~old[id].deleted
        BY <1>2, <1>3, <1>4, <1>7, <1>8, <1>20 DEF GoodsKnown
      <3> QED
        BY <1>4, <1>13, <1>14, <2>1, <3>1
    <2>3. DOMAIN rows'["link"] = DOMAIN rows["link"]
      BY <1>4, <1>13, <1>14, <2>1
    <2> QED
      BY <2>2, <2>3 DEF Goods!DeletedStep, Goods!Ids
  <1> QED
    BY <1>19, <1>20

\* Whatever the behaviour is about.
LEMMA GoodsKept ==
    ASSUME GoodsInv, [MCNext]_<<eventVars, NotEvents>>
    PROVE  GoodsInv' /\ [Serial => Goods!DeletedStep]_goodsVars
  <1>1. workload' = workload
    BY WorkloadStays
  <1>2. CASE UNCHANGED goodsVars
    <2>1. rows' = rows /\ catalog_session' = catalog_session
      BY <1>2 DEF goodsVars
    <2>2. (GoodsApart' <=> GoodsApart) /\ (GoodsTyped(rows)' <=> GoodsTyped(rows))
      BY <2>1 DEF GoodsApart
    <2>3. \A t \in Threads : GoodsAsked(rows, catalog_session[t])'
                            <=> GoodsAsked(rows, catalog_session[t])
      BY <2>1
    <2>4. \A t \in Threads : GoodsKnown(catalog_session[t])' <=> GoodsKnown(catalog_session[t])
      BY <2>1 DEF GoodsKnown, GoodsForeseen, NameFree, Goods!Collisions, Goods!Ids
    <2>5. NamesApart' <=> NamesApart
      BY <2>1 DEF NamesApart, NameFree
    <2>6. Serial' => Serial
      BY <1>1 DEF Serial
    <2> QED
      BY <1>2, <2>1, <2>2, <2>3, <2>4, <2>5, <2>6
      DEF GoodsInv, GoodsSerial, AloneIn
  <1>3. CASE /\ \E r \in Threads : GoodsMoves(r)
             /\ Serial => AloneIn(catalog_session')
    <2>1. PICK r \in Threads : GoodsMoves(r)
      BY <1>3
    <2>2. CASE Goods!FlushInsert(r)
      BY <1>1, <2>2, GoodsAdded
    <2>3. CASE Goods!FlushUpdate(r)
      BY <1>1, <2>3, GoodsChanged
    <2>4. CASE GoodsAsks(r) \/ Goods!Fail(r)
      <3>1. GoodsInv' /\ rows' = rows
        BY <1>1, <1>3, <2>4, GoodsBeginOrFail
      <3> QED
        BY <3>1 DEF Goods!DeletedStep, Goods!Ids
    <2> QED
      BY <2>1, <2>2, <2>3, <2>4, CategoryAsks, ProductAsks, SupplierAsks,
         LinkAsks DEF GoodsMoves
  <1> QED
    BY <1>2, <1>3, GoodsSteps

\* What the invariant says of the catalog.
LEMMA GoodsMean ==
    ASSUME GoodsInv
    PROVE  /\ Goods!TypeOK /\ Goods!OrganizationsApart
           /\ Serial => Goods!ChecksForeseeInserts /\ Goods!SuppliersNamedOnce
  <1>1. /\ "category" \in GoodsTables /\ "product" \in GoodsTables
        /\ "supplier" \in GoodsTables /\ "link" \in GoodsTables
    BY DEF GoodsTables
  <1>2. \A table \in GoodsTables :
          \A i \in DOMAIN rows[table] : GoodsRow(rows, table, rows[table][i])
    BY DEF GoodsInv, GoodsTyped
  <1>3. Goods!TypeOK
    BY <1>1, <1>2 DEF Goods!TypeOK, Goods!Ids, GoodsRow, CategoryRow, ProductRow, SupplierRow, LinkRow
  <1>4. Goods!OrganizationsApart
    BY <1>1, <1>2 DEF Goods!OrganizationsApart, Goods!Ids, GoodsRow
  <1>5. ASSUME Serial PROVE Goods!ChecksForeseeInserts
    <2>1. ASSUME NEW t \in Threads, catalog_session[t].stage # "idle",
                 NEW i \in Goods!Collisions(catalog_session[t].table, catalog_session[t].id,
                                            catalog_session[t].new)
          PROVE  GoodsForeseen(catalog_session[t].table, i, catalog_session[t].new)
      BY <1>5, <2>1 DEF GoodsInv, GoodsSerial, GoodsKnown
    <2> QED
      BY <2>1 DEF Goods!ChecksForeseeInserts, GoodsForeseen
  <1>6. ASSUME Serial PROVE Goods!SuppliersNamedOnce
    BY <1>6 DEF GoodsInv, GoodsSerial, NamesApart, NameFree, Goods!SuppliersNamedOnce, Goods!Ids
  <1> QED
    BY <1>3, <1>4, <1>5, <1>6

-----------------------------------------------------------------------------
\* Kitchen, one request at a time: the item has the status the cook has read.

CookKnows(s) ==
    s.stage = "loaded" => s.target \in Pass!ItemStatusTransitions[item_status[s.item]]

CooksSerial ==
    /\ AloneIn(kitchen_session) /\ \A r \in Threads : CookKnows(kitchen_session[r])
    /\ \A r \in Threads : kitchen_session[r].stage \in {"idle", "loaded"}

CooksInv == KitchenInv /\ (Serial => CooksSerial)

\* The steps of the workloads about the kitchen.
LEMMA CookSteps ==
    [MCNext]_<<eventVars, NotEvents>> =>
        (Pass!Next /\ (Serial => AloneIn(kitchen_session'))) \/ UNCHANGED passVars
  <1> SUFFICES ASSUME PassStep, Serial PROVE AloneIn(kitchen_session')
    BY DEF MCNext, LogStep, GoodsStep, PassStep, PreferencesStep, DeliveryStep, PeopleStep,
           SiteStep, ScriptStep, NotEvents, NotScript
  <1>1. Busy(kitchen_session') <= 1
    BY DEF PassStep, Within, Serial
  <1> QED
    BY <1>1, NarrowIsAlone

\* Nobody cooks at first.
LEMMA InitCooks == Pass!Init => CooksInv
  <1> SUFFICES ASSUME Pass!Init PROVE CooksInv
    OBVIOUS
  <1>1. \A r \in Threads : kitchen_session[r].stage = "idle"
    BY DEF Pass!Init, Pass!IdleCook
  <1> QED
    BY <1>1, InitPrepared DEF CooksInv, CooksSerial, CookKnows, AloneIn

\* What a cook has read holds until he writes, for nobody else writes.
LEMMA CooksKept ==
    ASSUME CooksInv, [MCNext]_<<eventVars, NotEvents>>
    PROVE  CooksInv' /\ [Serial => Pass!FinalStep]_passVars
  <1>1. workload' = workload
    BY WorkloadStays
  <1>2. KitchenInv'
    <2>1. KitchenInv /\ [Pass!Next]_passVars => KitchenInv'
      BY LoadPreserves, UpdatePreserves, OthersPreserve DEF Pass!Next
    <2> QED
      BY <2>1, KitchenSteps DEF CooksInv
  <1>3. Serial' => Serial
    BY <1>1 DEF Serial
  <1>4. CASE UNCHANGED passVars
    BY <1>2, <1>3, <1>4 DEF CooksInv, CooksSerial, CookKnows, AloneIn, passVars
  <1>5. CASE Pass!Next /\ (Serial => AloneIn(kitchen_session'))
    <2> SUFFICES ASSUME Serial PROVE CooksSerial' /\ Pass!FinalStep
      BY <1>2, <1>3 DEF CooksInv
    <2>1. AloneIn(kitchen_session') /\ CooksSerial /\ KitchenInv
      BY <1>5 DEF CooksInv
    <2>2. ASSUME NEW r \in Threads, NEW i \in Items, NEW target \in Pass!ItemStatuses,
                 Pass!LoadItem(r, {Stations[i]}, i, target)
          PROVE  CooksSerial' /\ Pass!FinalStep
      <3>1. \A q \in Threads : kitchen_session'[q] =
               IF q = r THEN [stage |-> "loaded", item |-> i, target |-> target]
               ELSE kitchen_session[q]
        BY <2>1, <2>2 DEF Pass!LoadItem, KitchenInv
      <3>2. item_status' = item_status /\ target \in Pass!ItemStatusTransitions[item_status[i]]
        BY <2>2 DEF Pass!LoadItem
      <3>3. \A q \in Threads : CookKnows(kitchen_session[q])'
        BY <2>1, <3>1, <3>2 DEF CooksSerial, CookKnows
      <3>4. \A q \in Threads : kitchen_session'[q].stage \in {"idle", "loaded"}
        BY <2>1, <3>1 DEF CooksSerial
      <3> QED
        BY <2>1, <3>2, <3>3, <3>4 DEF CooksSerial, Pass!FinalStep
    <2>3. ASSUME NEW r \in Threads, Pass!UpdateItemStatus(r)
          PROVE  CooksSerial' /\ Pass!FinalStep
      <3>1. /\ \A q \in Threads : kitchen_session'[q] =
                  IF q = r THEN Pass!IdleCook ELSE kitchen_session[q]
            /\ kitchen_session[r].stage = "loaded"
            /\ item_status' = [item_status EXCEPT ![kitchen_session[r].item] = kitchen_session[r].target]
        BY <2>1, <2>3 DEF Pass!UpdateItemStatus, KitchenInv
      <3>2. \A q \in Threads : kitchen_session'[q].stage = "idle"
        BY <2>1, <3>1 DEF CooksSerial, AloneIn, Pass!IdleCook
      <3>3. item_status \in [Items -> Pass!ItemStatuses]
        BY <2>1 DEF KitchenInv, ItemsPrepared
      <3>4. \A i \in Items : item_status[i] \in {"served", "cancelled"} =>
               Pass!ItemStatusTransitions[item_status[i]] = {}
        BY DEF Pass!ItemStatusTransitions, Pass!ItemStatuses
      <3>5. Pass!FinalStep
        BY <2>1, <3>1, <3>3, <3>4 DEF CooksSerial, CookKnows, Pass!FinalStep
      <3> QED
        BY <2>1, <3>2, <3>5 DEF CooksSerial, CookKnows
    <2>4. ASSUME \/ \E r \in Threads : Pass!Rollback(r)
                 \/ \E i \in Items : Pass!CancelOrder(i)
          PROVE  CooksSerial' /\ Pass!FinalStep
      <3>1. item_status' = item_status
        BY <2>4 DEF Pass!Rollback, Pass!CancelOrder
      <3>2. \A q \in Threads : kitchen_session'[q] \in {Pass!IdleCook, kitchen_session[q]}
        BY <2>1, <2>4 DEF KitchenInv, Pass!Rollback, Pass!CancelOrder
      <3>3. Pass!IdleCook.stage = "idle"
        BY DEF Pass!IdleCook
      <3> QED
        BY <2>1, <3>1, <3>2, <3>3 DEF CooksSerial, CookKnows, Pass!FinalStep
    <2> QED
      BY <1>5, <2>2, <2>3, <2>4 DEF Pass!Next
  <1> QED
    BY <1>4, <1>5, CookSteps

-----------------------------------------------------------------------------
\* Promotions and coupons.  A write changes the columns that its request names and that
\* differ from the row it has loaded; a request that is alone has loaded the row as it is.

CouponRow ==
    [code : Digits, promotion : {i1}, is_active : BOOLEAN, start_date : Int, end_date : Int]

\* A session, whatever it has in its fields.
SiteRecord(s) ==
    s = [stage |-> s.stage, handler |-> s.handler, items |-> s.items, loaded |-> s.loaded,
         coupon |-> s.coupon]

SiteItems(items) ==
    /\ IsTable(items) /\ DOMAIN items \subseteq {1, 2}
    /\ \A i \in DOMAIN items : items[i].id \in Items /\ Sent(items[i].change)
    /\ \A i, j \in DOMAIN items : items[i].id = items[j].id => i = j

\* What a request in flight has been asked and has loaded.
SiteAsked(s) ==
    /\ SiteRecord(s) /\ SiteItems(s.items)
    /\ s.stage \in {"idle", "load", "commit", "refresh"}
    /\ s.stage = "idle" => DOMAIN s.items = {}
    /\ IsTable(s.loaded) /\ Len(s.loaded) <= Len(s.items)
    /\ \A i \in DOMAIN s.loaded : s.loaded[i] \in Site!Promotion
    /\ s.stage # "idle" =>
        /\ s.handler \in {"create", "update", "delete"} => DOMAIN s.items = {1}
        /\ s.handler = "create" => s.items[1].change \in Site!Promotion
        /\ s.stage = "load" /\ s.handler \in {"update", "bulk", "delete"} =>
              Len(s.loaded) < Len(s.items)
        /\ s.stage = "commit" /\ s.handler \in {"update", "bulk"} => Len(s.loaded) = Len(s.items)
        /\ s.handler = "coupon" => s.coupon \in CouponRow

\* What a request that is alone knows.
SiteKnown(s) ==
    s.stage \in {"load", "commit"} =>
        \A i \in DOMAIN s.loaded : s.loaded[i] = promotions[s.items[i].id]

\* What a request knows where nothing is deleted.
SiteKeeps(s) ==
    s.stage # "idle" =>
        /\ s.handler # "delete"
        /\ s.handler = "create" /\ s.stage = "refresh" => promotions[s.items[1].id] # NoRow

PromosInv ==
    /\ promotions \in [Items -> Site!Promotion \union {NoRow}]
    /\ DOMAIN promo_session = Threads /\ DOMAIN promo_answers = Threads
    /\ \A t \in Threads : SiteAsked(promo_session[t])
    /\ Serial => AloneIn(promo_session) /\ \A t \in Threads : SiteKnown(promo_session[t])
    /\ ~Uses("delete") => \A t \in Threads : SiteKeeps(promo_session[t])
    /\ ~Uses("delete") => Site!CreatesOnlyConflict

\* A coupon that is refused for good.
Over(coupon) == ~coupon.is_active \/ coupon.end_date < today

\* Codes are used once, and the coupon of a refused one is over.
CouponsInv ==
    /\ IsTable(coupons)
    /\ \A i \in DOMAIN coupons :
         coupons[i] \in CouponRow /\ coupons[i].start_date < coupons[i].end_date
    /\ \A i, j \in DOMAIN coupons : coupons[i].code = coupons[j].code => i = j
    /\ today \in Int
    /\ \A code \in closed : code \in Digits
         /\ \E i \in DOMAIN coupons : coupons[i].code = code /\ Over(coupons[i])

SiteInv == PromosInv /\ CouponsInv


\* The steps of the workloads about promotions.
SiteBegins(r) ==
    \/ Site!SomeCreate(r) \/ Site!SomeUpdate(r) \/ Site!SomeBulk(r)
    \/ Uses("delete") /\ Site!SomeDelete(r)
    \/ Site!SomeCoupon(r, i1)

SiteMoves ==
    (\E r \in Threads : SiteBegins(r) \/ Site!Continue(r)) \/ Site!NextDay

\* What one step of the back office is.
LEMMA SiteSteps ==
    [MCNext]_<<eventVars, NotEvents>> =>
        (SiteMoves /\ (Serial => AloneIn(promo_session'))) \/ UNCHANGED siteVars
  <1> SUFFICES ASSUME SiteStep PROVE SiteMoves /\ (Serial => AloneIn(promo_session'))
    BY DEF MCNext, LogStep, GoodsStep, PassStep, PreferencesStep, DeliveryStep, PeopleStep,
           SiteStep, ScriptStep, NotEvents, NotScript
  <1>1. SiteMoves
    BY DEF SiteStep, SiteMoves, SiteBegins
  <1>2. ASSUME Serial PROVE AloneIn(promo_session')
    <2>1. Busy(promo_session') <= 1
      BY <1>2 DEF SiteStep, Within, Serial
    <2> QED
      BY <2>1, NarrowIsAlone
  <1> QED
    BY <1>1, <1>2

\* A request that has nothing to do any more.
LEMMA IdleOnSite ==
    ASSUME NEW s, s = Site!IdleRequest
    PROVE  SiteAsked(s) /\ s.stage = "idle" /\ SiteKnown(s) /\ SiteKeeps(s)
  <1>1. /\ s.stage = "idle" /\ s.items = <<>> /\ s.loaded = <<>> /\ SiteRecord(s)
    BY DEF Site!IdleRequest, SiteRecord
  <1>2. IsTable(<<>>) /\ DOMAIN <<>> = {} /\ Len(<<>>) <= Len(<<>>)
    BY EmptyTable
  <1> QED
    BY <1>1, <1>2 DEF SiteAsked, SiteItems, SiteKnown, SiteKeeps

\* No promotions and no coupons at first.
LEMMA InitSite == Site!Init => SiteInv
  <1> SUFFICES ASSUME Site!Init PROVE SiteInv
    OBVIOUS
  <1>1. \A t \in Threads : promo_session[t] = Site!IdleRequest
    BY DEF Site!Init
  <1>2. \A t \in Threads : /\ SiteAsked(promo_session[t]) /\ promo_session[t].stage = "idle"
                           /\ SiteKnown(promo_session[t]) /\ SiteKeeps(promo_session[t])
    BY <1>1, IdleOnSite
  <1>3. Site!CreatesOnlyConflict
    BY PromotionsAssumption DEF Site!Init, Site!NoAnswer, Site!CreatesOnlyConflict
  <1>4. PromosInv
    BY <1>2, <1>3 DEF Site!Init, PromosInv, AloneIn
  <1>5. coupons = <<>> /\ IsTable(coupons) /\ DOMAIN coupons = {} /\ closed = {} /\ today = 1
    BY EmptyTable DEF Site!Init
  <1>6. CouponsInv
    BY <1>5 DEF CouponsInv
  <1> QED
    BY <1>4, <1>6 DEF SiteInv

\* What remains to be shown of a step of a request: r's session becomes s.
LEMMA PromosMove ==
    ASSUME PromosInv, workload' = workload, Serial => AloneIn(promo_session'),
           NEW r \in Threads, NEW s, SiteAsked(s),
           promo_session' = [promo_session EXCEPT ![r] = s],
           promotions' \in [Items -> Site!Promotion \union {NoRow}],
           DOMAIN promo_answers' = Threads,
           promo_session[r].stage = "idle" => promotions' = promotions,
           Serial => SiteKnown(s)',
           ~Uses("delete") =>
               /\ \A id \in Items : promotions[id] # NoRow => promotions'[id] # NoRow
               /\ SiteKeeps(s)'
               /\ Site!CreatesOnlyConflict'
    PROVE  PromosInv'
  <1>1. \A t \in Threads : promo_session'[t] = IF t = r THEN s ELSE promo_session[t]
    BY DEF PromosInv
  <1>2. DOMAIN promo_session' = Threads /\ \A t \in Threads : SiteAsked(promo_session'[t])
    BY <1>1 DEF PromosInv
  <1>3. (Serial' <=> Serial) /\ (Uses("delete")' <=> Uses("delete"))
    BY DEF Serial, Uses
  <1>4. ASSUME Serial, NEW t \in Threads PROVE SiteKnown(promo_session[t])'
    <2>1. CASE t = r
      <3>1. SiteKnown(s)'
        BY <1>4
      <3> QED
        BY <1>1, <2>1, <3>1 DEF SiteKnown
    <2>2. CASE t # r /\ promo_session[t].stage = "idle"
      BY <1>1, <2>2 DEF SiteKnown
    <2>3. CASE t # r /\ promo_session[t].stage # "idle"
      <3>1. promotions' = promotions
        BY <1>4, <2>3 DEF PromosInv, AloneIn
      <3>2. SiteKnown(promo_session[t]) /\ promo_session'[t] = promo_session[t]
        BY <1>1, <1>4, <2>3 DEF PromosInv
      <3> QED
        BY <3>1, <3>2 DEF SiteKnown
    <2> QED
      BY <2>1, <2>2, <2>3
  <1>5. ASSUME ~Uses("delete"), NEW t \in Threads PROVE SiteKeeps(promo_session[t])'
    <2>1. CASE t = r
      <3>1. SiteKeeps(s)'
        BY <1>5
      <3> QED
        BY <1>1, <2>1, <3>1 DEF SiteKeeps
    <2>2. CASE t # r
      <3>1. PICK q : q = promo_session[t] /\ q = promo_session'[t]
        BY <1>1, <2>2
      <3>2. SiteKeeps(q) /\ SiteAsked(q)
        BY <1>5, <3>1 DEF PromosInv
      <3>3. q.stage # "idle" /\ q.handler = "create" => q.items[1].id \in Items
        BY <3>2 DEF SiteAsked, SiteItems
      <3>4. q.stage # "idle" =>
              /\ q.handler # "delete"
              /\ q.handler = "create" /\ q.stage = "refresh" => promotions'[q.items[1].id] # NoRow
        BY <1>5, <3>2, <3>3 DEF SiteKeeps
      <3> QED
        BY <3>1, <3>4 DEF SiteKeeps
    <2> QED
      BY <2>1, <2>2
  <1>6. Site!CreatesOnlyConflict' <=> \A t \in Threads :
            promo_answers'[t].handler = "create" => promo_answers'[t].answer # "database error"
    BY DEF Site!CreatesOnlyConflict
  <1> QED
    BY <1>2, <1>3, <1>4, <1>5 DEF PromosInv

\* The answers of the others stay, and what is answered to a creation is no error of the database.
LEMMA AnswersMove ==
    ASSUME PromosInv, ~Uses("delete"), NEW r \in Threads, NEW a,
           promo_answers' = [promo_answers EXCEPT ![r] = a] \/ promo_answers' = promo_answers,
           a.handler = "create" => a.answer # "database error"
    PROVE  Site!CreatesOnlyConflict'
  BY DEF PromosInv, Site!CreatesOnlyConflict

\* Two changes of one promotion are a change of it.
LEMMA LaterIsSent ==
    ASSUME NEW x, NEW y, Sent(x), Sent(y)
    PROVE  Sent(Site!Later(x, y))
  <1>1. PICK z : z = Site!Later(x, y)
    OBVIOUS
  <1>2. PICK columns : columns = DOMAIN x \union DOMAIN y
    OBVIOUS
  <1>3. z = [c \in columns |-> IF c \in DOMAIN y THEN y[c] ELSE x[c]]
    BY <1>1, <1>2 DEF Site!Later
  <1>4. DOMAIN z = columns
    BY <1>3
  <1>6. ASSUME NEW c \in columns
        PROVE  (c \in DOMAIN y /\ z[c] = y[c]) \/ (c \in DOMAIN x /\ z[c] = x[c])
    <2>1. z[c] = IF c \in DOMAIN y THEN y[c] ELSE x[c]
      BY <1>3
    <2>2. CASE c \in DOMAIN y
      BY <2>1, <2>2
    <2>3. CASE c \notin DOMAIN y
      BY <1>2, <2>1, <2>3
    <2> QED
      BY <2>2, <2>3
  <1>7. columns \subseteq {"title", "images", "is_active"}
    BY <1>2 DEF Sent
  <1>8. "title" \in columns => z["title"] \in Names \union {Null}
    BY <1>6 DEF Sent
  <1>9. "images" \in columns => z["images"] \in {"list", Null}
    BY <1>6 DEF Sent
  <1>10. "is_active" \in columns => z["is_active"] \in BOOLEAN \union {Null}
    BY <1>6 DEF Sent
  <1> QED
    BY <1>1, <1>4, <1>7, <1>8, <1>9, <1>10 DEF Sent

\* Requests begin with nothing loaded.
LEMMA SiteBegun ==
    ASSUME SiteInv, workload' = workload, Serial => AloneIn(promo_session'),
           NEW r \in Threads, SiteBegins(r)
    PROVE  PromosInv' /\ UNCHANGED <<promotions, coupons, today, closed>>
  <1>1. PICK handler, items, coupon :
                /\ Site!Begin(r, handler, "load", items, coupon)
                /\ SiteItems(items) /\ Len(items) \in Nat
                /\ handler \in {"create", "update", "delete"} =>
                      DOMAIN items = {1} /\ Len(items) = 1
                /\ handler = "create" => items[1].change \in Site!Promotion
                /\ handler = "bulk" => Len(items) \in {1, 2}
                /\ handler = "coupon" => coupon \in CouponRow
                /\ ~Uses("delete") => handler # "delete"
    <2>1. ASSUME NEW item, item.id \in Items, Sent(item.change)
          PROVE  SiteItems(<<item>>) /\ DOMAIN <<item>> = {1} /\ Len(<<item>>) = 1
      <3>1. PICK items : items = <<item>>
        OBVIOUS
      <3>2. items = [n \in 1 .. 1 |-> items[n]] /\ items[1] = item
        BY <3>1
      <3>3. IsTable(items) /\ Len(items) = 1
        BY <3>2, TableOf
      <3>4. DOMAIN items = {1}
        BY <3>2
      <3> QED
        BY <2>1, <3>1, <3>2, <3>3, <3>4 DEF SiteItems
    <2>2. ASSUME NEW x, NEW y, x.id \in Items, Sent(x.change), y.id \in Items, Sent(y.change),
                 x.id # y.id
          PROVE  SiteItems(<<x, y>>) /\ Len(<<x, y>>) = 2
      <3>1. PICK items : items = <<x, y>>
        OBVIOUS
      <3>2. items = [n \in 1 .. 2 |-> items[n]] /\ items[1] = x /\ items[2] = y
        BY <3>1
      <3>3. IsTable(items) /\ Len(items) = 2
        BY <3>2, TableOf
      <3>4. DOMAIN items = {1, 2}
        BY <3>2
      <3> QED
        BY <2>2, <3>1, <3>2, <3>3, <3>4 DEF SiteItems
    <2>3. SiteItems(<<>>) /\ Len(<<>>) = 0
      BY EmptyTable DEF SiteItems
    <2>4. CASE Site!SomeCreate(r)
      <3>1. PICK id \in Items, p \in Created :
              Site!Begin(r, "create", "load", <<Site!Item(id, p)>>, Null)
        BY <2>4 DEF Site!SomeCreate
      <3>2. PICK item : item = Site!Item(id, p)
        OBVIOUS
      <3>3. item.id \in Items /\ item.change \in Site!Promotion
        BY <3>2, PromotionsAssumption DEF Site!Item
      <3>4. Sent(item.change)
        BY <3>3 DEF Sent, Site!Promotion
      <3>5. <<item>>[1] = item
        OBVIOUS
      <3> QED
        BY <2>1, <3>1, <3>2, <3>3, <3>4, <3>5
    <2>5. CASE Site!SomeUpdate(r)
      <3>1. PICK id \in Items, change \in Changes :
              Site!Begin(r, "update", "load", <<Site!Item(id, change)>>, Null)
        BY <2>5 DEF Site!SomeUpdate
      <3>2. PICK item : item = Site!Item(id, change)
        OBVIOUS
      <3>3. item.id \in Items /\ Sent(item.change)
        BY <3>2, PromotionsAssumption DEF Site!Item
      <3> QED
        BY <2>1, <3>1, <3>2, <3>3
    <2>6. CASE Site!SomeBulk(r)
      <3>1. PICK a \in Items, b \in Items, x \in Changes, y \in Changes :
              Site!Begin(r, "bulk", "load",
                         IF a = b THEN <<Site!Item(a, Site!Later(x, y))>>
                         ELSE <<Site!Item(a, x), Site!Item(b, y)>>, Null)
        BY <2>6 DEF Site!SomeBulk
      <3>2. PICK first : first = Site!Item(a, x)
        OBVIOUS
      <3>3. PICK second : second = Site!Item(b, y)
        OBVIOUS
      <3>4. /\ first.id \in Items /\ Sent(first.change) /\ second.id \in Items
            /\ Sent(second.change) /\ first.id = a /\ second.id = b
        BY <3>1, <3>2, <3>3, PromotionsAssumption DEF Site!Item
      <3>5. CASE a # b
        <4>1. first.id # second.id /\ Site!Begin(r, "bulk", "load", <<first, second>>, Null)
          BY <3>1, <3>2, <3>3, <3>4, <3>5
        <4> QED
          BY <2>2, <3>4, <4>1
      <3>6. CASE a = b
        <4>1. PICK item : item = Site!Item(a, Site!Later(x, y))
          OBVIOUS
        <4>2. Sent(x) /\ Sent(y)
          BY PromotionsAssumption
        <4>3. item.id \in Items /\ Sent(item.change)
          BY <4>1, <4>2, LaterIsSent DEF Site!Item
        <4>4. Site!Begin(r, "bulk", "load", <<item>>, Null)
          BY <3>1, <3>6, <4>1
        <4> QED
          BY <2>1, <4>3, <4>4
      <3> QED
        BY <3>5, <3>6
    <2>7. CASE Uses("delete") /\ Site!SomeDelete(r)
      <3>1. PICK id \in Items :
              Site!Begin(r, "delete", "load", <<Site!Item(id, [title |-> Null])>>, Null)
        BY <2>7 DEF Site!SomeDelete
      <3>2. PICK item : item = Site!Item(id, [title |-> Null])
        OBVIOUS
      <3>3. item.id \in Items /\ Sent(item.change)
        BY <3>2 DEF Site!Item, Sent
      <3> QED
        BY <2>1, <2>7, <3>1, <3>2, <3>3
    <2>8. CASE Site!SomeCoupon(r, i1)
      <3>1. ASSUME NEW code \in Digits, NEW window \in Windows,
                   Site!Begin(r, "coupon", "load", <<>>, Site!Coupon(code, i1, window[1], window[2]))
            PROVE  Site!Coupon(code, i1, window[1], window[2]) \in CouponRow
        <4>1. PICK starts, ends : starts = window[1] /\ ends = window[2]
          OBVIOUS
        <4>2. starts \in Int /\ ends \in Int
          <5>1. window[1] \in Nat /\ window[2] \in Nat
            BY PromotionsAssumption
          <5>2. starts \in Nat /\ ends \in Nat
            BY <4>1, <5>1
          <5> QED
            BY <5>2
        <4>3. [code |-> code, promotion |-> i1, is_active |-> TRUE,
               start_date |-> starts, end_date |-> ends] \in CouponRow
          BY <4>2 DEF CouponRow
        <4> QED
          BY <4>1, <4>3 DEF Site!Coupon
      <3>2. \/ \E code \in Digits, window \in Windows :
                 Site!Begin(r, "coupon", "load", <<>>, Site!Coupon(code, i1, window[1], window[2]))
            \/ Site!Begin(r, "delete coupon", "load", <<>>, Null)
            \/ \E code \in Digits : Site!Begin(r, "validate", "load", <<>>, [code |-> code])
        BY <2>8 DEF Site!SomeCoupon
      <3>3. CASE \E code \in Digits, window \in Windows :
                 Site!Begin(r, "coupon", "load", <<>>, Site!Coupon(code, i1, window[1], window[2]))
        <4>1. PICK coupon \in CouponRow : Site!Begin(r, "coupon", "load", <<>>, coupon)
          BY <3>1, <3>3
        <4> QED
          BY <2>3, <4>1
      <3>4. CASE Site!Begin(r, "delete coupon", "load", <<>>, Null)
        <4>1. PICK handler : handler = "delete coupon"
          OBVIOUS
        <4>2. handler \notin {"create", "update", "delete", "bulk", "coupon"}
          BY <4>1
        <4>3. Site!Begin(r, handler, "load", <<>>, Null)
          BY <3>4, <4>1
        <4> QED
          BY <2>3, <4>2, <4>3
      <3>5. CASE \E code \in Digits : Site!Begin(r, "validate", "load", <<>>, [code |-> code])
        BY <2>3, <3>5
      <3> QED
        BY <3>2, <3>3, <3>4, <3>5
    <2> QED
      BY <2>4, <2>5, <2>6, <2>7, <2>8 DEF SiteBegins
  <1>2. PICK s : s = [stage |-> "load", handler |-> handler, items |-> items, loaded |-> <<>>,
                      coupon |-> coupon]
    OBVIOUS
  <1>3. /\ s.stage = "load" /\ s.handler = handler /\ s.items = items /\ s.loaded = <<>>
        /\ s.coupon = coupon /\ SiteRecord(s)
    BY <1>2 DEF SiteRecord
  <1>4. IsTable(<<>>) /\ DOMAIN <<>> = {} /\ Len(<<>>) = 0
    BY EmptyTable
  <1>5. SiteAsked(s)
    <2>1. Len(items) >= 0 /\ (handler \in {"update", "bulk", "delete"} => Len(items) > 0)
      BY <1>1
    <2> QED
      BY <1>1, <1>3, <1>4, <2>1 DEF SiteAsked
  <1>6. SiteKnown(s)' /\ (~Uses("delete") => SiteKeeps(s)')
    BY <1>1, <1>3, <1>4 DEF SiteKnown, SiteKeeps
  <1>7. /\ promo_session' = [promo_session EXCEPT ![r] = s]
        /\ promo_answers' = [promo_answers EXCEPT ![r] = Site!NoAnswer]
        /\ UNCHANGED <<promotions, coupons, today, closed>>
    BY <1>1, <1>2 DEF Site!Begin
  <1>8. Site!NoAnswer.answer # "database error"
    BY PromotionsAssumption DEF Site!NoAnswer
  <1>9. PromosInv
    BY DEF SiteInv
  <1>10. ~Uses("delete") => Site!CreatesOnlyConflict'
    BY <1>7, <1>8, <1>9, AnswersMove
  <1>11. DOMAIN promo_answers' = Threads /\ promotions' \in [Items -> Site!Promotion \union {NoRow}]
    BY <1>7, <1>9 DEF PromosInv
  <1> QED
    BY <1>5, <1>6, <1>7, <1>9, <1>10, <1>11, PromosMove

\* A session with its stage changed.
LEMMA SiteRecordMoved ==
    ASSUME NEW s, SiteRecord(s), NEW stage, NEW n, n = [s EXCEPT !.stage = stage]
    PROVE  /\ n.stage = stage /\ n.handler = s.handler /\ n.items = s.items
           /\ n.loaded = s.loaded /\ n.coupon = s.coupon /\ SiteRecord(n)
  <1>1. PICK handler, items, loaded, coupon :
          /\ handler = s.handler /\ items = s.items /\ loaded = s.loaded /\ coupon = s.coupon
          /\ s = [stage |-> s.stage, handler |-> handler, items |-> items, loaded |-> loaded,
                  coupon |-> coupon]
    BY DEF SiteRecord
  <1>2. n = [stage |-> stage, handler |-> handler, items |-> items, loaded |-> loaded,
             coupon |-> coupon]
    BY <1>1
  <1>3. /\ n.stage = stage /\ n.handler = handler /\ n.items = items
        /\ n.loaded = loaded /\ n.coupon = coupon /\ SiteRecord(n)
    BY <1>2 DEF SiteRecord
  <1> QED
    BY <1>1, <1>3

\* A session with a promotion more.
LEMMA SiteRecordChanged ==
    ASSUME NEW s, SiteRecord(s), NEW l, NEW stage
    PROVE  [s EXCEPT !.loaded = l, !.stage = stage] =
             [stage |-> stage, handler |-> s.handler, items |-> s.items, loaded |-> l,
              coupon |-> s.coupon]
  <1>1. PICK handler, items, loaded, coupon :
          /\ handler = s.handler /\ items = s.items /\ loaded = s.loaded /\ coupon = s.coupon
    OBVIOUS
  <1>2. s = [stage |-> s.stage, handler |-> handler, items |-> items, loaded |-> loaded,
             coupon |-> coupon]
    BY <1>1 DEF SiteRecord
  <1>3. PICK before : before = s.stage
    OBVIOUS
  <1>4. PICK n : n = [s EXCEPT !.loaded = l, !.stage = stage]
    OBVIOUS
  <1>5. n = [stage |-> stage, handler |-> handler, items |-> items, loaded |-> l,
             coupon |-> coupon]
    <2>1. s = [stage |-> before, handler |-> handler, items |-> items, loaded |-> loaded,
               coupon |-> coupon]
      BY <1>2, <1>3
    <2> QED
      BY <1>4, <2>1
  <1> QED
    BY <1>1, <1>4, <1>5

\* A request that answers and is over.
LEMMA SiteAnswered ==
    ASSUME PromosInv, workload' = workload, Serial => AloneIn(promo_session'),
           NEW r \in Threads, NEW answer, Site!Answer(r, answer),
           promotions' \in [Items -> Site!Promotion \union {NoRow}],
           promo_session[r].stage = "idle" => promotions' = promotions,
           ~Uses("delete") =>
               /\ \A id \in Items : promotions[id] # NoRow => promotions'[id] # NoRow
               /\ promo_session[r].handler = "create" => answer # "database error"
    PROVE  PromosInv'
  <1>1. PICK s : s = Site!IdleRequest
    OBVIOUS
  <1>2. SiteAsked(s) /\ s.stage = "idle"
    BY <1>1, IdleOnSite
  <1>3. SiteKnown(s)' /\ SiteKeeps(s)'
    BY <1>2 DEF SiteKnown, SiteKeeps
  <1>4. PICK a : /\ promo_answers' = [promo_answers EXCEPT ![r] = a]
                 /\ a.handler = promo_session[r].handler /\ a.answer = answer
    <2>1. PICK code : promo_answers' = [promo_answers EXCEPT ![r] =
              [handler |-> promo_session[r].handler, answer |-> answer, code |-> code]]
      BY DEF Site!Answer
    <2>2. PICK a : a = [handler |-> promo_session[r].handler, answer |-> answer, code |-> code]
      OBVIOUS
    <2>3. a.handler = promo_session[r].handler /\ a.answer = answer
      BY <2>2
    <2> QED
      BY <2>1, <2>2, <2>3
  <1>5. ~Uses("delete") => Site!CreatesOnlyConflict'
    BY <1>4, AnswersMove
  <1>6. promo_session' = [promo_session EXCEPT ![r] = s]
    BY <1>1 DEF Site!Answer
  <1>7. DOMAIN promo_answers' = Threads
    BY <1>4 DEF PromosInv
  <1> QED
    BY <1>2, <1>3, <1>5, <1>6, <1>7, PromosMove

\* A request that goes on.
LEMMA SiteGoes ==
    ASSUME PromosInv, workload' = workload, Serial => AloneIn(promo_session'),
           NEW r \in Threads, NEW s, Site!Goto(r, s), SiteAsked(s),
           promotions' \in [Items -> Site!Promotion \union {NoRow}],
           promo_session[r].stage # "idle",
           Serial => SiteKnown(s)',
           ~Uses("delete") =>
               /\ \A id \in Items : promotions[id] # NoRow => promotions'[id] # NoRow
               /\ SiteKeeps(s)'
    PROVE  PromosInv'
  <1>1. promo_answers' = promo_answers /\ promo_session' = [promo_session EXCEPT ![r] = s]
    BY DEF Site!Goto
  <1>2. Site!CreatesOnlyConflict => Site!CreatesOnlyConflict'
    BY <1>1 DEF Site!CreatesOnlyConflict
  <1>3. (~Uses("delete") => Site!CreatesOnlyConflict') /\ DOMAIN promo_answers' = Threads
    BY <1>1, <1>2 DEF PromosInv
  <1> QED
    BY <1>1, <1>3, PromosMove

\* The promotions of a request are loaded as they are.
LEMMA SiteLoads ==
    ASSUME PromosInv, workload' = workload, Serial => AloneIn(promo_session'),
           NEW r \in Threads, Site!LoadPromotion(r)
    PROVE  PromosInv'
  <1>1. PICK s : s = promo_session[r]
    OBVIOUS
  <1>2. SiteAsked(s) /\ s.stage = "load" /\ s.handler \in {"update", "bulk", "delete"}
    BY <1>1 DEF PromosInv, Site!LoadPromotion, Site!At
  <1>3. /\ IsTable(s.loaded) /\ Len(s.loaded) < Len(s.items) /\ SiteItems(s.items)
        /\ SiteRecord(s) /\ \A i \in DOMAIN s.loaded : s.loaded[i] \in Site!Promotion
    BY <1>2 DEF SiteAsked
  <1>4. PICK next : next = Len(s.loaded) + 1
    OBVIOUS
  <1>5. next \in DOMAIN s.items /\ next <= Len(s.items)
    <2>1. Len(s.loaded) \in Nat /\ Len(s.items) \in Nat /\ DOMAIN s.items = 1 .. Len(s.items)
      BY <1>3, TableIs DEF SiteItems
    <2> QED
      BY <1>3, <1>4, <2>1
  <1>6. PICK id \in Items : id = s.items[next].id
    BY <1>3, <1>5 DEF SiteItems
  <1>7. PICK stage : stage = IF next = Len(s.items) THEN "commit" ELSE "load"
    OBVIOUS
  <1>8. /\ promotions' = promotions
        /\ \/ Site!Answer(r, "not found")
           \/ /\ promotions[id] # NoRow
              /\ Site!Goto(r, [s EXCEPT !.loaded = Append(@, promotions[id]), !.stage = stage])
    BY <1>1, <1>4, <1>6, <1>7 DEF Site!LoadPromotion, Site!Missing
  <1>9. promotions \in [Items -> Site!Promotion \union {NoRow}]
    BY DEF PromosInv
  <1>10. CASE Site!Answer(r, "not found")
    BY <1>1, <1>2, <1>8, <1>9, <1>10, SiteAnswered
  <1>11. CASE /\ promotions[id] # NoRow
              /\ Site!Goto(r, [s EXCEPT !.loaded = Append(@, promotions[id]), !.stage = stage])
    <2>1. PICK row : row = promotions[id] /\ row \in Site!Promotion
      BY <1>9, <1>11
    <2>2. PICK loaded : loaded = Append(s.loaded, row)
      OBVIOUS
    <2>3. /\ IsTable(loaded) /\ Len(loaded) = next
          /\ DOMAIN s.loaded = 1 .. Len(s.loaded) /\ DOMAIN loaded = 1 .. next
          /\ \A i \in DOMAIN s.loaded : loaded[i] = s.loaded[i]
          /\ loaded[next] = row /\ Len(s.loaded) \in Nat
      <3>1. PICK before : before = s.loaded
        OBVIOUS
      <3>2. IsTable(before) /\ loaded = WithRow(before, row) /\ next = Len(before) + 1
        BY <1>3, <1>4, <2>2, <3>1 DEF WithRow
      <3>3. /\ IsTable(loaded) /\ Len(before) \in Nat /\ Len(loaded) = Len(before) + 1
            /\ DOMAIN before = 1 .. Len(before) /\ DOMAIN loaded = 1 .. Len(before) + 1
            /\ \A i \in DOMAIN before : loaded[i] = before[i]
            /\ loaded[Len(before) + 1] = row
        BY <3>2, AppendRow
      <3> QED
        BY <3>1, <3>2, <3>3
    <2>4. PICK n : n = [s EXCEPT !.loaded = loaded, !.stage = stage]
      OBVIOUS
    <2>5. /\ n.stage = stage /\ n.handler = s.handler /\ n.items = s.items
          /\ n.loaded = loaded /\ n.coupon = s.coupon /\ SiteRecord(n)
      <3>1. n = [stage |-> stage, handler |-> s.handler, items |-> s.items, loaded |-> loaded,
                 coupon |-> s.coupon]
        BY <1>3, <2>4, SiteRecordChanged
      <3> QED
        BY <3>1 DEF SiteRecord
    <2>6. n = [s EXCEPT !.loaded = Append(@, promotions[id]), !.stage = stage]
      BY <2>1, <2>2, <2>4
    <2>7. \A i \in DOMAIN loaded : loaded[i] \in Site!Promotion
      <3>1. \A i \in DOMAIN loaded : i = next \/ i \in DOMAIN s.loaded
        BY <1>4, <2>3
      <3> QED
        BY <1>3, <2>1, <2>3, <3>1
    <2>8. SiteAsked(n)
      <3>1. Len(s.items) \in Nat /\ next \in Int
        BY <1>3, <1>4, <2>3, TableIs DEF SiteItems
      <3>2. stage \in {"load", "commit"} /\ (stage = "load" => next < Len(s.items))
            /\ (stage = "commit" => next = Len(s.items))
        BY <1>5, <1>7, <3>1
      <3>3. s.handler \in {"create", "update", "delete"} => DOMAIN s.items = {1}
        BY <1>2 DEF SiteAsked
      <3>4. s.handler # "create" /\ s.handler # "coupon"
        BY <1>2
      <3> QED
        BY <1>3, <1>5, <2>3, <2>5, <2>7, <3>2, <3>3, <3>4 DEF SiteAsked
    <2>9. Serial => SiteKnown(n)'
      <3>1. Serial => \A i \in DOMAIN s.loaded : s.loaded[i] = promotions[s.items[i].id]
        BY <1>1, <1>2 DEF PromosInv, SiteKnown
      <3>2. \A i \in DOMAIN loaded : i = next \/ i \in DOMAIN s.loaded
        BY <1>4, <2>3
      <3>3. Serial => \A i \in DOMAIN loaded : loaded[i] = promotions[s.items[i].id]
        BY <1>6, <2>1, <2>3, <3>1, <3>2
      <3> QED
        BY <1>8, <2>5, <3>3 DEF SiteKnown
    <2>10. ~Uses("delete") => SiteKeeps(n)'
      <3>1. ~Uses("delete") => s.handler # "delete"
        BY <1>1, <1>2 DEF PromosInv, SiteKeeps
      <3>2. s.handler # "create"
        BY <1>2
      <3> QED
        BY <2>5, <3>1, <3>2 DEF SiteKeeps
    <2> QED
      BY <1>1, <1>2, <1>8, <1>9, <1>11, <2>6, <2>8, <2>9, <2>10, SiteGoes
  <1> QED
    BY <1>8, <1>10, <1>11

\* Steps that leave the promotions alone.
LEMMA SiteQuiet ==
    ASSUME promotions' = promotions
    PROVE  Site!BulkStep /\ Site!ColumnStep
  BY DEF Site!BulkStep, Site!ColumnStep

\* A request of one item that goes on to its next stage.
LEMMA SiteStaged ==
    ASSUME PromosInv, workload' = workload, Serial => AloneIn(promo_session'),
           NEW r \in Threads, NEW stage, stage \in {"commit", "refresh"},
           promo_session[r].stage # "idle", promo_session[r].handler \in {"create", "coupon", "update"},
           stage = "commit" => promo_session[r].handler # "update" /\ promotions' = promotions
                               /\ promo_session[r].stage = "load",
           Site!Goto(r, [promo_session[r] EXCEPT !.stage = stage]),
           promotions' \in [Items -> Site!Promotion \union {NoRow}],
           \A id \in Items : promotions[id] # NoRow => promotions'[id] # NoRow,
           promo_session[r].handler = "create" /\ stage = "refresh" =>
               promotions'[promo_session[r].items[1].id] # NoRow
    PROVE  PromosInv'
  <1>1. PICK s : s = promo_session[r]
    OBVIOUS
  <1>2. PICK n : n = [s EXCEPT !.stage = stage]
    OBVIOUS
  <1>3. SiteAsked(s)
    BY <1>1 DEF PromosInv
  <1>4. SiteRecord(s)
    BY <1>3 DEF SiteAsked
  <1>5. /\ n.stage = stage /\ n.handler = s.handler /\ n.items = s.items
        /\ n.loaded = s.loaded /\ n.coupon = s.coupon /\ SiteRecord(n)
    BY <1>2, <1>4, SiteRecordMoved
  <1>6. /\ s.stage # "idle" /\ s.handler \in {"create", "coupon", "update"}
        /\ stage = "commit" => s.handler # "update" /\ promotions' = promotions /\ s.stage = "load"
        /\ s.handler = "create" /\ stage = "refresh" => promotions'[s.items[1].id] # NoRow
    BY <1>1
  <1>7. SiteAsked(n)
    <2>1. /\ SiteItems(s.items) /\ IsTable(s.loaded) /\ Len(s.loaded) <= Len(s.items)
          /\ \A i \in DOMAIN s.loaded : s.loaded[i] \in Site!Promotion
          /\ s.handler \in {"create", "update", "delete"} => DOMAIN s.items = {1}
          /\ s.handler = "create" => s.items[1].change \in Site!Promotion
          /\ s.handler = "coupon" => s.coupon \in CouponRow
      BY <1>3, <1>6 DEF SiteAsked
    <2>2. /\ n.stage \in {"commit", "refresh"} /\ n.stage # "idle" /\ n.stage # "load"
          /\ n.stage = "commit" => n.handler \notin {"update", "bulk"}
      BY <1>5, <1>6
    <2> QED
      BY <1>5, <2>1, <2>2 DEF SiteAsked
  <1>8. Serial => SiteKnown(n)'
    <2>1. CASE stage = "refresh"
      BY <1>5, <2>1 DEF SiteKnown
    <2>2. CASE stage = "commit"
      <3>1. Serial => \A i \in DOMAIN s.loaded : s.loaded[i] = promotions[s.items[i].id]
        BY <1>1, <1>6, <2>2 DEF PromosInv, SiteKnown
      <3> QED
        BY <1>5, <1>6, <2>2, <3>1 DEF SiteKnown
    <2> QED
      BY <2>1, <2>2
  <1>9. SiteKeeps(n)'
    BY <1>5, <1>6 DEF SiteKeeps
  <1> QED
    BY <1>1, <1>2, <1>6, <1>7, <1>8, <1>9, SiteGoes

\* A promotion is created where there is none.
LEMMA SiteCreates ==
    ASSUME PromosInv, workload' = workload, Serial => AloneIn(promo_session'),
           NEW r \in Threads, Site!LoadNew(r) \/ Site!CommitNew(r)
    PROVE  PromosInv' /\ (Serial => Site!BulkStep) /\ Site!ColumnStep
  <1>1. PICK s : s = promo_session[r]
    OBVIOUS
  <1>2. SiteAsked(s) /\ s.stage \in {"load", "commit"} /\ s.handler = "create"
    BY <1>1 DEF PromosInv, Site!LoadNew, Site!CommitNew, Site!At
  <1>3. PICK item : item = s.items[1]
    OBVIOUS
  <1>4. PICK id, new : id = item.id /\ new = item.change
    OBVIOUS
  <1>5. id \in Items /\ new \in Site!Promotion
    BY <1>2, <1>3, <1>4 DEF SiteAsked, SiteItems
  <1>6. promotions \in [Items -> Site!Promotion \union {NoRow}]
    BY DEF PromosInv
  <1>7. "conflict" # "database error"
    OBVIOUS
  <1>8. CASE Site!Answer(r, "conflict") /\ promotions' = promotions
    BY <1>1, <1>6, <1>7, <1>8, SiteAnswered, SiteQuiet
  <1>9. CASE /\ Site!Goto(r, [promo_session[r] EXCEPT !.stage = "commit"])
             /\ s.stage = "load" /\ promotions' = promotions
    <2>1. PromosInv'
      BY <1>1, <1>2, <1>6, <1>9, SiteStaged
    <2> QED
      BY <1>9, <2>1, SiteQuiet
  <1>10. CASE /\ Site!Goto(r, [promo_session[r] EXCEPT !.stage = "refresh"])
              /\ promotions[id] = NoRow /\ promotions' = [promotions EXCEPT ![id] = new]
    <2>1. promotions' \in [Items -> Site!Promotion \union {NoRow}] /\ promotions'[id] # NoRow
      BY <1>5, <1>6, <1>10, PromotionsAssumption
    <2>2. \A other \in Items : promotions[other] # NoRow => promotions'[other] = promotions[other]
      BY <1>5, <1>6, <1>10
    <2>3. promotions'[promo_session[r].items[1].id] # NoRow
      BY <1>1, <1>3, <1>4, <2>1
    <2>4. PromosInv'
      BY <1>1, <1>2, <1>10, <2>1, <2>2, <2>3, SiteStaged
    <2>5. Site!ColumnStep
      BY <2>2 DEF Site!ColumnStep
    <2>6. ASSUME Serial PROVE Site!BulkStep
      <3>1. \A q \in Threads : q # r => promo_session[q].stage = "idle"
        BY <1>1, <1>2, <2>6 DEF PromosInv, AloneIn
      <3>2. \A q \in Threads : q # r => DOMAIN promo_session[q].items = {}
        BY <3>1 DEF PromosInv, SiteAsked
      <3>3. promo_session[r].handler # "bulk"
        BY <1>1, <1>2
      <3> QED
        BY <3>2, <3>3 DEF Site!BulkStep
    <2> QED
      BY <2>4, <2>5, <2>6
  <1>11. CASE Site!LoadNew(r)
    BY <1>1, <1>2, <1>8, <1>9, <1>11 DEF Site!LoadNew, Site!At
  <1>12. CASE Site!CommitNew(r)
    BY <1>1, <1>3, <1>4, <1>8, <1>10, <1>12 DEF Site!CommitNew, Site!Duplicate
  <1> QED
    BY <1>11, <1>12

\* What is written is a promotion, with the columns of the item as the item has them.
LEMMA WrittenIs ==
    ASSUME NEW item, Sent(item.change), NEW loaded \in Site!Promotion,
           NEW current \in Site!Promotion, promotions[item.id] # NoRow,
           ~Site!Refused(item, loaded),
           NEW new, new = Site!Written(current, item, loaded)
    PROVE  /\ new \in Site!Promotion
           /\ \A c \in DOMAIN current : new[c] # current[c] =>
                c \in DOMAIN item.change /\ item.change[c] = new[c]
           /\ loaded = current => \A c \in DOMAIN item.change : new[c] = item.change[c]
  <1>1. PICK change, columns : change = item.change /\ columns = Site!Changed(item, loaded)
    OBVIOUS
  <1>2. columns = {c \in DOMAIN change : change[c] # loaded[c]}
    BY <1>1, PromotionsAssumption DEF Site!Changed
  <1>3. \A c \in columns : c # "images" => change[c] # Null
    BY <1>1, <1>2 DEF Site!Refused
  <1>4. DOMAIN current = {"title", "images", "is_active"} /\ DOMAIN loaded = DOMAIN current
    BY DEF Site!Promotion
  <1>5. new = [c \in DOMAIN current |-> IF c \in columns THEN change[c] ELSE current[c]]
    BY <1>1 DEF Site!Written
  <1>6. \A c \in DOMAIN current : new[c] = IF c \in columns THEN change[c] ELSE current[c]
    BY <1>5
  <1>7. DOMAIN change \subseteq DOMAIN current
    BY <1>1, <1>4 DEF Sent
  <1>8. new \in Site!Promotion
    <2>1. current["title"] \in Names /\ new["title"] \in Names
      <3>1. current["title"] \in Names
        BY DEF Site!Promotion
      <3> QED
        BY <1>1, <1>2, <1>3, <1>4, <1>6, <3>1 DEF Sent
    <2>2. new["images"] \in {"list", Null}
      <3>1. current["images"] \in {"list", Null}
        BY DEF Site!Promotion
      <3> QED
        BY <1>1, <1>2, <1>4, <1>6, <3>1 DEF Sent
    <2>3. new["is_active"] \in BOOLEAN
      <3>1. current["is_active"] \in BOOLEAN
        BY DEF Site!Promotion
      <3>2. CASE "is_active" \in columns
        BY <1>1, <1>2, <1>3, <1>4, <1>6, <3>2 DEF Sent
      <3>3. CASE "is_active" \notin columns
        BY <1>4, <1>6, <3>1, <3>3
      <3> QED
        BY <3>2, <3>3
    <2>4. PICK title, images, is_active :
            title = new["title"] /\ images = new["images"] /\ is_active = new["is_active"]
      OBVIOUS
    <2>5. new = [c \in {"title", "images", "is_active"} |-> new[c]]
      BY <1>4, <1>5
    <2>6. new = [title |-> title, images |-> images, is_active |-> is_active]
      BY <2>4, <2>5
    <2>7. [title |-> title, images |-> images, is_active |-> is_active] \in Site!Promotion
      BY <2>1, <2>2, <2>3, <2>4 DEF Site!Promotion
    <2> QED
      BY <2>6, <2>7
  <1>9. \A c \in DOMAIN current : new[c] # current[c] => c \in DOMAIN change /\ change[c] = new[c]
    BY <1>2, <1>6
  <1>10. loaded = current => \A c \in DOMAIN change : new[c] = change[c]
    BY <1>2, <1>6, <1>7
  <1> QED
    BY <1>1, <1>8, <1>9, <1>10

\* The changes of a request are written together.
LEMMA SiteChanges ==
    ASSUME PromosInv, workload' = workload, Serial => AloneIn(promo_session'),
           NEW r \in Threads, Site!CommitChanges(r)
    PROVE  PromosInv' /\ (Serial => Site!BulkStep) /\ Site!ColumnStep
  <1>1. PICK s : s = promo_session[r]
    OBVIOUS
  <1>2. SiteAsked(s) /\ s.stage = "commit" /\ s.handler \in {"update", "bulk"}
    BY <1>1 DEF PromosInv, Site!CommitChanges, Site!At
  <1>3. PICK items, loaded : items = s.items /\ loaded = s.loaded
    OBVIOUS
  <1>4. /\ IsTable(items) /\ DOMAIN items \subseteq {1, 2} /\ DOMAIN loaded = DOMAIN items
        /\ \A i \in DOMAIN items : items[i].id \in Items /\ Sent(items[i].change)
        /\ \A i \in DOMAIN items : loaded[i] \in Site!Promotion
        /\ \A i, j \in DOMAIN items : items[i].id = items[j].id => i = j
    <2>1. SiteItems(s.items) /\ IsTable(s.loaded) /\ Len(s.loaded) = Len(s.items)
      BY <1>2 DEF SiteAsked
    <2>2. IsTable(items) /\ IsTable(loaded) /\ Len(loaded) = Len(items)
      BY <1>3, <2>1 DEF SiteItems
    <2>3. DOMAIN loaded = 1 .. Len(loaded) /\ DOMAIN items = 1 .. Len(items)
      BY <2>2, TableIs
    <2>4. \A i \in DOMAIN loaded : loaded[i] \in Site!Promotion
      BY <1>2, <1>3 DEF SiteAsked
    <2> QED
      BY <1>3, <2>1, <2>2, <2>3, <2>4 DEF SiteItems
  <1>5. promotions \in [Items -> Site!Promotion \union {NoRow}]
    BY DEF PromosInv
  <1>6. CASE Site!Answer(r, "database error") /\ promotions' = promotions
    <2>1. promo_session[r].stage # "idle" /\ promo_session[r].handler # "create"
      BY <1>1, <1>2
    <2>2. PromosInv'
      BY <1>5, <1>6, <2>1, SiteAnswered
    <2> QED
      BY <1>6, <2>2, SiteQuiet
  <1>7. CASE /\ \A i \in DOMAIN items : loaded[i] # NoRow => ~Site!Refused(items[i], loaded[i])
             /\ promotions' = [id \in Items |->
                  IF \E i \in DOMAIN items : items[i].id = id /\ promotions[id] # NoRow
                  THEN LET i == CHOOSE n \in DOMAIN items : items[n].id = id
                       IN Site!Written(promotions[id], items[i], loaded[i])
                  ELSE promotions[id]]
             /\ \/ s.handler = "bulk" /\ Site!Answer(r, "ok")
                \/ s.handler # "bulk" /\ Site!Goto(r, [promo_session[r] EXCEPT !.stage = "refresh"])
    <2>1. \A i \in DOMAIN items : promotions[items[i].id] # NoRow =>
            promotions'[items[i].id] = Site!Written(promotions[items[i].id], items[i], loaded[i])
      BY <1>4, <1>7
    <2>2. \A id \in Items : (\A i \in DOMAIN items : items[i].id # id) => promotions'[id] = promotions[id]
      BY <1>7
    <2>3. \A id \in Items : promotions[id] = NoRow => promotions'[id] = promotions[id]
      BY <1>7
    <2>4. \A i \in DOMAIN items : promotions[items[i].id] # NoRow =>
            /\ promotions'[items[i].id] \in Site!Promotion
            /\ \A c \in DOMAIN promotions[items[i].id] :
                 promotions'[items[i].id][c] # promotions[items[i].id][c] =>
                   c \in DOMAIN items[i].change /\ items[i].change[c] = promotions'[items[i].id][c]
            /\ loaded[i] = promotions[items[i].id] =>
                 \A c \in DOMAIN items[i].change : promotions'[items[i].id][c] = items[i].change[c]
      <3> SUFFICES ASSUME NEW i \in DOMAIN items, promotions[items[i].id] # NoRow
                   PROVE  /\ promotions'[items[i].id] \in Site!Promotion
                          /\ \A c \in DOMAIN promotions[items[i].id] :
                               promotions'[items[i].id][c] # promotions[items[i].id][c] =>
                                 /\ c \in DOMAIN items[i].change
                                 /\ items[i].change[c] = promotions'[items[i].id][c]
                          /\ loaded[i] = promotions[items[i].id] =>
                               \A c \in DOMAIN items[i].change :
                                 promotions'[items[i].id][c] = items[i].change[c]
        OBVIOUS
      <3>1. PICK item, row, current, new :
              /\ item = items[i] /\ row = loaded[i] /\ current = promotions[items[i].id]
              /\ new = promotions'[items[i].id]
        OBVIOUS
      <3>2. item.id \in Items /\ Sent(item.change) /\ row \in Site!Promotion
        BY <1>4, <3>1
      <3>3. current \in Site!Promotion /\ promotions[item.id] # NoRow
        BY <1>5, <3>1, <3>2
      <3>4. ~Site!Refused(item, row)
        BY <1>7, <3>1, <3>2, PromotionsAssumption
      <3>5. new = Site!Written(current, item, row)
        BY <2>1, <3>1
      <3>6. /\ new \in Site!Promotion
            /\ \A c \in DOMAIN current : new[c] # current[c] =>
                 c \in DOMAIN item.change /\ item.change[c] = new[c]
            /\ row = current => \A c \in DOMAIN item.change : new[c] = item.change[c]
        BY <3>2, <3>3, <3>4, <3>5, WrittenIs
      <3> QED
        BY <3>1, <3>6
    <2>5. \A id \in Items : promotions[id] # NoRow => promotions'[id] \in Site!Promotion
      <3> SUFFICES ASSUME NEW id \in Items, promotions[id] # NoRow
                   PROVE  promotions'[id] \in Site!Promotion
        OBVIOUS
      <3>1. CASE \E i \in DOMAIN items : items[i].id = id
        BY <2>4, <3>1
      <3>2. CASE \A i \in DOMAIN items : items[i].id # id
        BY <1>5, <2>2, <3>2
      <3> QED
        BY <3>1, <3>2
    <2>6. promotions' \in [Items -> Site!Promotion \union {NoRow}]
      <3>1. DOMAIN promotions' = Items /\ promotions' = [id \in Items |-> promotions'[id]]
        BY <1>7
      <3>2. \A id \in Items : promotions'[id] \in Site!Promotion \union {NoRow}
        BY <2>3, <2>5
      <3> QED
        BY <3>1, <3>2
    <2>7. \A id \in Items : promotions[id] # NoRow => promotions'[id] # NoRow
      BY <2>5, PromotionsAssumption
    <2>8. promo_session[r].stage # "idle" /\ promo_session[r].handler \in {"update", "bulk"}
      BY <1>1, <1>2
    <2>9. PromosInv'
      <3>1. CASE s.handler = "bulk" /\ Site!Answer(r, "ok")
        <4>1. promo_session[r].handler # "create"
          BY <2>8
        <4> QED
          BY <2>6, <2>7, <2>8, <3>1, <4>1, SiteAnswered
      <3>2. CASE s.handler # "bulk" /\ Site!Goto(r, [promo_session[r] EXCEPT !.stage = "refresh"])
        <4>1. /\ promo_session[r].handler \in {"create", "coupon", "update"}
              /\ promo_session[r].handler # "create"
          BY <1>1, <2>8, <3>2
        <4> QED
          BY <2>6, <2>7, <2>8, <3>2, <4>1, SiteStaged
      <3> QED
        BY <1>7, <3>1, <3>2
    <2>10. Site!ColumnStep
      <3> SUFFICES ASSUME NEW id \in Items, promotions[id] # NoRow, promotions'[id] # NoRow,
                          NEW c \in DOMAIN promotions[id], promotions'[id][c] # promotions[id][c]
                   PROVE  \E q \in Threads, i \in 1..2 :
                            /\ i \in DOMAIN promo_session[q].items
                            /\ promo_session[q].items[i].id = id
                            /\ c \in DOMAIN promo_session[q].items[i].change
                            /\ promo_session[q].items[i].change[c] = promotions'[id][c]
        BY DEF Site!ColumnStep
      <3>1. PICK i \in DOMAIN items : items[i].id = id
        BY <2>2
      <3>2. c \in DOMAIN items[i].change /\ items[i].change[c] = promotions'[id][c]
        BY <2>4, <3>1
      <3>3. i \in 1 .. 2
        BY <1>4, <3>1
      <3> QED
        BY <1>1, <1>3, <3>1, <3>2, <3>3
    <2>11. ASSUME Serial PROVE Site!BulkStep
      <3>1. \A q \in Threads : q # r => promo_session[q].stage = "idle"
        BY <2>8, <2>11 DEF PromosInv, AloneIn
      <3>2. \A q \in Threads : q # r => DOMAIN promo_session[q].items = {}
        BY <3>1 DEF PromosInv, SiteAsked
      <3>3. SiteKnown(s)
        BY <1>1, <2>11 DEF PromosInv
      <3>4. \A i \in DOMAIN items : loaded[i] = promotions[items[i].id]
        BY <1>2, <1>3, <1>4, <3>3 DEF SiteKnown
      <3>5. \A i \in DOMAIN items :
              /\ promotions'[items[i].id] # NoRow
              /\ \A c \in DOMAIN items[i].change : promotions'[items[i].id][c] = items[i].change[c]
        <4>1. \A i \in DOMAIN items : promotions[items[i].id] # NoRow
          <5>1. NoRow \notin Site!Promotion
            BY PromotionsAssumption
          <5>2. \A i \in DOMAIN items : loaded[i] # NoRow
            BY <1>4, <5>1
          <5> QED
            BY <3>4, <5>2
        <4>2. \A i \in DOMAIN items : promotions'[items[i].id] # NoRow
          BY <1>4, <2>7, <4>1
        <4>3. ASSUME NEW i \in DOMAIN items, NEW c \in DOMAIN items[i].change
              PROVE  promotions'[items[i].id][c] = items[i].change[c]
          BY <2>4, <3>4, <4>1
        <4> QED
          BY <4>2, <4>3
      <3>6. \A i \in DOMAIN promo_session[r].items :
              /\ promotions'[promo_session[r].items[i].id] # NoRow
              /\ \A c \in DOMAIN promo_session[r].items[i].change :
                   promotions'[promo_session[r].items[i].id][c] = promo_session[r].items[i].change[c]
        BY <1>1, <1>3, <3>5
      <3> QED
        BY <3>2, <3>6 DEF Site!BulkStep
    <2> QED
      BY <2>9, <2>10, <2>11
  <1> QED
    <2>1. promo_session[r].items = items /\ promo_session[r].loaded = loaded
          /\ promo_session[r].handler = s.handler
      BY <1>1, <1>3
    <2>2. \/ Site!Answer(r, "database error") /\ promotions' = promotions
          \/ /\ ~\E i \in DOMAIN items : loaded[i] # NoRow /\ Site!Refused(items[i], loaded[i])
             /\ promotions' = [id \in Items |->
                  IF \E i \in DOMAIN items : items[i].id = id /\ promotions[id] # NoRow
                  THEN LET i == CHOOSE n \in DOMAIN items : items[n].id = id
                       IN Site!Written(promotions[id], items[i], loaded[i])
                  ELSE promotions[id]]
             /\ IF s.handler = "bulk" THEN Site!Answer(r, "ok")
                ELSE Site!Goto(r, [promo_session[r] EXCEPT !.stage = "refresh"])
      BY <2>1, Zenon DEF Site!CommitChanges
    <2> QED
      BY <1>6, <1>7, <2>2

\* The other steps of requests about promotions and coupons.
LEMMA SiteRests ==
    ASSUME PromosInv, workload' = workload, Serial => AloneIn(promo_session'),
           NEW r \in Threads,
           \/ Site!CommitDelete(r) \/ Site!Refresh(r) \/ Site!LoadCode(r) \/ Site!InsertCoupon(r)
           \/ Site!DeleteCoupon(r) \/ Site!ValidateCoupon(r) \/ Site!Abandon(r)
    PROVE  PromosInv' /\ (Serial => Site!BulkStep) /\ Site!ColumnStep
  <1>1. PICK s : s = promo_session[r]
    OBVIOUS
  <1>2. promotions \in [Items -> Site!Promotion \union {NoRow}] /\ SiteAsked(s)
    BY <1>1 DEF PromosInv
  <1>3. ASSUME NEW answer, Site!Answer(r, answer), promotions' = promotions,
               ~Uses("delete") /\ s.handler = "create" => answer # "database error"
        PROVE  PromosInv' /\ (Serial => Site!BulkStep) /\ Site!ColumnStep
    <2>1. PromosInv'
      BY <1>1, <1>2, <1>3, SiteAnswered
    <2> QED
      BY <1>3, <2>1, SiteQuiet
  <1>4. CASE Site!CommitDelete(r)
    <2>1. s.handler = "delete" /\ s.stage = "commit" /\ s.handler # "create"
      BY <1>1, <1>4 DEF Site!CommitDelete, Site!At
    <2>2. Uses("delete")
      BY <1>1, <2>1 DEF PromosInv, SiteKeeps
    <2>3. PICK id : id = s.items[1].id
      OBVIOUS
    <2>4. promotions' = [promotions EXCEPT ![id] = NoRow] /\ Site!Answer(r, "ok")
      BY <1>1, <1>4, <2>3 DEF Site!CommitDelete
    <2>5. promotions' \in [Items -> Site!Promotion \union {NoRow}]
      BY <1>2, <2>4
    <2>6. PromosInv'
      BY <1>1, <2>1, <2>2, <2>4, <2>5, SiteAnswered
    <2>7. \A other \in Items : promotions'[other] \in {promotions[other], NoRow}
      BY <1>2, <2>4
    <2>8. Site!ColumnStep
      BY <2>7 DEF Site!ColumnStep
    <2>9. ASSUME Serial PROVE Site!BulkStep
      <3>1. \A q \in Threads : q # r => promo_session[q].stage = "idle"
        BY <1>1, <2>1, <2>9 DEF PromosInv, AloneIn
      <3>2. \A q \in Threads : q # r => DOMAIN promo_session[q].items = {}
        BY <3>1 DEF PromosInv, SiteAsked
      <3>3. promo_session[r].handler # "bulk"
        BY <1>1, <2>1
      <3> QED
        BY <3>2, <3>3 DEF Site!BulkStep
    <2> QED
      BY <2>6, <2>8, <2>9
  <1>5. CASE Site!Refresh(r)
    <2>1. PICK id, answer :
            /\ id = s.items[1].id
            /\ answer = IF promotions[id] = NoRow THEN "database error"
                        ELSE IF Site!Readable(id) THEN "ok" ELSE "server error"
            /\ Site!Answer(r, answer) /\ promotions' = promotions
      BY <1>1, <1>5 DEF Site!Refresh
    <2>2. s.stage = "refresh"
      BY <1>1, <1>5 DEF Site!Refresh, Site!At
    <2>3. ~Uses("delete") /\ s.handler = "create" => promotions[id] # NoRow
      BY <1>1, <2>1, <2>2 DEF PromosInv, SiteKeeps
    <2>4. "ok" # "database error" /\ "server error" # "database error"
      OBVIOUS
    <2>5. promotions[id] # NoRow => answer # "database error"
      BY <2>1, <2>4
    <2> QED
      BY <1>3, <2>1, <2>3, <2>5
  <1>6. CASE Site!LoadCode(r)
    <2>1. s.handler = "coupon" /\ s.stage = "load" /\ s.handler # "create" /\ promotions' = promotions
      BY <1>1, <1>6 DEF Site!LoadCode, Site!At
    <2>2. CASE Site!Answer(r, "conflict")
      BY <1>3, <2>1, <2>2
    <2>3. CASE Site!Goto(r, [promo_session[r] EXCEPT !.stage = "commit"])
      <3>1. promo_session[r].handler \in {"create", "coupon", "update"}
            /\ promo_session[r].handler # "create" /\ promo_session[r].handler # "update"
            /\ promo_session[r].stage # "idle" /\ promo_session[r].stage = "load"
        BY <1>1, <2>1
      <3>2. PromosInv'
        BY <1>2, <2>1, <2>3, <3>1, SiteStaged
      <3> QED
        BY <2>1, <3>2, SiteQuiet
    <2> QED
      BY <1>6, <2>2, <2>3 DEF Site!LoadCode
  <1>7. CASE Site!InsertCoupon(r) \/ Site!DeleteCoupon(r) \/ Site!ValidateCoupon(r)
    <2>1. s.handler # "create"
      <3>1. CASE Site!InsertCoupon(r)
        BY <1>1, <3>1 DEF Site!InsertCoupon, Site!At
      <3>2. CASE Site!DeleteCoupon(r)
        <4>1. s.handler = "delete coupon"
          BY <1>1, <3>2 DEF Site!DeleteCoupon, Site!At
        <4> QED
          BY <4>1
      <3>3. CASE Site!ValidateCoupon(r)
        BY <1>1, <3>3 DEF Site!ValidateCoupon, Site!At
      <3> QED
        BY <1>7, <3>1, <3>2, <3>3
    <2>2. promotions' = promotions /\ \E answer : Site!Answer(r, answer)
      BY <1>7 DEF Site!InsertCoupon, Site!DeleteCoupon, Site!ValidateCoupon
    <2> QED
      BY <1>3, <2>1, <2>2
  <1>8. CASE Site!Abandon(r)
    <2>1. promotions' = promotions /\ Site!Answer(r, Null) /\ Null # "database error"
      BY <1>8, PromotionsAssumption DEF Site!Abandon
    <2> QED
      BY <1>3, <2>1
  <1> QED
    BY <1>4, <1>5, <1>6, <1>7, <1>8

\* Whatever the request does next.
LEMMA PromosContinue ==
    ASSUME PromosInv, workload' = workload, Serial => AloneIn(promo_session'),
           NEW r \in Threads, Site!Continue(r)
    PROVE  PromosInv' /\ (Serial => Site!BulkStep) /\ Site!ColumnStep
  <1>1. CASE Site!LoadPromotion(r)
    <2>1. promotions' = promotions
      BY <1>1 DEF Site!LoadPromotion
    <2> QED
      BY <1>1, <2>1, SiteLoads, SiteQuiet
  <1>2. CASE Site!LoadNew(r) \/ Site!CommitNew(r)
    BY <1>2, SiteCreates
  <1>3. CASE Site!CommitChanges(r)
    BY <1>3, SiteChanges
  <1>4. CASE \/ Site!CommitDelete(r) \/ Site!Refresh(r) \/ Site!LoadCode(r) \/ Site!InsertCoupon(r)
             \/ Site!DeleteCoupon(r) \/ Site!ValidateCoupon(r) \/ Site!Abandon(r)
    BY <1>4, SiteRests
  <1> QED
    BY <1>1, <1>2, <1>3, <1>4 DEF Site!Continue

\* Steps that leave the coupons alone.
LEMMA CouponsStay ==
    ASSUME CouponsInv, UNCHANGED <<coupons, today, closed>>
    PROVE  CouponsInv'
  BY DEF CouponsInv, Over

\* A code is refused for good when its coupon is over, and only then.
LEMMA VerdictIs ==
    ASSUME CouponsInv, NEW code, NEW verdict, verdict = Site!Verdict(code)
    PROVE  /\ verdict \in {"inactive", "expired"} =>
                code \in Digits /\ \E i \in DOMAIN coupons : coupons[i].code = code /\ Over(coupons[i])
           /\ code \in closed => verdict # "valid"
  <1>1. CASE Site!WithCode(code) = {}
    <2>1. verdict = "not found"
      BY <1>1 DEF Site!Verdict
    <2>2. verdict \notin {"inactive", "expired", "valid"}
      BY <2>1
    <2> QED
      BY <2>2
  <1>2. CASE Site!WithCode(code) # {}
    <2>1. PICK i \in Site!WithCode(code) : i = CHOOSE n \in Site!WithCode(code) : TRUE
      BY <1>2
    <2>2. i \in DOMAIN coupons /\ coupons[i].code = code
      BY <2>1 DEF Site!WithCode
    <2>3. PICK coupon : coupon = coupons[i]
      OBVIOUS
    <2>4. coupon \in CouponRow /\ today \in Int
      BY <2>2, <2>3 DEF CouponsInv
    <2>5. coupon.is_active \in BOOLEAN /\ coupon.end_date \in Int /\ coupon.code \in Digits
      BY <2>4 DEF CouponRow
    <2>6. verdict = CASE ~coupon.is_active -> "inactive"
                      [] coupon.is_active /\ coupon.end_date < today -> "expired"
                      [] coupon.is_active /\ coupon.end_date >= today /\ coupon.start_date > today
                           -> "not yet"
                      [] OTHER -> "valid"
      BY <1>2, <2>1, <2>3 DEF Site!Verdict
    <2>7. CASE Over(coupon)
      <3>1. CASE ~coupon.is_active
        BY <2>2, <2>3, <2>4, <2>5, <2>6, <2>7, <3>1
      <3>2. CASE coupon.is_active /\ coupon.end_date < today
        BY <2>2, <2>3, <2>4, <2>5, <2>6, <2>7, <3>2
      <3> QED
        BY <2>7, <3>1, <3>2 DEF Over
    <2>8. CASE ~Over(coupon)
      <3>1. coupon.is_active /\ ~(coupon.end_date < today)
        BY <2>8 DEF Over
      <3>2. verdict \in {"not yet", "valid"}
        BY <2>6, <3>1
      <3>3. verdict \notin {"inactive", "expired"}
        BY <3>2
      <3>4. code \notin closed
        BY <2>2, <2>3, <2>8 DEF CouponsInv
      <3> QED
        BY <3>3, <3>4
    <2> QED
      BY <2>7, <2>8
  <1> QED
    BY <1>1, <1>2

\* An answer that is not "valid", or the verdict about the code, opens nothing that was closed.
LEMMA AnswersKeepClosed ==
    ASSUME SiteInv, NEW r \in Threads, NEW answer, Site!Answer(r, answer),
           answer = "valid" => answer = Site!Verdict(promo_session[r].coupon.code)
    PROVE  Site!ClosedStep
  <1>1. PICK a : /\ promo_answers' = [promo_answers EXCEPT ![r] = a]
                 /\ a.answer = answer
                 /\ a.code \in closed => a.code = promo_session[r].coupon.code
    <2>1. PICK code :
            /\ promo_answers' = [promo_answers EXCEPT ![r] =
                 [handler |-> promo_session[r].handler, answer |-> answer, code |-> code]]
            /\ code = IF promo_session[r].coupon = Null THEN Null ELSE promo_session[r].coupon.code
      BY DEF Site!Answer
    <2>2. PICK a : a = [handler |-> promo_session[r].handler, answer |-> answer, code |-> code]
      OBVIOUS
    <2>3. a.answer = answer /\ a.code = code
      BY <2>2
    <2>4. Null \notin closed
      BY PromotionsAssumption DEF SiteInv, CouponsInv
    <2> QED
      BY <2>1, <2>2, <2>3, <2>4
  <1>2. a.code \in closed => answer # "valid"
    <2>1. SUFFICES ASSUME a.code \in closed, answer = "valid" PROVE FALSE
      OBVIOUS
    <2>2. PICK code : code = promo_session[r].coupon.code
      OBVIOUS
    <2>3. code \in closed /\ answer = Site!Verdict(code)
      BY <1>1, <2>1, <2>2
    <2> QED
      BY <2>1, <2>3, VerdictIs DEF SiteInv
  <1>3. DOMAIN promo_answers = Threads
    BY DEF SiteInv, PromosInv
  <1> QED
    BY <1>1, <1>2, <1>3 DEF Site!ClosedStep

\* Coupons are inserted under a new code, deactivated, and never taken back.
LEMMA CouponsContinue ==
    ASSUME SiteInv, NEW r \in Threads, Site!Continue(r)
    PROVE  CouponsInv' /\ Site!ClosedStep
  <1>1. PICK s : s = promo_session[r]
    OBVIOUS
  <1>2. SiteAsked(s) /\ CouponsInv
    BY <1>1 DEF SiteInv, PromosInv
  <1>3. ASSUME NEW answer, Site!Answer(r, answer), answer # "valid"
        PROVE  Site!ClosedStep
    BY <1>3, AnswersKeepClosed
  <1>4. ASSUME UNCHANGED promo_answers PROVE Site!ClosedStep
    BY <1>4 DEF Site!ClosedStep
  <1>5. CASE \/ Site!LoadPromotion(r) \/ Site!LoadNew(r) \/ Site!CommitNew(r)
             \/ Site!CommitChanges(r) \/ Site!CommitDelete(r)
             \/ Site!Refresh(r) \/ Site!LoadCode(r) \/ Site!Abandon(r)
    <2>1. UNCHANGED <<coupons, today, closed>>
      BY <1>5 DEF Site!LoadPromotion, Site!LoadNew, Site!CommitNew, Site!CommitChanges,
                  Site!CommitDelete, Site!Refresh, Site!LoadCode, Site!Abandon
    <2>2. \/ \E answer \in {"not found", "conflict", "database error", "ok", "server error", Null} :
               Site!Answer(r, answer)
          \/ UNCHANGED promo_answers
      <3>1. CASE Site!LoadPromotion(r) \/ Site!LoadNew(r) \/ Site!CommitNew(r) \/ Site!LoadCode(r)
        BY <3>1 DEF Site!LoadPromotion, Site!LoadNew, Site!CommitNew, Site!LoadCode,
                    Site!Goto, Site!Duplicate
      <3>2. CASE Site!CommitChanges(r)
        BY <3>2, Zenon DEF Site!CommitChanges, Site!Goto
      <3>3. CASE Site!CommitDelete(r) \/ Site!Abandon(r)
        BY <3>3 DEF Site!CommitDelete, Site!Abandon
      <3>4. CASE Site!Refresh(r)
        BY <3>4 DEF Site!Refresh
      <3> QED
        BY <1>5, <3>1, <3>2, <3>3, <3>4
    <2>3. \A answer \in {"not found", "conflict", "database error", "ok", "server error", Null} :
            answer # "valid"
      BY PromotionsAssumption
    <2>4. Site!ClosedStep
      BY <1>3, <1>4, <2>2, <2>3
    <2> QED
      BY <1>2, <2>1, <2>4, CouponsStay
  <1>6. CASE Site!InsertCoupon(r)
    <2>1. s.stage = "commit" /\ s.handler = "coupon"
      BY <1>1, <1>6 DEF Site!InsertCoupon, Site!At
    <2>2. PICK coupon \in CouponRow : coupon = s.coupon
      BY <1>2, <2>1 DEF SiteAsked
    <2>3. UNCHANGED <<today, closed>>
      BY <1>6 DEF Site!InsertCoupon
    <2>4. CASE Site!Answer(r, "database error") /\ UNCHANGED coupons
      <3>1. "database error" # "valid"
        OBVIOUS
      <3> QED
        BY <1>2, <1>3, <2>3, <2>4, <3>1, CouponsStay
    <2>5. CASE /\ Site!WithCode(coupon.code) = {} /\ coupon.end_date > coupon.start_date
               /\ coupons' = Append(coupons, coupon) /\ Site!Answer(r, "ok")
      <3>1. PICK more : more = coupons' /\ more = WithRow(coupons, coupon)
        BY <2>5 DEF WithRow
      <3>2. IsTable(coupons)
        BY <1>2 DEF CouponsInv
      <3>3. /\ IsTable(more) /\ Len(coupons) \in Nat
            /\ DOMAIN coupons = 1 .. Len(coupons) /\ DOMAIN more = 1 .. Len(coupons) + 1
            /\ \A i \in DOMAIN coupons : more[i] = coupons[i]
            /\ more[Len(coupons) + 1] = coupon
        BY <3>1, <3>2, AppendRow
      <3>4. PICK new : new = Len(coupons) + 1 /\ new \notin DOMAIN coupons
        BY <3>3
      <3>5. DOMAIN more = DOMAIN coupons \union {new} /\ more[new] = coupon
        BY <3>3, <3>4
      <3>6. coupon.start_date < coupon.end_date
        BY <2>2, <2>5 DEF CouponRow
      <3>7. \A i \in DOMAIN more : more[i] \in CouponRow /\ more[i].start_date < more[i].end_date
        BY <1>2, <2>2, <3>3, <3>5, <3>6 DEF CouponsInv
      <3>8. \A i \in DOMAIN coupons : coupons[i].code # coupon.code
        BY <2>5 DEF Site!WithCode
      <3>9. \A i, j \in DOMAIN more : more[i].code = more[j].code => i = j
        BY <1>2, <3>3, <3>5, <3>8 DEF CouponsInv
      <3>10. \A code \in closed : code \in Digits
                /\ \E i \in DOMAIN more : more[i].code = code /\ Over(more[i])
        BY <1>2, <3>3, <3>5 DEF CouponsInv, Over
      <3>11. CouponsInv'
        BY <1>2, <2>3, <3>1, <3>3, <3>7, <3>9, <3>10 DEF CouponsInv, Over
      <3>12. "ok" # "valid"
        OBVIOUS
      <3> QED
        BY <1>3, <2>5, <3>11, <3>12
    <2> QED
      BY <1>1, <1>6, <2>2, <2>4, <2>5 DEF Site!InsertCoupon
  <1>7. CASE Site!DeleteCoupon(r)
    <2>1. PICK k \in DOMAIN coupons : coupons' = [coupons EXCEPT ![k] = Site!Deactivated(@)]
      BY <1>7 DEF Site!DeleteCoupon
    <2>2. PICK old, new : old = coupons[k] /\ new = [old EXCEPT !.is_active = FALSE]
      OBVIOUS
    <2>3. PICK more : more = coupons' /\ more = [coupons EXCEPT ![k] = new]
      BY <2>1, <2>2 DEF Site!Deactivated
    <2>4. IsTable(coupons) /\ old \in CouponRow /\ old.start_date < old.end_date
      BY <1>2, <2>2 DEF CouponsInv
    <2>5. /\ new \in CouponRow /\ new.code = old.code /\ ~new.is_active
          /\ new.start_date = old.start_date /\ new.end_date = old.end_date
      BY <2>2, <2>4 DEF CouponRow
    <2>6. /\ IsTable(more) /\ DOMAIN more = DOMAIN coupons
          /\ \A i \in DOMAIN coupons : more[i] = IF i = k THEN new ELSE coupons[i]
      BY <2>3, <2>4, ReplaceRow
    <2>7. UNCHANGED <<today, closed>> /\ Site!Answer(r, "ok")
      BY <1>7 DEF Site!DeleteCoupon
    <2>8. \A i \in DOMAIN more :
            /\ more[i] \in CouponRow /\ more[i].start_date < more[i].end_date
            /\ more[i].code = coupons[i].code /\ (Over(coupons[i]) => Over(more[i]))
      BY <1>2, <2>2, <2>4, <2>5, <2>6 DEF CouponsInv, Over
    <2>9. \A i, j \in DOMAIN more : more[i].code = more[j].code => i = j
      BY <1>2, <2>6, <2>8 DEF CouponsInv
    <2>10. \A code \in closed : code \in Digits
              /\ \E i \in DOMAIN more : more[i].code = code /\ Over(more[i])
      BY <1>2, <2>6, <2>8 DEF CouponsInv
    <2>11. CouponsInv'
      BY <1>2, <2>3, <2>6, <2>7, <2>8, <2>9, <2>10 DEF CouponsInv, Over
    <2>12. "ok" # "valid"
      OBVIOUS
    <2> QED
      BY <1>3, <2>7, <2>11, <2>12
  <1>8. CASE Site!ValidateCoupon(r)
    <2>1. PICK code, verdict :
            /\ code = promo_session[r].coupon.code /\ verdict = Site!Verdict(code)
            /\ closed' = IF verdict \in {"inactive", "expired"} THEN closed \union {code} ELSE closed
            /\ Site!Answer(r, verdict) /\ UNCHANGED <<coupons, today>>
      BY <1>8 DEF Site!ValidateCoupon
    <2>2. verdict \in {"inactive", "expired"} =>
            code \in Digits /\ \E i \in DOMAIN coupons : coupons[i].code = code /\ Over(coupons[i])
      BY <1>2, <2>1, VerdictIs
    <2>3. \A c \in closed' : c \in Digits /\ \E i \in DOMAIN coupons : coupons[i].code = c /\ Over(coupons[i])
      BY <1>2, <2>1, <2>2 DEF CouponsInv
    <2>4. CouponsInv'
      BY <1>2, <2>1, <2>3 DEF CouponsInv, Over
    <2>5. Site!ClosedStep
      BY <2>1, AnswersKeepClosed
    <2> QED
      BY <2>4, <2>5
  <1> QED
    BY <1>5, <1>6, <1>7, <1>8 DEF Site!Continue

\* Whatever the behaviour is about.
LEMMA SiteKept ==
    ASSUME SiteInv, [MCNext]_<<eventVars, NotEvents>>
    PROVE  /\ SiteInv'
           /\ [Serial => Site!BulkStep]_siteVars /\ [Site!ColumnStep]_siteVars
           /\ [Site!ClosedStep]_siteVars
  <1>1. workload' = workload
    BY WorkloadStays
  <1>2. CASE UNCHANGED siteVars
    <2>1. UNCHANGED <<promotions, coupons, today, promo_session, promo_answers, closed>>
      BY <1>2 DEF siteVars
    <2>2. \A t \in Threads : SiteAsked(promo_session[t])' <=> SiteAsked(promo_session[t])
      BY <2>1
    <2>3. \A t \in Threads : /\ SiteKnown(promo_session[t])' <=> SiteKnown(promo_session[t])
                             /\ SiteKeeps(promo_session[t])' <=> SiteKeeps(promo_session[t])
      BY <2>1 DEF SiteKnown, SiteKeeps
    <2>4. Site!CreatesOnlyConflict' <=> Site!CreatesOnlyConflict
      BY <2>1 DEF Site!CreatesOnlyConflict
    <2>5. (Serial' <=> Serial) /\ (Uses("delete")' <=> Uses("delete"))
      BY <1>1 DEF Serial, Uses
    <2>6. AloneIn(promo_session)' <=> AloneIn(promo_session)
      BY <2>1 DEF AloneIn
    <2>7. PromosInv'
      BY <2>1, <2>2, <2>3, <2>4, <2>5, <2>6 DEF SiteInv, PromosInv
    <2>8. CouponsInv'
      BY <2>1, CouponsStay DEF SiteInv
    <2> QED
      BY <1>2, <2>7, <2>8 DEF SiteInv
  <1>3. ASSUME Serial => AloneIn(promo_session'), NEW r \in Threads, SiteBegins(r)
        PROVE  SiteInv' /\ Site!BulkStep /\ Site!ColumnStep /\ Site!ClosedStep
    <2>1. PromosInv' /\ UNCHANGED <<promotions, coupons, today, closed>>
      BY <1>1, <1>3, SiteBegun
    <2>2. CouponsInv'
      BY <2>1, CouponsStay DEF SiteInv
    <2>3. promo_answers' = [promo_answers EXCEPT ![r] = Site!NoAnswer]
      BY <1>3 DEF SiteBegins, Site!SomeCreate, Site!SomeUpdate, Site!SomeBulk, Site!SomeDelete,
                  Site!SomeCoupon, Site!Begin
    <2>4. Site!NoAnswer.answer # "valid"
      BY PromotionsAssumption DEF Site!NoAnswer
    <2>5. DOMAIN promo_answers = Threads
      BY DEF SiteInv, PromosInv
    <2>6. Site!ClosedStep
      BY <2>3, <2>4, <2>5 DEF Site!ClosedStep
    <2> QED
      BY <2>1, <2>2, <2>6, SiteQuiet DEF SiteInv
  <1>4. ASSUME Serial => AloneIn(promo_session'), NEW r \in Threads, Site!Continue(r)
        PROVE  SiteInv' /\ (Serial => Site!BulkStep) /\ Site!ColumnStep /\ Site!ClosedStep
    <2>1. PromosInv' /\ (Serial => Site!BulkStep) /\ Site!ColumnStep
      BY <1>1, <1>4, PromosContinue DEF SiteInv
    <2>2. CouponsInv' /\ Site!ClosedStep
      BY <1>4, CouponsContinue
    <2> QED
      BY <2>1, <2>2 DEF SiteInv
  <1>5. CASE Site!NextDay
    <2>1. UNCHANGED <<promotions, coupons, promo_session, promo_answers, closed>> /\ today' = today + 1
      BY <1>5 DEF Site!NextDay
    <2>2. \A t \in Threads : SiteAsked(promo_session[t])' <=> SiteAsked(promo_session[t])
      BY <2>1
    <2>3. \A t \in Threads : /\ SiteKnown(promo_session[t])' <=> SiteKnown(promo_session[t])
                             /\ SiteKeeps(promo_session[t])' <=> SiteKeeps(promo_session[t])
      BY <2>1 DEF SiteKnown, SiteKeeps
    <2>4. Site!CreatesOnlyConflict' <=> Site!CreatesOnlyConflict
      BY <2>1 DEF Site!CreatesOnlyConflict
    <2>5. (Serial' <=> Serial) /\ (Uses("delete")' <=> Uses("delete"))
      BY <1>1 DEF Serial, Uses
    <2>6. AloneIn(promo_session)' <=> AloneIn(promo_session)
      BY <2>1 DEF AloneIn
    <2>7. PromosInv'
      BY <2>1, <2>2, <2>3, <2>4, <2>5, <2>6 DEF SiteInv, PromosInv
    <2>8. \A i \in DOMAIN coupons : Over(coupons[i]) => Over(coupons[i])'
      <3>1. \A i \in DOMAIN coupons : coupons[i].end_date \in Int
        BY DEF SiteInv, CouponsInv, CouponRow
      <3> QED
        BY <2>1, <3>1 DEF Over, SiteInv, CouponsInv
    <2>9. CouponsInv'
      BY <2>1, <2>8 DEF SiteInv, CouponsInv, Over
    <2>10. Site!ClosedStep
      BY <2>1 DEF Site!ClosedStep
    <2> QED
      BY <2>1, <2>7, <2>9, <2>10, SiteQuiet DEF SiteInv
  <1> QED
    BY <1>2, <1>3, <1>4, <1>5, SiteSteps DEF SiteMoves

\* What the invariant says of promotions and coupons.
LEMMA SiteMeans ==
    ASSUME SiteInv
    PROVE  Site!TypeOK /\ (~Uses("delete") => Site!CreatesOnlyConflict)
  BY DEF SiteInv, PromosInv, CouponsInv, CouponRow, Site!TypeOK

-----------------------------------------------------------------------------
\* The components together.

\* The invariant of the tables that organizations share.
OfficeInv == GoodsInv /\ DirectoryInv /\ CooksInv /\ SiteInv /\ SettingsInv /\ AddressesInv

\* It holds from the first state on.
LEMMA OfficeAlways == MCFairSpec => []OfficeInv
  <1>1. MCInit => OfficeInv
    BY InitGoods, InitDirectory, InitCooks, InitSite, InitSettings, InitAddresses DEF MCInit, OfficeInv
  <1>2. OfficeInv /\ [MCNext]_<<eventVars, NotEvents>> => OfficeInv'
    BY GoodsKept, DirectoryKept, CooksKept, SiteKept, SettingsKept, AddressesKept DEF OfficeInv
  <1> QED
    BY <1>1, <1>2, PTL DEF MCFairSpec

\* MCBackOffice.OrganizationsApart for any organizations, rows and requests that overlap: what a
\* row refers to belongs to the organization of the row (products, suppliers, reviews).
THEOREM OrganizationsStayApart == MCFairSpec => []OrganizationsApart
  <1>1. OfficeInv => OrganizationsApart
    BY GoodsMean, DirectoryMeans DEF OfficeInv, OrganizationsApart
  <1> QED
    BY <1>1, OfficeAlways, PTL

\* MCBackOffice.ChecksForeseeInserts: what a unique index refuses a request that is alone its
\* lookups have refused before, and where no promotion is deleted no creation of one ends in an
\* error of the database, whatever overlaps.
THEOREM LookupsForesee == MCFairSpec => []ChecksForeseeInserts
  <1>1. OfficeInv => ChecksForeseeInserts
    BY GoodsMean, DirectoryMeans, SiteMeans DEF OfficeInv, ChecksForeseeInserts
  <1> QED
    BY <1>1, OfficeAlways, PTL

\* MCBackOffice.ClosedStaysClosed: deleted products and customers and final kitchen items stay
\* as they are when requests come one at a time, and a coupon code once refused as inactive or
\* expired is never valid again, whatever overlaps.
THEOREM WhatIsClosedStays == MCFairSpec => ClosedStaysClosed
  <1>1. OfficeInv /\ [MCNext]_<<eventVars, NotEvents>> =>
            /\ [Serial => Goods!DeletedStep]_goodsVars /\ [Serial => People!DeletedStep]_peopleVars
            /\ [Serial => Pass!FinalStep]_passVars /\ [Site!ClosedStep]_siteVars
    BY GoodsKept, DirectoryKept, CooksKept, SiteKept DEF OfficeInv
  <1>2. MCFairSpec => /\ [][Serial => Goods!DeletedStep]_goodsVars
                      /\ [][Serial => People!DeletedStep]_peopleVars
                      /\ [][Serial => Pass!FinalStep]_passVars
                      /\ [][Site!ClosedStep]_siteVars
    BY <1>1, OfficeAlways, PTL DEF MCFairSpec
  <1> QED
    BY <1>2 DEF ClosedStaysClosed, Site!ClosedCodesStayClosed, Site!promoVars, siteVars

\* MCBackOffice.UpdatesAreExact: a bulk update changes all its promotions or none and an address
\* asked to be the default is, one request at a time; and no promotion ever changes in a column
\* that no request in flight names.
THEOREM UpdatesDoWhatTheyName == MCFairSpec => UpdatesAreExact
  <1>1. OfficeInv /\ [MCNext]_<<eventVars, NotEvents>> =>
            /\ [Serial => Site!BulkStep]_siteVars /\ [Site!ColumnStep]_siteVars
            /\ [Serial => Delivery!AskedStep]_deliveryVars
    BY SiteKept, AddressesKept DEF OfficeInv
  <1>2. MCFairSpec => /\ [][Serial => Site!BulkStep]_siteVars
                      /\ [][Site!ColumnStep]_siteVars
                      /\ [][Serial => Delivery!AskedStep]_deliveryVars
    BY <1>1, OfficeAlways, PTL DEF MCFairSpec
  <1> QED
    BY <1>2 DEF UpdatesAreExact, Site!OnlyNamedColumnsChange, Site!promoVars, siteVars

\* The types of the script's rows and runs.
LEMMA SeedTypes == SeedInv => Script!TypeOK
  <1> SUFFICES ASSUME SeedInv PROVE Script!TypeOK
    OBVIOUS
  <1>1. \A row \in stored : row.run \in 0 .. seeds
    BY DEF SeedInv, SeedTyped, SeedRow, RunsDiffer
  <1>2. Len(Script!Steps) = 14
    BY DEF Script!Steps
  <1>3. \A p \in Threads : seeder[p].step \in 0 .. 14
    BY DEF SeedInv, SeedTyped, SeederRecord
  <1>4. \A p \in Threads : \A row \in seeder[p].own \union seeder[p].missing : row.run = seeder[p].run
    BY DEF SeedInv, RunsDiffer, SessionsOpen
  <1> QED
    BY <1>1, <1>2, <1>3, <1>4 DEF Script!TypeOK

\* MCBackOffice.BackOfficeTypes, for any numbers of rows, requests and organizations.
THEOREM BackOfficeIsTyped == MCFairSpec => []BackOfficeTypes
  <1>1. KitchenInv => Pass!TypeOK
    BY DEF KitchenInv, ItemsPrepared, Pass!TypeOK
  <1>2. SettingsInv => Preferences!TypeOK
    BY DEF SettingsInv, SettingsTyped, SettingAsked, SettingRow, Preferences!TypeOK
  <1>3. AddressesInv => Delivery!TypeOK
    <2> SUFFICES ASSUME AddressesInv PROVE Delivery!TypeOK
      OBVIOUS
    <2>1. addresses \in Seq(AddressRow)
      BY TableIn DEF AddressesInv, AddressesTyped
    <2> QED
      BY <2>1 DEF AddressesInv, AddressesTyped, AddressRow, Delivery!TypeOK
  <1>4. OfficeInv /\ SeedInv => BackOfficeTypes
    BY <1>1, <1>2, <1>3, GoodsMean, DirectoryMeans, SiteMeans,
       SeedTypes DEF OfficeInv, CooksInv, BackOfficeTypes
  <1> QED
    BY <1>4, OfficeAlways, SeedAlways, PTL
=============================================================================
