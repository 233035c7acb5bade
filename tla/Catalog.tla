------------------------------- MODULE Catalog -------------------------------
(***************************************************************************)
(* Categories, products, suppliers and the products suppliers deliver, of  *)
(* several organizations in one database.                                  *)
(*                                                                         *)
(* Every write is preceded by SELECTs that look for what it would collide  *)
(* with.  The SELECTs of a request are one step of the model, its flush    *)
(* and commit another.  What the checks miss either fails at the flush,    *)
(* on a unique index, or goes in, where there is none (supplier names).    *)
(***************************************************************************)
EXTENDS Integers, Sequences, FiniteSetsExt

CONSTANTS
    Organizations,
    Names,      \* names of categories and suppliers, SKUs
    Barcodes,
    Null,       \* SQL NULL and "not set"
    Blank,      \* the empty string, which Python takes for no barcode and SQL for one
    Requests,   \* requests that may be in flight; a singleton is a serial run
    MaxRows,    \* bound of the model: rows of a table
    MaxRequests \* bound of the model: requests begun

VARIABLES
    rows,            \* the tables, by name; a row's id is its place
    catalog_session, \* per request: the row it is to write
    asked            \* requests so far (bound of the model)

catalogVars == <<rows, catalog_session, asked>>

Category(org, name, parent) ==
    [organization |-> org, name |-> name, parent |-> parent, is_active |-> TRUE]

Product(org, sku, barcode, category) ==
    [organization |-> org, sku |-> sku, barcode |-> barcode, category |-> category,
     deleted |-> FALSE]

Supplier(org, name) == [organization |-> org, name |-> name, is_active |-> TRUE]

\* A deleted link stays in its place, gone.
SupplierProduct(supplier, product) ==
    [supplier |-> supplier, product |-> product, cost_price |-> 1, gone |-> FALSE]

IdleRequest == [stage |-> "idle", table |-> "category", id |-> 0, row |-> Null, new |-> Null]

Init ==
    /\ rows = [category |-> <<>>, product |-> <<>>, supplier |-> <<>>, link |-> <<>>]
    /\ catalog_session = [r \in Requests |-> IdleRequest]
    /\ asked = 0

-----------------------------------------------------------------------------
\* The SELECTs.

Ids(table) == DOMAIN rows[table]

\* Wrong on purpose: a row is found whoever owns it.
OwnedByAnyone(table, id, org) == TRUE

\* get_category, get_supplier, and the test of organization_id behind them.
Owned(table, id, org) == rows[table][id].organization = org

Live(id) == ~rows["product"][id].deleted

\* find_category_by_name, find_supplier_by_name and their _conflict forms.
NameTaken(table, id, org, name) ==
    \E i \in Ids(table) \ {id} : rows[table][i].organization = org /\ rows[table][i].name = name

\* find_by_sku and find_sku_conflict see live products only.
FreeSku(id, org, sku) ==
    \A i \in Ids("product") \ {id} :
        ~(rows["product"][i].organization = org /\ rows["product"][i].sku = sku /\ Live(i))

\* find_by_barcode and find_barcode_conflict, which an empty barcode skips.
FreeBarcode(id, org, barcode) ==
    barcode \notin {Null, Blank} =>
    \A i \in Ids("product") \ {id} :
        ~(rows["product"][i].organization = org /\ rows["product"][i].barcode = barcode /\ Live(i))

MayRefer(table, id, org) == id # Null => Owned(table, id, org)

-----------------------------------------------------------------------------
\* What a request is to write, once its checks have passed.

Begin(r, stage, table, id, new) ==
    /\ catalog_session[r].stage = "idle"
    /\ asked < MaxRequests
    /\ asked' = asked + 1
    /\ catalog_session' = [catalog_session EXCEPT ![r] =
            [stage |-> stage, table |-> table, id |-> id, new |-> new,
             row |-> IF id = 0 THEN Null ELSE rows[table][id]]]
    /\ UNCHANGED rows

Insert(r, table, new) == Len(rows[table]) < MaxRows /\ Begin(r, "insert", table, 0, new)

Update(r, table, id, new) == Begin(r, "update", table, id, new)

CreateCategory(r, org, name, parent) ==
    /\ ~NameTaken("category", 0, org, name)
    /\ MayRefer("category", parent, org)
    /\ Insert(r, "category", Category(org, name, parent))

\* Only the category itself is refused as its parent.
UpdateCategory(r, org, id, name, parent, is_active) ==
    /\ Owned("category", id, org)
    /\ name # rows["category"][id].name => ~NameTaken("category", id, org, name)
    /\ parent # id /\ MayRefer("category", parent, org)
    /\ Update(r, "category", id, [organization |-> org, name |-> name, parent |-> parent,
                                  is_active |-> is_active])

\* Inactive subcategories count, deleted products do not.
DeleteCategory(r, org, id) ==
    /\ Owned("category", id, org)
    /\ \A i \in Ids("category") : rows["category"][i].parent # id
    /\ \A i \in Ids("product") : Live(i) => rows["product"][i].category # id
    /\ Update(r, "category", id, [rows["category"][id] EXCEPT !.is_active = FALSE])

CreateProduct(r, org, sku, barcode, category) ==
    /\ FreeSku(0, org, sku) /\ FreeBarcode(0, org, barcode)
    /\ MayRefer("category", category, org)
    /\ Insert(r, "product", Product(org, sku, barcode, category))

UpdateProduct(r, org, id, sku, barcode, category) ==
    LET product == rows["product"][id] IN
    /\ Owned("product", id, org) /\ Live(id)
    /\ sku # product.sku => FreeSku(id, org, sku)
    /\ barcode # product.barcode => FreeBarcode(id, org, barcode)
    /\ MayRefer("category", category, org)
    /\ Update(r, "product", id, Product(org, sku, barcode, category))

DeleteProduct(r, org, id) ==
    /\ Owned("product", id, org) /\ Live(id)
    /\ Update(r, "product", id, [rows["product"][id] EXCEPT !.deleted = TRUE])

CreateSupplier(r, org, name) ==
    /\ ~NameTaken("supplier", 0, org, name)
    /\ Insert(r, "supplier", Supplier(org, name))

Renamable(id, org, name) ==
    name # rows["supplier"][id].name => ~NameTaken("supplier", id, org, name)

UpdateSupplier(r, org, id, name, is_active) ==
    /\ Owned("supplier", id, org)
    /\ Renamable(id, org, name)
    /\ Update(r, "supplier", id, [organization |-> org, name |-> name, is_active |-> is_active])

DeleteSupplier(r, org, id) ==
    /\ Owned("supplier", id, org)
    /\ Update(r, "supplier", id, [rows["supplier"][id] EXCEPT !.is_active = FALSE])

CreateSupplierProduct(r, org, supplier, product) ==
    /\ Owned("supplier", supplier, org)
    /\ Owned("product", product, org) /\ Live(product)
    /\ \A i \in Ids("link") :
         LET link == rows["link"][i] IN
         ~(link.supplier = supplier /\ link.product = product /\ ~link.gone)
    /\ Insert(r, "link", SupplierProduct(supplier, product))

\* A link has no organization_id: its supplier's counts.
OwnLink(id, org) == ~rows["link"][id].gone /\ Owned("supplier", rows["link"][id].supplier, org)

UpdateSupplierProduct(r, org, id, cost_price) ==
    /\ OwnLink(id, org)
    /\ Update(r, "link", id, [rows["link"][id] EXCEPT !.cost_price = cost_price])

DeleteSupplierProduct(r, org, id) ==
    /\ OwnLink(id, org)
    /\ Update(r, "link", id, [rows["link"][id] EXCEPT !.gone = TRUE])

-----------------------------------------------------------------------------
\* Flush and commit.

\* The unique keys of a row: uq_category_org_name, uq_product_org_sku and
\* uq_product_org_barcode, which deleted products keep, uq_supplier_product.
UniqueKeys(table, row) ==
    CASE table = "category" -> {<<row.organization, row.name>>}
      [] table = "product" -> {<<"sku", row.organization, row.sku>>} \union
            (IF row.barcode = Null THEN {} ELSE {<<"barcode", row.organization, row.barcode>>})
      [] table = "supplier" -> {}
      [] table = "link" -> IF row.gone THEN {} ELSE {<<row.supplier, row.product>>}

Collisions(table, id, row) ==
    {i \in Ids(table) \ {id} : UniqueKeys(table, rows[table][i]) \intersect UniqueKeys(table, row) # {}}

\* Wrong on purpose: what the client leaves out is set to NULL.
WrittenWithNulls(current, loaded, new) ==
    [column \in DOMAIN new |-> IF new[column] # loaded[column] THEN new[column] ELSE Null]

\* The changed columns over the row as it is by then.
Written(current, loaded, new) ==
    [column \in DOMAIN new |->
        IF new[column] # loaded[column] THEN new[column] ELSE current[column]]

Free(r) == catalog_session' = [catalog_session EXCEPT ![r] = IdleRequest] /\ UNCHANGED asked

FlushInsert(r) ==
    LET s == catalog_session[r] IN
    /\ s.stage = "insert"
    /\ Collisions(s.table, 0, s.new) = {}
    /\ rows' = [rows EXCEPT ![s.table] = Append(@, s.new)]
    /\ Free(r)

FlushUpdate(r) ==
    LET s == catalog_session[r]
        new == Written(rows[s.table][s.id], s.row, s.new)
    IN
    /\ s.stage = "update"
    /\ Collisions(s.table, s.id, new) = {}
    /\ s.table = "link" => ~rows["link"][s.id].gone
    /\ rows' = [rows EXCEPT ![s.table][s.id] = new]
    /\ Free(r)

\* A flush that violates an index, UPDATEs a row that is gone, or never happens.
Fail(r) == catalog_session[r].stage # "idle" /\ Free(r) /\ UNCHANGED rows

-----------------------------------------------------------------------------
SomeCategory(r, org) ==
    \/ \E name \in Names, parent \in Ids("category") \union {Null} : CreateCategory(r, org, name, parent)
    \/ \E id \in Ids("category") :
         \/ \E name \in Names, parent \in Ids("category") \union {Null}, is_active \in BOOLEAN :
                UpdateCategory(r, org, id, name, parent, is_active)
         \/ DeleteCategory(r, org, id)

SomeProduct(r, org) ==
    \E sku \in Names, barcode \in Barcodes \union {Null, Blank}, category \in Ids("category") \union {Null} :
        \/ CreateProduct(r, org, sku, barcode, category)
        \/ \E id \in Ids("product") : UpdateProduct(r, org, id, sku, barcode, category)

SomeDelete(r, org) == \E id \in Ids("product") : DeleteProduct(r, org, id)

SomeSupplier(r, org) ==
    \/ \E name \in Names : CreateSupplier(r, org, name)
    \/ \E id \in Ids("supplier") :
         \/ \E name \in Names, is_active \in BOOLEAN : UpdateSupplier(r, org, id, name, is_active)
         \/ DeleteSupplier(r, org, id)

SomeLink(r, org) ==
    \/ \E s \in Ids("supplier"), p \in Ids("product") : CreateSupplierProduct(r, org, s, p)
    \/ \E id \in Ids("link") :
         \/ \E cost_price \in {0, 1} : UpdateSupplierProduct(r, org, id, cost_price)
         \/ DeleteSupplierProduct(r, org, id)

Next ==
    \E r \in Requests :
        \/ \E org \in Organizations :
             \/ SomeCategory(r, org) \/ SomeProduct(r, org) \/ SomeDelete(r, org)
             \/ SomeSupplier(r, org) \/ SomeLink(r, org)
        \/ FlushInsert(r) \/ FlushUpdate(r) \/ Fail(r)

Spec == Init /\ [][Next]_catalogVars

-----------------------------------------------------------------------------
TypeOK ==
    /\ \A c \in Ids("category") : rows["category"][c] \in
         [organization : Organizations, name : Names, parent : Ids("category") \union {Null},
          is_active : BOOLEAN]
    /\ \A p \in Ids("product") : rows["product"][p] \in
         [organization : Organizations, sku : Names, barcode : Barcodes \union {Null, Blank},
          category : Ids("category") \union {Null}, deleted : BOOLEAN]
    /\ \A s \in Ids("supplier") : rows["supplier"][s] \in
         [organization : Organizations, name : Names, is_active : BOOLEAN]
    /\ \A l \in Ids("link") : rows["link"][l] \in
         [supplier : Ids("supplier"), product : Ids("product"), cost_price : {0, 1}, gone : BOOLEAN]

(* Whatever overlaps: no row refers to a row of another organization,       *)
(* although links carry no organization and ids are shared by all of them.  *)
OrganizationsApart ==
    /\ \A c \in Ids("category") : LET row == rows["category"][c] IN
         row.parent # Null => rows["category"][row.parent].organization = row.organization
    /\ \A p \in Ids("product") : LET row == rows["product"][p] IN
         row.category # Null => rows["category"][row.category].organization = row.organization
    /\ \A l \in Ids("link") : LET row == rows["link"][l] IN
         rows["supplier"][row.supplier].organization = rows["product"][row.product].organization

(* One request at a time: a request that has passed its checks fails on a   *)
(* unique index only for the SKU or barcode of a deleted product, or for an *)
(* empty barcode.                                                           *)
ChecksForeseeInserts ==
    \A r \in Requests :
        LET s == catalog_session[r] IN
        s.stage # "idle" =>
            \A i \in Collisions(s.table, s.id, s.new) :
                s.table = "product" /\ (rows["product"][i].deleted \/ s.new.barcode = Blank)

(* One request at a time: an organization has one supplier of a name,       *)
(* although no index says so.                                               *)
SuppliersNamedOnce ==
    \A i, j \in Ids("supplier") :
        LET a == rows["supplier"][i] b == rows["supplier"][j] IN
        a.organization = b.organization /\ a.name = b.name => i = j

(* One request at a time: a deleted product is never changed again, nor     *)
(* linked to a supplier.                                                    *)
DeletedStep ==
    /\ \A p \in Ids("product") :
         rows["product"][p].deleted => rows'["product"][p] = rows["product"][p]
    /\ \A l \in DOMAIN rows'["link"] :
         l \in Ids("link") \/ ~rows["product"][rows'["link"][l].product].deleted

DeletedProductsStay == [][DeletedStep]_catalogVars

(* Refuted: following parents ends.  Only a category itself is refused as   *)
(* its parent, so two updates make each of two categories the other's.      *)
CategoriesFormForest ==
    \A c, d \in Ids("category") : c # d =>
        ~(rows["category"][c].parent = d /\ rows["category"][d].parent = c)

(* Refuted: a supplier's products are live.  delete_product leaves links.   *)
LinkedProductsAreLive ==
    \A l \in Ids("link") : ~rows["link"][l].gone => Live(rows["link"][l].product)
=============================================================================
