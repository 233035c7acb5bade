------------------------------ MODULE Purchases ------------------------------
(***************************************************************************)
(* Purchase orders of one organization and the deliveries against them.    *)
(*                                                                         *)
(* Numbers are "count + 1" under a unique index.  An INSERT of a number    *)
(* that another transaction has inserted waits for its end and fails if it *)
(* commits.  A delivery inserts its purchase_receivings row before it      *)
(* reads anything it changes, so that index also keeps deliveries apart.   *)
(*                                                                         *)
(* An update of a purchase order replaces its item rows; edition names the *)
(* set of rows, so a request that knows the ids of an earlier edition      *)
(* finds nothing.  One branch: deliveries go to the branch of the order,   *)
(* and branches share no row but the numbers.                              *)
(***************************************************************************)
EXTENDS Sums

CONSTANTS
    Products,    \* ids of the products
    LotNumbers,  \* lot numbers clerks enter
    Requests,    \* requests that may be in flight; a singleton is a serial run
    None,        \* SQL NULL and "not set"
    Handlers,    \* endpoints used: subset of {"create", "update", "approve", "cancel", "receive"}
    ItemLists,   \* items of orders: sequences of [product, ordered, cost]
    Deliveries,  \* received_items of clerks: sequences of [item, quantity, lot]
    MaxOrders,   \* bound of the model: purchase orders
    MaxServed    \* bound of the model: requests begun in a behaviour

\* As the request schemas validate them.
ASSUME PurchasesAssumption ==
    /\ MaxServed \in Nat /\ None \notin Nat
    /\ ItemLists \subseteq Seq([product : Products, ordered : Nat \ {0}, cost : Nat])
    /\ Deliveries \subseteq Seq([item : Nat \ {0}, quantity : Nat \ {0}, lot : LotNumbers]) \ {<<>>}

VARIABLES
    purchase_orders, \* purchase_orders with their items, in the order of their numbers
    receivings,      \* purchase_receivings with their items, in the order of their commits
    lots,            \* inventory_lots.quantity, None where there is no row
    stock,           \* inventory.on_hand of the branch
    session,         \* per request: what its transaction has read and written so far
    served           \* requests begun so far (bound of the model)

tables == <<purchase_orders, receivings, lots, stock>>
vars == <<tables, session, served>>

LotKeys == Products \X LotNumbers

PurchaseOrderItem == [product : Products, ordered : Nat, cost : Nat, received : Nat]

PurchaseOrder ==
    [number : Nat, status : {"draft", "approved", "partially_received", "received", "cancelled"},
     total : Nat, edition : Nat, items : Seq(PurchaseOrderItem)]

PurchaseReceivingItem == [product : Products, quantity : Nat, lot : LotNumbers]

PurchaseReceiving == [number : Nat, order : Nat, items : Seq(PurchaseReceivingItem)]

IdleSession ==
    [handler |-> None, stage |-> "idle", order |-> 0, edition |-> 0, number |-> 0, total |-> 0,
     lines |-> <<>>, next |-> 1,
     items |-> <<>>,                     \* items of the order as read and added to in Python
     complete |-> TRUE,                  \* all_fully_received
     lot |-> None,                       \* quantity of the lot find_lot found
     lots |-> [k \in LotKeys |-> None],  \* uncommitted quantities, None where untouched
     stock |-> [p \in Products |-> None],
     arrived |-> <<>>,                   \* purchase_receiving_items inserted
     committed |-> FALSE]

Init ==
    /\ purchase_orders = <<>>
    /\ receivings = <<>>
    /\ lots = [k \in LotKeys |-> None]
    /\ stock = [p \in Products |-> 0]
    /\ session = [r \in Requests |-> IdleSession]
    /\ served = 0

-----------------------------------------------------------------------------
Begin(r, handler, s) ==
    /\ handler \in Handlers
    /\ session[r].stage = "idle"
    /\ served < MaxServed
    /\ served' = served + 1
    /\ session' = [session EXCEPT ![r] = [s EXCEPT !.handler = handler]]
    /\ UNCHANGED tables

Continue(r, s) ==
    /\ session' = [session EXCEPT ![r] = s]
    /\ UNCHANGED <<tables, served>>

Fail(r) == Continue(r, [session[r] EXCEPT !.stage = "failed"])

\* Close without commit, at any moment.
Rollback(r) ==
    /\ session[r].stage # "idle"
    /\ Continue(r, IdleSession)

End(r) ==
    /\ session' = [session EXCEPT ![r] = IdleSession]
    /\ UNCHANGED served

-----------------------------------------------------------------------------
\* create_purchase_order

Rows(list) ==
    [i \in DOMAIN list |-> [product |-> list[i].product, ordered |-> list[i].ordered,
                            cost |-> list[i].cost, received |-> 0]]

Total(list) == SumOf([i \in DOMAIN list |-> list[i].cost * list[i].ordered])

\* _generate_po_number: SELECT count(*).
CountOrders(r, list) ==
    /\ Len(purchase_orders) < MaxOrders
    /\ Begin(r, "create", [IdleSession EXCEPT !.stage = "insert order", !.lines = list,
                                              !.number = Len(purchase_orders) + 1])

\* INSERT of the order and its items, and the commit.  po_number is unique.
InsertOrder(r) ==
    LET s == session[r] IN
    /\ s.stage = "insert order"
    /\ IF \E i \in DOMAIN purchase_orders : purchase_orders[i].number = s.number
       THEN Fail(r)
       ELSE /\ purchase_orders' = Append(purchase_orders,
                    [number |-> s.number, status |-> "draft", total |-> Total(s.lines),
                     edition |-> 0, items |-> Rows(s.lines)])
            /\ End(r)
            /\ UNCHANGED <<receivings, lots, stock>>

-----------------------------------------------------------------------------
\* update_purchase_order, approve_purchase_order, cancel_purchase_order

\* Wrong on purpose: orders already approved can be edited.
EditableApproved(handler) ==
    IF handler = "update" THEN {"draft", "approved"} ELSE {"draft"}

\* update_purchase_order also accepts "submitted", which no order ever is.
Editable(handler) == {"draft"}

LoadDraft(r, handler, i, list) ==
    /\ handler \in {"update", "approve", "cancel"}
    /\ purchase_orders[i].status \in Editable(handler)
    /\ Begin(r, handler, [IdleSession EXCEPT !.stage = "write draft", !.order = i, !.lines = list,
                                             !.edition = purchase_orders[i].edition,
                                             !.total = purchase_orders[i].total])

\* A delivery has flushed quantity_received of an item of order i: the rows are locked.
ItemsLocked(i) ==
    \E q \in Requests :
        LET s == session[q] IN
        /\ s.handler = "receive" /\ s.order = i /\ ~s.committed
        /\ s.next + (IF s.stage = "write" THEN 1 ELSE 0) > 2

\* The items read are deleted and the new ones added: rows that another update
\* has put in between stay.  The total is written where it differs from the one read.
Updated(po, s) ==
    [po EXCEPT !.items = IF po.edition = s.edition THEN Rows(s.lines) ELSE @ \o Rows(s.lines),
               !.edition = @ + 1,
               !.total = IF Total(s.lines) = s.total THEN @ ELSE Total(s.lines)]

WriteDraft(r) ==
    LET s == session[r] IN
    /\ s.stage = "write draft"
    /\ s.handler = "update" => ~ItemsLocked(s.order)
    /\ purchase_orders' = [purchase_orders EXCEPT ![s.order] =
            CASE s.handler = "approve" -> [@ EXCEPT !.status = "approved"]
              [] s.handler = "cancel" -> [@ EXCEPT !.status = "cancelled"]
              [] s.handler = "update" -> Updated(@, s)]
    /\ End(r)
    /\ UNCHANGED <<receivings, lots, stock>>

-----------------------------------------------------------------------------
\* receive_purchase_order

Receivable == {"approved", "partially_received"}

LoadForReceipt(r, i, lines) ==
    /\ purchase_orders[i].status \in Receivable
    /\ Begin(r, "receive", [IdleSession EXCEPT !.stage = "count", !.order = i, !.lines = lines,
                                               !.edition = purchase_orders[i].edition])

\* _generate_receiving_number: SELECT count(*).
CountReceivings(r) ==
    /\ session[r].stage = "count"
    /\ Continue(r, [session[r] EXCEPT !.stage = "insert", !.number = Len(receivings) + 1])

Inserted(r) == session[r].stage \in {"read", "write", "commit"}

\* Wrong on purpose: receiving_number has no unique index.
FreeNumberAny(r, number) == TRUE

\* No transaction in flight has inserted the number.
FreeNumber(r, number) ==
    \A q \in Requests \ {r} : Inserted(q) => session[q].number # number

\* INSERT INTO purchase_receivings.
InsertReceiving(r) ==
    LET s == session[r] IN
    /\ s.stage = "insert"
    /\ FreeNumber(r, s.number)
    /\ IF \E i \in DOMAIN receivings : receivings[i].number = s.number
       THEN Fail(r)
       ELSE Continue(r, [s EXCEPT !.stage = "read",
                                  !.items = purchase_orders[s.order].items])

Line(s) == s.lines[s.next]

LotKey(s) == <<s.items[Line(s).item].product, Line(s).lot>>

VisibleLot(s, k) == IF s.lots[k] = None THEN lots[k] ELSE s.lots[k]

VisibleStock(s, p) == IF s.stock[p] = None THEN stock[p] ELSE s.stock[p]

\* get_po_item, the INSERT of the receiving item and find_lot.
ReadLine(r) ==
    LET s == session[r] IN
    /\ s.stage = "read"
    /\ IF \/ purchase_orders[s.order].edition # s.edition
          \/ Line(s).item \notin DOMAIN s.items
       THEN Fail(r)
       ELSE Continue(r, [s EXCEPT !.stage = "write", !.lot = VisibleLot(s, LotKey(s))])

LotAfter(found, quantity) == IF found = None THEN quantity ELSE found + quantity

\* all_fully_received stays FALSE once an item of this delivery lacks something.
Complete(s, item) == s.complete /\ item.received >= item.ordered

\* The flush of the lot, upsert_inventory, and quantity_received in Python.
WriteLine(r) ==
    LET s == session[r]
        line == Line(s)
        p == s.items[line.item].product
        item == [s.items[line.item] EXCEPT !.received = @ + line.quantity]
    IN
    /\ s.stage = "write"
    /\ Continue(r, [s EXCEPT
            !.lots[LotKey(s)] = LotAfter(s.lot, line.quantity),
            !.stock[p] = VisibleStock(s, p) + line.quantity,
            !.items[line.item] = item,
            !.complete = Complete(s, item),
            !.arrived = Append(@, [product |-> p, quantity |-> line.quantity, lot |-> line.lot]),
            !.next = @ + 1,
            !.stage = IF s.next < Len(s.lines) THEN "read" ELSE "commit"])

\* ck_po_item_qty_received_lte_ordered
ItemChecks(item) == item.received <= item.ordered

\* Item rows that are gone make SQLAlchemy's UPDATE fail.  The commit succeeds,
\* but the response model demands the items of the receiving, which the ORM
\* class does not have: the answer is an error.
CommitReceiving(r) ==
    LET s == session[r]
        po == purchase_orders[s.order]
    IN
    /\ s.stage = "commit"
    /\ IF po.edition # s.edition \/ \E i \in DOMAIN s.items : ~ItemChecks(s.items[i])
       THEN Fail(r)
       ELSE /\ purchase_orders' = [purchase_orders EXCEPT ![s.order] =
                    [@ EXCEPT !.items = s.items,
                              !.status = IF s.complete THEN "received" ELSE "partially_received"]]
            /\ receivings' = Append(receivings,
                    [number |-> s.number, order |-> s.order, items |-> s.arrived])
            /\ lots' = [k \in LotKeys |-> VisibleLot(s, k)]
            /\ stock' = [p \in Products |-> VisibleStock(s, p)]
            /\ session' = [session EXCEPT ![r] =
                    [IdleSession EXCEPT !.handler = "receive", !.stage = "failed",
                                        !.committed = TRUE]]
            /\ UNCHANGED served

-----------------------------------------------------------------------------
BeginSome(r) ==
    \/ \E list \in ItemLists : CountOrders(r, list)
    \/ \E i \in DOMAIN purchase_orders :
        \/ \E handler \in {"approve", "cancel"} : LoadDraft(r, handler, i, <<>>)
        \/ \E list \in ItemLists : LoadDraft(r, "update", i, list)
        \/ \E lines \in Deliveries : LoadForReceipt(r, i, lines)

Step(r) ==
    \/ InsertOrder(r)
    \/ WriteDraft(r)
    \/ CountReceivings(r)
    \/ InsertReceiving(r)
    \/ ReadLine(r)
    \/ WriteLine(r)
    \/ CommitReceiving(r)

Next == \E r \in Requests : BeginSome(r) \/ Step(r) \/ Rollback(r)

Spec == Init /\ [][Next]_vars

-----------------------------------------------------------------------------
(* Tables keep their types, and no item is received beyond what was ordered *)
(* (ck_po_item_qty_received_lte_ordered).                                   *)
TypeOK ==
    /\ \A i \in DOMAIN purchase_orders :
        /\ purchase_orders[i] \in PurchaseOrder
        /\ \A n \in DOMAIN purchase_orders[i].items :
            purchase_orders[i].items[n].received <= purchase_orders[i].items[n].ordered
    /\ \A n \in DOMAIN receivings : receivings[n] \in PurchaseReceiving
    /\ lots \in [LotKeys -> Nat \cup {None}]
    /\ stock \in [Products -> Nat]
    /\ served \in 0 .. MaxServed

(* Two deliveries are never between their first write and their commit at   *)
(* the same time, of whatever orders: count + 1 gives both the same number. *)
(* Their reads of lots and items, which take no lock, are therefore fresh.  *)
DeliveriesExclusive ==
    \A r, q \in Requests : Inserted(r) /\ Inserted(q) => r = q

(* Numbers of orders and of deliveries are 1, 2, 3, ... in the order of     *)
(* their commits, although they come from counts that may be outdated.      *)
NumbersGapless ==
    /\ \A i \in DOMAIN purchase_orders : purchase_orders[i].number = i
    /\ \A n \in DOMAIN receivings : receivings[n].number = n

\* What the lines of a delivery brought into a lot, and of a product.
IntoLot(lines, k) ==
    SumOf([n \in DOMAIN lines |->
              IF <<lines[n].product, lines[n].lot>> = k THEN lines[n].quantity ELSE 0])

OfProduct(lines, p) ==
    SumOf([n \in DOMAIN lines |-> IF lines[n].product = p THEN lines[n].quantity ELSE 0])

(* Whatever overlaps, a lot holds what the deliveries booked into it and    *)
(* the shelf what they brought, although a lot's quantity is computed in    *)
(* Python and written back as an absolute value.                            *)
LotsAndStockMatchDeliveries ==
    /\ \A k \in LotKeys :
        (IF lots[k] = None THEN 0 ELSE lots[k]) =
            SumOf([n \in DOMAIN receivings |-> IntoLot(receivings[n].items, k)])
    /\ \A p \in Products :
        stock[p] = SumOf([n \in DOMAIN receivings |-> OfProduct(receivings[n].items, p)])

\* The bottles of p booked for order i, and those its items say were received.
Booked(i, p) ==
    SumOf([n \in DOMAIN receivings |->
              IF receivings[n].order = i THEN OfProduct(receivings[n].items, p) ELSE 0])

ReceivedOf(items, p) ==
    SumOf([n \in DOMAIN items |-> IF items[n].product = p THEN items[n].received ELSE 0])

(* An order whose items were never replaced after its approval has received *)
(* what its deliveries brought.  (An update that read the draft and commits *)
(* after an approval and a delivery drops the quantities received.)         *)
ReceivedMatchesDeliveries ==
    \A i \in DOMAIN purchase_orders : \A p \in Products :
        Booked(i, p) = ReceivedOf(purchase_orders[i].items, p)

(* The total of an order is the value of its items.                         *)
TotalIsValue ==
    \A i \in DOMAIN purchase_orders :
        purchase_orders[i].total = Total(purchase_orders[i].items)

(* Served one after the other: goods never arrive for an order nobody       *)
(* approved, an order that was approved keeps its items, and one that was   *)
(* received or cancelled never changes again.                               *)
ApprovedStep ==
    \A i \in DOMAIN purchase_orders :
        LET old == purchase_orders[i]
            new == purchase_orders'[i]
        IN
        /\ old.status # "draft" => new.edition = old.edition
        /\ old.status \in {"cancelled", "received"} => new = old
        /\ old.status = "draft" => new.status \in {"draft", "approved", "cancelled"}

(* A delivery that leaves nothing of the order open marks it received.      *)
\* Refuted: see README, all_fully_received.
StatusFollowsItems ==
    \A i \in DOMAIN purchase_orders :
        LET po == purchase_orders[i] IN
        po.status \in {"partially_received", "received"} =>
            (po.status = "received") = \A n \in DOMAIN po.items : po.items[n].received = po.items[n].ordered

(* A request that is answered with an error has changed nothing.            *)
\* Refuted for every delivery: see README.
ErrorsChangeNothing ==
    \A r \in Requests : session[r].stage = "failed" => ~session[r].committed
=============================================================================
