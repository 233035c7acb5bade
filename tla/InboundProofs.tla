---------------------------- MODULE InboundProofs ----------------------------
(***************************************************************************)
(* Theorems about Transfers, for any branches, products, stocks, requests  *)
(* and workloads; about Claims, for any orders, items, requests and        *)
(* amounts; and about the types of all goods and papers.                   *)
(*                                                                         *)
(* The quantities of an item stay in order because the CHECKs of its row   *)
(* are tested on what is written, whatever the handler read; they are      *)
(* tested on every item, as a request works on the items of its transfer   *)
(* and those are never added to or removed.  With the schema of models.py  *)
(* nothing ships, because every way to the status that ship_transfer       *)
(* demands passes a flush that fails.  A shipment holds the rows it has    *)
(* taken from, so what it writes is what is there less what it has taken;  *)
(* what a receipt writes is that only where no other request writes, and   *)
(* so the conservation of bottles is proved for one request at a time.     *)
(*                                                                         *)
(* A request that took the number of a sequence holds its row, so no other *)
(* has a number of it and the table does not grow until it commits.  That  *)
(* makes the numbers gapless, and the id a return gives its refund that of *)
(* the row the same commit inserts.                                        *)
(***************************************************************************)
EXTENDS PurchasesProofs

-----------------------------------------------------------------------------
\* The items of a transfer.

\* SumOf as Transfers has it.
LEMMA ShippingSums ==
    ASSUME NEW v PROVE Shipping!SumOf(v) = SumOf(v)
  BY DEF Shipping!SumOf, Shipping!SumTo, SumOf, SumTo

Taken(place, items, row) ==
    SumOf([i \in DOMAIN items |->
              IF <<place, items[i].product>> = row THEN items[i].shipped ELSE 0])
Put(place, items, row) ==
    SumOf([i \in DOMAIN items |->
              IF <<place, items[i].product>> = row THEN items[i].received ELSE 0])

\* What another version of an item takes from a row or puts into it.
Sent(place, item, old, row) ==
    IF <<place, item.product>> = row THEN item.shipped - old.shipped ELSE 0
Landed(place, item, old, row) ==
    IF <<place, item.product>> = row THEN item.received - old.received ELSE 0

\* The quantities of an item.
LEMMA ItemQuantities ==
    ASSUME NEW item \in Shipping!TransferItem
    PROVE  /\ item.product \in Products /\ item.requested \in Nat /\ item.shipped \in Nat
           /\ item.received \in Nat /\ item.damaged \in Nat
  BY DEF Shipping!TransferItem

\* Quantities add up to natural numbers.
LEMMA ItemsAreNatural ==
    ASSUME NEW items \in Seq(Shipping!TransferItem), NEW place, NEW row
    PROVE  Taken(place, items, row) \in Nat /\ Put(place, items, row) \in Nat
  <1>1. PICK n \in Nat : n = Len(items) /\ DOMAIN items = 1 .. n
    OBVIOUS
  <1>2. \A k \in 1 .. n : items[k].shipped \in Nat /\ items[k].received \in Nat
    BY <1>1, ItemQuantities
  <1>3. PICK v : v = [i \in DOMAIN items |->
                        IF <<place, items[i].product>> = row THEN items[i].shipped ELSE 0]
    OBVIOUS
  <1>4. PICK w : w = [i \in DOMAIN items |->
                        IF <<place, items[i].product>> = row THEN items[i].received ELSE 0]
    OBVIOUS
  <1>5. v = [k \in 1 .. n |-> v[k]] /\ \A k \in 1 .. n : v[k] \in Nat
    BY <1>1, <1>2, <1>3
  <1>6. w = [k \in 1 .. n |-> w[k]] /\ \A k \in 1 .. n : w[k] \in Nat
    BY <1>1, <1>2, <1>4
  <1>7. SumOf(v) \in Nat /\ SumOf(w) \in Nat
    BY <1>5, <1>6, ColumnSumType
  <1> QED
    BY <1>3, <1>4, <1>7 DEF Taken, Put

\* Items of which nothing was shipped or received.
LEMMA ItemsAtRest ==
    ASSUME NEW items \in Seq(Shipping!TransferItem), NEW place, NEW row
    PROVE  /\ (\A i \in DOMAIN items : items[i].shipped = 0) => Taken(place, items, row) = 0
           /\ (\A i \in DOMAIN items : items[i].received = 0) => Put(place, items, row) = 0
  <1>1. PICK n \in Nat : n = Len(items) /\ DOMAIN items = 1 .. n
    OBVIOUS
  <1>2. PICK v : v = [i \in DOMAIN items |->
                        IF <<place, items[i].product>> = row THEN items[i].shipped ELSE 0]
    OBVIOUS
  <1>3. PICK w : w = [i \in DOMAIN items |->
                        IF <<place, items[i].product>> = row THEN items[i].received ELSE 0]
    OBVIOUS
  <1>4. ASSUME \A i \in DOMAIN items : items[i].shipped = 0
        PROVE  SumOf(v) = 0
    <2>1. v = [k \in 1 .. n |-> v[k]] /\ \A k \in 1 .. n : v[k] = 0
      BY <1>1, <1>2, <1>4
    <2> QED
      BY <2>1, ColumnSumZero
  <1>5. ASSUME \A i \in DOMAIN items : items[i].received = 0
        PROVE  SumOf(w) = 0
    <2>1. w = [k \in 1 .. n |-> w[k]] /\ \A k \in 1 .. n : w[k] = 0
      BY <1>1, <1>3, <1>5
    <2> QED
      BY <2>1, ColumnSumZero
  <1> QED
    BY <1>2, <1>3, <1>4, <1>5 DEF Taken, Put

\* An item that keeps its product.
LEMMA ItemMoves ==
    ASSUME NEW items \in Seq(Shipping!TransferItem), NEW j \in DOMAIN items,
           NEW item \in Shipping!TransferItem, item.product = items[j].product,
           NEW more, more = Changed(items, j, item), NEW place, NEW row
    PROVE  /\ more \in Seq(Shipping!TransferItem)
           /\ Taken(place, more, row) = Taken(place, items, row) + Sent(place, item, items[j], row)
           /\ Put(place, more, row) = Put(place, items, row) + Landed(place, item, items[j], row)
  <1>1. IsTable(items) /\ \A n \in DOMAIN items : items[n] \in Shipping!TransferItem
    BY TableIn
  <1>2. /\ IsTable(more) /\ DOMAIN more = DOMAIN items
        /\ \A n \in DOMAIN items : more[n] = IF n = j THEN item ELSE items[n]
    BY <1>1, ChangeRow
  <1>3. PICK n \in Nat : n = Len(items) /\ DOMAIN items = 1 .. n
    BY <1>1, TableIs
  <1>4. more \in Seq(Shipping!TransferItem)
    BY <1>1, <1>2, TableIn
  <1>5. \A k \in 1 .. n : /\ items[k].shipped \in Nat /\ items[k].received \in Nat
                          /\ more[k].shipped \in Nat /\ more[k].received \in Nat
                          /\ items[k].product = more[k].product
    <2>1. \A k \in 1 .. n : items[k] \in Shipping!TransferItem /\ more[k] \in Shipping!TransferItem
      BY <1>1, <1>2, <1>3
    <2> QED
      BY <1>2, <1>3, <2>1, ItemQuantities
  <1>6. j \in 1 .. n
    BY <1>3
  <1>7. Taken(place, more, row) = Taken(place, items, row) + Sent(place, item, items[j], row)
    <2>1. PICK v : v = [i \in DOMAIN items |->
                          IF <<place, items[i].product>> = row THEN items[i].shipped ELSE 0]
      OBVIOUS
    <2>2. PICK w : w = [i \in DOMAIN more |->
                          IF <<place, more[i].product>> = row THEN more[i].shipped ELSE 0]
      OBVIOUS
    <2>3. v = [k \in 1 .. n |-> v[k]] /\ w = [k \in 1 .. n |-> w[k]]
      BY <1>2, <1>3, <2>1, <2>2
    <2>4. \A k \in 1 .. n : v[k] \in Int /\ w[k] \in Int
      BY <1>2, <1>3, <1>5, <2>1, <2>2
    <2>5. \A k \in 1 .. n : k # j => v[k] = w[k]
      BY <1>2, <1>3, <2>1, <2>2
    <2>6. SumOf(w) = SumOf(v) - v[j] + w[j]
      BY <1>6, <2>3, <2>4, <2>5, ColumnSumReplace
    <2>7. SumOf(v) \in Int
      BY <2>3, <2>4, ColumnSumType
    <2>8. w[j] - v[j] = Sent(place, item, items[j], row) /\ v[j] \in Int /\ w[j] \in Int
      BY <1>2, <1>3, <1>5, <1>6, <2>1, <2>2 DEF Sent
    <2> QED
      BY <2>1, <2>2, <2>6, <2>7, <2>8 DEF Taken
  <1>8. Put(place, more, row) = Put(place, items, row) + Landed(place, item, items[j], row)
    <2>1. PICK v : v = [i \in DOMAIN items |->
                          IF <<place, items[i].product>> = row THEN items[i].received ELSE 0]
      OBVIOUS
    <2>2. PICK w : w = [i \in DOMAIN more |->
                          IF <<place, more[i].product>> = row THEN more[i].received ELSE 0]
      OBVIOUS
    <2>3. v = [k \in 1 .. n |-> v[k]] /\ w = [k \in 1 .. n |-> w[k]]
      BY <1>2, <1>3, <2>1, <2>2
    <2>4. \A k \in 1 .. n : v[k] \in Int /\ w[k] \in Int
      BY <1>2, <1>3, <1>5, <2>1, <2>2
    <2>5. \A k \in 1 .. n : k # j => v[k] = w[k]
      BY <1>2, <1>3, <2>1, <2>2
    <2>6. SumOf(w) = SumOf(v) - v[j] + w[j]
      BY <1>6, <2>3, <2>4, <2>5, ColumnSumReplace
    <2>7. SumOf(v) \in Int
      BY <2>3, <2>4, ColumnSumType
    <2>8. w[j] - v[j] = Landed(place, item, items[j], row) /\ v[j] \in Int /\ w[j] \in Int
      BY <1>2, <1>3, <1>5, <1>6, <2>1, <2>2 DEF Landed
    <2> QED
      BY <2>1, <2>2, <2>6, <2>7, <2>8 DEF Put
  <1> QED
    BY <1>4, <1>7, <1>8

-----------------------------------------------------------------------------
\* The transfers of the table.

TakenFrom(table, row) == SumOf([t \in DOMAIN table |-> Taken(table[t].source, table[t].items, row)])
PutInto(table, row) == SumOf([t \in DOMAIN table |-> Put(table[t].dest, table[t].items, row)])

\* Bottles are conserved, in these words.
LEMMA ConservedIs ==
    Shipping!BottlesConserved <=>
        \A row \in Shipping!Rows :
            Bottles(on_hand[row]) =
                Bottles(Opening[row]) - TakenFrom(transfers, row) + PutInto(transfers, row)
  <1>1. \A tr, row : Shipping!TakenBy(tr, row) = Taken(tr.source, tr.items, row)
    BY ShippingSums DEF Shipping!TakenBy, Taken
  <1>2. \A tr, row : Shipping!PutBy(tr, row) = Put(tr.dest, tr.items, row)
    BY ShippingSums DEF Shipping!PutBy, Put
  <1>3. \A q : Shipping!Shelf(q) = Bottles(q)
    BY DEF Shipping!Shelf, Bottles
  <1>4. ASSUME NEW row
        PROVE  Shipping!SumOf([t \in DOMAIN transfers |-> Shipping!TakenBy(transfers[t], row)])
                    = TakenFrom(transfers, row)
               /\ Shipping!SumOf([t \in DOMAIN transfers |-> Shipping!PutBy(transfers[t], row)])
                    = PutInto(transfers, row)
    <2>1. [t \in DOMAIN transfers |-> Shipping!TakenBy(transfers[t], row)] =
          [t \in DOMAIN transfers |-> Taken(transfers[t].source, transfers[t].items, row)]
      BY <1>1
    <2>2. [t \in DOMAIN transfers |-> Shipping!PutBy(transfers[t], row)] =
          [t \in DOMAIN transfers |-> Put(transfers[t].dest, transfers[t].items, row)]
      BY <1>2
    <2> QED
      BY <2>1, <2>2, ShippingSums DEF TakenFrom, PutInto
  <1> QED
    BY <1>3, <1>4 DEF Shipping!BottlesConserved

\* The same, after a step.
LEMMA ConservedNext ==
    Shipping!BottlesConserved' <=>
        \A row \in Shipping!Rows :
            Bottles(on_hand'[row]) =
                Bottles(Opening[row]) - TakenFrom(transfers', row) + PutInto(transfers', row)
  <1>1. \A tr, row : Shipping!TakenBy(tr, row) = Taken(tr.source, tr.items, row)
    BY ShippingSums DEF Shipping!TakenBy, Taken
  <1>2. \A tr, row : Shipping!PutBy(tr, row) = Put(tr.dest, tr.items, row)
    BY ShippingSums DEF Shipping!PutBy, Put
  <1>3. \A q : Shipping!Shelf(q) = Bottles(q)
    BY DEF Shipping!Shelf, Bottles
  <1>4. ASSUME NEW row
        PROVE  Shipping!SumOf([t \in DOMAIN transfers' |-> Shipping!TakenBy(transfers'[t], row)])
                    = TakenFrom(transfers', row)
               /\ Shipping!SumOf([t \in DOMAIN transfers' |-> Shipping!PutBy(transfers'[t], row)])
                    = PutInto(transfers', row)
    <2>1. [t \in DOMAIN transfers' |-> Shipping!TakenBy(transfers'[t], row)] =
          [t \in DOMAIN transfers' |-> Taken(transfers'[t].source, transfers'[t].items, row)]
      BY <1>1
    <2>2. [t \in DOMAIN transfers' |-> Shipping!PutBy(transfers'[t], row)] =
          [t \in DOMAIN transfers' |-> Put(transfers'[t].dest, transfers'[t].items, row)]
      BY <1>2
    <2> QED
      BY <2>1, <2>2, ShippingSums DEF TakenFrom, PutInto
  <1> QED
    BY <1>3, <1>4 DEF Shipping!BottlesConserved

\* Items of the transfers of a table are typed.
ItemsTyped(table) == \A t \in DOMAIN table : table[t].items \in Seq(Shipping!TransferItem)

\* A transfer more, at rest.
LEMMA TransferAdds ==
    ASSUME NEW table, IsTable(table), ItemsTyped(table), NEW tr,
           tr.items \in Seq(Shipping!TransferItem),
           \A i \in DOMAIN tr.items : tr.items[i].shipped = 0 /\ tr.items[i].received = 0,
           NEW more, more = WithRow(table, tr), NEW row
    PROVE  TakenFrom(more, row) = TakenFrom(table, row) /\ PutInto(more, row) = PutInto(table, row)
  <1>1. PICK n \in Nat : n = Len(table)
    BY TableIs
  <1>2. /\ DOMAIN table = 1 .. n /\ DOMAIN more = 1 .. n + 1
        /\ \A t \in 1 .. n : more[t] = table[t]
        /\ more[n + 1] = tr
    BY <1>1, AppendRow
  <1>3. Taken(tr.source, tr.items, row) = 0 /\ Put(tr.dest, tr.items, row) = 0
    BY ItemsAtRest
  <1>4. TakenFrom(more, row) = TakenFrom(table, row)
    <2>1. PICK v : v = [t \in DOMAIN table |-> Taken(table[t].source, table[t].items, row)]
      OBVIOUS
    <2>2. PICK w : w = [t \in DOMAIN more |-> Taken(more[t].source, more[t].items, row)]
      OBVIOUS
    <2>3. v = [k \in 1 .. n |-> v[k]] /\ w = [k \in 1 .. n + 1 |-> w[k]]
      BY <1>2, <2>1, <2>2
    <2>4. \A k \in 1 .. n : w[k] = v[k]
      BY <1>2, <2>1, <2>2
    <2>5. SumOf(w) = SumOf(v) + w[n + 1]
      BY <2>3, <2>4, ColumnSumAppend
    <2>6. \A k \in 1 .. n : v[k] \in Int
      BY <1>2, <2>1, ItemsAreNatural DEF ItemsTyped
    <2>7. SumOf(v) \in Int
      BY <2>3, <2>6, ColumnSumType
    <2>8. w[n + 1] = 0
      BY <1>2, <1>3, <2>2
    <2> QED
      BY <2>1, <2>2, <2>5, <2>7, <2>8 DEF TakenFrom
  <1>5. PutInto(more, row) = PutInto(table, row)
    <2>1. PICK v : v = [t \in DOMAIN table |-> Put(table[t].dest, table[t].items, row)]
      OBVIOUS
    <2>2. PICK w : w = [t \in DOMAIN more |-> Put(more[t].dest, more[t].items, row)]
      OBVIOUS
    <2>3. v = [k \in 1 .. n |-> v[k]] /\ w = [k \in 1 .. n + 1 |-> w[k]]
      BY <1>2, <2>1, <2>2
    <2>4. \A k \in 1 .. n : w[k] = v[k]
      BY <1>2, <2>1, <2>2
    <2>5. SumOf(w) = SumOf(v) + w[n + 1]
      BY <2>3, <2>4, ColumnSumAppend
    <2>6. \A k \in 1 .. n : v[k] \in Int
      BY <1>2, <2>1, ItemsAreNatural DEF ItemsTyped
    <2>7. SumOf(v) \in Int
      BY <2>3, <2>6, ColumnSumType
    <2>8. w[n + 1] = 0
      BY <1>2, <1>3, <2>2
    <2> QED
      BY <2>1, <2>2, <2>5, <2>7, <2>8 DEF PutInto
  <1> QED
    BY <1>4, <1>5

\* A transfer of other quantities.
LEMMA TransferChanges ==
    ASSUME NEW table, IsTable(table), ItemsTyped(table), NEW j \in DOMAIN table, NEW tr,
           tr.items \in Seq(Shipping!TransferItem),
           tr.source = table[j].source, tr.dest = table[j].dest,
           NEW more, more = Changed(table, j, tr), NEW row
    PROVE  /\ TakenFrom(more, row) = TakenFrom(table, row)
                - Taken(tr.source, table[j].items, row) + Taken(tr.source, tr.items, row)
           /\ PutInto(more, row) = PutInto(table, row)
                - Put(tr.dest, table[j].items, row) + Put(tr.dest, tr.items, row)
           /\ TakenFrom(table, row) \in Int /\ PutInto(table, row) \in Int
  <1>1. PICK n \in Nat : n = Len(table) /\ DOMAIN table = 1 .. n
    BY TableIs
  <1>2. /\ DOMAIN more = 1 .. n /\ j \in 1 .. n
        /\ \A t \in 1 .. n : more[t] = IF t = j THEN tr ELSE table[t]
    BY <1>1, ChangeRow
  <1>3. \A t \in 1 .. n : /\ table[t].items \in Seq(Shipping!TransferItem)
                          /\ more[t].items \in Seq(Shipping!TransferItem)
    BY <1>1, <1>2 DEF ItemsTyped
  <1>4. /\ TakenFrom(more, row) = TakenFrom(table, row)
             - Taken(tr.source, table[j].items, row) + Taken(tr.source, tr.items, row)
        /\ TakenFrom(table, row) \in Int
    <2>1. PICK v : v = [t \in DOMAIN table |-> Taken(table[t].source, table[t].items, row)]
      OBVIOUS
    <2>2. PICK w : w = [t \in DOMAIN more |-> Taken(more[t].source, more[t].items, row)]
      OBVIOUS
    <2>3. v = [k \in 1 .. n |-> v[k]] /\ w = [k \in 1 .. n |-> w[k]]
      BY <1>1, <1>2, <2>1, <2>2
    <2>4. \A k \in 1 .. n : v[k] \in Int /\ w[k] \in Int
      BY <1>1, <1>2, <1>3, <2>1, <2>2, ItemsAreNatural
    <2>5. \A k \in 1 .. n : k # j => v[k] = w[k]
      BY <1>1, <1>2, <2>1, <2>2
    <2>6. SumOf(w) = SumOf(v) - v[j] + w[j]
      BY <1>2, <2>3, <2>4, <2>5, ColumnSumReplace
    <2>7. SumOf(v) \in Int
      BY <2>3, <2>4, ColumnSumType
    <2>8. v[j] = Taken(tr.source, table[j].items, row) /\ w[j] = Taken(tr.source, tr.items, row)
      BY <1>1, <1>2, <2>1, <2>2
    <2> QED
      BY <2>1, <2>2, <2>6, <2>7, <2>8 DEF TakenFrom
  <1>5. /\ PutInto(more, row) = PutInto(table, row)
             - Put(tr.dest, table[j].items, row) + Put(tr.dest, tr.items, row)
        /\ PutInto(table, row) \in Int
    <2>1. PICK v : v = [t \in DOMAIN table |-> Put(table[t].dest, table[t].items, row)]
      OBVIOUS
    <2>2. PICK w : w = [t \in DOMAIN more |-> Put(more[t].dest, more[t].items, row)]
      OBVIOUS
    <2>3. v = [k \in 1 .. n |-> v[k]] /\ w = [k \in 1 .. n |-> w[k]]
      BY <1>1, <1>2, <2>1, <2>2
    <2>4. \A k \in 1 .. n : v[k] \in Int /\ w[k] \in Int
      BY <1>1, <1>2, <1>3, <2>1, <2>2, ItemsAreNatural
    <2>5. \A k \in 1 .. n : k # j => v[k] = w[k]
      BY <1>1, <1>2, <2>1, <2>2
    <2>6. SumOf(w) = SumOf(v) - v[j] + w[j]
      BY <1>2, <2>3, <2>4, <2>5, ColumnSumReplace
    <2>7. SumOf(v) \in Int
      BY <2>3, <2>4, ColumnSumType
    <2>8. v[j] = Put(tr.dest, table[j].items, row) /\ w[j] = Put(tr.dest, tr.items, row)
      BY <1>1, <1>2, <2>1, <2>2
    <2> QED
      BY <2>1, <2>2, <2>6, <2>7, <2>8 DEF PutInto
  <1> QED
    BY <1>4, <1>5
-----------------------------------------------------------------------------
\* The invariant.

Carriers == {"approve", "ship", "receive", "cancel"}

Working == {"read", "update", "commit"}

TransferSession ==
    [handler : {None} \cup Carriers,
     stage : {"idle", "failed"} \cup Working,
     transfer : Nat,
     loaded : Seq(Shipping!TransferItem), items : Seq(Shipping!TransferItem),
     lines : Seq([item : Nat, quantity : Nat, damaged : Nat]), next : Nat, seen : Nat,
     stock : [Shipping!Rows -> Nat \cup {None}],
     fresh : SUBSET Shipping!Rows, held : SUBSET Shipping!Rows,
     moves : [Shipping!Ledger -> Nat], sound : BOOLEAN,
     error : {None, "exceeds remaining", "insufficient stock", "exceeds shipped", "constraint"}]

\* Versions of the same items.
SameItems(items, others) ==
    /\ DOMAIN items = DOMAIN others
    /\ \A i \in DOMAIN others :
        items[i].product = others[i].product /\ items[i].requested = others[i].requested

\* A session that has moved nothing.
AtRest(s) ==
    /\ \A row \in Shipping!Rows : s.stock[row] = None
    /\ \A k \in Shipping!Ledger : s.moves[k] = 0

\* A shipment holds what it has taken from, and a receipt brings only.
CarriesOut(s, shelf) ==
    \A row \in Shipping!Rows :
        IF s.stock[row] = None THEN s.moves[<<row, "transfer_out">>] = 0
        ELSE /\ row \in s.held /\ shelf[row] \in Nat
             /\ shelf[row] = s.stock[row] + s.moves[<<row, "transfer_out">>]

BringsIn(s, dest) ==
    \A row \in Shipping!Rows :
        s.moves[<<row, "transfer_out">>] = 0 /\ (s.stock[row] # None => row[1] = dest)

\* What a request at work has read, and what of it still holds.
CarrierKnows(s, table, shelf) ==
    s.stage \in Working =>
        /\ s.transfer \in DOMAIN table /\ s.handler \in Carriers
        /\ SameItems(s.items, table[s.transfer].items)
        /\ SameItems(s.loaded, table[s.transfer].items)
        /\ \A n \in 1 .. Len(s.lines) : s.lines[n].item \in DOMAIN s.items
        /\ s.stage # "commit" => s.next \in 1 .. Len(s.lines)
        /\ s.stage = "update" => s.handler = "ship"
        /\ s.handler \in {"approve", "cancel"} =>
            s.stage = "commit" /\ s.items = s.loaded /\ AtRest(s)
        /\ s.handler = "ship" => CarriesOut(s, shelf)
        /\ s.handler = "receive" => BringsIn(s, table[s.transfer].dest)

\* One request at a time: what it read is what there is, and what it is about
\* to write to a row is that and what its items say.
CarrierAlone(s, table, shelf) ==
    s.stage \in Working =>
        /\ table[s.transfer].status \in Shipping!Accepted(s.handler)
        /\ s.loaded = table[s.transfer].items
        /\ \A row \in Shipping!Rows :
            Bottles(Seen(s.stock[row], shelf[row])) = Bottles(shelf[row])
                - (Taken(table[s.transfer].source, s.items, row)
                     - Taken(table[s.transfer].source, s.loaded, row))
                + (Put(table[s.transfer].dest, s.items, row)
                     - Put(table[s.transfer].dest, s.loaded, row))

TransferTyped(tr, statuses) ==
    /\ tr \in [source : Branches, dest : Branches, status : statuses,
               items : Seq(Shipping!TransferItem)]
    /\ \A i \in DOMAIN tr.items : Shipping!ItemChecks(tr.items[i])

TransferTables ==
    /\ IsTable(transfers) /\ Shipping!CheckedStatuses \subseteq admitted
    /\ \A t \in DOMAIN transfers : TransferTyped(transfers[t], admitted)
    /\ on_hand \in [Shipping!Rows -> Nat \cup {None}]
    /\ moved \in [Shipping!Ledger -> Nat]

Deployed == admitted = Shipping!CheckedStatuses

TransferBooks ==
    /\ Shipping!NothingShips
    /\ Shipping!OutboundIsLedgered
    /\ Serial => Shipping!BottlesConserved
    /\ Serial => \A t \in DOMAIN transfers :
        transfers[t].status \in {"draft", "pending", "cancelled"} =>
            \A i \in DOMAIN transfers[t].items : transfers[t].items[i].shipped = 0

TransferSessions ==
    /\ transfer_session = [r \in Requests |-> transfer_session[r]]
    /\ \A r \in Requests :
        LET s == transfer_session[r] IN
        /\ s \in TransferSession
        /\ CarrierKnows(s, transfers, on_hand)
        /\ Serial => CarrierAlone(s, transfers, on_hand)
        /\ Deployed /\ s.stage \in Working => s.handler \in {"approve", "cancel"}

OneCarrier ==
    Serial => \A r, q \in Requests :
        transfer_session[r].stage # "idle" /\ transfer_session[q].stage # "idle" => r = q

TransfersInv == TransferTables /\ TransferBooks /\ TransferSessions /\ OneCarrier

\* The invariant says what the runs check.
LEMMA TransfersAgree ==
    TransfersInv => TransfersConserveBottles
  <1> SUFFICES ASSUME TransfersInv PROVE TransfersConserveBottles
    OBVIOUS
  <1>1. Shipping!QuantityChain
    BY DEF TransfersInv, TransferTables, TransferTyped, Shipping!QuantityChain, Shipping!ItemChecks
  <1>2. Serial => Shipping!CancelledMovedNothing
    BY DEF TransfersInv, TransferBooks, Shipping!CancelledMovedNothing
  <1> QED
    BY <1>1, <1>2 DEF TransfersInv, TransferBooks, TransfersConserveBottles
-----------------------------------------------------------------------------
\* Steps.

\* The books depend on the tables only.
LEMMA TransfersStay ==
    ASSUME TransferTables, TransferBooks, UNCHANGED <<transfers, on_hand, moved, admitted, workload>>
    PROVE  TransferTables' /\ TransferBooks'
  <1>1. /\ transfers' = transfers /\ on_hand' = on_hand /\ moved' = moved /\ admitted' = admitted
        /\ workload' = workload
    OBVIOUS
  <1>2. Shipping!NothingShips'
    BY <1>1 DEF TransferBooks, Shipping!NothingShips
  <1>3. Shipping!OutboundIsLedgered'
    BY <1>1 DEF TransferBooks, Shipping!OutboundIsLedgered
  <1>4. Serial' = Serial
    BY <1>1 DEF Serial
  <1>5. Serial => Shipping!BottlesConserved'
    <2>1. Shipping!BottlesConserved => Shipping!BottlesConserved'
      BY <1>1 DEF Shipping!BottlesConserved, Shipping!TakenBy, Shipping!PutBy
    <2> QED
      BY <2>1 DEF TransferBooks
  <1>6. TransferBooks'
    BY <1>1, <1>2, <1>3, <1>4, <1>5 DEF TransferBooks
  <1>7. TransferTables'
    BY <1>1 DEF TransferTables
  <1> QED
    BY <1>6, <1>7

\* A session not at work has no expectations.
LEMMA NothingCarried ==
    ASSUME NEW s, s.stage \in {"idle", "failed"}, NEW table, NEW shelf
    PROVE  CarrierKnows(s, table, shelf) /\ CarrierAlone(s, table, shelf) /\ s.stage \notin Working
  BY DEF CarrierKnows, CarrierAlone, Working

\* The session at the start of every request.
LEMMA IdleCarrier ==
    /\ Shipping!IdleSession \in TransferSession /\ AtRest(Shipping!IdleSession)
    /\ Shipping!IdleSession.stage = "idle"
  <1>1. <<>> \in Seq(Shipping!TransferItem)
        /\ <<>> \in Seq([item : Nat, quantity : Nat, damaged : Nat])
    OBVIOUS
  <1>2. PICK t : t = [row \in Shipping!Rows |-> None]
    OBVIOUS
  <1>3. PICK m : m = [k \in Shipping!Ledger |-> 0]
    OBVIOUS
  <1>4. t \in [Shipping!Rows -> Nat \cup {None}] /\ m \in [Shipping!Ledger -> Nat]
    BY <1>2, <1>3
  <1>5. Shipping!IdleSession =
           [handler |-> None, stage |-> "idle", transfer |-> 0, loaded |-> <<>>, items |-> <<>>,
            lines |-> <<>>, next |-> 1, seen |-> 0, stock |-> t, fresh |-> {}, held |-> {},
            moves |-> m, sound |-> TRUE, error |-> None]
    BY <1>2, <1>3 DEF Shipping!IdleSession
  <1>6. Shipping!IdleSession \in TransferSession
    BY <1>1, <1>4, <1>5 DEF TransferSession
  <1>7. AtRest(Shipping!IdleSession)
    BY <1>2, <1>3, <1>5 DEF AtRest
  <1> QED
    BY <1>5, <1>6, <1>7

\* What the invariant says of a session.
LEMMA CarrierIs ==
    ASSUME TransfersInv, NEW r \in Requests, NEW s, s = transfer_session[r]
    PROVE  /\ s \in TransferSession
           /\ CarrierKnows(s, transfers, on_hand)
           /\ Serial => CarrierAlone(s, transfers, on_hand)
           /\ Deployed /\ s.stage \in Working => s.handler \in {"approve", "cancel"}
  BY DEF TransfersInv, TransferSessions

\* A step that changes one session and no table.
LEMMA CarrierMoves ==
    ASSUME TransfersInv, NEW r \in Requests, NEW s \in TransferSession,
           transfer_session' = [transfer_session EXCEPT ![r] = s],
           UNCHANGED <<transfers, on_hand, moved, admitted, workload>>, OneCarrier',
           CarrierKnows(s, transfers, on_hand),
           Serial => CarrierAlone(s, transfers, on_hand),
           Deployed /\ s.stage \in Working => s.handler \in {"approve", "cancel"}
    PROVE  TransfersInv'
  <1>1. /\ transfer_session' = [q \in Requests |-> transfer_session'[q]] /\ transfer_session'[r] = s
        /\ \A q \in Requests \ {r} : transfer_session'[q] = transfer_session[q]
    BY DEF TransfersInv, TransferSessions
  <1>2. /\ transfers' = transfers /\ on_hand' = on_hand /\ Serial' = Serial /\ Deployed' = Deployed
    BY DEF Serial, Deployed
  <1>3. TransferTables' /\ TransferBooks'
    BY TransfersStay DEF TransfersInv
  <1>4. ASSUME NEW q \in Requests, NEW t, t = transfer_session'[q]
        PROVE  /\ t \in TransferSession
               /\ CarrierKnows(t, transfers, on_hand)
               /\ Serial => CarrierAlone(t, transfers, on_hand)
               /\ Deployed /\ t.stage \in Working => t.handler \in {"approve", "cancel"}
    BY <1>1, <1>4, CarrierIs
  <1>5. TransferSessions'
    BY <1>1, <1>2, <1>4 DEF TransferSessions
  <1> QED
    BY <1>3, <1>5 DEF TransfersInv

\* A transaction fails or is closed.
LEMMA CarrierGivesUp ==
    ASSUME TransfersInv, NEW r \in Requests,
           NEW error \in {"exceeds remaining", "insufficient stock", "exceeds shipped", "constraint"},
           Shipping!Fail(r, error) \/ Shipping!Rollback(r),
           workload' = workload, OneCarrier'
    PROVE  TransfersInv'
  <1>1. PICK t : t = transfer_session[r]
    OBVIOUS
  <1>2. t \in TransferSession
    BY <1>1, CarrierIs
  <1>3. PICK s : s \in TransferSession /\ s.stage \in {"idle", "failed"}
                 /\ transfer_session' = [transfer_session EXCEPT ![r] = s]
                 /\ UNCHANGED <<transfers, on_hand, moved, admitted>>
    <2>1. CASE Shipping!Fail(r, error)
      <3>1. PICK s : s = [t EXCEPT !.stage = "failed", !.error = error]
        OBVIOUS
      <3>2. s \in TransferSession /\ s.stage = "failed"
        BY <1>2, <3>1 DEF TransferSession
      <3>3. transfer_session' = [transfer_session EXCEPT ![r] = s]
            /\ UNCHANGED <<transfers, on_hand, moved, admitted>>
        BY <1>1, <2>1, <3>1 DEF Shipping!Fail, Shipping!Continue, Shipping!tables
      <3> QED
        BY <3>2, <3>3
    <2>2. CASE Shipping!Rollback(r)
      BY <2>2, IdleCarrier DEF Shipping!Rollback, Shipping!Continue, Shipping!tables
    <2> QED
      BY <2>1, <2>2
  <1>4. /\ CarrierKnows(s, transfers, on_hand) /\ CarrierAlone(s, transfers, on_hand)
        /\ s.stage \notin Working
    <2>1. s.stage \in {"idle", "failed"}
      BY <1>3
    <2> QED
      BY <2>1 DEF CarrierKnows, CarrierAlone, Working
  <1> QED
    BY <1>3, <1>4, CarrierMoves

\* The columns of a transfer.
LEMMA TransferColumns ==
    ASSUME NEW tr, NEW statuses, TransferTyped(tr, statuses)
    PROVE  /\ tr.source \in Branches /\ tr.dest \in Branches /\ tr.status \in statuses
           /\ tr.items \in Seq(Shipping!TransferItem)
           /\ \A i \in DOMAIN tr.items : Shipping!ItemChecks(tr.items[i])
  BY DEF TransferTyped

\* A new transfer has moved nothing.
LEMMA CreateTransferStep ==
    ASSUME TransfersInv, NEW r \in Requests, NEW source \in Branches, NEW dest \in Branches,
           NEW list \in ItemsMoved, Shipping!CreateTransfer(r, source, dest, list),
           workload' = workload, OneCarrier'
    PROVE  TransfersInv'
  <1>1. PICK items : items = [i \in DOMAIN list |->
                [product |-> list[i].product, requested |-> list[i].quantity,
                 shipped |-> 0, received |-> 0, damaged |-> 0]]
    OBVIOUS
  <1>2. /\ items \in Seq(Shipping!TransferItem)
        /\ \A i \in DOMAIN items : /\ Shipping!ItemChecks(items[i])
                                   /\ items[i].shipped = 0 /\ items[i].received = 0
    <2>0. PICK L : L = [product : Products, quantity : Nat \ {0}] /\ list \in Seq(L)
      BY TransfersAssumption
    <2>1. PICK n \in Nat : n = Len(list) /\ DOMAIN list = 1 .. n
            /\ \A i \in 1 .. n : list[i] \in L
      <3>1. list \in Seq(L)
        BY <2>0
      <3>2. Len(list) \in Nat /\ DOMAIN list = 1 .. Len(list) /\ \A i \in 1 .. Len(list) : list[i] \in L
        BY <3>1
      <3> QED
        BY <3>2
    <2>2. ASSUME NEW i \in 1 .. n
          PROVE  /\ items[i] \in Shipping!TransferItem /\ items[i].shipped = 0
                 /\ items[i].received = 0 /\ Shipping!ItemChecks(items[i])
      BY <1>1, <2>0, <2>1 DEF Shipping!TransferItem, Shipping!ItemChecks
    <2>3. items = [i \in 1 .. n |-> items[i]] /\ DOMAIN items = 1 .. n
      BY <1>1, <2>1
    <2>4. IsTable(items)
      BY <2>3, TableOf
    <2>5. items \in Seq(Shipping!TransferItem)
      BY <2>2, <2>3, <2>4, TableIn
    <2> QED
      BY <2>2, <2>3, <2>5
  <1>3. PICK tr : tr = [source |-> source, dest |-> dest, status |-> "draft", items |-> items]
    OBVIOUS
  <1>4. /\ tr.items = items /\ tr.status = "draft" /\ tr.dest = dest /\ tr.source = source
        /\ TransferTyped(tr, admitted)
    <2>1. "draft" \in admitted
      BY DEF TransfersInv, TransferTables, Shipping!CheckedStatuses
    <2> QED
      BY <1>2, <1>3, <2>1 DEF TransferTyped
  <1>5. PICK more : more = transfers'
    OBVIOUS
  <1>6. /\ more = WithRow(transfers, tr) /\ transfer_session' = transfer_session
        /\ on_hand' = on_hand /\ moved' = moved /\ admitted' = admitted
    BY <1>1, <1>3, <1>5 DEF Shipping!CreateTransfer, WithRow
  <1>7. PICK n \in Nat : n = Len(transfers) /\ DOMAIN transfers = 1 .. n
    BY TableIs DEF TransfersInv, TransferTables
  <1>8. /\ IsTable(more) /\ DOMAIN more = 1 .. n + 1
        /\ \A t \in 1 .. n : more[t] = transfers[t]
        /\ more[n + 1] = tr
    <2>1. IsTable(transfers)
      BY DEF TransfersInv, TransferTables
    <2> QED
      BY <1>6, <1>7, <2>1, AppendRow
  <1>9. \A t \in 1 .. n + 1 : TransferTyped(more[t], admitted)
    <2>1. \A t \in 1 .. n : TransferTyped(more[t], admitted)
      BY <1>7, <1>8 DEF TransfersInv, TransferTables
    <2> QED
      BY <1>4, <1>7, <1>8, <2>1
  <1>10. TransferTables'
    BY <1>5, <1>6, <1>8, <1>9 DEF TransfersInv, TransferTables
  <1>11. Serial' = Serial /\ Deployed' = Deployed
    BY <1>6 DEF Serial, Deployed
  <1>12. TransferBooks'
    <2>1. Shipping!NothingShips'
      <3>1. Deployed => \A t \in 1 .. n : more[t].status \in {"draft", "cancelled"}
        BY <1>7, <1>8 DEF TransfersInv, TransferBooks, Shipping!NothingShips, Deployed
      <3>2. Deployed => on_hand = Opening
        BY DEF TransfersInv, TransferBooks, Shipping!NothingShips, Deployed
      <3>3. Deployed => \A t \in 1 .. n + 1 : more[t].status \in {"draft", "cancelled"}
        BY <1>4, <1>7, <1>8, <3>1
      <3> QED
        BY <1>5, <1>6, <1>8, <3>2, <3>3 DEF Shipping!NothingShips, Deployed
    <2>2. Shipping!OutboundIsLedgered'
      <3>1. ASSUME NEW row \in Shipping!Rows, \A t \in DOMAIN more : more[t].dest # row[1],
                   Opening[row] # None
            PROVE  on_hand[row] = Opening[row] - moved[<<row, "transfer_out">>]
        <4>1. \A t \in DOMAIN transfers : transfers[t].dest # row[1]
          BY <1>7, <1>8, <3>1
        <4> QED
          BY <3>1, <4>1 DEF TransfersInv, TransferBooks, Shipping!OutboundIsLedgered
      <3> QED
        BY <1>5, <1>6, <3>1 DEF Shipping!OutboundIsLedgered
    <2>3. Serial => Shipping!BottlesConserved'
      <3>1. ItemsTyped(transfers) /\ IsTable(transfers)
        BY TransferColumns DEF TransfersInv, TransferTables, ItemsTyped
      <3>2. \A row : /\ TakenFrom(more, row) = TakenFrom(transfers, row)
                     /\ PutInto(more, row) = PutInto(transfers, row)
        BY <1>2, <1>4, <1>6, <3>1, TransferAdds
      <3>3. Serial => \A row \in Shipping!Rows :
                Bottles(on_hand[row]) =
                    Bottles(Opening[row]) - TakenFrom(transfers, row) + PutInto(transfers, row)
        BY ConservedIs DEF TransfersInv, TransferBooks
      <3>4. (\A row \in Shipping!Rows :
                Bottles(on_hand'[row]) =
                    Bottles(Opening[row]) - TakenFrom(transfers', row) + PutInto(transfers', row))
            => Shipping!BottlesConserved'
        BY ConservedNext
      <3> QED
        BY <1>5, <1>6, <3>2, <3>3, <3>4
    <2>4. ASSUME Serial, NEW t \in DOMAIN more, more[t].status \in {"draft", "pending", "cancelled"},
                 NEW i \in DOMAIN more[t].items
          PROVE  more[t].items[i].shipped = 0
      <3>1. CASE t \in 1 .. n
        BY <1>7, <1>8, <2>4, <3>1 DEF TransfersInv, TransferBooks
      <3>2. CASE t = n + 1
        BY <1>2, <1>4, <1>8, <2>4, <3>2
      <3> QED
        BY <1>7, <1>8, <3>1, <3>2
    <2> QED
      BY <1>5, <1>11, <2>1, <2>2, <2>3, <2>4 DEF TransferBooks
  <1>13. ASSUME NEW q \in Requests, NEW s, s = transfer_session[q]
         PROVE  /\ CarrierKnows(s, more, on_hand)
                /\ Serial => CarrierAlone(s, more, on_hand)
    <2>1. /\ CarrierKnows(s, transfers, on_hand)
          /\ Serial => CarrierAlone(s, transfers, on_hand)
      BY <1>13, CarrierIs
    <2>2. s.stage \in Working =>
            /\ s.transfer \in DOMAIN transfers
            /\ s.transfer \in DOMAIN more /\ more[s.transfer] = transfers[s.transfer]
      BY <1>7, <1>8, <2>1 DEF CarrierKnows
    <2>3. CarrierKnows(s, more, on_hand)
      BY <2>1, <2>2 DEF CarrierKnows
    <2>4. Serial => CarrierAlone(s, more, on_hand)
      BY <2>1, <2>2 DEF CarrierAlone
    <2> QED
      BY <2>3, <2>4
  <1>14. TransferSessions'
    BY <1>5, <1>6, <1>11, <1>13 DEF TransfersInv, TransferSessions
  <1> QED
    BY <1>10, <1>12, <1>14 DEF TransfersInv
CarrierLine == [item : Nat, quantity : Nat, damaged : Nat]

\* A body has a line, and every line names an item of the transfer.
LEMMA BodiesNameItems ==
    ASSUME NEW t, NEW items, items = transfers[t].items, items \in Seq(Shipping!TransferItem),
           NEW damages \in SUBSET Nat, NEW lines \in Shipping!Lines(t, damages)
    PROVE  /\ lines \in Seq(CarrierLine) /\ lines # <<>>
           /\ \A n \in 1 .. Len(lines) : lines[n].item \in DOMAIN items
  <1>1. PICK k \in Nat : DOMAIN items = 1 .. k
    OBVIOUS
  <1>2. PICK L : L = [item : 1 .. k, quantity : Counts, damaged : damages]
    OBVIOUS
  <1>3. PICK n \in 1 .. k : lines \in [1 .. n -> L]
    BY <1>1, <1>2 DEF Shipping!Lines
  <1>4. \A line \in L : line \in CarrierLine /\ line.item \in 1 .. k
    <2>1. Counts \subseteq Nat
      BY TransfersAssumption
    <2>2. ASSUME NEW line \in L
          PROVE  line \in CarrierLine /\ line.item \in 1 .. k
      <3>1. PICK i \in 1 .. k, q \in Nat, d \in Nat : line = [item |-> i, quantity |-> q, damaged |-> d]
        BY <1>2, <2>1
      <3> QED
        BY <3>1 DEF CarrierLine
    <2> QED
      BY <2>2
  <1>5. lines = [m \in 1 .. n |-> lines[m]] /\ \A m \in 1 .. n : lines[m] \in L
    BY <1>3
  <1>6. IsTable(lines) /\ Len(lines) = n
    BY <1>5, TableOf
  <1>7. DOMAIN lines = 1 .. n /\ lines \in Seq(CarrierLine)
    BY <1>4, <1>5, <1>6, TableIn
  <1>8. lines # <<>>
    <2>1. n # 0
      OBVIOUS
    <2>2. Len(<<>>) = 0
      OBVIOUS
    <2> QED
      BY <1>6, <2>1, <2>2
  <1> QED
    BY <1>1, <1>4, <1>5, <1>6, <1>7, <1>8

\* What the invariant says of the tables.
LEMMA ShelvesTyped ==
    ASSUME TransfersInv
    PROVE  /\ IsTable(transfers) /\ ItemsTyped(transfers)
           /\ \A t \in DOMAIN transfers : TransferTyped(transfers[t], admitted) /\ t \in Nat
           /\ on_hand \in [Shipping!Rows -> Nat \cup {None}]
           /\ \A row \in Shipping!Rows : on_hand[row] \in Nat \cup {None}
           /\ \A row \in Shipping!Rows : Bottles(on_hand[row]) \in Nat
           /\ moved \in [Shipping!Ledger -> Nat]
  <1>1. IsTable(transfers) /\ on_hand \in [Shipping!Rows -> Nat \cup {None}]
        /\ moved \in [Shipping!Ledger -> Nat]
        /\ \A t \in DOMAIN transfers : TransferTyped(transfers[t], admitted)
    BY DEF TransfersInv, TransferTables
  <1>2. ItemsTyped(transfers)
    BY <1>1, TransferColumns DEF ItemsTyped
  <1>3. \A t \in DOMAIN transfers : t \in Nat
    BY <1>1, TableIs
  <1>4. \A row \in Shipping!Rows : on_hand[row] \in Nat \cup {None} /\ Bottles(on_hand[row]) \in Nat
    BY <1>1 DEF Bottles
  <1> QED
    BY <1>1, <1>2, <1>3, <1>4

\* A handler reads the transfer.
LEMMA LoadTransferStep ==
    ASSUME TransfersInv, NEW r \in Requests, NEW handler \in Carriers, NEW t \in DOMAIN transfers,
           NEW lines \in Seq(CarrierLine),
           \A n \in 1 .. Len(lines) : lines[n].item \in DOMAIN transfers[t].items,
           handler \in {"approve", "cancel"} => lines = <<>>,
           Shipping!LoadTransfer(r, handler, t, lines), workload' = workload, OneCarrier'
    PROVE  TransfersInv'
  <1>1. PICK tr : tr = transfers[t]
    OBVIOUS
  <1>2. t \in Nat /\ TransferTyped(tr, admitted)
    BY <1>1, ShelvesTyped
  <1>3. PICK items \in Seq(Shipping!TransferItem) : items = tr.items
    BY <1>2, TransferColumns
  <1>4. PICK stage \in {"commit", "read"} : stage = IF lines = <<>> THEN "commit" ELSE "read"
    OBVIOUS
  <1>5. PICK s : s = [Shipping!IdleSession EXCEPT !.handler = handler, !.transfer = t,
                        !.lines = lines, !.loaded = items, !.items = items, !.stage = stage]
    OBVIOUS
  <1>6. /\ transfer_session' = [transfer_session EXCEPT ![r] = s]
        /\ UNCHANGED <<transfers, on_hand, moved, admitted>>
        /\ tr.status \in Shipping!Accepted(handler)
    BY <1>1, <1>3, <1>4, <1>5 DEF Shipping!LoadTransfer, Shipping!tables
  <1>7. /\ s \in TransferSession /\ s.handler = handler /\ s.transfer = t /\ s.lines = lines
        /\ s.loaded = items /\ s.items = items /\ s.stage = stage /\ s.next = 1
        /\ s.stock = Shipping!IdleSession.stock /\ s.moves = Shipping!IdleSession.moves
    <2>1. Shipping!IdleSession \in TransferSession /\ Shipping!IdleSession.next = 1
      BY IdleCarrier DEF Shipping!IdleSession
    <2> QED
      BY <1>2, <1>5, <2>1 DEF TransferSession, Working, CarrierLine
  <1>8. AtRest(s)
    BY <1>7, IdleCarrier DEF AtRest
  <1>9. CarrierKnows(s, transfers, on_hand)
    <2>1. SameItems(items, transfers[t].items)
      BY <1>1, <1>3 DEF SameItems
    <2>2. stage # "commit" => 1 \in 1 .. Len(lines)
      <3>1. lines # <<>> => Len(lines) \in Nat \ {0}
        OBVIOUS
      <3> QED
        BY <1>4, <3>1
    <2>3. CarriesOut(s, on_hand)
      <3>1. \A row \in Shipping!Rows : <<row, "transfer_out">> \in Shipping!Ledger
        BY DEF Shipping!Ledger, Shipping!MovementTypes
      <3> QED
        BY <1>8, <3>1 DEF AtRest, CarriesOut
    <2>4. BringsIn(s, transfers[t].dest)
      <3>1. \A row \in Shipping!Rows : <<row, "transfer_out">> \in Shipping!Ledger
        BY DEF Shipping!Ledger, Shipping!MovementTypes
      <3> QED
        BY <1>8, <3>1 DEF AtRest, BringsIn
    <2>5. \A n \in 1 .. Len(lines) : lines[n].item \in DOMAIN items
      BY <1>1, <1>3
    <2>6. stage # "update" /\ (handler \in {"approve", "cancel"} => stage = "commit")
      BY <1>4
    <2> QED
      BY <1>7, <1>8, <2>1, <2>2, <2>3, <2>4, <2>5, <2>6 DEF CarrierKnows
  <1>10. CarrierAlone(s, transfers, on_hand)
    <2>1. ASSUME NEW row \in Shipping!Rows
          PROVE  Bottles(Seen(s.stock[row], on_hand[row])) = Bottles(on_hand[row])
                    - (Taken(tr.source, items, row) - Taken(tr.source, items, row))
                    + (Put(tr.dest, items, row) - Put(tr.dest, items, row))
      <3>1. s.stock[row] = None
        BY <1>8 DEF AtRest
      <3>2. Seen(s.stock[row], on_hand[row]) = on_hand[row]
        BY <3>1 DEF Seen
      <3>3. Taken(tr.source, items, row) \in Nat /\ Put(tr.dest, items, row) \in Nat
        BY ItemsAreNatural
      <3>4. Bottles(on_hand[row]) \in Nat
        BY ShelvesTyped
      <3> QED
        BY <3>2, <3>3, <3>4
    <2> QED
      BY <1>1, <1>3, <1>6, <1>7, <2>1 DEF CarrierAlone
  <1>11. Deployed /\ s.stage \in Working => s.handler \in {"approve", "cancel"}
    <2>1. Deployed => tr.status \in {"draft", "cancelled"}
      BY <1>1 DEF TransfersInv, TransferBooks, Shipping!NothingShips, Deployed
    <2>2. tr.status = "draft" \/ tr.status = "cancelled" => handler \notin {"ship", "receive"}
      BY <1>6 DEF Shipping!Accepted
    <2> QED
      BY <1>7, <2>1, <2>2 DEF Carriers
  <1> QED
    BY <1>6, <1>7, <1>9, <1>10, <1>11, CarrierMoves

\* Every request begins with a creation or with a read.
LEMMA TransferBeginsStep ==
    ASSUME TransfersInv, NEW r \in Requests, Shipping!BeginSome(r), workload' = workload, OneCarrier'
    PROVE  TransfersInv'
  <1>1. CASE \E source, dest \in Branches, list \in ItemsMoved :
                Shipping!CreateTransfer(r, source, dest, list)
    BY <1>1, CreateTransferStep
  <1>2. ASSUME NEW t \in DOMAIN transfers, NEW handler \in {"approve", "cancel"},
               Shipping!LoadTransfer(r, handler, t, <<>>)
        PROVE  TransfersInv'
    <2>1. <<>> \in Seq(CarrierLine) /\ 1 .. Len(<<>>) = {}
      OBVIOUS
    <2>2. handler \in Carriers
      BY DEF Carriers
    <2> QED
      BY <1>2, <2>1, <2>2, LoadTransferStep
  <1>3. ASSUME NEW t \in DOMAIN transfers, NEW handler \in {"ship", "receive"},
               NEW damages \in SUBSET Nat, NEW lines \in Shipping!Lines(t, damages),
               Shipping!LoadTransfer(r, handler, t, lines)
        PROVE  TransfersInv'
    <2>1. transfers[t].items \in Seq(Shipping!TransferItem)
      BY ShelvesTyped DEF ItemsTyped
    <2>2. /\ lines \in Seq(CarrierLine)
          /\ \A n \in 1 .. Len(lines) : lines[n].item \in DOMAIN transfers[t].items
      BY <2>1, BodiesNameItems
    <2>3. handler \in Carriers /\ handler \notin {"approve", "cancel"}
      BY DEF Carriers
    <2> QED
      BY <1>3, <2>2, <2>3, LoadTransferStep
  <1>4. {0} \in SUBSET Nat /\ Damages \in SUBSET Nat
    BY TransfersAssumption
  <1> QED
    BY <1>1, <1>2, <1>3, <1>4 DEF Shipping!BeginSome
\* The line a request works on.
LEMMA LineAtHand ==
    ASSUME TransfersInv, NEW r \in Requests, NEW s, s = transfer_session[r],
           s.stage \in {"read", "update"}
    PROVE  /\ s \in TransferSession /\ s.transfer \in DOMAIN transfers /\ s.handler \in {"ship", "receive"}
           /\ ~Deployed
           /\ SameItems(s.items, transfers[s.transfer].items)
           /\ CarrierKnows(s, transfers, on_hand)
           /\ Serial => CarrierAlone(s, transfers, on_hand)
           /\ s.next \in 1 .. Len(s.lines)
           /\ s.lines[s.next] \in CarrierLine /\ s.lines[s.next].item \in DOMAIN s.items
           /\ s.handler = "ship" => CarriesOut(s, on_hand)
           /\ s.handler = "receive" => BringsIn(s, transfers[s.transfer].dest)
  <1>1. /\ s \in TransferSession
        /\ CarrierKnows(s, transfers, on_hand)
        /\ Serial => CarrierAlone(s, transfers, on_hand)
        /\ Deployed /\ s.stage \in Working => s.handler \in {"approve", "cancel"}
    BY CarrierIs
  <1>2. s.stage \in Working /\ s.stage # "commit"
    BY DEF Working
  <1>3. /\ s.transfer \in DOMAIN transfers /\ s.handler \in Carriers
        /\ s.next \in 1 .. Len(s.lines)
        /\ SameItems(s.items, transfers[s.transfer].items)
        /\ \A n \in 1 .. Len(s.lines) : s.lines[n].item \in DOMAIN s.items
        /\ s.handler \notin {"approve", "cancel"}
        /\ s.handler = "ship" => CarriesOut(s, on_hand)
        /\ s.handler = "receive" => BringsIn(s, transfers[s.transfer].dest)
    BY <1>1, <1>2 DEF CarrierKnows
  <1>4. s.lines[s.next] \in CarrierLine
    <2>1. s.lines \in Seq(CarrierLine)
      BY <1>1 DEF TransferSession, CarrierLine
    <2> QED
      BY <1>3, <2>1
  <1>5. s.handler \in {"ship", "receive"} /\ ~Deployed
    BY <1>1, <1>2, <1>3 DEF Carriers
  <1> QED
    BY <1>1, <1>3, <1>4, <1>5

\* The rows of the items are rows of the inventory.
LEMMA RowsAtHand ==
    ASSUME TransfersInv, NEW r \in Requests, NEW s, s = transfer_session[r],
           s.stage \in {"read", "update"}
    PROVE  Shipping!SourceRow(s) \in Shipping!Rows /\ Shipping!DestRow(s) \in Shipping!Rows
  <1>1. s.lines[s.next].item \in DOMAIN s.items /\ s \in TransferSession
        /\ s.transfer \in DOMAIN transfers
    BY LineAtHand
  <1>2. s.items \in Seq(Shipping!TransferItem)
    BY <1>1 DEF TransferSession
  <1>3. s.items[s.lines[s.next].item].product \in Products
    <2>1. s.items[s.lines[s.next].item] \in Shipping!TransferItem
      BY <1>1, <1>2
    <2> QED
      BY <2>1, ItemQuantities
  <1>4. transfers[s.transfer].source \in Branches /\ transfers[s.transfer].dest \in Branches
    <2>1. TransferTyped(transfers[s.transfer], admitted)
      BY <1>1, ShelvesTyped
    <2> QED
      BY <2>1, TransferColumns
  <1> QED
    BY <1>3, <1>4 DEF Shipping!SourceRow, Shipping!DestRow, Shipping!Line, Shipping!Rows

\* ship_transfer checks an item and reads its row.
LEMMA ReadSourceStep ==
    ASSUME TransfersInv, NEW r \in Requests, Shipping!ReadSource(r), workload' = workload, OneCarrier'
    PROVE  TransfersInv'
  <1>1. PICK t : t = transfer_session[r]
    OBVIOUS
  <1>2. t.stage = "read" /\ t.handler = "ship"
    BY <1>1 DEF Shipping!ReadSource
  <1>3. CASE Shipping!Fail(r, "exceeds remaining")
    BY <1>3, CarrierGivesUp
  <1>4. CASE ~Shipping!Fail(r, "exceeds remaining")
    <2>1. PICK seen : seen = IF Shipping!Visible(t, Shipping!SourceRow(t)) = None
                             THEN 0 ELSE Shipping!Visible(t, Shipping!SourceRow(t))
      OBVIOUS
    <2>2. PICK s : s = [t EXCEPT !.stage = "update", !.seen = seen]
      OBVIOUS
    <2>3. transfer_session' = [transfer_session EXCEPT ![r] = s]
          /\ UNCHANGED <<transfers, on_hand, moved, admitted>>
      BY <1>1, <1>4, <2>1, <2>2 DEF Shipping!ReadSource, Shipping!Continue, Shipping!tables
    <2>4. /\ t \in TransferSession /\ ~Deployed
          /\ CarrierKnows(t, transfers, on_hand)
          /\ Serial => CarrierAlone(t, transfers, on_hand)
      BY <1>1, <1>2, LineAtHand
    <2>5. seen \in Nat
      <3>1. PICK row \in Shipping!Rows : row = Shipping!SourceRow(t)
        BY <1>1, <1>2, RowsAtHand
      <3>2. t.stock[row] \in Nat \cup {None} /\ on_hand[row] \in Nat \cup {None}
        BY <2>4, ShelvesTyped DEF TransferSession
      <3> QED
        BY <2>1, <3>1, <3>2 DEF Shipping!Visible
    <2>6. /\ s \in TransferSession /\ s.stage = "update" /\ s.handler = t.handler
          /\ s.transfer = t.transfer /\ s.lines = t.lines /\ s.items = t.items
          /\ s.loaded = t.loaded /\ s.next = t.next /\ s.stock = t.stock /\ s.held = t.held
          /\ s.moves = t.moves
      BY <2>2, <2>4, <2>5 DEF TransferSession, Working
    <2>7. CarrierKnows(s, transfers, on_hand)
      <3>1. CarriesOut(t, on_hand) => CarriesOut(s, on_hand)
        BY <2>6 DEF CarriesOut
      <3> QED
        BY <1>2, <2>4, <2>6, <3>1 DEF CarrierKnows, Working
    <2>8. Serial => CarrierAlone(s, transfers, on_hand)
      BY <1>2, <2>4, <2>6 DEF CarrierAlone, Working
    <2> QED
      BY <2>3, <2>4, <2>6, <2>7, <2>8, CarrierMoves
  <1> QED
    BY <1>3, <1>4
\* A row of the ledger.
LEMMA LedgerRows ==
    ASSUME NEW row \in Shipping!Rows
    PROVE  /\ <<row, "transfer_out">> \in Shipping!Ledger /\ <<row, "transfer_in">> \in Shipping!Ledger
           /\ <<row, "damage">> \in Shipping!Ledger
  BY DEF Shipping!Ledger, Shipping!MovementTypes

\* A movement more.
LEMMA MovementAdds ==
    ASSUME NEW moves \in [Shipping!Ledger -> Nat], NEW row \in Shipping!Rows,
           NEW type \in {"transfer_out", "transfer_in", "damage"}, NEW q \in Nat,
           NEW more, more = Shipping!Recorded(moves, row, type, q)
    PROVE  /\ more \in [Shipping!Ledger -> Nat]
           /\ more[<<row, type>>] = moves[<<row, type>>] + q
           /\ \A k \in Shipping!Ledger : k # <<row, type>> => more[k] = moves[k]
  <1>1. <<row, type>> \in Shipping!Ledger
    BY LedgerRows
  <1>2. more = [moves EXCEPT ![<<row, type>>] = moves[<<row, type>>] + q]
    BY DEF Shipping!Recorded
  <1>3. moves[<<row, type>>] + q \in Nat
    BY <1>1
  <1> QED
    BY <1>1, <1>2, <1>3

\* The end of a line.
LEMMA LineEnds ==
    ASSUME NEW s, s.next \in 1 .. Len(s.lines), s.lines \in Seq(CarrierLine),
           NEW stage, stage = IF s.next < Len(s.lines) THEN "read" ELSE "commit",
           NEW n, n = s.next + 1
    PROVE  stage \in {"read", "commit"} /\ n \in Nat /\ (stage # "commit" => n \in 1 .. Len(s.lines))
  <1>1. Len(s.lines) \in Nat
    OBVIOUS
  <1> QED
    BY <1>1

\* ship_transfer takes an item from the shelf, as far as there is.
LEMMA DeductSourceStep ==
    ASSUME TransfersInv, NEW r \in Requests, Shipping!DeductSource(r), workload' = workload, OneCarrier'
    PROVE  TransfersInv'
  <1>1. PICK t : t = transfer_session[r]
    OBVIOUS
  <1>2. t.stage = "update"
    BY <1>1 DEF Shipping!DeductSource
  <1>3. CASE Shipping!Fail(r, "insufficient stock")
    BY <1>3, CarrierGivesUp
  <1>4. CASE ~Shipping!Fail(r, "insufficient stock")
    <2>1. /\ t \in TransferSession /\ t.transfer \in DOMAIN transfers /\ ~Deployed
          /\ CarrierKnows(t, transfers, on_hand)
          /\ Serial => CarrierAlone(t, transfers, on_hand)
          /\ t.next \in 1 .. Len(t.lines) /\ t.lines[t.next] \in CarrierLine
          /\ t.lines[t.next].item \in DOMAIN t.items
          /\ t.handler = "ship" => CarriesOut(t, on_hand)
          /\ SameItems(t.items, transfers[t.transfer].items)
      BY <1>1, <1>2, LineAtHand
    <2>2. t.handler = "ship" /\ CarriesOut(t, on_hand)
      BY <1>2, <2>1 DEF CarrierKnows, Working
    <2>3. PICK row \in Shipping!Rows : row = Shipping!SourceRow(t)
      BY <1>1, <1>2, RowsAtHand
    <2>4. PICK q \in Nat : q = t.lines[t.next].quantity
      BY <2>1 DEF CarrierLine
    <2>5. PICK there : there = Seen(t.stock[row], on_hand[row])
      OBVIOUS
    <2>6. there # None /\ there >= q /\ there = Shipping!Visible(t, row)
      BY <1>1, <1>4, <2>3, <2>4, <2>5
         DEF Shipping!DeductSource, Shipping!InStock, Shipping!Visible, Shipping!Line, Seen
    <2>7. t.stock[row] \in Nat \cup {None} /\ on_hand[row] \in Nat \cup {None}
      BY <2>1, ShelvesTyped DEF TransferSession
    <2>8. there \in Nat
      BY <2>5, <2>6, <2>7 DEF Seen
    <2>9. PICK left \in Nat : left = there - q
      BY <2>4, <2>6, <2>8
    <2>10. PICK j \in DOMAIN t.items : j = t.lines[t.next].item
      BY <2>1
    <2>11. t.items \in Seq(Shipping!TransferItem) /\ t.lines \in Seq(CarrierLine)
           /\ t.moves \in [Shipping!Ledger -> Nat] /\ t.stock \in [Shipping!Rows -> Nat \cup {None}]
           /\ t.held \in SUBSET Shipping!Rows /\ t.sound \in BOOLEAN
      BY <2>1 DEF TransferSession, CarrierLine
    <2>12. PICK old \in Shipping!TransferItem : old = t.items[j]
      BY <2>11
    <2>13. PICK item \in Shipping!TransferItem : item = [old EXCEPT !.shipped = old.shipped + q]
      <3>1. old.shipped + q \in Nat
        BY ItemQuantities
      <3>2. [old EXCEPT !.shipped = old.shipped + q] \in Shipping!TransferItem
        BY <3>1 DEF Shipping!TransferItem
      <3> QED
        BY <3>2
    <2>14. /\ item.shipped = old.shipped + q /\ item.received = old.received
           /\ item.product = old.product /\ item.requested = old.requested
      BY <2>13 DEF Shipping!TransferItem
    <2>15. PICK items \in Seq(Shipping!TransferItem) : items = Changed(t.items, j, item)
      BY <2>11, <2>12, <2>14, ItemMoves
    <2>16. PICK moves \in [Shipping!Ledger -> Nat] :
                    moves = Shipping!Recorded(t.moves, row, "transfer_out", q)
      BY <2>11, MovementAdds
    <2>30. /\ moves[<<row, "transfer_out">>] = t.moves[<<row, "transfer_out">>] + q
           /\ \A k \in Shipping!Ledger : k # <<row, "transfer_out">> => moves[k] = t.moves[k]
      <3>1. PICK old_moves \in [Shipping!Ledger -> Nat] : old_moves = t.moves
        BY <2>11
      <3>2. moves = [old_moves EXCEPT ![<<row, "transfer_out">>] = old_moves[<<row, "transfer_out">>] + q]
        BY <2>16, <3>1 DEF Shipping!Recorded
      <3>3. <<row, "transfer_out">> \in Shipping!Ledger
        BY LedgerRows
      <3> QED
        BY <3>1, <3>2, <3>3
    <2>17. PICK stock2 \in [Shipping!Rows -> Nat \cup {None}] : stock2 = [t.stock EXCEPT ![row] = left]
      BY <2>11
    <2>18. PICK held \in SUBSET Shipping!Rows : held = t.held \cup {row}
      BY <2>11
    <2>19. PICK sound \in BOOLEAN : sound = (t.sound /\ q <= t.seen)
      BY <2>11
    <2>20. PICK stage, n : /\ stage = IF t.next < Len(t.lines) THEN "read" ELSE "commit"
                           /\ n = t.next + 1
      OBVIOUS
    <2>21. stage \in {"read", "commit"} /\ n \in Nat /\ (stage # "commit" => n \in 1 .. Len(t.lines))
      BY <2>1, <2>11, <2>20, LineEnds
    <2>22. PICK s : s = [t EXCEPT !.stock = stock2, !.held = held, !.items = items, !.moves = moves,
                                  !.sound = sound, !.next = n, !.stage = stage]
      OBVIOUS
    <2>23. transfer_session' = [transfer_session EXCEPT ![r] = s]
           /\ UNCHANGED <<transfers, on_hand, moved, admitted>>
      <3>1. PICK u : u = [t EXCEPT
                !.stock[row] = Shipping!Deducted(t, row),
                !.held = @ \cup {row},
                !.items[j].shipped = @ + q,
                !.moves = Shipping!Recorded(@, row, "transfer_out", q),
                !.sound = @ /\ q <= t.seen]
        OBVIOUS
      <3>2. u = [t EXCEPT !.stock = stock2, !.held = held, !.items = items, !.moves = moves,
                          !.sound = sound]
        BY <2>1, <2>4, <2>6, <2>9, <2>12, <2>13, <2>15, <2>16, <2>17, <2>18, <2>19, <3>1
           DEF Shipping!Deducted, Shipping!Line, Changed
      <3>3. Shipping!NextLine(u, "read") = s
        BY <2>1, <2>20, <2>22, <3>2 DEF Shipping!NextLine, TransferSession
      <3> QED
        BY <1>1, <1>4, <2>3, <2>4, <2>10, <3>1, <3>3
           DEF Shipping!DeductSource, Shipping!Continue, Shipping!tables, Shipping!Line
    <2>24. s \in TransferSession
      BY <2>1, <2>21, <2>22 DEF TransferSession, Working
    <2>25. /\ s.stage = stage /\ s.handler = t.handler /\ s.transfer = t.transfer /\ s.lines = t.lines
           /\ s.items = items /\ s.loaded = t.loaded /\ s.next = n /\ s.stock = stock2 /\ s.held = held
           /\ s.moves = moves
      BY <2>1, <2>22 DEF TransferSession
    <2>26. SameItems(items, t.items)
      BY <2>11, <2>12, <2>14, <2>15 DEF SameItems, Changed
    <2>27. CarriesOut(s, on_hand)
      <3>1. ASSUME NEW k \in Shipping!Rows
            PROVE  IF stock2[k] = None THEN moves[<<k, "transfer_out">>] = 0
                   ELSE /\ k \in held /\ on_hand[k] \in Nat
                        /\ on_hand[k] = stock2[k] + moves[<<k, "transfer_out">>]
        <4>1. IF t.stock[k] = None THEN t.moves[<<k, "transfer_out">>] = 0
              ELSE /\ k \in t.held /\ on_hand[k] \in Nat
                   /\ on_hand[k] = t.stock[k] + t.moves[<<k, "transfer_out">>]
          BY <2>2 DEF CarriesOut
        <4>2. <<k, "transfer_out">> \in Shipping!Ledger
          BY LedgerRows
        <4>3. CASE k # row
          <5>1. moves[<<k, "transfer_out">>] = t.moves[<<k, "transfer_out">>]
            BY <2>30, <4>2, <4>3
          <5>2. stock2[k] = t.stock[k]
            BY <2>11, <2>17, <4>3
          <5> QED
            BY <2>18, <4>1, <5>1, <5>2
        <4>4. CASE k = row
          <5>1. moves[<<row, "transfer_out">>] = t.moves[<<row, "transfer_out">>] + q
            BY <2>30
          <5>2. stock2[row] = left /\ left # None
            BY <2>11, <2>17, PurchasesAssumption
          <5>3. t.moves[<<row, "transfer_out">>] \in Nat
            BY <2>11, <4>2, <4>4
          <5>4. on_hand[row] \in Nat /\ on_hand[row] = there + t.moves[<<row, "transfer_out">>]
            <6>1. CASE t.stock[row] = None
              BY <2>5, <2>8, <4>1, <4>4, <6>1 DEF Seen
            <6>2. CASE t.stock[row] # None
              BY <2>5, <2>8, <4>1, <4>4, <6>2 DEF Seen
            <6> QED
              BY <6>1, <6>2
          <5>5. on_hand[row] = stock2[row] + moves[<<row, "transfer_out">>]
            BY <2>8, <2>9, <5>1, <5>2, <5>3, <5>4
          <5> QED
            BY <2>18, <4>4, <5>2, <5>4, <5>5
        <4> QED
          BY <4>3, <4>4
      <3> QED
        BY <2>25, <3>1 DEF CarriesOut
    <2>28. CarrierKnows(s, transfers, on_hand)
      <3>1. DOMAIN items = DOMAIN t.items
        BY <2>26 DEF SameItems
      <3>2. SameItems(items, transfers[t.transfer].items)
        BY <2>1, <2>26 DEF SameItems
      <3> QED
        BY <1>2, <2>1, <2>2, <2>21, <2>25, <2>27, <3>1, <3>2 DEF CarrierKnows, Working
    <2>29. ASSUME Serial
           PROVE  CarrierAlone(s, transfers, on_hand)
      <3>1. PICK source, dest : source = transfers[t.transfer].source /\ dest = transfers[t.transfer].dest
        OBVIOUS
      <3>2. /\ transfers[t.transfer].status \in Shipping!Accepted(t.handler)
            /\ t.loaded = transfers[t.transfer].items
            /\ \A k \in Shipping!Rows :
                Bottles(Seen(t.stock[k], on_hand[k])) = Bottles(on_hand[k])
                    - (Taken(source, t.items, k) - Taken(source, t.loaded, k))
                    + (Put(dest, t.items, k) - Put(dest, t.loaded, k))
        BY <1>2, <2>1, <2>29, <3>1 DEF CarrierAlone, Working
      <3>3. row = <<source, old.product>>
        BY <2>3, <2>10, <2>12, <3>1 DEF Shipping!SourceRow, Shipping!Line
      <3>4. t.loaded \in Seq(Shipping!TransferItem)
        BY <2>1 DEF TransferSession
      <3>5. ASSUME NEW k \in Shipping!Rows
            PROVE  Bottles(Seen(stock2[k], on_hand[k])) = Bottles(on_hand[k])
                     - (Taken(source, items, k) - Taken(source, t.loaded, k))
                     + (Put(dest, items, k) - Put(dest, t.loaded, k))
        <4>1. Bottles(Seen(t.stock[k], on_hand[k])) = Bottles(on_hand[k])
                - (Taken(source, t.items, k) - Taken(source, t.loaded, k))
                + (Put(dest, t.items, k) - Put(dest, t.loaded, k))
          BY <3>2
        <4>2. /\ Taken(source, items, k) = Taken(source, t.items, k) + Sent(source, item, old, k)
              /\ Put(dest, items, k) = Put(dest, t.items, k) + Landed(dest, item, old, k)
          <5>1. PICK its \in Seq(Shipping!TransferItem) : its = t.items
            BY <2>11
          <5>2. j \in DOMAIN its /\ items = Changed(its, j, item) /\ item.product = its[j].product
            BY <2>12, <2>14, <2>15, <5>1
          <5>3. Taken(source, items, k) = Taken(source, its, k) + Sent(source, item, its[j], k)
            BY <5>2, ItemMoves
          <5>4. Put(dest, items, k) = Put(dest, its, k) + Landed(dest, item, its[j], k)
            BY <5>2, ItemMoves
          <5> QED
            BY <2>12, <5>1, <5>3, <5>4
        <4>3. /\ Taken(source, t.items, k) \in Nat /\ Put(dest, t.items, k) \in Nat
              /\ Taken(source, t.loaded, k) \in Nat /\ Put(dest, t.loaded, k) \in Nat
          BY <2>11, <3>4, ItemsAreNatural
        <4>4. Bottles(on_hand[k]) \in Nat
          BY ShelvesTyped
        <4>5. old.received \in Nat /\ old.shipped \in Nat
          BY ItemQuantities
        <4>6. Landed(dest, item, old, k) = 0
          BY <2>14, <4>5 DEF Landed
        <4>7. CASE k = row
          <5>1. Sent(source, item, old, k) = q
            BY <2>14, <3>3, <4>5, <4>7 DEF Sent
          <5>2. Bottles(Seen(t.stock[k], on_hand[k])) = there
            BY <2>5, <2>6, <4>7 DEF Bottles
          <5>3. Bottles(Seen(stock2[k], on_hand[k])) = left
            BY <2>11, <2>17, <4>7, PurchasesAssumption DEF Bottles, Seen
          <5>4. there = Bottles(on_hand[k])
                  - (Taken(source, t.items, k) - Taken(source, t.loaded, k))
                  + (Put(dest, t.items, k) - Put(dest, t.loaded, k))
            BY <4>1, <5>2
          <5>5. Taken(source, items, k) = Taken(source, t.items, k) + q
                /\ Put(dest, items, k) = Put(dest, t.items, k)
            BY <4>2, <4>3, <4>6, <5>1
          <5>6. left = Bottles(on_hand[k])
                  - (Taken(source, items, k) - Taken(source, t.loaded, k))
                  + (Put(dest, items, k) - Put(dest, t.loaded, k))
            BY <2>8, <2>9, <4>3, <4>4, <5>4, <5>5
          <5> QED
            BY <5>3, <5>6
        <4>8. CASE k # row
          <5>1. Sent(source, item, old, k) = 0
            BY <2>14, <3>3, <4>8 DEF Sent
          <5>2. stock2[k] = t.stock[k]
            BY <2>11, <2>17, <4>8
          <5> QED
            BY <4>1, <4>2, <4>3, <4>4, <4>6, <5>1, <5>2
        <4> QED
          BY <4>7, <4>8
      <3> QED
        BY <2>25, <3>1, <3>2, <3>5 DEF CarrierAlone
    <2> QED
      BY <2>1, <2>23, <2>24, <2>28, <2>29, CarrierMoves
  <1> QED
    BY <1>3, <1>4
\* receive_transfer books an item in.
LEMMA ReceiveItemStep ==
    ASSUME TransfersInv, NEW r \in Requests, Shipping!ReceiveItem(r), workload' = workload, OneCarrier'
    PROVE  TransfersInv'
  <1>1. PICK t : t = transfer_session[r]
    OBVIOUS
  <1>2. t.stage = "read" /\ t.handler = "receive"
    BY <1>1 DEF Shipping!ReceiveItem
  <1>3. CASE Shipping!Fail(r, "exceeds shipped")
    BY <1>3, CarrierGivesUp
  <1>4. CASE Shipping!Fail(r, "constraint")
    BY <1>4, CarrierGivesUp
  <1>5. CASE ~Shipping!Fail(r, "exceeds shipped") /\ ~Shipping!Fail(r, "constraint")
    <2>1. /\ t \in TransferSession /\ t.transfer \in DOMAIN transfers /\ ~Deployed
          /\ CarrierKnows(t, transfers, on_hand)
          /\ Serial => CarrierAlone(t, transfers, on_hand)
          /\ t.next \in 1 .. Len(t.lines) /\ t.lines[t.next] \in CarrierLine
          /\ t.lines[t.next].item \in DOMAIN t.items
          /\ t.handler = "receive" => BringsIn(t, transfers[t.transfer].dest)
          /\ SameItems(t.items, transfers[t.transfer].items)
      BY <1>1, <1>2, LineAtHand
    <2>2. BringsIn(t, transfers[t.transfer].dest)
      BY <1>2, <2>1
    <2>3. PICK row \in Shipping!Rows : row = Shipping!DestRow(t)
      BY <1>1, <1>2, RowsAtHand
    <2>4. PICK q \in Nat, d \in Nat : q = t.lines[t.next].quantity /\ d = t.lines[t.next].damaged
      BY <2>1 DEF CarrierLine
    <2>5. t.stock[row] \in Nat \cup {None} /\ on_hand[row] \in Nat \cup {None}
      BY <2>1, ShelvesTyped DEF TransferSession
    <2>6. PICK before \in Nat : before = Bottles(Seen(t.stock[row], on_hand[row]))
      BY <2>5 DEF Bottles, Seen
    <2>7. before = IF Shipping!Visible(t, row) = None THEN 0 ELSE Shipping!Visible(t, row)
      BY <2>6 DEF Bottles, Seen, Shipping!Visible
    <2>8. PICK balance \in Nat : balance = IF q > 0 THEN before + q ELSE 0
      OBVIOUS
    <2>10. PICK j \in DOMAIN t.items : j = t.lines[t.next].item
      BY <2>1
    <2>11. t.items \in Seq(Shipping!TransferItem) /\ t.lines \in Seq(CarrierLine)
           /\ t.moves \in [Shipping!Ledger -> Nat] /\ t.stock \in [Shipping!Rows -> Nat \cup {None}]
           /\ t.fresh \in SUBSET Shipping!Rows /\ t.sound \in BOOLEAN
      BY <2>1 DEF TransferSession, CarrierLine
    <2>12. PICK old \in Shipping!TransferItem : old = t.items[j]
      BY <2>11
    <2>13. PICK item \in Shipping!TransferItem :
                    item = [old EXCEPT !.received = old.received + q, !.damaged = old.damaged + d]
      <3>1. old.received + q \in Nat /\ old.damaged + d \in Nat
        BY ItemQuantities
      <3>2. [old EXCEPT !.received = old.received + q, !.damaged = old.damaged + d]
                \in Shipping!TransferItem
        BY <3>1 DEF Shipping!TransferItem
      <3> QED
        BY <3>2
    <2>14. /\ item.shipped = old.shipped /\ item.received = old.received + q
           /\ item.product = old.product /\ item.requested = old.requested
      BY <2>13 DEF Shipping!TransferItem
    <2>15. PICK items \in Seq(Shipping!TransferItem) : items = Changed(t.items, j, item)
      BY <2>11, <2>12, <2>14, ItemMoves
    <2>16. PICK moves \in [Shipping!Ledger -> Nat] :
                    moves = Shipping!Recorded(Shipping!Recorded(t.moves, row, "transfer_in", q),
                                              row, "damage", d)
      <3>1. PICK first \in [Shipping!Ledger -> Nat] : first = Shipping!Recorded(t.moves, row, "transfer_in", q)
        BY <2>11, MovementAdds
      <3>2. PICK both \in [Shipping!Ledger -> Nat] : both = Shipping!Recorded(first, row, "damage", d)
        BY MovementAdds
      <3> QED
        BY <3>1, <3>2
    <2>17. \A k \in Shipping!Rows : moves[<<k, "transfer_out">>] = t.moves[<<k, "transfer_out">>]
      <3>1. PICK first : first = Shipping!Recorded(t.moves, row, "transfer_in", q)
        OBVIOUS
      <3>2. moves = [first EXCEPT ![<<row, "damage">>] = first[<<row, "damage">>] + d]
        BY <2>16, <3>1 DEF Shipping!Recorded
      <3>3. first = [t.moves EXCEPT ![<<row, "transfer_in">>] = t.moves[<<row, "transfer_in">>] + q]
        BY <3>1 DEF Shipping!Recorded
      <3>4. ASSUME NEW k \in Shipping!Rows
            PROVE  moves[<<k, "transfer_out">>] = t.moves[<<k, "transfer_out">>]
        <4>1. <<k, "transfer_out">> \in Shipping!Ledger
          BY LedgerRows
        <4>2. <<k, "transfer_out">> # <<row, "damage">> /\ <<k, "transfer_out">> # <<row, "transfer_in">>
          OBVIOUS
        <4>3. DOMAIN first = Shipping!Ledger /\ DOMAIN t.moves = Shipping!Ledger
          BY <2>11, <3>3
        <4>4. first[<<k, "transfer_out">>] = t.moves[<<k, "transfer_out">>]
          BY <3>3, <4>1, <4>2, <4>3
        <4>5. moves[<<k, "transfer_out">>] = first[<<k, "transfer_out">>]
          BY <3>2, <4>1, <4>2, <4>3
        <4> QED
          BY <4>4, <4>5
      <3> QED
        BY <3>4
    <2>18. PICK stock2 \in [Shipping!Rows -> Nat \cup {None}] :
                    stock2 = [t.stock EXCEPT ![row] = IF q > 0 THEN before + q ELSE t.stock[row]]
      <3>1. (IF q > 0 THEN before + q ELSE t.stock[row]) \in Nat \cup {None}
        BY <2>5
      <3> QED
        BY <2>11, <3>1
    <2>19. PICK fresh \in SUBSET Shipping!Rows :
                    fresh = IF q > 0 /\ Shipping!Visible(t, row) = None
                            THEN t.fresh \cup {row} ELSE t.fresh
      BY <2>11
    <2>20. PICK sound \in BOOLEAN : sound = (t.sound /\ (d > 0 => d <= balance))
      BY <2>11
    <2>21. PICK stage, n : /\ stage = IF t.next < Len(t.lines) THEN "read" ELSE "commit"
                           /\ n = t.next + 1
      OBVIOUS
    <2>22. stage \in {"read", "commit"} /\ n \in Nat /\ (stage # "commit" => n \in 1 .. Len(t.lines))
      BY <2>1, <2>11, <2>21, LineEnds
    <2>23. PICK s : s = [t EXCEPT !.stock = stock2, !.fresh = fresh, !.items = items, !.moves = moves,
                                  !.sound = sound, !.next = n, !.stage = stage]
      OBVIOUS
    <2>24. transfer_session' = [transfer_session EXCEPT ![r] = s]
           /\ UNCHANGED <<transfers, on_hand, moved, admitted>>
      <3>1. PICK line : line = t.lines[t.next]
        OBVIOUS
      <3>2. PICK u : u = [t EXCEPT
                !.stock[row] = IF q > 0 THEN before + Shipping!Received(line) ELSE @,
                !.fresh = IF q > 0 /\ Shipping!Visible(t, row) = None THEN @ \cup {row} ELSE @,
                !.items[j] = Shipping!Booked(old, line),
                !.moves = Shipping!Recorded(Shipping!Recorded(@, row, "transfer_in", q),
                                            row, "damage", d),
                !.sound = @ /\ (d > 0 => d <= balance)]
        OBVIOUS
      <3>3. Shipping!Booked(old, line) = item /\ Shipping!Received(line) = q
        BY <2>4, <2>13, <3>1 DEF Shipping!Booked, Shipping!Received
      <3>4. u = [t EXCEPT !.stock = stock2, !.fresh = fresh, !.items = items, !.moves = moves,
                          !.sound = sound]
        BY <2>1, <2>15, <2>16, <2>18, <2>19, <2>20, <3>2, <3>3 DEF Changed
      <3>5. Shipping!NextLine(u, "read") = s
        BY <2>1, <2>21, <2>23, <3>4 DEF Shipping!NextLine, TransferSession
      <3>6. Shipping!Continue(r, Shipping!NextLine(u, "read"))
        BY <1>1, <1>5, <2>3, <2>4, <2>7, <2>8, <2>10, <2>12, <3>1, <3>2
           DEF Shipping!ReceiveItem, Shipping!Line
      <3> QED
        BY <3>5, <3>6 DEF Shipping!Continue, Shipping!tables
    <2>25. s \in TransferSession
      BY <2>1, <2>22, <2>23 DEF TransferSession, Working
    <2>26. /\ s.stage = stage /\ s.handler = t.handler /\ s.transfer = t.transfer /\ s.lines = t.lines
           /\ s.items = items /\ s.loaded = t.loaded /\ s.next = n /\ s.stock = stock2
           /\ s.moves = moves
      BY <2>1, <2>23 DEF TransferSession
    <2>27. SameItems(items, t.items)
      BY <2>11, <2>12, <2>14, <2>15 DEF SameItems, Changed
    <2>28. row = <<transfers[t.transfer].dest, old.product>>
      BY <2>3, <2>10, <2>12 DEF Shipping!DestRow, Shipping!Line
    <2>29. BringsIn(s, transfers[t.transfer].dest)
      <3>1. ASSUME NEW k \in Shipping!Rows
            PROVE  /\ moves[<<k, "transfer_out">>] = 0
                   /\ stock2[k] # None => k[1] = transfers[t.transfer].dest
        <4>1. /\ t.moves[<<k, "transfer_out">>] = 0
              /\ t.stock[k] # None => k[1] = transfers[t.transfer].dest
          BY <2>2 DEF BringsIn
        <4>2. k # row => stock2[k] = t.stock[k]
          BY <2>11, <2>18
        <4>3. row[1] = transfers[t.transfer].dest
          BY <2>28
        <4> QED
          BY <2>17, <4>1, <4>2, <4>3
      <3> QED
        BY <2>26, <3>1 DEF BringsIn
    <2>30. CarrierKnows(s, transfers, on_hand)
      <3>1. DOMAIN items = DOMAIN t.items
        BY <2>27 DEF SameItems
      <3>2. SameItems(items, transfers[t.transfer].items)
        BY <2>1, <2>27 DEF SameItems
      <3> QED
        BY <1>2, <2>1, <2>22, <2>26, <2>29, <3>1, <3>2 DEF CarrierKnows, Working
    <2>31. ASSUME Serial
           PROVE  CarrierAlone(s, transfers, on_hand)
      <3>1. PICK source, dest : source = transfers[t.transfer].source /\ dest = transfers[t.transfer].dest
        OBVIOUS
      <3>2. /\ transfers[t.transfer].status \in Shipping!Accepted(t.handler)
            /\ t.loaded = transfers[t.transfer].items
            /\ \A k \in Shipping!Rows :
                Bottles(Seen(t.stock[k], on_hand[k])) = Bottles(on_hand[k])
                    - (Taken(source, t.items, k) - Taken(source, t.loaded, k))
                    + (Put(dest, t.items, k) - Put(dest, t.loaded, k))
        BY <1>2, <2>1, <2>31, <3>1 DEF CarrierAlone, Working
      <3>3. row = <<dest, old.product>>
        BY <2>28, <3>1
      <3>4. t.loaded \in Seq(Shipping!TransferItem)
        BY <2>1 DEF TransferSession
      <3>5. ASSUME NEW k \in Shipping!Rows
            PROVE  Bottles(Seen(stock2[k], on_hand[k])) = Bottles(on_hand[k])
                     - (Taken(source, items, k) - Taken(source, t.loaded, k))
                     + (Put(dest, items, k) - Put(dest, t.loaded, k))
        <4>1. Bottles(Seen(t.stock[k], on_hand[k])) = Bottles(on_hand[k])
                - (Taken(source, t.items, k) - Taken(source, t.loaded, k))
                + (Put(dest, t.items, k) - Put(dest, t.loaded, k))
          BY <3>2
        <4>2. /\ Taken(source, items, k) = Taken(source, t.items, k) + Sent(source, item, old, k)
              /\ Put(dest, items, k) = Put(dest, t.items, k) + Landed(dest, item, old, k)
          <5>1. PICK its \in Seq(Shipping!TransferItem) : its = t.items
            BY <2>11
          <5>2. j \in DOMAIN its /\ items = Changed(its, j, item) /\ item.product = its[j].product
            BY <2>12, <2>14, <2>15, <5>1
          <5>3. Taken(source, items, k) = Taken(source, its, k) + Sent(source, item, its[j], k)
            BY <5>2, ItemMoves
          <5>4. Put(dest, items, k) = Put(dest, its, k) + Landed(dest, item, its[j], k)
            BY <5>2, ItemMoves
          <5> QED
            BY <2>12, <5>1, <5>3, <5>4
        <4>3. /\ Taken(source, t.items, k) \in Nat /\ Put(dest, t.items, k) \in Nat
              /\ Taken(source, t.loaded, k) \in Nat /\ Put(dest, t.loaded, k) \in Nat
          BY <2>11, <3>4, ItemsAreNatural
        <4>4. Bottles(on_hand[k]) \in Nat
          BY ShelvesTyped
        <4>5. old.received \in Nat /\ old.shipped \in Nat
          BY ItemQuantities
        <4>6. Sent(source, item, old, k) = 0
          BY <2>14, <4>5 DEF Sent
        <4>7. CASE k = row
          <5>1. Landed(dest, item, old, k) = q
            BY <2>14, <3>3, <4>5, <4>7 DEF Landed
          <5>2. Bottles(Seen(t.stock[k], on_hand[k])) = before
            BY <2>6, <4>7
          <5>3. Bottles(Seen(stock2[k], on_hand[k])) = before + q
            <6>1. CASE q > 0
              <7>1. stock2[k] = before + q /\ before + q # None
                BY <2>11, <2>18, <4>7, <6>1, PurchasesAssumption
              <7> QED
                BY <7>1 DEF Bottles, Seen
            <6>2. CASE ~(q > 0)
              <7>1. stock2[k] = t.stock[k] /\ q = 0
                BY <2>11, <2>18, <4>7, <6>2
              <7> QED
                BY <5>2, <7>1
            <6> QED
              BY <6>1, <6>2
          <5>4. before = Bottles(on_hand[k])
                  - (Taken(source, t.items, k) - Taken(source, t.loaded, k))
                  + (Put(dest, t.items, k) - Put(dest, t.loaded, k))
            BY <4>1, <5>2
          <5>5. Taken(source, items, k) = Taken(source, t.items, k)
                /\ Put(dest, items, k) = Put(dest, t.items, k) + q
            BY <4>2, <4>3, <4>6, <5>1
          <5>6. before + q = Bottles(on_hand[k])
                  - (Taken(source, items, k) - Taken(source, t.loaded, k))
                  + (Put(dest, items, k) - Put(dest, t.loaded, k))
            BY <4>3, <4>4, <5>4, <5>5
          <5> QED
            BY <5>3, <5>6
        <4>8. CASE k # row
          <5>1. Landed(dest, item, old, k) = 0
            BY <2>14, <3>3, <4>8 DEF Landed
          <5>2. stock2[k] = t.stock[k]
            BY <2>11, <2>18, <4>8
          <5> QED
            BY <4>1, <4>2, <4>3, <4>4, <4>6, <5>1, <5>2
        <4> QED
          BY <4>7, <4>8
      <3> QED
        BY <2>26, <3>1, <3>2, <3>5 DEF CarrierAlone
    <2> QED
      BY <2>1, <2>24, <2>25, <2>30, <2>31, CarrierMoves
  <1> QED
    BY <1>3, <1>4, <1>5
\* What the flush of a request makes of its transfer.
LEMMA TransferWritten ==
    ASSUME TransfersInv, NEW r \in Requests, NEW s, s = transfer_session[r], s.stage = "commit",
           NEW row, row = transfers[s.transfer], NEW w, w = Shipping!Written(s)
    PROVE  /\ w.source = row.source /\ w.dest = row.dest /\ w.status = Shipping!NewStatus(s.handler)
           /\ w.items \in Seq(Shipping!TransferItem) /\ SameItems(w.items, row.items)
           /\ DOMAIN w.items = DOMAIN s.items
           /\ s.loaded = row.items => w.items = s.items
           /\ w.status \in admitted =>
                w \in [source : Branches, dest : Branches, status : admitted,
                       items : Seq(Shipping!TransferItem)]
  <1>1. /\ s \in TransferSession /\ s.transfer \in DOMAIN transfers
        /\ SameItems(s.items, row.items) /\ SameItems(s.loaded, row.items)
    BY CarrierIs DEF CarrierKnows, Working
  <1>2. TransferTyped(row, admitted)
    BY <1>1, ShelvesTyped
  <1>3. PICK mine \in Seq(Shipping!TransferItem), loaded \in Seq(Shipping!TransferItem),
             items \in Seq(Shipping!TransferItem) :
                mine = s.items /\ loaded = s.loaded /\ items = row.items
    BY <1>1, <1>2, TransferColumns DEF TransferSession
  <1>4. PICK new : new = [i \in DOMAIN items |-> Shipping!WrittenItem(items[i], loaded[i], mine[i])]
    OBVIOUS
  <1>5. w = [row EXCEPT !.status = Shipping!NewStatus(s.handler), !.items = new]
    BY <1>3, <1>4 DEF Shipping!Written
  <1>6. /\ w.source = row.source /\ w.dest = row.dest /\ w.status = Shipping!NewStatus(s.handler)
        /\ w.items = new
        /\ row \in [source : Branches, dest : Branches, status : admitted,
                    items : Seq(Shipping!TransferItem)]
    BY <1>2, <1>5 DEF TransferTyped
  <1>7. PICK n \in Nat : DOMAIN items = 1 .. n
    BY <1>3
  <1>8. /\ DOMAIN mine = 1 .. n /\ DOMAIN loaded = 1 .. n
        /\ \A i \in 1 .. n : mine[i].product = items[i].product /\ mine[i].requested = items[i].requested
    BY <1>1, <1>3, <1>7 DEF SameItems
  <1>9. ASSUME NEW i \in 1 .. n
        PROVE  /\ new[i] \in Shipping!TransferItem
               /\ new[i].product = items[i].product /\ new[i].requested = items[i].requested
               /\ loaded = items => new[i] = mine[i]
    <2>1. PICK a \in Shipping!TransferItem, l \in Shipping!TransferItem, m \in Shipping!TransferItem :
                a = items[i] /\ l = loaded[i] /\ m = mine[i]
      BY <1>3, <1>7, <1>8
    <2>2. PICK x \in Nat, y \in Nat, z \in Nat :
            /\ x = Shipping!Column(l.shipped, m.shipped, a.shipped)
            /\ y = Shipping!Column(l.received, m.received, a.received)
            /\ z = Shipping!Column(l.damaged, m.damaged, a.damaged)
      BY ItemQuantities DEF Shipping!Column
    <2>3. new[i] = [a EXCEPT !.shipped = x, !.received = y, !.damaged = z]
      BY <1>4, <1>7, <2>1, <2>2 DEF Shipping!WrittenItem
    <2>4. /\ new[i] \in Shipping!TransferItem /\ new[i].product = a.product
          /\ new[i].requested = a.requested
      BY <2>3 DEF Shipping!TransferItem
    <2>5. ASSUME l = a
          PROVE  new[i] = m
      <3>1. x = m.shipped /\ y = m.received /\ z = m.damaged
        BY <2>2, <2>5 DEF Shipping!Column
      <3>2. m.product = a.product /\ m.requested = a.requested
        BY <1>8, <2>1
      <3>3. m = [product |-> m.product, requested |-> m.requested, shipped |-> m.shipped,
                 received |-> m.received, damaged |-> m.damaged]
        BY DEF Shipping!TransferItem
      <3>4. new[i] = [product |-> a.product, requested |-> a.requested, shipped |-> x,
                      received |-> y, damaged |-> z]
        BY <2>3 DEF Shipping!TransferItem
      <3> QED
        BY <3>1, <3>2, <3>3, <3>4
    <2> QED
      BY <2>1, <2>4, <2>5
  <1>10. new = [i \in 1 .. n |-> new[i]] /\ DOMAIN new = 1 .. n
    BY <1>4, <1>7
  <1>11. IsTable(new)
    BY <1>10, TableOf
  <1>12. new \in Seq(Shipping!TransferItem)
    BY <1>9, <1>10, <1>11, TableIn
  <1>13. SameItems(new, items)
    BY <1>7, <1>9, <1>10 DEF SameItems
  <1>14. loaded = items => new = mine
    <2>1. mine = [i \in 1 .. n |-> mine[i]]
      BY <1>3, <1>8
    <2> QED
      BY <1>9, <1>10, <2>1
  <1>15. w.status \in admitted =>
            w \in [source : Branches, dest : Branches, status : admitted,
                   items : Seq(Shipping!TransferItem)]
    BY <1>5, <1>6, <1>12
  <1>16. DOMAIN new = DOMAIN mine
    BY <1>8, <1>10
  <1> QED
    BY <1>3, <1>6, <1>12, <1>13, <1>14, <1>15, <1>16

\* What a commit does to a row of the inventory.
LEMMA RowWritten ==
    ASSUME TransfersInv, NEW r \in Requests, NEW s, s = transfer_session[r], s.stage = "commit",
           NEW row \in Shipping!Rows
    PROVE  /\ Seen(s.stock[row], on_hand[row]) \in Nat \cup {None}
           /\ s.moves \in [Shipping!Ledger -> Nat]
           /\ s.handler \in {"approve", "cancel"} =>
                s.stock[row] = None /\ s.moves[<<row, "transfer_out">>] = 0
           /\ s.handler = "receive" /\ row[1] # transfers[s.transfer].dest =>
                s.stock[row] = None /\ s.moves[<<row, "transfer_out">>] = 0
           /\ s.handler = "ship" /\ s.stock[row] # None =>
                /\ on_hand[row] \in Nat
                /\ on_hand[row] = s.stock[row] + s.moves[<<row, "transfer_out">>]
           /\ s.handler = "ship" /\ s.stock[row] = None => s.moves[<<row, "transfer_out">>] = 0
  <1>1. s \in TransferSession /\ CarrierKnows(s, transfers, on_hand) /\ s.stage \in Working
    BY CarrierIs DEF Working
  <1>2. s.stock[row] \in Nat \cup {None} /\ s.moves \in [Shipping!Ledger -> Nat]
    BY <1>1 DEF TransferSession
  <1>3. Seen(s.stock[row], on_hand[row]) \in Nat \cup {None}
    BY <1>2, ShelvesTyped DEF Seen
  <1>4. <<row, "transfer_out">> \in Shipping!Ledger
    BY LedgerRows
  <1>5. /\ s.handler \in {"approve", "cancel"} => AtRest(s)
        /\ s.handler = "ship" => CarriesOut(s, on_hand)
        /\ s.handler = "receive" => BringsIn(s, transfers[s.transfer].dest)
    BY <1>1 DEF CarrierKnows
  <1>6. s.handler \in {"approve", "cancel"} =>
            s.stock[row] = None /\ s.moves[<<row, "transfer_out">>] = 0
    BY <1>4, <1>5 DEF AtRest
  <1>7. s.handler = "ship" =>
            IF s.stock[row] = None THEN s.moves[<<row, "transfer_out">>] = 0
            ELSE on_hand[row] \in Nat /\ on_hand[row] = s.stock[row] + s.moves[<<row, "transfer_out">>]
    BY <1>5 DEF CarriesOut
  <1>8. s.handler = "receive" =>
            /\ s.moves[<<row, "transfer_out">>] = 0
            /\ s.stock[row] # None => row[1] = transfers[s.transfer].dest
    BY <1>5 DEF BringsIn
  <1> QED
    BY <1>2, <1>3, <1>6, <1>7, <1>8
\* A handler commits its transfer, its rows and its movements.
LEMMA CommitTransferStep ==
    ASSUME TransfersInv, NEW r \in Requests, Shipping!CommitTransfer(r),
           workload' = workload, OneCarrier'
    PROVE  TransfersInv'
  <1>1. PICK s : s = transfer_session[r]
    OBVIOUS
  <1>2. s.stage = "commit"
    BY <1>1 DEF Shipping!CommitTransfer
  <1>3. CASE Shipping!Fail(r, "constraint")
    BY <1>3, CarrierGivesUp
  <1>4. CASE ~Shipping!Fail(r, "constraint")
    <2>1. /\ s \in TransferSession /\ CarrierKnows(s, transfers, on_hand)
          /\ Serial => CarrierAlone(s, transfers, on_hand)
          /\ Deployed => s.handler \in {"approve", "cancel"}
          /\ s.stage \in Working
      BY <1>1, <1>2, CarrierIs DEF Working
    <2>2. PICK i \in DOMAIN transfers : i = s.transfer
      BY <2>1 DEF CarrierKnows
    <2>3. PICK old, w : old = transfers[i] /\ w = Shipping!Written(s)
      OBVIOUS
    <2>4. /\ Shipping!FlushSucceeds(s)
          /\ Shipping!Free(r, {row \in Shipping!Rows : s.stock[row] # None})
          /\ transfers' = Changed(transfers, i, w)
          /\ on_hand' = [row \in Shipping!Rows |-> Seen(s.stock[row], on_hand[row])]
          /\ moved' = [k \in Shipping!Ledger |-> moved[k] + s.moves[k]]
          /\ transfer_session' = [transfer_session EXCEPT ![r] = Shipping!IdleSession]
          /\ admitted' = admitted
      BY <1>1, <1>4, <2>2, <2>3
         DEF Shipping!CommitTransfer, Shipping!Visible, Seen, Changed
    <2>5. PICK new, shelf, sums : new = transfers' /\ shelf = on_hand' /\ sums = moved'
      OBVIOUS
    <2>6. /\ w.source = old.source /\ w.dest = old.dest /\ w.status = Shipping!NewStatus(s.handler)
          /\ w.items \in Seq(Shipping!TransferItem) /\ SameItems(w.items, old.items)
          /\ DOMAIN w.items = DOMAIN s.items
          /\ s.loaded = old.items => w.items = s.items
          /\ w.status \in admitted =>
                w \in [source : Branches, dest : Branches, status : admitted,
                       items : Seq(Shipping!TransferItem)]
      BY <1>1, <1>2, <2>2, <2>3, TransferWritten
    <2>7. TransferTyped(w, admitted)
      <3>1. w.status \in admitted
        BY <2>4, <2>6 DEF Shipping!FlushSucceeds
      <3>2. \A k \in DOMAIN w.items : Shipping!ItemChecks(w.items[k])
        BY <2>3, <2>4, <2>6 DEF Shipping!FlushSucceeds
      <3> QED
        BY <2>6, <3>1, <3>2 DEF TransferTyped
    <2>8. /\ IsTable(transfers) /\ ItemsTyped(transfers)
          /\ \A t \in DOMAIN transfers : TransferTyped(transfers[t], admitted)
          /\ \A row \in Shipping!Rows : on_hand[row] \in Nat \cup {None}
          /\ moved \in [Shipping!Ledger -> Nat]
      BY ShelvesTyped
    <2>9. /\ IsTable(new) /\ DOMAIN new = DOMAIN transfers
          /\ \A t \in DOMAIN transfers : t # i => new[t] = transfers[t]
          /\ new[i] = w
      <3>1. new = Changed(transfers, i, w)
        BY <2>4, <2>5
      <3> QED
        BY <2>8, <3>1, ChangeRow
    <2>10. \A row \in Shipping!Rows :
                /\ shelf[row] = Seen(s.stock[row], on_hand[row])
                /\ shelf[row] \in Nat \cup {None}
      BY <1>1, <1>2, <2>4, <2>5, RowWritten
    <2>11. /\ sums \in [Shipping!Ledger -> Nat]
           /\ \A row \in Shipping!Rows : sums[<<row, "transfer_out">>] =
                    moved[<<row, "transfer_out">>] + s.moves[<<row, "transfer_out">>]
      <3>1. s.moves \in [Shipping!Ledger -> Nat]
        BY <2>1 DEF TransferSession
      <3>2. sums = [k \in Shipping!Ledger |-> moved[k] + s.moves[k]]
        BY <2>4, <2>5
      <3>3. \A k \in Shipping!Ledger : sums[k] = moved[k] + s.moves[k] /\ sums[k] \in Nat
        BY <2>8, <3>1, <3>2
      <3>4. sums \in [Shipping!Ledger -> Nat]
        BY <3>2, <3>3
      <3> QED
        BY <3>3, <3>4, LedgerRows
    <2>12. TransferTables'
      <3>1. \A t \in DOMAIN new : TransferTyped(new[t], admitted)
        BY <2>7, <2>8, <2>9
      <3>2. shelf \in [Shipping!Rows -> Nat \cup {None}]
        BY <2>4, <2>5, <2>10
      <3>3. Shipping!CheckedStatuses \subseteq admitted
        BY DEF TransfersInv, TransferTables
      <3> QED
        BY <2>4, <2>5, <2>9, <2>11, <3>1, <3>2, <3>3 DEF TransferTables
    <2>13. Serial' = Serial /\ Deployed' = Deployed
      BY <2>4 DEF Serial, Deployed
    <2>14. Shipping!NothingShips'
      <3>1. SUFFICES ASSUME Deployed
                     PROVE  /\ \A t \in DOMAIN new : new[t].status \in {"draft", "cancelled"}
                            /\ shelf = Opening
        BY <2>4, <2>5 DEF Shipping!NothingShips, Deployed
      <3>2. /\ \A t \in DOMAIN transfers : transfers[t].status \in {"draft", "cancelled"}
            /\ on_hand = Opening
        BY <3>1 DEF TransfersInv, TransferBooks, Shipping!NothingShips, Deployed
      <3>3. w.status = "cancelled"
        <4>1. s.handler \in {"approve", "cancel"}
          BY <2>1, <3>1
        <4>2. w.status \in Shipping!CheckedStatuses
          BY <2>7, <3>1, TransferColumns DEF Deployed
        <4> QED
          BY <2>6, <4>1, <4>2 DEF Shipping!NewStatus, Shipping!CheckedStatuses
      <3>4. shelf = on_hand
        <4>1. \A row \in Shipping!Rows : shelf[row] = on_hand[row]
          BY <1>1, <1>2, <2>1, <2>10, <3>1, RowWritten DEF Seen
        <4>2. on_hand \in [Shipping!Rows -> Nat \cup {None}]
          BY ShelvesTyped
        <4>3. shelf = [row \in Shipping!Rows |-> shelf[row]]
          BY <2>4, <2>5
        <4> QED
          BY <4>1, <4>2, <4>3
      <3> QED
        BY <2>9, <3>2, <3>3, <3>4
    <2>15. Shipping!OutboundIsLedgered'
      <3>1. ASSUME NEW row \in Shipping!Rows, \A t \in DOMAIN new : new[t].dest # row[1],
                   Opening[row] # None
            PROVE  shelf[row] = Opening[row] - sums[<<row, "transfer_out">>]
        <4>1. \A t \in DOMAIN transfers : transfers[t].dest # row[1]
          BY <2>3, <2>6, <2>9, <3>1
        <4>2. on_hand[row] = Opening[row] - moved[<<row, "transfer_out">>]
          BY <3>1, <4>1 DEF TransfersInv, TransferBooks, Shipping!OutboundIsLedgered
        <4>3. /\ moved[<<row, "transfer_out">>] \in Nat /\ s.moves[<<row, "transfer_out">>] \in Nat
              /\ Opening[row] \in Nat
          <5>1. <<row, "transfer_out">> \in Shipping!Ledger
            BY LedgerRows
          <5>2. s.moves \in [Shipping!Ledger -> Nat]
            BY <2>1 DEF TransferSession
          <5>3. Opening[row] \in Nat \cup {None}
            BY TransfersAssumption DEF Shipping!Rows
          <5> QED
            BY <2>8, <3>1, <5>1, <5>2, <5>3
        <4>4. s.handler \in Carriers
          BY <2>1 DEF CarrierKnows
        <4>5. shelf[row] = on_hand[row] - s.moves[<<row, "transfer_out">>]
          <5>1. on_hand[row] \in Int
            BY <4>2, <4>3
          <5>2. CASE s.stock[row] = None
            <6>1. s.moves[<<row, "transfer_out">>] = 0
              BY <1>1, <1>2, <2>2, <4>1, <4>4, <5>2, RowWritten DEF Carriers
            <6> QED
              BY <2>10, <5>1, <5>2, <6>1 DEF Seen
          <5>3. CASE s.stock[row] # None
            <6>1. s.handler = "ship"
              BY <1>1, <1>2, <2>2, <4>1, <4>4, <5>3, RowWritten DEF Carriers
            <6>2. on_hand[row] = s.stock[row] + s.moves[<<row, "transfer_out">>]
              BY <1>1, <1>2, <5>3, <6>1, RowWritten
            <6>3. s.stock[row] \in Nat
              BY <2>1, <5>3 DEF TransferSession
            <6> QED
              BY <2>10, <4>3, <5>3, <6>2, <6>3 DEF Seen
          <5> QED
            BY <5>2, <5>3
        <4> QED
          BY <2>11, <4>2, <4>3, <4>5
      <3> QED
        BY <2>5, <3>1 DEF Shipping!OutboundIsLedgered
    <2>16. ASSUME Serial
           PROVE  /\ s.loaded = old.items /\ w.items = s.items
                  /\ old.status \in Shipping!Accepted(s.handler)
                  /\ \A row \in Shipping!Rows :
                        Bottles(shelf[row]) = Bottles(on_hand[row])
                            - (Taken(old.source, w.items, row) - Taken(old.source, old.items, row))
                            + (Put(old.dest, w.items, row) - Put(old.dest, old.items, row))
      <3>1. /\ old.status \in Shipping!Accepted(s.handler) /\ s.loaded = old.items
            /\ \A row \in Shipping!Rows :
                Bottles(Seen(s.stock[row], on_hand[row])) = Bottles(on_hand[row])
                    - (Taken(old.source, s.items, row) - Taken(old.source, s.loaded, row))
                    + (Put(old.dest, s.items, row) - Put(old.dest, s.loaded, row))
        BY <2>1, <2>2, <2>3, <2>16 DEF CarrierAlone
      <3> QED
        BY <2>6, <2>10, <3>1
    <2>17. ASSUME Serial, NEW row \in Shipping!Rows
           PROVE  Bottles(shelf[row]) = Bottles(Opening[row]) - TakenFrom(new, row) + PutInto(new, row)
      <3>1. Bottles(on_hand[row]) =
                Bottles(Opening[row]) - TakenFrom(transfers, row) + PutInto(transfers, row)
        BY <2>17, ConservedIs DEF TransfersInv, TransferBooks
      <3>2. /\ TakenFrom(new, row) = TakenFrom(transfers, row)
                - Taken(old.source, old.items, row) + Taken(old.source, w.items, row)
            /\ PutInto(new, row) = PutInto(transfers, row)
                - Put(old.dest, old.items, row) + Put(old.dest, w.items, row)
            /\ TakenFrom(transfers, row) \in Int /\ PutInto(transfers, row) \in Int
        <4>1. new = Changed(transfers, i, w) /\ w.source = transfers[i].source /\ w.dest = transfers[i].dest
          BY <2>3, <2>4, <2>5, <2>6
        <4>2. /\ TakenFrom(new, row) = TakenFrom(transfers, row)
                    - Taken(w.source, transfers[i].items, row) + Taken(w.source, w.items, row)
              /\ PutInto(new, row) = PutInto(transfers, row)
                    - Put(w.dest, transfers[i].items, row) + Put(w.dest, w.items, row)
              /\ TakenFrom(transfers, row) \in Int /\ PutInto(transfers, row) \in Int
          BY <2>6, <2>8, <4>1, TransferChanges
        <4> QED
          BY <2>3, <2>6, <4>2
      <3>3. old.items \in Seq(Shipping!TransferItem)
        BY <2>3, <2>8 DEF ItemsTyped
      <3>4. /\ Taken(old.source, old.items, row) \in Nat /\ Put(old.dest, old.items, row) \in Nat
            /\ Taken(old.source, w.items, row) \in Nat /\ Put(old.dest, w.items, row) \in Nat
        BY <2>6, <3>3, ItemsAreNatural
      <3>5. Bottles(on_hand[row]) \in Nat /\ Bottles(Opening[row]) \in Nat
        <4>1. Opening[row] \in Nat \cup {None}
          BY TransfersAssumption DEF Shipping!Rows
        <4> QED
          BY <4>1, ShelvesTyped DEF Bottles
      <3>6. Bottles(shelf[row]) = Bottles(on_hand[row])
                - (Taken(old.source, w.items, row) - Taken(old.source, old.items, row))
                + (Put(old.dest, w.items, row) - Put(old.dest, old.items, row))
        BY <2>16, <2>17
      <3> QED
        BY <3>1, <3>2, <3>4, <3>5, <3>6
    <2>18. Serial => Shipping!BottlesConserved'
      BY <2>5, <2>17, ConservedNext
    <2>19. ASSUME Serial, NEW t \in DOMAIN new, new[t].status \in {"draft", "pending", "cancelled"},
                  NEW k \in DOMAIN new[t].items
           PROVE  new[t].items[k].shipped = 0
      <3>1. CASE t # i
        BY <2>9, <2>19, <3>1 DEF TransfersInv, TransferBooks
      <3>2. CASE t = i
        <4>1. s.handler \in Carriers
          BY <2>1 DEF CarrierKnows
        <4>2. s.handler \in {"approve", "cancel"}
          BY <2>6, <2>9, <2>19, <3>2, <4>1 DEF Carriers, Shipping!NewStatus
        <4>3. s.items = s.loaded
          BY <2>1, <4>2 DEF CarrierKnows
        <4>4. w.items = old.items /\ old.status \in {"draft", "pending"}
          BY <2>16, <2>19, <4>2, <4>3 DEF Shipping!Accepted
        <4> QED
          BY <2>3, <2>9, <2>19, <3>2, <4>4 DEF TransfersInv, TransferBooks
      <3> QED
        BY <3>1, <3>2
    <2>20. TransferBooks'
      BY <2>5, <2>13, <2>14, <2>15, <2>18, <2>19 DEF TransferBooks
    <2>21. ASSUME NEW q \in Requests \ {r}, NEW t, t = transfer_session[q]
           PROVE  CarrierKnows(t, new, shelf)
      <3>1. CarrierKnows(t, transfers, on_hand)
        BY <2>21, CarrierIs
      <3>2. ASSUME t.stage \in Working
            PROVE  t.transfer \in DOMAIN transfers
        BY <3>1, <3>2 DEF CarrierKnows
      <3>3. ASSUME t.stage \in Working
            PROVE  /\ SameItems(t.items, new[t.transfer].items)
                   /\ SameItems(t.loaded, new[t.transfer].items)
                   /\ new[t.transfer].dest = transfers[t.transfer].dest
        <4>1. /\ SameItems(t.items, transfers[t.transfer].items)
              /\ SameItems(t.loaded, transfers[t.transfer].items)
          BY <3>1, <3>3 DEF CarrierKnows
        <4>2. CASE t.transfer # i
          BY <2>9, <3>2, <3>3, <4>1, <4>2
        <4>3. CASE t.transfer = i
          <5>1. SameItems(t.items, old.items) /\ SameItems(t.loaded, old.items) /\ new[i] = w
            BY <2>3, <2>9, <4>1, <4>3
          <5>2. SameItems(t.items, w.items) /\ SameItems(t.loaded, w.items)
            BY <2>6, <5>1 DEF SameItems
          <5> QED
            BY <2>3, <2>6, <4>3, <5>1, <5>2
        <4> QED
          BY <4>2, <4>3
      <3>4. CarriesOut(t, on_hand) => CarriesOut(t, shelf)
        <4>1. SUFFICES ASSUME CarriesOut(t, on_hand), NEW row \in Shipping!Rows, t.stock[row] # None
                       PROVE  shelf[row] = on_hand[row]
          BY DEF CarriesOut
        <4>2. row \in t.held
          BY <4>1 DEF CarriesOut
        <4>3. s.stock[row] = None
          BY <2>4, <2>21, <4>2 DEF Shipping!Free
        <4> QED
          BY <2>10, <4>3 DEF Seen
      <3> QED
        BY <2>9, <3>1, <3>2, <3>3, <3>4 DEF CarrierKnows
    <2>22. ASSUME Serial, NEW q \in Requests \ {r}, NEW t, t = transfer_session[q]
           PROVE  CarrierAlone(t, new, shelf)
      <3>1. t.stage = "idle"
        BY <1>1, <1>2, <2>22 DEF TransfersInv, OneCarrier
      <3> QED
        BY <3>1 DEF CarrierAlone, Working
    <2>23. /\ transfer_session' = [q \in Requests |-> transfer_session'[q]]
           /\ transfer_session'[r] = Shipping!IdleSession
           /\ \A q \in Requests \ {r} : transfer_session'[q] = transfer_session[q]
      BY <2>4 DEF TransfersInv, TransferSessions
    <2>24. ASSUME NEW q \in Requests, NEW t, t = transfer_session'[q]
           PROVE  /\ t \in TransferSession
                  /\ CarrierKnows(t, new, shelf)
                  /\ Serial => CarrierAlone(t, new, shelf)
                  /\ Deployed /\ t.stage \in Working => t.handler \in {"approve", "cancel"}
      <3>1. CASE q = r
        <4>1. t \in TransferSession /\ t.stage = "idle"
          BY <2>23, <2>24, <3>1, IdleCarrier
        <4> QED
          BY <4>1 DEF CarrierKnows, CarrierAlone, Working
      <3>2. CASE q # r
        <4>1. t = transfer_session[q] /\ q \in Requests \ {r}
          BY <2>23, <2>24, <3>2
        <4>2. /\ t \in TransferSession
              /\ Deployed /\ t.stage \in Working => t.handler \in {"approve", "cancel"}
          BY <4>1, CarrierIs
        <4> QED
          BY <2>21, <2>22, <4>1, <4>2
      <3> QED
        BY <3>1, <3>2
    <2>25. TransferSessions'
      BY <2>5, <2>13, <2>23, <2>24 DEF TransferSessions
    <2> QED
      BY <2>12, <2>20, <2>25 DEF TransfersInv
  <1> QED
    BY <1>3, <1>4
-----------------------------------------------------------------------------
\* The component, in the module that runs it.

\* At the start nothing was moved.
LEMMA TransfersStart ==
    MCInit => TransfersInv
  <1> SUFFICES ASSUME MCInit PROVE TransfersInv
    OBVIOUS
  <1>1. /\ transfers = <<>> /\ on_hand = Opening /\ admitted \in Schemas
        /\ moved = [k \in Shipping!Ledger |-> 0]
        /\ transfer_session = [r \in Requests |-> Shipping!IdleSession]
    BY DEF MCInit, Shipping!Init
  <1>2. IsTable(transfers) /\ DOMAIN transfers = {}
    BY <1>1, EmptyTable
  <1>3. Opening \in [Shipping!Rows -> Nat \cup {None}] /\ Shipping!CheckedStatuses \subseteq admitted
    BY <1>1, TransfersAssumption DEF Shipping!Rows
  <1>4. moved \in [Shipping!Ledger -> Nat]
    BY <1>1
  <1>5. TransferTables
    BY <1>1, <1>2, <1>3, <1>4 DEF TransferTables
  <1>6. Shipping!OutboundIsLedgered
    <2>1. ASSUME NEW row \in Shipping!Rows, Opening[row] # None
          PROVE  on_hand[row] = Opening[row] - moved[<<row, "transfer_out">>]
      <3>1. moved[<<row, "transfer_out">>] = 0
        BY <1>1, LedgerRows
      <3>2. Opening[row] \in Nat
        BY <1>3, <2>1
      <3> QED
        BY <1>1, <3>1, <3>2
    <2> QED
      BY <2>1 DEF Shipping!OutboundIsLedgered
  <1>7. Shipping!BottlesConserved
    <2>1. ASSUME NEW row \in Shipping!Rows
          PROVE  TakenFrom(transfers, row) = 0 /\ PutInto(transfers, row) = 0
      <3>1. PICK v : v = [t \in DOMAIN transfers |-> Taken(transfers[t].source, transfers[t].items, row)]
        OBVIOUS
      <3>2. PICK w : w = [t \in DOMAIN transfers |-> Put(transfers[t].dest, transfers[t].items, row)]
        OBVIOUS
      <3>3. v = [n \in 1 .. 0 |-> v[n]] /\ \A n \in 1 .. 0 : v[n] = 0
        BY <1>2, <3>1
      <3>4. w = [n \in 1 .. 0 |-> w[n]] /\ \A n \in 1 .. 0 : w[n] = 0
        BY <1>2, <3>2
      <3>5. SumOf(v) = 0 /\ SumOf(w) = 0
        BY <3>3, <3>4, ColumnSumZero
      <3> QED
        BY <3>1, <3>2, <3>5 DEF TakenFrom, PutInto
    <2>2. ASSUME NEW row \in Shipping!Rows
          PROVE  Bottles(on_hand[row]) =
                    Bottles(Opening[row]) - TakenFrom(transfers, row) + PutInto(transfers, row)
      <3>1. Bottles(Opening[row]) \in Nat
        BY <1>3 DEF Bottles
      <3> QED
        BY <1>1, <2>1, <3>1
    <2> QED
      BY <2>2, ConservedIs
  <1>8. TransferBooks
    BY <1>1, <1>2, <1>6, <1>7 DEF TransferBooks, Shipping!NothingShips
  <1>9. \A r \in Requests : transfer_session[r] = Shipping!IdleSession
                            /\ transfer_session[r].stage = "idle"
    BY <1>1, IdleCarrier
  <1>10. TransferSessions
    <2>1. transfer_session = [r \in Requests |-> transfer_session[r]]
      BY <1>1
    <2>2. ASSUME NEW r \in Requests, NEW s, s = transfer_session[r]
          PROVE  /\ s \in TransferSession /\ CarrierKnows(s, transfers, on_hand)
                 /\ CarrierAlone(s, transfers, on_hand)
                 /\ s.stage \notin Working
      BY <1>9, <2>2, IdleCarrier DEF CarrierKnows, CarrierAlone, Working
    <2> QED
      BY <2>1, <2>2 DEF TransferSessions
  <1> QED
    BY <1>5, <1>8, <1>9, <1>10 DEF TransfersInv, OneCarrier

\* A request of this component, within the workload.
TransferStep == Shipping!Next /\ Within(transfer_session')

\* Every step keeps the invariant.
LEMMA TransfersStep ==
    ASSUME TransfersInv, TransferStep
    PROVE  TransfersInv'
  <1>1. workload' = workload /\ OneCarrier'
    <2>1. /\ workload' = workload
          /\ Serial => \A r, q \in Requests :
                transfer_session'[r].stage # "idle" /\ transfer_session'[q].stage # "idle" => r = q
      BY WithinAlone DEF TransferStep
    <2>2. Serial' = Serial
      BY <2>1 DEF Serial
    <2> QED
      BY <2>1, <2>2 DEF OneCarrier
  <1>2. PICK r \in Requests : Shipping!BeginSome(r) \/ Shipping!Step(r) \/ Shipping!Rollback(r)
    BY DEF TransferStep, Shipping!Next
  <1>3. CASE Shipping!BeginSome(r)
    BY <1>1, <1>3, TransferBeginsStep
  <1>4. CASE Shipping!Rollback(r)
    BY <1>1, <1>4, CarrierGivesUp
  <1>5. CASE Shipping!ReadSource(r)
    BY <1>1, <1>5, ReadSourceStep
  <1>6. CASE Shipping!DeductSource(r)
    BY <1>1, <1>6, DeductSourceStep
  <1>7. CASE Shipping!ReceiveItem(r)
    BY <1>1, <1>7, ReceiveItemStep
  <1>8. CASE Shipping!CommitTransfer(r)
    BY <1>1, <1>8, CommitTransferStep
  <1> QED
    BY <1>2, <1>3, <1>4, <1>5, <1>6, <1>7, <1>8 DEF Shipping!Step

\* The steps of the other components leave transfers alone.
LEMMA OthersLeaveTransfers ==
    MCNext => TransferStep \/ UNCHANGED <<Other, workload>>
  BY DEF MCNext, TransferStep, Within, Other

\* The invariant does not speak of anything else.
LEMMA TransfersUnmoved ==
    TransfersInv /\ UNCHANGED <<Other, workload>> => TransfersInv'
  <1> SUFFICES ASSUME TransfersInv, UNCHANGED <<Other, workload>>
               PROVE  TransfersInv'
    OBVIOUS
  <1>1. /\ transfers' = transfers /\ on_hand' = on_hand /\ moved' = moved
        /\ admitted' = admitted /\ transfer_session' = transfer_session /\ workload' = workload
    BY DEF Other
  <1>2. TransferTables' /\ TransferBooks'
    BY <1>1, TransfersStay DEF TransfersInv
  <1>3. TransferSessions'
    BY <1>1 DEF TransfersInv, TransferSessions, Serial, Deployed
  <1>4. OneCarrier'
    BY <1>1 DEF TransfersInv, OneCarrier, Serial
  <1> QED
    BY <1>2, <1>3, <1>4 DEF TransfersInv

\* The invariant of transfers.
LEMMA TransfersInvariant ==
    MCSpec => []TransfersInv
  <1>1. MCInit => TransfersInv
    BY TransfersStart
  <1>2. TransfersInv /\ [MCNext]_<<vars, Other, Paperwork, workload>> => TransfersInv'
    <2> SUFFICES ASSUME TransfersInv, [MCNext]_<<vars, Other, Paperwork, workload>>
                 PROVE  TransfersInv'
      OBVIOUS
    <2>1. CASE UNCHANGED <<vars, Other, Paperwork, workload>>
      BY <2>1, TransfersUnmoved
    <2>2. CASE MCNext
      BY <2>2, OthersLeaveTransfers, TransfersUnmoved, TransfersStep
    <2> QED
      BY <2>1, <2>2
  <1> QED
    BY <1>1, <1>2, PTL DEF MCSpec

(* For any branches, products, stocks, schemas and workloads: with the      *)
(* statuses of models.py no bottle ever leaves a branch; with any others no *)
(* item is shipped beyond its request or received beyond its shipment and   *)
(* what leaves a branch is in the ledger, whatever overlaps; and one request*)
(* at a time every bottle a transfer took is in it or where it was received.*)
THEOREM BottlesAreConserved ==
    MCSpec => []TransfersConserveBottles
  BY TransfersAgree, TransfersInvariant, PTL

\* One request at a time, a completed or cancelled transfer is left alone.
LEMMA ClosedKeepsStep ==
    TransfersInv /\ [MCNext]_<<vars, Other, Paperwork, workload>> =>
        [Serial => Shipping!ClosedStep]_Other
  <1> SUFFICES ASSUME TransfersInv, MCNext, Serial
               PROVE  Shipping!ClosedStep \/ UNCHANGED Other
    BY DEF Other
  <1>1. CASE transfers' = transfers
    BY <1>1 DEF Shipping!ClosedStep
  <1>2. CASE transfers' # transfers
    <2>1. TransferStep
      BY <1>2, OthersLeaveTransfers DEF Other
    <2>2. IsTable(transfers)
      BY ShelvesTyped
    <2>3. PICK r \in Requests :
            \/ \E source, dest \in Branches, list \in ItemsMoved :
                    Shipping!CreateTransfer(r, source, dest, list)
            \/ Shipping!CommitTransfer(r) /\ ~Shipping!Fail(r, "constraint")
      <3>1. PICK r \in Requests : Shipping!BeginSome(r) \/ Shipping!Step(r) \/ Shipping!Rollback(r)
        BY <2>1 DEF TransferStep, Shipping!Next
      <3>2. \A handler, t, lines : ~Shipping!LoadTransfer(r, handler, t, lines)
        BY <1>2 DEF Shipping!LoadTransfer, Shipping!tables
      <3>3. \A s : ~Shipping!Continue(r, s)
        BY <1>2 DEF Shipping!Continue, Shipping!tables
      <3>4. ~Shipping!Rollback(r) /\ ~Shipping!ReadSource(r) /\ ~Shipping!DeductSource(r)
            /\ ~Shipping!ReceiveItem(r) /\ ~Shipping!Fail(r, "constraint")
        BY <3>3 DEF Shipping!Rollback, Shipping!ReadSource, Shipping!DeductSource,
                    Shipping!ReceiveItem, Shipping!Fail
      <3> QED
        BY <3>1, <3>2, <3>4 DEF Shipping!BeginSome, Shipping!Step
    <2>4. PICK new : new = transfers'
      OBVIOUS
    <2>5. ASSUME NEW source \in Branches, NEW dest \in Branches, NEW list \in ItemsMoved,
                 Shipping!CreateTransfer(r, source, dest, list)
          PROVE  Shipping!ClosedStep
      <3>1. PICK row : new = WithRow(transfers, row)
        BY <2>4, <2>5 DEF Shipping!CreateTransfer, WithRow
      <3>2. \A t \in DOMAIN transfers : new[t] = transfers[t]
        BY <2>2, <3>1, AppendRow
      <3> QED
        BY <2>4, <3>2 DEF Shipping!ClosedStep
    <2>6. CASE Shipping!CommitTransfer(r) /\ ~Shipping!Fail(r, "constraint")
      <3>1. PICK s : s = transfer_session[r]
        OBVIOUS
      <3>2. s.stage = "commit" /\ s.stage \in Working
        BY <2>6, <3>1 DEF Shipping!CommitTransfer, Working
      <3>3. CarrierKnows(s, transfers, on_hand) /\ CarrierAlone(s, transfers, on_hand)
        BY <3>1, CarrierIs
      <3>4. PICK i \in DOMAIN transfers : i = s.transfer
        BY <3>2, <3>3 DEF CarrierKnows
      <3>5. s.handler \in Carriers /\ transfers[i].status \in Shipping!Accepted(s.handler)
        BY <3>2, <3>3, <3>4 DEF CarrierKnows, CarrierAlone
      <3>6. transfers[i].status \notin {"completed", "cancelled"}
        BY <3>5 DEF Carriers, Shipping!Accepted
      <3>7. new = Changed(transfers, i, Shipping!Written(s))
        BY <2>4, <2>6, <3>1, <3>4 DEF Shipping!CommitTransfer, Changed
      <3>8. \A t \in DOMAIN transfers : t # i => new[t] = transfers[t]
        BY <2>2, <3>7, ChangeRow
      <3> QED
        BY <2>4, <3>6, <3>8 DEF Shipping!ClosedStep
    <2> QED
      BY <2>3, <2>5, <2>6
  <1> QED
    BY <1>1, <1>2

(* For any constants and workloads, one request at a time: an order beyond   *)
(* its draft keeps its items, a closed order and a closed transfer           *)
(* everything.                                                               *)
THEOREM ClosedDocumentsStay ==
    MCSpec => ApprovedAndClosedStay
  <1>1. PurchasesInv /\ [MCNext]_<<vars, Other, Paperwork, workload>> => [Serial => ApprovedStep]_vars
    BY ApprovedKeepsStep
  <1>2. TransfersInv /\ [MCNext]_<<vars, Other, Paperwork, workload>> =>
            [Serial => Shipping!ClosedStep]_Other
    BY ClosedKeepsStep
  <1> QED
    BY <1>1, <1>2, PurchasesInvariant, TransfersInvariant, PTL DEF MCSpec, ApprovedAndClosedStay

\* The tables are typed.
LEMMA TransfersTyped ==
    TransfersInv /\ served \in 0 .. MaxServed => Shipping!TypeOK
  <1> SUFFICES ASSUME TransfersInv, served \in 0 .. MaxServed PROVE Shipping!TypeOK
    OBVIOUS
  <1>1. \A t \in DOMAIN transfers : transfers[t] \in Shipping!StockTransfer
    BY ShelvesTyped DEF TransferTyped, Shipping!StockTransfer
  <1>2. \A r \in Requests : transfer_session[r].stage \in {"idle", "read", "update", "commit", "failed"}
    <2>1. ASSUME NEW r \in Requests
          PROVE  transfer_session[r].stage \in {"idle", "failed"} \cup Working
      <3>1. PICK s : s = transfer_session[r]
        OBVIOUS
      <3>2. s \in TransferSession
        BY <3>1, CarrierIs
      <3> QED
        BY <3>1, <3>2 DEF TransferSession
    <2> QED
      BY <2>1 DEF Working
  <1> QED
    BY <1>1, <1>2, ShelvesTyped DEF Shipping!TypeOK
-----------------------------------------------------------------------------
\* What the lines of a return are worth.
Worth(o, lines) ==
    SumOf([n \in DOMAIN lines |-> OrderItems[o][lines[n].item].unit_price * lines[n].quantity])

\* A return of the table, and the refund it has if it is worth anything.
ReturnFiled(ret, rfs) ==
    /\ ret \in Papers!Return /\ Papers!Returnable(ret.order, ret.items)
    /\ IF Worth(ret.order, ret.items) > 0
       THEN /\ ret.refund \in DOMAIN rfs /\ rfs[ret.refund].status = "completed"
            /\ rfs[ret.refund].order = ret.order
            /\ rfs[ret.refund].amount = Worth(ret.order, ret.items)
       ELSE ret.refund = 0

ClaimTables(rets, rfs) ==
    /\ IsTable(rets) /\ IsTable(rfs)
    /\ \A i \in DOMAIN rets : ReturnFiled(rets[i], rfs) /\ rets[i].number = i
    /\ \A j \in DOMAIN rfs : rfs[j] \in Papers!Refund /\ rfs[j].number = j
    /\ \A i, k \in DOMAIN rets : rets[i].refund # 0 /\ rets[i].refund = rets[k].refund => i = k
    /\ \A j \in DOMAIN rfs : rfs[j].status = "completed" =>
            \E i \in DOMAIN rets : rets[i].refund = j

ClaimsCounted(count, rets, rfs) ==
    count \in [Papers!DocTypes -> Nat] /\ count["RET"] = Len(rets) /\ count["REF"] = Len(rfs)

ClaimSession ==
    [stage : {"idle", "number return", "check items", "number refund", "commit", "complete"},
     handler : {"none", "return", "refund", "process"}, order : Orders \cup {"none"},
     lines : Returnings \cup {<<>>}, amount : Nat, numbers : [Papers!DocTypes -> Nat], id : Nat]

\* A return or a refund worked out, before its refund gets a number.
WorkedOut(s) ==
    /\ s.order \in Orders
    /\ \/ /\ s.handler = "return" /\ s.lines \in Returnings /\ s.numbers["RET"] > 0
          /\ Papers!Returnable(s.order, s.lines) /\ s.amount = Worth(s.order, s.lines)
       \/ s.handler = "refund" /\ s.amount > 0 /\ s.numbers["RET"] = 0

ClaimKnows(s, count) ==
    /\ \A d \in Papers!DocTypes : s.numbers[d] # 0 => s.numbers[d] = count[d] + 1
    /\ s.stage \in {"idle", "complete"} => s.numbers["RET"] = 0 /\ s.numbers["REF"] = 0
    /\ s.stage = "complete" => s.id \in 1 .. count["RET"]
    /\ s.stage \in {"number return", "check items"} =>
        /\ s.handler = "return" /\ s.order \in Orders /\ s.lines \in Returnings
        /\ s.numbers["REF"] = 0
    /\ s.stage = "number return" => s.numbers["RET"] = 0
    /\ s.stage = "check items" => s.numbers["RET"] > 0
    /\ s.stage \in {"number refund", "commit"} => WorkedOut(s)
    /\ s.stage = "number refund" => s.amount > 0 /\ s.numbers["REF"] = 0
    /\ s.stage = "commit" => (s.amount > 0 <=> s.numbers["REF"] > 0)

\* A sequence has one holder.
OneNumbering(sessions) ==
    \A d \in Papers!DocTypes : \A r, q \in Requests :
        sessions[r].numbers[d] # 0 /\ sessions[q].numbers[d] # 0 => r = q

ClaimSessions(sessions, count) ==
    /\ sessions = [r \in Requests |-> sessions[r]]
    /\ \A r \in Requests : sessions[r] \in ClaimSession /\ ClaimKnows(sessions[r], count)

ClaimsInv ==
    /\ ClaimTables(returns, refunds) /\ ClaimsCounted(taken, returns, refunds)
    /\ ClaimSessions(claim_session, taken) /\ OneNumbering(claim_session)
-----------------------------------------------------------------------------
\* Worth.

\* SumOf as Claims has it.
LEMMA PaperSums ==
    ASSUME NEW v PROVE Papers!SumOf(v) = SumOf(v)
  BY DEF Papers!SumOf, Papers!SumTo, SumOf, SumTo

\* The worth of lines that passed the check is a natural number.
LEMMA WorthIsNatural ==
    ASSUME NEW o \in Orders, NEW lines \in Returnings, Papers!Returnable(o, lines)
    PROVE  /\ Worth(o, lines) \in Nat
           /\ Papers!Value(o, lines) = Worth(o, lines)
           /\ \A ret : ret.order = o /\ ret.items = lines => Papers!SoldFor(ret) = Worth(o, lines)
  <1>1. PICK L : L = [item : Nat \ {0}, quantity : Nat \ {0}]
    OBVIOUS
  <1>2. lines \in Seq(L)
    BY <1>1, ClaimsAssumption
  <1>3. PICK I : I = [quantity : Nat, unit_price : Nat]
    OBVIOUS
  <1>4. OrderItems[o] \in Seq(I)
    BY <1>3, ClaimsAssumption
  <1>5. PICK m \in Nat : DOMAIN lines = 1 .. m
    BY <1>2
  <1>6. PICK items \in Seq(I) : items = OrderItems[o]
    BY <1>4
  <1>7. ASSUME NEW n \in 1 .. m
        PROVE  lines[n].quantity \in Nat /\ items[lines[n].item].unit_price \in Nat
    <2>1. lines[n] \in L
      BY <1>2, <1>5
    <2>2. lines[n].item \in DOMAIN items
      BY <1>5, <1>6 DEF Papers!Returnable
    <2>3. items[lines[n].item] \in I
      BY <2>2
    <2> QED
      BY <1>1, <1>3, <2>1, <2>3
  <1>8. ASSUME NEW n \in 1 .. m
        PROVE  /\ items[lines[n].item].unit_price * lines[n].quantity \in Nat
               /\ lines[n].quantity * items[lines[n].item].unit_price =
                    items[lines[n].item].unit_price * lines[n].quantity
    <2>1. PICK a \in Nat, b \in Nat : a = lines[n].quantity /\ b = items[lines[n].item].unit_price
      BY <1>7
    <2>2. a * b \in Nat /\ b * a = a * b
      OBVIOUS
    <2> QED
      BY <2>1, <2>2
  <1>9. PICK v : v = [n \in DOMAIN lines |-> OrderItems[o][lines[n].item].unit_price * lines[n].quantity]
    OBVIOUS
  <1>10. v = [n \in 1 .. m |-> v[n]] /\ \A n \in 1 .. m : v[n] \in Nat
    BY <1>5, <1>6, <1>8, <1>9
  <1>11. SumOf(v) \in Nat
    BY <1>10, ColumnSumType
  <1>12. Papers!Value(o, lines) = SumOf(v)
    BY <1>9, PaperSums DEF Papers!Value
  <1>13. ASSUME NEW ret, ret.order = o, ret.items = lines
         PROVE  Papers!SoldFor(ret) = SumOf(v)
    <2>1. PICK w : w = [n \in DOMAIN ret.items |->
                ret.items[n].quantity * OrderItems[ret.order][ret.items[n].item].unit_price]
      OBVIOUS
    <2>2. w = v
      BY <1>5, <1>6, <1>8, <1>9, <1>13, <2>1
    <2> QED
      BY <2>1, <2>2, PaperSums DEF Papers!SoldFor
  <1> QED
    BY <1>9, <1>11, <1>12, <1>13 DEF Worth

\* The columns of a return.
LEMMA ReturnColumns ==
    ASSUME NEW ret \in Papers!Return
    PROVE  /\ ret.order \in Orders /\ ret.number \in Nat \ {0} /\ ret.items \in Returnings
           /\ ret.refund \in Nat /\ ret.status \in {"pending", "completed"}
  BY DEF Papers!Return

\* A return says nothing new of refunds that were there.
LEMMA StillFiled ==
    ASSUME NEW ret, NEW rfs, IsTable(rfs), ReturnFiled(ret, rfs), NEW row,
           NEW more, more = WithRow(rfs, row)
    PROVE  ReturnFiled(ret, more)
  <1>1. DOMAIN rfs \subseteq DOMAIN more /\ \A j \in DOMAIN rfs : more[j] = rfs[j]
    BY AppendRow
  <1> QED
    BY <1>1 DEF ReturnFiled

\* The refund of a return is a row of the table or none.
LEMMA RefundNamed ==
    ASSUME NEW ret, NEW rfs, ReturnFiled(ret, rfs)
    PROVE  ret.refund \in DOMAIN rfs \cup {0}
  BY DEF ReturnFiled

-----------------------------------------------------------------------------
\* Documents filed.

\* A return with its refund.
LEMMA BothFiled ==
    ASSUME NEW rets, NEW rfs, ClaimTables(rets, rfs),
           NEW ret, NEW ref, NEW rets2, rets2 = WithRow(rets, ret),
           NEW rfs2, rfs2 = WithRow(rfs, ref),
           ret \in Papers!Return, ret.number = Len(rets) + 1, ret.refund = Len(rfs) + 1,
           Papers!Returnable(ret.order, ret.items), Worth(ret.order, ret.items) > 0,
           ref \in Papers!Refund, ref.number = Len(rfs) + 1, ref.status = "completed",
           ref.order = ret.order, ref.amount = Worth(ret.order, ret.items)
    PROVE  ClaimTables(rets2, rfs2)
  <1>1. IsTable(rets) /\ IsTable(rfs)
    BY DEF ClaimTables
  <1>2. PICK m \in Nat, n \in Nat : m = Len(rets) /\ n = Len(rfs)
    BY <1>1, TableIs
  <1>3. /\ IsTable(rets2) /\ DOMAIN rets = 1 .. m /\ DOMAIN rets2 = 1 .. m + 1
        /\ \A i \in 1 .. m : rets2[i] = rets[i]
        /\ rets2[m + 1] = ret
    BY <1>1, <1>2, AppendRow
  <1>4. /\ IsTable(rfs2) /\ DOMAIN rfs = 1 .. n /\ DOMAIN rfs2 = 1 .. n + 1
        /\ \A j \in 1 .. n : rfs2[j] = rfs[j]
        /\ rfs2[n + 1] = ref
    BY <1>1, <1>2, AppendRow
  <1>5. \A i \in 1 .. m : /\ ReturnFiled(rets[i], rfs) /\ ReturnFiled(rets[i], rfs2)
                          /\ rets[i].number = i
                          /\ rets[i].refund \in (1 .. n) \cup {0}
    BY <1>1, <1>3, <1>4, StillFiled, RefundNamed DEF ClaimTables
  <1>6. ReturnFiled(ret, rfs2)
    BY <1>2, <1>4 DEF ReturnFiled
  <1>7. \A i \in 1 .. m + 1 : ReturnFiled(rets2[i], rfs2) /\ rets2[i].number = i
    BY <1>2, <1>3, <1>5, <1>6
  <1>8. \A j \in 1 .. n + 1 : rfs2[j] \in Papers!Refund /\ rfs2[j].number = j
    BY <1>2, <1>4 DEF ClaimTables
  <1>9. ASSUME NEW i \in 1 .. m + 1, NEW k \in 1 .. m + 1,
               rets2[i].refund # 0, rets2[i].refund = rets2[k].refund
        PROVE  i = k
    <2>1. ret.refund \notin (1 .. n) \cup {0}
      BY <1>2
    <2>2. CASE i = m + 1 \/ k = m + 1
      BY <1>3, <1>5, <1>9, <2>1, <2>2
    <2>3. CASE i # m + 1 /\ k # m + 1
      BY <1>3, <1>9, <2>3 DEF ClaimTables
    <2> QED
      BY <2>2, <2>3
  <1>10. ASSUME NEW j \in 1 .. n + 1, rfs2[j].status = "completed"
         PROVE  \E i \in 1 .. m + 1 : rets2[i].refund = j
    <2>1. CASE j = n + 1
      BY <1>2, <1>3, <2>1
    <2>2. CASE j # n + 1
      <3>1. j \in DOMAIN rfs /\ rfs[j].status = "completed"
        BY <1>4, <1>10, <2>2
      <3>2. PICK i \in DOMAIN rets : rets[i].refund = j
        BY <3>1 DEF ClaimTables
      <3> QED
        BY <1>3, <3>2
    <2> QED
      BY <2>1, <2>2
  <1> QED
    BY <1>3, <1>4, <1>7, <1>8, <1>9, <1>10 DEF ClaimTables

\* A return that is worth nothing.
LEMMA ReturnOnly ==
    ASSUME NEW rets, NEW rfs, ClaimTables(rets, rfs),
           NEW ret, NEW rets2, rets2 = WithRow(rets, ret),
           ret \in Papers!Return, ret.number = Len(rets) + 1, ret.refund = 0,
           Papers!Returnable(ret.order, ret.items), ~(Worth(ret.order, ret.items) > 0)
    PROVE  ClaimTables(rets2, rfs)
  <1>1. IsTable(rets) /\ IsTable(rfs)
    BY DEF ClaimTables
  <1>2. PICK m \in Nat : m = Len(rets)
    BY <1>1, TableIs
  <1>3. /\ IsTable(rets2) /\ DOMAIN rets = 1 .. m /\ DOMAIN rets2 = 1 .. m + 1
        /\ \A i \in 1 .. m : rets2[i] = rets[i]
        /\ rets2[m + 1] = ret
    BY <1>1, <1>2, AppendRow
  <1>4. ReturnFiled(ret, rfs)
    BY DEF ReturnFiled
  <1>5. \A i \in 1 .. m + 1 : ReturnFiled(rets2[i], rfs) /\ rets2[i].number = i
    BY <1>2, <1>3, <1>4 DEF ClaimTables
  <1>6. ASSUME NEW i \in 1 .. m + 1, NEW k \in 1 .. m + 1,
               rets2[i].refund # 0, rets2[i].refund = rets2[k].refund
        PROVE  i = k
    <2>1. i # m + 1 /\ k # m + 1
      BY <1>3, <1>6
    <2> QED
      BY <1>3, <1>6, <2>1 DEF ClaimTables
  <1>7. ASSUME NEW j \in DOMAIN rfs, rfs[j].status = "completed"
        PROVE  \E i \in 1 .. m + 1 : rets2[i].refund = j
    <2>1. PICK i \in 1 .. m : rets[i].refund = j
      BY <1>3, <1>7 DEF ClaimTables
    <2> QED
      BY <1>3, <2>1
  <1>8. \A j \in DOMAIN rfs : rfs[j] \in Papers!Refund /\ rfs[j].number = j
    BY DEF ClaimTables
  <1> QED
    BY <1>1, <1>3, <1>5, <1>6, <1>7, <1>8 DEF ClaimTables

\* A refund asked for.
LEMMA RefundOnly ==
    ASSUME NEW rets, NEW rfs, ClaimTables(rets, rfs),
           NEW ref, NEW rfs2, rfs2 = WithRow(rfs, ref),
           ref \in Papers!Refund, ref.number = Len(rfs) + 1, ref.status = "pending"
    PROVE  ClaimTables(rets, rfs2)
  <1>1. IsTable(rets) /\ IsTable(rfs)
    BY DEF ClaimTables
  <1>2. PICK n \in Nat : n = Len(rfs)
    BY <1>1, TableIs
  <1>3. /\ IsTable(rfs2) /\ DOMAIN rfs = 1 .. n /\ DOMAIN rfs2 = 1 .. n + 1
        /\ \A j \in 1 .. n : rfs2[j] = rfs[j]
        /\ rfs2[n + 1] = ref
    BY <1>1, <1>2, AppendRow
  <1>4. \A i \in DOMAIN rets : ReturnFiled(rets[i], rfs2) /\ rets[i].number = i
    BY <1>1, StillFiled DEF ClaimTables
  <1>5. \A j \in 1 .. n + 1 : rfs2[j] \in Papers!Refund /\ rfs2[j].number = j
    BY <1>2, <1>3 DEF ClaimTables
  <1>6. \A j \in 1 .. n + 1 : rfs2[j].status = "completed" => j \in DOMAIN rfs /\ rfs2[j] = rfs[j]
    BY <1>3
  <1>7. \A j \in 1 .. n + 1 : rfs2[j].status = "completed" => \E i \in DOMAIN rets : rets[i].refund = j
    BY <1>6 DEF ClaimTables
  <1>8. \A i, k \in DOMAIN rets : rets[i].refund # 0 /\ rets[i].refund = rets[k].refund => i = k
    BY DEF ClaimTables
  <1> QED
    BY <1>1, <1>3, <1>4, <1>5, <1>7, <1>8 DEF ClaimTables

\* A return processed.
LEMMA ReturnProcessed ==
    ASSUME NEW rets, NEW rfs, ClaimTables(rets, rfs), NEW k \in DOMAIN rets,
           NEW row, row = [rets[k] EXCEPT !.status = "completed"],
           NEW rets2, rets2 = Changed(rets, k, row)
    PROVE  ClaimTables(rets2, rfs) /\ Len(rets2) = Len(rets)
  <1>1. IsTable(rets) /\ IsTable(rfs)
    BY DEF ClaimTables
  <1>2. /\ IsTable(rets2) /\ Len(rets2) = Len(rets) /\ DOMAIN rets2 = DOMAIN rets
        /\ \A i \in DOMAIN rets : rets2[i] = IF i = k THEN row ELSE rets[i]
    BY <1>1, ChangeRow
  <1>3. ReturnFiled(rets[k], rfs) /\ rets[k].number = k /\ rets[k] \in Papers!Return
    BY DEF ClaimTables, ReturnFiled
  <1>4. /\ row \in Papers!Return /\ row.order = rets[k].order /\ row.items = rets[k].items
        /\ row.refund = rets[k].refund /\ row.number = rets[k].number
    BY <1>3 DEF Papers!Return
  <1>5. ReturnFiled(row, rfs)
    BY <1>3, <1>4 DEF ReturnFiled
  <1>6. \A i \in DOMAIN rets : /\ rets2[i].refund = rets[i].refund
                               /\ ReturnFiled(rets2[i], rfs) /\ rets2[i].number = i
    BY <1>2, <1>3, <1>4, <1>5 DEF ClaimTables
  <1>7. \A j \in DOMAIN rfs : rfs[j] \in Papers!Refund /\ rfs[j].number = j
    BY DEF ClaimTables
  <1>8. \A i, n \in DOMAIN rets : rets[i].refund # 0 /\ rets[i].refund = rets[n].refund => i = n
    BY DEF ClaimTables
  <1>9. \A j \in DOMAIN rfs : rfs[j].status = "completed" => \E i \in DOMAIN rets : rets[i].refund = j
    BY DEF ClaimTables
  <1> QED
    BY <1>1, <1>2, <1>6, <1>7, <1>8, <1>9 DEF ClaimTables
-----------------------------------------------------------------------------
\* Steps.

\* The sequences.
LEMMA Sequences == "RET" \in Papers!DocTypes /\ "REF" \in Papers!DocTypes
                   /\ \A d \in Papers!DocTypes : d = "RET" \/ d = "REF"
  BY DEF Papers!DocTypes

\* The session of a request that has not begun.
LEMMA IdleClaimIs ==
    /\ Papers!IdleClaim \in ClaimSession /\ Papers!IdleClaim.stage = "idle"
    /\ \A d \in Papers!DocTypes : Papers!IdleClaim.numbers[d] = 0
    /\ \A count : ClaimKnows(Papers!IdleClaim, count)
  <1>1. PICK zero : zero = [d \in Papers!DocTypes |-> 0]
    OBVIOUS
  <1>2. zero \in [Papers!DocTypes -> Nat] /\ \A d \in Papers!DocTypes : zero[d] = 0
    BY <1>1
  <1>3. Papers!IdleClaim = [stage |-> "idle", handler |-> "none", order |-> "none", lines |-> <<>>,
                            amount |-> 0, numbers |-> zero, id |-> 0]
    BY <1>1 DEF Papers!IdleClaim
  <1>4. Papers!IdleClaim \in ClaimSession
    BY <1>2, <1>3 DEF ClaimSession
  <1>5. Papers!IdleClaim.stage = "idle" /\ Papers!IdleClaim.numbers = zero
    BY <1>3
  <1>6. \A count : ClaimKnows(Papers!IdleClaim, count)
    BY <1>2, <1>5, Sequences DEF ClaimKnows
  <1> QED
    BY <1>2, <1>4, <1>5, <1>6

\* What the invariant says of a session.
LEMMA ClaimIs ==
    ASSUME ClaimsInv, NEW r \in Requests, NEW s, s = claim_session[r]
    PROVE  s \in ClaimSession /\ ClaimKnows(s, taken) /\ s.numbers \in [Papers!DocTypes -> Nat]
  <1>1. s \in ClaimSession /\ ClaimKnows(s, taken)
    BY DEF ClaimsInv, ClaimSessions
  <1>2. s.numbers \in [Papers!DocTypes -> Nat]
    BY <1>1 DEF ClaimSession
  <1> QED
    BY <1>1, <1>2

\* A step that changes one session and no document.
LEMMA ClaimMoves ==
    ASSUME ClaimsInv, NEW r \in Requests, NEW s \in ClaimSession, ClaimKnows(s, taken),
           claim_session' = [claim_session EXCEPT ![r] = s],
           UNCHANGED <<returns, refunds, taken>>,
           \A d \in Papers!DocTypes : s.numbers[d] # 0 =>
                \A q \in Requests \ {r} : claim_session[q].numbers[d] = 0
    PROVE  ClaimsInv'
  <1>1. PICK new : new = claim_session'
    OBVIOUS
  <1>2. /\ new = [q \in Requests |-> new[q]] /\ new[r] = s
        /\ \A q \in Requests \ {r} : new[q] = claim_session[q]
    BY <1>1 DEF ClaimsInv, ClaimSessions
  <1>3. ClaimSessions(new, taken)
    <2>1. ASSUME NEW q \in Requests
          PROVE  new[q] \in ClaimSession /\ ClaimKnows(new[q], taken)
      BY <1>2 DEF ClaimsInv, ClaimSessions
    <2> QED
      BY <1>2, <2>1 DEF ClaimSessions
  <1>4. OneNumbering(new)
    <2>1. ASSUME NEW d \in Papers!DocTypes, NEW q \in Requests, NEW k \in Requests,
                 new[q].numbers[d] # 0, new[k].numbers[d] # 0
          PROVE  q = k
      <3>1. CASE q = r /\ k # r
        BY <1>2, <2>1, <3>1
      <3>2. CASE k = r /\ q # r
        BY <1>2, <2>1, <3>2
      <3>3. CASE q # r /\ k # r
        BY <1>2, <2>1, <3>3 DEF ClaimsInv, OneNumbering
      <3> QED
        BY <3>1, <3>2, <3>3
    <2> QED
      BY <2>1 DEF OneNumbering
  <1>5. returns' = returns /\ refunds' = refunds /\ taken' = taken
    OBVIOUS
  <1> QED
    BY <1>1, <1>3, <1>4, <1>5 DEF ClaimsInv

\* The transaction is closed.
LEMMA AbandonStep ==
    ASSUME ClaimsInv, NEW r \in Requests, Papers!Abandon(r)
    PROVE  ClaimsInv'
  <1>1. claim_session' = [claim_session EXCEPT ![r] = Papers!IdleClaim]
        /\ UNCHANGED <<returns, refunds, taken>>
    BY DEF Papers!Abandon, Papers!Continue, Papers!documents
  <1> QED
    BY <1>1, IdleClaimIs, ClaimMoves

\* A request begins.
LEMMA ClaimBeginsStep ==
    ASSUME ClaimsInv, NEW r \in Requests, Papers!BeginSome(r)
    PROVE  ClaimsInv'
  <1>1. PICK idle \in ClaimSession : idle = Papers!IdleClaim
    BY IdleClaimIs
  <1>2. \A d \in Papers!DocTypes : idle.numbers[d] = 0
    BY <1>1, IdleClaimIs
  <1>3. idle.numbers["RET"] = 0 /\ idle.numbers["REF"] = 0
    BY <1>2, Sequences
  <1>4. ASSUME NEW o \in Orders, NEW lines \in Returnings, Papers!LoadOrder(r, o, lines)
        PROVE  ClaimsInv'
    <2>1. PICK s : s = [idle EXCEPT !.stage = "number return", !.handler = "return",
                                    !.order = o, !.lines = lines]
      OBVIOUS
    <2>2. claim_session' = [claim_session EXCEPT ![r] = s] /\ UNCHANGED <<returns, refunds, taken>>
      BY <1>1, <1>4, <2>1 DEF Papers!LoadOrder, Papers!Begin, Papers!documents
    <2>3. /\ s \in ClaimSession /\ s.stage = "number return" /\ s.handler = "return"
          /\ s.order = o /\ s.lines = lines /\ s.numbers = idle.numbers
      BY <2>1 DEF ClaimSession
    <2>4. ClaimKnows(s, taken)
      BY <1>2, <1>3, <2>3 DEF ClaimKnows
    <2> QED
      BY <1>2, <2>2, <2>3, <2>4, ClaimMoves
  <1>5. ASSUME NEW o \in Orders, NEW amount \in Amounts, Papers!RequestRefund(r, o, amount)
        PROVE  ClaimsInv'
    <2>1. amount \in Nat /\ amount > 0
      <3>1. Amounts \subseteq Nat \ {0}
        BY ClaimsAssumption
      <3> QED
        BY <3>1
    <2>2. PICK s : s = [idle EXCEPT !.stage = "number refund", !.handler = "refund",
                                    !.order = o, !.amount = amount]
      OBVIOUS
    <2>3. claim_session' = [claim_session EXCEPT ![r] = s] /\ UNCHANGED <<returns, refunds, taken>>
      BY <1>1, <1>5, <2>2 DEF Papers!RequestRefund, Papers!Begin, Papers!documents
    <2>4. /\ s \in ClaimSession /\ s.stage = "number refund" /\ s.handler = "refund"
          /\ s.order = o /\ s.amount = amount /\ s.numbers = idle.numbers
      BY <2>1, <2>2 DEF ClaimSession
    <2>5. WorkedOut(s)
      BY <1>3, <2>1, <2>4 DEF WorkedOut
    <2>6. ClaimKnows(s, taken)
      BY <1>2, <1>3, <2>1, <2>4, <2>5 DEF ClaimKnows
    <2> QED
      BY <1>2, <2>3, <2>4, <2>6, ClaimMoves
  <1>6. ASSUME NEW i \in DOMAIN returns, Papers!LoadReturn(r, i)
        PROVE  ClaimsInv'
    <2>1. i \in Nat /\ i \in 1 .. taken["RET"]
      <3>1. IsTable(returns) /\ taken["RET"] = Len(returns)
        BY DEF ClaimsInv, ClaimTables, ClaimsCounted
      <3>2. DOMAIN returns = 1 .. Len(returns) /\ Len(returns) \in Nat
        BY <3>1, TableIs
      <3> QED
        BY <3>1, <3>2
    <2>2. PICK s : s = [idle EXCEPT !.stage = "complete", !.handler = "process", !.id = i]
      OBVIOUS
    <2>3. claim_session' = [claim_session EXCEPT ![r] = s] /\ UNCHANGED <<returns, refunds, taken>>
      BY <1>1, <1>6, <2>2 DEF Papers!LoadReturn, Papers!Begin, Papers!documents
    <2>4. /\ s \in ClaimSession /\ s.stage = "complete" /\ s.id = i /\ s.numbers = idle.numbers
      BY <2>1, <2>2 DEF ClaimSession
    <2>5. ClaimKnows(s, taken)
      BY <1>2, <1>3, <2>1, <2>4 DEF ClaimKnows
    <2> QED
      BY <1>2, <2>3, <2>4, <2>5, ClaimMoves
  <1> QED
    BY <1>4, <1>5, <1>6 DEF Papers!BeginSome

\* A number.
LEMMA NextNumber ==
    ASSUME NEW n \in Nat PROVE n + 1 \in Nat /\ n + 1 > 0 /\ n + 1 # 0 /\ ~(0 > 0)
  OBVIOUS

\* _next_sequence.
LEMMA NumberStep ==
    ASSUME ClaimsInv, NEW r \in Requests, Papers!NumberReturn(r) \/ Papers!NumberRefund(r)
    PROVE  ClaimsInv'
  <1>1. PICK t : t = claim_session[r]
    OBVIOUS
  <1>2. t \in ClaimSession /\ ClaimKnows(t, taken) /\ t.numbers \in [Papers!DocTypes -> Nat]
    BY <1>1, ClaimIs
  <1>3. PICK d \in Papers!DocTypes, stage \in {"check items", "commit"} :
            /\ Papers!Lock(r, d, stage)
            /\ \/ t.stage = "number return" /\ d = "RET" /\ stage = "check items"
               \/ t.stage = "number refund" /\ d = "REF" /\ stage = "commit"
    BY <1>1, Sequences DEF Papers!NumberReturn, Papers!NumberRefund
  <1>4. taken \in [Papers!DocTypes -> Nat]
    BY DEF ClaimsInv, ClaimsCounted
  <1>5. PICK n \in Nat : n = taken[d] + 1 /\ n > 0
    <2>1. PICK last \in Nat : last = taken[d]
      BY <1>4
    <2>2. last + 1 \in Nat /\ last + 1 > 0
      BY NextNumber
    <2> QED
      BY <2>1, <2>2
  <1>6. PICK numbers \in [Papers!DocTypes -> Nat] : numbers = [t.numbers EXCEPT ![d] = n]
    BY <1>2
  <1>7. numbers[d] = n /\ \A e \in Papers!DocTypes : e # d => numbers[e] = t.numbers[e]
    BY <1>2, <1>6
  <1>8. PICK s : s = [t EXCEPT !.numbers = numbers, !.stage = stage]
    OBVIOUS
  <1>9. /\ claim_session' = [claim_session EXCEPT ![r] = s] /\ UNCHANGED <<returns, refunds, taken>>
        /\ \A q \in Requests \ {r} : claim_session[q].numbers[d] = 0
    BY <1>1, <1>3, <1>5, <1>6, <1>8 DEF Papers!Lock, Papers!Free, Papers!Continue, Papers!documents
  <1>10. s \in ClaimSession
    BY <1>2, <1>8 DEF ClaimSession
  <1>11. /\ s.stage = stage /\ s.handler = t.handler /\ s.order = t.order /\ s.lines = t.lines
         /\ s.amount = t.amount /\ s.numbers = numbers /\ s.id = t.id
    BY <1>2, <1>8 DEF ClaimSession
  <1>12. \A e \in Papers!DocTypes : numbers[e] # 0 => numbers[e] = taken[e] + 1
    BY <1>2, <1>5, <1>7 DEF ClaimKnows
  <1>13. ClaimKnows(s, taken)
    <2>1. CASE t.stage = "number return" /\ d = "RET" /\ stage = "check items"
      <3>1. /\ t.handler = "return" /\ t.order \in Orders /\ t.lines \in Returnings
            /\ t.numbers["REF"] = 0
        BY <1>2, <2>1 DEF ClaimKnows
      <3>2. numbers["RET"] > 0 /\ numbers["REF"] = 0
        BY <1>5, <1>7, <2>1, <3>1, Sequences
      <3> QED
        BY <1>11, <1>12, <2>1, <3>1, <3>2 DEF ClaimKnows
    <2>2. CASE t.stage = "number refund" /\ d = "REF" /\ stage = "commit"
      <3>1. WorkedOut(t) /\ t.amount > 0
        BY <1>2, <2>2 DEF ClaimKnows
      <3>2. numbers["REF"] > 0 /\ numbers["RET"] = t.numbers["RET"]
        BY <1>5, <1>7, <2>2, Sequences
      <3>3. WorkedOut(s)
        BY <1>11, <3>1, <3>2 DEF WorkedOut
      <3> QED
        BY <1>11, <1>12, <2>2, <3>1, <3>2, <3>3 DEF ClaimKnows
    <2> QED
      BY <1>3, <2>1, <2>2
  <1>14. ASSUME NEW e \in Papers!DocTypes, s.numbers[e] # 0, NEW q \in Requests \ {r}
         PROVE  claim_session[q].numbers[e] = 0
    <2>1. CASE e = d
      BY <1>9, <2>1
    <2>2. CASE e # d
      <3>1. claim_session[r].numbers[e] # 0
        BY <1>1, <1>7, <1>11, <1>14, <2>2
      <3> QED
        BY <3>1 DEF ClaimsInv, OneNumbering
    <2> QED
      BY <2>1, <2>2
  <1> QED
    BY <1>9, <1>10, <1>13, <1>14, ClaimMoves

\* The lines of a return are checked and valued.
LEMMA CheckItemsStep ==
    ASSUME ClaimsInv, NEW r \in Requests, Papers!CheckItems(r)
    PROVE  ClaimsInv'
  <1>1. PICK t : t = claim_session[r]
    OBVIOUS
  <1>2. t \in ClaimSession /\ ClaimKnows(t, taken) /\ t.numbers \in [Papers!DocTypes -> Nat]
    BY <1>1, ClaimIs
  <1>3. t.stage = "check items" /\ Papers!Returnable(t.order, t.lines)
    BY <1>1 DEF Papers!CheckItems
  <1>4. /\ t.handler = "return" /\ t.order \in Orders /\ t.lines \in Returnings
        /\ t.numbers["REF"] = 0 /\ t.numbers["RET"] > 0
    BY <1>2, <1>3 DEF ClaimKnows
  <1>5. PICK total \in Nat : total = Worth(t.order, t.lines) /\ total = Papers!Value(t.order, t.lines)
    BY <1>3, <1>4, WorthIsNatural
  <1>6. PICK stage \in {"number refund", "commit"} :
            stage = IF total > 0 THEN "number refund" ELSE "commit"
    OBVIOUS
  <1>7. PICK s : s = [t EXCEPT !.stage = stage, !.amount = total]
    OBVIOUS
  <1>8. claim_session' = [claim_session EXCEPT ![r] = s] /\ UNCHANGED <<returns, refunds, taken>>
    BY <1>1, <1>5, <1>6, <1>7 DEF Papers!CheckItems, Papers!Continue, Papers!documents
  <1>9. s \in ClaimSession
    BY <1>2, <1>7 DEF ClaimSession
  <1>10. /\ s.stage = stage /\ s.handler = t.handler /\ s.order = t.order /\ s.lines = t.lines
         /\ s.amount = total /\ s.numbers = t.numbers /\ s.id = t.id
    BY <1>2, <1>7 DEF ClaimSession
  <1>11. WorkedOut(s)
    BY <1>3, <1>4, <1>5, <1>10 DEF WorkedOut
  <1>12. \A d \in Papers!DocTypes : t.numbers[d] # 0 => t.numbers[d] = taken[d] + 1
    BY <1>2 DEF ClaimKnows
  <1>13. ClaimKnows(s, taken)
    <2>1. s.stage = "commit" => ~(s.amount > 0) /\ ~(s.numbers["REF"] > 0)
      <3>1. s.stage = "commit" => ~(s.amount > 0)
        BY <1>6, <1>10
      <3>2. s.numbers["REF"] = 0
        BY <1>4, <1>10
      <3>3. ~(0 > 0)
        BY NextNumber
      <3> QED
        BY <3>1, <3>2, <3>3
    <2>2. s.stage = "number refund" => s.amount > 0 /\ s.numbers["REF"] = 0
      BY <1>4, <1>6, <1>10
    <2> QED
      BY <1>6, <1>10, <1>11, <1>12, <2>1, <2>2 DEF ClaimKnows
  <1>14. ASSUME NEW d \in Papers!DocTypes, s.numbers[d] # 0, NEW q \in Requests \ {r}
         PROVE  claim_session[q].numbers[d] = 0
    <2>1. claim_session[r].numbers[d] # 0
      BY <1>1, <1>10, <1>14
    <2> QED
      BY <2>1 DEF ClaimsInv, OneNumbering
  <1> QED
    BY <1>8, <1>9, <1>13, <1>14, ClaimMoves

\* What the sessions of others know of sequences they do not hold.
LEMMA OthersCount ==
    ASSUME NEW s, NEW count \in [Papers!DocTypes -> Nat], ClaimKnows(s, count),
           NEW more \in [Papers!DocTypes -> Nat],
           \A d \in Papers!DocTypes : s.numbers[d] # 0 => more[d] = count[d],
           count["RET"] <= more["RET"]
    PROVE  ClaimKnows(s, more)
  <1>1. \A d \in Papers!DocTypes : s.numbers[d] # 0 => s.numbers[d] = more[d] + 1
    BY DEF ClaimKnows
  <1>2. s.stage = "complete" => s.id \in 1 .. more["RET"]
    <2>1. PICK a \in Nat, b \in Nat : a = count["RET"] /\ b = more["RET"]
      BY Sequences
    <2>2. \A i : i \in 1 .. a /\ a <= b => i \in 1 .. b
      OBVIOUS
    <2> QED
      BY <2>1, <2>2 DEF ClaimKnows
  <1> QED
    BY <1>1, <1>2 DEF ClaimKnows

\* A commit: the documents, and the sequences the request held.
LEMMA ClaimEnds ==
    ASSUME ClaimsInv, NEW r \in Requests,
           claim_session' = [claim_session EXCEPT ![r] = Papers!IdleClaim],
           ClaimTables(returns', refunds'), ClaimsCounted(taken', returns', refunds'),
           taken["RET"] <= taken'["RET"],
           \A d \in Papers!DocTypes : claim_session[r].numbers[d] = 0 => taken'[d] = taken[d]
    PROVE  ClaimsInv'
  <1>1. PICK new, count : new = claim_session' /\ count = taken'
    OBVIOUS
  <1>2. /\ new = [q \in Requests |-> new[q]] /\ new[r] = Papers!IdleClaim
        /\ \A q \in Requests \ {r} : new[q] = claim_session[q]
    BY <1>1 DEF ClaimsInv, ClaimSessions
  <1>3. taken \in [Papers!DocTypes -> Nat] /\ count \in [Papers!DocTypes -> Nat]
    BY <1>1 DEF ClaimsInv, ClaimsCounted
  <1>4. ASSUME NEW q \in Requests
        PROVE  new[q] \in ClaimSession /\ ClaimKnows(new[q], count)
    <2>1. CASE q = r
      BY <1>2, <2>1, IdleClaimIs
    <2>2. CASE q # r
      <3>1. PICK s : s = claim_session[q]
        OBVIOUS
      <3>2. s \in ClaimSession /\ ClaimKnows(s, taken)
        BY <3>1, ClaimIs
      <3>3. \A d \in Papers!DocTypes : s.numbers[d] # 0 => count[d] = taken[d]
        <4>1. ASSUME NEW d \in Papers!DocTypes, s.numbers[d] # 0
              PROVE  claim_session[r].numbers[d] = 0
          BY <2>2, <3>1, <4>1 DEF ClaimsInv, OneNumbering
        <4> QED
          BY <1>1, <4>1
      <3>4. taken["RET"] <= count["RET"]
        BY <1>1
      <3>5. ClaimKnows(s, count)
        BY <1>3, <3>2, <3>3, <3>4, OthersCount
      <3> QED
        BY <1>2, <2>2, <3>1, <3>2, <3>5
    <2> QED
      BY <2>1, <2>2
  <1>5. ClaimSessions(new, count)
    BY <1>2, <1>4 DEF ClaimSessions
  <1>6. OneNumbering(new)
    <2>1. ASSUME NEW d \in Papers!DocTypes, NEW q \in Requests, NEW k \in Requests,
                 new[q].numbers[d] # 0, new[k].numbers[d] # 0
          PROVE  q = k
      <3>1. q # r /\ k # r
        BY <1>2, <2>1, IdleClaimIs
      <3> QED
        BY <1>2, <2>1, <3>1 DEF ClaimsInv, OneNumbering
    <2> QED
      BY <2>1 DEF OneNumbering
  <1> QED
    BY <1>1, <1>5, <1>6 DEF ClaimsInv

\* A commit of a return or of a refund.
LEMMA CommitClaimStep ==
    ASSUME ClaimsInv, NEW r \in Requests, Papers!Commit(r)
    PROVE  ClaimsInv'
  <1>1. PICK s : s = claim_session[r]
    OBVIOUS
  <1>2. s \in ClaimSession /\ ClaimKnows(s, taken) /\ s.numbers \in [Papers!DocTypes -> Nat]
    BY <1>1, ClaimIs
  <1>3. s.stage = "commit"
    BY <1>1 DEF Papers!Commit
  <1>4. WorkedOut(s) /\ (s.amount > 0 <=> s.numbers["REF"] > 0)
    BY <1>2, <1>3 DEF ClaimKnows
  <1>5. PICK a \in Nat, f \in Nat, m \in Nat, n \in Nat :
            /\ a = s.numbers["RET"] /\ f = s.numbers["REF"]
            /\ m = Len(returns) /\ n = Len(refunds)
    <2>1. s.numbers["RET"] \in Nat /\ s.numbers["REF"] \in Nat
      BY <1>2, Sequences
    <2>2. Len(returns) \in Nat /\ Len(refunds) \in Nat
      BY TableIs DEF ClaimsInv, ClaimTables
    <2> QED
      BY <2>1, <2>2
  <1>6. taken \in [Papers!DocTypes -> Nat] /\ taken["RET"] = m /\ taken["REF"] = n
    BY <1>5 DEF ClaimsInv, ClaimsCounted
  <1>7. (a # 0 => a = m + 1) /\ (f # 0 => f = n + 1)
    BY <1>2, <1>5, <1>6, Sequences DEF ClaimKnows
  <1>8. PICK ret, ref : ret = Papers!NewReturn(s) /\ ref = Papers!NewRefund(s)
    OBVIOUS
  <1>9. PICK amount \in Nat : amount = s.amount /\ (amount > 0 <=> f > 0)
    BY <1>2, <1>4, <1>5 DEF ClaimSession
  <1>10. /\ returns' = IF s.handler = "return" THEN WithRow(returns, ret) ELSE returns
         /\ refunds' = IF amount > 0 THEN WithRow(refunds, ref) ELSE refunds
         /\ taken' = [d \in Papers!DocTypes |-> IF s.numbers[d] > 0 THEN s.numbers[d] ELSE taken[d]]
         /\ claim_session' = [claim_session EXCEPT ![r] = Papers!IdleClaim]
    BY <1>1, <1>8, <1>9 DEF Papers!Commit, WithRow
  <1>11. PICK rets, rfs, count : rets = returns' /\ rfs = refunds' /\ count = taken'
    OBVIOUS
  <1>12. PICK b \in Nat, g \in Nat : /\ b = IF a > 0 THEN m + 1 ELSE m
                                     /\ g = IF f > 0 THEN n + 1 ELSE n
    OBVIOUS
  <1>13. count \in [Papers!DocTypes -> Nat] /\ count["RET"] = b /\ count["REF"] = g
    <2>1. \A d \in Papers!DocTypes : (IF s.numbers[d] > 0 THEN s.numbers[d] ELSE taken[d]) \in Nat
      BY <1>2, <1>6
    <2>2. count \in [Papers!DocTypes -> Nat]
      BY <1>10, <1>11, <2>1
    <2>3. /\ count["RET"] = IF a > 0 THEN a ELSE m
          /\ count["REF"] = IF f > 0 THEN f ELSE n
      BY <1>5, <1>6, <1>10, <1>11, Sequences
    <2>4. (a > 0 => a = m + 1) /\ (f > 0 => f = n + 1)
      BY <1>7
    <2> QED
      BY <1>12, <2>2, <2>3, <2>4
  <1>14. /\ \A d \in Papers!DocTypes : s.numbers[d] = 0 => count[d] = taken[d]
         /\ taken["RET"] <= count["RET"]
    <2>1. \A d \in Papers!DocTypes : count[d] = IF s.numbers[d] > 0 THEN s.numbers[d] ELSE taken[d]
      BY <1>10, <1>11
    <2>2. ~(0 > 0)
      BY NextNumber
    <2>3. m <= b
      BY <1>12
    <2> QED
      BY <1>6, <1>13, <2>1, <2>2, <2>3
  <1>15. ClaimTables(returns, refunds)
    BY DEF ClaimsInv
  <1>16. s.order \in Orders
    BY <1>4 DEF WorkedOut
  <1>17. /\ ret = [order |-> s.order, number |-> a, status |-> "pending", items |-> s.lines,
                   refund |-> IF amount > 0 THEN n + 1 ELSE 0]
         /\ ref = [order |-> s.order, number |-> f, amount |-> amount,
                   status |-> IF s.handler = "return" THEN "completed" ELSE "pending"]
    BY <1>5, <1>8, <1>9 DEF Papers!NewReturn, Papers!NewRefund
  <1>18. amount > 0 => ref \in Papers!Refund /\ ref.number = n + 1
    <2>1. amount > 0 => amount \in Nat \ {0} /\ f \in Nat \ {0} /\ f = n + 1
      BY <1>7, <1>9
    <2> QED
      BY <1>16, <1>17, <2>1 DEF Papers!Refund
  <1>19. CASE s.handler = "return"
    <2>1. /\ s.lines \in Returnings /\ Papers!Returnable(s.order, s.lines)
          /\ amount = Worth(s.order, s.lines) /\ a > 0
      BY <1>4, <1>5, <1>9, <1>19 DEF WorkedOut
    <2>2. a = m + 1 /\ a \in Nat \ {0} /\ b = m + 1
      BY <1>7, <1>12, <2>1
    <2>3. rets = WithRow(returns, ret)
      BY <1>10, <1>11, <1>19
    <2>4. PICK id \in Nat : id = IF amount > 0 THEN n + 1 ELSE 0
      OBVIOUS
    <2>5. /\ ret \in Papers!Return /\ ret.number = m + 1 /\ ret.order = s.order
          /\ ret.items = s.lines /\ ret.refund = id
      BY <1>16, <1>17, <2>1, <2>2, <2>4 DEF Papers!Return
    <2>6. IsTable(returns) /\ IsTable(refunds)
      BY <1>15 DEF ClaimTables
    <2>7. CASE amount > 0
      <3>1. rfs = WithRow(refunds, ref)
        BY <1>10, <1>11, <2>7
      <3>2. /\ ret.refund = Len(refunds) + 1 /\ ret.number = Len(returns) + 1
            /\ Papers!Returnable(ret.order, ret.items) /\ Worth(ret.order, ret.items) > 0
            /\ ref \in Papers!Refund /\ ref.number = Len(refunds) + 1 /\ ref.status = "completed"
            /\ ref.order = ret.order /\ ref.amount = Worth(ret.order, ret.items)
        BY <1>5, <1>17, <1>18, <1>19, <2>1, <2>4, <2>5, <2>7
      <3>3. ClaimTables(rets, rfs)
        BY <1>15, <2>3, <2>5, <3>1, <3>2, BothFiled
      <3>4. Len(rets) = m + 1 /\ Len(rfs) = n + 1
        BY <1>5, <2>3, <2>6, <3>1, AppendRow
      <3>5. g = n + 1
        BY <1>9, <1>12, <2>7
      <3>6. ClaimsCounted(count, rets, rfs)
        BY <1>13, <2>2, <3>4, <3>5 DEF ClaimsCounted
      <3> QED
        BY <1>1, <1>10, <1>11, <1>14, <3>3, <3>6, ClaimEnds
    <2>8. CASE ~(amount > 0)
      <3>1. rfs = refunds
        BY <1>10, <1>11, <2>8
      <3>2. /\ ret.refund = 0 /\ ret.number = Len(returns) + 1
            /\ Papers!Returnable(ret.order, ret.items) /\ ~(Worth(ret.order, ret.items) > 0)
        BY <1>5, <2>1, <2>4, <2>5, <2>8
      <3>3. ClaimTables(rets, rfs)
        BY <1>15, <2>3, <2>5, <3>1, <3>2, ReturnOnly
      <3>4. Len(rets) = m + 1 /\ Len(rfs) = n
        BY <1>5, <2>3, <2>6, <3>1, AppendRow
      <3>5. g = n
        BY <1>9, <1>12, <2>8
      <3>6. ClaimsCounted(count, rets, rfs)
        BY <1>13, <2>2, <3>4, <3>5 DEF ClaimsCounted
      <3> QED
        BY <1>1, <1>10, <1>11, <1>14, <3>3, <3>6, ClaimEnds
    <2> QED
      BY <2>7, <2>8
  <1>20. CASE s.handler # "return"
    <2>1. amount > 0 /\ a = 0
      BY <1>4, <1>5, <1>9, <1>20 DEF WorkedOut
    <2>2. rets = returns /\ rfs = WithRow(refunds, ref)
      BY <1>10, <1>11, <1>20, <2>1
    <2>3. ref \in Papers!Refund /\ ref.number = Len(refunds) + 1 /\ ref.status = "pending"
      BY <1>5, <1>17, <1>18, <1>20, <2>1
    <2>4. ClaimTables(rets, rfs)
      BY <1>15, <2>2, <2>3, RefundOnly
    <2>5. IsTable(refunds)
      BY <1>15 DEF ClaimTables
    <2>6. Len(rets) = m /\ Len(rfs) = n + 1
      BY <1>5, <2>2, <2>5, AppendRow
    <2>7. b = m /\ g = n + 1
      BY <1>9, <1>12, <2>1
    <2>8. ClaimsCounted(count, rets, rfs)
      BY <1>13, <2>6, <2>7 DEF ClaimsCounted
    <2> QED
      BY <1>1, <1>10, <1>11, <1>14, <2>4, <2>8, ClaimEnds
  <1> QED
    BY <1>19, <1>20

\* process_return.
LEMMA CompleteReturnStep ==
    ASSUME ClaimsInv, NEW r \in Requests, Papers!CompleteReturn(r)
    PROVE  ClaimsInv'
  <1>1. PICK s : s = claim_session[r]
    OBVIOUS
  <1>2. s \in ClaimSession /\ ClaimKnows(s, taken) /\ s.stage = "complete"
    BY <1>1, ClaimIs DEF Papers!CompleteReturn
  <1>3. PICK k : k = s.id
    OBVIOUS
  <1>4. k \in DOMAIN returns
    <2>1. IsTable(returns) /\ taken["RET"] = Len(returns)
      BY DEF ClaimsInv, ClaimTables, ClaimsCounted
    <2>2. k \in 1 .. taken["RET"]
      BY <1>2, <1>3 DEF ClaimKnows
    <2> QED
      BY <2>1, <2>2, TableIs
  <1>5. PICK row : row = [returns[k] EXCEPT !.status = "completed"]
    OBVIOUS
  <1>6. PICK rets : rets = returns'
    OBVIOUS
  <1>7. /\ rets = Changed(returns, k, row) /\ refunds' = refunds /\ taken' = taken
        /\ claim_session' = [claim_session EXCEPT ![r] = Papers!IdleClaim]
    BY <1>1, <1>3, <1>5, <1>6 DEF Papers!CompleteReturn, Changed
  <1>8. ClaimTables(returns, refunds)
    BY DEF ClaimsInv
  <1>9. ClaimTables(rets, refunds) /\ Len(rets) = Len(returns)
    BY <1>4, <1>5, <1>7, <1>8, ReturnProcessed
  <1>10. ClaimsCounted(taken, rets, refunds) /\ taken["RET"] <= taken["RET"]
    <2>1. ClaimsCounted(taken, returns, refunds)
      BY DEF ClaimsInv
    <2>2. PICK n \in Nat : n = taken["RET"]
      BY <2>1, Sequences DEF ClaimsCounted
    <2>3. n <= n
      OBVIOUS
    <2> QED
      BY <1>9, <2>1, <2>2, <2>3 DEF ClaimsCounted
  <1> QED
    BY <1>6, <1>7, <1>9, <1>10, ClaimEnds
-----------------------------------------------------------------------------
\* The invariant.

\* At the start there is no document.
LEMMA ClaimsStart ==
    MCInit => ClaimsInv
  <1> SUFFICES ASSUME MCInit PROVE ClaimsInv
    OBVIOUS
  <1>1. PICK sessions, count : sessions = claim_session /\ count = taken
    OBVIOUS
  <1>2. /\ returns = <<>> /\ refunds = <<>> /\ count = [d \in Papers!DocTypes |-> 0]
        /\ sessions = [r \in Requests |-> Papers!IdleClaim]
    BY <1>1 DEF MCInit, Papers!Init
  <1>3. ClaimTables(<<>>, <<>>)
    BY EmptyTable DEF ClaimTables
  <1>4. ClaimsCounted(count, <<>>, <<>>)
    <2>1. Len(<<>>) = 0
      OBVIOUS
    <2> QED
      BY <1>2, <2>1, Sequences DEF ClaimsCounted
  <1>5. ClaimSessions(sessions, count)
    BY <1>2, IdleClaimIs DEF ClaimSessions
  <1>6. OneNumbering(sessions)
    BY <1>2, IdleClaimIs DEF OneNumbering
  <1> QED
    BY <1>1, <1>2, <1>3, <1>4, <1>5, <1>6 DEF ClaimsInv

\* A step of Claims.
LEMMA ClaimsStep ==
    ASSUME ClaimsInv, Papers!Next
    PROVE  ClaimsInv'
  <1>1. PICK r \in Requests : Papers!BeginSome(r) \/ Papers!Step(r) \/ Papers!Abandon(r)
    BY DEF Papers!Next
  <1>2. CASE Papers!Step(r)
    BY <1>2, NumberStep, CheckItemsStep, CommitClaimStep, CompleteReturnStep DEF Papers!Step
  <1> QED
    BY <1>1, <1>2, ClaimBeginsStep, AbandonStep

\* The documents and their sessions.
PaperState == <<returns, refunds, taken, claim_session>>

\* Nothing else writes documents.
LEMMA OthersLeaveClaims ==
    MCNext => Papers!Next \/ UNCHANGED PaperState
  BY DEF MCNext, Paperwork, PaperState

\* The invariant does not speak of anything else.
LEMMA ClaimsUnmoved ==
    ClaimsInv /\ UNCHANGED PaperState => ClaimsInv'
  <1> SUFFICES ASSUME ClaimsInv, UNCHANGED PaperState
               PROVE  ClaimsInv'
    OBVIOUS
  <1>1. /\ returns' = returns /\ refunds' = refunds /\ taken' = taken
        /\ claim_session' = claim_session
    BY DEF PaperState
  <1> QED
    BY <1>1 DEF ClaimsInv

\* The invariant of documents.
LEMMA ClaimsInvariant ==
    MCSpec => []ClaimsInv
  <1>1. MCInit => ClaimsInv
    BY ClaimsStart
  <1>2. ClaimsInv /\ [MCNext]_<<vars, Other, Paperwork, workload>> => ClaimsInv'
    <2> SUFFICES ASSUME ClaimsInv, [MCNext]_<<vars, Other, Paperwork, workload>>
                 PROVE  ClaimsInv'
      OBVIOUS
    <2>1. CASE UNCHANGED <<vars, Other, Paperwork, workload>>
      BY <2>1, ClaimsUnmoved DEF Paperwork, PaperState
    <2>2. CASE MCNext
      BY <2>2, OthersLeaveClaims, ClaimsUnmoved, ClaimsStep
    <2> QED
      BY <2>1, <2>2
  <1> QED
    BY <1>1, <1>2, PTL DEF MCSpec

\* What a return was sold for is its worth.
LEMMA SoldForIsWorth ==
    ASSUME ClaimsInv, NEW i \in DOMAIN returns
    PROVE  /\ Papers!SoldFor(returns[i]) = Worth(returns[i].order, returns[i].items)
           /\ ReturnFiled(returns[i], refunds)
  <1>1. PICK ret : ret = returns[i]
    OBVIOUS
  <1>2. ReturnFiled(ret, refunds)
    BY <1>1 DEF ClaimsInv, ClaimTables
  <1>3. ret \in Papers!Return /\ Papers!Returnable(ret.order, ret.items)
    BY <1>2 DEF ReturnFiled
  <1>4. PICK o \in Orders, lines \in Returnings : o = ret.order /\ lines = ret.items
    BY <1>3, ReturnColumns
  <1>5. Papers!SoldFor(ret) = Worth(o, lines)
    BY <1>3, <1>4, WorthIsNatural
  <1> QED
    BY <1>1, <1>2, <1>4, <1>5

\* Returns and refunds belong to each other.
LEMMA ClaimsAgree ==
    ClaimsInv => ReturnsHaveTheirRefund
  <1> SUFFICES ASSUME ClaimsInv PROVE ReturnsHaveTheirRefund
    OBVIOUS
  <1>1. PICK refunded, completed :
            /\ refunded = {i \in DOMAIN returns : Papers!SoldFor(returns[i]) > 0}
            /\ completed = {j \in DOMAIN refunds : refunds[j].status = "completed"}
    OBVIOUS
  <1>2. ASSUME NEW i \in refunded
        PROVE  /\ returns[i].refund \in completed /\ returns[i].refund # 0
               /\ refunds[returns[i].refund].order = returns[i].order
               /\ refunds[returns[i].refund].amount = Papers!SoldFor(returns[i])
    <2>1. PICK ret : ret = returns[i]
      OBVIOUS
    <2>2. /\ Papers!SoldFor(ret) = Worth(ret.order, ret.items) /\ ReturnFiled(ret, refunds)
          /\ Papers!SoldFor(ret) > 0
      BY <1>1, <2>1, SoldForIsWorth
    <2>3. /\ ret.refund \in DOMAIN refunds /\ refunds[ret.refund].status = "completed"
          /\ refunds[ret.refund].order = ret.order
          /\ refunds[ret.refund].amount = Papers!SoldFor(ret)
      BY <2>2 DEF ReturnFiled
    <2>4. 0 \notin DOMAIN refunds
      <3>1. IsTable(refunds)
        BY DEF ClaimsInv, ClaimTables
      <3>2. PICK n \in Nat : DOMAIN refunds = 1 .. n
        BY <3>1, TableIs
      <3> QED
        BY <3>2
    <2> QED
      BY <1>1, <2>1, <2>3, <2>4
  <1>3. ASSUME NEW i \in DOMAIN returns \ refunded
        PROVE  returns[i].refund = 0
    <2>1. PICK ret : ret = returns[i]
      OBVIOUS
    <2>2. /\ Papers!SoldFor(ret) = Worth(ret.order, ret.items) /\ ReturnFiled(ret, refunds)
          /\ ~(Papers!SoldFor(ret) > 0)
      BY <1>1, <2>1, SoldForIsWorth
    <2> QED
      BY <2>1, <2>2 DEF ReturnFiled
  <1>4. ASSUME NEW i \in refunded, NEW k \in refunded, returns[i].refund = returns[k].refund
        PROVE  i = k
    <2>1. i \in DOMAIN returns /\ k \in DOMAIN returns /\ returns[i].refund # 0
      BY <1>1, <1>2
    <2> QED
      BY <1>4, <2>1 DEF ClaimsInv, ClaimTables
  <1>5. ASSUME NEW j \in completed
        PROVE  \E i \in refunded : returns[i].refund = j
    <2>1. PICK i \in DOMAIN returns : returns[i].refund = j
      BY <1>1 DEF ClaimsInv, ClaimTables
    <2>2. j # 0
      <3>1. IsTable(refunds)
        BY DEF ClaimsInv, ClaimTables
      <3>2. PICK n \in Nat : DOMAIN refunds = 1 .. n
        BY <3>1, TableIs
      <3> QED
        BY <1>1, <3>2
    <2> QED
      BY <1>3, <2>1, <2>2
  <1>6. completed = {returns[i].refund : i \in refunded}
    BY <1>2, <1>5
  <1> QED
    BY <1>1, <1>2, <1>3, <1>4, <1>6 DEF ReturnsHaveTheirRefund, Papers!ReturnsHaveTheirRefund

\* Their numbers and types.
LEMMA ClaimsTyped ==
    ClaimsInv => Papers!NumbersGapless /\ Papers!TypeOK
  <1> SUFFICES ASSUME ClaimsInv PROVE Papers!NumbersGapless /\ Papers!TypeOK
    OBVIOUS
  <1>1. Papers!NumbersGapless
    BY DEF ClaimsInv, ClaimTables, Papers!NumbersGapless
  <1>2. ASSUME NEW i \in DOMAIN returns
        PROVE  returns[i] \in Papers!Return /\ returns[i].refund <= Len(refunds)
    <2>1. PICK ret : ret = returns[i]
      OBVIOUS
    <2>2. ReturnFiled(ret, refunds)
      BY <2>1, SoldForIsWorth
    <2>3. IsTable(refunds)
      BY DEF ClaimsInv, ClaimTables
    <2>4. PICK n \in Nat : n = Len(refunds) /\ DOMAIN refunds = 1 .. n
      BY <2>3, TableIs
    <2>5. PICK k \in 0 .. n : k = ret.refund
      BY <2>2, <2>4, RefundNamed
    <2>6. k <= n
      OBVIOUS
    <2> QED
      BY <2>1, <2>2, <2>4, <2>5, <2>6 DEF ReturnFiled
  <1>3. \A j \in DOMAIN refunds : refunds[j] \in Papers!Refund
    BY DEF ClaimsInv, ClaimTables
  <1>4. taken \in [Papers!DocTypes -> Nat]
    BY DEF ClaimsInv, ClaimsCounted
  <1>5. \A r \in Requests : claim_session[r].numbers \in [Papers!DocTypes -> Nat]
    BY ClaimIs
  <1> QED
    BY <1>1, <1>2, <1>3, <1>4, <1>5 DEF Papers!TypeOK
-----------------------------------------------------------------------------
\* Goods and papers.

ServedInv == served \in 0 .. MaxServed

\* A request is counted or the count stays.
ServedStep == (served < MaxServed /\ served' = served + 1) \/ served' = served

\* Steps of Purchases.
LEMMA PurchasesServe ==
    Next => ServedStep
  <1> SUFFICES ASSUME NEW r \in Requests, BeginSome(r) \/ Step(r) \/ Rollback(r)
               PROVE  ServedStep
    BY DEF Next
  <1>1. CASE BeginSome(r)
    BY <1>1 DEF BeginSome, CountOrders, LoadDraft, LoadForReceipt, Begin, ServedStep
  <1>2. CASE InsertOrder(r) \/ WriteDraft(r) \/ CommitReceiving(r)
    BY <1>2 DEF InsertOrder, WriteDraft, CommitReceiving, Fail, Continue, End, ServedStep
  <1>3. CASE CountReceivings(r) \/ InsertReceiving(r) \/ ReadLine(r)
    BY <1>3 DEF CountReceivings, InsertReceiving, ReadLine, Fail, Continue, ServedStep
  <1>4. CASE WriteLine(r) \/ Rollback(r)
    BY <1>4 DEF WriteLine, Rollback, Continue, ServedStep
  <1> QED
    BY <1>1, <1>2, <1>3, <1>4 DEF Step

\* Steps of Transfers.
LEMMA TransfersServe ==
    Shipping!Next => ServedStep
  <1> SUFFICES ASSUME NEW r \in Requests, Shipping!BeginSome(r) \/ Shipping!Step(r) \/ Shipping!Rollback(r)
               PROVE  ServedStep
    BY DEF Shipping!Next
  <1>1. CASE Shipping!BeginSome(r)
    BY <1>1 DEF Shipping!BeginSome, Shipping!CreateTransfer, Shipping!LoadTransfer, Shipping!Begin, ServedStep
  <1>2. CASE Shipping!ReadSource(r) \/ Shipping!DeductSource(r)
    BY <1>2 DEF Shipping!ReadSource, Shipping!DeductSource, Shipping!Fail, Shipping!Continue, ServedStep
  <1>3. CASE Shipping!ReceiveItem(r)
    BY <1>3 DEF Shipping!ReceiveItem, Shipping!Fail, Shipping!Continue, ServedStep
  <1>4. CASE Shipping!CommitTransfer(r)
    BY <1>4 DEF Shipping!CommitTransfer, Shipping!Fail, Shipping!Continue, ServedStep
  <1>5. CASE Shipping!Rollback(r)
    BY <1>5 DEF Shipping!Rollback, Shipping!Continue, ServedStep
  <1> QED
    BY <1>1, <1>2, <1>3, <1>4, <1>5 DEF Shipping!Step

\* The bound of the model is kept.
LEMMA ServedInvariant ==
    MCSpec => []ServedInv
  <1>1. MCInit => ServedInv
    BY PurchasesAssumption DEF MCInit, Init, ServedInv
  <1>2. ServedInv /\ [MCNext]_<<vars, Other, Paperwork, workload>> => ServedInv'
    <2> SUFFICES ASSUME ServedInv, [MCNext]_<<vars, Other, Paperwork, workload>>
                 PROVE  ServedInv'
      OBVIOUS
    <2>1. ServedStep
      <3>1. CASE UNCHANGED <<vars, Other, Paperwork, workload>>
        BY <3>1 DEF vars, ServedStep
      <3>2. CASE MCNext
        <4>1. CASE Next \/ Shipping!Next
          BY <4>1, PurchasesServe, TransfersServe
        <4>2. CASE UNCHANGED vars
          BY <4>2 DEF vars, ServedStep
        <4> QED
          BY <3>2, <4>1, <4>2 DEF MCNext
      <3> QED
        BY <3>1, <3>2
    <2>2. MaxServed \in Nat /\ served \in 0 .. MaxServed
      BY PurchasesAssumption DEF ServedInv
    <2> QED
      BY <2>1, <2>2 DEF ServedStep, ServedInv
  <1> QED
    BY <1>1, <1>2, PTL DEF MCSpec

(* For any orders, items, requests, amounts and workloads: purchase orders  *)
(* and deliveries, which take the count of the rows, and returns and refunds*)
(* of locked sequences are numbered 1, 2, 3, ..., whatever overlaps or      *)
(* fails.                                                                   *)
THEOREM DocumentsAreNumbered ==
    MCSpec => []DocumentsNumberedGapless
  <1>1. PurchasesInv /\ ClaimsInv /\ ServedInv => DocumentsNumberedGapless
    BY PurchasesTyped, ClaimsTyped DEF DocumentsNumberedGapless, ServedInv
  <1> QED
    BY <1>1, PurchasesInvariant, ClaimsInvariant, ServedInvariant, PTL

(* For any orders and returns: a return that is worth anything has one      *)
(* completed refund, of its order, of what its items were sold for, and no  *)
(* completed refund is without its return (create_return).                  *)
THEOREM RefundsComeWithReturns ==
    MCSpec => []ReturnsHaveTheirRefund
  BY ClaimsAgree, ClaimsInvariant, PTL

(* Goods and papers keep their types, and no item of a purchase order is    *)
(* received beyond what was ordered, for all constants.                     *)
THEOREM InboundIsTyped ==
    MCSpec => []InboundTypes
  <1>1. PurchasesInv /\ TransfersInv /\ ClaimsInv /\ ServedInv => InboundTypes
    BY PurchasesTyped, TransfersTyped, ClaimsTyped DEF InboundTypes, ServedInv
  <1> QED
    BY <1>1, PurchasesInvariant, TransfersInvariant, ClaimsInvariant, ServedInvariant, PTL
=============================================================================
