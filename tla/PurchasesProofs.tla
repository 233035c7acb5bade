--------------------------- MODULE PurchasesProofs ---------------------------
(***************************************************************************)
(* Theorems about Purchases, for any clerks, orders, lots, item lists and  *)
(* workloads.                                                              *)
(*                                                                         *)
(* A number is one more than a count that may be outdated, so it is never  *)
(* beyond the next number; of the numbers there are, the unique index      *)
(* refuses every one but the next.  Two deliveries that have inserted      *)
(* theirs would therefore have inserted the same: there is one at a time,  *)
(* and what it has read of lots, shelf and items is what is there, less    *)
(* what it has booked itself.                                              *)
(***************************************************************************)
EXTENDS MCInbound, Tables

-----------------------------------------------------------------------------
\* The lines of a delivery.

\* What a line adds to a lot and to a product.
LEMMA LineAdds ==
    ASSUME NEW lines \in Seq(PurchaseReceivingItem), NEW line \in PurchaseReceivingItem,
           NEW more, more = WithRow(lines, line)
    PROVE  /\ more \in Seq(PurchaseReceivingItem)
           /\ \A k : IntoLot(more, k) =
                       IntoLot(lines, k) + IF <<line.product, line.lot>> = k THEN line.quantity ELSE 0
           /\ \A p : OfProduct(more, p) =
                       OfProduct(lines, p) + IF line.product = p THEN line.quantity ELSE 0
  <1>1. IsTable(lines) /\ \A n \in DOMAIN lines : lines[n] \in PurchaseReceivingItem
    BY TableIn
  <1>2. /\ IsTable(more) /\ Len(lines) \in Nat
        /\ DOMAIN lines = 1 .. Len(lines) /\ DOMAIN more = 1 .. Len(lines) + 1
        /\ \A n \in DOMAIN lines : more[n] = lines[n]
        /\ more[Len(lines) + 1] = line
    BY <1>1, AppendRow
  <1>3. \A n \in DOMAIN more : more[n] \in PurchaseReceivingItem
    BY <1>1, <1>2
  <1>4. ASSUME NEW k
        PROVE  IntoLot(more, k) =
                 IntoLot(lines, k) + IF <<line.product, line.lot>> = k THEN line.quantity ELSE 0
    <2>1. PICK v : v = [n \in DOMAIN lines |-> IF <<lines[n].product, lines[n].lot>> = k
                                               THEN lines[n].quantity ELSE 0]
      OBVIOUS
    <2>2. PICK w : w = [n \in DOMAIN more |-> IF <<more[n].product, more[n].lot>> = k
                                              THEN more[n].quantity ELSE 0]
      OBVIOUS
    <2>3. SumOf(w) = SumOf(v) + w[Len(lines) + 1]
      <3>1. v = [n \in 1 .. Len(lines) |-> v[n]] /\ w = [n \in 1 .. Len(lines) + 1 |-> w[n]]
        BY <1>2, <2>1, <2>2
      <3>2. \A n \in 1 .. Len(lines) : w[n] = v[n]
        BY <1>2, <2>1, <2>2
      <3> QED
        BY <1>2, <3>1, <3>2, ColumnSumAppend
    <2>4. w[Len(lines) + 1] = IF <<line.product, line.lot>> = k THEN line.quantity ELSE 0
      BY <1>2, <2>2
    <2> QED
      BY <2>1, <2>2, <2>3, <2>4 DEF IntoLot
  <1>5. ASSUME NEW p
        PROVE  OfProduct(more, p) =
                 OfProduct(lines, p) + IF line.product = p THEN line.quantity ELSE 0
    <2>1. PICK v : v = [n \in DOMAIN lines |-> IF lines[n].product = p THEN lines[n].quantity ELSE 0]
      OBVIOUS
    <2>2. PICK w : w = [n \in DOMAIN more |-> IF more[n].product = p THEN more[n].quantity ELSE 0]
      OBVIOUS
    <2>3. SumOf(w) = SumOf(v) + w[Len(lines) + 1]
      <3>1. v = [n \in 1 .. Len(lines) |-> v[n]] /\ w = [n \in 1 .. Len(lines) + 1 |-> w[n]]
        BY <1>2, <2>1, <2>2
      <3>2. \A n \in 1 .. Len(lines) : w[n] = v[n]
        BY <1>2, <2>1, <2>2
      <3> QED
        BY <1>2, <3>1, <3>2, ColumnSumAppend
    <2>4. w[Len(lines) + 1] = IF line.product = p THEN line.quantity ELSE 0
      BY <1>2, <2>2
    <2> QED
      BY <2>1, <2>2, <2>3, <2>4 DEF OfProduct
  <1> QED
    BY <1>2, <1>3, <1>4, <1>5, TableIn

\* Quantities add up to natural numbers, and to nothing where there is no line.
LEMMA LinesAreNatural ==
    ASSUME NEW lines \in Seq(PurchaseReceivingItem)
    PROVE  /\ \A k : IntoLot(lines, k) \in Nat
           /\ \A p : OfProduct(lines, p) \in Nat
  <1>1. IsTable(lines) /\ \A n \in DOMAIN lines : lines[n] \in PurchaseReceivingItem
    BY TableIn
  <1>2. Len(lines) \in Nat /\ DOMAIN lines = 1 .. Len(lines)
    BY <1>1, TableIs
  <1>3. ASSUME NEW k
        PROVE  IntoLot(lines, k) \in Nat
    <2>1. PICK v : v = [n \in DOMAIN lines |-> IF <<lines[n].product, lines[n].lot>> = k
                                               THEN lines[n].quantity ELSE 0]
      OBVIOUS
    <2>2. v = [n \in 1 .. Len(lines) |-> v[n]] /\ \A n \in 1 .. Len(lines) : v[n] \in Nat
      BY <1>1, <1>2, <2>1 DEF PurchaseReceivingItem
    <2>3. SumOf(v) \in Nat
      BY <1>2, <2>2, ColumnSumType
    <2> QED
      BY <2>1, <2>3 DEF IntoLot
  <1>4. ASSUME NEW p
        PROVE  OfProduct(lines, p) \in Nat
    <2>1. PICK v : v = [n \in DOMAIN lines |-> IF lines[n].product = p THEN lines[n].quantity ELSE 0]
      OBVIOUS
    <2>2. v = [n \in 1 .. Len(lines) |-> v[n]] /\ \A n \in 1 .. Len(lines) : v[n] \in Nat
      BY <1>1, <1>2, <2>1 DEF PurchaseReceivingItem
    <2>3. SumOf(v) \in Nat
      BY <1>2, <2>2, ColumnSumType
    <2> QED
      BY <2>1, <2>3 DEF OfProduct
  <1> QED
    BY <1>3, <1>4

\* A delivery that has booked nothing.
LEMMA NoLines ==
    /\ \A k : IntoLot(<<>>, k) = 0
    /\ \A p : OfProduct(<<>>, p) = 0
  <1>1. DOMAIN <<>> = 1 .. 0
    BY EmptyTable
  <1>2. ASSUME NEW k
        PROVE  IntoLot(<<>>, k) = 0
    <2>1. PICK v : v = [n \in DOMAIN <<>> |-> IF <<<<>>[n].product, <<>>[n].lot>> = k
                                              THEN <<>>[n].quantity ELSE 0]
      OBVIOUS
    <2>2. v = [n \in 1 .. 0 |-> v[n]] /\ \A n \in 1 .. 0 : v[n] = 0
      BY <1>1, <2>1
    <2>3. SumOf(v) = 0
      BY <2>2, ColumnSumZero
    <2> QED
      BY <2>1, <2>3 DEF IntoLot
  <1>3. ASSUME NEW p
        PROVE  OfProduct(<<>>, p) = 0
    <2>1. PICK v : v = [n \in DOMAIN <<>> |-> IF <<>>[n].product = p THEN <<>>[n].quantity ELSE 0]
      OBVIOUS
    <2>2. v = [n \in 1 .. 0 |-> v[n]] /\ \A n \in 1 .. 0 : v[n] = 0
      BY <1>1, <2>1
    <2>3. SumOf(v) = 0
      BY <2>2, ColumnSumZero
    <2> QED
      BY <2>1, <2>3 DEF OfProduct
  <1> QED
    BY <1>2, <1>3
-----------------------------------------------------------------------------
\* The items of an order.

Gain(item, old, p) == IF item.product = p THEN item.received - old.received ELSE 0

\* An item that keeps its product gets another quantity received.
LEMMA ItemReceives ==
    ASSUME NEW items \in Seq(PurchaseOrderItem), NEW j \in DOMAIN items,
           NEW item \in PurchaseOrderItem, item.product = items[j].product,
           NEW more, more = Changed(items, j, item), NEW p
    PROVE  /\ more \in Seq(PurchaseOrderItem)
           /\ ReceivedOf(more, p) = ReceivedOf(items, p) + Gain(item, items[j], p)
  <1>1. IsTable(items) /\ \A n \in DOMAIN items : items[n] \in PurchaseOrderItem
    BY TableIn
  <1>2. /\ IsTable(more) /\ DOMAIN more = DOMAIN items
        /\ \A n \in DOMAIN items : more[n] = IF n = j THEN item ELSE items[n]
    BY <1>1, ChangeRow
  <1>3. Len(items) \in Nat /\ DOMAIN items = 1 .. Len(items)
    BY <1>1, TableIs
  <1>4. more \in Seq(PurchaseOrderItem)
    BY <1>1, <1>2, TableIn
  <1>5. PICK v : v = [n \in DOMAIN items |-> IF items[n].product = p THEN items[n].received ELSE 0]
    OBVIOUS
  <1>6. PICK w : w = [n \in DOMAIN more |-> IF more[n].product = p THEN more[n].received ELSE 0]
    OBVIOUS
  <1>7. SumOf(w) = SumOf(v) - v[j] + w[j]
    <2>1. v = [n \in 1 .. Len(items) |-> v[n]] /\ w = [n \in 1 .. Len(items) |-> w[n]]
      BY <1>2, <1>3, <1>5, <1>6
    <2>2. ASSUME NEW n \in 1 .. Len(items)
          PROVE  v[n] \in Int /\ w[n] \in Int
      <3>1. PICK a, b : /\ a = items[n] /\ b = more[n]
                        /\ a \in PurchaseOrderItem /\ b \in PurchaseOrderItem
        BY <1>1, <1>2, <1>3
      <3>2. a.received \in Nat /\ b.received \in Nat
        BY <3>1 DEF PurchaseOrderItem
      <3> QED
        BY <1>2, <1>3, <1>5, <1>6, <3>1, <3>2
    <2>3. \A n \in 1 .. Len(items) : n # j => v[n] = w[n]
      BY <1>2, <1>3, <1>5, <1>6
    <2>4. j \in 1 .. Len(items)
      BY <1>3
    <2> QED
      BY <1>3, <2>1, <2>2, <2>3, <2>4, ColumnSumReplace
  <1>8. SumOf(v) \in Int
    <2>1. v = [n \in 1 .. Len(items) |-> v[n]]
      BY <1>3, <1>5
    <2>2. \A n \in 1 .. Len(items) : v[n] \in Int
      BY <1>1, <1>3, <1>5 DEF PurchaseOrderItem
    <2> QED
      BY <1>3, <2>1, <2>2, ColumnSumType
  <1>9. w[j] - v[j] = Gain(item, items[j], p)
    BY <1>1, <1>2, <1>5, <1>6 DEF PurchaseOrderItem, Gain
  <1>10. v[j] \in Int /\ w[j] \in Int
    BY <1>1, <1>2, <1>5, <1>6 DEF PurchaseOrderItem
  <1> QED
    BY <1>4, <1>5, <1>6, <1>7, <1>8, <1>9, <1>10 DEF ReceivedOf

\* What was received of a product is a natural number.
LEMMA ReceivedIsNatural ==
    ASSUME NEW items \in Seq(PurchaseOrderItem), NEW p
    PROVE  ReceivedOf(items, p) \in Nat
  <1>1. PICK n : n = Len(items)
    OBVIOUS
  <1>2. n \in Nat /\ DOMAIN items = 1 .. n /\ \A k \in 1 .. n : items[k] \in PurchaseOrderItem
    BY <1>1
  <1>3. \A item \in PurchaseOrderItem : item.received \in Nat
    BY DEF PurchaseOrderItem
  <1>4. PICK v : v = [k \in DOMAIN items |-> IF items[k].product = p THEN items[k].received ELSE 0]
    OBVIOUS
  <1>5. v = [k \in 1 .. n |-> v[k]] /\ \A k \in 1 .. n : v[k] \in Nat
    BY <1>2, <1>3, <1>4
  <1>6. SumOf(v) \in Nat
    BY <1>2, <1>5, ColumnSumType
  <1> QED
    BY <1>4, <1>6 DEF ReceivedOf

\* Items that agree in what was ordered at which cost are worth the same.
LEMMA SameTotal ==
    ASSUME NEW items, NEW others, DOMAIN items = DOMAIN others,
           \A n \in DOMAIN items : items[n].cost = others[n].cost /\ items[n].ordered = others[n].ordered
    PROVE  Total(items) = Total(others)
  <1>1. [n \in DOMAIN items |-> items[n].cost * items[n].ordered] =
        [n \in DOMAIN others |-> others[n].cost * others[n].ordered]
    OBVIOUS
  <1> QED
    BY <1>1 DEF Total

\* The value of an item list is a natural number.
LEMMA TotalIsNatural ==
    ASSUME NEW list, IsTable(list), \A n \in DOMAIN list : list[n].cost \in Nat /\ list[n].ordered \in Nat
    PROVE  Total(list) \in Nat
  <1>1. Len(list) \in Nat /\ DOMAIN list = 1 .. Len(list)
    BY TableIs
  <1>2. PICK v : v = [n \in DOMAIN list |-> list[n].cost * list[n].ordered]
    OBVIOUS
  <1>3. v = [n \in 1 .. Len(list) |-> v[n]]
    BY <1>1, <1>2
  <1>4. \A n \in 1 .. Len(list) : v[n] \in Nat
    BY <1>1, <1>2
  <1>5. SumOf(v) \in Nat
    BY <1>1, <1>3, <1>4, ColumnSumType
  <1> QED
    BY <1>2, <1>5 DEF Total

\* New rows are those of the list, of which nothing was received.
LEMMA RowsAreNew ==
    ASSUME NEW list \in ItemLists, NEW rows, rows = Rows(list)
    PROVE  /\ rows \in Seq(PurchaseOrderItem) /\ Total(rows) = Total(list) /\ Total(list) \in Nat
           /\ \A n \in DOMAIN rows : ItemChecks(rows[n])
           /\ \A p : ReceivedOf(rows, p) = 0
  <1>1. list \in Seq([product : Products, ordered : Nat \ {0}, cost : Nat])
    BY PurchasesAssumption
  <1>2. /\ IsTable(list)
        /\ \A n \in DOMAIN list : list[n] \in [product : Products, ordered : Nat \ {0}, cost : Nat]
    BY <1>1, TableIn
  <1>3. Len(list) \in Nat /\ DOMAIN list = 1 .. Len(list)
    BY <1>2, TableIs
  <1>4. /\ DOMAIN rows = DOMAIN list
        /\ \A n \in DOMAIN rows : rows[n] = [product |-> list[n].product, ordered |-> list[n].ordered,
                                             cost |-> list[n].cost, received |-> 0]
    BY DEF Rows
  <1>5. \A n \in DOMAIN rows : rows[n] \in PurchaseOrderItem /\ rows[n].received = 0
    BY <1>2, <1>4 DEF PurchaseOrderItem
  <1>6. rows = [n \in 1 .. Len(list) |-> rows[n]]
    BY <1>3 DEF Rows
  <1>7. IsTable(rows)
    BY <1>3, <1>6, TableOf
  <1>8. rows \in Seq(PurchaseOrderItem)
    BY <1>5, <1>7, TableIn
  <1>9. Total(rows) = Total(list)
    <2>1. \A n \in DOMAIN rows : rows[n].cost = list[n].cost /\ rows[n].ordered = list[n].ordered
      BY <1>4
    <2> QED
      BY <1>4, <2>1, SameTotal
  <1>10. Total(list) \in Nat
    BY <1>2, TotalIsNatural
  <1>11. ASSUME NEW p
         PROVE  ReceivedOf(rows, p) = 0
    <2>1. PICK v : v = [n \in DOMAIN rows |-> IF rows[n].product = p THEN rows[n].received ELSE 0]
      OBVIOUS
    <2>2. v = [n \in 1 .. Len(list) |-> v[n]] /\ \A n \in 1 .. Len(list) : v[n] = 0
      BY <1>3, <1>4, <1>5, <2>1
    <2>3. SumOf(v) = 0
      BY <1>3, <2>2, ColumnSumZero
    <2> QED
      BY <2>1, <2>3 DEF ReceivedOf
  <1>12. \A n \in DOMAIN rows : ItemChecks(rows[n])
    BY <1>4, <1>2 DEF ItemChecks
  <1> QED
    BY <1>8, <1>9, <1>10, <1>11, <1>12

-----------------------------------------------------------------------------
\* The deliveries of the table.

BroughtInto(rows, k) == SumOf([n \in DOMAIN rows |-> IntoLot(rows[n].items, k)])
Brought(rows, p) == SumOf([n \in DOMAIN rows |-> OfProduct(rows[n].items, p)])
BookedIn(rows, i, p) ==
    SumOf([n \in DOMAIN rows |-> IF rows[n].order = i THEN OfProduct(rows[n].items, p) ELSE 0])

\* A delivery more.
LEMMA DeliveryAdds ==
    ASSUME NEW rows, IsTable(rows), NEW row, NEW more, more = WithRow(rows, row)
    PROVE  /\ \A k : BroughtInto(more, k) = BroughtInto(rows, k) + IntoLot(row.items, k)
           /\ \A p : Brought(more, p) = Brought(rows, p) + OfProduct(row.items, p)
           /\ \A i, p : BookedIn(more, i, p) = BookedIn(rows, i, p)
                          + IF row.order = i THEN OfProduct(row.items, p) ELSE 0
  <1>2. /\ IsTable(more) /\ Len(rows) \in Nat
        /\ DOMAIN rows = 1 .. Len(rows) /\ DOMAIN more = 1 .. Len(rows) + 1
        /\ \A n \in DOMAIN rows : more[n] = rows[n]
        /\ more[Len(rows) + 1] = row
    BY AppendRow
  <1>3. ASSUME NEW k
        PROVE  BroughtInto(more, k) = BroughtInto(rows, k) + IntoLot(row.items, k)
    <2>1. PICK v : v = [n \in DOMAIN rows |-> IntoLot(rows[n].items, k)]
      OBVIOUS
    <2>2. PICK w : w = [n \in DOMAIN more |-> IntoLot(more[n].items, k)]
      OBVIOUS
    <2>3. SumOf(w) = SumOf(v) + w[Len(rows) + 1]
      <3>1. v = [n \in 1 .. Len(rows) |-> v[n]] /\ w = [n \in 1 .. Len(rows) + 1 |-> w[n]]
        BY <1>2, <2>1, <2>2
      <3>2. \A n \in 1 .. Len(rows) : w[n] = v[n]
        BY <1>2, <2>1, <2>2
      <3> QED
        BY <1>2, <3>1, <3>2, ColumnSumAppend
    <2>4. w[Len(rows) + 1] = IntoLot(row.items, k)
      BY <1>2, <2>2
    <2> QED
      BY <2>1, <2>2, <2>3, <2>4 DEF BroughtInto
  <1>4. ASSUME NEW p
        PROVE  Brought(more, p) = Brought(rows, p) + OfProduct(row.items, p)
    <2>1. PICK v : v = [n \in DOMAIN rows |-> OfProduct(rows[n].items, p)]
      OBVIOUS
    <2>2. PICK w : w = [n \in DOMAIN more |-> OfProduct(more[n].items, p)]
      OBVIOUS
    <2>3. SumOf(w) = SumOf(v) + w[Len(rows) + 1]
      <3>1. v = [n \in 1 .. Len(rows) |-> v[n]] /\ w = [n \in 1 .. Len(rows) + 1 |-> w[n]]
        BY <1>2, <2>1, <2>2
      <3>2. \A n \in 1 .. Len(rows) : w[n] = v[n]
        BY <1>2, <2>1, <2>2
      <3> QED
        BY <1>2, <3>1, <3>2, ColumnSumAppend
    <2>4. w[Len(rows) + 1] = OfProduct(row.items, p)
      BY <1>2, <2>2
    <2> QED
      BY <2>1, <2>2, <2>3, <2>4 DEF Brought
  <1>5. ASSUME NEW i, NEW p
        PROVE  BookedIn(more, i, p) = BookedIn(rows, i, p)
                 + IF row.order = i THEN OfProduct(row.items, p) ELSE 0
    <2>1. PICK v : v = [n \in DOMAIN rows |->
                          IF rows[n].order = i THEN OfProduct(rows[n].items, p) ELSE 0]
      OBVIOUS
    <2>2. PICK w : w = [n \in DOMAIN more |->
                          IF more[n].order = i THEN OfProduct(more[n].items, p) ELSE 0]
      OBVIOUS
    <2>3. SumOf(w) = SumOf(v) + w[Len(rows) + 1]
      <3>1. v = [n \in 1 .. Len(rows) |-> v[n]] /\ w = [n \in 1 .. Len(rows) + 1 |-> w[n]]
        BY <1>2, <2>1, <2>2
      <3>2. \A n \in 1 .. Len(rows) : w[n] = v[n]
        BY <1>2, <2>1, <2>2
      <3> QED
        BY <1>2, <3>1, <3>2, ColumnSumAppend
    <2>4. w[Len(rows) + 1] = IF row.order = i THEN OfProduct(row.items, p) ELSE 0
      BY <1>2, <2>2
    <2> QED
      BY <2>1, <2>2, <2>3, <2>4 DEF BookedIn
  <1> QED
    BY <1>3, <1>4, <1>5

\* Nothing is booked for an order no delivery is of.
LEMMA NothingBooked ==
    ASSUME NEW rows, IsTable(rows), NEW i, \A n \in DOMAIN rows : rows[n].order # i, NEW p
    PROVE  BookedIn(rows, i, p) = 0
  <1>1. Len(rows) \in Nat /\ DOMAIN rows = 1 .. Len(rows)
    BY TableIs
  <1>2. PICK v : v = [n \in DOMAIN rows |->
                        IF rows[n].order = i THEN OfProduct(rows[n].items, p) ELSE 0]
    OBVIOUS
  <1>3. v = [n \in 1 .. Len(rows) |-> v[n]] /\ \A n \in 1 .. Len(rows) : v[n] = 0
    BY <1>1, <1>2
  <1>4. SumOf(v) = 0
    BY <1>1, <1>3, ColumnSumZero
  <1> QED
    BY <1>2, <1>4 DEF BookedIn

\* The deliveries add up to natural numbers.
LEMMA DeliveriesAreNatural ==
    ASSUME NEW rows, IsTable(rows), \A n \in DOMAIN rows : rows[n] \in PurchaseReceiving
    PROVE  /\ \A k : BroughtInto(rows, k) \in Nat
           /\ \A p : Brought(rows, p) \in Nat
           /\ \A i, p : BookedIn(rows, i, p) \in Nat
  <1>1. Len(rows) \in Nat /\ DOMAIN rows = 1 .. Len(rows)
    BY TableIs
  <1>2. \A n \in DOMAIN rows : rows[n].items \in Seq(PurchaseReceivingItem)
    BY DEF PurchaseReceiving
  <1>3. ASSUME NEW k
        PROVE  BroughtInto(rows, k) \in Nat
    <2>1. PICK v : v = [n \in DOMAIN rows |-> IntoLot(rows[n].items, k)]
      OBVIOUS
    <2>2. v = [n \in 1 .. Len(rows) |-> v[n]] /\ \A n \in 1 .. Len(rows) : v[n] \in Nat
      BY <1>1, <1>2, <2>1, LinesAreNatural
    <2>3. SumOf(v) \in Nat
      BY <1>1, <2>2, ColumnSumType
    <2> QED
      BY <2>1, <2>3 DEF BroughtInto
  <1>4. ASSUME NEW p
        PROVE  Brought(rows, p) \in Nat
    <2>1. PICK v : v = [n \in DOMAIN rows |-> OfProduct(rows[n].items, p)]
      OBVIOUS
    <2>2. v = [n \in 1 .. Len(rows) |-> v[n]] /\ \A n \in 1 .. Len(rows) : v[n] \in Nat
      BY <1>1, <1>2, <2>1, LinesAreNatural
    <2>3. SumOf(v) \in Nat
      BY <1>1, <2>2, ColumnSumType
    <2> QED
      BY <2>1, <2>3 DEF Brought
  <1>5. ASSUME NEW i, NEW p
        PROVE  BookedIn(rows, i, p) \in Nat
    <2>1. PICK v : v = [n \in DOMAIN rows |->
                          IF rows[n].order = i THEN OfProduct(rows[n].items, p) ELSE 0]
      OBVIOUS
    <2>2. v = [n \in 1 .. Len(rows) |-> v[n]] /\ \A n \in 1 .. Len(rows) : v[n] \in Nat
      BY <1>1, <1>2, <2>1, LinesAreNatural
    <2>3. SumOf(v) \in Nat
      BY <1>1, <2>2, ColumnSumType
    <2> QED
      BY <2>1, <2>3 DEF BookedIn
  <1> QED
    BY <1>3, <1>4, <1>5
-----------------------------------------------------------------------------
\* The invariant.

Draft == {"update", "approve", "cancel"}

PurchaseSession ==
    [handler : {None, "create", "receive"} \cup Draft,
     stage : {"idle", "failed", "insert order", "write draft", "count", "insert", "read", "write",
              "commit"},
     order : Nat, edition : Nat, number : Nat, total : Nat,
     lines : ItemLists \cup Deliveries \cup {<<>>}, next : Nat,
     items : Seq(PurchaseOrderItem), complete : BOOLEAN, lot : Nat \cup {None},
     lots : [LotKeys -> Nat \cup {None}], stock : [Products -> Nat \cup {None}],
     arrived : Seq(PurchaseReceivingItem), committed : BOOLEAN]

\* A session is about an order there is, of which it may know an outdated edition.
Of(s, orders) == s.order \in DOMAIN orders /\ s.edition <= orders[s.order].edition

\* A delivery that has booked nothing.
Untouched(s) ==
    /\ s.lots = [k \in LotKeys |-> None] /\ s.stock = [p \in Products |-> None]
    /\ s.items = <<>> /\ s.arrived = <<>> /\ s.next = 1

Bottles(quantity) == IF quantity = None THEN 0 ELSE quantity
Seen(own, table) == IF own = None THEN table ELSE own

\* What a delivery shows of an item that it may have added to.
AsRead(items, order) ==
    /\ DOMAIN items = DOMAIN order
    /\ \A n \in DOMAIN order : items[n].cost = order[n].cost /\ items[n].ordered = order[n].ordered

\* What a delivery sees is what there is and what it has booked itself.
Accounts(s, orders, lotRows, shelf) ==
    /\ \A k \in LotKeys :
        Bottles(Seen(s.lots[k], lotRows[k])) = Bottles(lotRows[k]) + IntoLot(s.arrived, k)
    /\ \A p \in Products : Seen(s.stock[p], shelf[p]) = shelf[p] + OfProduct(s.arrived, p)
    /\ s.edition = orders[s.order].edition =>
        /\ AsRead(s.items, orders[s.order].items)
        /\ \A p \in Products : ReceivedOf(s.items, p) =
                    ReceivedOf(orders[s.order].items, p) + OfProduct(s.arrived, p)

Writing == {"read", "write", "commit"}

\* What a session has read, and what of it still holds.
Knows(s, orders, rows, lotRows, shelf) ==
    /\ s.stage = "insert order" => s.lines \in ItemLists /\ s.number \in 1 .. Len(orders) + 1
    /\ s.stage = "write draft" =>
        Of(s, orders) /\ s.handler \in Draft /\ (s.handler = "update" => s.lines \in ItemLists)
    /\ s.stage \in {"count", "insert"} => Of(s, orders) /\ s.lines \in Deliveries /\ Untouched(s)
    /\ s.stage = "insert" => s.number \in 1 .. Len(rows) + 1
    /\ s.stage \in Writing =>
        /\ Of(s, orders) /\ s.lines \in Deliveries
        /\ s.number = Len(rows) + 1
        /\ Accounts(s, orders, lotRows, shelf)
    /\ s.stage \in {"read", "write"} => s.next \in 1 .. Len(s.lines)
    /\ s.stage = "write" =>
        /\ s.lines[s.next].item \in DOMAIN s.items
        /\ s.lot = Seen(s.lots[LotKey(s)], lotRows[LotKey(s)])

\* One request at a time, what was read of the order has not changed.
KnowsAlone(s, orders) ==
    /\ s.stage = "write draft" =>
        /\ orders[s.order].status = "draft" /\ s.edition = orders[s.order].edition
        /\ s.total = orders[s.order].total
    /\ s.stage \in {"count", "insert"} \cup Writing =>
        orders[s.order].status \in Receivable /\ s.edition = orders[s.order].edition

OrderTyped(po) == po \in PurchaseOrder /\ \A n \in DOMAIN po.items : ItemChecks(po.items[n])

PurchaseTables ==
    /\ IsTable(purchase_orders) /\ IsTable(receivings)
    /\ \A i \in DOMAIN purchase_orders :
        OrderTyped(purchase_orders[i]) /\ purchase_orders[i].number = i
    /\ \A n \in DOMAIN receivings :
        /\ receivings[n] \in PurchaseReceiving /\ receivings[n].number = n
        /\ receivings[n].order \in DOMAIN purchase_orders
    /\ lots \in [LotKeys -> Nat \cup {None}]
    /\ stock \in [Products -> Nat]

Calm == Serial \/ "update" \notin workload.handlers

PurchaseBooks ==
    /\ \A k \in LotKeys : Bottles(lots[k]) = BroughtInto(receivings, k)
    /\ \A p \in Products : stock[p] = Brought(receivings, p)
    /\ Calm => \A i \in DOMAIN purchase_orders : \A p \in Products :
        BookedIn(receivings, i, p) = ReceivedOf(purchase_orders[i].items, p)
    /\ Serial => \A i \in DOMAIN purchase_orders :
        purchase_orders[i].total = Total(purchase_orders[i].items)
    /\ Serial => \A n \in DOMAIN receivings :
        purchase_orders[receivings[n].order].status \in {"partially_received", "received"}

Alone == Serial => \A r, q \in Requests : session[r].stage # "idle" /\ session[q].stage # "idle" => r = q

Allowed == \A r \in Requests : session[r].stage # "idle" => session[r].handler \in workload.handlers

PurchaseSessions ==
    /\ session = [r \in Requests |-> session[r]]
    /\ \A r \in Requests :
        /\ session[r] \in PurchaseSession
        /\ Knows(session[r], purchase_orders, receivings, lots, stock)
        /\ Serial => KnowsAlone(session[r], purchase_orders)
    /\ DeliveriesExclusive

PurchasesInv == PurchaseTables /\ PurchaseBooks /\ PurchaseSessions /\ Alone /\ Allowed

\* The documents agree with the operators of the proofs.
LEMMA BooksAgree ==
    PurchasesInv => PurchasesMatchDeliveries
  BY DEF PurchasesInv, PurchaseBooks, PurchaseSessions, PurchasesMatchDeliveries, Bottles,
         LotsAndStockMatchDeliveries, ReceivedMatchesDeliveries, TotalIsValue, BroughtInto, Brought,
         BookedIn, Booked, Calm
-----------------------------------------------------------------------------
\* Steps.

\* An idle or failed session has no expectations.
LEMMA NothingToKnow ==
    ASSUME NEW s, s.stage \in {"idle", "failed"}, NEW orders, NEW rows, NEW l, NEW t
    PROVE  Knows(s, orders, rows, l, t) /\ KnowsAlone(s, orders)
  BY DEF Knows, KnowsAlone, Writing

\* The session at the start of every request.
LEMMA IdleIsTyped ==
    /\ IdleSession \in PurchaseSession /\ Untouched(IdleSession)
    /\ IdleSession.stage = "idle" /\ IdleSession.handler = None
  <1>1. <<>> \in Seq(PurchaseOrderItem) /\ <<>> \in Seq(PurchaseReceivingItem)
    OBVIOUS
  <1>2. PICK l : l = [k \in LotKeys |-> None]
    OBVIOUS
  <1>3. PICK t : t = [p \in Products |-> None]
    OBVIOUS
  <1>4. l \in [LotKeys -> Nat \cup {None}] /\ t \in [Products -> Nat \cup {None}]
    BY <1>2, <1>3
  <1>5. IdleSession =
           [handler |-> None, stage |-> "idle", order |-> 0, edition |-> 0, number |-> 0,
            total |-> 0, lines |-> <<>>, next |-> 1, items |-> <<>>, complete |-> TRUE,
            lot |-> None, lots |-> l, stock |-> t, arrived |-> <<>>, committed |-> FALSE]
    BY <1>2, <1>3 DEF IdleSession
  <1>6. IdleSession \in PurchaseSession
    BY <1>1, <1>4, <1>5 DEF PurchaseSession
  <1>7. Untouched(IdleSession)
    BY <1>2, <1>3, <1>5 DEF Untouched
  <1> QED
    BY <1>5, <1>6, <1>7

\* Orders come and editions rise; while an order keeps its edition it keeps its items.
Onward(old, new) ==
    /\ Len(old) \in Nat /\ Len(new) \in Nat /\ Len(old) <= Len(new)
    /\ \A i \in DOMAIN old :
        /\ i \in DOMAIN new /\ old[i].edition \in Nat /\ new[i].edition \in Nat
        /\ old[i].edition <= new[i].edition

\* What a session knows survives the end of any other, unless it is a delivery ...
LEMMA StillKnows ==
    ASSUME NEW s \in PurchaseSession, NEW old, NEW new, Onward(old, new),
           NEW rows, NEW more, Len(rows) \in Nat, Len(more) \in Nat, Len(rows) <= Len(more),
           NEW l, NEW t, NEW lots2, NEW shelf2, Knows(s, old, rows, l, t), s.stage \notin Writing
    PROVE  Knows(s, new, more, lots2, shelf2)
  <1>1. s.edition \in Nat /\ s.number \in Nat
    BY DEF PurchaseSession
  <1>2. Of(s, old) => Of(s, new)
    BY <1>1 DEF Of, Onward
  <1>3. s.number \in 1 .. Len(old) + 1 => s.number \in 1 .. Len(new) + 1
    BY DEF Onward
  <1>4. s.number \in 1 .. Len(rows) + 1 => s.number \in 1 .. Len(more) + 1
    OBVIOUS
  <1> QED
    BY <1>2, <1>3, <1>4 DEF Knows, Writing

\* ... which an order being added or edited does not disturb.
LEMMA StillAccounts ==
    ASSUME NEW s \in PurchaseSession, NEW old, NEW new, Onward(old, new),
           \A i \in DOMAIN old : old[i].edition = new[i].edition => old[i].items = new[i].items,
           NEW rows, NEW l, NEW t, Knows(s, old, rows, l, t)
    PROVE  Knows(s, new, rows, l, t)
  <1>1. s.edition \in Nat /\ s.number \in Nat
    BY DEF PurchaseSession
  <1>2. Of(s, old) => Of(s, new)
    BY <1>1 DEF Of, Onward
  <1>3. s.number \in 1 .. Len(old) + 1 => s.number \in 1 .. Len(new) + 1
    BY DEF Onward
  <1>4. ASSUME Of(s, old), Accounts(s, old, l, t)
        PROVE  Accounts(s, new, l, t)
    <2>1. s.edition = new[s.order].edition => s.edition = old[s.order].edition
      BY <1>1, <1>4 DEF Of, Onward
    <2>2. s.edition = new[s.order].edition => new[s.order].items = old[s.order].items
      BY <1>4, <2>1 DEF Of
    <2> QED
      BY <1>4, <2>1, <2>2 DEF Accounts
  <1> QED
    BY <1>2, <1>3, <1>4 DEF Knows, Writing

\* A step that changes one session and no table.
LEMMA SessionMoves ==
    ASSUME PurchasesInv, NEW r \in Requests, NEW s \in PurchaseSession,
           session' = [session EXCEPT ![r] = s], UNCHANGED tables,
           workload' = workload, Alone', Allowed',
           Knows(s, purchase_orders, receivings, lots, stock),
           Serial => KnowsAlone(s, purchase_orders),
           s.stage \in Writing => \A q \in Requests \ {r} : session[q].stage \notin Writing
    PROVE  PurchasesInv'
  <1>1. /\ session' = [q \in Requests |-> session'[q]] /\ session'[r] = s
        /\ \A q \in Requests \ {r} : session'[q] = session[q]
    BY DEF PurchasesInv, PurchaseSessions
  <1>2. /\ purchase_orders' = purchase_orders /\ receivings' = receivings
        /\ lots' = lots /\ stock' = stock /\ Serial' = Serial /\ Calm' = Calm
    BY DEF tables, Serial, Calm
  <1>3. PurchaseTables'
    BY <1>2 DEF PurchasesInv, PurchaseTables
  <1>4. PurchaseBooks'
    BY <1>2 DEF PurchasesInv, PurchaseBooks
  <1>5. ASSUME NEW q \in Requests
        PROVE  /\ session'[q] \in PurchaseSession
               /\ Knows(session'[q], purchase_orders, receivings, lots, stock)
               /\ Serial => KnowsAlone(session'[q], purchase_orders)
    BY <1>1 DEF PurchasesInv, PurchaseSessions
  <1>6. DeliveriesExclusive'
    BY <1>1 DEF PurchasesInv, PurchaseSessions, DeliveriesExclusive, Inserted, Writing
  <1>7. PurchaseSessions'
    BY <1>1, <1>2, <1>5, <1>6 DEF PurchaseSessions
  <1> QED
    BY <1>3, <1>4, <1>7 DEF PurchasesInv

\* A step that ends a transaction with a commit.
LEMMA SessionEnds ==
    ASSUME PurchasesInv, NEW r \in Requests, NEW s \in PurchaseSession,
           session[r].stage # "idle", s.stage \in {"idle", "failed"},
           session' = [session EXCEPT ![r] = s],
           workload' = workload, Alone', Allowed', PurchaseTables', PurchaseBooks',
           \A q \in Requests \ {r} :
                Knows(session[q], purchase_orders', receivings', lots', stock')
    PROVE  PurchasesInv'
  <1>1. /\ session' = [q \in Requests |-> session'[q]] /\ session'[r] = s
        /\ \A q \in Requests \ {r} : session'[q] = session[q]
    BY DEF PurchasesInv, PurchaseSessions
  <1>2. Serial' = Serial
    BY DEF Serial
  <1>3. ASSUME NEW q \in Requests
        PROVE  /\ session'[q] \in PurchaseSession
               /\ Knows(session'[q], purchase_orders', receivings', lots', stock')
               /\ Serial => KnowsAlone(session'[q], purchase_orders')
    <2>1. CASE q = r
      BY <1>1, <2>1, NothingToKnow
    <2>2. CASE q # r
      <3>1. Serial => session[q].stage = "idle"
        BY <2>2 DEF PurchasesInv, Alone
      <3>2. Serial => KnowsAlone(session[q], purchase_orders')
        BY <3>1, NothingToKnow
      <3>3. session[q] \in PurchaseSession
        BY DEF PurchasesInv, PurchaseSessions
      <3> QED
        BY <1>1, <2>2, <3>2, <3>3
    <2> QED
      BY <2>1, <2>2
  <1>4. DeliveriesExclusive'
    <2>1. ~Inserted(r)'
      BY <1>1 DEF Inserted
    <2>2. \A q \in Requests \ {r} : Inserted(q)' = Inserted(q)
      BY <1>1 DEF Inserted
    <2> QED
      BY <2>1, <2>2 DEF PurchasesInv, PurchaseSessions, DeliveriesExclusive
  <1>5. PurchaseSessions'
    BY <1>1, <1>2, <1>3, <1>4 DEF PurchaseSessions
  <1> QED
    BY <1>5 DEF PurchasesInv
-----------------------------------------------------------------------------
\* The requests, one action after the other.

\* The rows of the tables, typed.
LEMMA RowsTyped ==
    ASSUME PurchasesInv
    PROVE  /\ Len(purchase_orders) \in Nat /\ DOMAIN purchase_orders = 1 .. Len(purchase_orders)
           /\ Len(receivings) \in Nat /\ DOMAIN receivings = 1 .. Len(receivings)
           /\ \A i \in DOMAIN purchase_orders :
                /\ purchase_orders[i].edition \in Nat /\ purchase_orders[i].total \in Nat
                /\ purchase_orders[i].items \in Seq(PurchaseOrderItem)
           /\ \A r \in Requests : session[r] \in PurchaseSession
                /\ Knows(session[r], purchase_orders, receivings, lots, stock)
                /\ (Serial => KnowsAlone(session[r], purchase_orders))
  <1>1. IsTable(purchase_orders) /\ IsTable(receivings)
    BY DEF PurchasesInv, PurchaseTables
  <1>2. \A i \in DOMAIN purchase_orders : purchase_orders[i] \in PurchaseOrder
    BY DEF PurchasesInv, PurchaseTables, OrderTyped
  <1>3. \A i \in DOMAIN purchase_orders :
            /\ purchase_orders[i].edition \in Nat /\ purchase_orders[i].total \in Nat
            /\ purchase_orders[i].items \in Seq(PurchaseOrderItem)
    BY <1>2 DEF PurchaseOrder
  <1> QED
    BY <1>1, <1>3, TableIs DEF PurchasesInv, PurchaseSessions

\* create_purchase_order counts the orders.
LEMMA CountOrdersStep ==
    ASSUME PurchasesInv, NEW r \in Requests, NEW list \in ItemLists, CountOrders(r, list),
           workload' = workload, Alone', Allowed'
    PROVE  PurchasesInv'
  <1>1. PICK d : d = IdleSession
    OBVIOUS
  <1>2. d \in PurchaseSession /\ Untouched(d)
    BY <1>1, IdleIsTyped
  <1>3. PICK n \in Nat : n = Len(purchase_orders) + 1 /\ n \in 1 .. Len(purchase_orders) + 1
    <2>1. Len(purchase_orders) \in Nat
      BY RowsTyped
    <2> QED
      BY <2>1
  <1>4. PICK s : s = [d EXCEPT !.stage = "insert order", !.lines = list, !.number = n,
                               !.handler = "create"]
    OBVIOUS
  <1>5. session' = [session EXCEPT ![r] = s] /\ UNCHANGED tables
    BY <1>1, <1>3, <1>4 DEF CountOrders, Begin
  <1>6. s \in PurchaseSession
    BY <1>2, <1>4 DEF PurchaseSession
  <1>7. s.stage = "insert order" /\ s.lines = list /\ s.number = n
    BY <1>2, <1>4 DEF PurchaseSession
  <1>8. Knows(s, purchase_orders, receivings, lots, stock) /\ s.stage \notin Writing
    BY <1>3, <1>7 DEF Knows, Writing
  <1>9. KnowsAlone(s, purchase_orders)
    BY <1>7 DEF KnowsAlone, Writing
  <1> QED
    BY <1>5, <1>6, <1>8, <1>9, SessionMoves

\* update, approve and cancel load the draft.
LEMMA LoadDraftStep ==
    ASSUME PurchasesInv, NEW r \in Requests, NEW handler, NEW i \in DOMAIN purchase_orders,
           NEW list, list \in ItemLists \cup {<<>>}, handler = "update" => list \in ItemLists,
           LoadDraft(r, handler, i, list), workload' = workload, Alone', Allowed'
    PROVE  PurchasesInv'
  <1>1. PICK d : d = IdleSession
    OBVIOUS
  <1>2. d \in PurchaseSession /\ Untouched(d)
    BY <1>1, IdleIsTyped
  <1>3. PICK e, t : e = purchase_orders[i].edition /\ t = purchase_orders[i].total
    OBVIOUS
  <1>4. e \in Nat /\ t \in Nat /\ i \in Nat
    BY <1>3, RowsTyped
  <1>5. PICK s : s = [d EXCEPT !.stage = "write draft", !.order = i, !.lines = list,
                               !.edition = e, !.total = t, !.handler = handler]
    OBVIOUS
  <1>6. session' = [session EXCEPT ![r] = s] /\ UNCHANGED tables
    BY <1>1, <1>3, <1>5 DEF LoadDraft, Begin
  <1>7. handler \in Draft
    BY DEF LoadDraft, Draft
  <1>8. s \in PurchaseSession
    BY <1>2, <1>4, <1>5, <1>7 DEF PurchaseSession
  <1>9. /\ s.stage = "write draft" /\ s.lines = list /\ s.order = i /\ s.edition = e
        /\ s.total = t /\ s.handler = handler
    BY <1>2, <1>5 DEF PurchaseSession
  <1>10. purchase_orders[i].status = "draft"
    BY DEF LoadDraft, Editable
  <1>11. s.stage \notin Writing
    BY <1>9 DEF Writing
  <1>12. Knows(s, purchase_orders, receivings, lots, stock)
    <2>1. s.order \in DOMAIN purchase_orders /\ purchase_orders[s.order].edition = e
      BY <1>3, <1>9
    <2>2. s.edition <= e
      <3>1. e <= e
        BY <1>4
      <3> QED
        BY <1>9, <3>1
    <2>3. Of(s, purchase_orders)
      BY <2>1, <2>2 DEF Of
    <2> QED
      BY <1>7, <1>9, <2>3 DEF Knows, Writing
  <1>13. KnowsAlone(s, purchase_orders)
    BY <1>3, <1>9, <1>10 DEF KnowsAlone, Writing
  <1> QED
    BY <1>6, <1>8, <1>11, <1>12, <1>13, SessionMoves

\* receive_purchase_order loads the order.
LEMMA LoadForReceiptStep ==
    ASSUME PurchasesInv, NEW r \in Requests, NEW i \in DOMAIN purchase_orders,
           NEW lines \in Deliveries, LoadForReceipt(r, i, lines),
           workload' = workload, Alone', Allowed'
    PROVE  PurchasesInv'
  <1>1. PICK d : d = IdleSession
    OBVIOUS
  <1>2. d \in PurchaseSession /\ Untouched(d)
    BY <1>1, IdleIsTyped
  <1>3. PICK e : e = purchase_orders[i].edition
    OBVIOUS
  <1>4. e \in Nat /\ i \in Nat
    BY <1>3, RowsTyped
  <1>5. PICK s : s = [d EXCEPT !.stage = "count", !.order = i, !.lines = lines,
                               !.edition = e, !.handler = "receive"]
    OBVIOUS
  <1>6. session' = [session EXCEPT ![r] = s] /\ UNCHANGED tables
    BY <1>1, <1>3, <1>5 DEF LoadForReceipt, Begin
  <1>8. s \in PurchaseSession
    BY <1>2, <1>4, <1>5 DEF PurchaseSession
  <1>9. s.stage = "count" /\ s.lines = lines /\ s.order = i /\ s.edition = e
    BY <1>2, <1>5 DEF PurchaseSession
  <1>10. /\ s.lots = d.lots /\ s.stock = d.stock /\ s.items = d.items /\ s.arrived = d.arrived
         /\ s.next = d.next
    BY <1>2, <1>5 DEF PurchaseSession
  <1>11. Untouched(s)
    BY <1>2, <1>10 DEF Untouched
  <1>12. Knows(s, purchase_orders, receivings, lots, stock) /\ s.stage \notin Writing
    BY <1>3, <1>4, <1>9, <1>11 DEF Knows, Of, Writing
  <1>13. KnowsAlone(s, purchase_orders)
    BY <1>3, <1>9 DEF KnowsAlone, Writing, LoadForReceipt
  <1> QED
    BY <1>6, <1>8, <1>12, <1>13, SessionMoves

\* A request begins.
LEMMA BeginSomeStep ==
    ASSUME PurchasesInv, NEW r \in Requests, BeginSome(r), workload' = workload, Alone', Allowed'
    PROVE  PurchasesInv'
  <1>1. ASSUME NEW list \in ItemLists, CountOrders(r, list)
        PROVE  PurchasesInv'
    BY <1>1, CountOrdersStep
  <1>2. ASSUME NEW i \in DOMAIN purchase_orders, NEW handler \in {"approve", "cancel"},
               LoadDraft(r, handler, i, <<>>)
        PROVE  PurchasesInv'
    BY <1>2, LoadDraftStep
  <1>3. ASSUME NEW i \in DOMAIN purchase_orders, NEW list \in ItemLists,
               LoadDraft(r, "update", i, list)
        PROVE  PurchasesInv'
    BY <1>3, LoadDraftStep
  <1>4. ASSUME NEW i \in DOMAIN purchase_orders, NEW lines \in Deliveries,
               LoadForReceipt(r, i, lines)
        PROVE  PurchasesInv'
    BY <1>4, LoadForReceiptStep
  <1> QED
    BY <1>1, <1>2, <1>3, <1>4 DEF BeginSome

\* A transaction fails or is closed.
LEMMA GiveUpStep ==
    ASSUME PurchasesInv, NEW r \in Requests, Fail(r) \/ Rollback(r),
           workload' = workload, Alone', Allowed'
    PROVE  PurchasesInv'
  <1>1. PICK t : t = session[r]
    OBVIOUS
  <1>2. t \in PurchaseSession
    BY <1>1, RowsTyped
  <1>3. PICK s : s \in PurchaseSession /\ s.stage \in {"idle", "failed"}
                 /\ session' = [session EXCEPT ![r] = s] /\ UNCHANGED tables
    <2>1. CASE Fail(r)
      <3>1. PICK s : s = [t EXCEPT !.stage = "failed"]
        OBVIOUS
      <3>2. s \in PurchaseSession /\ s.stage = "failed"
        BY <1>2, <3>1 DEF PurchaseSession
      <3>3. session' = [session EXCEPT ![r] = s] /\ UNCHANGED tables
        BY <1>1, <2>1, <3>1 DEF Fail, Continue
      <3> QED
        BY <3>2, <3>3
    <2>2. CASE Rollback(r)
      BY <2>2, IdleIsTyped DEF Rollback, Continue
    <2> QED
      BY <2>1, <2>2
  <1>4. s.stage \notin Writing
    BY <1>3 DEF Writing
  <1>5. Knows(s, purchase_orders, receivings, lots, stock) /\ KnowsAlone(s, purchase_orders)
    BY <1>3, NothingToKnow
  <1> QED
    BY <1>3, <1>4, <1>5, SessionMoves
\* Others keep what they know while orders come and change.
LEMMA OthersKnow ==
    ASSUME PurchasesInv, NEW new, Onward(purchase_orders, new),
           \A i \in DOMAIN purchase_orders :
                purchase_orders[i].edition = new[i].edition => purchase_orders[i].items = new[i].items,
           NEW q \in Requests
    PROVE  Knows(session[q], new, receivings, lots, stock)
  <1>1. session[q] \in PurchaseSession /\ Knows(session[q], purchase_orders, receivings, lots, stock)
    BY RowsTyped
  <1> QED
    BY <1>1, StillAccounts

\* The order is inserted under a number nobody has taken.
LEMMA InsertOrderStep ==
    ASSUME PurchasesInv, NEW r \in Requests, InsertOrder(r),
           workload' = workload, Alone', Allowed'
    PROVE  PurchasesInv'
  <1>1. CASE Fail(r)
    BY <1>1, GiveUpStep
  <1>2. CASE ~Fail(r)
    <2>1. PICK s : s = session[r]
      OBVIOUS
    <2>2. /\ s \in PurchaseSession /\ s.stage = "insert order" /\ s.lines \in ItemLists
          /\ s.number \in 1 .. Len(purchase_orders) + 1
      <3>1. s.stage = "insert order"
        BY <2>1 DEF InsertOrder
      <3> QED
        BY <2>1, <3>1, RowsTyped DEF Knows
    <2>3. PICK rows : rows = Rows(s.lines)
      OBVIOUS
    <2>4. /\ rows \in Seq(PurchaseOrderItem) /\ Total(rows) = Total(s.lines) /\ Total(s.lines) \in Nat
          /\ \A n \in DOMAIN rows : ItemChecks(rows[n])
          /\ \A p : ReceivedOf(rows, p) = 0
      BY <2>2, <2>3, RowsAreNew
    <2>5. PICK row : row = [number |-> s.number, status |-> "draft", total |-> Total(s.lines),
                            edition |-> 0, items |-> rows]
      OBVIOUS
    <2>6. /\ \A i \in DOMAIN purchase_orders : purchase_orders[i].number # s.number
          /\ purchase_orders' = WithRow(purchase_orders, row)
          /\ session' = [session EXCEPT ![r] = IdleSession]
          /\ receivings' = receivings /\ lots' = lots /\ stock' = stock
      BY <1>2, <2>1, <2>3, <2>5 DEF InsertOrder, End, WithRow
    <2>7. PICK new : new = purchase_orders'
      OBVIOUS
    <2>8. PICK n : n = Len(purchase_orders)
      OBVIOUS
    <2>9. /\ IsTable(new) /\ n \in Nat /\ Len(new) = n + 1
          /\ DOMAIN purchase_orders = 1 .. n /\ DOMAIN new = 1 .. n + 1
          /\ \A i \in 1 .. n : new[i] = purchase_orders[i]
          /\ new[n + 1] = row
      <3>1. IsTable(purchase_orders)
        BY DEF PurchasesInv, PurchaseTables
      <3> QED
        BY <2>6, <2>7, <2>8, <3>1, AppendRow
    <2>10. s.number = n + 1
      <3>1. s.number \notin 1 .. n
        BY <2>6, <2>9 DEF PurchasesInv, PurchaseTables
      <3>2. s.number \in 1 .. n + 1
        BY <2>2, <2>8
      <3> QED
        BY <2>9, <3>1, <3>2
    <2>11. OrderTyped(row)
      <3>1. s.number \in Nat
        BY <2>2 DEF PurchaseSession
      <3>2. row \in PurchaseOrder
        BY <2>4, <2>5, <3>1 DEF PurchaseOrder
      <3> QED
        BY <2>4, <2>5, <3>2 DEF OrderTyped
    <2>12. PurchaseTables'
      <3>1. \A i \in 1 .. n + 1 : OrderTyped(new[i]) /\ new[i].number = i
        <4>1. \A i \in 1 .. n : OrderTyped(new[i]) /\ new[i].number = i
          BY <2>9 DEF PurchasesInv, PurchaseTables
        <4>2. OrderTyped(new[n + 1]) /\ new[n + 1].number = n + 1
          BY <2>5, <2>9, <2>10, <2>11
        <4> QED
          BY <2>9, <4>1, <4>2
      <3>2. \A k \in DOMAIN receivings : receivings[k].order \in 1 .. n + 1
        BY <2>9 DEF PurchasesInv, PurchaseTables
      <3> QED
        BY <2>6, <2>7, <2>9, <3>1, <3>2 DEF PurchasesInv, PurchaseTables
    <2>13. PurchaseBooks'
      <3>1. Calm' = Calm /\ Serial' = Serial
        BY DEF Calm, Serial
      <3>2. ASSUME Calm, NEW i \in 1 .. n + 1, NEW p \in Products
            PROVE  BookedIn(receivings, i, p) = ReceivedOf(new[i].items, p)
        <4>1. CASE i \in 1 .. n
          BY <2>9, <3>2, <4>1 DEF PurchasesInv, PurchaseBooks
        <4>2. CASE i = n + 1
          <5>1. IsTable(receivings) /\ \A k \in DOMAIN receivings : receivings[k].order # i
            BY <2>9, <4>2 DEF PurchasesInv, PurchaseTables
          <5>2. BookedIn(receivings, i, p) = 0
            BY <5>1, NothingBooked
          <5>3. ReceivedOf(new[i].items, p) = 0
            BY <2>4, <2>5, <2>9, <4>2
          <5> QED
            BY <5>2, <5>3
        <4> QED
          BY <2>9, <4>1, <4>2
      <3>3. ASSUME Serial, NEW i \in 1 .. n + 1
            PROVE  new[i].total = Total(new[i].items)
        <4>1. CASE i \in 1 .. n
          BY <2>9, <3>3, <4>1 DEF PurchasesInv, PurchaseBooks
        <4>2. CASE i = n + 1
          BY <2>4, <2>5, <2>9, <4>2
        <4> QED
          BY <2>9, <4>1, <4>2
      <3>4. ASSUME Serial, NEW k \in DOMAIN receivings
            PROVE  new[receivings[k].order].status \in {"partially_received", "received"}
        <4>1. receivings[k].order \in 1 .. n
          BY <2>9 DEF PurchasesInv, PurchaseTables
        <4> QED
          BY <2>9, <3>4, <4>1 DEF PurchasesInv, PurchaseBooks
      <3> QED
        BY <2>6, <2>7, <2>9, <3>1, <3>2, <3>3, <3>4 DEF PurchasesInv, PurchaseBooks
    <2>14. \A q \in Requests : Knows(session[q], new, receivings, lots, stock)
      <3>1. Onward(purchase_orders, new)
        <4>1. \A i \in 1 .. n : purchase_orders[i].edition \in Nat
          BY <2>9, RowsTyped
        <4> QED
          BY <2>8, <2>9, <4>1 DEF Onward
      <3>2. \A i \in DOMAIN purchase_orders : purchase_orders[i].items = new[i].items
        BY <2>9
      <3> QED
        BY <3>1, <3>2, OthersKnow
    <2>15. IdleSession \in PurchaseSession /\ IdleSession.stage = "idle"
      BY IdleIsTyped
    <2> QED
      BY <2>1, <2>2, <2>6, <2>7, <2>12, <2>13, <2>14, <2>15, SessionEnds
  <1> QED
    BY <1>1, <1>2
\* Items that were there with new ones after them.
LEMMA ItemsAdded ==
    ASSUME NEW items \in Seq(PurchaseOrderItem), NEW rows \in Seq(PurchaseOrderItem),
           \A n \in DOMAIN items : ItemChecks(items[n]),
           \A n \in DOMAIN rows : ItemChecks(rows[n]),
           NEW more, more = items \o rows
    PROVE  more \in Seq(PurchaseOrderItem) /\ \A n \in DOMAIN more : ItemChecks(more[n])
  <1>1. more \in Seq(PurchaseOrderItem)
    OBVIOUS
  <1>2. PICK k, m : k = Len(items) /\ m = Len(rows)
    OBVIOUS
  <1>3. /\ k \in Nat /\ m \in Nat /\ DOMAIN items = 1 .. k /\ DOMAIN rows = 1 .. m
        /\ DOMAIN more = 1 .. k + m
        /\ \A n \in 1 .. k + m : more[n] = IF n <= k THEN items[n] ELSE rows[n - k]
    BY <1>2
  <1>4. ASSUME NEW n \in 1 .. k + m
        PROVE  ItemChecks(more[n])
    <2>1. CASE n <= k
      <3>1. n \in 1 .. k
        BY <1>3, <2>1
      <3> QED
        BY <1>3, <2>1, <3>1
    <2>2. CASE ~(n <= k)
      <3>1. n - k \in 1 .. m
        BY <1>3, <2>2
      <3> QED
        BY <1>3, <2>2, <3>1
    <2> QED
      BY <2>1, <2>2
  <1> QED
    BY <1>1, <1>3, <1>4

Written(po, s) ==
    CASE s.handler = "approve" -> [po EXCEPT !.status = "approved"]
      [] s.handler = "cancel" -> [po EXCEPT !.status = "cancelled"]
      [] s.handler = "update" -> Updated(po, s)

\* What update, approve and cancel make of an order they have read as a draft.
LEMMA DraftWritten ==
    ASSUME NEW po, OrderTyped(po), NEW s \in PurchaseSession, s.handler \in Draft,
           s.handler = "update" => s.lines \in ItemLists,
           NEW row, row = Written(po, s)
    PROVE  /\ OrderTyped(row) /\ row.number = po.number
           /\ po.edition \in Nat /\ row.edition \in Nat /\ po.edition <= row.edition
           /\ po.edition = row.edition => row.items = po.items
           /\ s.handler # "update" => row.items = po.items /\ row.total = po.total
                                      /\ row.edition = po.edition
           /\ s.handler = "update" /\ s.edition = po.edition /\ s.total = po.total =>
                /\ row.total = Total(row.items)
                /\ \A p : ReceivedOf(row.items, p) = 0
           /\ row.status \in {po.status, "approved", "cancelled"}
  <1>1. po \in PurchaseOrder /\ \A n \in DOMAIN po.items : ItemChecks(po.items[n])
    BY DEF OrderTyped
  <1>2. po.edition \in Nat /\ po.items \in Seq(PurchaseOrderItem) /\ po.total \in Nat
    BY <1>1 DEF PurchaseOrder
  <1>3. CASE s.handler \in {"approve", "cancel"}
    <2>1. PICK status \in {"approved", "cancelled"} : row = [po EXCEPT !.status = status]
      BY <1>3 DEF Written
    <2>2. /\ row \in PurchaseOrder /\ row.number = po.number /\ row.items = po.items
          /\ row.total = po.total /\ row.edition = po.edition /\ row.status = status
      BY <1>1, <2>1 DEF PurchaseOrder
    <2>3. OrderTyped(row)
      BY <1>1, <2>2 DEF OrderTyped
    <2> QED
      BY <1>2, <1>3, <2>2, <2>3
  <1>4. CASE s.handler = "update"
    <2>1. row = Updated(po, s) /\ s.lines \in ItemLists
      BY <1>4 DEF Written
    <2>2. PICK rows : rows = Rows(s.lines)
      OBVIOUS
    <2>3. /\ rows \in Seq(PurchaseOrderItem) /\ Total(rows) = Total(s.lines) /\ Total(s.lines) \in Nat
          /\ \A n \in DOMAIN rows : ItemChecks(rows[n])
          /\ \A p : ReceivedOf(rows, p) = 0
      BY <2>1, <2>2, RowsAreNew
    <2>4. PICK items : items = IF po.edition = s.edition THEN rows ELSE po.items \o rows
      OBVIOUS
    <2>5. items \in Seq(PurchaseOrderItem) /\ \A n \in DOMAIN items : ItemChecks(items[n])
      BY <1>1, <1>2, <2>3, <2>4, ItemsAdded
    <2>6. PICK total : total = IF Total(s.lines) = s.total THEN po.total ELSE Total(s.lines)
      OBVIOUS
    <2>7. total \in Nat
      BY <1>2, <2>3, <2>6
    <2>8. PICK e \in Nat : e = po.edition + 1 /\ po.edition <= e /\ po.edition # e
      <3>1. po.edition \in Nat
        BY <1>2
      <3> QED
        BY <3>1
    <2>9. row = [po EXCEPT !.items = items, !.edition = e, !.total = total]
      BY <2>1, <2>2, <2>4, <2>6, <2>8 DEF Updated
    <2>10. /\ row \in PurchaseOrder /\ row.number = po.number /\ row.items = items
           /\ row.edition = e /\ row.total = total /\ row.status = po.status
      BY <1>1, <2>5, <2>7, <2>9 DEF PurchaseOrder
    <2>11. OrderTyped(row)
      BY <2>5, <2>10 DEF OrderTyped
    <2>12. ASSUME s.edition = po.edition, s.total = po.total
           PROVE  row.total = Total(row.items) /\ \A p : ReceivedOf(row.items, p) = 0
      BY <2>3, <2>4, <2>6, <2>10, <2>12
    <2> QED
      BY <1>2, <1>4, <2>8, <2>10, <2>11, <2>12
  <1> QED
    BY <1>3, <1>4 DEF Draft

\* The draft is written.
LEMMA WriteDraftStep ==
    ASSUME PurchasesInv, NEW r \in Requests, WriteDraft(r),
           workload' = workload, Alone', Allowed'
    PROVE  PurchasesInv'
  <1>1. PICK s : s = session[r]
    OBVIOUS
  <1>2. PICK i : i = s.order
    OBVIOUS
  <1>3. PICK po : po = purchase_orders[i]
    OBVIOUS
  <1>4. /\ s \in PurchaseSession /\ s.stage = "write draft" /\ s.handler \in Draft
        /\ (s.handler = "update" => s.lines \in ItemLists)
        /\ i \in DOMAIN purchase_orders
        /\ Serial => po.status = "draft" /\ s.edition = po.edition /\ s.total = po.total
    <2>1. s.stage = "write draft"
      BY <1>1 DEF WriteDraft
    <2> QED
      BY <1>1, <1>2, <1>3, <2>1, RowsTyped DEF Knows, KnowsAlone, Of
  <1>5. PICK row : row = Written(po, s)
    OBVIOUS
  <1>6. /\ purchase_orders' = Changed(purchase_orders, i, row)
        /\ session' = [session EXCEPT ![r] = IdleSession]
        /\ receivings' = receivings /\ lots' = lots /\ stock' = stock
    BY <1>1, <1>2, <1>3, <1>5 DEF WriteDraft, End, Changed, Written
  <1>7. OrderTyped(po) /\ po.number = i
    BY <1>3, <1>4 DEF PurchasesInv, PurchaseTables
  <1>8. /\ OrderTyped(row) /\ row.number = po.number
        /\ po.edition \in Nat /\ row.edition \in Nat /\ po.edition <= row.edition
        /\ po.edition = row.edition => row.items = po.items
        /\ s.handler # "update" => row.items = po.items /\ row.total = po.total
                                   /\ row.edition = po.edition
        /\ s.handler = "update" /\ s.edition = po.edition /\ s.total = po.total =>
             row.total = Total(row.items) /\ \A p : ReceivedOf(row.items, p) = 0
        /\ row.status \in {po.status, "approved", "cancelled"}
    <2>1. /\ s \in PurchaseSession /\ s.handler \in Draft /\ OrderTyped(po) /\ row = Written(po, s)
          /\ (s.handler = "update" => s.lines \in ItemLists)
      BY <1>4, <1>5, <1>7
    <2> QED
      BY <2>1, DraftWritten
  <1>9. PICK new : new = purchase_orders'
    OBVIOUS
  <1>10. /\ IsTable(new) /\ Len(new) = Len(purchase_orders) /\ DOMAIN new = DOMAIN purchase_orders
         /\ \A k \in DOMAIN new : k # i => new[k] = purchase_orders[k]
         /\ new[i] = row
    <2>1. IsTable(purchase_orders) /\ new = Changed(purchase_orders, i, row)
      BY <1>6, <1>9 DEF PurchasesInv, PurchaseTables
    <2>2. /\ IsTable(new) /\ Len(new) = Len(purchase_orders) /\ DOMAIN new = DOMAIN purchase_orders
          /\ \A k \in DOMAIN purchase_orders : new[k] = IF k = i THEN row ELSE purchase_orders[k]
      BY <2>1, ChangeRow
    <2> QED
      BY <1>4, <2>2
  <1>11. PurchaseTables'
    <2>1. \A k \in DOMAIN new : OrderTyped(new[k]) /\ new[k].number = k
      <3>1. \A k \in DOMAIN new : k # i => OrderTyped(new[k]) /\ new[k].number = k
        BY <1>10 DEF PurchasesInv, PurchaseTables
      <3> QED
        BY <1>7, <1>8, <1>10, <3>1
    <2> QED
      BY <1>6, <1>9, <1>10, <2>1 DEF PurchasesInv, PurchaseTables
  \* No delivery is booked for a draft.
  <1>12. ASSUME Serial, NEW n \in DOMAIN receivings
         PROVE  receivings[n].order # i
    BY <1>3, <1>4, <1>12 DEF PurchasesInv, PurchaseBooks
  <1>13. Calm /\ s.handler = "update" => Serial
    <2>1. s.handler \in workload.handlers
      BY <1>1, <1>4 DEF PurchasesInv, Allowed
    <2> QED
      BY <2>1 DEF Calm
  <1>14. PurchaseBooks'
    <2>1. Calm' = Calm /\ Serial' = Serial
      BY DEF Calm, Serial
    <2>2. ASSUME Calm, NEW k \in DOMAIN new, NEW p \in Products
          PROVE  BookedIn(receivings, k, p) = ReceivedOf(new[k].items, p)
      <3>1. BookedIn(receivings, k, p) = ReceivedOf(purchase_orders[k].items, p)
        BY <1>10, <2>2 DEF PurchasesInv, PurchaseBooks
      <3>2. CASE k # i \/ s.handler # "update"
        BY <1>3, <1>8, <1>10, <3>1, <3>2
      <3>3. CASE k = i /\ s.handler = "update"
        <4>1. Serial
          BY <1>13, <2>2, <3>3
        <4>2. IsTable(receivings) /\ \A n \in DOMAIN receivings : receivings[n].order # k
          BY <1>12, <3>3, <4>1 DEF PurchasesInv, PurchaseTables
        <4>3. BookedIn(receivings, k, p) = 0
          BY <4>2, NothingBooked
        <4>4. ReceivedOf(row.items, p) = 0
          BY <1>4, <1>8, <3>3, <4>1
        <4> QED
          BY <1>10, <3>3, <4>3, <4>4
      <3> QED
        BY <3>2, <3>3
    <2>3. ASSUME Serial, NEW k \in DOMAIN new
          PROVE  new[k].total = Total(new[k].items)
      <3>1. purchase_orders[k].total = Total(purchase_orders[k].items)
        BY <1>10, <2>3 DEF PurchasesInv, PurchaseBooks
      <3>2. CASE k # i \/ s.handler # "update"
        BY <1>3, <1>8, <1>10, <3>1, <3>2
      <3>3. CASE k = i /\ s.handler = "update"
        BY <1>4, <1>8, <1>10, <2>3, <3>3
      <3> QED
        BY <3>2, <3>3
    <2>4. ASSUME Serial, NEW n \in DOMAIN receivings
          PROVE  new[receivings[n].order].status \in {"partially_received", "received"}
      <3>1. receivings[n].order # i
        BY <1>12, <2>4
      <3>2. receivings[n].order \in DOMAIN new
        BY <1>10 DEF PurchasesInv, PurchaseTables
      <3> QED
        BY <1>10, <2>4, <3>1, <3>2 DEF PurchasesInv, PurchaseBooks
    <2> QED
      BY <1>6, <1>9, <2>1, <2>2, <2>3, <2>4 DEF PurchasesInv, PurchaseBooks
  <1>15. \A q \in Requests : Knows(session[q], new, receivings, lots, stock)
    <2>1. \A k \in DOMAIN purchase_orders : purchase_orders[k].edition \in Nat
      BY RowsTyped
    <2>2. Onward(purchase_orders, new)
      <3>1. Len(purchase_orders) \in Nat
        BY RowsTyped
      <3>2. \A k \in DOMAIN purchase_orders :
                purchase_orders[k].edition <= new[k].edition /\ new[k].edition \in Nat
        BY <1>3, <1>8, <1>10, <2>1
      <3> QED
        BY <1>10, <2>1, <3>1, <3>2 DEF Onward
    <2>3. \A k \in DOMAIN purchase_orders :
                purchase_orders[k].edition = new[k].edition => purchase_orders[k].items = new[k].items
      BY <1>3, <1>8, <1>10
    <2> QED
      BY <2>2, <2>3, OthersKnow
  <1>16. IdleSession \in PurchaseSession /\ IdleSession.stage = "idle"
    BY IdleIsTyped
  <1> QED
    BY <1>1, <1>4, <1>6, <1>9, <1>11, <1>14, <1>15, <1>16, SessionEnds
\* A delivery in flight.
LEMMA InReceipt ==
    ASSUME PurchasesInv, NEW r \in Requests, NEW s, s = session[r]
    PROVE  /\ s \in PurchaseSession
           /\ s.stage \in {"count", "insert"} =>
                Of(s, purchase_orders) /\ s.lines \in Deliveries /\ Untouched(s)
           /\ s.stage = "insert" => s.number \in 1 .. Len(receivings) + 1
           /\ s.stage \in Writing =>
                /\ Of(s, purchase_orders) /\ s.lines \in Deliveries
                /\ s.number = Len(receivings) + 1
                /\ Accounts(s, purchase_orders, lots, stock)
                /\ \A q \in Requests \ {r} : session[q].stage \notin Writing
           /\ s.stage \in {"read", "write"} => s.next \in 1 .. Len(s.lines)
           /\ s.stage = "write" =>
                /\ s.lines[s.next].item \in DOMAIN s.items
                /\ s.lot = Seen(s.lots[LotKey(s)], lots[LotKey(s)])
           /\ Serial /\ s.stage \in {"count", "insert"} \cup Writing =>
                /\ purchase_orders[s.order].status \in Receivable
                /\ s.edition = purchase_orders[s.order].edition
  <1>1. s \in PurchaseSession /\ Knows(s, purchase_orders, receivings, lots, stock)
        /\ (Serial => KnowsAlone(s, purchase_orders))
    BY RowsTyped
  <1>2. s.stage \in Writing => \A q \in Requests \ {r} : session[q].stage \notin Writing
    BY DEF PurchasesInv, PurchaseSessions, DeliveriesExclusive, Inserted, Writing
  <1> QED
    BY <1>1, <1>2 DEF Knows, KnowsAlone

\* A delivery has a line, and every line names an item, a quantity and a lot.
LEMMA DeliveryLines ==
    ASSUME NEW lines \in Deliveries
    PROVE  /\ Len(lines) \in Nat /\ 1 \in 1 .. Len(lines) /\ DOMAIN lines = 1 .. Len(lines)
           /\ \A n \in 1 .. Len(lines) :
                lines[n].quantity \in Nat /\ lines[n].lot \in LotNumbers /\ lines[n].item \in Nat
  <1>1. PICK L : L = [item : Nat \ {0}, quantity : Nat \ {0}, lot : LotNumbers]
    OBVIOUS
  <1>2. lines \in Seq(L) /\ lines # <<>>
    BY <1>1, PurchasesAssumption
  <1>3. Len(lines) \in Nat /\ Len(lines) # 0 /\ DOMAIN lines = 1 .. Len(lines)
        /\ \A n \in 1 .. Len(lines) : lines[n] \in L
    BY <1>2
  <1>4. \A line \in L : line.quantity \in Nat /\ line.lot \in LotNumbers /\ line.item \in Nat
    BY <1>1
  <1>5. 1 \in 1 .. Len(lines)
    BY <1>3
  <1> QED
    BY <1>3, <1>4, <1>5

\* The number of a delivery is computed.
LEMMA CountReceivingsStep ==
    ASSUME PurchasesInv, NEW r \in Requests, CountReceivings(r),
           workload' = workload, Alone', Allowed'
    PROVE  PurchasesInv'
  <1>1. PICK t : t = session[r]
    OBVIOUS
  <1>2. t.stage = "count"
    BY <1>1 DEF CountReceivings
  <1>3. /\ t \in PurchaseSession /\ Of(t, purchase_orders) /\ t.lines \in Deliveries /\ Untouched(t)
        /\ Serial => /\ purchase_orders[t.order].status \in Receivable
                     /\ t.edition = purchase_orders[t.order].edition
    BY <1>1, <1>2, InReceipt
  <1>4. PICK n \in Nat : n = Len(receivings) + 1 /\ n \in 1 .. Len(receivings) + 1
    <2>1. Len(receivings) \in Nat
      BY RowsTyped
    <2> QED
      BY <2>1
  <1>5. PICK s : s = [t EXCEPT !.stage = "insert", !.number = n]
    OBVIOUS
  <1>6. session' = [session EXCEPT ![r] = s] /\ UNCHANGED tables
    BY <1>1, <1>4, <1>5 DEF CountReceivings, Continue
  <1>7. s \in PurchaseSession
    BY <1>3, <1>4, <1>5 DEF PurchaseSession
  <1>8. /\ s.stage = "insert" /\ s.number = n /\ s.order = t.order /\ s.edition = t.edition
        /\ s.lines = t.lines /\ s.lots = t.lots /\ s.stock = t.stock /\ s.items = t.items
        /\ s.arrived = t.arrived /\ s.next = t.next
    BY <1>3, <1>5 DEF PurchaseSession
  <1>9. Of(s, purchase_orders) /\ Untouched(s)
    BY <1>3, <1>8 DEF Of, Untouched
  <1>10. Knows(s, purchase_orders, receivings, lots, stock) /\ s.stage \notin Writing
    BY <1>3, <1>4, <1>8, <1>9 DEF Knows, Writing
  <1>11. Serial => KnowsAlone(s, purchase_orders)
    BY <1>3, <1>8 DEF KnowsAlone, Writing
  <1> QED
    BY <1>6, <1>7, <1>10, <1>11, SessionMoves

\* A delivery that has just read the items has booked nothing.
LEMMA AccountsBegin ==
    ASSUME NEW s, Untouched([s EXCEPT !.items = <<>>]), s \in PurchaseSession,
           NEW orders, s.items = orders[s.order].items, s.items \in Seq(PurchaseOrderItem),
           NEW l \in [LotKeys -> Nat \cup {None}], NEW t \in [Products -> Nat]
    PROVE  Accounts(s, orders, l, t)
  <1>1. /\ s.lots = [k \in LotKeys |-> None] /\ s.stock = [p \in Products |-> None]
        /\ s.arrived = <<>>
    BY DEF Untouched, PurchaseSession
  <1>2. /\ \A k : IntoLot(s.arrived, k) = 0
        /\ \A p : OfProduct(s.arrived, p) = 0
    BY <1>1, NoLines
  <1>3. ASSUME NEW k \in LotKeys
        PROVE  Bottles(Seen(s.lots[k], l[k])) = Bottles(l[k]) + IntoLot(s.arrived, k)
    <2>1. Seen(s.lots[k], l[k]) = l[k]
      BY <1>1 DEF Seen
    <2>2. Bottles(l[k]) \in Nat
      BY DEF Bottles
    <2> QED
      BY <1>2, <2>1, <2>2
  <1>4. ASSUME NEW p \in Products
        PROVE  Seen(s.stock[p], t[p]) = t[p] + OfProduct(s.arrived, p)
    <2>1. Seen(s.stock[p], t[p]) = t[p]
      BY <1>1 DEF Seen
    <2>2. t[p] \in Nat
      OBVIOUS
    <2> QED
      BY <1>2, <2>1, <2>2
  <1>5. AsRead(s.items, orders[s.order].items)
    BY DEF AsRead
  <1>6. ASSUME NEW p \in Products
        PROVE  ReceivedOf(s.items, p) = ReceivedOf(orders[s.order].items, p) + OfProduct(s.arrived, p)
    <2>1. ReceivedOf(s.items, p) \in Int
      BY ReceivedIsNatural
    <2> QED
      BY <1>2, <2>1
  <1> QED
    BY <1>3, <1>4, <1>5, <1>6 DEF Accounts

\* A delivery takes its number, which no delivery in flight has.
LEMMA InsertReceivingStep ==
    ASSUME PurchasesInv, NEW r \in Requests, InsertReceiving(r),
           workload' = workload, Alone', Allowed'
    PROVE  PurchasesInv'
  <1>1. PICK t : t = session[r]
    OBVIOUS
  <1>2. t.stage = "insert"
    BY <1>1 DEF InsertReceiving
  <1>3. /\ t \in PurchaseSession /\ Of(t, purchase_orders) /\ t.lines \in Deliveries /\ Untouched(t)
        /\ t.number \in 1 .. Len(receivings) + 1
        /\ Serial => /\ purchase_orders[t.order].status \in Receivable
                     /\ t.edition = purchase_orders[t.order].edition
    BY <1>1, <1>2, InReceipt
  <1>4. CASE Fail(r)
    BY <1>4, GiveUpStep
  <1>5. CASE ~Fail(r)
    <2>1. PICK items : items = purchase_orders[t.order].items
      OBVIOUS
    <2>2. items \in Seq(PurchaseOrderItem)
      BY <1>3, <2>1, RowsTyped DEF Of
    <2>3. PICK s : s = [t EXCEPT !.stage = "read", !.items = items]
      OBVIOUS
    <2>4. /\ session' = [session EXCEPT ![r] = s] /\ UNCHANGED tables
          /\ \A n \in DOMAIN receivings : receivings[n].number # t.number
      BY <1>1, <1>5, <2>1, <2>3 DEF InsertReceiving, Continue
    <2>5. s \in PurchaseSession
      BY <1>3, <2>2, <2>3 DEF PurchaseSession
    <2>6. /\ s.stage = "read" /\ s.number = t.number /\ s.order = t.order /\ s.edition = t.edition
          /\ s.lines = t.lines /\ s.lots = t.lots /\ s.stock = t.stock /\ s.items = items
          /\ s.arrived = t.arrived /\ s.next = t.next
      BY <1>3, <2>3 DEF PurchaseSession
    <2>7. t.number = Len(receivings) + 1
      <3>1. Len(receivings) \in Nat /\ t.number \notin 1 .. Len(receivings)
        BY <2>4, RowsTyped DEF PurchasesInv, PurchaseTables
      <3> QED
        BY <1>3, <3>1
    <2>8. \A q \in Requests \ {r} : session[q].stage \notin Writing
      <3>1. ASSUME NEW q \in Requests \ {r}, session[q].stage \in Writing
            PROVE  FALSE
        <4>1. session[q].number = Len(receivings) + 1
          BY <3>1, InReceipt
        <4>2. session[q].number # t.number
          BY <1>1, <3>1 DEF InsertReceiving, FreeNumber, Inserted, Writing
        <4> QED
          BY <2>7, <4>1, <4>2
      <3> QED
        BY <3>1
    <2>9. Accounts(s, purchase_orders, lots, stock)
      <3>1. Untouched([s EXCEPT !.items = <<>>])
        <4>1. PICK u : u = [s EXCEPT !.items = <<>>]
          OBVIOUS
        <4>2. /\ u.lots = s.lots /\ u.stock = s.stock /\ u.arrived = s.arrived /\ u.next = s.next
              /\ u.items = <<>>
          BY <2>5, <4>1 DEF PurchaseSession
        <4> QED
          BY <1>3, <2>6, <4>1, <4>2 DEF Untouched
      <3>2. lots \in [LotKeys -> Nat \cup {None}] /\ stock \in [Products -> Nat]
        BY DEF PurchasesInv, PurchaseTables
      <3> QED
        BY <2>1, <2>2, <2>5, <2>6, <3>1, <3>2, AccountsBegin
    <2>10. Of(s, purchase_orders)
      BY <1>3, <2>6 DEF Of
    <2>11. s.next \in 1 .. Len(s.lines)
      BY <1>3, <2>6, DeliveryLines DEF Untouched
    <2>12. Knows(s, purchase_orders, receivings, lots, stock)
      BY <1>3, <2>6, <2>7, <2>9, <2>10, <2>11 DEF Knows, Writing
    <2>13. Serial => KnowsAlone(s, purchase_orders)
      BY <1>3, <2>6 DEF KnowsAlone
    <2> QED
      BY <2>4, <2>5, <2>8, <2>12, <2>13, SessionMoves
  <1> QED
    BY <1>4, <1>5

\* The next line is read, and the lot as this transaction sees it.
LEMMA ReadLineStep ==
    ASSUME PurchasesInv, NEW r \in Requests, ReadLine(r),
           workload' = workload, Alone', Allowed'
    PROVE  PurchasesInv'
  <1>1. PICK t : t = session[r]
    OBVIOUS
  <1>2. t.stage = "read" /\ t.stage \in Writing
    BY <1>1 DEF ReadLine, Writing
  <1>3. /\ t \in PurchaseSession /\ Of(t, purchase_orders) /\ t.lines \in Deliveries
        /\ t.number = Len(receivings) + 1
        /\ Accounts(t, purchase_orders, lots, stock)
        /\ \A q \in Requests \ {r} : session[q].stage \notin Writing
        /\ t.next \in 1 .. Len(t.lines)
        /\ Serial => /\ purchase_orders[t.order].status \in Receivable
                     /\ t.edition = purchase_orders[t.order].edition
    BY <1>1, <1>2, InReceipt
  <1>4. CASE Fail(r)
    BY <1>4, GiveUpStep
  <1>5. CASE ~Fail(r)
    <2>1. PICK k : k = LotKey(t)
      OBVIOUS
    <2>2. t.lines[t.next].item \in DOMAIN t.items
      BY <1>1, <1>5 DEF ReadLine, Line
    <2>3. k \in LotKeys
      <3>1. t.items \in Seq(PurchaseOrderItem)
        BY <1>3 DEF PurchaseSession
      <3>2. t.items[t.lines[t.next].item] \in PurchaseOrderItem
        BY <2>2, <3>1
      <3>3. t.lines[t.next].lot \in LotNumbers
        BY <1>3, DeliveryLines
      <3> QED
        BY <2>1, <3>2, <3>3 DEF LotKey, Line, LotKeys, PurchaseOrderItem
    <2>4. PICK v : v = Seen(t.lots[k], lots[k])
      OBVIOUS
    <2>5. v \in Nat \cup {None}
      <3>1. t.lots \in [LotKeys -> Nat \cup {None}] /\ lots \in [LotKeys -> Nat \cup {None}]
        BY <1>3 DEF PurchaseSession, PurchasesInv, PurchaseTables
      <3> QED
        BY <2>3, <2>4, <3>1 DEF Seen
    <2>6. PICK s : s = [t EXCEPT !.stage = "write", !.lot = v]
      OBVIOUS
    <2>7. session' = [session EXCEPT ![r] = s] /\ UNCHANGED tables
      BY <1>1, <1>5, <2>1, <2>4, <2>6 DEF ReadLine, Continue, VisibleLot, Seen
    <2>8. s \in PurchaseSession
      BY <1>3, <2>5, <2>6 DEF PurchaseSession
    <2>9. /\ s.stage = "write" /\ s.number = t.number /\ s.order = t.order /\ s.edition = t.edition
          /\ s.lines = t.lines /\ s.lots = t.lots /\ s.stock = t.stock /\ s.items = t.items
          /\ s.arrived = t.arrived /\ s.next = t.next /\ s.lot = v
      BY <1>3, <2>6 DEF PurchaseSession
    <2>10. Of(s, purchase_orders)
      BY <1>3, <2>9 DEF Of
    <2>11. Accounts(s, purchase_orders, lots, stock)
      BY <1>3, <2>9 DEF Accounts
    <2>12. LotKey(s) = k
      BY <2>1, <2>9 DEF LotKey, Line
    <2>13. Knows(s, purchase_orders, receivings, lots, stock)
      BY <1>3, <2>2, <2>4, <2>9, <2>10, <2>11, <2>12 DEF Knows, Writing
    <2>14. Serial => KnowsAlone(s, purchase_orders)
      BY <1>3, <2>9 DEF KnowsAlone
    <2> QED
      BY <1>3, <2>7, <2>8, <2>13, <2>14, SessionMoves
  <1> QED
    BY <1>4, <1>5
\* A line of a quantity of p for a lot, from a session t to a session s.
LineWritten(t, s, l, h, j, quantity, lot, p, k, item, line) ==
    /\ p = t.items[j].product /\ k = <<p, lot>> /\ t.lot = Seen(t.lots[k], l[k])
    /\ item = [t.items[j] EXCEPT !.received = @ + quantity]
    /\ line = [product |-> p, quantity |-> quantity, lot |-> lot]
    /\ s.lots = [t.lots EXCEPT ![k] = LotAfter(t.lot, quantity)]
    /\ s.stock = [t.stock EXCEPT ![p] = Seen(t.stock[p], h[p]) + quantity]
    /\ s.items = Changed(t.items, j, item) /\ s.arrived = WithRow(t.arrived, line)
    /\ s.order = t.order /\ s.edition = t.edition

\* A line is written to its lot, to the shelf and to its item.
LEMMA LineBooked ==
    ASSUME NEW t \in PurchaseSession, NEW s \in PurchaseSession, NEW orders,
           NEW l \in [LotKeys -> Nat \cup {None}], NEW h \in [Products -> Nat],
           Accounts(t, orders, l, h), NEW j \in DOMAIN t.items, NEW quantity \in Nat,
           NEW lot \in LotNumbers, NEW p \in Products, NEW k \in LotKeys,
           NEW item \in PurchaseOrderItem, NEW line \in PurchaseReceivingItem,
           LineWritten(t, s, l, h, j, quantity, lot, p, k, item, line),
           s.edition = orders[s.order].edition => orders[s.order].items \in Seq(PurchaseOrderItem)
    PROVE  Accounts(s, orders, l, h)
  <1>1. /\ t.items \in Seq(PurchaseOrderItem) /\ t.arrived \in Seq(PurchaseReceivingItem)
        /\ t.lots \in [LotKeys -> Nat \cup {None}] /\ t.stock \in [Products -> Nat \cup {None}]
        /\ t.lot \in Nat \cup {None}
    BY DEF PurchaseSession
  <1>2. line.product = p /\ line.quantity = quantity /\ line.lot = lot /\ k = <<p, lot>>
    BY DEF LineWritten
  <1>3. ASSUME NEW x
        PROVE  /\ IntoLot(s.arrived, x) = IntoLot(t.arrived, x) + IF k = x THEN quantity ELSE 0
               /\ OfProduct(s.arrived, x) = OfProduct(t.arrived, x) + IF p = x THEN quantity ELSE 0
    <2>1. PICK more : more = s.arrived
      OBVIOUS
    <2>2. more = WithRow(t.arrived, line)
      BY <2>1 DEF LineWritten
    <2>3. IntoLot(more, x) = IntoLot(t.arrived, x) +
            IF <<line.product, line.lot>> = x THEN line.quantity ELSE 0
      BY <1>1, <2>2, LineAdds
    <2>4. OfProduct(more, x) = OfProduct(t.arrived, x) +
            IF line.product = x THEN line.quantity ELSE 0
      BY <1>1, <2>2, LineAdds
    <2> QED
      BY <1>2, <2>1, <2>3, <2>4
  <1>4. /\ \A x : IntoLot(t.arrived, x) \in Nat
        /\ \A x : OfProduct(t.arrived, x) \in Nat
    BY <1>1, LinesAreNatural
  <1>5. ASSUME NEW x \in LotKeys
        PROVE  Bottles(Seen(s.lots[x], l[x])) = Bottles(l[x]) + IntoLot(s.arrived, x)
    <2>1. Bottles(Seen(t.lots[x], l[x])) = Bottles(l[x]) + IntoLot(t.arrived, x)
      BY DEF Accounts
    <2>2. CASE x # k
      <3>1. s.lots[x] = t.lots[x]
        BY <1>1, <2>2 DEF LineWritten
      <3>2. IntoLot(s.arrived, x) = IntoLot(t.arrived, x)
        <4>1. IntoLot(s.arrived, x) = IntoLot(t.arrived, x) + 0
          BY <1>3, <2>2
        <4>2. IntoLot(t.arrived, x) \in Nat
          BY <1>4
        <4> QED
          BY <4>1, <4>2
      <3> QED
        BY <2>1, <3>1, <3>2
    <2>3. CASE x = k
      <3>1. s.lots[x] = LotAfter(t.lot, quantity)
        BY <1>1, <2>3 DEF LineWritten
      <3>2. LotAfter(t.lot, quantity) = Bottles(t.lot) + quantity /\ Bottles(t.lot) \in Nat
        BY <1>1 DEF LotAfter, Bottles
      <3>3. s.lots[x] \in Nat /\ s.lots[x] # None
        BY <3>1, <3>2, PurchasesAssumption
      <3>4. Bottles(Seen(s.lots[x], l[x])) = Bottles(t.lot) + quantity
        BY <3>1, <3>2, <3>3 DEF Seen, Bottles
      <3>5. Bottles(t.lot) = Bottles(l[x]) + IntoLot(t.arrived, x)
        BY <2>1, <2>3 DEF LineWritten
      <3>6. Bottles(l[x]) \in Nat
        BY DEF Bottles
      <3>7. IntoLot(s.arrived, x) = IntoLot(t.arrived, x) + quantity
        BY <1>3, <2>3
      <3> QED
        BY <1>4, <3>2, <3>4, <3>5, <3>6, <3>7
    <2> QED
      BY <2>2, <2>3
  <1>6. ASSUME NEW x \in Products
        PROVE  Seen(s.stock[x], h[x]) = h[x] + OfProduct(s.arrived, x)
    <2>1. Seen(t.stock[x], h[x]) = h[x] + OfProduct(t.arrived, x)
      BY DEF Accounts
    <2>2. CASE x # p
      <3>1. s.stock[x] = t.stock[x]
        BY <1>1, <2>2 DEF LineWritten
      <3>2. OfProduct(s.arrived, x) = OfProduct(t.arrived, x)
        <4>1. OfProduct(s.arrived, x) = OfProduct(t.arrived, x) + 0
          BY <1>3, <2>2
        <4>2. OfProduct(t.arrived, x) \in Nat
          BY <1>4
        <4> QED
          BY <4>1, <4>2
      <3> QED
        BY <2>1, <3>1, <3>2
    <2>3. CASE x = p
      <3>1. PICK v : v = Seen(t.stock[p], h[p])
        OBVIOUS
      <3>2. v \in Nat
        BY <1>1, <3>1 DEF Seen
      <3>3. s.stock[x] = v + quantity
        BY <1>1, <2>3, <3>1 DEF LineWritten
      <3>4. s.stock[x] \in Nat /\ s.stock[x] # None
        BY <3>2, <3>3, PurchasesAssumption
      <3>5. Seen(s.stock[x], h[x]) = v + quantity
        BY <3>3, <3>4 DEF Seen
      <3>6. OfProduct(s.arrived, x) = OfProduct(t.arrived, x) + quantity
        BY <1>3, <2>3
      <3>7. h[x] \in Nat
        OBVIOUS
      <3> QED
        BY <1>4, <2>1, <2>3, <3>1, <3>2, <3>5, <3>6, <3>7
    <2> QED
      BY <2>2, <2>3
  <1>7. t.items[j] \in PurchaseOrderItem
    BY <1>1
  <1>8. /\ item.product = p /\ item.cost = t.items[j].cost /\ item.ordered = t.items[j].ordered
        /\ t.items[j].received \in Nat /\ item.received = t.items[j].received + quantity
    BY <1>7 DEF PurchaseOrderItem, LineWritten
  <1>9. ASSUME s.edition = orders[s.order].edition
        PROVE  /\ AsRead(s.items, orders[s.order].items)
               /\ \A x \in Products : ReceivedOf(s.items, x) =
                     ReceivedOf(orders[s.order].items, x) + OfProduct(s.arrived, x)
    <2>1. PICK ordered : ordered = orders[s.order].items
      OBVIOUS
    <2>2. /\ AsRead(t.items, ordered) /\ ordered \in Seq(PurchaseOrderItem)
          /\ \A x \in Products : ReceivedOf(t.items, x) = ReceivedOf(ordered, x) + OfProduct(t.arrived, x)
      BY <1>9, <2>1 DEF Accounts, LineWritten
    <2>3. DOMAIN s.items = DOMAIN t.items
          /\ \A n \in DOMAIN t.items : s.items[n] = IF n = j THEN item ELSE t.items[n]
      BY <1>1, ChangeRow, TableIn DEF LineWritten
    <2>4. AsRead(s.items, ordered)
      BY <1>8, <2>2, <2>3 DEF AsRead
    <2>5. ASSUME NEW x \in Products
          PROVE  ReceivedOf(s.items, x) = ReceivedOf(ordered, x) + OfProduct(s.arrived, x)
      <3>1. ReceivedOf(s.items, x) = ReceivedOf(t.items, x) +
                IF item.product = x THEN item.received - t.items[j].received ELSE 0
        <4>1. PICK more : more = s.items
          OBVIOUS
        <4>2. PICK old \in Seq(PurchaseOrderItem) : old = t.items
          BY <1>1
        <4>3. more = Changed(old, j, item) /\ item.product = old[j].product /\ j \in DOMAIN old
          BY <1>8, <4>1, <4>2 DEF LineWritten
        <4>4. ReceivedOf(more, x) = ReceivedOf(old, x) + Gain(item, old[j], x)
          BY <4>3, ItemReceives
        <4> QED
          BY <4>1, <4>2, <4>4 DEF Gain
      <3>2. ReceivedOf(s.items, x) = ReceivedOf(t.items, x) + IF p = x THEN quantity ELSE 0
        BY <1>8, <3>1
      <3>3. ReceivedOf(t.items, x) \in Nat /\ ReceivedOf(ordered, x) \in Nat
        BY <1>1, <2>2, ReceivedIsNatural
      <3>4. OfProduct(t.arrived, x) \in Nat
            /\ OfProduct(s.arrived, x) = OfProduct(t.arrived, x) + IF p = x THEN quantity ELSE 0
        BY <1>3, <1>4
      <3>5. ReceivedOf(t.items, x) = ReceivedOf(ordered, x) + OfProduct(t.arrived, x)
        BY <2>2
      <3> QED
        BY <3>2, <3>3, <3>4, <3>5
    <2> QED
      BY <2>1, <2>4, <2>5
  <1> QED
    BY <1>5, <1>6, <1>9 DEF Accounts

\* The line read is written.
LEMMA WriteLineStep ==
    ASSUME PurchasesInv, NEW r \in Requests, WriteLine(r),
           workload' = workload, Alone', Allowed'
    PROVE  PurchasesInv'
  <1>1. PICK t : t = session[r]
    OBVIOUS
  <1>2. t.stage = "write" /\ t.stage \in Writing
    BY <1>1 DEF WriteLine, Writing
  <1>3. /\ t \in PurchaseSession /\ Of(t, purchase_orders) /\ t.lines \in Deliveries
        /\ t.number = Len(receivings) + 1
        /\ Accounts(t, purchase_orders, lots, stock)
        /\ \A q \in Requests \ {r} : session[q].stage \notin Writing
        /\ t.next \in 1 .. Len(t.lines)
        /\ t.lines[t.next].item \in DOMAIN t.items
        /\ t.lot = Seen(t.lots[LotKey(t)], lots[LotKey(t)])
        /\ Serial => /\ purchase_orders[t.order].status \in Receivable
                     /\ t.edition = purchase_orders[t.order].edition
    BY <1>1, <1>2, InReceipt
  <1>4. PICK j, quantity, lot, k : /\ j = t.lines[t.next].item /\ quantity = t.lines[t.next].quantity
                                   /\ lot = t.lines[t.next].lot /\ k = LotKey(t)
    OBVIOUS
  <1>5. j \in DOMAIN t.items /\ quantity \in Nat /\ lot \in LotNumbers
    BY <1>3, <1>4, DeliveryLines
  <1>6. t.items \in Seq(PurchaseOrderItem) /\ t.arrived \in Seq(PurchaseReceivingItem)
        /\ t.lots \in [LotKeys -> Nat \cup {None}] /\ t.stock \in [Products -> Nat \cup {None}]
        /\ t.lot \in Nat \cup {None} /\ t.complete \in BOOLEAN
    BY <1>3 DEF PurchaseSession
  <1>7. PICK it \in PurchaseOrderItem : it = t.items[j]
    BY <1>5, <1>6
  <1>8. PICK p \in Products : p = it.product
    BY DEF PurchaseOrderItem
  <1>9. PICK item \in PurchaseOrderItem : item = [it EXCEPT !.received = @ + quantity]
    <2>1. it.received + quantity \in Nat
      BY <1>5 DEF PurchaseOrderItem
    <2>2. [it EXCEPT !.received = it.received + quantity] \in PurchaseOrderItem
      BY <2>1 DEF PurchaseOrderItem
    <2> QED
      BY <2>2
  <1>10. k \in LotKeys /\ k = <<p, lot>>
    BY <1>4, <1>5, <1>7, <1>8 DEF LotKey, Line, LotKeys
  <1>11. PICK line \in PurchaseReceivingItem : line = [product |-> p, quantity |-> quantity, lot |-> lot]
    BY <1>5 DEF PurchaseReceivingItem
  <1>12. lots \in [LotKeys -> Nat \cup {None}] /\ stock \in [Products -> Nat]
    BY DEF PurchasesInv, PurchaseTables
  <1>13. PICK a \in Nat : a = LotAfter(t.lot, quantity)
    BY <1>5, <1>6 DEF LotAfter
  <1>14. PICK b \in Nat : b = Seen(t.stock[p], stock[p]) + quantity
    BY <1>5, <1>6, <1>12 DEF Seen
  <1>15. PICK lots2 \in [LotKeys -> Nat \cup {None}] : lots2 = [t.lots EXCEPT ![k] = a]
    BY <1>6, <1>10
  <1>16. PICK stock2 \in [Products -> Nat \cup {None}] : stock2 = [t.stock EXCEPT ![p] = b]
    BY <1>6
  <1>17. PICK items \in Seq(PurchaseOrderItem) : items = Changed(t.items, j, item)
    <2>1. item.product = t.items[j].product
      BY <1>7, <1>9 DEF PurchaseOrderItem
    <2> QED
      BY <1>5, <1>6, <2>1, ItemReceives
  <1>18. PICK arrived \in Seq(PurchaseReceivingItem) : arrived = WithRow(t.arrived, line)
    <2>1. WithRow(t.arrived, line) \in Seq(PurchaseReceivingItem)
      BY <1>6, LineAdds
    <2> QED
      BY <2>1
  <1>19. PICK c \in BOOLEAN : c = Complete(t, item)
    BY <1>6 DEF Complete
  <1>20. PICK stage \in {"read", "commit"} : stage = IF t.next < Len(t.lines) THEN "read" ELSE "commit"
    OBVIOUS
  <1>21. PICK n \in Nat : n = t.next + 1 /\ (stage = "read" => n \in 1 .. Len(t.lines))
    <2>1. t.next \in 1 .. Len(t.lines) /\ Len(t.lines) \in Nat
      BY <1>3, DeliveryLines
    <2> QED
      BY <1>20, <2>1
  <1>22. PICK s : s = [t EXCEPT !.lots = lots2, !.stock = stock2, !.items = items, !.complete = c,
                                !.arrived = arrived, !.next = n, !.stage = stage]
    OBVIOUS
  <1>23. session' = [session EXCEPT ![r] = s] /\ UNCHANGED tables
    <2>1. s = [t EXCEPT
            !.lots[k] = LotAfter(t.lot, quantity),
            !.stock[p] = VisibleStock(t, p) + quantity,
            !.items[j] = item,
            !.complete = Complete(t, item),
            !.arrived = Append(@, line),
            !.next = @ + 1,
            !.stage = IF t.next < Len(t.lines) THEN "read" ELSE "commit"]
      BY <1>13, <1>14, <1>15, <1>16, <1>17, <1>18, <1>19, <1>20, <1>21, <1>22
         DEF VisibleStock, Seen, Changed, WithRow
    <2> QED
      BY <1>1, <1>4, <1>7, <1>8, <1>9, <1>11, <2>1 DEF WriteLine, Continue, Line
  <1>24. s \in PurchaseSession
    <2>1. stage \in {"read", "commit"} /\ n \in Nat /\ c \in BOOLEAN
          /\ lots2 \in [LotKeys -> Nat \cup {None}] /\ stock2 \in [Products -> Nat \cup {None}]
          /\ items \in Seq(PurchaseOrderItem) /\ arrived \in Seq(PurchaseReceivingItem)
      OBVIOUS
    <2> QED
      BY <1>3, <1>22, <2>1 DEF PurchaseSession
  <1>25. /\ s.stage = stage /\ s.number = t.number /\ s.order = t.order /\ s.edition = t.edition
         /\ s.lines = t.lines /\ s.lots = lots2 /\ s.stock = stock2 /\ s.items = items
         /\ s.arrived = arrived /\ s.next = n
    BY <1>3, <1>22 DEF PurchaseSession
  <1>26. Accounts(s, purchase_orders, lots, stock)
    <2>1. purchase_orders[s.order].items \in Seq(PurchaseOrderItem)
      BY <1>3, <1>25, RowsTyped DEF Of
    <2>2. /\ s.lots = [t.lots EXCEPT ![k] = LotAfter(t.lot, quantity)]
          /\ s.stock = [t.stock EXCEPT ![p] = Seen(t.stock[p], stock[p]) + quantity]
      BY <1>13, <1>14, <1>15, <1>16, <1>25
    <2>3. /\ s.items = Changed(t.items, j, item) /\ s.arrived = WithRow(t.arrived, line)
          /\ s.order = t.order /\ s.edition = t.edition
      BY <1>17, <1>18, <1>25
    <2>4. /\ p = t.items[j].product /\ t.lot = Seen(t.lots[k], lots[k])
          /\ item = [t.items[j] EXCEPT !.received = @ + quantity]
          /\ line = [product |-> p, quantity |-> quantity, lot |-> lot]
      BY <1>3, <1>4, <1>7, <1>8, <1>9, <1>11
    <2>5. LineWritten(t, s, lots, stock, j, quantity, lot, p, k, item, line)
      BY <1>10, <2>2, <2>3, <2>4 DEF LineWritten
    <2> QED
      BY <1>3, <1>5, <1>10, <1>12, <1>24, <2>1, <2>5, LineBooked
  <1>27. Of(s, purchase_orders)
    BY <1>3, <1>25 DEF Of
  <1>28. Knows(s, purchase_orders, receivings, lots, stock)
    BY <1>3, <1>20, <1>21, <1>25, <1>26, <1>27 DEF Knows, Writing
  <1>29. Serial => KnowsAlone(s, purchase_orders)
    BY <1>3, <1>20, <1>25 DEF KnowsAlone, Writing
  <1> QED
    BY <1>3, <1>23, <1>24, <1>28, <1>29, SessionMoves
\* A delivery commits its receiving, its lots, its stock and the items of its order.
LEMMA CommitReceivingStep ==
    ASSUME PurchasesInv, NEW r \in Requests, CommitReceiving(r),
           workload' = workload, Alone', Allowed'
    PROVE  PurchasesInv'
  <1>1. PICK s : s = session[r]
    OBVIOUS
  <1>2. s.stage = "commit" /\ s.stage \in Writing
    BY <1>1 DEF CommitReceiving, Writing
  <1>3. /\ s \in PurchaseSession /\ Of(s, purchase_orders)
        /\ s.number = Len(receivings) + 1
        /\ Accounts(s, purchase_orders, lots, stock)
        /\ \A q \in Requests \ {r} : session[q].stage \notin Writing
    BY <1>1, <1>2, InReceipt
  <1>4. CASE Fail(r)
    BY <1>4, GiveUpStep
  <1>5. CASE ~Fail(r)
    <2>1. PICK i : i = s.order
      OBVIOUS
    <2>2. PICK po : po = purchase_orders[i]
      OBVIOUS
    <2>3. i \in DOMAIN purchase_orders /\ OrderTyped(po) /\ po.number = i /\ i \in Nat
      BY <1>3, <2>1, <2>2, RowsTyped DEF Of, PurchasesInv, PurchaseTables
    <2>4. PICK status : status = IF s.complete THEN "received" ELSE "partially_received"
      OBVIOUS
    <2>5. PICK row : row = [po EXCEPT !.items = s.items, !.status = status]
      OBVIOUS
    <2>6. PICK done : done = [number |-> s.number, order |-> i, items |-> s.arrived]
      OBVIOUS
    <2>7. PICK lots2 : lots2 = [k \in LotKeys |-> Seen(s.lots[k], lots[k])]
      OBVIOUS
    <2>8. PICK stock2 : stock2 = [p \in Products |-> Seen(s.stock[p], stock[p])]
      OBVIOUS
    <2>9. PICK ended : ended = [IdleSession EXCEPT !.handler = "receive", !.stage = "failed",
                                                   !.committed = TRUE]
      OBVIOUS
    <2>10. /\ po.edition = s.edition /\ \A n \in DOMAIN s.items : ItemChecks(s.items[n])
           /\ purchase_orders' = Changed(purchase_orders, i, row)
           /\ receivings' = WithRow(receivings, done)
           /\ lots' = lots2 /\ stock' = stock2
           /\ session' = [session EXCEPT ![r] = ended]
      BY <1>1, <1>5, <2>1, <2>2, <2>4, <2>5, <2>6, <2>7, <2>8, <2>9
         DEF CommitReceiving, VisibleLot, VisibleStock, Seen, Changed, WithRow
    <2>11. /\ s.items \in Seq(PurchaseOrderItem) /\ s.arrived \in Seq(PurchaseReceivingItem)
           /\ s.number \in Nat
           /\ s.lots \in [LotKeys -> Nat \cup {None}] /\ s.stock \in [Products -> Nat \cup {None}]
      BY <1>3 DEF PurchaseSession
    <2>12. PICK N \in Nat : N = Len(receivings)
      BY RowsTyped
    <2>13. PICK new, more : new = purchase_orders' /\ more = receivings'
      OBVIOUS
    <2>14. IsTable(purchase_orders) /\ IsTable(receivings)
      BY DEF PurchasesInv, PurchaseTables
    <2>15. /\ IsTable(new) /\ Len(new) = Len(purchase_orders) /\ DOMAIN new = DOMAIN purchase_orders
           /\ \A k \in DOMAIN new : k # i => new[k] = purchase_orders[k]
           /\ new[i] = row
      <3>1. new = Changed(purchase_orders, i, row)
        BY <2>10, <2>13
      <3>2. /\ IsTable(new) /\ Len(new) = Len(purchase_orders) /\ DOMAIN new = DOMAIN purchase_orders
            /\ \A k \in DOMAIN purchase_orders : new[k] = IF k = i THEN row ELSE purchase_orders[k]
        BY <2>14, <3>1, ChangeRow
      <3> QED
        BY <2>3, <3>2
    <2>16. /\ IsTable(more) /\ Len(more) = N + 1
           /\ DOMAIN receivings = 1 .. N /\ DOMAIN more = 1 .. N + 1
           /\ \A n \in 1 .. N : more[n] = receivings[n]
           /\ more[N + 1] = done
      <3>1. more = WithRow(receivings, done)
        BY <2>10, <2>13
      <3> QED
        BY <2>12, <2>14, <3>1, AppendRow
    <2>17. /\ row.number = po.number /\ row.edition = po.edition /\ row.total = po.total
           /\ row.items = s.items /\ row.status = status /\ OrderTyped(row)
      <3>1. po \in PurchaseOrder
        BY <2>3 DEF OrderTyped
      <3>2. status \in {"received", "partially_received"}
        BY <2>4
      <3>3. /\ row.number = po.number /\ row.edition = po.edition /\ row.total = po.total
            /\ row.items = s.items /\ row.status = status /\ row \in PurchaseOrder
        BY <2>5, <2>11, <3>1, <3>2 DEF PurchaseOrder
      <3> QED
        BY <2>10, <3>3 DEF OrderTyped
    <2>18. done \in PurchaseReceiving /\ done.number = N + 1 /\ done.order = i /\ done.items = s.arrived
      BY <1>3, <2>3, <2>6, <2>11, <2>12 DEF PurchaseReceiving
    <2>19. /\ \A k \in LotKeys : lots[k] \in Nat \cup {None}
           /\ \A p \in Products : stock[p] \in Nat
      BY DEF PurchasesInv, PurchaseTables
    <2>20. PurchaseTables'
      <3>1. \A k \in DOMAIN new : OrderTyped(new[k]) /\ new[k].number = k
        <4>1. \A k \in DOMAIN new : k # i => OrderTyped(new[k]) /\ new[k].number = k
          BY <2>15 DEF PurchasesInv, PurchaseTables
        <4> QED
          BY <2>3, <2>15, <2>17, <4>1
      <3>2. ASSUME NEW n \in 1 .. N + 1
            PROVE  more[n] \in PurchaseReceiving /\ more[n].number = n /\ more[n].order \in DOMAIN new
        <4>1. CASE n \in 1 .. N
          BY <2>15, <2>16, <4>1 DEF PurchasesInv, PurchaseTables
        <4>2. CASE n = N + 1
          BY <2>3, <2>15, <2>16, <2>18, <4>2
        <4> QED
          BY <4>1, <4>2
      <3>3. lots2 \in [LotKeys -> Nat \cup {None}]
        <4>1. \A k \in LotKeys : lots2[k] \in Nat \cup {None}
          BY <2>7, <2>11, <2>19 DEF Seen
        <4> QED
          BY <2>7, <4>1
      <3>4. stock2 \in [Products -> Nat]
        <4>1. \A p \in Products : stock2[p] \in Nat
          BY <2>8, <2>11, <2>19 DEF Seen
        <4> QED
          BY <2>8, <4>1
      <3> QED
        BY <2>10, <2>13, <2>15, <2>16, <3>1, <3>2, <3>3, <3>4 DEF PurchaseTables
    <2>21. /\ \A k : BroughtInto(more, k) = BroughtInto(receivings, k) + IntoLot(s.arrived, k)
           /\ \A p : Brought(more, p) = Brought(receivings, p) + OfProduct(s.arrived, p)
           /\ \A k, p : BookedIn(more, k, p) = BookedIn(receivings, k, p)
                          + IF i = k THEN OfProduct(s.arrived, p) ELSE 0
      <3>1. more = WithRow(receivings, done) /\ done.items = s.arrived /\ done.order = i
        BY <2>10, <2>13, <2>18
      <3> QED
        BY <2>14, <3>1, DeliveryAdds
    <2>22. ASSUME NEW k \in LotKeys
           PROVE  Bottles(lots2[k]) = BroughtInto(more, k)
      <3>1. Bottles(lots[k]) = BroughtInto(receivings, k)
        BY DEF PurchasesInv, PurchaseBooks
      <3>2. Bottles(Seen(s.lots[k], lots[k])) = Bottles(lots[k]) + IntoLot(s.arrived, k)
        BY <1>3 DEF Accounts
      <3>3. lots2[k] = Seen(s.lots[k], lots[k])
        BY <2>7
      <3> QED
        BY <2>21, <3>1, <3>2, <3>3
    <2>23. ASSUME NEW p \in Products
           PROVE  stock2[p] = Brought(more, p)
      <3>1. stock[p] = Brought(receivings, p)
        BY DEF PurchasesInv, PurchaseBooks
      <3>2. Seen(s.stock[p], stock[p]) = stock[p] + OfProduct(s.arrived, p)
        BY <1>3 DEF Accounts
      <3>3. stock2[p] = Seen(s.stock[p], stock[p])
        BY <2>8
      <3> QED
        BY <2>21, <3>1, <3>2, <3>3
    <2>24. /\ AsRead(s.items, po.items)
           /\ \A p \in Products : ReceivedOf(s.items, p) =
                                    ReceivedOf(po.items, p) + OfProduct(s.arrived, p)
      BY <1>3, <2>1, <2>2, <2>10 DEF Accounts
    <2>25. ASSUME Calm, NEW k \in DOMAIN new, NEW p \in Products
           PROVE  BookedIn(more, k, p) = ReceivedOf(new[k].items, p)
      <3>1. BookedIn(receivings, k, p) = ReceivedOf(purchase_orders[k].items, p)
        BY <2>15, <2>25 DEF PurchasesInv, PurchaseBooks
      <3>2. purchase_orders[k].items \in Seq(PurchaseOrderItem)
        BY <2>15, RowsTyped
      <3>3. ReceivedOf(purchase_orders[k].items, p) \in Nat
        BY <3>2, ReceivedIsNatural
      <3>4. BookedIn(more, k, p) = BookedIn(receivings, k, p)
              + IF i = k THEN OfProduct(s.arrived, p) ELSE 0
        BY <2>21
      <3>5. CASE k = i
        BY <2>2, <2>15, <2>17, <2>24, <3>1, <3>4, <3>5
      <3>6. CASE k # i
        <4>1. BookedIn(more, k, p) = BookedIn(receivings, k, p) + 0
          BY <3>4, <3>6
        <4> QED
          BY <2>15, <3>1, <3>3, <3>6, <4>1
      <3> QED
        BY <3>5, <3>6
    <2>26. ASSUME Serial, NEW k \in DOMAIN new
           PROVE  new[k].total = Total(new[k].items)
      <3>1. purchase_orders[k].total = Total(purchase_orders[k].items)
        BY <2>15, <2>26 DEF PurchasesInv, PurchaseBooks
      <3>2. CASE k # i
        BY <2>15, <3>1, <3>2
      <3>3. CASE k = i
        <4>1. Total(s.items) = Total(po.items)
          BY <2>24, SameTotal DEF AsRead
        <4> QED
          BY <2>2, <2>15, <2>17, <3>1, <3>3, <4>1
      <3> QED
        BY <3>2, <3>3
    <2>27. ASSUME Serial, NEW n \in 1 .. N + 1
           PROVE  new[more[n].order].status \in {"partially_received", "received"}
      <3>1. new[i].status \in {"partially_received", "received"}
        BY <2>4, <2>15, <2>17
      <3>2. CASE n = N + 1
        BY <2>16, <2>18, <3>1, <3>2
      <3>3. CASE n \in 1 .. N
        <4>1. /\ purchase_orders[receivings[n].order].status \in {"partially_received", "received"}
              /\ receivings[n].order \in DOMAIN new
          BY <2>15, <2>16, <2>27, <3>3 DEF PurchasesInv, PurchaseBooks, PurchaseTables
        <4> QED
          BY <2>15, <2>16, <3>1, <3>3, <4>1
      <3> QED
        BY <3>2, <3>3
    <2>28. PurchaseBooks'
      <3>1. Calm' = Calm /\ Serial' = Serial
        BY DEF Calm, Serial
      <3> QED
        BY <2>10, <2>13, <2>16, <2>22, <2>23, <2>25, <2>26, <2>27, <3>1 DEF PurchaseBooks
    <2>29. ASSUME NEW q \in Requests \ {r}
           PROVE  Knows(session[q], new, more, lots2, stock2)
      <3>1. /\ session[q] \in PurchaseSession
            /\ Knows(session[q], purchase_orders, receivings, lots, stock)
            /\ session[q].stage \notin Writing
        BY <1>3, RowsTyped
      <3>2. Onward(purchase_orders, new)
        <4>1. Len(purchase_orders) \in Nat
              /\ \A k \in DOMAIN purchase_orders : purchase_orders[k].edition \in Nat
          BY RowsTyped
        <4>2. \A k \in DOMAIN purchase_orders : new[k].edition = purchase_orders[k].edition
          BY <2>2, <2>15, <2>17
        <4> QED
          BY <2>15, <4>1, <4>2 DEF Onward
      <3>3. Len(receivings) \in Nat /\ Len(more) \in Nat /\ Len(receivings) <= Len(more)
        BY <2>12, <2>16
      <3> QED
        BY <3>1, <3>2, <3>3, StillKnows
    <2>30. ended \in PurchaseSession /\ ended.stage = "failed"
      BY <2>9, IdleIsTyped DEF PurchaseSession
    <2> QED
      BY <1>1, <1>2, <2>10, <2>13, <2>20, <2>28, <2>29, <2>30, SessionEnds
  <1> QED
    BY <1>4, <1>5
-----------------------------------------------------------------------------
\* The component, in the module that runs it.

\* Within a workload of one request at a time no two requests are in flight.
LEMMA WithinAlone ==
    ASSUME NEW sessions, Within(sessions)
    PROVE  /\ workload' = workload
           /\ \A r \in Requests : sessions[r].stage # "idle" =>
                sessions[r].handler \in workload.handlers
           /\ Serial => \A r, q \in Requests :
                sessions[r].stage # "idle" /\ sessions[q].stage # "idle" => r = q
  <1>1. PICK inFlight : inFlight = {r \in Requests : sessions[r].stage # "idle"}
    OBVIOUS
  <1>2. /\ Cardinality(inFlight) <= workload.width /\ workload' = workload
        /\ \A r \in inFlight : sessions[r].handler \in workload.handlers
    BY <1>1 DEF Within
  <1>3. inFlight \in SUBSET Requests /\ IsFiniteSet(inFlight)
    BY <1>1, RequestsAreFinite, FS_Subset
  <1>4. ASSUME Serial, NEW r \in inFlight, NEW q \in inFlight
        PROVE  r = q
    BY <1>2, <1>3, <1>4, NoTwo DEF Serial
  <1> QED
    BY <1>1, <1>2, <1>4

\* At the start there are no orders, no deliveries and no bottles.
LEMMA PurchasesStart ==
    MCInit => PurchasesInv
  <1> SUFFICES ASSUME MCInit PROVE PurchasesInv
    OBVIOUS
  <1>1. Init
    BY DEF MCInit
  <1>2. /\ IsTable(purchase_orders) /\ IsTable(receivings) /\ DOMAIN purchase_orders = {}
        /\ DOMAIN receivings = {} /\ purchase_orders = <<>> /\ receivings = <<>>
    BY <1>1, EmptyTable DEF Init
  <1>3. PICK zero : zero = 0
    OBVIOUS
  <1>4. /\ lots = [k \in LotKeys |-> None] /\ stock = [p \in Products |-> zero]
        /\ session = [r \in Requests |-> IdleSession]
    BY <1>1, <1>3 DEF Init
  <1>5. PurchaseTables
    BY <1>2, <1>3, <1>4 DEF PurchaseTables
  <1>6. PurchaseBooks
    <2>1. \A k : BroughtInto(receivings, k) = 0
      <3>1. ASSUME NEW k
            PROVE  BroughtInto(receivings, k) = 0
        <4>1. PICK v : v = [n \in DOMAIN receivings |-> IntoLot(receivings[n].items, k)]
          OBVIOUS
        <4>2. v = [n \in 1 .. 0 |-> v[n]] /\ \A n \in 1 .. 0 : v[n] = 0
          BY <1>2, <4>1
        <4>3. SumOf(v) = 0
          BY <4>2, ColumnSumZero
        <4> QED
          BY <4>1, <4>3 DEF BroughtInto
      <3> QED
        BY <3>1
    <2>2. \A p : Brought(receivings, p) = 0
      <3>1. ASSUME NEW p
            PROVE  Brought(receivings, p) = 0
        <4>1. PICK v : v = [n \in DOMAIN receivings |-> OfProduct(receivings[n].items, p)]
          OBVIOUS
        <4>2. v = [n \in 1 .. 0 |-> v[n]] /\ \A n \in 1 .. 0 : v[n] = 0
          BY <1>2, <4>1
        <4>3. SumOf(v) = 0
          BY <4>2, ColumnSumZero
        <4> QED
          BY <4>1, <4>3 DEF Brought
      <3> QED
        BY <3>1
    <2>3. /\ \A k \in LotKeys : Bottles(lots[k]) = 0
          /\ \A p \in Products : stock[p] = 0
      BY <1>3, <1>4 DEF Bottles
    <2> QED
      BY <1>2, <2>1, <2>2, <2>3 DEF PurchaseBooks
  <1>7. \A r \in Requests : session[r] = IdleSession /\ session[r].stage = "idle"
    BY <1>4, IdleIsTyped
  <1>8. PurchaseSessions
    <2>1. session = [r \in Requests |-> session[r]]
      BY <1>4
    <2>2. ASSUME NEW r \in Requests
          PROVE  /\ session[r] \in PurchaseSession
                 /\ Knows(session[r], purchase_orders, receivings, lots, stock)
                 /\ KnowsAlone(session[r], purchase_orders)
      BY <1>7, IdleIsTyped, NothingToKnow
    <2>3. DeliveriesExclusive
      BY <1>7 DEF DeliveriesExclusive, Inserted
    <2> QED
      BY <2>1, <2>2, <2>3 DEF PurchaseSessions
  <1> QED
    BY <1>5, <1>6, <1>7, <1>8 DEF PurchasesInv, Alone, Allowed

\* A request of this component, within the workload.
PurchaseStep == Next /\ Within(session')

\* Every step keeps the invariant.
LEMMA PurchasesStep ==
    ASSUME PurchasesInv, PurchaseStep
    PROVE  PurchasesInv'
  <1>1. workload' = workload /\ Alone' /\ Allowed'
    <2>1. /\ workload' = workload
          /\ \A r \in Requests : session'[r].stage # "idle" => session'[r].handler \in workload.handlers
          /\ Serial => \A r, q \in Requests :
                session'[r].stage # "idle" /\ session'[q].stage # "idle" => r = q
      BY WithinAlone DEF PurchaseStep
    <2>2. Serial' = Serial
      BY <2>1 DEF Serial
    <2> QED
      BY <2>1, <2>2 DEF Alone, Allowed
  <1>2. PICK r \in Requests : BeginSome(r) \/ Step(r) \/ Rollback(r)
    BY DEF PurchaseStep, Next
  <1>3. CASE BeginSome(r)
    BY <1>1, <1>3, BeginSomeStep
  <1>4. CASE Rollback(r)
    BY <1>1, <1>4, GiveUpStep
  <1>5. CASE InsertOrder(r)
    BY <1>1, <1>5, InsertOrderStep
  <1>6. CASE WriteDraft(r)
    BY <1>1, <1>6, WriteDraftStep
  <1>7. CASE CountReceivings(r)
    BY <1>1, <1>7, CountReceivingsStep
  <1>8. CASE InsertReceiving(r)
    BY <1>1, <1>8, InsertReceivingStep
  <1>9. CASE ReadLine(r)
    BY <1>1, <1>9, ReadLineStep
  <1>10. CASE WriteLine(r)
    BY <1>1, <1>10, WriteLineStep
  <1>11. CASE CommitReceiving(r)
    BY <1>1, <1>11, CommitReceivingStep
  <1> QED
    BY <1>2, <1>3, <1>4, <1>5, <1>6, <1>7, <1>8, <1>9, <1>10, <1>11 DEF Step

\* The steps of the other components leave purchases alone.
LEMMA OthersLeavePurchases ==
    MCNext => PurchaseStep \/ UNCHANGED <<tables, session, workload>>
  BY DEF MCNext, PurchaseStep, Within, vars

\* The invariant does not speak of anything else.
LEMMA PurchasesStay ==
    PurchasesInv /\ UNCHANGED <<tables, session, workload>> => PurchasesInv'
  <1> SUFFICES ASSUME PurchasesInv, UNCHANGED <<tables, session, workload>>
               PROVE  PurchasesInv'
    OBVIOUS
  <1>1. /\ purchase_orders' = purchase_orders /\ receivings' = receivings
        /\ lots' = lots /\ stock' = stock /\ session' = session /\ workload' = workload
    BY DEF tables
  <1>2. PurchaseTables'
    BY <1>1 DEF PurchasesInv, PurchaseTables
  <1>3. PurchaseBooks'
    BY <1>1 DEF PurchasesInv, PurchaseBooks, Calm, Serial
  <1>4. PurchaseSessions'
    BY <1>1 DEF PurchasesInv, PurchaseSessions, Serial, DeliveriesExclusive, Inserted
  <1>5. Alone' /\ Allowed'
    BY <1>1 DEF PurchasesInv, Alone, Allowed, Serial
  <1> QED
    BY <1>2, <1>3, <1>4, <1>5 DEF PurchasesInv

\* The invariant of purchase orders and deliveries.
LEMMA PurchasesInvariant ==
    MCSpec => []PurchasesInv
  <1>1. MCInit => PurchasesInv
    BY PurchasesStart
  <1>2. PurchasesInv /\ [MCNext]_<<vars, Other, Paperwork, workload>> => PurchasesInv'
    <2> SUFFICES ASSUME PurchasesInv, [MCNext]_<<vars, Other, Paperwork, workload>>
                 PROVE  PurchasesInv'
      OBVIOUS
    <2>1. CASE UNCHANGED <<vars, Other, Paperwork, workload>>
      BY <2>1, PurchasesStay DEF vars
    <2>2. CASE MCNext
      BY <2>2, OthersLeavePurchases, PurchasesStay, PurchasesStep
    <2> QED
      BY <2>1, <2>2
  <1> QED
    BY <1>1, <1>2, PTL DEF MCSpec

(* For any clerks, orders, item lists, lots and workloads: deliveries never  *)
(* overlap between their first write and their commit, lots and stock are    *)
(* what the deliveries brought, the items of an order say what its           *)
(* deliveries brought unless updates overlap other requests, and its total   *)
(* is that of its items, one request at a time.                              *)
THEOREM GoodsAreBooked ==
    MCSpec => []PurchasesMatchDeliveries
  BY BooksAgree, PurchasesInvariant, PTL

\* One request at a time, an order that is no draft keeps its items and a closed one everything.
LEMMA ApprovedKeepsStep ==
    PurchasesInv /\ [MCNext]_<<vars, Other, Paperwork, workload>> => [Serial => ApprovedStep]_vars
  <1> SUFFICES ASSUME PurchasesInv, MCNext, Serial
               PROVE  ApprovedStep \/ UNCHANGED vars
    BY DEF vars
  <1>1. CASE purchase_orders' = purchase_orders
    <2>1. \A i \in DOMAIN purchase_orders : purchase_orders[i].status \in
            {"draft", "approved", "partially_received", "received", "cancelled"}
      BY DEF PurchasesInv, PurchaseTables, OrderTyped, PurchaseOrder
    <2> QED
      BY <1>1, <2>1 DEF ApprovedStep
  <1>2. CASE purchase_orders' # purchase_orders
    <2>1. PurchaseStep
      BY <1>2, OthersLeavePurchases DEF tables
    <2>2. PICK r \in Requests : InsertOrder(r) \/ WriteDraft(r) \/ CommitReceiving(r)
      <3>1. PICK r \in Requests : BeginSome(r) \/ Step(r) \/ Rollback(r)
        BY <2>1 DEF PurchaseStep, Next
      <3>2. ~BeginSome(r)
        BY <1>2 DEF BeginSome, CountOrders, LoadDraft, LoadForReceipt, Begin, tables
      <3>3. ~Rollback(r)
        BY <1>2 DEF Rollback, Continue, tables
      <3>4. ~CountReceivings(r) /\ ~InsertReceiving(r)
        BY <1>2 DEF CountReceivings, InsertReceiving, Fail, Continue, tables
      <3>5. ~ReadLine(r)
        BY <1>2 DEF ReadLine, Fail, Continue, tables
      <3>6. ~WriteLine(r)
        BY <1>2 DEF WriteLine, Continue, tables
      <3> QED
        BY <3>1, <3>2, <3>3, <3>4, <3>5, <3>6 DEF Step
    <2>3. PICK s : s = session[r]
      OBVIOUS
    <2>4. s \in PurchaseSession /\ Knows(s, purchase_orders, receivings, lots, stock)
          /\ KnowsAlone(s, purchase_orders)
      BY <2>3, RowsTyped
    <2>5. IsTable(purchase_orders) /\ ~Fail(r)
      BY <1>2 DEF PurchasesInv, PurchaseTables, Fail, Continue, tables
    <2>6. CASE InsertOrder(r)
      <3>1. PICK row : purchase_orders' = WithRow(purchase_orders, row)
        BY <2>5, <2>6 DEF InsertOrder, WithRow
      <3>2. PICK new : new = purchase_orders'
        OBVIOUS
      <3>3. \A i \in DOMAIN purchase_orders : new[i] = purchase_orders[i]
        BY <2>5, <3>1, <3>2, AppendRow
      <3>4. \A i \in DOMAIN purchase_orders : purchase_orders'[i] = purchase_orders[i]
        BY <3>2, <3>3
      <3> QED
        BY <3>4 DEF ApprovedStep
    <2>7. CASE WriteDraft(r)
      <3>1. PICK i, po : i = s.order /\ po = purchase_orders[i]
        OBVIOUS
      <3>2. s.stage = "write draft"
        BY <2>3, <2>7 DEF WriteDraft
      <3>3. /\ i \in DOMAIN purchase_orders /\ s.handler \in Draft /\ po.status = "draft"
            /\ (s.handler = "update" => s.lines \in ItemLists)
        BY <2>4, <3>1, <3>2 DEF Knows, KnowsAlone, Of
      <3>4. OrderTyped(po)
        BY <3>1, <3>3 DEF PurchasesInv, PurchaseTables
      <3>5. PICK row : row = Written(po, s)
        OBVIOUS
      <3>6. row.status \in {po.status, "approved", "cancelled"}
        BY <2>4, <3>3, <3>4, <3>5, DraftWritten
      <3>7. PICK new : new = purchase_orders'
        OBVIOUS
      <3>8. new = Changed(purchase_orders, i, row)
        BY <2>3, <2>7, <3>1, <3>5, <3>7 DEF WriteDraft, Changed, Written
      <3>9. \A k \in DOMAIN purchase_orders : new[k] = IF k = i THEN row ELSE purchase_orders[k]
        BY <2>5, <3>8, ChangeRow
      <3>10. ASSUME NEW k \in DOMAIN purchase_orders
             PROVE  \/ new[k] = purchase_orders[k]
                    \/ /\ purchase_orders[k].status = "draft"
                       /\ new[k].status \in {"draft", "approved", "cancelled"}
        BY <3>1, <3>3, <3>6, <3>9
      <3> QED
        BY <3>7, <3>10 DEF ApprovedStep
    <2>8. CASE CommitReceiving(r)
      <3>1. PICK i, po : i = s.order /\ po = purchase_orders[i]
        OBVIOUS
      <3>2. s.stage = "commit"
        BY <2>3, <2>8 DEF CommitReceiving
      <3>3. i \in DOMAIN purchase_orders /\ po.status \in Receivable
        BY <2>4, <3>1, <3>2 DEF Knows, KnowsAlone, Of, Writing
      <3>4. OrderTyped(po)
        BY <3>1, <3>3 DEF PurchasesInv, PurchaseTables
      <3>5. PICK status : status = IF s.complete THEN "received" ELSE "partially_received"
        OBVIOUS
      <3>6. PICK row : row = [po EXCEPT !.items = s.items, !.status = status]
        OBVIOUS
      <3>7. row.edition = po.edition
        BY <3>4, <3>6 DEF OrderTyped, PurchaseOrder
      <3>8. PICK new : new = purchase_orders'
        OBVIOUS
      <3>9. new = Changed(purchase_orders, i, row)
        BY <2>3, <2>5, <2>8, <3>1, <3>5, <3>6, <3>8 DEF CommitReceiving, Changed
      <3>10. \A k \in DOMAIN purchase_orders : new[k] = IF k = i THEN row ELSE purchase_orders[k]
        BY <2>5, <3>9, ChangeRow
      <3>11. ASSUME NEW k \in DOMAIN purchase_orders
             PROVE  \/ new[k] = purchase_orders[k]
                    \/ /\ purchase_orders[k].status \in {"approved", "partially_received"}
                       /\ new[k].edition = purchase_orders[k].edition
        BY <3>1, <3>3, <3>7, <3>10 DEF Receivable
      <3> QED
        BY <3>8, <3>11 DEF ApprovedStep
    <2> QED
      BY <2>2, <2>6, <2>7, <2>8
  <1> QED
    BY <1>1, <1>2
\* The tables are typed and their numbers run 1, 2, 3, ...
LEMMA PurchasesTyped ==
    PurchasesInv /\ served \in 0 .. MaxServed => TypeOK /\ NumbersGapless
  BY DEF PurchasesInv, PurchaseTables, OrderTyped, ItemChecks, TypeOK, NumbersGapless
=============================================================================
