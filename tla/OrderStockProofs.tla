-------------------------- MODULE OrderStockProofs --------------------------
(***************************************************************************)
(* Theorems about OrderStock: what holds for every number of branches,     *)
(* products, keys and requests in flight.  The strengthening is what a     *)
(* transaction knows of the tables because of the locks it holds: a sale   *)
(* that has its number holds its branch's document sequence, and the       *)
(* number is the next one; a sale that has inserted its row holds its key, *)
(* and no order has it; an uncommitted quantity is under its row's lock.   *)
(***************************************************************************)
EXTENDS MCStockRequests, FiniteSetTheorems, Tables

\* Stages of a request that works on a line of its list.
LineStages == {"sequence", "insert", "read", "update"}

\* Stages of a sale that has its number, and of one that has inserted its order.
Numbered == {"insert", "read", "update", "commit"}
Inserted == {"read", "update", "commit"}

\* A session has its fields, of their types where a step depends on them.
Fields(s) ==
    s = [handler |-> s.handler, stage |-> s.stage, branch |-> s.branch, order |-> s.order,
         key |-> s.key, number |-> s.number, lines |-> s.lines, next |-> s.next,
         seen |-> s.seen, new |-> s.new, after |-> s.after,
         moved |-> s.moved, held |-> s.held, error |-> s.error]

Typed(s) ==
    /\ Fields(s)
    /\ s.handler \in Handlers \cup {None} /\ s.stage \in Stages
    /\ IF s.stage = "idle" THEN s.handler = None ELSE s.handler \in Handlers
    /\ s.branch \in Branches \cup {None}
    /\ s.number \in Nat /\ s.next \in Nat /\ s.seen \in Nat
    /\ s.key \in Keys \cup {None}
    /\ s.new \in [Rows -> Nat \cup {None}]
    /\ s.after \in [Rows -> Int \cup {None}]
    /\ s.moved \in [Rows -> Int]
    /\ s.error = None => \A row \in Rows : s.after[row] \in Nat \cup {None}

\* What a request may do next depends on its endpoint.
Placed(s) ==
    /\ s.stage \in LineStages =>
         /\ s.branch \in Branches
         /\ s.lines \in Lines
         /\ s.next \in 1 .. Len(s.lines)
    /\ s.stage = "sequence" => s.handler \in {"create", "return"}
    /\ s.stage = "insert" => s.handler = "create"
    /\ s.stage = "read" => s.handler \in {"create", "cancel", "return"}
    /\ s.stage = "update" => s.handler \in {"create", "cancel"}
    /\ s.stage = "write" => s.handler = "return"
    /\ s.handler = "create" /\ s.stage = "commit" =>
         s.branch \in Branches /\ s.lines \in Lines \ {<<>>}

HasNumber(s) ==
    s.handler = "create" /\ s.stage \in Numbered =>
        /\ <<"ORD", s.branch>> \in s.held
        /\ s.number = sequence[s.branch] + 1

HasKey(s) ==
    s.handler = "create" /\ s.stage \in Inserted /\ s.key # None =>
        /\ <<"key", s.key>> \in s.held
        /\ \A i \in DOMAIN orders : orders[i].key # s.key

\* A return computes its quantities first and locks their rows in the flush.
HoldsItsWrites(s) ==
    s.handler # "return" \/ s.stage = "commit" =>
        \A row \in Rows : s.new[row] # None => RowLock(row) \in s.held

\* A sale locks its branch's sequence, then its key, then rows of the branch.
LocksInOrder(s) ==
    s.handler = "create" =>
        /\ s.stage = "sequence" => s.held = {}
        /\ s.stage = "insert" => s.held = {<<"ORD", s.branch>>}
        /\ \A row \in Rows : RowLock(row) \in s.held =>
                row[1] = s.branch /\ <<"ORD", s.branch>> \in s.held

\* What a request other than a return writes is the committed quantity and its movements.
Books(s) ==
    s.handler # "return" =>
        \A row \in Rows : Visible(s, row) = on_hand[row] + s.moved[row]

HasOrder(s) == s.order \in 0 .. Len(orders)

Own(s) ==
    /\ Typed(s) /\ Placed(s) /\ HasOrder(s)
    /\ HasNumber(s) /\ HasKey(s)
    /\ HoldsItsWrites(s) /\ LocksInOrder(s) /\ Books(s)

Exclusive == \A r, q \in Requests : r # q => session[r].held \cap session[q].held = {}

\* No balance, and no quantity a movement records, is ever negative.
StockNeverNegative == on_hand \in [Rows -> Nat] /\ last_after \in [Rows -> Nat]

TablesOK ==
    /\ orders \in Seq(Order)
    /\ \A i \in DOMAIN orders : orders[i].lines # <<>>
    /\ sequence \in [Branches -> Nat]
    /\ ledger \in [Rows -> Int] /\ inbound \in [Rows -> Int]
    /\ StockNeverNegative

IInv ==
    /\ TablesOK
    /\ served \in 0 .. MaxServed
    /\ session = [r \in Requests |-> session[r]]
    /\ \A r \in Requests : Own(session[r])
    /\ Exclusive
    /\ NumbersGapless
    /\ OneOrderPerKey

-----------------------------------------------------------------------------
\* The constants: the day opens with no debt, and NULL is no quantity.
LEMMA ConstantsOK ==
    /\ Opening \in [Rows -> Nat] /\ MaxServed \in Nat
    /\ None \notin Int
  BY OrderStockAssumption

\* A step that changes one session only.
LEMMA Replace ==
    ASSUME IInv, NEW r \in Requests, NEW t,
           session' = [session EXCEPT ![r] = t], UNCHANGED tables,
           served' \in 0 .. MaxServed,
           Own(t),
           \A q \in Requests \ {r} : t.held \cap session[q].held = {}
    PROVE  IInv'
  <1>1. \A q \in Requests : session'[q] = IF q = r THEN t ELSE session[q]
    BY DEF IInv
  <1>2. TablesOK' /\ NumbersGapless' /\ OneOrderPerKey'
    BY DEF IInv, TablesOK, StockNeverNegative, NumbersGapless, OneOrderPerKey, tables
  <1>3. session' = [q \in Requests |-> session'[q]]
    BY DEF IInv
  <1>4. ASSUME NEW q \in Requests
        PROVE  Own(session[q])'
    <2> DEFINE u == session'[q]
    <2>1. Own(u)
      BY <1>1 DEF IInv
    <2>2. orders' = orders /\ sequence' = sequence /\ on_hand' = on_hand
      BY DEF tables
    <2>3. Typed(session[q])'
      BY <2>1 DEF Own, Typed, Fields
    <2>4. Placed(session[q])'
      BY <2>1 DEF Own, Placed
    <2>5. HasNumber(session[q])'
      BY <2>1, <2>2 DEF Own, HasNumber
    <2>6. HasKey(session[q])'
      BY <2>1, <2>2 DEF Own, HasKey
    <2>7. HoldsItsWrites(session[q])' /\ LocksInOrder(session[q])'
      BY <2>1 DEF Own, HoldsItsWrites, LocksInOrder
    <2>8. Books(session[q])' /\ HasOrder(session[q])'
      BY <2>1, <2>2 DEF Own, Books, HasOrder, Visible
    <2> QED
      BY <2>3, <2>4, <2>5, <2>6, <2>7, <2>8 DEF Own
  <1>5. Exclusive'
    BY <1>1 DEF IInv, Exclusive
  <1> QED
    BY <1>2, <1>3, <1>4, <1>5 DEF IInv

\* A statement that commits nothing changes one session.
LEMMA ContinuePreserves ==
    ASSUME IInv, NEW r \in Requests, NEW t, Continue(r, t), Own(t),
           \A q \in Requests \ {r} : t.held \cap session[q].held = {}
    PROVE  IInv'
  <1>1. session' = [session EXCEPT ![r] = t] /\ UNCHANGED tables /\ served' \in 0 .. MaxServed
    BY DEF Continue, IInv
  <1> QED
    BY <1>1, Replace

\* An idle session, and one that has just begun, hold nothing.
LEMMA IdleIsOwn ==
    ASSUME TablesOK
    PROVE  Own(IdleSession) /\ IdleSession.held = {}
  <1>1. Typed(IdleSession) /\ Placed(IdleSession)
    BY DEF Typed, Fields, Placed, IdleSession, LineStages, Stages
  <1>2. HasNumber(IdleSession) /\ HasKey(IdleSession)
    BY DEF HasNumber, HasKey, IdleSession, Numbered, Inserted
  <1>3. HoldsItsWrites(IdleSession) /\ LocksInOrder(IdleSession)
    BY DEF HoldsItsWrites, LocksInOrder, IdleSession
  <1>4. Books(IdleSession)
    BY DEF Books, Visible, IdleSession, TablesOK, StockNeverNegative
  <1>5. HasOrder(IdleSession)
    BY DEF HasOrder, IdleSession, TablesOK
  <1> QED
    BY <1>1, <1>2, <1>3, <1>4, <1>5 DEF Own, IdleSession

\* The day starts with no order, no lock and the opening stock.
LEMMA InitEstablishes == Init => IInv
  <1> SUFFICES ASSUME Init PROVE IInv
    OBVIOUS
  <1>1. TablesOK
    <2>1. orders = <<>> /\ orders \in Seq(Order) /\ DOMAIN orders = {}
      BY DEF Init
    <2>2. sequence \in [Branches -> Nat]
      BY DEF Init
    <2>3. StockNeverNegative /\ ledger \in [Rows -> Int] /\ inbound \in [Rows -> Int]
      BY ConstantsOK DEF Init, StockNeverNegative
    <2> QED
      BY <2>1, <2>2, <2>3 DEF TablesOK
  <1>2. \A r \in Requests : session[r] = IdleSession
    BY DEF Init
  <1>3. Exclusive /\ session = [r \in Requests |-> session[r]]
    BY <1>1, <1>2, IdleIsOwn DEF Exclusive, Init
  <1>4. NumbersGapless /\ OneOrderPerKey
    BY DEF Init, NumbersGapless, OneOrderPerKey
  <1>5. served \in 0 .. MaxServed
    BY ConstantsOK DEF Init
  <1> QED
    BY <1>1, <1>2, <1>3, <1>4, <1>5, IdleIsOwn DEF IInv

-----------------------------------------------------------------------------
\* Requests that begin.

\* A list that is not empty has a first element.
LEMMA NonEmpty ==
    ASSUME NEW X, NEW q \in Seq(X), q # <<>>
    PROVE  1 \in 1 .. Len(q)
  OBVIOUS

\* A request that has begun without a lock.
Fresh(s) ==
    /\ Fields(s)
    /\ s.held = {}
    /\ s.number = 0 /\ s.next = 1 /\ s.seen = 0
    /\ s.key \in Keys \cup {None}
    /\ s.new = [row \in Rows |-> None] /\ s.after = [row \in Rows |-> None]
    /\ s.moved = [row \in Rows |-> 0]
    /\ s.handler \in Handlers /\ s.branch \in Branches
    /\ Placed(s) /\ HasOrder(s)
    /\ s.stage \in {"sequence", "read", "failed"}
    /\ s.handler = "create" => s.stage = "sequence"

\* A session that has begun without a lock claims nothing yet.
LEMMA FreshIsOwn ==
    ASSUME IInv, NEW s, Fresh(s)
    PROVE  Own(s) /\ s.held = {}
  <1>1. Typed(s)
    BY DEF Fresh, Typed, Stages
  <1>2. HasNumber(s) /\ HasKey(s)
    BY DEF Fresh, HasNumber, HasKey, Numbered, Inserted
  <1>3. HoldsItsWrites(s) /\ LocksInOrder(s)
    BY DEF Fresh, HoldsItsWrites, LocksInOrder
  <1>4. Books(s)
    BY DEF Fresh, Books, Visible, IInv, TablesOK, StockNeverNegative
  <1> QED
    BY <1>1, <1>2, <1>3, <1>4 DEF Fresh, Own

\* Beginning such a session disturbs nobody.
LEMMA FreshPreserves ==
    ASSUME IInv, NEW r \in Requests, NEW t, NEW handler, Begin(r, handler, t),
           Fresh([t EXCEPT !.handler = handler])
    PROVE  IInv'
  <1>1. PICK s : s = [t EXCEPT !.handler = handler]
    OBVIOUS
  <1>2. session' = [session EXCEPT ![r] = s] /\ UNCHANGED tables /\ served' \in 0 .. MaxServed
    BY <1>1, ConstantsOK DEF Begin, IInv
  <1>3. Own(s) /\ s.held = {}
    BY <1>1, FreshIsOwn
  <1> QED
    BY <1>2, <1>3, Replace

\* The fields of a session that begins with an endpoint's arguments.
LEMMA BegunFields ==
    ASSUME NEW handler, NEW stage, NEW branch, NEW order, NEW key, NEW lines,
           NEW s, s = [handler |-> handler, stage |-> stage, branch |-> branch, order |-> order,
                       key |-> key, number |-> 0, lines |-> lines, next |-> 1, seen |-> 0,
                       new |-> [row \in Rows |-> None], after |-> [row \in Rows |-> None],
                       moved |-> [row \in Rows |-> 0],
                       held |-> {}, error |-> s.error],
           stage \in {"sequence", "read", "failed"},
           handler \in Handlers, branch \in Branches, order \in 0 .. Len(orders),
           stage # "failed" => lines \in Lines /\ 1 \in 1 .. Len(lines),
           stage = "sequence" => handler \in {"create", "return"},
           stage = "read" => handler = "cancel",
           handler = "create" => stage = "sequence",
           key \in Keys \cup {None}
    PROVE  Fresh(s)
  <1>1. Placed(s) /\ HasOrder(s)
    BY DEF Placed, LineStages, HasOrder
  <1> QED
    BY <1>1 DEF Fresh, Fields

\* create_order begins with the list and the key of its client.
LEMMA BeginCreatePreserves ==
    ASSUME IInv, NEW r \in Requests, NEW b \in Branches, NEW key \in Keys \cup {None},
           NEW cart \in Carts, BeginCreate(r, b, key, cart)
    PROVE  IInv'
  <1>1. PICK t : t = [IdleSession EXCEPT !.stage = "sequence", !.branch = b,
                                         !.key = key, !.lines = cart]
    OBVIOUS
  <1>2. Begin(r, "create", t)
    BY <1>1 DEF BeginCreate
  <1>3. cart \in Lines /\ 1 \in 1 .. Len(cart)
    BY OrderStockAssumption, NonEmpty DEF Lines
  <1>4. PICK s : s = [t EXCEPT !.handler = "create"]
    OBVIOUS
  <1>5. s = [handler |-> "create", stage |-> "sequence", branch |-> b, order |-> 0,
             key |-> key, number |-> 0, lines |-> cart, next |-> 1, seen |-> 0,
             new |-> [row \in Rows |-> None], after |-> [row \in Rows |-> None],
             moved |-> [row \in Rows |-> 0],
             held |-> {}, error |-> None]
    BY <1>1, <1>4 DEF IdleSession
  <1>6. Fresh(s)
    <2>1. "create" \in Handlers /\ 0 \in 0 .. Len(orders)
      BY <1>2 DEF Begin, IInv, TablesOK
    <2> QED
      BY <1>3, <1>5, <2>1, BegunFields
  <1> QED
    BY <1>2, <1>4, <1>6, FreshPreserves

\* cancel_order begins with the lines of an order, which has some.
LEMMA BeginCancelPreserves ==
    ASSUME IInv, NEW r \in Requests, NEW i \in DOMAIN orders, BeginCancel(r, i)
    PROVE  IInv'
  <1>1. PICK t : t = [IdleSession EXCEPT !.stage = "read", !.order = i,
                                         !.branch = orders[i].branch, !.lines = orders[i].lines]
    OBVIOUS
  <1>2. Begin(r, "cancel", t)
    BY <1>1 DEF BeginCancel
  <1>3. orders[i] \in Order /\ orders[i].lines # <<>>
    BY DEF IInv, TablesOK
  <1>4. orders[i].branch \in Branches /\ orders[i].lines \in Lines
    BY <1>3 DEF Order
  <1>5. 1 \in 1 .. Len(orders[i].lines)
    BY <1>3, <1>4, NonEmpty DEF Lines
  <1>6. PICK s : s = [t EXCEPT !.handler = "cancel"]
    OBVIOUS
  <1>7. s = [handler |-> "cancel", stage |-> "read", branch |-> orders[i].branch, order |-> i,
             key |-> None, number |-> 0, lines |-> orders[i].lines, next |-> 1, seen |-> 0,
             new |-> [row \in Rows |-> None], after |-> [row \in Rows |-> None],
             moved |-> [row \in Rows |-> 0],
             held |-> {}, error |-> None]
    BY <1>1, <1>6 DEF IdleSession
  <1>8. Fresh(s)
    <2>1. "cancel" \in Handlers /\ i \in 0 .. Len(orders)
      BY <1>2 DEF Begin, IInv, TablesOK
    <2> QED
      BY <1>4, <1>5, <1>7, <2>1, BegunFields
  <1> QED
    BY <1>2, <1>6, <1>8, FreshPreserves

\* create_return begins with the list of its client.
LEMMA BeginReturnPreserves ==
    ASSUME IInv, NEW r \in Requests, NEW i \in DOMAIN orders, NEW b \in Branches,
           NEW cart \in Carts, BeginReturn(r, i, b, cart)
    PROVE  IInv'
  <1>1. PICK t : t = [IdleSession EXCEPT !.stage = "sequence", !.order = i,
                                         !.branch = b, !.lines = cart]
    OBVIOUS
  <1>2. Begin(r, "return", t)
    BY <1>1 DEF BeginReturn
  <1>3. cart \in Lines /\ 1 \in 1 .. Len(cart)
    BY OrderStockAssumption, NonEmpty DEF Lines
  <1>4. PICK s : s = [t EXCEPT !.handler = "return"]
    OBVIOUS
  <1>5. s = [handler |-> "return", stage |-> "sequence", branch |-> b, order |-> i,
             key |-> None, number |-> 0, lines |-> cart, next |-> 1, seen |-> 0,
             new |-> [row \in Rows |-> None], after |-> [row \in Rows |-> None],
             moved |-> [row \in Rows |-> 0],
             held |-> {}, error |-> None]
    BY <1>1, <1>4 DEF IdleSession
  <1>6. Fresh(s)
    <2>1. "return" \in Handlers /\ i \in 0 .. Len(orders)
      BY <1>2 DEF Begin, IInv, TablesOK
    <2> QED
      BY <1>3, <1>5, <2>1, BegunFields
  <1> QED
    BY <1>2, <1>4, <1>6, FreshPreserves

\* adjust_inventory takes its row lock as it begins.
LEMMA BeginAdjustPreserves ==
    ASSUME IInv, NEW r \in Requests, NEW b \in Branches, NEW p \in Products,
           NEW n \in Amounts, BeginAdjust(r, b, p, n)
    PROVE  IInv'
  <1>1. PICK row \in Rows : row = <<b, p>>
    BY DEF Rows
  <1>2. PICK lines : lines = <<[product |-> p, quantity |-> n]>>
    OBVIOUS
  <1>3. n \in Int
    BY OrderStockAssumption
  <1>4. CASE n < 0
    <2>1. PICK t : t = [[IdleSession EXCEPT !.branch = b, !.lines = lines]
                          EXCEPT !.stage = "failed", !.error = "on_hand check"]
      OBVIOUS
    <2>2. Begin(r, "adjust", t)
      BY <1>2, <1>4, <2>1 DEF BeginAdjust
    <2>3. PICK s : s = [t EXCEPT !.handler = "adjust"]
      OBVIOUS
    <2>4. s = [handler |-> "adjust", stage |-> "failed", branch |-> b, order |-> 0,
               key |-> None, number |-> 0, lines |-> lines, next |-> 1, seen |-> 0,
               new |-> [x \in Rows |-> None], after |-> [x \in Rows |-> None],
               moved |-> [x \in Rows |-> 0],
               held |-> {}, error |-> "on_hand check"]
      BY <2>1, <2>3 DEF IdleSession
    <2>5. Fields(s) /\ Placed(s) /\ HasOrder(s)
      <3>1. 0 \in 0 .. Len(orders)
        BY DEF IInv, TablesOK
      <3> QED
        BY <2>4, <3>1 DEF Fields, Placed, LineStages, HasOrder
    <2>6. "adjust" \in Handlers
      BY <2>2 DEF Begin
    <2>7. Fresh(s)
      BY <2>4, <2>5, <2>6 DEF Fresh
    <2> QED
      BY <2>2, <2>3, <2>7, FreshPreserves
  <1>5. CASE ~(n < 0)
    <2>1. PICK new : new = Adjusted(on_hand[row], n)
      OBVIOUS
    <2>2. new \in Nat
      BY <1>3, <1>5, <2>1 DEF Adjusted, IInv, TablesOK, StockNeverNegative
    <2>3. PICK e : e = [IdleSession EXCEPT !.branch = b, !.lines = lines]
      OBVIOUS
    <2>4. PICK t : t = [e EXCEPT !.stage = "commit", !.held = {RowLock(row)},
                                 !.new[row] = new, !.after[row] = new, !.moved[row] = n]
      OBVIOUS
    <2>5. Begin(r, "adjust", t) /\ Free(r, RowLock(row))
      BY <1>1, <1>2, <1>5, <2>1, <2>3, <2>4 DEF BeginAdjust
    <2>6. PICK s : s = [t EXCEPT !.handler = "adjust"]
      OBVIOUS
    <2>7. PICK written, moved : /\ written = [[x \in Rows |-> None] EXCEPT ![row] = new]
                                /\ moved = [[x \in Rows |-> 0] EXCEPT ![row] = n]
      OBVIOUS
    <2>8. s = [handler |-> "adjust", stage |-> "commit", branch |-> b, order |-> 0,
               key |-> None, number |-> 0, lines |-> lines, next |-> 1, seen |-> 0,
               new |-> written, after |-> written,
               moved |-> moved, held |-> {RowLock(row)}, error |-> None]
      <3>1. e = [handler |-> None, stage |-> "idle", branch |-> b, order |-> 0, key |-> None,
                 number |-> 0, lines |-> lines, next |-> 1, seen |-> 0,
                 new |-> [x \in Rows |-> None], after |-> [x \in Rows |-> None],
                 moved |-> [x \in Rows |-> 0], held |-> {}, error |-> None]
        BY <2>3 DEF IdleSession
      <3>2. t = [handler |-> None, stage |-> "commit", branch |-> b, order |-> 0, key |-> None,
                 number |-> 0, lines |-> lines, next |-> 1, seen |-> 0,
                 new |-> written, after |-> written,
                 moved |-> moved, held |-> {RowLock(row)}, error |-> None]
        BY <2>4, <2>7, <3>1
      <3> QED
        BY <2>6, <3>2
    <2>9. /\ written \in [Rows -> Nat \cup {None}] /\ moved \in [Rows -> Int]
          /\ \A x \in Rows : /\ written[x] = IF x = row THEN new ELSE None
                             /\ moved[x] = IF x = row THEN n ELSE 0
      BY <1>3, <2>2, <2>7
    <2>10. Typed(s)
      BY <2>5, <2>8, <2>9 DEF Typed, Fields, Stages, Begin
    <2>11. Placed(s) /\ HasNumber(s) /\ HasKey(s) /\ HasOrder(s)
      BY <2>8 DEF Placed, HasNumber, HasKey, LineStages, HasOrder, IInv, TablesOK
    <2>12. HoldsItsWrites(s) /\ LocksInOrder(s)
      BY <2>8, <2>9 DEF HoldsItsWrites, LocksInOrder
    <2>13. Books(s)
      <3>1. on_hand \in [Rows -> Nat] /\ new = on_hand[row] + n /\ new # None
        BY <2>1, <2>2, ConstantsOK DEF Adjusted, IInv, TablesOK, StockNeverNegative
      <3>2. s.new = written /\ s.moved = moved
        BY <2>8
      <3>3. ASSUME NEW x \in Rows
            PROVE  Visible(s, x) = on_hand[x] + s.moved[x]
        BY <1>3, <2>9, <3>1, <3>2 DEF Visible
      <3> QED
        BY <3>3 DEF Books
    <2>14. \A q \in Requests \ {r} : s.held \cap session[q].held = {}
      BY <2>5, <2>8 DEF Free
    <2>15. session' = [session EXCEPT ![r] = s] /\ UNCHANGED tables /\ served' \in 0 .. MaxServed
      BY <2>5, <2>6, ConstantsOK DEF Begin, IInv
    <2> QED
      BY <2>10, <2>11, <2>12, <2>13, <2>14, <2>15, Replace DEF Own
  <1> QED
    BY <1>4, <1>5

-----------------------------------------------------------------------------
\* Requests under way.

\* An exception, a lost connection or a deadlock leaves the tables as they were.
LEMMA RollbackPreserves ==
    ASSUME IInv, NEW r \in Requests, Rollback(r)
    PROVE  IInv'
  <1>1. Continue(r, IdleSession)
    BY DEF Rollback
  <1>2. Own(IdleSession) /\ IdleSession.held = {}
    BY IdleIsOwn DEF IInv
  <1> QED
    BY <1>1, <1>2, ContinuePreserves

\* What a sequence holds is of its type.
LEMMA Element ==
    ASSUME NEW X, NEW q \in Seq(X), NEW i \in 1 .. Len(q)
    PROVE  q[i] \in X
  OBVIOUS

\* An error is not NULL.
LEMMA ErrorIsSet == None # "movement check" /\ None # "insufficient stock"
  BY OrderStockAssumption

\* Two inventory rows, a key and a document sequence are four locks.
LEMMA LocksDiffer ==
    ASSUME NEW x \in Rows, NEW y \in Rows
    PROVE  /\ RowLock(x) = RowLock(y) => x = y
           /\ \A key : RowLock(x) # <<"key", key>>
           /\ \A b : RowLock(x) # <<"ORD", b>>
  BY DEF RowLock, Rows

\* The head line of a request at work on one.
LEMMA HeadRowExists ==
    ASSUME NEW s, Own(s), s.stage \in LineStages
    PROVE  /\ HeadRow(s) \in Rows
           /\ s.lines \in Lines
           /\ s.next \in 1 .. Len(s.lines)
           /\ s.lines[s.next].quantity \in Nat \ {0}
  <1>1. s.branch \in Branches /\ s.lines \in Lines /\ s.next \in 1 .. Len(s.lines)
    BY DEF Own, Placed
  <1>2. s.lines[s.next] \in [product : Products, quantity : Nat \ {0}]
    BY <1>1, Element DEF Lines
  <1>3. s.lines[s.next].product \in Products /\ s.lines[s.next].quantity \in Nat \ {0}
    BY <1>2
  <1>4. HeadRow(s) \in Rows
    BY <1>1, <1>3 DEF HeadRow, Rows
  <1> QED
    BY <1>1, <1>3, <1>4

\* The next line, or the end of the loop: what is next is a line while lines are left.
LEMMA NextLineExists ==
    ASSUME NEW s, Own(s), s.stage \in LineStages, NEW first, NEW done, first # done,
           NEW stage, stage = (IF s.next < Len(s.lines) THEN first ELSE done)
    PROVE  stage = first => s.next + 1 \in 1 .. Len(s.lines)
  BY HeadRowExists DEF Lines

\* NextLine changes two fields of a session.
LEMMA NextLineFields ==
    ASSUME NEW u, Fields(u), NEW first, NEW done, NEW next, next = u.next + 1,
           NEW stage, stage = (IF u.next < Len(u.lines) THEN first ELSE done)
    PROVE  NextLine(u, first, done) =
             [handler |-> u.handler, stage |-> stage, branch |-> u.branch, order |-> u.order,
              key |-> u.key, number |-> u.number, lines |-> u.lines, next |-> next,
              seen |-> u.seen, new |-> u.new, after |-> u.after, moved |-> u.moved, held |-> u.held,
              error |-> u.error]
  <1>1. NextLine(u, first, done) = [u EXCEPT !.next = next, !.stage = stage]
    BY DEF NextLine
  <1> QED
    BY <1>1 DEF Fields

\* The upsert of _next_sequence gives the next number together with its lock.
LEMMA NextSequencePreserves ==
    ASSUME IInv, NEW r \in Requests, NextSequence(r)
    PROVE  IInv'
  <1>1. PICK s : s = session[r]
    OBVIOUS
  <1>2. Own(s) /\ s.stage = "sequence" /\ Free(r, SequenceLock(s))
    BY <1>1 DEF IInv, NextSequence
  <1>3. s.branch \in Branches /\ s.lines \in Lines /\ s.next \in 1 .. Len(s.lines)
        /\ s.handler \in {"create", "return"}
    BY <1>2 DEF Own, Placed, LineStages
  <1>4. PICK number \in Nat :
            number = IF s.handler = "create" THEN sequence[s.branch] + 1 ELSE 0
    BY <1>3 DEF IInv, TablesOK
  <1>5. PICK stage : stage = IF s.handler = "create" THEN "insert" ELSE "read"
    OBVIOUS
  <1>6. PICK held : held = s.held \cup {SequenceLock(s)}
    OBVIOUS
  <1>7. PICK t : t = [s EXCEPT !.held = held, !.number = number, !.stage = stage]
    OBVIOUS
  <1>8. Continue(r, t)
    BY <1>1, <1>4, <1>5, <1>6, <1>7 DEF NextSequence
  <1>9. t = [handler |-> s.handler, stage |-> stage, branch |-> s.branch, order |-> s.order,
             key |-> s.key, number |-> number, lines |-> s.lines, next |-> s.next,
             seen |-> s.seen, new |-> s.new, after |-> s.after,
             moved |-> s.moved, held |-> held, error |-> s.error]
    BY <1>2, <1>7 DEF Own, Typed, Fields
  <1>10. Typed(t)
    BY <1>2, <1>5, <1>9 DEF Own, Typed, Fields, Stages
  <1>11. Placed(t) /\ HasOrder(t)
    BY <1>2, <1>3, <1>5, <1>9 DEF Placed, Own, HasOrder
  <1>12. HasNumber(t) /\ HasKey(t)
    BY <1>3, <1>4, <1>5, <1>6, <1>9 DEF HasNumber, HasKey, Inserted, SequenceLock
  <1>13. HoldsItsWrites(t) /\ Books(t)
    BY <1>2, <1>5, <1>6, <1>9 DEF Own, HoldsItsWrites, Books, Visible
  <1>15. LocksInOrder(t)
    BY <1>2, <1>5, <1>6, <1>9, LocksDiffer DEF Own, LocksInOrder, SequenceLock
  <1>14. \A q \in Requests \ {r} : t.held \cap session[q].held = {}
    BY <1>1, <1>2, <1>6, <1>9 DEF Free, IInv, Exclusive
  <1> QED
    BY <1>8, <1>10, <1>11, <1>12, <1>13, <1>14, <1>15, ContinuePreserves DEF Own

\* The unique index gives the key together with the fact that no order has it.
LEMMA InsertOrderPreserves ==
    ASSUME IInv, NEW r \in Requests, InsertOrder(r)
    PROVE  IInv'
  <1>1. PICK s : s = session[r]
    OBVIOUS
  <1>2. Own(s) /\ s.stage = "insert"
    BY <1>1 DEF IInv, InsertOrder
  <1>3. s.branch \in Branches /\ s.lines \in Lines /\ s.next \in 1 .. Len(s.lines)
        /\ s.handler = "create"
    BY <1>2 DEF Own, Placed, LineStages
  <1>4. CASE s.key # None /\ \E i \in DOMAIN orders : orders[i].key = s.key
    <2>1. PICK t : t = [s EXCEPT !.stage = "failed", !.error = "duplicate key"]
      OBVIOUS
    <2>2. Continue(r, t)
      BY <1>1, <1>4, <2>1 DEF InsertOrder
    <2>3. t = [handler |-> s.handler, stage |-> "failed", branch |-> s.branch, order |-> s.order,
               key |-> s.key, number |-> s.number, lines |-> s.lines, next |-> s.next,
               seen |-> s.seen, new |-> s.new, after |-> s.after,
               moved |-> s.moved, held |-> s.held,
               error |-> "duplicate key"]
      BY <1>2, <2>1 DEF Own, Typed, Fields
    <2>4. Typed(t)
      BY <1>2, <2>3, OrderStockAssumption DEF Own, Typed, Fields, Stages
    <2>5. Placed(t) /\ HasNumber(t) /\ HasKey(t)
      BY <2>3 DEF Placed, HasNumber, HasKey, LineStages, Numbered, Inserted
    <2>6. HoldsItsWrites(t) /\ LocksInOrder(t) /\ Books(t) /\ HasOrder(t)
      BY <1>2, <2>3 DEF Own, HoldsItsWrites, LocksInOrder, Books, Visible, HasOrder
    <2>7. \A q \in Requests \ {r} : t.held \cap session[q].held = {}
      BY <1>1, <2>3 DEF IInv, Exclusive
    <2> QED
      BY <2>2, <2>4, <2>5, <2>6, <2>7, ContinuePreserves DEF Own
  <1>5. CASE ~(s.key # None /\ \E i \in DOMAIN orders : orders[i].key = s.key)
    <2>1. PICK held : held = s.held \cup Needs(s)
      OBVIOUS
    <2>2. PICK t : t = [s EXCEPT !.held = held, !.stage = "read"]
      OBVIOUS
    <2>3. Continue(r, t)
      BY <1>1, <1>5, <2>1, <2>2 DEF InsertOrder
    <2>4. t = [handler |-> s.handler, stage |-> "read", branch |-> s.branch, order |-> s.order,
               key |-> s.key, number |-> s.number, lines |-> s.lines, next |-> s.next,
               seen |-> s.seen, new |-> s.new, after |-> s.after, moved |-> s.moved, held |-> held,
               error |-> s.error]
      BY <1>2, <2>2 DEF Own, Typed, Fields
    <2>5. s.key # None => <<"key", s.key>> \in held
      BY <1>2, <2>1 DEF Needs
    <2>6. Typed(t) /\ HasOrder(t)
      BY <1>2, <2>4 DEF Own, Typed, Fields, Stages, HasOrder
    <2>7. Placed(t)
      BY <1>3, <2>4 DEF Placed
    <2>8. HasNumber(t)
      BY <1>2, <1>3, <2>1, <2>4 DEF Own, HasNumber, Numbered
    <2>9. HasKey(t)
      BY <1>5, <2>4, <2>5 DEF HasKey
    <2>10. HoldsItsWrites(t) /\ Books(t)
      BY <1>2, <2>1, <2>4 DEF Own, HoldsItsWrites, Books, Visible
    <2>12. LocksInOrder(t)
      BY <1>2, <2>1, <2>4, LocksDiffer DEF Own, LocksInOrder, Needs
    <2>11. \A q \in Requests \ {r} : t.held \cap session[q].held = {}
      BY <1>1, <2>1, <2>4 DEF InsertOrder, Free, IInv, Exclusive
    <2> QED
      BY <2>3, <2>6, <2>7, <2>8, <2>9, <2>10, <2>11, <2>12, ContinuePreserves DEF Own
  <1> QED
    BY <1>4, <1>5

\* A row as a request sees it is not negative.
LEMMA VisibleIsNat ==
    ASSUME IInv, NEW s, Own(s), NEW row \in Rows
    PROVE  Visible(s, row) \in Nat
  BY DEF IInv, TablesOK, StockNeverNegative, Own, Typed, Visible

\* get_inventory_on_hand reads a quantity and locks nothing.
LEMMA ReadOnHandPreserves ==
    ASSUME IInv, NEW r \in Requests, ReadOnHand(r)
    PROVE  IInv'
  <1>1. PICK s : s = session[r]
    OBVIOUS
  <1>2. Own(s) /\ s.stage = "read" /\ s.handler \in {"create", "cancel"}
    BY <1>1 DEF IInv, ReadOnHand
  <1>3. PICK seen \in Nat : seen = Visible(s, HeadRow(s))
    BY <1>2, HeadRowExists, VisibleIsNat DEF LineStages
  <1>4. PICK t : t = [s EXCEPT !.seen = seen, !.stage = "update"]
    OBVIOUS
  <1>5. Continue(r, t)
    BY <1>1, <1>3, <1>4 DEF ReadOnHand
  <1>6. t = [handler |-> s.handler, stage |-> "update", branch |-> s.branch, order |-> s.order,
             key |-> s.key, number |-> s.number, lines |-> s.lines, next |-> s.next,
             seen |-> seen, new |-> s.new, after |-> s.after,
             moved |-> s.moved, held |-> s.held, error |-> s.error]
    BY <1>2, <1>4 DEF Own, Typed, Fields
  <1>7. Typed(t) /\ HasOrder(t)
    BY <1>2, <1>6 DEF Own, Typed, Fields, Stages, HasOrder
  <1>8. Placed(t)
    BY <1>2, <1>6 DEF Own, Placed, LineStages
  <1>9. HasNumber(t) /\ HasKey(t)
    BY <1>2, <1>6 DEF Own, HasNumber, HasKey, Numbered, Inserted
  <1>10. HoldsItsWrites(t) /\ LocksInOrder(t) /\ Books(t)
    BY <1>2, <1>6 DEF Own, HoldsItsWrites, LocksInOrder, Books, Visible
  <1>11. \A q \in Requests \ {r} : t.held \cap session[q].held = {}
    BY <1>1, <1>6 DEF IInv, Exclusive
  <1> QED
    BY <1>5, <1>7, <1>8, <1>9, <1>10, <1>11, ContinuePreserves DEF Own

\* What the UPDATE and the movement of a line make of a session.
Updated(s, row, amount, after, sum) ==
    [handler |-> s.handler, stage |-> IF s.next < Len(s.lines) THEN "read" ELSE "commit",
     branch |-> s.branch, order |-> s.order, key |-> s.key, number |-> s.number,
     lines |-> s.lines, next |-> s.next + 1, seen |-> s.seen,
     new |-> [s.new EXCEPT ![row] = amount],
     after |-> [s.after EXCEPT ![row] = after],
     moved |-> [s.moved EXCEPT ![row] = sum],
     held |-> s.held \cup {RowLock(row)},
     error |-> IF after < 0 THEN "movement check" ELSE s.error]

\* UpdateRow, field by field.
LEMMA UpdateRowEffect ==
    ASSUME NEW r, NEW change, UpdateRow(r, change),
           NEW s, s = session[r], Fields(s), NEW row, row = HeadRow(s),
           NEW amount, amount = Visible(s, row) + change,
           NEW after, after = QuantityAfter(s.seen, change),
           NEW sum, sum = s.moved[row] + change
    PROVE  Continue(r, Updated(s, row, amount, after, sum))
  <1>1. PICK held, error : /\ held = s.held \cup {RowLock(row)}
                           /\ error = IF after < 0 THEN "movement check" ELSE s.error
    OBVIOUS
  <1>2. PICK new, afters, moved : /\ new = [s.new EXCEPT ![row] = amount]
                                  /\ afters = [s.after EXCEPT ![row] = after]
                                  /\ moved = [s.moved EXCEPT ![row] = sum]
    OBVIOUS
  <1>3. PICK u : u = [s EXCEPT !.new[row] = amount, !.after[row] = after, !.moved[row] = sum,
                               !.held = held, !.error = error]
    OBVIOUS
  <1>4. u = [handler |-> s.handler, stage |-> s.stage, branch |-> s.branch, order |-> s.order,
             key |-> s.key, number |-> s.number, lines |-> s.lines, next |-> s.next,
             seen |-> s.seen, new |-> new, after |-> afters,
             moved |-> moved, held |-> held, error |-> error]
    BY <1>2, <1>3 DEF Fields
  <1>5. Fields(u)
    BY <1>4 DEF Fields
  <1>6. NextLine(u, "read", "commit") = Updated(s, row, amount, after, sum)
    <2>1. /\ u.handler = s.handler /\ u.branch = s.branch /\ u.order = s.order
          /\ u.key = s.key /\ u.number = s.number /\ u.lines = s.lines /\ u.next = s.next
          /\ u.seen = s.seen /\ u.new = new /\ u.after = afters /\ u.moved = moved
          /\ u.held = held /\ u.error = error
      BY <1>4
    <2>2. PICK stage, next : /\ stage = (IF s.next < Len(s.lines) THEN "read" ELSE "commit")
                             /\ next = s.next + 1
      OBVIOUS
    <2>3. Updated(s, row, amount, after, sum) =
            [handler |-> s.handler, stage |-> stage, branch |-> s.branch, order |-> s.order,
             key |-> s.key, number |-> s.number, lines |-> s.lines, next |-> next,
             seen |-> s.seen, new |-> new, after |-> afters,
             moved |-> moved, held |-> held, error |-> error]
      BY <1>1, <1>2, <2>2 DEF Updated
    <2> QED
      BY <1>5, <2>1, <2>2, <2>3, NextLineFields
  <1> QED
    BY <1>1, <1>3, <1>6 DEF UpdateRow

\* The UPDATE of a sale or a cancellation, under the row's lock.
LEMMA UpdateRowPreserves ==
    ASSUME IInv, NEW r \in Requests, NEW change \in Int, UpdateRow(r, change),
           session[r].stage = "update", Free(r, RowLock(HeadRow(session[r]))),
           Visible(session[r], HeadRow(session[r])) + change >= 0
    PROVE  IInv'
  <1>1. PICK s : s = session[r]
    OBVIOUS
  <1>2. Own(s) /\ s.stage = "update"
    BY <1>1 DEF IInv
  <1>3. s.branch \in Branches /\ s.lines \in Lines \ {<<>>} /\ s.handler \in {"create", "cancel"}
    BY <1>2, HeadRowExists DEF Own, Placed, LineStages
  <1>4. PICK row \in Rows : row = HeadRow(s)
    BY <1>2, HeadRowExists DEF LineStages
  <1>5. PICK amount \in Nat : amount = Visible(s, row) + change
    BY <1>1, <1>2, <1>4, VisibleIsNat
  <1>6. PICK after \in Int : after = QuantityAfter(s.seen, change)
    BY <1>2 DEF Own, Typed, QuantityAfter
  <1>25. s.moved \in [Rows -> Int] /\ Fields(s)
    BY <1>2 DEF Own, Typed
  <1>26. PICK sum \in Int : sum = s.moved[row] + change
    BY <1>25
  <1>7. PICK stage : stage = IF s.next < Len(s.lines) THEN "read" ELSE "commit"
    OBVIOUS
  <1>8. PICK new : new = [s.new EXCEPT ![row] = amount]
    OBVIOUS
  <1>9. PICK afters : afters = [s.after EXCEPT ![row] = after]
    OBVIOUS
  <1>27. PICK moved : moved = [s.moved EXCEPT ![row] = sum]
    OBVIOUS
  <1>10. PICK held : held = s.held \cup {RowLock(row)}
    OBVIOUS
  <1>11. PICK error : error = IF after < 0 THEN "movement check" ELSE s.error
    OBVIOUS
  <1>12. PICK t : t = [handler |-> s.handler, stage |-> stage, branch |-> s.branch, order |-> s.order,
                       key |-> s.key, number |-> s.number, lines |-> s.lines, next |-> s.next + 1,
                       seen |-> s.seen, new |-> new, after |-> afters,
                       moved |-> moved, held |-> held, error |-> error]
    OBVIOUS
  <1>13. t = Updated(s, row, amount, after, sum)
    BY <1>7, <1>8, <1>9, <1>10, <1>11, <1>12, <1>27 DEF Updated
  <1>16. Continue(r, t)
    BY <1>1, <1>4, <1>5, <1>6, <1>13, <1>25, <1>26, UpdateRowEffect
  <1>17. new \in [Rows -> Nat \cup {None}] /\ afters \in [Rows -> Int \cup {None}]
    BY <1>2, <1>8, <1>9 DEF Own, Typed
  <1>18. error = None => \A x \in Rows : afters[x] \in Nat \cup {None}
    <2> SUFFICES ASSUME error = None, NEW x \in Rows PROVE afters[x] \in Nat \cup {None}
      OBVIOUS
    <2>0. ~(after < 0)
      <3> SUFFICES ASSUME after < 0 PROVE FALSE
        OBVIOUS
      <3>1. error = "movement check"
        BY <1>11, Zenon
      <3> QED
        BY <3>1, ErrorIsSet, Zenon
    <2>1. after \in Nat /\ s.error = None
      <3>1. after \in Nat
        BY <1>6, <2>0
      <3>2. s.error = None
        BY <1>11, <2>0, Zenon
      <3> QED
        BY <3>1, <3>2
    <2>2. s.after \in [Rows -> Int \cup {None}] /\ s.after[x] \in Nat \cup {None}
      BY <1>2, <2>1 DEF Own, Typed
    <2>3. afters[x] = IF x = row THEN after ELSE s.after[x]
      BY <1>9, <2>2
    <2> QED
      BY <2>1, <2>2, <2>3
  <1>19. Typed(t) /\ HasOrder(t)
    <2>1. moved \in [Rows -> Int]
      BY <1>25, <1>27
    <2>2. stage \in Stages /\ stage # "idle"
      BY <1>7 DEF Stages
    <2> QED
      BY <1>2, <1>12, <1>17, <1>18, <2>1, <2>2 DEF Own, Typed, Fields, HasOrder
  <1>20. stage = "read" => s.next + 1 \in 1 .. Len(s.lines)
    BY <1>2, <1>7, NextLineExists DEF LineStages
  <1>21. Placed(t)
    BY <1>3, <1>7, <1>12, <1>20 DEF Placed, LineStages
  <1>22. HasNumber(t) /\ HasKey(t)
    BY <1>2, <1>7, <1>10, <1>12 DEF Own, HasNumber, HasKey, Numbered, Inserted
  <1>23. HoldsItsWrites(t)
    BY <1>2, <1>3, <1>8, <1>10, <1>12 DEF Own, Typed, HoldsItsWrites
  <1>28. LocksInOrder(t)
    <2>1. s.handler = "create" => <<"ORD", s.branch>> \in s.held
      BY <1>2 DEF Own, HasNumber, Numbered
    <2>2. row[1] = s.branch
      BY <1>4 DEF HeadRow
    <2> QED
      BY <1>2, <1>7, <1>10, <1>12, <2>1, <2>2, LocksDiffer DEF Own, LocksInOrder
  <1>29. Books(t)
    <2>1. s.new \in [Rows -> Nat \cup {None}] /\ on_hand \in [Rows -> Nat]
      BY <1>2 DEF Own, Typed, IInv, TablesOK, StockNeverNegative
    <2>2. \A x \in Rows : Visible(s, x) = on_hand[x] + s.moved[x]
      BY <1>2, <1>3 DEF Own, Books
    <2>3. amount # None
      BY <1>5, ConstantsOK
    <2> QED
      BY <1>5, <1>8, <1>12, <1>25, <1>26, <1>27, <2>1, <2>2, <2>3 DEF Books, Visible
  <1>24. \A q \in Requests \ {r} : t.held \cap session[q].held = {}
    BY <1>1, <1>4, <1>10, <1>12 DEF Free, IInv, Exclusive
  <1> QED
    BY <1>16, <1>19, <1>21, <1>22, <1>23, <1>24, <1>28, <1>29, ContinuePreserves DEF Own

\* deduct_stock updates a row only when it covers the quantity.
LEMMA DeductStockPreserves ==
    ASSUME IInv, NEW r \in Requests, DeductStock(r)
    PROVE  IInv'
  <1>1. PICK s : s = session[r]
    OBVIOUS
  <1>2. Own(s) /\ s.stage = "update" /\ s.handler = "create" /\ Free(r, RowLock(HeadRow(s)))
    BY <1>1 DEF IInv, DeductStock
  <1>3. PICK q \in Nat : q = s.lines[s.next].quantity
    BY <1>2, HeadRowExists DEF LineStages
  <1>4. PICK amount \in Nat : amount = Visible(s, HeadRow(s))
    BY <1>2, HeadRowExists, VisibleIsNat DEF LineStages
  <1>5. CASE amount >= q
    <2>1. UpdateRow(r, -q)
      BY <1>1, <1>3, <1>4, <1>5 DEF DeductStock, InStock
    <2>2. -q \in Int /\ amount + (-q) >= 0
      BY <1>5
    <2> QED
      BY <1>1, <1>2, <1>4, <2>1, <2>2, UpdateRowPreserves
  <1>6. CASE ~(amount >= q)
    <2>1. PICK t : t = [s EXCEPT !.stage = "failed", !.error = "insufficient stock"]
      OBVIOUS
    <2>2. Continue(r, t)
      BY <1>1, <1>3, <1>4, <1>6, <2>1 DEF DeductStock, InStock
    <2>3. t = [handler |-> s.handler, stage |-> "failed", branch |-> s.branch, order |-> s.order,
               key |-> s.key, number |-> s.number, lines |-> s.lines, next |-> s.next,
               seen |-> s.seen, new |-> s.new, after |-> s.after,
               moved |-> s.moved, held |-> s.held,
               error |-> "insufficient stock"]
      BY <1>2, <2>1 DEF Own, Typed, Fields
    <2>4. Typed(t)
      BY <1>2, <2>3, ErrorIsSet DEF Own, Typed, Fields, Stages
    <2>5. Placed(t) /\ HasNumber(t) /\ HasKey(t)
      BY <2>3 DEF Placed, HasNumber, HasKey, LineStages, Numbered, Inserted
    <2>6. HoldsItsWrites(t) /\ LocksInOrder(t) /\ Books(t) /\ HasOrder(t)
      BY <1>2, <2>3 DEF Own, HoldsItsWrites, LocksInOrder, Books, Visible, HasOrder
    <2>7. \A x \in Requests \ {r} : t.held \cap session[x].held = {}
      BY <1>1, <2>3 DEF IInv, Exclusive
    <2> QED
      BY <2>2, <2>4, <2>5, <2>6, <2>7, ContinuePreserves DEF Own
  <1> QED
    BY <1>5, <1>6

\* restore_stock adds to what the request sees.
LEMMA RestoreStockPreserves ==
    ASSUME IInv, NEW r \in Requests, RestoreStock(r)
    PROVE  IInv'
  <1>1. PICK s : s = session[r]
    OBVIOUS
  <1>2. Own(s) /\ s.stage = "update" /\ Free(r, RowLock(HeadRow(s)))
    BY <1>1 DEF IInv, RestoreStock
  <1>3. PICK q \in Nat : q = s.lines[s.next].quantity
    BY <1>2, HeadRowExists DEF LineStages
  <1>4. PICK amount \in Nat : amount = Visible(s, HeadRow(s))
    BY <1>2, HeadRowExists, VisibleIsNat DEF LineStages
  <1>5. UpdateRow(r, q) /\ q \in Int /\ amount + q >= 0
    BY <1>1, <1>3 DEF RestoreStock
  <1> QED
    BY <1>1, <1>2, <1>4, <1>5, UpdateRowPreserves

\* A return computes a new balance without a lock.
LEMMA ReadForReturnPreserves ==
    ASSUME IInv, NEW r \in Requests, ReadForReturn(r)
    PROVE  IInv'
  <1>1. PICK s : s = session[r]
    OBVIOUS
  <1>2. Own(s) /\ s.stage = "read" /\ s.handler = "return"
    BY <1>1 DEF IInv, ReadForReturn
  <1>3. s.branch \in Branches /\ s.lines \in Lines
    BY <1>2 DEF Own, Placed, LineStages
  <1>4. PICK row \in Rows : row = HeadRow(s)
    BY <1>2, HeadRowExists DEF LineStages
  <1>5. PICK back \in Nat : back = Visible(s, row) + s.lines[s.next].quantity
    BY <1>2, HeadRowExists, VisibleIsNat DEF LineStages
  <1>6. PICK stage : stage = IF s.next < Len(s.lines) THEN "read" ELSE "write"
    OBVIOUS
  <1>7. PICK new : new = [s.new EXCEPT ![row] = back]
    OBVIOUS
  <1>8. PICK afters : afters = [s.after EXCEPT ![row] = back]
    OBVIOUS
  <1>22. s.moved \in [Rows -> Int]
    BY <1>2 DEF Own, Typed
  <1>23. PICK sum \in Int : sum = s.moved[row] + s.lines[s.next].quantity
    BY <1>2, <1>22, HeadRowExists DEF LineStages
  <1>24. PICK moved \in [Rows -> Int] : moved = [s.moved EXCEPT ![row] = sum]
    BY <1>22
  <1>9. PICK u : u = [s EXCEPT !.new[row] = back, !.after[row] = back, !.moved[row] = sum]
    OBVIOUS
  <1>10. u = [handler |-> s.handler, stage |-> s.stage, branch |-> s.branch, order |-> s.order,
              key |-> s.key, number |-> s.number, lines |-> s.lines, next |-> s.next,
              seen |-> s.seen, new |-> new, after |-> afters,
              moved |-> moved, held |-> s.held, error |-> s.error]
    BY <1>2, <1>7, <1>8, <1>9, <1>24 DEF Own, Typed, Fields
  <1>11. PICK t : t = [handler |-> s.handler, stage |-> stage, branch |-> s.branch,
                       order |-> s.order, key |-> s.key, number |-> s.number,
                       lines |-> s.lines, next |-> s.next + 1, seen |-> s.seen, new |-> new,
                       after |-> afters, moved |-> moved, held |-> s.held, error |-> s.error]
    OBVIOUS
  <1>12. t = NextLine(u, "read", "write")
    <2>1. Fields(u)
      BY <1>10 DEF Fields
    <2>2. /\ u.handler = s.handler /\ u.branch = s.branch /\ u.order = s.order
          /\ u.key = s.key /\ u.number = s.number /\ u.lines = s.lines /\ u.next = s.next
          /\ u.seen = s.seen /\ u.new = new /\ u.after = afters /\ u.moved = moved
          /\ u.held = s.held /\ u.error = s.error
      BY <1>10
    <2> QED
      BY <1>6, <1>11, <2>1, <2>2, NextLineFields
  <1>13. Continue(r, t)
    BY <1>1, <1>4, <1>5, <1>9, <1>12, <1>23 DEF ReadForReturn
  <1>14. s.new \in [Rows -> Nat \cup {None}] /\ s.after \in [Rows -> Int \cup {None}]
    BY <1>2 DEF Own, Typed
  <1>15. new \in [Rows -> Nat \cup {None}] /\ afters \in [Rows -> Int \cup {None}]
    BY <1>7, <1>8, <1>14
  <1>16. s.error = None => \A x \in Rows : afters[x] \in Nat \cup {None}
    BY <1>2, <1>8, <1>14 DEF Own, Typed
  <1>17. Typed(t) /\ HasOrder(t)
    BY <1>2, <1>6, <1>11, <1>15, <1>16 DEF Own, Typed, Fields, Stages, HasOrder
  <1>18. stage = "read" => s.next + 1 \in 1 .. Len(s.lines)
    BY <1>2, <1>6, NextLineExists DEF LineStages
  <1>19. Placed(t)
    BY <1>2, <1>3, <1>6, <1>11, <1>18 DEF Placed, LineStages
  <1>20. HasNumber(t) /\ HasKey(t) /\ HoldsItsWrites(t) /\ LocksInOrder(t) /\ Books(t)
    BY <1>2, <1>6, <1>11 DEF HasNumber, HasKey, HoldsItsWrites, LocksInOrder, Books
  <1>21. \A q \in Requests \ {r} : t.held \cap session[q].held = {}
    BY <1>1, <1>11 DEF IInv, Exclusive
  <1> QED
    BY <1>13, <1>17, <1>19, <1>20, <1>21, ContinuePreserves DEF Own

\* The flush of a return locks rows one after the other.
LEMMA WriteBackPreserves ==
    ASSUME IInv, NEW r \in Requests, WriteBack(r)
    PROVE  IInv'
  <1>1. PICK s : s = session[r]
    OBVIOUS
  <1>2. Own(s) /\ s.stage = "write" /\ \A lock \in Needs(s) : Free(r, lock)
    BY <1>1 DEF IInv, WriteBack
  <1>3. s.handler = "return"
    BY <1>2 DEF Own, Placed
  <1>4. PICK held : held = s.held \cup Needs(s)
    OBVIOUS
  <1>5. PICK stage : stage = IF \E row \in Rows : s.new[row] # None /\ RowLock(row) \notin held
                             THEN s.stage ELSE "commit"
    OBVIOUS
  <1>6. PICK t : t = [s EXCEPT !.held = held, !.stage = stage]
    OBVIOUS
  <1>7. Continue(r, t)
    BY <1>1, <1>4, <1>5, <1>6 DEF WriteBack
  <1>8. t = [handler |-> s.handler, stage |-> stage, branch |-> s.branch, order |-> s.order,
             key |-> s.key, number |-> s.number, lines |-> s.lines, next |-> s.next,
             seen |-> s.seen, new |-> s.new, after |-> s.after,
             moved |-> s.moved, held |-> held, error |-> s.error]
    BY <1>2, <1>6 DEF Own, Typed, Fields
  <1>9. Typed(t) /\ HasOrder(t)
    BY <1>2, <1>5, <1>8 DEF Own, Typed, Fields, Stages, HasOrder
  <1>10. Placed(t) /\ HasNumber(t) /\ HasKey(t) /\ LocksInOrder(t) /\ Books(t)
    BY <1>2, <1>3, <1>5, <1>8 DEF Placed, HasNumber, HasKey, LineStages, LocksInOrder, Books
  <1>12. HoldsItsWrites(t)
    BY <1>2, <1>3, <1>5, <1>8 DEF HoldsItsWrites
  <1>11. \A q \in Requests \ {r} : t.held \cap session[q].held = {}
    BY <1>1, <1>2, <1>4, <1>8 DEF Free, IInv, Exclusive
  <1> QED
    BY <1>7, <1>9, <1>10, <1>11, <1>12, ContinuePreserves DEF Own

-----------------------------------------------------------------------------
\* Commits.

\* The committed quantities are those of the session.
LEMMA CommitStock ==
    ASSUME IInv, NEW r \in Requests, Commit(r), session[r].error = None
    PROVE  StockNeverNegative' /\ ledger' \in [Rows -> Int] /\ inbound' \in [Rows -> Int]
  <1>1. Own(session[r])
    BY DEF IInv
  <1>2. /\ on_hand' = [row \in Rows |-> Visible(session[r], row)]
        /\ last_after' = [row \in Rows |-> IF session[r].after[row] = None
                                           THEN last_after[row] ELSE session[r].after[row]]
    BY DEF Commit
  <1>3. on_hand' \in [Rows -> Nat]
    BY <1>1, <1>2, VisibleIsNat
  <1>4. ASSUME NEW row \in Rows
        PROVE  last_after'[row] \in Nat
    <2>1. session[r].after[row] \in Nat \cup {None} /\ last_after[row] \in Nat
      BY <1>1 DEF Own, Typed, IInv, TablesOK, StockNeverNegative
    <2> QED
      BY <1>2, <2>1
  <1>5. last_after' \in [Rows -> Nat]
    BY <1>2, <1>4
  <1>6. /\ ledger \in [Rows -> Int] /\ inbound \in [Rows -> Int]
        /\ session[r].moved \in [Rows -> Int]
    BY <1>1 DEF Own, Typed, IInv, TablesOK
  <1>7. ledger' \in [Rows -> Int] /\ inbound' \in [Rows -> Int]
    <2>1. PICK moved \in [Rows -> Int] : moved = session[r].moved
      BY <1>6
    <2>2. ledger' = [row \in Rows |-> ledger[row] + moved[row]]
      BY <2>1 DEF Commit
    <2>3. inbound' = [row \in Rows |-> inbound[row] +
                        IF session[r].handler \in {"return", "adjust"} THEN moved[row] ELSE 0]
      BY <2>1 DEF Commit
    <2> QED
      BY <1>6, <2>2, <2>3
  <1> QED
    BY <1>3, <1>5, <1>7 DEF StockNeverNegative

\* A committed session is idle; the others keep what their locks protect.
LEMMA CommitSessions ==
    ASSUME IInv, NEW r \in Requests, Commit(r), session[r].error = None, TablesOK',
           Len(orders') >= Len(orders),
           \A q \in Requests \ {r} : HasNumber(session[q])' /\ HasKey(session[q])'
    PROVE  /\ session' = [q \in Requests |-> session'[q]]
           /\ \A q \in Requests : Own(session[q])'
           /\ Exclusive' /\ served' \in 0 .. MaxServed
  <1>1. /\ \A q \in Requests : session'[q] = IF q = r THEN IdleSession ELSE session[q]
        /\ session' = [q \in Requests |-> session'[q]]
        /\ served' = served
    BY DEF Commit, IInv
  <1>2. on_hand \in [Rows -> Nat] /\ on_hand' = [row \in Rows |-> Visible(session[r], row)]
    BY DEF Commit, IInv, TablesOK, StockNeverNegative
  <1>3. /\ Typed(IdleSession) /\ Placed(IdleSession) /\ HoldsItsWrites(IdleSession)
        /\ LocksInOrder(IdleSession) /\ IdleSession.held = {} /\ IdleSession.order = 0
    BY IdleIsOwn DEF IInv, Own, IdleSession
  <1>4. on_hand' \in [Rows -> Nat] /\ Len(orders') \in Nat /\ Len(orders) \in Nat
    BY DEF TablesOK, IInv, StockNeverNegative
  <1>5. ASSUME NEW q \in Requests
        PROVE  Own(session[q])'
    <2>1. /\ Typed(session'[q]) /\ Placed(session'[q]) /\ HoldsItsWrites(session'[q])
          /\ LocksInOrder(session'[q])
      BY <1>1, <1>3 DEF IInv, Own
    <2>2. /\ Typed(session[q])' /\ Placed(session[q])' /\ HoldsItsWrites(session[q])'
          /\ LocksInOrder(session[q])'
      BY <2>1 DEF Typed, Fields, Placed, HoldsItsWrites, LocksInOrder
    <2>3. HasNumber(session[q])' /\ HasKey(session[q])'
      BY <1>1 DEF HasNumber, HasKey, Numbered, Inserted, IdleSession
    <2>4. HasOrder(session[q])'
      <3>1. session[q].order \in 0 .. Len(orders)
        BY DEF IInv, Own, HasOrder
      <3> QED
        BY <1>1, <1>3, <1>4, <3>1 DEF HasOrder
    <2>5. Books(session[q])'
      <3>1. CASE q = r
        BY <1>1, <1>4, <3>1 DEF Books, Visible, IdleSession
      <3>2. CASE q # r
        <4>1. PICK u : u = session[q]
          OBVIOUS
        <4>2. PICK s : s = session[r]
          OBVIOUS
        <4>3. /\ session'[q] = u /\ Own(u) /\ Own(s) /\ u.held \cap s.held = {}
              /\ s.stage = "commit"
          BY <1>1, <3>2, <4>1, <4>2 DEF IInv, Exclusive, Commit
        <4> SUFFICES ASSUME u.handler # "return", NEW row \in Rows
                     PROVE  (IF u.new[row] = None THEN on_hand'[row] ELSE u.new[row])
                                = on_hand'[row] + u.moved[row]
          BY <4>3 DEF Books, Visible
        <4>4. (IF u.new[row] = None THEN on_hand[row] ELSE u.new[row])
                  = on_hand[row] + u.moved[row]
          BY <4>3 DEF Own, Books, Visible
        <4>5. u.moved[row] \in Int /\ on_hand[row] \in Nat /\ on_hand'[row] \in Nat
          BY <1>2, <1>4, <4>3 DEF Own, Typed
        <4>6. CASE u.new[row] = None
          BY <4>4, <4>5, <4>6
        <4>7. CASE u.new[row] # None
          <5>1. s.new[row] = None
            BY <4>3, <4>7 DEF Own, HoldsItsWrites
          <5>2. on_hand'[row] = on_hand[row]
            BY <1>2, <4>2, <5>1 DEF Visible
          <5> QED
            BY <4>4, <4>7, <5>2
        <4> QED
          BY <4>6, <4>7
      <3> QED
        BY <3>1, <3>2
    <2> QED
      BY <2>2, <2>3, <2>4, <2>5 DEF Own
  <1>6. Exclusive'
    BY <1>1, <1>3 DEF IInv, Exclusive
  <1>7. (served \in 0 .. MaxServed)'
    BY <1>1 DEF IInv
  <1> QED
    BY <1>1, <1>5, <1>6, <1>7

\* A sale appends an order with the next number and an unused key, and hides
\* neither from the sales that hold another sequence and another key.
LEMMA CommitCreatePreserves ==
    ASSUME IInv, NEW r \in Requests, Commit(r), session[r].error = None,
           session[r].handler = "create"
    PROVE  IInv'
  <1>1. PICK s : s = session[r]
    OBVIOUS
  <1>2. Own(s) /\ s.stage = "commit" /\ s.handler = "create"
    BY <1>1 DEF IInv, Commit
  <1>3. PICK b \in Branches : b = s.branch
    BY <1>2 DEF Own, Placed
  <1>4. s.lines \in Lines /\ s.lines # <<>> /\ s.number \in Nat /\ s.key \in Keys \cup {None}
    BY <1>2 DEF Own, Placed, Typed
  <1>5. <<"ORD", b>> \in s.held /\ s.number = sequence[b] + 1
    BY <1>2, <1>3 DEF Own, HasNumber, Numbered
  <1>6. s.key # None => <<"key", s.key>> \in s.held /\ \A i \in DOMAIN orders : orders[i].key # s.key
    BY <1>2 DEF Own, HasKey, Inserted
  <1>7. PICK o : o = [branch |-> b, number |-> s.number, key |-> s.key,
                      lines |-> s.lines, status |-> "pending", cancels |-> 0]
    OBVIOUS
  <1>8. o \in Order
    BY <1>3, <1>4, <1>7 DEF Order
  <1>9. /\ orders' = Append(orders, o)
        /\ sequence' = [sequence EXCEPT ![b] = s.number]
        /\ session' = [session EXCEPT ![r] = IdleSession]
    BY <1>1, <1>2, <1>3, <1>7 DEF Commit, AdvanceSequence
  <1>10. orders \in Seq(Order) /\ sequence \in [Branches -> Nat]
         /\ \A i \in DOMAIN orders : orders[i] \in Order /\ orders[i].lines # <<>>
    BY DEF IInv, TablesOK
  <1>11. /\ DOMAIN orders = 1 .. Len(orders) /\ Len(orders) \in Nat
         /\ DOMAIN orders' = 1 .. Len(orders) + 1
         /\ \A i \in DOMAIN orders : orders'[i] = orders[i]
         /\ orders'[Len(orders) + 1] = o
    BY <1>8, <1>9, <1>10
  <1>12. \A c \in Branches : sequence'[c] = IF c = b THEN sequence[b] + 1 ELSE sequence[c]
    BY <1>5, <1>9, <1>10
  <1>13. TablesOK'
    <2>1. orders' \in Seq(Order) /\ sequence' \in [Branches -> Nat]
      BY <1>4, <1>8, <1>9, <1>10
    <2>2. \A i \in DOMAIN orders' : orders'[i].lines # <<>>
      BY <1>4, <1>7, <1>10, <1>11
    <2> QED
      BY <2>1, <2>2, CommitStock DEF TablesOK
  <1>14. ASSUME NEW q \in Requests \ {r}
         PROVE  HasNumber(session[q])' /\ HasKey(session[q])'
    <2>1. PICK u : u = session[q]
      OBVIOUS
    <2>2. session'[q] = u /\ Own(u) /\ u.held \cap s.held = {}
      BY <1>1, <1>9, <2>1 DEF IInv, Exclusive
    <2>3. HasNumber(session[q])'
      <3> SUFFICES ASSUME u.handler = "create", u.stage \in Numbered
                   PROVE  <<"ORD", u.branch>> \in u.held /\ u.number = sequence'[u.branch] + 1
        BY <2>2 DEF HasNumber
      <3>1. <<"ORD", u.branch>> \in u.held /\ u.number = sequence[u.branch] + 1
        BY <2>2 DEF Own, HasNumber
      <3>2. u.branch \in Branches /\ u.branch # b
        BY <1>5, <2>2, <3>1 DEF Own, Placed, LineStages, Numbered
      <3> QED
        BY <1>12, <3>1, <3>2
    <2>4. HasKey(session[q])'
      <3> SUFFICES ASSUME u.handler = "create", u.stage \in Inserted, u.key # None
                   PROVE  /\ <<"key", u.key>> \in u.held
                          /\ \A i \in DOMAIN orders' : orders'[i].key # u.key
        BY <2>2 DEF HasKey
      <3>1. <<"key", u.key>> \in u.held /\ \A i \in DOMAIN orders : orders[i].key # u.key
        BY <2>2 DEF Own, HasKey
      <3>2. o.key # u.key
        BY <1>6, <1>7, <2>2, <3>1
      <3> QED
        BY <1>11, <3>1, <3>2
    <2> QED
      BY <2>3, <2>4
  <1>15. NumbersGapless'
    <2>1. \A i \in DOMAIN orders : orders[i].branch \in Branches /\ orders[i].number \in Nat
      BY <1>10 DEF Order
    <2>2. \A i \in DOMAIN orders : orders[i].number \in 1 .. sequence[orders[i].branch]
      BY DEF IInv, NumbersGapless
    <2>3. ASSUME NEW i \in DOMAIN orders', NEW j \in DOMAIN orders',
                 i < j, orders'[i].branch = orders'[j].branch
          PROVE  orders'[i].number < orders'[j].number
      <3>1. CASE j \in DOMAIN orders
        <4>1. i \in DOMAIN orders
          BY <1>11, <2>3, <3>1
        <4> QED
          BY <1>11, <2>3, <3>1, <4>1 DEF IInv, NumbersGapless
      <3>2. CASE j = Len(orders) + 1
        <4>1. i \in DOMAIN orders /\ orders[i].branch = b
          BY <1>7, <1>11, <2>3, <3>2
        <4> QED
          BY <1>5, <1>7, <1>10, <1>11, <2>1, <2>2, <3>2, <4>1
      <3> QED
        BY <1>11, <3>1, <3>2
    <2>4. ASSUME NEW i \in DOMAIN orders'
          PROVE  orders'[i].number \in 1 .. sequence'[orders'[i].branch]
      <3>1. CASE i \in DOMAIN orders
        <4>1. PICK c \in Branches : c = orders[i].branch
          BY <2>1, <3>1
        <4>2. PICK n \in Nat : n = orders[i].number
          BY <2>1, <3>1
        <4>3. n \in 1 .. sequence[c]
          BY <2>2, <3>1, <4>1, <4>2
        <4>4. n \in 1 .. sequence'[c]
          BY <1>10, <1>12, <4>3
        <4> QED
          BY <1>11, <3>1, <4>1, <4>2, <4>4
      <3>2. CASE i = Len(orders) + 1
        BY <1>5, <1>7, <1>10, <1>11, <1>12, <3>2
      <3> QED
        BY <1>11, <3>1, <3>2
    <2>5. ASSUME NEW c \in Branches, NEW n \in 1 .. sequence'[c]
          PROVE  \E i \in DOMAIN orders' : orders'[i].branch = c /\ orders'[i].number = n
      <3>1. CASE c = b /\ n = sequence[b] + 1
        BY <1>5, <1>7, <1>11, <3>1
      <3>2. CASE ~(c = b /\ n = sequence[b] + 1)
        <4>1. n \in 1 .. sequence[c]
          BY <1>10, <1>12, <2>5, <3>2
        <4>2. PICK i \in DOMAIN orders : orders[i].branch = c /\ orders[i].number = n
          BY <4>1 DEF IInv, NumbersGapless
        <4> QED
          BY <1>11, <4>2
      <3> QED
        BY <3>1, <3>2
    <2> QED
      BY <2>3, <2>4, <2>5 DEF NumbersGapless
  <1>16. OneOrderPerKey'
    BY <1>6, <1>7, <1>11 DEF IInv, OneOrderPerKey
  <1> QED
    BY <1>11, <1>13, <1>14, <1>15, <1>16, CommitSessions DEF IInv

\* Cancellations, returns and adjustments leave numbers and keys as they are.
LEMMA CommitOtherPreserves ==
    ASSUME IInv, NEW r \in Requests, Commit(r), session[r].error = None,
           session[r].handler # "create"
    PROVE  IInv'
  <1>1. PICK n : n = session[r].order
    OBVIOUS
  <1>2. /\ orders' = orders \/ orders' = [orders EXCEPT ![n] = Cancelled(orders[n])]
        /\ sequence' = sequence
        /\ session' = [session EXCEPT ![r] = IdleSession]
    BY <1>1 DEF Commit, AdvanceSequence
  <1>3. orders \in Seq(Order) /\ sequence \in [Branches -> Nat]
        /\ \A i \in DOMAIN orders : orders[i] \in Order /\ orders[i].lines # <<>>
    BY DEF IInv, TablesOK
  <1>4. ASSUME NEW i \in DOMAIN orders
        PROVE  /\ Cancelled(orders[i]) \in Order
               /\ Cancelled(orders[i]).branch = orders[i].branch
               /\ Cancelled(orders[i]).number = orders[i].number
               /\ Cancelled(orders[i]).key = orders[i].key
               /\ Cancelled(orders[i]).lines = orders[i].lines
    <2>1. PICK o \in Order : o = orders[i]
      BY <1>3
    <2>2. o = [branch |-> o.branch, number |-> o.number, key |-> o.key,
               lines |-> o.lines, status |-> o.status, cancels |-> o.cancels]
      BY DEF Order
    <2>3. Cancelled(o) = [branch |-> o.branch, number |-> o.number, key |-> o.key,
                          lines |-> o.lines, status |-> "cancelled", cancels |-> o.cancels + 1]
      <3>1. PICK x : x = [o EXCEPT !.status = "cancelled"]
        OBVIOUS
      <3>2. x = [branch |-> o.branch, number |-> o.number, key |-> o.key,
                 lines |-> o.lines, status |-> "cancelled", cancels |-> o.cancels]
        BY <2>2, <3>1
      <3>3. PICK n1 : n1 = o.cancels + 1
        OBVIOUS
      <3>4. Cancelled(o) = [x EXCEPT !.cancels = n1]
        BY <3>1, <3>3, Zenon DEF Cancelled
      <3> QED
        BY <3>2, <3>3, <3>4
    <2>4. o.cancels + 1 \in Nat
      BY DEF Order
    <2>5. Cancelled(o) \in Order
      BY <2>3, <2>4 DEF Order
    <2> QED
      BY <2>1, <2>3, <2>5
  <1>5. /\ DOMAIN orders' = DOMAIN orders
        /\ orders' \in Seq(Order)
        /\ \A i \in DOMAIN orders :
             /\ orders'[i].branch = orders[i].branch /\ orders'[i].number = orders[i].number
             /\ orders'[i].key = orders[i].key /\ orders'[i].lines = orders[i].lines
    <2>1. CASE orders' = orders
      BY <1>3, <2>1
    <2>2. CASE n \notin DOMAIN orders /\ orders' = [orders EXCEPT ![n] = Cancelled(orders[n])]
      <3>1. PICK o : o = Cancelled(orders[n])
        OBVIOUS
      <3>2. orders' = [i \in DOMAIN orders |-> IF i = n THEN o ELSE orders[i]]
        BY <2>2, <3>1
      <3>3. orders = [i \in DOMAIN orders |-> orders[i]]
        BY <1>3
      <3>4. orders' = orders
        BY <2>2, <3>2, <3>3
      <3> QED
        BY <1>3, <3>4
    <2>3. CASE n \in DOMAIN orders /\ orders' = [orders EXCEPT ![n] = Cancelled(orders[n])]
      <3>1. PICK o \in Order : o = Cancelled(orders[n])
        BY <1>4, <2>3
      <3>2. orders' = [orders EXCEPT ![n] = o]
        BY <2>3, <3>1
      <3>3. \A i \in DOMAIN orders : orders'[i] = IF i = n THEN o ELSE orders[i]
        BY <1>3, <3>2
      <3>4. DOMAIN orders' = DOMAIN orders /\ orders' \in Seq(Order)
        BY <1>3, <2>3, <3>2
      <3> QED
        BY <1>4, <2>3, <3>1, <3>3, <3>4
    <2> QED
      BY <1>2, <2>1, <2>2, <2>3
  <1>6. TablesOK'
    BY <1>2, <1>3, <1>5, CommitStock DEF TablesOK
  <1>7. ASSUME NEW q \in Requests \ {r}
        PROVE  HasNumber(session[q])' /\ HasKey(session[q])'
    <2>1. session'[q] = session[q] /\ Own(session[q])
      BY <1>2 DEF IInv
    <2> QED
      BY <1>2, <1>5, <2>1 DEF Own, HasNumber, HasKey
  <1>8. NumbersGapless' /\ OneOrderPerKey'
    BY <1>2, <1>5 DEF IInv, NumbersGapless, OneOrderPerKey
  <1>9. Len(orders') >= Len(orders)
    BY <1>3, <1>5
  <1> QED
    BY <1>6, <1>7, <1>8, <1>9, CommitSessions DEF IInv

\* A commit, or the failure of its flush.
LEMMA CommitPreserves ==
    ASSUME IInv, NEW r \in Requests, Commit(r)
    PROVE  IInv'
  <1>1. CASE session[r].error = None
    BY <1>1, CommitCreatePreserves, CommitOtherPreserves
  <1>2. CASE session[r].error # None
    <2>1. PICK s : s = session[r]
      OBVIOUS
    <2>2. Own(s) /\ s.stage = "commit"
      BY <2>1 DEF IInv, Commit
    <2>3. PICK t : t = [s EXCEPT !.stage = "failed"]
      OBVIOUS
    <2>4. Continue(r, t)
      BY <1>2, <2>1, <2>3 DEF Commit
    <2>5. t = [handler |-> s.handler, stage |-> "failed", branch |-> s.branch, order |-> s.order,
               key |-> s.key, number |-> s.number, lines |-> s.lines, next |-> s.next,
               seen |-> s.seen, new |-> s.new, after |-> s.after,
               moved |-> s.moved, held |-> s.held,
               error |-> s.error]
      BY <2>2, <2>3 DEF Own, Typed, Fields
    <2>6. Typed(t)
      BY <2>2, <2>5 DEF Own, Typed, Fields, Stages
    <2>7. Placed(t) /\ HasNumber(t) /\ HasKey(t)
      BY <2>5 DEF Placed, HasNumber, HasKey, LineStages, Numbered, Inserted
    <2>8. HoldsItsWrites(t) /\ LocksInOrder(t) /\ Books(t) /\ HasOrder(t)
      BY <2>2, <2>5 DEF Own, HoldsItsWrites, LocksInOrder, Books, Visible, HasOrder
    <2>9. \A q \in Requests \ {r} : t.held \cap session[q].held = {}
      BY <2>1, <2>5 DEF IInv, Exclusive
    <2> QED
      BY <2>4, <2>6, <2>7, <2>8, <2>9, ContinuePreserves DEF Own
  <1> QED
    BY <1>1, <1>2

-----------------------------------------------------------------------------
\* The theorems.

\* Every way a request begins.
LEMMA BeginPreserves ==
    ASSUME IInv, NEW r \in Requests, BeginSome(r)
    PROVE  IInv'
  <1>1. CASE \E b \in Branches, key \in Keys \cup {None}, cart \in Carts :
                BeginCreate(r, b, key, cart)
    BY <1>1, BeginCreatePreserves
  <1>2. CASE \E i \in DOMAIN orders : BeginCancel(r, i)
    BY <1>2, BeginCancelPreserves
  <1>3. CASE \E i \in DOMAIN orders, b \in Branches, cart \in Carts : BeginReturn(r, i, b, cart)
    BY <1>3, BeginReturnPreserves
  <1>4. CASE \E b \in Branches, p \in Products, n \in Amounts : BeginAdjust(r, b, p, n)
    BY <1>4, BeginAdjustPreserves
  <1> QED
    BY <1>1, <1>2, <1>3, <1>4 DEF BeginSome

\* Every statement of a request under way.
LEMMA StepPreserves ==
    ASSUME IInv, NEW r \in Requests, Step(r)
    PROVE  IInv'
  <1>1. CASE NextSequence(r)
    BY <1>1, NextSequencePreserves
  <1>2. CASE InsertOrder(r)
    BY <1>2, InsertOrderPreserves
  <1>3. CASE ReadOnHand(r)
    BY <1>3, ReadOnHandPreserves
  <1>4. CASE DeductStock(r)
    BY <1>4, DeductStockPreserves
  <1>5. CASE RestoreStock(r)
    BY <1>5, RestoreStockPreserves
  <1>6. CASE ReadForReturn(r)
    BY <1>6, ReadForReturnPreserves
  <1>7. CASE WriteBack(r)
    BY <1>7, WriteBackPreserves
  <1>8. CASE Commit(r)
    BY <1>8, CommitPreserves
  <1> QED
    BY <1>1, <1>2, <1>3, <1>4, <1>5, <1>6, <1>7, <1>8 DEF Step

\* A step that changes nothing changes nothing that IInv is about.
LEMMA StutterPreserves ==
    ASSUME IInv, UNCHANGED vars
    PROVE  IInv'
  <1>1. session' = session /\ orders' = orders /\ sequence' = sequence
        /\ on_hand' = on_hand /\ last_after' = last_after /\ served' = served
        /\ ledger' = ledger /\ inbound' = inbound
    BY DEF vars, tables
  <1>2. TablesOK' /\ NumbersGapless' /\ OneOrderPerKey' /\ Exclusive'
    BY <1>1 DEF IInv, TablesOK, StockNeverNegative, NumbersGapless, OneOrderPerKey, Exclusive
  <1>3. session' = [r \in Requests |-> session'[r]]
    BY <1>1 DEF IInv
  <1>4. ASSUME NEW r \in Requests
        PROVE  Own(session[r])'
    BY <1>1 DEF IInv, Own, Typed, Fields, Placed, HasNumber, HasKey, HoldsItsWrites,
                LocksInOrder, Books, HasOrder, Visible
  <1> QED
    BY <1>1, <1>2, <1>3, <1>4 DEF IInv

(* What a transaction knows of the tables because of its locks holds at     *)
(* every statement, with any number of requests in flight, lost and         *)
(* retried: the inductive invariant of orders/service.py, returns/service.py *)
(* and inventory/service.py.                                                *)
THEOREM LocksCarryTheTables == Spec => []IInv
  <1>1. IInv /\ [Next]_vars => IInv'
    <2> SUFFICES ASSUME IInv, [Next]_vars PROVE IInv'
      OBVIOUS
    <2>1. CASE Next
      BY <2>1, BeginPreserves, StepPreserves, RollbackPreserves DEF Next
    <2>2. CASE UNCHANGED vars
      BY <2>2, StutterPreserves
    <2> QED
      BY <2>1, <2>2
  <1> QED
    BY InitEstablishes, <1>1, PTL DEF Spec

(* Order numbers of a branch run 1, 2, 3, ... without a gap or a duplicate, *)
(* however many sales are in flight or fail after _next_sequence.           *)
THEOREM NumbersAreGapless == Spec => []NumbersGapless
  <1>1. IInv => NumbersGapless
    BY DEF IInv
  <1> QED
    BY <1>1, LocksCarryTheTables, PTL

(* One idempotency key is one order at most, whichever branches and however *)
(* many retries: find_by_idempotency_key alone does not give this, the      *)
(* unique index does.                                                       *)
THEOREM KeysAreUsedOnce == Spec => []OneOrderPerKey
  <1>1. IInv => OneOrderPerKey
    BY DEF IInv
  <1> QED
    BY <1>1, LocksCarryTheTables, PTL

(* No balance is ever negative, and no quantity_after of a movement: the    *)
(* guarded UPDATE of deduct_stock and the CHECK of stock_movements suffice, *)
(* although returns write back values they read before others committed.    *)
THEOREM StockStaysNatural == Spec => []StockNeverNegative
  <1>1. IInv => StockNeverNegative
    BY DEF IInv, TablesOK
  <1> QED
    BY <1>1, LocksCarryTheTables, PTL

(* A row is locked by one request at a time, and an uncommitted quantity of *)
(* a sale, a cancellation or an adjustment is under such a lock.            *)
THEOREM LocksProtectWrites == Spec => []WritesAreLocked
  <1>1. IInv => WritesAreLocked
    BY DEF IInv, Exclusive, Own, HoldsItsWrites, WritesAreLocked
  <1> QED
    BY <1>1, LocksCarryTheTables, PTL

(* Types hold for every step of the endpoints: a number taken, a quantity   *)
(* read and a movement summed up stay what the columns can store.           *)
THEOREM TypeCorrect == Spec => []TypeOK
  <1>1. IInv => TypeOK
    <2> SUFFICES ASSUME IInv PROVE TypeOK
      OBVIOUS
    <2>1. \A i \in DOMAIN orders : orders[i] \in Order
      BY DEF IInv, TablesOK
    <2>2. ASSUME NEW r \in Requests
          PROVE  Typed(session[r]) /\ HasOrder(session[r])
      BY DEF IInv, Own
    <2> QED
      BY <2>1, <2>2 DEF IInv, TablesOK, StockNeverNegative, TypeOK, Typed, HasOrder
  <1> QED
    BY <1>1, LocksCarryTheTables, PTL

-----------------------------------------------------------------------------
\* Deadlocks.

\* Every request under way is a sale.
OnlySales == \A r \in Requests : session[r].stage # "idle" => session[r].handler = "create"

\* The stages that wait for a lock.
Waiting == {"sequence", "insert", "update", "write"}

\* A request that waits for another is at a statement that locks.
LEMMA WaiterNeeds ==
    ASSUME NEW r, NEW q, WaitsFor(r, q)
    PROVE  /\ session[r].stage \in Waiting
           /\ q # r
           /\ \E lock : lock \in Needs(session[r]) /\ lock \in session[q].held
  BY DEF WaitsFor, Needs, Waiting

(* The order of the locks of create_order excludes a cycle.  Whoever waits  *)
(* for a row holds its branch's sequence, and so does the holder of the     *)
(* row, so nobody waits for a row; whoever holds a key waits for nothing    *)
(* but rows; and whoever waits for a sequence holds nothing.                *)
LEMMA SalesHaveNoCycle ==
    ASSUME IInv, OnlySales
    PROVE  NoLockCycle
  <1> SUFFICES ASSUME NEW S \in SUBSET Requests, LockCycle(S)
               PROVE  FALSE
    BY DEF NoLockCycle
  <1>1. S # {} /\ \A r \in S : \E q \in S : WaitsFor(r, q)
    BY DEF LockCycle
  <1>2. ASSUME NEW r \in S
        PROVE  /\ Own(session[r]) /\ session[r].stage \in {"sequence", "insert", "update"}
               /\ session[r].handler = "create"
    <2>1. session[r].stage \in Waiting
      BY <1>1, WaiterNeeds
    <2>2. Own(session[r]) /\ session[r].handler = "create"
      BY <2>1 DEF IInv, OnlySales, Waiting
    <2> QED
      BY <2>1, <2>2 DEF Own, Placed, Waiting
  <1>3. ASSUME NEW r \in S
        PROVE  session[r].stage # "update"
    <2> SUFFICES ASSUME session[r].stage = "update" PROVE FALSE
      OBVIOUS
    <2>1. PICK q \in S : WaitsFor(r, q)
      BY <1>1
    <2>2. PICK row \in Rows : row = HeadRow(session[r])
      BY <1>2, HeadRowExists DEF LineStages
    <2>3. RowLock(row) \in session[q].held /\ q # r
      BY <2>1, <2>2, WaiterNeeds DEF Needs
    <2>4. <<"ORD", row[1]>> \in session[q].held
      BY <1>2, <2>3 DEF Own, LocksInOrder
    <2>5. <<"ORD", row[1]>> \in session[r].held
      BY <1>2, <2>2 DEF Own, HasNumber, Numbered, HeadRow
    <2> QED
      BY <2>3, <2>4, <2>5 DEF IInv, Exclusive
  <1>4. ASSUME NEW r \in S
        PROVE  session[r].stage # "insert"
    <2> SUFFICES ASSUME session[r].stage = "insert" PROVE FALSE
      OBVIOUS
    <2>1. PICK q \in S : WaitsFor(r, q)
      BY <1>1
    <2>2. <<"key", session[r].key>> \in session[q].held
      BY <2>1, WaiterNeeds DEF Needs
    <2>3. session[q].stage \in {"sequence", "insert"}
      BY <1>2, <1>3
    <2>4. session[q].held \subseteq {<<"ORD", session[q].branch>>}
      BY <1>2, <2>3 DEF Own, LocksInOrder
    <2> QED
      BY <2>2, <2>4
  <1>5. ASSUME NEW r \in S
        PROVE  FALSE
    <2>1. PICK q \in S : WaitsFor(r, q)
      BY <1>1
    <2>2. session[q].stage = "sequence"
      BY <1>2, <1>3, <1>4
    <2>3. session[q].held = {}
      BY <1>2, <2>2 DEF Own, LocksInOrder
    <2> QED
      BY <2>1, <2>3, WaiterNeeds
  <1> QED
    BY <1>1, <1>5

\* A run of MCStockRequests is a behaviour of OrderStock, and every request under way
\* is one of its workload.
LEMMA WorkloadsAreRuns ==
    MCFairSpec => Spec /\ [](workload.handlers = Sales => OnlySales)
  <1>1. MCInit => Init
    BY DEF MCInit
  <1>2. [MCNext]_<<vars, workload>> => [Next]_vars
    BY DEF MCNext
  <1> DEFINE OfWorkload == \A r \in Requests : Within(session[r])
  <1>3. MCInit => OfWorkload
    BY DEF MCInit, Init, Within, IdleSession
  <1>4. OfWorkload /\ [MCNext]_<<vars, workload>> => OfWorkload'
    <2>1. ASSUME MCNext PROVE OfWorkload'
      BY <2>1 DEF MCNext, Within
    <2>2. ASSUME OfWorkload, UNCHANGED <<vars, workload>> PROVE OfWorkload'
      BY <2>2 DEF vars, Within
    <2> QED
      BY <2>1, <2>2
  <1>5. OfWorkload => (workload.handlers = Sales => OnlySales)
    BY DEF Within, Sales, OnlySales
  <1> QED
    BY <1>1, <1>2, <1>3, <1>4, <1>5, PTL DEF MCFairSpec, Spec

(* While orders are only created no two of them ever wait for each other,   *)
(* whatever their branches, keys and items: no sale is a deadlock's victim. *)
THEOREM SalesAreDeadlockFree == MCFairSpec => []SalesNeverDeadlock
  <1>1. IInv /\ (workload.handlers = Sales => OnlySales) => SalesNeverDeadlock
    BY SalesHaveNoCycle DEF SalesNeverDeadlock
  <1> QED
    BY <1>1, WorkloadsAreRuns, LocksCarryTheTables, PTL

-----------------------------------------------------------------------------
\* Movements.

\* A session whose movements tell what it writes: each quantity_after is the row's, and the
\* quantity read for the next one still is.
Steady(s) ==
    /\ \A row \in Rows : s.after[row] = s.new[row]
    /\ s.stage = "update" => s.seen = Visible(s, HeadRow(s))
    /\ \A row \in Rows : Visible(s, row) = on_hand[row] + s.moved[row]

AllSteady ==
    /\ LedgerExplainsStock /\ NewestMovementIsBalance
    /\ \A r \in Requests : Steady(session[r])

\* At most one request is under way.
Alone ==
    \A r, q \in Requests : r # q => session[r].stage = "idle" \/ session[q].stage = "idle"

\* A commit of anything but a return adds its movements to the balances.
LEMMA LedgerStep ==
    ASSUME IInv, LedgerExplainsStock, NEW r \in Requests, Commit(r), session[r].error = None,
           \A row \in Rows : Visible(session[r], row) = on_hand[row] + session[r].moved[row]
    PROVE  LedgerExplainsStock'
  <1>1. PICK s : s = session[r]
    OBVIOUS
  <1>2. /\ on_hand' = [row \in Rows |-> Visible(s, row)]
        /\ ledger' = [row \in Rows |-> ledger[row] + s.moved[row]]
    BY <1>1 DEF Commit
  <1> QED
    BY <1>1, <1>2 DEF LedgerExplainsStock

\* A step that commits nothing leaves the balances and the sums alone.
LEMMA TablesStay ==
    ASSUME UNCHANGED tables
    PROVE  /\ LedgerExplainsStock => LedgerExplainsStock'
           /\ NewestMovementIsBalance => NewestMovementIsBalance'
  BY DEF tables, LedgerExplainsStock, NewestMovementIsBalance

\* Without returns the ledger keeps explaining the stock, whatever runs concurrently.
LEMMA LedgerKept ==
    ASSUME IInv, LedgerExplainsStock, [Next]_vars,
           \A r \in Requests : session[r].handler # "return"
    PROVE  LedgerExplainsStock'
  <1>1. ASSUME NEW r \in Requests, Commit(r)
        PROVE  LedgerExplainsStock'
    <2>1. CASE session[r].error = None
      <3>1. \A row \in Rows : Visible(session[r], row) = on_hand[row] + session[r].moved[row]
        BY DEF IInv, Own, Books
      <3> QED
        BY <1>1, <2>1, <3>1, LedgerStep
    <2>2. CASE session[r].error # None
      BY <1>1, <2>2, TablesStay DEF Commit, Continue
    <2> QED
      BY <2>1, <2>2
  <1>2. ASSUME NEW r \in Requests, BeginSome(r)
        PROVE  UNCHANGED tables
    <2>1. ASSUME NEW handler, NEW s, Begin(r, handler, s)
          PROVE  UNCHANGED tables
      BY <2>1 DEF Begin
    <2>2. ASSUME NEW b \in Branches, NEW p \in Products, NEW n \in Amounts,
                 BeginAdjust(r, b, p, n)
          PROVE  \E handler, s : Begin(r, handler, s)
      BY <2>2 DEF BeginAdjust
    <2> QED
      BY <1>2, <2>1, <2>2 DEF BeginSome, BeginCreate, BeginCancel, BeginReturn
  <1>3. ASSUME NEW r \in Requests, Step(r), ~Commit(r)
        PROVE  UNCHANGED tables
    BY <1>3 DEF Step, NextSequence, InsertOrder, ReadOnHand, DeductStock, RestoreStock,
                UpdateRow, ReadForReturn, WriteBack, Continue
  <1>4. ASSUME NEW r \in Requests, Rollback(r)
        PROVE  UNCHANGED tables
    BY <1>4 DEF Rollback, Continue
  <1>5. ASSUME UNCHANGED vars
        PROVE  UNCHANGED tables
    BY <1>5 DEF vars
  <1> QED
    BY <1>1, <1>2, <1>3, <1>4, <1>5, TablesStay DEF Next

\* A statement that commits nothing and leaves its own session steady leaves all steady.
LEMMA ContinueSteady ==
    ASSUME IInv, AllSteady, NEW r \in Requests, NEW t, Steady(t),
           session' = [session EXCEPT ![r] = t], UNCHANGED tables
    PROVE  AllSteady'
  <1>1. \A q \in Requests : session'[q] = IF q = r THEN t ELSE session[q]
    BY DEF IInv
  <1>2. on_hand' = on_hand
    BY DEF tables
  <1>3. ASSUME NEW q \in Requests
        PROVE  Steady(session[q])'
    <2>1. Steady(session'[q])
      BY <1>1 DEF AllSteady
    <2> QED
      BY <1>2, <2>1 DEF Steady, Visible, HeadRow
  <1> QED
    BY <1>3, TablesStay DEF AllSteady

\* A return has written nothing when it begins.
Unwritten(handler, s) ==
    handler # "return" \/ (s.new = IdleSession.new /\ s.moved = IdleSession.moved)

\* A session that has begun has written nothing, or an adjustment's one quantity.
LEMMA BeginSteady ==
    ASSUME IInv, IInv', AllSteady, NEW r \in Requests, BeginSome(r)
    PROVE  AllSteady'
  <1>1. ASSUME NEW handler, NEW s, Begin(r, handler, s),
               s.new = s.after, s.stage # "update", DOMAIN s = DOMAIN IdleSession,
               Unwritten(handler, s)
        PROVE  AllSteady'
    <2>1. PICK t : t = [s EXCEPT !.handler = handler]
      OBVIOUS
    <2>2. /\ t.new = s.new /\ t.after = s.after /\ t.stage = s.stage /\ t.moved = s.moved
          /\ t.handler = handler
      BY <1>1, <2>1 DEF IdleSession
    <2>3. session' = [session EXCEPT ![r] = t] /\ UNCHANGED tables
      BY <1>1, <2>1 DEF Begin
    <2>4. session'[r] = t
      BY <2>3 DEF IInv
    <2>5. \A row \in Rows : Visible(t, row) = on_hand[row] + t.moved[row]
      <3>1. CASE handler # "return"
        <4>1. Books(session[r])' /\ on_hand' = on_hand
          BY <2>3 DEF IInv, Own, tables
        <4> QED
          BY <2>2, <2>4, <3>1, <4>1 DEF Books, Visible
      <3>2. CASE s.new = IdleSession.new /\ s.moved = IdleSession.moved
        BY <2>2, <3>2 DEF Visible, IdleSession, IInv, TablesOK, StockNeverNegative
      <3> QED
        BY <1>1, <3>1, <3>2 DEF Unwritten
    <2>6. Steady(t)
      BY <1>1, <2>2, <2>5 DEF Steady
    <2> QED
      BY <2>3, <2>6, ContinueSteady
  <1>2. ASSUME NEW b \in Branches, NEW key \in Keys \cup {None}, NEW cart \in Carts,
               BeginCreate(r, b, key, cart)
        PROVE  AllSteady'
    <2>1. PICK s : s = [IdleSession EXCEPT !.stage = "sequence", !.branch = b,
                                           !.key = key, !.lines = cart]
      OBVIOUS
    <2>2. Begin(r, "create", s) /\ Unwritten("create", s)
      BY <1>2, <2>1 DEF BeginCreate, Unwritten
    <2>3. s.new = s.after /\ s.stage # "update" /\ DOMAIN s = DOMAIN IdleSession
      BY <2>1 DEF IdleSession
    <2> QED
      BY <1>1, <2>2, <2>3
  <1>3. ASSUME NEW i \in DOMAIN orders, BeginCancel(r, i)
        PROVE  AllSteady'
    <2>1. PICK s : s = [IdleSession EXCEPT !.stage = "read", !.order = i,
                                           !.branch = orders[i].branch,
                                           !.lines = orders[i].lines]
      OBVIOUS
    <2>2. Begin(r, "cancel", s) /\ Unwritten("cancel", s)
      BY <1>3, <2>1 DEF BeginCancel, Unwritten
    <2>3. s.new = s.after /\ s.stage # "update" /\ DOMAIN s = DOMAIN IdleSession
      BY <2>1 DEF IdleSession
    <2> QED
      BY <1>1, <2>2, <2>3
  <1>4. ASSUME NEW i \in DOMAIN orders, NEW b \in Branches, NEW cart \in Carts,
               BeginReturn(r, i, b, cart)
        PROVE  AllSteady'
    <2>1. PICK s : s = [IdleSession EXCEPT !.stage = "sequence", !.order = i,
                                           !.branch = b, !.lines = cart]
      OBVIOUS
    <2>2. Begin(r, "return", s)
      BY <1>4, <2>1 DEF BeginReturn
    <2>3. /\ s.new = s.after /\ s.stage # "update" /\ DOMAIN s = DOMAIN IdleSession
          /\ Unwritten("return", s)
      BY <2>1 DEF IdleSession, Unwritten
    <2> QED
      BY <1>1, <2>2, <2>3
  <1>5. ASSUME NEW b \in Branches, NEW p \in Products, NEW n \in Amounts,
               BeginAdjust(r, b, p, n)
        PROVE  AllSteady'
    <2>1. PICK row, new, e : /\ row = <<b, p>> /\ new = Adjusted(on_hand[row], n)
                             /\ e = [IdleSession EXCEPT !.branch = b,
                                       !.lines = <<[product |-> p, quantity |-> n]>>]
      OBVIOUS
    <2>2. e.new = e.after /\ e.stage = "idle" /\ DOMAIN e = DOMAIN IdleSession
      BY <2>1 DEF IdleSession
    <2>3. CASE n < 0
      <3>1. PICK s : s = [e EXCEPT !.stage = "failed", !.error = "on_hand check"]
        OBVIOUS
      <3>2. Begin(r, "adjust", s) /\ Unwritten("adjust", s)
        BY <1>5, <2>1, <2>3, <3>1 DEF BeginAdjust, Unwritten
      <3>3. s.new = s.after /\ s.stage # "update" /\ DOMAIN s = DOMAIN IdleSession
        BY <2>2, <3>1 DEF IdleSession
      <3> QED
        BY <1>1, <3>2, <3>3
    <2>4. CASE ~(n < 0)
      <3>1. PICK s : s = [e EXCEPT !.stage = "commit", !.held = {RowLock(row)},
                                   !.new[row] = new, !.after[row] = new, !.moved[row] = n]
        OBVIOUS
      <3>2. Begin(r, "adjust", s) /\ Unwritten("adjust", s)
        BY <1>5, <2>1, <2>4, <3>1 DEF BeginAdjust, Unwritten
      <3>3. s.new = s.after /\ s.stage # "update" /\ DOMAIN s = DOMAIN IdleSession
        BY <2>2, <3>1 DEF IdleSession
      <3> QED
        BY <1>1, <3>2, <3>3
    <2> QED
      BY <2>3, <2>4
  <1> QED
    BY <1>2, <1>3, <1>4, <1>5 DEF BeginSome

\* A step that writes no row leaves what its session knows.
LEMMA LockSteady ==
    ASSUME IInv, AllSteady, NEW r \in Requests, NEW t, Continue(r, t), t.stage # "update",
           t.new = session[r].new, t.after = session[r].after, t.moved = session[r].moved
    PROVE  AllSteady'
  <1>1. Steady(t)
    BY DEF AllSteady, Steady, Visible
  <1> QED
    BY <1>1, ContinueSteady DEF Continue

\* The UPDATE of a line writes what its movement says.
LEMMA UpdateSteady ==
    ASSUME IInv, AllSteady, NEW r \in Requests, NEW change \in Int, UpdateRow(r, change),
           session[r].stage = "update"
    PROVE  AllSteady'
  <1>1. PICK s : s = session[r]
    OBVIOUS
  <1>2. Own(s) /\ Fields(s) /\ Steady(s) /\ s.stage = "update"
    BY <1>1 DEF IInv, Own, Typed, AllSteady
  <1>3. PICK row \in Rows : row = HeadRow(s)
    BY <1>2, HeadRowExists DEF LineStages
  <1>4. PICK amount \in Int : amount = Visible(s, row) + change
    BY <1>2, VisibleIsNat
  <1>5. /\ s.new \in [Rows -> Nat \cup {None}] /\ s.after \in [Rows -> Int \cup {None}]
        /\ s.moved \in [Rows -> Int] /\ on_hand \in [Rows -> Nat]
    BY <1>2 DEF Own, Typed, IInv, TablesOK, StockNeverNegative
  <1>6. amount = QuantityAfter(s.seen, change)
    BY <1>2, <1>3, <1>4 DEF Steady, QuantityAfter
  <1>7. PICK sum \in Int : sum = s.moved[row] + change
    BY <1>5
  <1>8. PICK t : t = Updated(s, row, amount, amount, sum)
    OBVIOUS
  <1>9. Continue(r, t)
    BY <1>1, <1>2, <1>3, <1>4, <1>6, <1>7, <1>8, UpdateRowEffect
  <1>10. /\ t.new = [s.new EXCEPT ![row] = amount] /\ t.after = [s.after EXCEPT ![row] = amount]
         /\ t.moved = [s.moved EXCEPT ![row] = sum] /\ t.stage # "update"
    BY <1>8 DEF Updated
  <1>11. \A x \in Rows : t.after[x] = t.new[x]
    BY <1>2, <1>5, <1>10 DEF Steady
  <1>12. ASSUME NEW x \in Rows
         PROVE  Visible(t, x) = on_hand[x] + t.moved[x]
    <2>1. Visible(s, x) = on_hand[x] + s.moved[x]
      BY <1>2 DEF Steady
    <2>2. CASE x = row
      <3>1. Visible(t, x) = amount
        BY <1>4, <1>5, <1>10, <2>2, ConstantsOK DEF Visible
      <3> QED
        BY <1>4, <1>5, <1>7, <1>10, <2>1, <2>2, <3>1
    <2>3. CASE x # row
      BY <1>5, <1>10, <2>1, <2>3 DEF Visible
    <2> QED
      BY <2>2, <2>3
  <1>13. Steady(t)
    BY <1>10, <1>11, <1>12 DEF Steady
  <1> QED
    BY <1>9, <1>13, ContinueSteady DEF Continue

\* A return's movement says what its flush will write.
LEMMA ReturnSteady ==
    ASSUME IInv, AllSteady, NEW r \in Requests, ReadForReturn(r)
    PROVE  AllSteady'
  <1>1. PICK s : s = session[r]
    OBVIOUS
  <1>2. Own(s) /\ Fields(s) /\ Steady(s) /\ s.stage = "read"
    BY <1>1 DEF IInv, Own, Typed, AllSteady, ReadForReturn
  <1>3. PICK row \in Rows : row = HeadRow(s)
    BY <1>2, HeadRowExists DEF LineStages
  <1>4. PICK quantity \in Nat : quantity = s.lines[s.next].quantity
    BY <1>2, HeadRowExists DEF LineStages
  <1>5. PICK back \in Nat : back = Visible(s, row) + quantity
    BY <1>2, VisibleIsNat
  <1>6. /\ s.new \in [Rows -> Nat \cup {None}] /\ s.after \in [Rows -> Int \cup {None}]
        /\ s.moved \in [Rows -> Int] /\ on_hand \in [Rows -> Nat]
    BY <1>2 DEF Own, Typed, IInv, TablesOK, StockNeverNegative
  <1>7. PICK sum \in Int : sum = s.moved[row] + quantity
    BY <1>6
  <1>8. PICK u : u = [s EXCEPT !.new[row] = back, !.after[row] = back, !.moved[row] = sum]
    OBVIOUS
  <1>9. PICK t : t = NextLine(u, "read", "write")
    OBVIOUS
  <1>10. Continue(r, t)
    BY <1>1, <1>3, <1>4, <1>5, <1>7, <1>8, <1>9 DEF ReadForReturn
  <1>11. /\ u.new = [s.new EXCEPT ![row] = back] /\ u.after = [s.after EXCEPT ![row] = back]
         /\ u.moved = [s.moved EXCEPT ![row] = sum] /\ DOMAIN u = DOMAIN s
    BY <1>2, <1>8 DEF Fields
  <1>12. /\ t.new = u.new /\ t.after = u.after /\ t.moved = u.moved /\ t.stage # "update"
    BY <1>2, <1>9, <1>11 DEF NextLine, Fields
  <1>13. \A x \in Rows : t.after[x] = t.new[x]
    BY <1>2, <1>6, <1>11, <1>12 DEF Steady
  <1>14. ASSUME NEW x \in Rows
         PROVE  Visible(t, x) = on_hand[x] + t.moved[x]
    <2>1. Visible(s, x) = on_hand[x] + s.moved[x]
      BY <1>2 DEF Steady
    <2>2. CASE x = row
      <3>1. Visible(t, x) = back
        BY <1>5, <1>6, <1>11, <1>12, <2>2, ConstantsOK DEF Visible
      <3> QED
        BY <1>4, <1>5, <1>6, <1>7, <1>11, <1>12, <2>1, <2>2, <3>1
    <2>3. CASE x # row
      BY <1>6, <1>11, <1>12, <2>1, <2>3 DEF Visible
    <2> QED
      BY <2>2, <2>3
  <1>15. Steady(t)
    BY <1>12, <1>13, <1>14 DEF Steady
  <1> QED
    BY <1>10, <1>15, ContinueSteady DEF Continue

\* A session that is not begun is of no endpoint.
LEMMA NoneIsNoHandler == None # "return"
  BY OrderStockAssumption

\* A commit leaves the other requests steady when they are sales, which hold the sequences
\* of other branches, or when there are none.
LEMMA CommitSteady ==
    ASSUME IInv, IInv', OnlySales \/ Alone, AllSteady, NEW r \in Requests, Commit(r)
    PROVE  AllSteady'
  <1>1. PICK s : s = session[r]
    OBVIOUS
  <1>2. Own(s) /\ Fields(s) /\ Steady(s) /\ s.stage = "commit"
    BY <1>1 DEF IInv, Own, Typed, AllSteady, Commit
  <1>3. CASE s.error # None
    <2>1. PICK t : t = [s EXCEPT !.stage = "failed"]
      OBVIOUS
    <2>2. t.stage = "failed" /\ t.new = s.new /\ t.after = s.after /\ t.moved = s.moved
      BY <1>2, <2>1 DEF Fields
    <2>3. Continue(r, t)
      BY <1>1, <1>3, <2>1 DEF Commit
    <2> QED
      BY <1>1, <2>2, <2>3, LockSteady
  <1>4. CASE s.error = None
    <2>1. \A row \in Rows : /\ Visible(s, row) = on_hand[row] + s.moved[row]
                            /\ s.after[row] = s.new[row]
      BY <1>2 DEF Steady
    <2>2. LedgerExplainsStock'
      BY <1>1, <1>4, <2>1, LedgerStep DEF AllSteady
    <2>3. /\ on_hand' = [row \in Rows |-> Visible(s, row)]
          /\ last_after' = [row \in Rows |-> IF s.after[row] = None
                                             THEN last_after[row] ELSE s.after[row]]
          /\ session' = [session EXCEPT ![r] = IdleSession]
      BY <1>1, <1>4 DEF Commit
    <2>4. NewestMovementIsBalance'
      BY <2>1, <2>3 DEF AllSteady, NewestMovementIsBalance, Visible
    <2>5. ASSUME NEW q \in Requests
          PROVE  Steady(session[q])'
      <3>1. session'[q] = IF q = r THEN IdleSession ELSE session[q]
        BY <2>3 DEF IInv
      <3>2. CASE q = r
        <4>1. on_hand' \in [Rows -> Nat]
          BY DEF IInv, TablesOK, StockNeverNegative
        <4> QED
          BY <3>1, <3>2, <4>1 DEF Steady, Visible, IdleSession
      <3>3. CASE q # r
        <4>1. PICK u : u = session[q]
          OBVIOUS
        <4>2. session'[q] = u /\ Own(u) /\ Steady(u) /\ u.held \cap s.held = {}
          BY <1>1, <3>1, <3>3, <4>1 DEF IInv, Exclusive, AllSteady
        <4>3. u.stage = "idle" \/ (u.handler = "create" /\ s.handler = "create")
          BY <1>1, <1>2, <3>3, <4>1 DEF OnlySales, Alone
        <4>4. u.handler # "return"
          BY <4>2, <4>3, ConstantsOK, NoneIsNoHandler DEF Own, Typed
        <4>5. \A row \in Rows : (IF u.new[row] = None THEN on_hand'[row] ELSE u.new[row])
                                   = on_hand'[row] + u.moved[row]
          <5>1. Books(session[q])'
            BY DEF IInv, Own
          <5> QED
            BY <4>2, <4>4, <5>1 DEF Books, Visible
        <4>6. ASSUME u.stage = "update"
              PROVE  u.seen = IF u.new[HeadRow(u)] = None THEN on_hand'[HeadRow(u)]
                              ELSE u.new[HeadRow(u)]
          <5>1. PICK row \in Rows : row = HeadRow(u)
            BY <4>2, <4>6, HeadRowExists DEF LineStages
          <5>2. <<"ORD", row[1]>> \in u.held
            BY <4>2, <4>3, <4>6, <5>1 DEF Own, HasNumber, Numbered, HeadRow
          <5>3. RowLock(row) \notin s.held
            BY <1>2, <4>2, <4>3, <4>6, <5>2 DEF Own, LocksInOrder
          <5>4. s.new[row] = None
            BY <1>2, <5>3 DEF Own, HoldsItsWrites
          <5>5. on_hand'[row] = on_hand[row]
            BY <2>3, <5>4 DEF Visible
          <5> QED
            BY <4>2, <4>6, <5>1, <5>5 DEF Steady, Visible
        <4> QED
          BY <4>2, <4>5, <4>6 DEF Steady, Visible, HeadRow
      <3> QED
        BY <3>2, <3>3
    <2> QED
      BY <2>2, <2>4, <2>5 DEF AllSteady
  <1> QED
    BY <1>3, <1>4

\* A request at its next statement has its fields, and reads or writes a row of its branch.
LEMMA StepSteady ==
    ASSUME IInv, IInv', OnlySales \/ Alone, AllSteady, NEW r \in Requests, Step(r)
    PROVE  AllSteady'
  <1>1. PICK s : s = session[r]
    OBVIOUS
  <1>2. Own(s) /\ Fields(s)
    BY <1>1 DEF IInv, Own, Typed
  <1>3. ASSUME NextSequence(r)
        PROVE  AllSteady'
    <2>1. PICK t : t = [s EXCEPT !.held = @ \cup {SequenceLock(s)},
                                 !.number = IF s.handler = "create"
                                            THEN sequence[s.branch] + 1 ELSE 0,
                                 !.stage = IF s.handler = "create" THEN "insert" ELSE "read"]
      OBVIOUS
    <2>2. t.stage # "update" /\ t.new = s.new /\ t.after = s.after /\ t.moved = s.moved
      BY <1>2, <2>1 DEF Fields
    <2>3. Continue(r, t)
      BY <1>1, <1>3, <2>1 DEF NextSequence
    <2> QED
      BY <1>1, <2>2, <2>3, LockSteady
  <1>4. ASSUME InsertOrder(r)
        PROVE  AllSteady'
    <2>1. ASSUME NEW t, Continue(r, t), t.stage \in {"failed", "read"},
                 t.new = s.new, t.after = s.after, t.moved = s.moved
          PROVE  AllSteady'
      BY <1>1, <2>1, LockSteady
    <2>2. PICK t : t = [s EXCEPT !.stage = "failed", !.error = "duplicate key"]
      OBVIOUS
    <2>3. PICK u : u = [s EXCEPT !.held = @ \cup Needs(s), !.stage = "read"]
      OBVIOUS
    <2>4. Continue(r, t) \/ Continue(r, u)
      BY <1>1, <1>4, <2>2, <2>3 DEF InsertOrder
    <2>5. t.stage = "failed" /\ t.new = s.new /\ t.after = s.after /\ t.moved = s.moved
      BY <1>2, <2>2 DEF Fields
    <2>6. u.stage = "read" /\ u.new = s.new /\ u.after = s.after /\ u.moved = s.moved
      BY <1>2, <2>3 DEF Fields
    <2> QED
      BY <2>1, <2>4, <2>5, <2>6
  <1>5. ASSUME ReadOnHand(r)
        PROVE  AllSteady'
    <2>1. PICK seen : seen = Visible(s, HeadRow(s))
      OBVIOUS
    <2>2. PICK t : t = [s EXCEPT !.seen = seen, !.stage = "update"]
      OBVIOUS
    <2>3. /\ t.new = s.new /\ t.after = s.after /\ t.moved = s.moved /\ t.seen = seen
          /\ HeadRow(t) = HeadRow(s)
      BY <1>2, <2>2 DEF Fields, HeadRow
    <2>4. Continue(r, t)
      BY <1>1, <1>5, <2>1, <2>2 DEF ReadOnHand
    <2>5. Steady(t)
      BY <1>1, <2>1, <2>3 DEF AllSteady, Steady, Visible
    <2> QED
      BY <2>4, <2>5, ContinueSteady DEF Continue
  <1>6. ASSUME DeductStock(r)
        PROVE  AllSteady'
    <2>1. PICK q \in Nat : q = s.lines[s.next].quantity
      BY <1>1, <1>2, <1>6, HeadRowExists DEF DeductStock, LineStages
    <2>2. CASE UpdateRow(r, -q)
      BY <1>6, <2>2, UpdateSteady DEF DeductStock
    <2>3. CASE ~UpdateRow(r, -q)
      <3>1. PICK t : t = [s EXCEPT !.stage = "failed", !.error = "insufficient stock"]
        OBVIOUS
      <3>2. Continue(r, t)
        BY <1>1, <1>6, <2>1, <2>3, <3>1 DEF DeductStock
      <3>3. t.stage = "failed" /\ t.new = s.new /\ t.after = s.after /\ t.moved = s.moved
        BY <1>2, <3>1 DEF Fields
      <3> QED
        BY <1>1, <3>2, <3>3, LockSteady
    <2> QED
      BY <2>2, <2>3
  <1>7. ASSUME RestoreStock(r)
        PROVE  AllSteady'
    <2>1. PICK q \in Nat : q = s.lines[s.next].quantity
      BY <1>1, <1>2, <1>7, HeadRowExists DEF RestoreStock, LineStages
    <2>2. UpdateRow(r, q) /\ session[r].stage = "update"
      BY <1>1, <1>7, <2>1 DEF RestoreStock
    <2> QED
      BY <2>1, <2>2, UpdateSteady
  <1>8. ASSUME WriteBack(r)
        PROVE  AllSteady'
    <2>1. PICK held : held = s.held \cup Needs(s)
      OBVIOUS
    <2>2. PICK t : t = [s EXCEPT !.held = held,
                            !.stage = IF \E row \in Rows : s.new[row] # None
                                                           /\ RowLock(row) \notin held
                                      THEN @ ELSE "commit"]
      OBVIOUS
    <2>3. Continue(r, t)
      BY <1>1, <1>8, <2>1, <2>2 DEF WriteBack
    <2>4. t.stage # "update" /\ t.new = s.new /\ t.after = s.after /\ t.moved = s.moved
      BY <1>1, <1>2, <1>8, <2>2 DEF Fields, WriteBack
    <2> QED
      BY <1>1, <2>3, <2>4, LockSteady
  <1> QED
    BY <1>3, <1>4, <1>5, <1>6, <1>7, <1>8, ReturnSteady, CommitSteady DEF Step

\* Every step keeps the sessions steady when only sales overlap, or nothing does.
LEMMA SteadyKept ==
    ASSUME IInv, IInv', OnlySales \/ Alone, AllSteady, [Next]_vars
    PROVE  AllSteady'
  <1>1. ASSUME NEW r \in Requests, Rollback(r)
        PROVE  AllSteady'
    <2>1. Steady(IdleSession)
      BY DEF Steady, Visible, IdleSession, IInv, TablesOK, StockNeverNegative
    <2> QED
      BY <1>1, <2>1, ContinueSteady DEF Rollback, Continue
  <1>2. ASSUME UNCHANGED vars
        PROVE  AllSteady'
    <2>1. on_hand' = on_hand /\ session' = session /\ UNCHANGED tables
      BY <1>2 DEF vars, tables
    <2> QED
      BY <2>1, TablesStay DEF AllSteady, Steady, Visible, HeadRow
  <1> QED
    BY <1>1, <1>2, BeginSteady, StepSteady DEF Next

-----------------------------------------------------------------------------
\* Bottles.

AtWork == LineStages \cup {"commit"}

\* The movements of a sale are the bottles of the lines it has done, and those of a
\* cancellation bring them back.
Counted(s) ==
    s.handler \in {"create", "cancel"} /\ s.stage \in AtWork =>
        /\ s.branch \in Branches /\ s.lines \in Lines
        /\ s.next \in 1 .. Len(s.lines) + 1
        /\ s.stage = "commit" => s.next = Len(s.lines) + 1
        /\ \A row \in Rows :
             s.moved[row] =
               IF row[1] # s.branch THEN 0
               ELSE IF s.handler = "create" THEN 0 - SumTo(QuantityOf(s.lines, row[2]), s.next - 1)
               ELSE SumTo(QuantityOf(s.lines, row[2]), s.next - 1)

\* What a cancellation cancels is still as it found it.
CancelsPending(s) ==
    s.handler = "cancel" /\ s.stage \in AtWork =>
        /\ s.order \in DOMAIN orders
        /\ orders[s.order].status = "pending"
        /\ orders[s.order].branch = s.branch
        /\ orders[s.order].lines = s.lines

Accounted ==
    /\ StockAccounted
    /\ \A r \in Requests : Counted(session[r]) /\ CancelsPending(session[r])

\* The quantities of a list, line by line and in all.
LEMMA LinesSum ==
    ASSUME NEW lines \in Lines, NEW p
    PROVE  /\ Len(lines) \in Nat
           /\ Quantity(lines, p) = SumTo(QuantityOf(lines, p), Len(lines))
           /\ Quantity(lines, p) \in Nat
           /\ \A n \in 1 .. Len(lines) :
                /\ SumTo(QuantityOf(lines, p), n - 1) \in Int
                /\ SumTo(QuantityOf(lines, p), n) = SumTo(QuantityOf(lines, p), n - 1)
                     + IF lines[n].product = p THEN lines[n].quantity ELSE 0
  <1>1. PICK v : v = QuantityOf(lines, p)
    OBVIOUS
  <1>2. /\ Len(lines) \in Nat /\ DOMAIN lines = 1 .. Len(lines)
        /\ \A i \in 1 .. Len(lines) : lines[i].quantity \in Nat
    <2>1. Len(lines) \in Nat /\ DOMAIN lines = 1 .. Len(lines)
      BY DEF Lines
    <2>2. ASSUME NEW i \in 1 .. Len(lines)
          PROVE  lines[i] \in [product : Products, quantity : Nat \ {0}]
      BY Element DEF Lines
    <2>3. ASSUME NEW i \in 1 .. Len(lines)
          PROVE  lines[i].quantity \in Nat
      BY <2>2
    <2> QED
      BY <2>1, <2>3
  <1>3. /\ v = [i \in 1 .. Len(lines) |-> v[i]]
        /\ \A i \in 1 .. Len(lines) :
             /\ v[i] = IF lines[i].product = p THEN lines[i].quantity ELSE 0
             /\ v[i] \in Nat
    BY <1>1, <1>2 DEF QuantityOf
  <1>4. Len(v) = Len(lines)
    BY <1>2, <1>3, TableOf
  <1>5. Quantity(lines, p) = SumTo(v, Len(lines))
    BY <1>1, <1>4 DEF Quantity, SumOf
  <1>6. SumTo(v, Len(lines)) \in Nat
    BY <1>2, <1>3, SumType
  <1>7. ASSUME NEW n \in 1 .. Len(lines)
        PROVE  /\ SumTo(v, n - 1) \in Int
               /\ SumTo(v, n) = SumTo(v, n - 1)
                     + IF lines[n].product = p THEN lines[n].quantity ELSE 0
    <2>1. PICK m \in Nat : m = n - 1 /\ m + 1 = n
      BY <1>2
    <2>2. \A k \in 1 .. m : v[k] \in Int
      BY <1>2, <1>3, <2>1
    <2>3. SumTo(v, m) \in Int
      BY <2>2, SumType
    <2>4. SumTo(v, m + 1) = SumTo(v, m) + v[m + 1]
      BY SumNext
    <2> QED
      BY <1>3, <2>1, <2>3, <2>4
  <1> QED
    BY <1>1, <1>2, <1>5, <1>6, <1>7

\* What the orders took, order by order.
LEMMA TakenIs ==
    ASSUME NEW sales \in Seq(Order), NEW row
    PROVE  /\ Len(sales) \in Nat
           /\ SumOf(Taken(sales, row)) = SumTo(Taken(sales, row), Len(sales))
           /\ SumOf(Taken(sales, row)) \in Int
           /\ \A i \in 1 .. Len(sales) :
                /\ Taken(sales, row)[i] \in Nat
                /\ Taken(sales, row)[i] = TakenBy(sales[i], row)
  <1>1. PICK v : v = Taken(sales, row)
    OBVIOUS
  <1>2. Len(sales) \in Nat /\ DOMAIN sales = 1 .. Len(sales)
    OBVIOUS
  <1>3. /\ v = [i \in 1 .. Len(sales) |-> v[i]]
        /\ \A i \in 1 .. Len(sales) : v[i] = TakenBy(sales[i], row)
    BY <1>1, <1>2 DEF Taken
  <1>4. Len(v) = Len(sales)
    BY <1>2, <1>3, TableOf
  <1>5. ASSUME NEW i \in 1 .. Len(sales)
        PROVE  v[i] \in Nat
    <2>1. sales[i] \in Order
      BY Element
    <2>2. sales[i].lines \in Lines
      BY <2>1 DEF Order
    <2>3. Quantity(sales[i].lines, row[2]) \in Nat
      BY <2>2, LinesSum
    <2> QED
      BY <1>3, <2>3 DEF TakenBy
  <1>6. SumTo(v, Len(sales)) \in Int
    BY <1>2, <1>5, SumType
  <1> QED
    BY <1>1, <1>2, <1>3, <1>4, <1>5, <1>6 DEF SumOf

\* A statement that commits nothing leaves the account, and the other sessions' orders.
LEMMA ContinueAccounted ==
    ASSUME IInv, Accounted, NEW r \in Requests, NEW t, Counted(t), CancelsPending(t),
           session' = [session EXCEPT ![r] = t], UNCHANGED tables
    PROVE  Accounted'
  <1>1. \A q \in Requests : session'[q] = IF q = r THEN t ELSE session[q]
    BY DEF IInv
  <1>2. orders' = orders /\ on_hand' = on_hand /\ inbound' = inbound
    BY DEF tables
  <1>3. ASSUME NEW q \in Requests
        PROVE  Counted(session[q])' /\ CancelsPending(session[q])'
    <2>1. Counted(session'[q]) /\ CancelsPending(session'[q])
      BY <1>1 DEF Accounted
    <2> QED
      BY <1>2, <2>1 DEF Counted, CancelsPending
  <1>4. StockAccounted'
    BY <1>2 DEF Accounted, StockAccounted
  <1> QED
    BY <1>3, <1>4 DEF Accounted

\* A statement that does no line of the list.
LEMMA SameLine ==
    ASSUME IInv, Accounted, NEW r \in Requests, NEW t, Continue(r, t),
           t.handler = session[r].handler, t.branch = session[r].branch,
           t.lines = session[r].lines, t.next = session[r].next,
           t.moved = session[r].moved, t.order = session[r].order,
           t.stage \in AtWork => session[r].stage \in AtWork,
           t.stage = "commit" => t.handler = "return"
    PROVE  Accounted'
  <1>1. Counted(t) /\ CancelsPending(t)
    BY DEF Accounted, Counted, CancelsPending
  <1> QED
    BY <1>1, ContinueAccounted DEF Continue

\* A request that begins has done nothing.
LEMMA BeginAccounted ==
    ASSUME IInv, IInv', Accounted, NEW r \in Requests, BeginSome(r)
    PROVE  Accounted'
  <1>1. ASSUME NEW handler, NEW s, Begin(r, handler, s), DOMAIN s = DOMAIN IdleSession,
               s.next = 1, s.moved = IdleSession.moved, s.lines \in Lines,
               s.branch \in Branches, s.stage \in LineStages,
               handler = "cancel" => s.order \in DOMAIN orders
                                     /\ orders[s.order].status = "pending"
                                     /\ orders[s.order].branch = s.branch
                                     /\ orders[s.order].lines = s.lines
        PROVE  Accounted'
    <2>1. PICK t : t = [s EXCEPT !.handler = handler]
      OBVIOUS
    <2>2. /\ t.handler = handler /\ t.next = s.next /\ t.moved = s.moved /\ t.lines = s.lines
          /\ t.branch = s.branch /\ t.stage = s.stage /\ t.order = s.order
      BY <1>1, <2>1 DEF IdleSession
    <2>3. CancelsPending(t)
      BY <1>1, <2>2 DEF CancelsPending
    <2>4. \A row \in Rows : t.moved[row] = 0 /\ SumTo(QuantityOf(t.lines, row[2]), t.next - 1) = 0
      BY <1>1, <2>2, SumNext DEF IdleSession
    <2>5. t.next \in 1 .. Len(t.lines) + 1 /\ t.stage # "commit"
      BY <1>1, <2>2 DEF LineStages, Lines
    <2>6. Counted(t)
      BY <1>1, <2>2, <2>4, <2>5 DEF Counted
    <2> QED
      BY <1>1, <2>1, <2>3, <2>6, ContinueAccounted DEF Begin
  <1>2. ASSUME NEW b \in Branches, NEW key \in Keys \cup {None}, NEW cart \in Carts,
               BeginCreate(r, b, key, cart)
        PROVE  Accounted'
    <2>1. PICK s : s = [IdleSession EXCEPT !.stage = "sequence", !.branch = b,
                                           !.key = key, !.lines = cart]
      OBVIOUS
    <2>2. Begin(r, "create", s)
      BY <1>2, <2>1 DEF BeginCreate
    <2>3. cart \in Lines
      BY OrderStockAssumption
    <2>4. /\ DOMAIN s = DOMAIN IdleSession /\ s.next = 1 /\ s.moved = IdleSession.moved
          /\ s.lines \in Lines /\ s.branch \in Branches /\ s.stage \in LineStages
      BY <2>1, <2>3 DEF IdleSession, LineStages
    <2> QED
      BY <1>1, <2>2, <2>4
  <1>3. ASSUME NEW i \in DOMAIN orders, BeginCancel(r, i)
        PROVE  Accounted'
    <2>1. PICK s : s = [IdleSession EXCEPT !.stage = "read", !.order = i,
                                           !.branch = orders[i].branch,
                                           !.lines = orders[i].lines]
      OBVIOUS
    <2>2. Begin(r, "cancel", s) /\ orders[i].status = "pending"
      BY <1>3, <2>1 DEF BeginCancel
    <2>3. orders[i] \in Order
      BY DEF IInv, TablesOK
    <2>4. orders[i].lines \in Lines /\ orders[i].branch \in Branches
      BY <2>3 DEF Order
    <2>5. /\ DOMAIN s = DOMAIN IdleSession /\ s.next = 1 /\ s.moved = IdleSession.moved
          /\ s.lines = orders[i].lines /\ s.branch = orders[i].branch /\ s.stage \in LineStages
          /\ s.order = i
      BY <2>1 DEF IdleSession, LineStages
    <2> QED
      BY <1>1, <2>2, <2>4, <2>5
  <1>4. ASSUME NEW handler, NEW s, Begin(r, handler, s), DOMAIN s = DOMAIN IdleSession,
               handler \notin {"create", "cancel"}
        PROVE  Accounted'
    <2>1. PICK t : t = [s EXCEPT !.handler = handler]
      OBVIOUS
    <2>2. t.handler = handler
      BY <1>4, <2>1 DEF IdleSession
    <2>3. Counted(t) /\ CancelsPending(t)
      BY <1>4, <2>2 DEF Counted, CancelsPending
    <2> QED
      BY <1>4, <2>1, <2>3, ContinueAccounted DEF Begin
  <1>5. ASSUME NEW i \in DOMAIN orders, NEW b \in Branches, NEW cart \in Carts,
               BeginReturn(r, i, b, cart)
        PROVE  Accounted'
    <2>1. PICK s : s = [IdleSession EXCEPT !.stage = "sequence", !.order = i,
                                           !.branch = b, !.lines = cart]
      OBVIOUS
    <2>2. Begin(r, "return", s) /\ DOMAIN s = DOMAIN IdleSession
      BY <1>5, <2>1 DEF BeginReturn, IdleSession
    <2> QED
      BY <1>4, <2>2
  <1>6. ASSUME NEW b \in Branches, NEW p \in Products, NEW n \in Amounts,
               BeginAdjust(r, b, p, n)
        PROVE  Accounted'
    <2>1. PICK row, new, e : /\ row = <<b, p>> /\ new = Adjusted(on_hand[row], n)
                             /\ e = [IdleSession EXCEPT !.branch = b,
                                       !.lines = <<[product |-> p, quantity |-> n]>>]
      OBVIOUS
    <2>2. DOMAIN e = DOMAIN IdleSession
      BY <2>1 DEF IdleSession
    <2>3. PICK s : s = [e EXCEPT !.stage = "failed", !.error = "on_hand check"]
      OBVIOUS
    <2>4. PICK u : u = [e EXCEPT !.stage = "commit", !.held = {RowLock(row)},
                                 !.new[row] = new, !.after[row] = new, !.moved[row] = n]
      OBVIOUS
    <2>5. Begin(r, "adjust", s) \/ Begin(r, "adjust", u)
      BY <1>6, <2>1, <2>3, <2>4 DEF BeginAdjust
    <2>6. DOMAIN s = DOMAIN IdleSession /\ DOMAIN u = DOMAIN IdleSession
      BY <2>2, <2>3, <2>4 DEF IdleSession
    <2> QED
      BY <1>4, <2>5, <2>6
  <1> QED
    BY <1>2, <1>3, <1>5, <1>6 DEF BeginSome

\* What the head line of a sale takes, or of a cancellation brings back.
LineChange(s) ==
    IF s.handler = "create" THEN 0 - s.lines[s.next].quantity ELSE s.lines[s.next].quantity

\* The UPDATE of a line counts its bottles.
LEMMA UpdateAccounted ==
    ASSUME IInv, Accounted, NEW r \in Requests, NEW change \in Int, UpdateRow(r, change),
           session[r].stage = "update",
           change = LineChange(session[r])
    PROVE  Accounted'
  <1>1. PICK s : s = session[r]
    OBVIOUS
  <1>2. /\ Own(s) /\ Fields(s) /\ Counted(s) /\ CancelsPending(s) /\ s.stage = "update"
        /\ s.handler \in {"create", "cancel"}
    BY <1>1 DEF IInv, Own, Typed, Accounted, Placed
  <1>3. PICK row \in Rows : row = HeadRow(s)
    BY <1>2, HeadRowExists DEF LineStages
  <1>4. /\ row[1] = s.branch /\ row[2] = s.lines[s.next].product
        /\ s.lines \in Lines /\ s.next \in 1 .. Len(s.lines)
        /\ s.lines[s.next].quantity \in Nat /\ s.branch \in Branches
        /\ \A x \in Rows : x[1] = row[1] /\ x[2] = row[2] => x = row
    BY <1>2, <1>3, HeadRowExists DEF HeadRow, LineStages, Rows, Own, Placed
  <1>5. PICK amount, after, sum : /\ amount = Visible(s, row) + change
                                  /\ after = QuantityAfter(s.seen, change)
                                  /\ sum = s.moved[row] + change
    OBVIOUS
  <1>6. PICK t : t = Updated(s, row, amount, after, sum)
    OBVIOUS
  <1>7. Continue(r, t)
    BY <1>1, <1>2, <1>3, <1>5, <1>6, UpdateRowEffect
  <1>8. /\ t.handler = s.handler /\ t.branch = s.branch /\ t.order = s.order
        /\ t.lines = s.lines /\ t.next = s.next + 1
        /\ t.moved = [s.moved EXCEPT ![row] = sum]
        /\ t.stage = IF s.next < Len(s.lines) THEN "read" ELSE "commit"
    BY <1>6 DEF Updated
  <1>9. Len(s.lines) \in Nat
    BY <1>4, LinesSum
  <1>10. t.next \in 1 .. Len(t.lines) + 1 /\ (t.stage = "commit" => t.next = Len(t.lines) + 1)
    BY <1>4, <1>8, <1>9
  <1>11. ASSUME NEW x \in Rows
         PROVE  t.moved[x] =
                  IF x[1] # t.branch THEN 0
                  ELSE IF t.handler = "create"
                  THEN 0 - SumTo(QuantityOf(t.lines, x[2]), t.next - 1)
                  ELSE SumTo(QuantityOf(t.lines, x[2]), t.next - 1)
    <2>1. PICK done \in Int : done = SumTo(QuantityOf(s.lines, x[2]), s.next - 1)
      BY <1>4, LinesSum
    <2>2. SumTo(QuantityOf(s.lines, x[2]), s.next) = done
            + IF s.lines[s.next].product = x[2] THEN s.lines[s.next].quantity ELSE 0
      BY <1>4, <2>1, LinesSum
    <2>3. t.next - 1 = s.next
      BY <1>4, <1>8, <1>9
    <2>4. s.moved[x] = IF x[1] # s.branch THEN 0
                       ELSE IF s.handler = "create" THEN 0 - done ELSE done
      BY <1>2, <2>1 DEF Counted, AtWork, LineStages
    <2>5. s.moved \in [Rows -> Int]
      BY <1>2 DEF Own, Typed
    <2>6. CASE x = row
      <3>1. t.moved[x] = s.moved[x] + change
        BY <1>5, <1>8, <2>5, <2>6
      <3>2. SumTo(QuantityOf(t.lines, x[2]), t.next - 1) = done + s.lines[s.next].quantity
        BY <1>4, <1>8, <2>2, <2>3, <2>6
      <3> QED
        BY <1>1, <1>4, <1>8, <2>4, <2>6, <3>1, <3>2 DEF LineChange
    <2>7. CASE x # row
      <3>1. t.moved[x] = s.moved[x]
        BY <1>8, <2>5, <2>7
      <3>2. x[1] # s.branch \/ SumTo(QuantityOf(t.lines, x[2]), t.next - 1) = done
        BY <1>4, <1>8, <2>1, <2>2, <2>3, <2>7
      <3> QED
        BY <1>8, <2>4, <3>1, <3>2
    <2> QED
      BY <2>6, <2>7
  <1>12. Counted(t)
    BY <1>4, <1>8, <1>10, <1>11 DEF Counted
  <1>13. CancelsPending(t)
    BY <1>2, <1>8 DEF CancelsPending, AtWork, LineStages
  <1> QED
    BY <1>7, <1>12, <1>13, ContinueAccounted DEF Continue

\* NULL is no endpoint.
LEMMA HandlersAreSet == None \notin {"create", "cancel", "return", "adjust"}
  BY OrderStockAssumption

\* What an order's INSERT adds to the account of a row.
LEMMA TakenByNew ==
    ASSUME NEW sales \in Seq(Order), NEW o, NEW row, NEW more \in Seq(Order),
           more = WithRow(sales, o)
    PROVE  SumOf(Taken(more, row)) = SumOf(Taken(sales, row)) + TakenBy(o, row)
  <1>1. PICK n \in Nat : n = Len(sales)
    OBVIOUS
  <1>2. /\ Len(more) = n + 1 /\ more[n + 1] = o
        /\ \A i \in 1 .. n : more[i] = sales[i]
    BY <1>1 DEF WithRow
  <1>3. PICK v, w : v = Taken(sales, row) /\ w = Taken(more, row)
    OBVIOUS
  <1>4. ASSUME NEW i \in 1 .. n
        PROVE  v[i] = w[i]
    <2>1. i \in 1 .. Len(sales) /\ i \in 1 .. Len(more) /\ more[i] = sales[i]
      BY <1>1, <1>2
    <2>2. v[i] = TakenBy(sales[i], row)
      BY <1>3, <2>1, TakenIs
    <2>3. w[i] = TakenBy(more[i], row)
      BY <1>3, <2>1, TakenIs
    <2> QED
      BY <2>1, <2>2, <2>3
  <1>5. SumTo(v, n) = SumTo(w, n)
    BY <1>4, SumsSame
  <1>6. SumTo(w, n + 1) = SumTo(w, n) + w[n + 1]
    BY SumNext
  <1>7. w[n + 1] = TakenBy(o, row)
    <2>1. n + 1 \in 1 .. Len(more)
      BY <1>2
    <2> QED
      BY <1>2, <1>3, <2>1, TakenIs
  <1> QED
    BY <1>1, <1>2, <1>3, <1>5, <1>6, <1>7, TakenIs

\* What a cancellation gives back to the account of a row.
LEMMA TakenByCancelled ==
    ASSUME NEW sales \in Seq(Order), NEW i \in DOMAIN sales, NEW row, NEW more \in Seq(Order),
           more = Changed(sales, i, Cancelled(sales[i]))
    PROVE  SumOf(Taken(more, row)) = SumOf(Taken(sales, row)) - TakenBy(sales[i], row)
  <1>1. PICK n \in Nat : n = Len(sales)
    OBVIOUS
  <1>2. i \in 1 .. n /\ sales[i] \in Order
    BY <1>1
  <1>3. /\ Len(more) = n /\ more[i].status = "cancelled"
        /\ \A j \in 1 .. n : j # i => more[j] = sales[j]
    <2>1. Cancelled(sales[i]).status = "cancelled"
      BY <1>2 DEF Cancelled, Order
    <2> QED
      BY <1>1, <1>2, <2>1 DEF Changed
  <1>4. PICK v, w : v = Taken(sales, row) /\ w = Taken(more, row)
    OBVIOUS
  <1>5. ASSUME NEW j \in 1 .. n
        PROVE  v[j] \in Int /\ w[j] \in Int /\ (j # i => v[j] = w[j])
    <2>1. j \in 1 .. Len(sales) /\ j \in 1 .. Len(more)
      BY <1>1, <1>3
    <2>2. v[j] \in Nat /\ w[j] \in Nat
      BY <1>4, <2>1, TakenIs
    <2>3. ASSUME j # i
          PROVE  v[j] = w[j]
      <3>1. v[j] = TakenBy(sales[j], row)
        BY <1>4, <2>1, TakenIs
      <3>2. w[j] = TakenBy(more[j], row)
        BY <1>4, <2>1, TakenIs
      <3> QED
        BY <1>3, <2>3, <3>1, <3>2
    <2> QED
      BY <2>2, <2>3
  <1>6. SumTo(w, n) = SumTo(v, n) - v[i] + w[i]
    BY <1>2, <1>5, SumReplace
  <1>7. w[i] = 0
    <2>1. i \in 1 .. Len(more) /\ TakenBy(more[i], row) = 0
      BY <1>2, <1>3 DEF TakenBy
    <2> QED
      BY <1>4, <2>1, TakenIs
  <1>8. v[i] = TakenBy(sales[i], row)
    BY <1>1, <1>2, <1>4, TakenIs
  <1>9. SumOf(Taken(more, row)) = SumTo(w, n) /\ SumOf(Taken(sales, row)) = SumTo(v, n)
    BY <1>1, <1>3, <1>4, TakenIs
  <1>10. v[i] \in Int /\ SumTo(v, n) \in Int
    BY <1>1, <1>2, <1>4, <1>5, TakenIs
  <1> QED
    BY <1>6, <1>7, <1>8, <1>9, <1>10

\* A commit adds to the stock what its document takes out of the account or brings in.
LEMMA CommitAccounted ==
    ASSUME IInv, IInv', Alone, AllSteady, Accounted, NEW r \in Requests, Commit(r)
    PROVE  Accounted'
  <1>1. PICK s : s = session[r]
    OBVIOUS
  <1>2. /\ Own(s) /\ Fields(s) /\ Steady(s) /\ s.stage = "commit"
        /\ Counted(s) /\ CancelsPending(s)
    BY <1>1 DEF IInv, Own, Typed, AllSteady, Commit, Accounted
  <1>3. CASE s.error # None
    <2>1. PICK t : t = [s EXCEPT !.stage = "failed"]
      OBVIOUS
    <2>2. Continue(r, t)
      BY <1>1, <1>3, <2>1 DEF Commit
    <2>3. t.stage = "failed"
      BY <1>2, <2>1 DEF Fields
    <2>4. Counted(t) /\ CancelsPending(t)
      BY <2>3 DEF Counted, CancelsPending, AtWork, LineStages
    <2> QED
      BY <2>2, <2>4, ContinueAccounted DEF Continue
  <1>4. CASE s.error = None
    <2>1. /\ on_hand' = [row \in Rows |-> Visible(s, row)]
          /\ inbound' = [row \in Rows |->
                inbound[row] + IF s.handler \in {"return", "adjust"} THEN s.moved[row] ELSE 0]
          /\ session' = [session EXCEPT ![r] = IdleSession]
      BY <1>1, <1>4 DEF Commit
    <2>2. orders \in Seq(Order) /\ orders' \in Seq(Order)
      BY DEF IInv, TablesOK
    <2>3. ASSUME NEW q \in Requests
          PROVE  Counted(session[q])' /\ CancelsPending(session[q])'
      <3>1. session'[q] = IF q = r THEN IdleSession ELSE session[q]
        BY <2>1 DEF IInv
      <3>2. session'[q].stage = "idle"
        BY <1>1, <1>2, <3>1 DEF Alone, IdleSession
      <3> QED
        BY <3>2 DEF Counted, CancelsPending, AtWork, LineStages
    <2>4. ASSUME NEW row \in Rows
          PROVE  on_hand'[row] = Opening[row] + inbound'[row] - SumOf(Taken(orders', row))
      <3>1. /\ on_hand'[row] = on_hand[row] + s.moved[row]
            /\ on_hand[row] = Opening[row] + inbound[row] - SumOf(Taken(orders, row))
        BY <1>2, <2>1 DEF Steady, Accounted, StockAccounted
      <3>2. /\ on_hand[row] \in Int /\ s.moved[row] \in Int /\ inbound[row] \in Int
            /\ Opening[row] \in Int /\ SumOf(Taken(orders, row)) \in Int
        <4>1. SumOf(Taken(orders, row)) \in Int
          BY <2>2, TakenIs
        <4>2. s.moved[row] \in Int
          BY <1>2 DEF Own, Typed
        <4>3. on_hand[row] \in Int /\ inbound[row] \in Int /\ Opening[row] \in Int
          BY ConstantsOK DEF IInv, TablesOK, StockNeverNegative
        <4> QED
          BY <4>1, <4>2, <4>3
      <3>3. CASE s.handler = "create"
        <4>1. PICK o : o = [branch |-> s.branch, number |-> s.number, key |-> s.key,
                            lines |-> s.lines, status |-> "pending", cancels |-> 0]
          OBVIOUS
        <4>2. orders' = WithRow(orders, o)
          BY <1>1, <1>4, <3>3, <4>1 DEF Commit, WithRow
        <4>3. SumOf(Taken(orders', row)) = SumOf(Taken(orders, row))
                + IF s.branch = row[1] THEN Quantity(s.lines, row[2]) ELSE 0
          <5>1. TakenBy(o, row) = IF s.branch = row[1] THEN Quantity(s.lines, row[2]) ELSE 0
            BY <4>1 DEF TakenBy
          <5> QED
            BY <2>2, <4>2, <5>1, TakenByNew
        <4>4. /\ s.lines \in Lines /\ s.next = Len(s.lines) + 1
              /\ s.moved[row] = IF row[1] # s.branch THEN 0
                                ELSE 0 - SumTo(QuantityOf(s.lines, row[2]), s.next - 1)
          BY <1>2, <3>3 DEF Counted, AtWork
        <4>5. /\ Quantity(s.lines, row[2]) \in Int
              /\ s.moved[row] = IF row[1] # s.branch THEN 0 ELSE 0 - Quantity(s.lines, row[2])
          BY <4>4, LinesSum
        <4>6. inbound'[row] = inbound[row]
          BY <2>1, <3>2, <3>3
        <4> QED
          BY <3>1, <3>2, <4>3, <4>5, <4>6
      <3>4. CASE s.handler = "cancel"
        <4>1. PICK i \in DOMAIN orders : i = s.order
          BY <1>2, <3>4 DEF CancelsPending, AtWork
        <4>2. orders[i].status = "pending" /\ orders[i].branch = s.branch
              /\ orders[i].lines = s.lines
          BY <1>2, <3>4, <4>1 DEF CancelsPending, AtWork
        <4>3. orders' = Changed(orders, i, Cancelled(orders[i]))
          BY <1>1, <1>4, <3>4, <4>1 DEF Commit, Changed
        <4>4. SumOf(Taken(orders', row)) = SumOf(Taken(orders, row))
                - IF s.branch = row[1] THEN Quantity(s.lines, row[2]) ELSE 0
          <5>1. TakenBy(orders[i], row) = IF s.branch = row[1] THEN Quantity(s.lines, row[2]) ELSE 0
            BY <4>2 DEF TakenBy
          <5> QED
            BY <2>2, <4>3, <5>1, TakenByCancelled
        <4>5. /\ s.lines \in Lines /\ s.next = Len(s.lines) + 1
              /\ s.moved[row] = IF row[1] # s.branch THEN 0
                                ELSE SumTo(QuantityOf(s.lines, row[2]), s.next - 1)
          BY <1>2, <3>4 DEF Counted, AtWork
        <4>6. /\ Quantity(s.lines, row[2]) \in Int
              /\ s.moved[row] = IF row[1] # s.branch THEN 0 ELSE Quantity(s.lines, row[2])
          BY <4>5, LinesSum
        <4>7. inbound'[row] = inbound[row]
          BY <2>1, <3>2, <3>4
        <4> QED
          BY <3>1, <3>2, <4>4, <4>6, <4>7
      <3>5. CASE s.handler \in {"return", "adjust"}
        <4>1. orders' = orders
          BY <1>1, <1>4, <3>5 DEF Commit
        <4>2. inbound'[row] = inbound[row] + s.moved[row]
          BY <2>1, <3>5
        <4> QED
          BY <3>1, <3>2, <4>1, <4>2
      <3> QED
        BY <1>2, <3>3, <3>4, <3>5, OrderStockAssumption DEF Own, Typed
    <2>5. StockAccounted'
      BY <2>4 DEF StockAccounted
    <2> QED
      BY <2>3, <2>5 DEF Accounted
  <1> QED
    BY <1>3, <1>4

\* The next statement of the only request under way.
LEMMA StepAccounted ==
    ASSUME IInv, IInv', Alone, AllSteady, Accounted, NEW r \in Requests, Step(r)
    PROVE  Accounted'
  <1>1. PICK s : s = session[r]
    OBVIOUS
  <1>2. Own(s) /\ Fields(s)
    BY <1>1 DEF IInv, Own, Typed
  <1>3. ASSUME NEW t, Continue(r, t), t.stage = "failed"
        PROVE  Accounted'
    <2>1. Counted(t) /\ CancelsPending(t)
      BY <1>3 DEF Counted, CancelsPending, AtWork, LineStages
    <2> QED
      BY <1>3, <2>1, ContinueAccounted DEF Continue
  <1>4. ASSUME NextSequence(r)
        PROVE  Accounted'
    <2>1. PICK t : t = [s EXCEPT !.held = @ \cup {SequenceLock(s)},
                                 !.number = IF s.handler = "create"
                                            THEN sequence[s.branch] + 1 ELSE 0,
                                 !.stage = IF s.handler = "create" THEN "insert" ELSE "read"]
      OBVIOUS
    <2>2. /\ t.stage # "commit" /\ t.handler = s.handler /\ t.branch = s.branch
          /\ t.lines = s.lines /\ t.next = s.next /\ t.moved = s.moved /\ t.order = s.order
          /\ s.stage \in AtWork
      BY <1>1, <1>2, <1>4, <2>1 DEF Fields, NextSequence, AtWork, LineStages
    <2>3. Continue(r, t)
      BY <1>1, <1>4, <2>1 DEF NextSequence
    <2> QED
      BY <1>1, <2>2, <2>3, SameLine
  <1>5. ASSUME InsertOrder(r)
        PROVE  Accounted'
    <2>1. PICK t : t = [s EXCEPT !.stage = "failed", !.error = "duplicate key"]
      OBVIOUS
    <2>2. PICK u : u = [s EXCEPT !.held = @ \cup Needs(s), !.stage = "read"]
      OBVIOUS
    <2>3. Continue(r, t) \/ Continue(r, u)
      BY <1>1, <1>5, <2>1, <2>2 DEF InsertOrder
    <2>4. t.stage = "failed"
      BY <1>2, <2>1 DEF Fields
    <2>5. /\ u.stage # "commit" /\ u.handler = s.handler /\ u.branch = s.branch
          /\ u.lines = s.lines /\ u.next = s.next /\ u.moved = s.moved /\ u.order = s.order
          /\ s.stage \in AtWork
      BY <1>1, <1>2, <1>5, <2>2 DEF Fields, InsertOrder, AtWork, LineStages
    <2> QED
      BY <1>1, <1>3, <2>3, <2>4, <2>5, SameLine
  <1>6. ASSUME ReadOnHand(r)
        PROVE  Accounted'
    <2>1. PICK t : t = [s EXCEPT !.seen = Visible(s, HeadRow(s)), !.stage = "update"]
      OBVIOUS
    <2>2. /\ t.stage # "commit" /\ t.handler = s.handler /\ t.branch = s.branch
          /\ t.lines = s.lines /\ t.next = s.next /\ t.moved = s.moved /\ t.order = s.order
          /\ s.stage \in AtWork
      BY <1>1, <1>2, <1>6, <2>1 DEF Fields, ReadOnHand, AtWork, LineStages
    <2>3. Continue(r, t)
      BY <1>1, <1>6, <2>1 DEF ReadOnHand
    <2> QED
      BY <1>1, <2>2, <2>3, SameLine
  <1>7. ASSUME DeductStock(r)
        PROVE  Accounted'
    <2>1. PICK q \in Nat : q = s.lines[s.next].quantity
      BY <1>1, <1>2, <1>7, HeadRowExists DEF DeductStock, LineStages
    <2>2. CASE UpdateRow(r, -q)
      <3>1. -q = LineChange(session[r]) /\ session[r].stage = "update" /\ -q \in Int
        BY <1>1, <1>7, <2>1 DEF DeductStock, LineChange
      <3> QED
        BY <2>2, <3>1, UpdateAccounted
    <2>3. CASE ~UpdateRow(r, -q)
      <3>1. PICK t : t = [s EXCEPT !.stage = "failed", !.error = "insufficient stock"]
        OBVIOUS
      <3>2. Continue(r, t)
        BY <1>1, <1>7, <2>1, <2>3, <3>1 DEF DeductStock
      <3>3. t.stage = "failed"
        BY <1>2, <3>1 DEF Fields
      <3> QED
        BY <1>3, <3>2, <3>3
    <2> QED
      BY <2>2, <2>3
  <1>8. ASSUME RestoreStock(r)
        PROVE  Accounted'
    <2>1. PICK q \in Nat : q = s.lines[s.next].quantity
      BY <1>1, <1>2, <1>8, HeadRowExists DEF RestoreStock, LineStages
    <2>2. UpdateRow(r, q) /\ session[r].stage = "update" /\ q = LineChange(session[r])
      BY <1>1, <1>8, <2>1 DEF RestoreStock, LineChange
    <2> QED
      BY <2>1, <2>2, UpdateAccounted
  <1>9. ASSUME NEW t, Continue(r, t), t.handler = "return"
        PROVE  Accounted'
    <2>1. Counted(t) /\ CancelsPending(t)
      BY <1>9 DEF Counted, CancelsPending
    <2> QED
      BY <1>9, <2>1, ContinueAccounted DEF Continue
  <1>10. ASSUME ReadForReturn(r)
         PROVE  Accounted'
    <2>1. PICK row, back, sum : /\ row = HeadRow(s)
                                /\ back = Visible(s, row) + s.lines[s.next].quantity
                                /\ sum = s.moved[row] + s.lines[s.next].quantity
      OBVIOUS
    <2>2. PICK u : u = [s EXCEPT !.new[row] = back, !.after[row] = back, !.moved[row] = sum]
      OBVIOUS
    <2>3. PICK t : t = NextLine(u, "read", "write")
      OBVIOUS
    <2>4. Continue(r, t)
      BY <1>1, <1>10, <2>1, <2>2, <2>3 DEF ReadForReturn
    <2>5. u.handler = "return" /\ DOMAIN u = DOMAIN s
      BY <1>1, <1>2, <1>10, <2>2 DEF Fields, ReadForReturn
    <2>6. t.handler = "return"
      BY <1>2, <2>3, <2>5 DEF NextLine, Fields
    <2> QED
      BY <1>9, <2>4, <2>6
  <1>11. ASSUME WriteBack(r)
         PROVE  Accounted'
    <2>1. PICK held : held = s.held \cup Needs(s)
      OBVIOUS
    <2>2. PICK t : t = [s EXCEPT !.held = held,
                            !.stage = IF \E row \in Rows : s.new[row] # None
                                                           /\ RowLock(row) \notin held
                                      THEN @ ELSE "commit"]
      OBVIOUS
    <2>3. Continue(r, t)
      BY <1>1, <1>11, <2>1, <2>2 DEF WriteBack
    <2>4. t.handler = "return"
      BY <1>1, <1>2, <1>11, <2>2 DEF Fields, WriteBack, Own, Placed
    <2> QED
      BY <1>9, <2>3, <2>4
  <1> QED
    BY <1>4, <1>5, <1>6, <1>7, <1>8, <1>10, <1>11, CommitAccounted DEF Step

\* Every step keeps the account when requests come one after the other.
LEMMA AccountKept ==
    ASSUME IInv, IInv', Alone, AllSteady, Accounted, [Next]_vars
    PROVE  Accounted'
  <1>1. ASSUME NEW r \in Requests, Rollback(r)
        PROVE  Accounted'
    <2>1. IdleSession.stage = "idle"
      BY DEF IdleSession
    <2>2. Counted(IdleSession) /\ CancelsPending(IdleSession)
      BY <2>1 DEF Counted, CancelsPending, AtWork, LineStages
    <2> QED
      BY <1>1, <2>2, ContinueAccounted DEF Rollback, Continue
  <1>2. ASSUME UNCHANGED vars
        PROVE  Accounted'
    <2>1. on_hand' = on_hand /\ session' = session /\ orders' = orders /\ inbound' = inbound
      BY <1>2 DEF vars, tables
    <2> QED
      BY <2>1 DEF Accounted, StockAccounted, Counted, CancelsPending
  <1> QED
    BY <1>1, <1>2, BeginAccounted, StepAccounted DEF Next

\* The books of a workload.
BooksBalance ==
    /\ Serial \/ ~Uses("return") => LedgerExplainsStock
    /\ Serial \/ workload.handlers = Sales => AllSteady
    /\ Serial => Accounted

OfWorkload == \A r \in Requests : Within(session[r])
AloneIfSerial == Serial => Alone

\* The day opens with balanced books.
LEMMA BooksOpen ==
    ASSUME IInv, Init
    PROVE  BooksBalance /\ OfWorkload /\ AloneIfSerial
  <1>1. \A r \in Requests : session[r] = IdleSession
    BY DEF Init
  <1>2. IdleSession.stage = "idle" /\ Steady(IdleSession)
    BY DEF Steady, Visible, IdleSession, IInv, TablesOK, StockNeverNegative
  <1>3. Counted(IdleSession) /\ CancelsPending(IdleSession) /\ Within(IdleSession)
    BY <1>2 DEF Counted, CancelsPending, Within, AtWork, LineStages
  <1>4. LedgerExplainsStock /\ NewestMovementIsBalance
    BY DEF Init, LedgerExplainsStock, NewestMovementIsBalance
  <1>5. AllSteady /\ OfWorkload /\ AloneIfSerial
    BY <1>1, <1>2, <1>3, <1>4 DEF AllSteady, OfWorkload, AloneIfSerial, Alone
  <1>6. ASSUME NEW row \in Rows
        PROVE  on_hand[row] = Opening[row] + inbound[row] - SumOf(Taken(orders, row))
    <2>1. orders \in Seq(Order) /\ Len(orders) = 0
      BY DEF Init
    <2>2. SumOf(Taken(orders, row)) = SumTo(Taken(orders, row), 0)
      BY <2>1, TakenIs
    <2>3. SumOf(Taken(orders, row)) = 0
      BY <2>2, SumNext
    <2>4. on_hand[row] = Opening[row] /\ inbound[row] = 0 /\ Opening[row] \in Nat
      BY ConstantsOK DEF Init
    <2> QED
      BY <2>3, <2>4
  <1>7. Accounted
    BY <1>1, <1>3, <1>6 DEF Accounted, StockAccounted
  <1> QED
    BY <1>4, <1>5, <1>7 DEF BooksBalance

\* A serial workload has one request under way.
LEMMA SerialIsAlone ==
    ASSUME MCNext, Serial
    PROVE  Alone'
  <1>1. PICK S : S = {r \in Requests : session'[r].stage # "idle"}
    OBVIOUS
  <1>2. Cardinality(S) <= 1
    BY <1>1 DEF MCNext, Serial
  <1>3. IsFiniteSet(S)
    BY <1>1, ThreadsAreBounded, FS_Subset
  <1>4. \A x, y \in S : x = y
    BY <1>2, <1>3, NoTwo
  <1> QED
    BY <1>1, <1>4 DEF Alone

\* Every step of a workload keeps its books.
LEMMA BooksKept ==
    ASSUME IInv, IInv', OfWorkload, AloneIfSerial, BooksBalance, [MCNext]_<<vars, workload>>
    PROVE  BooksBalance' /\ OfWorkload' /\ AloneIfSerial'
  <1>1. [Next]_vars /\ workload' = workload
    BY DEF MCNext
  <1>2. OfWorkload'
    <2>1. CASE MCNext
      BY <2>1 DEF MCNext, OfWorkload, Within
    <2>2. CASE UNCHANGED <<vars, workload>>
      BY <2>2 DEF vars, OfWorkload, Within
    <2> QED
      BY <2>1, <2>2
  <1>3. AloneIfSerial'
    <2>1. CASE MCNext
      BY <1>1, <2>1, SerialIsAlone DEF AloneIfSerial, Serial
    <2>2. CASE UNCHANGED <<vars, workload>>
      BY <2>2 DEF vars, AloneIfSerial, Serial, Alone
    <2> QED
      BY <2>1, <2>2
  <1>4. ASSUME Serial \/ workload.handlers = Sales
        PROVE  AllSteady'
    <2>1. OnlySales \/ Alone
      BY <1>4 DEF AloneIfSerial, OfWorkload, Within, OnlySales, Sales
    <2> QED
      BY <1>1, <1>4, <2>1, SteadyKept DEF BooksBalance
  <1>5. ASSUME Serial
        PROVE  Accounted'
    BY <1>1, <1>5, AccountKept DEF BooksBalance, AloneIfSerial
  <1>6. ASSUME ~Uses("return")
        PROVE  LedgerExplainsStock'
    <2>1. ASSUME NEW r \in Requests
          PROVE  session[r].handler # "return"
      <3>1. session[r].stage = "idle" => session[r].handler = None
        BY DEF IInv, Own, Typed
      <3> QED
        BY <1>6, <3>1, NoneIsNoHandler DEF OfWorkload, Within, Uses
    <2> QED
      BY <1>1, <1>6, <2>1, LedgerKept DEF BooksBalance
  <1>7. BooksBalance'
    <2>1. Serial' = Serial /\ Uses("return")' = Uses("return") /\ workload' = workload
      BY <1>1 DEF Serial, Uses
    <2> QED
      BY <1>4, <1>5, <1>6, <2>1 DEF BooksBalance, AllSteady
  <1> QED
    BY <1>2, <1>3, <1>7

(* The movements tell the stock.  Their sum is on_hand whatever sales,      *)
(* cancellations and adjustments overlap, because each UPDATE adds under    *)
(* its row lock what its movement records; the newest one ends at on_hand   *)
(* while only sales overlap, because a sale reads quantity_before holding   *)
(* its branch's sequence; and one request at a time the bottles gone are    *)
(* those of the orders that are not cancelled.                              *)
THEOREM MovementsTell == MCFairSpec => []MovementsTellStock
  <1>1. MCFairSpec => MCInit /\ [][MCNext]_<<vars, workload>> /\ []IInv
    BY WorkloadsAreRuns, LocksCarryTheTables, PTL DEF MCFairSpec
  <1> DEFINE Balanced == BooksBalance /\ OfWorkload /\ AloneIfSerial
  <1>2. IInv /\ MCInit => Balanced
    BY BooksOpen DEF MCInit
  <1>3. IInv /\ IInv' /\ Balanced /\ [MCNext]_<<vars, workload>> => Balanced'
    BY BooksKept
  <1>4. Balanced => MovementsTellStock
    BY DEF BooksBalance, MovementsTellStock, AllSteady, Accounted
  <1> QED
    BY <1>1, <1>2, <1>3, <1>4, PTL
=============================================================================
