------------------------------ MODULE OrderStock ------------------------------
(***************************************************************************)
(* The stock of the branches of one organization and the orders, returns   *)
(* and manual adjustments that move it, on one business day.               *)
(*                                                                         *)
(* Requests run in threads of their own, each in one READ COMMITTED        *)
(* transaction.  A statement sees what was committed before it began and   *)
(* the request's own writes; a row a request has updated, a document       *)
(* sequence it has advanced and a unique key it has inserted stay locked   *)
(* until it commits or rolls back.  The model has one step per statement   *)
(* that reads or locks shared rows; flush and commit are one step, except  *)
(* for the inventory rows a return flushes one by one.                     *)
(*                                                                         *)
(* stock_movements is append-only, so it is represented by its sums and by *)
(* the newest row of each inventory row.  Every product of the instance    *)
(* tracks inventory and has an inventory row in every branch.              *)
(***************************************************************************)
EXTENDS Integers, Sequences, SequencesExt, Sums

CONSTANTS
    Branches,  \* ids of the branches
    Products,  \* ids of the products
    Keys,      \* idempotency keys clients send
    Requests,  \* requests that may be in flight; a singleton is a serial run
    None,      \* SQL NULL and "not set"
    Handlers,  \* endpoints used: subset of {"create", "cancel", "return", "adjust"}
    Carts,     \* item lists of clients: sequences of [product, quantity]
    Amounts,   \* quantity_adjustment values clients send
    RowId,     \* inventory.id
    Opening,   \* on_hand of every inventory row at the start of the day
    MaxServed  \* bound of the model: requests begun in a behaviour

Lines == Seq([product : Products, quantity : Nat \ {0}])

Rows == Branches \X Products

ASSUME OrderStockAssumption ==
    /\ None \notin Branches /\ None \notin Keys /\ None \notin Int
    /\ None \notin {"duplicate key", "insufficient stock", "on_hand check", "movement check"}
    /\ None \notin {"create", "cancel", "return", "adjust"}
    /\ Handlers \subseteq {"create", "cancel", "return", "adjust"}
    /\ Carts \subseteq Lines \ {<<>>}
    /\ Amounts \subseteq Int \ {0}
    /\ RowId \in [Rows -> Nat] /\ IsInjective(RowId)
    /\ Opening \in [Rows -> Nat]
    /\ MaxServed \in Nat

VARIABLES
    orders,     \* the committed orders, in the order of their commits
    on_hand,    \* inventory.on_hand as committed
    ledger,     \* per inventory row: opening stock plus SUM(quantity_change) of its movements
    inbound,    \* the part of that sum that adjustments and returns made
    last_after, \* per inventory row: quantity_after of its newest movement
    sequence,   \* document_sequences.last_number of every branch's orders
    session,    \* per request: what its transaction has read and written so far
    served      \* requests begun so far (bound of the model)

tables == <<orders, on_hand, ledger, inbound, last_after, sequence>>
vars == <<tables, session, served>>

Order == [branch : Branches, number : Nat, key : Keys \cup {None},
          lines : Lines, status : {"pending", "cancelled"}, cancels : Nat]

Stages == {"idle", "sequence", "insert", "read", "update", "write", "commit", "failed"}

IdleSession ==
    [handler |-> None, stage |-> "idle", branch |-> None, order |-> 0, key |-> None,
     number |-> 0, lines |-> <<>>, next |-> 1, seen |-> 0,
     new |-> [row \in Rows |-> None],   \* uncommitted on_hand, None where untouched
     after |-> [row \in Rows |-> None], \* quantity_after of its newest movement
     moved |-> [row \in Rows |-> 0],    \* SUM(quantity_change) of its movements
     held |-> {},                       \* locks
     error |-> None]

Init ==
    /\ orders = <<>>
    /\ on_hand = Opening
    /\ ledger = Opening
    /\ inbound = [row \in Rows |-> 0]
    /\ last_after = Opening
    /\ sequence = [b \in Branches |-> 0]
    /\ session = [r \in Requests |-> IdleSession]
    /\ served = 0

-----------------------------------------------------------------------------
\* Locks.

\* The row of document_sequences a document number comes from: one per branch
\* for orders, one for all returns.
SequenceLock(s) == IF s.handler = "return" THEN <<"RET">> ELSE <<"ORD", s.branch>>

RowLock(row) == <<"inventory", row[1], row[2]>>

\* Wrong on purpose: order numbers are taken without locking the sequence.
FreeSequences(r, lock) ==
    \A q \in Requests \ {r} : lock[1] = "ORD" \/ lock \notin session[q].held

\* Wrong on purpose: idempotency keys have no unique index.
FreeKeys(r, lock) ==
    \A q \in Requests \ {r} : lock[1] = "key" \/ lock \notin session[q].held

Free(r, lock) == \A q \in Requests \ {r} : lock \notin session[q].held

\* The inventory row of the line a request is working on.
HeadRow(s) == <<s.branch, s.lines[s.next].product>>

\* The row a return's flush UPDATEs next: the changed rows go in the order of their ids.
NextWrite(s) ==
    LET pending == {row \in Rows : s.new[row] # None /\ RowLock(row) \notin s.held}
    IN  CHOOSE row \in pending : \A other \in pending : RowId[row] <= RowId[other]

\* The locks the next step of a request asks for.
Needs(s) ==
    CASE s.stage = "sequence" -> {SequenceLock(s)}
      [] s.stage = "insert" -> IF s.key = None THEN {} ELSE {<<"key", s.key>>}
      [] s.stage = "update" -> {RowLock(HeadRow(s))}
      [] s.stage = "write" -> {RowLock(NextWrite(s))}
      [] OTHER -> {}

WaitsFor(r, q) == q # r /\ Needs(session[r]) \cap session[q].held # {}

\* Each of these requests waits for one of them: PostgreSQL aborts one after
\* deadlock_timeout.
LockCycle(S) == S # {} /\ \A r \in S : \E q \in S : WaitsFor(r, q)

-----------------------------------------------------------------------------
Begin(r, handler, s) ==
    /\ handler \in Handlers
    /\ session[r].stage = "idle"
    /\ served < MaxServed
    /\ served' = served + 1
    /\ session' = [session EXCEPT ![r] = [s EXCEPT !.handler = handler]]
    /\ UNCHANGED tables

Continue(r, s) ==
    /\ session' = [session EXCEPT ![r] = s]
    /\ UNCHANGED <<tables, served>>

\* Wrong on purpose: the session is not closed, so its locks stay.
RollbackKeepingLocks(r) ==
    /\ session[r].stage # "idle"
    /\ Continue(r, [IdleSession EXCEPT !.held = session[r].held])

\* The transaction ends without a commit: an exception, a lost connection, a
\* deadlock's victim.
Rollback(r) ==
    /\ session[r].stage # "idle"
    /\ Continue(r, IdleSession)

\* A row as request r sees it: its own write, else the committed value.
Visible(s, row) == IF s.new[row] = None THEN on_hand[row] ELSE s.new[row]

\* The next line, or the end of the loop.
NextLine(s, first, done) ==
    [s EXCEPT !.next = @ + 1,
              !.stage = IF s.next < Len(s.lines) THEN first ELSE done]

-----------------------------------------------------------------------------
\* create_order

\* find_by_idempotency_key: a key already used returns its order instead.
BeginCreate(r, b, key, cart) ==
    /\ key # None => \A i \in DOMAIN orders : orders[i].key # key
    /\ Begin(r, "create", [IdleSession EXCEPT !.stage = "sequence", !.branch = b,
                                              !.key = key, !.lines = cart])

\* _next_sequence: the upsert locks the row until the transaction ends.
NextSequence(r) ==
    LET s == session[r] IN
    /\ s.stage = "sequence"
    /\ Free(r, SequenceLock(s))
    /\ Continue(r, [s EXCEPT !.held = @ \cup {SequenceLock(s)},
                             !.number = IF s.handler = "create" THEN sequence[s.branch] + 1 ELSE 0,
                             !.stage = IF s.handler = "create" THEN "insert" ELSE "read"])

\* INSERT INTO orders: uq_orders_idempotency_key waits for an uncommitted row
\* with the same key and fails on a committed one.
InsertOrder(r) ==
    LET s == session[r] IN
    /\ s.stage = "insert"
    /\ \A lock \in Needs(s) : Free(r, lock)
    /\ IF s.key # None /\ \E i \in DOMAIN orders : orders[i].key = s.key
       THEN Continue(r, [s EXCEPT !.stage = "failed", !.error = "duplicate key"])
       ELSE Continue(r, [s EXCEPT !.held = @ \cup Needs(s), !.stage = "read"])

\* get_inventory_on_hand, for the movement's quantity_before.
ReadOnHand(r) ==
    LET s == session[r] IN
    /\ s.stage = "read"
    /\ s.handler \in {"create", "cancel"}
    /\ Continue(r, [s EXCEPT !.seen = Visible(s, HeadRow(s)), !.stage = "update"])

\* ck_stock_movement_math_correct.
QuantityAfter(seen, change) == seen + change

\* An UPDATE of the head line's row by change, and its movement with the
\* quantities computed from the earlier read.
UpdateRow(r, change) ==
    LET s == session[r]
        row == HeadRow(s)
    IN  Continue(r, NextLine([s EXCEPT !.new[row] = Visible(s, row) + change,
                                       !.after[row] = QuantityAfter(s.seen, change),
                                       !.moved[row] = s.moved[row] + change,
                                       !.held = @ \cup {RowLock(row)},
                                       !.error = IF QuantityAfter(s.seen, change) < 0
                                                 THEN "movement check" ELSE @],
                             "read", "commit"))

\* Wrong on purpose: the UPDATE is not guarded by on_hand >= quantity.
InStockUnguarded(available, quantity) == TRUE

InStock(available, quantity) == available >= quantity

DeductStock(r) ==
    LET s == session[r]
        q == s.lines[s.next].quantity
    IN
    /\ s.stage = "update" /\ s.handler = "create"
    /\ Free(r, RowLock(HeadRow(s)))
    /\ IF InStock(Visible(s, HeadRow(s)), q)
       THEN UpdateRow(r, -q)
       ELSE Continue(r, [s EXCEPT !.stage = "failed", !.error = "insufficient stock"])

-----------------------------------------------------------------------------
\* cancel_order

BeginCancel(r, i) ==
    /\ orders[i].status = "pending"
    /\ Begin(r, "cancel", [IdleSession EXCEPT !.stage = "read", !.order = i,
                                              !.branch = orders[i].branch,
                                              !.lines = orders[i].lines])

RestoreStock(r) ==
    LET s == session[r] IN
    /\ s.stage = "update" /\ s.handler = "cancel"
    /\ Free(r, RowLock(HeadRow(s)))
    /\ UpdateRow(r, s.lines[s.next].quantity)

-----------------------------------------------------------------------------
\* create_return, the items with restock set.  b is the branch of the clerk's
\* token, not necessarily that of the order.

BeginReturn(r, i, b, cart) ==
    /\ \A n \in DOMAIN cart : \E m \in DOMAIN orders[i].lines :
            /\ orders[i].lines[m].product = cart[n].product
            /\ orders[i].lines[m].quantity >= cart[n].quantity
    /\ Begin(r, "return", [IdleSession EXCEPT !.stage = "sequence", !.order = i,
                                              !.branch = b, !.lines = cart])

\* The ORM object keeps the value of the first SELECT; on_hand += qty is done in
\* Python and written by the flush.
ReadForReturn(r) ==
    LET s == session[r]
        row == HeadRow(s)
        quantity == s.lines[s.next].quantity
        back == Visible(s, row) + quantity
    IN
    /\ s.stage = "read" /\ s.handler = "return"
    /\ Continue(r, NextLine([s EXCEPT !.new[row] = back, !.after[row] = back,
                                      !.moved[row] = s.moved[row] + quantity], "read", "write"))

WriteBack(r) ==
    LET s == session[r]
        held == s.held \cup Needs(s)
    IN
    /\ s.stage = "write"
    /\ \A lock \in Needs(s) : Free(r, lock)
    /\ Continue(r, [s EXCEPT
            !.held = held,
            !.stage = IF \E row \in Rows : s.new[row] # None /\ RowLock(row) \notin held
                      THEN @ ELSE "commit"])

-----------------------------------------------------------------------------
\* adjust_inventory

Adjusted(available, n) == available + n

\* INSERT ... ON CONFLICT DO UPDATE: PostgreSQL tests ck_inventory_on_hand_non_negative
\* on the row proposed for insertion before it looks for the conflict.
BeginAdjust(r, b, p, n) ==
    LET row == <<b, p>>
        s == [IdleSession EXCEPT !.branch = b,
                                 !.lines = <<[product |-> p, quantity |-> n]>>]
        new == Adjusted(on_hand[row], n)
    IN
    IF n < 0
    THEN Begin(r, "adjust", [s EXCEPT !.stage = "failed", !.error = "on_hand check"])
    ELSE /\ Free(r, RowLock(row))
         /\ Begin(r, "adjust", [s EXCEPT !.stage = "commit", !.held = {RowLock(row)},
                                         !.new[row] = new, !.after[row] = new,
                                         !.moved[row] = n])

-----------------------------------------------------------------------------
\* Flush and commit.

\* Wrong on purpose: a cancelled order stays as it was.
CancelledKept(o) == [o EXCEPT !.cancels = @ + 1]

Cancelled(o) == [o EXCEPT !.status = "cancelled", !.cancels = @ + 1]

AdvanceSequence(s) ==
    IF s.handler = "create" THEN [sequence EXCEPT ![s.branch] = s.number] ELSE sequence

\* ck_stock_movement_after_non_negative fails the flush of a movement computed
\* from a read that is too old.
Commit(r) ==
    LET s == session[r] IN
    /\ s.stage = "commit"
    /\ IF s.error # None
       THEN Continue(r, [s EXCEPT !.stage = "failed"])
       ELSE /\ orders' =
                 CASE s.handler = "create" ->
                        Append(orders, [branch |-> s.branch, number |-> s.number, key |-> s.key,
                                        lines |-> s.lines, status |-> "pending", cancels |-> 0])
                   [] s.handler = "cancel" -> [orders EXCEPT ![s.order] = Cancelled(@)]
                   [] OTHER -> orders
            /\ sequence' = AdvanceSequence(s)
            /\ on_hand' = [row \in Rows |-> Visible(s, row)]
            /\ ledger' = [row \in Rows |-> ledger[row] + s.moved[row]]
            /\ inbound' = [row \in Rows |->
                    inbound[row] + IF s.handler \in {"return", "adjust"} THEN s.moved[row] ELSE 0]
            /\ last_after' = [row \in Rows |->
                    IF s.after[row] = None THEN last_after[row] ELSE s.after[row]]
            /\ session' = [session EXCEPT ![r] = IdleSession]
            /\ UNCHANGED served

-----------------------------------------------------------------------------
BeginSome(r) ==
    \/ \E b \in Branches, key \in Keys \cup {None}, cart \in Carts : BeginCreate(r, b, key, cart)
    \/ \E i \in DOMAIN orders : BeginCancel(r, i)
    \/ \E i \in DOMAIN orders, b \in Branches, cart \in Carts : BeginReturn(r, i, b, cart)
    \/ \E b \in Branches, p \in Products, n \in Amounts : BeginAdjust(r, b, p, n)

\* The next statement of a request under way.
Step(r) ==
    \/ NextSequence(r)
    \/ InsertOrder(r)
    \/ ReadOnHand(r)
    \/ DeductStock(r)
    \/ RestoreStock(r)
    \/ ReadForReturn(r)
    \/ WriteBack(r)
    \/ Commit(r)

Next == \E r \in Requests : BeginSome(r) \/ Step(r) \/ Rollback(r)

\* What a request that failed or is a deadlock's victim does.
Abort(r) ==
    /\ \/ session[r].stage = "failed"
       \/ \E S \in SUBSET Requests : r \in S /\ LockCycle(S)
    /\ Rollback(r)

Spec == Init /\ [][Next]_vars

\* Threads are scheduled, errors propagate to the session's close() and the
\* database detects deadlocks.  Nobody has to send a request, and no request has
\* to be lost.
FairSpec == Spec /\ \A r \in Requests : WF_vars(Step(r)) /\ WF_vars(Abort(r))

-----------------------------------------------------------------------------
TypeOK ==
    /\ \A i \in DOMAIN orders : orders[i] \in Order
    /\ on_hand \in [Rows -> Nat]
    /\ ledger \in [Rows -> Int]
    /\ inbound \in [Rows -> Int]
    /\ last_after \in [Rows -> Nat]
    /\ sequence \in [Branches -> Nat]
    /\ \A r \in Requests :
        LET s == session[r] IN
        /\ s.handler \in Handlers \cup {None}
        /\ s.stage \in Stages
        /\ s.branch \in Branches \cup {None}
        /\ s.order \in 0 .. Len(orders)
        /\ s.key \in Keys \cup {None}
        /\ s.number \in Nat /\ s.next \in Nat /\ s.seen \in Nat
        /\ s.new \in [Rows -> Nat \cup {None}]
        /\ s.after \in [Rows -> Int \cup {None}]
        /\ s.moved \in [Rows -> Int]
    /\ served \in 0 .. MaxServed

-----------------------------------------------------------------------------
\* What holds whatever the requests in flight.

(* A row is locked by one request at a time, and every uncommitted quantity *)
(* that create_order, cancel_order or adjust_inventory computed is under    *)
(* such a lock: nobody changes the committed value below it.                *)
WritesAreLocked ==
    \A r, q \in Requests :
        /\ r # q => session[r].held \cap session[q].held = {}
        /\ \A row \in Rows :
                session[r].new[row] # None /\ session[r].handler # "return" =>
                    RowLock(row) \in session[r].held

(* Order numbers of a branch are 1, 2, 3, ... without a gap or a duplicate, *)
(* although requests fail after taking a number: the upsert of              *)
(* _next_sequence is rolled back with the order.                            *)
NumbersGapless ==
    /\ \A i, j \in DOMAIN orders :
         i < j /\ orders[i].branch = orders[j].branch => orders[i].number < orders[j].number
    /\ \A i \in DOMAIN orders : orders[i].number \in 1 .. sequence[orders[i].branch]
    /\ \A b \in Branches : \A n \in 1 .. sequence[b] :
         \E i \in DOMAIN orders : orders[i].branch = b /\ orders[i].number = n

(* A client that sends an idempotency key gets at most one order for it,    *)
(* in whatever branch and however often it retries.                         *)
OneOrderPerKey ==
    \A i, j \in DOMAIN orders :
        orders[i].key # None /\ orders[i].key = orders[j].key => i = j

(* Without returns, inventory.on_hand is what the stock_movements ledger    *)
(* adds up to, whatever runs concurrently: the UPDATEs of create_order,     *)
(* cancel_order and adjust_inventory add to the current value.              *)
LedgerExplainsStock == \A row \in Rows : on_hand[row] = ledger[row]

(* Concurrent sales never deadlock, in whatever order their items come: the *)
(* branch's document sequence is locked before its first inventory row.     *)
NoLockCycle == \A S \in SUBSET Requests : ~LockCycle(S)

(* quantity_after of the newest movement of a row is the row's balance.     *)
(* Sales read quantity_before without a row lock, but they have locked the  *)
(* branch's document sequence by then.                                      *)
NewestMovementIsBalance == \A row \in Rows : last_after[row] = on_hand[row]

(* Nothing a request sends keeps it from ending: lock waits end, because a  *)
(* deadlock has a victim and every other holder of a lock goes on.          *)
EveryRequestEnds ==
    \A r \in Requests : session[r].stage # "idle" ~> session[r].stage = "idle"

-----------------------------------------------------------------------------
\* What holds when requests are served one after the other.

\* The quantity of product p in each of these lines.
QuantityOf(lines, p) ==
    [i \in DOMAIN lines |-> IF lines[i].product = p THEN lines[i].quantity ELSE 0]

Quantity(lines, p) == SumOf(QuantityOf(lines, p))

\* What each order took out of an inventory row.
TakenBy(o, row) ==
    IF o.branch = row[1] /\ o.status # "cancelled" THEN Quantity(o.lines, row[2]) ELSE 0

Taken(sales, row) == [i \in DOMAIN sales |-> TakenBy(sales[i], row)]

(* The stock on the shelf is the opening stock, plus what adjustments and   *)
(* returns brought in, minus what the orders that are not cancelled took.   *)
StockAccounted ==
    \A row \in Rows : on_hand[row] = Opening[row] + inbound[row] - SumOf(Taken(orders, row))

(* "negative = write-off": adjust_inventory refuses a write-off only when   *)
(* the stock does not cover it.                                             *)
WriteOffsWithinStock ==
    \A r \in Requests :
        LET s == session[r] IN
        s.stage = "failed" /\ s.handler = "adjust" =>
            on_hand[HeadRow(s)] + s.lines[1].quantity < 0
=============================================================================
