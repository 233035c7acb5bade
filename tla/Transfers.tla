------------------------------ MODULE Transfers ------------------------------
(***************************************************************************)
(* Stock transfers between the branches of one organization: request,      *)
(* approval, shipping, receiving with damages, cancellation.               *)
(*                                                                         *)
(* A handler reads the transfer with its items once, without a lock, and   *)
(* decides on that read.  ship_transfer then takes the stock of each item  *)
(* with a guarded relative UPDATE, which locks the inventory row to the    *)
(* end of the transaction; receive_transfer adds to the destination's row  *)
(* in Python and writes absolute values when it commits.  flush and commit *)
(* are one step.                                                           *)
(*                                                                         *)
(* Statuses the CHECK of stock_transfers refuses make the flush fail.  A   *)
(* behaviour has one of the Schemas: CheckedStatuses is the repository's.  *)
(***************************************************************************)
EXTENDS Sums

CONSTANTS
    Branches,       \* ids of the branches
    Products,       \* ids of the products
    Requests,       \* requests that may be in flight; a singleton is a serial run
    None,           \* SQL NULL and "not set"
    Opening,        \* on_hand of every inventory row at the start, None where there is no row
    Schemas,        \* sets of statuses the CHECK of stock_transfers may admit
    ItemLists,      \* item lists clients request: sequences of [product, quantity]
    Counts,         \* quantities clients report as shipped or received
    Damages,        \* quantities clients report as damaged
    MaxTransfers,   \* bound of the model: transfers created
    MaxServed       \* bound of the model: requests begun in a behaviour

VARIABLES
    transfers, \* stock_transfers with their items, in the order of their creation
    on_hand,   \* inventory.on_hand as committed, None where there is no row
    moved,     \* per inventory row and movement type: SUM(|quantity_change|)
    admitted,  \* the statuses the CHECK of the database admits
    session,   \* per request: what its transaction has read and written so far
    served     \* requests begun so far (bound of the model)

tables == <<transfers, on_hand, moved>>
vars == <<tables, admitted, session, served>>

Rows == Branches \X Products

TransferItem == [product : Products, requested : Nat, shipped : Nat, received : Nat, damaged : Nat]

\* ck_stock_transfer_status
CheckedStatuses == {"draft", "approved", "in_transit", "partially_received", "received", "cancelled"}

StockTransfer ==
    [source : Branches, dest : Branches, status : admitted, items : Seq(TransferItem)]

MovementTypes == {"transfer_out", "transfer_in", "damage"}

Ledger == Rows \X MovementTypes

IdleSession ==
    [handler |-> None, stage |-> "idle", transfer |-> 0,
     loaded |-> <<>>, \* the items as read
     items |-> <<>>,  \* the items with the quantities set in Python
     lines |-> <<>>, next |-> 1, seen |-> 0,
     stock |-> [row \in Rows |-> None], \* on_hand to write, None where untouched
     fresh |-> {},                      \* rows it found missing and inserts
     held |-> {},                       \* inventory rows it has locked
     moves |-> [k \in Ledger |-> 0],    \* movements to insert, summed as in moved
     sound |-> TRUE,                    \* whether none of them ends below 0
     error |-> None]

Init ==
    /\ transfers = <<>>
    /\ on_hand = Opening
    /\ moved = [k \in Ledger |-> 0]
    /\ admitted \in Schemas
    /\ session = [r \in Requests |-> IdleSession]
    /\ served = 0

-----------------------------------------------------------------------------
Begin(r) ==
    /\ session[r].stage = "idle"
    /\ served < MaxServed
    /\ served' = served + 1

Continue(r, s) ==
    /\ session' = [session EXCEPT ![r] = s]
    /\ UNCHANGED <<tables, admitted, served>>

Fail(r, error) == Continue(r, [session[r] EXCEPT !.stage = "failed", !.error = error])

\* Close without commit, at any moment.
Rollback(r) ==
    /\ session[r].stage # "idle"
    /\ Continue(r, IdleSession)

Free(r, rows) == \A q \in Requests \ {r} : rows \cap session[q].held = {}

\* An inventory row as request r sees it.
Visible(s, row) == IF s.stock[row] = None THEN on_hand[row] ELSE s.stock[row]

Line(s) == s.lines[s.next]

\* The next line, or the end of the loop.
NextLine(s, first) ==
    [s EXCEPT !.next = @ + 1, !.stage = IF s.next < Len(s.lines) THEN first ELSE "commit"]

-----------------------------------------------------------------------------
\* create_transfer.  The upsert of the TRF sequence serialises creations up to
\* their commits; nothing else of a new transfer is shared.
CreateTransfer(r, source, dest, list) ==
    /\ Begin(r)
    /\ source # dest
    /\ Len(transfers) < MaxTransfers
    /\ transfers' = Append(transfers,
            [source |-> source, dest |-> dest, status |-> "draft",
             items |-> [i \in DOMAIN list |->
                [product |-> list[i].product, requested |-> list[i].quantity,
                 shipped |-> 0, received |-> 0, damaged |-> 0]]])
    /\ UNCHANGED <<on_hand, moved, admitted, session>>

\* The status checks of the handlers.
Accepted(handler) ==
    CASE handler = "approve" -> {"draft"}
      [] handler = "ship" -> {"pending"}
      [] handler = "receive" -> {"in_transit"}
      [] handler = "cancel" -> {"draft", "pending"}

\* What the handlers assign.
NewStatus(handler) ==
    CASE handler = "approve" -> "pending"
      [] handler = "ship" -> "in_transit"
      [] handler = "receive" -> "completed"
      [] handler = "cancel" -> "cancelled"

\* get_org_transfer with its items, and the check of the status.
LoadTransfer(r, handler, t, lines) ==
    /\ Begin(r)
    /\ transfers[t].status \in Accepted(handler)
    /\ session' = [session EXCEPT ![r] =
            [IdleSession EXCEPT !.handler = handler, !.transfer = t, !.lines = lines,
                                !.loaded = transfers[t].items, !.items = transfers[t].items,
                                !.stage = IF lines = <<>> THEN "commit" ELSE "read"]]
    /\ UNCHANGED <<tables, admitted>>

-----------------------------------------------------------------------------
\* ship_transfer, per item.  Lines of one request name different items.

SourceRow(s) == <<transfers[s.transfer].source, s.items[Line(s).item].product>>

\* The quantity check and get_inventory, for the movement's quantity_before.
ReadSource(r) ==
    LET s == session[r]
        item == s.items[Line(s).item]
    IN
    /\ s.stage = "read" /\ s.handler = "ship"
    /\ IF Line(s).quantity > item.requested - item.shipped
       THEN Fail(r, "exceeds remaining")
       ELSE Continue(r, [s EXCEPT !.stage = "update",
                                  !.seen = IF Visible(s, SourceRow(s)) = None
                                           THEN 0 ELSE Visible(s, SourceRow(s))])

\* Wrong on purpose: the UPDATE is not guarded by on_hand >= quantity.
InStockUnguarded(available, quantity) == available # None

InStock(available, quantity) == available # None /\ available >= quantity

Deducted(s, row) == Visible(s, row) - Line(s).quantity

\* A movement added to those to insert.
Recorded(moves, row, type, quantity) == [moves EXCEPT ![<<row, type>>] = @ + quantity]

DeductSource(r) ==
    LET s == session[r]
        row == SourceRow(s)
        q == Line(s).quantity
    IN
    /\ s.stage = "update"
    /\ Free(r, {row})
    /\ IF ~InStock(Visible(s, row), q)
       THEN Fail(r, "insufficient stock")
       ELSE Continue(r, NextLine([s EXCEPT
                !.stock[row] = Deducted(s, row),
                !.held = @ \cup {row},
                !.items[Line(s).item].shipped = @ + q,
                !.moves = Recorded(@, row, "transfer_out", q),
                !.sound = @ /\ q <= s.seen], "read"))

-----------------------------------------------------------------------------
\* receive_transfer, per item.

DestRow(s) == <<transfers[s.transfer].dest, s.items[Line(s).item].product>>

\* Wrong on purpose: damaged bottles are put on the shelf as well.
ReceivedWithDamaged(line) == line.quantity + line.damaged

Received(line) == line.quantity

Booked(item, line) ==
    [item EXCEPT !.received = @ + line.quantity, !.damaged = @ + line.damaged]

\* The damage movement starts from the balance after the delivery, or from 0
\* when nothing arrived whole.  A row that was missing is inserted, and inserted
\* again by a second item of the product: the SELECT does not see the first one,
\* which is not flushed, and uq_inventory_branch_product fails the flush.
ReceiveItem(r) ==
    LET s == session[r]
        line == Line(s)
        item == s.items[line.item]
        row == DestRow(s)
        before == IF Visible(s, row) = None THEN 0 ELSE Visible(s, row)
        whole == line.quantity > 0
        balance == IF whole THEN before + line.quantity ELSE 0
    IN
    /\ s.stage = "read" /\ s.handler = "receive"
    /\ IF line.quantity + line.damaged > item.shipped - item.received
       THEN Fail(r, "exceeds shipped")
       ELSE IF whole /\ row \in s.fresh
       THEN Fail(r, "constraint")
       ELSE Continue(r, NextLine([s EXCEPT
                !.stock[row] = IF whole THEN before + Received(line) ELSE @,
                !.fresh = IF whole /\ Visible(s, row) = None THEN @ \cup {row} ELSE @,
                !.items[line.item] = Booked(item, line),
                !.moves = Recorded(Recorded(@, row, "transfer_in", line.quantity),
                                   row, "damage", line.damaged),
                !.sound = @ /\ (line.damaged > 0 => line.damaged <= balance)], "read"))

-----------------------------------------------------------------------------
\* Flush and commit.

\* An UPDATE sets the columns whose value differs from the one read.
Column(loaded, mine, committed) == IF mine = loaded THEN committed ELSE mine

WrittenItem(item, loaded, mine) ==
    [item EXCEPT !.shipped = Column(loaded.shipped, mine.shipped, @),
                 !.received = Column(loaded.received, mine.received, @),
                 !.damaged = Column(loaded.damaged, mine.damaged, @)]

Written(s) ==
    LET row == transfers[s.transfer] IN
    [row EXCEPT !.status = NewStatus(s.handler),
                !.items = [i \in DOMAIN row.items |->
                                WrittenItem(row.items[i], s.loaded[i], s.items[i])]]

\* ck_transfer_item_shipped_lte_requested, ck_transfer_item_received_damaged_lte_shipped
ItemChecks(item) ==
    /\ item.shipped <= item.requested
    /\ item.received + item.damaged <= item.shipped

\* The constraints the flush can violate.
FlushSucceeds(s) ==
    /\ NewStatus(s.handler) \in admitted
    /\ \A i \in DOMAIN s.items : ItemChecks(Written(s).items[i])
    /\ s.sound
    /\ \A row \in s.fresh : on_hand[row] = None

CommitTransfer(r) ==
    LET s == session[r] IN
    /\ s.stage = "commit"
    /\ Free(r, {row \in Rows : s.stock[row] # None})
    /\ IF ~FlushSucceeds(s)
       THEN Fail(r, "constraint")
       ELSE /\ transfers' = [transfers EXCEPT ![s.transfer] = Written(s)]
            /\ on_hand' = [row \in Rows |-> Visible(s, row)]
            /\ moved' = [k \in Ledger |-> moved[k] + s.moves[k]]
            /\ session' = [session EXCEPT ![r] = IdleSession]
            /\ UNCHANGED <<admitted, served>>

-----------------------------------------------------------------------------
\* Bodies of ship and receive: one line for each of some of the items, in order.
Lines(t, damages) ==
    LET items == DOMAIN transfers[t].items
        On(n) == [1 .. n -> [item : items, quantity : Counts, damaged : damages]]
    IN  {lines \in UNION {On(n) : n \in items} :
            \A m, n \in DOMAIN lines : m < n => lines[m].item < lines[n].item}

BeginSome(r) ==
    \/ \E source, dest \in Branches, list \in ItemLists : CreateTransfer(r, source, dest, list)
    \/ \E t \in DOMAIN transfers :
        \/ \E handler \in {"approve", "cancel"} : LoadTransfer(r, handler, t, <<>>)
        \/ \E lines \in Lines(t, {0}) :
            /\ \A n \in DOMAIN lines : lines[n].quantity > 0
            /\ LoadTransfer(r, "ship", t, lines)
        \/ \E lines \in Lines(t, Damages) : LoadTransfer(r, "receive", t, lines)

Step(r) == ReadSource(r) \/ DeductSource(r) \/ ReceiveItem(r) \/ CommitTransfer(r)

Next == \E r \in Requests : BeginSome(r) \/ Step(r) \/ Rollback(r)

Spec == Init /\ [][Next]_vars

-----------------------------------------------------------------------------
TypeOK ==
    /\ \A t \in DOMAIN transfers : transfers[t] \in StockTransfer
    /\ on_hand \in [Rows -> Nat \cup {None}]
    /\ moved \in [Ledger -> Nat]
    /\ \A r \in Requests : session[r].stage \in {"idle", "read", "update", "commit", "failed"}
    /\ served \in 0 .. MaxServed

(* With the schema of models.py no transfer ever gets beyond its draft and  *)
(* none moves a bottle: approve_transfer writes "pending", which the CHECK  *)
(* refuses, and ship_transfer demands it.                                   *)
NothingShips ==
    admitted = CheckedStatuses =>
    /\ \A t \in DOMAIN transfers : transfers[t].status \in {"draft", "cancelled"}
    /\ on_hand = Opening

(* PHASE_6_DATABASE_ARCHITECTURE.md:1473 "DRAFT → APPROVED": the approval   *)
(* of a draft that is still a draft does not fail.                          *)
DraftsCanBeApproved ==
    \A r \in Requests :
        LET s == session[r] IN
        s.handler = "approve" /\ s.stage = "failed" => transfers[s.transfer].status # "draft"

(* Whatever requests overlap, an item is never shipped beyond what was      *)
(* requested nor received and damaged beyond what was shipped, although     *)
(* both handlers check quantities they read without a lock.                 *)
QuantityChain ==
    \A t \in DOMAIN transfers : \A i \in DOMAIN transfers[t].items :
        LET item == transfers[t].items[i] IN
        item.received + item.damaged <= item.shipped /\ item.shipped <= item.requested

(* The stock of a branch that receives nothing is the opening stock less    *)
(* its transfer_out movements, whatever requests overlap: shipping deducts  *)
(* from the current value, not from the one it read.                        *)
OutboundIsLedgered ==
    \A row \in Rows :
        (\A t \in DOMAIN transfers : transfers[t].dest # row[1]) /\ Opening[row] # None =>
            on_hand[row] = Opening[row] - moved[<<row, "transfer_out">>]

-----------------------------------------------------------------------------
\* What holds when requests are served one after the other.

Shelf(quantity) == IF quantity = None THEN 0 ELSE quantity

\* What the items of a transfer say was taken from a row, and put into it.
TakenBy(transfer, row) ==
    SumOf([i \in DOMAIN transfer.items |->
              IF <<transfer.source, transfer.items[i].product>> = row
              THEN transfer.items[i].shipped ELSE 0])

PutBy(transfer, row) ==
    SumOf([i \in DOMAIN transfer.items |->
              IF <<transfer.dest, transfer.items[i].product>> = row
              THEN transfer.items[i].received ELSE 0])

(* No bottle appears or vanishes, row by row: what left a shelf is what the *)
(* transfers say was shipped from it, and what reached it is what they say  *)
(* was received there.                                                      *)
BottlesConserved ==
    \A row \in Rows :
        Shelf(on_hand[row]) =
            Shelf(Opening[row]) - SumOf([t \in DOMAIN transfers |-> TakenBy(transfers[t], row)])
                                + SumOf([t \in DOMAIN transfers |-> PutBy(transfers[t], row)])

(* A cancelled transfer has shipped nothing: its goods are where they were. *)
CancelledMovedNothing ==
    \A t \in DOMAIN transfers :
        transfers[t].status = "cancelled" =>
            \A i \in DOMAIN transfers[t].items : transfers[t].items[i].shipped = 0

(* A completed or cancelled transfer never changes again.                   *)
ClosedStep ==
    \A t \in DOMAIN transfers :
        transfers[t].status \in {"completed", "cancelled"} => transfers'[t] = transfers[t]
=============================================================================
