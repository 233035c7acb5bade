--------------------------- MODULE MCStockRequests ---------------------------
\* OrderStock under several workloads: sales in two branches with idempotency
\* keys, sales against cancellations and adjustments, and everything one request
\* at a time.
EXTENDS MCOrderStock, FiniteSets

\* The application server runs a bounded number of threads.
ASSUME ThreadsAreBounded == IsFiniteSet(Requests)

CONSTANT Workloads \* what a behaviour may be about

VARIABLE workload \* what this behaviour is about; chosen once

\* Requests in flight at a time, handlers, branches and keys used, item lists, requests begun.
Workload(width, handlers, branches, keys, carts, limit) ==
    [width |-> width, handlers |-> handlers, branches |-> branches, keys |-> keys,
     carts |-> carts, limit |-> limit]

Sales == {"create"}
NoReturns == {"create", "cancel", "adjust"}
Everything == {"create", "cancel", "return", "adjust"}

MCWorkloads == {
    Workload(2, Sales, {b1, b2}, {k1}, MCCarts, 3),
    Workload(2, NoReturns, {b1}, {}, MCCarts, 4),
    Workload(1, Everything, {b1, b2}, {k1}, MCSingles, 4)}

\* The item lists of all workloads.
MCAllCarts == MCCarts \union MCSingles

MCInit == workload \in Workloads /\ Init

Within(s) ==
    s.stage # "idle" =>
        /\ s.handler \in workload.handlers
        /\ s.branch \in workload.branches
        /\ s.key \in workload.keys \union {None}
        /\ s.handler \in {"create", "return"} => s.lines \in workload.carts

MCNext ==
    /\ Next
    /\ Cardinality({r \in Requests : session'[r].stage # "idle"}) <= workload.width
    /\ \A r \in Requests : Within(session'[r])
    /\ served' <= workload.limit
    /\ UNCHANGED workload

MCFairSpec ==
    /\ MCInit
    /\ [][MCNext]_<<vars, workload>>
    /\ \A r \in Requests :
         /\ WF_<<vars, workload>>(Step(r) /\ UNCHANGED workload)
         /\ WF_<<vars, workload>>(Abort(r) /\ UNCHANGED workload)

Serial == workload.width = 1
Uses(handler) == handler \in workload.handlers

-----------------------------------------------------------------------------
(* OrderStock.NoLockCycle, while orders are only created.                   *)
SalesNeverDeadlock == workload.handlers = Sales => NoLockCycle

(* The movements ledger tells the stock: the sum of a row's movements is    *)
(* its on_hand, unless a return overlaps another request; the newest        *)
(* movement ends at it, while only sales overlap (a cancellation records a  *)
(* quantity it read before it locked the row); and one request at a time    *)
(* the bottles that left are those of the orders that are not cancelled.    *)
MovementsTellStock ==
    /\ Serial \/ ~Uses("return") => LedgerExplainsStock
    /\ Serial \/ workload.handlers = Sales => NewestMovementIsBalance
    /\ Serial => StockAccounted
=============================================================================
