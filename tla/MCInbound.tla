----------------------------- MODULE MCInbound -----------------------------
\* Small instances of Purchases, Transfers and Claims for TLC, one component and
\* one workload per behaviour.
EXTENDS Purchases, FiniteSets, TLC

CONSTANTS r1, r2, p1, p2, b1, b2, l1, l2,
          Branches, Schemas, Opening, ItemsMoved, Counts, Damages, MaxTransfers,
          Orders, OrderItems, GrandTotal, Returnings, Amounts, MaxClaims,
          Workloads \* what a behaviour may be about

VARIABLES transfers, on_hand, moved, admitted, transfer_session,
          returns, refunds, taken, claim_session, claims,
          workload \* what this behaviour is about; chosen once

Shipping == INSTANCE Transfers WITH ItemLists <- ItemsMoved, session <- transfer_session

Papers == INSTANCE Claims WITH Items <- OrderItems

ASSUME RequestsAreFinite == IsFiniteSet(Requests)

\* As the request schemas validate them; a migration adds statuses.
ASSUME TransfersAssumption ==
    /\ \A schema \in Schemas : Shipping!CheckedStatuses \subseteq schema
    /\ ItemsMoved \subseteq Seq([product : Products, quantity : Nat \ {0}])
    /\ Opening \in [Branches \X Products -> Nat \cup {None}]
    /\ Counts \subseteq Nat /\ Damages \subseteq Nat

ASSUME ClaimsAssumption ==
    /\ \A o \in Orders : OrderItems[o] \in Seq([quantity : Nat, unit_price : Nat])
    /\ Returnings \subseteq Seq([item : Nat \ {0}, quantity : Nat \ {0}])
    /\ Amounts \subseteq Nat \ {0}

Ordered(p, n) == [product |-> p, ordered |-> n, cost |-> IF p = p1 THEN 3 ELSE 4]
Delivered(i, n, l) == [item |-> i, quantity |-> n, lot |-> l]

\* One product twice, two products.
MCItemLists == {<<Ordered(p1, 2)>>, <<Ordered(p1, 1), Ordered(p2, 1)>>}

\* A part of an item, two lots of one item, two items in one lot number, too much.
MCDeliveries == {<<Delivered(1, 1, l1)>>, <<Delivered(1, 1, l1), Delivered(1, 1, l2)>>,
                 <<Delivered(1, 1, l1), Delivered(2, 1, l1)>>}

\* b1 has two bottles of everything, b2 no row of p2.
MCOpening == [row \in Branches \X Products |->
                IF row[1] = b1 THEN 2 ELSE IF row[2] = p1 THEN 0 ELSE None]

MCItemsMoved == {<<[product |-> p1, quantity |-> 2]>>,
                 <<[product |-> p1, quantity |-> 1], [product |-> p2, quantity |-> 1]>>,
                 <<[product |-> p2, quantity |-> 1], [product |-> p2, quantity |-> 1]>>}

\* The schema of models.py, and one that admits every status the service writes.
MCSchemas ==
    LET checked == {"draft", "approved", "in_transit", "partially_received", "received", "cancelled"}
    IN  {checked, checked \cup {"pending", "completed"}}

\* An order of two bottles and a gift.
MCOrderItems ==
    [o \in Orders |-> <<[quantity |-> 2, unit_price |-> 3], [quantity |-> 1, unit_price |-> 0]>>]

MCGrandTotal == [o \in Orders |-> 6]

Back(i, n) == [item |-> i, quantity |-> n]

MCReturnings == {<<Back(1, 2)>>, <<Back(2, 1)>>, <<Back(1, 1), Back(2, 1)>>, <<Back(1, 3)>>}

\* component, requests in flight at a time, handlers used, requests begun, documents.
Workload(component, width, handlers, limit, documents) ==
    [component |-> component, width |-> width, handlers |-> handlers, limit |-> limit,
     documents |-> documents]

Editing == {"create", "update", "approve", "cancel", "receive"}
Receiving == {"create", "approve", "receive"}
Moving == {"approve", "ship", "receive", "cancel"}

MCWorkloads == {
    Workload("purchases", 1, Editing, 6, 2),
    Workload("purchases", 2, Receiving, 5, 2),
    Workload("purchases", 2, Editing, 4, 2),
    Workload("deployed", 2, Moving, 4, 2),
    Workload("transfers", 1, Moving, 5, 2),
    Workload("transfers", 2, Moving, 5, 1),
    Workload("claims", 2, {"return", "refund", "process"}, 4, 4)}

Other == <<transfers, on_hand, moved, admitted, transfer_session>>
Paperwork == <<returns, refunds, taken, claim_session, claims>>

MCInit ==
    /\ workload \in Workloads /\ Init /\ Shipping!Init /\ Papers!Init
    /\ workload.component = "deployed" <=> admitted = Shipping!CheckedStatuses

\* The component's step, within the workload.
Within(sessions) ==
    LET inFlight == {r \in Requests : sessions[r].stage # "idle"} IN
    /\ Cardinality(inFlight) <= workload.width
    /\ \A r \in inFlight : sessions[r].handler \in workload.handlers
    /\ served' <= workload.limit
    /\ Len(purchase_orders') + Len(transfers') <= workload.documents
    /\ UNCHANGED workload

MCNext ==
    \/ workload.component = "purchases" /\ Next /\ UNCHANGED <<Other, Paperwork>> /\ Within(session')
    \/ workload.component \in {"deployed", "transfers"} /\ Shipping!Next
         /\ UNCHANGED <<tables, session, Paperwork>> /\ Within(transfer_session')
    \/ workload.component = "claims" /\ Papers!Next /\ UNCHANGED <<vars, Other, workload>>

MCSpec == MCInit /\ [][MCNext]_<<vars, Other, Paperwork, workload>>

-----------------------------------------------------------------------------
Serial == workload.width = 1

(* Purchase orders, deliveries, transfers, returns and refunds keep their   *)
(* types.                                                                   *)
InboundTypes == TypeOK /\ Shipping!TypeOK /\ Papers!TypeOK

(* What a purchase order says was received is what its deliveries, its lots *)
(* and the stock say, where no update overlaps a request, and its total is  *)
(* that of its items, one request at a time.  Two deliveries in flight read *)
(* the same quantities: the number they both compute keeps them apart.      *)
PurchasesMatchDeliveries ==
    /\ DeliveriesExclusive
    /\ LotsAndStockMatchDeliveries
    /\ Serial \/ "update" \notin workload.handlers => ReceivedMatchesDeliveries
    /\ Serial => TotalIsValue

(* Numbers of purchase orders and deliveries (count + 1), of returns and of *)
(* refunds (locked counters) run 1, 2, 3, ..., whatever overlaps or fails.  *)
DocumentsNumberedGapless == NumbersGapless /\ Papers!NumbersGapless

(* Claims.ReturnsHaveTheirRefund, whatever overlaps: a return of any value  *)
(* and its refund are committed together or not at all.                     *)
ReturnsHaveTheirRefund == Papers!ReturnsHaveTheirRefund

(* Claims.RefundsWithinTotal: the refunds of an order stay within its total.*)
RefundsWithinTotal == Papers!RefundsWithinTotal

(* Transfers.DraftsCanBeApproved, with the schema of models.py.             *)
DeployedDraftsCanBeApproved ==
    admitted = Shipping!CheckedStatuses => Shipping!DraftsCanBeApproved

(* Bottles in transfers: with the schema of models.py none ever leaves; with*)
(* one that admits every status, what leaves a branch is in the ledger and  *)
(* no item receives more than was shipped, whatever overlaps; one request   *)
(* at a time, none appears or vanishes on the way and a cancelled transfer  *)
(* moved none.                                                              *)
TransfersConserveBottles ==
    /\ Shipping!NothingShips
    /\ Shipping!QuantityChain /\ Shipping!OutboundIsLedgered
    /\ Serial => Shipping!BottlesConserved /\ Shipping!CancelledMovedNothing

(* One request at a time: an approved purchase order keeps its items, and a *)
(* received or cancelled transfer moves nothing more.                       *)
ApprovedAndClosedStay ==
    [][Serial => ApprovedStep]_vars /\ [][Serial => Shipping!ClosedStep]_Other

Symmetry == Permutations(Requests)
=============================================================================
