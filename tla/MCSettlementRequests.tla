----------------------- MODULE MCSettlementRequests -----------------------
\* Settlement under several workloads: one request at a time on two orders of a
\* customer, one at a time with slips, two at a time with slips; and the uploads
\* that file the slips, one and two at a time, in workloads of their own.
EXTENDS MCSettlement, Sequences, FiniteSets

CONSTANTS w1, w2, Images, Text, UploadTotals, Workers, MaxRows, MaxAttempts \* see SlipVerify

VARIABLES order_status, verifications, attempts, upload_payments, upload_session

Uploads == INSTANCE SlipVerify WITH
    GrandTotal <- UploadTotals, payments <- upload_payments, session <- upload_session

ASSUME RequestsAreBounded == IsFiniteSet(Requests) /\ IsFiniteSet(Workers)

ASSUME UploadsAssumption == Uploads!ConstantsAllowed

uploadVars == <<order_status, verifications, attempts, upload_payments, upload_session>>

CONSTANT Workloads \* what a behaviour may be about

ASSUME WorkloadsAssumption == \A w \in Workloads : w.width \in Nat

VARIABLE workload \* what this behaviour is about; chosen once

\* Component, requests in flight at a time, orders and slips used, requests begun or,
\* for uploads, rows filed.
Workload(component, width, used, sent, limit) ==
    [component |-> component, width |-> width, orders |-> used, slips |-> sent, limit |-> limit]

MCWorkloads == {
    Workload("settlement", 1, {o1, o2}, {}, 5),
    Workload("settlement", 1, {o1}, {v1, v2}, 6),
    Workload("settlement", 2, {o1}, {v1, v2}, 4),
    Workload("uploads", 1, {o1, o2}, {}, 2),
    Workload("uploads", 2, {o1}, {}, 3)}

MCInit ==
    /\ workload \in Workloads
    /\ Init /\ Uploads!Init
    /\ \A v \in Verifications \ workload.slips : slip[v].status = "pending"

SettlementStep ==
    /\ workload.component = "settlement"
    /\ Next
    /\ Cardinality({r \in Requests : session'[r].stage # "idle"}) <= workload.width
    /\ \A r \in Requests : /\ session'[r].order \in workload.orders \cup {None}
                           /\ session'[r].slip \in workload.slips \cup {None}
    /\ served' <= workload.limit
    /\ UNCHANGED <<uploadVars, workload>>

UploadStep ==
    /\ workload.component = "uploads"
    /\ Uploads!Next
    /\ Cardinality({w \in Workers : upload_session'[w].stage # "idle"}) <= workload.width
    /\ \A w \in Workers : upload_session'[w].order \in workload.orders \cup {None}
    /\ \A o \in Orders \ workload.orders : order_status'[o] = "open"
    /\ Len(verifications') <= workload.limit
    /\ UNCHANGED <<vars, workload>>

MCNext == SettlementStep \/ UploadStep

MCSpec == MCInit /\ [][MCNext]_<<vars, uploadVars, workload>>

Camera == INSTANCE SlipPhotos

MCImages == Camera!Photos
MCText == Camera!Readings

MCUploadTotals == [o \in Orders |-> 250]

WorkerSymmetry == Symmetry \cup Permutations(Workers)

Serial == workload.width = 1

\* An approved slip revives a cancelled order and overwrites what was refunded: see
\* the README.
AtTheTill == Serial /\ workload.slips = {}

-----------------------------------------------------------------------------
(* The orders, slips and payments, and the uploads, keep their types.       *)
RequestTypes == TypeOK /\ Uploads!TypeOK

(* One request at a time, whatever slips are approved in between: balance,  *)
(* points ledger and the orders' points agree, and no order is charged      *)
(* twice.  Concurrent requests lose updates here (loyalty/service.py:48,    *)
(* orders/service.py:442).                                                  *)
PointsAgree == LedgerMatchesBalance /\ OrderPointsMatchLedger /\ SettledOnce

(* One request at a time at the till: what is refunded was paid, and an     *)
(* order's stock is back exactly when the order is cancelled.               *)
RefundsAndStockAgree == RefundsAreCovered /\ StockBackIffCancelled

SerialBooksAgree == (Serial => PointsAgree) /\ (AtTheTill => RefundsAndStockAgree)

(* Settlement.ImplementsTill, one request at a time, no slips: checkouts,   *)
(* payments, refunds and status changes do to an order what the abstract    *)
(* till may do.                                                             *)
TillIsImplemented == T!Init /\ [][AtTheTill => [T!Next]_(T!vars)]_vars

(* With one upload at a time an image, and a reference, has at most one     *)
(* slip that is not rejected; with several at most as many as overlap, so   *)
(* whatever overlaps, only uploads in flight slip past the lookups of       *)
(* duplicates (slip_verify/service.py:64, :145).                            *)
LiveSlipsWithinWorkers ==
    Uploads!LivePerImage(workload.width) /\ Uploads!LivePerReference(workload.width)
=============================================================================
