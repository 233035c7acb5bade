------------------------------- MODULE Kitchen -------------------------------
(***************************************************************************)
(* The items of orders on the displays of kitchen and bar.  A cook moves   *)
(* one item at a time along the station workflow: the status is read,      *)
(* tested and overwritten, the row is not locked in between.               *)
(***************************************************************************)
EXTENDS Integers

CONSTANTS
    Items,      \* the order_items rows on display
    Stations,   \* order_items.station, a function of the item
    Requests,   \* requests that may be in flight; a singleton is a serial run
    MaxMoves    \* bound of the model: requests begun

VARIABLES
    item_status,
    been,            \* per item: the statuses it has had
    cancelled,       \* items whose order is cancelled
    kitchen_session, \* per request: the item, its status as loaded, the status asked for
    moves            \* requests so far (bound of the model)

kitchenVars == <<item_status, been, cancelled, kitchen_session, moves>>

ItemStatuses == {"pending", "preparing", "ready", "served", "cancelled"}

\* Wrong on purpose: a cook may serve what is being prepared.
ItemStatusTransitionsSkipping ==
    [s \in ItemStatuses |->
        CASE s = "pending" -> {"preparing", "cancelled"}
          [] s = "preparing" -> {"ready", "served", "cancelled"}
          [] s = "ready" -> {"served"}
          [] OTHER -> {}]

\* Wrong on purpose: a cancelled item may be taken up again.
ItemStatusTransitionsReviving ==
    [s \in ItemStatuses |->
        CASE s = "pending" -> {"preparing", "cancelled"}
          [] s = "preparing" -> {"ready", "cancelled"}
          [] s = "ready" -> {"served"}
          [] s = "cancelled" -> {"preparing"}
          [] OTHER -> {}]

ItemStatusTransitions ==
    [s \in ItemStatuses |->
        CASE s = "pending" -> {"preparing", "cancelled"}
          [] s = "preparing" -> {"ready", "cancelled"}
          [] s = "ready" -> {"served"}
          [] OTHER -> {}]

IdleCook == [stage |-> "idle", item |-> 0, target |-> "pending"]

Init ==
    /\ item_status = [i \in Items |-> "pending"]
    /\ been = [i \in Items |-> {"pending"}]
    /\ cancelled = {}
    /\ kitchen_session = [r \in Requests |-> IdleCook]
    /\ moves = 0

-----------------------------------------------------------------------------
\* list_kitchen_orders and list_bar_orders: what a display of the station shows.
StationItems(station) == {i \in Items \ cancelled : Stations[i] = station}

\* require_station_item_permission and the SELECTs of update_item_status.  permissions
\* are the stations the token may update.  Nothing asks whether the order is on display.
LoadItem(r, permissions, i, target) ==
    /\ kitchen_session[r].stage = "idle"
    /\ moves < MaxMoves
    /\ moves' = moves + 1
    /\ Stations[i] \in permissions
    /\ target \in ItemStatusTransitions[item_status[i]]
    /\ kitchen_session' = [kitchen_session EXCEPT ![r] =
            [stage |-> "loaded", item |-> i, target |-> target]]
    /\ UNCHANGED <<item_status, been, cancelled>>

UpdateItemStatus(r) ==
    LET s == kitchen_session[r] IN
    /\ s.stage = "loaded"
    /\ item_status' = [item_status EXCEPT ![s.item] = s.target]
    /\ been' = [been EXCEPT ![s.item] = @ \union {s.target}]
    /\ kitchen_session' = [kitchen_session EXCEPT ![r] = IdleCook]
    /\ UNCHANGED <<cancelled, moves>>

Rollback(r) ==
    /\ kitchen_session[r].stage # "idle"
    /\ kitchen_session' = [kitchen_session EXCEPT ![r] = IdleCook]
    /\ UNCHANGED <<item_status, been, cancelled, moves>>

\* cancel_order: the items leave the displays, their statuses stay.
CancelOrder(i) ==
    /\ i \notin cancelled
    /\ cancelled' = cancelled \union {i}
    /\ UNCHANGED <<item_status, been, kitchen_session, moves>>

Next ==
    \/ \E r \in Requests :
         \/ \E i \in Items, target \in ItemStatuses : LoadItem(r, {Stations[i]}, i, target)
         \/ UpdateItemStatus(r)
         \/ Rollback(r)
    \/ \E i \in Items : CancelOrder(i)

Spec == Init /\ [][Next]_kitchenVars

-----------------------------------------------------------------------------
TypeOK ==
    /\ item_status \in [Items -> ItemStatuses]
    /\ \A i \in Items : item_status[i] \in been[i]

(* Whatever overlaps: nothing is served that was not prepared and ready     *)
(* before, although a status is written from a read that may be old.        *)
ServedWasReady ==
    \A i \in Items : item_status[i] = "served" => {"preparing", "ready"} \subseteq been[i]

(* One request at a time: a served or cancelled item stays so.              *)
FinalStep ==
    \A i \in Items : item_status[i] \in {"served", "cancelled"} => item_status'[i] = item_status[i]

FinalItemsStay == [][FinalStep]_kitchenVars

(* Refuted: a cook only changes what a display shows.                       *)
VisibleStep ==
    \A i \in Items : item_status'[i] # item_status[i] => i \in StationItems(Stations[i])

OnlyVisibleItemsChange == [][VisibleStep]_kitchenVars
=============================================================================
