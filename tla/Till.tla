-------------------------------- MODULE Till --------------------------------
(***************************************************************************)
(* What the till promises about the orders of a shop, whatever its         *)
(* implementation: money is received for an order that was not cancelled,  *)
(* an open order is closed once, either cancelled or settled, it is        *)
(* settled only when the money received and the points credited cover its  *)
(* price, and no more is paid back than was received.                      *)
(***************************************************************************)
EXTENDS Integers

CONSTANTS
    Orders, \* ids of the orders
    Price   \* what each order costs

VARIABLES
    phase,    \* "open", "settled" or "cancelled"
    received, \* money received for the order
    credited, \* money's worth of the points given up for it
    returned  \* money paid back

vars == <<phase, received, credited, returned>>

Init ==
    /\ phase = [o \in Orders |-> "open"]
    /\ received = [o \in Orders |-> 0]
    /\ credited = [o \in Orders |-> 0]
    /\ returned = [o \in Orders |-> 0]

\* Only entry o of f may change, and only upwards.
Grows(f, g, o) == /\ g[o] >= f[o]
                  /\ g = [f EXCEPT ![o] = g[o]]

\* A payment before or after settlement.
Receive(o) ==
    /\ phase[o] # "cancelled"
    /\ Grows(received, received', o)
    /\ UNCHANGED <<phase, credited, returned>>

Settle(o) ==
    /\ phase[o] = "open"
    /\ phase' = [phase EXCEPT ![o] = "settled"]
    /\ Grows(received, received', o)
    /\ Grows(credited, credited', o)
    /\ received'[o] + credited'[o] >= Price[o]
    /\ UNCHANGED returned

Cancel(o) ==
    /\ phase[o] = "open"
    /\ phase' = [phase EXCEPT ![o] = "cancelled"]
    /\ UNCHANGED <<received, credited, returned>>

PayBack(o) ==
    /\ Grows(returned, returned', o)
    /\ returned'[o] <= received[o]
    /\ UNCHANGED <<phase, received, credited>>

Next == \E o \in Orders : Receive(o) \/ Settle(o) \/ Cancel(o) \/ PayBack(o)

Spec == Init /\ [][Next]_vars
=============================================================================
