-------------------------- MODULE SettlementProofs --------------------------
(***************************************************************************)
(* Theorems about Settlement: what holds for every number of orders,       *)
(* customers, slips and requests in flight.  The strengthening is what the *)
(* sessions carry: the row a session loaded claims no more money than the  *)
(* payments rows account for, the balance it loaded is not negative, and a *)
(* session that holds FOR UPDATE is alone and has the rows as they are.    *)
(*                                                                         *)
(* And about SlipVerify, for all images, readings, totals and workers: the *)
(* live slips of an image or reference and the uploads that have looked it *)
(* up are together at most as many as may overlap, because an upload goes  *)
(* on only when it finds none.                                             *)
(***************************************************************************)
EXTENDS MCSettlementRequests, FiniteSetTheorems, Tables

LockedStages == {"locked", "locked_customer"}
OrderStages == {"order", "customer", "locked", "locked_customer"}
CustomerStages == {"customer", "locked_customer", "balance"}

SessionInv(r) ==
    /\ session[r].stage \in OrderStages =>
            /\ session[r].order \in Orders
            /\ session[r].row \in OrderRow
            /\ session[r].row.amount_paid <= paid[session[r].order]
    /\ session[r].stage \in CustomerStages =>
            /\ session[r].customer \in Customers
            /\ session[r].points >= 0
    /\ session[r].stage \in LockedStages =>
            /\ session[r].slip \in Verifications
            /\ session[r].slip_row \in SlipRow
            /\ session[r].order = SlipOrder[session[r].slip]

LockExclusive ==
    \A r, q \in Requests :
        /\ session[r].stage \in LockedStages
        /\ session[q].stage \in LockedStages
        /\ session[r].order = session[q].order
        => r = q

\* A slip that has a payment was paid for in full.
SlipPaymentCounted ==
    \A v \in Verifications : slip[v].has_payment => paid[SlipOrder[v]] >= PaymentAmount(v)

Sessions == /\ \A r \in Requests : SessionInv(r)
            /\ LockedRowIsCurrent
            /\ LockExclusive

IInv == /\ TypeOK
        /\ Sessions
        /\ AmountPaidIsBacked
        /\ SettledIsCovered
        /\ PointsNeverOverdrawn
        /\ SlipPaidOnce
        /\ SlipPaymentCounted

-----------------------------------------------------------------------------
\* The whole Baht of an amount, as satang, are at most the amount.
LEMMA WholeBaht ==
    ASSUME NEW n \in Nat
    PROVE  /\ n \div Baht \in Nat
           /\ (n \div Baht) * Baht <= n
  BY SMT DEF Baht

\* Redeemed points are at most what was asked for and what the total is worth.
LEMMA RedeemedBounds ==
    ASSUME NEW o \in Orders, NEW ask \in Nat
    PROVE  /\ Redeemed(o, ask) \in Nat
           /\ Redeemed(o, ask) <= ask
           /\ Due(o, Redeemed(o, ask)) \in Nat
           /\ Due(o, Redeemed(o, ask)) + Baht * Redeemed(o, ask) = GrandTotal[o]
           /\ Earned(o, Redeemed(o, ask)) \in Nat
  <1> DEFINE g == GrandTotal[o]
             d == g \div Baht
             p == Redeemed(o, ask)
  <1>1. g \in Nat
    BY SettlementAssumption
  <1>2. d \in Nat /\ d * Baht <= g
    BY <1>1, WholeBaht
  <1>3. p \in Nat /\ p <= ask /\ p <= d
    BY <1>2 DEF Redeemed
  <1>4. Due(o, p) \in Nat /\ Due(o, p) + Baht * p = g
    BY <1>1, <1>2, <1>3 DEF Due, Baht
  <1>5. Earned(o, p) \in Nat
    BY <1>4, WholeBaht DEF Earned
  <1> QED
    BY <1>3, <1>4, <1>5

\* Flush stays within the columns' types.
LEMMA FlushType ==
    ASSUME NEW current \in OrderRow, NEW loaded \in OrderRow, NEW new \in OrderRow
    PROVE  Flush(current, loaded, new) \in OrderRow
  BY DEF Flush, Column, OrderRow

\* The rows as create_order leaves them, with no request in flight, satisfy the
\* inductive invariant.
THEOREM InitIInv == Init => IInv
  <1> SUFFICES ASSUME Init PROVE IInv
    OBVIOUS
  <1>1. TypeOK
    <2>1. NewOrder \in OrderRow
      BY DEF NewOrder, OrderRow, OrderStatuses
    <2>2. IdleSession \in Session
      BY DEF IdleSession, Session
    <2>3. slip \in [Verifications -> SlipRow]
      <3>1. [status : SlipStart, has_payment : {FALSE}] \subseteq SlipRow
        BY SettlementAssumption DEF SlipRow
      <3> QED
        BY <3>1 DEF Init
    <2> QED
      BY <2>1, <2>2, <2>3, SettlementAssumption DEF Init, TypeOK
  <1>2. Sessions
    BY DEF Init, Sessions, SessionInv, LockedRowIsCurrent, LockExclusive, IdleSession,
       OrderStages, CustomerStages, LockedStages
  <1>3. AmountPaidIsBacked /\ SettledIsCovered
    BY DEF Init, AmountPaidIsBacked, SettledIsCovered, NewOrder
  <1>4. PointsNeverOverdrawn
    BY SettlementAssumption DEF Init, PointsNeverOverdrawn
  <1>5. SlipPaidOnce /\ SlipPaymentCounted
    <2>1. ASSUME NEW v \in Verifications
          PROVE  /\ ~slip[v].has_payment
                 /\ slip_payments[v] <= 1 /\ slip_payments[v] # 1
      <3>1. slip[v] \in [status : SlipStart, has_payment : {FALSE}]
        BY DEF Init
      <3>2. slip[v].has_payment = FALSE
        BY <3>1
      <3>3. slip_payments[v] <= 1 /\ slip_payments[v] # 1
        BY DEF Init
      <3> QED
        BY <3>2, <3>3
    <2> QED
      BY <2>1, Zenon DEF SlipPaidOnce, SlipPaymentCounted
  <1> QED
    BY <1>1, <1>2, <1>3, <1>4, <1>5 DEF IInv

-----------------------------------------------------------------------------
\* A session that ends leaves the others as they were: what they loaded stays
\* backed when payments only grow and nobody writes the rows they have locked.
LEMMA EndStep ==
    ASSUME IInv,
           NEW r \in Requests, End(r),
           paid' \in [Orders -> Nat],
           \A o \in Orders : paid'[o] >= paid[o],
           \A q \in Requests \ {r} : session[q].stage \in LockedStages =>
                /\ order'[session[q].order] = order[session[q].order]
                /\ slip'[session[q].slip] = slip[session[q].slip]
    PROVE  /\ session' \in [Requests -> Session]
           /\ served' \in 0 .. MaxServed
           /\ Sessions'
  <1>1. session \in [Requests -> Session] /\ served \in 0 .. MaxServed /\ paid \in [Orders -> Nat]
    BY DEF IInv, TypeOK
  <1>2. IdleSession \in Session
    BY DEF IdleSession, Session
  <1>3. session' = [session EXCEPT ![r] = IdleSession] /\ served' = served
    BY DEF End
  <1>4. session'[r] = IdleSession /\ \A q \in Requests \ {r} : session'[q] = session[q]
    BY <1>1, <1>3
  <1>5. IdleSession.stage \notin OrderStages \cup CustomerStages \cup LockedStages
    BY DEF IdleSession, OrderStages, CustomerStages, LockedStages
  <1>6. ASSUME NEW q \in Requests PROVE SessionInv(q)'
    <2>1. CASE q = r
      BY <1>4, <1>5, <2>1 DEF SessionInv
    <2>2. CASE q # r
      <3>1. session'[q] = session[q]
        BY <1>4, <2>2
      <3>2. SessionInv(q)
        BY DEF IInv, Sessions
      <3>3. session[q].stage \in OrderStages =>
                session[q].row.amount_paid <= paid'[session[q].order]
        <4> SUFFICES ASSUME session[q].stage \in OrderStages
                     PROVE  session[q].row.amount_paid <= paid'[session[q].order]
          OBVIOUS
        <4>1. /\ session[q].order \in Orders
              /\ session[q].row \in OrderRow
              /\ session[q].row.amount_paid <= paid[session[q].order]
          BY <3>2 DEF SessionInv
        <4>2. session[q].row.amount_paid \in Nat
          BY <4>1 DEF OrderRow
        <4> QED
          BY <1>1, <4>1, <4>2
      <3> QED
        BY <3>1, <3>2, <3>3 DEF SessionInv
    <2> QED
      BY <2>1, <2>2
  <1>7. LockedRowIsCurrent'
    <2> SUFFICES ASSUME NEW q \in Requests, session'[q].stage \in LockedStages
                 PROVE  /\ session'[q].row = order'[session'[q].order]
                        /\ session'[q].slip_row = slip'[session'[q].slip]
      BY DEF LockedRowIsCurrent, LockedStages
    <2>1. q # r /\ session'[q] = session[q]
      BY <1>4, <1>5
    <2>2. /\ session[q].row = order[session[q].order]
          /\ session[q].slip_row = slip[session[q].slip]
      BY <2>1 DEF IInv, Sessions, LockedRowIsCurrent, LockedStages
    <2> QED
      BY <2>1, <2>2
  <1>8. LockExclusive'
    <2> SUFFICES ASSUME NEW p \in Requests, NEW q \in Requests,
                        session'[p].stage \in LockedStages,
                        session'[q].stage \in LockedStages,
                        session'[p].order = session'[q].order
                 PROVE  p = q
      BY DEF LockExclusive
    <2>1. session'[p] = session[p] /\ session'[q] = session[q]
      BY <1>4, <1>5
    <2> QED
      BY <2>1 DEF IInv, Sessions, LockExclusive
  <1> QED
    BY <1>1, <1>2, <1>3, <1>6, <1>7, <1>8 DEF Sessions

\* A handler that writes its order with backed amounts, and settles it only
\* when covered, keeps every order backed and covered.
LEMMA CommitOrderStep ==
    ASSUME IInv,
           NEW r \in Requests, session[r].stage \in OrderStages,
           NEW new \in OrderRow, CommitOrder(r, new),
           paid' \in [Orders -> Nat], \A o \in Orders : paid'[o] >= paid[o],
           spent' \in [Orders -> Nat], \A o \in Orders : spent'[o] >= spent[o],
           new.amount_paid <= paid'[session[r].order],
           \/ new.status \notin {"paid", "completed"}
           \/ new.status = session[r].row.status
           \/ paid'[session[r].order] + Baht * spent'[session[r].order]
                    >= GrandTotal[session[r].order],
           \A q \in Requests \ {r} : session[q].stage \in LockedStages =>
                slip'[session[q].slip] = slip[session[q].slip]
    PROVE  /\ order' \in [Orders -> OrderRow]
           /\ session' \in [Requests -> Session]
           /\ served' \in 0 .. MaxServed
           /\ Sessions'
           /\ AmountPaidIsBacked'
           /\ SettledIsCovered'
  <1> DEFINE o == session[r].order
             s == session[r].row
             row == Flush(order[o], s, new)
  <1>1. /\ order \in [Orders -> OrderRow] /\ session \in [Requests -> Session]
        /\ paid \in [Orders -> Nat] /\ spent \in [Orders -> Nat]
    BY DEF IInv, TypeOK
  <1>2. o \in Orders /\ s \in OrderRow
    BY DEF IInv, Sessions, SessionInv
  <1>3. /\ MayWrite(r, o)
        /\ order' = [order EXCEPT ![o] = row]
        /\ End(r)
    BY DEF CommitOrder
  <1>4. row \in OrderRow
    BY <1>1, <1>2, FlushType
  <1>5. order' \in [Orders -> OrderRow]
    BY <1>1, <1>3, <1>4
  <1>6. ASSUME NEW q \in Requests \ {r}, session[q].stage \in LockedStages
        PROVE  order'[session[q].order] = order[session[q].order]
    <2>1. session[q].order # o
      BY <1>3, <1>6 DEF MayWrite, Holds, LockedStages
    <2>2. session[q].order \in Orders
      BY <1>6 DEF IInv, Sessions, SessionInv, OrderStages, LockedStages
    <2> QED
      BY <1>1, <1>3, <2>1, <2>2
  <1>7. /\ session' \in [Requests -> Session]
        /\ served' \in 0 .. MaxServed
        /\ Sessions'
    BY <1>3, <1>6, EndStep
  <1>8. AmountPaidIsBacked'
    <2> SUFFICES ASSUME NEW p \in Orders PROVE order'[p].amount_paid <= paid'[p]
      BY DEF AmountPaidIsBacked
    <2>1. order[p].amount_paid <= paid[p] /\ order[p].amount_paid \in Nat
      BY <1>1 DEF IInv, AmountPaidIsBacked, OrderRow
    <2>2. order[p].amount_paid <= paid'[p]
      BY <1>1, <2>1
    <2>3. CASE p = o
      <3>1. order'[p].amount_paid \in {order[p].amount_paid, new.amount_paid}
        BY <1>1, <1>2, <1>3, <2>3 DEF Flush, Column
      <3> QED
        BY <2>2, <2>3, <3>1
    <2>4. CASE p # o
      BY <1>1, <1>2, <1>3, <2>2, <2>4
    <2> QED
      BY <2>3, <2>4
  <1>9. SettledIsCovered'
    <2> SUFFICES ASSUME NEW p \in Orders, order'[p].status \in {"paid", "completed"}
                 PROVE  paid'[p] + Baht * spent'[p] >= GrandTotal[p]
      BY DEF SettledIsCovered
    <2>1. CASE order[p].status \in {"paid", "completed"}
      <3>1. paid[p] + Baht * spent[p] >= GrandTotal[p]
        BY <2>1 DEF IInv, SettledIsCovered
      <3> QED
        BY <1>1, <3>1, SettlementAssumption DEF Baht
    <2>2. CASE order[p].status \notin {"paid", "completed"}
      <3>1. p = o
        BY <1>1, <1>2, <1>3, <2>2
      <3>2. row.status = Column(order[o].status, s.status, new.status)
        BY DEF Flush
      <3>3. order'[p] = row
        BY <1>1, <1>2, <1>3, <3>1
      <3>4. new.status # s.status /\ new.status \in {"paid", "completed"}
        BY <2>2, <3>1, <3>2, <3>3 DEF Column
      <3> QED
        BY <3>1, <3>4
    <2> QED
      BY <2>1, <2>2
  <1> QED
    BY <1>5, <1>7, <1>8, <1>9

-----------------------------------------------------------------------------
\* Adding a natural number to an entry of a sum keeps its type and never lowers it.
LEMMA AddToGrows ==
    ASSUME NEW S, NEW f \in [S -> Nat], NEW x \in S, NEW n \in Nat,
           NEW g, g = AddTo(f, x, n)
    PROVE  /\ g \in [S -> Nat]
           /\ \A y \in S : g[y] >= f[y]
           /\ g[x] = f[x] + n
  BY DEF AddTo

\* Slips nobody touches stay paid as they were.
LEMMA SlipsStay ==
    ASSUME IInv, UNCHANGED slips,
           paid' \in [Orders -> Nat], \A o \in Orders : paid'[o] >= paid[o]
    PROVE  /\ slip' \in [Verifications -> SlipRow]
           /\ slip_payments' \in [Verifications -> Nat]
           /\ SlipPaidOnce'
           /\ SlipPaymentCounted'
  <1>1. slip' = slip /\ slip_payments' = slip_payments
    BY DEF slips
  <1>2. slip' \in [Verifications -> SlipRow] /\ slip_payments' \in [Verifications -> Nat]
    BY <1>1 DEF IInv, TypeOK
  <1>3. SlipPaidOnce'
    BY <1>1, Zenon DEF IInv, SlipPaidOnce
  <1>4. SlipPaymentCounted'
    <2> SUFFICES ASSUME NEW v \in Verifications, slip[v].has_payment
                 PROVE  paid'[SlipOrder[v]] >= PaymentAmount(v)
      BY <1>1, Zenon DEF SlipPaymentCounted
    <2>1. paid[SlipOrder[v]] >= PaymentAmount(v)
      BY Zenon DEF IInv, SlipPaymentCounted
    <2>2. SlipOrder[v] \in Orders /\ PaymentAmount(v) \in Nat
      BY SettlementAssumption DEF PaymentAmount
    <2> QED
      BY <2>1, <2>2 DEF IInv, TypeOK
  <1> QED
    BY <1>2, <1>3, <1>4

\* A settlement takes no more points than the session saw on the balance.
LEMMA SettlePointsStep ==
    ASSUME IInv, NEW r \in Requests, NEW o \in Orders,
           NEW redeemed \in Nat, NEW earned \in Nat,
           SettlePoints(r, o, redeemed, earned),
           redeemed # 0 \/ earned # 0 =>
                session[r].stage \in CustomerStages /\ redeemed <= session[r].points
    PROVE  /\ spent' \in [Orders -> Nat] /\ \A p \in Orders : spent'[p] >= spent[p]
           /\ spent'[o] = spent[o] + redeemed
           /\ awarded' \in [Orders -> Nat]
           /\ balance' \in [Customers -> Int] /\ ledger' \in [Customers -> Int]
           /\ PointsNeverOverdrawn'
  <1> DEFINE c == session[r].customer
  <1>1. /\ spent \in [Orders -> Nat] /\ awarded \in [Orders -> Nat]
        /\ balance \in [Customers -> Int] /\ ledger \in [Customers -> Int]
        /\ session \in [Requests -> Session]
    BY DEF IInv, TypeOK
  <1>2. spent' = AddTo(spent, o, redeemed) /\ awarded' = AddTo(awarded, o, earned)
    BY DEF SettlePoints
  <1>3. /\ spent' \in [Orders -> Nat] /\ \A p \in Orders : spent'[p] >= spent[p]
        /\ spent'[o] = spent[o] + redeemed
        /\ awarded' \in [Orders -> Nat]
    <2>1. /\ spent' \in [Orders -> Nat] /\ \A p \in Orders : spent'[p] >= spent[p]
          /\ spent'[o] = spent[o] + redeemed
      BY <1>1, <1>2 DEF AddTo
    <2>2. awarded' \in [Orders -> Nat]
      BY <1>1, <1>2 DEF AddTo
    <2> QED
      BY <2>1, <2>2
  <1>4. \A d \in Customers : balance[d] >= 0
    BY DEF IInv, PointsNeverOverdrawn
  <1>5. CASE redeemed = 0 /\ earned = 0
    <2>1. balance' = balance /\ ledger' = ledger
      BY <1>5 DEF SettlePoints
    <2> QED
      BY <1>1, <1>3, <1>4, <2>1 DEF PointsNeverOverdrawn
  <1>6. CASE ~(redeemed = 0 /\ earned = 0)
    <2>1. c \in Customers /\ session[r].points >= 0 /\ redeemed <= session[r].points
      BY <1>6 DEF IInv, Sessions, SessionInv
    <2>2. session[r].points \in Int
      BY <1>1 DEF Session
    <2>3. /\ balance' = [balance EXCEPT ![c] = session[r].points - redeemed + earned]
          /\ ledger' = [ledger EXCEPT ![c] = @ + (earned - redeemed)]
      BY <1>6 DEF SettlePoints, AddTo
    <2>4. balance' \in [Customers -> Int] /\ ledger' \in [Customers -> Int]
      BY <1>1, <2>1, <2>2, <2>3
    <2>5. \A d \in Customers : balance'[d] >= 0
      BY <1>1, <1>4, <2>1, <2>2, <2>3
    <2> QED
      BY <1>3, <2>4, <2>5 DEF PointsNeverOverdrawn
  <1> QED
    BY <1>5, <1>6

-----------------------------------------------------------------------------
\* One lemma per handler.

\* checkout_order: its payments and the redeemed points cover the total it settles.
LEMMA CheckoutStep ==
    ASSUME IInv, NEW r \in Requests, NEW ask \in PointAmounts \cup {0}, NEW total \in PayAmounts,
           CheckoutOrder(r, ask, total)
    PROVE  IInv'
  <1> DEFINE o == session[r].order
             s == session[r].row
             redeemed == Redeemed(o, ask)
             due == Due(o, redeemed)
             earned == Earned(o, redeemed)
             new == [status |-> "paid",
                     amount_paid |-> total,
                     change_amount |-> total - due,
                     points_earned |-> IF earned > 0 THEN earned ELSE s.points_earned,
                     points_redeemed |-> IF ask > 0 THEN redeemed ELSE s.points_redeemed]
  <1>1. /\ session[r].stage \in OrderStages
        /\ session[r].stage = "customer" <=> CustomerOf[o] # None
    BY DEF CheckoutOrder, OrderStages
  <1>2. o \in Orders /\ s \in OrderRow
    BY <1>1 DEF IInv, Sessions, SessionInv
  <1>3. ask \in Nat /\ total \in Nat
    BY SettlementAssumption
  <1>4. /\ redeemed \in Nat /\ redeemed <= ask /\ due \in Nat /\ earned \in Nat
        /\ due + Baht * redeemed = GrandTotal[o]
    BY <1>2, <1>3, RedeemedBounds
  <1>5. /\ ask > 0 => CustomerOf[o] # None /\ session[r].points >= ask
        /\ total >= due
        /\ SettlePoints(r, o, redeemed, earned)
        /\ paid' = AddTo(paid, o, total)
        /\ settled' = AddTo(settled, o, 1)
        /\ CommitOrder(r, new)
        /\ UNCHANGED <<refunded, restocked, slips>>
    BY DEF CheckoutOrder
  <1>6. redeemed # 0 \/ earned # 0 =>
            session[r].stage \in CustomerStages /\ redeemed <= session[r].points
    <2> SUFFICES ASSUME redeemed # 0 \/ earned # 0
                 PROVE  session[r].stage \in CustomerStages /\ redeemed <= session[r].points
      OBVIOUS
    <2>1. CustomerOf[o] # None
      BY <1>3, <1>4, <1>5 DEF Earned
    <2>2. session[r].stage \in CustomerStages
      BY <1>1, <2>1 DEF CustomerStages
    <2>3. session[r].points >= 0 /\ session[r].points \in Int
      BY <2>2 DEF IInv, TypeOK, Session, Sessions, SessionInv
    <2>4. redeemed <= session[r].points
      BY <1>3, <1>4, <1>5, <2>3
    <2> QED
      BY <2>2, <2>4
  <1>7. /\ spent' \in [Orders -> Nat] /\ \A p \in Orders : spent'[p] >= spent[p]
        /\ spent'[o] = spent[o] + redeemed
        /\ awarded' \in [Orders -> Nat]
        /\ balance' \in [Customers -> Int] /\ ledger' \in [Customers -> Int]
        /\ PointsNeverOverdrawn'
    BY <1>2, <1>4, <1>5, <1>6, SettlePointsStep
  <1>8. /\ paid \in [Orders -> Nat] /\ settled \in [Orders -> Nat] /\ spent \in [Orders -> Nat]
        /\ refunded \in [Orders -> Nat] /\ restocked \in [Orders -> Nat]
    BY DEF IInv, TypeOK
  <1>9. /\ paid' \in [Orders -> Nat] /\ \A p \in Orders : paid'[p] >= paid[p]
        /\ paid'[o] = paid[o] + total
        /\ settled' \in [Orders -> Nat]
    <2>1. /\ paid' \in [Orders -> Nat] /\ \A p \in Orders : paid'[p] >= paid[p]
          /\ paid'[o] = paid[o] + total
      BY <1>2, <1>3, <1>5, <1>8, AddToGrows
    <2>2. settled' \in [Orders -> Nat]
      BY <1>2, <1>5, <1>8 DEF AddTo
    <2> QED
      BY <2>1, <2>2
  <1>10. new \in OrderRow
    BY <1>2, <1>3, <1>4, <1>5 DEF OrderRow, OrderStatuses
  <1>11. new.amount_paid <= paid'[o]
    BY <1>2, <1>3, <1>8, <1>9
  <1>12. paid'[o] + Baht * spent'[o] >= GrandTotal[o]
    <2>1. paid[o] \in Nat /\ spent[o] \in Nat
      BY <1>2, <1>8
    <2> QED
      BY <1>3, <1>4, <1>5, <1>7, <1>9, <2>1 DEF Baht
  <1>13. slip' = slip /\ UNCHANGED slips /\ refunded' = refunded /\ restocked' = restocked
    BY <1>5 DEF slips
  <1>14. /\ order' \in [Orders -> OrderRow]
         /\ session' \in [Requests -> Session]
         /\ served' \in 0 .. MaxServed
         /\ Sessions'
         /\ AmountPaidIsBacked'
         /\ SettledIsCovered'
    BY <1>1, <1>5, <1>7, <1>9, <1>10, <1>11, <1>12, <1>13, CommitOrderStep
  <1>15. /\ slip' \in [Verifications -> SlipRow]
         /\ slip_payments' \in [Verifications -> Nat]
         /\ SlipPaidOnce'
         /\ SlipPaymentCounted'
    BY <1>9, <1>13, SlipsStay
  <1>16. TypeOK'
    BY <1>7, <1>8, <1>9, <1>13, <1>14, <1>15 DEF TypeOK
  <1> QED
    BY <1>7, <1>14, <1>15, <1>16 DEF IInv

\* create_payment: amount_paid grows from the loaded value, which was backed, by
\* the amount of the new payments row.
LEMMA CreatePaymentStep ==
    ASSUME IInv, NEW r \in Requests, NEW amount \in PayAmounts, CreatePayment(r, amount)
    PROVE  IInv'
  <1> DEFINE o == session[r].order
             s == session[r].row
             sum == s.amount_paid + amount
             new == [s EXCEPT !.amount_paid = sum, !.change_amount = Change(o, s, sum)]
  <1>1. session[r].stage \in OrderStages
    BY DEF CreatePayment, OrderStages
  <1>2. o \in Orders /\ s \in OrderRow /\ s.amount_paid <= paid[o]
    BY <1>1 DEF IInv, Sessions, SessionInv
  <1>3. amount \in Nat
    BY SettlementAssumption
  <1>4. /\ paid' = AddTo(paid, o, amount)
        /\ CommitOrder(r, new)
        /\ UNCHANGED <<refunded, restocked, settled, points, slips>>
    BY DEF CreatePayment
  <1>5. /\ paid' \in [Orders -> Nat] /\ \A p \in Orders : paid'[p] >= paid[p]
        /\ paid'[o] = paid[o] + amount
    BY <1>2, <1>3, <1>4 DEF AddTo, IInv, TypeOK
  <1>6. new \in OrderRow /\ new.status = s.status /\ new.amount_paid = sum
    <2>1. sum \in Nat /\ GrandTotal[o] \in Nat /\ s.change_amount \in Nat
      BY <1>2, <1>3, SettlementAssumption DEF OrderRow
    <2>2. Change(o, s, sum) \in Nat
      BY <2>1 DEF Change
    <2> QED
      BY <1>2, <2>1, <2>2 DEF OrderRow
  <1>7. new.amount_paid <= paid'[o]
    BY <1>2, <1>3, <1>5, <1>6 DEF OrderRow, IInv, TypeOK
  <1>8. /\ spent' = spent /\ awarded' = awarded /\ balance' = balance /\ ledger' = ledger
        /\ UNCHANGED slips /\ slip' = slip
        /\ refunded' = refunded /\ restocked' = restocked /\ settled' = settled
    BY <1>4 DEF points, slips
  <1>9. spent' \in [Orders -> Nat] /\ \A p \in Orders : spent'[p] >= spent[p]
    BY <1>8 DEF IInv, TypeOK
  <1>10. /\ order' \in [Orders -> OrderRow]
         /\ session' \in [Requests -> Session]
         /\ served' \in 0 .. MaxServed
         /\ Sessions'
         /\ AmountPaidIsBacked'
         /\ SettledIsCovered'
    BY <1>1, <1>4, <1>5, <1>6, <1>7, <1>8, <1>9, CommitOrderStep
  <1>11. /\ slip' \in [Verifications -> SlipRow]
         /\ slip_payments' \in [Verifications -> Nat]
         /\ SlipPaidOnce'
         /\ SlipPaymentCounted'
    BY <1>5, <1>8, SlipsStay
  <1>12. TypeOK' /\ PointsNeverOverdrawn'
    BY <1>5, <1>8, <1>9, <1>10, <1>11 DEF IInv, TypeOK, PointsNeverOverdrawn
  <1> QED
    BY <1>10, <1>11, <1>12 DEF IInv

\* The handlers that write the order and add no payment: process_refund,
\* cancel_order, complete_order and update_status.
LEMMA OrderOnlyStep ==
    ASSUME IInv, NEW r \in Requests, session[r].stage = "order",
           NEW new \in OrderRow, CommitOrder(r, new),
           UNCHANGED <<paid, settled, points, slips>>,
           refunded' \in [Orders -> Nat], restocked' \in [Orders -> Nat],
           new.amount_paid <= session[r].row.amount_paid,
           \/ new.status \notin {"paid", "completed"}
           \/ new.status = session[r].row.status
           \/ session[r].row.amount_paid >= GrandTotal[session[r].order]
    PROVE  IInv'
  <1> DEFINE o == session[r].order
             s == session[r].row
  <1>1. session[r].stage \in OrderStages
    BY DEF OrderStages
  <1>2. o \in Orders /\ s \in OrderRow /\ s.amount_paid <= paid[o]
    BY <1>1 DEF IInv, Sessions, SessionInv
  <1>3. /\ spent' = spent /\ awarded' = awarded /\ balance' = balance /\ ledger' = ledger
        /\ UNCHANGED slips /\ slip' = slip
        /\ paid' = paid /\ settled' = settled
    BY DEF points, slips
  <1>4. /\ paid' \in [Orders -> Nat] /\ \A p \in Orders : paid'[p] >= paid[p]
        /\ spent' \in [Orders -> Nat] /\ \A p \in Orders : spent'[p] >= spent[p]
    BY <1>3 DEF IInv, TypeOK
  <1>5. s.amount_paid \in Nat /\ new.amount_paid \in Nat /\ paid[o] \in Nat /\ spent[o] \in Nat
    BY <1>2 DEF OrderRow, IInv, TypeOK
  <1>6. new.amount_paid <= paid'[o]
    BY <1>2, <1>3, <1>5
  <1>7. s.amount_paid >= GrandTotal[o] => paid'[o] + Baht * spent'[o] >= GrandTotal[o]
    BY <1>2, <1>3, <1>5, SettlementAssumption DEF Baht
  <1>8. /\ order' \in [Orders -> OrderRow]
        /\ session' \in [Requests -> Session]
        /\ served' \in 0 .. MaxServed
        /\ Sessions'
        /\ AmountPaidIsBacked'
        /\ SettledIsCovered'
    BY <1>1, <1>3, <1>4, <1>6, <1>7, CommitOrderStep
  <1>9. /\ slip' \in [Verifications -> SlipRow]
        /\ slip_payments' \in [Verifications -> Nat]
        /\ SlipPaidOnce'
        /\ SlipPaymentCounted'
    BY <1>3, <1>4, SlipsStay
  <1>10. TypeOK' /\ PointsNeverOverdrawn'
    BY <1>3, <1>4, <1>8, <1>9 DEF IInv, TypeOK, PointsNeverOverdrawn
  <1> QED
    BY <1>8, <1>9, <1>10 DEF IInv

\* process_refund lowers amount_paid to a value that is not negative.
LEMMA ProcessRefundStep ==
    ASSUME IInv, NEW r \in Requests, NEW amount \in PayAmounts, ProcessRefund(r, amount)
    PROVE  IInv'
  <1> DEFINE o == session[r].order
             s == session[r].row
             new == [s EXCEPT !.amount_paid = @ - amount]
  <1>1. /\ session[r].stage = "order"
        /\ amount <= s.amount_paid
        /\ refunded' = AddTo(refunded, o, amount)
        /\ CommitOrder(r, new)
        /\ UNCHANGED <<paid, settled, points, slips>> /\ restocked' = restocked
    BY DEF ProcessRefund, Refundable
  <1>2. o \in Orders /\ s \in OrderRow /\ amount \in Nat
    BY <1>1, SettlementAssumption DEF IInv, Sessions, SessionInv, OrderStages
  <1>3. new \in OrderRow /\ new.status = s.status /\ new.amount_paid <= s.amount_paid
    BY <1>1, <1>2 DEF OrderRow
  <1>4. refunded' \in [Orders -> Nat] /\ restocked' \in [Orders -> Nat]
    BY <1>1, <1>2 DEF AddTo, IInv, TypeOK
  <1> QED
    BY <1>1, <1>3, <1>4, OrderOnlyStep

\* cancel_order leaves the amounts alone and settles nothing.
LEMMA CancelOrderStep ==
    ASSUME IInv, NEW r \in Requests, CancelOrder(r)
    PROVE  IInv'
  <1> DEFINE o == session[r].order
             s == session[r].row
             new == [s EXCEPT !.status = "cancelled"]
  <1>1. /\ session[r].stage = "order"
        /\ restocked' = AddTo(restocked, o, 1)
        /\ CommitOrder(r, new)
        /\ UNCHANGED <<paid, settled, points, slips>> /\ refunded' = refunded
    BY DEF CancelOrder
  <1>2. o \in Orders /\ s \in OrderRow
    BY <1>1 DEF IInv, Sessions, SessionInv, OrderStages
  <1>3. new \in OrderRow /\ new.status = "cancelled" /\ new.amount_paid <= s.amount_paid
    BY <1>2 DEF OrderRow, OrderStatuses
  <1>4. refunded' \in [Orders -> Nat] /\ restocked' \in [Orders -> Nat]
    BY <1>1, <1>2 DEF AddTo, IInv, TypeOK
  <1> QED
    BY <1>1, <1>3, <1>4, OrderOnlyStep

\* complete_order and update_status: only an order whose loaded amount_paid covers
\* the total becomes completed.
LEMMA StatusStep ==
    ASSUME IInv, NEW r \in Requests,
           NEW target \in OrderStatuses, target # "paid",
           \/ CompleteOrder(r) /\ target = "completed"
           \/ UpdateStatus(r, target)
    PROVE  IInv'
  <1> DEFINE o == session[r].order
             s == session[r].row
             new == [s EXCEPT !.status = target]
  <1>1. /\ session[r].stage = "order"
        /\ target = "completed" => s.amount_paid >= GrandTotal[o]
        /\ CommitOrder(r, new)
        /\ UNCHANGED <<money, points, slips>>
    BY DEF CompleteOrder, UpdateStatus, FullyPaid
  <1>2. o \in Orders /\ s \in OrderRow
    BY <1>1 DEF IInv, Sessions, SessionInv, OrderStages
  <1>3. new \in OrderRow /\ new.status = target /\ new.amount_paid <= s.amount_paid
    BY <1>2 DEF OrderRow
  <1>4. /\ refunded' \in [Orders -> Nat] /\ restocked' \in [Orders -> Nat]
        /\ UNCHANGED <<paid, settled, points, slips>>
    BY <1>1 DEF money, IInv, TypeOK
  <1> QED
    BY <1>1, <1>3, <1>4, OrderOnlyStep

\* No transition of update_status leads to paid.
LEMMA TransitionTargets ==
    ASSUME NEW r \in Requests, NEW target, IInv, UpdateStatus(r, target)
    PROVE  target # "paid"
  <1>1. session[r].row.status \in OrderStatuses
    BY DEF UpdateStatus, IInv, Sessions, SessionInv, OrderStages, OrderRow
  <1> QED
    BY <1>1 DEF UpdateStatus, ValidTransitions

\* A rejection, under the row lock, touches the slip only.
LEMMA RejectSlipStep ==
    ASSUME IInv, NEW r \in Requests, RejectSlip(r)
    PROVE  IInv'
  <1> DEFINE v == session[r].slip
  <1>1. /\ session[r].stage \in LockedStages
        /\ session[r].slip_row.status \notin {"rejected", "verified"}
        /\ slip' = [slip EXCEPT ![v].status = "rejected"]
        /\ End(r)
        /\ UNCHANGED <<order, money, points, slip_payments>>
    BY DEF RejectSlip, LockedStages
  <1>2. /\ v \in Verifications /\ session[r].slip_row \in SlipRow
        /\ session[r].order = SlipOrder[v]
    BY <1>1 DEF IInv, Sessions, SessionInv
  <1>3. /\ order' = order /\ paid' = paid /\ refunded' = refunded /\ restocked' = restocked
        /\ settled' = settled /\ spent' = spent /\ awarded' = awarded /\ balance' = balance
        /\ ledger' = ledger /\ slip_payments' = slip_payments
    BY <1>1 DEF money, points
  <1>4. slip \in [Verifications -> SlipRow]
    BY DEF IInv, TypeOK
  <1>5. slip' \in [Verifications -> SlipRow]
    BY <1>1, <1>2, <1>4 DEF SlipRow, SlipStatuses
  <1>6. \A w \in Verifications : slip'[w].has_payment = slip[w].has_payment
    BY <1>1, <1>2, <1>4 DEF SlipRow
  <1>7. \A w \in Verifications : w # v => slip'[w] = slip[w]
    BY <1>1, <1>2, <1>4
  <1>8. ASSUME NEW q \in Requests \ {r}, session[q].stage \in LockedStages
        PROVE  slip'[session[q].slip] = slip[session[q].slip]
    <2>1. /\ session[q].slip \in Verifications
          /\ session[q].order = SlipOrder[session[q].slip]
      BY <1>8 DEF IInv, Sessions, SessionInv
    <2>2. session[q].order # session[r].order
      BY <1>1, <1>8 DEF IInv, Sessions, LockExclusive
    <2>3. session[q].slip # v
      BY <1>2, <2>1, <2>2
    <2> QED
      BY <1>7, <2>1, <2>3
  <1>9. paid' \in [Orders -> Nat] /\ \A p \in Orders : paid'[p] >= paid[p]
    BY <1>3 DEF IInv, TypeOK
  <1>10. /\ session' \in [Requests -> Session]
         /\ served' \in 0 .. MaxServed
         /\ Sessions'
    BY <1>1, <1>3, <1>8, <1>9, EndStep
  <1>11. SlipPaidOnce' /\ SlipPaymentCounted'
    BY <1>3, <1>6, Zenon DEF IInv, SlipPaidOnce, SlipPaymentCounted
  <1>12. TypeOK' /\ AmountPaidIsBacked' /\ SettledIsCovered' /\ PointsNeverOverdrawn'
    BY <1>3, <1>5, <1>10 DEF IInv, TypeOK, AmountPaidIsBacked, SettledIsCovered,
       PointsNeverOverdrawn
  <1> QED
    BY <1>10, <1>11, <1>12 DEF IInv

\* An approval, under the row lock, creates the payment that backs the new
\* amount_paid, or finds the one an earlier approval created.
LEMMA ApproveSlipStep ==
    ASSUME IInv, NEW r \in Requests, ApproveSlip(r)
    PROVE  IInv'
  <1> DEFINE v == session[r].slip
             o == session[r].order
             s == session[r].row
             found == session[r].slip_row
             amount == PaymentAmount(v)
             earned == IF Awards(o, s) THEN GrandTotal[o] \div Baht ELSE 0
             new == ApprovedRow(o, s, amount, earned)
  <1>1. /\ session[r].stage \in LockedStages
        /\ session[r].stage = "locked_customer" <=> Awards(o, s)
        /\ amount >= GrandTotal[o]
        /\ IF found.has_payment
           THEN UNCHANGED <<paid, slip_payments>>
           ELSE /\ paid' = AddTo(paid, o, amount)
                /\ slip_payments' = AddTo(slip_payments, v, 1)
        /\ slip' = [slip EXCEPT ![v] = [status |-> "verified", has_payment |-> TRUE]]
        /\ SettlePoints(r, o, 0, earned)
        /\ CommitOrder(r, new)
        /\ UNCHANGED <<refunded, restocked, settled>>
    BY DEF ApproveSlip, LockedStages
  <1>2. /\ v \in Verifications /\ o = SlipOrder[v]
        /\ o \in Orders /\ s \in OrderRow
        /\ session[r].stage \in OrderStages
    BY <1>1 DEF IInv, Sessions, SessionInv, LockedStages, OrderStages
  <1>3. found = slip[v]
    BY <1>1 DEF IInv, Sessions, LockedRowIsCurrent, LockedStages
  <1>4. /\ amount \in Nat /\ GrandTotal[o] \in Nat /\ earned \in Nat
    <2>1. amount \in Nat /\ GrandTotal[o] \in Nat
      BY <1>2, SettlementAssumption DEF PaymentAmount
    <2> QED
      BY <2>1, WholeBaht
  <1>5. 0 # 0 \/ earned # 0 => session[r].stage \in CustomerStages /\ 0 <= session[r].points
    <2>1. earned # 0 => session[r].stage \in CustomerStages
      BY <1>1 DEF CustomerStages
    <2> QED
      BY <2>1 DEF IInv, Sessions, SessionInv
  <1>6. /\ spent' \in [Orders -> Nat] /\ \A p \in Orders : spent'[p] >= spent[p]
        /\ awarded' \in [Orders -> Nat]
        /\ balance' \in [Customers -> Int] /\ ledger' \in [Customers -> Int]
        /\ PointsNeverOverdrawn'
    BY <1>1, <1>2, <1>4, <1>5, SettlePointsStep
  <1>7. /\ paid \in [Orders -> Nat] /\ slip \in [Verifications -> SlipRow]
        /\ slip_payments \in [Verifications -> Nat]
        /\ settled \in [Orders -> Nat] /\ spent \in [Orders -> Nat]
        /\ refunded \in [Orders -> Nat] /\ restocked \in [Orders -> Nat]
    BY DEF IInv, TypeOK
  \* Whether the row is new or was there, the payments cover the slip's amount.
  <1>8. /\ paid' \in [Orders -> Nat] /\ \A p \in Orders : paid'[p] >= paid[p]
        /\ paid'[o] >= amount
        /\ slip_payments' \in [Verifications -> Nat]
        /\ slip_payments'[v] = 1
        /\ \A w \in Verifications : w # v => slip_payments'[w] = slip_payments[w]
    <2>1. CASE found.has_payment
      <3>1. paid' = paid /\ slip_payments' = slip_payments
        BY <1>1, <2>1
      <3>2. slip_payments[v] = 1
        BY <1>2, <1>3, <2>1, Zenon DEF IInv, SlipPaidOnce
      <3>3. paid[o] >= amount
        BY <1>2, <1>3, <2>1, Zenon DEF IInv, SlipPaymentCounted
      <3> QED
        BY <1>7, <3>1, <3>2, <3>3
    <2>2. CASE ~found.has_payment
      <3>1. paid' = AddTo(paid, o, amount) /\ slip_payments' = AddTo(slip_payments, v, 1)
        BY <1>1, <2>2
      <3>2. slip_payments[v] # 1 /\ slip_payments[v] <= 1
        BY <1>2, <1>3, <2>2, Zenon DEF IInv, SlipPaidOnce
      <3>3. slip_payments[v] = 0
        BY <1>2, <1>7, <3>2
      <3>4. /\ paid' \in [Orders -> Nat] /\ \A p \in Orders : paid'[p] >= paid[p]
            /\ paid'[o] >= amount
        BY <1>2, <1>4, <1>7, <3>1 DEF AddTo
      <3> QED
        BY <1>2, <1>7, <3>1, <3>3, <3>4 DEF AddTo
    <2> QED
      BY <2>1, <2>2
  <1>9. /\ slip' \in [Verifications -> SlipRow]
        /\ slip'[v].has_payment = TRUE
        /\ \A w \in Verifications : w # v => slip'[w] = slip[w]
    BY <1>1, <1>2, <1>7 DEF SlipRow, SlipStatuses
  <1>10. ASSUME NEW q \in Requests \ {r}, session[q].stage \in LockedStages
         PROVE  slip'[session[q].slip] = slip[session[q].slip]
    <2>1. /\ session[q].slip \in Verifications
          /\ session[q].order = SlipOrder[session[q].slip]
      BY <1>10 DEF IInv, Sessions, SessionInv
    <2>2. session[q].order # session[r].order
      BY <1>1, <1>10 DEF IInv, Sessions, LockExclusive
    <2>3. session[q].slip # v
      BY <1>2, <2>1, <2>2
    <2> QED
      BY <1>9, <2>1, <2>3
  <1>11. /\ new \in OrderRow /\ new.amount_paid = amount
    <2>1. amount - GrandTotal[o] \in Nat
      BY <1>1, <1>4
    <2>2. s.points_earned \in Nat /\ s.points_redeemed \in Nat
      BY <1>2 DEF OrderRow
    <2>3. (IF earned > 0 THEN earned ELSE s.points_earned) \in Nat
      BY <1>4, <2>2
    <2> QED
      BY <1>4, <2>1, <2>2, <2>3 DEF ApprovedRow, OrderRow, OrderStatuses
  <1>12. paid'[o] + Baht * spent'[o] >= GrandTotal[o]
    BY <1>1, <1>2, <1>4, <1>6, <1>8 DEF Baht
  <1>13. /\ order' \in [Orders -> OrderRow]
         /\ session' \in [Requests -> Session]
         /\ served' \in 0 .. MaxServed
         /\ Sessions'
         /\ AmountPaidIsBacked'
         /\ SettledIsCovered'
    BY <1>1, <1>2, <1>6, <1>8, <1>10, <1>11, <1>12, CommitOrderStep
  <1>14. SlipPaidOnce'
    <2> SUFFICES ASSUME NEW w \in Verifications
                 PROVE  /\ slip_payments'[w] <= 1
                        /\ slip'[w].has_payment <=> slip_payments'[w] = 1
      BY DEF SlipPaidOnce
    <2>1. CASE w = v
      <3>1. slip_payments'[v] <= 1
        BY <1>8
      <3> QED
        BY <1>8, <1>9, <2>1, <3>1, Zenon
    <2>2. CASE w # v
      BY <1>8, <1>9, <2>2, Zenon DEF IInv, SlipPaidOnce
    <2> QED
      BY <2>1, <2>2
  <1>15. SlipPaymentCounted'
    <2> SUFFICES ASSUME NEW w \in Verifications, slip'[w].has_payment
                 PROVE  paid'[SlipOrder[w]] >= PaymentAmount(w)
      BY Zenon DEF SlipPaymentCounted
    <2>1. CASE w = v
      BY <1>2, <1>8, <2>1
    <2>2. CASE w # v
      <3>1. paid[SlipOrder[w]] >= PaymentAmount(w)
        BY <1>9, <2>2, Zenon DEF IInv, SlipPaymentCounted
      <3>2. SlipOrder[w] \in Orders /\ PaymentAmount(w) \in Nat
        BY SettlementAssumption DEF PaymentAmount
      <3> QED
        BY <1>7, <1>8, <3>1, <3>2
    <2> QED
      BY <2>1, <2>2
  <1>16. TypeOK'
    BY <1>1, <1>6, <1>7, <1>8, <1>9, <1>13 DEF TypeOK
  <1> QED
    BY <1>6, <1>13, <1>14, <1>15, <1>16 DEF IInv

\* earn_points and redeem_points write a balance that is not negative.
LEMMA WriteBalanceStep ==
    ASSUME IInv, NEW r \in Requests, NEW n \in Int, WriteBalance(r, n)
    PROVE  IInv'
  <1> DEFINE c == session[r].customer
  <1>1. /\ session[r].stage = "balance"
        /\ session[r].points + n >= 0
        /\ balance' = [balance EXCEPT ![c] = session[r].points + n]
        /\ ledger' = AddTo(ledger, c, n)
        /\ End(r)
        /\ UNCHANGED <<order, money, spent, awarded, slips>>
    BY DEF WriteBalance, Sufficient
  <1>2. c \in Customers /\ session[r].points \in Int
    BY <1>1 DEF IInv, Sessions, SessionInv, CustomerStages, TypeOK, Session
  <1>3. /\ order' = order /\ paid' = paid /\ refunded' = refunded /\ restocked' = restocked
        /\ settled' = settled /\ spent' = spent /\ awarded' = awarded
        /\ UNCHANGED slips /\ slip' = slip /\ slip_payments' = slip_payments
    BY <1>1 DEF money, slips
  <1>4. balance \in [Customers -> Int] /\ ledger \in [Customers -> Int]
    BY DEF IInv, TypeOK
  <1>5. balance' \in [Customers -> Int] /\ ledger' \in [Customers -> Int]
    BY <1>1, <1>2, <1>4 DEF AddTo
  <1>6. PointsNeverOverdrawn'
    <2> SUFFICES ASSUME NEW d \in Customers PROVE balance'[d] >= 0
      BY DEF PointsNeverOverdrawn
    <2>1. CASE d = c
      BY <1>1, <1>4, <2>1
    <2>2. CASE d # c
      BY <1>1, <1>4, <2>2 DEF IInv, PointsNeverOverdrawn
    <2> QED
      BY <2>1, <2>2
  <1>7. paid' \in [Orders -> Nat] /\ \A p \in Orders : paid'[p] >= paid[p]
    BY <1>3 DEF IInv, TypeOK
  <1>8. /\ session' \in [Requests -> Session]
        /\ served' \in 0 .. MaxServed
        /\ Sessions'
    BY <1>1, <1>3, <1>7, EndStep
  <1>9. /\ slip' \in [Verifications -> SlipRow]
        /\ slip_payments' \in [Verifications -> Nat]
        /\ SlipPaidOnce'
        /\ SlipPaymentCounted'
    BY <1>3, <1>7, SlipsStay
  <1>10. TypeOK' /\ AmountPaidIsBacked' /\ SettledIsCovered'
    BY <1>3, <1>5, <1>8, <1>9 DEF IInv, TypeOK, AmountPaidIsBacked, SettledIsCovered
  <1> QED
    BY <1>6, <1>8, <1>9, <1>10 DEF IInv

-----------------------------------------------------------------------------
\* A SELECT changes its own session only.
LEMMA SelectStep ==
    ASSUME IInv, NEW r \in Requests, NEW s \in Session,
           session' = [session EXCEPT ![r] = s],
           served' \in 0 .. MaxServed,
           UNCHANGED <<order, money, points, slips>>,
           SessionInv(r)',
           s.stage \in LockedStages =>
                /\ s.row = order[s.order]
                /\ s.slip_row = slip[s.slip]
                /\ \A q \in Requests \ {r} : ~Holds(q, s.order)
    PROVE  IInv'
  <1>1. /\ order' = order /\ paid' = paid /\ refunded' = refunded /\ restocked' = restocked
        /\ settled' = settled /\ spent' = spent /\ awarded' = awarded /\ balance' = balance
        /\ ledger' = ledger /\ slip' = slip /\ slip_payments' = slip_payments
    BY DEF money, points, slips
  <1>2. session \in [Requests -> Session]
    BY DEF IInv, TypeOK
  <1>3. session'[r] = s /\ \A q \in Requests \ {r} : session'[q] = session[q]
    BY <1>2
  <1>4. session' \in [Requests -> Session]
    BY <1>2
  <1>5. ASSUME NEW q \in Requests PROVE SessionInv(q)'
    <2>1. CASE q # r
      <3>1. session'[q] = session[q] /\ SessionInv(q)
        BY <1>3, <2>1 DEF IInv, Sessions
      <3> QED
        BY <1>1, <3>1 DEF SessionInv
    <2> QED
      BY <2>1
  <1>6. LockedRowIsCurrent'
    <2> SUFFICES ASSUME NEW q \in Requests, session'[q].stage \in LockedStages
                 PROVE  /\ session'[q].row = order'[session'[q].order]
                        /\ session'[q].slip_row = slip'[session'[q].slip]
      BY DEF LockedRowIsCurrent, LockedStages
    <2>1. CASE q = r
      BY <1>1, <1>3, <2>1
    <2>2. CASE q # r
      BY <1>1, <1>3, <2>2 DEF IInv, Sessions, LockedRowIsCurrent, LockedStages
    <2> QED
      BY <2>1, <2>2
  <1>7. LockExclusive'
    <2> SUFFICES ASSUME NEW p \in Requests, NEW q \in Requests,
                        session'[p].stage \in LockedStages,
                        session'[q].stage \in LockedStages,
                        session'[p].order = session'[q].order,
                        p # q
                 PROVE  FALSE
      BY DEF LockExclusive
    <2>1. CASE p # r /\ q # r
      BY <1>3, <2>1 DEF IInv, Sessions, LockExclusive
    <2>2. CASE p = r
      BY <1>3, <2>2 DEF Holds, LockedStages
    <2>3. CASE q = r
      BY <1>3, <2>3 DEF Holds, LockedStages
    <2> QED
      BY <2>1, <2>2, <2>3
  <1>8. TypeOK'
    BY <1>1, <1>4 DEF IInv, TypeOK
  <1>9. /\ AmountPaidIsBacked' /\ SettledIsCovered' /\ PointsNeverOverdrawn'
        /\ SlipPaidOnce' /\ SlipPaymentCounted'
    BY <1>1 DEF IInv, AmountPaidIsBacked, SettledIsCovered, PointsNeverOverdrawn,
       SlipPaidOnce, SlipPaymentCounted
  <1> QED
    BY <1>5, <1>6, <1>7, <1>8, <1>9 DEF IInv, Sessions

\* The counter of requests stays within its bound.
LEMMA BeginServed ==
    ASSUME IInv, NEW r \in Requests, NEW s, Begin(r, s)
    PROVE  /\ served' \in 0 .. MaxServed
           /\ session' = [session EXCEPT ![r] = s]
  BY SettlementAssumption DEF Begin, IInv, TypeOK

\* The session before its first SELECT.
LEMMA IdleType == IdleSession \in Session
  BY DEF IdleSession, Session

\* A session that has loaded an order, locked or not, has a row whose claim is backed.
LEMMA LoadOrderStep ==
    ASSUME IInv, NEW r \in Requests, NEW o \in Orders, LoadOrder(r, o)
    PROVE  IInv'
  <1> DEFINE s == [IdleSession EXCEPT !.stage = "order", !.order = o, !.row = order[o]]
  <1>1. Begin(r, s) /\ UNCHANGED <<order, money, points, slips>>
    BY DEF LoadOrder
  <1>2. session' = [session EXCEPT ![r] = s] /\ served' \in 0 .. MaxServed
    BY <1>1, BeginServed
  <1>3. order[o] \in OrderRow /\ order[o].amount_paid <= paid[o] /\ paid' = paid
    BY <1>1 DEF IInv, TypeOK, AmountPaidIsBacked, money
  <1>4. s \in Session /\ s.stage = "order" /\ s.order = o /\ s.row = order[o]
    <2>1. order[o] \in OrderRow \cup {None} /\ o \in Orders \cup {None}
      BY <1>3
    <2> QED
      BY <2>1, IdleType DEF Session
  <1>5. session'[r] = s
    BY <1>2 DEF IInv, TypeOK
  <1>6. SessionInv(r)'
    BY <1>3, <1>4, <1>5 DEF SessionInv, OrderStages, CustomerStages, LockedStages
  <1>7. s.stage \notin LockedStages
    BY <1>4 DEF LockedStages
  <1> HIDE DEF s
  <1> QED
    BY <1>1, <1>2, <1>4, <1>6, <1>7, SelectStep

\* FOR UPDATE is granted to one session at a time and returns the current row.
LEMMA LoadOrderForUpdateStep ==
    ASSUME IInv, NEW r \in Requests, NEW v \in Verifications, LoadOrderForUpdate(r, v)
    PROVE  IInv'
  <1> DEFINE o == SlipOrder[v]
             s == [IdleSession EXCEPT !.stage = "locked", !.order = o, !.row = order[o],
                                      !.slip = v, !.slip_row = slip[v]]
  <1>1. /\ Begin(r, s) /\ UNCHANGED <<order, money, points, slips>>
        /\ \A q \in Requests \ {r} : ~Holds(q, o)
    BY DEF LoadOrderForUpdate, MayWrite
  <1>2. session' = [session EXCEPT ![r] = s] /\ served' \in 0 .. MaxServed
    BY <1>1, BeginServed
  <1>3. o \in Orders
    BY SettlementAssumption
  <1>4. /\ order[o] \in OrderRow /\ slip[v] \in SlipRow
        /\ order[o].amount_paid <= paid[o] /\ paid' = paid
    BY <1>1, <1>3 DEF IInv, TypeOK, AmountPaidIsBacked, money
  <1>5. /\ s \in Session /\ s.stage = "locked" /\ s.order = o /\ s.row = order[o]
        /\ s.slip = v /\ s.slip_row = slip[v]
    <2>1. /\ order[o] \in OrderRow \cup {None} /\ o \in Orders \cup {None}
          /\ slip[v] \in SlipRow \cup {None} /\ v \in Verifications \cup {None}
      BY <1>3, <1>4
    <2> QED
      BY <2>1, IdleType DEF Session
  <1>6. session'[r] = s
    BY <1>2 DEF IInv, TypeOK
  <1>7. SessionInv(r)'
    BY <1>3, <1>4, <1>5, <1>6 DEF SessionInv, OrderStages, CustomerStages, LockedStages
  <1> HIDE DEF s
  <1> QED
    BY <1>1, <1>2, <1>5, <1>7, SelectStep

\* The balance read with the order is the one the table holds, never negative.
LEMMA LoadOrdersCustomerStep ==
    ASSUME IInv, NEW r \in Requests, LoadOrdersCustomer(r)
    PROVE  IInv'
  <1> DEFINE old == session[r]
             c == CustomerOf[old.order]
             s == [old EXCEPT !.stage = IF @ = "order" THEN "customer" ELSE "locked_customer",
                              !.customer = c, !.points = balance[c]]
  <1>1. /\ old.stage \in {"order", "locked"} /\ c # None /\ served' = served
        /\ session' = [session EXCEPT ![r].stage =
                            IF @ = "order" THEN "customer" ELSE "locked_customer",
                                      ![r].customer = c,
                                      ![r].points = balance[c]]
        /\ UNCHANGED <<order, money, points, slips>>
    BY DEF LoadOrdersCustomer
  <1>2. old \in Session /\ session \in [Requests -> Session] /\ served \in 0 .. MaxServed
    BY DEF IInv, TypeOK
  <1>3. session' = [session EXCEPT ![r] = s]
    BY <1>1, <1>2 DEF Session
  <1>4. SessionInv(r) /\ old.order \in Orders
    BY <1>1 DEF IInv, Sessions, SessionInv, OrderStages
  <1>5. c \in Customers
    BY <1>1, <1>4, SettlementAssumption
  <1>6. balance[c] \in Int /\ balance[c] >= 0 /\ paid' = paid
    BY <1>1, <1>5 DEF IInv, TypeOK, PointsNeverOverdrawn, money
  <1>7. /\ s \in Session
        /\ s.stage = IF old.stage = "order" THEN "customer" ELSE "locked_customer"
        /\ s.customer = c /\ s.points = balance[c]
        /\ s.order = old.order /\ s.row = old.row
        /\ s.slip = old.slip /\ s.slip_row = old.slip_row
    BY <1>2, <1>5, <1>6 DEF Session
  <1>8. session'[r] = s
    BY <1>2, <1>3
  <1>9. s.stage \in LockedStages => old.stage = "locked"
    BY <1>1, <1>7 DEF LockedStages
  <1>10. SessionInv(r)'
    <2>1. /\ old.row \in OrderRow /\ old.row.amount_paid <= paid[old.order]
          /\ old.stage = "locked" => /\ old.slip \in Verifications
                                     /\ old.slip_row \in SlipRow
                                     /\ old.order = SlipOrder[old.slip]
      BY <1>1, <1>4 DEF SessionInv, OrderStages, LockedStages
    <2> HIDE DEF s
    <2> QED
      BY <1>4, <1>5, <1>6, <1>7, <1>8, <1>9, <2>1 DEF SessionInv
  <1>11. s.stage \in LockedStages =>
            /\ s.row = order[s.order]
            /\ s.slip_row = slip[s.slip]
            /\ \A q \in Requests \ {r} : ~Holds(q, s.order)
    <2> SUFFICES ASSUME old.stage = "locked"
                 PROVE  /\ old.row = order[old.order]
                        /\ old.slip_row = slip[old.slip]
                        /\ \A q \in Requests \ {r} : ~Holds(q, old.order)
      BY <1>7, <1>9
    <2> QED
      BY DEF IInv, Sessions, LockedRowIsCurrent, LockExclusive, Holds, LockedStages
  <1> HIDE DEF s
  <1> QED
    BY <1>1, <1>2, <1>3, <1>7, <1>10, <1>11, SelectStep

\* The balance a loyalty endpoint starts from is not negative.
LEMMA LoadCustomerStep ==
    ASSUME IInv, NEW r \in Requests, NEW c \in Customers, LoadCustomer(r, c)
    PROVE  IInv'
  <1> DEFINE s == [IdleSession EXCEPT !.stage = "balance", !.customer = c, !.points = balance[c]]
  <1>1. Begin(r, s) /\ UNCHANGED <<order, money, points, slips>>
    BY DEF LoadCustomer
  <1>2. session' = [session EXCEPT ![r] = s] /\ served' \in 0 .. MaxServed
    BY <1>1, BeginServed
  <1>3. balance[c] \in Int /\ balance[c] >= 0
    BY DEF IInv, TypeOK, PointsNeverOverdrawn
  <1>4. s \in Session /\ s.stage = "balance" /\ s.customer = c /\ s.points = balance[c]
    BY <1>3 DEF IdleSession, Session
  <1>5. session'[r] = s
    BY <1>2 DEF IInv, TypeOK
  <1>6. SessionInv(r)'
    BY <1>3, <1>4, <1>5 DEF SessionInv, OrderStages, CustomerStages, LockedStages
  <1>7. s.stage \notin LockedStages
    BY <1>4 DEF LockedStages
  <1> HIDE DEF s
  <1> QED
    BY <1>1, <1>2, <1>4, <1>6, <1>7, SelectStep

\* A rolled back request changes no table.
LEMMA RollbackStep ==
    ASSUME IInv, NEW r \in Requests, Rollback(r)
    PROVE  IInv'
  <1>1. End(r) /\ UNCHANGED <<order, money, points, slips>>
    BY DEF Rollback
  <1>2. /\ order' = order /\ paid' = paid /\ refunded' = refunded /\ restocked' = restocked
        /\ settled' = settled /\ spent' = spent /\ awarded' = awarded /\ balance' = balance
        /\ ledger' = ledger /\ slip' = slip /\ slip_payments' = slip_payments
    BY <1>1 DEF money, points, slips
  <1>3. paid' \in [Orders -> Nat] /\ \A p \in Orders : paid'[p] >= paid[p]
    BY <1>2 DEF IInv, TypeOK
  <1>4. /\ session' \in [Requests -> Session]
        /\ served' \in 0 .. MaxServed
        /\ Sessions'
    BY <1>1, <1>2, <1>3, EndStep
  <1>5. TypeOK'
    BY <1>2, <1>4 DEF IInv, TypeOK
  <1>6. /\ AmountPaidIsBacked' /\ SettledIsCovered' /\ PointsNeverOverdrawn'
        /\ SlipPaidOnce' /\ SlipPaymentCounted'
    BY <1>2 DEF IInv, AmountPaidIsBacked, SettledIsCovered, PointsNeverOverdrawn,
       SlipPaidOnce, SlipPaymentCounted
  <1> QED
    BY <1>4, <1>5, <1>6 DEF IInv

-----------------------------------------------------------------------------
\* Every step of every request, and stuttering, preserves the inductive invariant.
THEOREM NextIInv == IInv /\ [Next]_vars => IInv'
  <1> SUFFICES ASSUME IInv, [Next]_vars PROVE IInv'
    OBVIOUS
  <1>1. ASSUME NEW r \in Requests, Select(r) PROVE IInv'
    BY <1>1, LoadOrderStep, LoadOrderForUpdateStep, LoadOrdersCustomerStep, LoadCustomerStep
       DEF Select
  <1>2. ASSUME NEW r \in Requests, OrderHandler(r) PROVE IInv'
    <2>1. ASSUME NEW ask \in PointAmounts \cup {0}, NEW total \in PayAmounts,
                 CheckoutOrder(r, ask, total)
          PROVE  IInv'
      BY <2>1, CheckoutStep
    <2>2. ASSUME NEW amount \in PayAmounts, CreatePayment(r, amount) PROVE IInv'
      BY <2>2, CreatePaymentStep
    <2>3. ASSUME NEW amount \in PayAmounts, ProcessRefund(r, amount) PROVE IInv'
      BY <2>3, ProcessRefundStep
    <2>4. CASE CancelOrder(r)
      BY <2>4, CancelOrderStep
    <2>5. CASE CompleteOrder(r)
      <3>1. "completed" \in OrderStatuses /\ "completed" # "paid"
        BY DEF OrderStatuses
      <3> QED
        BY <2>5, <3>1, StatusStep
    <2>6. ASSUME NEW target \in OrderStatuses, UpdateStatus(r, target) PROVE IInv'
      BY <2>6, TransitionTargets, StatusStep
    <2> QED
      BY <1>2, <2>1, <2>2, <2>3, <2>4, <2>5, <2>6 DEF OrderHandler
  <1>3. ASSUME NEW r \in Requests, SlipHandler(r) PROVE IInv'
    BY <1>3, RejectSlipStep, ApproveSlipStep DEF SlipHandler
  <1>4. ASSUME NEW r \in Requests, LoyaltyHandler(r) PROVE IInv'
    <2>1. PICK n \in PointAmounts : WriteBalance(r, n) \/ WriteBalance(r, -n)
      BY <1>4 DEF LoyaltyHandler, EarnPoints, RedeemPoints
    <2>2. n \in Int /\ -n \in Int
      BY SettlementAssumption
    <2> QED
      BY <2>1, <2>2, WriteBalanceStep
  <1>5. ASSUME NEW r \in Requests, Rollback(r) PROVE IInv'
    BY <1>5, RollbackStep
  <1>6. CASE UNCHANGED vars
    <2>1. /\ order' = order /\ paid' = paid /\ refunded' = refunded /\ restocked' = restocked
          /\ settled' = settled /\ spent' = spent /\ awarded' = awarded /\ balance' = balance
          /\ ledger' = ledger /\ slip' = slip /\ slip_payments' = slip_payments
          /\ session' = session /\ served' = served
      BY <1>6 DEF vars, money, points, slips
    <2> QED
      BY <2>1 DEF IInv, TypeOK, Sessions, SessionInv, LockedRowIsCurrent, LockExclusive,
         AmountPaidIsBacked, SettledIsCovered, PointsNeverOverdrawn, SlipPaidOnce,
         SlipPaymentCounted
  <1> QED
    BY <1>1, <1>2, <1>3, <1>4, <1>5, <1>6 DEF Next

\* IInv holds in every reachable state.
THEOREM Inductive == Spec => []IInv
  BY InitIInv, NextIInv, PTL DEF Spec

\* Type correctness, for every number of orders, customers, slips and requests.
THEOREM TypeCorrect == Spec => []TypeOK
  <1>1. IInv => TypeOK
    BY DEF IInv
  <1> QED
    BY <1>1, Inductive, PTL

\* orders.amount_paid never claims money that no payments row accounts for,
\* whatever the interleaving of create_payment, process_refund, checkout_order
\* and moderate_verification.
THEOREM AlwaysBacked == Spec => []AmountPaidIsBacked
  <1>1. IInv => AmountPaidIsBacked
    BY DEF IInv
  <1> QED
    BY <1>1, Inductive, PTL

\* No interleaving makes an order paid or completed that payments and redeemed
\* points do not cover.
THEOREM AlwaysCovered == Spec => []SettledIsCovered
  <1>1. IInv => SettledIsCovered
    BY DEF IInv
  <1> QED
    BY <1>1, Inductive, PTL

\* No interleaving of checkout_order, earn_points, redeem_points and approvals
\* makes a customer's points balance negative.
THEOREM NeverOverdrawn == Spec => []PointsNeverOverdrawn
  <1>1. IInv => PointsNeverOverdrawn
    BY DEF IInv
  <1> QED
    BY <1>1, Inductive, PTL

\* However many administrators approve a slip, moderate_verification creates one
\* payment for it at most.
THEOREM OnePaymentPerSlip == Spec => []SlipPaidOnce
  <1>1. IInv => SlipPaidOnce
    BY DEF IInv
  <1> QED
    BY <1>1, Inductive, PTL

\* Nobody writes the order or the slip a moderator has locked.
THEOREM LockProtects == Spec => []LockedRowIsCurrent
  <1>1. IInv => LockedRowIsCurrent
    BY DEF IInv, Sessions
  <1> QED
    BY <1>1, Inductive, PTL

-----------------------------------------------------------------------------
\* One request at a time.

Alone ==
    \A r, q \in Requests : r # q => session[r].stage = "idle" \/ session[q].stage = "idle"

\* What a session loaded is still what the tables hold.
Current(s) ==
    /\ s.stage \in OrderStages => s.row = order[s.order]
    /\ s.stage \in CustomerStages => s.points = balance[s.customer]

AllCurrent == \A r \in Requests : Current(session[r])

Closed == {"paid", "completed"}

\* The ledger of the points; an order that is not closed has moved none.
PointsBooks ==
    /\ PointsAgree
    /\ \A o \in Orders : order[o].status \notin Closed =>
            settled[o] = 0 /\ awarded[o] = 0 /\ spent[o] = 0

\* The till without slips: what is still paid and what went back was received.
TillBooks ==
    /\ \A o \in Orders : order[o].amount_paid + refunded[o] <= paid[o]
    /\ StockBackIffCancelled

NoSlips == \A r \in Requests : session[r].stage \notin LockedStages

\* A row that is still current is written as a whole.
LEMMA FlushCurrent ==
    ASSUME NEW row \in OrderRow, NEW new \in OrderRow
    PROVE  Flush(row, row, new) = new
  BY DEF Flush, Column, OrderRow

\* The columns of the tables.
LEMMA Columns ==
    ASSUME IInv
    PROVE  /\ order \in [Orders -> OrderRow]
           /\ paid \in [Orders -> Nat] /\ refunded \in [Orders -> Nat]
           /\ spent \in [Orders -> Nat] /\ awarded \in [Orders -> Nat]
           /\ restocked \in [Orders -> Nat] /\ settled \in [Orders -> Nat]
           /\ balance \in [Customers -> Int] /\ ledger \in [Customers -> Int]
           /\ session \in [Requests -> Session]
           /\ \A o \in Orders : order[o] \in OrderRow /\ order[o].amount_paid \in Nat
  BY DEF IInv, TypeOK, OrderRow

\* The only request under way ends: nobody holds anything.
LEMMA EndCurrent ==
    ASSUME IInv, Alone, NEW r \in Requests, session[r].stage # "idle", End(r)
    PROVE  AllCurrent'
  <1>1. ASSUME NEW q \in Requests
        PROVE  session'[q].stage = "idle"
    <2>1. CASE q = r
      BY <2>1 DEF End, IInv, TypeOK, IdleSession
    <2>2. CASE q # r
      BY <2>2 DEF End, IInv, TypeOK, Alone
    <2> QED
      BY <2>1, <2>2
  <1> QED
    BY <1>1 DEF AllCurrent, Current, OrderStages, CustomerStages

\* A request that loads a row has it as it is.
LEMMA SelectCurrent ==
    ASSUME IInv, AllCurrent, NEW r \in Requests, Select(r)
    PROVE  AllCurrent' /\ UNCHANGED <<order, money, points, slips>>
  <1>1. session \in [Requests -> Session]
    BY Columns
  <1>2. ASSUME NEW t, session' = [session EXCEPT ![r] = t], Current(t),
               UNCHANGED <<order, points>>
        PROVE  AllCurrent'
    <2>1. \A q \in Requests : session'[q] = IF q = r THEN t ELSE session[q]
      BY <1>1, <1>2
    <2>2. order' = order /\ balance' = balance
      BY <1>2 DEF points
    <2>3. ASSUME NEW q \in Requests
          PROVE  Current(session[q])'
      <3>1. Current(session'[q])
        BY <1>2, <2>1 DEF AllCurrent
      <3> QED
        BY <2>2, <3>1 DEF Current
    <2> QED
      BY <2>3 DEF AllCurrent
  <1>3. ASSUME NEW o \in Orders, LoadOrder(r, o)
        PROVE  AllCurrent' /\ UNCHANGED <<order, money, points, slips>>
    <2>1. PICK t : t = [IdleSession EXCEPT !.stage = "order", !.order = o, !.row = order[o]]
      OBVIOUS
    <2>2. Current(t)
      BY <2>1 DEF Current, IdleSession, CustomerStages
    <2> QED
      BY <1>2, <1>3, <2>1, <2>2 DEF LoadOrder, Begin
  <1>4. ASSUME NEW v \in Verifications, LoadOrderForUpdate(r, v)
        PROVE  AllCurrent' /\ UNCHANGED <<order, money, points, slips>>
    <2>1. PICK o, row, slip_row : o = SlipOrder[v] /\ row = order[o] /\ slip_row = slip[v]
      OBVIOUS
    <2>2. PICK t : t = [IdleSession EXCEPT !.stage = "locked", !.order = o, !.row = row,
                                           !.slip = v, !.slip_row = slip_row]
      OBVIOUS
    <2>3. Current(t)
      BY <2>1, <2>2 DEF Current, IdleSession, CustomerStages
    <2> QED
      BY <1>2, <1>4, <2>1, <2>2, <2>3 DEF LoadOrderForUpdate, Begin
  <1>5. ASSUME LoadOrdersCustomer(r)
        PROVE  AllCurrent' /\ UNCHANGED <<order, money, points, slips>>
    <2>1. PICK s \in Session : s = session[r]
      BY <1>1
    <2>2. PICK c, stage, amount : /\ c = CustomerOf[s.order] /\ amount = balance[c]
                                  /\ stage = IF s.stage = "order" THEN "customer"
                                             ELSE "locked_customer"
      OBVIOUS
    <2>3. PICK t : t = [s EXCEPT !.stage = stage, !.customer = c, !.points = amount]
      OBVIOUS
    <2>4. session' = [session EXCEPT ![r] = t]
      BY <1>1, <1>5, <2>1, <2>2, <2>3 DEF LoadOrdersCustomer, Session
    <2>5. s.stage \in OrderStages /\ s.row = order[s.order]
      BY <1>5, <2>1 DEF LoadOrdersCustomer, AllCurrent, Current, OrderStages
    <2>6. /\ t.row = s.row /\ t.order = s.order /\ t.customer = c /\ t.points = amount
      BY <2>1, <2>3 DEF Session
    <2>7. Current(t)
      BY <2>2, <2>5, <2>6 DEF Current
    <2> QED
      BY <1>2, <1>5, <2>4, <2>7 DEF LoadOrdersCustomer
  <1>6. ASSUME NEW c \in Customers, LoadCustomer(r, c)
        PROVE  AllCurrent' /\ UNCHANGED <<order, money, points, slips>>
    <2>1. PICK t : t = [IdleSession EXCEPT !.stage = "balance", !.customer = c,
                                           !.points = balance[c]]
      OBVIOUS
    <2>2. Current(t)
      BY <2>1 DEF Current, IdleSession, OrderStages
    <2> QED
      BY <1>2, <1>6, <2>1, <2>2 DEF LoadCustomer, Begin
  <1> QED
    BY <1>3, <1>4, <1>5, <1>6 DEF Select

\* The only request under way commits its row as it computed it.
LEMMA CommitCurrent ==
    ASSUME IInv, Alone, AllCurrent, NEW r \in Requests, session[r].stage \in OrderStages,
           NEW new \in OrderRow, CommitOrder(r, new)
    PROVE  /\ session[r].order \in Orders
           /\ session[r].row = order[session[r].order]
           /\ order' = [order EXCEPT ![session[r].order] = new]
           /\ \A o \in Orders : order'[o] = IF o = session[r].order THEN new ELSE order[o]
           /\ AllCurrent'
  <1>1. PICK o : o = session[r].order
    OBVIOUS
  <1>2. o \in Orders /\ session[r].row = order[o] /\ session[r].row \in OrderRow
    BY <1>1 DEF IInv, Sessions, SessionInv, AllCurrent, Current
  <1>3. order' = [order EXCEPT ![o] = new]
    BY <1>1, <1>2, FlushCurrent DEF CommitOrder
  <1>4. AllCurrent'
    BY EndCurrent DEF CommitOrder, OrderStages
  <1> QED
    BY <1>1, <1>2, <1>3, <1>4, Columns

\* An entry of a sum, grown or not.
LEMMA AddToAt ==
    ASSUME NEW S, NEW f \in [S -> Int], NEW x, NEW n \in Int, NEW g, g = AddTo(f, x, n)
    PROVE  /\ \A y \in S : g[y] = IF y = x THEN f[y] + n ELSE f[y]
           /\ DOMAIN g = S
  BY DEF AddTo

\* A settlement computed from current balances keeps ledger and balance together.
LEMMA SettlePointsCurrent ==
    ASSUME IInv, AllCurrent, NEW r \in Requests, NEW o \in Orders,
           NEW redeemed \in Nat, NEW earned \in Nat, SettlePoints(r, o, redeemed, earned),
           redeemed # 0 \/ earned # 0 => session[r].stage \in CustomerStages
    PROVE  /\ LedgerMatchesBalance => LedgerMatchesBalance'
           /\ \A p \in Orders :
                /\ spent'[p] = IF p = o THEN spent[p] + redeemed ELSE spent[p]
                /\ awarded'[p] = IF p = o THEN awarded[p] + earned ELSE awarded[p]
  <1>1. /\ spent \in [Orders -> Int] /\ awarded \in [Orders -> Int]
        /\ balance \in [Customers -> Int] /\ ledger \in [Customers -> Int]
    BY Columns
  <1>2. spent' = AddTo(spent, o, redeemed) /\ awarded' = AddTo(awarded, o, earned)
    BY DEF SettlePoints
  <1>3. \A p \in Orders : spent'[p] = IF p = o THEN spent[p] + redeemed ELSE spent[p]
    BY <1>1, <1>2, AddToAt
  <1>4. \A p \in Orders : awarded'[p] = IF p = o THEN awarded[p] + earned ELSE awarded[p]
    BY <1>1, <1>2, AddToAt
  <1>5. ASSUME LedgerMatchesBalance
        PROVE  LedgerMatchesBalance'
    <2>1. CASE redeemed = 0 /\ earned = 0
      BY <1>5, <2>1 DEF SettlePoints, LedgerMatchesBalance
    <2>2. CASE ~(redeemed = 0 /\ earned = 0)
      <3>1. PICK c : c = session[r].customer
        OBVIOUS
      <3>2. c \in Customers /\ session[r].points = balance[c]
        BY <2>2, <3>1 DEF IInv, Sessions, SessionInv, AllCurrent, Current
      <3>3. PICK change \in Int : change = earned - redeemed
        OBVIOUS
      <3>4. /\ balance' = [balance EXCEPT ![c] = balance[c] - redeemed + earned]
            /\ ledger' = AddTo(ledger, c, change)
        BY <2>2, <3>1, <3>2, <3>3 DEF SettlePoints
      <3>5. \A d \in Customers : ledger'[d] = IF d = c THEN ledger[d] + change ELSE ledger[d]
        BY <1>1, <3>4, AddToAt
      <3>6. \A d \in Customers : balance'[d] = IF d = c THEN balance[d] + change ELSE balance[d]
        BY <1>1, <3>2, <3>3, <3>4
      <3> QED
        BY <1>5, <3>5, <3>6 DEF LedgerMatchesBalance
    <2> QED
      BY <2>1, <2>2
  <1> QED
    BY <1>3, <1>4, <1>5

\* What the points of an order say, row by row.
LEMMA PointsBooksAre ==
    PointsBooks <=>
        /\ LedgerMatchesBalance
        /\ \A o \in Orders :
             /\ order[o].points_earned = awarded[o] /\ order[o].points_redeemed = spent[o]
             /\ settled[o] <= 1
             /\ order[o].status \notin Closed =>
                  settled[o] = 0 /\ awarded[o] = 0 /\ spent[o] = 0
  BY DEF PointsBooks, PointsAgree, OrderPointsMatchLedger, SettledOnce

\* Steps of one order that move no points keep the points' books, unless they open it again.
LEMMA PointsStay ==
    ASSUME IInv, PointsBooks, NEW o \in Orders, NEW new \in OrderRow,
           \A p \in Orders : order'[p] = IF p = o THEN new ELSE order[p],
           new.points_earned = order[o].points_earned,
           new.points_redeemed = order[o].points_redeemed,
           order[o].status \in Closed => new.status \in Closed,
           UNCHANGED <<points, settled>>
    PROVE  PointsBooks'
  <1>1. /\ balance' = balance /\ ledger' = ledger /\ spent' = spent /\ awarded' = awarded
        /\ settled' = settled
    BY DEF points
  <1>2. LedgerMatchesBalance'
    BY <1>1, PointsBooksAre DEF LedgerMatchesBalance
  <1>3. ASSUME NEW p \in Orders
        PROVE  /\ order'[p].points_earned = awarded'[p]
               /\ order'[p].points_redeemed = spent'[p]
               /\ settled'[p] <= 1
               /\ order'[p].status \notin Closed =>
                    settled'[p] = 0 /\ awarded'[p] = 0 /\ spent'[p] = 0
    BY <1>1, PointsBooksAre
  <1> QED
    BY <1>2, <1>3 DEF PointsBooks, PointsAgree, OrderPointsMatchLedger, SettledOnce

\* The phase of an order at the till.
LEMMA Phases ==
    ASSUME NEW status \in OrderStatuses
    PROVE  /\ TillOf(status) = "settled" <=> status \in Closed
           /\ TillOf(status) = "cancelled" <=> status = "cancelled"
           /\ TillOf(status) = "open" <=> status \notin Closed /\ status # "cancelled"
  BY DEF TillOf, Closed, OrderStatuses

\* A payment for an order that is not cancelled.
LEMMA TillReceives ==
    ASSUME IInv, IInv', NEW o \in Orders, NEW n \in Nat, paid' = AddTo(paid, o, n),
           UNCHANGED <<spent, refunded>>, order[o].status # "cancelled",
           \A p \in Orders : TillOf(order'[p].status) = TillOf(order[p].status)
    PROVE  T!Next
  <1>1. T!Grows(paid, paid', o)
    BY Columns DEF AddTo, T!Grows
  <1>2. TillOf(order[o].status) # "cancelled"
    BY Columns, Phases DEF OrderRow
  <1>3. T!Receive(o)
    BY <1>1, <1>2 DEF T!Receive
  <1> QED
    BY <1>3 DEF T!Next

\* An open order that payments and points cover is settled.
LEMMA TillSettles ==
    ASSUME IInv, IInv', NEW o \in Orders, NEW n \in Nat, NEW k \in Nat,
           paid' = AddTo(paid, o, n), spent' = AddTo(spent, o, k), UNCHANGED refunded,
           TillOf(order[o].status) = "open",
           \A p \in Orders : TillOf(order'[p].status) =
                                IF p = o THEN "settled" ELSE TillOf(order[p].status)
    PROVE  T!Next
  <1>1. T!Grows(paid, paid', o)
    BY Columns DEF AddTo, T!Grows
  <1>2. PICK f, g : f = [p \in Orders |-> Baht * spent[p]] /\ g = [p \in Orders |-> Baht * spent'[p]]
    OBVIOUS
  <1>3. spent \in [Orders -> Nat]
    BY Columns
  <1>4. T!Grows(f, g, o)
    <2>1. \A p \in Orders : spent'[p] = IF p = o THEN spent[p] + k ELSE spent[p]
      BY <1>3, AddToAt
    <2>2. g[o] >= f[o]
      BY <1>2, <1>3, <2>1 DEF Baht
    <2>3. g = [f EXCEPT ![o] = g[o]]
      BY <1>2, <2>1
    <2> QED
      BY <2>2, <2>3 DEF T!Grows
  <1>5. order' \in [Orders -> OrderRow]
    BY DEF IInv, TypeOK
  <1>6. order'[o].status \in Closed
    BY <1>5, Phases DEF OrderRow
  <1>7. paid'[o] + Baht * spent'[o] >= GrandTotal[o]
    BY <1>6 DEF IInv, SettledIsCovered, Closed
  <1>8. T!Settle(o)
    BY <1>1, <1>2, <1>4, <1>7 DEF T!Settle
  <1> QED
    BY <1>8 DEF T!Next

\* An open order is cancelled.
LEMMA TillCancels ==
    ASSUME NEW o \in Orders, UNCHANGED <<paid, spent, refunded>>,
           TillOf(order[o].status) = "open",
           \A p \in Orders : TillOf(order'[p].status) =
                                IF p = o THEN "cancelled" ELSE TillOf(order[p].status)
    PROVE  T!Next
  <1>1. T!Cancel(o)
    BY DEF T!Cancel
  <1> QED
    BY <1>1 DEF T!Next

\* Money goes back that was received.
LEMMA TillPaysBack ==
    ASSUME IInv, NEW o \in Orders, NEW n \in Nat, refunded' = AddTo(refunded, o, n),
           refunded'[o] <= paid[o], UNCHANGED <<paid, spent>>,
           \A p \in Orders : TillOf(order'[p].status) = TillOf(order[p].status)
    PROVE  T!Next
  <1>1. T!Grows(refunded, refunded', o)
    BY Columns DEF AddTo, T!Grows
  <1>2. T!PayBack(o)
    BY <1>1 DEF T!PayBack
  <1> QED
    BY <1>2 DEF T!Next

\* A step that leaves money, points and phases alone is none of the till's.
LEMMA TillRests ==
    ASSUME UNCHANGED <<paid, spent, refunded>>,
           \A p \in Orders : TillOf(order'[p].status) = TillOf(order[p].status)
    PROVE  UNCHANGED T!vars
  BY DEF T!vars

\* What a step at the till keeps and does.
SerialStep ==
    /\ PointsBooks => PointsBooks'
    /\ NoSlips /\ TillBooks => TillBooks' /\ [T!Next]_(T!vars)

\* checkout_order of the only request under way.
LEMMA CheckoutSerial ==
    ASSUME IInv, IInv', Alone, AllCurrent, NEW r \in Requests,
           NEW ask \in PointAmounts \cup {0}, NEW total \in PayAmounts,
           CheckoutOrder(r, ask, total)
    PROVE  SerialStep /\ AllCurrent'
  <1>1. PICK o, s : o = session[r].order /\ s = session[r].row
    OBVIOUS
  <1>2. session[r].stage \in OrderStages
    BY DEF CheckoutOrder, OrderStages
  <1>3. o \in Orders /\ s = order[o] /\ s \in OrderRow
    BY <1>1, <1>2, Columns DEF IInv, Sessions, SessionInv, AllCurrent, Current
  <1>4. ask \in Nat /\ total \in Nat
    BY SettlementAssumption
  <1>5. PICK redeemed, due, earned : /\ redeemed = Redeemed(o, ask) /\ due = Due(o, redeemed)
                                     /\ earned = Earned(o, redeemed)
    OBVIOUS
  <1>6. redeemed \in Nat /\ redeemed <= ask /\ due \in Nat /\ earned \in Nat
    BY <1>3, <1>4, <1>5, RedeemedBounds
  <1>7. PICK new : new = [status |-> "paid", amount_paid |-> total,
                          change_amount |-> total - due,
                          points_earned |-> IF earned > 0 THEN earned ELSE s.points_earned,
                          points_redeemed |-> IF ask > 0 THEN redeemed ELSE s.points_redeemed]
    OBVIOUS
  <1>8. /\ s.status \in CheckoutableStatuses
        /\ total >= due
        /\ SettlePoints(r, o, redeemed, earned)
        /\ paid' = AddTo(paid, o, total)
        /\ settled' = AddTo(settled, o, 1)
        /\ CommitOrder(r, new)
        /\ UNCHANGED <<refunded, restocked, slips>>
    BY <1>1, <1>5, <1>7 DEF CheckoutOrder
  <1>9. new \in OrderRow
    BY <1>3, <1>4, <1>6, <1>7, <1>8 DEF OrderRow, OrderStatuses
  <1>10. /\ \A p \in Orders : order'[p] = IF p = o THEN new ELSE order[p]
         /\ AllCurrent'
    BY <1>1, <1>2, <1>8, <1>9, CommitCurrent
  <1>11. redeemed # 0 \/ earned # 0 => session[r].stage \in CustomerStages
    <2> SUFFICES ASSUME redeemed # 0 \/ earned # 0 PROVE session[r].stage \in CustomerStages
      OBVIOUS
    <2>1. CustomerOf[o] # None
      BY <1>1, <1>4, <1>5, <1>6 DEF Earned, CheckoutOrder
    <2> QED
      BY <1>1, <2>1 DEF CheckoutOrder, CustomerStages
  <1>12. /\ LedgerMatchesBalance => LedgerMatchesBalance'
         /\ \A p \in Orders :
              /\ spent'[p] = IF p = o THEN spent[p] + redeemed ELSE spent[p]
              /\ awarded'[p] = IF p = o THEN awarded[p] + earned ELSE awarded[p]
    BY <1>3, <1>6, <1>8, <1>11, SettlePointsCurrent
  <1>13. /\ \A p \in Orders : paid'[p] = IF p = o THEN paid[p] + total ELSE paid[p]
         /\ \A p \in Orders : settled'[p] = IF p = o THEN settled[p] + 1 ELSE settled[p]
    <2>1. paid \in [Orders -> Int] /\ settled \in [Orders -> Int] /\ total \in Int
      BY <1>4, Columns
    <2> QED
      BY <1>8, <2>1, AddToAt
  <1>14. s.status \notin Closed /\ s.status # "cancelled" /\ new.status = "paid"
    BY <1>7, <1>8 DEF CheckoutableStatuses, Closed
  <1>15. ASSUME PointsBooks
         PROVE  PointsBooks'
    <2>1. ASSUME NEW p \in Orders
          PROVE  /\ order'[p].points_earned = awarded'[p]
                 /\ order'[p].points_redeemed = spent'[p]
                 /\ settled'[p] <= 1
                 /\ order'[p].status \notin Closed =>
                      settled'[p] = 0 /\ awarded'[p] = 0 /\ spent'[p] = 0
      <3>1. CASE p = o
        <4>1. /\ settled[o] = 0 /\ awarded[o] = 0 /\ spent[o] = 0
              /\ s.points_earned = 0 /\ s.points_redeemed = 0
          BY <1>3, <1>14, <1>15, PointsBooksAre
        <4>2. /\ new.points_earned = earned /\ new.points_redeemed = redeemed
          BY <1>4, <1>6, <1>7, <4>1
        <4>3. settled'[o] = 1 /\ awarded'[o] = earned /\ spent'[o] = redeemed
          BY <1>3, <1>6, <1>12, <1>13, <4>1
        <4> QED
          BY <1>10, <1>14, <3>1, <4>2, <4>3 DEF Closed
      <3>2. CASE p # o
        BY <1>10, <1>12, <1>13, <1>15, <3>2, PointsBooksAre
      <3> QED
        BY <3>1, <3>2
    <2> QED
      BY <1>12, <1>15, <2>1
         DEF PointsBooks, PointsAgree, OrderPointsMatchLedger, SettledOnce
  <1>16. ASSUME TillBooks
         PROVE  TillBooks'
    <2>1. refunded' = refunded /\ restocked' = restocked
      BY <1>8
    <2>2. ASSUME NEW p \in Orders
          PROVE  /\ order'[p].amount_paid + refunded'[p] <= paid'[p]
                 /\ restocked'[p] = IF order'[p].status = "cancelled" THEN 1 ELSE 0
      <3>1. /\ order[p].amount_paid + refunded[p] <= paid[p] /\ order[p].amount_paid \in Nat
            /\ refunded[p] \in Nat /\ paid[p] \in Nat
            /\ restocked[p] = IF order[p].status = "cancelled" THEN 1 ELSE 0
        BY <1>16, Columns DEF TillBooks, StockBackIffCancelled
      <3>2. CASE p = o
        <4>1. new.amount_paid = total
          BY <1>7
        <4> QED
          BY <1>3, <1>4, <1>10, <1>13, <1>14, <2>1, <3>1, <3>2, <4>1
      <3>3. CASE p # o
        BY <1>10, <1>13, <2>1, <3>1, <3>3
      <3> QED
        BY <3>2, <3>3
    <2> QED
      BY <2>2 DEF TillBooks, StockBackIffCancelled
  <1>17. T!Next
    <2>1. TillOf(order[o].status) = "open" /\ TillOf(new.status) = "settled"
      BY <1>3, <1>9, <1>14, Phases DEF OrderRow, Closed
    <2>2. \A p \in Orders : TillOf(order'[p].status) =
                                IF p = o THEN "settled" ELSE TillOf(order[p].status)
      BY <1>10, <2>1
    <2>3. spent' = AddTo(spent, o, redeemed) /\ refunded' = refunded
      BY <1>8 DEF SettlePoints
    <2> QED
      BY <1>3, <1>4, <1>6, <1>8, <2>1, <2>2, <2>3, TillSettles
  <1> QED
    BY <1>10, <1>15, <1>16, <1>17 DEF SerialStep

\* A row that only got another status, and amounts.
Restated(s, new) ==
    new.points_earned = s.points_earned /\ new.points_redeemed = s.points_redeemed

\* create_payment of the only request under way.
LEMMA CreatePaymentSerial ==
    ASSUME IInv, IInv', Alone, AllCurrent, NEW r \in Requests, NEW amount \in PayAmounts,
           CreatePayment(r, amount)
    PROVE  SerialStep /\ AllCurrent'
  <1>1. PICK o, s : o = session[r].order /\ s = session[r].row
    OBVIOUS
  <1>2. session[r].stage \in OrderStages
    BY DEF CreatePayment, OrderStages
  <1>3. o \in Orders /\ s = order[o] /\ s \in OrderRow /\ amount \in Nat
    BY <1>1, <1>2, Columns, SettlementAssumption
       DEF IInv, Sessions, SessionInv, AllCurrent, Current
  <1>4. PICK sum \in Nat : sum = s.amount_paid + amount
    BY <1>3 DEF OrderRow
  <1>5. PICK change : change = Change(o, s, sum)
    OBVIOUS
  <1>6. change \in Nat
    BY <1>3, <1>4, <1>5, SettlementAssumption DEF Change, OrderRow
  <1>7. PICK new : new = [s EXCEPT !.amount_paid = sum, !.change_amount = change]
    OBVIOUS
  <1>8. /\ new \in OrderRow /\ new.amount_paid = sum /\ new.status = s.status /\ Restated(s, new)
    BY <1>3, <1>4, <1>6, <1>7 DEF OrderRow, Restated
  <1>9. /\ s.status # "cancelled" /\ paid' = AddTo(paid, o, amount) /\ CommitOrder(r, new)
        /\ UNCHANGED <<refunded, restocked, settled, points, slips>>
    BY <1>1, <1>4, <1>5, <1>7 DEF CreatePayment
  <1>10. (\A p \in Orders : order'[p] = IF p = o THEN new ELSE order[p]) /\ AllCurrent'
    BY <1>1, <1>2, <1>8, <1>9, CommitCurrent
  <1>11. ASSUME PointsBooks PROVE PointsBooks'
    BY <1>3, <1>8, <1>9, <1>10, <1>11, PointsStay DEF Restated
  <1>12. \A p \in Orders : paid'[p] = IF p = o THEN paid[p] + amount ELSE paid[p]
    <2>1. paid \in [Orders -> Int] /\ amount \in Int
      BY <1>3, Columns
    <2> QED
      BY <1>9, <2>1, AddToAt
  <1>13. ASSUME TillBooks PROVE TillBooks'
    <2>1. ASSUME NEW p \in Orders
          PROVE  /\ order'[p].amount_paid + refunded'[p] <= paid'[p]
                 /\ restocked'[p] = IF order'[p].status = "cancelled" THEN 1 ELSE 0
      <3>1. /\ order[p].amount_paid + refunded[p] <= paid[p] /\ order[p].amount_paid \in Nat
            /\ refunded[p] \in Nat /\ paid[p] \in Nat
            /\ restocked[p] = IF order[p].status = "cancelled" THEN 1 ELSE 0
        BY <1>13, Columns DEF TillBooks, StockBackIffCancelled
      <3> QED
        BY <1>3, <1>4, <1>8, <1>9, <1>10, <1>12, <3>1
    <2> QED
      BY <2>1 DEF TillBooks, StockBackIffCancelled
  <1>14. T!Next
    <2>1. \A p \in Orders : TillOf(order'[p].status) = TillOf(order[p].status)
      BY <1>3, <1>8, <1>10
    <2>2. spent' = spent /\ refunded' = refunded
      BY <1>9 DEF points
    <2> QED
      BY <1>3, <1>9, <2>1, <2>2, TillReceives
  <1> QED
    BY <1>10, <1>11, <1>13, <1>14 DEF SerialStep

\* process_refund of the only request under way.
LEMMA ProcessRefundSerial ==
    ASSUME IInv, IInv', Alone, AllCurrent, NEW r \in Requests, NEW amount \in PayAmounts,
           ProcessRefund(r, amount)
    PROVE  SerialStep /\ AllCurrent'
  <1>1. PICK o, s : o = session[r].order /\ s = session[r].row
    OBVIOUS
  <1>2. session[r].stage \in OrderStages
    BY DEF ProcessRefund, OrderStages
  <1>3. o \in Orders /\ s = order[o] /\ s \in OrderRow /\ amount \in Nat
    BY <1>1, <1>2, Columns, SettlementAssumption
       DEF IInv, Sessions, SessionInv, AllCurrent, Current
  <1>4. amount <= s.amount_paid
    BY <1>1 DEF ProcessRefund, Refundable
  <1>5. PICK left \in Nat : left = s.amount_paid - amount
    BY <1>3, <1>4 DEF OrderRow
  <1>6. PICK new : new = [s EXCEPT !.amount_paid = left]
    OBVIOUS
  <1>7. /\ new \in OrderRow /\ new.amount_paid = left /\ new.status = s.status /\ Restated(s, new)
    BY <1>3, <1>5, <1>6 DEF OrderRow, Restated
  <1>8. new = [s EXCEPT !.amount_paid = @ - amount]
    BY <1>3, <1>5, <1>6 DEF OrderRow
  <1>9. /\ refunded' = AddTo(refunded, o, amount) /\ CommitOrder(r, new)
        /\ UNCHANGED <<paid, restocked, settled, points, slips>>
    BY <1>1, <1>8 DEF ProcessRefund
  <1>10. (\A p \in Orders : order'[p] = IF p = o THEN new ELSE order[p]) /\ AllCurrent'
    BY <1>1, <1>2, <1>7, <1>9, CommitCurrent
  <1>11. ASSUME PointsBooks PROVE PointsBooks'
    BY <1>3, <1>7, <1>9, <1>10, <1>11, PointsStay DEF Restated
  <1>12. \A p \in Orders : refunded'[p] = IF p = o THEN refunded[p] + amount ELSE refunded[p]
    <2>1. refunded \in [Orders -> Int] /\ amount \in Int
      BY <1>3, Columns
    <2> QED
      BY <1>9, <2>1, AddToAt
  <1>13. ASSUME TillBooks PROVE TillBooks' /\ T!Next
    <2>1. ASSUME NEW p \in Orders
          PROVE  /\ order'[p].amount_paid + refunded'[p] <= paid'[p]
                 /\ restocked'[p] = IF order'[p].status = "cancelled" THEN 1 ELSE 0
                 /\ refunded'[p] <= paid[p]
      <3>1. /\ order[p].amount_paid + refunded[p] <= paid[p] /\ order[p].amount_paid \in Nat
            /\ refunded[p] \in Nat /\ paid[p] \in Nat
            /\ restocked[p] = IF order[p].status = "cancelled" THEN 1 ELSE 0
        BY <1>13, Columns DEF TillBooks, StockBackIffCancelled
      <3> QED
        BY <1>3, <1>4, <1>5, <1>7, <1>9, <1>10, <1>12, <3>1
    <2>2. TillBooks'
      BY <2>1 DEF TillBooks, StockBackIffCancelled
    <2>3. \A p \in Orders : TillOf(order'[p].status) = TillOf(order[p].status)
      BY <1>3, <1>7, <1>10
    <2>4. paid' = paid /\ spent' = spent
      BY <1>9 DEF points
    <2>5. T!Next
      BY <1>3, <1>9, <2>1, <2>3, <2>4, TillPaysBack
    <2> QED
      BY <2>2, <2>5
  <1> QED
    BY <1>10, <1>11, <1>13 DEF SerialStep

\* cancel_order of the only request under way.
LEMMA CancelSerial ==
    ASSUME IInv, IInv', Alone, AllCurrent, NEW r \in Requests, CancelOrder(r)
    PROVE  SerialStep /\ AllCurrent'
  <1>1. PICK o, s : o = session[r].order /\ s = session[r].row
    OBVIOUS
  <1>2. session[r].stage \in OrderStages
    BY DEF CancelOrder, OrderStages
  <1>3. o \in Orders /\ s = order[o] /\ s \in OrderRow
    BY <1>1, <1>2, Columns DEF IInv, Sessions, SessionInv, AllCurrent, Current
  <1>4. PICK new : new = [s EXCEPT !.status = "cancelled"]
    OBVIOUS
  <1>5. /\ new \in OrderRow /\ new.amount_paid = s.amount_paid /\ new.status = "cancelled"
        /\ Restated(s, new)
    BY <1>3, <1>4 DEF OrderRow, OrderStatuses, Restated
  <1>6. /\ s.status \in CancellableStatuses /\ restocked' = AddTo(restocked, o, 1)
        /\ CommitOrder(r, new) /\ UNCHANGED <<paid, refunded, settled, points, slips>>
    BY <1>1, <1>4 DEF CancelOrder
  <1>7. s.status \notin Closed /\ s.status # "cancelled" /\ s.status \in OrderStatuses
    BY <1>3, <1>6 DEF CancellableStatuses, Closed, OrderRow
  <1>8. (\A p \in Orders : order'[p] = IF p = o THEN new ELSE order[p]) /\ AllCurrent'
    BY <1>1, <1>2, <1>5, <1>6, CommitCurrent
  <1>9. ASSUME PointsBooks PROVE PointsBooks'
    BY <1>3, <1>5, <1>6, <1>7, <1>8, <1>9, PointsStay DEF Restated
  <1>10. \A p \in Orders : restocked'[p] = IF p = o THEN restocked[p] + 1 ELSE restocked[p]
    <2>1. restocked \in [Orders -> Int]
      BY Columns
    <2> QED
      BY <1>6, <2>1, AddToAt
  <1>11. ASSUME TillBooks PROVE TillBooks'
    <2>1. ASSUME NEW p \in Orders
          PROVE  /\ order'[p].amount_paid + refunded'[p] <= paid'[p]
                 /\ restocked'[p] = IF order'[p].status = "cancelled" THEN 1 ELSE 0
      <3>1. /\ order[p].amount_paid + refunded[p] <= paid[p]
            /\ restocked[p] = IF order[p].status = "cancelled" THEN 1 ELSE 0
        BY <1>11 DEF TillBooks, StockBackIffCancelled
      <3> QED
        BY <1>3, <1>5, <1>6, <1>7, <1>8, <1>10, <3>1
    <2> QED
      BY <2>1 DEF TillBooks, StockBackIffCancelled
  <1>12. T!Next
    <2>1. TillOf(order[o].status) = "open"
      BY <1>3, <1>7, Phases
    <2>2. TillOf("cancelled") = "cancelled"
      BY DEF TillOf
    <2>3. \A p \in Orders : TillOf(order'[p].status) =
                                IF p = o THEN "cancelled" ELSE TillOf(order[p].status)
      BY <1>5, <1>8, <2>2
    <2>4. paid' = paid /\ spent' = spent /\ refunded' = refunded
      BY <1>6 DEF points
    <2> QED
      BY <1>3, <2>1, <2>3, <2>4, TillCancels
  <1> QED
    BY <1>8, <1>9, <1>11, <1>12 DEF SerialStep

\* A change of status that stays open or closes a fully paid order.
LEMMA StatusSerial ==
    ASSUME IInv, IInv', Alone, AllCurrent, NEW r \in Requests, session[r].stage = "order",
           NEW s \in OrderRow, s = session[r].row, NEW status \in OrderStatuses \ {"cancelled"},
           s.status # "cancelled", s.status \in Closed => status \in Closed,
           CommitOrder(r, [s EXCEPT !.status = status]), UNCHANGED <<money, points, slips>>
    PROVE  SerialStep /\ AllCurrent'
  <1>1. PICK o : o = session[r].order
    OBVIOUS
  <1>2. session[r].stage \in OrderStages
    BY DEF OrderStages
  <1>3. o \in Orders /\ s = order[o]
    BY <1>1, <1>2 DEF IInv, Sessions, SessionInv, AllCurrent, Current
  <1>4. PICK new : new = [s EXCEPT !.status = status]
    OBVIOUS
  <1>5. /\ new \in OrderRow /\ new.amount_paid = s.amount_paid /\ new.status = status
        /\ Restated(s, new)
    BY <1>4 DEF OrderRow, Restated
  <1>6. (\A p \in Orders : order'[p] = IF p = o THEN new ELSE order[p]) /\ AllCurrent'
    BY <1>1, <1>2, <1>4, <1>5, CommitCurrent
  <1>7. /\ paid' = paid /\ refunded' = refunded /\ restocked' = restocked /\ settled' = settled
        /\ spent' = spent
    BY DEF money, points
  <1>8. ASSUME PointsBooks PROVE PointsBooks'
    BY <1>3, <1>5, <1>6, <1>7, <1>8, PointsStay DEF Restated
  <1>9. ASSUME TillBooks PROVE TillBooks'
    <2>1. ASSUME NEW p \in Orders
          PROVE  /\ order'[p].amount_paid + refunded'[p] <= paid'[p]
                 /\ restocked'[p] = IF order'[p].status = "cancelled" THEN 1 ELSE 0
      <3>1. /\ order[p].amount_paid + refunded[p] <= paid[p]
            /\ restocked[p] = IF order[p].status = "cancelled" THEN 1 ELSE 0
        BY <1>9 DEF TillBooks, StockBackIffCancelled
      <3> QED
        BY <1>3, <1>5, <1>6, <1>7, <3>1
    <2> QED
      BY <2>1 DEF TillBooks, StockBackIffCancelled
  <1>10. [T!Next]_(T!vars)
    <2>1. CASE TillOf(status) = TillOf(s.status)
      <3>1. \A p \in Orders : TillOf(order'[p].status) = TillOf(order[p].status)
        BY <1>3, <1>5, <1>6, <2>1
      <3> QED
        BY <1>7, <3>1, TillRests
    <2>2. CASE TillOf(status) # TillOf(s.status)
      <3>1. TillOf(s.status) = "open" /\ TillOf(status) = "settled"
        BY <2>2, Phases DEF OrderRow
      <3>2. \A p \in Orders : TillOf(order'[p].status) =
                                IF p = o THEN "settled" ELSE TillOf(order[p].status)
        BY <1>5, <1>6, <3>1
      <3>3. paid' = AddTo(paid, o, 0) /\ spent' = AddTo(spent, o, 0)
        <4>1. paid \in [Orders -> Nat] /\ spent \in [Orders -> Nat]
          BY Columns
        <4> QED
          BY <1>7, <4>1 DEF AddTo
      <3> QED
        BY <1>3, <1>7, <3>1, <3>2, <3>3, TillSettles
    <2> QED
      BY <2>1, <2>2
  <1> QED
    BY <1>6, <1>8, <1>9, <1>10 DEF SerialStep

\* reject of a slip, and earn and redeem, which know no order.
LEMMA RejectSerial ==
    ASSUME IInv, Alone, AllCurrent, NEW r \in Requests, RejectSlip(r)
    PROVE  SerialStep /\ AllCurrent'
  <1>1. /\ order' = order /\ UNCHANGED <<money, points>>
        /\ session[r].stage \in LockedStages /\ End(r)
    BY DEF RejectSlip, LockedStages
  <1>2. AllCurrent'
    BY <1>1, EndCurrent DEF LockedStages
  <1>3. PointsBooks => PointsBooks'
    BY <1>1, PointsBooksAre
       DEF points, money, PointsBooks, PointsAgree, LedgerMatchesBalance,
           OrderPointsMatchLedger, SettledOnce
  <1>4. ~NoSlips
    BY <1>1 DEF NoSlips
  <1> QED
    BY <1>2, <1>3, <1>4 DEF SerialStep

\* The loyalty endpoints of the only request under way.
LEMMA WriteBalanceSerial ==
    ASSUME IInv, Alone, AllCurrent, NEW r \in Requests, NEW n \in Int, WriteBalance(r, n)
    PROVE  SerialStep /\ AllCurrent'
  <1>1. PICK c : c = session[r].customer
    OBVIOUS
  <1>2. session[r].stage = "balance" /\ session[r].stage \in CustomerStages
    BY DEF WriteBalance, CustomerStages
  <1>3. c \in Customers /\ session[r].points = balance[c]
    BY <1>1, <1>2 DEF IInv, Sessions, SessionInv, AllCurrent, Current
  <1>4. /\ balance' = [balance EXCEPT ![c] = balance[c] + n]
        /\ ledger' = AddTo(ledger, c, n) /\ End(r)
        /\ UNCHANGED <<order, money, spent, awarded, slips>>
    BY <1>1, <1>3 DEF WriteBalance
  <1>5. AllCurrent'
    BY <1>2, <1>4, EndCurrent
  <1>6. balance \in [Customers -> Int] /\ ledger \in [Customers -> Int]
    BY Columns
  <1>7. \A d \in Customers : ledger'[d] = IF d = c THEN ledger[d] + n ELSE ledger[d]
    BY <1>4, <1>6, AddToAt
  <1>8. ASSUME PointsBooks PROVE PointsBooks'
    <2>1. LedgerMatchesBalance'
      BY <1>4, <1>6, <1>7, <1>8 DEF LedgerMatchesBalance, PointsBooks, PointsAgree
    <2> QED
      BY <1>4, <1>8, <2>1 DEF money, PointsBooks, PointsAgree, OrderPointsMatchLedger, SettledOnce
  <1>9. TillBooks => TillBooks'
    BY <1>4 DEF money, TillBooks, StockBackIffCancelled
  <1>10. UNCHANGED T!vars
    BY <1>4, TillRests DEF money
  <1> QED
    BY <1>5, <1>8, <1>9, <1>10 DEF SerialStep
\* moderate_verification of the only request under way.
LEMMA ApproveSerial ==
    ASSUME IInv, IInv', Alone, AllCurrent, NEW r \in Requests, ApproveSlip(r)
    PROVE  SerialStep /\ AllCurrent'
  <1>1. PICK o, s, v : o = session[r].order /\ s = session[r].row /\ v = session[r].slip
    OBVIOUS
  <1>2. PICK amount, earned : /\ amount = PaymentAmount(v)
                              /\ earned = IF Awards(o, s) THEN GrandTotal[o] \div Baht ELSE 0
    OBVIOUS
  <1>3. PICK new : new = ApprovedRow(o, s, amount, earned)
    OBVIOUS
  <1>4. /\ session[r].stage \in LockedStages
        /\ session[r].stage = "locked_customer" <=> Awards(o, s)
        /\ amount >= GrandTotal[o] /\ SettlePoints(r, o, 0, earned) /\ CommitOrder(r, new)
        /\ UNCHANGED <<refunded, restocked, settled>>
    BY <1>1, <1>2, <1>3 DEF ApproveSlip, LockedStages
  <1>5. session[r].stage \in OrderStages
    BY <1>4 DEF OrderStages, LockedStages
  <1>6. /\ v \in Verifications /\ o = SlipOrder[v] /\ o \in Orders /\ s = order[o]
        /\ s \in OrderRow
    BY <1>1, <1>4, <1>5, Columns DEF IInv, Sessions, SessionInv, AllCurrent, Current
  <1>7. amount \in Nat /\ GrandTotal[o] \in Nat /\ earned \in Nat
    <2>1. amount \in Nat /\ GrandTotal[o] \in Nat
      BY <1>2, <1>6, SettlementAssumption DEF PaymentAmount
    <2> QED
      BY <1>2, <2>1, WholeBaht
  <1>8. /\ new \in OrderRow /\ new.status = "paid" /\ new.points_redeemed = s.points_redeemed
        /\ new.points_earned = IF earned > 0 THEN earned ELSE s.points_earned
    BY <1>3, <1>4, <1>6, <1>7 DEF ApprovedRow, OrderRow, OrderStatuses
  <1>9. (\A p \in Orders : order'[p] = IF p = o THEN new ELSE order[p]) /\ AllCurrent'
    BY <1>1, <1>4, <1>5, <1>8, CommitCurrent
  <1>10. earned # 0 => s.points_earned = 0 /\ session[r].stage \in CustomerStages
    BY <1>2, <1>4 DEF Awards, CustomerStages
  <1>11. /\ LedgerMatchesBalance => LedgerMatchesBalance'
         /\ \A p \in Orders :
              /\ spent'[p] = IF p = o THEN spent[p] + 0 ELSE spent[p]
              /\ awarded'[p] = IF p = o THEN awarded[p] + earned ELSE awarded[p]
    BY <1>4, <1>6, <1>7, <1>10, SettlePointsCurrent
  <1>12. ASSUME PointsBooks PROVE PointsBooks'
    <2>1. ASSUME NEW p \in Orders
          PROVE  /\ order'[p].points_earned = awarded'[p]
                 /\ order'[p].points_redeemed = spent'[p]
                 /\ settled'[p] <= 1
                 /\ order'[p].status \notin Closed =>
                      settled'[p] = 0 /\ awarded'[p] = 0 /\ spent'[p] = 0
      <3>1. /\ order[p].points_earned = awarded[p] /\ order[p].points_redeemed = spent[p]
            /\ settled[p] <= 1 /\ settled' = settled
            /\ awarded[p] \in Nat /\ spent[p] \in Nat
        BY <1>4, <1>12, Columns, PointsBooksAre
      <3>2. CASE p = o
        BY <1>6, <1>7, <1>8, <1>9, <1>10, <1>11, <3>1, <3>2 DEF Closed
      <3>3. CASE p # o
        BY <1>9, <1>11, <1>12, <3>1, <3>3, PointsBooksAre
      <3> QED
        BY <3>2, <3>3
    <2> QED
      BY <1>11, <1>12, <2>1, PointsBooksAre
         DEF PointsBooks, PointsAgree, OrderPointsMatchLedger, SettledOnce
  <1>13. ~NoSlips
    BY <1>4 DEF NoSlips
  <1> QED
    BY <1>9, <1>12, <1>13 DEF SerialStep

\* A step that leaves orders, money and points alone keeps every book.
LEMMA RestSerial ==
    ASSUME UNCHANGED <<order, money, points>>
    PROVE  SerialStep
  <1>1. /\ order' = order /\ balance' = balance /\ ledger' = ledger /\ spent' = spent
        /\ awarded' = awarded /\ paid' = paid /\ refunded' = refunded
        /\ restocked' = restocked /\ settled' = settled
    BY DEF money, points
  <1>2. PointsBooks => PointsBooks'
    BY <1>1 DEF PointsBooks, PointsAgree, LedgerMatchesBalance, OrderPointsMatchLedger, SettledOnce
  <1>3. TillBooks => TillBooks'
    BY <1>1 DEF TillBooks, StockBackIffCancelled
  <1>4. UNCHANGED T!vars
    BY <1>1, TillRests
  <1> QED
    BY <1>2, <1>3, <1>4 DEF SerialStep

\* The status changes of the workflow: none cancels, none reopens a closed order.
LEMMA Transitions ==
    ASSUME NEW s \in OrderStatuses, NEW target \in ValidTransitions[s]
    PROVE  /\ target \in OrderStatuses \ {"cancelled"} /\ s # "cancelled"
           /\ s \in Closed => target \in Closed
  BY DEF ValidTransitions, OrderStatuses, Closed

\* A handler of an order, one request at a time.
LEMMA OrderHandlerSerial ==
    ASSUME IInv, IInv', Alone, AllCurrent, NEW r \in Requests, OrderHandler(r)
    PROVE  SerialStep /\ AllCurrent'
  <1>1. ASSUME NEW ask \in PointAmounts \cup {0}, NEW total \in PayAmounts,
               CheckoutOrder(r, ask, total)
        PROVE  SerialStep /\ AllCurrent'
    BY <1>1, CheckoutSerial
  <1>2. ASSUME NEW amount \in PayAmounts, CreatePayment(r, amount)
        PROVE  SerialStep /\ AllCurrent'
    BY <1>2, CreatePaymentSerial
  <1>3. ASSUME NEW amount \in PayAmounts, ProcessRefund(r, amount)
        PROVE  SerialStep /\ AllCurrent'
    BY <1>3, ProcessRefundSerial
  <1>4. CASE CancelOrder(r)
    BY <1>4, CancelSerial
  <1>5. PICK s : s = session[r].row
    OBVIOUS
  <1>6. session[r].stage = "order" => s \in OrderRow /\ s.status \in OrderStatuses
    BY <1>5 DEF IInv, Sessions, SessionInv, OrderStages, OrderRow
  <1>7. CASE CompleteOrder(r)
    <2>1. /\ session[r].stage = "order" /\ s.status \in {"pending", "ready", "paid"}
          /\ CommitOrder(r, [s EXCEPT !.status = "completed"])
          /\ UNCHANGED <<money, points, slips>>
      BY <1>5, <1>7 DEF CompleteOrder
    <2>2. "completed" \in OrderStatuses \ {"cancelled"} /\ "completed" \in Closed
      BY DEF OrderStatuses, Closed
    <2> QED
      BY <1>5, <1>6, <2>1, <2>2, StatusSerial
  <1>8. ASSUME NEW target \in OrderStatuses, UpdateStatus(r, target)
        PROVE  SerialStep /\ AllCurrent'
    <2>1. /\ session[r].stage = "order" /\ target \in ValidTransitions[s.status]
          /\ CommitOrder(r, [s EXCEPT !.status = target])
          /\ UNCHANGED <<money, points, slips>>
      BY <1>5, <1>8 DEF UpdateStatus
    <2>2. /\ target \in OrderStatuses \ {"cancelled"} /\ s.status # "cancelled"
          /\ s.status \in Closed => target \in Closed
      BY <1>6, <2>1, Transitions
    <2> QED
      BY <1>5, <1>6, <2>1, <2>2, StatusSerial
  <1> QED
    BY <1>1, <1>2, <1>3, <1>4, <1>7, <1>8 DEF OrderHandler

\* Every step of the only request under way.
LEMMA SerialKept ==
    ASSUME IInv, IInv', Alone, AllCurrent, [Next]_vars
    PROVE  SerialStep /\ AllCurrent'
  <1>1. ASSUME NEW r \in Requests, Select(r)
        PROVE  SerialStep /\ AllCurrent'
    BY <1>1, SelectCurrent, RestSerial
  <1>2. ASSUME NEW r \in Requests, OrderHandler(r)
        PROVE  SerialStep /\ AllCurrent'
    BY <1>2, OrderHandlerSerial
  <1>3. ASSUME NEW r \in Requests, SlipHandler(r)
        PROVE  SerialStep /\ AllCurrent'
    BY <1>3, ApproveSerial, RejectSerial DEF SlipHandler
  <1>4. ASSUME NEW r \in Requests, LoyaltyHandler(r)
        PROVE  SerialStep /\ AllCurrent'
    <2>1. PICK n \in PointAmounts : WriteBalance(r, n) \/ WriteBalance(r, -n)
      BY <1>4 DEF LoyaltyHandler, EarnPoints, RedeemPoints
    <2>2. n \in Int /\ -n \in Int
      BY SettlementAssumption
    <2> QED
      BY <2>1, <2>2, WriteBalanceSerial
  <1>5. ASSUME NEW r \in Requests, Rollback(r)
        PROVE  SerialStep /\ AllCurrent'
    <2>1. session[r].stage # "idle" /\ End(r) /\ UNCHANGED <<order, money, points, slips>>
      BY <1>5 DEF Rollback
    <2> QED
      BY <2>1, EndCurrent, RestSerial
  <1>6. CASE UNCHANGED vars
    <2>1. UNCHANGED <<order, money, points>> /\ session' = session /\ balance' = balance
      BY <1>6 DEF vars, points
    <2>2. AllCurrent'
      BY <2>1 DEF AllCurrent, Current
    <2> QED
      BY <2>1, <2>2, RestSerial
  <1> QED
    BY <1>1, <1>2, <1>3, <1>4, <1>5, <1>6 DEF Next

\* The requests and slips of a workload.
OfWorkload ==
    /\ Serial => Alone
    /\ \A r \in Requests : session[r].slip \in workload.slips \cup {None}

\* The books of the serial workloads.
Books ==
    /\ Serial => AllCurrent /\ PointsBooks
    /\ AtTheTill => TillBooks

\* A workload stays within its width and its slips.
LEMMA OfWorkloadKept ==
    ASSUME OfWorkload, [MCNext]_<<vars, uploadVars, workload>>
    PROVE  OfWorkload' /\ workload' = workload /\ [Next]_vars
  <1>1. CASE SettlementStep
    <2>1. workload' = workload /\ Next
      BY <1>1 DEF SettlementStep
    <2>2. \A r \in Requests : session'[r].slip \in workload.slips \cup {None}
      BY <1>1 DEF SettlementStep
    <2>3. ASSUME Serial PROVE Alone'
      <3>1. PICK S : S = {r \in Requests : session'[r].stage # "idle"}
        OBVIOUS
      <3>2. Cardinality(S) <= 1
        BY <1>1, <2>3, <3>1 DEF SettlementStep, Serial
      <3>3. IsFiniteSet(S)
        BY <3>1, RequestsAreBounded, FS_Subset
      <3>4. \A x, y \in S : x = y
        BY <3>2, <3>3, NoTwo
      <3> QED
        BY <3>1, <3>4 DEF Alone
    <2> QED
      BY <2>1, <2>2, <2>3 DEF OfWorkload, Serial
  <1>2. CASE UploadStep \/ UNCHANGED <<vars, uploadVars, workload>>
    <2>1. workload' = workload /\ UNCHANGED vars
      BY <1>2 DEF UploadStep
    <2>2. session' = session
      BY <2>1 DEF vars
    <2> QED
      BY <2>1, <2>2 DEF OfWorkload, Serial, Alone
  <1> QED
    BY <1>1, <1>2 DEF MCNext

\* A till without slips locks no row.
LEMMA TillHasNoSlips ==
    ASSUME IInv, OfWorkload, AtTheTill
    PROVE  NoSlips
  <1>1. ASSUME NEW r \in Requests, session[r].stage \in LockedStages
        PROVE  FALSE
    <2>1. session[r].slip \in Verifications
      BY <1>1 DEF IInv, Sessions, SessionInv
    <2>2. session[r].slip = None
      BY DEF OfWorkload, AtTheTill
    <2> QED
      BY <2>1, <2>2, SettlementAssumption
  <1> QED
    BY <1>1 DEF NoSlips

\* Every step of a workload keeps its books and is one of the till's.
LEMMA BooksKept ==
    ASSUME IInv, IInv', OfWorkload, Books, [MCNext]_<<vars, uploadVars, workload>>
    PROVE  Books' /\ (AtTheTill => [T!Next]_(T!vars))
  <1>1. workload' = workload /\ [Next]_vars
    BY OfWorkloadKept
  <1>2. ASSUME Serial
        PROVE  SerialStep /\ AllCurrent'
    BY <1>1, <1>2, SerialKept DEF OfWorkload, Books
  <1>3. ASSUME Serial
        PROVE  AllCurrent' /\ PointsBooks'
    BY <1>2, <1>3 DEF Books, SerialStep
  <1>4. ASSUME AtTheTill
        PROVE  TillBooks' /\ [T!Next]_(T!vars)
    BY <1>2, <1>4, TillHasNoSlips DEF AtTheTill, Books, SerialStep
  <1> QED
    BY <1>1, <1>3, <1>4 DEF Books, AtTheTill, Serial
\* Nothing was sold, paid or loaded when a workload begins.
LEMMA BooksOpen ==
    ASSUME MCInit
    PROVE  OfWorkload /\ Books /\ T!Init
  <1>1. Init
    BY DEF MCInit
  <1>2. \A o \in Orders : /\ order[o] = NewOrder /\ paid[o] = 0 /\ refunded[o] = 0
                          /\ spent[o] = 0 /\ awarded[o] = 0 /\ restocked[o] = 0 /\ settled[o] = 0
    BY <1>1 DEF Init
  <1>3. \A r \in Requests : session[r].stage = "idle" /\ session[r].slip = None
    BY <1>1 DEF Init, IdleSession
  <1>4. OfWorkload /\ AllCurrent
    BY <1>3 DEF OfWorkload, Alone, AllCurrent, Current, OrderStages, CustomerStages
  <1>5. LedgerMatchesBalance
    BY <1>1 DEF Init, LedgerMatchesBalance
  <1>6. PointsBooks /\ TillBooks
    BY <1>2, <1>5 DEF PointsBooks, PointsAgree, OrderPointsMatchLedger, SettledOnce, TillBooks,
                      StockBackIffCancelled, NewOrder
  <1>7. T!Init
    <2>1. order = [o \in Orders |-> NewOrder] /\ paid = [o \in Orders |-> 0]
          /\ refunded = [o \in Orders |-> 0] /\ spent = [o \in Orders |-> 0]
      BY <1>1 DEF Init
    <2>2. TillOf("pending") = "open" /\ Baht * 0 = 0
      BY DEF TillOf, Baht
    <2>3. \A o \in Orders : TillOf(order[o].status) = "open" /\ Baht * spent[o] = 0
      BY <2>1, <2>2 DEF NewOrder
    <2> QED
      BY <2>1, <2>3 DEF T!Init
  <1> QED
    BY <1>4, <1>6, <1>7 DEF Books

\* What Books means for the tables.
LEMMA BooksMean ==
    ASSUME IInv, Books
    PROVE  SerialBooksAgree
  <1>1. ASSUME AtTheTill
        PROVE  RefundsAreCovered
    <2>1. ASSUME NEW o \in Orders
          PROVE  refunded[o] <= paid[o]
      <3>1. order[o].amount_paid + refunded[o] <= paid[o]
        BY <1>1 DEF Books, TillBooks
      <3>2. order[o].amount_paid \in Nat /\ refunded[o] \in Nat /\ paid[o] \in Nat
        BY Columns
      <3> QED
        BY <3>1, <3>2
    <2> QED
      BY <2>1 DEF RefundsAreCovered
  <1> QED
    BY <1>1 DEF Books, TillBooks, PointsBooks, SerialBooksAgree, RefundsAndStockAgree

\* The invariant of Settlement holds in every workload.
LEMMA WorkloadInv == MCSpec => []IInv
  <1>1. MCInit => IInv
    BY InitIInv DEF MCInit
  <1>2. IInv /\ [MCNext]_<<vars, uploadVars, workload>> => IInv'
    <2>1. [MCNext]_<<vars, uploadVars, workload>> => [Next]_vars
      BY DEF MCNext, SettlementStep, UploadStep
    <2> QED
      BY <2>1, NextIInv
  <1> QED
    BY <1>1, <1>2, PTL DEF MCSpec

\* The books of the serial workloads hold throughout.
LEMMA WorkloadBooks == MCSpec => [](OfWorkload /\ Books)
  <1>1. OfWorkload /\ Books /\ IInv /\ IInv' /\ [MCNext]_<<vars, uploadVars, workload>>
        => (OfWorkload /\ Books)'
    BY OfWorkloadKept, BooksKept
  <1> QED
    BY <1>1, BooksOpen, WorkloadInv, PTL DEF MCSpec

\* Served one at a time, checkouts, payments, refunds, approvals and the loyalty
\* endpoints keep the customer's balance equal to the ledger and the order's points
\* equal to its ledger rows, charge an order once, and, without slips, refund only
\* what was paid and give back stock exactly for the cancelled orders.
THEOREM SerialBooks == MCSpec => []SerialBooksAgree
  <1>1. IInv /\ OfWorkload /\ Books => SerialBooksAgree
    BY BooksMean
  <1> QED
    BY <1>1, WorkloadInv, WorkloadBooks, PTL

\* Served one at a time and without slips, every request that commits is one step
\* of the abstract till, or none: the till's promises are Settlement's.
THEOREM TillImplemented == MCSpec => TillIsImplemented
  <1>1. MCInit => T!Init
    BY BooksOpen
  <1>2. OfWorkload /\ Books /\ IInv /\ IInv' /\ [MCNext]_<<vars, uploadVars, workload>>
        => [AtTheTill => [T!Next]_(T!vars)]_vars
    BY BooksKept
  <1> QED
    BY <1>1, <1>2, WorkloadInv, WorkloadBooks, PTL DEF MCSpec, TillIsImplemented
-----------------------------------------------------------------------------
\* Uploaded slips: sums of signals.

Chosen(s) == CHOOSE x \in s : TRUE

\* total holds the sum of v over every subset of S, as MapThenSumSet forms it.
IsTotal(total, v, S) ==
    total = [s \in SUBSET S |-> IF s = {} THEN 0
                                ELSE v[Chosen(s)] + total[s \ {Chosen(s)}]]

\* Without one of its elements a set is smaller.
LEMMA OneLess ==
    ASSUME NEW S, IsFiniteSet(S), NEW s \in SUBSET S, s # {}, NEW n \in Nat,
           Cardinality(s) <= n + 1
    PROVE  Chosen(s) \in s /\ Cardinality(s \ {Chosen(s)}) <= n
  <1>1. Chosen(s) \in s
    BY DEF Chosen
  <1>2. IsFiniteSet(s) /\ Cardinality(s) \in Nat
    BY FS_Subset, FS_CardinalityType
  <1>3. Cardinality(s \ {Chosen(s)}) = Cardinality(s) - 1
    BY <1>1, <1>2, FS_RemoveElement
  <1> QED
    BY <1>1, <1>2, <1>3

\* A sum over a finite set is defined.
LEMMA TotalsExist ==
    ASSUME NEW v, NEW S, IsFiniteSet(S)
    PROVE  \E total : IsTotal(total, v, S)
  <1> DEFINE Small(n) == {s \in SUBSET S : Cardinality(s) <= n}
             IsPart(g, n) == g = [s \in Small(n) |-> IF s = {} THEN 0
                                                     ELSE v[Chosen(s)] + g[s \ {Chosen(s)}]]
             Reached == {n \in Nat : \E g : IsPart(g, n)}
  <1>1. 0 \in Reached
    <2>1. \A s \in Small(0) : s = {}
      BY FS_Subset, FS_CardinalityType, FS_EmptySet
    <2>2. IsPart([s \in Small(0) |-> 0], 0)
      BY <2>1
    <2> QED
      BY <2>2
  <1>2. \A n \in Reached : n + 1 \in Reached
    <2> TAKE n \in Reached
    <2>1. PICK g : IsPart(g, n)
      OBVIOUS
    <2> DEFINE h == [s \in Small(n + 1) |-> IF s = {} THEN 0
                                            ELSE v[Chosen(s)] + g[s \ {Chosen(s)}]]
    <2>2. \A s \in Small(n) : s \in Small(n + 1) /\ h[s] = g[s]
      <3> TAKE s \in Small(n)
      <3>1. IsFiniteSet(s) /\ Cardinality(s) \in Nat
        BY FS_Subset, FS_CardinalityType
      <3>2. s \in Small(n + 1)
        BY <3>1
      <3>3. g[s] = IF s = {} THEN 0 ELSE v[Chosen(s)] + g[s \ {Chosen(s)}]
        BY <2>1
      <3> QED
        BY <3>2, <3>3
    <2>3. \A s \in Small(n + 1) : s # {} => s \ {Chosen(s)} \in Small(n)
      BY OneLess
    <2>4. h = [s \in Small(n + 1) |-> IF s = {} THEN 0
                                      ELSE v[Chosen(s)] + h[s \ {Chosen(s)}]]
      <3> HIDE DEF Small, h
      <3>1. h = [s \in Small(n + 1) |-> IF s = {} THEN 0
                                        ELSE v[Chosen(s)] + g[s \ {Chosen(s)}]]
        BY DEF h
      <3> QED
        BY <3>1, <2>2, <2>3
    <2>5. IsPart(h, n + 1)
      BY <2>4
    <2> HIDE DEF h, IsPart
    <2> QED
      BY <2>5
  <1>3. Reached = Nat
    <2> HIDE DEF IsPart
    <2> QED
      BY <1>1, <1>2, NatSetInduction
  <1>4. Cardinality(S) \in Nat /\ Small(Cardinality(S)) = SUBSET S
    BY FS_Subset, FS_CardinalityType
  <1>5. PICK total : IsPart(total, Cardinality(S))
    BY <1>3, <1>4
  <1> QED
    BY <1>4, <1>5 DEF IsTotal

\* A sum of naturals is at least each of them.
LEMMA TotalsCover ==
    ASSUME NEW v, NEW S, IsFiniteSet(S), \A x \in S : v[x] \in Nat,
           NEW total, IsTotal(total, v, S)
    PROVE  total[S] \in Nat /\ \A x \in S : v[x] <= total[S]
  <1> DEFINE Covers(s) == total[s] \in Nat /\ \A x \in s : v[x] <= total[s]
             Reached == {n \in Nat : \A s \in SUBSET S : Cardinality(s) <= n => Covers(s)}
  <1>0. \A s \in SUBSET S : total[s] = IF s = {} THEN 0
                                       ELSE v[Chosen(s)] + total[s \ {Chosen(s)}]
    BY DEF IsTotal
  <1>4. Covers({})
    <2>1. {} \in SUBSET S
      OBVIOUS
    <2>2. total[{}] = 0
      BY <2>1, <1>0
    <2> QED
      BY <2>2
  <1>1. 0 \in Reached
    <2>1. \A s \in SUBSET S : Cardinality(s) <= 0 => s = {}
      BY FS_Subset, FS_CardinalityType, FS_EmptySet
    <2> HIDE DEF Covers
    <2> QED
      BY <2>1, <1>4
  <1>2. \A n \in Reached : n + 1 \in Reached
    <2> TAKE n \in Reached
    <2> SUFFICES ASSUME NEW s \in SUBSET S, Cardinality(s) <= n + 1 PROVE Covers(s)
      OBVIOUS
    <2>1. CASE s = {}
      BY <2>1, <1>4
    <2>2. CASE s # {}
      <3> DEFINE c == Chosen(s)
                 rest == s \ {c}
      <3>1. c \in s /\ Cardinality(rest) <= n
        BY <2>2, OneLess
      <3>2. Covers(rest)
        BY <3>1
      <3>3. v[c] \in Nat /\ total[s] = v[c] + total[rest]
        BY <3>1, <2>2, <1>0
      <3>4. \A x \in s : v[x] \in Nat /\ (x = c \/ x \in rest)
        OBVIOUS
      <3>5. PICK a, b, sum : a = v[c] /\ b = total[rest] /\ sum = total[s]
        OBVIOUS
      <3>6. a \in Nat /\ b \in Nat /\ sum = a + b
        BY <3>2, <3>3, <3>5
      <3>7. \A x \in rest : v[x] <= b
        BY <3>2, <3>5
      <3>8. \A x \in s : v[x] <= sum
        <4> TAKE x \in s
        <4>1. PICK y : y = v[x]
          OBVIOUS
        <4>2. y \in Nat /\ (y = a \/ y <= b)
          BY <3>4, <3>5, <3>7, <4>1
        <4>3. y <= sum
          BY <4>2, <3>6
        <4> QED
          BY <4>1, <4>3
      <3>9. sum \in Nat
        BY <3>6
      <3> HIDE DEF c, rest
      <3> QED
        BY <3>5, <3>8, <3>9
    <2> QED
      BY <2>1, <2>2
  <1>3. Reached = Nat
    <2> HIDE DEF Covers
    <2> QED
      BY <1>1, <1>2, NatSetInduction
  <1>5. Covers(S)
    BY <1>3, FS_CardinalityType
  <1> QED
    BY <1>5

\* Every signal has a value.
LEMMA SignalValues ==
    /\ \A s \in DOMAIN Uploads!SignalValue : Uploads!SignalValue[s] \in Nat
    /\ Uploads!TextSignals \subseteq DOMAIN Uploads!SignalValue
    /\ "reference_not_found" \in DOMAIN Uploads!SignalValue
    /\ Uploads!SignalValue["reference_not_found"] = 80
  BY DEF Uploads!SignalValue, Uploads!TextSignals

\* The score of finitely many signals is at least the value of each, up to 100.
LEMMA ScoreCovers ==
    ASSUME NEW S \in SUBSET DOMAIN Uploads!SignalValue, IsFiniteSet(S), NEW s \in S,
           Uploads!SignalValue[s] = 80
    PROVE  Uploads!Score(S) \in Nat /\ Uploads!Score(S) >= 80
  <1> DEFINE v == Uploads!SignalValue
             sum == CHOOSE total : IsTotal(total, v, S)
  <1>1. IsTotal(sum, v, S)
    BY TotalsExist
  <1>2. sum[S] \in Nat /\ v[s] <= sum[S]
    BY <1>1, TotalsCover, SignalValues
  <1>3. Uploads!Score(S) = IF sum[S] > 100 THEN 100 ELSE sum[S]
    BY DEF Uploads!Score, Uploads!MapThenSumSet, Uploads!MapThenFoldSet, IsTotal, Chosen
  <1> QED
    BY <1>2, <1>3

-----------------------------------------------------------------------------
\* What verify_slip files.

UploadSessions ==
    [stage : {"idle", "recognize", "assess", "commit"},
     order : Orders \union {None}, image : Images \union {None}, duplicate : BOOLEAN,
     status : Uploads!FiledStatuses \union {"order_already_paid", "duplicate_image", None},
     files : BOOLEAN]

\* Statuses that moderate_verification does not approve.
Unapprovable == Uploads!FiledStatuses \ {"review", "verified"}

\* What a session that serves an upload has found out.
UploadMeans(s) ==
    /\ s.stage # "idle" => s.order \in Orders /\ s.image \in Images
    /\ s.stage = "assess" => s.duplicate = (Text[s.image].reference # None)
    /\ s.stage = "commit" => s.status # "verified" /\ (s.files => s.status \in Unapprovable)

UploadsInv ==
    /\ order_status \in [Orders -> {"open", "completed", "cancelled"}]
    /\ IsTable(verifications) /\ Len(verifications) <= MaxRows
    /\ \A n \in DOMAIN verifications :
            verifications[n] \in Uploads!Verification /\ verifications[n].status \in Unapprovable
    /\ attempts \in [Orders -> Nat]
    /\ upload_payments = [o \in Orders |-> 0]
    /\ upload_session \in [Workers -> UploadSessions]
    /\ \A w \in Workers : UploadMeans(upload_session[w])

\* Up to four things are finitely many.
LEMMA FourAreFinite == \A a, b, c, d : IsFiniteSet({a, b, c, d})
  <1> TAKE a, b, c, d
  <1>1. IsFiniteSet({a} \union {b})
    BY FS_Singleton, FS_Union
  <1>2. IsFiniteSet({a} \union {b} \union {c})
    BY <1>1, FS_Singleton, FS_Union
  <1>3. IsFiniteSet({a} \union {b} \union {c} \union {d})
    BY <1>2, FS_Singleton, FS_Union
  <1>4. {a, b, c, d} = {a} \union {b} \union {c} \union {d}
    OBVIOUS
  <1> QED
    BY <1>3, <1>4

\* What can be wrong with an image are finitely many things.
LEMMA TextSignalsAreFinite == IsFiniteSet(Uploads!TextSignals)
  <1> DEFINE A == {"low_ocr_confidence", "very_low_ocr_confidence", "sender_is_receiver",
                   "old_transaction"}
             B == {"future_transaction", "low_confidence_amount", "low_confidence_reference",
                   "missing_sender"}
             C == {"missing_receiver", "unusual_round_amount", "missing_date", "missing_date"}
  <1>1. IsFiniteSet(A) /\ IsFiniteSet(B) /\ IsFiniteSet(C)
    BY FourAreFinite
  <1>2. Uploads!TextSignals = A \union B \union C
    BY DEF Uploads!TextSignals
  <1> HIDE DEF A, B, C
  <1>3. IsFiniteSet(A \union B)
    BY <1>1, FS_Union
  <1> QED
    BY <1>1, <1>2, <1>3, FS_Union

\* Cardinality in the module of the uploads is Cardinality.
LEMMA SameCardinality == \A S : Uploads!Cardinality(S) = Cardinality(S)
  BY DEF Uploads!Cardinality, Cardinality

\* A slip without a reference scores 80 and more.
LEMMA NoReferenceScores ==
    ASSUME NEW o \in Orders, NEW i \in Images, NEW duplicate, NEW failed \in Nat,
           Text[i].reference = None
    PROVE  /\ Uploads!Score(Uploads!Signals(o, i, duplicate, failed)) \in Nat
           /\ Uploads!Score(Uploads!Signals(o, i, duplicate, failed)) >= 80
  <1> DEFINE S == Uploads!Signals(o, i, duplicate, failed)
             read == Text[i].signals
             money_signals == Uploads!AmountSignals(Text[i].amount, UploadTotals[o])
             often == IF failed >= 2 THEN {"multiple_failed_attempts"} ELSE {}
  <1>1. S = read \union money_signals \union {"reference_not_found"} \union often
    BY DEF Uploads!Signals, Uploads!ReferenceSignals
  <1>2. read \subseteq Uploads!TextSignals
    BY UploadsAssumption DEF Uploads!ConstantsAllowed, Uploads!Texts
  <1>3. IsFiniteSet(read)
    BY <1>2, TextSignalsAreFinite, FS_Subset
  <1>4. PICK x, y : money_signals \in {{}, {x}} /\ x \in DOMAIN Uploads!SignalValue
                    /\ often \in {{}, {y}} /\ y \in DOMAIN Uploads!SignalValue
    <2>1. \E x \in {"amount_significantly_higher", "amount_significantly_lower",
                     "amount_mismatch"} : money_signals \in {{}, {x}}
      BY DEF Uploads!AmountSignals
    <2>3. {"amount_significantly_higher", "amount_significantly_lower", "amount_mismatch"}
          \subseteq DOMAIN Uploads!SignalValue
      BY DEF Uploads!SignalValue
    <2>2. \E y \in DOMAIN Uploads!SignalValue : often \in {{}, {y}}
      BY DEF Uploads!SignalValue
    <2> QED
      BY <2>1, <2>2, <2>3
  <1>5. S \subseteq DOMAIN Uploads!SignalValue
    BY <1>1, <1>2, <1>4, SignalValues
  <1>6. IsFiniteSet(S)
    <2> HIDE DEF S, read, money_signals, often
    <2>1. IsFiniteSet(money_signals) /\ IsFiniteSet(often) /\ IsFiniteSet({"reference_not_found"})
      <3>1. IsFiniteSet({}) /\ \A x1 : IsFiniteSet({x1})
        BY FS_EmptySet, FS_Singleton
      <3> QED
        BY <1>4, <3>1
    <2>2. IsFiniteSet(read \union money_signals)
      BY <1>3, <2>1, FS_Union
    <2>3. IsFiniteSet(read \union money_signals \union {"reference_not_found"})
      BY <2>1, <2>2, FS_Union
    <2> QED
      BY <1>1, <2>1, <2>3, FS_Union
  <1>7. "reference_not_found" \in S
    BY <1>1
  <1>8. Uploads!Score(S) \in Nat /\ Uploads!Score(S) >= 80
    <2> HIDE DEF S
    <2> QED
      BY <1>5, <1>6, <1>7, SignalValues, ScoreCovers
  <1> QED
    BY <1>8

\* No slip is assessed as one that may be approved.
LEMMA AssessedAsClosed ==
    ASSUME NEW o \in Orders, NEW i \in Images, NEW failed \in Nat,
           NEW duplicate, duplicate = (Text[i].reference # None)
    PROVE  Uploads!FinalStatus(o, i, duplicate, failed) \in Unapprovable
  <1>1. CASE Text[i].reference # None
    BY <1>1 DEF Uploads!FinalStatus, Unapprovable, Uploads!FiledStatuses
  <1>2. CASE Text[i].reference = None
    <2> DEFINE score == Uploads!Score(Uploads!Signals(o, i, duplicate, failed))
    <2>1. score \in Nat /\ score >= 80
      BY <1>2, NoReferenceScores
    <2>2. score >= 50
      <3> HIDE DEF score
      <3> QED
        BY <2>1
    <2>3. Uploads!Level(score) = "rejected"
      BY <2>2 DEF Uploads!Level
    <2> QED
      BY <1>2, <2>3 DEF Uploads!FinalStatus, Unapprovable, Uploads!FiledStatuses
  <1> QED
    BY <1>1, <1>2

\* The bookkeeping of a handler that goes on without writing.
LEMMA ContinueKept ==
    ASSUME UploadsInv, NEW w \in Workers, NEW s \in UploadSessions, UploadMeans(s),
           Uploads!Continue(w, s)
    PROVE  UploadsInv'
  <1>1. upload_session' = [upload_session EXCEPT ![w] = s]
    BY DEF Uploads!Continue
  <1>2. upload_session' \in [Workers -> UploadSessions]
    BY <1>1 DEF UploadsInv
  <1>3. \A q \in Workers : UploadMeans(upload_session'[q])
    BY <1>1 DEF UploadsInv
  <1> QED
    BY <1>2, <1>3 DEF UploadsInv, Uploads!Continue, UploadMeans

\* A session that waits for its next upload.
LEMMA IdleUpload == Uploads!IdleSession \in UploadSessions /\ UploadMeans(Uploads!IdleSession)
  BY DEF Uploads!IdleSession, UploadSessions, UploadMeans

\* verify_slip begins: image and order are checked.
LEMMA UploadKept ==
    ASSUME UploadsInv, NEW w \in Workers, NEW o \in Orders, NEW i \in Images,
           Uploads!Upload(w, o, i)
    PROVE  UploadsInv'
  <1> DEFINE s == [Uploads!IdleSession EXCEPT !.stage = "recognize", !.order = o, !.image = i]
             end(status) == [s EXCEPT !.stage = "commit", !.status = status]
  <1>1. s \in UploadSessions /\ UploadMeans(s)
    BY DEF Uploads!IdleSession, UploadSessions, UploadMeans
  <1>2. \A status \in {"order_already_paid", "ocr_failed", "duplicate_image"} :
            end(status) \in UploadSessions /\ UploadMeans(end(status))
    BY DEF Uploads!IdleSession, UploadSessions, UploadMeans, Uploads!FiledStatuses
  <1>3. \/ Uploads!Continue(w, s)
        \/ \E status \in {"order_already_paid", "ocr_failed", "duplicate_image"} :
                Uploads!Continue(w, end(status))
    BY DEF Uploads!Upload
  <1> HIDE DEF s, end
  <1> QED
    BY <1>1, <1>2, <1>3, ContinueKept

\* verify_slip when the OCR service does not answer.
LEMMA OcrFailsKept ==
    ASSUME UploadsInv, NEW w \in Workers, Uploads!OcrFails(w)
    PROVE  UploadsInv'
  <1> DEFINE s == [upload_session[w] EXCEPT !.stage = "commit", !.status = "ocr_failed",
                                            !.files = TRUE]
  <1>1. s \in UploadSessions /\ UploadMeans(s)
    BY DEF Uploads!OcrFails, UploadsInv, UploadSessions, UploadMeans, Unapprovable, Uploads!FiledStatuses
  <1>2. Uploads!Continue(w, s)
    BY DEF Uploads!OcrFails
  <1> QED
    BY <1>1, <1>2, ContinueKept

\* The rows a lookup finds are finitely many.
LEMMA CarryingCounts ==
    ASSUME UploadsInv, NEW reference
    PROVE  /\ IsFiniteSet(Uploads!Carrying(reference))
           /\ Cardinality(Uploads!Carrying(reference)) \in Nat
           /\ Uploads!Found(reference) >= 1
           /\ Uploads!Found(reference) <= 1 <=> Uploads!Carrying(reference) = {}
  <1>1. Len(verifications) \in Nat /\ DOMAIN verifications = 1 .. Len(verifications)
    BY TableIs DEF UploadsInv
  <1>2. IsFiniteSet(1 .. Len(verifications))
    BY <1>1, FS_Interval
  <1>3. Uploads!Carrying(reference) \subseteq 1 .. Len(verifications)
    BY <1>1 DEF Uploads!Carrying, Uploads!Live
  <1>4. IsFiniteSet(Uploads!Carrying(reference))
    BY <1>2, <1>3, FS_Subset
  <1>5. Cardinality(Uploads!Carrying(reference)) \in Nat
    BY <1>4, FS_CardinalityType
  <1>6. Cardinality(Uploads!Carrying(reference)) = 0 <=> Uploads!Carrying(reference) = {}
    BY <1>4, FS_EmptySet
  <1>7. PICK n : n = Cardinality(Uploads!Carrying(reference))
    OBVIOUS
  <1>8. Uploads!Found(reference) = n + 1
    BY <1>7, SameCardinality DEF Uploads!Found
  <1> QED
    BY <1>4, <1>5, <1>6, <1>7, <1>8

\* verify_slip looks its reference up, and finds itself if there is one.
LEMMA CheckReferenceKept ==
    ASSUME UploadsInv, NEW w \in Workers, Uploads!CheckReference(w)
    PROVE  UploadsInv'
  <1> DEFINE old == upload_session[w]
             reference == Text[old.image].reference
             s == [old EXCEPT !.stage = "assess",
                              !.duplicate = reference # None /\ Uploads!Found(reference) = 1]
  <1>1. old \in UploadSessions /\ UploadMeans(old) /\ old.stage = "recognize"
    BY DEF UploadsInv, Uploads!CheckReference
  <1>2. reference # None => Uploads!Found(reference) <= 1
    BY DEF Uploads!CheckReference
  <1>3. PICK found : found = (reference # None /\ Uploads!Found(reference) = 1)
    OBVIOUS
  <1>4. found = (reference # None)
    <2>1. reference # None => Uploads!Found(reference) = 1
      <3>1. Uploads!Found(reference) >= 1 /\ Cardinality(Uploads!Carrying(reference)) \in Nat
        BY CarryingCounts
      <3>2. PICK n : n = Cardinality(Uploads!Carrying(reference))
        OBVIOUS
      <3>3. Uploads!Found(reference) = n + 1
        BY <3>2, SameCardinality DEF Uploads!Found
      <3> QED
        BY <1>2, <3>1, <3>2, <3>3
    <2> QED
      BY <1>3, <2>1
  <1>5. s = [old EXCEPT !.stage = "assess", !.duplicate = found]
    BY <1>3
  <1>6. s \in UploadSessions /\ UploadMeans(s)
    BY <1>1, <1>4, <1>5 DEF UploadSessions, UploadMeans
  <1>7. Uploads!Continue(w, s)
    BY DEF Uploads!CheckReference
  <1> QED
    BY <1>6, <1>7, ContinueKept

\* verify_slip when the INSERT or the lookup raises.
LEMMA CheckFailsKept ==
    ASSUME UploadsInv, NEW w \in Workers, Uploads!CheckFails(w)
    PROVE  UploadsInv'
  BY IdleUpload, ContinueKept DEF Uploads!CheckFails, Uploads!Fail

\* verify_slip chooses the status of its row.
LEMMA AssessKept ==
    ASSUME UploadsInv, NEW w \in Workers, Uploads!Assess(w)
    PROVE  UploadsInv'
  <1> DEFINE old == upload_session[w]
             status == Uploads!FinalStatus(old.order, old.image, old.duplicate, attempts[old.order])
             s == [old EXCEPT !.stage = "commit", !.files = TRUE, !.status = status]
  <1>1. old \in UploadSessions /\ UploadMeans(old) /\ old.stage = "assess"
    BY DEF UploadsInv, Uploads!Assess
  <1>2. old.order \in Orders /\ old.image \in Images
        /\ old.duplicate = (Text[old.image].reference # None)
    BY <1>1 DEF UploadMeans
  <1>3. attempts[old.order] \in Nat
    BY <1>2 DEF UploadsInv
  <1>4. status \in Unapprovable
    BY <1>2, <1>3, AssessedAsClosed
  <1>5. Uploads!Continue(w, s)
    BY DEF Uploads!Assess
  <1> HIDE DEF status
  <1>6. s \in UploadSessions /\ UploadMeans(s)
    BY <1>1, <1>4 DEF UploadSessions, UploadMeans, Unapprovable
  <1> QED
    BY <1>5, <1>6, ContinueKept

\* The commit of an upload ends its session, and counts no payment.
LEMMA CommitCounts ==
    ASSUME UploadsInv, NEW w \in Workers, Uploads!CommitUpload(w)
    PROVE  /\ order_status' \in [Orders -> {"open", "completed", "cancelled"}]
           /\ attempts' \in [Orders -> Nat]
           /\ upload_payments' = [o \in Orders |-> 0]
           /\ upload_session' \in [Workers -> UploadSessions]
           /\ \A q \in Workers : UploadMeans(upload_session'[q])
  <1> DEFINE s == upload_session[w]
  <1>1. s.order \in Orders /\ s.status # "verified"
    BY DEF UploadsInv, Uploads!CommitUpload, UploadMeans
  <1>2. /\ order_status' = order_status
        /\ attempts' = [attempts EXCEPT ![s.order] = @ + 1]
        /\ upload_payments' = [upload_payments EXCEPT ![s.order] = @ + 0]
        /\ upload_session' = [upload_session EXCEPT ![w] = Uploads!IdleSession]
    BY <1>1 DEF Uploads!CommitUpload
  <1>3. attempts' \in [Orders -> Nat]
    BY <1>1, <1>2 DEF UploadsInv
  <1>4. upload_payments' = [o \in Orders |-> 0]
    BY <1>1, <1>2 DEF UploadsInv
  <1>5. /\ upload_session' \in [Workers -> UploadSessions]
        /\ \A q \in Workers : UploadMeans(upload_session'[q])
    BY <1>2, IdleUpload DEF UploadsInv
  <1> QED
    BY <1>2, <1>3, <1>4, <1>5 DEF UploadsInv

\* The router's commit writes a row that nobody may approve.
LEMMA CommitUploadKept ==
    ASSUME UploadsInv, NEW w \in Workers, Uploads!CommitUpload(w)
    PROVE  UploadsInv'
  <1> DEFINE s == upload_session[w]
             row == [order |-> s.order, image |-> s.image, status |-> s.status]
  <1>1. s \in UploadSessions /\ UploadMeans(s) /\ s.stage = "commit"
    BY DEF UploadsInv, Uploads!CommitUpload
  <1>2. s.order \in Orders /\ s.image \in Images /\ s.status # "verified"
        /\ (s.files => s.status \in Unapprovable)
    BY <1>1 DEF UploadMeans
  <1>3. CASE s.files
    <2>1. Len(verifications) < MaxRows /\ verifications' = WithRow(verifications, row)
      BY <1>3 DEF Uploads!CommitUpload, WithRow
    <2>2. /\ IsTable(verifications') /\ Len(verifications) \in Nat
          /\ Len(verifications') = Len(verifications) + 1
          /\ DOMAIN verifications = 1 .. Len(verifications)
          /\ DOMAIN verifications' = 1 .. Len(verifications) + 1
          /\ \A n \in DOMAIN verifications : verifications'[n] = verifications[n]
          /\ verifications'[Len(verifications) + 1] = row
      BY <2>1, AppendRow DEF UploadsInv
    <2>3. Len(verifications') <= MaxRows
      BY <2>1, <2>2, UploadsAssumption DEF Uploads!ConstantsAllowed
    <2>4. row \in Uploads!Verification /\ row.status \in Unapprovable
      BY <1>2, <1>3 DEF Uploads!Verification, Unapprovable
    <2>5. \A n \in DOMAIN verifications' :
              verifications'[n] \in Uploads!Verification /\ verifications'[n].status \in Unapprovable
      <3> HIDE DEF row
      <3> TAKE n \in DOMAIN verifications'
      <3>1. n \in DOMAIN verifications \/ n = Len(verifications) + 1
        BY <2>2
      <3> QED
        BY <3>1, <2>2, <2>4 DEF UploadsInv
    <2> QED
      BY <2>2, <2>3, <2>5, CommitCounts DEF UploadsInv, UploadMeans
  <1>4. CASE ~s.files
    <2>1. verifications' = verifications
      BY <1>4 DEF Uploads!CommitUpload
    <2> QED
      BY <2>1, CommitCounts DEF UploadsInv, UploadMeans
  <1> QED
    BY <1>3, <1>4

\* An administrator rejects a slip.
LEMMA RejectVerificationKept ==
    ASSUME UploadsInv, NEW n \in DOMAIN verifications, Uploads!RejectVerification(n)
    PROVE  UploadsInv'
  <1> DEFINE row == [verifications[n] EXCEPT !.status = "rejected"]
  <1>1. verifications' = Changed(verifications, n, row)
    BY DEF Uploads!RejectVerification, Changed
  <1>2. /\ IsTable(verifications') /\ Len(verifications') = Len(verifications)
        /\ DOMAIN verifications' = DOMAIN verifications
        /\ \A m \in DOMAIN verifications :
                verifications'[m] = IF m = n THEN row ELSE verifications[m]
    <2> HIDE DEF row
    <2>1. IsTable(verifications)
      BY DEF UploadsInv
    <2> QED
      BY <1>1, <2>1, ChangeRow
  <1>3. row \in Uploads!Verification /\ row.status \in Unapprovable
    BY DEF UploadsInv, Uploads!Verification, Unapprovable, Uploads!FiledStatuses
  <1> HIDE DEF row
  <1> QED
    BY <1>2, <1>3 DEF UploadsInv, UploadMeans, Uploads!RejectVerification

\* An order ends while its slips are looked at.
LEMMA CloseOrderKept ==
    ASSUME UploadsInv, NEW o \in Orders, NEW status \in {"completed", "cancelled"},
           Uploads!CloseOrder(o, status)
    PROVE  UploadsInv'
  BY DEF UploadsInv, UploadMeans, Uploads!CloseOrder

\* Every step of verify_slip keeps the invariant.
LEMMA ServeUploadKept ==
    ASSUME UploadsInv, NEW w \in Workers, Uploads!ServeUpload(w)
    PROVE  UploadsInv'
  BY UploadKept, OcrFailsKept, CheckReferenceKept, CheckFailsKept, AssessKept, CommitUploadKept
     DEF Uploads!ServeUpload

\* Every step of the uploads keeps their invariant.
LEMMA UploadsKept == UploadsInv /\ [MCNext]_<<vars, uploadVars, workload>> => UploadsInv'
  <1> SUFFICES ASSUME UploadsInv, [MCNext]_<<vars, uploadVars, workload>> PROVE UploadsInv'
    OBVIOUS
  <1>1. CASE UploadStep
    BY <1>1, ServeUploadKept, RejectVerificationKept, CloseOrderKept DEF UploadStep, Uploads!Next
  <1>2. CASE UNCHANGED uploadVars
    BY <1>2 DEF UploadsInv, uploadVars, UploadMeans
  <1> QED
    BY <1>1, <1>2 DEF MCNext, SettlementStep

\* It holds before the first upload.
LEMMA UploadsOpen == MCInit => UploadsInv
  <1> SUFFICES ASSUME MCInit PROVE UploadsInv
    OBVIOUS
  <1>1. /\ order_status = [o \in Orders |-> "open"] /\ verifications = <<>>
        /\ attempts = [o \in Orders |-> 0] /\ upload_payments = [o \in Orders |-> 0]
        /\ upload_session = [w \in Workers |-> Uploads!IdleSession]
    BY DEF MCInit, Uploads!Init
  <1>2. Len(verifications) = 0 /\ IsTable(verifications) /\ DOMAIN verifications = {}
    BY <1>1, EmptyTable
  <1>3. MaxRows \in Nat
    BY UploadsAssumption DEF Uploads!ConstantsAllowed
  <1> QED
    BY <1>1, <1>2, <1>3, IdleUpload DEF UploadsInv

\* The invariant of the uploads holds in every workload.
LEMMA UploadsAlways == MCSpec => []UploadsInv
  BY UploadsOpen, UploadsKept, PTL DEF MCSpec

\* Type correctness of orders, payments and slips and of the uploads that file slips.
THEOREM RequestsAreTyped == MCSpec => []RequestTypes
  <1>1. IInv /\ UploadsInv => RequestTypes
    BY DEF IInv, UploadsInv, UploadSessions, RequestTypes, Uploads!TypeOK
  <1> QED
    BY <1>1, WorkloadInv, UploadsAlways, PTL

\* How far the refutation of GoodSlipsAreVerified goes: whatever is uploaded, no slip is
\* filed as verified or for review, because its own row is the duplicate of a reference
\* that was read, and a slip without one scores 80.
LEMMA SlipsAreNeverApprovable == MCSpec => []Uploads!NoSlipIsApprovable
  <1>1. UploadsInv => Uploads!NoSlipIsApprovable
    <2> SUFFICES ASSUME UploadsInv PROVE Uploads!NoSlipIsApprovable
      OBVIOUS
    <2>1. \A n \in DOMAIN verifications :
              verifications[n].status \notin {"pending", "review", "verified"}
      BY DEF UploadsInv, Unapprovable, Uploads!FiledStatuses
    <2>2. \A o \in Orders : upload_payments[o] = 0
      BY DEF UploadsInv
    <2> QED
      BY <2>1, <2>2 DEF Uploads!NoSlipIsApprovable
  <1> QED
    BY <1>1, UploadsAlways, PTL

-----------------------------------------------------------------------------
\* How many live slips an image and a reference can have.

\* An upload that will insert, or has inserted, a row it has not committed.
Filing(s) == s.stage \in {"recognize", "assess"} \/ (s.stage = "commit" /\ s.files)

\* It has looked its reference up as well.
LookedUp(s) == Filing(s) /\ s.stage # "recognize"

InFlight == {w \in Workers : upload_session[w].stage # "idle"}

\* Uploads whose rows the lookups of others do not see yet.
FilingOf(o, i) ==
    {w \in Workers : /\ Filing(upload_session[w])
                     /\ upload_session[w].order = o /\ upload_session[w].image = i}

Showing(reference) ==
    {w \in Workers : /\ LookedUp(upload_session[w])
                     /\ Text[upload_session[w].image].reference = reference}

\* Rows and uploads to come are together at most as many as may overlap: an upload
\* goes on only when it finds no row.
Within(rows, uploads) == Cardinality(rows) + Cardinality(uploads) <= workload.width

SlipsInv ==
    /\ workload.width \in Nat
    /\ Cardinality(InFlight) <= workload.width
    /\ \A o \in Orders, i \in Images : Within(Uploads!Seen(o, i), FilingOf(o, i))
    /\ \A i \in Images : Text[i].reference # None =>
            Within(Uploads!Carrying(Text[i].reference), Showing(Text[i].reference))

\* What a step may do to rows and uploads: neither grows; or there are no rows; or an
\* upload becomes a row.
Moves(rows, uploads, rows2, uploads2, busy) ==
    \/ rows2 \subseteq rows /\ uploads2 \subseteq uploads
    \/ rows2 = {} /\ uploads2 \subseteq busy
    \/ \E n, w : /\ w \in uploads
                 /\ rows2 \subseteq rows \union {n} /\ uploads2 \subseteq uploads \ {w}

\* Such a step keeps them within the number of uploads that may overlap.
LEMMA MovesWithin ==
    ASSUME NEW rows, NEW uploads, NEW rows2, NEW uploads2, NEW busy, NEW k \in Nat,
           IsFiniteSet(rows), IsFiniteSet(uploads), IsFiniteSet(busy),
           Cardinality(rows) + Cardinality(uploads) <= k, Cardinality(busy) <= k,
           Moves(rows, uploads, rows2, uploads2, busy)
    PROVE  Cardinality(rows2) + Cardinality(uploads2) <= k
  <1>1. Cardinality(rows) \in Nat /\ Cardinality(uploads) \in Nat /\ Cardinality(busy) \in Nat
    BY FS_CardinalityType
  <1>2. CASE rows2 \subseteq rows /\ uploads2 \subseteq uploads
    <2>1. /\ IsFiniteSet(rows2) /\ Cardinality(rows2) <= Cardinality(rows)
          /\ IsFiniteSet(uploads2) /\ Cardinality(uploads2) <= Cardinality(uploads)
      BY <1>2, FS_Subset
    <2>2. Cardinality(rows2) \in Nat /\ Cardinality(uploads2) \in Nat
      BY <2>1, FS_CardinalityType
    <2> QED
      BY <1>1, <2>1, <2>2
  <1>3. CASE rows2 = {} /\ uploads2 \subseteq busy
    <2>1. IsFiniteSet(uploads2) /\ Cardinality(uploads2) <= Cardinality(busy)
      BY <1>3, FS_Subset
    <2>2. Cardinality(rows2) = 0 /\ Cardinality(uploads2) \in Nat
      BY <1>3, <2>1, FS_CardinalityType, FS_EmptySet
    <2> QED
      BY <1>1, <2>1, <2>2
  <1>4. ASSUME NEW n, NEW w, w \in uploads,
               rows2 \subseteq rows \union {n}, uploads2 \subseteq uploads \ {w}
        PROVE  Cardinality(rows2) + Cardinality(uploads2) <= k
    <2>1. /\ IsFiniteSet(rows \union {n}) /\ Cardinality(rows \union {n}) <= Cardinality(rows) + 1
          /\ IsFiniteSet(uploads \ {w}) /\ Cardinality(uploads \ {w}) = Cardinality(uploads) - 1
      <3>1. /\ IsFiniteSet(rows \union {n}) /\ IsFiniteSet(uploads \ {w})
            /\ Cardinality(rows \union {n})
               = IF n \in rows THEN Cardinality(rows) ELSE Cardinality(rows) + 1
            /\ Cardinality(uploads \ {w})
               = IF w \in uploads THEN Cardinality(uploads) - 1 ELSE Cardinality(uploads)
        BY FS_AddElement, FS_RemoveElement
      <3>2. Cardinality(rows \union {n}) <= Cardinality(rows) + 1
        BY <1>1, <3>1
      <3> QED
        BY <1>4, <3>1, <3>2
    <2>2. /\ IsFiniteSet(rows2) /\ Cardinality(rows2) <= Cardinality(rows \union {n})
          /\ IsFiniteSet(uploads2) /\ Cardinality(uploads2) <= Cardinality(uploads \ {w})
      BY <1>4, <2>1, FS_Subset
    <2>3. /\ Cardinality(rows2) \in Nat /\ Cardinality(uploads2) \in Nat
          /\ Cardinality(rows \union {n}) \in Nat /\ Cardinality(uploads \ {w}) \in Nat
      BY <2>1, <2>2, FS_CardinalityType
    <2> QED
      BY <1>1, <2>1, <2>2, <2>3
  <1> QED
    BY <1>2, <1>3, <1>4 DEF Moves

\* The rows a lookup finds, and the uploads, are finitely many.
LEMMA FiniteSlips ==
    ASSUME UploadsInv
    PROVE  /\ \A o, i : IsFiniteSet(Uploads!Seen(o, i)) /\ IsFiniteSet(FilingOf(o, i))
           /\ \A reference : IsFiniteSet(Uploads!Carrying(reference))
                             /\ IsFiniteSet(Showing(reference))
           /\ IsFiniteSet(InFlight)
  <1>1. \A o, i : Uploads!Seen(o, i) \subseteq 1 .. Len(verifications)
    BY TableIs DEF UploadsInv, Uploads!Seen, Uploads!Live
  <1>2. \A reference : Uploads!Carrying(reference) \subseteq 1 .. Len(verifications)
    BY TableIs DEF UploadsInv, Uploads!Carrying, Uploads!Live
  <1>3. IsFiniteSet(1 .. Len(verifications))
    <2>1. Len(verifications) \in Nat
      BY TableIs DEF UploadsInv
    <2> QED
      BY <2>1, FS_Interval
  <1>4. /\ \A o, i : FilingOf(o, i) \subseteq Workers
        /\ \A reference : Showing(reference) \subseteq Workers
        /\ InFlight \subseteq Workers
    BY DEF FilingOf, Showing, InFlight
  <1>5. IsFiniteSet(Workers)
    BY RequestsAreBounded
  <1>6. \A S \in SUBSET (1 .. Len(verifications)) : IsFiniteSet(S)
    BY <1>3, FS_Subset
  <1>7. \A S \in SUBSET Workers : IsFiniteSet(S)
    BY <1>5, FS_Subset
  <1>8. \A o, i : IsFiniteSet(Uploads!Seen(o, i)) /\ IsFiniteSet(FilingOf(o, i))
    BY <1>1, <1>4, <1>6, <1>7
  <1>9. \A reference : IsFiniteSet(Uploads!Carrying(reference)) /\ IsFiniteSet(Showing(reference))
    BY <1>2, <1>4, <1>6, <1>7
  <1> QED
    BY <1>4, <1>7, <1>8, <1>9

\* A step that moves the rows and uploads of every image and reference so, and starts
\* no more uploads than may overlap.
StepMoves ==
    /\ \A o \in Orders, i \in Images :
         Moves(Uploads!Seen(o, i), FilingOf(o, i), Uploads!Seen(o, i)', FilingOf(o, i)', InFlight')
    /\ \A i \in Images : Text[i].reference # None =>
         Moves(Uploads!Carrying(Text[i].reference), Showing(Text[i].reference),
               Uploads!Carrying(Text[i].reference)', Showing(Text[i].reference)', InFlight')

\* Such a step keeps the live slips within the uploads that may overlap.
LEMMA StepWithin ==
    ASSUME UploadsInv, SlipsInv, workload' = workload,
           Cardinality(InFlight') <= workload.width, StepMoves
    PROVE  SlipsInv'
  <1> DEFINE k == workload.width
  <1>1. k \in Nat /\ IsFiniteSet(InFlight')
    <2>1. InFlight' \subseteq Workers
      BY DEF InFlight
    <2> QED
      BY <2>1, RequestsAreBounded, FS_Subset DEF SlipsInv
  <1>2. ASSUME NEW o \in Orders, NEW i \in Images
        PROVE  Cardinality(Uploads!Seen(o, i)') + Cardinality(FilingOf(o, i)') <= k
    <2>1. /\ IsFiniteSet(Uploads!Seen(o, i)) /\ IsFiniteSet(FilingOf(o, i))
          /\ Cardinality(Uploads!Seen(o, i)) + Cardinality(FilingOf(o, i)) <= k
          /\ Moves(Uploads!Seen(o, i), FilingOf(o, i), Uploads!Seen(o, i)', FilingOf(o, i)',
                   InFlight')
      BY FiniteSlips DEF SlipsInv, Within, StepMoves
    <2> QED
      BY <1>1, <2>1, MovesWithin
  <1>3. ASSUME NEW i \in Images, Text[i].reference # None
        PROVE  Cardinality(Uploads!Carrying(Text[i].reference)')
               + Cardinality(Showing(Text[i].reference)') <= k
    <2>1. /\ IsFiniteSet(Uploads!Carrying(Text[i].reference))
          /\ IsFiniteSet(Showing(Text[i].reference))
          /\ Cardinality(Uploads!Carrying(Text[i].reference))
             + Cardinality(Showing(Text[i].reference)) <= k
          /\ Moves(Uploads!Carrying(Text[i].reference), Showing(Text[i].reference),
                   Uploads!Carrying(Text[i].reference)', Showing(Text[i].reference)', InFlight')
      BY <1>3, FiniteSlips DEF SlipsInv, Within, StepMoves
    <2> QED
      BY <1>1, <2>1, MovesWithin
  <1> QED
    BY <1>1, <1>2, <1>3 DEF SlipsInv, Within

\* Nothing is live that was not, and the rows are the same.
FewerLive ==
    /\ Uploads!Live' \subseteq Uploads!Live
    /\ \A n \in Uploads!Live' : /\ verifications'[n].order = verifications[n].order
                                /\ verifications'[n].image = verifications[n].image

\* Lookups find no more than they did.
LEMMA FewerFound ==
    ASSUME FewerLive
    PROVE  /\ \A o, i : Uploads!Seen(o, i)' \subseteq Uploads!Seen(o, i)
           /\ \A reference : Uploads!Carrying(reference)' \subseteq Uploads!Carrying(reference)
  BY DEF FewerLive, Uploads!Seen, Uploads!Carrying

\* As long as no row is written, nothing is live that was not.
LEMMA SameLive == ASSUME verifications' = verifications PROVE FewerLive
  BY DEF FewerLive, Uploads!Live

\* A step that leaves the uploads alone and makes no row live.
LEMMA FewerMoves ==
    ASSUME FewerLive, upload_session' = upload_session
    PROVE  StepMoves
  <1>1. /\ \A o, i : FilingOf(o, i)' = FilingOf(o, i)
        /\ \A reference : Showing(reference)' = Showing(reference)
    BY DEF FilingOf, Showing
  <1> QED
    BY <1>1, FewerFound DEF StepMoves, Moves

\* What an upload that goes on with s must know: it was filing the same image already,
\* or no row is seen; and the same for its reference.
GoesOn(old, s) ==
    /\ Filing(s) => \/ Uploads!Seen(s.order, s.image) = {}
                    \/ Filing(old) /\ old.order = s.order /\ old.image = s.image
    /\ LookedUp(s) /\ Text[s.image].reference # None
            => \/ Uploads!Carrying(Text[s.image].reference) = {}
               \/ LookedUp(old) /\ old.image = s.image

\* A handler that goes on without writing has looked, or files nothing.
LEMMA ContinueMoves ==
    ASSUME UploadsInv, NEW w \in Workers, NEW s, Uploads!Continue(w, s),
           GoesOn(upload_session[w], s)
    PROVE  StepMoves
  <1> DEFINE old == upload_session[w]
  <1>1. verifications' = verifications /\ upload_session' = [upload_session EXCEPT ![w] = s]
    BY DEF Uploads!Continue
  <1>2. /\ upload_session'[w] = s
        /\ \A q \in Workers \ {w} : upload_session'[q] = upload_session[q]
    BY <1>1 DEF UploadsInv
  <1>3. FewerLive
    BY <1>1, SameLive
  <1>4. Filing(s) => w \in InFlight'
    BY <1>2 DEF Filing, InFlight
  <1>5. \A q \in Workers : Filing(upload_session'[q]) => q \in InFlight'
    BY DEF Filing, InFlight
  <1> HIDE DEF old
  <1>6. ASSUME NEW o \in Orders, NEW i \in Images
        PROVE  Moves(Uploads!Seen(o, i), FilingOf(o, i), Uploads!Seen(o, i)', FilingOf(o, i)',
                     InFlight')
    <2>1. Uploads!Seen(o, i)' \subseteq Uploads!Seen(o, i)
      BY <1>3, FewerFound
    <2>2. FilingOf(o, i)' \subseteq InFlight'
      BY <1>5 DEF FilingOf, Filing
    <2>3. CASE w \in FilingOf(o, i)' /\ w \notin FilingOf(o, i)
      <3>1. Filing(s) /\ s.order = o /\ s.image = i
        BY <1>2, <2>3 DEF FilingOf, Filing
      <3>2. Uploads!Seen(o, i) = {}
        BY <2>3, <3>1 DEF GoesOn, FilingOf
      <3> QED
        BY <2>1, <2>2, <3>2 DEF Moves
    <2>4. CASE w \in FilingOf(o, i)' => w \in FilingOf(o, i)
      <3>1. FilingOf(o, i)' \subseteq FilingOf(o, i)
        BY <1>2, <2>4 DEF FilingOf, Filing
      <3> QED
        BY <2>1, <3>1 DEF Moves
    <2> QED
      BY <2>3, <2>4
  <1>7. ASSUME NEW i \in Images, Text[i].reference # None
        PROVE  Moves(Uploads!Carrying(Text[i].reference), Showing(Text[i].reference),
                     Uploads!Carrying(Text[i].reference)', Showing(Text[i].reference)', InFlight')
    <2> DEFINE reference == Text[i].reference
    <2>1. Uploads!Carrying(reference)' \subseteq Uploads!Carrying(reference)
      BY <1>3, FewerFound
    <2>2. Showing(reference)' \subseteq InFlight'
      BY <1>5 DEF Showing, LookedUp, Filing
    <2>3. CASE w \in Showing(reference)' /\ w \notin Showing(reference)
      <3>1. LookedUp(s) /\ Text[s.image].reference = reference
        BY <1>2, <2>3 DEF Showing, LookedUp, Filing
      <3>2. Uploads!Carrying(reference) = {}
        BY <1>7, <2>3, <3>1 DEF GoesOn, Showing
      <3> QED
        BY <2>1, <2>2, <3>2 DEF Moves
    <2>4. CASE w \in Showing(reference)' => w \in Showing(reference)
      <3>1. Showing(reference)' \subseteq Showing(reference)
        BY <1>2, <2>4 DEF Showing, LookedUp, Filing
      <3> QED
        BY <2>1, <3>1 DEF Moves
    <2> QED
      BY <2>3, <2>4
  <1> QED
    BY <1>6, <1>7 DEF StepMoves

\* An upload goes on to recognition only when its image has no live row.
LEMMA UploadMoves ==
    ASSUME UploadsInv, NEW w \in Workers, NEW o \in Orders, NEW i \in Images,
           Uploads!Upload(w, o, i)
    PROVE  StepMoves
  <1> DEFINE s == [Uploads!IdleSession EXCEPT !.stage = "recognize", !.order = o, !.image = i]
             end(status) == [s EXCEPT !.stage = "commit", !.status = status]
  <1>1. \/ Uploads!Continue(w, s) /\ Uploads!Seen(o, i) = {}
        \/ \E status \in {"order_already_paid", "ocr_failed", "duplicate_image"} :
                Uploads!Continue(w, end(status))
    BY DEF Uploads!Upload
  <1>2. \A status : GoesOn(upload_session[w], end(status))
    BY DEF GoesOn, LookedUp, Filing, Uploads!IdleSession
  <1>3. Uploads!Seen(o, i) = {} => GoesOn(upload_session[w], s)
    BY DEF GoesOn, LookedUp, Filing, Uploads!IdleSession
  <1> HIDE DEF s, end
  <1> QED
    BY <1>1, <1>2, <1>3, ContinueMoves

\* An image that is not recognized carries no reference.
LEMMA OcrFailsMoves ==
    ASSUME UploadsInv, NEW w \in Workers, Uploads!OcrFails(w)
    PROVE  StepMoves
  <1> DEFINE old == upload_session[w]
             s == [old EXCEPT !.stage = "commit", !.status = "ocr_failed", !.files = TRUE]
  <1>1. old \in UploadSessions /\ UploadMeans(old) /\ old.stage = "recognize"
    BY DEF UploadsInv, Uploads!OcrFails
  <1>2. Text[old.image].reference = None
    BY <1>1, UploadsAssumption
       DEF UploadMeans, Uploads!OcrFails, Uploads!ConstantsAllowed, Uploads!Texts
  <1>3. s.order = old.order /\ s.image = old.image
    BY <1>1 DEF UploadSessions
  <1>4. GoesOn(old, s)
    BY <1>1, <1>2, <1>3 DEF GoesOn, LookedUp, Filing
  <1>5. Uploads!Continue(w, s)
    BY DEF Uploads!OcrFails
  <1> HIDE DEF s
  <1> QED
    BY <1>4, <1>5, ContinueMoves

\* An upload goes on to its score only when no live row carries its reference.
LEMMA CheckReferenceMoves ==
    ASSUME UploadsInv, NEW w \in Workers, Uploads!CheckReference(w)
    PROVE  StepMoves
  <1> DEFINE old == upload_session[w]
             reference == Text[old.image].reference
             s == [old EXCEPT !.stage = "assess",
                              !.duplicate = reference # None /\ Uploads!Found(reference) = 1]
  <1>1. old \in UploadSessions /\ old.stage = "recognize"
    BY DEF UploadsInv, Uploads!CheckReference
  <1>2. reference # None => Uploads!Carrying(reference) = {}
    BY CarryingCounts DEF Uploads!CheckReference
  <1>3. s.order = old.order /\ s.image = old.image
    BY <1>1 DEF UploadSessions
  <1>4. GoesOn(old, s)
    BY <1>1, <1>2, <1>3 DEF GoesOn, LookedUp, Filing
  <1>5. Uploads!Continue(w, s)
    BY DEF Uploads!CheckReference
  <1> HIDE DEF s
  <1> QED
    BY <1>4, <1>5, ContinueMoves

\* An upload that raises files nothing.
LEMMA CheckFailsMoves ==
    ASSUME UploadsInv, NEW w \in Workers, Uploads!CheckFails(w)
    PROVE  StepMoves
  <1>1. GoesOn(upload_session[w], Uploads!IdleSession)
    BY DEF GoesOn, LookedUp, Filing, Uploads!IdleSession
  <1> QED
    BY <1>1, ContinueMoves DEF Uploads!CheckFails, Uploads!Fail

\* The score does not change what the upload has found.
LEMMA AssessMoves ==
    ASSUME UploadsInv, NEW w \in Workers, Uploads!Assess(w)
    PROVE  StepMoves
  <1> DEFINE old == upload_session[w]
             status == Uploads!FinalStatus(old.order, old.image, old.duplicate, attempts[old.order])
             s == [old EXCEPT !.stage = "commit", !.files = TRUE, !.status = status]
  <1>1. old \in UploadSessions /\ old.stage = "assess"
    BY DEF UploadsInv, Uploads!Assess
  <1>2. Uploads!Continue(w, s)
    BY DEF Uploads!Assess
  <1> HIDE DEF status
  <1>3. s.order = old.order /\ s.image = old.image
    BY <1>1 DEF UploadSessions
  <1>4. GoesOn(old, s)
    BY <1>1, <1>3 DEF GoesOn, LookedUp, Filing
  <1> HIDE DEF s
  <1> QED
    BY <1>2, <1>4, ContinueMoves

\* A commit makes a row of its upload.
LEMMA CommitUploadMoves ==
    ASSUME UploadsInv, NEW w \in Workers, Uploads!CommitUpload(w)
    PROVE  StepMoves
  <1> DEFINE s == upload_session[w]
             row == [order |-> s.order, image |-> s.image, status |-> s.status]
             new == Len(verifications) + 1
  <1>1. upload_session' = [upload_session EXCEPT ![w] = Uploads!IdleSession]
        /\ s.stage = "commit"
    BY DEF Uploads!CommitUpload
  <1>2. /\ ~Filing(upload_session'[w])
        /\ \A q \in Workers \ {w} : upload_session'[q] = upload_session[q]
    BY <1>1 DEF UploadsInv, Filing, Uploads!IdleSession
  <1>3. /\ \A o, i : FilingOf(o, i)' \subseteq FilingOf(o, i) \ {w}
        /\ \A reference : Showing(reference)' \subseteq Showing(reference) \ {w}
    BY <1>2 DEF FilingOf, Showing, LookedUp, Filing
  <1>4. CASE ~s.files
    <2>1. verifications' = verifications
      BY <1>4 DEF Uploads!CommitUpload
    <2> QED
      BY <1>3, <2>1, SameLive, FewerFound DEF StepMoves, Moves
  <1>5. CASE s.files
    <2>1. verifications' = WithRow(verifications, row)
      BY <1>5 DEF Uploads!CommitUpload, WithRow
    <2>2. /\ DOMAIN verifications' = DOMAIN verifications \union {new}
          /\ \A n \in DOMAIN verifications : verifications'[n] = verifications[n]
          /\ verifications'[new] = row
      <3>1. /\ Len(verifications) \in Nat /\ DOMAIN verifications = 1 .. Len(verifications)
            /\ DOMAIN verifications' = 1 .. Len(verifications) + 1
            /\ \A n \in DOMAIN verifications : verifications'[n] = verifications[n]
            /\ verifications'[new] = row
        BY <2>1, AppendRow DEF UploadsInv
      <3> QED
        BY <3>1
    <2>3. row.order = s.order /\ row.image = s.image
      OBVIOUS
    <2>4. Filing(s) /\ LookedUp(s)
      BY <1>1, <1>5 DEF Filing, LookedUp
    <2> HIDE DEF row, new
    <2>5. ASSUME NEW o, NEW i
          PROVE  /\ Uploads!Seen(o, i)' \subseteq Uploads!Seen(o, i) \union {new}
                 /\ w \in FilingOf(o, i) \/ Uploads!Seen(o, i)' \subseteq Uploads!Seen(o, i)
      BY <2>2, <2>3, <2>4 DEF Uploads!Seen, Uploads!Live, FilingOf
    <2>6. ASSUME NEW reference
          PROVE  /\ Uploads!Carrying(reference)' \subseteq Uploads!Carrying(reference) \union {new}
                 /\ \/ w \in Showing(reference)
                    \/ Uploads!Carrying(reference)' \subseteq Uploads!Carrying(reference)
      BY <2>2, <2>3, <2>4 DEF Uploads!Carrying, Uploads!Live, Showing
    <2> QED
      BY <1>3, <2>5, <2>6 DEF StepMoves, Moves
  <1> QED
    BY <1>4, <1>5

\* A rejected slip is live no more.
LEMMA RejectVerificationMoves ==
    ASSUME UploadsInv, NEW n \in DOMAIN verifications, Uploads!RejectVerification(n)
    PROVE  StepMoves
  <1> DEFINE row == [verifications[n] EXCEPT !.status = "rejected"]
  <1>1. verifications' = Changed(verifications, n, row) /\ upload_session' = upload_session
    BY DEF Uploads!RejectVerification, Changed
  <1>2. /\ DOMAIN verifications' = DOMAIN verifications
        /\ \A m \in DOMAIN verifications :
                verifications'[m] = IF m = n THEN row ELSE verifications[m]
    <2> HIDE DEF row
    <2>1. IsTable(verifications)
      BY DEF UploadsInv
    <2> QED
      BY <1>1, <2>1, ChangeRow
  <1>3. row.order = verifications[n].order /\ row.image = verifications[n].image
        /\ row.status = "rejected"
    BY DEF UploadsInv, Uploads!Verification
  <1> HIDE DEF row
  <1>4. FewerLive
    BY <1>2, <1>3 DEF FewerLive, Uploads!Live
  <1> QED
    BY <1>1, <1>4, FewerMoves

\* The end of an order changes no slip.
LEMMA CloseOrderMoves ==
    ASSUME NEW o \in Orders, NEW status, Uploads!CloseOrder(o, status)
    PROVE  StepMoves
  BY SameLive, FewerMoves DEF Uploads!CloseOrder

\* Every step of the uploads keeps the live slips within the uploads that overlap.
LEMMA SlipsKept ==
    UploadsInv /\ SlipsInv /\ [MCNext]_<<vars, uploadVars, workload>> => SlipsInv'
  <1> SUFFICES ASSUME UploadsInv, SlipsInv, [MCNext]_<<vars, uploadVars, workload>>
               PROVE  SlipsInv'
    OBVIOUS
  <1>1. workload' = workload
    BY DEF MCNext, SettlementStep, UploadStep
  <1>2. ASSUME NEW w \in Workers, Uploads!ServeUpload(w)
        PROVE  StepMoves
    BY <1>2, UploadMoves, OcrFailsMoves, CheckReferenceMoves, CheckFailsMoves, AssessMoves,
       CommitUploadMoves DEF Uploads!ServeUpload
  <1>3. CASE UploadStep
    <2>1. StepMoves
      BY <1>2, <1>3, RejectVerificationMoves, CloseOrderMoves DEF UploadStep, Uploads!Next
    <2>2. Cardinality(InFlight') <= workload.width
      BY <1>3 DEF UploadStep, InFlight
    <2> QED
      BY <1>1, <2>1, <2>2, StepWithin
  <1>4. CASE UNCHANGED uploadVars
    <2>1. StepMoves
      BY <1>4, SameLive, FewerMoves DEF uploadVars
    <2>2. InFlight' = InFlight
      BY <1>4 DEF uploadVars, InFlight
    <2>3. Cardinality(InFlight') <= workload.width
      BY <2>2 DEF SlipsInv
    <2> QED
      BY <1>1, <2>1, <2>3, StepWithin
  <1> QED
    BY <1>3, <1>4 DEF MCNext, SettlementStep

\* At the start no slip is live and no upload in flight.
LEMMA SlipsOpen == MCInit => SlipsInv
  <1> SUFFICES ASSUME MCInit PROVE SlipsInv
    OBVIOUS
  <1>1. verifications = <<>> /\ upload_session = [w \in Workers |-> Uploads!IdleSession]
    BY DEF MCInit, Uploads!Init
  <1>2. DOMAIN verifications = {}
    BY <1>1, EmptyTable
  <1>3. /\ \A o, i : Uploads!Seen(o, i) = {} /\ FilingOf(o, i) = {}
        /\ \A reference : Uploads!Carrying(reference) = {} /\ Showing(reference) = {}
        /\ InFlight = {}
    BY <1>1, <1>2 DEF Uploads!Seen, Uploads!Carrying, Uploads!Live, FilingOf, Showing, LookedUp,
       Filing, InFlight, Uploads!IdleSession
  <1>4. workload.width \in Nat
    BY WorkloadsAssumption DEF MCInit
  <1>5. Within({}, {}) /\ Cardinality({}) <= workload.width
    <2>1. Cardinality({}) = 0
      BY FS_EmptySet
    <2> QED
      BY <1>4, <2>1 DEF Within
  <1> QED
    BY <1>3, <1>4, <1>5 DEF SlipsInv

\* With one upload at a time an image sent for an order, and a reference, has at most one
\* slip that is not rejected; with several, at most as many as overlap.
THEOREM FewSlipsLive == MCSpec => []LiveSlipsWithinWorkers
  <1>1. UploadsInv /\ SlipsInv => LiveSlipsWithinWorkers
    <2> SUFFICES ASSUME UploadsInv, SlipsInv PROVE LiveSlipsWithinWorkers
      OBVIOUS
    <2>1. ASSUME NEW rows, NEW uploads, IsFiniteSet(rows), IsFiniteSet(uploads),
                 Within(rows, uploads)
          PROVE  Uploads!Cardinality(rows) <= workload.width
      <3>1. Cardinality(rows) \in Nat /\ Cardinality(uploads) \in Nat /\ workload.width \in Nat
        BY <2>1, FS_CardinalityType DEF SlipsInv
      <3>2. Cardinality(rows) <= workload.width
        BY <2>1, <3>1 DEF Within
      <3> QED
        BY <3>2, SameCardinality
    <2>2. Uploads!LivePerImage(workload.width)
      <3>1. ASSUME NEW o \in Orders, NEW i \in Images
            PROVE  Uploads!Cardinality(Uploads!Seen(o, i)) <= workload.width
        BY <2>1, FiniteSlips DEF SlipsInv
      <3> QED
        BY <3>1 DEF Uploads!LivePerImage, Uploads!Seen
    <2>3. Uploads!LivePerReference(workload.width)
      BY <2>1, FiniteSlips DEF SlipsInv, Uploads!LivePerReference
    <2> QED
      BY <2>2, <2>3 DEF LiveSlipsWithinWorkers
  <1>2. (UploadsInv /\ SlipsInv) /\ [MCNext]_<<vars, uploadVars, workload>>
        => (UploadsInv /\ SlipsInv)'
    BY UploadsKept, SlipsKept
  <1> QED
    BY <1>1, <1>2, UploadsOpen, SlipsOpen, PTL DEF MCSpec
=============================================================================
