----------------------------- MODULE Settlement -----------------------------
(***************************************************************************)
(* Money and loyalty points of the orders of one organization.             *)
(*                                                                         *)
(* Every endpoint runs in a thread of its own with a database session of   *)
(* its own (app/db/session.py) at PostgreSQL's default isolation, READ     *)
(* COMMITTED.  A request SELECTs the order row, perhaps the customer row,  *)
(* computes in Python, and its flush writes back the columns it changed    *)
(* with the absolute values it computed.  The model has one step per       *)
(* SELECT and one step for flush and commit; which handler is running only *)
(* shows at the commit, so a session that has loaded its order may go on   *)
(* as any of the handlers that begin with that SELECT.  Errors, early      *)
(* returns and lost connections all leave the database alone: they are the *)
(* action Rollback.                                                        *)
(*                                                                         *)
(* The rows of payments, refunds and loyalty_transactions are never        *)
(* updated or deleted, so a table is represented by its sums.              *)
(* Amounts are in satang, so that int() of an amount in Baht shows.        *)
(***************************************************************************)
EXTENDS Integers

CONSTANTS
    Orders,         \* ids of the orders
    Customers,      \* ids of the customers
    Verifications,  \* ids of the payment_verifications rows (uploaded slips)
    Requests,       \* requests that may be in flight; a singleton is a serial run
    None,           \* SQL NULL and "not set"
    CustomerOf,     \* orders.customer_id
    GrandTotal,     \* orders.grand_total, fixed when the order is created
    SlipOrder,      \* payment_verifications.order_id
    SlipAmount,     \* payment_verifications.ocr_amount, 0 when the slip has none
    SlipStart,      \* statuses the slips may start with; filing them is not modelled here
    PayAmounts,     \* amounts clients send: a payment, the sum of a checkout's payments, a refund
    PointAmounts,   \* numbers of points clients ask to earn or redeem
    OpeningBalance, \* points a customer starts with
    MaxServed       \* bound of the model: requests served in a behaviour

SlipStatuses == {"pending", "verified", "review", "rejected", "ocr_failed", "receiver_mismatch",
                 "amount_mismatch", "duplicate_reference", "duplicate_image",
                 "order_not_found", "order_already_paid"}

ASSUME SettlementAssumption ==
    /\ None \notin Orders /\ None \notin Customers /\ None \notin Verifications
    /\ CustomerOf \in [Orders -> Customers \cup {None}]
    /\ GrandTotal \in [Orders -> Nat]
    /\ SlipOrder \in [Verifications -> Orders]
    /\ SlipAmount \in [Verifications -> Nat]
    /\ SlipStart \subseteq SlipStatuses \ {"verified"}
    /\ PayAmounts \subseteq Nat \ {0}
    /\ PointAmounts \subseteq Nat \ {0}
    /\ OpeningBalance \in Nat
    /\ MaxServed \in Nat

VARIABLES
    order,         \* the orders rows: status, amounts, points
    paid,          \* per order: SUM(amount) of its payments rows
    refunded,      \* per order: SUM(refund_amount) of its completed refunds rows
    spent,         \* per order: points of its 'redeem' loyalty_transactions
    awarded,       \* per order: points of the 'earn' rows of its settlement
    restocked,     \* per order: how often its quantities went back to stock
    settled,       \* per order: checkouts committed
    balance,       \* customers.loyalty_points_balance
    ledger,        \* per customer: SUM(points) of its loyalty_transactions
    slip,          \* the payment_verifications rows: status, payment_id set or not
    slip_payments, \* per slip: payments rows created for it
    session,       \* per request: what its database session holds
    served         \* requests begun so far (bound of the model)

money == <<paid, refunded, restocked, settled>>
points == <<balance, ledger, spent, awarded>>
slips == <<slip, slip_payments>>
vars == <<order, money, points, slips, session, served>>

Baht == 100

OrderStatuses == {"pending", "confirmed", "preparing", "ready", "completed",
                  "cancelled", "paid", "held", "refunded"}

OrderRow == [status : OrderStatuses,
             amount_paid : Nat, change_amount : Nat,
             points_earned : Nat, points_redeemed : Nat]

SlipRow == [status : SlipStatuses, has_payment : BOOLEAN]

Session == [stage : {"idle", "order", "customer", "balance", "locked", "locked_customer"},
            order : Orders \cup {None},
            slip : Verifications \cup {None},
            customer : Customers \cup {None},
            row : OrderRow \cup {None},
            slip_row : SlipRow \cup {None},
            points : Int]

IdleSession == [stage |-> "idle", order |-> None, slip |-> None,
                customer |-> None, row |-> None, slip_row |-> None, points |-> 0]

NewOrder == [status |-> "pending", amount_paid |-> 0, change_amount |-> 0,
             points_earned |-> 0, points_redeemed |-> 0]

Init ==
    /\ order = [o \in Orders |-> NewOrder]
    /\ paid = [o \in Orders |-> 0]
    /\ refunded = [o \in Orders |-> 0]
    /\ spent = [o \in Orders |-> 0]
    /\ awarded = [o \in Orders |-> 0]
    /\ restocked = [o \in Orders |-> 0]
    /\ settled = [o \in Orders |-> 0]
    /\ balance = [c \in Customers |-> OpeningBalance]
    /\ ledger = [c \in Customers |-> OpeningBalance]
    /\ slip \in [Verifications -> [status : SlipStart, has_payment : {FALSE}]]
    /\ slip_payments = [v \in Verifications |-> 0]
    /\ session = [r \in Requests |-> IdleSession]
    /\ served = 0

-----------------------------------------------------------------------------
\* Sessions, row locks and the unit of work.

\* moderate_verification holds SELECT ... FOR UPDATE on its order until it commits.
Holds(r, o) == /\ session[r].stage \in {"locked", "locked_customer"}
               /\ session[r].order = o

\* Wrong on purpose: SELECT without FOR UPDATE.
MayWriteUnlocked(r, o) == TRUE

\* Neither an UPDATE of order o nor an INSERT of a row that references it passes
\* another session's FOR UPDATE.
MayWrite(r, o) == \A q \in Requests \ {r} : ~Holds(q, o)

Begin(r, s) ==
    /\ session[r].stage = "idle"
    /\ served < MaxServed
    /\ served' = served + 1
    /\ session' = [session EXCEPT ![r] = s]

End(r) == /\ session' = [session EXCEPT ![r] = IdleSession]
          /\ UNCHANGED served

\* A column is part of the UPDATE only when the session gave it a value other
\* than the one it loaded; the others keep what the table holds by then.
Column(current, loaded, new) == IF new # loaded THEN new ELSE current

Flush(current, loaded, new) ==
    [status |-> Column(current.status, loaded.status, new.status),
     amount_paid |-> Column(current.amount_paid, loaded.amount_paid, new.amount_paid),
     change_amount |-> Column(current.change_amount, loaded.change_amount, new.change_amount),
     points_earned |-> Column(current.points_earned, loaded.points_earned, new.points_earned),
     points_redeemed |-> Column(current.points_redeemed, loaded.points_redeemed, new.points_redeemed)]

CommitOrder(r, new) ==
    LET o == session[r].order IN
    /\ MayWrite(r, o)
    /\ order' = [order EXCEPT ![o] = Flush(@, session[r].row, new)]
    /\ End(r)

-----------------------------------------------------------------------------
\* The SELECTs.

LoadOrder(r, o) ==
    /\ Begin(r, [IdleSession EXCEPT !.stage = "order", !.order = o, !.row = order[o]])
    /\ UNCHANGED <<order, money, points, slips>>

LoadOrderForUpdate(r, v) ==
    LET o == SlipOrder[v] IN
    /\ MayWrite(r, o)
    /\ Begin(r, [IdleSession EXCEPT !.stage = "locked", !.order = o, !.row = order[o],
                                     !.slip = v, !.slip_row = slip[v]])
    /\ UNCHANGED <<order, money, points, slips>>

LoadOrdersCustomer(r) ==
    LET c == CustomerOf[session[r].order] IN
    /\ session[r].stage \in {"order", "locked"}
    /\ c # None
    /\ session' = [session EXCEPT
            ![r].stage = IF @ = "order" THEN "customer" ELSE "locked_customer",
            ![r].customer = c,
            ![r].points = balance[c]]
    /\ UNCHANGED <<order, money, points, slips, served>>

LoadCustomer(r, c) ==
    /\ Begin(r, [IdleSession EXCEPT !.stage = "balance", !.customer = c, !.points = balance[c]])
    /\ UNCHANGED <<order, money, points, slips>>

\* The request raises, returns early, loses its connection or is the victim of
\* a database deadlock: its transaction leaves nothing behind.
Rollback(r) ==
    /\ session[r].stage # "idle"
    /\ End(r)
    /\ UNCHANGED <<order, money, points, slips>>

-----------------------------------------------------------------------------
\* The handlers.  s is the order row as the session loaded it.

\* Wrong on purpose: a settled order may be checked out again.
CheckoutableAgain == {"pending", "confirmed", "preparing", "ready", "held", "paid"}

CancellableStatuses == {"pending", "confirmed", "preparing"}
CheckoutableStatuses == {"pending", "confirmed", "preparing", "ready", "held"}

ValidTransitions ==
    [s \in OrderStatuses |->
        CASE s = "pending" -> {"confirmed"}
          [] s = "confirmed" -> {"preparing", "ready"}
          [] s = "preparing" -> {"ready"}
          [] s = "ready" -> {"completed"}
          [] s = "paid" -> {"completed"}
          [] OTHER -> {}]

AddTo(f, x, n) == [f EXCEPT ![x] = @ + n]

\* Points a checkout takes: what was asked for, at most the whole Baht of the total.
Redeemed(o, ask) ==
    LET max_credit == GrandTotal[o] \div Baht IN
    IF ask <= max_credit THEN ask ELSE max_credit

Due(o, redeemed) == GrandTotal[o] - redeemed * Baht

Earned(o, redeemed) ==
    IF CustomerOf[o] # None /\ redeemed < GrandTotal[o] \div Baht
    THEN Due(o, redeemed) \div Baht
    ELSE 0

\* Ledger rows and balance of one settlement; no ledger row, no UPDATE of the balance.
SettlePoints(r, o, redeemed, earned) ==
    LET c == session[r].customer IN
    /\ spent' = AddTo(spent, o, redeemed)
    /\ awarded' = AddTo(awarded, o, earned)
    /\ IF redeemed = 0 /\ earned = 0
       THEN UNCHANGED <<balance, ledger>>
       ELSE /\ balance' = [balance EXCEPT ![c] = session[r].points - redeemed + earned]
            /\ ledger' = AddTo(ledger, c, earned - redeemed)

\* checkout_order.  ask is redeem_points, total the sum of the payments.
CheckoutOrder(r, ask, total) ==
    LET o == session[r].order
        s == session[r].row
        redeemed == Redeemed(o, ask)
        due == Due(o, redeemed)
        earned == Earned(o, redeemed)
    IN
    /\ session[r].stage \in {"order", "customer"}
    /\ session[r].stage = "customer" <=> CustomerOf[o] # None
    /\ s.status \in CheckoutableStatuses
    /\ ask > 0 => /\ CustomerOf[o] # None
                  /\ session[r].points >= ask
                  /\ redeemed > 0
    /\ total >= due
    /\ SettlePoints(r, o, redeemed, earned)
    /\ paid' = AddTo(paid, o, total)
    /\ settled' = AddTo(settled, o, 1)
    /\ CommitOrder(r, [status |-> "paid",
                       amount_paid |-> total,
                       change_amount |-> total - due,
                       points_earned |-> IF earned > 0 THEN earned ELSE s.points_earned,
                       points_redeemed |-> IF ask > 0 THEN redeemed ELSE s.points_redeemed])
    /\ UNCHANGED <<refunded, restocked, slips>>

\* Wrong on purpose: the change is set although the order is not overpaid.
ChangeUnchecked(o, s, sum) == sum - GrandTotal[o]

\* Change of an order whose payments add up to sum.
Change(o, s, sum) ==
    IF sum > GrandTotal[o] THEN sum - GrandTotal[o] ELSE s.change_amount

CreatePayment(r, amount) ==
    LET o == session[r].order
        s == session[r].row
        sum == s.amount_paid + amount
    IN
    /\ session[r].stage = "order"
    /\ s.status # "cancelled"
    /\ paid' = AddTo(paid, o, amount)
    /\ CommitOrder(r, [s EXCEPT !.amount_paid = sum, !.change_amount = Change(o, s, sum)])
    /\ UNCHANGED <<refunded, restocked, settled, points, slips>>

Refundable(s, amount) == amount <= s.amount_paid

ProcessRefund(r, amount) ==
    LET o == session[r].order
        s == session[r].row
    IN
    /\ session[r].stage = "order"
    /\ Refundable(s, amount)
    /\ refunded' = AddTo(refunded, o, amount)
    /\ CommitOrder(r, [s EXCEPT !.amount_paid = @ - amount])
    /\ UNCHANGED <<paid, restocked, settled, points, slips>>

\* The stock itself is the subject of module OrderStock.
CancelOrder(r) ==
    LET o == session[r].order
        s == session[r].row
    IN
    /\ session[r].stage = "order"
    /\ s.status \in CancellableStatuses
    /\ restocked' = AddTo(restocked, o, 1)
    /\ CommitOrder(r, [s EXCEPT !.status = "cancelled"])
    /\ UNCHANGED <<paid, refunded, settled, points, slips>>

\* Wrong on purpose: any order counts as paid.
FullyPaidAlways(o, s) == TRUE

FullyPaid(o, s) == s.amount_paid >= GrandTotal[o]

CompleteOrder(r) ==
    LET s == session[r].row IN
    /\ session[r].stage = "order"
    /\ s.status \in {"pending", "ready", "paid"}
    /\ FullyPaid(session[r].order, s)
    /\ CommitOrder(r, [s EXCEPT !.status = "completed"])
    /\ UNCHANGED <<money, points, slips>>

UpdateStatus(r, target) ==
    LET s == session[r].row IN
    /\ session[r].stage = "order"
    /\ target \in ValidTransitions[s.status]
    /\ target = "completed" => FullyPaid(session[r].order, s)
    /\ CommitOrder(r, [s EXCEPT !.status = target])
    /\ UNCHANGED <<money, points, slips>>

-----------------------------------------------------------------------------
\* moderate_verification: both outcomes run with the slip and its order locked.

PaymentAmount(v) ==
    IF SlipAmount[v] = 0 THEN GrandTotal[SlipOrder[v]] ELSE SlipAmount[v]

RejectSlip(r) ==
    LET v == session[r].slip IN
    /\ session[r].stage = "locked"
    /\ session[r].slip_row.status \notin {"rejected", "verified", "duplicate_reference", "duplicate_image"}
    /\ slip' = [slip EXCEPT ![v].status = "rejected"]
    /\ End(r)
    /\ UNCHANGED <<order, money, points, slip_payments>>

\* Wrong on purpose: every approval awards the points of the order.
AwardsAlways(o, s) == CustomerOf[o] # None

\* Points are awarded once per order.
Awards(o, s) == CustomerOf[o] # None /\ s.points_earned = 0

\* Wrong on purpose: an approval adds to what was paid, payment row or not.
ApprovedRowAdding(o, s, amount, earned) ==
    [s EXCEPT !.status = "paid", !.amount_paid = @ + amount]

ApprovedRow(o, s, amount, earned) ==
    [status |-> "paid",
     amount_paid |-> amount,
     change_amount |-> amount - GrandTotal[o],
     points_earned |-> IF earned > 0 THEN earned ELSE s.points_earned,
     points_redeemed |-> s.points_redeemed]

ApproveSlip(r) ==
    LET v == session[r].slip
        o == session[r].order
        s == session[r].row
        found == session[r].slip_row
        amount == PaymentAmount(v)
        earned == IF Awards(o, s) THEN GrandTotal[o] \div Baht ELSE 0
    IN
    /\ session[r].stage \in {"locked", "locked_customer"}
    /\ session[r].stage = "locked_customer" <=> Awards(o, s)
    /\ ~(found.status = "verified" /\ s.status = "paid")
    /\ found.status \in {"pending", "review", "verified"}
    /\ amount >= GrandTotal[o]
    /\ IF found.has_payment
       THEN UNCHANGED <<paid, slip_payments>>
       ELSE /\ paid' = AddTo(paid, o, amount)
            /\ slip_payments' = AddTo(slip_payments, v, 1)
    /\ slip' = [slip EXCEPT ![v] = [status |-> "verified", has_payment |-> TRUE]]
    /\ SettlePoints(r, o, 0, earned)
    /\ CommitOrder(r, ApprovedRow(o, s, amount, earned))
    /\ UNCHANGED <<refunded, restocked, settled>>

-----------------------------------------------------------------------------
\* The loyalty endpoints, which know no order.

\* Wrong on purpose: the balance is not checked.
SufficientAlways(r, n) == TRUE

Sufficient(r, n) == session[r].points + n >= 0

WriteBalance(r, n) ==
    LET c == session[r].customer IN
    /\ session[r].stage = "balance"
    /\ Sufficient(r, n)
    /\ balance' = [balance EXCEPT ![c] = session[r].points + n]
    /\ ledger' = AddTo(ledger, c, n)
    /\ End(r)
    /\ UNCHANGED <<order, money, spent, awarded, slips>>

EarnPoints(r, n) == WriteBalance(r, n)

RedeemPoints(r, n) == WriteBalance(r, -n)

-----------------------------------------------------------------------------
Select(r) ==
    \/ \E o \in Orders : LoadOrder(r, o)
    \/ \E v \in Verifications : LoadOrderForUpdate(r, v)
    \/ LoadOrdersCustomer(r)
    \/ \E c \in Customers : LoadCustomer(r, c)

OrderHandler(r) ==
    \/ \E ask \in PointAmounts \cup {0}, total \in PayAmounts : CheckoutOrder(r, ask, total)
    \/ \E amount \in PayAmounts : CreatePayment(r, amount)
    \/ \E amount \in PayAmounts : ProcessRefund(r, amount)
    \/ CancelOrder(r)
    \/ CompleteOrder(r)
    \/ \E target \in OrderStatuses : UpdateStatus(r, target)

SlipHandler(r) == RejectSlip(r) \/ ApproveSlip(r)

LoyaltyHandler(r) ==
    \E n \in PointAmounts : EarnPoints(r, n) \/ RedeemPoints(r, n)

Next ==
    \E r \in Requests :
        \/ Select(r)
        \/ OrderHandler(r)
        \/ SlipHandler(r)
        \/ LoyaltyHandler(r)
        \/ Rollback(r)

Spec == Init /\ [][Next]_vars

-----------------------------------------------------------------------------
TypeOK ==
    /\ order \in [Orders -> OrderRow]
    /\ paid \in [Orders -> Nat]
    /\ refunded \in [Orders -> Nat]
    /\ spent \in [Orders -> Nat]
    /\ awarded \in [Orders -> Nat]
    /\ restocked \in [Orders -> Nat]
    /\ settled \in [Orders -> Nat]
    /\ balance \in [Customers -> Int]
    /\ ledger \in [Customers -> Int]
    /\ slip \in [Verifications -> SlipRow]
    /\ slip_payments \in [Verifications -> Nat]
    /\ session \in [Requests -> Session]
    /\ served \in 0 .. MaxServed

-----------------------------------------------------------------------------
\* What holds whatever the requests in flight.

(* orders.amount_paid never claims money no payments row accounts for,      *)
(* although create_payment, process_refund, checkout_order and              *)
(* moderate_verification overwrite it from stale reads.                     *)
AmountPaidIsBacked == \A o \in Orders : order[o].amount_paid <= paid[o]

(* No order becomes paid or completed, by whatever path and race, unless    *)
(* its payments rows and the points redeemed on it cover the grand total.   *)
SettledIsCovered ==
    \A o \in Orders :
        order[o].status \in {"paid", "completed"} =>
            paid[o] + Baht * spent[o] >= GrandTotal[o]

(* The balance check of redeem_points and checkout_order reads a balance    *)
(* other requests may change before the write; the customer's balance still *)
(* never becomes negative, because the write is absolute.                   *)
PointsNeverOverdrawn == \A c \in Customers : balance[c] >= 0

(* moderate_verification creates at most one payment for a slip, however    *)
(* many administrators approve it and however often: it rereads payment_id  *)
(* under the row lock.                                                      *)
SlipPaidOnce ==
    \A v \in Verifications :
        /\ slip_payments[v] <= 1
        /\ slip[v].has_payment <=> slip_payments[v] = 1

(* The order and slip rows a moderator works on are the ones the tables     *)
(* hold: nobody else writes them between the FOR UPDATE and the commit.     *)
LockedRowIsCurrent ==
    \A r \in Requests :
        session[r].stage \in {"locked", "locked_customer"} =>
            /\ session[r].row = order[session[r].order]
            /\ session[r].slip_row = slip[session[r].slip]

-----------------------------------------------------------------------------
\* What holds when requests are served one after the other.

(* customers.loyalty_points_balance is the sum of the customer's            *)
(* loyalty_transactions, the ledger it is denormalized from.                *)
LedgerMatchesBalance == \A c \in Customers : balance[c] = ledger[c]

(* The points an order says it earned and redeemed are those of the ledger  *)
(* rows that reference it.                                                  *)
OrderPointsMatchLedger ==
    \A o \in Orders : /\ order[o].points_earned = awarded[o]
                      /\ order[o].points_redeemed = spent[o]

(* Refunds never exceed payments: "Refund amount exceeds amount paid" is    *)
(* refused by process_refund.                                               *)
RefundsAreCovered == \A o \in Orders : refunded[o] <= paid[o]

(* An order is settled by one checkout at most: a client retry cannot       *)
(* double-charge.                                                           *)
SettledOnce == \A o \in Orders : settled[o] <= 1

(* Exactly the cancelled orders gave their stock back, and only once.       *)
StockBackIffCancelled ==
    \A o \in Orders : restocked[o] = IF order[o].status = "cancelled" THEN 1 ELSE 0

(* Served one request at a time, the endpoints keep the promises of Till:   *)
(* orders settle once and covered, and refunds stay within the payments.    *)
TillOf(s) == CASE s \in {"paid", "completed"} -> "settled"
               [] s = "cancelled" -> "cancelled"
               [] OTHER -> "open"

T == INSTANCE Till WITH
        Price <- GrandTotal,
        phase <- [o \in Orders |-> TillOf(order[o].status)],
        received <- paid,
        credited <- [o \in Orders |-> Baht * spent[o]],
        returned <- refunded

ImplementsTill == T!Spec

(* "allow completing ... after checkout (paid)": an order whose payments    *)
(* were not refunded can be completed once it is paid.                      *)
PaidCanComplete ==
    \A o \in Orders :
        order[o].status = "paid" /\ refunded[o] = 0 =>
            order[o].amount_paid >= GrandTotal[o]
=============================================================================
