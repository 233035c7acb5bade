-------------------------------- MODULE Claims --------------------------------
(***************************************************************************)
(* Returns and refunds as documents: create_return with the refund it may  *)
(* make, create_refund, process_return.  What a return does to the stock   *)
(* is in OrderStock.                                                       *)
(*                                                                         *)
(* Documents take their numbers from document_sequences; the upsert locks  *)
(* the sequence's row until the transaction ends.                          *)
(***************************************************************************)
EXTENDS Sums

CONSTANTS
    Orders,     \* ids of the orders
    Items,      \* per order: its order_items, [quantity, unit_price]
    GrandTotal, \* per order: orders.grand_total
    Requests,   \* requests in flight at the same time
    Returnings, \* item lists clients return, [item, quantity]
    Amounts,    \* refund amounts clients ask for
    MaxClaims   \* bound of the model: requests begun

DocTypes == {"RET", "REF"}

\* refund: returns.refund_id, 0 for NULL.
Return == [order : Orders, number : Nat \ {0}, status : {"pending", "completed"},
           items : Returnings, refund : Nat]

Refund == [order : Orders, number : Nat \ {0}, amount : Nat \ {0},
           status : {"pending", "completed"}]

VARIABLES
    returns, refunds, \* the tables, in the order of the commits
    taken,            \* per sequence: last_number
    claim_session,    \* per request: its database session
    claims            \* requests begun

documents == <<returns, refunds, taken>>
claimVars == <<documents, claim_session, claims>>

\* numbers: what the transaction took of each sequence, whose row it then holds.
IdleClaim == [stage |-> "idle", handler |-> "none", order |-> "none", lines |-> <<>>,
              amount |-> 0, numbers |-> [q \in DocTypes |-> 0], id |-> 0]

Init ==
    /\ returns = <<>> /\ refunds = <<>>
    /\ taken = [q \in DocTypes |-> 0]
    /\ claim_session = [r \in Requests |-> IdleClaim]
    /\ claims = 0

-----------------------------------------------------------------------------
Begin(r, s) ==
    /\ claim_session[r].stage = "idle"
    /\ claims < MaxClaims
    /\ claims' = claims + 1
    /\ claim_session' = [claim_session EXCEPT ![r] = s]
    /\ UNCHANGED documents

Continue(r, s) ==
    /\ claim_session' = [claim_session EXCEPT ![r] = s]
    /\ UNCHANGED <<documents, claims>>

\* An error of the handler, or the client is gone: close without commit.
Abandon(r) == claim_session[r].stage # "idle" /\ Continue(r, IdleClaim)

\* Wrong on purpose: the upsert takes no lock.
FreeAlways(r, q) == TRUE

Free(r, q) == \A other \in Requests \ {r} : claim_session[other].numbers[q] = 0

\* _next_sequence: the number is last_number + 1, seen by others after the commit.
Lock(r, q, stage) ==
    /\ Free(r, q)
    /\ Continue(r, [claim_session[r] EXCEPT !.numbers[q] = taken[q] + 1, !.stage = stage])

-----------------------------------------------------------------------------
\* create_return

LoadOrder(r, o, lines) ==
    Begin(r, [IdleClaim EXCEPT !.stage = "number return", !.handler = "return",
                               !.order = o, !.lines = lines])

NumberReturn(r) == claim_session[r].stage = "number return" /\ Lock(r, "RET", "check items")

\* Wrong on purpose: what the customer gets back is the price of one bottle.
ValueOfPrices(o, lines) ==
    SumOf([n \in DOMAIN lines |-> Items[o][lines[n].item].unit_price])

\* total_refund
Value(o, lines) ==
    SumOf([n \in DOMAIN lines |-> Items[o][lines[n].item].unit_price * lines[n].quantity])

\* Each line against its order item alone, not against other lines or returns.
Returnable(o, lines) ==
    \A n \in DOMAIN lines :
        /\ lines[n].item \in DOMAIN Items[o]
        /\ lines[n].quantity <= Items[o][lines[n].item].quantity

CheckItems(r) ==
    LET s == claim_session[r]
        total == Value(s.order, s.lines)
    IN
    /\ s.stage = "check items"
    /\ Returnable(s.order, s.lines)
    /\ Continue(r, [s EXCEPT !.stage = IF total > 0 THEN "number refund" ELSE "commit",
                             !.amount = total])

\* Both handlers.
NumberRefund(r) == claim_session[r].stage = "number refund" /\ Lock(r, "REF", "commit")

-----------------------------------------------------------------------------
\* create_refund

\* The one refund against the total.
Refundable(o, amount) == amount <= GrandTotal[o]

RequestRefund(r, o, amount) ==
    /\ Refundable(o, amount)
    /\ Begin(r, [IdleClaim EXCEPT !.stage = "number refund", !.handler = "refund",
                                  !.order = o, !.amount = amount])

-----------------------------------------------------------------------------
NewReturn(s) ==
    [order |-> s.order, number |-> s.numbers["RET"], status |-> "pending", items |-> s.lines,
     refund |-> IF s.amount > 0 THEN Len(refunds) + 1 ELSE 0]

NewRefund(s) ==
    [order |-> s.order, number |-> s.numbers["REF"], amount |-> s.amount,
     status |-> IF s.handler = "return" THEN "completed" ELSE "pending"]

\* One transaction for the return and its refund.
Commit(r) ==
    LET s == claim_session[r] IN
    /\ s.stage = "commit"
    /\ returns' = IF s.handler = "return" THEN Append(returns, NewReturn(s)) ELSE returns
    /\ refunds' = IF s.amount > 0 THEN Append(refunds, NewRefund(s)) ELSE refunds
    /\ taken' = [q \in DocTypes |-> IF s.numbers[q] > 0 THEN s.numbers[q] ELSE taken[q]]
    /\ claim_session' = [claim_session EXCEPT ![r] = IdleClaim]
    /\ UNCHANGED claims

-----------------------------------------------------------------------------
\* process_return

LoadReturn(r, i) ==
    /\ returns[i].status = "pending"
    /\ Begin(r, [IdleClaim EXCEPT !.stage = "complete", !.handler = "process", !.id = i])

CompleteReturn(r) ==
    LET s == claim_session[r] IN
    /\ s.stage = "complete"
    /\ returns' = [returns EXCEPT ![s.id].status = "completed"]
    /\ claim_session' = [claim_session EXCEPT ![r] = IdleClaim]
    /\ UNCHANGED <<refunds, taken, claims>>
-----------------------------------------------------------------------------
BeginSome(r) ==
    \/ \E o \in Orders, lines \in Returnings : LoadOrder(r, o, lines)
    \/ \E o \in Orders, amount \in Amounts : RequestRefund(r, o, amount)
    \/ \E i \in DOMAIN returns : LoadReturn(r, i)

Step(r) ==
    NumberReturn(r) \/ CheckItems(r) \/ NumberRefund(r) \/ Commit(r) \/ CompleteReturn(r)

Next == \E r \in Requests : BeginSome(r) \/ Step(r) \/ Abandon(r)

Spec == Init /\ [][Next]_claimVars

-----------------------------------------------------------------------------
(* Documents have the types of the schema and refunds name theirs.          *)
TypeOK ==
    /\ \A i \in DOMAIN returns :
         returns[i] \in Return /\ returns[i].refund <= Len(refunds)
    /\ \A j \in DOMAIN refunds : refunds[j] \in Refund
    /\ taken \in [DocTypes -> Nat]
    /\ \A r \in Requests : claim_session[r].numbers \in [DocTypes -> Nat]

(* Returns and refunds are numbered without gaps, in the order they were    *)
(* committed: a request that fails after it took a number gives it back,    *)
(* and no two requests take the same one (_next_sequence).                  *)
NumbersGapless ==
    /\ \A i \in DOMAIN returns : returns[i].number = i
    /\ \A j \in DOMAIN refunds : refunds[j].number = j

\* What the lines were sold for.
SoldFor(ret) ==
    SumOf([n \in DOMAIN ret.items |->
              ret.items[n].quantity * Items[ret.order][ret.items[n].item].unit_price])

(* A return and its refund come and go together: a return worth anything    *)
(* has a completed refund of its own, of its order and of what its items    *)
(* were sold for, whatever overlaps or fails; no other return has it, and   *)
(* a completed refund belongs to a return.                                  *)
ReturnsHaveTheirRefund ==
    LET refunded == {i \in DOMAIN returns : SoldFor(returns[i]) > 0}
        completed == {j \in DOMAIN refunds : refunds[j].status = "completed"}
    IN
    /\ \A i \in refunded :
         /\ returns[i].refund \in completed
         /\ refunds[returns[i].refund].order = returns[i].order
         /\ refunds[returns[i].refund].amount = SoldFor(returns[i])
    /\ \A i \in DOMAIN returns \ refunded : returns[i].refund = 0
    /\ \A i, k \in refunded : returns[i].refund = returns[k].refund => i = k
    /\ completed = {returns[i].refund : i \in refunded}

(* The refunds of an order, asked for and of returns, stay within its       *)
(* total, as PHASE_4_OUTPUT.md has it.  They do not: create_refund looks at *)
(* its own amount only.                                                     *)
RefundsWithinTotal ==
    \A o \in Orders :
        SumOf([j \in DOMAIN refunds |-> IF refunds[j].order = o THEN refunds[j].amount ELSE 0])
            <= GrandTotal[o]

(* What came back of an item is no more than was ordered.  It may be more:  *)
(* every line is compared with the order alone.                             *)
ReturnedWithinOrdered ==
    \A o \in Orders : \A item \in DOMAIN Items[o] :
        SumOf([i \in DOMAIN returns |-> IF returns[i].order # o THEN 0 ELSE
                  SumOf([n \in DOMAIN returns[i].items |->
                            IF returns[i].items[n].item = item THEN returns[i].items[n].quantity ELSE 0])])
            <= Items[o][item].quantity
=============================================================================
