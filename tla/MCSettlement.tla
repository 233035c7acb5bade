---------------------------- MODULE MCSettlement ----------------------------
\* Small instances of Settlement for TLC.  Orders o1 (with a customer) and o2
\* (walk-in or of the same customer), totals of 2.50 and 1.00 Baht.
EXTENDS Settlement, TLC

CONSTANTS o1, o2, c1, v1, v2, r1, r2

MCGrandTotal == [o \in Orders |-> IF o = o1 THEN 250 ELSE 100]

\* o1 belongs to c1, every other order is a walk-in.
MCCustomerOf == [o \in Orders |-> IF o = o1 THEN c1 ELSE None]

\* Every order belongs to c1.
MCSameCustomer == [o \in Orders |-> c1]

\* All slips were sent in for o1; v1 overpays, the amount of the others was not read.
MCSlipOrder == [v \in Verifications |-> o1]
MCSlipAmount == [v \in Verifications |-> IF v = v1 THEN 300 ELSE 0]

\* 1.50 Baht pays o1 with one point redeemed, 2.50 pays it without.
MCPayAmounts == {150, 250}

Symmetry == Permutations(Requests)
=============================================================================
