---------------------------- MODULE MCOrderStock ----------------------------
\* Small instances of OrderStock for TLC: two products with two bottles each in
\* every branch.
EXTENDS OrderStock, TLC

CONSTANTS p1, p2, r1, r2, b1, b2, k1

\* Inventory rows in the order of their products.
MCRowId == [row \in Rows |-> (IF row[1] = b1 THEN 0 ELSE 2) + (IF row[2] = p1 THEN 0 ELSE 1)]

MCOpening == [row \in Rows |-> 2]

Line(p, n) == [product |-> p, quantity |-> n]

\* Both orders of the same two products, and a product listed twice.
MCCarts == {<<Line(p1, 1), Line(p2, 1)>>,
            <<Line(p2, 1), Line(p1, 1)>>,
            <<Line(p1, 1), Line(p1, 1)>>}

\* One product at a time.
MCSingles == {<<Line(p1, 1)>>, <<Line(p1, 2)>>}

\* One bottle more, one bottle less.
MCAmounts == {1, -1}

Symmetry == Permutations(Requests)
=============================================================================
