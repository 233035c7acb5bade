-------------------------------- MODULE Tables --------------------------------
(***************************************************************************)
(* Tables as sequences of rows of any type, for the proofs about modules   *)
(* that keep documents in the order of their creation, and what SUM of a   *)
(* column does when a row is added or changed.                             *)
(***************************************************************************)
EXTENDS Sums, SequenceTheorems, FiniteSetTheorems, WellFoundedInduction, TLAPS

IsTable(rows) == rows \in Seq({rows[i] : i \in DOMAIN rows})

\* A table with a row more.
WithRow(rows, row) == Append(rows, row)

\* A table with a row changed.
Changed(rows, k, row) == [rows EXCEPT ![k] = row]

\* Every function on 1 .. n is a table of n rows.
LEMMA TableOf ==
    ASSUME NEW rows, NEW n \in Nat, rows = [i \in 1 .. n |-> rows[i]]
    PROVE  IsTable(rows) /\ Len(rows) = n
  <1>1. PICK X : X = {rows[i] : i \in DOMAIN rows}
    OBVIOUS
  <1>2. rows \in [1 .. n -> X]
    BY <1>1
  <1>3. rows \in Seq(X)
    BY <1>2, SeqDef
  <1>4. Len(rows) = n
    BY <1>3, LenProperties
  <1> QED
    BY <1>1, <1>3, <1>4 DEF IsTable

\* Every table is a function on 1 .. n.
LEMMA TableIs ==
    ASSUME NEW rows, IsTable(rows)
    PROVE  Len(rows) \in Nat /\ rows = [i \in 1 .. Len(rows) |-> rows[i]]
  BY DEF IsTable

\* At the start there are no rows.
LEMMA EmptyTable == IsTable(<<>>) /\ DOMAIN <<>> = {}
  <1>1. <<>> = [i \in 1 .. 0 |-> <<>>[i]] /\ DOMAIN <<>> = {}
    OBVIOUS
  <1> QED
    BY <1>1, TableOf

\* INSERT: the new row is the last one.
LEMMA AppendRow ==
    ASSUME NEW rows, IsTable(rows), NEW row, NEW more, more = WithRow(rows, row)
    PROVE  /\ IsTable(more) /\ Len(rows) \in Nat /\ Len(more) = Len(rows) + 1
           /\ DOMAIN rows = 1 .. Len(rows) /\ DOMAIN more = 1 .. Len(rows) + 1
           /\ \A i \in DOMAIN rows : more[i] = rows[i]
           /\ more[Len(rows) + 1] = row
  <1>1. PICK X : X = {rows[i] : i \in DOMAIN rows} \union {row}
    OBVIOUS
  <1>2. rows \in Seq(X)
    BY <1>1 DEF IsTable
  <1>3. /\ Len(rows) \in Nat /\ Len(more) = Len(rows) + 1
        /\ DOMAIN rows = 1 .. Len(rows) /\ DOMAIN more = 1 .. Len(rows) + 1
        /\ \A i \in DOMAIN rows : more[i] = rows[i]
        /\ more[Len(rows) + 1] = row
        /\ more \in Seq(X)
    BY <1>1, <1>2 DEF WithRow
  <1> QED
    BY <1>3 DEF IsTable

\* UPDATE: one row changes, and none if there is no such row.
LEMMA ReplaceRow ==
    ASSUME NEW rows, IsTable(rows), NEW k, NEW row, NEW more, more = [rows EXCEPT ![k] = row]
    PROVE  /\ IsTable(more) /\ Len(more) = Len(rows) /\ DOMAIN more = DOMAIN rows
           /\ \A i \in DOMAIN rows : more[i] = IF i = k THEN row ELSE rows[i]
  <1>1. PICK n : n = Len(rows)
    OBVIOUS
  <1>2. n \in Nat /\ rows = [i \in 1 .. n |-> rows[i]]
    BY <1>1, TableIs
  <1>3. more = [i \in 1 .. n |-> more[i]]
    BY <1>2
  <1>4. \A i \in 1 .. n : more[i] = IF i = k THEN row ELSE rows[i]
    BY <1>2
  <1>5. IsTable(more) /\ Len(more) = n
    BY <1>2, <1>3, TableOf
  <1> QED
    BY <1>1, <1>2, <1>3, <1>4, <1>5

\* The same, of Changed.
LEMMA ChangeRow ==
    ASSUME NEW rows, IsTable(rows), NEW k, NEW row, NEW more, more = Changed(rows, k, row)
    PROVE  /\ IsTable(more) /\ Len(more) = Len(rows) /\ DOMAIN more = DOMAIN rows
           /\ \A i \in DOMAIN rows : more[i] = IF i = k THEN row ELSE rows[i]
  BY ReplaceRow DEF Changed

-----------------------------------------------------------------------------
\* Sums.

Less == {p \in Nat \X Nat : p[1] < p[2]}

\* The natural numbers are well-founded.
LEMMA LessIsWellFounded == IsWellFoundedOn(Less, Nat)
  BY NatLessThanWellFounded DEF OpToRel, Less

\* Induction, for a set of numbers.
LEMMA NatSetInduction ==
    ASSUME NEW S \in SUBSET Nat, 0 \in S, \A n \in S : n + 1 \in S
    PROVE  S = Nat
  <1> SUFFICES ASSUME S # Nat PROVE FALSE
    OBVIOUS
  <1>1. PICK T : T = Nat \ S
    OBVIOUS
  <1>2. PICK x \in T : \A y \in T : <<y, x>> \notin Less
    BY <1>1, LessIsWellFounded, WFMin
  <1>3. x \in Nat /\ x # 0
    BY <1>1
  <1>4. x - 1 \in Nat /\ <<x - 1, x>> \in Less
    BY <1>3 DEF Less
  <1>5. x - 1 \in S
    BY <1>1, <1>2, <1>4
  <1> QED
    BY <1>1, <1>3, <1>5

IsSums(f, values, n) ==
    f = [k \in 0 .. n |-> IF k = 0 THEN 0 ELSE f[k - 1] + values[k]]

\* Partial sums exist.
LEMMA SumsExist ==
    ASSUME NEW values, NEW n \in Nat
    PROVE  \E f : IsSums(f, values, n)
  <1> DEFINE S == {m \in Nat : \E f : IsSums(f, values, m)}
  <1>1. 0 \in S
    <2>1. PICK f : f = [k \in 0 .. 0 |-> 0]
      OBVIOUS
    <2>2. IsSums(f, values, 0)
      BY <2>1 DEF IsSums
    <2> QED
      BY <2>2
  <1>2. ASSUME NEW m \in S
        PROVE  m + 1 \in S
    <2>1. PICK f : IsSums(f, values, m)
      OBVIOUS
    <2>2. PICK g : g = [k \in 0 .. m + 1 |-> IF k <= m THEN f[k] ELSE f[m] + values[m + 1]]
      OBVIOUS
    <2>3. ASSUME NEW k \in 0 .. m + 1
          PROVE  g[k] = IF k = 0 THEN 0 ELSE g[k - 1] + values[k]
      BY <2>1, <2>2 DEF IsSums
    <2>4. g = [k \in 0 .. m + 1 |-> g[k]]
      BY <2>2
    <2>5. IsSums(g, values, m + 1)
      BY <2>3, <2>4 DEF IsSums
    <2> QED
      BY <2>5
  <1>3. S = Nat
    <2> HIDE DEF S
    <2>1. S \in SUBSET Nat
      BY DEF S
    <2> QED
      BY <1>1, <1>2, <2>1, NatSetInduction
  <1> QED
    BY <1>3

\* Two functions that satisfy the recursion agree as far as their values do.
LEMMA SumsAgree ==
    ASSUME NEW f, NEW v, NEW n \in Nat, IsSums(f, v, n),
           NEW g, NEW w, NEW m \in Nat, IsSums(g, w, m),
           NEW l \in Nat, l <= n, l <= m, \A k \in 1 .. l : v[k] = w[k]
    PROVE  f[l] = g[l]
  <1> DEFINE S == {k \in Nat : k <= l => f[k] = g[k]}
  <1>1. 0 \in S
    BY DEF IsSums
  <1>2. ASSUME NEW k \in S
        PROVE  k + 1 \in S
    <2> SUFFICES ASSUME k + 1 <= l PROVE f[k + 1] = g[k + 1]
      OBVIOUS
    <2>1. f[k] = g[k] /\ k + 1 \in 1 .. l
      OBVIOUS
    <2>2. k + 1 \in 0 .. n /\ k + 1 \in 0 .. m /\ k + 1 # 0 /\ (k + 1) - 1 = k
      OBVIOUS
    <2>3. f[k + 1] = f[k] + v[k + 1]
      BY <2>2 DEF IsSums
    <2>4. g[k + 1] = g[k] + w[k + 1]
      BY <2>2 DEF IsSums
    <2> QED
      BY <2>1, <2>3, <2>4
  <1>3. S = Nat
    <2> HIDE DEF S
    <2>1. S \in SUBSET Nat
      BY DEF S
    <2> QED
      BY <1>1, <1>2, <2>1, NatSetInduction
  <1> QED
    BY <1>3

\* SumTo is the last of the partial sums.
LEMMA SumToIs ==
    ASSUME NEW values, NEW n \in Nat
    PROVE  \E f : IsSums(f, values, n) /\ SumTo(values, n) = f[n]
  <1>1. PICK f : f = CHOOSE g : IsSums(g, values, n)
    OBVIOUS
  <1>2. SumTo(values, n) = f[n]
    BY <1>1 DEF SumTo, IsSums
  <1>3. IsSums(f, values, n)
    BY <1>1, SumsExist
  <1> QED
    BY <1>2, <1>3

\* The sum depends on the values only.
LEMMA SumsSame ==
    ASSUME NEW v, NEW w, NEW n \in Nat, \A k \in 1 .. n : v[k] = w[k]
    PROVE  SumTo(v, n) = SumTo(w, n)
  BY SumToIs, SumsAgree

\* One value more.
LEMMA SumNext ==
    ASSUME NEW v, NEW n \in Nat
    PROVE  SumTo(v, 0) = 0 /\ SumTo(v, n + 1) = SumTo(v, n) + v[n + 1]
  <1>1. SumTo(v, 0) = 0
    BY SumToIs DEF IsSums
  <1>2. PICK f : IsSums(f, v, n) /\ SumTo(v, n) = f[n]
    BY SumToIs
  <1>3. PICK g : IsSums(g, v, n + 1) /\ SumTo(v, n + 1) = g[n + 1]
    BY SumToIs
  <1>4. f[n] = g[n]
    BY <1>2, <1>3, SumsAgree
  <1>5. g[n + 1] = g[n] + v[n + 1]
    BY <1>3 DEF IsSums
  <1> QED
    BY <1>1, <1>2, <1>3, <1>4, <1>5

\* Sums of integers are integers, and sums of naturals naturals that no value exceeds.
LEMMA SumType ==
    ASSUME NEW v, NEW n \in Nat
    PROVE  /\ (\A k \in 1 .. n : v[k] \in Int) => SumTo(v, n) \in Int
           /\ (\A k \in 1 .. n : v[k] \in Nat) =>
                  SumTo(v, n) \in Nat /\ \A k \in 1 .. n : v[k] <= SumTo(v, n)
  <1> DEFINE S == {m \in Nat : (\A k \in 1 .. m : v[k] \in Int) => SumTo(v, m) \in Int}
             T == {m \in Nat : (\A k \in 1 .. m : v[k] \in Nat) =>
                     SumTo(v, m) \in Nat /\ \A k \in 1 .. m : v[k] <= SumTo(v, m)}
  <1>1. 0 \in S /\ 0 \in T
    BY SumNext
  <1>2. ASSUME NEW m \in S
        PROVE  m + 1 \in S
    <2> SUFFICES ASSUME \A k \in 1 .. m + 1 : v[k] \in Int PROVE SumTo(v, m + 1) \in Int
      OBVIOUS
    <2>1. SumTo(v, m + 1) = SumTo(v, m) + v[m + 1]
      BY SumNext
    <2>2. SumTo(v, m) \in Int /\ v[m + 1] \in Int
      OBVIOUS
    <2> QED
      BY <2>1, <2>2
  <1>3. ASSUME NEW m \in T
        PROVE  m + 1 \in T
    <2> SUFFICES ASSUME \A k \in 1 .. m + 1 : v[k] \in Nat
                 PROVE  SumTo(v, m + 1) \in Nat
                        /\ \A k \in 1 .. m + 1 : v[k] <= SumTo(v, m + 1)
      OBVIOUS
    <2>1. SumTo(v, m + 1) = SumTo(v, m) + v[m + 1]
      BY SumNext
    <2>2. SumTo(v, m) \in Nat /\ v[m + 1] \in Nat /\ \A k \in 1 .. m : v[k] <= SumTo(v, m)
      OBVIOUS
    <2>3. ASSUME NEW k \in 1 .. m + 1
          PROVE  v[k] <= SumTo(v, m + 1)
      <3>1. CASE k = m + 1
        BY <2>1, <2>2, <3>1
      <3>2. CASE k \in 1 .. m
        BY <2>1, <2>2, <3>2
      <3> QED
        BY <3>1, <3>2
    <2> QED
      BY <2>1, <2>2, <2>3
  <1>4. S = Nat /\ T = Nat
    <2> HIDE DEF S, T
    <2>1. S \in SUBSET Nat /\ T \in SUBSET Nat
      BY DEF S, T
    <2> QED
      BY <1>1, <1>2, <1>3, <2>1, NatSetInduction
  <1> QED
    BY <1>4

\* One value replaced.
LEMMA SumReplace ==
    ASSUME NEW v, NEW w, NEW n \in Nat, NEW j \in 1 .. n,
           \A k \in 1 .. n : v[k] \in Int /\ w[k] \in Int,
           \A k \in 1 .. n : k # j => v[k] = w[k]
    PROVE  SumTo(w, n) = SumTo(v, n) - v[j] + w[j]
  <1> DEFINE S == {m \in Nat : m <= n => SumTo(w, m) =
                        SumTo(v, m) + IF m >= j THEN w[j] - v[j] ELSE 0}
  <1>1. 0 \in S
    BY SumNext
  <1>2. ASSUME NEW m \in S
        PROVE  m + 1 \in S
    <2> SUFFICES ASSUME m + 1 <= n
                 PROVE  SumTo(w, m + 1) = SumTo(v, m + 1) + IF m + 1 >= j THEN w[j] - v[j] ELSE 0
      OBVIOUS
    <2>1. SumTo(v, m + 1) = SumTo(v, m) + v[m + 1] /\ SumTo(w, m + 1) = SumTo(w, m) + w[m + 1]
      BY SumNext
    <2>2. \A k \in 1 .. m : v[k] \in Int /\ w[k] \in Int
      OBVIOUS
    <2>3. SumTo(v, m) \in Int /\ SumTo(w, m) \in Int
      BY <2>2, SumType
    <2>4. SumTo(w, m) = SumTo(v, m) + IF m >= j THEN w[j] - v[j] ELSE 0
      OBVIOUS
    <2>5. v[j] \in Int /\ w[j] \in Int /\ v[m + 1] \in Int /\ w[m + 1] \in Int
      OBVIOUS
    <2>6. CASE m + 1 = j
      BY <2>1, <2>3, <2>4, <2>5, <2>6
    <2>7. CASE m + 1 # j
      BY <2>1, <2>3, <2>4, <2>5, <2>7
    <2> QED
      BY <2>6, <2>7
  <1>3. S = Nat
    <2> HIDE DEF S
    <2>1. S \in SUBSET Nat
      BY DEF S
    <2> QED
      BY <1>1, <1>2, <2>1, NatSetInduction
  <1>4. SumTo(v, n) \in Int
    BY SumType
  <1> QED
    BY <1>3, <1>4

\* A sum whose every value is at most another's is at most the other's sum.
LEMMA SumMonotone ==
    ASSUME NEW v, NEW w, NEW n \in Nat,
           \A k \in 1 .. n : v[k] \in Int /\ w[k] \in Int /\ v[k] <= w[k]
    PROVE  SumTo(v, n) <= SumTo(w, n)
  <1> DEFINE S == {m \in Nat : m <= n => SumTo(v, m) <= SumTo(w, m)}
  <1>1. 0 \in S
    BY SumNext
  <1>2. ASSUME NEW m \in S
        PROVE  m + 1 \in S
    <2> SUFFICES ASSUME m + 1 <= n PROVE SumTo(v, m + 1) <= SumTo(w, m + 1)
      OBVIOUS
    <2>1. SumTo(v, m + 1) = SumTo(v, m) + v[m + 1] /\ SumTo(w, m + 1) = SumTo(w, m) + w[m + 1]
      BY SumNext
    <2>2. \A k \in 1 .. m : v[k] \in Int /\ w[k] \in Int
      OBVIOUS
    <2>3. SumTo(v, m) \in Int /\ SumTo(w, m) \in Int
      BY <2>2, SumType
    <2> QED
      BY <2>1, <2>3
  <1>3. S = Nat
    <2> HIDE DEF S
    <2>1. S \in SUBSET Nat
      BY DEF S
    <2> QED
      BY <1>1, <1>2, <2>1, NatSetInduction
  <1> QED
    BY <1>3

\* A set of one element at most has no two.
LEMMA NoTwo ==
    ASSUME NEW S, IsFiniteSet(S), Cardinality(S) <= 1, NEW x \in S, NEW y \in S
    PROVE  x = y
  <1> SUFFICES ASSUME x # y PROVE FALSE
    OBVIOUS
  <1>1. PICK T : T = {x}
    OBVIOUS
  <1>2. PICK U : U = T \cup {y}
    OBVIOUS
  <1>3. IsFiniteSet(T) /\ Cardinality(T) = 1
    BY <1>1, FS_Singleton
  <1>4. Cardinality(U) = 2
    BY <1>1, <1>2, <1>3, FS_AddElement
  <1>5. U \in SUBSET S
    BY <1>1, <1>2
  <1>6. Cardinality(U) <= Cardinality(S) /\ Cardinality(S) \in Nat
    BY <1>5, FS_Subset, FS_CardinalityType
  <1> QED
    BY <1>4, <1>6

\* A set no two elements of which differ has one at most.
LEMMA AtMostOne ==
    ASSUME NEW S, \A x, y \in S : x = y
    PROVE  IsFiniteSet(S) /\ Cardinality(S) <= 1
  <1>1. CASE S = {}
    BY <1>1, FS_EmptySet
  <1>2. CASE S # {}
    <2>1. PICK x : x \in S
      BY <1>2
    <2>2. S = {x}
      BY <2>1
    <2>3. IsFiniteSet(S) /\ Cardinality(S) = 1
      BY <2>2, FS_Singleton
    <2> QED
      BY <2>3
  <1> QED
    BY <1>1, <1>2
-----------------------------------------------------------------------------
\* Sums over all the rows of a table.

\* A column of a table of n rows is a sequence of n values.
LEMMA ColumnSum ==
    ASSUME NEW v, NEW n \in Nat, v = [k \in 1 .. n |-> v[k]]
    PROVE  SumOf(v) = SumTo(v, n)
  <1>1. Len(v) = n
    BY TableOf
  <1> QED
    BY <1>1 DEF SumOf

\* Sums of integers are integers, and sums of naturals naturals.
LEMMA ColumnSumType ==
    ASSUME NEW v, NEW n \in Nat, v = [k \in 1 .. n |-> v[k]]
    PROVE  /\ (\A k \in 1 .. n : v[k] \in Int) => SumOf(v) \in Int
           /\ (\A k \in 1 .. n : v[k] \in Nat) => SumOf(v) \in Nat
  BY ColumnSum, SumType

\* A row more.
LEMMA ColumnSumAppend ==
    ASSUME NEW v, NEW w, NEW n \in Nat,
           v = [k \in 1 .. n |-> v[k]], w = [k \in 1 .. n + 1 |-> w[k]],
           \A k \in 1 .. n : w[k] = v[k]
    PROVE  SumOf(w) = SumOf(v) + w[n + 1]
  <1>1. SumOf(v) = SumTo(v, n)
    BY ColumnSum
  <1>2. SumOf(w) = SumTo(w, n + 1)
    BY ColumnSum
  <1>3. SumTo(w, n) = SumTo(v, n)
    BY SumsSame
  <1> QED
    BY <1>1, <1>2, <1>3, SumNext

\* A row changed.
LEMMA ColumnSumReplace ==
    ASSUME NEW v, NEW w, NEW n \in Nat, NEW j \in 1 .. n,
           v = [k \in 1 .. n |-> v[k]], w = [k \in 1 .. n |-> w[k]],
           \A k \in 1 .. n : v[k] \in Int /\ w[k] \in Int,
           \A k \in 1 .. n : k # j => v[k] = w[k]
    PROVE  SumOf(w) = SumOf(v) - v[j] + w[j]
  <1>1. SumOf(v) = SumTo(v, n)
    BY ColumnSum
  <1>2. SumOf(w) = SumTo(w, n)
    BY ColumnSum
  <1>3. SumTo(w, n) = SumTo(v, n) - v[j] + w[j]
    BY SumReplace
  <1> QED
    BY <1>1, <1>2, <1>3

\* Nothing but zeros.
LEMMA ColumnSumZero ==
    ASSUME NEW v, NEW n \in Nat, v = [k \in 1 .. n |-> v[k]], \A k \in 1 .. n : v[k] = 0
    PROVE  SumOf(v) = 0
  <1>1. SumOf(v) = SumTo(v, n)
    BY ColumnSum
  <1>2. SumTo(v, n) <= 0 /\ SumTo(v, n) \in Nat
    <2>1. PICK z : z = [k \in 1 .. n |-> 0]
      OBVIOUS
    <2> DEFINE S == {m \in Nat : m <= n => SumTo(v, m) = 0}
    <2>2. 0 \in S
      BY SumNext
    <2>3. ASSUME NEW m \in S
          PROVE  m + 1 \in S
      <3> SUFFICES ASSUME m + 1 <= n PROVE SumTo(v, m + 1) = 0
        OBVIOUS
      <3>1. SumTo(v, m) = 0 /\ v[m + 1] = 0
        OBVIOUS
      <3> QED
        BY <3>1, SumNext
    <2>4. S = Nat
      <3> HIDE DEF S
      <3>1. S \subseteq Nat
        BY DEF S
      <3> QED
        BY <2>2, <2>3, <3>1, NatSetInduction
    <2> QED
      BY <2>4
  <1> QED
    BY <1>1, <1>2

\* A table whose rows are all of a type.
LEMMA TableIn ==
    ASSUME NEW rows, NEW S
    PROVE  IsTable(rows) /\ (\A k \in DOMAIN rows : rows[k] \in S) <=> rows \in Seq(S)
  <1>1. ASSUME rows \in Seq(S)
        PROVE  IsTable(rows) /\ \A k \in DOMAIN rows : rows[k] \in S
    <2>1. Len(rows) \in Nat /\ rows = [k \in 1 .. Len(rows) |-> rows[k]]
      BY <1>1
    <2> QED
      BY <1>1, <2>1, TableOf
  <1>2. ASSUME IsTable(rows), \A k \in DOMAIN rows : rows[k] \in S
        PROVE  rows \in Seq(S)
    <2>1. Len(rows) \in Nat /\ rows = [k \in 1 .. Len(rows) |-> rows[k]]
      BY <1>2, TableIs
    <2>2. rows \in [1 .. Len(rows) -> S]
      BY <1>2, <2>1
    <2> QED
      BY <2>1, <2>2, SeqDef
  <1> QED
    BY <1>1, <1>2
=============================================================================
