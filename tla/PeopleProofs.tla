----------------------------- MODULE PeopleProofs -----------------------------
(***************************************************************************)
(* Theorems about Shifts, AuthSessions and Staff, for any registers, users,*)
(* roles and requests.                                                     *)
(*                                                                         *)
(* What holds one request at a time rests on one fact: what the request in *)
(* flight has read is still so, as nobody else is there to change it.      *)
(***************************************************************************)
EXTENDS MCPeople, Tables

-----------------------------------------------------------------------------
\* Requests in flight.

\* Two sessions of a component are never at work at once, one request at a time.
Apart(sessions, one) ==
    one => \A r, q \in Requests : sessions[r].stage # "idle" /\ sessions[q].stage # "idle" => r = q

\* A workload keeps them apart.
LEMMA WithinApart ==
    ASSUME NEW sessions, NEW count, Within(sessions, count)
    PROVE  workload' = workload /\ Apart(sessions, Serial)
  <1>1. PICK inFlight : inFlight = {r \in Requests : sessions[r].stage # "idle"}
    OBVIOUS
  <1>2. Cardinality(inFlight) <= workload.width /\ workload' = workload
    BY <1>1 DEF Within
  <1>3. inFlight \in SUBSET Requests /\ IsFiniteSet(inFlight)
    BY <1>1, PeopleAssumption, FS_Subset
  <1>4. ASSUME Serial, NEW r \in inFlight, NEW q \in inFlight
        PROVE  r = q
    BY <1>2, <1>3, <1>4, NoTwo DEF Serial
  <1> QED
    BY <1>1, <1>2, <1>4 DEF Apart

-----------------------------------------------------------------------------
\* Shifts: tables, sums and sessions.

\* What movements of a type brought into a shift.
CashOf(mv, i, type) ==
    SumOf([n \in DOMAIN mv |-> IF mv[n].shift = i /\ mv[n].movement_type = type THEN mv[n].amount ELSE 0])

ShiftTables(sh, mv) ==
    /\ IsTable(sh) /\ IsTable(mv)
    /\ \A i \in DOMAIN sh : sh[i] \in Drawer!Shift
    /\ \A n \in DOMAIN mv : mv[n] \in Drawer!CashMovement /\ mv[n].shift \in DOMAIN sh

\* one: one request at a time.
ShiftBooks(sh, mv, one) ==
    /\ one => \A i \in DOMAIN sh : sh[i].status = "closed" =>
            sh[i].expected_cash = sh[i].opening_cash + CashOf(mv, i, "cash_in") - CashOf(mv, i, "cash_out")
    /\ one => \A i, j \in DOMAIN sh :
            sh[i].status = "open" /\ sh[j].status = "open" /\ sh[i].register = sh[j].register => i = j

ClerkSession ==
    [stage : {"idle", "add shift", "add movement", "sum in", "sum out", "close", "failed"},
     register : Registers \cup {None}, shift : Nat, cash : Nat,
     type : Drawer!EnteredTypes \cup {None}, cash_in : Nat, cash_out : Nat]

AtShift == {"add movement", "sum in", "sum out", "close"}

\* What a request knows of the tables.
ClerkKnows(s, sh, mv, one) ==
    /\ s.stage = "add shift" =>
        /\ s.register \in Registers
        /\ one => \A i \in DOMAIN sh : sh[i].register = s.register => sh[i].status # "open"
    /\ s.stage = "add movement" => s.cash > 0
    /\ s.stage \in AtShift => s.shift \in DOMAIN sh /\ (one => sh[s.shift].status = "open")
    /\ s.stage \in {"sum out", "close"} =>
        (one => s.cash_in = CashOf(mv, s.shift, "cash_in"))
    /\ s.stage = "close" => (one => s.cash_out = CashOf(mv, s.shift, "cash_out"))

ClerkSessions(sessions, sh, mv, one) ==
    /\ sessions = [r \in Requests |-> sessions[r]]
    /\ \A r \in Requests :
        sessions[r] \in ClerkSession /\ ClerkKnows(sessions[r], sh, mv, one)

ShiftsInv ==
    /\ ShiftTables(shifts, cash_movements) /\ formed \in BOOLEAN
    /\ ShiftBooks(shifts, cash_movements, Serial)
    /\ ClerkSessions(shift_session, shifts, cash_movements, Serial)
    /\ Apart(shift_session, Serial)
-----------------------------------------------------------------------------
\* Sums of cash.

\* The columns of a movement.
LEMMA MovementColumns ==
    ASSUME NEW m \in Drawer!CashMovement
    PROVE  /\ m.amount \in Nat \ {0} /\ m.movement_type \in {"cash_in", "cash_out"}
           /\ m.shift \in Nat
  BY DEF Drawer!CashMovement, Drawer!StoredTypes

\* Sums of cash are natural numbers, and a movement of another shift leaves them.
LEMMA CashSums ==
    ASSUME NEW sh, NEW mv, ShiftTables(sh, mv), NEW i, NEW type
    PROVE  /\ CashOf(mv, i, type) \in Nat
           /\ \A m, more : m.shift # i /\ more = WithRow(mv, m) =>
                CashOf(more, i, type) = CashOf(mv, i, type)
  <1>1. PICK n \in Nat : n = Len(mv) /\ DOMAIN mv = 1 .. n /\ IsTable(mv)
    BY TableIs DEF ShiftTables
  <1>2. PICK v : v = [k \in DOMAIN mv |->
            IF mv[k].shift = i /\ mv[k].movement_type = type THEN mv[k].amount ELSE 0]
    OBVIOUS
  <1>3. ASSUME NEW k \in 1 .. n PROVE v[k] \in Nat
    <2>1. PICK m \in Drawer!CashMovement : m = mv[k]
      BY <1>1 DEF ShiftTables
    <2>2. m.amount \in Nat
      BY MovementColumns
    <2> QED
      BY <1>1, <1>2, <2>1, <2>2
  <1>4. v = [k \in 1 .. n |-> v[k]]
    BY <1>1, <1>2
  <1>5. SumOf(v) \in Nat
    BY <1>3, <1>4, ColumnSumType
  <1>6. ASSUME NEW m, m.shift # i, NEW more, more = WithRow(mv, m)
        PROVE  CashOf(more, i, type) = CashOf(mv, i, type)
    <2>1. /\ DOMAIN more = 1 .. n + 1 /\ more[n + 1] = m
          /\ \A k \in 1 .. n : more[k] = mv[k]
      BY <1>1, <1>6, AppendRow
    <2>2. PICK w : w = [k \in DOMAIN more |->
            IF more[k].shift = i /\ more[k].movement_type = type THEN more[k].amount ELSE 0]
      OBVIOUS
    <2>3. /\ w = [k \in 1 .. n + 1 |-> w[k]] /\ \A k \in 1 .. n : w[k] = v[k]
          /\ w[n + 1] = 0
      BY <1>1, <1>2, <1>6, <2>1, <2>2
    <2>4. SumOf(w) = SumOf(v) + w[n + 1]
      BY <1>4, <2>3, ColumnSumAppend
    <2> QED
      BY <1>2, <1>5, <2>2, <2>3, <2>4 DEF CashOf
  <1> QED
    BY <1>2, <1>5, <1>6 DEF CashOf

\* The sums of close_shift and of the X report, over the types the CHECK lets in.
LEMMA SummedIs ==
    ASSUME ShiftTables(shifts, cash_movements), NEW i
    PROVE  /\ Drawer!Summed(i, {"cash_in", "opening"}) = CashOf(cash_movements, i, "cash_in")
           /\ Drawer!Summed(i, {"cash_out", "drop", "pickup"}) = CashOf(cash_movements, i, "cash_out")
           /\ Drawer!Summed(i, Drawer!EnteredTypes \ {"cash_in", "opening"}) =
                CashOf(cash_movements, i, "cash_out")
  <1>1. PICK mv : mv = cash_movements
    OBVIOUS
  <1>2. ASSUME NEW k \in DOMAIN mv
        PROVE  mv[k].movement_type \in {"cash_in", "cash_out"}
    BY <1>1, MovementColumns DEF ShiftTables
  <1>3. ASSUME NEW types, NEW type,
               \A x \in {"cash_in", "cash_out"} : x \in types <=> x = type
        PROVE  Drawer!Summed(i, types) = CashOf(mv, i, type)
    <2>1. PICK v : v = [n \in DOMAIN mv |->
                IF mv[n].shift = i /\ mv[n].movement_type \in types THEN mv[n].amount ELSE 0]
      OBVIOUS
    <2>2. v = [n \in DOMAIN mv |->
                IF mv[n].shift = i /\ mv[n].movement_type = type THEN mv[n].amount ELSE 0]
      BY <1>2, <1>3, <2>1
    <2>3. Drawer!Summed(i, types) = SumOf(v)
      BY <1>1, <2>1 DEF Drawer!Summed, Drawer!SumOf, Drawer!SumTo, SumOf, SumTo
    <2> QED
      BY <2>2, <2>3 DEF CashOf
  <1>4. \A x \in {"cash_in", "cash_out"} :
            /\ x \in {"cash_in", "opening"} <=> x = "cash_in"
            /\ x \in {"cash_out", "drop", "pickup"} <=> x = "cash_out"
            /\ x \in Drawer!EnteredTypes \ {"cash_in", "opening"} <=> x = "cash_out"
    BY DEF Drawer!EnteredTypes, Drawer!StoredTypes
  <1> QED
    BY <1>1, <1>3, <1>4
-----------------------------------------------------------------------------
\* Shifts: steps.

\* The session of a request that has not begun.
LEMMA IdleClerkIs ==
    /\ Drawer!IdleClerk \in ClerkSession /\ Drawer!IdleClerk.stage = "idle"
    /\ \A sh, mv, one : ClerkKnows(Drawer!IdleClerk, sh, mv, one)
  <1>1. Drawer!IdleClerk \in ClerkSession /\ Drawer!IdleClerk.stage = "idle"
    BY DEF Drawer!IdleClerk, ClerkSession
  <1> QED
    BY <1>1 DEF ClerkKnows, AtShift

\* What the invariant says of a session.
LEMMA ClerkIs ==
    ASSUME ShiftsInv, NEW r \in Requests, NEW s, s = shift_session[r]
    PROVE  /\ s \in ClerkSession /\ ClerkKnows(s, shifts, cash_movements, Serial)
           /\ Serial /\ s.stage # "idle" =>
                \A q \in Requests \ {r} : shift_session[q].stage = "idle"
  BY DEF ShiftsInv, ClerkSessions, Apart

\* A step of a component of a workload.
DrawerMove == Drawer!Next /\ Within(shift_session', tasks')

\* A step that changes one session and no table.
LEMMA ClerkMoves ==
    ASSUME ShiftsInv, NEW r \in Requests, NEW s \in ClerkSession,
           ClerkKnows(s, shifts, cash_movements, Serial),
           shift_session' = [shift_session EXCEPT ![r] = s],
           UNCHANGED <<shifts, cash_movements, formed, workload>>, Apart(shift_session', Serial)
    PROVE  ShiftsInv'
  <1>1. PICK new : new = shift_session'
    OBVIOUS
  <1>2. /\ new = [q \in Requests |-> new[q]] /\ new[r] = s
        /\ \A q \in Requests \ {r} : new[q] = shift_session[q]
    BY <1>1 DEF ShiftsInv, ClerkSessions
  <1>3. ASSUME NEW q \in Requests
        PROVE  new[q] \in ClerkSession /\ ClerkKnows(new[q], shifts, cash_movements, Serial)
    BY <1>2, ClerkIs
  <1>4. ClerkSessions(new, shifts, cash_movements, Serial)
    BY <1>2, <1>3 DEF ClerkSessions
  <1>5. /\ shifts' = shifts /\ cash_movements' = cash_movements /\ formed' = formed
        /\ Serial' = Serial
    BY DEF Serial
  <1> QED
    BY <1>1, <1>4, <1>5 DEF ShiftsInv

\* A step that ends a request and changes the tables.
LEMMA ClerkEnds ==
    ASSUME ShiftsInv, NEW r \in Requests, shift_session[r].stage # "idle",
           shift_session' = [shift_session EXCEPT ![r] = Drawer!IdleClerk],
           UNCHANGED <<formed, workload>>, Apart(shift_session', Serial),
           NEW sh, NEW mv, sh = shifts', mv = cash_movements',
           ShiftTables(sh, mv), ShiftBooks(sh, mv, Serial),
           DOMAIN shifts \subseteq DOMAIN sh
    PROVE  ShiftsInv'
  <1>1. PICK new : new = shift_session'
    OBVIOUS
  <1>2. /\ new = [q \in Requests |-> new[q]] /\ new[r] = Drawer!IdleClerk
        /\ \A q \in Requests \ {r} : new[q] = shift_session[q]
    BY <1>1 DEF ShiftsInv, ClerkSessions
  <1>3. ASSUME NEW q \in Requests
        PROVE  new[q] \in ClerkSession /\ ClerkKnows(new[q], sh, mv, Serial)
    <2>1. CASE q = r
      BY <1>2, <2>1, IdleClerkIs
    <2>2. CASE q # r
      <3>1. PICK s : s = shift_session[q]
        OBVIOUS
      <3>2. /\ s \in ClerkSession /\ ClerkKnows(s, shifts, cash_movements, Serial)
            /\ Serial => s.stage = "idle"
        BY <2>2, <3>1, ClerkIs
      <3>3. ClerkKnows(s, sh, mv, Serial)
        BY <3>2 DEF ClerkKnows, AtShift
      <3> QED
        BY <1>2, <2>2, <3>1, <3>2, <3>3
    <2> QED
      BY <2>1, <2>2
  <1>4. ClerkSessions(new, sh, mv, Serial)
    BY <1>2, <1>3 DEF ClerkSessions
  <1>5. formed' = formed /\ Serial' = Serial /\ formed \in BOOLEAN
    BY DEF Serial, ShiftsInv
  <1> QED
    BY <1>1, <1>4, <1>5 DEF ShiftsInv

\* A request begins.
LEMMA ClerkBeginsStep ==
    ASSUME ShiftsInv, NEW r \in Requests, Drawer!BeginSome(r),
           workload' = workload, Apart(shift_session', Serial)
    PROVE  ShiftsInv'
  <1>1. PICK idle \in ClerkSession : idle = Drawer!IdleClerk
    BY IdleClerkIs
  <1>2. ASSUME NEW register \in Registers, NEW cash \in Cash, Drawer!FindOpenShift(r, register, cash)
        PROVE  ShiftsInv'
    <2>1. cash \in Nat
      BY PeopleAssumption
    <2>2. PICK s : s = [idle EXCEPT !.stage = "add shift", !.register = register, !.cash = cash]
      OBVIOUS
    <2>3. /\ shift_session' = [shift_session EXCEPT ![r] = s]
          /\ UNCHANGED <<shifts, cash_movements, formed>>
          /\ Drawer!OpenAt(register) = {}
      BY <1>1, <1>2, <2>2 DEF Drawer!FindOpenShift, Drawer!Begin, Drawer!till, Drawer!MayOpen
    <2>4. s \in ClerkSession /\ s.stage = "add shift" /\ s.register = register
      BY <2>1, <2>2 DEF ClerkSession
    <2>5. ClerkKnows(s, shifts, cash_movements, Serial)
      BY <2>3, <2>4 DEF ClerkKnows, AtShift, Drawer!OpenAt
    <2> QED
      BY <2>3, <2>4, <2>5, ClerkMoves
  <1>3. ASSUME NEW i \in DOMAIN shifts, NEW type \in Drawer!EnteredTypes, NEW amount \in Amounts,
               Drawer!LoadForMovement(r, i, type, amount)
        PROVE  ShiftsInv'
    <2>1. amount \in Nat /\ amount > 0
      <3>1. Amounts \subseteq Nat \ {0}
        BY PeopleAssumption
      <3> QED
        BY <3>1
    <2>2. i \in Nat
      <3>1. IsTable(shifts)
        BY DEF ShiftsInv, ShiftTables
      <3>2. DOMAIN shifts = 1 .. Len(shifts) /\ Len(shifts) \in Nat
        BY <3>1, TableIs
      <3> QED
        BY <3>2
    <2>3. PICK s : s = [idle EXCEPT !.stage = "add movement", !.type = type, !.cash = amount, !.shift = i]
      OBVIOUS
    <2>4. /\ shift_session' = [shift_session EXCEPT ![r] = s]
          /\ UNCHANGED <<shifts, cash_movements, formed>> /\ shifts[i].status = "open"
      BY <1>1, <1>3, <2>3 DEF Drawer!LoadForMovement, Drawer!GetShift, Drawer!Begin, Drawer!till, Drawer!InUse
    <2>5. s \in ClerkSession /\ s.stage = "add movement" /\ s.shift = i /\ s.cash = amount
      BY <2>1, <2>2, <2>3 DEF ClerkSession
    <2>6. ClerkKnows(s, shifts, cash_movements, Serial)
      BY <2>1, <2>4, <2>5 DEF ClerkKnows, AtShift
    <2> QED
      BY <2>4, <2>5, <2>6, ClerkMoves
  <1>4. ASSUME NEW i \in DOMAIN shifts, NEW cash \in Cash, Drawer!LoadForClose(r, i, cash)
        PROVE  ShiftsInv'
    <2>1. cash \in Nat
      BY PeopleAssumption
    <2>2. i \in Nat
      <3>1. IsTable(shifts)
        BY DEF ShiftsInv, ShiftTables
      <3>2. DOMAIN shifts = 1 .. Len(shifts) /\ Len(shifts) \in Nat
        BY <3>1, TableIs
      <3> QED
        BY <3>2
    <2>3. PICK s : s = [idle EXCEPT !.stage = "sum in", !.cash = cash, !.shift = i]
      OBVIOUS
    <2>4. /\ shift_session' = [shift_session EXCEPT ![r] = s]
          /\ UNCHANGED <<shifts, cash_movements, formed>> /\ shifts[i].status = "open"
      BY <1>1, <1>4, <2>3 DEF Drawer!LoadForClose, Drawer!GetShift, Drawer!Begin, Drawer!till, Drawer!InUse
    <2>5. s \in ClerkSession /\ s.stage = "sum in" /\ s.shift = i
      BY <2>1, <2>2, <2>3 DEF ClerkSession
    <2>6. ClerkKnows(s, shifts, cash_movements, Serial)
      BY <2>4, <2>5 DEF ClerkKnows, AtShift
    <2> QED
      BY <2>4, <2>5, <2>6, ClerkMoves
  <1> QED
    BY <1>2, <1>3, <1>4 DEF Drawer!BeginSome

\* The two sums of close_shift, and the error that forms neither.
LEMMA SumCashStep ==
    ASSUME ShiftsInv, NEW r \in Requests,
           Drawer!SumCashIn(r) \/ Drawer!SumFails(r) \/ Drawer!SumCashOut(r),
           workload' = workload, Apart(shift_session', Serial)
    PROVE  ShiftsInv'
  <1>1. PICK t : t = shift_session[r]
    OBVIOUS
  <1>2. t \in ClerkSession /\ ClerkKnows(t, shifts, cash_movements, Serial)
    BY <1>1, ClerkIs
  <1>3. ShiftTables(shifts, cash_movements)
    BY DEF ShiftsInv
  <1>4. PICK paid_in \in Nat, paid_out \in Nat :
            paid_in = CashOf(cash_movements, t.shift, "cash_in") /\ paid_out = CashOf(cash_movements, t.shift, "cash_out")
    BY <1>3, CashSums
  <1>5. CASE Drawer!SumCashIn(r)
    <2>1. PICK s : s = [t EXCEPT !.stage = "sum out", !.cash_in = paid_in]
      OBVIOUS
    <2>2. /\ shift_session' = [shift_session EXCEPT ![r] = s]
          /\ UNCHANGED <<shifts, cash_movements, formed>> /\ t.stage = "sum in"
      BY <1>1, <1>3, <1>4, <1>5, <2>1, SummedIs DEF Drawer!SumCashIn, Drawer!Continue, Drawer!till
    <2>3. s \in ClerkSession /\ s.stage = "sum out" /\ s.shift = t.shift /\ s.cash_in = paid_in
      BY <1>2, <2>1 DEF ClerkSession
    <2>4. ClerkKnows(s, shifts, cash_movements, Serial)
      BY <1>2, <1>4, <2>2, <2>3 DEF ClerkKnows, AtShift
    <2> QED
      BY <2>2, <2>3, <2>4, ClerkMoves
  <1>6. CASE Drawer!SumCashOut(r)
    <2>1. PICK s : s = [t EXCEPT !.stage = "close", !.cash_out = paid_out]
      OBVIOUS
    <2>2. /\ shift_session' = [shift_session EXCEPT ![r] = s]
          /\ UNCHANGED <<shifts, cash_movements, formed>> /\ t.stage = "sum out"
      BY <1>1, <1>3, <1>4, <1>6, <2>1, SummedIs DEF Drawer!SumCashOut, Drawer!Continue, Drawer!till
    <2>3. /\ s \in ClerkSession /\ s.stage = "close" /\ s.shift = t.shift
          /\ s.cash_in = t.cash_in /\ s.cash_out = paid_out
      BY <1>2, <2>1 DEF ClerkSession
    <2>4. ClerkKnows(s, shifts, cash_movements, Serial)
      BY <1>2, <1>4, <2>2, <2>3 DEF ClerkKnows, AtShift
    <2> QED
      BY <2>2, <2>3, <2>4, ClerkMoves
  <1>7. CASE Drawer!SumFails(r)
    <2>1. PICK s : s = [t EXCEPT !.stage = "failed"]
      OBVIOUS
    <2>2. /\ shift_session' = [shift_session EXCEPT ![r] = s]
          /\ UNCHANGED <<shifts, cash_movements, formed>>
      BY <1>1, <1>7, <2>1 DEF Drawer!SumFails, Drawer!Continue, Drawer!till
    <2>3. s \in ClerkSession /\ s.stage = "failed"
      BY <1>2, <2>1 DEF ClerkSession
    <2>4. ClerkKnows(s, shifts, cash_movements, Serial)
      BY <2>3 DEF ClerkKnows, AtShift
    <2> QED
      BY <2>2, <2>3, <2>4, ClerkMoves
  <1> QED
    BY <1>5, <1>6, <1>7

\* The transaction is closed.
LEMMA ClerkAbandonsStep ==
    ASSUME ShiftsInv, NEW r \in Requests, Drawer!Abandon(r),
           workload' = workload, Apart(shift_session', Serial)
    PROVE  ShiftsInv'
  <1>1. shift_session' = [shift_session EXCEPT ![r] = Drawer!IdleClerk]
        /\ UNCHANGED <<shifts, cash_movements, formed>>
    BY DEF Drawer!Abandon, Drawer!Continue, Drawer!till
  <1> QED
    BY <1>1, IdleClerkIs, ClerkMoves
\* open_shift inserts a shift of the register it has looked at.
LEMMA AddShiftStep ==
    ASSUME ShiftsInv, NEW r \in Requests, Drawer!AddShift(r),
           workload' = workload, Apart(shift_session', Serial)
    PROVE  ShiftsInv'
  <1>1. PICK s : s = shift_session[r]
    OBVIOUS
  <1>2. s \in ClerkSession /\ ClerkKnows(s, shifts, cash_movements, Serial)
    BY <1>1, ClerkIs
  <1>3. PICK row : row = [register |-> s.register, status |-> "open", opening_cash |-> s.cash,
                          closing_cash |-> None, expected_cash |-> None]
    OBVIOUS
  <1>4. PICK sh : sh = WithRow(shifts, row)
    OBVIOUS
  <1>5. /\ s.stage = "add shift" /\ shifts' = sh /\ cash_movements' = cash_movements
        /\ shift_session' = [shift_session EXCEPT ![r] = Drawer!IdleClerk] /\ formed' = formed
    BY <1>1, <1>3, <1>4 DEF Drawer!AddShift, Drawer!Commit, WithRow
  <1>6. /\ row \in Drawer!Shift /\ row.status = "open" /\ row.register = s.register
        /\ Serial => \A i \in DOMAIN shifts : shifts[i].register = s.register => shifts[i].status # "open"
    BY <1>2, <1>3, <1>5 DEF ClerkSession, ClerkKnows, Drawer!Shift
  <1>7. PICK n \in Nat : /\ DOMAIN shifts = 1 .. n /\ DOMAIN sh = 1 .. n + 1 /\ IsTable(sh)
                         /\ \A i \in 1 .. n : sh[i] = shifts[i]
                         /\ sh[n + 1] = row
    BY <1>4, AppendRow DEF ShiftsInv, ShiftTables
  <1>8. ShiftTables(sh, cash_movements)
    BY <1>6, <1>7 DEF ShiftsInv, ShiftTables
  <1>9. ShiftBooks(sh, cash_movements, Serial)
    BY <1>6, <1>7 DEF ShiftsInv, ShiftBooks
  <1>10. DOMAIN shifts \subseteq DOMAIN sh
    BY <1>7
  <1>11. sh = shifts' /\ cash_movements = cash_movements' /\ shift_session[r].stage # "idle"
    BY <1>1, <1>5
  <1> QED
    BY <1>5, <1>8, <1>9, <1>10, <1>11, ClerkEnds

\* A movement is added to the shift that was open when it was read.
LEMMA AddMovementStep ==
    ASSUME ShiftsInv, NEW r \in Requests, Drawer!AddCashMovement(r),
           workload' = workload, Apart(shift_session', Serial)
    PROVE  ShiftsInv'
  <1>1. PICK s : s = shift_session[r]
    OBVIOUS
  <1>2. s \in ClerkSession /\ ClerkKnows(s, shifts, cash_movements, Serial)
    BY <1>1, ClerkIs
  <1>3. PICK m : m = [shift |-> s.shift, movement_type |-> s.type, amount |-> s.cash]
    OBVIOUS
  <1>4. PICK mv : mv = WithRow(cash_movements, m)
    OBVIOUS
  <1>5. /\ s.stage = "add movement" /\ s.type \in Drawer!StoredTypes
        /\ cash_movements' = mv /\ shifts' = shifts
        /\ shift_session' = [shift_session EXCEPT ![r] = Drawer!IdleClerk] /\ formed' = formed
    BY <1>1, <1>3, <1>4 DEF Drawer!AddCashMovement, Drawer!Commit, Drawer!Storable, WithRow
  <1>6. /\ s.shift \in DOMAIN shifts /\ (Serial => shifts[s.shift].status = "open")
        /\ s.cash > 0
    BY <1>2, <1>5 DEF ClerkKnows, AtShift
  <1>7. m \in Drawer!CashMovement /\ m.shift = s.shift
    <2>1. PICK cash \in Nat : cash = s.cash /\ s.shift \in Nat
      BY <1>2 DEF ClerkSession
    <2>2. cash \in Nat \ {0}
      BY <1>6, <2>1
    <2> QED
      BY <1>3, <1>5, <2>1, <2>2 DEF Drawer!CashMovement
  <1>8. PICK n \in Nat : /\ DOMAIN cash_movements = 1 .. n /\ DOMAIN mv = 1 .. n + 1 /\ IsTable(mv)
                         /\ \A i \in 1 .. n : mv[i] = cash_movements[i]
                         /\ mv[n + 1] = m
    BY <1>4, AppendRow DEF ShiftsInv, ShiftTables
  <1>9. ShiftTables(shifts, mv)
    BY <1>6, <1>7, <1>8 DEF ShiftsInv, ShiftTables
  <1>10. ASSUME NEW i \in DOMAIN shifts, i # s.shift, NEW type
         PROVE  CashOf(mv, i, type) = CashOf(cash_movements, i, type)
    BY <1>4, <1>7, <1>10, CashSums DEF ShiftsInv
  <1>11. ShiftBooks(shifts, mv, Serial)
    BY <1>6, <1>10 DEF ShiftsInv, ShiftBooks
  <1> QED
    BY <1>1, <1>5, <1>9, <1>11, ClerkEnds

\* close_shift writes the row.
LEMMA CloseShiftStep ==
    ASSUME ShiftsInv, NEW r \in Requests, Drawer!CloseShift(r),
           workload' = workload, Apart(shift_session', Serial)
    PROVE  ShiftsInv'
  <1>1. PICK s : s = shift_session[r]
    OBVIOUS
  <1>2. s \in ClerkSession /\ ClerkKnows(s, shifts, cash_movements, Serial)
    BY <1>1, ClerkIs
  <1>3. PICK k, old : k = s.shift /\ old = shifts[k]
    OBVIOUS
  <1>4. s.stage = "close"
    BY <1>1 DEF Drawer!CloseShift
  <1>5. /\ k \in DOMAIN shifts
        /\ Serial => /\ s.cash_in = CashOf(cash_movements, k, "cash_in")
                     /\ s.cash_out = CashOf(cash_movements, k, "cash_out")
    BY <1>2, <1>3, <1>4 DEF ClerkKnows, AtShift
  <1>6. old \in Drawer!Shift /\ IsTable(shifts)
    BY <1>3, <1>5 DEF ShiftsInv, ShiftTables
  <1>7. old.opening_cash \in Nat /\ s.cash_in \in Nat /\ s.cash_out \in Nat /\ s.cash \in Nat
    BY <1>2, <1>6 DEF ClerkSession, Drawer!Shift
  <1>8. PICK expected \in Int : expected = old.opening_cash + s.cash_in - s.cash_out
    BY <1>7
  <1>9. PICK row : row = [old EXCEPT !.status = "closed", !.closing_cash = s.cash, !.expected_cash = expected]
    OBVIOUS
  <1>10. /\ row \in Drawer!Shift /\ row.status = "closed" /\ row.register = old.register
         /\ row.opening_cash = old.opening_cash /\ row.expected_cash = expected
    BY <1>6, <1>7, <1>8, <1>9 DEF Drawer!Shift
  <1>11. PICK sh : sh = Changed(shifts, k, row)
    OBVIOUS
  <1>12. /\ shifts' = sh /\ cash_movements' = cash_movements
         /\ shift_session' = [shift_session EXCEPT ![r] = Drawer!IdleClerk] /\ formed' = formed
    BY <1>1, <1>3, <1>5, <1>6, <1>8, <1>9, <1>11
       DEF Drawer!CloseShift, Drawer!Commit, Drawer!Expected, Changed
  <1>13. /\ IsTable(sh) /\ DOMAIN sh = DOMAIN shifts
         /\ \A i \in DOMAIN shifts : sh[i] = IF i = k THEN row ELSE shifts[i]
    BY <1>6, <1>11, ChangeRow
  <1>14. ShiftTables(sh, cash_movements)
    BY <1>10, <1>13 DEF ShiftsInv, ShiftTables
  <1>15. ShiftBooks(sh, cash_movements, Serial)
    BY <1>3, <1>5, <1>8, <1>10, <1>13 DEF ShiftsInv, ShiftBooks
  <1> QED
    BY <1>1, <1>4, <1>12, <1>13, <1>14, <1>15, ClerkEnds

\* Every step keeps the invariant.
LEMMA DrawerMoves ==
    ASSUME ShiftsInv, DrawerMove
    PROVE  ShiftsInv'
  <1>1. workload' = workload /\ Apart(shift_session', Serial)
    BY WithinApart DEF DrawerMove
  <1>2. PICK r \in Requests : Drawer!BeginSome(r) \/ Drawer!Step(r) \/ Drawer!Abandon(r)
    BY DEF DrawerMove, Drawer!Next
  <1>3. CASE Drawer!BeginSome(r)
    BY <1>1, <1>3, ClerkBeginsStep
  <1>4. CASE Drawer!Abandon(r)
    BY <1>1, <1>4, ClerkAbandonsStep
  <1>5. CASE Drawer!AddShift(r)
    BY <1>1, <1>5, AddShiftStep
  <1>6. CASE Drawer!AddCashMovement(r)
    BY <1>1, <1>6, AddMovementStep
  <1>7. CASE Drawer!SumCashIn(r) \/ Drawer!SumFails(r) \/ Drawer!SumCashOut(r)
    BY <1>1, <1>7, SumCashStep
  <1>8. CASE Drawer!CloseShift(r)
    BY <1>1, <1>8, CloseShiftStep
  <1> QED
    BY <1>2, <1>3, <1>4, <1>5, <1>6, <1>7, <1>8 DEF Drawer!Step

-----------------------------------------------------------------------------
\* Shifts: the invariant, and what it says.

peopleVars == <<vars, StaffVars, DrawerVars, workload>>

\* A step is one of the drawer, or leaves it.
LEMMA DrawerSteps ==
    ASSUME [MCNext]_peopleVars
    PROVE  DrawerMove \/ UNCHANGED <<DrawerVars, workload>>
  BY DEF MCNext, AuthStep, StaffStep, DrawerStep, DrawerMove, Within, peopleVars

\* At the start there are no shifts.
LEMMA DrawerStarts ==
    ASSUME MCInit
    PROVE  ShiftsInv
  <1>1. /\ shifts = <<>> /\ cash_movements = <<>> /\ formed \in BOOLEAN
        /\ shift_session = [r \in Requests |-> Drawer!IdleClerk]
    BY DEF MCInit, Drawer!Init
  <1>2. ShiftTables(shifts, cash_movements) /\ ShiftBooks(shifts, cash_movements, Serial)
    BY <1>1, EmptyTable DEF ShiftTables, ShiftBooks
  <1>3. ClerkSessions(shift_session, shifts, cash_movements, Serial)
    BY <1>1, IdleClerkIs DEF ClerkSessions
  <1>4. Apart(shift_session, Serial)
    BY <1>1, IdleClerkIs DEF Apart
  <1> QED
    BY <1>1, <1>2, <1>3, <1>4 DEF ShiftsInv

\* The books of the shifts, whatever the workloads.
LEMMA ShiftsAreKept == MCSpec => []ShiftsInv
  <1>1. ASSUME ShiftsInv, [MCNext]_peopleVars
        PROVE  ShiftsInv'
    <2>1. CASE UNCHANGED <<DrawerVars, workload>>
      BY <1>1, <2>1 DEF DrawerVars, ShiftsInv, Serial
    <2> QED
      BY <1>1, <2>1, DrawerMoves, DrawerSteps
  <1>2. MCSpec => MCInit /\ [][MCNext]_peopleVars
    BY DEF MCSpec, peopleVars
  <1> QED
    BY <1>1, <1>2, DrawerStarts, PTL

\* What the X report shows.
ReportsAre ==
    \A i : Drawer!XReport(i) =
        [opening_cash |-> shifts[i].opening_cash, expected_cash |-> shifts[i].expected_cash,
         cash_movements_in |-> CashOf(cash_movements, i, "cash_in"),
         cash_movements_out |-> CashOf(cash_movements, i, "cash_out")]

\* The sums of the report are those of the types the CHECK lets in.
LEMMA ReportIs == ShiftsInv => ReportsAre
  BY SummedIs DEF ShiftsInv, Drawer!XReport, ReportsAre

\* One request at a time, the report of a closed shift adds up, and a register has one open shift.
LEMMA BooksAddUp ==
    ASSUME ShiftsInv
    PROVE  /\ Drawer!TypeOK
           /\ Serial => Drawer!ReportAddsUp /\ Drawer!OneOpenPerRegister
  <1>1. Drawer!TypeOK
    BY DEF ShiftsInv, ShiftTables, Drawer!TypeOK
  <1>2. Serial => Drawer!ReportAddsUp
    BY ReportIs DEF ReportsAre, ShiftsInv, ShiftBooks, Drawer!ReportAddsUp
  <1>3. ASSUME Serial, NEW register \in Registers
        PROVE  Cardinality(Drawer!OpenAt(register)) <= 1
    <2>1. \A i, j \in Drawer!OpenAt(register) : i = j
      BY <1>3 DEF ShiftsInv, ShiftBooks, Drawer!OpenAt
    <2> QED
      BY <2>1, AtMostOne
  <1>4. Serial => Drawer!OneOpenPerRegister
    BY <1>3 DEF Drawer!OneOpenPerRegister, Drawer!Cardinality, Cardinality
  <1> QED
    BY <1>1, <1>2, <1>4

\* One request at a time, what is closed stays as it is.
LEMMA ClosedStepHolds ==
    ASSUME ShiftsInv, ShiftsInv', [MCNext]_peopleVars
    PROVE  [Serial => Drawer!ClosedStep]_DrawerVars
  <1> SUFFICES ASSUME Serial, DrawerVars' # DrawerVars,
                      NEW i \in DOMAIN shifts, shifts[i].status = "closed"
               PROVE  shifts'[i] = shifts[i] /\ Drawer!XReport(i)' = Drawer!XReport(i)
    BY DEF Drawer!ClosedStep
  <1>1. PICK r \in Requests : Drawer!BeginSome(r) \/ Drawer!Step(r) \/ Drawer!Abandon(r)
    BY DrawerSteps DEF DrawerMove, Drawer!Next
  <1>2. ASSUME shifts'[i] = shifts[i],
               \A type : CashOf(cash_movements', i, type) = CashOf(cash_movements, i, type)
        PROVE  Drawer!XReport(i)' = Drawer!XReport(i)
    <2>1. (ShiftsInv => ReportsAre)'
      BY ReportIs, PTL
    <2> QED
      BY <1>2, <2>1, ReportIs DEF ReportsAre
  <1>3. CASE UNCHANGED <<shifts, cash_movements>>
    BY <1>2, <1>3
  <1>4. PICK s : s = shift_session[r]
    OBVIOUS
  <1>5. ClerkKnows(s, shifts, cash_movements, Serial)
    BY <1>4, ClerkIs
  <1>6. CASE Drawer!AddShift(r)
    <2>1. PICK row : shifts' = WithRow(shifts, row)
      BY <1>6 DEF Drawer!AddShift, WithRow
    <2>2. IsTable(shifts) /\ cash_movements' = cash_movements
      BY <1>6 DEF ShiftsInv, ShiftTables, Drawer!AddShift
    <2>3. shifts'[i] = shifts[i]
      BY <2>1, <2>2, AppendRow
    <2> QED
      BY <1>2, <2>2, <2>3
  <1>7. CASE Drawer!AddCashMovement(r)
    <2>1. PICK m : /\ m = [shift |-> s.shift, movement_type |-> s.type, amount |-> s.cash]
                   /\ cash_movements' = WithRow(cash_movements, m)
      BY <1>4, <1>7 DEF Drawer!AddCashMovement, WithRow
    <2>2. s.stage = "add movement" /\ shifts' = shifts
      BY <1>4, <1>7 DEF Drawer!AddCashMovement
    <2>3. m.shift # i
      BY <1>5, <2>1, <2>2 DEF ClerkKnows, AtShift
    <2>4. \A type : CashOf(cash_movements', i, type) = CashOf(cash_movements, i, type)
      BY <2>1, <2>3, CashSums DEF ShiftsInv
    <2> QED
      BY <1>2, <2>2, <2>4
  <1>8. CASE Drawer!CloseShift(r)
    <2>1. PICK row : shifts' = Changed(shifts, s.shift, row)
      <3>1. PICK k : k = s.shift
        OBVIOUS
      <3>2. IsTable(shifts) /\ k \in DOMAIN shifts
        BY <1>4, <1>5, <1>8, <3>1 DEF ClerkKnows, AtShift, Drawer!CloseShift, ShiftsInv, ShiftTables
      <3>3. shifts' = Changed(shifts, k, [shifts[k] EXCEPT !.status = "closed", !.closing_cash = s.cash,
                                            !.expected_cash = Drawer!Expected(s)])
        BY <1>4, <1>8, <3>1, <3>2 DEF Drawer!CloseShift, Changed
      <3> QED
        BY <3>1, <3>3
    <2>2. s.stage = "close" /\ cash_movements' = cash_movements
      BY <1>4, <1>8 DEF Drawer!CloseShift
    <2>3. s.shift # i
      BY <1>5, <2>2 DEF ClerkKnows, AtShift
    <2>4. shifts'[i] = shifts[i]
      BY <2>1, <2>3, ChangeRow DEF ShiftsInv, ShiftTables
    <2> QED
      BY <1>2, <2>2, <2>4
  <1>9. CASE \/ Drawer!BeginSome(r) \/ Drawer!Abandon(r)
             \/ Drawer!SumCashIn(r) \/ Drawer!SumFails(r) \/ Drawer!SumCashOut(r)
    <2>1. UNCHANGED <<shifts, cash_movements>>
      BY <1>9 DEF Drawer!BeginSome, Drawer!FindOpenShift, Drawer!LoadForMovement, Drawer!LoadForClose,
                  Drawer!GetShift, Drawer!Begin, Drawer!Abandon, Drawer!SumCashIn, Drawer!SumFails,
                  Drawer!SumCashOut, Drawer!Continue, Drawer!till
    <2> QED
      BY <1>3, <2>1
  <1> QED
    BY <1>1, <1>2, <1>3, <1>6, <1>7, <1>8, <1>9 DEF Drawer!Step

\* One request at a time, the closing report of a shift adds up every cash movement (close_shift,
\* service.py:52).
THEOREM ReportsAddUp == MCSpec => []ShiftReportAddsUp
  <1>1. ShiftsInv => ShiftReportAddsUp
    BY BooksAddUp DEF ShiftReportAddsUp
  <1> QED
    BY <1>1, ShiftsAreKept, PTL
\* Remainders, as quotients give them.
LEMMA RemainderOf ==
    ASSUME NEW m \in Nat \ {0}, NEW q \in Nat, NEW x \in Nat, x < m
    PROVE  (m * q + x) % m = x
  OBVIOUS

\* The remainder of the next number.
LEMMA NextRemainder ==
    ASSUME NEW m \in Nat \ {0}, NEW a \in Nat
    PROVE  /\ a % m \in Nat /\ a % m < m /\ a % m <= a /\ 0 % m = 0
           /\ (a + 1) % m = IF (a % m) + 1 >= m THEN 0 ELSE (a % m) + 1
  <1>1. a % m \in Nat /\ a % m < m
    OBVIOUS
  <1>2. PICK q \in Nat, x \in Nat : q = a \div m /\ x = a % m /\ a = m * q + x
    BY <1>1
  <1>3. x <= a /\ 0 % m = 0
    <2>1. x <= a
      BY <1>1, <1>2
    <2>2. 0 % m = 0
      OBVIOUS
    <2> QED
      BY <2>1, <2>2
  <1>4. ASSUME x + 1 < m
        PROVE  (a + 1) % m = x + 1
    <2>1. PICK y \in Nat, b \in Nat : y = x + 1 /\ b = a + 1
      OBVIOUS
    <2>2. b = m * q + y /\ y < m
      BY <1>2, <1>4, <2>1
    <2>3. b % m = y
      BY <2>2, RemainderOf
    <2> QED
      BY <2>1, <2>3
  <1>5. ASSUME x + 1 = m
        PROVE  (a + 1) % m = 0
    <2>1. PICK p \in Nat, b \in Nat : p = q + 1 /\ b = a + 1
      OBVIOUS
    <2>2. b = m * p + 0
      BY <1>2, <1>5, <2>1
    <2>3. b % m = 0
      BY <2>2, RemainderOf
    <2> QED
      BY <2>1, <2>3
  <1>6. x < m
    BY <1>1, <1>2
  <1>7. PICK y : y = (a + 1) % m
    OBVIOUS
  <1>8. y = IF x + 1 >= m THEN 0 ELSE x + 1
    BY <1>4, <1>5, <1>6, <1>7
  <1> QED
    BY <1>1, <1>2, <1>3, <1>7, <1>8
-----------------------------------------------------------------------------
\* Logins: types.

LoginRequest ==
    [stage : {"idle", "count", "reset", "record failure", "record success", "revoke", "issue"},
     handler : {"login", "google", "refresh"} \cup {None}, user : Users \cup {None},
     client : Clients \cup {None}, now : Nat, failed : Nat, locked_until : Nat \cup {None},
     token : Nat]

\* What a request carries from stage to stage.
Carries(s, tokens, time) ==
    /\ s.stage # "idle" => s.user \in Users /\ s.client \in Clients /\ s.now <= time
    /\ s.stage \in {"count", "reset", "record failure", "record success"} => s.handler = "login"
    /\ s.stage \in {"count", "reset"} => s.failed < MAX_FAILED_ATTEMPTS
    /\ s.stage = "revoke" => s.handler = "refresh" /\ s.token \in DOMAIN tokens
    /\ s.stage = "issue" => s.handler \in {"login", "google", "refresh"}
    /\ s.stage = "issue" /\ s.handler = "refresh" => s.token \in DOMAIN tokens

AccountsOk(acc) == acc \in [Users -> Account] /\ \A u \in Users : acc[u].failed < MAX_FAILED_ATTEMPTS

TokensOk(tokens, count) ==
    /\ IsTable(tokens)
    /\ \A i \in DOMAIN tokens : tokens[i] \in RefreshToken /\ tokens[i].login \in 1 .. count
    /\ \A i, j \in DOMAIN tokens : Hash(tokens[i]) = Hash(tokens[j]) => i = j

CountsOk(attempts, failures, logins) ==
    /\ attempts \in [Users -> [failed : Nat, succeeded : Nat]]
    /\ failures \in [Users -> Nat]
    /\ logins \in [count : Nat, by_password : [Users -> Nat]]

RequestsOk(sessions, tokens, time) ==
    /\ sessions = [r \in Requests |-> sessions[r]]
    /\ \A r \in Requests : sessions[r] \in LoginRequest /\ Carries(sessions[r], tokens, time)

LoginTypes ==
    /\ AccountsOk(accounts) /\ TokensOk(refresh_tokens, opened.count)
    /\ CountsOk(login_attempts, wrong, opened)
    /\ clock \in Nat /\ RequestsOk(auth_session, refresh_tokens, clock)

\* The session of a request that has not begun.
LEMMA IdleRequestIs ==
    /\ IdleRequest \in LoginRequest /\ IdleRequest.stage = "idle"
    /\ \A tokens, time : Carries(IdleRequest, tokens, time)
  <1>1. IdleRequest \in LoginRequest /\ IdleRequest.stage = "idle"
    BY DEF IdleRequest, LoginRequest
  <1> QED
    BY <1>1 DEF Carries

\* Tokens are only added, and time goes on.
LEMMA RequestsAge ==
    ASSUME NEW sessions, NEW tokens, NEW time \in Nat, RequestsOk(sessions, tokens, time),
           NEW more, NEW later \in Nat, later >= time, DOMAIN tokens \subseteq DOMAIN more
    PROVE  RequestsOk(sessions, more, later)
  <1>1. ASSUME NEW q \in Requests
        PROVE  Carries(sessions[q], more, later)
    <2>1. PICK t \in LoginRequest : t = sessions[q] /\ Carries(t, tokens, time)
      BY DEF RequestsOk
    <2>2. t.now \in Nat
      BY DEF LoginRequest
    <2>3. t.now <= time => t.now <= later
      BY <2>2
    <2> QED
      BY <2>1, <2>3 DEF Carries
  <1> QED
    BY <1>1 DEF RequestsOk

\* One session changes.
LEMMA RequestMoves ==
    ASSUME NEW sessions, NEW tokens, NEW time, RequestsOk(sessions, tokens, time),
           NEW r \in Requests, NEW s \in LoginRequest, Carries(s, tokens, time),
           NEW new, new = [sessions EXCEPT ![r] = s]
    PROVE  /\ RequestsOk(new, tokens, time)
           /\ new = [q \in Requests |-> new[q]] /\ new[r] = s
           /\ \A q \in Requests \ {r} : new[q] = sessions[q]
  BY DEF RequestsOk

\* A request of a stage goes on to another.
LEMMA GotoIs ==
    ASSUME LoginTypes, NEW r \in Requests, NEW stage, Goto(r, stage), NEW t, t = auth_session[r]
    PROVE  /\ auth_session' = [auth_session EXCEPT ![r] = [t EXCEPT !.stage = stage]]
           /\ clock' = clock /\ t \in LoginRequest /\ Carries(t, refresh_tokens, clock)
  BY DEF LoginTypes, RequestsOk, Goto

\* A request that begins has read what is committed.
BeginsLogin(s) ==
    /\ s.stage \in {"count", "reset", "record failure"} /\ s.handler = "login"
    /\ s.user \in Users /\ s.client \in Clients /\ s.now = clock
    /\ s.failed = accounts[s.user].failed /\ s.locked_until = accounts[s.user].locked_until
    /\ s.stage # "record failure" => ~Locked(accounts[s.user], clock)

BeginsGoogle(s) ==
    /\ s.stage = "issue" /\ s.handler = "google"
    /\ s.user \in Users /\ s.client \in Clients /\ s.now = clock

BeginsRefresh(s) ==
    /\ s.stage = "revoke" /\ s.handler = "refresh"
    /\ s.token \in DOMAIN refresh_tokens /\ ~refresh_tokens[s.token].is_revoked
    /\ s.user \in Users /\ s.client \in Clients /\ s.now = clock

Begins(r, s) ==
    /\ s \in LoginRequest /\ Carries(s, refresh_tokens, clock)
    /\ auth_session[r].stage = "idle" /\ auth_session' = [auth_session EXCEPT ![r] = s]
    /\ UNCHANGED <<rows, clock>>
    /\ BeginsLogin(s) \/ BeginsGoogle(s) \/ BeginsRefresh(s)

\* A logout changes nothing but the number of requests.
LEMMA BeginIs ==
    ASSUME LoginTypes, NEW r \in Requests, BeginSome(r)
    PROVE  UNCHANGED <<rows, clock, auth_session>> \/ \E s : Begins(r, s)
  <1>1. PICK idle \in LoginRequest : idle = IdleRequest
    BY IdleRequestIs
  <1>2. clock \in Nat /\ clock <= clock
    BY DEF LoginTypes
  <1>3. ASSUME NEW u \in Users, NEW c \in Clients, NEW right \in BOOLEAN, LoadLogin(r, u, c, right)
        PROVE  \E s : Begins(r, s)
    <2>1. PICK stage \in {"count", "reset", "record failure"} :
            /\ stage = IF Locked(accounts[u], clock) THEN "record failure" ELSE IF right THEN "reset" ELSE "count"
      OBVIOUS
    <2>2. PICK failed \in Nat, until \in Nat \cup {None} :
            /\ failed = accounts[u].failed /\ until = accounts[u].locked_until
            /\ failed < MAX_FAILED_ATTEMPTS
      BY DEF LoginTypes, AccountsOk, Account
    <2>3. PICK s : s = [idle EXCEPT !.user = u, !.client = c, !.failed = failed, !.locked_until = until,
                          !.stage = stage, !.handler = "login", !.now = clock]
      OBVIOUS
    <2>4. /\ auth_session[r].stage = "idle" /\ auth_session' = [auth_session EXCEPT ![r] = s]
          /\ UNCHANGED <<rows, clock>>
      BY <1>1, <1>3, <2>1, <2>2, <2>3 DEF LoadLogin, Begin
    <2>5. /\ s \in LoginRequest /\ s.stage = stage /\ s.handler = "login" /\ s.user = u /\ s.client = c
          /\ s.failed = failed /\ s.locked_until = until /\ s.now = clock
      BY <1>2, <2>1, <2>2, <2>3 DEF LoginRequest
    <2>6. stage # "record failure" => ~Locked(accounts[u], clock)
      BY <2>1
    <2>7. Carries(s, refresh_tokens, clock)
      BY <1>2, <2>1, <2>2, <2>5 DEF Carries
    <2>8. BeginsLogin(s)
      BY <2>1, <2>2, <2>5, <2>6 DEF BeginsLogin
    <2> QED
      BY <2>4, <2>5, <2>7, <2>8 DEF Begins
  <1>4. ASSUME NEW u \in Users, NEW c \in Clients, LoadGoogleLogin(r, u, c)
        PROVE  \E s : Begins(r, s)
    <2>1. PICK s : s = [idle EXCEPT !.stage = "issue", !.user = u, !.client = c,
                                    !.handler = "google", !.now = clock]
      OBVIOUS
    <2>2. /\ auth_session[r].stage = "idle" /\ auth_session' = [auth_session EXCEPT ![r] = s]
          /\ UNCHANGED <<rows, clock>>
      BY <1>1, <1>4, <2>1 DEF LoadGoogleLogin, Begin
    <2>3. /\ s \in LoginRequest /\ s.stage = "issue" /\ s.handler = "google" /\ s.user = u /\ s.client = c
          /\ s.now = clock
      BY <1>2, <2>1 DEF LoginRequest
    <2>4. Carries(s, refresh_tokens, clock)
      BY <1>2, <2>3 DEF Carries
    <2>5. BeginsGoogle(s)
      BY <2>3 DEF BeginsGoogle
    <2> QED
      BY <2>2, <2>3, <2>4, <2>5 DEF Begins
  <1>5. ASSUME NEW i \in DOMAIN refresh_tokens, LoadToken(r, i)
        PROVE  \E s : Begins(r, s)
    <2>1. PICK token \in RefreshToken : token = refresh_tokens[i]
      BY DEF LoginTypes, TokensOk
    <2>2. PICK u \in Users, c \in Clients : u = token.user /\ c = token.client
      BY DEF RefreshToken
    <2>3. i \in Nat
      <3>1. IsTable(refresh_tokens)
        BY DEF LoginTypes, TokensOk
      <3>2. DOMAIN refresh_tokens = 1 .. Len(refresh_tokens) /\ Len(refresh_tokens) \in Nat
        BY <3>1, TableIs
      <3> QED
        BY <3>2
    <2>4. PICK s : s = [idle EXCEPT !.stage = "revoke", !.token = i, !.user = u, !.client = c,
                                    !.handler = "refresh", !.now = clock]
      OBVIOUS
    <2>5. /\ auth_session[r].stage = "idle" /\ auth_session' = [auth_session EXCEPT ![r] = s]
          /\ UNCHANGED <<rows, clock>> /\ ~token.is_revoked
      BY <1>1, <1>5, <2>1, <2>2, <2>4 DEF LoadToken, Begin, Accepted
    <2>6. /\ s \in LoginRequest /\ s.stage = "revoke" /\ s.handler = "refresh" /\ s.user = u
          /\ s.client = c /\ s.now = clock /\ s.token = i
      BY <1>2, <2>3, <2>4 DEF LoginRequest
    <2>7. Carries(s, refresh_tokens, clock)
      BY <1>2, <2>6 DEF Carries
    <2>8. BeginsRefresh(s)
      BY <2>1, <2>5, <2>6 DEF BeginsRefresh
    <2> QED
      BY <2>5, <2>6, <2>7, <2>8 DEF Begins
  <1>6. ASSUME NEW u \in Users, Logout(r, u)
        PROVE  UNCHANGED <<rows, clock, auth_session>>
    <2>1. IsTable(refresh_tokens)
      BY DEF LoginTypes, TokensOk
    <2>2. refresh_tokens = [i \in DOMAIN refresh_tokens |-> refresh_tokens[i]]
      BY <2>1, TableIs
    <2>3. refresh_tokens' = refresh_tokens
      BY <1>6, <2>2 DEF Logout, PresentedBy
    <2> QED
      BY <1>6, <2>3 DEF Logout, rows
  <1> QED
    BY <1>3, <1>4, <1>5, <1>6 DEF BeginSome
\* A step that changes one session, and perhaps the clock.
LEMMA SessionTypes ==
    ASSUME LoginTypes, NEW r \in Requests, NEW s \in LoginRequest, Carries(s, refresh_tokens, clock),
           auth_session' = [auth_session EXCEPT ![r] = s], clock' = clock,
           AccountsOk(accounts'), CountsOk(login_attempts', wrong', opened'),
           refresh_tokens' = refresh_tokens, opened'.count = opened.count
    PROVE  LoginTypes'
  <1>1. clock \in Nat /\ RequestsOk(auth_session, refresh_tokens, clock)
    BY DEF LoginTypes
  <1>2. RequestsOk(auth_session', refresh_tokens, clock)
    BY <1>1, RequestMoves
  <1> QED
    BY <1>1, <1>2 DEF LoginTypes

\* A wrong password is counted.
LEMMA CountTypes ==
    ASSUME LoginTypes, NEW r \in Requests, CountFailure(r)
    PROVE  LoginTypes'
  <1>1. PICK t : t = auth_session[r]
    OBVIOUS
  <1>2. PICK s : s = [t EXCEPT !.stage = "record failure"]
    OBVIOUS
  <1>3. t.stage = "count" /\ Goto(r, "record failure")
    BY <1>1 DEF CountFailure
  <1>4. /\ auth_session' = [auth_session EXCEPT ![r] = s] /\ clock' = clock
        /\ t \in LoginRequest /\ Carries(t, refresh_tokens, clock)
    BY <1>1, <1>2, <1>3, GotoIs
  <1>5. PICK u \in Users : u = t.user /\ t.failed < MAX_FAILED_ATTEMPTS /\ t.failed \in Nat /\ t.now \in Nat
    BY <1>3, <1>4 DEF Carries, LoginRequest
  <1>6. s \in LoginRequest /\ Carries(s, refresh_tokens, clock)
    BY <1>2, <1>3, <1>4 DEF LoginRequest, Carries
  <1>7. PICK a : a = accounts[u] /\ a \in Account /\ a.failed < MAX_FAILED_ATTEMPTS
    BY DEF LoginTypes, AccountsOk
  <1>8. Counted(a, t) \in Account /\ Counted(a, t).failed < MAX_FAILED_ATTEMPTS
    <2>1. t.now + LOCKOUT \in Nat /\ t.failed + 1 \in Nat
      BY <1>5, AuthAssumption
    <2>2. 0 < MAX_FAILED_ATTEMPTS /\ MAX_FAILED_ATTEMPTS \in Nat
      BY AuthAssumption
    <2>3. CASE t.failed + 1 >= MAX_FAILED_ATTEMPTS
      BY <1>7, <2>1, <2>2, <2>3 DEF Counted, Account
    <2>4. CASE ~(t.failed + 1 >= MAX_FAILED_ATTEMPTS)
      <3>1. t.failed + 1 < MAX_FAILED_ATTEMPTS
        BY <1>5, <2>2, <2>4
      <3> QED
        BY <1>7, <2>1, <2>4, <3>1 DEF Counted, Account
    <2> QED
      BY <2>3, <2>4
  <1>9. accounts' = [accounts EXCEPT ![u] = Counted(a, t)] /\ wrong' = [wrong EXCEPT ![u] = wrong[u] + 1]
        /\ UNCHANGED <<refresh_tokens, login_attempts, opened>>
    BY <1>1, <1>5, <1>7 DEF CountFailure
  <1>10. AccountsOk(accounts')
    BY <1>8, <1>9 DEF LoginTypes, AccountsOk
  <1>11. CountsOk(login_attempts', wrong', opened')
    <2>1. wrong[u] + 1 \in Nat
      BY DEF LoginTypes, CountsOk
    <2> QED
      BY <1>9, <2>1 DEF LoginTypes, CountsOk
  <1> QED
    BY <1>4, <1>6, <1>9, <1>10, <1>11, SessionTypes

\* A right password resets the counter.
LEMMA ResetTypes ==
    ASSUME LoginTypes, NEW r \in Requests, Reset(r)
    PROVE  LoginTypes'
  <1>1. PICK t : t = auth_session[r]
    OBVIOUS
  <1>2. PICK s : s = [t EXCEPT !.stage = "record success"]
    OBVIOUS
  <1>3. t.stage = "reset" /\ Goto(r, "record success")
    BY <1>1 DEF Reset
  <1>4. /\ auth_session' = [auth_session EXCEPT ![r] = s] /\ clock' = clock
        /\ t \in LoginRequest /\ Carries(t, refresh_tokens, clock)
    BY <1>1, <1>2, <1>3, GotoIs
  <1>5. PICK u \in Users : u = t.user
    BY <1>3, <1>4 DEF Carries
  <1>6. s \in LoginRequest /\ Carries(s, refresh_tokens, clock)
    BY <1>2, <1>3, <1>4 DEF LoginRequest, Carries
  <1>7. PICK a : a = accounts[u] /\ a \in Account /\ a.failed < MAX_FAILED_ATTEMPTS
    BY DEF LoginTypes, AccountsOk
  <1>8. Cleared(a, t) \in Account /\ Cleared(a, t).failed < MAX_FAILED_ATTEMPTS
    <2>1. 0 < MAX_FAILED_ATTEMPTS
      BY AuthAssumption
    <2> QED
      BY <1>7, <2>1 DEF Cleared, Account
  <1>9. accounts' = [accounts EXCEPT ![u] = Cleared(a, t)] /\ wrong' = [wrong EXCEPT ![u] = 0]
        /\ UNCHANGED <<refresh_tokens, login_attempts, opened>>
    BY <1>1, <1>5, <1>7 DEF Reset
  <1>10. AccountsOk(accounts')
    BY <1>8, <1>9 DEF LoginTypes, AccountsOk
  <1>11. CountsOk(login_attempts', wrong', opened')
    BY <1>9 DEF LoginTypes, CountsOk
  <1> QED
    BY <1>4, <1>6, <1>9, <1>10, <1>11, SessionTypes

\* The attempt is recorded.
LEMMA RecordTypes ==
    ASSUME LoginTypes, NEW r \in Requests, RecordAttempt(r)
    PROVE  LoginTypes'
  <1>1. PICK t : t = auth_session[r]
    OBVIOUS
  <1>2. t \in LoginRequest /\ Carries(t, refresh_tokens, clock)
    BY <1>1 DEF LoginTypes, RequestsOk
  <1>3. /\ t.stage \in {"record failure", "record success"}
        /\ UNCHANGED <<accounts, refresh_tokens, wrong, opened>>
    BY <1>1 DEF RecordAttempt
  <1>4. PICK u \in Users : u = t.user
    BY <1>2, <1>3 DEF Carries
  <1>5. PICK row : row = login_attempts[u] /\ row \in [failed : Nat, succeeded : Nat]
    BY DEF LoginTypes, CountsOk
  <1>6. Recorded(row, t.stage) \in [failed : Nat, succeeded : Nat]
    <2>1. row.failed \in Nat /\ row.succeeded \in Nat
      BY <1>5
    <2>2. row.failed + 1 \in Nat /\ row.succeeded + 1 \in Nat
      BY <2>1
    <2> QED
      BY <1>5, <2>2 DEF Recorded
  <1>7. login_attempts' = [login_attempts EXCEPT ![u] = Recorded(row, t.stage)]
    BY <1>1, <1>4, <1>5 DEF RecordAttempt
  <1>8. CountsOk(login_attempts', wrong', opened') /\ AccountsOk(accounts')
    BY <1>3, <1>6, <1>7 DEF LoginTypes, CountsOk
  <1>9. \E s \in LoginRequest : Carries(s, refresh_tokens, clock)
                                /\ auth_session' = [auth_session EXCEPT ![r] = s] /\ clock' = clock
    <2>1. CASE t.stage = "record failure"
      BY <1>1, <2>1, IdleRequestIs DEF RecordAttempt, End
    <2>2. CASE t.stage = "record success"
      <3>1. PICK s : s = [t EXCEPT !.stage = "issue"]
        OBVIOUS
      <3>2. s \in LoginRequest /\ Carries(s, refresh_tokens, clock)
        BY <1>2, <2>2, <3>1 DEF LoginRequest, Carries
      <3>3. Goto(r, "issue")
        BY <1>1, <2>2 DEF RecordAttempt
      <3>4. auth_session' = [auth_session EXCEPT ![r] = s] /\ clock' = clock
        BY <1>1, <3>1, <3>3, GotoIs
      <3> QED
        BY <3>2, <3>4
    <2> QED
      BY <1>3, <2>1, <2>2
  <1> QED
    BY <1>3, <1>8, <1>9, SessionTypes

\* A token is revoked: what else it says stays.
LEMMA RevokeIs ==
    ASSUME LoginTypes, NEW r \in Requests, Revoke(r), NEW t, t = auth_session[r]
    PROVE  /\ t.stage = "revoke" /\ t \in LoginRequest /\ Carries(t, refresh_tokens, clock)
           /\ t.token \in DOMAIN refresh_tokens
           /\ refresh_tokens' = Changed(refresh_tokens, t.token,
                                        [refresh_tokens[t.token] EXCEPT !.is_revoked = TRUE])
           /\ auth_session' = [auth_session EXCEPT ![r] = [t EXCEPT !.stage = "issue"]]
           /\ UNCHANGED <<accounts, login_attempts, wrong, opened, clock>>
  <1>1. t.stage = "revoke" /\ Goto(r, "issue") /\ UNCHANGED <<accounts, login_attempts, wrong, opened>>
    BY DEF Revoke
  <1>2. /\ auth_session' = [auth_session EXCEPT ![r] = [t EXCEPT !.stage = "issue"]] /\ clock' = clock
        /\ t \in LoginRequest /\ Carries(t, refresh_tokens, clock)
    BY <1>1, GotoIs
  <1>3. PICK k : k = t.token
    OBVIOUS
  <1>4. k \in DOMAIN refresh_tokens
    BY <1>1, <1>2, <1>3 DEF Carries
  <1>5. refresh_tokens' = Changed(refresh_tokens, k, [refresh_tokens[k] EXCEPT !.is_revoked = TRUE])
    BY <1>3, <1>4 DEF Revoke, Changed
  <1> QED
    BY <1>1, <1>2, <1>3, <1>4, <1>5

\* The types after it.
LEMMA RevokeTypes ==
    ASSUME LoginTypes, NEW r \in Requests, Revoke(r)
    PROVE  LoginTypes'
  <1>1. PICK t : t = auth_session[r]
    OBVIOUS
  <1>2. PICK k, old, row : k = t.token /\ old = refresh_tokens[k] /\ row = [old EXCEPT !.is_revoked = TRUE]
    OBVIOUS
  <1>3. PICK more : more = Changed(refresh_tokens, k, row)
    OBVIOUS
  <1>4. /\ t.stage = "revoke" /\ t \in LoginRequest /\ Carries(t, refresh_tokens, clock)
        /\ k \in DOMAIN refresh_tokens /\ refresh_tokens' = more
        /\ auth_session' = [auth_session EXCEPT ![r] = [t EXCEPT !.stage = "issue"]]
        /\ UNCHANGED <<accounts, login_attempts, wrong, opened, clock>>
    BY <1>1, <1>2, <1>3, RevokeIs
  <1>5. TokensOk(refresh_tokens, opened.count) /\ IsTable(refresh_tokens)
    BY DEF LoginTypes, TokensOk
  <1>6. old \in RefreshToken /\ old.login \in 1 .. opened.count
    BY <1>2, <1>4, <1>5 DEF TokensOk
  <1>7. /\ row \in RefreshToken /\ row.login = old.login /\ row.user = old.user
        /\ row.client = old.client /\ row.issued = old.issued
    BY <1>2, <1>6 DEF RefreshToken
  <1>8. Hash(row) = Hash(old)
    BY <1>7 DEF Hash
  <1>9. /\ IsTable(more) /\ DOMAIN more = DOMAIN refresh_tokens
        /\ \A i \in DOMAIN refresh_tokens : more[i] = IF i = k THEN row ELSE refresh_tokens[i]
    BY <1>3, <1>5, ChangeRow
  <1>10. \A i \in DOMAIN more : Hash(more[i]) = Hash(refresh_tokens[i])
    BY <1>2, <1>8, <1>9
  <1>11. TokensOk(more, opened.count)
    BY <1>5, <1>6, <1>7, <1>9, <1>10 DEF TokensOk
  <1>12. PICK s : s = [t EXCEPT !.stage = "issue"]
    OBVIOUS
  <1>13. s \in LoginRequest /\ Carries(s, more, clock)
    BY <1>4, <1>9, <1>12 DEF LoginRequest, Carries
  <1>14. clock \in Nat /\ clock >= clock /\ RequestsOk(auth_session, refresh_tokens, clock)
    BY DEF LoginTypes
  <1>15. RequestsOk(auth_session, more, clock)
    <2>1. DOMAIN refresh_tokens \subseteq DOMAIN more
      BY <1>9
    <2> QED
      BY <1>14, <2>1, RequestsAge
  <1>16. RequestsOk(auth_session', more, clock)
    BY <1>4, <1>12, <1>13, <1>15, RequestMoves
  <1> QED
    BY <1>4, <1>11, <1>14, <1>16 DEF LoginTypes
\* A login is opened by the first token, and counted if it came with a password.
LEMMA OpenedIs ==
    ASSUME LoginTypes, NEW s, s.handler \in {"login", "google", "refresh"}, s.user \in Users,
           NEW logins, logins = Opened(s)
    PROVE  /\ logins \in [count : Nat, by_password : [Users -> Nat]]
           /\ logins.count = IF s.handler = "refresh" THEN opened.count ELSE opened.count + 1
           /\ \A u \in Users : logins.by_password[u] =
                IF s.handler = "login" /\ u = s.user THEN opened.by_password[u] + 1
                                                     ELSE opened.by_password[u]
  <1>0. PICK op, n, by : op = opened /\ n = op.count /\ by = op.by_password
    OBVIOUS
  <1>1. /\ op = opened /\ op = [count |-> n, by_password |-> by]
        /\ n \in Nat /\ by \in [Users -> Nat]
        /\ n = opened.count /\ by = opened.by_password
    <2>1. op \in [count : Nat, by_password : [Users -> Nat]]
      BY <1>0 DEF LoginTypes, CountsOk
    <2> QED
      BY <1>0, <2>1
  <1>2. PICK u \in Users : u = s.user
    OBVIOUS
  <1>3. n + 1 \in Nat /\ by[u] + 1 \in Nat
    BY <1>1
  <1>4. CASE s.handler = "refresh"
    <2>1. logins = op
      BY <1>1, <1>4 DEF Opened
    <2> QED
      BY <1>1, <1>4, <2>1
  <1>5. CASE s.handler = "google"
    <2>1. logins = [count |-> n + 1, by_password |-> by]
      BY <1>1, <1>5 DEF Opened
    <2> QED
      BY <1>1, <1>3, <1>5, <2>1
  <1>6. CASE s.handler = "login"
    <2>1. PICK more : more = [by EXCEPT ![u] = by[u] + 1]
      OBVIOUS
    <2>2. logins = [count |-> n + 1, by_password |-> more]
      <3>1. logins = [op EXCEPT !.count = n + 1, !.by_password[u] = by[u] + 1]
        BY <1>1, <1>2, <1>6 DEF Opened
      <3> QED
        BY <1>1, <2>1, <3>1
    <2>3. more \in [Users -> Nat] /\ \A v \in Users : more[v] = IF v = u THEN by[v] + 1 ELSE by[v]
      BY <1>1, <1>3, <2>1
    <2> QED
      BY <1>1, <1>2, <1>3, <1>6, <2>2, <2>3
  <1> QED
    BY <1>4, <1>5, <1>6

\* A token is issued, or refused for its hash.
Issues(t, token) ==
    /\ token \in RefreshToken /\ ~token.is_revoked /\ ~Collides(token)
    /\ token.login = IF t.handler = "refresh" THEN refresh_tokens[t.token].login ELSE opened.count + 1
    /\ refresh_tokens' = WithRow(refresh_tokens, token) /\ opened' = Opened(t)
    /\ UNCHANGED <<accounts, login_attempts, wrong>>

\* What an Issue step does.
LEMMA IssueIs ==
    ASSUME LoginTypes, NEW r \in Requests, Issue(r), NEW t, t = auth_session[r]
    PROVE  /\ t.stage = "issue" /\ t \in LoginRequest /\ Carries(t, refresh_tokens, clock)
           /\ t.handler \in {"login", "google", "refresh"} /\ t.user \in Users
           /\ auth_session' = [auth_session EXCEPT ![r] = IdleRequest] /\ clock' = clock
           /\ UNCHANGED rows \/ \E token : Issues(t, token)
  <1>1. t \in LoginRequest /\ Carries(t, refresh_tokens, clock)
    BY DEF LoginTypes, RequestsOk
  <1>2. /\ t.stage = "issue" /\ clock' = clock
        /\ auth_session' = [auth_session EXCEPT ![r] = IdleRequest]
    BY DEF Issue, End
  <1>3. /\ t.handler \in {"login", "google", "refresh"} /\ t.user \in Users /\ t.client \in Clients
        /\ t.now \in Nat /\ (t.handler = "refresh" => t.token \in DOMAIN refresh_tokens)
    BY <1>1, <1>2 DEF Carries, LoginRequest
  <1>4. PICK token : token = NewToken(t)
    OBVIOUS
  <1>5. PICK login \in Nat :
            login = IF t.handler = "refresh" THEN refresh_tokens[t.token].login ELSE opened.count + 1
    <2>1. CASE t.handler = "refresh"
      <3>1. PICK old \in RefreshToken : old = refresh_tokens[t.token]
        BY <1>3, <2>1 DEF LoginTypes, TokensOk
      <3> QED
        BY <2>1, <3>1 DEF RefreshToken
    <2>2. CASE t.handler # "refresh"
      <3>1. opened.count \in Nat
        BY DEF LoginTypes, CountsOk
      <3> QED
        BY <2>2, <3>1
    <2> QED
      BY <2>1, <2>2
  <1>6. PICK end \in Nat : end = t.now + REFRESH_EXPIRE
    BY <1>3, AuthAssumption
  <1>7. token = [user |-> t.user, client |-> t.client, issued |-> clock, expires_at |-> end,
                 is_revoked |-> FALSE, login |-> login]
    BY <1>4, <1>5, <1>6 DEF NewToken
  <1>8. token \in RefreshToken /\ ~token.is_revoked /\ token.login = login
    <2>1. clock \in Nat
      BY DEF LoginTypes
    <2> QED
      BY <1>3, <1>7, <2>1 DEF RefreshToken
  <1>9. CASE Collides(token)
    BY <1>1, <1>2, <1>3, <1>4, <1>9 DEF Issue
  <1>10. CASE ~Collides(token)
    <2>1. /\ refresh_tokens' = WithRow(refresh_tokens, token) /\ opened' = Opened(t)
          /\ UNCHANGED <<accounts, login_attempts, wrong>>
      BY <1>4, <1>10 DEF Issue, WithRow
    <2>2. Issues(t, token)
      BY <1>5, <1>8, <1>10, <2>1 DEF Issues
    <2> QED
      BY <1>1, <1>2, <1>3, <2>2
  <1> QED
    BY <1>9, <1>10

\* The types after it.
LEMMA IssueTypes ==
    ASSUME LoginTypes, NEW r \in Requests, Issue(r)
    PROVE  LoginTypes'
  <1>1. PICK t : t = auth_session[r]
    OBVIOUS
  <1>2. /\ t.stage = "issue" /\ t \in LoginRequest /\ Carries(t, refresh_tokens, clock)
        /\ t.handler \in {"login", "google", "refresh"} /\ t.user \in Users
        /\ auth_session' = [auth_session EXCEPT ![r] = IdleRequest] /\ clock' = clock
        /\ UNCHANGED rows \/ \E token : Issues(t, token)
    BY <1>1, IssueIs
  <1>3. CASE UNCHANGED rows
    <2>1. AccountsOk(accounts') /\ CountsOk(login_attempts', wrong', opened')
          /\ refresh_tokens' = refresh_tokens /\ opened'.count = opened.count
      BY <1>3 DEF rows, LoginTypes
    <2> QED
      BY <1>2, <2>1, IdleRequestIs, SessionTypes
  <1>4. ASSUME NEW token, Issues(t, token)
        PROVE  LoginTypes'
    <2>1. PICK more, logins : more = refresh_tokens' /\ logins = opened'
      OBVIOUS
    <2>2. /\ logins \in [count : Nat, by_password : [Users -> Nat]]
          /\ logins.count = IF t.handler = "refresh" THEN opened.count ELSE opened.count + 1
      BY <1>2, <1>4, <2>1, OpenedIs DEF Issues
    <2>3. opened.count \in Nat /\ TokensOk(refresh_tokens, opened.count) /\ IsTable(refresh_tokens)
      BY DEF LoginTypes, TokensOk, CountsOk
    <2>4. PICK n \in Nat : /\ DOMAIN refresh_tokens = 1 .. n /\ DOMAIN more = 1 .. n + 1 /\ IsTable(more)
                           /\ \A i \in 1 .. n : more[i] = refresh_tokens[i]
                           /\ more[n + 1] = token
      BY <1>4, <2>1, <2>3, AppendRow DEF Issues
    <2>5. token.login \in 1 .. logins.count
      <3>1. CASE t.handler = "refresh"
        BY <1>2, <1>4, <2>2, <2>3, <3>1 DEF Issues, Carries, TokensOk
      <3>2. CASE t.handler # "refresh"
        BY <1>4, <2>2, <2>3, <3>2 DEF Issues
      <3> QED
        BY <3>1, <3>2
    <2>6. \A k \in 1 .. opened.count : k \in 1 .. logins.count
      BY <2>2, <2>3
    <2>7. \A i \in 1 .. n + 1 : more[i] \in RefreshToken /\ more[i].login \in 1 .. logins.count
      BY <1>4, <2>3, <2>4, <2>5, <2>6 DEF Issues, TokensOk
    <2>8. \A i \in 1 .. n : Hash(more[i]) # Hash(token)
      BY <1>4, <2>4 DEF Issues, Collides
    <2>9. ASSUME NEW i \in 1 .. n + 1, NEW j \in 1 .. n + 1, Hash(more[i]) = Hash(more[j])
          PROVE  i = j
      <3>1. CASE i \in 1 .. n /\ j \in 1 .. n
        BY <2>3, <2>4, <2>9, <3>1 DEF TokensOk
      <3>2. CASE i = n + 1 \/ j = n + 1
        BY <2>4, <2>8, <2>9, <3>2
      <3> QED
        BY <3>1, <3>2
    <2>10. TokensOk(more, logins.count)
      BY <2>4, <2>7, <2>9 DEF TokensOk
    <2>11. AccountsOk(accounts') /\ CountsOk(login_attempts', wrong', opened')
      BY <1>4, <2>1, <2>2 DEF Issues, LoginTypes, CountsOk
    <2>12. clock \in Nat /\ RequestsOk(auth_session, refresh_tokens, clock)
      BY DEF LoginTypes
    <2>13. RequestsOk(auth_session, more, clock)
      <3>1. DOMAIN refresh_tokens \subseteq DOMAIN more
        BY <2>4
      <3> QED
        BY <2>12, <3>1, RequestsAge
    <2>14. RequestsOk(auth_session', more, clock)
      BY <1>2, <2>13, IdleRequestIs, RequestMoves
    <2> QED
      BY <1>2, <2>1, <2>10, <2>11, <2>12, <2>14 DEF LoginTypes
  <1> QED
    BY <1>2, <1>3, <1>4

\* Every step keeps the types.
LEMMA LoginTypesStep ==
    ASSUME LoginTypes, Next
    PROVE  LoginTypes'
  <1>1. ASSUME NEW r \in Requests, BeginSome(r)
        PROVE  LoginTypes'
    <2>1. CASE UNCHANGED <<rows, clock, auth_session>>
      BY <2>1 DEF LoginTypes, rows
    <2>2. ASSUME NEW s, Begins(r, s)
          PROVE  LoginTypes'
      <3>1. AccountsOk(accounts') /\ CountsOk(login_attempts', wrong', opened')
            /\ refresh_tokens' = refresh_tokens /\ opened'.count = opened.count
        BY <2>2 DEF Begins, rows, LoginTypes
      <3> QED
        BY <2>2, <3>1, SessionTypes DEF Begins
    <2> QED
      BY <1>1, <2>1, <2>2, BeginIs
  <1>2. ASSUME NEW r \in Requests, Die(r)
        PROVE  LoginTypes'
    <2>1. /\ AccountsOk(accounts') /\ CountsOk(login_attempts', wrong', opened')
          /\ refresh_tokens' = refresh_tokens /\ opened'.count = opened.count
          /\ auth_session' = [auth_session EXCEPT ![r] = IdleRequest] /\ clock' = clock
      BY <1>2 DEF Die, End, rows, LoginTypes
    <2> QED
      BY <2>1, IdleRequestIs, SessionTypes
  <1>3. ASSUME NEW u \in Users, NEW status \in {"active", "inactive"}, SetStatus(u, status)
        PROVE  LoginTypes'
    <2>1. PICK a : a = accounts[u] /\ a \in Account /\ a.failed < MAX_FAILED_ATTEMPTS
      BY DEF LoginTypes, AccountsOk
    <2>2. PICK b : b = [a EXCEPT !.status = status]
      OBVIOUS
    <2>3. b \in Account /\ b.failed = a.failed
      BY <2>1, <2>2 DEF Account
    <2>4. accounts' = [accounts EXCEPT ![u] = b]
      BY <1>3, <2>1, <2>2 DEF SetStatus
    <2>5. AccountsOk(accounts')
      BY <2>1, <2>3, <2>4 DEF LoginTypes, AccountsOk
    <2> QED
      BY <1>3, <2>5 DEF SetStatus, LoginTypes
  <1>4. CASE Tick
    <2>1. clock \in Nat /\ clock' = clock + 1 /\ RequestsOk(auth_session, refresh_tokens, clock)
      BY <1>4 DEF Tick, LoginTypes
    <2>2. PICK later \in Nat : later = clock' /\ later >= clock
      BY <2>1
    <2>3. RequestsOk(auth_session, refresh_tokens, later)
      BY <2>1, <2>2, RequestsAge
    <2> QED
      BY <1>4, <2>2, <2>3 DEF Tick, LoginTypes, rows
  <1> QED
    BY <1>1, <1>2, <1>3, <1>4, CountTypes, ResetTypes, RecordTypes, RevokeTypes, IssueTypes
       DEF Next, Continue

\* At the start nobody has logged in.
LEMMA LoginTypesStart ==
    ASSUME MCInit
    PROVE  LoginTypes
  <1>1. Init
    BY DEF MCInit
  <1>2. AccountsOk(accounts)
    BY <1>1, AuthAssumption DEF Init, AccountsOk, Account
  <1>3. refresh_tokens = <<>> /\ TokensOk(refresh_tokens, opened.count)
    BY <1>1, EmptyTable DEF Init, TokensOk
  <1>4. CountsOk(login_attempts, wrong, opened) /\ clock \in Nat
    BY <1>1 DEF Init, CountsOk
  <1>5. RequestsOk(auth_session, refresh_tokens, clock)
    BY <1>1, IdleRequestIs DEF Init, RequestsOk
  <1> QED
    BY <1>2, <1>3, <1>4, <1>5 DEF LoginTypes
-----------------------------------------------------------------------------
\* Logins: the lockout.

\* right: right passwords are entered too.
LockRows(acc, failures, one, right) ==
    /\ ~right => \A u \in Users :
            /\ acc[u].failed <= failures[u]
            /\ acc[u].locked_until # None => failures[u] >= MAX_FAILED_ATTEMPTS
    /\ one => \A u \in Users :
            /\ acc[u].failed = failures[u] % MAX_FAILED_ATTEMPTS
            /\ acc[u].locked_until # None <=> failures[u] >= MAX_FAILED_ATTEMPTS

\* A request that has checked a password has read the lock as it is, and it does not run.
LockKnows(s, acc, failures, one, right) ==
    /\ ~right => s.stage # "reset"
    /\ ~right /\ s.stage = "count" => s.failed <= failures[s.user]
    /\ one /\ s.stage \in {"count", "reset"} =>
        /\ s.failed = acc[s.user].failed /\ s.locked_until = acc[s.user].locked_until
        /\ s.locked_until = None \/ s.locked_until <= s.now
    /\ one /\ s.stage = "record success" => acc[s.user].locked_until = None
    /\ one /\ s.stage = "issue" /\ s.handler = "login" => acc[s.user].locked_until = None

LockInv ==
    /\ LockRows(accounts, wrong, Serial, Uses("right"))
    /\ \A r \in Requests : LockKnows(auth_session[r], accounts, wrong, Serial, Uses("right"))

\* The session of a request that has not begun.
LEMMA IdleKnows ==
    \A acc, failures, one, right : LockKnows(IdleRequest, acc, failures, one, right)
  BY IdleRequestIs DEF LockKnows

\* The other sessions when one request moves.
LEMMA LockMoves ==
    ASSUME LoginTypes, LockInv, Apart(auth_session, Serial), NEW r \in Requests,
           NEW s \in LoginRequest, auth_session' = [auth_session EXCEPT ![r] = s], workload' = workload,
           NEW acc, acc = accounts', NEW failures, failures = wrong',
           \/ acc = accounts /\ failures = wrong
           \/ auth_session[r].stage # "idle"
              /\ (Uses("right") \/ \A u \in Users : failures[u] >= wrong[u] /\ failures[u] \in Nat),
           LockRows(acc, failures, Serial, Uses("right")),
           LockKnows(s, acc, failures, Serial, Uses("right"))
    PROVE  LockInv'
  <1>1. PICK new : new = auth_session'
    OBVIOUS
  <1>2. new[r] = s /\ \A q \in Requests \ {r} : new[q] = auth_session[q]
    BY <1>1 DEF LoginTypes, RequestsOk
  <1>3. ASSUME NEW q \in Requests
        PROVE  LockKnows(new[q], acc, failures, Serial, Uses("right"))
    <2>1. CASE q = r
      BY <1>2, <2>1
    <2>2. CASE q # r
      <3>1. PICK t : t = auth_session[q]
        OBVIOUS
      <3>2. /\ t \in LoginRequest /\ Carries(t, refresh_tokens, clock)
            /\ LockKnows(t, accounts, wrong, Serial, Uses("right"))
        BY <3>1 DEF LoginTypes, RequestsOk, LockInv
      <3>3. CASE acc = accounts /\ failures = wrong
        BY <1>2, <2>2, <3>1, <3>2, <3>3
      <3>4. CASE /\ auth_session[r].stage # "idle"
                 /\ Uses("right") \/ \A u \in Users : failures[u] >= wrong[u] /\ failures[u] \in Nat
        <4>1. Serial => t.stage = "idle"
          BY <2>2, <3>1, <3>4 DEF Apart
        <4>2. ASSUME ~Uses("right"), t.stage = "count"
              PROVE  t.failed <= failures[t.user]
          <5>1. PICK u \in Users : u = t.user
            BY <3>2, <4>2 DEF Carries
          <5>2. t.failed \in Nat /\ wrong[u] \in Nat /\ t.failed <= wrong[u]
            BY <3>2, <4>2, <5>1 DEF LoginRequest, LoginTypes, CountsOk, LockKnows
          <5>3. failures[u] >= wrong[u] /\ failures[u] \in Nat
            BY <3>4, <4>2
          <5> QED
            BY <5>1, <5>2, <5>3
        <4>3. LockKnows(t, acc, failures, Serial, Uses("right"))
          BY <3>2, <4>1, <4>2 DEF LockKnows
        <4> QED
          BY <1>2, <2>2, <3>1, <4>3
      <3> QED
        BY <3>3, <3>4
    <2> QED
      BY <2>1, <2>2
  <1>4. Serial' = Serial /\ Uses("right")' = Uses("right")
    BY DEF Serial, Uses
  <1> QED
    BY <1>1, <1>3, <1>4 DEF LockInv

\* A request begins.
LEMMA LockBegins ==
    ASSUME LoginTypes, LockInv, Apart(auth_session, Serial), NEW r \in Requests, NEW s, Begins(r, s),
           workload' = workload, Uses("right") \/ s.stage # "reset"
    PROVE  LockInv'
  <1>1. /\ s \in LoginRequest /\ auth_session' = [auth_session EXCEPT ![r] = s]
        /\ accounts' = accounts /\ wrong' = wrong
    BY DEF Begins, rows
  <1>2. LockRows(accounts, wrong, Serial, Uses("right"))
    BY DEF LockInv
  <1>3. CASE BeginsLogin(s)
    <2>1. PICK u \in Users : u = s.user
      BY <1>3 DEF BeginsLogin
    <2>2. PICK a \in Account : a = accounts[u]
      BY DEF LoginTypes, AccountsOk
    <2>3. a.locked_until \in Nat \cup {None} /\ clock \in Nat
      BY DEF Account, LoginTypes
    <2>4. /\ s.failed = a.failed /\ s.locked_until = a.locked_until /\ s.now = clock
          /\ s.stage # "record failure" => ~Locked(a, clock)
          /\ s.stage \in {"count", "reset", "record failure"}
      BY <1>3, <2>1, <2>2 DEF BeginsLogin
    <2>5. s.stage # "record failure" => s.locked_until = None \/ s.locked_until <= s.now
      <3>1. PICK until, time : until = a.locked_until /\ time = clock
        OBVIOUS
      <3>2. ~Locked(a, time) => until = None \/ ~(until > time)
        BY <3>1 DEF Locked
      <3>3. until \in Nat => (~(until > time) => until <= time)
        BY <2>3, <3>1
      <3>4. ~Locked(a, time) => until = None \/ until <= time
        BY <2>3, <3>1, <3>2, <3>3
      <3> QED
        BY <2>4, <3>1, <3>4
    <2>6. ~Uses("right") => a.failed <= wrong[u]
      BY <1>2, <2>2 DEF LockRows
    <2>7. LockKnows(s, accounts, wrong, Serial, Uses("right"))
      BY <2>1, <2>2, <2>4, <2>5, <2>6 DEF LockKnows
    <2> QED
      BY <1>1, <1>2, <2>7, LockMoves
  <1>4. CASE BeginsGoogle(s) \/ BeginsRefresh(s)
    <2>1. LockKnows(s, accounts, wrong, Serial, Uses("right"))
      BY <1>4 DEF LockKnows, BeginsGoogle, BeginsRefresh
    <2> QED
      BY <1>1, <1>2, <2>1, LockMoves
  <1> QED
    BY <1>3, <1>4 DEF Begins

\* A wrong password is counted once.
LEMMA LockCounts ==
    ASSUME LoginTypes, LockInv, Apart(auth_session, Serial), NEW r \in Requests, CountFailure(r),
           workload' = workload
    PROVE  LockInv'
  <1>1. PICK t : t = auth_session[r]
    OBVIOUS
  <1>2. t.stage = "count" /\ Goto(r, "record failure")
    BY <1>1 DEF CountFailure
  <1>3. PICK s : s = [t EXCEPT !.stage = "record failure"]
    OBVIOUS
  <1>4. /\ auth_session' = [auth_session EXCEPT ![r] = s]
        /\ t \in LoginRequest /\ Carries(t, refresh_tokens, clock)
        /\ LockKnows(t, accounts, wrong, Serial, Uses("right"))
    BY <1>1, <1>2, <1>3, GotoIs DEF LockInv
  <1>5. s \in LoginRequest /\ s.stage = "record failure"
    BY <1>3, <1>4 DEF LoginRequest
  <1>6. PICK u \in Users : u = t.user
    BY <1>2, <1>4 DEF Carries
  <1>7. PICK n \in Nat, m \in Nat \ {0} : n = wrong[u] /\ m = MAX_FAILED_ATTEMPTS
    BY AuthAssumption DEF LoginTypes, CountsOk
  <1>8. PICK f \in Nat : f = t.failed /\ f < m /\ t.now \in Nat
    BY <1>2, <1>4, <1>7 DEF Carries, LoginRequest
  <1>9. PICK a \in Account : a = accounts[u] /\ a.failed \in Nat
    BY DEF LoginTypes, AccountsOk, Account
  <1>10. PICK b : b = Counted(a, t)
    OBVIOUS
  <1>11. accounts' = [accounts EXCEPT ![u] = b] /\ wrong' = [wrong EXCEPT ![u] = n + 1]
    BY <1>1, <1>6, <1>7, <1>9, <1>10 DEF CountFailure
  <1>12. PICK until \in Nat : until = t.now + LOCKOUT /\ until # None
    BY <1>8, AuthAssumption
  <1>13. b.failed = (IF f + 1 >= m THEN IF f = 0 THEN a.failed ELSE 0 ELSE f + 1)
         /\ b.locked_until = (IF f + 1 >= m THEN until ELSE a.locked_until)
    BY <1>7, <1>8, <1>9, <1>10, <1>12 DEF Counted, Account
  <1>14. ASSUME ~Uses("right")
         PROVE  b.failed <= n + 1 /\ (b.locked_until # None => n + 1 >= m)
    <2>1. f <= n /\ a.failed <= n /\ (a.locked_until # None => n >= m)
      BY <1>2, <1>4, <1>6, <1>7, <1>8, <1>9, <1>14 DEF LockKnows, LockInv, LockRows
    <2> QED
      BY <1>9, <1>13, <2>1
  <1>15. ASSUME Serial
         PROVE  b.failed = (n + 1) % m /\ (b.locked_until # None <=> n + 1 >= m)
    <2>1. PICK x \in Nat : x = n % m /\ x <= n
      BY NextRemainder
    <2>2. f = a.failed /\ a.failed = x /\ (a.locked_until # None <=> n >= m)
      BY <1>2, <1>4, <1>6, <1>7, <1>8, <1>9, <1>15, <2>1 DEF LockKnows, LockInv, LockRows
    <2>3. (n + 1) % m = IF x + 1 >= m THEN 0 ELSE x + 1
      BY <2>1, NextRemainder
    <2>4. n < m => x = n
      BY <2>1
    <2>5. b.locked_until # None <=> n + 1 >= m
      BY <1>12, <1>13, <2>1, <2>2, <2>4
    <2>6. b.failed = IF x + 1 >= m THEN 0 ELSE x + 1
      BY <1>13, <2>2
    <2> QED
      BY <2>3, <2>5, <2>6
  <1>16. PICK acc, failures : acc = accounts' /\ failures = wrong'
    OBVIOUS
  <1>17. /\ acc[u] = b /\ failures[u] = n + 1
         /\ \A v \in Users \ {u} : acc[v] = accounts[v] /\ failures[v] = wrong[v]
    BY <1>11, <1>16 DEF LoginTypes, AccountsOk, CountsOk
  <1>18. LockRows(acc, failures, Serial, Uses("right"))
    <2>1. ASSUME ~Uses("right"), NEW v \in Users
          PROVE  /\ acc[v].failed <= failures[v]
                 /\ acc[v].locked_until # None => failures[v] >= MAX_FAILED_ATTEMPTS
      <3>1. CASE v = u
        BY <1>7, <1>14, <1>17, <2>1, <3>1
      <3>2. CASE v # u
        BY <1>17, <2>1, <3>2 DEF LockInv, LockRows
      <3> QED
        BY <3>1, <3>2
    <2>2. ASSUME Serial, NEW v \in Users
          PROVE  /\ acc[v].failed = failures[v] % MAX_FAILED_ATTEMPTS
                 /\ acc[v].locked_until # None <=> failures[v] >= MAX_FAILED_ATTEMPTS
      <3>1. CASE v = u
        BY <1>7, <1>15, <1>17, <2>2, <3>1
      <3>2. CASE v # u
        BY <1>17, <2>2, <3>2 DEF LockInv, LockRows
      <3> QED
        BY <3>1, <3>2
    <2> QED
      BY <2>1, <2>2 DEF LockRows
  <1>19. \A v \in Users : failures[v] >= wrong[v] /\ failures[v] \in Nat
    BY <1>7, <1>17 DEF LoginTypes, CountsOk
  <1>20. LockKnows(s, acc, failures, Serial, Uses("right"))
    BY <1>5 DEF LockKnows
  <1> QED
    BY <1>1, <1>2, <1>4, <1>5, <1>16, <1>18, <1>19, <1>20, LockMoves

\* A right password clears the counter and the lock.
LEMMA LockResets ==
    ASSUME LoginTypes, LockInv, Apart(auth_session, Serial), NEW r \in Requests, Reset(r),
           workload' = workload
    PROVE  LockInv'
  <1>1. PICK t : t = auth_session[r]
    OBVIOUS
  <1>2. t.stage = "reset" /\ Goto(r, "record success")
    BY <1>1 DEF Reset
  <1>3. PICK s : s = [t EXCEPT !.stage = "record success"]
    OBVIOUS
  <1>4. /\ auth_session' = [auth_session EXCEPT ![r] = s]
        /\ t \in LoginRequest /\ Carries(t, refresh_tokens, clock)
        /\ LockKnows(t, accounts, wrong, Serial, Uses("right"))
    BY <1>1, <1>2, <1>3, GotoIs DEF LockInv
  <1>5. s \in LoginRequest /\ s.stage = "record success" /\ s.user = t.user
    BY <1>3, <1>4 DEF LoginRequest
  <1>6. PICK u \in Users : u = t.user
    BY <1>2, <1>4 DEF Carries
  <1>7. PICK a \in Account : a = accounts[u]
    BY DEF LoginTypes, AccountsOk
  <1>8. PICK b : b = Cleared(a, t)
    OBVIOUS
  <1>9. accounts' = [accounts EXCEPT ![u] = b] /\ wrong' = [wrong EXCEPT ![u] = 0]
    BY <1>1, <1>6, <1>7, <1>8 DEF Reset
  <1>10. Uses("right")
    BY <1>2, <1>4 DEF LockKnows
  <1>11. ASSUME Serial
         PROVE  b.failed = 0 /\ b.locked_until = None
    <2>1. t.failed = a.failed /\ t.locked_until = a.locked_until
      BY <1>2, <1>4, <1>6, <1>7, <1>11 DEF LockKnows
    <2> QED
      BY <1>7, <1>8, <2>1 DEF Cleared, Account
  <1>12. PICK acc, failures : acc = accounts' /\ failures = wrong'
    OBVIOUS
  <1>13. /\ acc[u] = b /\ failures[u] = 0
         /\ \A v \in Users \ {u} : acc[v] = accounts[v] /\ failures[v] = wrong[v]
    BY <1>9, <1>12 DEF LoginTypes, AccountsOk, CountsOk
  <1>14. LockRows(acc, failures, Serial, Uses("right"))
    <2>1. ASSUME Serial, NEW v \in Users
          PROVE  /\ acc[v].failed = failures[v] % MAX_FAILED_ATTEMPTS
                 /\ acc[v].locked_until # None <=> failures[v] >= MAX_FAILED_ATTEMPTS
      <3>1. CASE v = u
        <4>1. 0 % MAX_FAILED_ATTEMPTS = 0 /\ ~(0 >= MAX_FAILED_ATTEMPTS)
          BY NextRemainder, AuthAssumption
        <4> QED
          BY <1>11, <1>13, <2>1, <3>1, <4>1
      <3>2. CASE v # u
        BY <1>13, <2>1, <3>2 DEF LockInv, LockRows
      <3> QED
        BY <3>1, <3>2
    <2> QED
      BY <1>10, <2>1 DEF LockRows
  <1>15. LockKnows(s, acc, failures, Serial, Uses("right"))
    BY <1>5, <1>6, <1>10, <1>11, <1>13 DEF LockKnows
  <1> QED
    BY <1>1, <1>2, <1>4, <1>5, <1>10, <1>12, <1>14, <1>15, LockMoves
\* Every step keeps what is known of the lock.
LEMMA LockStepHolds ==
    ASSUME LoginTypes, LockInv, Apart(auth_session, Serial), Next, workload' = workload,
           Uses("right") \/ \A r \in Requests : auth_session'[r].stage # "reset"
    PROVE  LockInv'
  <1>1. LockRows(accounts, wrong, Serial, Uses("right"))
    BY DEF LockInv
  <1>2. ASSUME NEW r \in Requests, NEW s \in LoginRequest, auth_session' = [auth_session EXCEPT ![r] = s],
               UNCHANGED <<accounts, wrong>>, LockKnows(s, accounts, wrong, Serial, Uses("right"))
        PROVE  LockInv'
    BY <1>1, <1>2, LockMoves
  <1>3. ASSUME NEW r \in Requests, BeginSome(r)
        PROVE  LockInv'
    <2>1. CASE UNCHANGED <<rows, clock, auth_session>>
      BY <2>1 DEF LockInv, rows, Serial, Uses
    <2>2. ASSUME NEW s, Begins(r, s)
          PROVE  LockInv'
      <3>1. auth_session'[r] = s
        BY <2>2 DEF Begins, LoginTypes, RequestsOk
      <3> QED
        BY <2>2, <3>1, LockBegins
    <2> QED
      BY <1>3, <2>1, <2>2, BeginIs
  <1>4. ASSUME NEW r \in Requests, Die(r)
        PROVE  LockInv'
    <2>1. UNCHANGED <<accounts, wrong>> /\ auth_session' = [auth_session EXCEPT ![r] = IdleRequest]
      BY <1>4 DEF Die, End, rows
    <2> QED
      BY <1>2, <2>1, IdleRequestIs, IdleKnows
  <1>5. ASSUME NEW r \in Requests, RecordAttempt(r)
        PROVE  LockInv'
    <2>1. PICK t : t = auth_session[r]
      OBVIOUS
    <2>2. /\ t \in LoginRequest /\ Carries(t, refresh_tokens, clock)
          /\ LockKnows(t, accounts, wrong, Serial, Uses("right"))
      BY <2>1 DEF LoginTypes, RequestsOk, LockInv
    <2>3. t.stage \in {"record failure", "record success"} /\ UNCHANGED <<accounts, wrong>>
      BY <1>5, <2>1 DEF RecordAttempt
    <2>4. CASE t.stage = "record failure"
      <3>1. auth_session' = [auth_session EXCEPT ![r] = IdleRequest]
        BY <1>5, <2>1, <2>4 DEF RecordAttempt, End
      <3> QED
        BY <1>2, <2>3, <3>1, IdleRequestIs, IdleKnows
    <2>5. CASE t.stage = "record success"
      <3>1. PICK s : s = [t EXCEPT !.stage = "issue"]
        OBVIOUS
      <3>2. Goto(r, "issue")
        BY <1>5, <2>1, <2>5 DEF RecordAttempt
      <3>3. auth_session' = [auth_session EXCEPT ![r] = s]
        BY <2>1, <3>1, <3>2, GotoIs
      <3>4. s \in LoginRequest /\ s.stage = "issue" /\ s.user = t.user
        BY <2>2, <3>1 DEF LoginRequest
      <3>5. LockKnows(s, accounts, wrong, Serial, Uses("right"))
        BY <2>2, <2>5, <3>4 DEF LockKnows
      <3> QED
        BY <1>2, <2>3, <3>3, <3>4, <3>5
    <2> QED
      BY <2>3, <2>4, <2>5
  <1>6. ASSUME NEW r \in Requests, Revoke(r)
        PROVE  LockInv'
    <2>1. PICK t, s : t = auth_session[r] /\ s = [t EXCEPT !.stage = "issue"]
      OBVIOUS
    <2>2. /\ t.stage = "revoke" /\ t \in LoginRequest /\ Carries(t, refresh_tokens, clock)
          /\ auth_session' = [auth_session EXCEPT ![r] = s] /\ UNCHANGED <<accounts, wrong>>
      BY <1>6, <2>1, RevokeIs
    <2>3. s \in LoginRequest /\ s.stage = "issue" /\ s.handler = "refresh"
      BY <2>1, <2>2 DEF LoginRequest, Carries
    <2>4. LockKnows(s, accounts, wrong, Serial, Uses("right"))
      BY <2>3 DEF LockKnows
    <2> QED
      BY <1>2, <2>2, <2>3, <2>4
  <1>7. ASSUME NEW r \in Requests, Issue(r)
        PROVE  LockInv'
    <2>1. UNCHANGED <<accounts, wrong>> /\ auth_session' = [auth_session EXCEPT ![r] = IdleRequest]
      BY <1>7 DEF Issue, End, rows
    <2> QED
      BY <1>2, <2>1, IdleRequestIs, IdleKnows
  <1>8. ASSUME NEW u \in Users, NEW status \in {"active", "inactive"}, SetStatus(u, status)
        PROVE  LockInv'
    <2>1. PICK acc : acc = accounts'
      OBVIOUS
    <2>2. UNCHANGED <<wrong, auth_session>>
      BY <1>8 DEF SetStatus
    <2>3. ASSUME NEW v \in Users
          PROVE  acc[v].failed = accounts[v].failed /\ acc[v].locked_until = accounts[v].locked_until
      <3>1. PICK a \in Account : a = accounts[v]
        BY DEF LoginTypes, AccountsOk
      <3>2. acc[v] = a \/ acc[v] = [a EXCEPT !.status = status]
        BY <1>8, <2>1, <3>1 DEF SetStatus, LoginTypes, AccountsOk
      <3> QED
        BY <3>1, <3>2 DEF Account
    <2>4. LockRows(acc, wrong, Serial, Uses("right"))
      BY <1>1, <2>3 DEF LockRows
    <2>5. ASSUME NEW r \in Requests
          PROVE  LockKnows(auth_session[r], acc, wrong, Serial, Uses("right"))
      <3>1. PICK t : t = auth_session[r]
        OBVIOUS
      <3>2. Carries(t, refresh_tokens, clock) /\ LockKnows(t, accounts, wrong, Serial, Uses("right"))
        BY <3>1 DEF LoginTypes, RequestsOk, LockInv
      <3>3. t.stage # "idle" => t.user \in Users
        BY <3>2 DEF Carries
      <3> QED
        BY <2>3, <3>1, <3>2, <3>3 DEF LockKnows
    <2> QED
      BY <2>1, <2>2, <2>4, <2>5 DEF LockInv, Serial, Uses
  <1>9. CASE Tick
    BY <1>9 DEF Tick, rows, LockInv, Serial, Uses
  <1> QED
    BY <1>3, <1>4, <1>5, <1>6, <1>7, <1>8, <1>9, LockCounts, LockResets DEF Next, Continue

\* One request at a time: a lock that runs keeps its end and lets no password in.
LEMMA RunningLocksHold ==
    ASSUME LoginTypes, LockInv, Serial, Next
    PROVE  LockStep
  <1> SUFFICES ASSUME NEW u \in Users, NEW until \in Nat, until = accounts[u].locked_until, clock < until
               PROVE  /\ accounts'[u].locked_until = until
                      /\ opened'.by_password[u] = opened.by_password[u]
    <2>1. ASSUME NEW u \in Users, accounts[u].locked_until # None
          PROVE  accounts[u].locked_until \in Nat
      <3>1. accounts[u] \in Account
        BY DEF LoginTypes, AccountsOk
      <3> QED
        BY <2>1, <3>1 DEF Account
    <2> QED
      BY <2>1 DEF LockStep
  <1>1. until # None /\ clock \in Nat
    BY AuthAssumption DEF LoginTypes
  <1>2. PICK a \in Account : a = accounts[u]
    BY DEF LoginTypes, AccountsOk
  <1>3. CASE UNCHANGED <<accounts, opened>>
    BY <1>3
  <1>4. ASSUME NEW r \in Requests, NEW t, t = auth_session[r], t.stage \in {"count", "reset"}
        PROVE  t.user # u
    <2>1. /\ t \in LoginRequest /\ Carries(t, refresh_tokens, clock)
          /\ LockKnows(t, accounts, wrong, Serial, Uses("right"))
      BY <1>4 DEF LoginTypes, RequestsOk, LockInv
    <2>2. t.now \in Nat /\ t.now <= clock
      BY <1>4, <2>1 DEF LoginRequest, Carries
    <2>3. t.user = u => t.locked_until = until /\ (until = None \/ until <= t.now)
      BY <1>4, <2>1 DEF LockKnows
    <2> QED
      BY <1>1, <2>2, <2>3
  <1>5. ASSUME NEW r \in Requests, CountFailure(r) \/ Reset(r)
        PROVE  UNCHANGED opened /\ accounts'[u] = a
    <2>1. PICK t : t = auth_session[r] /\ t.stage \in {"count", "reset"}
      BY <1>5 DEF CountFailure, Reset
    <2>2. t.user # u
      BY <1>4, <2>1
    <2>3. \E b : accounts' = [accounts EXCEPT ![t.user] = b]
      BY <1>5, <2>1 DEF CountFailure, Reset
    <2> QED
      BY <1>2, <1>5, <2>2, <2>3 DEF CountFailure, Reset, LoginTypes, AccountsOk
  <1>6. ASSUME NEW r \in Requests, Issue(r)
        PROVE  UNCHANGED accounts /\ opened'.by_password[u] = opened.by_password[u]
    <2>1. PICK t : t = auth_session[r]
      OBVIOUS
    <2>2. /\ t.stage = "issue" /\ t.handler \in {"login", "google", "refresh"} /\ t.user \in Users
          /\ UNCHANGED rows \/ \E token : Issues(t, token)
      BY <1>6, <2>1, IssueIs
    <2>3. LockKnows(t, accounts, wrong, Serial, Uses("right"))
      BY <2>1 DEF LockInv
    <2>4. ~(t.handler = "login" /\ t.user = u)
      BY <1>1, <2>2, <2>3 DEF LockKnows
    <2>5. CASE UNCHANGED rows
      BY <2>5 DEF rows
    <2>6. CASE \E token : Issues(t, token)
      <3>1. opened' = Opened(t) /\ UNCHANGED accounts
        BY <2>6 DEF Issues
      <3> QED
        BY <2>2, <2>4, <3>1, OpenedIs
    <2> QED
      BY <2>2, <2>5, <2>6
  <1>7. ASSUME NEW v \in Users, NEW status \in {"active", "inactive"}, SetStatus(v, status)
        PROVE  UNCHANGED opened /\ accounts'[u].locked_until = until
    <2>1. accounts'[u] = a \/ accounts'[u] = [a EXCEPT !.status = status]
      BY <1>2, <1>7 DEF SetStatus, LoginTypes, AccountsOk
    <2> QED
      BY <1>2, <1>7, <2>1 DEF SetStatus, Account
  <1>8. ASSUME NEW r \in Requests, BeginSome(r)
        PROVE  UNCHANGED <<accounts, opened>>
    BY <1>8, BeginIs DEF Begins, rows
  <1>9. ASSUME NEW r \in Requests, Die(r) \/ RecordAttempt(r) \/ Revoke(r)
        PROVE  UNCHANGED <<accounts, opened>>
    BY <1>9 DEF Die, RecordAttempt, Revoke, rows
  <1>10. CASE Tick
    BY <1>3, <1>10 DEF Tick, rows
  <1> QED
    BY <1>2, <1>3, <1>5, <1>6, <1>7, <1>8, <1>9, <1>10 DEF Next, Continue
-----------------------------------------------------------------------------
\* Logins: the attempts recorded.

\* A password was right and recorded; the token is not issued yet.
Owed(s, u) == s.stage = "issue" /\ s.handler = "login" /\ s.user = u

OwedTo(sessions, u) == {r \in Requests : Owed(sessions[r], u)}

One(condition) == IF condition THEN 1 ELSE 0

RecordInv ==
    \A u \in Users :
        opened.by_password[u] + Cardinality(OwedTo(auth_session, u)) <= login_attempts[u].succeeded

\* The tokens owed when one session changes.
LEMMA OwedMoves ==
    ASSUME NEW sessions, NEW r \in Requests, NEW t, t = sessions[r], NEW s, NEW new,
           new[r] = s, \A q \in Requests \ {r} : new[q] = sessions[q], NEW u
    PROVE  /\ Cardinality(OwedTo(sessions, u)) \in Nat /\ Cardinality(OwedTo(new, u)) \in Nat
           /\ Cardinality(OwedTo(new, u)) =
                Cardinality(OwedTo(sessions, u)) + One(Owed(s, u)) - One(Owed(t, u))
  <1>1. PICK P, Q, B : /\ P = OwedTo(sessions, u) /\ Q = OwedTo(new, u) /\ B = P \ {r}
    OBVIOUS
  <1>2. P \in SUBSET Requests /\ B \in SUBSET Requests /\ r \notin B
    BY <1>1 DEF OwedTo
  <1>3. IsFiniteSet(B) /\ Cardinality(B) \in Nat
    BY <1>2, PeopleAssumption, FS_Subset, FS_CardinalityType
  <1>4. P = IF Owed(t, u) THEN B \cup {r} ELSE B
    BY <1>1 DEF OwedTo
  <1>5. Q = IF Owed(s, u) THEN B \cup {r} ELSE B
    BY <1>1 DEF OwedTo
  <1>6. Cardinality(B \cup {r}) = Cardinality(B) + 1
    BY <1>2, <1>3, FS_AddElement
  <1>7. Cardinality(P) = Cardinality(B) + One(Owed(t, u))
    BY <1>3, <1>4, <1>6 DEF One
  <1>8. Cardinality(Q) = Cardinality(B) + One(Owed(s, u))
    BY <1>3, <1>5, <1>6 DEF One
  <1>9. One(Owed(t, u)) \in Nat /\ One(Owed(s, u)) \in Nat
    BY DEF One
  <1> QED
    BY <1>1, <1>3, <1>7, <1>8, <1>9

\* One request moves.
LEMMA RecordMoves ==
    ASSUME LoginTypes, LoginTypes', RecordInv, NEW r \in Requests, NEW t, t = auth_session[r], NEW s,
           auth_session' = [auth_session EXCEPT ![r] = s],
           \A u \in Users :
             opened'.by_password[u] + One(Owed(s, u)) + login_attempts[u].succeeded <=
                opened.by_password[u] + One(Owed(t, u)) + login_attempts'[u].succeeded
    PROVE  RecordInv'
  <1>1. PICK new : new = auth_session'
    OBVIOUS
  <1>2. new[r] = s /\ \A q \in Requests \ {r} : new[q] = auth_session[q]
    BY <1>1 DEF LoginTypes, RequestsOk
  <1>3. ASSUME NEW u \in Users
        PROVE  opened'.by_password[u] + Cardinality(OwedTo(new, u)) <= login_attempts'[u].succeeded
    <2>1. PICK c \in Nat, d \in Nat :
            /\ c = Cardinality(OwedTo(auth_session, u)) /\ d = Cardinality(OwedTo(new, u))
            /\ d = c + One(Owed(s, u)) - One(Owed(t, u))
      <3>1. /\ Cardinality(OwedTo(auth_session, u)) \in Nat /\ Cardinality(OwedTo(new, u)) \in Nat
            /\ Cardinality(OwedTo(new, u)) =
                 Cardinality(OwedTo(auth_session, u)) + One(Owed(s, u)) - One(Owed(t, u))
        BY <1>2, OwedMoves
      <3> QED
        BY <3>1
    <2>2. PICK x, y : x = One(Owed(s, u)) /\ y = One(Owed(t, u)) /\ x \in Nat /\ y \in Nat
      BY DEF One
    <2>3. PICK b, n : b = opened.by_password[u] /\ n = login_attempts[u].succeeded
      OBVIOUS
    <2>4. b \in Nat /\ n \in Nat
      BY <2>3 DEF LoginTypes, CountsOk
    <2>5. PICK e, m : e = opened'.by_password[u] /\ m = login_attempts'[u].succeeded
      OBVIOUS
    <2>6. e \in Nat /\ m \in Nat
      BY <2>5 DEF LoginTypes, CountsOk
    <2>7. b + c <= n
      BY <2>1, <2>3 DEF RecordInv
    <2>8. e + x + n <= b + y + m
      BY <2>2, <2>3, <2>5
    <2>9. e + d <= m
      BY <2>1, <2>2, <2>4, <2>6, <2>7, <2>8
    <2> QED
      BY <2>1, <2>5, <2>9
  <1> QED
    BY <1>1, <1>3 DEF RecordInv

\* Whatever overlaps or dies, an attempt is recorded before its token is issued.
LEMMA RecordStep ==
    ASSUME LoginTypes, LoginTypes', RecordInv, Next
    PROVE  RecordInv'
  <1>1. ASSUME NEW u \in Users
        PROVE  opened.by_password[u] \in Nat /\ login_attempts[u].succeeded \in Nat
    BY DEF LoginTypes, CountsOk
  <1>2. ASSUME NEW s, NEW u, ~Owed(s, u) PROVE One(Owed(s, u)) = 0
    BY <1>2 DEF One
  <1>3. ASSUME NEW s, NEW u PROVE One(Owed(s, u)) \in {0, 1} /\ (Owed(s, u) => One(Owed(s, u)) = 1)
    BY DEF One
  <1>4. ASSUME NEW r \in Requests, NEW s, auth_session' = [auth_session EXCEPT ![r] = s],
               UNCHANGED <<opened, login_attempts>>, \A u : ~Owed(s, u)
        PROVE  RecordInv'
    <2>1. PICK t : t = auth_session[r]
      OBVIOUS
    <2>2. ASSUME NEW u \in Users
          PROVE  opened'.by_password[u] + One(Owed(s, u)) + login_attempts[u].succeeded <=
                   opened.by_password[u] + One(Owed(t, u)) + login_attempts'[u].succeeded
      <3>1. PICK b \in Nat, n \in Nat : b = opened.by_password[u] /\ n = login_attempts[u].succeeded
        BY <1>1
      <3>2. PICK x, y \in {0, 1} : x = One(Owed(s, u)) /\ y = One(Owed(t, u)) /\ x = 0
        BY <1>2, <1>3, <1>4
      <3>3. b + x + n <= b + y + n
        BY <3>1, <3>2
      <3> QED
        BY <1>4, <3>1, <3>2, <3>3
    <2> QED
      BY <1>4, <2>1, <2>2, RecordMoves
  <1>5. \A u : ~Owed(IdleRequest, u)
    BY IdleRequestIs DEF Owed
  <1>6. ASSUME NEW r \in Requests, BeginSome(r)
        PROVE  RecordInv'
    <2>1. CASE UNCHANGED <<rows, clock, auth_session>>
      BY <2>1 DEF RecordInv, rows
    <2>2. ASSUME NEW s, Begins(r, s)
          PROVE  RecordInv'
      <3>1. \A u : ~Owed(s, u)
        BY <2>2 DEF Begins, BeginsLogin, BeginsGoogle, BeginsRefresh, Owed
      <3> QED
        BY <1>4, <2>2, <3>1 DEF Begins, rows
    <2> QED
      BY <1>6, <2>1, <2>2, BeginIs
  <1>7. ASSUME NEW r \in Requests, Die(r)
        PROVE  RecordInv'
    BY <1>4, <1>5, <1>7 DEF Die, End, rows
  <1>8. ASSUME NEW r \in Requests, CountFailure(r) \/ Reset(r)
        PROVE  RecordInv'
    <2>1. ASSUME NEW stage \in {"record failure", "record success"}, Goto(r, stage),
                 UNCHANGED <<opened, login_attempts>>
          PROVE  RecordInv'
      <3>1. PICK t : t = auth_session[r]
        OBVIOUS
      <3>2. PICK s : s = [t EXCEPT !.stage = stage]
        OBVIOUS
      <3>3. auth_session' = [auth_session EXCEPT ![r] = s] /\ t \in LoginRequest
        BY <2>1, <3>1, <3>2, GotoIs
      <3>4. \A u : ~Owed(s, u)
        BY <3>2, <3>3 DEF LoginRequest, Owed
      <3> QED
        BY <1>4, <2>1, <3>3, <3>4
    <2> QED
      BY <1>8, <2>1 DEF CountFailure, Reset
  <1>9. ASSUME NEW r \in Requests, Revoke(r)
        PROVE  RecordInv'
    <2>1. PICK t, s : t = auth_session[r] /\ s = [t EXCEPT !.stage = "issue"]
      OBVIOUS
    <2>2. /\ t.stage = "revoke" /\ t \in LoginRequest /\ Carries(t, refresh_tokens, clock)
          /\ auth_session' = [auth_session EXCEPT ![r] = s] /\ UNCHANGED <<opened, login_attempts>>
      BY <1>9, <2>1, RevokeIs
    <2>3. \A u : ~Owed(s, u)
      BY <2>1, <2>2 DEF LoginRequest, Carries, Owed
    <2> QED
      BY <1>4, <2>2, <2>3
  <1>10. ASSUME NEW r \in Requests, RecordAttempt(r)
         PROVE  RecordInv'
    <2>1. PICK t : t = auth_session[r]
      OBVIOUS
    <2>2. t \in LoginRequest /\ Carries(t, refresh_tokens, clock)
      BY <2>1 DEF LoginTypes, RequestsOk
    <2>3. t.stage \in {"record failure", "record success"} /\ UNCHANGED opened
      BY <1>10, <2>1 DEF RecordAttempt
    <2>4. PICK v \in Users : v = t.user
      BY <2>2, <2>3 DEF Carries
    <2>5. PICK row : row = login_attempts[v] /\ row \in [failed : Nat, succeeded : Nat]
      BY DEF LoginTypes, CountsOk
    <2>6. login_attempts' = [login_attempts EXCEPT ![v] = Recorded(row, t.stage)]
      BY <1>10, <2>1, <2>4, <2>5 DEF RecordAttempt
    <2>7. PICK s : /\ auth_session' = [auth_session EXCEPT ![r] = s]
                   /\ t.stage = "record failure" => s = IdleRequest
                   /\ t.stage = "record success" => s = [t EXCEPT !.stage = "issue"]
      <3>1. CASE t.stage = "record failure"
        BY <1>10, <2>1, <3>1 DEF RecordAttempt, End
      <3>2. CASE t.stage = "record success"
        <4>1. Goto(r, "issue")
          BY <1>10, <2>1, <3>2 DEF RecordAttempt
        <4> QED
          BY <2>1, <3>2, <4>1, GotoIs
      <3> QED
        BY <2>3, <3>1, <3>2
    <2>8. ASSUME NEW u \in Users
          PROVE  opened'.by_password[u] + One(Owed(s, u)) + login_attempts[u].succeeded <=
                   opened.by_password[u] + One(Owed(t, u)) + login_attempts'[u].succeeded
      <3>1. PICK b \in Nat, n \in Nat : b = opened.by_password[u] /\ n = login_attempts[u].succeeded
        BY <1>1
      <3>2. PICK x \in {0, 1} : x = One(Owed(s, u)) /\ One(Owed(t, u)) = 0
        BY <1>2, <1>3, <2>3 DEF Owed
      <3>3. PICK m : m = login_attempts'[u].succeeded
        OBVIOUS
      <3>4. x + n <= m /\ m \in Nat
        <4>1. CASE t.stage = "record failure"
          <5>1. x = 0
            BY <1>2, <1>5, <2>7, <3>2, <4>1
          <5>2. m = n
            BY <2>5, <2>6, <3>1, <3>3, <4>1 DEF Recorded, LoginTypes, CountsOk
          <5> QED
            BY <3>1, <5>1, <5>2
        <4>2. CASE t.stage = "record success"
          <5>1. s.user = v
            BY <2>2, <2>4, <2>7, <4>2 DEF LoginRequest
          <5>2. u # v => x = 0
            BY <1>2, <3>2, <5>1 DEF Owed
          <5>3. m = IF u = v THEN n + 1 ELSE n
            BY <2>5, <2>6, <3>1, <3>3, <4>2 DEF Recorded, LoginTypes, CountsOk
          <5> QED
            BY <3>1, <3>2, <5>2, <5>3
        <4> QED
          BY <2>3, <4>1, <4>2
      <3>5. b + x + n <= b + 0 + m
        BY <3>1, <3>2, <3>4
      <3> QED
        BY <2>3, <3>1, <3>2, <3>3, <3>5
    <2> QED
      BY <2>1, <2>7, <2>8, RecordMoves
  <1>11. ASSUME NEW r \in Requests, Issue(r)
         PROVE  RecordInv'
    <2>1. PICK t : t = auth_session[r]
      OBVIOUS
    <2>2. /\ t.stage = "issue" /\ t.handler \in {"login", "google", "refresh"} /\ t.user \in Users
          /\ auth_session' = [auth_session EXCEPT ![r] = IdleRequest]
          /\ UNCHANGED rows \/ \E token : Issues(t, token)
      BY <1>11, <2>1, IssueIs
    <2>3. CASE UNCHANGED rows
      BY <1>4, <1>5, <2>2, <2>3 DEF rows
    <2>4. ASSUME NEW token, Issues(t, token)
          PROVE  RecordInv'
      <3>1. opened' = Opened(t) /\ login_attempts' = login_attempts
        BY <2>4 DEF Issues
      <3>2. ASSUME NEW u \in Users
            PROVE  opened'.by_password[u] + One(Owed(IdleRequest, u)) + login_attempts[u].succeeded <=
                     opened.by_password[u] + One(Owed(t, u)) + login_attempts'[u].succeeded
        <4>1. PICK b \in Nat, n \in Nat : b = opened.by_password[u] /\ n = login_attempts[u].succeeded
          BY <1>1
        <4>2. PICK e : e = opened'.by_password[u]
                       /\ e = IF t.handler = "login" /\ u = t.user THEN b + 1 ELSE b
          BY <2>2, <3>1, <4>1, OpenedIs
        <4>3. PICK y \in {0, 1} : y = One(Owed(t, u)) /\ (t.handler = "login" /\ u = t.user => y = 1)
          BY <1>3, <2>2 DEF Owed
        <4>4. One(Owed(IdleRequest, u)) = 0
          BY <1>2, <1>5
        <4>5. e + 0 + n <= b + y + n
          BY <4>1, <4>2, <4>3
        <4> QED
          BY <3>1, <4>1, <4>2, <4>3, <4>4, <4>5
      <3> QED
        BY <2>1, <2>2, <3>2, RecordMoves
    <2> QED
      BY <2>2, <2>3, <2>4
  <1>12. ASSUME NEW u \in Users, NEW status \in {"active", "inactive"}, SetStatus(u, status)
         PROVE  RecordInv'
    BY <1>12 DEF SetStatus, RecordInv
  <1>13. CASE Tick
    BY <1>13 DEF Tick, rows, RecordInv
  <1> QED
    BY <1>6, <1>7, <1>8, <1>9, <1>10, <1>11, <1>12, <1>13 DEF Next, Continue
-----------------------------------------------------------------------------
\* Logins: the chains of tokens.

Usable(tokens, l) == \E i \in DOMAIN tokens : tokens[i].login = l /\ ~tokens[i].is_revoked

Renews(s) == s.handler = "refresh" /\ s.stage = "issue"

Renewing(sessions, tokens, l) ==
    \E r \in Requests : Renews(sessions[r]) /\ tokens[sessions[r].token].login = l

StateOf(sessions, tokens, l) ==
    IF Usable(tokens, l) THEN "usable" ELSE IF Renewing(sessions, tokens, l) THEN "renewing" ELSE "lost"

\* A request that renews a login has read its one usable token, and revoked it.
ChainRows(tokens) ==
    \A i, j \in DOMAIN tokens :
        tokens[i].login = tokens[j].login /\ ~tokens[i].is_revoked /\ ~tokens[j].is_revoked => i = j

ChainKnows(s, tokens) ==
    /\ s.stage = "revoke" => ~tokens[s.token].is_revoked
    /\ Renews(s) => ~Usable(tokens, tokens[s.token].login)

ChainInv ==
    Serial => /\ ChainRows(refresh_tokens)
              /\ \A r \in Requests : ChainKnows(auth_session[r], refresh_tokens)

StatesAre == LoginStates = [l \in 1 .. opened.count |-> StateOf(auth_session, refresh_tokens, l)]

\* The states of the logins.
LEMMA StatesAreSo == StatesAre
  BY DEF StatesAre, LoginStates, LoginState, StateOf, Live, Usable, Renewing, Renews

\* The same, after the step.
LEMMA StatesAreSoNext ==
    LoginStates' = [l \in 1 .. opened'.count |-> StateOf(auth_session', refresh_tokens', l)]
  <1>1. StatesAre'
    BY StatesAreSo, PTL
  <1> QED
    BY <1>1 DEF StatesAre

\* Nothing happens to a login.
LEMMA NoLoginChanges ==
    ASSUME opened'.count = opened.count,
           \A l \in 1 .. opened.count :
             StateOf(auth_session', refresh_tokens', l) = StateOf(auth_session, refresh_tokens, l)
    PROVE  LoginStates' = LoginStates
  BY StatesAreSo, StatesAreSoNext DEF StatesAre

\* One login changes.
LEMMA OneLoginChanges ==
    ASSUME opened'.count = opened.count, NEW k \in 1 .. opened.count,
           \A l \in (1 .. opened.count) \ {k} :
             StateOf(auth_session', refresh_tokens', l) = StateOf(auth_session, refresh_tokens, l),
           NEW a, NEW b, a = StateOf(auth_session, refresh_tokens, k),
           b = StateOf(auth_session', refresh_tokens', k),
           (a = "usable" /\ b = "renewing") \/ (a = "renewing" /\ b \in {"usable", "lost"})
    PROVE  Chains!Next
  <1>1. PICK old, new, n : old = LoginStates /\ new = LoginStates' /\ n = opened.count
    OBVIOUS
  <1>2. /\ old = [l \in 1 .. n |-> StateOf(auth_session, refresh_tokens, l)]
        /\ new = [l \in 1 .. n |-> StateOf(auth_session', refresh_tokens', l)]
    BY <1>1, StatesAreSo, StatesAreSoNext DEF StatesAre
  <1>3. old[k] = a /\ new = [old EXCEPT ![k] = b] /\ k \in DOMAIN old
    <2>1. DOMAIN old = 1 .. n /\ k \in 1 .. n /\ old[k] = a
      BY <1>1, <1>2
    <2>2. \A l \in 1 .. n : StateOf(auth_session', refresh_tokens', l) = IF l = k THEN b ELSE old[l]
      BY <1>1, <1>2
    <2>3. new = [l \in 1 .. n |-> IF l = k THEN b ELSE old[l]]
      BY <1>2, <2>2
    <2>4. old = [l \in 1 .. n |-> old[l]]
      BY <1>2
    <2>5. new = [old EXCEPT ![k] = b]
      BY <2>1, <2>3, <2>4
    <2> QED
      BY <2>1, <2>5
  <1>4. Chains!Renew(k) \/ Chains!Renewed(k) \/ Chains!Lose(k)
    BY <1>1, <1>3 DEF Chains!Renew, Chains!Renewed, Chains!Lose
  <1> QED
    BY <1>1, <1>3, <1>4 DEF Chains!Next

\* A login is opened.
LEMMA LoginOpens ==
    ASSUME opened.count \in Nat, opened'.count = opened.count + 1,
           \A l \in 1 .. opened.count :
             StateOf(auth_session', refresh_tokens', l) = StateOf(auth_session, refresh_tokens, l),
           StateOf(auth_session', refresh_tokens', opened.count + 1) = "usable"
    PROVE  Chains!Next
  <1>1. PICK old, new, n : old = LoginStates /\ new = LoginStates' /\ n = opened.count
    OBVIOUS
  <1>2. /\ old = [l \in 1 .. n |-> StateOf(auth_session, refresh_tokens, l)]
        /\ new = [l \in 1 .. n + 1 |-> StateOf(auth_session', refresh_tokens', l)]
    BY <1>1, StatesAreSo, StatesAreSoNext DEF StatesAre
  <1>3. IsTable(old) /\ Len(old) = n /\ DOMAIN old = 1 .. n
    <2>1. old = [l \in 1 .. n |-> old[l]] /\ n \in Nat
      BY <1>1, <1>2
    <2> QED
      BY <2>1, TableOf
  <1>4. PICK more : more = WithRow(old, "usable")
    OBVIOUS
  <1>5. /\ DOMAIN more = 1 .. n + 1 /\ more[n + 1] = "usable" /\ IsTable(more)
        /\ \A l \in 1 .. n : more[l] = old[l]
    BY <1>3, <1>4, AppendRow
  <1>6. more = [l \in 1 .. n + 1 |-> more[l]]
    <2>1. Len(more) = n + 1
      BY <1>3, <1>4, AppendRow
    <2> QED
      BY <1>5, <2>1, TableIs
  <1>7. \A l \in 1 .. n + 1 : more[l] = StateOf(auth_session', refresh_tokens', l)
    <2>1. \A l \in 1 .. n : more[l] = StateOf(auth_session', refresh_tokens', l)
      BY <1>1, <1>2, <1>5
    <2>2. more[n + 1] = StateOf(auth_session', refresh_tokens', n + 1)
      BY <1>1, <1>5
    <2> QED
      BY <1>1, <2>1, <2>2
  <1>8. new = more
    BY <1>2, <1>6, <1>7
  <1> QED
    BY <1>1, <1>4, <1>8 DEF Chains!Next, Chains!Open, WithRow

\* One request at a time, the others are idle.
LEMMA Alone ==
    ASSUME NEW r \in Requests, NEW t, t = auth_session[r],
           \A q \in Requests \ {r} : auth_session[q].stage = "idle", NEW s, NEW new,
           new[r] = s, \A q \in Requests \ {r} : new[q] = auth_session[q]
    PROVE  /\ \A q \in Requests \ {r} : new[q].stage = "idle"
           /\ \A tokens, l : Renewing(auth_session, tokens, l)
                                <=> Renews(t) /\ tokens[t.token].login = l
           /\ \A tokens, l : Renewing(new, tokens, l)
                                <=> Renews(s) /\ tokens[s.token].login = l
  <1>1. \A q \in Requests \ {r} : new[q].stage = "idle"
    OBVIOUS
  <1>2. \A tokens, l : Renewing(auth_session, tokens, l) <=> Renews(t) /\ tokens[t.token].login = l
    BY DEF Renewing, Renews
  <1>3. \A tokens, l : Renewing(new, tokens, l) <=> Renews(s) /\ tokens[s.token].login = l
    BY <1>1 DEF Renewing, Renews
  <1> QED
    BY <1>1, <1>2, <1>3

Chained == ChainInv' /\ [Chains!Next]_LoginStates

\* The chains stay as they are when the session is not renewing before or after.
LEMMA ChainKeeps ==
    ASSUME LoginTypes, Serial, ChainInv, workload' = workload, NEW r \in Requests, NEW t,
           t = auth_session[r], NEW s, auth_session' = [auth_session EXCEPT ![r] = s],
           refresh_tokens' = refresh_tokens, opened'.count = opened.count,
           ChainKnows(s, refresh_tokens), ~Renews(s), ~Renews(t)
    PROVE  Chained
  <1>1. PICK new : new = auth_session'
    OBVIOUS
  <1>2. new[r] = s /\ \A q \in Requests \ {r} : new[q] = auth_session[q]
    BY <1>1 DEF LoginTypes, RequestsOk
  <1>3. \A l : Renewing(new, refresh_tokens, l) <=> Renewing(auth_session, refresh_tokens, l)
    BY <1>2 DEF Renewing
  <1>4. \A l : StateOf(new, refresh_tokens, l) = StateOf(auth_session, refresh_tokens, l)
    BY <1>3 DEF StateOf
  <1>5. LoginStates' = LoginStates
    BY <1>1, <1>4, NoLoginChanges
  <1>6. \A q \in Requests : ChainKnows(new[q], refresh_tokens)
    BY <1>2 DEF ChainInv
  <1>7. ChainInv'
    BY <1>1, <1>6 DEF ChainInv, Serial
  <1> QED
    BY <1>5, <1>7 DEF Chained

\* The token is revoked.
LEMMA ChainRevokes ==
    ASSUME LoginTypes, Serial, Apart(auth_session, Serial), ChainInv, workload' = workload,
           NEW r \in Requests, Revoke(r)
    PROVE  Chained
  <1>1. PICK t, s : t = auth_session[r] /\ s = [t EXCEPT !.stage = "issue"]
    OBVIOUS
  <1>2. PICK k, old, row : k = t.token /\ old = refresh_tokens[k] /\ row = [old EXCEPT !.is_revoked = TRUE]
    OBVIOUS
  <1>3. PICK more : more = Changed(refresh_tokens, k, row)
    OBVIOUS
  <1>4. /\ t.stage = "revoke" /\ t \in LoginRequest /\ Carries(t, refresh_tokens, clock)
        /\ k \in DOMAIN refresh_tokens /\ refresh_tokens' = more
        /\ auth_session' = [auth_session EXCEPT ![r] = s] /\ opened' = opened
    BY <1>1, <1>2, <1>3, RevokeIs
  <1>5. s.stage = "issue" /\ s.handler = "refresh" /\ s.token = k
    BY <1>1, <1>2, <1>4 DEF LoginRequest, Carries
  <1>6. IsTable(refresh_tokens) /\ old \in RefreshToken /\ old.login \in 1 .. opened.count
    BY <1>2, <1>4 DEF LoginTypes, TokensOk
  <1>7. row.is_revoked /\ row.login = old.login
    BY <1>2, <1>6 DEF RefreshToken
  <1>8. /\ DOMAIN more = DOMAIN refresh_tokens
        /\ \A i \in DOMAIN refresh_tokens : more[i] = IF i = k THEN row ELSE refresh_tokens[i]
    BY <1>3, <1>6, ChangeRow
  <1>9. PICK l0 \in 1 .. opened.count : l0 = old.login
    BY <1>6
  <1>10. ~old.is_revoked /\ ChainRows(refresh_tokens)
    BY <1>1, <1>2, <1>4 DEF ChainInv, ChainKnows
  <1>11. ~Usable(more, l0) /\ Usable(refresh_tokens, l0)
    BY <1>2, <1>4, <1>7, <1>8, <1>9, <1>10 DEF Usable, ChainRows
  <1>12. \A l : l # l0 => (Usable(more, l) <=> Usable(refresh_tokens, l))
    BY <1>2, <1>7, <1>8, <1>9 DEF Usable
  <1>13. PICK new : new = auth_session' /\ new = [auth_session EXCEPT ![r] = s]
    BY <1>4
  <1>14. /\ new[r] = s /\ \A q \in Requests \ {r} : new[q].stage = "idle"
         /\ \A l : ~Renewing(auth_session, refresh_tokens, l)
         /\ \A l : Renewing(new, more, l) <=> l = l0
    <2>1. /\ t = auth_session[r] /\ \A q \in Requests \ {r} : auth_session[q].stage = "idle"
          /\ new[r] = s /\ \A q \in Requests \ {r} : new[q] = auth_session[q]
      BY <1>1, <1>4, <1>13 DEF Apart, LoginTypes, RequestsOk
    <2>2. /\ new[r] = s /\ \A q \in Requests \ {r} : new[q].stage = "idle"
          /\ \A l : Renewing(auth_session, refresh_tokens, l)
                       <=> Renews(t) /\ refresh_tokens[t.token].login = l
          /\ \A l : Renewing(new, more, l) <=> Renews(s) /\ more[s.token].login = l
      BY <2>1, Alone
    <2>3. ~Renews(t) /\ Renews(s) /\ more[s.token].login = l0
      BY <1>2, <1>4, <1>5, <1>7, <1>8, <1>9 DEF Renews
    <2> QED
      BY <2>2, <2>3
  <1>15. /\ StateOf(auth_session, refresh_tokens, l0) = "usable" /\ StateOf(new, more, l0) = "renewing"
         /\ \A l : l # l0 => StateOf(new, more, l) = StateOf(auth_session, refresh_tokens, l)
    BY <1>11, <1>12, <1>14 DEF StateOf
  <1>16. Chains!Next
    BY <1>4, <1>13, <1>15, OneLoginChanges
  <1>17. ChainRows(more)
    BY <1>2, <1>7, <1>8, <1>10 DEF ChainRows
  <1>18. \A q \in Requests : ChainKnows(new[q], more)
    <2>1. more[s.token].login = l0
      BY <1>2, <1>4, <1>5, <1>7, <1>8, <1>9
    <2>2. ChainKnows(s, more)
      BY <1>5, <1>11, <2>1 DEF ChainKnows
    <2> QED
      BY <1>14, <2>2 DEF ChainKnows, Renews
  <1>19. ChainInv'
    BY <1>4, <1>13, <1>17, <1>18 DEF ChainInv
  <1> QED
    BY <1>16, <1>19 DEF Chained
\* A request ends and no token comes.
LEMMA ChainEnds ==
    ASSUME LoginTypes, Serial, Apart(auth_session, Serial), ChainInv, workload' = workload,
           NEW r \in Requests, auth_session[r].stage # "idle",
           auth_session' = [auth_session EXCEPT ![r] = IdleRequest],
           refresh_tokens' = refresh_tokens, opened'.count = opened.count
    PROVE  Chained
  <1>1. PICK t : t = auth_session[r]
    OBVIOUS
  <1>2. /\ ~Renews(IdleRequest) /\ ChainKnows(IdleRequest, refresh_tokens)
        /\ t \in LoginRequest /\ Carries(t, refresh_tokens, clock)
    BY <1>1, IdleRequestIs DEF Renews, ChainKnows, LoginTypes, RequestsOk
  <1>3. CASE ~Renews(t)
    BY <1>1, <1>2, <1>3, ChainKeeps
  <1>4. CASE Renews(t)
    <2>1. PICK new : new = auth_session' /\ new[r] = IdleRequest
                     /\ \A q \in Requests \ {r} : new[q] = auth_session[q]
      BY DEF LoginTypes, RequestsOk
    <2>2. \A q \in Requests \ {r} : auth_session[q].stage = "idle"
      BY DEF Apart
    <2>3. PICK l0 \in 1 .. opened.count : l0 = refresh_tokens[t.token].login
      BY <1>2, <1>4 DEF Renews, Carries, LoginTypes, TokensOk
    <2>4. /\ \A l : Renewing(auth_session, refresh_tokens, l) <=>
                    Renews(t) /\ refresh_tokens[t.token].login = l
          /\ \A l : Renewing(new, refresh_tokens, l) <=>
                Renews(IdleRequest) /\ refresh_tokens[IdleRequest.token].login = l
          /\ \A q \in Requests \ {r} : new[q].stage = "idle"
      <3>1. /\ t = auth_session[r] /\ new[r] = IdleRequest
            /\ \A q \in Requests \ {r} : new[q] = auth_session[q]
            /\ \A q \in Requests \ {r} : auth_session[q].stage = "idle"
        BY <1>1, <2>1, <2>2
      <3>2. \A l : Renewing(auth_session, refresh_tokens, l)
                        <=> Renews(t) /\ refresh_tokens[t.token].login = l
        BY <3>1, Alone
      <3>3. \A l : Renewing(new, refresh_tokens, l) <=>
                Renews(IdleRequest) /\ refresh_tokens[IdleRequest.token].login = l
        BY <3>1, Alone
      <3> QED
        BY <3>1, <3>2, <3>3
    <2>5. /\ \A l : Renewing(auth_session, refresh_tokens, l) <=> l0 = l
          /\ \A l : ~Renewing(new, refresh_tokens, l)
      BY <1>2, <1>4, <2>3, <2>4
    <2>6. ~Usable(refresh_tokens, l0)
      BY <1>1, <1>4, <2>3 DEF ChainInv, ChainKnows
    <2>7. /\ StateOf(auth_session, refresh_tokens, l0) = "renewing"
          /\ StateOf(new, refresh_tokens, l0) = "lost"
          /\ \A l : l # l0 => StateOf(new, refresh_tokens, l) = StateOf(auth_session, refresh_tokens, l)
      BY <2>5, <2>6 DEF StateOf
    <2>8. Chains!Next
      BY <2>1, <2>7, OneLoginChanges
    <2>9. \A q \in Requests : ChainKnows(new[q], refresh_tokens)
      BY <1>2, <2>1, <2>4 DEF ChainKnows, Renews
    <2>10. ChainInv'
      BY <2>1, <2>9 DEF ChainInv
    <2> QED
      BY <2>8, <2>10 DEF Chained
  <1> QED
    BY <1>3, <1>4

\* A token is issued.
LEMMA ChainIssues ==
    ASSUME LoginTypes, Serial, Apart(auth_session, Serial), ChainInv, workload' = workload,
           NEW r \in Requests, NEW t, t = auth_session[r], t.stage = "issue",
           t.handler \in {"login", "google", "refresh"}, t.user \in Users,
           Carries(t, refresh_tokens, clock),
           auth_session' = [auth_session EXCEPT ![r] = IdleRequest], NEW token, Issues(t, token)
    PROVE  Chained
  <1>1. PICK new, more, count : /\ new = auth_session' /\ more = refresh_tokens' /\ count = opened.count
                                /\ more = WithRow(refresh_tokens, token)
    BY DEF Issues
  <1>2. /\ new[r] = IdleRequest
        /\ \A q \in Requests \ {r} : new[q] = auth_session[q]
        /\ \A q \in Requests \ {r} : auth_session[q].stage = "idle"
    BY <1>1 DEF LoginTypes, RequestsOk, Apart
  <1>3. /\ \A l : Renewing(auth_session, refresh_tokens, l) <=> Renews(t) /\ refresh_tokens[t.token].login = l
        /\ \A l : Renewing(new, more, l) <=> Renews(IdleRequest) /\ more[IdleRequest.token].login = l
        /\ \A q \in Requests \ {r} : new[q].stage = "idle"
    BY <1>2, Alone
  <1>4. \A l : ~Renewing(new, more, l)
    BY <1>3, IdleRequestIs DEF Renews
  <1>5. \A q \in Requests : ChainKnows(new[q], more)
    BY <1>2, <1>3, IdleRequestIs DEF ChainKnows, Renews
  <1>6. count \in Nat /\ IsTable(refresh_tokens)
        /\ \A i \in DOMAIN refresh_tokens : refresh_tokens[i].login \in 1 .. count
    BY <1>1 DEF LoginTypes, TokensOk, CountsOk
  <1>7. PICK n \in Nat : /\ DOMAIN refresh_tokens = 1 .. n /\ DOMAIN more = 1 .. n + 1
                         /\ \A i \in 1 .. n : more[i] = refresh_tokens[i]
                         /\ more[n + 1] = token
    BY <1>1, <1>6, AppendRow
  <1>8. PICK l0 : l0 = token.login
    OBVIOUS
  <1>9. ~token.is_revoked /\ Usable(more, l0)
    BY <1>7, <1>8 DEF Issues, Usable
  <1>10. \A l : l # l0 => (Usable(more, l) <=> Usable(refresh_tokens, l))
    BY <1>7, <1>8 DEF Usable
  <1>11. ASSUME ~Usable(refresh_tokens, l0)
         PROVE  ChainRows(more)
    <2>1. ASSUME NEW i \in 1 .. n + 1, NEW j \in 1 .. n + 1, more[i].login = more[j].login,
                 ~more[i].is_revoked, ~more[j].is_revoked
          PROVE  i = j
      <3>1. CASE i \in 1 .. n /\ j \in 1 .. n
        BY <1>7, <2>1, <3>1 DEF ChainInv, ChainRows
      <3>2. CASE i = n + 1 \/ j = n + 1
        BY <1>7, <1>8, <1>11, <2>1, <3>2 DEF Usable
      <3> QED
        BY <3>1, <3>2
    <2> QED
      BY <1>7, <2>1 DEF ChainRows
  <1>12. opened'.count = IF t.handler = "refresh" THEN count ELSE count + 1
    <2>1. opened' = Opened(t)
      BY DEF Issues
    <2> QED
      BY <1>1, <2>1, OpenedIs
  <1>13. CASE t.handler = "refresh"
    <2>1. Renews(t) /\ l0 = refresh_tokens[t.token].login /\ l0 \in 1 .. count
      BY <1>6, <1>8, <1>13 DEF Issues, Renews, Carries
    <2>2. ~Usable(refresh_tokens, l0)
      BY <2>1 DEF ChainInv, ChainKnows
    <2>3. /\ StateOf(auth_session, refresh_tokens, l0) = "renewing"
          /\ StateOf(new, more, l0) = "usable"
          /\ \A l : l # l0 => StateOf(new, more, l) = StateOf(auth_session, refresh_tokens, l)
      BY <1>3, <1>4, <1>9, <1>10, <2>1, <2>2 DEF StateOf
    <2>4. Chains!Next
      BY <1>1, <1>12, <1>13, <2>1, <2>3, OneLoginChanges
    <2>5. ChainInv'
      BY <1>1, <1>5, <1>11, <2>2 DEF ChainInv
    <2> QED
      BY <2>4, <2>5 DEF Chained
  <1>14. CASE t.handler # "refresh"
    <2>1. ~Renews(t) /\ l0 = count + 1
      BY <1>1, <1>8, <1>14 DEF Issues, Renews
    <2>2. ~Usable(refresh_tokens, l0)
      BY <1>6, <2>1 DEF Usable
    <2>3. /\ StateOf(new, more, l0) = "usable"
          /\ \A l : l # l0 => StateOf(new, more, l) = StateOf(auth_session, refresh_tokens, l)
      BY <1>3, <1>4, <1>9, <1>10, <2>1 DEF StateOf
    <2>4. \A l \in 1 .. count : l # l0
      BY <1>6, <2>1
    <2>5. Chains!Next
      BY <1>1, <1>6, <1>12, <1>14, <2>1, <2>3, <2>4, LoginOpens
    <2>6. ChainInv'
      BY <1>1, <1>5, <1>11, <2>2 DEF ChainInv
    <2> QED
      BY <2>5, <2>6 DEF Chained
  <1> QED
    BY <1>13, <1>14

\* One request at a time, every step is one of the chains.
LEMMA ChainStep ==
    ASSUME LoginTypes, Serial, Apart(auth_session, Serial), ChainInv, workload' = workload, Next
    PROVE  Chained
  <1>1. CASE UNCHANGED <<refresh_tokens, auth_session, opened>>
    <2>1. LoginStates' = LoginStates
      BY <1>1, NoLoginChanges
    <2>2. ChainInv'
      BY <1>1 DEF ChainInv, Serial
    <2> QED
      BY <2>1, <2>2 DEF Chained
  <1>2. ASSUME NEW r \in Requests, BeginSome(r)
        PROVE  Chained
    <2>1. CASE UNCHANGED <<rows, clock, auth_session>>
      BY <1>1, <2>1 DEF rows
    <2>2. ASSUME NEW s, Begins(r, s)
          PROVE  Chained
      <3>1. PICK t : t = auth_session[r] /\ t.stage = "idle"
        BY <2>2 DEF Begins
      <3>2. /\ ~Renews(s) /\ ChainKnows(s, refresh_tokens) /\ ~Renews(t)
        BY <2>2, <3>1 DEF Begins, BeginsLogin, BeginsGoogle, BeginsRefresh, Renews, ChainKnows
      <3>3. /\ auth_session' = [auth_session EXCEPT ![r] = s]
            /\ refresh_tokens' = refresh_tokens /\ opened'.count = opened.count
        BY <2>2 DEF Begins, rows
      <3> QED
        BY <3>1, <3>2, <3>3, ChainKeeps
    <2> QED
      BY <1>2, <2>1, <2>2, BeginIs
  <1>3. ASSUME NEW r \in Requests, Die(r)
        PROVE  Chained
    BY <1>3, ChainEnds DEF Die, End, rows
  <1>4. ASSUME NEW r \in Requests, NEW stage \in {"record failure", "record success", "issue"},
               Goto(r, stage), auth_session[r].handler = "login",
               UNCHANGED <<refresh_tokens, opened>>
        PROVE  Chained
    <2>1. PICK t : t = auth_session[r]
      OBVIOUS
    <2>2. PICK s : s = [t EXCEPT !.stage = stage]
      OBVIOUS
    <2>3. auth_session' = [auth_session EXCEPT ![r] = s] /\ t \in LoginRequest
      BY <1>4, <2>1, <2>2, GotoIs
    <2>4. s.stage = stage /\ s.handler = "login" /\ t.handler = "login"
      BY <1>4, <2>1, <2>2, <2>3 DEF LoginRequest
    <2>5. ~Renews(s) /\ ~Renews(t) /\ ChainKnows(s, refresh_tokens)
      BY <2>4 DEF Renews, ChainKnows
    <2>6. refresh_tokens' = refresh_tokens /\ opened'.count = opened.count
      BY <1>4
    <2> QED
      BY <2>1, <2>3, <2>5, <2>6, ChainKeeps
  <1>5. ASSUME NEW r \in Requests, CountFailure(r) \/ Reset(r) \/ RecordAttempt(r)
        PROVE  Chained
    <2>1. auth_session[r].stage \in {"count", "reset", "record failure", "record success"}
          /\ UNCHANGED <<refresh_tokens, opened>>
      BY <1>5 DEF CountFailure, Reset, RecordAttempt
    <2>2. auth_session[r].handler = "login"
      BY <2>1 DEF LoginTypes, RequestsOk, Carries
    <2>3. \/ Goto(r, "record failure") \/ Goto(r, "record success") \/ Goto(r, "issue")
          \/ auth_session' = [auth_session EXCEPT ![r] = IdleRequest]
      BY <1>5 DEF CountFailure, Reset, RecordAttempt, End
    <2>4. CASE auth_session' = [auth_session EXCEPT ![r] = IdleRequest]
      BY <2>1, <2>4, ChainEnds
    <2> QED
      BY <1>4, <2>1, <2>2, <2>3, <2>4
  <1>6. ASSUME NEW r \in Requests, Issue(r)
        PROVE  Chained
    <2>1. PICK t : t = auth_session[r]
      OBVIOUS
    <2>2. /\ t.stage = "issue" /\ Carries(t, refresh_tokens, clock)
          /\ t.handler \in {"login", "google", "refresh"} /\ t.user \in Users
          /\ auth_session' = [auth_session EXCEPT ![r] = IdleRequest]
          /\ UNCHANGED rows \/ \E token : Issues(t, token)
      BY <1>6, <2>1, IssueIs
    <2>3. CASE UNCHANGED rows
      <3>1. refresh_tokens' = refresh_tokens /\ opened'.count = opened.count
        BY <2>3 DEF rows
      <3> QED
        BY <2>1, <2>2, <3>1, ChainEnds
    <2>4. ASSUME NEW token, Issues(t, token)
          PROVE  Chained
      BY <2>1, <2>2, <2>4, ChainIssues
    <2> QED
      BY <2>2, <2>3, <2>4
  <1>7. ASSUME NEW u \in Users, NEW status \in {"active", "inactive"}, SetStatus(u, status)
        PROVE  Chained
    BY <1>1, <1>7 DEF SetStatus
  <1>8. CASE Tick
    BY <1>1, <1>8 DEF Tick, rows
  <1> QED
    BY <1>2, <1>3, <1>5, <1>6, <1>7, <1>8, ChainRevokes DEF Next, Continue
-----------------------------------------------------------------------------
\* Logins: the invariant, and what it says.

LoginInv ==
    /\ LoginTypes /\ LockInv /\ RecordInv /\ ChainInv
    /\ Apart(auth_session, Serial)

\* A step of the logins, in a behaviour about them.
LoginMove ==
    /\ Next /\ Within(auth_session', begun')
    /\ Uses("right") \/ \A r \in Requests : auth_session'[r].stage # "reset"

\* A step is one of the logins, or leaves them.
LEMMA LoginSteps ==
    ASSUME [MCNext]_peopleVars
    PROVE  LoginMove \/ UNCHANGED <<vars, workload>>
  BY DEF MCNext, AuthStep, StaffStep, DrawerStep, LoginMove, Within, peopleVars

\* Every step keeps the invariant, and one request at a time every step is one of the chains.
LEMMA LoginMoves ==
    ASSUME LoginInv, LoginMove
    PROVE  LoginInv' /\ (Serial => LockStep /\ [Chains!Next]_LoginStates)
  <1>1. /\ LoginTypes /\ LockInv /\ RecordInv /\ ChainInv /\ Apart(auth_session, Serial) /\ Next
    BY DEF LoginInv, LoginMove
  <1>2. workload' = workload /\ Apart(auth_session', Serial)
    BY WithinApart DEF LoginMove
  <1>3. LoginTypes'
    BY <1>1, LoginTypesStep
  <1>4. LockInv'
    BY <1>1, <1>2, LockStepHolds DEF LoginMove
  <1>5. RecordInv'
    BY <1>1, <1>3, RecordStep
  <1>6. Serial => ChainInv' /\ [Chains!Next]_LoginStates
    BY <1>1, <1>2, ChainStep DEF Chained
  <1>7. Serial' = Serial
    BY <1>2 DEF Serial
  <1>8. ChainInv'
    BY <1>6, <1>7 DEF ChainInv
  <1>9. Serial => LockStep
    BY <1>1, RunningLocksHold
  <1> QED
    BY <1>2, <1>3, <1>4, <1>5, <1>6, <1>7, <1>8, <1>9 DEF LoginInv

\* At the start nobody has logged in.
LEMMA LoginsStart ==
    ASSUME MCInit
    PROVE  LoginInv
  <1>1. Init /\ LoginTypes
    BY LoginTypesStart DEF MCInit
  <1>2. \A r \in Requests : auth_session[r] = IdleRequest
    BY <1>1 DEF Init
  <1>3. LockInv
    <2>1. /\ \A u \in Users : accounts[u].failed = 0 /\ accounts[u].locked_until = None /\ wrong[u] = 0
          /\ 0 % MAX_FAILED_ATTEMPTS = 0 /\ ~(0 >= MAX_FAILED_ATTEMPTS)
      BY <1>1, AuthAssumption, NextRemainder DEF Init
    <2>2. LockRows(accounts, wrong, Serial, Uses("right"))
      BY <2>1 DEF LockRows
    <2> QED
      BY <1>2, <2>2, IdleKnows DEF LockInv
  <1>4. RecordInv
    <2>1. ASSUME NEW u \in Users
          PROVE  OwedTo(auth_session, u) = {}
      BY <1>2, IdleRequestIs DEF OwedTo, Owed
    <2>2. \A u \in Users : opened.by_password[u] = 0 /\ login_attempts[u].succeeded = 0
      BY <1>1 DEF Init
    <2>3. Cardinality({}) = 0
      BY FS_EmptySet
    <2> QED
      BY <2>1, <2>2, <2>3 DEF RecordInv
  <1>5. ChainInv
    <2>1. ChainRows(refresh_tokens)
      BY <1>1, EmptyTable DEF Init, ChainRows
    <2> QED
      BY <1>2, <2>1, IdleRequestIs DEF ChainInv, ChainKnows, Renews
  <1>6. Apart(auth_session, Serial)
    BY <1>2, IdleRequestIs DEF Apart
  <1> QED
    BY <1>1, <1>3, <1>4, <1>5, <1>6 DEF LoginInv

\* The logins, whatever the workloads.
LEMMA LoginsAreKept ==
    MCSpec => /\ []LoginInv
              /\ [][Serial => LockStep]_vars /\ TokensImplementChains
  <1>1. ASSUME LoginInv, [MCNext]_peopleVars
        PROVE  LoginInv' /\ [Serial => LockStep]_vars
               /\ [Serial => [Chains!Next]_LoginStates]_vars
    <2>1. CASE UNCHANGED <<vars, workload>>
      <3>1. LoginInv'
        BY <1>1, <2>1 DEF vars, rows, LoginInv, LoginTypes, LockInv, RecordInv, ChainInv, Serial, Uses
      <3> QED
        BY <2>1, <3>1
    <2>2. CASE LoginMove
      BY <1>1, <2>2, LoginMoves
    <2> QED
      BY <1>1, <2>1, <2>2, LoginSteps
  <1>2. MCSpec => MCInit /\ [][MCNext]_peopleVars
    BY DEF MCSpec, peopleVars
  <1> QED
    BY <1>1, <1>2, LoginsStart, PTL DEF TokensImplementChains

\* Nobody is locked out before MAX_FAILED_ATTEMPTS wrong passwords, however many overlap; one
\* request at a time the counter counts them all; no login is opened without its row in
\* login_attempts (login, service.py:98).
THEOREM LockoutsAreCounted == MCSpec => []LockoutCountsFailures
  <1>1. ASSUME LoginInv
        PROVE  LockoutCountsFailures
    <2>1. ~Uses("right") => NeverLockedEarly
      BY <1>1 DEF LoginInv, LockInv, LockRows, NeverLockedEarly
    <2>2. Serial => CounterCountsFailures
      BY <1>1 DEF LoginInv, LockInv, LockRows, CounterCountsFailures
    <2>3. ASSUME NEW u \in Users
          PROVE  opened.by_password[u] <= login_attempts[u].succeeded
      <3>1. PICK c : c = Cardinality(OwedTo(auth_session, u))
        OBVIOUS
      <3>2. OwedTo(auth_session, u) \in SUBSET Requests
        BY DEF OwedTo
      <3>3. c \in Nat
        BY <3>1, <3>2, PeopleAssumption, FS_Subset, FS_CardinalityType
      <3>4. PICK b \in Nat, n \in Nat : b = opened.by_password[u] /\ n = login_attempts[u].succeeded
        BY <1>1 DEF LoginInv, LoginTypes, CountsOk
      <3>5. b + c <= n
        BY <1>1, <3>1, <3>4 DEF LoginInv, RecordInv
      <3>6. b <= n
        BY <3>3, <3>4, <3>5
      <3> QED
        BY <3>4, <3>6
    <2> QED
      BY <2>1, <2>2, <2>3 DEF LockoutCountsFailures, LoginsAreRecorded
  <1> QED
    BY <1>1, LoginsAreKept, PTL

\* One request at a time, every step of the refresh tokens is one LoginChains allows: rotation
\* keeps one usable token per login, and a login that ended stays ended (refresh_token, service.py:198).
THEOREM TokensAreChained == MCSpec => TokensImplementChains
  BY LoginsAreKept, PTL

\* One request at a time: a running lock keeps its end and lets no password in, and a closed
\* shift and its movements stay as they are.
THEOREM LocksAndClosuresStay == MCSpec => LocksAndClosuresHold
  <1>1. MCSpec => [][MCNext]_peopleVars
    BY DEF MCSpec, peopleVars
  <1> QED
    BY <1>1, ClosedStepHolds, ShiftsAreKept, LoginsAreKept, PTL DEF LocksAndClosuresHold

\* One request at a time a login has one usable token.
LEMMA OneUsableToken ==
    ASSUME LoginInv
    PROVE  TypeOK /\ (Serial => OneLiveTokenPerLogin)
  <1>1. TypeOK
    BY DEF LoginInv, LoginTypes, AccountsOk, TokensOk, TypeOK
  <1>2. ASSUME Serial, NEW l \in 1 .. opened.count
        PROVE  Cardinality(Live(l)) <= 1
    <2>1. \A i, j \in Live(l) : i = j
      BY <1>2 DEF LoginInv, ChainInv, ChainRows, Live
    <2> QED
      BY <2>1, AtMostOne
  <1> QED
    BY <1>1, <1>2 DEF OneLiveTokenPerLogin
-----------------------------------------------------------------------------
\* Staff: tables and sessions.

\* Users come by registration and Google only; no user is deleted.
Plain(w) == "create" \notin w.handlers /\ "update" \notin w.handlers
Kept(w) == "delete" \notin w.handlers

IsLower(email) == email[2] = "lower"

SameUser(u, v) == u.organization = v.organization /\ (u.username = v.username \/ u.email = v.email)

StaffTables(us, ro, ur) ==
    /\ IsTable(us) /\ IsTable(ro)
    /\ \A i \in DOMAIN us : us[i] \in Crew!User
    /\ \A i, j \in DOMAIN us : SameUser(us[i], us[j]) => i = j
    /\ \A k \in DOMAIN ro : ro[k] \in Crew!Role /\ (ro[k].is_system => ~ro[k].deleted)
    /\ 1 \in DOMAIN ro /\ ro[1].is_system
    /\ \A k, m \in DOMAIN ro :
            ~ro[k].deleted /\ ~ro[m].deleted /\ ro[k].name = ro[m].name => k = m
    /\ ur \in [Crew!UserRole -> Nat]
    /\ \A a \in Crew!UserRole : ur[a] > 0 =>
            a.user \in DOMAIN us /\ a.role \in DOMAIN ro /\ ~ro[a.role].deleted

\* w: what the behaviour is about.
StaffBooks(us, ro, ur, w) ==
    /\ w.width = 1 => \A a \in Crew!UserRole : ur[a] <= 1
    /\ w.width = 1 => \A k \in DOMAIN ro : ro[k].permissions = ro[k].asked
    /\ Plain(w) => \A i \in DOMAIN us : IsLower(us[i].email)
    /\ Kept(w) => \A i \in DOMAIN us : ~us[i].deleted

StaffStages ==
    {"idle", "insert user", "write user", "assign", "insert role", "delete permissions",
     "deleting", "write permissions", "delete role", "cascade"}

StaffHandlers ==
    {"register", "create", "google", "update", "assign", "create role", "update role", "delete role"}

StaffSession ==
    [stage : StaffStages, handler : StaffHandlers \cup {None},
     organization : Organizations \cup {None}, username : Crew!Names \cup Mailboxes \cup {None},
     email : Crew!Emails \cup {None}, branches : BOOLEAN, user : Nat, role : Nat,
     branch : Branches \cup {None, "absent", "none", "some"},
     permissions : SUBSET Permissions, removed : SUBSET Permissions]

\* What a request knows of the tables.
StaffKnows(s, us, ro, ur, w) ==
    /\ s.stage = "insert user" =>
        /\ s.organization \in Organizations /\ s.username \in Crew!Names /\ s.email \in Crew!Emails
        /\ Plain(w) => IsLower(s.email)
        /\ w.width = 1 /\ Kept(w) =>
                \A i \in DOMAIN us : us[i].organization = s.organization =>
                    us[i].username # s.username /\ us[i].email # s.email
    /\ s.stage = "write user" =>
        /\ s.user \in DOMAIN us /\ s.email \in Crew!Emails /\ ~Plain(w)
        /\ s.organization = us[s.user].organization /\ s.username = us[s.user].username
    /\ s.stage = "assign" =>
        /\ s.user \in DOMAIN us /\ s.role \in DOMAIN ro
        /\ w.width = 1 => \A a \in Crew!UserRole :
                a = Crew!Assignment(s.user, s.role, s.branch) => ur[a] = 0
    /\ s.stage = "insert role" => s.username \in Mailboxes
    /\ s.stage \in {"delete permissions", "deleting", "write permissions"} =>
        s.role \in DOMAIN ro /\ s.username \in Mailboxes
    /\ s.stage \in {"deleting", "write permissions"} =>
        (w.width = 1 => s.removed = ro[s.role].permissions)
    /\ s.stage \in {"delete role", "cascade"} => s.role \in DOMAIN ro /\ ~ro[s.role].is_system

StaffSessions(sessions, us, ro, ur, w) ==
    /\ sessions = [r \in Requests |-> sessions[r]]
    /\ \A r \in Requests : sessions[r] \in StaffSession /\ StaffKnows(sessions[r], us, ro, ur, w)

StaffInv ==
    /\ StaffTables(users, roles, user_roles)
    /\ StaffBooks(users, roles, user_roles, workload)
    /\ StaffSessions(staff_session, users, roles, user_roles, workload)
    /\ Apart(staff_session, Serial)

-----------------------------------------------------------------------------
\* Staff: names, and what a step leaves.

\* A base has a number that no user of the organization has, and a first one.
LEMMA FreeNameIsFree ==
    ASSUME StaffInv, NEW o, NEW base \in Mailboxes
    PROVE  /\ Crew!FreeName(o, base) \in Crew!Names
           /\ \A i \in Crew!LiveIn(o) : users[i].username # Crew!FreeName(o, base)
  <1>1. PICK n \in Nat : n = Len(users) /\ DOMAIN users = 1 .. n
    <2>1. IsTable(users)
      BY DEF StaffInv, StaffTables
    <2>2. Len(users) \in Nat /\ DOMAIN users = 1 .. Len(users)
      BY <2>1, TableIs
    <2> QED
      BY <2>2
  <1>2. PICK taken : taken = {i \in 1 .. n : users[i].organization = o /\ ~users[i].deleted}
    OBVIOUS
  <1>3. taken = Crew!LiveIn(o)
    BY <1>1, <1>2 DEF Crew!LiveIn
  <1>4. PICK free : free = {m \in 1 .. n + 1 : \A i \in taken : users[i].username # <<base, m>>}
    OBVIOUS
  <1>5. free # {}
    <2> SUFFICES ASSUME free = {} PROVE FALSE
      OBVIOUS
    <2>1. \A m \in 1 .. n + 1 : \E i \in 1 .. n : users[i].username = <<base, m>>
      BY <1>2, <1>4
    <2>2. PICK f : f = [m \in 1 .. n + 1 |-> CHOOSE i \in 1 .. n : users[i].username = <<base, m>>]
      OBVIOUS
    <2>3. \A m \in 1 .. n + 1 : f[m] \in 1 .. n /\ users[f[m]].username = <<base, m>>
      BY <2>1, <2>2
    <2>4. f \in [1 .. n + 1 -> 1 .. n]
      BY <2>2, <2>3
    <2>5. /\ IsFiniteSet(1 .. n + 1) /\ Cardinality(1 .. n + 1) = n + 1
          /\ IsFiniteSet(1 .. n) /\ Cardinality(1 .. n) = n
      <3>1. /\ IsFiniteSet(1 .. n + 1)
            /\ Cardinality(1 .. n + 1) = IF 1 > n + 1 THEN 0 ELSE (n + 1) - 1 + 1
        BY FS_Interval
      <3>2. IsFiniteSet(1 .. n) /\ Cardinality(1 .. n) = IF 1 > n THEN 0 ELSE n - 1 + 1
        BY FS_Interval
      <3> QED
        BY <3>1, <3>2
    <2>6. n < n + 1
      OBVIOUS
    <2>7. PICK x, y \in 1 .. n + 1 : x # y /\ f[x] = f[y]
      BY <2>4, <2>5, <2>6, FS_PigeonHole
    <2> QED
      BY <2>3, <2>7
  <1>6. PICK x \in free : \A y \in free : <<y, x>> \notin Less
    <2>1. free \subseteq Nat
      BY <1>4
    <2> QED
      BY <1>5, <2>1, LessIsWellFounded, WFMin
  <1>7. x \in 1 .. n + 1 /\ \A i \in taken : users[i].username # <<base, x>>
    BY <1>4
  <1>8. ASSUME NEW m \in 1 .. x - 1
        PROVE  \E i \in taken : users[i].username = <<base, m>>
    <2>1. m \in 1 .. n + 1 /\ m < x /\ m \in Nat /\ x \in Nat
      BY <1>7
    <2>2. <<m, x>> \in Less
      BY <2>1 DEF Less
    <2> QED
      BY <1>4, <1>6, <2>1, <2>2
  <1>9. PICK c : c = CHOOSE k \in 1 .. n + 1 :
                        /\ \A i \in taken : users[i].username # <<base, k>>
                        /\ \A m \in 1 .. k - 1 : \E i \in taken : users[i].username = <<base, m>>
    OBVIOUS
  <1>10. c \in 1 .. n + 1 /\ \A i \in taken : users[i].username # <<base, c>>
    BY <1>7, <1>8, <1>9
  <1>11. Crew!FreeName(o, base) = <<base, c>>
    BY <1>1, <1>3, <1>9 DEF Crew!FreeName
  <1>12. <<base, c>> \in Crew!Names
    BY <1>10 DEF Crew!Names
  <1> QED
    BY <1>3, <1>10, <1>11, <1>12

\* The session of a request that has not begun.
LEMMA IdleStaffIs ==
    /\ Crew!IdleRequest \in StaffSession /\ Crew!IdleRequest.stage = "idle"
    /\ \A us, ro, ur, w : StaffKnows(Crew!IdleRequest, us, ro, ur, w)
  <1>1. Crew!IdleRequest \in StaffSession /\ Crew!IdleRequest.stage = "idle"
    BY DEF Crew!IdleRequest, StaffSession, StaffStages
  <1> QED
    BY <1>1 DEF StaffKnows

\* What the invariant says of a session.
LEMMA StaffIs ==
    ASSUME StaffInv, NEW r \in Requests, NEW s, s = staff_session[r]
    PROVE  /\ s \in StaffSession /\ StaffKnows(s, users, roles, user_roles, workload)
           /\ workload.width = 1 /\ s.stage # "idle" =>
                \A q \in Requests \ {r} : staff_session[q].stage = "idle"
  BY DEF StaffInv, StaffSessions, Apart, Serial

\* A step that changes one session and no table.
LEMMA StaffMoves ==
    ASSUME StaffInv, NEW r \in Requests, NEW s \in StaffSession,
           StaffKnows(s, users, roles, user_roles, workload),
           staff_session' = [staff_session EXCEPT ![r] = s],
           UNCHANGED <<users, roles, user_roles, workload>>, Apart(staff_session', Serial)
    PROVE  StaffInv'
  <1>1. PICK new : new = staff_session'
    OBVIOUS
  <1>2. /\ new = [q \in Requests |-> new[q]] /\ new[r] = s
        /\ \A q \in Requests \ {r} : new[q] = staff_session[q]
    BY <1>1 DEF StaffInv, StaffSessions
  <1>3. ASSUME NEW q \in Requests
        PROVE  new[q] \in StaffSession /\ StaffKnows(new[q], users, roles, user_roles, workload)
    BY <1>2, StaffIs
  <1>4. StaffSessions(new, users, roles, user_roles, workload)
    BY <1>2, <1>3 DEF StaffSessions
  <1>5. /\ users' = users /\ roles' = roles /\ user_roles' = user_roles
        /\ workload' = workload /\ Serial' = Serial
    BY DEF Serial
  <1> QED
    BY <1>1, <1>4, <1>5 DEF StaffInv

\* Users keep their organization and their name, and roles stay those of the system.
RowsKeep(us, ro, us2, ro2) ==
    /\ \A i \in DOMAIN us : i \in DOMAIN us2 /\ us2[i].organization = us[i].organization
                            /\ us2[i].username = us[i].username
    /\ \A k \in DOMAIN ro : k \in DOMAIN ro2 /\ ro2[k].is_system = ro[k].is_system

\* What requests know, whatever others change.
LEMMA KnownStays ==
    ASSUME NEW us, NEW ro, NEW ur, NEW us2, NEW ro2, NEW ur2, RowsKeep(us, ro, us2, ro2),
           NEW w, NEW s, StaffKnows(s, us, ro, ur, w),
           w.width # 1 \/ s.stage = "idle"
           \/ (/\ ro2 = ro /\ DOMAIN us2 = DOMAIN us
               /\ \A i \in DOMAIN us : us2[i].email = us[i].email
               /\ \A a \in Crew!UserRole : ur[a] = 0 => ur2[a] = 0)
    PROVE  StaffKnows(s, us2, ro2, ur2, w)
  <1>1. CASE s.stage = "idle"
    BY <1>1 DEF StaffKnows
  <1>2. CASE s.stage = "insert user"
    BY <1>2 DEF StaffKnows, RowsKeep
  <1>3. CASE s.stage = "write user"
    BY <1>3 DEF StaffKnows, RowsKeep
  <1>4. CASE s.stage = "assign"
    BY <1>4 DEF StaffKnows, RowsKeep
  <1>5. CASE s.stage \in {"insert role", "delete permissions", "delete role", "cascade"}
    BY <1>5 DEF StaffKnows, RowsKeep
  <1>6. CASE s.stage \in {"deleting", "write permissions"}
    BY <1>6 DEF StaffKnows, RowsKeep
  <1>7. CASE s.stage \notin StaffStages
    BY <1>7 DEF StaffKnows, StaffStages
  <1> QED
    BY <1>1, <1>2, <1>3, <1>4, <1>5, <1>6, <1>7 DEF StaffStages

\* Where requests overlap, the rows a request has removed are not relied on.
LEMMA RemovedIsNotRead ==
    ASSUME NEW us, NEW ro, NEW ur, NEW w, NEW t \in StaffSession, StaffKnows(t, us, ro, ur, w),
           w.width # 1 \/ t.stage = "idle", NEW gone, NEW s, s = [t EXCEPT !.removed = t.removed \ gone]
    PROVE  s \in StaffSession /\ StaffKnows(s, us, ro, ur, w)
  <1>1. t.removed \in SUBSET Permissions
    BY DEF StaffSession
  <1>2. s \in StaffSession
    BY <1>1 DEF StaffSession
  <1>3. /\ s.stage = t.stage /\ s.organization = t.organization /\ s.username = t.username
        /\ s.email = t.email /\ s.user = t.user /\ s.role = t.role /\ s.branch = t.branch
    BY DEF StaffSession
  <1>4. StaffKnows(s, us, ro, ur, w)
    BY <1>3 DEF StaffKnows
  <1> QED
    BY <1>2, <1>4

\* A step that ends a request and changes the tables; the rows it deletes are gone for others.
LEMMA StaffLeaves ==
    ASSUME StaffInv, NEW r \in Requests, staff_session[r].stage # "idle",
           NEW new, new = staff_session', new = [q \in Requests |-> new[q]],
           new[r] = Crew!IdleRequest,
           \A q \in Requests \ {r} :
              \/ new[q] = staff_session[q]
              \/ \E gone : new[q] = [staff_session[q] EXCEPT !.removed = staff_session[q].removed \ gone],
           workload' = workload, Apart(staff_session', Serial),
           NEW us, NEW ro, NEW ur, us = users', ro = roles', ur = user_roles',
           StaffTables(us, ro, ur), StaffBooks(us, ro, ur, workload),
           RowsKeep(users, roles, us, ro)
    PROVE  StaffInv'
  <1>3. ASSUME NEW q \in Requests
        PROVE  new[q] \in StaffSession /\ StaffKnows(new[q], us, ro, ur, workload)
    <2>1. CASE q = r
      BY <2>1, IdleStaffIs
    <2>2. CASE q # r
      <3>1. PICK s : s = staff_session[q]
        OBVIOUS
      <3>2. /\ s \in StaffSession /\ StaffKnows(s, users, roles, user_roles, workload)
            /\ workload.width # 1 \/ s.stage = "idle"
        BY <2>2, <3>1, StaffIs
      <3>3. StaffKnows(s, us, ro, ur, workload)
        BY <3>2, KnownStays
      <3>4. CASE new[q] = s
        BY <3>2, <3>3, <3>4
      <3>5. ASSUME NEW gone, new[q] = [s EXCEPT !.removed = s.removed \ gone]
            PROVE  new[q] \in StaffSession /\ StaffKnows(new[q], us, ro, ur, workload)
        BY <3>2, <3>3, <3>5, RemovedIsNotRead
      <3> QED
        BY <2>2, <3>1, <3>4, <3>5
    <2> QED
      BY <2>1, <2>2
  <1>4. StaffSessions(new, us, ro, ur, workload)
    BY <1>3 DEF StaffSessions
  <1>5. workload' = workload /\ Serial' = Serial
    BY DEF Serial
  <1> QED
    BY <1>4, <1>5 DEF StaffInv

\* A step that ends a request and changes the tables.
LEMMA StaffEnds ==
    ASSUME StaffInv, NEW r \in Requests, staff_session[r].stage # "idle",
           staff_session' = [staff_session EXCEPT ![r] = Crew!IdleRequest],
           workload' = workload, Apart(staff_session', Serial),
           NEW us, NEW ro, NEW ur, us = users', ro = roles', ur = user_roles',
           StaffTables(us, ro, ur), StaffBooks(us, ro, ur, workload),
           RowsKeep(users, roles, us, ro)
    PROVE  StaffInv'
  <1>1. PICK new : new = staff_session'
    OBVIOUS
  <1>2. /\ new = [q \in Requests |-> new[q]] /\ new[r] = Crew!IdleRequest
        /\ \A q \in Requests \ {r} : new[q] = staff_session[q]
    BY <1>1 DEF StaffInv, StaffSessions
  <1> QED
    BY <1>1, <1>2, StaffLeaves

\* A request of one transaction, which others may have overlapped: it changes no e-mail address,
\* no role, and assigns none.
LEMMA StaffAtOnce ==
    ASSUME StaffInv, UNCHANGED <<staff_session, roles, workload>>,
           NEW us, NEW ur, us = users', ur = user_roles',
           StaffTables(us, roles, ur), StaffBooks(us, roles, ur, workload),
           RowsKeep(users, roles, us, roles), DOMAIN us = DOMAIN users,
           \A i \in DOMAIN users : us[i].email = users[i].email,
           \A a \in Crew!UserRole : user_roles[a] = 0 => ur[a] = 0
    PROVE  StaffInv'
  <1>1. ASSUME NEW q \in Requests
        PROVE  /\ staff_session[q] \in StaffSession
               /\ StaffKnows(staff_session[q], us, roles, ur, workload)
    <2>1. PICK s : s = staff_session[q]
      OBVIOUS
    <2>2. s \in StaffSession /\ StaffKnows(s, users, roles, user_roles, workload)
      BY <2>1, StaffIs
    <2>3. StaffKnows(s, us, roles, ur, workload)
      BY <2>2, KnownStays
    <2> QED
      BY <2>1, <2>2, <2>3
  <1>2. StaffSessions(staff_session, us, roles, ur, workload)
    BY <1>1 DEF StaffInv, StaffSessions
  <1>3. /\ staff_session' = staff_session /\ roles' = roles
        /\ workload' = workload /\ Serial' = Serial
    BY DEF Serial
  <1>4. Apart(staff_session, Serial)
    BY DEF StaffInv
  <1> QED
    BY <1>2, <1>3, <1>4 DEF StaffInv
-----------------------------------------------------------------------------
\* Staff: steps.

\* A step of a component of a workload.
StaffMove ==
    /\ Crew!Next
    /\ Within(staff_session', staff_served') /\ Handled(staff_session')
    /\ Uses("delete") \/ \A i \in DOMAIN users' : ~users'[i].deleted

\* The request of a session is one of the workload's.
Admitted(s, handler) == s.stage # "idle" => handler \in workload.handlers

\* A session that is about to insert a user.
MakingUser(s, o, name, stored) ==
    /\ s \in StaffSession /\ s.stage = "insert user"
    /\ s.organization = o /\ s.username = name /\ s.email = stored

\* A request begins: its session, and that it is one of the workload's.
LEMMA StaffBegins ==
    ASSUME StaffInv, NEW r \in Requests, NEW handler \in StaffHandlers, NEW t \in StaffSession,
           Crew!Begin(r, handler, t), Handled(staff_session'), workload' = workload,
           NEW s, s = [t EXCEPT !.handler = handler]
    PROVE   /\ s \in StaffSession
            /\ staff_session' = [staff_session EXCEPT ![r] = s]
            /\ UNCHANGED <<users, roles, user_roles>>
            /\ Admitted(s, handler)
  <1>2. s \in StaffSession /\ s.handler = handler
    BY DEF StaffSession
  <1>3. /\ staff_session' = [staff_session EXCEPT ![r] = s]
        /\ UNCHANGED <<users, roles, user_roles>>
    BY DEF Crew!Begin, Crew!staff
  <1>4. staff_session'[r] = s
    BY <1>3 DEF StaffInv, StaffSessions
  <1>5. Admitted(s, handler)
    BY <1>2, <1>4 DEF Handled, Uses, Admitted
  <1> QED
    BY <1>2, <1>3, <1>5

\* A user in the making.
LEMMA NewUserIs ==
    ASSUME NEW o \in Organizations, NEW name \in Crew!Names, NEW stored \in Crew!Emails,
           NEW x, x = Crew!NewUser(o, name, stored)
    PROVE  MakingUser(x, o, name, stored)
  <1>1. PICK idle \in StaffSession : idle = Crew!IdleRequest
    BY IdleStaffIs
  <1>2. x = [idle EXCEPT !.stage = "insert user", !.organization = o, !.username = name, !.email = stored]
    BY <1>1 DEF Crew!NewUser
  <1> QED
    BY <1>2 DEF StaffSession, StaffStages, MakingUser

\* What is known of a user in the making.
LEMMA NewUserKnows ==
    ASSUME StaffInv, NEW o \in Organizations, NEW name \in Crew!Names, NEW stored \in Crew!Emails,
           NEW s, MakingUser(s, o, name, stored),
           Plain(workload) => IsLower(stored),
           \A i \in Crew!LiveIn(o) : users[i].username # name /\ users[i].email # stored
    PROVE  StaffKnows(s, users, roles, user_roles, workload)
  <1>1. ASSUME Kept(workload), NEW i \in DOMAIN users, users[i].organization = o
        PROVE  users[i].username # name /\ users[i].email # stored
    <2>1. ~users[i].deleted
      BY <1>1 DEF StaffInv, StaffBooks
    <2>2. i \in Crew!LiveIn(o)
      BY <1>1, <2>1 DEF Crew!LiveIn
    <2> QED
      BY <2>2
  <1> QED
    BY <1>1 DEF StaffKnows, MakingUser

\* The address register stores, and that no live user has it.
LEMMA LowerIs ==
    ASSUME NEW email \in Crew!Emails
    PROVE  /\ Crew!Lower(email) \in Crew!Emails /\ IsLower(Crew!Lower(email))
           /\ Crew!Lower(Crew!Lower(email)) = Crew!Lower(email)
  BY DEF Crew!Emails, Crew!Lower, IsLower

\* A request that inserts a user begins.
LEMMA BeginInsertStep ==
    ASSUME StaffInv, NEW r \in Requests, NEW handler \in {"register", "create", "google"},
           NEW o \in Organizations, NEW name \in Crew!Names, NEW stored \in Crew!Emails, NEW t,
           t = Crew!NewUser(o, name, stored) \/ \E b \in BOOLEAN :
                t = [Crew!NewUser(o, name, stored) EXCEPT !.branches = b],
           Crew!Begin(r, handler, t), Handled(staff_session'), workload' = workload,
           Apart(staff_session', Serial),
           handler # "create" => IsLower(stored),
           \A i \in Crew!LiveIn(o) : users[i].username # name /\ users[i].email # stored
    PROVE  StaffInv'
  <1>1. MakingUser(t, o, name, stored)
    <2>0. PICK x : x = Crew!NewUser(o, name, stored)
      OBVIOUS
    <2>1. MakingUser(x, o, name, stored)
      BY <2>0, NewUserIs
    <2>2. CASE t = x
      BY <2>1, <2>2
    <2>3. ASSUME NEW b \in BOOLEAN, t = [x EXCEPT !.branches = b]
          PROVE  MakingUser(t, o, name, stored)
      BY <2>1, <2>3 DEF StaffSession, MakingUser
    <2> QED
      BY <2>0, <2>2, <2>3
  <1>2. handler \in StaffHandlers
    BY DEF StaffHandlers
  <1>0. PICK s : s = [t EXCEPT !.handler = handler]
    OBVIOUS
  <1>3.     /\ s \in StaffSession
            /\ staff_session' = [staff_session EXCEPT ![r] = s]
            /\ UNCHANGED <<users, roles, user_roles>>
            /\ Admitted(s, handler)
    <2>1. t \in StaffSession
      BY <1>1 DEF MakingUser
    <2> QED
      BY <1>0, <1>2, <2>1, StaffBegins
  <1>4. MakingUser(s, o, name, stored)
    BY <1>0, <1>1, <1>2 DEF StaffSession, MakingUser
  <1>5. Plain(workload) => IsLower(stored)
    BY <1>3, <1>4 DEF Plain, Admitted, MakingUser
  <1>6. StaffKnows(s, users, roles, user_roles, workload)
    BY <1>3, <1>4, <1>5, NewUserKnows
  <1> QED
    BY <1>3, <1>6, StaffMoves

\* Registrations, users created by an administrator, Google users, and updates begin.
LEMMA BeginUserStep ==
    ASSUME StaffInv, NEW r \in Requests, Crew!BeginUser(r), Handled(staff_session'),
           workload' = workload, Apart(staff_session', Serial)
    PROVE  StaffInv'
  <1>1. \A base \in Mailboxes : <<base, 1>> \in Crew!Names
    BY DEF Crew!Names
  <1>2. ASSUME NEW o \in Organizations, NEW base \in Mailboxes, NEW email \in Crew!Emails,
               Crew!Register(r, o, <<base, 1>>, email)
        PROVE  StaffInv'
    <2>1. PICK stored : stored = Crew!Lower(email)
      OBVIOUS
    <2>2. /\ stored \in Crew!Emails /\ IsLower(stored) /\ Crew!Lower(stored) = stored
      BY <2>1, LowerIs
    <2>3. /\ Crew!Begin(r, "register", Crew!NewUser(o, <<base, 1>>, stored))
          /\ \A i \in Crew!LiveIn(o) : users[i].username # <<base, 1>> /\ users[i].email # stored
      BY <1>2, <2>1, <2>2 DEF Crew!Register, Crew!Stored
    <2> QED
      BY <1>1, <2>2, <2>3, BeginInsertStep
  <1>3. ASSUME NEW o \in Organizations, NEW base \in Mailboxes, NEW email \in Crew!Emails,
               NEW branches \in BOOLEAN, Crew!CreateUser(r, o, <<base, 1>>, email, branches)
        PROVE  StaffInv'
    <2>1. PICK t : t = [Crew!NewUser(o, <<base, 1>>, email) EXCEPT !.branches = branches]
      OBVIOUS
    <2>2. /\ Crew!Begin(r, "create", t)
          /\ \A i \in Crew!LiveIn(o) : users[i].username # <<base, 1>> /\ users[i].email # email
      BY <1>3, <2>1 DEF Crew!CreateUser, Crew!Unused
    <2> QED
      BY <1>1, <2>1, <2>2, BeginInsertStep
  <1>4. ASSUME NEW mailbox \in Mailboxes, Crew!GoogleUser(r, mailbox)
        PROVE  StaffInv'
    <2>1. PICK stored : stored = <<mailbox, "lower">>
      OBVIOUS
    <2>2. stored \in Crew!Emails /\ stored[1] = mailbox /\ IsLower(stored)
      BY <2>1 DEF Crew!Emails, IsLower
    <2>3. PICK name : name = Crew!FreeName(GoogleDefault, mailbox)
      OBVIOUS
    <2>4. /\ name \in Crew!Names
          /\ \A i \in Crew!LiveIn(GoogleDefault) : users[i].username # name
      BY <2>3, FreeNameIsFree
    <2>5. /\ Crew!Begin(r, "google", Crew!NewUser(GoogleDefault, name, stored))
          /\ \A i \in DOMAIN users : users[i].email[1] # mailbox
      BY <1>4, <2>1, <2>3 DEF Crew!GoogleUser
    <2>6. \A i \in Crew!LiveIn(GoogleDefault) : users[i].email # stored
      BY <2>2, <2>5 DEF Crew!LiveIn
    <2>7. GoogleDefault \in Organizations
      BY PeopleAssumption
    <2> QED
      BY <2>2, <2>4, <2>5, <2>6, <2>7, BeginInsertStep
  <1>5. ASSUME NEW i \in DOMAIN users, NEW email \in Crew!Emails,
               NEW branchIds \in {"absent", "none", "some"}, Crew!LoadUser(r, i, email, branchIds)
        PROVE  StaffInv'
    <2>1. PICK idle \in StaffSession : idle = Crew!IdleRequest
      BY IdleStaffIs
    <2>2. i \in Nat
      <3>1. IsTable(users)
        BY DEF StaffInv, StaffTables
      <3>2. DOMAIN users = 1 .. Len(users) /\ Len(users) \in Nat
        BY <3>1, TableIs
      <3> QED
        BY <3>2
    <2>3. PICK u \in Crew!User : u = users[i]
      BY DEF StaffInv, StaffTables
    <2>4. u.organization \in Organizations /\ u.username \in Crew!Names
      BY DEF Crew!User
    <2>5a. PICK some \in BOOLEAN : some = (branchIds = "some")
      OBVIOUS
    <2>5. PICK t : t = [idle EXCEPT !.stage = "write user", !.user = i, !.email = email,
                                    !.organization = u.organization, !.username = u.username,
                                    !.branch = branchIds, !.branches = some]
      OBVIOUS
    <2>5b. /\ i \in Nat /\ email \in Crew!Emails \cup {None}
           /\ u.organization \in Organizations \cup {None}
           /\ u.username \in Crew!Names \cup Mailboxes \cup {None}
           /\ branchIds \in Branches \cup {None, "absent", "none", "some"}
           /\ "write user" \in StaffStages
      BY <2>2, <2>4 DEF StaffStages
    <2>6. /\ t \in StaffSession /\ t.stage = "write user" /\ t.user = i /\ t.email = email
          /\ t.organization = u.organization /\ t.username = u.username
      BY <2>1, <2>5, <2>5b DEF StaffSession
    <2>7. Crew!Begin(r, "update", t)
      BY <1>5, <2>1, <2>3, <2>5, <2>5a DEF Crew!LoadUser
    <2>8. "update" \in StaffHandlers
      BY DEF StaffHandlers
    <2>6a. PICK s : s = [t EXCEPT !.handler = "update"]
      OBVIOUS
    <2>9.   /\ s \in StaffSession
            /\ staff_session' = [staff_session EXCEPT ![r] = s]
            /\ UNCHANGED <<users, roles, user_roles>>
            /\ Admitted(s, "update")
      <3>1. t \in StaffSession
        BY <2>6
      <3> QED
        BY <2>6a, <2>7, <2>8, <3>1, StaffBegins
    <2>10. /\ s.stage = "write user" /\ s.user = i /\ s.email = email
           /\ s.organization = u.organization /\ s.username = u.username
      BY <2>6, <2>6a DEF StaffSession
    <2>11. StaffKnows(s, users, roles, user_roles, workload)
      BY <2>3, <2>9, <2>10 DEF StaffKnows, Plain, Admitted
    <2> QED
      BY <2>9, <2>11, StaffMoves
  <1> QED
    BY <1>2, <1>3, <1>4, <1>5 DEF Crew!BeginUser
\* What a request knows does not depend on the handler.
LEMMA HandlerIsNotRead ==
    ASSUME NEW us, NEW ro, NEW ur, NEW w, NEW t \in StaffSession, StaffKnows(t, us, ro, ur, w),
           NEW handler \in StaffHandlers, NEW s, s = [t EXCEPT !.handler = handler]
    PROVE  StaffKnows(s, us, ro, ur, w)
  <1>1. /\ s.stage = t.stage /\ s.organization = t.organization /\ s.username = t.username
        /\ s.email = t.email /\ s.user = t.user /\ s.role = t.role /\ s.branch = t.branch
        /\ s.removed = t.removed
    BY DEF StaffSession
  <1> QED
    BY <1>1 DEF StaffKnows

\* A request begins that knows what it has read.
LEMMA BeginKnownStep ==
    ASSUME StaffInv, NEW r \in Requests, NEW handler \in StaffHandlers, NEW t \in StaffSession,
           StaffKnows(t, users, roles, user_roles, workload),
           Crew!Begin(r, handler, t), Handled(staff_session'), workload' = workload,
           Apart(staff_session', Serial)
    PROVE  StaffInv'
  <1>1. PICK s : s = [t EXCEPT !.handler = handler]
    OBVIOUS
  <1>2. /\ s \in StaffSession
        /\ staff_session' = [staff_session EXCEPT ![r] = s]
        /\ UNCHANGED <<users, roles, user_roles>>
    BY <1>1, StaffBegins
  <1>3. StaffKnows(s, users, roles, user_roles, workload)
    BY <1>1, HandlerIsNotRead
  <1> QED
    BY <1>2, <1>3, StaffMoves

\* Ids are natural numbers.
LEMMA StaffIds ==
    ASSUME StaffInv
    PROVE  /\ Len(users) \in Nat /\ DOMAIN users = 1 .. Len(users)
           /\ Len(roles) \in Nat /\ DOMAIN roles = 1 .. Len(roles)
  <1>1. IsTable(users) /\ IsTable(roles)
    BY DEF StaffInv, StaffTables
  <1> QED
    BY <1>1, TableIs

\* Assignments, and what is done to roles, begin.
LEMMA BeginRoleStep ==
    ASSUME StaffInv, NEW r \in Requests, Crew!BeginRole(r), Handled(staff_session'),
           workload' = workload, Apart(staff_session', Serial)
    PROVE  StaffInv'
  <1>1. PICK idle \in StaffSession : idle = Crew!IdleRequest
    BY IdleStaffIs
  <1>2. /\ "assign" \in StaffHandlers /\ "create role" \in StaffHandlers
        /\ "update role" \in StaffHandlers /\ "delete role" \in StaffHandlers
    BY DEF StaffHandlers
  <1>3. ASSUME NEW i \in DOMAIN users, NEW k \in DOMAIN roles, NEW branch \in Branches \union {None},
               Crew!FindAssignment(r, i, k, branch)
        PROVE  StaffInv'
    <2>1. PICK t : t = [idle EXCEPT !.stage = "assign", !.user = i, !.role = k, !.branch = branch]
      OBVIOUS
    <2>2. i \in Nat /\ k \in Nat
      BY StaffIds
    <2>3. /\ t \in StaffSession /\ t.stage = "assign" /\ t.user = i /\ t.role = k
          /\ t.branch = branch
      BY <2>1, <2>2 DEF StaffSession, StaffStages
    <2>4. /\ Crew!Begin(r, "assign", t)
          /\ user_roles[Crew!Assignment(i, k, branch)] = 0
      BY <1>1, <1>3, <2>1 DEF Crew!FindAssignment, Crew!Fresh
    <2>5. StaffKnows(t, users, roles, user_roles, workload)
      BY <2>3, <2>4 DEF StaffKnows
    <2>6. t \in StaffSession
      BY <2>3
    <2> QED
      BY <1>2, <2>4, <2>5, <2>6, BeginKnownStep
  <1>4. ASSUME NEW name \in Mailboxes, NEW permissions \in SUBSET Permissions,
               Crew!FindRole(r, name, permissions)
        PROVE  StaffInv'
    <2>1. PICK t : t = [idle EXCEPT !.stage = "insert role", !.username = name,
                                    !.permissions = permissions]
      OBVIOUS
    <2>2. t \in StaffSession /\ t.stage = "insert role" /\ t.username = name
      BY <2>1 DEF StaffSession, StaffStages
    <2>3. Crew!Begin(r, "create role", t)
      BY <1>1, <1>4, <2>1 DEF Crew!FindRole
    <2>4. StaffKnows(t, users, roles, user_roles, workload)
      BY <2>2 DEF StaffKnows
    <2>5. t \in StaffSession
      BY <2>2
    <2> QED
      BY <1>2, <2>3, <2>4, <2>5, BeginKnownStep
  <1>5. ASSUME NEW k \in DOMAIN roles, NEW name \in Mailboxes, NEW permissions \in SUBSET Permissions,
               Crew!LoadRole(r, k, name, permissions)
        PROVE  StaffInv'
    <2>1. PICK t : t = [idle EXCEPT !.stage = "delete permissions", !.role = k, !.username = name,
                                    !.permissions = permissions]
      OBVIOUS
    <2>2. k \in Nat
      BY StaffIds
    <2>3. /\ t \in StaffSession /\ t.stage = "delete permissions" /\ t.role = k
          /\ t.username = name
      BY <2>1, <2>2 DEF StaffSession, StaffStages
    <2>4. Crew!Begin(r, "update role", t)
      BY <1>1, <1>5, <2>1 DEF Crew!LoadRole
    <2>5. StaffKnows(t, users, roles, user_roles, workload)
      BY <2>3 DEF StaffKnows
    <2>6. t \in StaffSession
      BY <2>3
    <2> QED
      BY <1>2, <2>4, <2>5, <2>6, BeginKnownStep
  <1>6. ASSUME NEW k \in DOMAIN roles, Crew!CountAssignments(r, k)
        PROVE  StaffInv'
    <2>1. PICK t : t = [idle EXCEPT !.stage = "delete role", !.role = k]
      OBVIOUS
    <2>2. k \in Nat
      BY StaffIds
    <2>3. t \in StaffSession /\ t.stage = "delete role" /\ t.role = k
      BY <2>1, <2>2 DEF StaffSession, StaffStages
    <2>4. Crew!Begin(r, "delete role", t) /\ ~roles[k].is_system
      BY <1>1, <1>6, <2>1 DEF Crew!CountAssignments, Crew!Deletable
    <2>5. StaffKnows(t, users, roles, user_roles, workload)
      BY <2>3, <2>4 DEF StaffKnows
    <2>6. t \in StaffSession
      BY <2>3
    <2> QED
      BY <1>2, <2>4, <2>5, <2>6, BeginKnownStep
  <1> QED
    BY <1>3, <1>4, <1>5, <1>6 DEF Crew!BeginRole

\* The steps that read: replace_role_permissions deletes, the deletion of a role loads.
LEMMA StaffReadsStep ==
    ASSUME StaffInv, NEW r \in Requests,
           Crew!FindPermissions(r) \/ Crew!DeletePermissions(r) \/ Crew!LoadAssignments(r),
           workload' = workload, Apart(staff_session', Serial)
    PROVE  StaffInv'
  <1>1. PICK t : t = staff_session[r]
    OBVIOUS
  <1>2. t \in StaffSession /\ StaffKnows(t, users, roles, user_roles, workload)
    BY <1>1, StaffIs
  <1>3. ASSUME Crew!FindPermissions(r)
        PROVE  StaffInv'
    <2>1. PICK s : s = [t EXCEPT !.stage = "deleting", !.removed = roles[t.role].permissions]
      OBVIOUS
    <2>2. /\ t.stage = "delete permissions"
          /\ staff_session' = [staff_session EXCEPT ![r] = s]
          /\ UNCHANGED <<users, roles, user_roles>>
      <3>1. /\ t.stage = "delete permissions"
            /\ staff_session' = [staff_session EXCEPT ![r].stage = "deleting",
                                                      ![r].removed = roles[t.role].permissions]
            /\ UNCHANGED <<users, roles, user_roles>>
        BY <1>1, <1>3 DEF Crew!FindPermissions, Crew!staff
      <3>2. staff_session = [q \in Requests |-> staff_session[q]]
        BY DEF StaffInv, StaffSessions
      <3> QED
        BY <1>1, <2>1, <3>1, <3>2
    <2>3. t.role \in DOMAIN roles /\ t.username \in Mailboxes
      BY <1>2, <2>2 DEF StaffKnows
    <2>4. PICK role \in Crew!Role : role = roles[t.role]
      BY <2>3 DEF StaffInv, StaffTables
    <2>5. role.permissions \in SUBSET Permissions
      BY DEF Crew!Role
    <2>6. /\ s \in StaffSession /\ s.stage = "deleting" /\ s.role = t.role
          /\ s.username = t.username /\ s.removed = role.permissions
      BY <1>2, <2>1, <2>4, <2>5 DEF StaffSession, StaffStages
    <2>7. StaffKnows(s, users, roles, user_roles, workload)
      BY <2>3, <2>4, <2>6 DEF StaffKnows
    <2>8. s \in StaffSession
      BY <2>6
    <2> QED
      BY <2>2, <2>7, <2>8, StaffMoves
  <1>4. ASSUME Crew!LoadAssignments(r)
        PROVE  StaffInv'
    <2>1. PICK s : s = [t EXCEPT !.stage = "cascade"]
      OBVIOUS
    <2>2. /\ t.stage = "delete role"
          /\ staff_session' = [staff_session EXCEPT ![r] = s]
          /\ UNCHANGED <<users, roles, user_roles>>
      <3>1. /\ t.stage = "delete role"
            /\ staff_session' = [staff_session EXCEPT ![r].stage = "cascade"]
            /\ UNCHANGED <<users, roles, user_roles>>
        BY <1>1, <1>4 DEF Crew!LoadAssignments, Crew!staff
      <3>2. staff_session = [q \in Requests |-> staff_session[q]]
        BY DEF StaffInv, StaffSessions
      <3> QED
        BY <1>1, <2>1, <3>1, <3>2
    <2>3. t.role \in DOMAIN roles /\ ~roles[t.role].is_system
      BY <1>2, <2>2 DEF StaffKnows
    <2>4. s \in StaffSession /\ s.stage = "cascade" /\ s.role = t.role
      BY <1>2, <2>1 DEF StaffSession, StaffStages
    <2>5. StaffKnows(s, users, roles, user_roles, workload)
      BY <2>3, <2>4 DEF StaffKnows
    <2>6. s \in StaffSession
      BY <2>4
    <2> QED
      BY <2>2, <2>5, <2>6, StaffMoves
  <1>5. ASSUME Crew!DeletePermissions(r)
        PROVE  StaffInv'
    <2>1. PICK s : s = [t EXCEPT !.stage = "write permissions"]
      OBVIOUS
    <2>2. /\ t.stage = "deleting"
          /\ staff_session' = [staff_session EXCEPT ![r] = s]
          /\ UNCHANGED <<users, roles, user_roles>>
      <3>1. /\ t.stage = "deleting"
            /\ staff_session' = [staff_session EXCEPT ![r].stage = "write permissions"]
            /\ UNCHANGED <<users, roles, user_roles>>
        BY <1>1, <1>5 DEF Crew!DeletePermissions, Crew!staff
      <3>2. staff_session = [q \in Requests |-> staff_session[q]]
        BY DEF StaffInv, StaffSessions
      <3> QED
        BY <1>1, <2>1, <3>1, <3>2
    <2>3. /\ t.role \in DOMAIN roles /\ t.username \in Mailboxes
          /\ workload.width = 1 => t.removed = roles[t.role].permissions
      BY <1>2, <2>2 DEF StaffKnows
    <2>4. /\ s \in StaffSession /\ s.stage = "write permissions" /\ s.role = t.role
          /\ s.username = t.username /\ s.removed = t.removed
      BY <1>2, <2>1 DEF StaffSession, StaffStages
    <2>5. StaffKnows(s, users, roles, user_roles, workload)
      BY <2>3, <2>4 DEF StaffKnows
    <2>6. s \in StaffSession
      BY <2>4
    <2> QED
      BY <2>2, <2>5, <2>6, StaffMoves
  <1> QED
    BY <1>3, <1>4, <1>5

\* A request fails.
LEMMA StaffAbandonsStep ==
    ASSUME StaffInv, NEW r \in Requests, Crew!Abandon(r), workload' = workload,
           Apart(staff_session', Serial)
    PROVE  StaffInv'
  <1>1. PICK s : s = Crew!IdleRequest
    OBVIOUS
  <1>2. /\ staff_session' = [staff_session EXCEPT ![r] = s]
        /\ UNCHANGED <<users, roles, user_roles>>
    BY <1>1 DEF Crew!Abandon, Crew!Commit, Crew!staff
  <1>3. s \in StaffSession /\ StaffKnows(s, users, roles, user_roles, workload)
    BY <1>1, IdleStaffIs
  <1> QED
    BY <1>2, <1>3, StaffMoves
-----------------------------------------------------------------------------
\* Staff: steps that write.

\* What the tables hold of a row.
LEMMA StaffRows ==
    ASSUME StaffInv
    PROVE  /\ \A i \in DOMAIN users : users[i] \in Crew!User
           /\ \A k \in DOMAIN roles : roles[k] \in Crew!Role
           /\ user_roles \in [Crew!UserRole -> Nat]
  BY DEF StaffInv, StaffTables

\* One count changes.
LEMMA CountIs ==
    ASSUME NEW S, NEW f \in [S -> Nat], NEW x, NEW v, x \in S => v \in Nat,
           NEW g, g = [f EXCEPT ![x] = v]
    PROVE  /\ g \in [S -> Nat] /\ \A a \in S : g[a] = IF a = x THEN v ELSE f[a]
           /\ \A a \in S : f[a] \in Nat
  OBVIOUS

\* INSERT INTO user_roles, and what else may happen to the counts.
LEMMA AssignmentsStay ==
    ASSUME StaffInv, NEW us, NEW ro, RowsKeep(users, roles, us, ro),
           \A k \in DOMAIN roles : ro[k].deleted = roles[k].deleted,
           NEW ur \in [Crew!UserRole -> Nat], NEW x,
           \A a \in Crew!UserRole : a # x => ur[a] <= user_roles[a],
           x \in Crew!UserRole /\ ur[x] > user_roles[x] =>
                /\ ur[x] = user_roles[x] + 1
                /\ x.user \in DOMAIN us /\ x.role \in DOMAIN ro /\ ~ro[x.role].deleted
                /\ workload.width = 1 => user_roles[x] = 0
    PROVE  /\ \A a \in Crew!UserRole : ur[a] > 0 =>
                a.user \in DOMAIN us /\ a.role \in DOMAIN ro /\ ~ro[a.role].deleted
           /\ workload.width = 1 => \A a \in Crew!UserRole : ur[a] <= 1
  <1> SUFFICES ASSUME NEW a \in Crew!UserRole
               PROVE  /\ ur[a] > 0 =>
                            a.user \in DOMAIN us /\ a.role \in DOMAIN ro /\ ~ro[a.role].deleted
                      /\ workload.width = 1 => ur[a] <= 1
    OBVIOUS
  <1>1. PICK n \in Nat, m \in Nat : n = user_roles[a] /\ m = ur[a]
    BY StaffRows
  <1>2. /\ n > 0 => a.user \in DOMAIN users /\ a.role \in DOMAIN roles /\ ~roles[a.role].deleted
        /\ workload.width = 1 => n <= 1
    BY <1>1 DEF StaffInv, StaffTables, StaffBooks
  <1>3. CASE m <= n
    BY <1>1, <1>2, <1>3 DEF RowsKeep
  <1>4. CASE m > n
    BY <1>1, <1>2, <1>4
  <1> QED
    BY <1>1, <1>3, <1>4

\* register, create_user and Google logins insert.
LEMMA InsertUserStep ==
    ASSUME StaffInv, NEW r \in Requests, Crew!InsertUser(r), workload' = workload,
           Apart(staff_session', Serial)
    PROVE  StaffInv'
  <1>1. PICK s : s = staff_session[r]
    OBVIOUS
  <1>2. /\ s.stage = "insert user" /\ s \in StaffSession
        /\ StaffKnows(s, users, roles, user_roles, workload)
    BY <1>1, StaffIs DEF Crew!InsertUser
  <1>3. PICK u : u = [organization |-> s.organization, username |-> s.username,
                      email |-> s.email, deleted |-> FALSE]
    OBVIOUS
  <1>4. PICK us, ro, ur : us = users' /\ ro = roles /\ ur = user_roles'
    OBVIOUS
  <1>5. /\ us = WithRow(users, u) /\ roles' = ro
        /\ staff_session' = [staff_session EXCEPT ![r] = Crew!IdleRequest]
        /\ ur = IF s.handler = "google" THEN Crew!Assigned(Len(users) + 1, 1, None) ELSE user_roles
        /\ ~Crew!Conflict(s, {})
    BY <1>1, <1>3, <1>4 DEF Crew!InsertUser, Crew!Commit, WithRow
  <1>6. PICK n \in Nat : n = Len(users) /\ DOMAIN users = 1 .. n
    BY StaffIds
  <1>7. IsTable(users) /\ IsTable(roles)
    BY DEF StaffInv, StaffTables
  <1>8. /\ IsTable(us) /\ DOMAIN us = 1 .. n + 1 /\ us[n + 1] = u
        /\ \A i \in 1 .. n : us[i] = users[i]
    BY <1>5, <1>6, <1>7, AppendRow
  <1>9. /\ s.organization \in Organizations /\ s.username \in Crew!Names
        /\ s.email \in Crew!Emails /\ (Plain(workload) => IsLower(s.email))
    BY <1>2 DEF StaffKnows
  <1>10. u \in Crew!User /\ u.email = s.email /\ ~u.deleted
    BY <1>3, <1>9 DEF Crew!User
  <1>11. \A i \in DOMAIN us : us[i] \in Crew!User
    BY <1>6, <1>8, <1>10, StaffRows
  <1>12. ASSUME NEW i \in 1 .. n
         PROVE  ~SameUser(us[i], u) /\ ~SameUser(u, us[i])
    <2>1. us[i] = users[i]
      BY <1>8
    <2>2. ~(/\ users[i].organization = s.organization
            /\ (users[i].username = s.username \/ users[i].email = s.email))
      BY <1>5, <1>6 DEF Crew!Conflict
    <2> QED
      BY <1>3, <2>1, <2>2 DEF SameUser
  <1>13. ASSUME NEW i \in DOMAIN us, NEW j \in DOMAIN us, SameUser(us[i], us[j])
         PROVE  i = j
    <2>1. CASE i \in 1 .. n /\ j \in 1 .. n
      BY <1>6, <1>8, <1>13, <2>1 DEF StaffInv, StaffTables
    <2>2. CASE i = n + 1 /\ j \in 1 .. n
      BY <1>8, <1>12, <1>13, <2>2
    <2>3. CASE j = n + 1 /\ i \in 1 .. n
      BY <1>8, <1>12, <1>13, <2>3
    <2> QED
      BY <1>8, <2>1, <2>2, <2>3
  <1>14. RowsKeep(users, roles, us, ro)
    BY <1>4, <1>6, <1>8 DEF RowsKeep
  <1>15. PICK x : x = Crew!Assignment(n + 1, 1, None)
    OBVIOUS
  <1>16. x.user = n + 1 /\ x.role = 1
    BY <1>15 DEF Crew!Assignment
  <1>17. /\ ur \in [Crew!UserRole -> Nat]
         /\ \A a \in Crew!UserRole : ur[a] = user_roles[a] \/ (a = x /\ ur[a] = user_roles[a] + 1)
    <2>1. CASE s.handler = "google"
      <3>1. ur = [user_roles EXCEPT ![x] = user_roles[x] + 1]
        BY <1>5, <1>6, <1>15, <2>1 DEF Crew!Assigned
      <3>2. x \in Crew!UserRole => user_roles[x] + 1 \in Nat
        BY StaffRows
      <3>3. user_roles \in [Crew!UserRole -> Nat]
        BY StaffRows
      <3> QED
        BY <3>1, <3>2, <3>3, CountIs
    <2>2. CASE s.handler # "google"
      BY <1>5, <2>2, StaffRows
    <2> QED
      BY <2>1, <2>2
  <1>18. ASSUME x \in Crew!UserRole
         PROVE  user_roles[x] = 0
    <2>1. x.user \notin DOMAIN users
      BY <1>6, <1>16
    <2>2. ~(user_roles[x] > 0)
      BY <1>18, <2>1 DEF StaffInv, StaffTables
    <2> QED
      BY <1>18, <2>2, StaffRows
  <1>19. x.user \in DOMAIN us /\ x.role \in DOMAIN ro /\ ~ro[x.role].deleted
    BY <1>4, <1>8, <1>16 DEF StaffInv, StaffTables
  <1>20. \A a \in Crew!UserRole : user_roles[a] \in Nat
    BY StaffRows
  <1>21. /\ \A a \in Crew!UserRole : ur[a] > 0 =>
                a.user \in DOMAIN us /\ a.role \in DOMAIN ro /\ ~ro[a.role].deleted
         /\ workload.width = 1 => \A a \in Crew!UserRole : ur[a] <= 1
    <2>1. \A a \in Crew!UserRole : a # x => ur[a] <= user_roles[a]
      BY <1>17, <1>20
    <2>2. x \in Crew!UserRole /\ ur[x] > user_roles[x] =>
                /\ ur[x] = user_roles[x] + 1
                /\ x.user \in DOMAIN us /\ x.role \in DOMAIN ro /\ ~ro[x.role].deleted
                /\ workload.width = 1 => user_roles[x] = 0
      BY <1>17, <1>18, <1>19, <1>20
    <2>3. \A k \in DOMAIN roles : ro[k].deleted = roles[k].deleted
      BY <1>4
    <2> QED
      BY <1>14, <1>17, <2>1, <2>2, <2>3, AssignmentsStay
  <1>22. StaffTables(us, ro, ur)
    BY <1>4, <1>7, <1>8, <1>11, <1>13, <1>17, <1>21 DEF StaffInv, StaffTables
  <1>23. StaffBooks(us, ro, ur, workload)
    <2>1. \A i \in DOMAIN us : i = n + 1 \/ (i \in DOMAIN users /\ us[i] = users[i])
      BY <1>6, <1>8
    <2>2. Plain(workload) => \A i \in DOMAIN us : IsLower(us[i].email)
      BY <1>8, <1>9, <1>10, <2>1 DEF StaffInv, StaffBooks
    <2>3. Kept(workload) => \A i \in DOMAIN us : ~us[i].deleted
      BY <1>8, <1>10, <2>1 DEF StaffInv, StaffBooks
    <2>4. workload.width = 1 => \A k \in DOMAIN ro : ro[k].permissions = ro[k].asked
      BY <1>4 DEF StaffInv, StaffBooks
    <2> QED
      BY <1>21, <2>2, <2>3, <2>4 DEF StaffBooks
  <1>24. staff_session[r].stage # "idle"
    BY <1>1, <1>2
  <1> QED
    BY <1>4, <1>5, <1>14, <1>22, <1>23, <1>24, StaffEnds

\* assign_role inserts.
LEMMA AssignRoleStep ==
    ASSUME StaffInv, NEW r \in Requests, Crew!AssignRole(r), workload' = workload,
           Apart(staff_session', Serial)
    PROVE  StaffInv'
  <1>1. PICK s : s = staff_session[r]
    OBVIOUS
  <1>2. /\ s.stage = "assign" /\ s \in StaffSession
        /\ StaffKnows(s, users, roles, user_roles, workload)
    BY <1>1, StaffIs DEF Crew!AssignRole
  <1>3. PICK ur : ur = user_roles'
    OBVIOUS
  <1>4. PICK x : x = Crew!Assignment(s.user, s.role, s.branch)
    OBVIOUS
  <1>5. /\ users' = users /\ roles' = roles /\ ~roles[s.role].deleted
        /\ staff_session' = [staff_session EXCEPT ![r] = Crew!IdleRequest]
        /\ ur = [user_roles EXCEPT ![x] = user_roles[x] + 1]
    BY <1>1, <1>3, <1>4 DEF Crew!AssignRole, Crew!Commit, Crew!RoleExists, Crew!Assigned
  <1>6. x.user = s.user /\ x.role = s.role
    BY <1>4 DEF Crew!Assignment
  <1>7. /\ s.user \in DOMAIN users /\ s.role \in DOMAIN roles
        /\ workload.width = 1 => (x \in Crew!UserRole => user_roles[x] = 0)
    BY <1>2, <1>4 DEF StaffKnows
  <1>8. /\ ur \in [Crew!UserRole -> Nat]
        /\ \A a \in Crew!UserRole : ur[a] = IF a = x THEN user_roles[a] + 1 ELSE user_roles[a]
        /\ \A a \in Crew!UserRole : user_roles[a] \in Nat
    <2>1. x \in Crew!UserRole => user_roles[x] + 1 \in Nat
      BY StaffRows
    <2>2. user_roles \in [Crew!UserRole -> Nat]
      BY StaffRows
    <2> QED
      BY <1>5, <2>1, <2>2, CountIs
  <1>9. RowsKeep(users, roles, users, roles)
    BY DEF RowsKeep
  <1>10. /\ \A a \in Crew!UserRole : ur[a] > 0 =>
                a.user \in DOMAIN users /\ a.role \in DOMAIN roles /\ ~roles[a.role].deleted
         /\ workload.width = 1 => \A a \in Crew!UserRole : ur[a] <= 1
    <2>1. \A a \in Crew!UserRole : a # x => ur[a] <= user_roles[a]
      BY <1>8
    <2>2. x \in Crew!UserRole /\ ur[x] > user_roles[x] =>
                /\ ur[x] = user_roles[x] + 1
                /\ x.user \in DOMAIN users /\ x.role \in DOMAIN roles /\ ~roles[x.role].deleted
                /\ workload.width = 1 => user_roles[x] = 0
      BY <1>5, <1>6, <1>7, <1>8
    <2> QED
      BY <1>8, <1>9, <2>1, <2>2, AssignmentsStay
  <1>11. StaffTables(users, roles, ur) /\ StaffBooks(users, roles, ur, workload)
    BY <1>8, <1>10 DEF StaffInv, StaffTables, StaffBooks
  <1>12. staff_session[r].stage # "idle"
    BY <1>1, <1>2
  <1> QED
    BY <1>3, <1>5, <1>9, <1>11, <1>12, StaffEnds
\* Fewer assignments than before are as good as before.
LEMMA FewerAssignments ==
    ASSUME StaffInv, NEW ur \in [Crew!UserRole -> Nat],
           \A a \in Crew!UserRole : ur[a] <= user_roles[a]
    PROVE  /\ \A a \in Crew!UserRole : ur[a] > 0 =>
                a.user \in DOMAIN users /\ a.role \in DOMAIN roles /\ ~roles[a.role].deleted
           /\ workload.width = 1 => \A a \in Crew!UserRole : ur[a] <= 1
           /\ \A a \in Crew!UserRole : user_roles[a] = 0 => ur[a] = 0
  <1> SUFFICES ASSUME NEW a \in Crew!UserRole
               PROVE  /\ ur[a] > 0 =>
                            a.user \in DOMAIN users /\ a.role \in DOMAIN roles /\ ~roles[a.role].deleted
                      /\ workload.width = 1 => ur[a] <= 1
                      /\ user_roles[a] = 0 => ur[a] = 0
    OBVIOUS
  <1>1. PICK n \in Nat, m \in Nat : n = user_roles[a] /\ m = ur[a]
    BY StaffRows
  <1>2. /\ n > 0 => a.user \in DOMAIN users /\ a.role \in DOMAIN roles /\ ~roles[a.role].deleted
        /\ workload.width = 1 => n <= 1
    BY <1>1 DEF StaffInv, StaffTables, StaffBooks
  <1> QED
    BY <1>1, <1>2

\* The table of users with one row changed in its e-mail address or its deletion.
LEMMA UserChanges ==
    ASSUME StaffInv, NEW i \in DOMAIN users, NEW us, NEW u \in Crew!User,
           us = Changed(users, i, u),
           u.organization = users[i].organization, u.username = users[i].username,
           \A j \in DOMAIN users \ {i} :
                users[j].organization = u.organization => users[j].email # u.email
    PROVE  /\ IsTable(us) /\ DOMAIN us = DOMAIN users /\ RowsKeep(users, roles, us, roles)
           /\ \A j \in DOMAIN users : us[j] = IF j = i THEN u ELSE users[j]
           /\ \A j \in DOMAIN us : us[j] \in Crew!User
           /\ \A j, k \in DOMAIN us : SameUser(us[j], us[k]) => j = k
  <1>1. IsTable(users)
    BY DEF StaffInv, StaffTables
  <1>2. /\ IsTable(us) /\ DOMAIN us = DOMAIN users
        /\ \A j \in DOMAIN users : us[j] = IF j = i THEN u ELSE users[j]
    BY <1>1, ChangeRow
  <1>3. \A j \in DOMAIN us : us[j] \in Crew!User
    BY <1>2, StaffRows
  <1>4. RowsKeep(users, roles, us, roles)
    BY <1>2 DEF RowsKeep
  <1>5. ASSUME NEW j \in DOMAIN users \ {i}
        PROVE  ~SameUser(us[j], u) /\ ~SameUser(u, us[j])
    <2>1. us[j] = users[j] /\ j # i
      BY <1>2
    <2>2. ~SameUser(users[j], users[i])
      BY DEF StaffInv, StaffTables
    <2> QED
      BY <2>1, <2>2 DEF SameUser
  <1>6. ASSUME NEW j \in DOMAIN us, NEW k \in DOMAIN us, SameUser(us[j], us[k])
        PROVE  j = k
    <2>1. CASE j # i /\ k # i
      BY <1>2, <1>6, <2>1 DEF StaffInv, StaffTables
    <2>2. CASE j = i \/ k = i
      BY <1>2, <1>5, <1>6, <2>2
    <2> QED
      BY <2>1, <2>2
  <1> QED
    BY <1>2, <1>3, <1>4, <1>6

\* update_user writes the address and deletes assignments.
LEMMA WriteUserStep ==
    ASSUME StaffInv, NEW r \in Requests, Crew!WriteUser(r), workload' = workload,
           Apart(staff_session', Serial)
    PROVE  StaffInv'
  <1>1. PICK s : s = staff_session[r]
    OBVIOUS
  <1>2. /\ s.stage = "write user" /\ s \in StaffSession
        /\ StaffKnows(s, users, roles, user_roles, workload)
    BY <1>1, StaffIs DEF Crew!WriteUser
  <1>3. PICK i : i = s.user
    OBVIOUS
  <1>4. /\ i \in DOMAIN users /\ s.email \in Crew!Emails /\ ~Plain(workload)
        /\ s.organization = users[i].organization /\ s.username = users[i].username
    BY <1>2, <1>3 DEF StaffKnows
  <1>5. PICK v \in Crew!User : v = users[i]
    BY <1>4, StaffRows
  <1>6. PICK u : u = [v EXCEPT !.email = s.email]
    OBVIOUS
  <1>7. /\ u \in Crew!User /\ u.organization = v.organization /\ u.username = v.username
        /\ u.email = s.email /\ u.deleted = v.deleted
    BY <1>4, <1>6 DEF Crew!User
  <1>8. PICK us, ur : us = users' /\ ur = user_roles'
    OBVIOUS
  <1>9. /\ us = [users EXCEPT ![i].email = s.email] /\ roles' = roles
        /\ staff_session' = [staff_session EXCEPT ![r] = Crew!IdleRequest]
        /\ ur = IF s.branch = "none" THEN Crew!RolesWithout(i) ELSE user_roles
        /\ ~Crew!Conflict(s, {i})
    BY <1>1, <1>3, <1>8 DEF Crew!WriteUser, Crew!Commit
  <1>10. us = Changed(users, i, u)
    BY <1>4, <1>5, <1>6, <1>9 DEF Changed
  <1>11. ASSUME NEW j \in DOMAIN users \ {i}, users[j].organization = u.organization
         PROVE  users[j].email # u.email
    BY <1>4, <1>5, <1>7, <1>9, <1>11 DEF Crew!Conflict
  <1>12. /\ IsTable(us) /\ DOMAIN us = DOMAIN users /\ RowsKeep(users, roles, us, roles)
         /\ \A j \in DOMAIN users : us[j] = IF j = i THEN u ELSE users[j]
         /\ \A j \in DOMAIN us : us[j] \in Crew!User
         /\ \A j, k \in DOMAIN us : SameUser(us[j], us[k]) => j = k
    BY <1>4, <1>5, <1>7, <1>10, <1>11, UserChanges
  <1>13. ur \in [Crew!UserRole -> Nat] /\ \A a \in Crew!UserRole : ur[a] <= user_roles[a]
    <2>1. CASE s.branch = "none"
      <3>1. ur = [a \in Crew!UserRole |-> IF a.user = i THEN 0 ELSE user_roles[a]]
        BY <1>9, <2>1 DEF Crew!RolesWithout
      <3> QED
        BY <3>1, StaffRows
    <2>2. CASE s.branch # "none"
      BY <1>9, <2>2, StaffRows
    <2> QED
      BY <2>1, <2>2
  <1>14. /\ \A a \in Crew!UserRole : ur[a] > 0 =>
                a.user \in DOMAIN users /\ a.role \in DOMAIN roles /\ ~roles[a.role].deleted
         /\ workload.width = 1 => \A a \in Crew!UserRole : ur[a] <= 1
    BY <1>13, FewerAssignments
  <1>15. StaffTables(us, roles, ur)
    BY <1>12, <1>13, <1>14 DEF StaffInv, StaffTables
  <1>16. StaffBooks(us, roles, ur, workload)
    <2>1. Kept(workload) => \A j \in DOMAIN us : ~us[j].deleted
      BY <1>5, <1>7, <1>12 DEF StaffInv, StaffBooks
    <2> QED
      BY <1>4, <1>14, <2>1 DEF StaffInv, StaffBooks
  <1>17. staff_session[r].stage # "idle"
    BY <1>1, <1>2
  <1> QED
    BY <1>8, <1>9, <1>12, <1>15, <1>16, <1>17, StaffEnds

\* delete_user marks the row.
LEMMA DeleteUserStep ==
    ASSUME StaffInv, NEW r \in Requests, NEW i \in DOMAIN users, Crew!DeleteUser(r, i),
           workload' = workload, Uses("delete") \/ \A j \in DOMAIN users' : ~users'[j].deleted
    PROVE  StaffInv'
  <1>1. PICK us : us = users'
    OBVIOUS
  <1>2. PICK v \in Crew!User : v = users[i]
    BY StaffRows
  <1>3. PICK u : u = [v EXCEPT !.deleted = TRUE]
    OBVIOUS
  <1>4. /\ u \in Crew!User /\ u.organization = v.organization /\ u.username = v.username
        /\ u.email = v.email /\ u.deleted
    BY <1>3 DEF Crew!User
  <1>5. /\ us = [users EXCEPT ![i].deleted = TRUE]
        /\ UNCHANGED <<roles, user_roles, staff_session>>
    BY <1>1 DEF Crew!DeleteUser
  <1>6. us = Changed(users, i, u)
    BY <1>2, <1>3, <1>5 DEF Changed
  <1>7. ASSUME NEW j \in DOMAIN users \ {i}, users[j].organization = u.organization
        PROVE  users[j].email # u.email
    <2>1. ~SameUser(users[j], users[i])
      BY DEF StaffInv, StaffTables
    <2> QED
      BY <1>2, <1>4, <1>7, <2>1 DEF SameUser
  <1>8. /\ IsTable(us) /\ DOMAIN us = DOMAIN users /\ RowsKeep(users, roles, us, roles)
        /\ \A j \in DOMAIN users : us[j] = IF j = i THEN u ELSE users[j]
        /\ \A j \in DOMAIN us : us[j] \in Crew!User
        /\ \A j, k \in DOMAIN us : SameUser(us[j], us[k]) => j = k
    BY <1>2, <1>4, <1>6, <1>7, UserChanges
  <1>9. StaffTables(us, roles, user_roles)
    BY <1>8 DEF StaffInv, StaffTables
  <1>10. us[i].deleted
    BY <1>4, <1>8
  <1>11. ~Kept(workload)
    BY <1>1, <1>8, <1>10 DEF Kept, Uses
  <1>12. \A j \in DOMAIN users : us[j].email = users[j].email
    BY <1>2, <1>4, <1>8
  <1>13. StaffBooks(us, roles, user_roles, workload)
    BY <1>8, <1>11, <1>12 DEF StaffInv, StaffBooks
  <1> QED
    BY <1>1, <1>5, <1>8, <1>9, <1>12, <1>13, StaffAtOnce

\* remove_role deletes one row.
LEMMA RemoveRoleStep ==
    ASSUME StaffInv, NEW r \in Requests, NEW i, NEW k, NEW branch,
           Crew!RemoveRole(r, i, k, branch), workload' = workload
    PROVE  StaffInv'
  <1>1. PICK ur : ur = user_roles'
    OBVIOUS
  <1>2. PICK x : x = Crew!Assignment(i, k, branch)
    OBVIOUS
  <1>3. /\ UNCHANGED <<users, roles, staff_session>>
        /\ user_roles[x] # 0 /\ ur = [user_roles EXCEPT ![x] = user_roles[x] - 1]
    BY <1>1, <1>2 DEF Crew!RemoveRole, Crew!Fresh
  <1>4. x \in Crew!UserRole => user_roles[x] - 1 \in Nat
    <2>1. x \in Crew!UserRole => user_roles[x] \in Nat
      BY StaffRows
    <2> QED
      BY <1>3, <2>1
  <1>5. user_roles \in [Crew!UserRole -> Nat]
    BY StaffRows
  <1>6. /\ ur \in [Crew!UserRole -> Nat]
        /\ \A a \in Crew!UserRole : ur[a] = IF a = x THEN user_roles[x] - 1 ELSE user_roles[a]
        /\ \A a \in Crew!UserRole : user_roles[a] \in Nat
    BY <1>3, <1>4, <1>5, CountIs
  <1>7. \A a \in Crew!UserRole : ur[a] <= user_roles[a]
    BY <1>6
  <1>8. /\ \A a \in Crew!UserRole : ur[a] > 0 =>
                a.user \in DOMAIN users /\ a.role \in DOMAIN roles /\ ~roles[a.role].deleted
        /\ workload.width = 1 => \A a \in Crew!UserRole : ur[a] <= 1
        /\ \A a \in Crew!UserRole : user_roles[a] = 0 => ur[a] = 0
    BY <1>6, <1>7, FewerAssignments
  <1>9. StaffTables(users, roles, ur) /\ StaffBooks(users, roles, ur, workload)
    BY <1>6, <1>8 DEF StaffInv, StaffTables, StaffBooks
  <1>10. RowsKeep(users, roles, users, roles)
    BY DEF RowsKeep
  <1> QED
    BY <1>1, <1>3, <1>8, <1>9, <1>10, StaffAtOnce
\* create_role inserts.
LEMMA InsertRoleStep ==
    ASSUME StaffInv, NEW r \in Requests, Crew!InsertRole(r), workload' = workload,
           Apart(staff_session', Serial)
    PROVE  StaffInv'
  <1>1. PICK s : s = staff_session[r]
    OBVIOUS
  <1>2. /\ s.stage = "insert role" /\ s \in StaffSession
        /\ StaffKnows(s, users, roles, user_roles, workload)
    BY <1>1, StaffIs DEF Crew!InsertRole
  <1>3. s.username \in Mailboxes /\ s.permissions \in SUBSET Permissions
    BY <1>2 DEF StaffKnows, StaffSession
  <1>4. PICK v : v = [name |-> s.username, is_system |-> FALSE, permissions |-> s.permissions,
                      asked |-> s.permissions, deleted |-> FALSE]
    OBVIOUS
  <1>5. /\ v \in Crew!Role /\ v.name = s.username /\ ~v.is_system
        /\ v.permissions = v.asked /\ ~v.deleted
    BY <1>3, <1>4 DEF Crew!Role
  <1>6. PICK ro : ro = roles'
    OBVIOUS
  <1>7. /\ ro = WithRow(roles, v) /\ users' = users /\ user_roles' = user_roles
        /\ staff_session' = [staff_session EXCEPT ![r] = Crew!IdleRequest]
        /\ Crew!NamedRole(s.username) = {}
    BY <1>1, <1>4, <1>6 DEF Crew!InsertRole, Crew!Commit, WithRow
  <1>8. PICK n \in Nat : n = Len(roles) /\ DOMAIN roles = 1 .. n
    BY StaffIds
  <1>9. IsTable(roles)
    BY DEF StaffInv, StaffTables
  <1>10. /\ IsTable(ro) /\ DOMAIN ro = 1 .. n + 1 /\ ro[n + 1] = v
         /\ \A k \in 1 .. n : ro[k] = roles[k]
    BY <1>7, <1>8, <1>9, AppendRow
  <1>11. \A k \in DOMAIN ro : ro[k] \in Crew!Role /\ (ro[k].is_system => ~ro[k].deleted)
    <2>1. \A k \in DOMAIN roles : roles[k] \in Crew!Role /\ (roles[k].is_system => ~roles[k].deleted)
      BY DEF StaffInv, StaffTables
    <2> QED
      BY <1>5, <1>8, <1>10, <2>1
  <1>12. \A k \in 1 .. n : ~roles[k].deleted => roles[k].name # v.name
    BY <1>5, <1>7, <1>8 DEF Crew!NamedRole
  <1>13. ASSUME NEW k \in DOMAIN ro, NEW m \in DOMAIN ro, ~ro[k].deleted, ~ro[m].deleted,
                ro[k].name = ro[m].name
         PROVE  k = m
    <2>1. CASE k \in 1 .. n /\ m \in 1 .. n
      BY <1>8, <1>10, <1>13, <2>1 DEF StaffInv, StaffTables
    <2>2. CASE k = n + 1 /\ m \in 1 .. n
      BY <1>10, <1>12, <1>13, <2>2
    <2>3. CASE m = n + 1 /\ k \in 1 .. n
      BY <1>10, <1>12, <1>13, <2>3
    <2> QED
      BY <1>10, <2>1, <2>2, <2>3
  <1>14. RowsKeep(users, roles, users, ro)
    BY <1>8, <1>10 DEF RowsKeep
  <1>15. \A a \in Crew!UserRole : user_roles[a] > 0 =>
            a.user \in DOMAIN users /\ a.role \in DOMAIN ro /\ ~ro[a.role].deleted
    <2>1. \A a \in Crew!UserRole : user_roles[a] > 0 =>
            a.user \in DOMAIN users /\ a.role \in 1 .. n /\ ~roles[a.role].deleted
      BY <1>8 DEF StaffInv, StaffTables
    <2> QED
      BY <1>10, <2>1
  <1>16. 1 \in DOMAIN ro /\ ro[1].is_system
    <2>1. 1 \in 1 .. n /\ roles[1].is_system
      BY <1>8 DEF StaffInv, StaffTables
    <2> QED
      BY <1>10, <2>1
  <1>17. StaffTables(users, ro, user_roles)
    BY <1>10, <1>11, <1>13, <1>15, <1>16 DEF StaffInv, StaffTables
  <1>18. workload.width = 1 => \A k \in DOMAIN ro : ro[k].permissions = ro[k].asked
    <2>1. workload.width = 1 => \A k \in 1 .. n : roles[k].permissions = roles[k].asked
      BY <1>8 DEF StaffInv, StaffBooks
    <2> QED
      BY <1>5, <1>10, <2>1
  <1>19. StaffBooks(users, ro, user_roles, workload)
    BY <1>18 DEF StaffInv, StaffBooks
  <1>20. staff_session[r].stage # "idle"
    BY <1>1, <1>2
  <1> QED
    BY <1>6, <1>7, <1>14, <1>17, <1>19, <1>20, StaffEnds

\* update_role writes its name and its permissions.
LEMMA WritePermissionsStep ==
    ASSUME StaffInv, NEW r \in Requests, Crew!WritePermissions(r), workload' = workload,
           Apart(staff_session', Serial)
    PROVE  StaffInv'
  <1>1. PICK s : s = staff_session[r]
    OBVIOUS
  <1>2. /\ s.stage = "write permissions" /\ s \in StaffSession
        /\ StaffKnows(s, users, roles, user_roles, workload)
    BY <1>1, StaffIs DEF Crew!WritePermissions
  <1>3. PICK m : m = s.role
    OBVIOUS
  <1>4. /\ m \in DOMAIN roles /\ s.username \in Mailboxes /\ s.permissions \in SUBSET Permissions
        /\ workload.width = 1 => s.removed = roles[m].permissions
    BY <1>2, <1>3 DEF StaffKnows, StaffSession
  <1>5. PICK v \in Crew!Role : v = roles[m]
    BY <1>4, StaffRows
  <1>6. PICK new : new = Crew!Replaced(v.permissions, s)
    OBVIOUS
  <1>7. new = (v.permissions \ s.removed) \cup s.permissions
    BY <1>6 DEF Crew!Replaced
  <1>8. PICK w : w = [v EXCEPT !.name = s.username, !.permissions = new, !.asked = s.permissions]
    OBVIOUS
  <1>9. new \in SUBSET Permissions
    <2>1. v.permissions \in SUBSET Permissions
      BY DEF Crew!Role
    <2> QED
      BY <1>4, <1>7, <2>1
  <1>10. /\ w \in Crew!Role /\ w.name = s.username /\ w.is_system = v.is_system
         /\ w.permissions = new /\ w.asked = s.permissions /\ w.deleted = v.deleted
    BY <1>4, <1>8, <1>9 DEF Crew!Role
  <1>11. PICK ro : ro = roles'
    OBVIOUS
  <1>12. /\ ro = [roles EXCEPT ![m].name = s.username,
                               ![m].permissions = Crew!Replaced(roles[m].permissions, s),
                               ![m].asked = s.permissions]
         /\ users' = users /\ user_roles' = user_roles
         /\ staff_session' = Crew!Gone(r)
         /\ Crew!NamedRole(s.username) \subseteq {m} /\ ~roles[m].deleted
    BY <1>1, <1>3, <1>11 DEF Crew!WritePermissions
  <1>13. ro = Changed(roles, m, w)
    BY <1>4, <1>5, <1>6, <1>8, <1>12 DEF Changed
  <1>14. IsTable(roles)
    BY DEF StaffInv, StaffTables
  <1>15. /\ IsTable(ro) /\ DOMAIN ro = DOMAIN roles
         /\ \A k \in DOMAIN roles : ro[k] = IF k = m THEN w ELSE roles[k]
    BY <1>13, <1>14, ChangeRow
  <1>16. \A k \in DOMAIN roles : ro[k].is_system = roles[k].is_system /\ ro[k].deleted = roles[k].deleted
    BY <1>5, <1>10, <1>15
  <1>17. \A k \in DOMAIN ro : ro[k] \in Crew!Role /\ (ro[k].is_system => ~ro[k].deleted)
    <2>1. \A k \in DOMAIN roles : roles[k] \in Crew!Role /\ (roles[k].is_system => ~roles[k].deleted)
      BY DEF StaffInv, StaffTables
    <2>2. \A k \in DOMAIN ro : ro[k] \in Crew!Role
      BY <1>10, <1>15, <2>1
    <2> QED
      BY <1>15, <1>16, <2>1, <2>2
  <1>18. \A k \in DOMAIN roles \ {m} : ~roles[k].deleted => roles[k].name # s.username
    BY <1>12 DEF Crew!NamedRole
  <1>19. ASSUME NEW k \in DOMAIN ro, NEW l \in DOMAIN ro, ~ro[k].deleted, ~ro[l].deleted,
                ro[k].name = ro[l].name
         PROVE  k = l
    <2>1. CASE k # m /\ l # m
      BY <1>15, <1>19, <2>1 DEF StaffInv, StaffTables
    <2>2. CASE k = m /\ l # m
      BY <1>10, <1>15, <1>18, <1>19, <2>2
    <2>3. CASE k # m /\ l = m
      BY <1>10, <1>15, <1>18, <1>19, <2>3
    <2> QED
      BY <2>1, <2>2, <2>3
  <1>20. RowsKeep(users, roles, users, ro)
    BY <1>15, <1>16 DEF RowsKeep
  <1>21. \A a \in Crew!UserRole : user_roles[a] > 0 =>
            a.user \in DOMAIN users /\ a.role \in DOMAIN ro /\ ~ro[a.role].deleted
    <2>1. \A a \in Crew!UserRole : user_roles[a] > 0 =>
            a.user \in DOMAIN users /\ a.role \in DOMAIN roles /\ ~roles[a.role].deleted
      BY DEF StaffInv, StaffTables
    <2> QED
      BY <1>15, <1>16, <2>1
  <1>22. 1 \in DOMAIN ro /\ ro[1].is_system
    <2>1. 1 \in DOMAIN roles /\ roles[1].is_system
      BY DEF StaffInv, StaffTables
    <2> QED
      BY <1>15, <1>16, <2>1
  <1>23. StaffTables(users, ro, user_roles)
    BY <1>15, <1>17, <1>19, <1>21, <1>22 DEF StaffInv, StaffTables
  <1>24. workload.width = 1 => w.permissions = w.asked
    BY <1>4, <1>5, <1>7, <1>10
  <1>25. workload.width = 1 => \A k \in DOMAIN ro : ro[k].permissions = ro[k].asked
    <2>1. workload.width = 1 => \A k \in DOMAIN roles : roles[k].permissions = roles[k].asked
      BY DEF StaffInv, StaffBooks
    <2> QED
      BY <1>15, <1>24, <2>1
  <1>26. StaffBooks(users, ro, user_roles, workload)
    BY <1>25 DEF StaffInv, StaffBooks
  <1>27. staff_session[r].stage # "idle"
    BY <1>1, <1>2
  <1>28. PICK others : others = staff_session'
    OBVIOUS
  <1>29. /\ others = [q \in Requests |-> others[q]] /\ others[r] = Crew!IdleRequest
         /\ \A q \in Requests \ {r} :
              \/ others[q] = staff_session[q]
              \/ others[q] = [staff_session[q] EXCEPT !.removed = staff_session[q].removed \ s.removed]
    BY <1>1, <1>12, <1>28 DEF Crew!Gone
  <1> QED
    BY <1>11, <1>12, <1>20, <1>23, <1>26, <1>27, <1>28, <1>29, StaffLeaves

\* delete_role deletes the row, and the foreign key its assignments.
LEMMA DeleteRoleStep ==
    ASSUME StaffInv, NEW r \in Requests, Crew!DeleteRole(r), workload' = workload,
           Apart(staff_session', Serial)
    PROVE  StaffInv'
  <1>1. PICK s : s = staff_session[r]
    OBVIOUS
  <1>2. /\ s.stage = "cascade" /\ s \in StaffSession
        /\ StaffKnows(s, users, roles, user_roles, workload)
    BY <1>1, StaffIs DEF Crew!DeleteRole
  <1>3. PICK m : m = s.role
    OBVIOUS
  <1>4. m \in DOMAIN roles /\ ~roles[m].is_system
    BY <1>2, <1>3 DEF StaffKnows
  <1>5. PICK v \in Crew!Role : v = roles[m]
    BY <1>4, StaffRows
  <1>6. PICK w : w = [v EXCEPT !.deleted = TRUE, !.permissions = {}, !.asked = {}]
    OBVIOUS
  <1>7. /\ w \in Crew!Role /\ w.is_system = v.is_system /\ w.permissions = w.asked /\ w.deleted
    BY <1>6 DEF Crew!Role
  <1>8. PICK ro, ur : ro = roles' /\ ur = user_roles'
    OBVIOUS
  <1>9. /\ ro = [roles EXCEPT ![m].deleted = TRUE, ![m].permissions = {}, ![m].asked = {}]
        /\ ur = [a \in Crew!UserRole |-> IF a.role = m THEN 0 ELSE user_roles[a]]
        /\ users' = users
        /\ staff_session' = [staff_session EXCEPT ![r] = Crew!IdleRequest]
    BY <1>1, <1>3, <1>8 DEF Crew!DeleteRole, Crew!Commit
  <1>10. ro = Changed(roles, m, w)
    BY <1>4, <1>5, <1>6, <1>9 DEF Changed
  <1>11. IsTable(roles)
    BY DEF StaffInv, StaffTables
  <1>12. /\ IsTable(ro) /\ DOMAIN ro = DOMAIN roles
         /\ \A k \in DOMAIN roles : ro[k] = IF k = m THEN w ELSE roles[k]
    BY <1>10, <1>11, ChangeRow
  <1>13. \A k \in DOMAIN ro : ro[k] \in Crew!Role /\ (ro[k].is_system => ~ro[k].deleted)
    <2>1. \A k \in DOMAIN roles : roles[k] \in Crew!Role /\ (roles[k].is_system => ~roles[k].deleted)
      BY DEF StaffInv, StaffTables
    <2> QED
      BY <1>4, <1>5, <1>7, <1>12, <2>1
  <1>14. ASSUME NEW k \in DOMAIN ro, NEW l \in DOMAIN ro, ~ro[k].deleted, ~ro[l].deleted,
                ro[k].name = ro[l].name
         PROVE  k = l
    <2>1. k # m /\ l # m
      BY <1>7, <1>12, <1>14
    <2> QED
      BY <1>12, <1>14, <2>1 DEF StaffInv, StaffTables
  <1>15. RowsKeep(users, roles, users, ro)
    BY <1>5, <1>7, <1>12 DEF RowsKeep
  <1>16. /\ ur \in [Crew!UserRole -> Nat] /\ \A a \in Crew!UserRole : ur[a] <= user_roles[a]
         /\ \A a \in Crew!UserRole : ur[a] > 0 => a.role # m
    BY <1>9, StaffRows
  <1>17. /\ \A a \in Crew!UserRole : ur[a] > 0 =>
                a.user \in DOMAIN users /\ a.role \in DOMAIN roles /\ ~roles[a.role].deleted
         /\ workload.width = 1 => \A a \in Crew!UserRole : ur[a] <= 1
    BY <1>16, FewerAssignments
  <1>18. \A a \in Crew!UserRole : ur[a] > 0 =>
            a.user \in DOMAIN users /\ a.role \in DOMAIN ro /\ ~ro[a.role].deleted
    BY <1>12, <1>16, <1>17
  <1>19. 1 \in DOMAIN ro /\ ro[1].is_system
    <2>1. 1 \in DOMAIN roles /\ roles[1].is_system
      BY DEF StaffInv, StaffTables
    <2> QED
      BY <1>4, <1>12, <2>1
  <1>20. StaffTables(users, ro, ur)
    BY <1>12, <1>13, <1>14, <1>16, <1>18, <1>19 DEF StaffInv, StaffTables
  <1>21. workload.width = 1 => \A k \in DOMAIN ro : ro[k].permissions = ro[k].asked
    <2>1. workload.width = 1 => \A k \in DOMAIN roles : roles[k].permissions = roles[k].asked
      BY DEF StaffInv, StaffBooks
    <2> QED
      BY <1>7, <1>12, <2>1
  <1>22. StaffBooks(users, ro, ur, workload)
    BY <1>17, <1>21 DEF StaffInv, StaffBooks
  <1>23. staff_session[r].stage # "idle"
    BY <1>1, <1>2
  <1> QED
    BY <1>8, <1>9, <1>15, <1>20, <1>22, <1>23, StaffEnds

-----------------------------------------------------------------------------
\* Staff: the invariant, and what it says.

\* Every step keeps the books of the staff.
LEMMA StaffStepHolds ==
    ASSUME StaffInv, StaffMove
    PROVE  StaffInv'
  <1>1. workload' = workload /\ Apart(staff_session', Serial)
    BY WithinApart DEF StaffMove
  <1>2. /\ Handled(staff_session')
        /\ Uses("delete") \/ \A i \in DOMAIN users' : ~users'[i].deleted
    BY DEF StaffMove
  <1>3. PICK r \in Requests :
            Crew!BeginUser(r) \/ Crew!BeginRole(r) \/ Crew!Immediate(r) \/ Crew!Step(r) \/ Crew!Abandon(r)
    BY DEF StaffMove, Crew!Next
  <1>4. CASE Crew!BeginUser(r)
    BY <1>1, <1>2, <1>4, BeginUserStep
  <1>5. CASE Crew!BeginRole(r)
    BY <1>1, <1>2, <1>5, BeginRoleStep
  <1>6. CASE Crew!Immediate(r)
    BY <1>1, <1>2, <1>6, DeleteUserStep, RemoveRoleStep DEF Crew!Immediate
  <1>7. CASE Crew!Abandon(r)
    BY <1>1, <1>7, StaffAbandonsStep
  <1>8. CASE Crew!InsertUser(r)
    BY <1>1, <1>8, InsertUserStep
  <1>9. CASE Crew!WriteUser(r)
    BY <1>1, <1>9, WriteUserStep
  <1>10. CASE Crew!AssignRole(r)
    BY <1>1, <1>10, AssignRoleStep
  <1>11. CASE Crew!InsertRole(r)
    BY <1>1, <1>11, InsertRoleStep
  <1>12. CASE Crew!FindPermissions(r) \/ Crew!DeletePermissions(r) \/ Crew!LoadAssignments(r)
    BY <1>1, <1>12, StaffReadsStep
  <1>13. CASE Crew!WritePermissions(r)
    BY <1>1, <1>13, WritePermissionsStep
  <1>14. CASE Crew!DeleteRole(r)
    BY <1>1, <1>14, DeleteRoleStep
  <1> QED
    BY <1>3, <1>4, <1>5, <1>6, <1>7, <1>8, <1>9, <1>10, <1>11, <1>12, <1>13, <1>14 DEF Crew!Step

\* A step is one of the staff, or leaves it.
LEMMA StaffSteps ==
    ASSUME [MCNext]_peopleVars
    PROVE  StaffMove \/ UNCHANGED <<StaffVars, workload>>
  BY DEF MCNext, AuthStep, StaffStep, DrawerStep, StaffMove, Within, peopleVars

\* At the start there is the role of the seed and no user.
LEMMA StaffStarts ==
    ASSUME MCInit
    PROVE  StaffInv
  <1>1. PICK m \in Mailboxes : m = CHOOSE mailbox \in Mailboxes : TRUE
    BY PeopleAssumption
  <1>2. PICK v : v = [name |-> m, is_system |-> TRUE, permissions |-> {}, asked |-> {}, deleted |-> FALSE]
    OBVIOUS
  <1>3. v \in Crew!Role /\ v.is_system /\ ~v.deleted /\ v.permissions = v.asked
    BY <1>2 DEF Crew!Role
  <1>4. PICK ro : ro = roles
    OBVIOUS
  <1>5. /\ users = <<>> /\ ro = <<v>> /\ user_roles = [a \in Crew!UserRole |-> 0]
        /\ staff_session = [r \in Requests |-> Crew!IdleRequest]
    BY <1>1, <1>2, <1>4 DEF MCInit, Crew!Init
  <1>6. DOMAIN ro = 1 .. 1 /\ ro[1] = v /\ ro = [i \in 1 .. 1 |-> ro[i]]
    BY <1>5
  <1>7. IsTable(ro)
    BY <1>6, TableOf
  <1>8. IsTable(users) /\ DOMAIN users = {}
    BY <1>5, EmptyTable
  <1>9. user_roles \in [Crew!UserRole -> Nat] /\ \A a \in Crew!UserRole : user_roles[a] = 0
    BY <1>5
  <1>10. StaffTables(users, ro, user_roles)
    BY <1>3, <1>6, <1>7, <1>8, <1>9 DEF StaffTables
  <1>11. StaffBooks(users, ro, user_roles, workload)
    BY <1>3, <1>6, <1>8, <1>9 DEF StaffBooks
  <1>12. StaffSessions(staff_session, users, ro, user_roles, workload)
    BY <1>5, IdleStaffIs DEF StaffSessions
  <1>13. Apart(staff_session, Serial)
    BY <1>5, IdleStaffIs DEF Apart
  <1> QED
    BY <1>4, <1>10, <1>11, <1>12, <1>13 DEF StaffInv

\* The books of the staff, whatever the workloads.
LEMMA StaffIsKept == MCSpec => []StaffInv
  <1>1. ASSUME StaffInv, [MCNext]_peopleVars
        PROVE  StaffInv'
    <2>1. CASE UNCHANGED <<StaffVars, workload>>
      BY <1>1, <2>1 DEF StaffVars, StaffInv, Serial
    <2> QED
      BY <1>1, <2>1, StaffStepHolds, StaffSteps
  <1>2. MCSpec => MCInit /\ [][MCNext]_peopleVars
    BY DEF MCSpec, peopleVars
  <1> QED
    BY <1>1, <1>2, StaffStarts, PTL

\* What the invariant says of the staff.
LEMMA StaffAddsUp ==
    ASSUME StaffInv
    PROVE  /\ Crew!TypeOK
           /\ Serial => Crew!AssignedOnce /\ Crew!PermissionsAsAsked
           /\ ~Uses("create") /\ ~Uses("update") => Crew!OneUserPerMailbox
           /\ Serial /\ ~Uses("delete") => Crew!ChecksForeseeInserts
  <1>1. Crew!TypeOK
    BY DEF StaffInv, StaffTables, Crew!TypeOK
  <1>2. Serial => Crew!AssignedOnce /\ Crew!PermissionsAsAsked
    BY DEF StaffInv, StaffBooks, Serial, Crew!AssignedOnce, Crew!PermissionsAsAsked
  <1>3. ASSUME ~Uses("create"), ~Uses("update"), NEW o \in Organizations,
               NEW i \in Crew!LiveIn(o), NEW j \in Crew!LiveIn(o),
               Crew!Lower(users[i].email) = Crew!Lower(users[j].email)
        PROVE  i = j
    <2>1. Plain(workload)
      BY <1>3 DEF Plain, Uses
    <2>2. PICK u \in Crew!User, v \in Crew!User : u = users[i] /\ v = users[j]
      BY StaffRows DEF Crew!LiveIn
    <2>3. IsLower(u.email) /\ IsLower(v.email)
      BY <2>1, <2>2 DEF StaffInv, StaffBooks, Crew!LiveIn
    <2>4. PICK e \in Crew!Emails, f \in Crew!Emails : e = u.email /\ f = v.email
      BY DEF Crew!User
    <2>5. Crew!Lower(e) = Crew!Lower(f) /\ IsLower(e) /\ IsLower(f)
      BY <1>3, <2>2, <2>3, <2>4
    <2>6. e = f
      BY <2>5 DEF Crew!Emails, Crew!Lower, IsLower
    <2>7. SameUser(users[i], users[j]) /\ i \in DOMAIN users /\ j \in DOMAIN users
      BY <2>2, <2>4, <2>6 DEF SameUser, Crew!LiveIn
    <2> QED
      BY <2>7 DEF StaffInv, StaffTables
  <1>4. ASSUME Serial, ~Uses("delete"), NEW r \in Requests,
               staff_session[r].stage = "insert user"
        PROVE  ~Crew!Conflict(staff_session[r], {})
    <2>1. PICK s : s = staff_session[r]
      OBVIOUS
    <2>2. StaffKnows(s, users, roles, user_roles, workload) /\ s.stage = "insert user"
      BY <1>4, <2>1, StaffIs
    <2>3. workload.width = 1 /\ Kept(workload)
      BY <1>4 DEF Serial, Kept, Uses
    <2>4. \A i \in DOMAIN users : users[i].organization = s.organization =>
            users[i].username # s.username /\ users[i].email # s.email
      BY <2>2, <2>3 DEF StaffKnows
    <2> QED
      BY <2>1, <2>4 DEF Crew!Conflict
  <1> QED
    BY <1>1, <1>2, <1>3, <1>4 DEF Crew!OneUserPerMailbox, Crew!ChecksForeseeInserts

\* The lookups that expect one row find at most one: the live token of a login, the assignment of
\* a role, the open shift of a register, one request at a time; and the user of a mailbox, whatever
\* overlaps, while users only come by registration or Google (auth_repository.py:33).
THEOREM OneRowIsFound == MCSpec => []FoundAtMostOnce
  <1>1. LoginInv /\ ShiftsInv /\ StaffInv => FoundAtMostOnce
    BY OneUsableToken, BooksAddUp, StaffAddsUp DEF FoundAtMostOnce
  <1> QED
    BY <1>1, LoginsAreKept, ShiftsAreKept, StaffIsKept, PTL

\* One request at a time, no insert of a user fails that the lookups let pass where no user was
\* deleted, and a role has the permissions of the last update (replace_role_permissions).
THEOREM RequestsEndAsAsked == MCSpec => []StaffRequestsAsAsked
  <1>1. StaffInv => StaffRequestsAsAsked
    BY StaffAddsUp DEF StaffRequestsAsAsked
  <1> QED
    BY <1>1, StaffIsKept, PTL

\* Sessions, staff and shifts keep their types, and assignments name a user and a live role.
THEOREM PeopleAreTyped == MCSpec => []PeopleTypes
  <1>1. LoginInv /\ ShiftsInv /\ StaffInv => PeopleTypes
    BY OneUsableToken, BooksAddUp, StaffAddsUp DEF PeopleTypes
  <1> QED
    BY <1>1, LoginsAreKept, ShiftsAreKept, StaffIsKept, PTL
=============================================================================
