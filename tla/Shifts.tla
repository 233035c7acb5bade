------------------------------- MODULE Shifts -------------------------------
(***************************************************************************)
(* Shifts of the cash registers and the cash put in and taken out.         *)
(*                                                                         *)
(* Every statement of a request sees what is committed when it runs, no    *)
(* row is locked before the commit that changes it, and nothing in the     *)
(* schema keeps two open shifts off one register.                          *)
(*                                                                         *)
(* close_shift adds the movements up with func.case(..., else_=0), which   *)
(* SQLAlchemy 2.0.35, the version of requirements.txt, refuses with a      *)
(* TypeError.  formed is FALSE for that build; TRUE is the handler as it   *)
(* is written, for a build that forms the sums.                            *)
(***************************************************************************)
EXTENDS Sums, FiniteSets

CONSTANTS
    Registers,  \* ids of the registers, each of one branch
    Clerks,     \* requests that may be in flight; a singleton is a serial run
    Null,
    Cash,       \* opening_cash and closing_cash entered
    Amounts,    \* amounts of cash movements
    MaxShifts,  \* bound of the model: shifts
    MaxTasks    \* bound of the model: requests begun in a behaviour

VARIABLES
    shifts,         \* in the order of their ids
    cash_movements, \* shift_cash_movements, in the order of their commits
    shift_session,  \* per request: what it has read
    formed,         \* the build: the two sums of close_shift can be computed
    tasks           \* requests begun so far (bound of the model)

till == <<shifts, cash_movements>>
shiftVars == <<till, shift_session, formed, tasks>>

\* The sales and refund totals of a shift stay 0: nothing writes them.
Shift ==
    [register : Registers, status : {"open", "closed"}, opening_cash : Nat,
     closing_cash : Nat \union {Null}, expected_cash : Int \union {Null}]

\* ck_shift_cash_movement_type.
StoredTypes == {"cash_in", "cash_out"}
EnteredTypes == StoredTypes \union {"drop"}

CashMovement == [shift : Nat, movement_type : StoredTypes, amount : Nat \ {0}]

IdleClerk ==
    [stage |-> "idle", register |-> Null, shift |-> 0, cash |-> 0, type |-> Null,
     cash_in |-> 0, cash_out |-> 0]

Init ==
    /\ shifts = <<>>
    /\ cash_movements = <<>>
    /\ shift_session = [c \in Clerks |-> IdleClerk]
    /\ formed \in BOOLEAN
    /\ tasks = 0

-----------------------------------------------------------------------------
Begin(c, s) ==
    /\ shift_session[c].stage = "idle"
    /\ tasks < MaxTasks
    /\ tasks' = tasks + 1
    /\ shift_session' = [shift_session EXCEPT ![c] = s]
    /\ UNCHANGED <<till, formed>>

Continue(c, s) ==
    /\ shift_session' = [shift_session EXCEPT ![c] = s]
    /\ UNCHANGED <<till, formed, tasks>>

Commit(c) ==
    /\ shift_session' = [shift_session EXCEPT ![c] = IdleClerk]
    /\ UNCHANGED <<formed, tasks>>

\* An error of the handler, or the client is gone: close without commit.  A request in
\* stage "failed" has no other step left.
Abandon(c) == shift_session[c].stage # "idle" /\ Continue(c, IdleClerk)

-----------------------------------------------------------------------------
\* open_shift

OpenAt(register) == {i \in DOMAIN shifts : shifts[i].register = register /\ shifts[i].status = "open"}

\* Wrong on purpose: the register is not looked at.
MayOpenAlways(register) == TRUE

\* find_open_shift: one open shift is refused, two are an error of scalar_one_or_none.
MayOpen(register) == OpenAt(register) = {}

FindOpenShift(c, register, cash) ==
    /\ Len(shifts) < MaxShifts
    /\ MayOpen(register)
    /\ Begin(c, [IdleClerk EXCEPT !.stage = "add shift", !.register = register, !.cash = cash])

AddShift(c) ==
    LET s == shift_session[c] IN
    /\ s.stage = "add shift"
    /\ shifts' = Append(shifts, [register |-> s.register, status |-> "open",
                                 opening_cash |-> s.cash, closing_cash |-> Null,
                                 expected_cash |-> Null])
    /\ Commit(c)
    /\ UNCHANGED cash_movements

-----------------------------------------------------------------------------
\* add_cash_movement

InUse(i) == shifts[i].status = "open"

GetShift(c, i, s) ==
    /\ InUse(i)
    /\ Begin(c, [s EXCEPT !.shift = i])

LoadForMovement(c, i, type, amount) ==
    GetShift(c, i, [IdleClerk EXCEPT !.stage = "add movement", !.type = type, !.cash = amount])

\* Wrong on purpose: the schema has no CHECK.
StorableAny(type) == TRUE

Storable(type) == type \in StoredTypes

\* A type the CHECK refuses is an error of the commit.
AddCashMovement(c) ==
    LET s == shift_session[c] IN
    /\ s.stage = "add movement"
    /\ Storable(s.type)
    /\ cash_movements' = Append(cash_movements, [shift |-> s.shift, movement_type |-> s.type,
                                                 amount |-> s.cash])
    /\ Commit(c)
    /\ UNCHANGED shifts

-----------------------------------------------------------------------------
\* close_shift

Summed(i, types) ==
    LET Counts(m) == m.shift = i /\ m.movement_type \in types IN
    SumOf([n \in DOMAIN cash_movements |->
              IF Counts(cash_movements[n]) THEN cash_movements[n].amount ELSE 0])

LoadForClose(c, i, cash) ==
    GetShift(c, i, [IdleClerk EXCEPT !.stage = "sum in", !.cash = cash])

\* The sums are formed; func.case raises a TypeError.
CaseIsFormed == formed

SumCashIn(c) ==
    LET s == shift_session[c] IN
    /\ CaseIsFormed
    /\ s.stage = "sum in"
    /\ Continue(c, [s EXCEPT !.stage = "sum out",
                             !.cash_in = Summed(s.shift, {"cash_in", "opening"})])

\* The TypeError leaves the handler and the shift as it is.
SumFails(c) ==
    LET s == shift_session[c] IN
    /\ ~CaseIsFormed
    /\ s.stage = "sum in"
    /\ Continue(c, [s EXCEPT !.stage = "failed"])

SumCashOut(c) ==
    LET s == shift_session[c] IN
    /\ s.stage = "sum out"
    /\ Continue(c, [s EXCEPT !.stage = "close",
                             !.cash_out = Summed(s.shift, {"cash_out", "drop", "pickup"})])

\* Wrong on purpose: what was taken out is left out.
ExpectedWithoutOut(s) == shifts[s.shift].opening_cash + s.cash_in

Expected(s) == shifts[s.shift].opening_cash + s.cash_in - s.cash_out

\* The row is written whatever its status is by now.
CloseShift(c) ==
    LET s == shift_session[c] IN
    /\ s.stage = "close"
    /\ shifts' = [shifts EXCEPT ![s.shift].status = "closed",
                                ![s.shift].closing_cash = s.cash,
                                ![s.shift].expected_cash = Expected(s)]
    /\ Commit(c)
    /\ UNCHANGED cash_movements

BeginSome(c) ==
    \/ \E register \in Registers, cash \in Cash : FindOpenShift(c, register, cash)
    \/ \E i \in DOMAIN shifts, type \in EnteredTypes, amount \in Amounts :
         LoadForMovement(c, i, type, amount)
    \/ \E i \in DOMAIN shifts, cash \in Cash : LoadForClose(c, i, cash)

Step(c) ==
    \/ AddShift(c) \/ AddCashMovement(c)
    \/ SumCashIn(c) \/ SumFails(c) \/ SumCashOut(c) \/ CloseShift(c)

Next == \E c \in Clerks : BeginSome(c) \/ Step(c) \/ Abandon(c)

Spec == Init /\ [][Next]_shiftVars

-----------------------------------------------------------------------------
\* get_x_report: everything but cash_in and opening went out.
XReport(i) ==
    [opening_cash |-> shifts[i].opening_cash, expected_cash |-> shifts[i].expected_cash,
     cash_movements_in |-> Summed(i, {"cash_in", "opening"}),
     cash_movements_out |-> Summed(i, EnteredTypes \ {"cash_in", "opening"})]

(* The tables hold what the schema allows, and movements name a shift.      *)
TypeOK ==
    /\ \A i \in DOMAIN shifts : shifts[i] \in Shift
    /\ \A i \in DOMAIN cash_movements :
         cash_movements[i] \in CashMovement /\ cash_movements[i].shift \in DOMAIN shifts

(* One request at a time: a register has at most one open shift             *)
(* (open_shift, service.py:20).                                             *)
OneOpenPerRegister == \A register \in Registers : Cardinality(OpenAt(register)) <= 1

(* One request at a time: the x-report of a closed shift adds up to the     *)
(* cash close_shift expected (service.py:52).                               *)
ReportAddsUp ==
    \A i \in DOMAIN shifts :
        LET report == XReport(i) IN
        shifts[i].status = "closed" =>
            report.expected_cash =
                report.opening_cash + report.cash_movements_in - report.cash_movements_out

(* One request at a time: the cash of a closed shift is settled: no step    *)
(* changes its row or adds to its movements.                                *)
ClosedStep ==
    \A i \in DOMAIN shifts :
        shifts[i].status = "closed" => shifts'[i] = shifts[i] /\ XReport(i)' = XReport(i)

ClosedShiftsAreSettled == [][ClosedStep]_shiftVars

(* "Close shift: user closes, records closing_cash"                         *)
(* (PHASE_6_DATABASE_ARCHITECTURE.md:1506): close_shift does not fail on a  *)
(* shift that is open (shift_repository.py:37, :56).                        *)
OpenShiftsCanBeClosed ==
    \A c \in Clerks :
        LET s == shift_session[c] IN
        s.stage = "failed" => shifts[s.shift].status # "open"
=============================================================================
