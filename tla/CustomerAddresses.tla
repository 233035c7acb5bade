------------------------- MODULE CustomerAddresses -------------------------
(***************************************************************************)
(* The addresses of one customer, one of them the default.  A request that *)
(* makes an address the default clears the flag of all of them first, with *)
(* one UPDATE of the rows that are committed when it starts; it waits for  *)
(* those another request has locked, and locks them until it commits.      *)
(***************************************************************************)
EXTENDS Integers, Sequences, FiniteSetsExt

CONSTANTS
    Requests,     \* requests that may be in flight; a singleton is a serial run
    MaxAddresses, \* bound of the model: addresses
    MaxRequests   \* bound of the model: requests begun

VARIABLES
    addresses,       \* the customer_addresses rows: is_default, and whether deleted
    address_session, \* per request: its address as loaded, the flag asked for, rows it clears
    address_requests \* requests so far (bound of the model)

addressVars == <<addresses, address_session, address_requests>>

Request(stage, id, loaded, asked) ==
    [stage |-> stage, id |-> id, loaded |-> loaded, asked |-> asked, cleared |-> {}]

IdleRequest == Request("idle", 0, FALSE, FALSE)

Init ==
    /\ addresses = <<>>
    /\ address_session = [r \in Requests |-> IdleRequest]
    /\ address_requests = 0

-----------------------------------------------------------------------------
Stored == {i \in DOMAIN addresses : ~addresses[i].deleted}

\* Rows whose lock another request holds.
LockedFor(r) ==
    UNION {address_session[q].cleared :
              q \in {p \in Requests \ {r} : address_session[p].stage = "write"}}

Goto(r, s) == address_session' = [address_session EXCEPT ![r] = s]

Begin(r, s) ==
    /\ address_session[r].stage = "idle"
    /\ address_requests < MaxRequests
    /\ address_requests' = address_requests + 1
    /\ Goto(r, s)
    /\ UNCHANGED addresses

FirstStage(asked) == IF asked THEN "clear" ELSE "write"

BeginCreate(r, asked) == Begin(r, Request(FirstStage(asked), 0, FALSE, asked))

\* asked is the flag the client sends, or the one the address has when it sends none.
BeginUpdate(r, id, asked) ==
    Begin(r, Request(FirstStage(asked), id, addresses[id].is_default, asked))

\* An update that leaves a default address one without saying so clears nothing.
BeginSilentUpdate(r, id) ==
    Begin(r, Request("write", id, addresses[id].is_default, addresses[id].is_default))

BeginDelete(r, id) == Begin(r, Request("delete", id, FALSE, FALSE))

Cleared == Stored

\* What the loaded object holds after the bulk UPDATE (synchronize_session is "auto").
Synchronized(loaded) == FALSE

\* clear_default: its UPDATE finds its rows.
FindDefaults(r) ==
    LET s == address_session[r] IN
    /\ s.stage = "clear"
    /\ Goto(r, [s EXCEPT !.stage = "clearing", !.cleared = Cleared])
    /\ UNCHANGED <<addresses, address_requests>>

\* Once nobody holds one of them, those that are still there are cleared, uncommitted and
\* locked; rows inserted meanwhile are not among them.
ClearDefault(r) ==
    LET s == address_session[r] IN
    /\ s.stage = "clearing"
    /\ s.cleared \intersect LockedFor(r) = {}
    /\ Goto(r, [s EXCEPT !.stage = "write", !.cleared = @ \intersect Stored,
                         !.loaded = Synchronized(s.loaded)])
    /\ UNCHANGED <<addresses, address_requests>>

\* The rows as the request leaves them: those it has cleared, then its own.
AfterClearing(s) ==
    [i \in DOMAIN addresses |->
        IF i \in s.cleared THEN [addresses[i] EXCEPT !.is_default = FALSE] ELSE addresses[i]]

CreateAddress(r) ==
    LET s == address_session[r] IN
    /\ s.stage = "write" /\ s.id = 0
    /\ Len(addresses) < MaxAddresses
    /\ addresses' = Append(AfterClearing(s), [is_default |-> s.asked, deleted |-> FALSE])
    /\ Goto(r, IdleRequest)
    /\ UNCHANGED address_requests

\* The flag is part of the UPDATE when it differs from what the object holds.
UpdateAddress(r) ==
    LET s == address_session[r] IN
    /\ s.stage = "write" /\ s.id \in Stored
    /\ s.id \notin LockedFor(r)
    /\ addresses' = [AfterClearing(s) EXCEPT
                        ![s.id].is_default = IF s.asked # s.loaded THEN s.asked ELSE @]
    /\ Goto(r, IdleRequest)
    /\ UNCHANGED address_requests

DeleteAddress(r) ==
    LET s == address_session[r] IN
    /\ s.stage = "delete" /\ s.id \in Stored
    /\ s.id \notin LockedFor(r)
    /\ addresses' = [addresses EXCEPT ![s.id].deleted = TRUE]
    /\ Goto(r, IdleRequest)
    /\ UNCHANGED address_requests

Rollback(r) ==
    /\ address_session[r].stage # "idle"
    /\ Goto(r, IdleRequest)
    /\ UNCHANGED <<addresses, address_requests>>

BeginSome(r) ==
    \/ \E asked \in BOOLEAN : BeginCreate(r, asked)
    \/ \E id \in Stored : \/ \E asked \in BOOLEAN : BeginUpdate(r, id, asked)
                          \/ BeginSilentUpdate(r, id)
                          \/ BeginDelete(r, id)

Next ==
    \E r \in Requests :
        \/ BeginSome(r)
        \/ FindDefaults(r) \/ ClearDefault(r)
        \/ CreateAddress(r) \/ UpdateAddress(r) \/ DeleteAddress(r)
        \/ Rollback(r)

Spec == Init /\ [][Next]_addressVars

-----------------------------------------------------------------------------
TypeOK ==
    /\ addresses \in Seq([is_default : BOOLEAN, deleted : BOOLEAN])
    /\ \A r \in Requests : address_session[r].id \in 0 .. Len(addresses)

(* One request at a time: a customer has one default address at most.       *)
OneDefault == Cardinality({i \in Stored : addresses[i].is_default}) <= 1

(* One request at a time: an update or insert that asks for the default     *)
(* gets it, also for an address that was the default before.                *)
AskedStep ==
    \A r \in Requests :
        LET s == address_session[r]
            id == IF s.id = 0 THEN Len(addresses') ELSE s.id
        IN
        s.stage = "write" /\ s.asked /\ addresses' # addresses => addresses'[id].is_default

AskedIsDefault == [][AskedStep]_addressVars
=============================================================================
