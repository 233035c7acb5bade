------------------------------ MODULE MongoLog ------------------------------
(***************************************************************************)
(* The MongoDB client of a process: module variables that the threads of   *)
(* the pool read and write without a lock.                                 *)
(*                                                                         *)
(* A thread reads _client anew wherever get_client names it, so it may     *)
(* find what another thread has put there or taken away since its last     *)
(* look.  A call on None raises AttributeError, which the clauses of       *)
(* client.py do not catch.  Clients are numbered; a client is open from    *)
(* its creation to close().                                                *)
(***************************************************************************)
EXTENDS Integers, FiniteSetsExt

CONSTANTS
    Loggers,    \* threads that may log at a time; a singleton is a serial run
    COOLDOWN,   \* MONGODB_RETRY_COOLDOWN_SECONDS, in units of the clock
    MaxClock,   \* bound of the model: the clock
    MaxLogs     \* bound of the model: documents logged

NoClient == 0

VARIABLES
    client,        \* _client
    next_retry_at, \* _next_retry_at
    opened,        \* clients open
    created,       \* clients created
    server,        \* the server, or the tunnel to it, is up
    clock,
    logger,        \* per thread: where it is in get_client
    logs           \* documents logged so far (bound of the model)

mongoVars == <<client, next_retry_at, opened, created, server, clock, logger, logs>>

IdleLogger == [stage |-> "idle", now |-> 0, candidate |-> NoClient]

Init ==
    /\ client = NoClient
    /\ next_retry_at = 0
    /\ opened = {}
    /\ created = 0
    /\ server \in BOOLEAN
    /\ clock = 0
    /\ logger = [t \in Loggers |-> IdleLogger]
    /\ logs = 0

-----------------------------------------------------------------------------
Goto(t, stage) == logger' = [logger EXCEPT ![t].stage = stage]

Leave(t) == logger' = [logger EXCEPT ![t] = IdleLogger]

\* Wrong on purpose: every call tries.
CooledAlways(now) == TRUE

Cooled(now) == now >= next_retry_at

\* insert_user_log, get_database, and get_client up to its first decision.
GetClient(t) ==
    /\ logger[t].stage = "idle"
    /\ logs < MaxLogs
    /\ logs' = logs + 1
    /\ logger' = [logger EXCEPT ![t] =
                    IF client # NoClient THEN [IdleLogger EXCEPT !.stage = "ping", !.now = clock]
                    ELSE IF Cooled(clock) THEN [IdleLogger EXCEPT !.stage = "create", !.now = clock]
                    ELSE IdleLogger]
    /\ UNCHANGED <<client, next_retry_at, opened, created, server, clock>>

\* _create_client: the candidate opens, and is pinged and given its indexes.
CreateClient(t) ==
    /\ logger[t].stage = "create"
    /\ created' = created + 1
    /\ opened' = opened \union {created + 1}
    /\ logger' = [logger EXCEPT ![t] = [logger[t] EXCEPT !.stage = "probe",
                                                       !.candidate = created + 1]]
    /\ UNCHANGED <<client, next_retry_at, server, clock, logs>>

Adopted(candidate) == candidate

Without(c) == opened \ {c}

CandidateAnswers(t) ==
    /\ logger[t].stage = "probe"
    /\ server
    /\ client' = Adopted(logger[t].candidate)
    /\ Goto(t, "ping")
    /\ UNCHANGED <<next_retry_at, opened, created, server, clock, logs>>

\* The except clause closes what _client is, not the candidate, which is left to be
\* collected and stops its threads then.
CandidateFails(t) ==
    /\ logger[t].stage = "probe"
    /\ ~server
    /\ client' = NoClient
    /\ opened' = opened \ {client, logger[t].candidate}
    /\ next_retry_at' = logger[t].now + COOLDOWN
    /\ Leave(t)
    /\ UNCHANGED <<created, server, clock, logs>>

\* get_client from its last try on.
Ping(t) ==
    /\ logger[t].stage = "ping"
    /\ IF client = NoClient THEN Goto(t, "raised")
       ELSE IF server THEN Goto(t, "insert")
       ELSE Goto(t, "close")
    /\ UNCHANGED <<client, next_retry_at, opened, created, server, clock, logs>>

\* The except clause: close(), then forget.
CloseClient(t) ==
    /\ logger[t].stage = "close"
    /\ IF client = NoClient
       THEN Goto(t, "raised") /\ UNCHANGED <<client, next_retry_at, opened>>
       ELSE /\ opened' = Without(client)
            /\ client' = NoClient
            /\ next_retry_at' = logger[t].now + COOLDOWN
            /\ Leave(t)
    /\ UNCHANGED <<created, server, clock, logs>>

\* The document is stored or not; errors are logged, and so is what get_client raised.
Insert(t) ==
    /\ logger[t].stage \in {"insert", "raised"}
    /\ Leave(t)
    /\ UNCHANGED <<client, next_retry_at, opened, created, server, clock, logs>>

ServerFails == server /\ server' = FALSE
               /\ UNCHANGED <<client, next_retry_at, opened, created, clock, logger, logs>>
ServerReturns == ~server /\ server' = TRUE
               /\ UNCHANGED <<client, next_retry_at, opened, created, clock, logger, logs>>
Tick == clock < MaxClock /\ clock' = clock + 1
        /\ UNCHANGED <<client, next_retry_at, opened, created, server, logger, logs>>

Work(t) == \/ CreateClient(t) \/ CandidateAnswers(t) \/ CandidateFails(t)
           \/ Ping(t) \/ CloseClient(t) \/ Insert(t)

Next == \/ \E t \in Loggers : GetClient(t) \/ Work(t)
        \/ ServerFails \/ ServerReturns \/ Tick

Spec == Init /\ [][Next]_mongoVars

-----------------------------------------------------------------------------
(* One thread at a time: get_client keeps its word that it never raises     *)
(* (client.py:85).                                                          *)
NeverRaises == \A t \in Loggers : logger[t].stage # "raised"

(* One thread at a time: the only client open is the cached one, or the one *)
(* being probed.                                                            *)
NoClientLeaks ==
    opened \subseteq {client} \union {logger[t].candidate : t \in Loggers}

(* One thread at a time: after a failure no client is created before the    *)
(* cooldown is over.                                                        *)
CooldownStep == created' # created => clock >= next_retry_at

CooldownHolds == [][CooldownStep]_mongoVars
=============================================================================
