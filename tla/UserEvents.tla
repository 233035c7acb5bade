----------------------------- MODULE UserEvents -----------------------------
(***************************************************************************)
(* Publishing user events to RabbitMQ: one cached connection and channel   *)
(* per process, used by the threads of the pool under one lock.            *)
(*                                                                         *)
(* The broker may stop and start at any time.  The client learns of it     *)
(* when it next uses the connection: an operation on a connection of an    *)
(* earlier run of the broker raises and leaves it closed.  A publish is    *)
(* given up after one failure; the thread frees the lock, and takes it     *)
(* again to drop what is cached by then.                                   *)
(***************************************************************************)
EXTENDS Integers, FiniteSetsExt

CONSTANTS
    Threads,    \* threads of the pool that may publish at a time
    NoThread,
    MaxRuns,    \* bound of the model: runs of the broker
    MaxEvents   \* bound of the model: events published

ASSUME UserEventsAssumption == NoThread \notin Threads

VARIABLES
    broker,     \* the run of the broker, and whether it is up
    lock,       \* the thread that holds _LOCK
    connection, \* _CONNECTION: none, or the run it was opened in and whether it is known closed
    channel,    \* _CHANNEL, with its confirm mode
    topology,   \* _TOPOLOGY_SIG is set
    queue,      \* events the broker has accepted
    published,  \* events reported as published
    thread,     \* per thread: what it does and the event it publishes
    sent        \* events so far (bound of the model)

eventVars == <<broker, lock, connection, channel, topology, queue, published, thread, sent>>

NoConnection == [run |-> 0, open |-> FALSE]
NoChannel == [run |-> 0, open |-> FALSE, confirms |-> FALSE]
IdleThread == [stage |-> "idle", event |-> 0]

Init ==
    /\ broker \in [run : {1}, up : BOOLEAN]
    /\ lock = NoThread
    /\ connection = NoConnection
    /\ channel = NoChannel
    /\ topology = FALSE
    /\ queue = {}
    /\ published = {}
    /\ thread = [t \in Threads |-> IdleThread]
    /\ sent = 0

-----------------------------------------------------------------------------
\* An operation of a client of the broker's run works while the broker is up.
Alive(run) == broker.up /\ run = broker.run

Goto(t, stage) == thread' = [thread EXCEPT ![t].stage = stage]

\* publish_user_event_sync, up to the lock.
PublishUserLog(t) ==
    /\ thread[t].stage = "idle"
    /\ sent < MaxEvents
    /\ sent' = sent + 1
    /\ thread' = [thread EXCEPT ![t] = [stage |-> "lock", event |-> sent + 1]]
    /\ UNCHANGED <<broker, lock, connection, channel, topology, queue, published>>

\* Wrong on purpose: _LOCK is not taken.
LockFreeAlways == TRUE

LockFree == lock = NoThread

\* Everything cached is closed first when the topology is not known to be declared.
EnterLock(t) ==
    /\ thread[t].stage = "lock"
    /\ LockFree
    /\ lock' = t
    /\ Goto(t, "connect")
    /\ connection' = IF topology THEN connection ELSE NoConnection
    /\ channel' = IF topology THEN channel ELSE NoChannel
    /\ UNCHANGED <<broker, topology, queue, published, sent>>

\* Wrong on purpose: an error leaves without freeing the lock.
KeptBy(t) == t

FreedBy(t) == NoThread

\* The except clause: the lock is free and the failed client closed.
Fail(t) ==
    /\ Goto(t, "cleanup")
    /\ lock' = FreedBy(t)
    /\ connection' = [connection EXCEPT !.open = Alive(connection.run)]
    /\ channel' = [channel EXCEPT !.open = Alive(channel.run)]
    /\ UNCHANGED <<broker, topology, queue, published, sent>>

\* create_blocking_connection, and a channel on it; neither for an open channel.
Connect(t) ==
    /\ thread[t].stage = "connect"
    /\ IF channel.open
       THEN Goto(t, "publish") /\ UNCHANGED <<lock, connection, channel>>
       ELSE LET run == IF connection.open THEN connection.run ELSE broker.run IN
            /\ Alive(run)
            /\ connection' = [run |-> run, open |-> TRUE]
            /\ channel' = [run |-> run, open |-> TRUE, confirms |-> FALSE]
            /\ Goto(t, "declare")
            /\ UNCHANGED lock
    /\ UNCHANGED <<broker, topology, queue, published, sent>>

ConnectFails(t) ==
    /\ thread[t].stage = "connect"
    /\ ~channel.open
    /\ ~Alive(IF connection.open THEN connection.run ELSE broker.run)
    /\ Fail(t)

Confirmed == TRUE

\* declare_topology and confirm_delivery.
DeclareTopology(t) ==
    /\ thread[t].stage = "declare"
    /\ Alive(channel.run)
    /\ channel' = [channel EXCEPT !.confirms = Confirmed]
    /\ topology' = TRUE
    /\ Goto(t, "publish")
    /\ UNCHANGED <<broker, lock, connection, queue, published, sent>>

\* basic_publish: the message is handed to the broker.
HandOver(t) ==
    /\ thread[t].stage = "publish"
    /\ channel.open
    /\ queue' = IF Alive(channel.run) THEN queue \union {thread[t].event} ELSE queue
    /\ Goto(t, IF channel.confirms THEN "confirm" ELSE "done")
    /\ UNCHANGED <<broker, lock, connection, channel, topology, published, sent>>

\* The broker's acknowledgment; it is lost when the broker stops first.
Acknowledge(t) ==
    /\ thread[t].stage = "confirm"
    /\ Alive(channel.run) /\ thread[t].event \in queue
    /\ Goto(t, "done")
    /\ UNCHANGED <<broker, lock, connection, channel, topology, queue, published, sent>>

\* An error of the declaration, of basic_publish or of the acknowledgment.
PublishFails(t) ==
    /\ \/ thread[t].stage \in {"declare", "confirm"} /\ ~Alive(channel.run)
       \/ thread[t].stage = "publish" /\ ~(channel.open /\ Alive(channel.run))
       \/ thread[t].stage = "confirm" /\ thread[t].event \notin queue
    /\ Fail(t)

ReportSuccess(t) ==
    /\ thread[t].stage = "done"
    /\ lock' = NoThread
    /\ published' = published \union {thread[t].event}
    /\ thread' = [thread EXCEPT ![t] = IdleThread]
    /\ UNCHANGED <<broker, connection, channel, topology, queue, sent>>

\* _close_locked of the except clause, whoever has opened what is cached now.
CloseLocked(t) ==
    /\ thread[t].stage = "cleanup"
    /\ LockFree
    /\ connection' = NoConnection
    /\ channel' = NoChannel
    /\ topology' = FALSE
    /\ thread' = [thread EXCEPT ![t] = IdleThread]
    /\ UNCHANGED <<broker, lock, queue, published, sent>>

\* Stops and starts; its queue is durable and its messages persistent.
BrokerStops ==
    /\ broker.up
    /\ broker' = [broker EXCEPT !.up = FALSE]
    /\ UNCHANGED <<lock, connection, channel, topology, queue, published, thread, sent>>

BrokerStarts ==
    /\ ~broker.up /\ broker.run < MaxRuns
    /\ broker' = [run |-> broker.run + 1, up |-> TRUE]
    /\ UNCHANGED <<lock, connection, channel, topology, queue, published, thread, sent>>

Work(t) ==
    \/ EnterLock(t) \/ Connect(t) \/ ConnectFails(t) \/ DeclareTopology(t) \/ HandOver(t)
    \/ Acknowledge(t) \/ PublishFails(t) \/ ReportSuccess(t) \/ CloseLocked(t)

Next == \/ \E t \in Threads : PublishUserLog(t) \/ Work(t)
        \/ BrokerStops \/ BrokerStarts

Spec == Init /\ [][Next]_eventVars

\* Every thread that has begun is scheduled; the broker need not come back.
Fairness == \A t \in Threads : WF_eventVars(Work(t))

FairSpec == Spec /\ Fairness

-----------------------------------------------------------------------------
(* Whatever fails: publish_user_log reports success only for an event the   *)
(* broker has (publisher.py:126).                                           *)
PublishedIsQueued == published \subseteq queue

(* The cached channel belongs to the cached connection, and a thread that   *)
(* publishes does so on a channel that confirms.                            *)
ChannelIsConfigured ==
    /\ channel.open => connection.open /\ connection.run = channel.run
    /\ \A t \in Threads :
         thread[t].stage \in {"publish", "confirm"} /\ channel.open => channel.confirms

(* A failed publish blames the broker: while it has run without a stop      *)
(* since before the thread opened or took over its channel, the thread does *)
(* not fail.  Only a stop, or a channel of an earlier run, makes one fail.  *)
FailStep ==
    \A t \in Threads :
        thread[t].stage # "cleanup" /\ thread'[t].stage = "cleanup" =>
            ~broker.up \/ (channel.run # 0 /\ channel.run # broker.run)

OnlyTheBrokerFails == [][FailStep]_eventVars

(* Every publish ends, whatever the broker does: business requests wait for *)
(* it (publish_user_event_sync).                                            *)
EveryPublishEnds == \A t \in Threads : thread[t].stage # "idle" ~> thread[t].stage = "idle"
=============================================================================
