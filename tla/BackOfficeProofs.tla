--------------------------- MODULE BackOfficeProofs ---------------------------
(***************************************************************************)
(* Theorems about the components of the back office that have tables of    *)
(* their own, for every number of threads, rows, events and runs.          *)
(*                                                                         *)
(* UserEvents: whoever works on the cached client has the lock; the client *)
(* that is cached is of one run of the broker, and once that run is over   *)
(* it never lives again.  MongoLog: the state of the locked section says   *)
(* which client is open.  CustomerAddresses, Settings, Kitchen: what a     *)
(* request that is alone has loaded is still so when it writes.  Seed:     *)
(* every process knows what it has found and what is missing; an index     *)
(* keeps the rows apart.                                                   *)
(***************************************************************************)
EXTENDS MCBackOffice, FiniteSetTheorems, Tables

-----------------------------------------------------------------------------
\* User events.

\* The stages a thread passes while it has the lock, and while it uses a channel.
Locked == {"connect", "declare", "publish", "confirm", "done"}
Using == {"declare", "publish", "confirm"}

Stages == {"idle", "lock", "cleanup"} \union Locked

Typed ==
    /\ broker \in [run : Nat \ {0}, up : BOOLEAN]
    /\ connection \in [run : Nat, open : BOOLEAN]
    /\ channel \in [run : Nat, open : BOOLEAN, confirms : BOOLEAN]
    /\ thread \in [Threads -> [stage : Stages, event : Nat]]
    /\ sent \in Nat

\* Connection and channel are opened and dropped together.
CacheAgrees ==
    /\ connection.run = channel.run /\ connection.open = channel.open
    /\ channel.run <= broker.run
    /\ channel.open => channel.run # 0
    /\ ~channel.open => ~Alive(channel.run)

LockHeld == \A t \in Threads : thread[t].stage \in Locked => lock = t

InUse == \A t \in Threads : thread[t].stage \in Using => channel.open

Configured == channel.open => channel.confirms \/ \E t \in Threads : thread[t].stage = "declare"

\* What a thread waits for has arrived, or never will.
Accepted ==
    /\ published \subseteq queue
    /\ \A t \in Threads :
         /\ thread[t].stage = "done" => thread[t].event \in queue
         /\ thread[t].stage = "confirm" => thread[t].event \in queue \/ ~Alive(channel.run)

EventsInv == Typed /\ CacheAgrees /\ LockHeld /\ InUse /\ Configured /\ Accepted

\* A process starts without a client.
LEMMA InitEstablishes == Init => EventsInv
  <1> SUFFICES ASSUME Init PROVE EventsInv
    OBVIOUS
  <1>1. Typed
    BY DEF Init, Typed, NoConnection, NoChannel, IdleThread, Stages, Locked
  <1>2. CacheAgrees
    BY DEF Init, CacheAgrees, NoConnection, NoChannel, Alive
  <1>3. LockHeld /\ InUse /\ Configured /\ Accepted
    BY DEF Init, LockHeld, InUse, Configured, Accepted, IdleThread, NoChannel, Locked, Using
  <1> QED
    BY <1>1, <1>2, <1>3 DEF EventsInv

\* A thread that goes to another stage; the others stay where they are.
LEMMA Moved ==
    ASSUME Typed, NEW t \in Threads, NEW stage \in Stages, Goto(t, stage)
    PROVE  /\ thread' \in [Threads -> [stage : Stages, event : Nat]]
           /\ thread'[t] = [stage |-> stage, event |-> thread[t].event]
           /\ \A u \in Threads \ {t} : thread'[u] = thread[u]
  BY DEF Typed, Goto

\* Two threads are never in the lock.
LEMMA Alone ==
    ASSUME LockHeld, NEW t \in Threads, thread[t].stage \in Locked
    PROVE  \A u \in Threads \ {t} : thread[u].stage \notin Locked
  BY DEF LockHeld

\* A business request has something to publish.
LEMMA PublishUserLogPreserves ==
    ASSUME EventsInv, NEW t \in Threads, PublishUserLog(t)
    PROVE  EventsInv'
  <1>1. /\ thread' = [thread EXCEPT ![t] = [stage |-> "lock", event |-> sent + 1]]
        /\ sent' = sent + 1
        /\ UNCHANGED <<broker, lock, connection, channel, topology, queue, published>>
        /\ thread[t].stage = "idle"
    BY DEF PublishUserLog
  <1>2. /\ thread'[t] = [stage |-> "lock", event |-> sent + 1]
        /\ \A u \in Threads \ {t} : thread'[u] = thread[u]
    BY <1>1 DEF EventsInv, Typed
  <1>3. Typed'
    BY <1>1 DEF EventsInv, Typed, Stages, Locked
  <1>4. CacheAgrees'
    BY <1>1 DEF EventsInv, CacheAgrees, Alive
  <1>5. LockHeld' /\ InUse'
    BY <1>1, <1>2 DEF EventsInv, LockHeld, InUse, Locked, Using
  <1>6. Configured'
    BY <1>1, <1>2 DEF EventsInv, Configured
  <1>7. Accepted'
    BY <1>1, <1>2 DEF EventsInv, Accepted, Alive
  <1> QED
    BY <1>3, <1>4, <1>5, <1>6, <1>7 DEF EventsInv

\* The lock is free only when nobody works on the client.
LEMMA NobodyLocked ==
    ASSUME LockHeld, lock = NoThread
    PROVE  \A u \in Threads : thread[u].stage \notin Locked
  BY UserEventsAssumption DEF LockHeld

\* Who enters the lock finds nobody there, and a client or none.
LEMMA EnterLockPreserves ==
    ASSUME EventsInv, NEW t \in Threads, EnterLock(t)
    PROVE  EventsInv'
  <1>1. /\ Goto(t, "connect") /\ lock' = t /\ thread[t].stage = "lock"
        /\ connection' = IF topology THEN connection ELSE NoConnection
        /\ channel' = IF topology THEN channel ELSE NoChannel
        /\ UNCHANGED <<broker, topology, queue, published, sent>>
    BY DEF EnterLock
  <1>2. \A u \in Threads : thread[u].stage \notin Locked
    BY NobodyLocked DEF EventsInv, EnterLock, LockFree
  <1>3. /\ thread' \in [Threads -> [stage : Stages, event : Nat]]
        /\ thread'[t] = [stage |-> "connect", event |-> thread[t].event]
        /\ \A u \in Threads \ {t} : thread'[u] = thread[u]
    BY <1>1, Moved DEF EventsInv, Stages, Locked
  <1>4. \/ connection' = connection /\ channel' = channel
        \/ connection' = NoConnection /\ channel' = NoChannel
    BY <1>1
  <1>5. Typed'
    BY <1>1, <1>3, <1>4 DEF EventsInv, Typed, NoConnection, NoChannel
  <1>6. CacheAgrees'
    <2>1. CASE connection' = connection /\ channel' = channel
      BY <1>1, <2>1 DEF EventsInv, CacheAgrees, Alive
    <2>2. CASE connection' = NoConnection /\ channel' = NoChannel
      <3>1. /\ connection'.run = 0 /\ channel'.run = 0 /\ ~channel'.open
            /\ connection'.open = channel'.open
        BY <2>2 DEF NoConnection, NoChannel
      <3>2. broker' = broker /\ broker.run \in Nat \ {0}
        BY <1>1 DEF EventsInv, Typed
      <3> QED
        BY <3>1, <3>2 DEF CacheAgrees, Alive
    <2> QED
      BY <1>4, <2>1, <2>2
  <1>7. LockHeld' /\ InUse'
    BY <1>1, <1>2, <1>3 DEF LockHeld, InUse, Locked, Using
  <1>8. Configured'
    <2>1. ~ \E u \in Threads : thread[u].stage = "declare"
      BY <1>2 DEF Locked
    <2>2. channel.open => channel.confirms
      BY <2>1 DEF EventsInv, Configured
    <2>3. channel'.open => channel'.confirms
      BY <1>4, <2>2 DEF NoChannel
    <2> QED
      BY <2>3 DEF Configured
  <1>9. Accepted'
    BY <1>1, <1>2, <1>3 DEF EventsInv, Accepted, Locked
  <1> QED
    BY <1>5, <1>6, <1>7, <1>8, <1>9 DEF EventsInv

\* An error leaves a client that lives exactly if the broker's run does.
LEMMA FailPreserves ==
    ASSUME EventsInv, NEW t \in Threads, thread[t].stage \in Locked, Fail(t),
           thread[t].stage = "declare" => ~Alive(channel.run)
    PROVE  EventsInv'
  <1>1. /\ Goto(t, "cleanup") /\ lock' = NoThread
        /\ connection' = [connection EXCEPT !.open = Alive(connection.run)]
        /\ channel' = [channel EXCEPT !.open = Alive(channel.run)]
        /\ UNCHANGED <<broker, topology, queue, published, sent>>
    BY DEF Fail, FreedBy
  <1>2. \A u \in Threads \ {t} : thread[u].stage \notin Locked
    BY Alone DEF EventsInv
  <1>3. /\ thread' \in [Threads -> [stage : Stages, event : Nat]]
        /\ thread'[t] = [stage |-> "cleanup", event |-> thread[t].event]
        /\ \A u \in Threads \ {t} : thread'[u] = thread[u]
    BY <1>1, Moved DEF EventsInv, Stages
  <1>4. Alive(channel.run) \in BOOLEAN /\ Alive(connection.run) \in BOOLEAN
    BY DEF EventsInv, Typed, Alive
  <1>5. Alive(channel.run) => channel.open
    BY DEF EventsInv, CacheAgrees
  <1>6. Typed'
    BY <1>1, <1>3, <1>4 DEF EventsInv, Typed
  <1>7. /\ channel'.run = channel.run /\ channel'.confirms = channel.confirms
        /\ channel'.open = Alive(channel.run) /\ connection'.open = Alive(connection.run)
        /\ connection'.run = connection.run
    BY <1>1 DEF EventsInv, Typed
  <1>8. CacheAgrees'
    BY <1>1, <1>7 DEF EventsInv, Typed, CacheAgrees, Alive
  <1>9. LockHeld' /\ InUse'
    BY <1>2, <1>3 DEF LockHeld, InUse, Locked, Using
  <1>10. Configured'
    BY <1>2, <1>5, <1>7 DEF EventsInv, Configured, Locked
  <1>11. Accepted'
    BY <1>1, <1>2, <1>3 DEF EventsInv, Accepted, Locked
  <1> QED
    BY <1>6, <1>8, <1>9, <1>10, <1>11 DEF EventsInv

\* A new connection and its channel are of the current run.
LEMMA ConnectPreserves ==
    ASSUME EventsInv, NEW t \in Threads, Connect(t)
    PROVE  EventsInv'
  <1>1. thread[t].stage = "connect" /\ UNCHANGED <<broker, topology, queue, published, sent>>
    BY DEF Connect
  <1>2. /\ lock = t
        /\ \A u \in Threads \ {t} : thread[u].stage \notin Locked
    BY <1>1, Alone DEF EventsInv, LockHeld, Locked
  <1>3. CASE channel.open
    <2>1. Goto(t, "publish") /\ UNCHANGED <<lock, connection, channel>>
      BY <1>3 DEF Connect
    <2>2. /\ thread' \in [Threads -> [stage : Stages, event : Nat]]
          /\ thread'[t] = [stage |-> "publish", event |-> thread[t].event]
          /\ \A u \in Threads \ {t} : thread'[u] = thread[u]
      BY <2>1, Moved DEF EventsInv, Stages, Locked
    <2>3. Typed'
      BY <1>1, <2>1, <2>2 DEF EventsInv, Typed
    <2>4. CacheAgrees'
      BY <1>1, <2>1 DEF EventsInv, CacheAgrees, Alive
    <2>5. LockHeld' /\ InUse'
      BY <1>2, <1>3, <2>1, <2>2 DEF LockHeld, InUse, Locked, Using
    <2>6. Configured'
      <3>1. ~ \E u \in Threads : thread[u].stage = "declare"
        BY <1>1, <1>2 DEF Locked
      <3> QED
        BY <2>1, <3>1 DEF EventsInv, Configured
    <2>7. Accepted'
      BY <1>1, <1>2, <2>2 DEF EventsInv, Accepted, Locked
    <2> QED
      BY <2>3, <2>4, <2>5, <2>6, <2>7 DEF EventsInv
  <1>4. CASE ~channel.open
    <2>1. PICK run : run = IF connection.open THEN connection.run ELSE broker.run
      OBVIOUS
    <2>2. /\ Alive(run) /\ Goto(t, "declare") /\ UNCHANGED lock
          /\ connection' = [run |-> run, open |-> TRUE]
          /\ channel' = [run |-> run, open |-> TRUE, confirms |-> FALSE]
      BY <1>4, <2>1 DEF Connect
    <2>3. run = broker.run /\ run \in Nat \ {0}
      BY <2>2 DEF EventsInv, Typed, Alive
    <2>4. /\ thread' \in [Threads -> [stage : Stages, event : Nat]]
          /\ thread'[t] = [stage |-> "declare", event |-> thread[t].event]
          /\ \A u \in Threads \ {t} : thread'[u] = thread[u]
      BY <2>2, Moved DEF EventsInv, Stages, Locked
    <2>5. Typed'
      BY <1>1, <2>2, <2>3, <2>4 DEF EventsInv, Typed
    <2>6. CacheAgrees'
      BY <1>1, <2>2, <2>3 DEF CacheAgrees
    <2>7. LockHeld' /\ InUse'
      BY <1>2, <2>2, <2>4 DEF LockHeld, InUse, Locked, Using
    <2>8. Configured'
      BY <2>4 DEF Configured
    <2>9. Accepted'
      BY <1>1, <1>2, <2>4 DEF EventsInv, Accepted, Locked
    <2> QED
      BY <2>5, <2>6, <2>7, <2>8, <2>9 DEF EventsInv
  <1> QED
    BY <1>3, <1>4

\* The channel confirms before anybody else sees it.
LEMMA DeclareTopologyPreserves ==
    ASSUME EventsInv, NEW t \in Threads, DeclareTopology(t)
    PROVE  EventsInv'
  <1>1. /\ thread[t].stage = "declare" /\ Alive(channel.run) /\ Goto(t, "publish")
        /\ channel' = [channel EXCEPT !.confirms = TRUE]
        /\ UNCHANGED <<broker, lock, connection, queue, published, sent>>
    BY DEF DeclareTopology, Confirmed
  <1>2. /\ lock = t /\ channel.open
        /\ \A u \in Threads \ {t} : thread[u].stage \notin Locked
    BY <1>1, Alone DEF EventsInv, LockHeld, InUse, Locked, Using
  <1>3. /\ thread' \in [Threads -> [stage : Stages, event : Nat]]
        /\ thread'[t] = [stage |-> "publish", event |-> thread[t].event]
        /\ \A u \in Threads \ {t} : thread'[u] = thread[u]
    BY <1>1, Moved DEF EventsInv, Stages, Locked
  <1>4. /\ channel'.run = channel.run /\ channel'.open = channel.open /\ channel'.confirms
        /\ channel' \in [run : Nat, open : BOOLEAN, confirms : BOOLEAN]
    BY <1>1 DEF EventsInv, Typed
  <1>5. Typed'
    BY <1>1, <1>3, <1>4 DEF EventsInv, Typed
  <1>6. CacheAgrees'
    BY <1>1, <1>4 DEF EventsInv, CacheAgrees, Alive
  <1>7. LockHeld' /\ InUse' /\ Configured'
    BY <1>1, <1>2, <1>3, <1>4 DEF LockHeld, InUse, Configured, Locked, Using
  <1>8. Accepted'
    BY <1>1, <1>2, <1>3 DEF EventsInv, Accepted, Locked
  <1> QED
    BY <1>5, <1>6, <1>7, <1>8 DEF EventsInv

\* A message that does not reach the queue was handed to a broker that is gone.
LEMMA HandOverPreserves ==
    ASSUME EventsInv, NEW t \in Threads, HandOver(t)
    PROVE  EventsInv'
  <1>1. /\ thread[t].stage = "publish" /\ channel.open
        /\ queue' = IF Alive(channel.run) THEN queue \union {thread[t].event} ELSE queue
        /\ UNCHANGED <<broker, lock, connection, channel, topology, published, sent>>
    BY DEF HandOver
  <1>2. /\ lock = t
        /\ \A u \in Threads \ {t} : thread[u].stage \notin Locked
    BY <1>1, Alone DEF EventsInv, LockHeld, Locked
  <1>3. channel.confirms
    BY <1>1, <1>2 DEF EventsInv, Configured, Locked
  <1>4. Goto(t, "confirm")
    BY <1>3 DEF HandOver
  <1>5. /\ thread' \in [Threads -> [stage : Stages, event : Nat]]
        /\ thread'[t] = [stage |-> "confirm", event |-> thread[t].event]
        /\ \A u \in Threads \ {t} : thread'[u] = thread[u]
    BY <1>4, Moved DEF EventsInv, Stages, Locked
  <1>6. Typed'
    BY <1>1, <1>5 DEF EventsInv, Typed
  <1>7. CacheAgrees'
    BY <1>1 DEF EventsInv, CacheAgrees, Alive
  <1>8. LockHeld' /\ InUse' /\ Configured'
    BY <1>1, <1>2, <1>3, <1>5 DEF LockHeld, InUse, Configured, Locked, Using
  <1>9. Accepted'
    <2>1. thread[t].event \in queue' \/ ~Alive(channel.run)
      BY <1>1
    <2>2. published \subseteq queue'
      BY <1>1 DEF EventsInv, Accepted
    <2> QED
      BY <1>1, <1>2, <1>5, <2>1, <2>2 DEF Accepted, Locked, Alive
  <1> QED
    BY <1>6, <1>7, <1>8, <1>9 DEF EventsInv

\* A confirm says that the queue has the event.
LEMMA AcknowledgePreserves ==
    ASSUME EventsInv, NEW t \in Threads, Acknowledge(t)
    PROVE  EventsInv'
  <1>1. /\ thread[t].stage = "confirm" /\ thread[t].event \in queue /\ Goto(t, "done")
        /\ UNCHANGED <<broker, lock, connection, channel, topology, queue, published, sent>>
    BY DEF Acknowledge
  <1>2. /\ lock = t
        /\ \A u \in Threads \ {t} : thread[u].stage \notin Locked
    BY <1>1, Alone DEF EventsInv, LockHeld, Locked
  <1>3. /\ thread' \in [Threads -> [stage : Stages, event : Nat]]
        /\ thread'[t] = [stage |-> "done", event |-> thread[t].event]
        /\ \A u \in Threads \ {t} : thread'[u] = thread[u]
    BY <1>1, Moved DEF EventsInv, Stages, Locked
  <1>4. Typed'
    BY <1>1, <1>3 DEF EventsInv, Typed
  <1>5. CacheAgrees'
    BY <1>1 DEF EventsInv, CacheAgrees, Alive
  <1>6. LockHeld' /\ InUse'
    BY <1>1, <1>2, <1>3 DEF LockHeld, InUse, Locked, Using
  <1>7. Configured'
    <2>1. ~ \E u \in Threads : thread[u].stage = "declare"
      BY <1>1, <1>2 DEF Locked
    <2> QED
      BY <1>1, <2>1 DEF EventsInv, Configured
  <1>8. Accepted'
    BY <1>1, <1>2, <1>3 DEF EventsInv, Accepted, Locked
  <1> QED
    BY <1>4, <1>5, <1>6, <1>7, <1>8 DEF EventsInv

\* What a thread reports is in the queue.
LEMMA ReportSuccessPreserves ==
    ASSUME EventsInv, NEW t \in Threads, ReportSuccess(t)
    PROVE  EventsInv'
  <1>1. /\ thread[t].stage = "done" /\ published' = published \union {thread[t].event}
        /\ thread' = [thread EXCEPT ![t] = IdleThread]
        /\ UNCHANGED <<broker, connection, channel, topology, queue, sent>>
    BY DEF ReportSuccess
  <1>2. \A u \in Threads \ {t} : thread[u].stage \notin Locked
    BY <1>1, Alone DEF EventsInv, Locked
  <1>3. /\ thread'[t] = [stage |-> "idle", event |-> 0]
        /\ \A u \in Threads \ {t} : thread'[u] = thread[u]
        /\ thread' \in [Threads -> [stage : Stages, event : Nat]]
    BY <1>1 DEF EventsInv, Typed, IdleThread, Stages
  <1>4. Typed'
    BY <1>1, <1>3 DEF EventsInv, Typed
  <1>5. CacheAgrees'
    BY <1>1 DEF EventsInv, CacheAgrees, Alive
  <1>6. LockHeld' /\ InUse'
    BY <1>2, <1>3 DEF LockHeld, InUse, Locked, Using
  <1>7. Configured'
    <2>1. ~ \E u \in Threads : thread[u].stage = "declare"
      BY <1>1, <1>2 DEF Locked
    <2> QED
      BY <1>1, <2>1 DEF EventsInv, Configured
  <1>8. Accepted'
    BY <1>1, <1>2, <1>3 DEF EventsInv, Accepted, Locked
  <1> QED
    BY <1>4, <1>5, <1>6, <1>7, <1>8 DEF EventsInv

\* Whose client it drops had no user, as the lock is free.
LEMMA CloseLockedPreserves ==
    ASSUME EventsInv, NEW t \in Threads, CloseLocked(t)
    PROVE  EventsInv'
  <1>1. /\ thread[t].stage = "cleanup"
        /\ connection' = NoConnection /\ channel' = NoChannel
        /\ thread' = [thread EXCEPT ![t] = IdleThread]
        /\ UNCHANGED <<broker, lock, queue, published, sent>>
    BY DEF CloseLocked
  <1>2. \A u \in Threads : thread[u].stage \notin Locked
    BY NobodyLocked DEF EventsInv, CloseLocked, LockFree
  <1>3. /\ thread'[t] = [stage |-> "idle", event |-> 0]
        /\ \A u \in Threads \ {t} : thread'[u] = thread[u]
        /\ thread' \in [Threads -> [stage : Stages, event : Nat]]
    BY <1>1 DEF EventsInv, Typed, IdleThread, Stages
  <1>4. Typed'
    BY <1>1, <1>3 DEF EventsInv, Typed, NoConnection, NoChannel
  <1>5. CacheAgrees'
    BY <1>1 DEF EventsInv, Typed, CacheAgrees, NoConnection, NoChannel, Alive
  <1>6. LockHeld' /\ InUse'
    BY <1>2, <1>3 DEF LockHeld, InUse, Locked, Using
  <1>7. Configured'
    BY <1>1 DEF Configured, NoChannel
  <1>8. Accepted'
    BY <1>1, <1>2, <1>3 DEF EventsInv, Accepted, Locked
  <1> QED
    BY <1>4, <1>5, <1>6, <1>7, <1>8 DEF EventsInv

\* The broker stops and starts: a run that is over stays over.
LEMMA BrokerPreserves ==
    ASSUME EventsInv, BrokerStops \/ BrokerStarts
    PROVE  EventsInv'
  <1>1. UNCHANGED <<lock, connection, channel, topology, queue, published, thread, sent>>
    BY DEF BrokerStops, BrokerStarts
  <1>2. /\ broker' \in [run : Nat \ {0}, up : BOOLEAN]
        /\ broker.run <= broker'.run
        /\ broker'.up => broker'.run # broker.run /\ broker.run < broker'.run
    <2>1. CASE BrokerStops
      <3>1. broker' = [run |-> broker.run, up |-> FALSE]
        BY <2>1 DEF EventsInv, Typed, BrokerStops
      <3>2. broker.run \in Nat \ {0}
        BY DEF EventsInv, Typed
      <3>3. broker'.run = broker.run /\ ~broker'.up
        BY <3>1
      <3> QED
        BY <3>1, <3>2, <3>3
    <2>2. CASE BrokerStarts
      BY <2>2 DEF EventsInv, Typed, BrokerStarts
    <2> QED
      BY <2>1, <2>2
  <1>3. ~Alive(channel.run)'
    BY <1>1, <1>2 DEF EventsInv, Typed, CacheAgrees, Alive
  <1>4. Typed'
    BY <1>1, <1>2 DEF EventsInv, Typed
  <1>5. CacheAgrees'
    BY <1>1, <1>2, <1>3 DEF EventsInv, Typed, CacheAgrees
  <1>6. LockHeld' /\ InUse' /\ Configured'
    BY <1>1 DEF EventsInv, LockHeld, InUse, Configured
  <1>7. Accepted'
    BY <1>1, <1>3 DEF EventsInv, Accepted
  <1> QED
    BY <1>4, <1>5, <1>6, <1>7 DEF EventsInv

-----------------------------------------------------------------------------
\* The theorems.

\* A thread fails only when the broker has stopped since its channel was opened.
LEMMA FailsWithBroker ==
    ASSUME EventsInv, NEW t \in Threads, ConnectFails(t) \/ PublishFails(t)
    PROVE  /\ thread[t].stage \in Locked
           /\ ~broker.up \/ (channel.run # 0 /\ channel.run # broker.run)
           /\ thread[t].stage = "declare" => ~Alive(channel.run)
           /\ Fail(t)
  <1>1. CASE ConnectFails(t)
    BY <1>1 DEF EventsInv, CacheAgrees, ConnectFails, Alive, Locked
  <1>2. CASE PublishFails(t)
    <2>1. thread[t].stage \in Using /\ Fail(t)
      BY <1>2 DEF PublishFails, Using
    <2>2. channel.open /\ channel.run # 0
      BY <2>1 DEF EventsInv, InUse, CacheAgrees
    <2>3. ~Alive(channel.run)
      BY <1>2, <2>2 DEF EventsInv, Accepted, PublishFails
    <2> QED
      BY <2>1, <2>2, <2>3 DEF Using, Locked, Alive
  <1> QED
    BY <1>1, <1>2

\* Every step of the publisher and of the broker.
LEMMA NextPreserves == EventsInv /\ [Next]_eventVars => EventsInv'
  <1> SUFFICES ASSUME EventsInv, [Next]_eventVars PROVE EventsInv'
    OBVIOUS
  <1>1. ASSUME NEW t \in Threads, PublishUserLog(t) \/ Work(t)
        PROVE  EventsInv'
    <2>1. CASE PublishUserLog(t)
      BY <2>1, PublishUserLogPreserves
    <2>2. CASE EnterLock(t)
      BY <2>2, EnterLockPreserves
    <2>3. CASE Connect(t)
      BY <2>3, ConnectPreserves
    <2>4. CASE ConnectFails(t) \/ PublishFails(t)
      BY <2>4, FailsWithBroker, FailPreserves
    <2>5. CASE DeclareTopology(t)
      BY <2>5, DeclareTopologyPreserves
    <2>6. CASE HandOver(t)
      BY <2>6, HandOverPreserves
    <2>7. CASE Acknowledge(t)
      BY <2>7, AcknowledgePreserves
    <2>8. CASE ReportSuccess(t)
      BY <2>8, ReportSuccessPreserves
    <2>9. CASE CloseLocked(t)
      BY <2>9, CloseLockedPreserves
    <2> QED
      BY <1>1, <2>1, <2>2, <2>3, <2>4, <2>5, <2>6, <2>7, <2>8, <2>9 DEF Work
  <1>2. CASE UNCHANGED eventVars
    BY <1>2 DEF EventsInv, Typed, CacheAgrees, LockHeld, InUse, Configured, Accepted, Alive,
                eventVars
  <1> QED
    BY <1>1, <1>2, BrokerPreserves DEF Next

\* Every step of a workload is one of each component, or leaves it alone.
LEMMA EventSteps == [MCNext]_<<eventVars, NotEvents>> => [Next]_eventVars
  BY DEF MCNext, LogStep, GoodsStep, PassStep, PreferencesStep, DeliveryStep, PeopleStep,
         SiteStep, ScriptStep, NotScript

\* The same of the kitchen's component.
LEMMA KitchenSteps == [MCNext]_<<eventVars, NotEvents>> => [Pass!Next]_passVars
  BY DEF MCNext, LogStep, GoodsStep, PassStep, PreferencesStep, DeliveryStep, PeopleStep,
         SiteStep, ScriptStep, NotEvents, NotScript

(* Success is reported only for events the broker has, whatever fails and   *)
(* however many threads share the client (rabbitmq/publisher.py).           *)
THEOREM PublishedEventsAreQueued == Spec => []PublishedIsQueued
  <1>1. EventsInv => PublishedIsQueued
    BY DEF EventsInv, Accepted, PublishedIsQueued
  <1> QED
    BY InitEstablishes, NextPreserves, <1>1, PTL DEF Spec

(* Nobody publishes on a channel without publisher confirms, nor on one of  *)
(* a connection that was replaced.                                          *)
THEOREM ChannelsAreConfigured == Spec => []ChannelIsConfigured
  <1>1. EventsInv => ChannelIsConfigured
    <2> SUFFICES ASSUME EventsInv PROVE ChannelIsConfigured
      OBVIOUS
    <2>1. channel.open => connection.open /\ connection.run = channel.run
      BY DEF EventsInv, CacheAgrees
    <2>2. ASSUME NEW t \in Threads, thread[t].stage \in {"publish", "confirm"}, channel.open
          PROVE  channel.confirms
      <3>1. \A u \in Threads \ {t} : thread[u].stage \notin Locked
        BY <2>2, Alone DEF EventsInv, Locked
      <3> QED
        BY <2>2, <3>1 DEF EventsInv, Configured, Locked
    <2> QED
      BY <2>1, <2>2 DEF ChannelIsConfigured
  <1> QED
    BY InitEstablishes, NextPreserves, <1>1, PTL DEF Spec

(* While the broker runs, no thread makes another one's publish fail: only  *)
(* a stop of the broker does.                                               *)
THEOREM FailuresAreTheBrokers == Spec => OnlyTheBrokerFails
  <1>1. EventsInv /\ [Next]_eventVars => [FailStep]_eventVars
    <2> SUFFICES ASSUME EventsInv, Next, NEW t \in Threads,
                        thread[t].stage # "cleanup", thread'[t].stage = "cleanup"
                 PROVE  ~broker.up \/ (channel.run # 0 /\ channel.run # broker.run)
      BY DEF FailStep
    <2>1. PICK u \in Threads : PublishUserLog(u) \/ Work(u)
      BY DEF Next, BrokerStops, BrokerStarts
    <2>2. thread \in [Threads -> [stage : Stages, event : Nat]]
      BY DEF EventsInv, Typed
    <2>3. CASE ConnectFails(u) \/ PublishFails(u)
      BY <2>3, FailsWithBroker
    <2>4. CASE PublishUserLog(u) \/ ReportSuccess(u) \/ CloseLocked(u)
      BY <2>2, <2>4 DEF PublishUserLog, ReportSuccess, CloseLocked, IdleThread
    <2>5. CASE EnterLock(u) \/ Connect(u) \/ DeclareTopology(u) \/ HandOver(u) \/ Acknowledge(u)
      BY <2>2, <2>5 DEF EnterLock, Connect, DeclareTopology, HandOver, Acknowledge, Goto
    <2> QED
      BY <2>1, <2>3, <2>4, <2>5 DEF Work
  <1> QED
    BY InitEstablishes, NextPreserves, <1>1, PTL DEF Spec, OnlyTheBrokerFails

(* Whatever the broker does, publishers share one configured channel, what  *)
(* they report as published is queued, and only the broker makes one fail.  *)
THEOREM PublishersDoAgree == MCFairSpec => PublishersAgree
  <1>1. MCFairSpec => Spec
    <2>1. MCInit => Init
      BY DEF MCInit
    <2> QED
      BY <2>1, EventSteps, PTL DEF MCFairSpec, Spec
  <1> QED
    BY <1>1, PublishedEventsAreQueued, ChannelsAreConfigured, FailuresAreTheBrokers, PTL
       DEF PublishersAgree

-----------------------------------------------------------------------------
\* Kitchen.  What a cook read may be old when it is written, but the statuses an
\* item has had only grow, so what allowed the move then allows it now.

\* The statuses an item must have had before it may have another one.
Before(target) ==
    CASE target = "served" -> {"preparing", "ready"}
      [] target = "ready" -> {"preparing"}
      [] OTHER -> {}

ItemsPrepared ==
    /\ item_status \in [Items -> Pass!ItemStatuses]
    /\ been \in [Items -> SUBSET Pass!ItemStatuses]
    /\ \A i \in Items : item_status[i] \in been[i]
    /\ \A i \in Items : Before(item_status[i]) \subseteq been[i]

AskedFor(s) ==
    s.stage = "loaded" =>
        /\ s.item \in Items /\ s.target \in Pass!ItemStatuses
        /\ Before(s.target) \subseteq been[s.item]

KitchenInv ==
    /\ ItemsPrepared
    /\ DOMAIN kitchen_session = Threads
    /\ \A r \in Threads : AskedFor(kitchen_session[r])

\* Nothing has moved at the start.
LEMMA InitPrepared == Pass!Init => KitchenInv
  BY DEF Pass!Init, KitchenInv, ItemsPrepared, Pass!ItemStatuses, Before, AskedFor, Pass!IdleCook

\* The workflow lets an item move only to a status whose predecessors it has had.
LEMMA TransitionsPrepare ==
    ASSUME ItemsPrepared, NEW i \in Items, NEW target \in Pass!ItemStatuses,
           target \in Pass!ItemStatusTransitions[item_status[i]]
    PROVE  Before(target) \subseteq been[i]
  <1>1. PICK s \in Pass!ItemStatuses : s = item_status[i]
    BY DEF ItemsPrepared
  <1>2. target = "served" => s = "ready"
    BY <1>1 DEF Pass!ItemStatusTransitions, Pass!ItemStatuses
  <1>3. target = "ready" => s = "preparing"
    BY <1>1 DEF Pass!ItemStatusTransitions, Pass!ItemStatuses
  <1>4. s \in been[i] /\ Before(s) \subseteq been[i]
    BY <1>1 DEF ItemsPrepared
  <1> QED
    BY <1>2, <1>3, <1>4 DEF Before, Pass!ItemStatuses

\* A request that has loaded its item.
LEMMA LoadPreserves ==
    ASSUME KitchenInv, NEW r \in Threads, NEW i \in Items, NEW target \in Pass!ItemStatuses,
           Pass!LoadItem(r, {Stations[i]}, i, target)
    PROVE  KitchenInv'
  <1>1. Before(target) \subseteq been[i]
    BY TransitionsPrepare DEF KitchenInv, Pass!LoadItem
  <1>2. ItemsPrepared'
    BY DEF KitchenInv, Pass!LoadItem, ItemsPrepared
  <1>3. DOMAIN kitchen_session' = Threads
    BY DEF KitchenInv, Pass!LoadItem
  <1>4. ASSUME NEW q \in Threads
        PROVE  AskedFor(kitchen_session[q])'
    <2>1. CASE q = r
      BY <1>1, <2>1 DEF KitchenInv, Pass!LoadItem, AskedFor
    <2>2. CASE q # r
      BY <2>2 DEF KitchenInv, Pass!LoadItem, AskedFor
    <2> QED
      BY <2>1, <2>2
  <1> QED
    BY <1>2, <1>3, <1>4 DEF KitchenInv

\* The write uses what was read before, and been has only grown since.
LEMMA UpdatePreserves ==
    ASSUME KitchenInv, NEW r \in Threads, Pass!UpdateItemStatus(r)
    PROVE  KitchenInv'
  <1>1. PICK i \in Items : i = kitchen_session[r].item
    BY DEF KitchenInv, Pass!UpdateItemStatus, AskedFor
  <1>2. PICK target \in Pass!ItemStatuses : target = kitchen_session[r].target
    BY DEF KitchenInv, Pass!UpdateItemStatus, AskedFor
  <1>3. Before(target) \subseteq been[i]
    BY <1>1, <1>2 DEF KitchenInv, Pass!UpdateItemStatus, AskedFor
  <1>4. /\ item_status' = [item_status EXCEPT ![i] = target]
        /\ been' = [been EXCEPT ![i] = been[i] \union {target}]
        /\ kitchen_session' = [kitchen_session EXCEPT ![r] = Pass!IdleCook]
    BY <1>1, <1>2 DEF Pass!UpdateItemStatus
  <1>5. \A j \in Items : been[j] \subseteq been'[j]
    BY <1>4 DEF KitchenInv, ItemsPrepared
  <1>6. ItemsPrepared'
    BY <1>3, <1>4, <1>5 DEF KitchenInv, ItemsPrepared
  <1>7. DOMAIN kitchen_session' = Threads
    BY <1>4 DEF KitchenInv
  <1>8. ASSUME NEW q \in Threads
        PROVE  AskedFor(kitchen_session[q])'
    <2>1. CASE q = r
      BY <1>4, <2>1 DEF KitchenInv, AskedFor, Pass!IdleCook
    <2>2. CASE q # r
      BY <1>4, <1>5, <2>2 DEF KitchenInv, AskedFor
    <2> QED
      BY <2>1, <2>2
  <1> QED
    BY <1>6, <1>7, <1>8 DEF KitchenInv

\* A failed request, and a cancelled order, leave the items as they are.
LEMMA OthersPreserve ==
    ASSUME KitchenInv,
           \/ \E r \in Threads : Pass!Rollback(r)
           \/ \E i \in Items : Pass!CancelOrder(i)
           \/ UNCHANGED passVars
    PROVE  KitchenInv'
  <1>1. item_status' = item_status /\ been' = been
    BY DEF Pass!Rollback, Pass!CancelOrder, passVars
  <1>2. /\ DOMAIN kitchen_session' = Threads
        /\ \A q \in Threads : kitchen_session'[q] \in {Pass!IdleCook, kitchen_session[q]}
    BY DEF KitchenInv, Pass!Rollback, Pass!CancelOrder, passVars
  <1>3. ItemsPrepared'
    BY <1>1 DEF KitchenInv, ItemsPrepared
  <1>4. \A q \in Threads : AskedFor(kitchen_session[q])'
    BY <1>1, <1>2 DEF KitchenInv, AskedFor, Pass!IdleCook
  <1> QED
    BY <1>2, <1>3, <1>4 DEF KitchenInv

(* Whatever the cooks of a station overlap in update_item_status, no item   *)
(* is served that was not preparing and then ready.                         *)
THEOREM ServedItemsWereReady == MCFairSpec => []KitchenServedWasReady
  <1>1. MCInit => KitchenInv
    BY InitPrepared DEF MCInit
  <1>2. KitchenInv /\ [MCNext]_<<eventVars, NotEvents>> => KitchenInv'
    <2>1. KitchenInv /\ [Pass!Next]_passVars => KitchenInv'
      BY LoadPreserves, UpdatePreserves, OthersPreserve DEF Pass!Next
    <2> QED
      BY <2>1, KitchenSteps
  <1>3. KitchenInv => KitchenServedWasReady
    BY DEF KitchenInv, ItemsPrepared, Before, Pass!ServedWasReady, KitchenServedWasReady
  <1> QED
    BY <1>1, <1>2, <1>3, PTL DEF MCFairSpec
-----------------------------------------------------------------------------
\* Workloads of one request at a time.

AloneIn(sessions) ==
    \A t, u \in Threads : t # u => sessions[t].stage = "idle" \/ sessions[u].stage = "idle"

\* Within a width of one.
LEMMA NarrowIsAlone ==
    ASSUME NEW sessions, Busy(sessions) <= 1
    PROVE  AloneIn(sessions)
  <1>1. PICK S : S = {t \in Threads : sessions[t].stage # "idle"}
    OBVIOUS
  <1>2. Cardinality(S) <= 1 /\ IsFiniteSet(S)
    BY <1>1, ThreadsAreBounded, FS_Subset DEF Busy
  <1>3. \A t, u \in S : t = u
    BY <1>2, NoTwo
  <1> QED
    BY <1>1, <1>3 DEF AloneIn

\* The workload is chosen once.
LEMMA WorkloadStays == [MCNext]_<<eventVars, NotEvents>> => workload' = workload
  BY DEF MCNext, LogStep, GoodsStep, PassStep, PreferencesStep, DeliveryStep, PeopleStep,
         SiteStep, ScriptStep, NotEvents, NotScript, Within

-----------------------------------------------------------------------------
\* MongoDB log client.  With one thread at a time nobody else touches what get_client
\* has looked at.

LogStages == {"idle", "create", "probe", "ping", "insert", "close"}

LogTyped ==
    /\ logger \in [Threads -> [stage : LogStages, now : Int, candidate : Nat]]
    /\ created \in Nat /\ clock \in Int /\ next_retry_at \in Int

\* What a thread in get_client knows.
LoggerKnows(s) ==
    /\ s.stage \in {"create", "probe"} => client = 0
    /\ s.stage \in {"ping", "insert", "close"} => client # 0
    /\ s.stage = "create" => clock >= next_retry_at
    /\ s.stage = "probe" => s.candidate # 0

\* Every client open is the cached one or the one that is probed.
OpenIsKnown ==
    \A c \in opened : c # 0 /\ (c = client \/ \E t \in Threads : /\ logger[t].stage = "probe"
                                                                /\ logger[t].candidate = c)

LogInv == LogTyped /\ AloneIn(logger) /\ OpenIsKnown /\ \A t \in Threads : LoggerKnows(logger[t])

\* The steps of the workloads about the log.
LEMMA LogSteps ==
    [MCNext]_<<eventVars, NotEvents>> =>
        (Log!Next /\ (Serial => AloneIn(logger'))) \/ UNCHANGED logVars
  <1> SUFFICES ASSUME LogStep, Serial PROVE AloneIn(logger')
    BY DEF MCNext, LogStep, GoodsStep, PassStep, PreferencesStep, DeliveryStep, PeopleStep,
           SiteStep, ScriptStep, NotEvents, NotScript
  <1>1. Busy(logger') <= 1
    BY DEF LogStep, Within, Serial
  <1> QED
    BY <1>1, NarrowIsAlone

\* Nothing is logged yet.
LEMMA InitLog == Log!Init => LogInv
  BY DEF Log!Init, Log!IdleLogger, Log!NoClient, LogInv, LogTyped, AloneIn, OpenIsKnown,
         LoggerKnows, LogStages

\* A thread that goes on alone.
LEMMA LoggerMoves ==
    ASSUME LogInv, AloneIn(logger'), NEW t \in Threads,
           NEW s \in [stage : LogStages, now : Int, candidate : Nat],
           logger' = [logger EXCEPT ![t] = s], created' \in Nat, clock' = clock,
           next_retry_at' \in Int,
           LoggerKnows(s)', OpenIsKnown',
           logger[t].stage # "idle" \/ UNCHANGED <<client, next_retry_at>>
    PROVE  LogInv'
  <1>1. LogTyped'
    BY DEF LogInv, LogTyped
  <1>2. \A u \in Threads : logger'[u] = IF u = t THEN s ELSE logger[u]
    BY DEF LogInv, LogTyped
  <1>3. ASSUME NEW u \in Threads
        PROVE  LoggerKnows(logger[u])'
    <2>1. CASE u = t
      <3>1. LoggerKnows(s)'
        OBVIOUS
      <3> QED
        BY <1>2, <2>1, <3>1 DEF LoggerKnows
    <2>2. CASE u # t /\ logger[u].stage = "idle"
      BY <1>2, <2>2 DEF LoggerKnows
    <2>3. CASE u # t /\ logger[u].stage # "idle"
      <3>1. logger[t].stage = "idle"
        BY <2>3 DEF LogInv, AloneIn
      <3>2. LoggerKnows(logger[u]) /\ logger'[u] = logger[u]
        BY <1>2, <2>3 DEF LogInv
      <3> QED
        BY <3>1, <3>2 DEF LoggerKnows
    <2> QED
      BY <2>1, <2>2, <2>3
  <1> QED
    BY <1>1, <1>3 DEF LogInv
\* get_client, and what follows, by the only thread that logs.
LEMMA LogWorkKept ==
    ASSUME LogInv, AloneIn(logger'), NEW t \in Threads, Log!GetClient(t) \/ Log!Work(t)
    PROVE  LogInv' /\ (created' # created => clock >= next_retry_at)
  <1> USE DEF LogStages
  <1>1. PICK stage, now, candidate : logger[t] = [stage |-> stage, now |-> now, candidate |-> candidate]
    BY DEF LogInv, LogTyped
  <1>2. /\ stage \in LogStages /\ now \in Int /\ candidate \in Nat
        /\ logger[t].stage = stage /\ logger[t].now = now /\ logger[t].candidate = candidate
        /\ created \in Nat /\ clock \in Int /\ next_retry_at \in Int
    BY <1>1 DEF LogInv, LogTyped
  <1>3. LoggerKnows([stage |-> stage, now |-> now, candidate |-> candidate])
    BY <1>1 DEF LogInv
  <1>4. OpenIsKnown
    BY DEF LogInv
  <1>5. \A u \in Threads : stage # "idle" => u = t \/ logger[u].stage = "idle"
    BY <1>2 DEF LogInv, AloneIn
  <1>6. \A u \in Threads : \A s : logger' = [logger EXCEPT ![t] = s] =>
                                 logger'[u] = IF u = t THEN s ELSE logger[u]
    BY DEF LogInv, LogTyped
  <1>7. CASE Log!GetClient(t)
    <2>1. UNCHANGED <<client, next_retry_at, opened, created, server, clock>>
      BY <1>7 DEF Log!GetClient
    <2>2. PICK s : /\ s = IF client # 0
                          THEN [Log!IdleLogger EXCEPT !.stage = "ping", !.now = clock]
                          ELSE IF Log!Cooled(clock)
                               THEN [Log!IdleLogger EXCEPT !.stage = "create", !.now = clock]
                               ELSE Log!IdleLogger
                   /\ logger' = [logger EXCEPT ![t] = s]
      BY <1>7 DEF Log!GetClient, Log!NoClient
    <2>3. /\ s \in [stage : LogStages, now : Int, candidate : Nat]
          /\ s.stage = IF client # 0 THEN "ping" ELSE IF Log!Cooled(clock) THEN "create" ELSE "idle"
      <3>1. PICK idle : idle = Log!IdleLogger
        OBVIOUS
      <3>2. idle \in [stage : LogStages, now : Int, candidate : Nat] /\ idle.stage = "idle"
        BY <3>1 DEF Log!IdleLogger, Log!NoClient
      <3> QED
        BY <1>2, <2>2, <3>1, <3>2
    <2>4. LoggerKnows(s)'
      BY <2>1, <2>3 DEF LoggerKnows, Log!Cooled
    <2>5. stage = "idle"
      BY <1>2, <1>7 DEF Log!GetClient
    <2>6. OpenIsKnown'
      BY <1>2, <1>4, <1>6, <2>1, <2>2, <2>3, <2>5 DEF OpenIsKnown
    <2> QED
      BY <1>2, <2>1, <2>2, <2>3, <2>4, <2>6, LoggerMoves
  <1>8. CASE Log!CreateClient(t)
    <2>1. PICK fresh \in Nat : fresh = created + 1
      BY <1>2
    <2>2. PICK old \in [stage : LogStages, now : Int, candidate : Nat] : old = logger[t]
      BY DEF LogInv, LogTyped
    <2>3. PICK s : s = [old EXCEPT !.stage = "probe", !.candidate = fresh]
      OBVIOUS
    <2>4. /\ stage = "create" /\ created' = fresh /\ opened' = opened \union {fresh}
          /\ UNCHANGED <<client, next_retry_at, server, clock>>
          /\ logger' = [logger EXCEPT ![t] = s]
          /\ s \in [stage : LogStages, now : Int, candidate : Nat] /\ fresh # 0
          /\ s.stage = "probe" /\ s.candidate = fresh
      <3>1. s = [logger[t] EXCEPT !.stage = "probe", !.candidate = created + 1]
        BY <2>1, <2>2, <2>3
      <3>2. logger' = [logger EXCEPT ![t] = s]
        BY <1>8, <3>1 DEF Log!CreateClient
      <3>3. /\ s \in [stage : LogStages, now : Int, candidate : Nat]
            /\ s.stage = "probe" /\ s.candidate = fresh
        BY <2>1, <2>2, <2>3
      <3>4. fresh # 0
        BY <1>2, <2>1
      <3>5. /\ logger[t].stage = "create" /\ created' = fresh /\ opened' = opened \union {fresh}
            /\ UNCHANGED <<client, next_retry_at, server, clock>>
        BY <1>8, <2>1 DEF Log!CreateClient
      <3> QED
        BY <1>2, <3>2, <3>3, <3>4, <3>5
    <2>5. LoggerKnows(s)'
      BY <1>3, <2>4 DEF LoggerKnows
    <2>6. OpenIsKnown'
      <3>1. \A u \in Threads : logger[u].stage = "probe" => u = t
        BY <1>5, <2>4
      <3>2. logger'[t] = s
        BY <1>6, <2>4
      <3>3. \A c \in opened : c = client /\ c # 0
        BY <1>2, <1>4, <2>4, <3>1 DEF OpenIsKnown
      <3> QED
        BY <2>4, <3>2, <3>3 DEF OpenIsKnown
    <2>7. clock >= next_retry_at
      BY <1>3, <2>4 DEF LoggerKnows
    <2> QED
      BY <1>2, <2>1, <2>4, <2>5, <2>6, <2>7, LoggerMoves
  <1>9. CASE Log!CandidateAnswers(t)
    <2>1. PICK old \in [stage : LogStages, now : Int, candidate : Nat] : old = logger[t]
      BY DEF LogInv, LogTyped
    <2>2. PICK s : s = [old EXCEPT !.stage = "ping"]
      OBVIOUS
    <2>3. /\ stage = "probe" /\ client' = candidate
          /\ UNCHANGED <<next_retry_at, opened, created, server, clock>>
          /\ logger' = [logger EXCEPT ![t] = s]
          /\ s \in [stage : LogStages, now : Int, candidate : Nat] /\ s.stage = "ping"
      BY <1>2, <1>9, <2>1, <2>2 DEF Log!CandidateAnswers, Log!Goto, Log!Adopted, LogInv, LogTyped
    <2>4. LoggerKnows(s)'
      BY <1>3, <2>3 DEF LoggerKnows
    <2>5. OpenIsKnown'
      BY <1>2, <1>3, <1>4, <1>5, <1>6, <2>3 DEF OpenIsKnown, LoggerKnows
    <2> QED
      BY <1>2, <2>3, <2>4, <2>5, LoggerMoves
  <1>10. ASSUME NEW s \in [stage : LogStages, now : Int, candidate : Nat], stage # "idle",
                stage # "probe", logger' = [logger EXCEPT ![t] = s], s.stage # "probe",
                UNCHANGED <<client, next_retry_at, opened, created, clock>>, LoggerKnows(s)
         PROVE  LogInv' /\ created' = created
    <2>1. LoggerKnows(s)'
      BY <1>10 DEF LoggerKnows
    <2>2. OpenIsKnown'
      BY <1>2, <1>4, <1>5, <1>6, <1>10 DEF OpenIsKnown
    <2> QED
      BY <1>2, <1>10, <2>1, <2>2, LoggerMoves
  <1>11. CASE Log!Ping(t)
    <2>1. /\ stage = "ping" /\ client # 0 /\ client # Log!NoClient
          /\ UNCHANGED <<client, next_retry_at, opened, created, server, clock>>
      BY <1>2, <1>3, <1>11 DEF Log!Ping, LoggerKnows, Log!NoClient
    <2>2. PICK s : /\ s = [stage |-> IF server THEN "insert" ELSE "close", now |-> now,
                           candidate |-> candidate]
                   /\ logger' = [logger EXCEPT ![t] = s]
      BY <1>1, <1>2, <1>11, <2>1 DEF Log!Ping, Log!Goto, LogInv, LogTyped
    <2>3. s \in [stage : LogStages, now : Int, candidate : Nat] /\ s.stage # "probe"
      BY <1>2, <2>2
    <2>4. LoggerKnows(s)
      BY <2>1, <2>2 DEF LoggerKnows
    <2> QED
      BY <1>10, <2>1, <2>2, <2>3, <2>4
  <1>12. PICK idle : idle = [stage |-> "idle", now |-> 0, candidate |-> 0]
    OBVIOUS
  <1>13. /\ idle \in [stage : LogStages, now : Int, candidate : Nat] /\ idle = Log!IdleLogger
         /\ LoggerKnows(idle) /\ LoggerKnows(idle)' /\ idle.stage = "idle"
    BY <1>12 DEF LoggerKnows, Log!IdleLogger, Log!NoClient
  <1>14. CASE Log!Insert(t)
    <2>1. stage = "insert" \/ stage = "raised"
      BY <1>2, <1>14 DEF Log!Insert
    <2>2. /\ logger' = [logger EXCEPT ![t] = idle]
          /\ UNCHANGED <<client, next_retry_at, opened, created, clock>>
      BY <1>13, <1>14 DEF Log!Insert, Log!Leave
    <2> QED
      BY <1>10, <1>13, <2>1, <2>2
  <1>15. CASE Log!CandidateFails(t)
    <2>1. /\ stage = "probe" /\ opened' = opened \ {client, candidate}
          /\ logger' = [logger EXCEPT ![t] = idle] /\ UNCHANGED <<created, clock>>
          /\ next_retry_at' \in Int
      BY <1>2, <1>13, <1>15 DEF Log!CandidateFails, Log!Leave
    <2>2. OpenIsKnown'
      BY <1>2, <1>4, <1>5, <2>1 DEF OpenIsKnown
    <2> QED
      BY <1>2, <1>13, <2>1, <2>2, LoggerMoves
  <1>16. CASE Log!CloseClient(t)
    <2>1. stage = "close" /\ client # 0 /\ client # Log!NoClient
      BY <1>2, <1>3, <1>16 DEF Log!CloseClient, LoggerKnows, Log!NoClient
    <2>2. /\ opened' = opened \ {client} /\ logger' = [logger EXCEPT ![t] = idle]
          /\ UNCHANGED <<created, clock>> /\ next_retry_at' \in Int
      BY <1>2, <1>13, <1>16, <2>1 DEF Log!CloseClient, Log!Leave, Log!Without
    <2>3. OpenIsKnown'
      BY <1>2, <1>4, <1>5, <2>1, <2>2 DEF OpenIsKnown
    <2> QED
      BY <1>2, <1>13, <2>1, <2>2, <2>3, LoggerMoves
  <1> QED
    BY <1>7, <1>8, <1>9, <1>11, <1>14, <1>15, <1>16 DEF Log!Work
\* A step of the log, or of something else.
LEMMA LogKept ==
    ASSUME Serial => LogInv, [MCNext]_<<eventVars, NotEvents>>
    PROVE  /\ (Serial => LogInv)'
           /\ [Serial => Log!CooldownStep]_logVars
  <1>1. workload' = workload
    BY WorkloadStays
  <1>2. CASE UNCHANGED logVars
    BY <1>1, <1>2 DEF Serial, LogInv, LogTyped, AloneIn, OpenIsKnown, LoggerKnows, logVars
  <1>3. ASSUME Serial, Log!Next, AloneIn(logger')
        PROVE  LogInv' /\ (created' # created => clock >= next_retry_at)
    <2>1. ASSUME NEW t \in Threads, Log!GetClient(t) \/ Log!Work(t)
          PROVE  LogInv' /\ (created' # created => clock >= next_retry_at)
      BY <1>3, <2>1, LogWorkKept
    <2>2. CASE Log!ServerFails \/ Log!ServerReturns \/ Log!Tick
      <3>1. /\ UNCHANGED <<client, next_retry_at, opened, created, logger, logs>>
            /\ clock' = clock \/ clock' = clock + 1
        BY <2>2 DEF Log!ServerFails, Log!ServerReturns, Log!Tick
      <3>2. LogInv /\ clock \in Int
        BY <1>3 DEF LogInv, LogTyped
      <3>3. clock' \in Int /\ clock' >= clock
        BY <3>1, <3>2
      <3>4. LogTyped' /\ AloneIn(logger)' /\ OpenIsKnown'
        BY <3>1, <3>2, <3>3 DEF LogInv, LogTyped, AloneIn, OpenIsKnown
      <3>5. ASSUME NEW t \in Threads
            PROVE  LoggerKnows(logger[t])'
        <4>1. LoggerKnows(logger[t])
          BY <3>2 DEF LogInv
        <4>2. clock >= next_retry_at => clock' >= next_retry_at'
          BY <3>1, <3>2, <3>3 DEF LogInv, LogTyped
        <4> QED
          BY <3>1, <4>1, <4>2 DEF LoggerKnows
      <3> QED
        BY <3>1, <3>4, <3>5 DEF LogInv
    <2> QED
      BY <1>3, <2>1, <2>2 DEF Log!Next
  <1> QED
    BY <1>1, <1>2, <1>3, LogSteps DEF Serial, Log!CooldownStep

(* One thread at a time: get_client never raises, closes every client it    *)
(* drops, and opens none before the cooldown is over.                       *)
THEOREM LoggingIsHarmless == MCFairSpec => LogIsHarmless
  <1>1. MCInit => (Serial => LogInv)
    BY InitLog DEF MCInit
  <1>2. (Serial => LogInv) => (Serial => Log!NeverRaises /\ Log!NoClientLeaks)
    BY DEF LogInv, LogTyped, LogStages, OpenIsKnown, Log!NeverRaises, Log!NoClientLeaks
  <1> QED
    BY <1>1, <1>2, LogKept, PTL DEF MCFairSpec, LogIsHarmless
-----------------------------------------------------------------------------
\* Addresses.  The rows a request has cleared are all there are while it is alone, and
\* a request that clears nothing changes no flag to true.

AddressStages == {"idle", "clear", "clearing", "write", "delete"}
AddressRow == [is_default : BOOLEAN, deleted : BOOLEAN]
AddressRequest ==
    [stage : AddressStages, id : Nat, loaded : BOOLEAN, asked : BOOLEAN, cleared : SUBSET Nat]

AddressesTyped ==
    /\ IsTable(addresses)
    /\ \A i \in DOMAIN addresses : addresses[i] \in AddressRow
    /\ address_session \in [Threads -> AddressRequest]
    /\ \A t \in Threads : address_session[t].id \in 0 .. Len(addresses)

\* What a request that is alone knows of the flags.
AddressKnown(s) ==
    /\ s.stage \in {"clear", "clearing"} => s.asked
    /\ s.stage = "clearing" => s.cleared = Delivery!Stored
    /\ s.stage = "write" =>
        \/ s.asked /\ ~s.loaded /\ s.cleared = Delivery!Stored
        \/ /\ s.cleared = {}
           /\ s.id # 0 => s.loaded = addresses[s.id].is_default
           /\ s.asked => s.id # 0 /\ s.loaded

Default == {i \in Delivery!Stored : addresses[i].is_default}

AddressesSerial ==
    /\ AloneIn(address_session)
    /\ \A t \in Threads : AddressKnown(address_session[t])
    /\ \A i, j \in Default : i = j

AddressesInv == AddressesTyped /\ (Serial => AddressesSerial)

\* The steps of the workloads about addresses.
LEMMA AddressSteps ==
    [MCNext]_<<eventVars, NotEvents>> =>
        (Delivery!Next /\ (Serial => AloneIn(address_session'))) \/ UNCHANGED deliveryVars
  <1> SUFFICES ASSUME DeliveryStep, Serial PROVE AloneIn(address_session')
    BY DEF MCNext, LogStep, GoodsStep, PassStep, PreferencesStep, DeliveryStep, PeopleStep,
           SiteStep, ScriptStep, NotEvents, NotScript
  <1>1. Busy(address_session') <= 1
    BY DEF DeliveryStep, Within, Serial
  <1> QED
    BY <1>1, NarrowIsAlone

\* A customer has no addresses at first.
LEMMA InitAddresses == Delivery!Init => AddressesInv
  <1> SUFFICES ASSUME Delivery!Init PROVE AddressesInv
    OBVIOUS
  <1>1. addresses = <<>> /\ IsTable(addresses) /\ DOMAIN addresses = {} /\ Len(addresses) = 0
    BY EmptyTable DEF Delivery!Init
  <1>2. PICK idle : idle = Delivery!IdleRequest
    OBVIOUS
  <1>3. idle \in AddressRequest /\ idle.stage = "idle" /\ idle.id = 0
    BY <1>2 DEF Delivery!IdleRequest, Delivery!Request, AddressRequest, AddressStages
  <1>4. /\ address_session \in [Threads -> AddressRequest]
        /\ \A t \in Threads : address_session[t] = idle
    BY <1>2, <1>3 DEF Delivery!Init
  <1>5. AddressesTyped
    BY <1>1, <1>3, <1>4 DEF AddressesTyped
  <1>6. AddressesSerial
    BY <1>1, <1>3, <1>4 DEF AddressesSerial, AloneIn, AddressKnown, Default, Delivery!Stored
  <1> QED
    BY <1>5, <1>6 DEF AddressesInv

\* The session of one request changes, its rows are those it works on.
LEMMA AddressMoves ==
    ASSUME AddressesTyped, AloneIn(address_session), NEW t \in Threads, NEW s \in AddressRequest,
           address_session' = [address_session EXCEPT ![t] = s], AloneIn(address_session'),
           \A u \in Threads : AddressKnown(address_session[u]),
           AddressKnown(s)',
           address_session[t].stage = "idle" => addresses' = addresses
    PROVE  \A u \in Threads : AddressKnown(address_session[u])'
  <1>1. \A u \in Threads : address_session'[u] = IF u = t THEN s ELSE address_session[u]
    BY DEF AddressesTyped
  <1> SUFFICES ASSUME NEW u \in Threads PROVE AddressKnown(address_session[u])'
    OBVIOUS
  <1>2. CASE u = t
    <2>1. AddressKnown(s)'
      OBVIOUS
    <2> QED
      BY <1>1, <1>2, <2>1 DEF AddressKnown
  <1>3. CASE u # t /\ address_session[u].stage = "idle"
    BY <1>1, <1>3 DEF AddressKnown
  <1>4. CASE u # t /\ address_session[u].stage # "idle"
    <2>1. addresses' = addresses
      BY <1>4 DEF AloneIn
    <2>2. AddressKnown(address_session[u]) /\ address_session'[u] = address_session[u]
      BY <1>1, <1>4
    <2> QED
      BY <2>1, <2>2 DEF AddressKnown, Delivery!Stored
  <1> QED
    BY <1>2, <1>3, <1>4
\* What remains to be shown of a step of one request.
LEMMA AddressStep ==
    ASSUME AddressesInv, workload' = workload, Serial => AloneIn(address_session'),
           NEW t \in Threads, NEW s \in AddressRequest,
           Delivery!Goto(t, s),
           IsTable(addresses'), \A i \in DOMAIN addresses' : addresses'[i] \in AddressRow,
           Len(addresses') >= Len(addresses), s.id \in 0 .. Len(addresses'),
           Serial => /\ AddressKnown(s)' /\ \A i, j \in Default' : i = j
                     /\ address_session[t].stage = "idle" => addresses' = addresses
    PROVE  AddressesInv'
  <1>1. \A u \in Threads : address_session'[u] = IF u = t THEN s ELSE address_session[u]
    BY DEF AddressesInv, AddressesTyped, Delivery!Goto
  <1>2. Len(addresses) \in Nat /\ Len(addresses') \in Nat
    BY TableIs DEF AddressesInv, AddressesTyped
  <1>3. AddressesTyped'
    BY <1>1, <1>2 DEF AddressesInv, AddressesTyped, Delivery!Goto
  <1>4. Serial' => Serial
    BY DEF Serial
  <1>5. ASSUME Serial PROVE AddressesSerial'
    <2>1. \A u \in Threads : AddressKnown(address_session[u])'
      BY <1>5, AddressMoves DEF AddressesInv, AddressesSerial, Delivery!Goto
    <2> QED
      BY <1>5, <2>1 DEF AddressesSerial
  <1> QED
    BY <1>3, <1>4, <1>5 DEF AddressesInv

\* A request leaves the rows as they are: it begins, clears, or is rolled back.
LEMMA AddressReads ==
    ASSUME AddressesInv, workload' = workload, Serial => AloneIn(address_session'),
           NEW t \in Threads, \/ Delivery!BeginSome(t) \/ Delivery!FindDefaults(t)
                              \/ Delivery!ClearDefault(t) \/ Delivery!Rollback(t)
    PROVE  AddressesInv' /\ addresses' = addresses
  <1>1. addresses' = addresses
    BY DEF Delivery!BeginSome, Delivery!BeginCreate, Delivery!BeginUpdate,
           Delivery!BeginSilentUpdate, Delivery!BeginDelete, Delivery!Begin,
           Delivery!FindDefaults, Delivery!ClearDefault, Delivery!Rollback
  <1> SUFFICES AddressesInv'
    BY <1>1
  <1>2. /\ IsTable(addresses) /\ \A i \in DOMAIN addresses : addresses[i] \in AddressRow
        /\ Len(addresses) \in Nat /\ DOMAIN addresses = 1 .. Len(addresses)
        /\ Serial => \A i, j \in Default : i = j
    BY TableIs DEF AddressesInv, AddressesTyped, AddressesSerial
  <1>3. Serial => \A i, j \in Default' : i = j
    BY <1>1, <1>2 DEF Default, Delivery!Stored
  <1>4. ASSUME NEW s \in AddressRequest, Delivery!Goto(t, s),
               s.id \in 0 .. Len(addresses), Serial => AddressKnown(s)
        PROVE  AddressesInv'
    <2>1. Serial => AddressKnown(s)'
      BY <1>1, <1>4 DEF AddressKnown, Delivery!Stored
    <2>2. /\ IsTable(addresses') /\ \A i \in DOMAIN addresses' : addresses'[i] \in AddressRow
          /\ Len(addresses') >= Len(addresses) /\ s.id \in 0 .. Len(addresses')
      BY <1>1, <1>2, <1>4
    <2>3. Serial => /\ AddressKnown(s)' /\ \A i, j \in Default' : i = j
                    /\ address_session[t].stage = "idle" => addresses' = addresses
      BY <1>1, <1>3, <2>1
    <2> QED
      BY <1>4, <2>2, <2>3, AddressStep
  <1>5. PICK idle : idle = Delivery!IdleRequest
    OBVIOUS
  <1>6. idle \in AddressRequest /\ idle.stage = "idle" /\ idle.id = 0 /\ idle.cleared = {}
    BY <1>5 DEF Delivery!IdleRequest, Delivery!Request, AddressStages, AddressRequest
  <1>7. CASE Delivery!Rollback(t)
    <2>1. Delivery!Goto(t, idle)
      BY <1>5, <1>7 DEF Delivery!Rollback
    <2>2. idle.id \in 0 .. Len(addresses) /\ AddressKnown(idle)
      BY <1>2, <1>6 DEF AddressKnown
    <2> QED
      BY <1>4, <1>6, <2>1, <2>2
  <1>8. CASE Delivery!ClearDefault(t)
    <2>1. PICK old \in AddressRequest : old = address_session[t]
      BY DEF AddressesInv, AddressesTyped
    <2>2. PICK s : s = [old EXCEPT !.stage = "write", !.loaded = FALSE,
                                   !.cleared = old.cleared \intersect Delivery!Stored]
      OBVIOUS
    <2>3. old.cleared \intersect Delivery!Stored \in SUBSET Nat
      BY <1>2 DEF Delivery!Stored
    <2>4. /\ s \in AddressRequest /\ s.id = old.id /\ s.asked = old.asked /\ ~s.loaded
          /\ s.cleared = old.cleared \intersect Delivery!Stored /\ s.stage = "write"
      BY <2>1, <2>2, <2>3 DEF AddressStages, AddressRequest
    <2>5. old.stage = "clearing" /\ Delivery!Goto(t, s)
      BY <1>8, <2>1, <2>2 DEF Delivery!ClearDefault, Delivery!Synchronized, Delivery!Goto
    <2>6. /\ old.id \in 0 .. Len(addresses)
          /\ Serial => old.asked /\ old.cleared = Delivery!Stored
      BY <2>1, <2>5 DEF AddressesInv, AddressesTyped, AddressesSerial, AddressKnown
    <2>7. Serial => s.cleared = Delivery!Stored
      BY <2>4, <2>6
    <2>8. Serial => AddressKnown(s)
      BY <2>4, <2>6, <2>7 DEF AddressKnown
    <2> QED
      BY <1>4, <2>4, <2>5, <2>6, <2>8
  <1>14. CASE Delivery!FindDefaults(t)
    <2>1. PICK old \in AddressRequest : old = address_session[t]
      BY DEF AddressesInv, AddressesTyped
    <2>2. PICK s : s = [old EXCEPT !.stage = "clearing", !.cleared = Delivery!Stored]
      OBVIOUS
    <2>3. Delivery!Stored \in SUBSET Nat
      BY <1>2 DEF Delivery!Stored
    <2>4. /\ s \in AddressRequest /\ s.id = old.id /\ s.asked = old.asked
          /\ s.cleared = Delivery!Stored /\ s.stage = "clearing"
      BY <2>1, <2>2, <2>3 DEF AddressStages, AddressRequest
    <2>5. old.stage = "clear" /\ Delivery!Goto(t, s)
      BY <1>14, <2>1, <2>2 DEF Delivery!FindDefaults, Delivery!Cleared, Delivery!Goto
    <2>6. old.id \in 0 .. Len(addresses) /\ (Serial => old.asked)
      BY <2>1, <2>5 DEF AddressesInv, AddressesTyped, AddressesSerial, AddressKnown
    <2>7. Serial => AddressKnown(s)
      BY <2>4, <2>6 DEF AddressKnown
    <2> QED
      BY <1>4, <2>4, <2>5, <2>6, <2>7
  <1>9. ASSUME NEW stage \in AddressStages, NEW id \in 0 .. Len(addresses), NEW loaded \in BOOLEAN,
               NEW ask \in BOOLEAN, Delivery!Goto(t, Delivery!Request(stage, id, loaded, ask)),
               AddressKnown(Delivery!Request(stage, id, loaded, ask))
        PROVE  AddressesInv'
    <2>1. PICK s : s = Delivery!Request(stage, id, loaded, ask)
      OBVIOUS
    <2>2. s \in AddressRequest /\ s.id = id
      BY <1>2, <2>1 DEF AddressRequest, Delivery!Request
    <2> QED
      BY <1>2, <1>4, <1>9, <2>1, <2>2
  <1>10. ASSUME NEW ask \in BOOLEAN, Delivery!BeginCreate(t, ask)
         PROVE  AddressesInv'
    <2>1. PICK stage : stage = Delivery!FirstStage(ask)
      OBVIOUS
    <2>2. stage \in AddressStages /\ (stage = "clear" <=> ask) /\ (stage = "write" <=> ~ask)
      BY <2>1 DEF Delivery!FirstStage, AddressStages
    <2>3. PICK no \in BOOLEAN : no = FALSE
      OBVIOUS
    <2>4. Delivery!Goto(t, Delivery!Request(stage, 0, no, ask))
      BY <1>10, <2>1, <2>3 DEF Delivery!BeginCreate, Delivery!Begin
    <2>5. AddressKnown(Delivery!Request(stage, 0, no, ask)) /\ 0 \in 0 .. Len(addresses)
      BY <1>2, <2>2 DEF AddressKnown, Delivery!Request
    <2> QED
      BY <1>9, <2>2, <2>4, <2>5
  <1>11. ASSUME NEW id \in Delivery!Stored, NEW ask \in BOOLEAN, Delivery!BeginUpdate(t, id, ask)
         PROVE  AddressesInv'
    <2>1. PICK stage : stage = Delivery!FirstStage(ask)
      OBVIOUS
    <2>2. stage \in AddressStages /\ (stage = "clear" <=> ask) /\ (stage = "write" <=> ~ask)
      BY <2>1 DEF Delivery!FirstStage, AddressStages
    <2>3. id \in 1 .. Len(addresses) /\ addresses[id].is_default \in BOOLEAN
      BY <1>2 DEF Delivery!Stored, AddressRow
    <2>4. Delivery!Goto(t, Delivery!Request(stage, id, addresses[id].is_default, ask))
      BY <1>11, <2>1 DEF Delivery!BeginUpdate, Delivery!Begin
    <2>5. AddressKnown(Delivery!Request(stage, id, addresses[id].is_default, ask))
      BY <2>2 DEF AddressKnown, Delivery!Request
    <2> QED
      BY <1>2, <1>9, <2>2, <2>3, <2>4, <2>5
  <1>12. ASSUME NEW id \in Delivery!Stored, Delivery!BeginSilentUpdate(t, id)
         PROVE  AddressesInv'
    <2>1. id \in 1 .. Len(addresses)
      BY <1>2 DEF Delivery!Stored
    <2>2. PICK flag \in BOOLEAN : flag = addresses[id].is_default
      BY <1>2, <2>1 DEF AddressRow
    <2>3. Delivery!Goto(t, Delivery!Request("write", id, flag, flag))
      BY <1>12, <2>2 DEF Delivery!BeginSilentUpdate, Delivery!Begin
    <2>4. AddressKnown(Delivery!Request("write", id, flag, flag))
      BY <2>1, <2>2 DEF AddressKnown, Delivery!Request
    <2>5. "write" \in AddressStages
      BY DEF AddressStages
    <2> QED
      BY <1>2, <1>9, <2>1, <2>2, <2>3, <2>4, <2>5
  <1>13. ASSUME NEW id \in Delivery!Stored, Delivery!BeginDelete(t, id)
         PROVE  AddressesInv'
    <2>1. id \in 1 .. Len(addresses)
      BY <1>2 DEF Delivery!Stored
    <2>2. PICK no \in BOOLEAN : no = FALSE
      OBVIOUS
    <2>3. Delivery!Goto(t, Delivery!Request("delete", id, no, no))
      BY <1>13, <2>2 DEF Delivery!BeginDelete, Delivery!Begin
    <2>4. AddressKnown(Delivery!Request("delete", id, no, no)) /\ "delete" \in AddressStages
      BY DEF AddressKnown, Delivery!Request, AddressStages
    <2> QED
      BY <1>2, <1>9, <2>1, <2>3, <2>4
  <1> QED
    BY <1>1, <1>7, <1>8, <1>10, <1>11, <1>12, <1>13, <1>14 DEF Delivery!BeginSome
\* clear_default leaves its rows as they are but for the flag.
LEMMA ClearedRows ==
    ASSUME AddressesTyped, NEW s \in AddressRequest, NEW cleared,
           cleared = Delivery!AfterClearing(s)
    PROVE  /\ IsTable(cleared) /\ Len(cleared) = Len(addresses) /\ Len(addresses) \in Nat
           /\ DOMAIN cleared = 1 .. Len(addresses) /\ DOMAIN addresses = 1 .. Len(addresses)
           /\ \A i \in DOMAIN addresses :
                /\ cleared[i] \in AddressRow /\ cleared[i].deleted = addresses[i].deleted
                /\ cleared[i].is_default = (addresses[i].is_default /\ i \notin s.cleared)
           /\ s.cleared = {} => cleared = addresses
  <1>1. Len(addresses) \in Nat /\ addresses = [i \in 1 .. Len(addresses) |-> addresses[i]]
    BY TableIs DEF AddressesTyped
  <1>2. DOMAIN addresses = 1 .. Len(addresses)
    BY <1>1
  <1>3. cleared = [i \in 1 .. Len(addresses) |->
                    IF i \in s.cleared THEN [addresses[i] EXCEPT !.is_default = FALSE] ELSE addresses[i]]
    BY <1>2 DEF Delivery!AfterClearing
  <1>4. cleared = [i \in 1 .. Len(addresses) |-> cleared[i]]
    BY <1>3
  <1>5. IsTable(cleared) /\ Len(cleared) = Len(addresses) /\ DOMAIN cleared = 1 .. Len(addresses)
    BY <1>1, <1>3, <1>4, TableOf
  <1>6. ASSUME NEW i \in DOMAIN addresses
        PROVE  /\ cleared[i] \in AddressRow /\ cleared[i].deleted = addresses[i].deleted
               /\ cleared[i].is_default = (addresses[i].is_default /\ i \notin s.cleared)
    <2>1. PICK row \in AddressRow : row = addresses[i]
      BY DEF AddressesTyped
    <2>2. cleared[i] = IF i \in s.cleared THEN [row EXCEPT !.is_default = FALSE] ELSE row
      BY <1>2, <1>3, <2>1
    <2>3. PICK off : off = [row EXCEPT !.is_default = FALSE]
      OBVIOUS
    <2>4. off \in AddressRow /\ off.deleted = row.deleted /\ off.is_default = FALSE
      BY <2>3 DEF AddressRow
    <2>5. CASE i \in s.cleared
      BY <2>1, <2>2, <2>3, <2>4, <2>5
    <2>6. CASE i \notin s.cleared
      <3>1. cleared[i] = row
        BY <2>2, <2>6
      <3>2. row.is_default \in BOOLEAN
        BY DEF AddressRow
      <3> QED
        BY <2>1, <2>6, <3>1, <3>2
    <2> QED
      BY <2>5, <2>6
  <1>7. s.cleared = {} => cleared = addresses
    BY <1>1, <1>3
  <1> QED
    BY <1>1, <1>2, <1>5, <1>6, <1>7

\* What a request that is alone writes: the flag of its own row at most, after the others'
\* have been cleared.
LEMMA FlagsAfter ==
    ASSUME AddressesInv, Serial, NEW t \in Threads, NEW id, NEW flag \in BOOLEAN, NEW s,
           s = address_session[t], s.stage = "write", Len(addresses') >= Len(addresses),
           s.id = 0 \/ s.id \in Delivery!Stored,
           id = IF s.id = 0 THEN Len(addresses) + 1 ELSE s.id,
           DOMAIN addresses' = DOMAIN addresses \union {id},
           \A i \in DOMAIN addresses \ {id} :
                /\ addresses'[i].deleted = addresses[i].deleted
                /\ addresses'[i].is_default = (addresses[i].is_default /\ i \notin s.cleared),
           addresses'[id].is_default = flag, ~addresses'[id].deleted,
           flag => s.asked,
           s.asked => \/ flag
                      \/ /\ s.cleared = {} /\ id \in DOMAIN addresses
                         /\ flag = addresses[id].is_default
    PROVE  /\ \A i, j \in Default' : i = j
           /\ s.asked => addresses'[id].is_default
  <1>1. AddressKnown(s) /\ \A i, j \in Default : i = j
    BY DEF AddressesInv, AddressesSerial
  <1>2. Len(addresses) \in Nat /\ DOMAIN addresses = 1 .. Len(addresses) /\ s.id \in 0 .. Len(addresses)
    BY TableIs DEF AddressesInv, AddressesTyped
  <1>3. \A i \in Default' : i # id => i \in Default /\ i \notin s.cleared
    BY DEF Default, Delivery!Stored
  <1>4. CASE s.asked /\ s.cleared = Delivery!Stored
    <2>1. \A i \in Default' : i = id
      BY <1>3, <1>4 DEF Default
    <2>2. flag
      <3>1. CASE s.id = 0
        BY <1>2, <1>4, <3>1
      <3>2. CASE s.id \in Delivery!Stored
        BY <1>4, <3>2
      <3> QED
        BY <3>1, <3>2
    <2> QED
      BY <2>1, <2>2
  <1>5. CASE s.cleared = {} /\ s.asked /\ s.id # 0 /\ s.loaded = addresses[s.id].is_default /\ s.loaded
    <2>1. id \in Default
      BY <1>5 DEF Default
    <2>2. addresses'[id].is_default
      BY <1>5
    <2> QED
      BY <1>1, <1>3, <2>1, <2>2
  <1>6. CASE ~s.asked
    <2>1. id \notin Default'
      BY <1>6 DEF Default
    <2> QED
      BY <1>1, <1>3, <1>6, <2>1
  <1> QED
    BY <1>1, <1>4, <1>5, <1>6 DEF AddressKnown
\* An address is created, updated or deleted.
LEMMA AddressWrites ==
    ASSUME AddressesInv, workload' = workload, Serial => AloneIn(address_session'),
           NEW t \in Threads, \/ Delivery!CreateAddress(t) \/ Delivery!UpdateAddress(t)
                              \/ Delivery!DeleteAddress(t)
    PROVE  AddressesInv' /\ (Serial => Delivery!AskedStep)
  <1>1. PICK s \in AddressRequest : s = address_session[t]
    BY DEF AddressesInv, AddressesTyped
  <1>2. PICK idle : idle = Delivery!IdleRequest
    OBVIOUS
  <1>3. idle \in AddressRequest /\ idle.stage = "idle" /\ idle.id = 0
    BY <1>2 DEF Delivery!IdleRequest, Delivery!Request, AddressRequest, AddressStages
  <1>4. Delivery!Goto(t, idle) /\ s.stage \in {"write", "delete"}
    BY <1>1, <1>2 DEF Delivery!CreateAddress, Delivery!UpdateAddress, Delivery!DeleteAddress
  <1>5. AddressKnown(idle)'
    BY <1>3 DEF AddressKnown
  <1>6. Len(addresses) \in Nat /\ DOMAIN addresses = 1 .. Len(addresses)
    BY TableIs DEF AddressesInv, AddressesTyped
  <1>7. ASSUME NEW n, IsTable(addresses'), Len(addresses') = n, n \in Nat, n >= Len(addresses),
               \A i \in 1 .. n : addresses'[i] \in AddressRow,
               Serial => \A i, j \in Default' : i = j
        PROVE  AddressesInv'
    <2>1. \A i \in DOMAIN addresses' : addresses'[i] \in AddressRow
      BY <1>7, TableIs
    <2>2. idle.id \in 0 .. Len(addresses') /\ Len(addresses') >= Len(addresses)
      BY <1>3, <1>7
    <2>3. address_session[t].stage # "idle"
      BY <1>1, <1>4
    <2> QED
      BY <1>3, <1>4, <1>5, <1>7, <2>1, <2>2, <2>3, AddressStep
  <1>8. ASSUME Serial, NEW u \in Threads, u # t
        PROVE  address_session[u].stage # "write"
    BY <1>1, <1>4, <1>8 DEF AddressesInv, AddressesSerial, AloneIn
  <1>9. PICK cleared : cleared = Delivery!AfterClearing(s)
    OBVIOUS
  <1>10. /\ IsTable(cleared) /\ Len(cleared) = Len(addresses)
         /\ DOMAIN cleared = DOMAIN addresses
         /\ \A i \in DOMAIN addresses :
              /\ cleared[i] \in AddressRow /\ cleared[i].deleted = addresses[i].deleted
              /\ cleared[i].is_default = (addresses[i].is_default /\ i \notin s.cleared)
         /\ s.cleared = {} => cleared = addresses
    BY <1>6, <1>9, ClearedRows DEF AddressesInv
  <1>11. ASSUME NEW id, NEW flag \in BOOLEAN, s.stage = "write", IsTable(addresses'),
                Len(addresses') \in Nat, Len(addresses') >= Len(addresses),
                s.id = 0 \/ s.id \in Delivery!Stored,
                id = IF s.id = 0 THEN Len(addresses) + 1 ELSE s.id,
                s.id = 0 => Len(addresses') = id,
                DOMAIN addresses' = DOMAIN addresses \union {id},
                \A i \in DOMAIN addresses \ {id} : addresses'[i] = cleared[i],
                addresses'[id] \in AddressRow, addresses'[id].is_default = flag,
                ~addresses'[id].deleted,
                flag => s.asked \/ ~Serial,
                Serial /\ s.asked => \/ flag
                                     \/ /\ s.cleared = {} /\ id \in DOMAIN addresses
                                        /\ flag = addresses[id].is_default
         PROVE  AddressesInv' /\ (Serial => Delivery!AskedStep)
    <2>1. DOMAIN addresses' = 1 .. Len(addresses')
      BY <1>11, TableIs
    <2>3. \A i \in DOMAIN addresses \ {id} :
                /\ addresses'[i].deleted = addresses[i].deleted
                /\ addresses'[i].is_default = (addresses[i].is_default /\ i \notin s.cleared)
      BY <1>10, <1>11
    <2>4. Serial => /\ \A i, j \in Default' : i = j
                    /\ s.asked => addresses'[id].is_default
      BY <1>1, <1>11, <2>3, FlagsAfter
    <2>5. \A i \in 1 .. Len(addresses') : addresses'[i] \in AddressRow
      BY <1>10, <1>11, <2>1
    <2>6. AddressesInv'
      BY <1>7, <1>11, <2>4, <2>5
    <2>7. ASSUME Serial, NEW u \in Threads,
                 address_session[u].stage = "write", address_session[u].asked
          PROVE  addresses'[IF address_session[u].id = 0 THEN Len(addresses')
                                                         ELSE address_session[u].id].is_default
      BY <1>1, <1>8, <1>11, <2>4, <2>7
    <2> QED
      BY <2>6, <2>7 DEF Delivery!AskedStep
  <1>12. CASE Delivery!CreateAddress(t)
    <2>1. PICK row : row = [is_default |-> s.asked, deleted |-> FALSE]
      OBVIOUS
    <2>2. PICK flag \in BOOLEAN : flag = s.asked
      BY DEF AddressRequest
    <2>3. addresses' = WithRow(cleared, row) /\ s.stage = "write" /\ s.id = 0
      BY <1>1, <1>9, <1>12, <2>1 DEF Delivery!CreateAddress, WithRow
    <2>4. /\ IsTable(addresses') /\ Len(addresses') = Len(addresses) + 1
          /\ DOMAIN addresses' = 1 .. Len(addresses) + 1
          /\ \A i \in DOMAIN addresses : addresses'[i] = cleared[i]
          /\ addresses'[Len(addresses) + 1] = row
      BY <1>10, <2>3, AppendRow
    <2>5. PICK id : id = Len(addresses) + 1
      OBVIOUS
    <2>6. /\ id = IF s.id = 0 THEN Len(addresses) + 1 ELSE s.id
          /\ DOMAIN addresses' = DOMAIN addresses \union {id}
          /\ Len(addresses') \in Nat /\ Len(addresses') >= Len(addresses) /\ Len(addresses') = id
      BY <1>6, <2>3, <2>4, <2>5
    <2>7. /\ addresses'[id] \in AddressRow /\ addresses'[id].is_default = flag
          /\ ~addresses'[id].deleted
      <3>1. row = [is_default |-> flag, deleted |-> FALSE]
        BY <2>1, <2>2
      <3>2. row \in AddressRow /\ row.is_default = flag /\ ~row.deleted
        BY <3>1 DEF AddressRow
      <3> QED
        BY <2>4, <2>5, <3>2
    <2>8. \A i \in DOMAIN addresses \ {id} : addresses'[i] = cleared[i]
      BY <2>4
    <2>9. (flag => s.asked) /\ (s.asked => flag)
      BY <2>2
    <2> QED
      BY <1>11, <2>3, <2>4, <2>6, <2>7, <2>8, <2>9
  <1>13. CASE Delivery!UpdateAddress(t)
    <2>1. s.stage = "write" /\ s.id \in Delivery!Stored /\ s.id # 0 /\ s.id \in DOMAIN addresses
      BY <1>1, <1>6, <1>13 DEF Delivery!UpdateAddress, Delivery!Stored
    <2>2. PICK old \in AddressRow : old = cleared[s.id]
      BY <1>10, <2>1
    <2>3. PICK flag \in BOOLEAN : flag = IF s.asked # s.loaded THEN s.asked ELSE old.is_default
      BY <2>2 DEF AddressRow, AddressRequest
    <2>4. PICK row : row = [old EXCEPT !.is_default = flag]
      OBVIOUS
    <2>5. ~old.deleted
      BY <1>10, <2>1, <2>2 DEF Delivery!Stored
    <2>6. row \in AddressRow /\ row.is_default = flag /\ ~row.deleted
      BY <2>4, <2>5 DEF AddressRow
    <2>7. addresses' = Changed(cleared, s.id, row)
      <3>1. addresses' = [cleared EXCEPT
                ![s.id] = [cleared[s.id] EXCEPT !.is_default =
                    IF s.asked # s.loaded THEN s.asked ELSE cleared[s.id].is_default]]
        BY <1>1, <1>9, <1>13 DEF Delivery!UpdateAddress
      <3> QED
        BY <2>2, <2>3, <2>4, <3>1 DEF Changed
    <2>8. /\ IsTable(addresses') /\ Len(addresses') = Len(addresses)
          /\ DOMAIN addresses' = DOMAIN addresses
          /\ \A i \in DOMAIN addresses : addresses'[i] = IF i = s.id THEN row ELSE cleared[i]
      BY <1>10, <2>7, ChangeRow
    <2>9. ASSUME Serial
          PROVE  /\ flag => s.asked
                 /\ s.asked => \/ flag
                               \/ s.cleared = {} /\ flag = addresses[s.id].is_default
      <3>1. AddressKnown(s)
        BY <1>1, <2>9 DEF AddressesInv, AddressesSerial
      <3>2. old.is_default = (addresses[s.id].is_default /\ s.id \notin s.cleared)
        BY <1>10, <2>1, <2>2
      <3> QED
        BY <2>1, <2>3, <3>1, <3>2 DEF AddressKnown
    <2> QED
      BY <1>6, <1>11, <2>1, <2>3, <2>6, <2>8, <2>9
  <1>14. CASE Delivery!DeleteAddress(t)
    <2>1. s.stage = "delete" /\ s.id \in Delivery!Stored /\ s.id \in DOMAIN addresses
      BY <1>1, <1>14 DEF Delivery!DeleteAddress, Delivery!Stored
    <2>2. PICK old \in AddressRow : old = addresses[s.id]
      BY <2>1 DEF AddressesInv, AddressesTyped
    <2>3. PICK row : row = [old EXCEPT !.deleted = TRUE]
      OBVIOUS
    <2>4. row \in AddressRow /\ row.deleted
      BY <2>3 DEF AddressRow
    <2>5. addresses' = Changed(addresses, s.id, row)
      <3>1. addresses' = [addresses EXCEPT ![s.id] = [addresses[s.id] EXCEPT !.deleted = TRUE]]
        BY <1>1, <1>14 DEF Delivery!DeleteAddress
      <3> QED
        BY <2>2, <2>3, <3>1 DEF Changed
    <2>6. /\ IsTable(addresses') /\ Len(addresses') = Len(addresses)
          /\ DOMAIN addresses' = DOMAIN addresses
          /\ \A i \in DOMAIN addresses : addresses'[i] = IF i = s.id THEN row ELSE addresses[i]
      BY <2>5, ChangeRow DEF AddressesInv, AddressesTyped
    <2>7. \A i \in 1 .. Len(addresses) : addresses'[i] \in AddressRow
      BY <1>6, <2>4, <2>6 DEF AddressesInv, AddressesTyped
    <2>8. \A i \in Default' : i \in Default
      BY <2>4, <2>6 DEF Default, Delivery!Stored
    <2>9. AddressesInv'
      BY <1>6, <1>7, <2>6, <2>7, <2>8 DEF AddressesInv, AddressesSerial
    <2>10. Serial => \A u \in Threads : address_session[u].stage # "write"
      BY <1>1, <1>8, <2>1
    <2> QED
      BY <2>9, <2>10 DEF Delivery!AskedStep
  <1> QED
    BY <1>12, <1>13, <1>14
\* A step of the addresses, or of something else.
LEMMA AddressesKept ==
    ASSUME AddressesInv, [MCNext]_<<eventVars, NotEvents>>
    PROVE  AddressesInv' /\ [Serial => Delivery!AskedStep]_deliveryVars
  <1>1. workload' = workload
    BY WorkloadStays
  <1>2. CASE UNCHANGED deliveryVars
    BY <1>1, <1>2 DEF AddressesInv, AddressesTyped, AddressesSerial, AloneIn, AddressKnown,
                      Default, Delivery!Stored, Serial, deliveryVars
  <1>3. CASE Delivery!Next /\ (Serial => AloneIn(address_session'))
    <2>1. PICK t \in Threads :
            \/ Delivery!BeginSome(t) \/ Delivery!FindDefaults(t) \/ Delivery!ClearDefault(t)
            \/ Delivery!Rollback(t)
            \/ Delivery!CreateAddress(t) \/ Delivery!UpdateAddress(t) \/ Delivery!DeleteAddress(t)
      BY <1>3 DEF Delivery!Next
    <2>2. CASE \/ Delivery!BeginSome(t) \/ Delivery!FindDefaults(t) \/ Delivery!ClearDefault(t)
               \/ Delivery!Rollback(t)
      BY <1>1, <1>3, <2>2, AddressReads DEF Delivery!AskedStep
    <2>3. CASE \/ Delivery!CreateAddress(t) \/ Delivery!UpdateAddress(t)
               \/ Delivery!DeleteAddress(t)
      BY <1>1, <1>3, <2>3, AddressWrites
    <2> QED
      BY <2>1, <2>2, <2>3
  <1> QED
    BY <1>2, <1>3, AddressSteps

-----------------------------------------------------------------------------
\* Settings.  No row changes its key or its branch, and the unique constraint admits one
\* row of a key and a branch; of the whole organization, one request at a time finds it.

SettingRow == [key : Keys, branch : Preferences!Scopes, value : Values]
SettingRequest ==
    [stage : {"idle", "write"}, key : Keys \union {Null}, branch : Preferences!Scopes,
     value : Values \union {Null}, row : Nat]

SettingsTyped ==
    /\ IsTable(settings)
    /\ \A i \in DOMAIN settings : settings[i] \in SettingRow
    /\ settings_session \in [Threads -> SettingRequest]
    /\ \A t \in Threads : settings_session[t].row \in 0 .. Len(settings)
    /\ wanted = [p \in Keys \X Preferences!Scopes |-> wanted[p]]

SettingAsked(s) ==
    s.stage = "write" =>
        /\ s.key \in Keys /\ s.value \in Values
        /\ s.row # 0 => settings[s.row].key = s.key /\ settings[s.row].branch = s.branch

SameSetting(i, j) == settings[i].key = settings[j].key /\ settings[i].branch = settings[j].branch

BranchRowsDiffer ==
    \A i, j \in DOMAIN settings : SameSetting(i, j) /\ settings[i].branch # Null => i = j

\* One request at a time.
RowsDiffer == \A i, j \in DOMAIN settings : SameSetting(i, j) => i = j

NothingFound(s) == s.stage = "write" /\ s.row = 0 => Preferences!Matches(s.key, s.branch) = {}

WantedIsStored ==
    \A k \in Keys, b \in Preferences!Scopes :
        /\ \A i \in Preferences!Matches(k, b) : wanted[<<k, b>>] = settings[i].value
        /\ Preferences!Matches(k, b) = {} => wanted[<<k, b>>] = Null

SettingsSerial ==
    /\ AloneIn(settings_session) /\ RowsDiffer /\ WantedIsStored
    /\ \A t \in Threads : NothingFound(settings_session[t])

SettingsInv ==
    /\ SettingsTyped /\ BranchRowsDiffer /\ \A t \in Threads : SettingAsked(settings_session[t])
    /\ Serial => SettingsSerial

\* The steps of the workloads about settings.
LEMMA SettingSteps ==
    [MCNext]_<<eventVars, NotEvents>> =>
        (Preferences!Next /\ (Serial => AloneIn(settings_session'))) \/ UNCHANGED preferenceVars
  <1> SUFFICES ASSUME PreferencesStep, Serial PROVE AloneIn(settings_session')
    BY DEF MCNext, LogStep, GoodsStep, PassStep, PreferencesStep, DeliveryStep, PeopleStep,
           SiteStep, ScriptStep, NotEvents, NotScript
  <1>1. Busy(settings_session') <= 1
    BY DEF PreferencesStep, Within, Serial
  <1> QED
    BY <1>1, NarrowIsAlone

\* Nothing is set at first.
LEMMA InitSettings == Preferences!Init => SettingsInv
  <1> SUFFICES ASSUME Preferences!Init PROVE SettingsInv
    OBVIOUS
  <1>1. settings = <<>> /\ IsTable(settings) /\ DOMAIN settings = {} /\ Len(settings) = 0
    BY EmptyTable DEF Preferences!Init
  <1>2. PICK idle : idle = Preferences!IdleRequest
    OBVIOUS
  <1>3. idle \in SettingRequest /\ idle.stage = "idle" /\ idle.row = 0
    BY <1>2 DEF Preferences!IdleRequest, SettingRequest, Preferences!Scopes
  <1>4. /\ settings_session \in [Threads -> SettingRequest]
        /\ \A t \in Threads : settings_session[t] = idle
    BY <1>2, <1>3 DEF Preferences!Init
  <1>5. wanted = [p \in Keys \X Preferences!Scopes |-> Null]
    BY DEF Preferences!Init
  <1>6. SettingsTyped
    BY <1>1, <1>3, <1>4, <1>5 DEF SettingsTyped
  <1>7. WantedIsStored
    BY <1>1, <1>5 DEF WantedIsStored, Preferences!Matches
  <1> QED
    BY <1>1, <1>3, <1>4, <1>6, <1>7
       DEF SettingsInv, SettingsSerial, AloneIn, NothingFound, SettingAsked, RowsDiffer, BranchRowsDiffer
\* The first match is found, unless there is none.
LEMMA FoundIs ==
    ASSUME SettingsTyped, NEW k, NEW b
    PROVE  /\ Preferences!Found(k, b) = 0 <=> Preferences!Matches(k, b) = {}
           /\ Preferences!Found(k, b) # 0 => Preferences!Found(k, b) \in Preferences!Matches(k, b)
           /\ Preferences!Found(k, b) \in 0 .. Len(settings)
  <1>1. Len(settings) \in Nat /\ DOMAIN settings = 1 .. Len(settings)
    BY TableIs DEF SettingsTyped
  <1>2. CASE Preferences!Matches(k, b) = {}
    BY <1>1, <1>2 DEF Preferences!Found
  <1>3. CASE Preferences!Matches(k, b) # {}
    <2>1. Preferences!Found(k, b) \in Preferences!Matches(k, b)
      BY <1>3 DEF Preferences!Found
    <2>2. Preferences!Matches(k, b) \subseteq 1 .. Len(settings)
      BY <1>1 DEF Preferences!Matches
    <2> QED
      BY <1>1, <1>3, <2>1, <2>2
  <1> QED
    BY <1>2, <1>3

\* A request reads its row, or is rolled back.
LEMMA SettingReads ==
    ASSUME SettingsInv, workload' = workload, Serial => AloneIn(settings_session'),
           NEW t \in Threads,
           \/ \E k \in Keys, b \in Preferences!Scopes, v \in Values : Preferences!LoadSetting(t, k, b, v)
           \/ Preferences!Rollback(t)
    PROVE  SettingsInv'
  <1>1. UNCHANGED <<settings, wanted>>
    BY DEF Preferences!LoadSetting, Preferences!Rollback
  <1>2. PICK s \in SettingRequest :
            /\ settings_session' = [settings_session EXCEPT ![t] = s]
            /\ s.row \in 0 .. Len(settings) /\ SettingAsked(s) /\ NothingFound(s)
    <2>1. CASE Preferences!Rollback(t)
      <3>1. PICK idle : idle = Preferences!IdleRequest
        OBVIOUS
      <3>2. idle \in SettingRequest /\ idle.stage = "idle" /\ idle.row = 0
        BY <3>1 DEF Preferences!IdleRequest, SettingRequest, Preferences!Scopes
      <3>3. idle.row \in 0 .. Len(settings) /\ SettingAsked(idle) /\ NothingFound(idle)
        BY <3>2, TableIs DEF SettingAsked, NothingFound, SettingsInv, SettingsTyped
      <3>4. settings_session' = [settings_session EXCEPT ![t] = idle]
        BY <2>1, <3>1 DEF Preferences!Rollback
      <3> QED
        BY <3>2, <3>3, <3>4
    <2>2. ASSUME NEW k \in Keys, NEW b \in Preferences!Scopes, NEW v \in Values,
                 Preferences!LoadSetting(t, k, b, v)
          PROVE  \E s \in SettingRequest :
                    /\ settings_session' = [settings_session EXCEPT ![t] = s]
                    /\ s.row \in 0 .. Len(settings) /\ SettingAsked(s) /\ NothingFound(s)
      <3>1. PICK row : row = Preferences!Found(k, b)
        OBVIOUS
      <3>2. /\ row \in 0 .. Len(settings)
            /\ row = 0 => Preferences!Matches(k, b) = {}
            /\ row # 0 => row \in Preferences!Matches(k, b)
        BY <3>1, FoundIs DEF SettingsInv
      <3>3. PICK s : s = [stage |-> "write", key |-> k, branch |-> b, value |-> v, row |-> row]
        OBVIOUS
      <3>4. row \in Nat
        BY <3>2, TableIs DEF SettingsInv, SettingsTyped
      <3>5. /\ s \in SettingRequest /\ s.key = k /\ s.branch = b /\ s.value = v /\ s.row = row
        BY <3>3, <3>4 DEF SettingRequest
      <3>6. SettingAsked(s) /\ NothingFound(s)
        BY <3>2, <3>5 DEF SettingAsked, NothingFound, Preferences!Matches
      <3>7. settings_session' = [settings_session EXCEPT ![t] = s]
        BY <2>2, <3>1, <3>3 DEF Preferences!LoadSetting, Preferences!FoundForUpdate
      <3> QED
        BY <3>2, <3>5, <3>6, <3>7
    <2> QED
      BY <2>1, <2>2
  <1>3. \A u \in Threads : settings_session'[u] = IF u = t THEN s ELSE settings_session[u]
    BY <1>2 DEF SettingsInv, SettingsTyped
  <1>4. SettingsTyped'
    BY <1>1, <1>2, <1>3 DEF SettingsInv, SettingsTyped
  <1>5. BranchRowsDiffer'
    BY <1>1 DEF SettingsInv, BranchRowsDiffer, SameSetting
  <1>6. ASSUME NEW u \in Threads
        PROVE  SettingAsked(settings_session[u])'
    <2>1. SettingAsked(settings_session'[u])
      BY <1>2, <1>3 DEF SettingsInv
    <2> QED
      BY <1>1, <2>1 DEF SettingAsked
  <1>7. ASSUME Serial, NEW u \in Threads
        PROVE  NothingFound(settings_session[u])'
    <2>1. NothingFound(settings_session'[u])
      BY <1>2, <1>3, <1>7 DEF SettingsInv, SettingsSerial
    <2> QED
      BY <1>1, <2>1 DEF NothingFound, Preferences!Matches
  <1>8. Serial => (RowsDiffer /\ WantedIsStored)'
    BY <1>1 DEF SettingsInv, SettingsSerial, RowsDiffer, WantedIsStored, SameSetting, Preferences!Matches
  <1> QED
    BY <1>4, <1>5, <1>6, <1>7, <1>8 DEF SettingsInv, SettingsSerial, Serial
SettingAnswered(t, s) ==
    /\ settings_session' = [settings_session EXCEPT ![t] = Preferences!IdleRequest]
    /\ wanted' = [wanted EXCEPT ![<<s.key, s.branch>>] = s.value]

SettingOf(s) == [key |-> s.key, branch |-> s.branch, value |-> s.value]

\* What a write of one request leaves: its row is there, with the value, and the others
\* are what they were.
LEMMA SettingWritten ==
    ASSUME SettingsInv, workload' = workload, Serial => AloneIn(settings_session'),
           NEW t \in Threads, NEW s \in SettingRequest, s = settings_session[t], s.stage = "write",
           SettingAnswered(t, s),
           NEW k, k \in DOMAIN settings',
           IsTable(settings'), Len(settings') \in Nat, Len(settings') >= Len(settings),
           DOMAIN settings' = DOMAIN settings \union {k},
           \A i \in DOMAIN settings : i # k => settings'[i] = settings[i],
           settings'[k] = SettingOf(s),
           k \in DOMAIN settings => settings[k].key = s.key /\ settings[k].branch = s.branch,
           k \notin DOMAIN settings => s.branch = Null \/ Preferences!Matches(s.key, s.branch) = {},
           k \notin DOMAIN settings /\ Serial => Preferences!Matches(s.key, s.branch) = {}
    PROVE  SettingsInv'
  <1>1. s.key \in Keys /\ s.branch \in Preferences!Scopes /\ s.value \in Values
    BY DEF SettingsInv, SettingAsked, SettingRequest
  <1>2. PICK idle : idle = Preferences!IdleRequest
    OBVIOUS
  <1>3. idle \in SettingRequest /\ idle.stage = "idle" /\ idle.row = 0
    BY <1>2 DEF Preferences!IdleRequest, SettingRequest, Preferences!Scopes
  <1>4. \A u \in Threads : settings_session'[u] = IF u = t THEN idle ELSE settings_session[u]
    BY <1>2 DEF SettingsInv, SettingsTyped, SettingAnswered
  <1>5. /\ Len(settings) \in Nat /\ DOMAIN settings = 1 .. Len(settings)
    BY TableIs DEF SettingsInv, SettingsTyped
  <1>6. settings'[k] \in SettingRow /\ settings'[k].key = s.key /\ settings'[k].branch = s.branch
        /\ settings'[k].value = s.value
    BY <1>1 DEF SettingRow, SettingOf
  <1>7. \A i \in DOMAIN settings' : settings'[i] \in SettingRow
    BY <1>6 DEF SettingsInv, SettingsTyped
  <1>8. \A i \in DOMAIN settings :
            settings'[i].key = settings[i].key /\ settings'[i].branch = settings[i].branch
    BY <1>6
  <1>9. SettingsTyped'
    <2>1. settings_session' \in [Threads -> SettingRequest]
      BY <1>2, <1>3 DEF SettingsInv, SettingsTyped, SettingAnswered
    <2>2. ASSUME NEW u \in Threads
          PROVE  settings_session'[u].row \in 0 .. Len(settings')
      BY <1>3, <1>4, <1>5 DEF SettingsInv, SettingsTyped
    <2>3. wanted' = [p \in Keys \X Preferences!Scopes |-> wanted'[p]]
      BY DEF SettingsInv, SettingsTyped, SettingAnswered
    <2> QED
      BY <1>7, <2>1, <2>2, <2>3 DEF SettingsTyped
  <1>10. BranchRowsDiffer'
    <2>1. ASSUME NEW i \in DOMAIN settings, k \notin DOMAIN settings, s.branch # Null
          PROVE  ~(settings[i].key = s.key /\ settings[i].branch = s.branch)
      BY <2>1 DEF Preferences!Matches
    <2> QED
      BY <1>6, <1>8, <2>1 DEF SettingsInv, BranchRowsDiffer, SameSetting
  <1>11. ASSUME NEW u \in Threads
         PROVE  SettingAsked(settings_session[u])'
    <2>1. CASE u = t
      BY <1>3, <1>4, <2>1 DEF SettingAsked
    <2>2. CASE u # t
      <3>1. SettingAsked(settings_session[u]) /\ settings_session'[u] = settings_session[u]
        BY <1>4, <2>2 DEF SettingsInv
      <3>2. settings_session[u].row # 0 => settings_session[u].row \in DOMAIN settings
        BY <1>5 DEF SettingsInv, SettingsTyped
      <3> QED
        BY <1>8, <3>1, <3>2 DEF SettingAsked
    <2> QED
      BY <2>1, <2>2
  <1>12. ASSUME Serial
         PROVE  SettingsSerial'
    <2>1. \A u \in Threads : NothingFound(settings_session[u])'
      <3>1. \A u \in Threads : settings_session'[u].stage = "idle"
        BY <1>3, <1>4, <1>12 DEF SettingsInv, SettingsSerial, AloneIn
      <3> QED
        BY <3>1 DEF NothingFound
    <2>2. ASSUME NEW i \in DOMAIN settings, k \notin DOMAIN settings
          PROVE  ~(settings[i].key = s.key /\ settings[i].branch = s.branch)
      BY <1>12, <2>2 DEF Preferences!Matches
    <2>3. RowsDiffer'
      BY <1>6, <1>8, <1>12, <2>2 DEF SettingsInv, SettingsSerial, RowsDiffer, SameSetting
    <2>4. ASSUME NEW a \in Keys, NEW b \in Preferences!Scopes
          PROVE  /\ \A i \in Preferences!Matches(a, b)' : wanted'[<<a, b>>] = settings'[i].value
                 /\ Preferences!Matches(a, b)' = {} => wanted'[<<a, b>>] = Null
      <3>1. <<a, b>> = <<s.key, s.branch>> <=> a = s.key /\ b = s.branch
        OBVIOUS
      <3>2. wanted'[<<a, b>>] = IF a = s.key /\ b = s.branch THEN s.value ELSE wanted[<<a, b>>]
        BY <3>1 DEF SettingsInv, SettingsTyped, SettingAnswered
      <3>3. CASE a = s.key /\ b = s.branch
        <4>1. k \in Preferences!Matches(a, b)'
          BY <1>6, <3>3 DEF Preferences!Matches
        <4>2. ASSUME NEW i \in Preferences!Matches(a, b)'
              PROVE  i = k
          BY <1>6, <2>3, <3>3 DEF Preferences!Matches, RowsDiffer, SameSetting
        <4> QED
          BY <1>6, <3>2, <3>3, <4>1, <4>2
      <3>4. CASE ~(a = s.key /\ b = s.branch)
        <4>1. Preferences!Matches(a, b)' = Preferences!Matches(a, b)
          BY <1>6, <1>8, <3>4 DEF Preferences!Matches
        <4>2. k \notin Preferences!Matches(a, b)'
          BY <1>6, <3>4 DEF Preferences!Matches
        <4>3. \A i \in Preferences!Matches(a, b) : settings'[i] = settings[i]
          BY <4>1, <4>2 DEF Preferences!Matches
        <4> QED
          BY <1>12, <3>2, <3>4, <4>1, <4>3 DEF SettingsInv, SettingsSerial, WantedIsStored
      <3> QED
        BY <3>3, <3>4
    <2> QED
      BY <1>12, <2>1, <2>3, <2>4 DEF SettingsSerial, WantedIsStored
  <1> QED
    BY <1>9, <1>10, <1>11, <1>12 DEF SettingsInv, Serial

\* A setting is written.
LEMMA SettingWrites ==
    ASSUME SettingsInv, workload' = workload, Serial => AloneIn(settings_session'),
           NEW t \in Threads, Preferences!UpdateSetting(t)
    PROVE  SettingsInv'
  <1>1. PICK s \in SettingRequest : s = settings_session[t]
    BY DEF SettingsInv, SettingsTyped
  <1>2. /\ s.stage = "write" /\ SettingAsked(s) /\ s.row \in 0 .. Len(settings)
        /\ SettingAnswered(t, s)
    BY <1>1 DEF Preferences!UpdateSetting, SettingsInv, SettingsTyped, SettingAnswered
  <1>3. IsTable(settings) /\ Len(settings) \in Nat /\ DOMAIN settings = 1 .. Len(settings)
    BY TableIs DEF SettingsInv, SettingsTyped
  <1>4. PICK row : row = SettingOf(s)
    OBVIOUS
  <1>5. CASE s.row = 0
    <2>1. /\ s.branch = Null \/ Preferences!Matches(s.key, s.branch) = {}
          /\ settings' = WithRow(settings, row)
      BY <1>1, <1>4, <1>5 DEF Preferences!UpdateSetting, Preferences!Admitted, WithRow, SettingOf
    <2>2. PICK k : k = Len(settings) + 1
      OBVIOUS
    <2>3. /\ IsTable(settings') /\ Len(settings') = k /\ DOMAIN settings' = 1 .. k
          /\ \A i \in DOMAIN settings : settings'[i] = settings[i]
          /\ settings'[k] = row
      BY <1>3, <2>1, <2>2, AppendRow
    <2>4. /\ k \in DOMAIN settings' /\ DOMAIN settings' = DOMAIN settings \union {k}
          /\ k \notin DOMAIN settings /\ Len(settings') \in Nat /\ Len(settings') >= Len(settings)
      BY <1>3, <2>2, <2>3
    <2>5. Serial => Preferences!Matches(s.key, s.branch) = {}
      BY <1>1, <1>2, <1>5 DEF SettingsInv, SettingsSerial, NothingFound
    <2> QED
      BY <1>1, <1>2, <1>4, <2>1, <2>3, <2>4, <2>5, SettingWritten
  <1>6. CASE s.row # 0
    <2>1. s.row \in DOMAIN settings /\ settings[s.row].key = s.key /\ settings[s.row].branch = s.branch
      BY <1>2, <1>3, <1>6 DEF SettingAsked
    <2>2. PICK old \in SettingRow : old = settings[s.row]
      BY <2>1 DEF SettingsInv, SettingsTyped
    <2>3. [old EXCEPT !.value = s.value] = row
      BY <1>4, <2>1, <2>2 DEF SettingRow, SettingOf
    <2>4. settings' = Changed(settings, s.row, row)
      <3>1. settings' = [settings EXCEPT ![s.row] = [settings[s.row] EXCEPT !.value = s.value]]
        BY <1>1, <1>6 DEF Preferences!UpdateSetting
      <3> QED
        BY <2>2, <2>3, <3>1 DEF Changed
    <2>5. /\ IsTable(settings') /\ Len(settings') = Len(settings)
          /\ DOMAIN settings' = DOMAIN settings
          /\ \A i \in DOMAIN settings : settings'[i] = IF i = s.row THEN row ELSE settings[i]
      BY <1>3, <2>4, ChangeRow
    <2>6. /\ s.row \in DOMAIN settings' /\ DOMAIN settings' = DOMAIN settings \union {s.row}
          /\ Len(settings') \in Nat /\ Len(settings') >= Len(settings)
          /\ settings'[s.row] = row
          /\ \A i \in DOMAIN settings : i # s.row => settings'[i] = settings[i]
      BY <1>3, <2>1, <2>5
    <2> QED
      BY <1>1, <1>2, <1>4, <2>1, <2>5, <2>6, SettingWritten
  <1> QED
    BY <1>5, <1>6
\* A step of the settings, or of something else.
LEMMA SettingsKept == SettingsInv /\ [MCNext]_<<eventVars, NotEvents>> => SettingsInv'
  <1> SUFFICES ASSUME SettingsInv, [MCNext]_<<eventVars, NotEvents>> PROVE SettingsInv'
    OBVIOUS
  <1>1. workload' = workload
    BY WorkloadStays
  <1>2. CASE UNCHANGED preferenceVars
    <2>1. UNCHANGED <<settings, wanted, settings_session>>
      BY <1>2 DEF preferenceVars
    <2>2. SettingsTyped' /\ BranchRowsDiffer' /\ (AloneIn(settings_session) => AloneIn(settings_session'))
      BY <2>1 DEF SettingsInv, SettingsTyped, BranchRowsDiffer, SameSetting, AloneIn
    <2>3. \A t \in Threads : SettingAsked(settings_session[t])'
      BY <2>1 DEF SettingsInv, SettingAsked
    <2>4. Serial => (RowsDiffer /\ WantedIsStored)'
      BY <2>1 DEF SettingsInv, SettingsSerial, RowsDiffer, WantedIsStored, SameSetting, Preferences!Matches
    <2>5. Serial => \A t \in Threads : NothingFound(settings_session[t])'
      BY <2>1 DEF SettingsInv, SettingsSerial, NothingFound, Preferences!Matches
    <2> QED
      BY <1>1, <2>1, <2>2, <2>3, <2>4, <2>5 DEF SettingsInv, SettingsSerial, AloneIn, Serial
  <1>3. CASE Preferences!Next /\ (Serial => AloneIn(settings_session'))
    <2>1. PICK t \in Threads :
            \/ \E k \in Keys, b \in Preferences!Scopes, v \in Values : Preferences!LoadSetting(t, k, b, v)
            \/ Preferences!Rollback(t)
            \/ Preferences!UpdateSetting(t)
      BY <1>3 DEF Preferences!Next
    <2> QED
      BY <1>1, <1>3, <2>1, SettingReads, SettingWrites
  <1> QED
    BY <1>2, <1>3, SettingSteps

\* One row at most is found, and its value is what was asked for last.
LEMMA SettingsMean ==
    ASSUME SettingsInv
    PROVE  /\ Preferences!BranchSettingsReadable
           /\ Serial => Preferences!ReadsWhatWasSet
  <1>1. ASSUME NEW k \in Keys, NEW b \in Branches
        PROVE  Preferences!Cardinality(Preferences!Matches(k, b)) <= 1
    <2>1. b # Null
      BY NullIsNoValue
    <2>2. \A i, j \in Preferences!Matches(k, b) : i = j
      BY <2>1 DEF SettingsInv, BranchRowsDiffer, SameSetting, Preferences!Matches
    <2> QED
      BY <2>2, AtMostOne DEF Preferences!Cardinality, Cardinality
  <1>2. ASSUME Serial, NEW k \in Keys, NEW b \in Preferences!Scopes
        PROVE  Preferences!EffectiveSetting(k, b) =
                   IF wanted[<<k, b>>] # Null THEN wanted[<<k, b>>] ELSE wanted[<<k, Null>>]
    <2>1. ASSUME NEW c \in Preferences!Scopes
          PROVE  /\ Preferences!Found(k, c) = 0 <=> wanted[<<k, c>>] = Null
                 /\ Preferences!Found(k, c) # 0 =>
                        settings[Preferences!Found(k, c)].value = wanted[<<k, c>>]
      <3>1. /\ \A i \in Preferences!Matches(k, c) : wanted[<<k, c>>] = settings[i].value
            /\ Preferences!Matches(k, c) = {} => wanted[<<k, c>>] = Null
        BY <1>2 DEF SettingsInv, SettingsSerial, WantedIsStored
      <3>2. \A i \in Preferences!Matches(k, c) : settings[i].value # Null
        BY NullIsNoValue DEF Preferences!Matches, SettingsInv, SettingsTyped, SettingRow
      <3> QED
        BY <3>1, <3>2, FoundIs DEF SettingsInv
    <2>2. Null \in Preferences!Scopes
      BY DEF Preferences!Scopes
    <2> QED
      BY <2>1, <2>2 DEF Preferences!EffectiveSetting
  <1> QED
    BY <1>1, <1>2 DEF Preferences!BranchSettingsReadable, Preferences!ReadsWhatWasSet

(* Whatever overlaps, a branch has one row of a setting at most; one        *)
(* request at a time, the value last set is what is read, and a customer    *)
(* has one default address at most (settings, customer_addresses).          *)
THEOREM OneRowIsRead == MCFairSpec => []ReadersFindOneRow
  <1>1. MCInit => SettingsInv /\ AddressesInv
    BY InitSettings, InitAddresses DEF MCInit
  <1>2. SettingsInv /\ AddressesInv => ReadersFindOneRow
    <2> SUFFICES ASSUME SettingsInv, AddressesInv PROVE ReadersFindOneRow
      OBVIOUS
    <2>1. ASSUME Serial
          PROVE  Delivery!OneDefault
      <3>1. \A i, j \in Default : i = j
        BY <2>1 DEF AddressesInv, AddressesSerial
      <3>2. Cardinality(Default) <= 1
        BY <3>1, AtMostOne
      <3> QED
        BY <3>2 DEF Default, Delivery!OneDefault, Delivery!Cardinality, Cardinality
    <2> QED
      BY <2>1, SettingsMean DEF ReadersFindOneRow
  <1>3. SettingsInv /\ AddressesInv /\ [MCNext]_<<eventVars, NotEvents>> => (SettingsInv /\ AddressesInv)'
    BY SettingsKept, AddressesKept
  <1> QED
    BY <1>1, <1>2, <1>3, PTL DEF MCFairSpec

-----------------------------------------------------------------------------
\* The seed script.

SeedTables == Script!PlainTables \union {"permissions", "roles", "role_permissions", "users", "user_roles"}

SeedKeys ==
    {"seeded", "admin", "ven"} \union Script!SeedUsers \union Roles \union OldRoles
    \union Permissions \union OldPermissions \union RolePermissions

SeedRow == [table : SeedTables, key : SeedKeys, run : Nat]

SeederRecord ==
    [step : 0..14, looked : BOOLEAN, missing : SUBSET SeedRow, own : SUBSET SeedRow, run : Nat]

\* A row of the table with the key is among the rows.
Has(seen, table, key) == \E row \in seen : row.table = table /\ row.key = key

SeedTyped ==
    /\ stored \subseteq SeedRow /\ seeds \in Nat /\ edits \in Nat /\ up_to_date \in BOOLEAN
    /\ seeder \in [Threads -> SeederRecord]
    /\ began \in [Threads -> Nat]

Active(p) == seeder[p].step # 0

\* The runs of the script and the rows they have inserted are told apart by their numbers.
RunsDiffer ==
    /\ \A p \in Threads : Active(p) =>
         /\ seeder[p].run # 0 /\ seeder[p].run <= seeds
         /\ \A row \in seeder[p].own \union seeder[p].missing : row.run = seeder[p].run
         /\ \A row \in stored : row.run # seeder[p].run
    /\ \A p, q \in Threads : Active(p) /\ Active(q) /\ p # q => seeder[p].run # seeder[q].run
    /\ \A row \in stored : row.run <= seeds

\* The table a step inserts into.
TableAt(i) == IF Script!Steps[i] = "missing permissions" THEN "permissions" ELSE Script!Steps[i]

SessionsOpen ==
    \A p \in Threads :
        /\ ~Active(p) => ~seeder[p].looked /\ seeder[p].own = {}
        /\ ~seeder[p].looked => seeder[p].missing = {}
        /\ \A row \in seeder[p].missing : row.table = TableAt(seeder[p].step)
        /\ seeder[p].step = 14 => ~seeder[p].looked
        /\ began[p] <= edits

\* What the script inserts.
Seeded(table, key) ==
    /\ table \in Script!PlainTables => key = "seeded"
    /\ table = "roles" => key \in Roles
    /\ table = "permissions" => key \in Permissions
    /\ table = "role_permissions" => key \in RolePermissions
    /\ table = "users" => key \in {"admin", "ven"}
    /\ table = "user_roles" => key \in Script!SeedUsers

InsertsSeeded(seen) ==
    /\ \A row \in seen : Seeded(row.table, row.key)
    /\ Has(seen, "users", "admin") => Has(seen, "users", "ven")

\* No key is inserted twice, in any table.
KeysApart ==
    /\ \A a, b \in stored : a.table = b.table /\ a.key = b.key => a = b
    /\ \A p \in Threads : \A row \in seeder[p].own :
         /\ ~Has(stored, row.table, row.key)
         /\ \A q \in Threads \ {p} : ~Has(seeder[q].own, row.table, row.key)

HasPlain(seen, table) == Has(seen, table, "seeded")

\* Whoever has the organizations has all the plain tables up to where he is.
PlainTogether ==
    /\ \A row \in stored : row.table \in Script!PlainTables => row.key = "seeded"
    /\ \A table \in Script!PlainTables : HasPlain(stored, table) <=> HasPlain(stored, "organizations")
    /\ \A p \in Threads : Active(p) =>
         /\ \A i \in 1..13 : Script!Steps[i] \in Script!PlainTables =>
              (HasPlain(seeder[p].own, Script!Steps[i])
               <=> i < seeder[p].step /\ HasPlain(seeder[p].own, "organizations"))
         /\ \A table \in Script!PlainTables : HasPlain(seeder[p].missing, table) =>
              /\ table = Script!Steps[seeder[p].step]
              /\ table # "organizations" => HasPlain(seeder[p].own, "organizations")

\* What a step leaves behind, for a run during which nobody edited roles.
Settled(undisturbed, i, seen) ==
    /\ Script!Steps[i] \in Script!PlainTables => HasPlain(seen, Script!Steps[i])
    /\ Script!Steps[i] = "roles" => \A k \in Roles : Has(seen, "roles", k)
    /\ Script!Steps[i] = "missing permissions" => \A k \in Permissions : Has(seen, "permissions", k)
    /\ Script!Steps[i] = "role_permissions" /\ undisturbed =>
         \A k \in RolePermissions : Has(seen, "role_permissions", k)
    /\ Script!Steps[i] = "users" => Has(seen, "users", "ven")

StepsSettled ==
    \A p \in Threads, i \in 1..13 :
        /\ i < seeder[p].step => Settled(began[p] = edits, i, stored \union seeder[p].own)
        /\ i = seeder[p].step /\ seeder[p].looked =>
             Settled(began[p] = edits, i, stored \union seeder[p].own \union seeder[p].missing)

RolesGiven ==
    \A u \in Script!SeedUsers :
        /\ Has(stored, "users", u[1]) => Has(stored, "user_roles", u)
        /\ \A p \in Threads :
             /\ Has(seeder[p].own, "user_roles", u) \/ Has(seeder[p].missing, "user_roles", u) =>
                  Has(seeder[p].own, "users", u[1])
             /\ Has(seeder[p].own, "users", u[1]) =>
                  /\ seeder[p].step > 8 => Has(seeder[p].own, "user_roles", u)
                  /\ seeder[p].step = 8 /\ seeder[p].looked => Has(seeder[p].missing, "user_roles", u)
                  /\ seeder[p].step > 7

CompleteSeed ==
    /\ \A table \in Script!PlainTables : HasPlain(stored, table)
    /\ \A k \in Roles : Has(stored, "roles", k)
    /\ \A k \in Permissions : Has(stored, "permissions", k)
    /\ \A k \in RolePermissions : Has(stored, "role_permissions", k)
    /\ Has(stored, "users", "ven")

SeedInv ==
    /\ SeedTyped /\ RunsDiffer /\ SessionsOpen /\ KeysApart /\ PlainTogether /\ StepsSettled /\ RolesGiven
    /\ \A p \in Threads : InsertsSeeded(seeder[p].own) /\ InsertsSeeded(seeder[p].missing)
    /\ up_to_date => CompleteSeed

-----------------------------------------------------------------------------
\* The steps of the script, by number.
LEMMA StepsAre ==
    /\ \A i \in 1..13 : Script!Steps[i] \in Script!PlainTables \union
         {"permissions", "roles", "missing permissions", "role_permissions", "users", "user_roles"}
    /\ \A i, j \in 1..13 : Script!Steps[i] = Script!Steps[j] => i = j
    /\ Script!Steps[1] = "organizations" /\ Script!Steps[4] = "roles"
    /\ Script!Steps[5] = "missing permissions" /\ Script!Steps[6] = "role_permissions"
    /\ Script!Steps[7] = "users" /\ Script!Steps[8] = "user_roles" /\ Script!Steps[14] = "commit"
    /\ \A table \in Script!PlainTables : \E i \in 1..13 : Script!Steps[i] = table
  <1>1. \A i \in 1..13 :
              \/ i = 1 /\ Script!Steps[i] = "organizations"
              \/ i = 2 /\ Script!Steps[i] = "branches"
              \/ i = 3 /\ Script!Steps[i] = "permissions"
              \/ i = 4 /\ Script!Steps[i] = "roles"
              \/ i = 5 /\ Script!Steps[i] = "missing permissions"
              \/ i = 6 /\ Script!Steps[i] = "role_permissions"
              \/ i = 7 /\ Script!Steps[i] = "users"
              \/ i = 8 /\ Script!Steps[i] = "user_roles"
              \/ i = 9 /\ Script!Steps[i] = "categories"
              \/ i = 10 /\ Script!Steps[i] = "suppliers"
              \/ i = 11 /\ Script!Steps[i] = "products"
              \/ i = 12 /\ Script!Steps[i] = "registers"
              \/ i = 13 /\ Script!Steps[i] = "system_settings"
    <2> TAKE i \in 1..13
    <2>1. i = 1 \/ i = 2 \/ i = 3 \/ i = 4 \/ i = 5 \/ i = 6 \/ i = 7 \/ i = 8 \/ i = 9 \/ i = 10
          \/ i = 11 \/ i = 12 \/ i = 13
      OBVIOUS
    <2>2. /\ Script!Steps[1] = "organizations"
              /\ Script!Steps[2] = "branches"
              /\ Script!Steps[3] = "permissions"
              /\ Script!Steps[4] = "roles"
              /\ Script!Steps[5] = "missing permissions"
              /\ Script!Steps[6] = "role_permissions"
              /\ Script!Steps[7] = "users"
              /\ Script!Steps[8] = "user_roles"
              /\ Script!Steps[9] = "categories"
              /\ Script!Steps[10] = "suppliers"
              /\ Script!Steps[11] = "products"
              /\ Script!Steps[12] = "registers"
              /\ Script!Steps[13] = "system_settings"
      BY DEF Script!Steps
    <2>3. CASE i = 1
      BY <2>3, <2>2
    <2>4. CASE i = 2
      BY <2>4, <2>2
    <2>5. CASE i = 3
      BY <2>5, <2>2
    <2>6. CASE i = 4
      BY <2>6, <2>2
    <2>7. CASE i = 5
      BY <2>7, <2>2
    <2>8. CASE i = 6
      BY <2>8, <2>2
    <2>9. CASE i = 7
      BY <2>9, <2>2
    <2>10. CASE i = 8
      BY <2>10, <2>2
    <2>11. CASE i = 9
      BY <2>11, <2>2
    <2>12. CASE i = 10
      BY <2>12, <2>2
    <2>13. CASE i = 11
      BY <2>13, <2>2
    <2>14. CASE i = 12
      BY <2>14, <2>2
    <2>15. CASE i = 13
      BY <2>15, <2>2
    <2> QED
      BY <2>1, <2>3, <2>4, <2>5, <2>6, <2>7, <2>8, <2>9, <2>10, <2>11, <2>12, <2>13, <2>14, <2>15
  <1>2. /\ Script!Steps[1] = "organizations" /\ Script!Steps[4] = "roles"
        /\ Script!Steps[5] = "missing permissions" /\ Script!Steps[6] = "role_permissions"
        /\ Script!Steps[7] = "users" /\ Script!Steps[8] = "user_roles" /\ Script!Steps[14] = "commit"
    BY DEF Script!Steps
  <1>3. \A i, j \in 1..13 : Script!Steps[i] = Script!Steps[j] => i = j
    <2> DEFINE Place(s) ==
              CASE s = "organizations" -> 1
              [] s = "branches" -> 2
              [] s = "permissions" -> 3
              [] s = "roles" -> 4
              [] s = "missing permissions" -> 5
              [] s = "role_permissions" -> 6
              [] s = "users" -> 7
              [] s = "user_roles" -> 8
              [] s = "categories" -> 9
              [] s = "suppliers" -> 10
              [] s = "products" -> 11
              [] s = "registers" -> 12
              [] s = "system_settings" -> 13
    <2>1. \A i \in 1..13 : Place(Script!Steps[i]) = i
      BY <1>1
    <2> HIDE DEF Place
    <2> QED
      BY <2>1
  <1>4. \A i \in 1..13 : Script!Steps[i] \in Script!PlainTables \union
         {"permissions", "roles", "missing permissions", "role_permissions", "users", "user_roles"}
    BY <1>1 DEF Script!PlainTables
  <1>5. \A table \in Script!PlainTables : \E i \in 1..13 : Script!Steps[i] = table
    <2>1. /\ Script!Steps[1] = "organizations" /\ Script!Steps[2] = "branches"
          /\ Script!Steps[9] = "categories" /\ Script!Steps[10] = "suppliers"
          /\ Script!Steps[11] = "products" /\ Script!Steps[12] = "registers"
          /\ Script!Steps[13] = "system_settings"
      BY DEF Script!Steps
    <2> QED
      BY <2>1 DEF Script!PlainTables
  <1> QED
    BY <1>2, <1>3, <1>4, <1>5

\* Looking for a key among the rows of two sets.
LEMMA HasUnion ==
    ASSUME NEW A, NEW B, NEW table, NEW key
    PROVE  Has(A \union B, table, key) <=> Has(A, table, key) \/ Has(B, table, key)
  BY DEF Has

\* What is found among some rows is found among more.
LEMMA HasMore ==
    ASSUME NEW A, NEW B, A \subseteq B, NEW table, NEW key, Has(A, table, key)
    PROVE  Has(B, table, key)
  BY DEF Has

\* The keys a table has.
LEMMA HasKeys ==
    ASSUME NEW A, NEW table, NEW key
    PROVE  key \in Script!KeysIn(table, A) <=> Has(A, table, key)
  BY DEF Has, Script!KeysIn, Script!In

\* The rows a step inserts are those of its keys.
LEMMA HasRows ==
    ASSUME NEW keys, NEW run, NEW t, NEW table, NEW key
    PROVE  Has(Script!RowsOf(t, keys, run), table, key) <=> table = t /\ key \in keys
  <1>1. ASSUME Has(Script!RowsOf(t, keys, run), table, key) PROVE table = t /\ key \in keys
    <2>1. PICK row \in Script!RowsOf(t, keys, run) : row.table = table /\ row.key = key
      BY <1>1 DEF Has
    <2>2. PICK k \in keys : row = Script!Row(t, k, run)
      BY <2>1 DEF Script!RowsOf
    <2> QED
      BY <2>1, <2>2 DEF Script!Row
  <1>2. ASSUME table = t, key \in keys PROVE Has(Script!RowsOf(t, keys, run), table, key)
    <2>1. Script!Row(t, key, run) \in Script!RowsOf(t, keys, run)
      BY <1>2 DEF Script!RowsOf
    <2>2. Script!Row(t, key, run).table = t /\ Script!Row(t, key, run).key = key
      BY DEF Script!Row
    <2> QED
      BY <1>2, <2>1, <2>2 DEF Has
  <1> QED
    BY <1>1, <1>2

\* A table is empty when no key is there.
LEMMA EmptyHasNone ==
    ASSUME NEW A, NEW table
    PROVE  Script!TableEmpty(table, A) <=> \A row \in A : row.table # table
  BY DEF Script!TableEmpty, Script!In

\* What a step looks for and misses.
Sought(i, seen, run, keys) ==
    /\ Script!Missing(Script!Steps[i], seen, run) = Script!RowsOf(TableAt(i), keys, run)
    /\ \A k \in keys : Seeded(TableAt(i), k)
    /\ \A undisturbed \in BOOLEAN :
         Settled(undisturbed, i, seen \union Script!RowsOf(TableAt(i), keys, run))
    /\ Script!Steps[i] = "users" => ("admin" \in keys => "ven" \in keys)
    /\ Script!Steps[i] = "user_roles" =>
         keys = {u \in Script!SeedUsers : Script!Row("users", u[1], run) \in seen}
    /\ Script!Steps[i] \in Script!PlainTables =>
         ("seeded" \in keys <=> \A row \in seen : row.table # Script!Steps[i])

\* Every step inserts rows of one table, and what it inserts is what was missing.
LEMMA EveryStepSeeks ==
    ASSUME NEW i \in 1..13, NEW seen, NEW run,
           \A row \in seen : row.table \in Script!PlainTables => row.key = "seeded"
    PROVE  \E keys : Sought(i, seen, run, keys)
  <1> DEFINE step == Script!Steps[i]
  <1>1. step \in Script!PlainTables \union
         {"permissions", "roles", "missing permissions", "role_permissions", "users", "user_roles"}
    BY StepsAre
  <1>2. CASE step \in Script!PlainTables
    <2> DEFINE keys == IF Script!TableEmpty(step, seen) THEN {"seeded"} ELSE {}
    <2>1. step \notin {"permissions", "roles", "missing permissions", "role_permissions", "users",
                       "user_roles"}
      BY <1>2 DEF Script!PlainTables
    <2>2. Script!Missing(step, seen, run) = Script!RowsOf(step, keys, run)
      BY <1>2, <2>1 DEF Script!Missing, Script!Filled, Script!RowsOf
    <2>3. HasPlain(seen \union Script!RowsOf(step, keys, run), step)
      <3>1. CASE Script!TableEmpty(step, seen)
        BY <3>1, HasUnion, HasRows DEF HasPlain
      <3>2. CASE ~Script!TableEmpty(step, seen)
        <4>1. Has(seen, step, "seeded")
          BY <3>2, <1>2, EmptyHasNone DEF Has
        <4> QED
          BY <4>1, HasUnion DEF HasPlain
      <3> QED
        BY <3>1, <3>2
    <2>4. \A undisturbed \in BOOLEAN : Settled(undisturbed, i, seen \union Script!RowsOf(step, keys, run))
      BY <2>1, <2>3 DEF Settled
    <2>5. "seeded" \in keys <=> \A row \in seen : row.table # step
      BY EmptyHasNone
    <2>6. TableAt(i) = step /\ \A k \in keys : Seeded(step, k)
      BY <2>1 DEF TableAt, Seeded
    <2> QED
      BY <2>1, <2>2, <2>4, <2>5, <2>6 DEF Sought
  <1>3. CASE step = "permissions"
    <2> DEFINE keys == IF Script!TableEmpty("permissions", seen) THEN Permissions ELSE {}
    <2>1. step \notin Script!PlainTables /\ TableAt(i) = step
      BY <1>3 DEF Script!PlainTables, TableAt
    <2>2. Script!Missing(step, seen, run) = Script!RowsOf(step, keys, run)
      BY <1>3, <2>1 DEF Script!Missing, Script!RowsOf
    <2>3. \A k \in keys : Seeded(step, k)
      BY <1>3, <2>1 DEF Seeded
    <2>4. \A undisturbed \in BOOLEAN : Settled(undisturbed, i, seen \union Script!RowsOf(step, keys, run))
      BY <1>3, <2>1 DEF Settled
    <2> QED
      BY <1>3, <2>1, <2>2, <2>3, <2>4 DEF Sought
  <1>4. CASE step = "roles"
    <2> DEFINE keys == Roles \ Script!KeysIn("roles", seen)
    <2>1. step \notin Script!PlainTables /\ TableAt(i) = step
      BY <1>4 DEF Script!PlainTables, TableAt
    <2>2. Script!Missing(step, seen, run) = Script!RowsOf(step, keys, run)
      BY <1>4, <2>1 DEF Script!Missing
    <2>3. \A k \in keys : Seeded(step, k)
      BY <1>4, <2>1 DEF Seeded
    <2>4. \A k \in Roles : Has(seen \union Script!RowsOf(step, keys, run), "roles", k)
      BY <1>4, HasUnion, HasRows, HasKeys
    <2>5. \A undisturbed \in BOOLEAN : Settled(undisturbed, i, seen \union Script!RowsOf(step, keys, run))
      BY <1>4, <2>1, <2>4 DEF Settled
    <2> QED
      BY <1>4, <2>1, <2>2, <2>3, <2>5 DEF Sought
  <1>5. CASE step = "missing permissions"
    <2> DEFINE keys == Permissions \ Script!KeysIn("permissions", seen)
    <2>1. step \notin Script!PlainTables /\ TableAt(i) = "permissions"
      BY <1>5 DEF Script!PlainTables, TableAt
    <2>2. Script!Missing(step, seen, run) = Script!RowsOf("permissions", keys, run)
      BY <1>5, <2>1 DEF Script!Missing
    <2>3. \A k \in keys : Seeded("permissions", k)
      BY DEF Seeded, Script!PlainTables
    <2>4. \A k \in Permissions : Has(seen \union Script!RowsOf("permissions", keys, run), "permissions", k)
      <3> TAKE k \in Permissions
      <3>1. Has(seen, "permissions", k) \/ k \in keys
        BY HasKeys
      <3> HIDE DEF keys
      <3> QED
        BY <3>1, HasUnion, HasRows
    <2>5. \A undisturbed \in BOOLEAN :
            Settled(undisturbed, i, seen \union Script!RowsOf("permissions", keys, run))
      BY <1>5, <2>1, <2>4 DEF Settled
    <2> QED
      BY <1>5, <2>1, <2>2, <2>3, <2>5 DEF Sought
  <1>6. CASE step = "role_permissions"
    <2> DEFINE keys == RolePermissions \ Script!KeysIn("role_permissions", seen)
    <2>1. step \notin Script!PlainTables /\ TableAt(i) = step
      BY <1>6 DEF Script!PlainTables, TableAt
    <2>2. Script!Missing(step, seen, run) = Script!RowsOf(step, keys, run)
      BY <1>6, <2>1 DEF Script!Missing, Script!Assigned
    <2>3. \A k \in keys : Seeded(step, k)
      BY <1>6, <2>1 DEF Seeded
    <2>4. \A k \in RolePermissions : Has(seen \union Script!RowsOf(step, keys, run), "role_permissions", k)
      <3> TAKE k \in RolePermissions
      <3>1. Has(seen, "role_permissions", k) \/ k \in keys
        BY HasKeys
      <3> HIDE DEF keys
      <3> QED
        BY <1>6, <3>1, HasUnion, HasRows
    <2>5. \A undisturbed \in BOOLEAN : Settled(undisturbed, i, seen \union Script!RowsOf(step, keys, run))
      BY <1>6, <2>1, <2>4 DEF Settled
    <2> QED
      BY <1>6, <2>1, <2>2, <2>3, <2>5 DEF Sought
  <1>7. CASE step = "users"
    <2> DEFINE keys == IF Script!TableEmpty("users", seen) THEN {u[1] : u \in Script!SeedUsers}
                       ELSE {"ven"} \ Script!KeysIn("users", seen)
    <2>1. step \notin Script!PlainTables /\ TableAt(i) = step
      BY <1>7 DEF Script!PlainTables, TableAt
    <2>2. Script!Missing(step, seen, run) = Script!RowsOf(step, keys, run)
      BY <1>7, <2>1 DEF Script!Missing, Script!UsersMissing
    <2>3. {u[1] : u \in Script!SeedUsers} = {"admin", "ven"}
      BY DEF Script!SeedUsers
    <2>4. \A k \in keys : Seeded(step, k)
      BY <1>7, <2>1, <2>3 DEF Seeded
    <2>5. Has(seen \union Script!RowsOf(step, keys, run), "users", "ven")
      <3>1. Has(seen, "users", "ven") \/ "ven" \in keys
        BY <2>3, HasKeys
      <3> HIDE DEF keys
      <3> QED
        BY <1>7, <3>1, HasUnion, HasRows
    <2>6. \A undisturbed \in BOOLEAN : Settled(undisturbed, i, seen \union Script!RowsOf(step, keys, run))
      BY <1>7, <2>1, <2>5 DEF Settled
    <2>7. "admin" \in keys => "ven" \in keys
      BY <2>3
    <2> QED
      BY <1>7, <2>1, <2>2, <2>4, <2>6, <2>7 DEF Sought
  <1>8. CASE step = "user_roles"
    <2> DEFINE keys == {u \in Script!SeedUsers : Script!Row("users", u[1], run) \in seen}
    <2>1. step \notin Script!PlainTables /\ TableAt(i) = step
      BY <1>8 DEF Script!PlainTables, TableAt
    <2>2. Script!Missing(step, seen, run) = Script!RowsOf(step, keys, run)
      BY <1>8, <2>1 DEF Script!Missing, Script!UserRolesMissing
    <2>3. \A k \in keys : Seeded(step, k)
      BY <1>8, <2>1 DEF Seeded
    <2>4. \A undisturbed \in BOOLEAN : Settled(undisturbed, i, seen \union Script!RowsOf(step, keys, run))
      BY <1>8, <2>1 DEF Settled
    <2> QED
      BY <1>8, <2>1, <2>2, <2>3, <2>4 DEF Sought
  <1> QED
    BY <1>1, <1>2, <1>3, <1>4, <1>5, <1>6, <1>7, <1>8
\* What a step leaves behind stays when rows are added.
LEMMA SettledMore ==
    ASSUME NEW A, NEW B, A \subseteq B, NEW i, NEW before \in BOOLEAN, NEW after \in BOOLEAN,
           after => before, Settled(before, i, A)
    PROVE  Settled(after, i, B)
  BY HasMore DEF Settled, HasPlain

\* The rows of an older installation.
LEMMA OldRows ==
    ASSUME NEW users \in {{<<"admin", "Superadmin">>}, Script!SeedUsers},
           NEW table, NEW key
    PROVE  Has(Script!OldInstall(users), table, key) <=>
             \/ table \in Script!PlainTables /\ key = "seeded"
             \/ table = "roles" /\ key \in OldRoles
             \/ table = "permissions" /\ key \in OldPermissions
             \/ table = "role_permissions" /\ key \in RolePermissions \intersect (OldRoles \X OldPermissions)
             \/ table = "users" /\ key \in {u[1] : u \in users}
             \/ table = "user_roles" /\ key \in users
  <1> DEFINE some == RolePermissions \intersect (OldRoles \X OldPermissions)
             names == {u[1] : u \in users}
             One(row) ==
               \/ \E t \in Script!PlainTables : row \in Script!RowsOf(t, {"seeded"}, 0)
               \/ row \in Script!RowsOf("roles", OldRoles, 0)
               \/ row \in Script!RowsOf("permissions", OldPermissions, 0)
               \/ row \in Script!RowsOf("role_permissions", some, 0)
               \/ row \in Script!RowsOf("users", names, 0)
               \/ row \in Script!RowsOf("user_roles", users, 0)
  <1>1. \A row : row \in Script!OldInstall(users) <=> One(row)
    BY DEF Script!OldInstall
  <1> HIDE DEF some, names
  <1>2. Has(Script!OldInstall(users), table, key) <=>
          \/ \E t \in Script!PlainTables : Has(Script!RowsOf(t, {"seeded"}, 0), table, key)
          \/ Has(Script!RowsOf("roles", OldRoles, 0), table, key)
          \/ Has(Script!RowsOf("permissions", OldPermissions, 0), table, key)
          \/ Has(Script!RowsOf("role_permissions", some, 0), table, key)
          \/ Has(Script!RowsOf("users", names, 0), table, key)
          \/ Has(Script!RowsOf("user_roles", users, 0), table, key)
    BY <1>1 DEF Has
  <1> USE DEF some, names
  <1> QED
    BY <1>2, HasRows

\* They are of no run.
LEMMA OldRowsTyped ==
    ASSUME NEW users \in {{<<"admin", "Superadmin">>}, Script!SeedUsers}
    PROVE  /\ Script!OldInstall(users) \subseteq SeedRow
           /\ \A row \in Script!OldInstall(users) : row.run = 0
  <1> SUFFICES ASSUME NEW row \in Script!OldInstall(users)
               PROVE  row \in SeedRow /\ row.run = 0
    OBVIOUS
  <1>1. \E t \in SeedTables : \E k : row = Script!Row(t, k, 0)
    <2>1. \A t, keys : row \in Script!RowsOf(t, keys, 0) => \E k : row = Script!Row(t, k, 0)
      BY DEF Script!RowsOf
    <2>2. \/ \E t \in Script!PlainTables : row \in Script!RowsOf(t, {"seeded"}, 0)
          \/ \E t \in SeedTables : \E keys : row \in Script!RowsOf(t, keys, 0)
      BY DEF Script!OldInstall, SeedTables
    <2> QED
      BY <2>1, <2>2 DEF SeedTables
  <1>2. PICK t \in SeedTables : \E k : row = Script!Row(t, k, 0)
    BY <1>1
  <1>2a. PICK k : row = Script!Row(t, k, 0)
    BY <1>2
  <1>3. row.table = t /\ row.key = k /\ row.run = 0
    BY <1>2a DEF Script!Row
  <1>4. Has(Script!OldInstall(users), t, k)
    BY <1>3 DEF Has
  <1>5. users \subseteq Script!SeedUsers /\ {u[1] : u \in users} \subseteq {"admin", "ven"}
    BY DEF Script!SeedUsers
  <1>6. k \in SeedKeys
    BY <1>4, <1>5, OldRows DEF SeedKeys
  <1> QED
    BY <1>2a, <1>3, <1>6 DEF Script!Row, SeedRow

\* A database is new or of an older version, and the script does not run.
LEMMA InitSeeds == Script!Init => SeedInv
  <1> SUFFICES ASSUME Script!Init PROVE SeedInv
    OBVIOUS
  <1>1. /\ seeds = 0 /\ edits = 0 /\ up_to_date = FALSE
        /\ seeder = [p \in Threads |-> Script!IdleSeeder] /\ began = [p \in Threads |-> 0]
    BY DEF Script!Init
  <1>2. \A p \in Threads :
          /\ seeder[p].step = 0 /\ seeder[p].looked = FALSE /\ seeder[p].missing = {}
          /\ seeder[p].own = {} /\ began[p] = 0
    BY <1>1 DEF Script!IdleSeeder
  <1>3. /\ stored \subseteq SeedRow
        /\ \A row \in stored : row.run = 0 /\ (row.table \in Script!PlainTables => row.key = "seeded")
        /\ \A table \in Script!PlainTables : HasPlain(stored, table) <=> HasPlain(stored, "organizations")
        /\ \A u \in Script!SeedUsers : Has(stored, "users", u[1]) => Has(stored, "user_roles", u)
    <2>1. CASE stored = {}
      BY <2>1 DEF Has, HasPlain
    <2>2. CASE stored # {}
      <3>1. PICK users \in {{<<"admin", "Superadmin">>}, Script!SeedUsers} :
              stored = Script!OldInstall(users)
        BY <2>2 DEF Script!Init
      <3>2. stored \subseteq SeedRow /\ \A row \in stored : row.run = 0
        BY <3>1, OldRowsTyped
      <3>3. \A row \in stored : row.table \in Script!PlainTables => row.key = "seeded"
        <4> SUFFICES ASSUME NEW row \in stored, row.table \in Script!PlainTables
                     PROVE  row.key = "seeded"
          OBVIOUS
        <4>1. Has(stored, row.table, row.key)
          BY DEF Has
        <4> QED
          BY <3>1, <4>1, OldRows DEF Script!PlainTables
      <3>4. \A table \in Script!PlainTables : HasPlain(stored, table)
        BY <3>1, OldRows DEF HasPlain
      <3>5. "organizations" \in Script!PlainTables
        BY DEF Script!PlainTables
      <3>6. \A u \in Script!SeedUsers : Has(stored, "users", u[1]) => Has(stored, "user_roles", u)
        <4> SUFFICES ASSUME NEW u \in Script!SeedUsers, Has(stored, "users", u[1])
                     PROVE  Has(stored, "user_roles", u)
          OBVIOUS
        <4>1. u[1] \in {v[1] : v \in users}
          <5>1. "users" \notin Script!PlainTables
            BY DEF Script!PlainTables
          <5>2. Has(Script!OldInstall(users), "users", u[1])
            BY <3>1
          <5> QED
            BY <5>1, <5>2, OldRows
        <4>2. u \in users
          BY <4>1 DEF Script!SeedUsers
        <4> QED
          BY <3>1, <4>2, OldRows
      <3> QED
        BY <3>2, <3>3, <3>4, <3>5, <3>6
    <2> QED
      BY <2>1, <2>2
  <1>4. SeedTyped
    <2>1. Script!IdleSeeder \in SeederRecord
      BY DEF SeederRecord, Script!IdleSeeder
    <2> QED
      BY <1>1, <1>3, <2>1 DEF SeedTyped
  <1>5. RunsDiffer
    BY <1>1, <1>2, <1>3 DEF RunsDiffer, Active
  <1>6. SessionsOpen
    BY <1>1, <1>2 DEF SessionsOpen, Active
  <1>7. KeysApart
    <2> SUFFICES ASSUME NEW a \in stored, NEW b \in stored, a.table = b.table, a.key = b.key
                 PROVE  a = b
      BY <1>2 DEF KeysApart, Has
    <2>1. a \in SeedRow /\ b \in SeedRow /\ a.run = b.run
      BY <1>3
    <2> QED
      BY <2>1 DEF SeedRow
  <1>8. PlainTogether
    BY <1>2, <1>3 DEF PlainTogether, Active
  <1>9. StepsSettled
    BY <1>2 DEF StepsSettled
  <1>10. RolesGiven
    BY <1>2, <1>3 DEF RolesGiven, Has
  <1>11. \A p \in Threads : InsertsSeeded(seeder[p].own) /\ InsertsSeeded(seeder[p].missing)
    BY <1>2 DEF InsertsSeeded, Has
  <1> QED
    BY <1>1, <1>4, <1>5, <1>6, <1>7, <1>8, <1>9, <1>10, <1>11 DEF SeedInv
\* A run begins with a number of its own.
LEMMA SeedBegins ==
    ASSUME SeedInv, NEW p \in Threads, Script!Begin(p)
    PROVE  SeedInv'
  <1> DEFINE fresh == [Script!IdleSeeder EXCEPT !.step = 1, !.run = seeds + 1]
  <1>1. /\ seeds' = seeds + 1 /\ seeder' = [seeder EXCEPT ![p] = fresh]
        /\ began' = [began EXCEPT ![p] = edits]
        /\ UNCHANGED <<stored, edits, up_to_date>>
        /\ seeder[p].step = 0
    BY DEF Script!Begin
  <1>2. /\ fresh \in SeederRecord /\ fresh.step = 1 /\ fresh.looked = FALSE /\ fresh.missing = {}
        /\ fresh.own = {} /\ fresh.run = seeds + 1
    <2>1. seeds + 1 \in Nat
      BY DEF SeedInv, SeedTyped
    <2>2. PICK idle \in SeederRecord : idle = Script!IdleSeeder
      <3>1. Script!IdleSeeder \in SeederRecord
        BY DEF SeederRecord, Script!IdleSeeder
      <3> QED
        BY <3>1
    <2>3. idle.looked = FALSE /\ idle.missing = {} /\ idle.own = {}
      BY <2>2 DEF Script!IdleSeeder
    <2>4. fresh = [idle EXCEPT !.step = 1, !.run = seeds + 1]
      BY <2>2
    <2> HIDE DEF fresh
    <2>5. 1 \in 0..14
      OBVIOUS
    <2>6. fresh \in SeederRecord
      BY <2>1, <2>4, <2>5 DEF SeederRecord
    <2>7. fresh.looked = idle.looked /\ fresh.missing = idle.missing /\ fresh.own = idle.own
      BY <2>4 DEF SeederRecord
    <2>8. fresh.step = 1 /\ fresh.run = seeds + 1
      BY <2>4 DEF SeederRecord
    <2> QED
      BY <2>3, <2>6, <2>7, <2>8
  <1> HIDE DEF fresh
  <1>3. /\ seeder'[p] = fresh /\ \A q \in Threads \ {p} : seeder'[q] = seeder[q]
        /\ began'[p] = edits /\ \A q \in Threads \ {p} : began'[q] = began[q]
    BY <1>1 DEF SeedInv, SeedTyped
  <1>4. SeedTyped'
    BY <1>1, <1>2 DEF SeedInv, SeedTyped
  <1>5. seeds \in Nat /\ edits \in Nat
    BY DEF SeedInv, SeedTyped
  <1>6. RunsDiffer'
    <2>1. \A q \in Threads \ {p} : Active(q) => seeder[q].run <= seeds /\ seeder[q].run \in Nat
      BY DEF SeedInv, SeedTyped, SeederRecord, RunsDiffer
    <2>2. \A row \in stored : row.run <= seeds /\ row.run \in Nat
      BY DEF SeedInv, SeedTyped, RunsDiffer, SeedRow
    <2>3. Active(p)' /\ \A q \in Threads \ {p} : Active(q)' <=> Active(q)
      BY <1>2, <1>3 DEF Active
    <2> QED
      BY <1>1, <1>2, <1>3, <1>5, <2>1, <2>2, <2>3 DEF SeedInv, RunsDiffer
  <1>7. SessionsOpen'
    BY <1>1, <1>2, <1>3, <1>5 DEF SeedInv, SessionsOpen, Active
  <1>8. KeysApart'
    BY <1>1, <1>2, <1>3 DEF SeedInv, KeysApart, Has
  <1>9. PlainTogether'
    <2>1. \A i \in 1..13 : ~(i < 1)
      OBVIOUS
    <2> QED
      BY <1>1, <1>2, <1>3, <2>1 DEF SeedInv, PlainTogether, Active, HasPlain, Has
  <1>10. StepsSettled'
    <2>1. \A i \in 1..13 : ~(i < 1)
      OBVIOUS
    <2> QED
      BY <1>1, <1>2, <1>3, <2>1 DEF SeedInv, StepsSettled
  <1>11. RolesGiven'
    BY <1>1, <1>2, <1>3 DEF SeedInv, RolesGiven, Has
  <1>12. \A q \in Threads : InsertsSeeded(seeder'[q].own) /\ InsertsSeeded(seeder'[q].missing)
    BY <1>2, <1>3 DEF SeedInv, InsertsSeeded, Has
  <1>13. (up_to_date => CompleteSeed)'
    BY <1>1 DEF SeedInv, CompleteSeed
  <1> QED
    BY <1>4, <1>6, <1>7, <1>8, <1>9, <1>10, <1>11, <1>12, <1>13 DEF SeedInv

\* A step looks for what is there.
LEMMA SeedLooks ==
    ASSUME SeedInv, NEW p \in Threads, Script!Look(p)
    PROVE  SeedInv'
  <1> DEFINE i == seeder[p].step
             own == seeder[p].own
             run == seeder[p].run
             seen == stored \union own
             new == Script!Missing(Script!Steps[i], seen, run)
  <1>1. /\ seeder[p].step # 0 /\ ~seeder[p].looked
        /\ seeder' = [seeder EXCEPT ![p].looked = TRUE, ![p].missing = new]
        /\ UNCHANGED <<stored, seeds, edits, up_to_date, began>>
    BY DEF Script!Look, Script!Seen
  <1>2. seeder[p] \in SeederRecord /\ i \in 0..14 /\ own \subseteq SeedRow /\ run \in Nat
    BY DEF SeedInv, SeedTyped, SeederRecord
  <1>3. i \in 1..13
    <2>1. i # 14
      BY StepsAre DEF Script!Look, Script!At
    <2> QED
      BY <1>1, <1>2, <2>1
  <1>4. \A row \in seen : row.table \in Script!PlainTables => row.key = "seeded"
    BY DEF SeedInv, PlainTogether, InsertsSeeded, Seeded
  <1>5. PICK keys : Sought(i, seen, run, keys)
    BY <1>3, <1>4, EveryStepSeeks
  <1> HIDE DEF new
  <1>6. new = Script!RowsOf(TableAt(i), keys, run)
    BY <1>5 DEF Sought, new
  <1>7. TableAt(i) \in SeedTables
    BY <1>3, StepsAre DEF TableAt, SeedTables
  <1>8. \A row \in new : row \in SeedRow /\ row.table = TableAt(i) /\ row.run = run
                         /\ Seeded(row.table, row.key)
    <2> SUFFICES ASSUME NEW row \in new
                 PROVE  row \in SeedRow /\ row.table = TableAt(i) /\ row.run = run
                        /\ Seeded(row.table, row.key)
      OBVIOUS
    <2>1. PICK k \in keys : row = Script!Row(TableAt(i), k, run)
      BY <1>6 DEF Script!RowsOf
    <2>2. row.table = TableAt(i) /\ row.key = k /\ row.run = run
      BY <2>1 DEF Script!Row
    <2>3. Seeded(TableAt(i), k)
      BY <1>5 DEF Sought
    <2>4. k \in SeedKeys
      BY <2>3, <1>7 DEF Seeded, SeedTables, SeedKeys
    <2> QED
      BY <1>2, <1>7, <2>1, <2>2, <2>3, <2>4 DEF SeedRow, Script!Row
  <1>9. \A table, key : Has(new, table, key) <=> table = TableAt(i) /\ key \in keys
    BY <1>6, HasRows
  <1>10. /\ seeder'[p].step = i /\ seeder'[p].looked = TRUE /\ seeder'[p].missing = new
         /\ seeder'[p].own = own /\ seeder'[p].run = run
         /\ \A q \in Threads \ {p} : seeder'[q] = seeder[q]
    BY <1>1, <1>2 DEF SeedInv, SeedTyped, SeederRecord
  <1>11. \A q \in Threads : /\ seeder'[q].step = seeder[q].step /\ seeder'[q].own = seeder[q].own
                            /\ seeder'[q].run = seeder[q].run
    BY <1>10
  <1> HIDE DEF i, own, run, seen
  <1>12. SeedTyped'
    <2>1. [seeder[p] EXCEPT !.looked = TRUE, !.missing = new] \in SeederRecord
      BY <1>2, <1>8 DEF SeederRecord
    <2>2. seeder' = [seeder EXCEPT ![p] = [seeder[p] EXCEPT !.looked = TRUE, !.missing = new]]
      BY <1>1
    <2> QED
      BY <1>1, <2>1, <2>2 DEF SeedInv, SeedTyped
  <1>13. RunsDiffer'
    <2>1. \A q \in Threads : Active(q)' <=> Active(q)
      BY <1>11 DEF Active
    <2>2. RunsDiffer
      BY DEF SeedInv
    <2>3. \A row \in seeder'[p].own \union seeder'[p].missing : row.run = seeder'[p].run
      BY <1>1, <1>8, <1>10, <2>2 DEF RunsDiffer, Active, run, own
    <2>4. \A q \in Threads : Active(q) =>
            \A row \in seeder'[q].own \union seeder'[q].missing : row.run = seeder'[q].run
      BY <1>10, <2>2, <2>3 DEF RunsDiffer
    <2>5. stored' = stored /\ seeds' = seeds
      BY <1>1
    <2> QED
      BY <1>11, <2>1, <2>2, <2>4, <2>5 DEF RunsDiffer
  <1>14. SessionsOpen'
    <2>1. SessionsOpen
      BY DEF SeedInv
    <2>2. \A q \in Threads \ {p} :
            /\ seeder'[q] = seeder[q] /\ (Active(q)' <=> Active(q))
            /\ began'[q] = began[q]
      BY <1>1, <1>10 DEF Active
    <2>3a. began' = began /\ edits' = edits
      BY <1>1
    <2>3b. Active(p)' /\ seeder'[p].step # 14
      BY <1>3, <1>10 DEF Active
    <2>3c. \A row \in seeder'[p].missing : row.table = TableAt(seeder'[p].step)
      BY <1>8, <1>10
    <2>3. /\ Active(p)' /\ seeder'[p].step # 14 /\ began'[p] <= edits'
          /\ \A row \in seeder'[p].missing : row.table = TableAt(seeder'[p].step)
      BY <2>1, <2>3a, <2>3b, <2>3c DEF SessionsOpen
    <2>4. edits' = edits /\ seeder'[p].looked
      BY <1>1, <1>10
    <2> QED
      BY <2>1, <2>2, <2>3, <2>4 DEF SessionsOpen
  <1>15. KeysApart'
    BY <1>1, <1>11 DEF SeedInv, KeysApart
  <1>16. PlainTogether'
    <2>1. \A table \in Script!PlainTables : HasPlain(new, table) =>
            table = Script!Steps[i] /\ (table # "organizations" => HasPlain(own, "organizations"))
      <3> SUFFICES ASSUME NEW table \in Script!PlainTables, HasPlain(new, table)
                   PROVE  /\ table = Script!Steps[i]
                          /\ table # "organizations" => HasPlain(own, "organizations")
        OBVIOUS
      <3>1. table = TableAt(i) /\ "seeded" \in keys
        BY <1>9 DEF HasPlain
      <3>2. table = Script!Steps[i]
        BY <3>1 DEF TableAt, Script!PlainTables
      <3>3. \A row \in seen : row.table # table
        BY <1>5, <3>1, <3>2 DEF Sought
      <3>4. ASSUME table # "organizations" PROVE HasPlain(own, "organizations")
        <4>1. i # 1
          BY <3>2, <3>4, StepsAre
        <4>2. 1 < i /\ 1 \in 1..13
          BY <1>3, <4>1
        <4>3a. StepsSettled
          BY DEF SeedInv
        <4>3b. 1 < seeder[p].step => Settled(began[p] = edits, 1, stored \union seeder[p].own)
          BY <4>2, <4>3a DEF StepsSettled
        <4>2a. Settled(began[p] = edits, 1, stored \union own)
          BY <4>2, <4>3b DEF i, own
        <4>3. HasPlain(stored \union own, "organizations")
          BY <4>2a, StepsAre DEF Settled, Script!PlainTables
        <4>4. ~HasPlain(stored, table)
          BY <3>3 DEF HasPlain, Has, seen
        <4>5. ~HasPlain(stored, "organizations")
          BY <4>4 DEF SeedInv, PlainTogether
        <4> QED
          BY <4>3, <4>5, HasUnion DEF HasPlain
      <3> QED
        BY <3>2, <3>4
    <2>2. PlainTogether
      BY DEF SeedInv
    <2>3. \A q \in Threads : Active(q)' <=> Active(q)
      BY <1>11 DEF Active
    <2>4. \A q \in Threads : Active(q) => \A table \in Script!PlainTables :
            HasPlain(seeder'[q].missing, table) =>
              /\ table = Script!Steps[seeder'[q].step]
              /\ table # "organizations" => HasPlain(seeder'[q].own, "organizations")
      BY <1>10, <2>1, <2>2 DEF PlainTogether
    <2> QED
      BY <1>1, <1>11, <2>2, <2>3, <2>4 DEF PlainTogether
  <1>17. StepsSettled'
    <2>1. Settled(began[p] = edits, i, seen \union new)
      BY <1>5, <1>6 DEF Sought
    <2>2. StepsSettled
      BY DEF SeedInv
    <2>3. (began[p] = edits) \in BOOLEAN
      OBVIOUS
    <2>4. \A q \in Threads, n \in 1..13 : n = seeder'[q].step /\ seeder'[q].looked =>
            Settled(began[q] = edits, n, stored \union seeder'[q].own \union seeder'[q].missing)
      <3> SUFFICES ASSUME NEW q \in Threads, NEW n \in 1..13, n = seeder'[q].step, seeder'[q].looked
                   PROVE  Settled(began[q] = edits, n,
                                  stored \union seeder'[q].own \union seeder'[q].missing)
        OBVIOUS
      <3>1. CASE q = p
        BY <1>10, <2>1, <3>1 DEF seen
      <3>2. CASE q # p
        BY <1>10, <2>2, <3>2 DEF StepsSettled
      <3> QED
        BY <3>1, <3>2
    <2> QED
      BY <1>1, <1>11, <2>2, <2>4 DEF StepsSettled
  <1>18. RolesGiven'
    <2>1. \A u \in Script!SeedUsers : Has(new, "user_roles", u) => Has(own, "users", u[1])
      <3> SUFFICES ASSUME NEW u \in Script!SeedUsers, Has(new, "user_roles", u)
                   PROVE  Has(own, "users", u[1])
        OBVIOUS
      <3>1. TableAt(i) = "user_roles" /\ u \in keys
        BY <1>9
      <3>2. Script!Steps[i] = "user_roles"
        BY <3>1 DEF TableAt
      <3>3. Script!Row("users", u[1], run) \in seen
        BY <1>5, <3>1, <3>2 DEF Sought
      <3>4. /\ Script!Row("users", u[1], run).table = "users" /\ Script!Row("users", u[1], run).run = run
            /\ Script!Row("users", u[1], run).key = u[1]
        BY DEF Script!Row
      <3>5. \A row \in stored : row.run # run
        BY <1>1 DEF SeedInv, RunsDiffer, Active, run
      <3> QED
        BY <3>3, <3>4, <3>5 DEF Has, seen
    <2>2. \A u \in Script!SeedUsers : i = 8 /\ Has(own, "users", u[1]) => Has(new, "user_roles", u)
      <3> SUFFICES ASSUME NEW u \in Script!SeedUsers, i = 8, Has(own, "users", u[1])
                   PROVE  Has(new, "user_roles", u)
        OBVIOUS
      <3>1. Script!Steps[i] = "user_roles" /\ TableAt(i) = "user_roles"
        BY StepsAre DEF TableAt
      <3>2. PICK row \in own : row.table = "users" /\ row.key = u[1]
        BY DEF Has
      <3>3. row \in SeedRow /\ row.run = run
        BY <1>1, <1>2, <3>2 DEF SeedInv, RunsDiffer, Active, run, own
      <3>4. row = Script!Row("users", u[1], run)
        BY <3>2, <3>3 DEF SeedRow, Script!Row
      <3>5. u \in keys
        BY <1>5, <3>1, <3>2, <3>4 DEF Sought, seen
      <3> QED
        BY <1>9, <3>1, <3>5
    <2>3. RolesGiven
      BY DEF SeedInv
    <2>4. \A u \in Script!SeedUsers, q \in Threads :
            /\ Has(seeder'[q].missing, "user_roles", u) => Has(seeder'[q].own, "users", u[1])
            /\ Has(seeder'[q].own, "users", u[1]) /\ seeder'[q].step = 8 /\ seeder'[q].looked =>
                 Has(seeder'[q].missing, "user_roles", u)
      BY <1>10, <2>1, <2>2, <2>3 DEF RolesGiven
    <2> QED
      BY <1>1, <1>11, <2>3, <2>4 DEF RolesGiven
  <1>19. \A q \in Threads : InsertsSeeded(seeder'[q].own) /\ InsertsSeeded(seeder'[q].missing)
    <2>1. InsertsSeeded(new)
      <3>1. Has(new, "users", "admin") => Has(new, "users", "ven")
        <4> SUFFICES ASSUME Has(new, "users", "admin") PROVE Has(new, "users", "ven")
          OBVIOUS
        <4>1. TableAt(i) = "users" /\ "admin" \in keys
          BY <1>9
        <4>2. Script!Steps[i] = "users"
          BY <4>1 DEF TableAt
        <4> QED
          BY <1>5, <1>9, <4>1, <4>2 DEF Sought
      <3> QED
        BY <1>8, <3>1 DEF InsertsSeeded
    <2> QED
      BY <1>10, <1>11, <2>1 DEF SeedInv
  <1>20. (up_to_date => CompleteSeed)'
    BY <1>1 DEF SeedInv, CompleteSeed
  <1> QED
    BY <1>12, <1>13, <1>14, <1>15, <1>16, <1>17, <1>18, <1>19, <1>20 DEF SeedInv
\* What a step is about to insert is nowhere yet.
LEMMA InsertsAreNew ==
    ASSUME SeedInv, NEW p \in Threads, Script!Insert(p)
    PROVE  \A row \in seeder[p].missing :
             /\ ~Has(stored, row.table, row.key)
             /\ \A q \in Threads \ {p} : ~Has(seeder[q].own, row.table, row.key)
  <1> SUFFICES ASSUME NEW row \in seeder[p].missing
               PROVE  /\ ~Has(stored, row.table, row.key)
                      /\ \A q \in Threads \ {p} : ~Has(seeder[q].own, row.table, row.key)
    OBVIOUS
  <1> DEFINE others == UNION {seeder[q].own : q \in Threads \ {p}}
  <1>1. /\ seeder[p].looked /\ ~Script!SameKey(seeder[p].missing, others)
        /\ ~Script!SameKey(seeder[p].missing, stored)
    BY DEF Script!Insert
  <1>2. PlainTogether /\ KeysApart /\ SessionsOpen /\ InsertsSeeded(seeder[p].missing)
    BY DEF SeedInv
  <1>3. CASE Script!Keyed(row.table)
    <2>1. ~Has(stored, row.table, row.key)
      BY <1>1, <1>3 DEF Script!SameKey, Has
    <2>2. \A q \in Threads \ {p} : ~Has(seeder[q].own, row.table, row.key)
      <3> SUFFICES ASSUME NEW q \in Threads \ {p}, NEW b \in seeder[q].own,
                          b.table = row.table, b.key = row.key
                   PROVE  FALSE
        BY DEF Has
      <3>1. b \in others
        OBVIOUS
      <3> HIDE DEF others
      <3> QED
        BY <1>1, <1>3, <3>1 DEF Script!SameKey
    <2> QED
      BY <2>1, <2>2
  <1>4. CASE ~Script!Keyed(row.table)
    <2>1. row.table \in Script!PlainTables /\ row.table # "organizations"
      BY <1>4 DEF Script!Keyed, Script!PlainTables
    <2>2. row.key = "seeded"
      BY <1>2, <2>1 DEF InsertsSeeded, Seeded
    <2>3. HasPlain(seeder[p].missing, row.table)
      BY <2>2 DEF HasPlain, Has
    <2>4. Active(p)
      BY <1>1, <1>2 DEF SessionsOpen
    <2>5. HasPlain(seeder[p].own, "organizations")
      BY <1>2, <2>1, <2>3, <2>4 DEF PlainTogether
    <2>6. /\ ~HasPlain(stored, "organizations")
          /\ \A q \in Threads \ {p} : ~HasPlain(seeder[q].own, "organizations")
      BY <1>2, <2>5 DEF KeysApart, HasPlain, Has
    <2>7. ~HasPlain(stored, row.table)
      BY <1>2, <2>1, <2>6 DEF PlainTogether
    <2>8. \A q \in Threads \ {p} : ~HasPlain(seeder[q].own, row.table)
      <3> SUFFICES ASSUME NEW q \in Threads \ {p}, HasPlain(seeder[q].own, row.table)
                   PROVE  FALSE
        OBVIOUS
      <3>1. PICK n \in 1..13 : Script!Steps[n] = row.table
        BY <2>1, StepsAre
      <3>2. Active(q)
        <4>1. seeder[q].own # {}
          BY DEF HasPlain, Has
        <4> QED
          BY <1>2, <4>1 DEF SessionsOpen
      <3>3. HasPlain(seeder[q].own, "organizations")
        BY <1>2, <2>1, <3>1, <3>2 DEF PlainTogether
      <3> QED
        BY <2>6, <3>3
    <2> QED
      BY <2>2, <2>7, <2>8 DEF HasPlain
  <1> QED
    BY <1>3, <1>4

\* A step inserts what it found missing.
LEMMA SeedInserts ==
    ASSUME SeedInv, NEW p \in Threads, Script!Insert(p)
    PROVE  SeedInv'
  <1> DEFINE i == seeder[p].step
             own == seeder[p].own
             missing == seeder[p].missing
             new == own \union missing
  <1>1. /\ seeder[p].looked
        /\ seeder' = [seeder EXCEPT ![p].own = @ \union missing, ![p].step = @ + 1,
                                    ![p].looked = FALSE, ![p].missing = {}]
        /\ stored' = stored /\ seeds' = seeds /\ edits' = edits /\ up_to_date' = up_to_date
        /\ began' = began
    BY DEF Script!Insert
  <1>2. /\ SeedTyped /\ RunsDiffer /\ SessionsOpen /\ KeysApart /\ PlainTogether /\ StepsSettled
        /\ RolesGiven /\ (up_to_date => CompleteSeed)
        /\ \A q \in Threads : InsertsSeeded(seeder[q].own) /\ InsertsSeeded(seeder[q].missing)
    BY DEF SeedInv
  <1>3. /\ seeder[p] \in SeederRecord /\ i \in 0..14 /\ own \subseteq SeedRow /\ missing \subseteq SeedRow
        /\ seeder[p].run \in Nat
    BY <1>2 DEF SeedTyped, SeederRecord
  <1>4. Active(p) /\ i \in 1..13
    BY <1>1, <1>2, <1>3 DEF SessionsOpen, Active
  <1>5. /\ \A q \in Threads \ {p} : seeder'[q] = seeder[q]
        /\ seeder'[p] = [seeder[p] EXCEPT !.own = new, !.step = i + 1, !.looked = FALSE, !.missing = {}]
        /\ seeder' \in [Threads -> SeederRecord]
    <2> DEFINE s == [seeder[p] EXCEPT !.own = new, !.step = i + 1, !.looked = FALSE, !.missing = {}]
    <2>1. s \in SeederRecord
      <3>1. i + 1 \in 0..14 /\ new \in SUBSET SeedRow /\ {} \in SUBSET SeedRow
        BY <1>3, <1>4
      <3> HIDE DEF i, new
      <3> QED
        BY <1>3, <3>1 DEF SeederRecord
    <2>2. seeder' = [seeder EXCEPT ![p] = s]
      BY <1>1
    <2> HIDE DEF s
    <2>3. seeder'[p] = s /\ (\A q \in Threads \ {p} : seeder'[q] = seeder[q])
          /\ seeder' \in [Threads -> SeederRecord]
      BY <1>2, <2>1, <2>2 DEF SeedTyped
    <2> QED
      BY <2>3 DEF s
  <1>6. /\ seeder'[p].step = i + 1 /\ seeder'[p].looked = FALSE /\ seeder'[p].missing = {}
        /\ seeder'[p].own = new /\ seeder'[p].run = seeder[p].run
    <2> HIDE DEF i, new
    <2> QED
      BY <1>3, <1>5 DEF SeederRecord
  <1>7. \A table, key : Has(new, table, key) <=> Has(own, table, key) \/ Has(missing, table, key)
    BY HasUnion
  <1>8. Active(p)' /\ \A q \in Threads : (Active(q)' <=> Active(q)) /\ seeder'[q].run = seeder[q].run
    <2>1. i + 1 # 0
      BY <1>4
    <2>2. Active(p)' /\ seeder'[p].run = seeder[p].run
      BY <1>6, <2>1 DEF Active
    <2>3. \A q \in Threads \ {p} : (Active(q)' <=> Active(q)) /\ seeder'[q].run = seeder[q].run
      BY <1>5 DEF Active
    <2> QED
      BY <1>4, <2>2, <2>3
  <1>9. \A row \in missing : row.table = TableAt(i)
    BY <1>2 DEF SessionsOpen
  <1> HIDE DEF i, own, missing, new
  <1>10. SeedTyped'
    BY <1>1, <1>2, <1>5 DEF SeedTyped
  <1>11. RunsDiffer'
    <2>1. \A row \in seeder'[p].own \union seeder'[p].missing : row.run = seeder'[p].run
      BY <1>2, <1>4, <1>6 DEF RunsDiffer, own, missing, new
    <2>2. \A q \in Threads : Active(q) =>
            \A row \in seeder'[q].own \union seeder'[q].missing : row.run = seeder'[q].run
      BY <1>2, <1>5, <2>1 DEF RunsDiffer
    <2>3. stored' = stored /\ seeds' = seeds
      BY <1>1
    <2> QED
      BY <1>2, <1>8, <2>2, <2>3 DEF RunsDiffer
  <1>12. SessionsOpen'
    <2>1. began'[p] <= edits'
      BY <1>1, <1>2 DEF SessionsOpen
    <2> QED
      BY <1>1, <1>2, <1>5, <1>6, <1>8, <2>1 DEF SessionsOpen
  <1>13. KeysApart'
    <2>1. \A row \in new : /\ ~Has(stored, row.table, row.key)
                           /\ \A q \in Threads \ {p} : ~Has(seeder[q].own, row.table, row.key)
      BY <1>2, InsertsAreNew DEF KeysApart, new, own, missing
    <2>2. \A q \in Threads \ {p} : \A row \in seeder[q].own : ~Has(new, row.table, row.key)
      <3> SUFFICES ASSUME NEW q \in Threads \ {p}, NEW row \in seeder[q].own, NEW a \in new,
                          a.table = row.table, a.key = row.key
                   PROVE  FALSE
        BY DEF Has
      <3>1. ~Has(seeder[q].own, a.table, a.key)
        BY <2>1
      <3> QED
        BY <3>1 DEF Has
    <2>3. \A q \in Threads : \A row \in seeder'[q].own : ~Has(stored, row.table, row.key)
      BY <1>2, <1>5, <1>6, <2>1 DEF KeysApart
    <2>4. \A q \in Threads : \A row \in seeder'[q].own :
            \A other \in Threads \ {q} : ~Has(seeder'[other].own, row.table, row.key)
      <3> SUFFICES ASSUME NEW q \in Threads, NEW row \in seeder'[q].own, NEW other \in Threads \ {q}
                   PROVE  ~Has(seeder'[other].own, row.table, row.key)
        OBVIOUS
      <3>1. CASE q = p
        BY <1>5, <1>6, <2>1, <3>1
      <3>2. CASE other = p
        BY <1>5, <1>6, <2>2, <3>2
      <3>3. CASE q # p /\ other # p
        BY <1>2, <1>5, <3>3 DEF KeysApart
      <3> QED
        BY <3>1, <3>2, <3>3
    <2> QED
      BY <1>1, <1>2, <2>3, <2>4 DEF KeysApart
  <1>14. PlainTogether'
    <2>1. \A n \in 1..13 : Script!Steps[n] \in Script!PlainTables =>
            (HasPlain(new, Script!Steps[n]) <=> n < i + 1 /\ HasPlain(new, "organizations"))
      <3> SUFFICES ASSUME NEW n \in 1..13, Script!Steps[n] \in Script!PlainTables
                   PROVE  HasPlain(new, Script!Steps[n]) <=> n < i + 1 /\ HasPlain(new, "organizations")
        OBVIOUS
      <3>1. \A table : HasPlain(new, table) <=> HasPlain(own, table) \/ HasPlain(missing, table)
        BY <1>7 DEF HasPlain
      <3>2. HasPlain(own, Script!Steps[n]) <=> n < i /\ HasPlain(own, "organizations")
        BY <1>2, <1>4 DEF PlainTogether, i, own
      <3>3. \A table \in Script!PlainTables : HasPlain(missing, table) =>
              table = Script!Steps[i] /\ (table # "organizations" => HasPlain(own, "organizations"))
        BY <1>2, <1>4 DEF PlainTogether, i, own, missing
      <3>4. "organizations" \in Script!PlainTables
        BY DEF Script!PlainTables
      <3>5. Script!Steps[1] = "organizations"
        BY StepsAre
      <3>6. ~(1 < i) => ~HasPlain(own, "organizations")
        <4>1. 1 \in 1..13
          OBVIOUS
        <4> QED
          BY <1>2, <1>4, <3>4, <3>5, <4>1 DEF PlainTogether, i, own
      <3>7. HasPlain(missing, "organizations") => i = 1
        <4>1. 1 \in 1..13
          OBVIOUS
        <4> QED
          BY <1>4, <3>3, <3>4, <3>5, <4>1, StepsAre
      <3>8. HasPlain(missing, Script!Steps[n]) => n = i
        BY <1>4, <3>3, StepsAre
      <3>9. n = i /\ HasPlain(own, "organizations") => HasPlain(missing, Script!Steps[n])
        <4> SUFFICES ASSUME n = i, HasPlain(own, "organizations") PROVE HasPlain(missing, Script!Steps[n])
          OBVIOUS
        <4>1. Settled(began[p] = edits, i, stored \union own \union missing)
          BY <1>1, <1>2, <1>4 DEF StepsSettled, i, own, missing
        <4>2. HasPlain(stored \union own \union missing, Script!Steps[n])
          BY <4>1 DEF Settled
        <4>3. ~HasPlain(own, Script!Steps[n])
          BY <1>4, <3>2
        <4>4. ~HasPlain(stored, "organizations")
          BY <1>2 DEF KeysApart, HasPlain, Has, own
        <4>5. ~HasPlain(stored, Script!Steps[n])
          BY <1>2, <4>4 DEF PlainTogether
        <4> QED
          BY <4>2, <4>3, <4>5, HasUnion DEF HasPlain
      <3>10. CASE i = 1
        <4>1. HasPlain(missing, Script!Steps[n]) => HasPlain(missing, "organizations")
          BY <3>5, <3>8, <3>10
        <4>2. n = 1 => Script!Steps[n] = "organizations"
          BY <3>5
        <4> QED
          BY <3>1, <3>2, <3>5, <3>6, <3>8, <3>10, <4>1, <4>2
      <3>11. CASE i # 1
        <4>1. ~HasPlain(missing, "organizations")
          BY <3>7, <3>11
        <4>2. HasPlain(new, "organizations") <=> HasPlain(own, "organizations")
          BY <3>1, <4>1
        <4>3. HasPlain(missing, Script!Steps[n]) => HasPlain(own, "organizations")
          BY <3>3, <4>1
        <4>4. n < i + 1 <=> n < i \/ n = i
          BY <1>4
        <4> QED
          BY <3>1, <3>2, <3>8, <3>9, <4>2, <4>3, <4>4
      <3> QED
        BY <3>10, <3>11
    <2>2. \A q \in Threads : Active(q) => \A n \in 1..13 : Script!Steps[n] \in Script!PlainTables =>
            (HasPlain(seeder'[q].own, Script!Steps[n])
             <=> n < seeder'[q].step /\ HasPlain(seeder'[q].own, "organizations"))
      <3> SUFFICES ASSUME NEW q \in Threads, Active(q), NEW n \in 1..13,
                          Script!Steps[n] \in Script!PlainTables
                   PROVE  HasPlain(seeder'[q].own, Script!Steps[n])
                          <=> n < seeder'[q].step /\ HasPlain(seeder'[q].own, "organizations")
        OBVIOUS
      <3>1. CASE q = p
        BY <1>6, <2>1, <3>1
      <3>2. CASE q # p
        <4>1. seeder'[q] = seeder[q]
          BY <1>5, <3>2
        <4> QED
          BY <1>2, <4>1 DEF PlainTogether
      <3> QED
        BY <3>1, <3>2
    <2>3. \A q \in Threads : Active(q) => \A table \in Script!PlainTables :
            HasPlain(seeder'[q].missing, table) =>
              /\ table = Script!Steps[seeder'[q].step]
              /\ table # "organizations" => HasPlain(seeder'[q].own, "organizations")
      <3>1. \A table : ~HasPlain({}, table)
        BY DEF HasPlain, Has
      <3>2. ASSUME NEW q \in Threads, q # p, Active(q), NEW table \in Script!PlainTables,
                   HasPlain(seeder'[q].missing, table)
            PROVE  /\ table = Script!Steps[seeder'[q].step]
                   /\ table # "organizations" => HasPlain(seeder'[q].own, "organizations")
        <4>1. seeder'[q] = seeder[q]
          BY <1>5, <3>2
        <4> QED
          BY <1>2, <3>2, <4>1 DEF PlainTogether
      <3> QED
        BY <1>6, <3>1, <3>2
    <2> QED
      BY <1>1, <1>2, <1>8, <2>2, <2>3 DEF PlainTogether
  <1>15. StepsSettled'
    <2>1. \A n \in 1..13 : n < i + 1 => Settled(began[p] = edits, n, stored \union new)
      <3> SUFFICES ASSUME NEW n \in 1..13, n < i + 1
                   PROVE  Settled(began[p] = edits, n, stored \union new)
        OBVIOUS
      <3>1. CASE n < i
        <4>1. Settled(began[p] = edits, n, stored \union own)
          BY <1>2, <3>1 DEF StepsSettled, i, own
        <4>2. stored \union own \subseteq stored \union new
          BY DEF new
        <4>3. (began[p] = edits) \in BOOLEAN
          OBVIOUS
        <4> QED
          BY <4>1, <4>2, <4>3, SettledMore
      <3>2. CASE n = i
        <4>1. Settled(began[p] = edits, n, stored \union own \union missing)
          BY <1>1, <1>2, <3>2 DEF StepsSettled, i, own, missing
        <4>2. stored \union own \union missing = stored \union new
          BY DEF new
        <4> QED
          BY <4>1, <4>2
      <3> QED
        BY <1>4, <3>1, <3>2
    <2>2. \A q \in Threads, n \in 1..13 : n < seeder'[q].step =>
            Settled(began[q] = edits, n, stored \union seeder'[q].own)
      <3> SUFFICES ASSUME NEW q \in Threads, NEW n \in 1..13, n < seeder'[q].step
                   PROVE  Settled(began[q] = edits, n, stored \union seeder'[q].own)
        OBVIOUS
      <3>1. CASE q = p
        BY <1>6, <2>1, <3>1
      <3>2. CASE q # p
        BY <1>2, <1>5, <3>2 DEF StepsSettled
      <3> QED
        BY <3>1, <3>2
    <2>3. \A q \in Threads, n \in 1..13 : n = seeder'[q].step /\ seeder'[q].looked =>
            Settled(began[q] = edits, n, stored \union seeder'[q].own \union seeder'[q].missing)
      BY <1>2, <1>5, <1>6 DEF StepsSettled
    <2> QED
      BY <1>1, <2>2, <2>3 DEF StepsSettled
  <1>16. RolesGiven'
    <2>1. \A u \in Script!SeedUsers :
            /\ Has(new, "user_roles", u) => Has(new, "users", u[1])
            /\ Has(new, "users", u[1]) => /\ i + 1 > 8 => Has(new, "user_roles", u)
                                          /\ i + 1 > 7
      <3> SUFFICES ASSUME NEW u \in Script!SeedUsers
                   PROVE  /\ Has(new, "user_roles", u) => Has(new, "users", u[1])
                          /\ Has(new, "users", u[1]) => /\ i + 1 > 8 => Has(new, "user_roles", u)
                                                        /\ i + 1 > 7
        OBVIOUS
      <3>1. /\ Has(own, "user_roles", u) \/ Has(missing, "user_roles", u) => Has(own, "users", u[1])
            /\ Has(own, "users", u[1]) => /\ i > 8 => Has(own, "user_roles", u)
                                          /\ i = 8 => Has(missing, "user_roles", u)
                                          /\ i > 7
        BY <1>1, <1>2 DEF RolesGiven, i, own, missing
      <3>2. Has(missing, "users", u[1]) => i = 7
        <4> SUFFICES ASSUME Has(missing, "users", u[1]) PROVE i = 7
          OBVIOUS
        <4>1. TableAt(i) = "users"
          BY <1>9 DEF Has
        <4>2. Script!Steps[i] = "users"
          BY <4>1 DEF TableAt
        <4>3. 7 \in 1..13
          OBVIOUS
        <4> QED
          BY <1>4, <4>2, <4>3, StepsAre
      <3> QED
        BY <1>4, <1>7, <3>1, <3>2
    <2>2. \A u \in Script!SeedUsers, q \in Threads :
            /\ Has(seeder'[q].own, "user_roles", u) \/ Has(seeder'[q].missing, "user_roles", u) =>
                 Has(seeder'[q].own, "users", u[1])
            /\ Has(seeder'[q].own, "users", u[1]) =>
                 /\ seeder'[q].step > 8 => Has(seeder'[q].own, "user_roles", u)
                 /\ seeder'[q].step = 8 /\ seeder'[q].looked => Has(seeder'[q].missing, "user_roles", u)
                 /\ seeder'[q].step > 7
      <3> SUFFICES ASSUME NEW u \in Script!SeedUsers, NEW q \in Threads
                   PROVE  /\ (\/ Has(seeder'[q].own, "user_roles", u)
                              \/ Has(seeder'[q].missing, "user_roles", u)) =>
                               Has(seeder'[q].own, "users", u[1])
                          /\ Has(seeder'[q].own, "users", u[1]) =>
                               /\ seeder'[q].step > 8 => Has(seeder'[q].own, "user_roles", u)
                               /\ seeder'[q].step = 8 /\ seeder'[q].looked =>
                                    Has(seeder'[q].missing, "user_roles", u)
                               /\ seeder'[q].step > 7
        OBVIOUS
      <3>1. CASE q = p
        <4>1. ~Has({}, "user_roles", u)
          BY DEF Has
        <4> QED
          BY <1>6, <2>1, <3>1, <4>1
      <3>2. CASE q # p
        BY <1>2, <1>5, <3>2 DEF RolesGiven
      <3> QED
        BY <3>1, <3>2
    <2>3. \A u \in Script!SeedUsers : Has(stored, "users", u[1]) => Has(stored, "user_roles", u)
      BY <1>2 DEF RolesGiven
    <2> QED
      BY <1>1, <2>2, <2>3 DEF RolesGiven
  <1>17. \A q \in Threads : InsertsSeeded(seeder'[q].own) /\ InsertsSeeded(seeder'[q].missing)
    <2>1. InsertsSeeded(new)
      <3>1. InsertsSeeded(own) /\ InsertsSeeded(missing)
        BY <1>2 DEF own, missing
      <3> QED
        BY <1>7, <3>1 DEF InsertsSeeded, new
    <2>2. InsertsSeeded({})
      BY DEF InsertsSeeded, Has
    <2> QED
      BY <1>2, <1>5, <1>6, <2>1, <2>2
  <1>18. (up_to_date => CompleteSeed)'
    BY <1>1, <1>2 DEF CompleteSeed
  <1> QED
    BY <1>10, <1>11, <1>12, <1>13, <1>14, <1>15, <1>16, <1>17, <1>18 DEF SeedInv
\* A process that stops has nothing of its own.
LEMMA SeedStopped ==
    ASSUME SeedInv, NEW p \in Threads, Script!Stop(p)
    PROVE  /\ seeder'[p] = Script!IdleSeeder /\ \A q \in Threads \ {p} : seeder'[q] = seeder[q]
           /\ seeder' \in [Threads -> SeederRecord]
           /\ seeds' = seeds /\ edits' = edits /\ began' = began
  <1>1. /\ seeder' = [seeder EXCEPT ![p] = Script!IdleSeeder]
        /\ seeds' = seeds /\ edits' = edits /\ began' = began
    BY DEF Script!Stop, Script!Closed
  <1>2. Script!IdleSeeder \in SeederRecord
    BY DEF SeederRecord, Script!IdleSeeder
  <1>3. seeder \in [Threads -> SeederRecord]
    BY DEF SeedInv, SeedTyped
  <1> QED
    BY <1>1, <1>2, <1>3

\* The rows of a run that fails or dies are gone.
LEMMA SeedFails ==
    ASSUME SeedInv, NEW p \in Threads, Script!Stop(p), stored' = stored, up_to_date' = up_to_date
    PROVE  SeedInv'
  <1>1. /\ SeedTyped /\ RunsDiffer /\ SessionsOpen /\ KeysApart /\ PlainTogether /\ StepsSettled
        /\ RolesGiven /\ (up_to_date => CompleteSeed)
        /\ \A q \in Threads : InsertsSeeded(seeder[q].own) /\ InsertsSeeded(seeder[q].missing)
    BY DEF SeedInv
  <1>2. /\ seeder'[p] = Script!IdleSeeder /\ \A q \in Threads \ {p} : seeder'[q] = seeder[q]
        /\ seeder' \in [Threads -> SeederRecord]
        /\ seeds' = seeds /\ edits' = edits /\ began' = began
    BY SeedStopped
  <1>3. /\ seeder'[p].step = 0 /\ seeder'[p].looked = FALSE /\ seeder'[p].missing = {}
        /\ seeder'[p].own = {}
    BY <1>2 DEF Script!IdleSeeder
  <1>4. ~Active(p)' /\ \A q \in Threads \ {p} : Active(q)' <=> Active(q)
    BY <1>2, <1>3 DEF Active
  <1>5. SeedTyped'
    BY <1>1, <1>2 DEF SeedTyped
  <1>6. RunsDiffer'
    BY <1>1, <1>2, <1>4 DEF RunsDiffer
  <1>7. SessionsOpen'
    BY <1>1, <1>2, <1>3, <1>4 DEF SessionsOpen
  <1>8. KeysApart'
    BY <1>1, <1>2, <1>3 DEF KeysApart, Has
  <1>9. PlainTogether'
    BY <1>1, <1>2, <1>4 DEF PlainTogether
  <1>10. StepsSettled'
    <2>1. \A n \in 1..13 : ~(n < 0) /\ n # 0
      OBVIOUS
    <2> QED
      BY <1>1, <1>2, <1>3, <2>1 DEF StepsSettled
  <1>11. RolesGiven'
    BY <1>1, <1>2, <1>3 DEF RolesGiven, Has
  <1>12. \A q \in Threads : InsertsSeeded(seeder'[q].own) /\ InsertsSeeded(seeder'[q].missing)
    BY <1>1, <1>2, <1>3 DEF InsertsSeeded, Has
  <1>13. (up_to_date => CompleteSeed)'
    BY <1>1 DEF CompleteSeed
  <1> QED
    BY <1>5, <1>6, <1>7, <1>8, <1>9, <1>10, <1>11, <1>12, <1>13 DEF SeedInv

\* What a run has by its last step is all the script is for, unless a role was changed meanwhile.
LEMMA SeedCompletes ==
    ASSUME SeedInv, NEW p \in Threads, Script!Commit(p), began[p] = edits
    PROVE  CompleteSeed'
  <1> DEFINE all == stored \union seeder[p].own
  <1>1. stored' = all
    BY DEF Script!Commit
  <1>2. seeder[p].step = 14
    <2>1. seeder[p].step \in 0..14 /\ seeder[p].step # 0
      BY DEF SeedInv, SeedTyped, SeederRecord, Script!Commit, Script!At
    <2>2. seeder[p].step \in 1..13 => Script!Steps[seeder[p].step] # "commit"
      BY StepsAre DEF Script!PlainTables
    <2> QED
      BY <2>1, <2>2 DEF Script!Commit, Script!At
  <1>3. \A n \in 1..13 : Settled(TRUE, n, all)
    <2>1. StepsSettled
      BY DEF SeedInv
    <2>2. \A n \in 1..13 : n < 14
      OBVIOUS
    <2> QED
      BY <1>2, <2>1, <2>2 DEF StepsSettled
  <1> HIDE DEF all
  <1>4. \A table \in Script!PlainTables : HasPlain(all, table)
    BY <1>3, StepsAre DEF Settled
  <1>5. 4 \in 1..13 /\ 5 \in 1..13 /\ 6 \in 1..13 /\ 7 \in 1..13
    OBVIOUS
  <1>6. /\ Script!Steps[4] = "roles" /\ Script!Steps[5] = "missing permissions"
        /\ Script!Steps[6] = "role_permissions" /\ Script!Steps[7] = "users"
    BY StepsAre
  <1>7. \A k \in Roles : Has(all, "roles", k)
    BY <1>3, <1>5, <1>6 DEF Settled
  <1>8. \A k \in Permissions : Has(all, "permissions", k)
    BY <1>3, <1>5, <1>6 DEF Settled
  <1>9. \A k \in RolePermissions : Has(all, "role_permissions", k)
    BY <1>3, <1>5, <1>6 DEF Settled
  <1>10. Has(all, "users", "ven")
    BY <1>3, <1>5, <1>6 DEF Settled
  <1> QED
    BY <1>1, <1>4, <1>7, <1>8, <1>9, <1>10 DEF CompleteSeed

\* All the rows of a run are stored at once.
LEMMA SeedCommits ==
    ASSUME SeedInv, NEW p \in Threads, Script!Commit(p)
    PROVE  SeedInv'
  <1> DEFINE own == seeder[p].own
             all == stored \union own
  <1>1. /\ SeedTyped /\ RunsDiffer /\ SessionsOpen /\ KeysApart /\ PlainTogether /\ StepsSettled
        /\ RolesGiven
        /\ \A q \in Threads : InsertsSeeded(seeder[q].own) /\ InsertsSeeded(seeder[q].missing)
    BY DEF SeedInv
  <1>2. stored' = all /\ up_to_date' = (began[p] = edits) /\ Script!Stop(p) /\ Active(p)
    BY DEF Script!Commit, Script!At, Active
  <1>3. /\ seeder'[p] = Script!IdleSeeder /\ \A q \in Threads \ {p} : seeder'[q] = seeder[q]
        /\ seeder' \in [Threads -> SeederRecord]
        /\ seeds' = seeds /\ edits' = edits /\ began' = began
    BY <1>2, SeedStopped
  <1>4. /\ seeder'[p].step = 0 /\ seeder'[p].looked = FALSE /\ seeder'[p].missing = {}
        /\ seeder'[p].own = {}
    BY <1>3 DEF Script!IdleSeeder
  <1>5. ~Active(p)' /\ \A q \in Threads \ {p} : Active(q)' <=> Active(q)
    BY <1>3, <1>4 DEF Active
  <1>6. seeder[p].step = 14
    <2>1. seeder[p].step \in 0..14
      BY <1>1 DEF SeedTyped, SeederRecord
    <2>2. seeder[p].step \in 1..13 => Script!Steps[seeder[p].step] # "commit"
      BY StepsAre DEF Script!PlainTables
    <2> QED
      BY <1>2, <2>1, <2>2 DEF Script!Commit, Script!At
  <1>7. own \subseteq SeedRow
    BY <1>1 DEF SeedTyped, SeederRecord
  <1>8. \A table, key : Has(all, table, key) <=> Has(stored, table, key) \/ Has(own, table, key)
    BY HasUnion
  <1> HIDE DEF own, all
  <1>9. SeedTyped'
    BY <1>1, <1>2, <1>3, <1>7 DEF SeedTyped, all
  <1>10. RunsDiffer'
    <2>1. \A row \in own : row.run = seeder[p].run
      BY <1>1, <1>2 DEF RunsDiffer, own
    <2>2. \A q \in Threads \ {p} : Active(q) => \A row \in all : row.run # seeder[q].run
      BY <1>1, <1>2, <2>1 DEF RunsDiffer, all
    <2>3. \A row \in all : row.run <= seeds
      BY <1>1, <1>2, <2>1 DEF RunsDiffer, all
    <2> QED
      BY <1>1, <1>2, <1>3, <1>5, <2>2, <2>3 DEF RunsDiffer
  <1>11. SessionsOpen'
    BY <1>1, <1>3, <1>4, <1>5 DEF SessionsOpen
  <1>12. KeysApart'
    <2>1. \A a, b \in all : a.table = b.table /\ a.key = b.key => a = b
      <3> SUFFICES ASSUME NEW a \in all, NEW b \in all, a.table = b.table, a.key = b.key
                   PROVE  a = b
        OBVIOUS
      <3>1. CASE a \in stored /\ b \in stored
        BY <1>1, <3>1 DEF KeysApart
      <3>2. CASE a \in own /\ b \in own
        <4>1. a \in SeedRow /\ b \in SeedRow /\ a.run = b.run
          BY <1>1, <1>2, <1>7, <3>2 DEF RunsDiffer, own
        <4> QED
          BY <4>1 DEF SeedRow
      <3>3. ASSUME NEW c \in own, NEW d \in stored, c.table = d.table, c.key = d.key PROVE FALSE
        <4>1. ~Has(stored, c.table, c.key)
          BY <1>1 DEF KeysApart, own
        <4> QED
          BY <3>3, <4>1 DEF Has
      <3> QED
        BY <3>1, <3>2, <3>3 DEF all
    <2>2. \A q \in Threads : \A row \in seeder'[q].own :
            /\ ~Has(all, row.table, row.key)
            /\ \A other \in Threads \ {q} : ~Has(seeder'[other].own, row.table, row.key)
      <3> SUFFICES ASSUME NEW q \in Threads, NEW row \in seeder'[q].own
                   PROVE  /\ ~Has(all, row.table, row.key)
                          /\ \A other \in Threads \ {q} : ~Has(seeder'[other].own, row.table, row.key)
        OBVIOUS
      <3>1. q # p /\ row \in seeder[q].own
        BY <1>3, <1>4
      <3>2. /\ ~Has(stored, row.table, row.key)
            /\ \A other \in Threads \ {q} : ~Has(seeder[other].own, row.table, row.key)
        BY <1>1, <3>1 DEF KeysApart
      <3>3. ~Has(own, row.table, row.key)
        BY <3>1, <3>2 DEF own
      <3>4. ~Has({}, row.table, row.key)
        BY DEF Has
      <3> QED
        BY <1>3, <1>4, <1>8, <3>2, <3>3, <3>4
    <2> QED
      BY <1>2, <2>1, <2>2 DEF KeysApart
  <1>13. PlainTogether'
    <2>1. \A row \in all : row.table \in Script!PlainTables => row.key = "seeded"
      BY <1>1 DEF PlainTogether, InsertsSeeded, Seeded, all, own
    <2>2. \A table \in Script!PlainTables : HasPlain(own, table) <=> HasPlain(own, "organizations")
      <3> SUFFICES ASSUME NEW table \in Script!PlainTables
                   PROVE  HasPlain(own, table) <=> HasPlain(own, "organizations")
        OBVIOUS
      <3>1. PICK n \in 1..13 : Script!Steps[n] = table
        BY StepsAre
      <3>2. n < 14
        OBVIOUS
      <3> QED
        BY <1>1, <1>2, <1>6, <3>1, <3>2 DEF PlainTogether, own
    <2>3. \A table \in Script!PlainTables : HasPlain(all, table) <=> HasPlain(all, "organizations")
      BY <1>1, <1>8, <2>2 DEF PlainTogether, HasPlain
    <2> QED
      BY <1>1, <1>2, <1>3, <1>5, <2>1, <2>3 DEF PlainTogether
  <1>14. StepsSettled'
    <2>1. \A q \in Threads, n \in 1..13 :
            /\ n < seeder'[q].step => Settled(began[q] = edits, n, all \union seeder'[q].own)
            /\ n = seeder'[q].step /\ seeder'[q].looked =>
                 Settled(began[q] = edits, n, all \union seeder'[q].own \union seeder'[q].missing)
      <3> SUFFICES ASSUME NEW q \in Threads, NEW n \in 1..13
                   PROVE  /\ n < seeder'[q].step => Settled(began[q] = edits, n, all \union seeder'[q].own)
                          /\ n = seeder'[q].step /\ seeder'[q].looked =>
                               Settled(began[q] = edits, n,
                                       all \union seeder'[q].own \union seeder'[q].missing)
        OBVIOUS
      <3>1. CASE q = p
        BY <1>4, <3>1
      <3>2. CASE q # p
        <4>1. seeder'[q] = seeder[q]
          BY <1>3, <3>2
        <4>2. /\ stored \union seeder[q].own \subseteq all \union seeder[q].own
              /\ stored \union seeder[q].own \union seeder[q].missing
                   \subseteq all \union seeder[q].own \union seeder[q].missing
          BY DEF all
        <4>3. (began[q] = edits) \in BOOLEAN
          OBVIOUS
        <4>4. /\ n < seeder[q].step => Settled(began[q] = edits, n, stored \union seeder[q].own)
              /\ n = seeder[q].step /\ seeder[q].looked =>
                   Settled(began[q] = edits, n, stored \union seeder[q].own \union seeder[q].missing)
          BY <1>1 DEF StepsSettled
        <4>5. \A A, B : A \subseteq B /\ Settled(began[q] = edits, n, A) => Settled(began[q] = edits, n, B)
          BY <4>3, SettledMore
        <4> QED
          BY <4>1, <4>2, <4>4, <4>5
      <3> QED
        BY <3>1, <3>2
    <2> QED
      BY <1>2, <1>3, <2>1 DEF StepsSettled
  <1>15. RolesGiven'
    <2>1. \A u \in Script!SeedUsers : Has(own, "users", u[1]) => Has(own, "user_roles", u)
      BY <1>1, <1>6 DEF RolesGiven, own
    <2>2. \A u \in Script!SeedUsers : Has(all, "users", u[1]) => Has(all, "user_roles", u)
      BY <1>1, <1>8, <2>1 DEF RolesGiven
    <2>3. \A u \in Script!SeedUsers, q \in Threads :
            /\ Has(seeder'[q].own, "user_roles", u) \/ Has(seeder'[q].missing, "user_roles", u) =>
                 Has(seeder'[q].own, "users", u[1])
            /\ Has(seeder'[q].own, "users", u[1]) =>
                 /\ seeder'[q].step > 8 => Has(seeder'[q].own, "user_roles", u)
                 /\ seeder'[q].step = 8 /\ seeder'[q].looked => Has(seeder'[q].missing, "user_roles", u)
                 /\ seeder'[q].step > 7
      BY <1>1, <1>3, <1>4 DEF RolesGiven, Has
    <2> QED
      BY <1>2, <2>2, <2>3 DEF RolesGiven
  <1>16. \A q \in Threads : InsertsSeeded(seeder'[q].own) /\ InsertsSeeded(seeder'[q].missing)
    BY <1>1, <1>3, <1>4 DEF InsertsSeeded, Has
  <1>17. (up_to_date => CompleteSeed)'
    BY <1>2, SeedCompletes
  <1> QED
    BY <1>9, <1>10, <1>11, <1>12, <1>13, <1>14, <1>15, <1>16, <1>17 DEF SeedInv

\* A manager takes a permission from a role, or adds a role.
LEMMA SeedEdited ==
    ASSUME SeedInv, Script!Narrow \/ Script!CreateRole
    PROVE  SeedInv'
  <1>1. /\ SeedTyped /\ RunsDiffer /\ SessionsOpen /\ KeysApart /\ PlainTogether /\ StepsSettled
        /\ RolesGiven
        /\ \A q \in Threads : InsertsSeeded(seeder[q].own) /\ InsertsSeeded(seeder[q].missing)
    BY DEF SeedInv
  <1>2. /\ edits' = edits + 1 /\ up_to_date' = FALSE
        /\ seeder' = seeder /\ seeds' = seeds /\ began' = began
    BY DEF Script!Narrow, Script!CreateRole, Script!Edit
  <1>3. \/ \E row \in stored : row.table = "role_permissions" /\ stored' = stored \ {row}
        \/ \E name \in Roles : /\ stored' = stored \union {Script!Row("roles", name, 0)}
                               /\ ~Has(stored, "roles", name)
                               /\ \A q \in Threads : ~Has(seeder[q].own, "roles", name)
    <2>1. CASE Script!Narrow
      BY <2>1 DEF Script!Narrow, Script!Edit, Script!In
    <2>2. CASE Script!CreateRole
      <3>1. PICK name \in Roles \ Script!KeysIn("roles", stored) :
              /\ \A q \in Threads : ~Script!SameKey({Script!Row("roles", name, 0)}, seeder[q].own)
              /\ Script!Edit(stored \union {Script!Row("roles", name, 0)})
        BY <2>2 DEF Script!CreateRole
      <3>2. ~Has(stored, "roles", name)
        BY HasKeys
      <3>3. \A q \in Threads : ~Has(seeder[q].own, "roles", name)
        BY <3>1 DEF Script!SameKey, Script!Keyed, Script!Row, Has
      <3> QED
        BY <3>1, <3>2, <3>3 DEF Script!Edit
    <2> QED
      BY <2>1, <2>2
  <1>4. \A p \in Threads : ~(began[p] = edits + 1)
    <2>1. \A p \in Threads : began[p] \in Nat /\ began[p] <= edits
      BY <1>1 DEF SeedTyped, SessionsOpen
    <2>2. edits \in Nat
      BY <1>1 DEF SeedTyped
    <2> QED
      BY <2>1, <2>2
  <1>5. edits' \in Nat /\ \A p \in Threads : began[p] <= edits'
    <2>1. \A p \in Threads : began[p] \in Nat /\ began[p] <= edits
      BY <1>1 DEF SeedTyped, SessionsOpen
    <2>2. edits \in Nat
      BY <1>1 DEF SeedTyped
    <2> QED
      BY <1>2, <2>1, <2>2
  <1>6. stored' \subseteq SeedRow
    <2>1. \A name \in Roles : Script!Row("roles", name, 0) \in SeedRow
      BY DEF Script!Row, SeedRow, SeedTables, SeedKeys
    <2> QED
      BY <1>1, <1>3, <2>1 DEF SeedTyped
  <1>7. /\ \A row \in stored' : row \in stored \/ (row.table = "roles" /\ row.run = 0)
        /\ \A row \in stored : row \in stored' \/ row.table = "role_permissions"
    <2>1. \A name \in Roles : LET row == Script!Row("roles", name, 0) IN row.table = "roles" /\ row.run = 0
      BY DEF Script!Row
    <2> QED
      BY <1>3, <2>1
  <1>8. \A table, key : table \notin {"roles", "role_permissions"} =>
          (Has(stored', table, key) <=> Has(stored, table, key))
    BY <1>7 DEF Has
  <1>9. SeedTyped'
    BY <1>1, <1>2, <1>5, <1>6 DEF SeedTyped
  <1>10. RunsDiffer'
    <2>1. \A q \in Threads : Active(q)' <=> Active(q)
      BY <1>2 DEF Active
    <2>2. 0 <= seeds
      BY <1>1 DEF SeedTyped
    <2>3. \A q \in Threads : Active(q) => \A row \in stored' : row.run # seeder[q].run
      BY <1>1, <1>7 DEF RunsDiffer
    <2>4. \A row \in stored' : row.run <= seeds
      BY <1>1, <1>7, <2>2 DEF RunsDiffer
    <2> QED
      BY <1>1, <1>2, <2>1, <2>3, <2>4 DEF RunsDiffer
  <1>11. SessionsOpen'
    BY <1>1, <1>2, <1>5 DEF SessionsOpen, Active
  <1>12. KeysApart'
    <2>1. CASE stored' \subseteq stored
      <3>1. \A table, key : Has(stored', table, key) => Has(stored, table, key)
        BY <2>1 DEF Has
      <3> QED
        BY <1>1, <1>2, <2>1, <3>1 DEF KeysApart
    <2>2. ASSUME NEW name \in Roles, stored' = stored \union {Script!Row("roles", name, 0)},
                 ~Has(stored, "roles", name), \A q \in Threads : ~Has(seeder[q].own, "roles", name)
          PROVE  KeysApart'
      <3> DEFINE new == Script!Row("roles", name, 0)
      <3>1. new.table = "roles" /\ new.key = name
        BY DEF Script!Row
      <3> HIDE DEF new
      <3>2. \A a \in stored : ~(a.table = new.table /\ a.key = new.key)
        BY <2>2, <3>1 DEF Has
      <3>3. \A a, b \in stored' : a.table = b.table /\ a.key = b.key => a = b
        BY <1>1, <2>2, <3>2 DEF KeysApart, new
      <3>4. \A q \in Threads : \A row \in seeder[q].own : ~(row.table = new.table /\ row.key = new.key)
        BY <2>2, <3>1 DEF Has
      <3>5. \A q \in Threads : \A row \in seeder[q].own : ~Has(stored', row.table, row.key)
        BY <1>1, <2>2, <3>4 DEF KeysApart, Has, new
      <3> QED
        BY <1>1, <1>2, <3>3, <3>5 DEF KeysApart
    <2> QED
      BY <1>3, <2>1, <2>2
  <1>13. PlainTogether'
    <2>1. \A row \in stored' : row.table \in Script!PlainTables => row \in stored
      BY <1>7 DEF Script!PlainTables
    <2>2. \A table \in Script!PlainTables : HasPlain(stored', table) <=> HasPlain(stored, table)
      BY <1>8 DEF HasPlain, Script!PlainTables
    <2>3. "organizations" \in Script!PlainTables
      BY DEF Script!PlainTables
    <2> QED
      BY <1>1, <1>2, <2>1, <2>2, <2>3 DEF PlainTogether, Active
  <1>14. StepsSettled'
    <2>1. ASSUME NEW n \in 1..13, NEW before \in BOOLEAN, NEW A, Settled(before, n, stored \union A)
          PROVE  Settled(FALSE, n, stored' \union A)
      <3>1. \A table, key : table # "role_permissions" /\ Has(stored \union A, table, key) =>
              Has(stored' \union A, table, key)
        BY <1>7 DEF Has
      <3>2. "role_permissions" \notin Script!PlainTables
        BY DEF Script!PlainTables
      <3> QED
        BY <2>1, <3>1, <3>2 DEF Settled, HasPlain
    <2>2. \A q \in Threads, n \in 1..13 :
            /\ n < seeder[q].step => Settled(FALSE, n, stored' \union seeder[q].own)
            /\ n = seeder[q].step /\ seeder[q].looked =>
                 Settled(FALSE, n, stored' \union (seeder[q].own \union seeder[q].missing))
      <3> SUFFICES ASSUME NEW q \in Threads, NEW n \in 1..13
                   PROVE  /\ n < seeder[q].step => Settled(FALSE, n, stored' \union seeder[q].own)
                          /\ n = seeder[q].step /\ seeder[q].looked =>
                               Settled(FALSE, n, stored' \union (seeder[q].own \union seeder[q].missing))
        OBVIOUS
      <3>1. (began[q] = edits) \in BOOLEAN
        OBVIOUS
      <3>2. /\ n < seeder[q].step => Settled(began[q] = edits, n, stored \union seeder[q].own)
            /\ n = seeder[q].step /\ seeder[q].looked =>
                 Settled(began[q] = edits, n, stored \union seeder[q].own \union seeder[q].missing)
        BY <1>1 DEF StepsSettled
      <3>3. stored \union seeder[q].own \union seeder[q].missing
              = stored \union (seeder[q].own \union seeder[q].missing)
        OBVIOUS
      <3> QED
        BY <2>1, <3>1, <3>2, <3>3
    <2>3. \A q \in Threads : (began[q] = edits + 1) = FALSE
      BY <1>4
    <2>4. \A A, B : stored' \union (A \union B) = stored' \union A \union B
      OBVIOUS
    <2> QED
      BY <1>2, <2>2, <2>3, <2>4 DEF StepsSettled
  <1>15. RolesGiven'
    BY <1>1, <1>2, <1>8 DEF RolesGiven
  <1> QED
    BY <1>1, <1>2, <1>9, <1>10, <1>11, <1>12, <1>13, <1>14, <1>15 DEF SeedInv
\* What a step of a behaviour does to the tables of the script.
LEMMA SeedSteps ==
    ASSUME [MCNext]_<<eventVars, NotEvents>>
    PROVE  \/ \E p \in Threads : Script!Begin(p) \/ Script!Work(p) \/ Script!Crash(p)
           \/ Script!Narrow \/ Script!CreateRole
           \/ UNCHANGED scriptVars
  BY DEF MCNext, NotEvents, NotScript, LogStep, GoodsStep, PassStep, PreferencesStep, DeliveryStep,
         PeopleStep, SiteStep, ScriptStep, About

\* Whatever overlaps, fails or dies.
LEMMA SeedKept == SeedInv /\ [MCNext]_<<eventVars, NotEvents>> => SeedInv'
  <1> SUFFICES ASSUME SeedInv, [MCNext]_<<eventVars, NotEvents>> PROVE SeedInv'
    OBVIOUS
  <1>1. ASSUME NEW p \in Threads, Script!Begin(p) PROVE SeedInv'
    BY <1>1, SeedBegins
  <1>2. ASSUME NEW p \in Threads, Script!Work(p) PROVE SeedInv'
    <2>1. CASE Script!Look(p)
      BY <2>1, SeedLooks
    <2>2. CASE Script!Insert(p)
      BY <2>2, SeedInserts
    <2>3. CASE Script!Raise(p)
      <3>1. Script!Stop(p) /\ stored' = stored /\ up_to_date' = up_to_date
        BY <2>3 DEF Script!Raise
      <3> QED
        BY <3>1, SeedFails
    <2>4. CASE Script!Commit(p)
      BY <2>4, SeedCommits
    <2> QED
      BY <1>2, <2>1, <2>2, <2>3, <2>4 DEF Script!Work
  <1>3. ASSUME NEW p \in Threads, Script!Crash(p) PROVE SeedInv'
    <2>1. Script!Stop(p) /\ stored' = stored /\ up_to_date' = up_to_date
      BY <1>3 DEF Script!Crash, Script!Abandoned
    <2> QED
      BY <2>1, SeedFails
  <1>4. CASE Script!Narrow \/ Script!CreateRole
    BY <1>4, SeedEdited
  <1>5. CASE UNCHANGED scriptVars
    <2>1. /\ stored' = stored /\ seeder' = seeder /\ seeds' = seeds /\ edits' = edits
          /\ up_to_date' = up_to_date /\ began' = began
      BY <1>5 DEF scriptVars
    <2>2. SeedTyped' <=> SeedTyped
      BY <2>1 DEF SeedTyped
    <2>3. (RunsDiffer' <=> RunsDiffer) /\ (SessionsOpen' <=> SessionsOpen)
      BY <2>1 DEF RunsDiffer, SessionsOpen, Active
    <2>4. (KeysApart' <=> KeysApart) /\ (PlainTogether' <=> PlainTogether)
      BY <2>1 DEF KeysApart, PlainTogether, Active
    <2>5. (StepsSettled' <=> StepsSettled) /\ (RolesGiven' <=> RolesGiven)
      BY <2>1 DEF StepsSettled, RolesGiven
    <2>6. CompleteSeed' <=> CompleteSeed
      BY <2>1 DEF CompleteSeed
    <2> QED
      BY <2>1, <2>2, <2>3, <2>4, <2>5, <2>6 DEF SeedInv
  <1> QED
    BY <1>1, <1>2, <1>3, <1>4, <1>5, SeedSteps

\* A run that finds nothing missing has nothing to store.
LEMMA NothingToSeed ==
    ASSUME SeedInv, CompleteSeed, NEW p \in Threads
    PROVE  seeder[p].own = {}
  <1> SUFFICES ASSUME seeder[p].own # {} PROVE FALSE
    OBVIOUS
  <1> DEFINE own == seeder[p].own
  <1>1. /\ InsertsSeeded(own) /\ own \subseteq SeedRow
        /\ \A row \in own : ~Has(stored, row.table, row.key)
    BY DEF SeedInv, SeedTyped, SeederRecord, KeysApart
  <1>2. \A u \in Script!SeedUsers : Has(own, "user_roles", u) => Has(own, "users", u[1])
    BY DEF SeedInv, RolesGiven
  <1> HIDE DEF own
  <1>3. \A key : ~Has(own, "users", key)
    <2>1. ~Has(own, "users", "ven")
      BY <1>1 DEF CompleteSeed, Has
    <2>2. ~Has(own, "users", "admin")
      BY <1>1, <2>1 DEF InsertsSeeded
    <2>3. \A row \in own : row.table = "users" => row.key \in {"admin", "ven"}
      BY <1>1 DEF InsertsSeeded, Seeded
    <2> QED
      BY <2>1, <2>2, <2>3 DEF Has
  <1>4. PICK row \in own : TRUE
    BY DEF own
  <1>5. Seeded(row.table, row.key) /\ row.table \in SeedTables
    BY <1>1 DEF InsertsSeeded, SeedRow
  <1>6. row.table # "users"
    BY <1>3 DEF Has
  <1>7. row.table # "user_roles"
    <2> SUFFICES ASSUME row.table = "user_roles" PROVE FALSE
      OBVIOUS
    <2>1. row.key \in Script!SeedUsers
      BY <1>5 DEF Seeded
    <2>2. Has(own, "users", row.key[1])
      BY <1>2, <2>1 DEF Has
    <2> QED
      BY <1>3, <2>2
  <1>8. Has(stored, row.table, row.key)
    BY <1>5, <1>6, <1>7 DEF Seeded, SeedTables, CompleteSeed, HasPlain
  <1> QED
    BY <1>1, <1>8

\* What the invariant says of the tables of the seed.
LEMMA SeedMeans == SeedInv => SeedLeavesComplete
  <1> SUFFICES ASSUME SeedInv PROVE SeedLeavesComplete
    OBVIOUS
  <1>1. Script!TablesFilledOnce
    BY DEF SeedInv, KeysApart, Script!TablesFilledOnce
  <1>2. Script!SeedUsersHaveRoles
    <2>1. RolesGiven
      BY DEF SeedInv
    <2>2. \A u \in Script!SeedUsers : Has(stored, "users", u[1]) => Has(stored, "user_roles", u)
      BY <2>1 DEF RolesGiven
    <2> QED
      BY <2>2, HasKeys DEF Script!SeedUsersHaveRoles
  <1>3. Script!UpToDateIsComplete
    <2> SUFFICES ASSUME up_to_date
                 PROVE  /\ Roles \subseteq Script!KeysIn("roles", stored)
                        /\ Permissions \subseteq Script!KeysIn("permissions", stored)
                        /\ RolePermissions \subseteq Script!KeysIn("role_permissions", stored)
      BY DEF Script!UpToDateIsComplete
    <2>1. CompleteSeed
      BY DEF SeedInv
    <2> QED
      BY <2>1, HasKeys DEF CompleteSeed
  <1> QED
    BY <1>1, <1>2, <1>3 DEF SeedLeavesComplete

\* From the first state on, whatever the behaviour is about.
LEMMA SeedAlways == MCFairSpec => []SeedInv
  <1>1. MCInit => SeedInv
    BY InitSeeds DEF MCInit
  <1> QED
    BY <1>1, SeedKept, PTL DEF MCFairSpec

\* MCBackOffice.SeedLeavesComplete for any roles and permissions, any number of processes, runs
\* and edits: no row is there twice, the users of the seed have their roles, and what a run
\* during which nobody edited a role leaves is complete (scripts/seed.py).
THEOREM SeedsLeaveComplete == MCFairSpec => []SeedLeavesComplete
  BY SeedAlways, SeedMeans, PTL

\* MCBackOffice.SeedsAreIdempotent for all of them: once a run has left everything complete no
\* run changes anything until a manager does (seed.py:7).
THEOREM SeedsChangeNothing == MCFairSpec => SeedsAreIdempotent
  <1>1. SeedInv /\ [MCNext]_<<eventVars, NotEvents>> => [Script!IdempotentStep]_scriptVars
    <2> SUFFICES ASSUME SeedInv, [MCNext]_<<eventVars, NotEvents>>, up_to_date, up_to_date'
                 PROVE  stored' = stored
      BY DEF Script!IdempotentStep
    <2>1. CompleteSeed
      BY DEF SeedInv
    <2>2. ASSUME NEW p \in Threads, Script!Commit(p) PROVE stored' = stored
      BY <2>1, <2>2, NothingToSeed DEF Script!Commit
    <2>3. ASSUME NEW p \in Threads, Script!Begin(p) \/ Script!Look(p) \/ Script!Insert(p)
                                    \/ Script!Raise(p) \/ Script!Crash(p)
          PROVE  stored' = stored
      BY <2>3 DEF Script!Begin, Script!Look, Script!Insert, Script!Raise, Script!Crash, Script!Abandoned
    <2>4. ~(Script!Narrow \/ Script!CreateRole)
      BY DEF Script!Narrow, Script!CreateRole, Script!Edit
    <2>5. CASE UNCHANGED scriptVars
      BY <2>5 DEF scriptVars
    <2> QED
      BY <2>2, <2>3, <2>4, <2>5, SeedSteps DEF Script!Work
  <1>2. MCFairSpec => [][Script!IdempotentStep]_scriptVars
    BY <1>1, SeedAlways, PTL DEF MCFairSpec
  <1> QED
    BY <1>2 DEF SeedsAreIdempotent, Script!SeedsAreIdempotent, Script!seedVars, scriptVars
=============================================================================
