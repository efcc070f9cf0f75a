----------------------------- MODULE RabbitEvents -----------------------------
(***************************************************************************)
(* The RabbitMQ stream of one thread and one process that writes and reads *)
(* it: RabbitMQStreamBroker and RabbitMQStreamSubscription                 *)
(* (app/event_bus.py), read by SSE streams (iter_events, app/streaming.py).*)
(*                                                                         *)
(* Appenders are tasks of the process that publish one event after the     *)
(* other: a run, its subagents, a cancel request.  They share one producer *)
(* and the broker's lock.  A step ends where the code awaits the server or *)
(* the lock; what does not suspend is part of the step before.             *)
(*                                                                         *)
(* The server and rstream are external: a message that was sent is stored  *)
(* once or lost, the sender learns of a stored one by its confirmation,    *)
(* and a send may time out or fail whether it is stored or not.  A         *)
(* consumer pushes the stream, from its offset or the chunk around it on,  *)
(* into the queue of its subscription, and waits while that is full.       *)
(*                                                                         *)
(* Left out: payloads and their truncation, the retention of the stream.   *)
(***************************************************************************)
EXTENDS Integers, Sequences, Functions

CONSTANTS
    Appender, Reader,
    Nobody,
    Faults,         \* what may go wrong
    QueueLimit,     \* maxsize of a subscription's queue: 1000 in the code
    MaxEvents,      \* a bound: events an appender publishes
    MaxProducers    \* a bound: producers the process may open

ASSUME ConstantsAssumption ==
    /\ Appender \cap Reader = {}
    /\ Nobody \notin Appender \cup Reader
    /\ Faults \subseteq {"timeout", "connection", "unreachable", "late", "leave"}
    /\ QueueLimit \in Nat \ {0}
    /\ MaxEvents \in Nat
    /\ MaxProducers \in Nat \ {0}

VARIABLES
    log,        \* the stream: the event at offset i is log[i + 1]
    flight,     \* messages on their way to the server
    alive,      \* producers with an open connection
    made,       \* producers opened so far
    producer,   \* self._producer, None or the number of one
    declared,   \* is the stream in self._declared?
    lock,       \* who holds self._lock
    app,        \* appender -> its local state
    told,       \* events whose append_event returned
    consumers,  \* readers whose consumer is in _subscription_consumers
    reader      \* reader -> its local state

server == <<log, flight, alive, made>>
shared == <<producer, declared, lock>>
vars == <<server, shared, app, told, consumers, reader>>
-----------------------------------------------------------------------------
None == 0
Producer == 1..MaxProducers
Event == Appender \X (1..MaxEvents)
NoOffset == -1

AppState ==
    [pc : {"idle", "ensure", "lockProducer", "connect", "declare", "create",
           "send", "confirm", "reset"},
     event : 0..MaxEvents,
     attempt : 1..2,
     producer : {None} \cup Producer]

ReaderState ==
    [pc : {"away", "declare", "create", "start", "register", "subscribe",
           "open", "refused", "crashed"},
     cursor : Nat \cup {NoOffset},
     next : Nat,
     queue : Seq(Nat),
     delivered : SUBSET Nat]

TypeOK ==
    /\ log \in Seq(Event)
    /\ flight \subseteq Event \X Producer
    /\ made \in {None} \cup Producer
    /\ alive \subseteq 1..made
    /\ producer \in 0..made
    /\ declared \in BOOLEAN
    /\ lock \in Appender \cup Reader \cup {Nobody}
    /\ app \in [Appender -> AppState]
    /\ told \subseteq Event
    /\ consumers \subseteq Reader
    /\ reader \in [Reader -> ReaderState]
    /\ \A r \in Reader : Len(reader[r].queue) <= QueueLimit
    /\ \A a \in Appender : lock = a <=> app[a].pc \in {"connect", "create"}
    /\ \A r \in Reader : lock = r <=> reader[r].pc = "create"

Init ==
    /\ log = <<>>
    /\ flight = {}
    /\ alive = {1} /\ made = 1 /\ producer = 1     \* setup() has connected
    /\ declared = FALSE
    /\ lock = Nobody
    /\ app = [a \in Appender |->
                [pc |-> "idle", event |-> 0, attempt |-> 1, producer |-> None]]
    /\ told = {}
    /\ consumers = {}
    /\ reader = [r \in Reader |->
                   [pc |-> "away", cursor |-> NoOffset,
                    next |-> 0, queue |-> <<>>, delivered |-> {}]]

Current(a) == <<a, app[a].event>>
LockFree == lock = Nobody
Goto(a, pc) == app' = [app EXCEPT ![a].pc = pc]
Become(a, pc, attempt) ==
    app' = [app EXCEPT ![a] = [pc |-> pc, event |-> app[a].event,
                               attempt |-> attempt, producer |-> None]]
Return(a) == Become(a, "idle", 1)
-----------------------------------------------------------------------------
(* append_event: _ensure_producer.                                         *)

AppendEvent(a) ==
    /\ app[a].pc = "idle" /\ app[a].event < MaxEvents
    /\ app' = [app EXCEPT ![a].pc = "ensure", ![a].event = @ + 1]
    /\ UNCHANGED <<server, shared, told, consumers, reader>>

UseProducer(a) ==
    app' = [app EXCEPT ![a].pc = "declare", ![a].producer = producer]

EnsureProducer(a) ==
    /\ app[a].pc = "ensure"
    /\ IF producer # None THEN UseProducer(a) ELSE Goto(a, "lockProducer")
    /\ UNCHANGED <<server, shared, told, consumers, reader>>

\* Behind the lock it looks again: another appender may have connected.
LockProducer(a) ==
    /\ app[a].pc = "lockProducer" /\ LockFree
    /\ IF producer # None
       THEN UseProducer(a) /\ UNCHANGED lock
       ELSE Goto(a, "connect") /\ lock' = a
    /\ UNCHANGED <<server, producer, declared, told, consumers, reader>>

Connect(a) ==
    /\ app[a].pc = "connect"
    /\ made < MaxProducers
    /\ made' = made + 1
    /\ alive' = alive \cup {made'}
    /\ producer' = made'
    /\ declared' = FALSE
    /\ lock' = Nobody
    /\ app' = [app EXCEPT ![a].pc = "declare", ![a].producer = made']
    /\ UNCHANGED <<log, flight, told, consumers, reader>>

\* Connecting is outside of the try: the append ends with the exception, which
\* PublishingRepository logs.
ConnectFails(a) ==
    /\ app[a].pc = "connect"
    /\ "unreachable" \in Faults \/ made = MaxProducers
    /\ Return(a)
    /\ lock' = Nobody
    /\ UNCHANGED <<server, producer, declared, told, consumers, reader>>
-----------------------------------------------------------------------------
(* _ensure_stream and send_wait.                                           *)

\* The stream is declared with the producer that is there behind the lock.
\* None at all is an exception like any other.
Declare(a) ==
    /\ app[a].pc = "declare" /\ LockFree
    /\ IF declared THEN Goto(a, "send") /\ UNCHANGED lock
       ELSE IF producer = None THEN Goto(a, "reset") /\ UNCHANGED lock
       ELSE Goto(a, "create") /\ lock' = a
    /\ UNCHANGED <<server, producer, declared, told, consumers, reader>>

\* Mutant: a failure leaves the lock taken.
CreateKeepsLock(a) ==
    /\ app[a].pc = "create"
    /\ IF producer \in alive THEN declared' = TRUE /\ Goto(a, "send") /\ lock' = Nobody
                             ELSE Goto(a, "reset") /\ UNCHANGED <<declared, lock>>
    /\ UNCHANGED <<server, producer, told, consumers, reader>>

Create(a) ==
    /\ app[a].pc = "create"
    /\ IF producer \in alive THEN declared' = TRUE /\ Goto(a, "send")
                             ELSE Goto(a, "reset") /\ UNCHANGED declared
    /\ lock' = Nobody
    /\ UNCHANGED <<server, producer, told, consumers, reader>>

Send(a) ==
    /\ app[a].pc = "send"
    /\ IF app[a].producer \in alive
       THEN /\ flight' = flight \cup {<<Current(a), app[a].producer>>}
            /\ Goto(a, "confirm")
       ELSE Goto(a, "reset") /\ UNCHANGED flight
    /\ UNCHANGED <<log, alive, made, shared, told, consumers, reader>>

\* Mutant: send, without waiting for the confirmation.
ConfirmAtOnce(a) ==
    /\ app[a].pc = "confirm"
    /\ app[a].producer \in alive
    /\ told' = told \cup {Current(a)}
    /\ Return(a)
    /\ UNCHANGED <<server, shared, consumers, reader>>

Confirm(a) ==
    /\ app[a].pc = "confirm"
    /\ app[a].producer \in alive
    /\ <<Current(a), app[a].producer>> \notin flight
    /\ told' = told \cup {Current(a)}
    /\ Return(a)
    /\ UNCHANGED <<server, shared, consumers, reader>>

SendFails(a) ==
    /\ app[a].pc = "confirm"
    /\ "timeout" \in Faults \/ app[a].producer \notin alive
    /\ Goto(a, "reset")
    /\ UNCHANGED <<server, shared, told, consumers, reader>>

\* The second failure is raised, and logged by PublishingRepository.
NextAttempt(a) ==
    IF app[a].attempt = 2 THEN Return(a) ELSE Become(a, "ensure", 2)

\* Mutant: whatever producer is there is dropped, also a newer one.
ResetAny(a) ==
    /\ app[a].pc = "reset" /\ LockFree
    /\ producer' = None
    /\ declared' = FALSE
    /\ alive' = alive \ {app[a].producer}
    /\ NextAttempt(a)
    /\ UNCHANGED <<log, flight, made, lock, told, consumers, reader>>

\* _reset_producer: unless it was replaced, the failed producer is closed.
Reset(a) ==
    /\ app[a].pc = "reset" /\ LockFree
    /\ IF producer = app[a].producer
       THEN /\ producer' = None
            /\ declared' = FALSE
            /\ alive' = alive \ {app[a].producer}
       ELSE UNCHANGED <<producer, declared, alive>>
    /\ NextAttempt(a)
    /\ UNCHANGED <<log, flight, made, lock, told, consumers, reader>>
-----------------------------------------------------------------------------
(* The server.                                                             *)

\* What was sent over a connection that is closed by now may still be stored.
Store(m) ==
    /\ m \in flight
    /\ m[2] \in alive \/ "late" \in Faults
    /\ log' = Append(log, m[1])
    /\ flight' = flight \ {m}
    /\ UNCHANGED <<alive, made, shared, app, told, consumers, reader>>

Lose(m) ==
    /\ m \in flight
    /\ m[2] \notin alive
    /\ flight' = flight \ {m}
    /\ UNCHANGED <<log, alive, made, shared, app, told, consumers, reader>>

ConnectionLost(p) ==
    /\ "connection" \in Faults
    /\ p \in alive
    /\ alive' = alive \ {p}
    /\ UNCHANGED <<log, flight, made, shared, app, told, consumers, reader>>
-----------------------------------------------------------------------------
(* subscribe.                                                              *)

ReaderGoto(r, pc) == reader' = [reader EXCEPT ![r].pc = pc]

\* The client comes with nothing, or with the last event it was given.
\* Without a producer the broker says that setup() was not called.
Enter(r) ==
    /\ reader[r].pc = "away"
    /\ ReaderGoto(r, IF producer = None THEN "crashed" ELSE "declare")
    /\ UNCHANGED <<server, shared, app, told, consumers>>

ReaderDeclare(r) ==
    /\ reader[r].pc = "declare" /\ LockFree
    /\ IF declared THEN ReaderGoto(r, "start") /\ UNCHANGED lock
       ELSE IF producer = None THEN ReaderGoto(r, "crashed") /\ UNCHANGED lock
       ELSE ReaderGoto(r, "create") /\ lock' = r
    /\ UNCHANGED <<server, producer, declared, app, told, consumers>>

\* A closed connection raises an OSError: EventBrokerUnavailable.
ReaderCreate(r) ==
    /\ reader[r].pc = "create"
    /\ IF producer \in alive THEN declared' = TRUE /\ ReaderGoto(r, "start")
                             ELSE ReaderGoto(r, "refused") /\ UNCHANGED declared
    /\ lock' = Nobody
    /\ UNCHANGED <<server, producer, app, told, consumers>>

\* The consumer has a connection of its own.
StartConsumer(r) ==
    /\ reader[r].pc = "start"
    /\ ReaderGoto(r, "register")
    /\ UNCHANGED <<server, shared, app, told, consumers>>

StartFails(r) ==
    /\ reader[r].pc = "start" /\ "unreachable" \in Faults
    /\ ReaderGoto(r, "refused")
    /\ UNCHANGED <<server, shared, app, told, consumers>>

Register(r) ==
    /\ reader[r].pc = "register" /\ LockFree
    /\ consumers' = consumers \cup {r}
    /\ ReaderGoto(r, "subscribe")
    /\ UNCHANGED <<server, shared, app, told>>

\* Mutant: the offset after the next one.
SubscribeOffByOne(r) ==
    /\ reader[r].pc = "subscribe"
    /\ \E start \in {reader[r].cursor + 2} :
         reader' = [reader EXCEPT ![r].pc = "open", ![r].next = start, ![r].queue = <<>>]
    /\ UNCHANGED <<server, shared, app, told, consumers>>

\* OFFSET since + 1, or FIRST; delivery starts with the chunk that holds it.
Subscribe(r) ==
    /\ reader[r].pc = "subscribe"
    /\ \E start \in 0..(reader[r].cursor + 1) :
         reader' = [reader EXCEPT ![r].pc = "open", ![r].next = start, ![r].queue = <<>>]
    /\ UNCHANGED <<server, shared, app, told, consumers>>

SubscribeFails(r) ==
    /\ reader[r].pc = "subscribe" /\ "unreachable" \in Faults
    /\ consumers' = consumers \ {r}
    /\ ReaderGoto(r, "crashed")
    /\ UNCHANGED <<server, shared, app, told>>
-----------------------------------------------------------------------------
(* next_event, iter_events and close.                                      *)

\* Mutant: put_nowait, and an event that does not fit is dropped.
PushDrops(r) ==
    /\ reader[r].pc = "open"
    /\ reader[r].next < Len(log)
    /\ reader' = [reader EXCEPT
         ![r].queue = IF Len(@) < QueueLimit THEN Append(@, reader[r].next) ELSE @,
         ![r].next = @ + 1]
    /\ UNCHANGED <<server, shared, app, told, consumers>>

Push(r) ==
    /\ reader[r].pc = "open"
    /\ reader[r].next < Len(log)
    /\ Len(reader[r].queue) < QueueLimit
    /\ reader' = [reader EXCEPT ![r].queue = Append(@, reader[r].next), ![r].next = @ + 1]
    /\ UNCHANGED <<server, shared, app, told, consumers>>

Deliver(r) ==
    /\ reader[r].pc = "open" /\ reader[r].queue # <<>>
    /\ LET offset == Head(reader[r].queue) IN
       reader' = [reader EXCEPT
         ![r].queue = Tail(@),
         ![r].cursor = IF offset > @ THEN offset ELSE @,
         ![r].delivered = IF offset > reader[r].cursor THEN @ \cup {offset} ELSE @]
    /\ UNCHANGED <<server, shared, app, told, consumers>>

\* close(): the consumer is forgotten whatever unsubscribing raises.
Leave(r) ==
    /\ reader[r].pc = "open" /\ "leave" \in Faults
    /\ consumers' = consumers \ {r}
    /\ reader' = [reader EXCEPT ![r].pc = "away", ![r].next = 0, ![r].queue = <<>>]
    /\ UNCHANGED <<server, shared, app, told>>

\* The client leaves while subscribe awaits the server: a cancellation is not
\* an Exception, and nothing closes the consumer.
LeaveEarly(r) ==
    /\ reader[r].pc \in {"declare", "create", "start", "register", "subscribe"}
    /\ "leave" \in Faults
    /\ lock' = IF lock = r THEN Nobody ELSE lock
    /\ ReaderGoto(r, "away")
    /\ UNCHANGED <<server, producer, declared, app, told, consumers>>

\* The stream was ended after `retry', or broke: the client comes again.
Retry(r) ==
    /\ reader[r].pc \in {"refused", "crashed"}
    /\ ReaderGoto(r, "away")
    /\ UNCHANGED <<server, shared, app, told, consumers>>
-----------------------------------------------------------------------------
AppenderStep(a) ==
    \/ EnsureProducer(a) \/ LockProducer(a) \/ Connect(a) \/ ConnectFails(a)
    \/ Declare(a) \/ Create(a) \/ Send(a) \/ Confirm(a) \/ SendFails(a) \/ Reset(a)

ReaderStep(r) ==
    \/ Enter(r) \/ ReaderDeclare(r) \/ ReaderCreate(r) \/ StartConsumer(r)
    \/ Register(r) \/ Subscribe(r) \/ Push(r) \/ Deliver(r) \/ Retry(r)

ServerStep == \E m \in flight : Store(m) \/ Lose(m)

Next ==
    \/ \E a \in Appender : AppendEvent(a) \/ AppenderStep(a)
    \/ \E r \in Reader : ReaderStep(r) \/ StartFails(r) \/ SubscribeFails(r)
                         \/ Leave(r) \/ LeaveEarly(r)
    \/ ServerStep
    \/ \E p \in Producer : ConnectionLost(p)

Spec == Init /\ [][Next]_vars

\* The server answers, the tasks of the process run, and a client that was
\* refused comes again.  Whether an appender has more to say is up to it.
FairSpec ==
    /\ Spec
    /\ WF_vars(ServerStep)
    /\ \A a \in Appender : SF_vars(AppenderStep(a))
    /\ \A r \in Reader : SF_vars(ReaderStep(r))
-----------------------------------------------------------------------------
(* What holds.                                                             *)

\* An event whose publication returned is in the stream, and those of one
\* appender are there in the order of their publication: every copy of one comes
\* after a copy of each earlier one, whatever was repeated, reset or stored late
\* in between (append_event).
ToldInOrder ==
    \A e \in told :
        /\ e \in Range(log)
        /\ \A d \in told, i \in DOMAIN log :
             d[1] = e[1] /\ d[2] < e[2] /\ log[i] = e => \E j \in 1..(i - 1) : log[j] = d

\* Appenders that fail at the same time drop the producer they failed with and
\* no newer one: the only open connection is the broker's (_reset_producer).
NoProducerLeaks == alive \subseteq {producer}

\* A stream is given each event once, in the order of the offsets, and none is
\* left out: however often its client comes back with its last offset, wherever
\* the server starts to deliver, and although the queue is short (subscribe,
\* iter_events).
Feed == INSTANCE EventFeed
            WITH Follower <- Reader, Before <- NoOffset, events <- 0..(Len(log) - 1),
                 last <- [r \in Reader |-> reader[r].cursor],
                 given <- [r \in Reader |-> reader[r].delivered]
FeedSpec == Feed!Spec

\* So it has every offset up to its cursor.
NoOffsetMissed ==
    \A r \in Reader : reader[r].delivered = 0..reader[r].cursor

\* An append ends: no failure of one task leaves another one at the lock.
AppendsEnd == \A a \in Appender : app[a].pc # "idle" ~> app[a].pc = "idle"

\* An open stream is given whatever is in the log, through a queue that holds
\* less than that.
StreamsCatchUp ==
    \A r \in Reader :
        reader[r].pc = "open" ~> reader[r].pc # "open" \/ reader[r].cursor = Len(log) - 1
=============================================================================
