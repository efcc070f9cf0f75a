----------------------------- MODULE LiveEvents -----------------------------
(***************************************************************************)
(* How the events of ONE run reach those who follow it, in one process     *)
(* with the in-memory broker: PublishingRepository and InMemoryEventBroker *)
(* (app/event_bus.py), iter_events and wait_for_next_event                 *)
(* (app/streaming.py), and the four kinds of followers in app/main.py:     *)
(*                                                                         *)
(*   - SSE streams (stream_existing_run), which clients leave and re-enter *)
(*     with the Last-Event-ID they have seen;                              *)
(*   - WebSockets, whose two loops send what is subscribed to: one the     *)
(*     events so far, the other those that come in;                        *)
(*   - join_run, which reads the record between two events;                *)
(*   - wait_for_run_output, which reads the log between two events.        *)
(*                                                                         *)
(* The broker numbers its events 0, 1, 2, ... itself and keeps the newest  *)
(* of them; publishing and subscribing never suspend, so each is one step. *)
(* What is persisted in the store has numbers of its own and is not read   *)
(* again: list_events and subscribe ask the broker.                        *)
(***************************************************************************)
EXTENDS Integers, Sequences, FiniteSets, Functions

CONSTANTS
    Stream,         \* SSE clients
    Socket,         \* WebSockets
    Joiner,         \* requests in join_run
    Waiter,         \* requests in wait_for_run_output
    HistoryLimit,   \* events the broker keeps: 1000 in the code
    QueueLimit,     \* maxsize of a subscriber's queue: 1000 in the code
    MaxEvents,      \* a bound: events the run emits before its last one
    Together        \* a bound: the sets of followers that come in one behaviour

ASSUME ConstantsAssumption ==
    /\ HistoryLimit \in Nat \ {0}
    /\ QueueLimit \in Nat
    /\ HistoryLimit <= QueueLimit    \* or subscribing could overflow the queue
    /\ MaxEvents \in Nat
    /\ Together \subseteq SUBSET (Stream \cup Socket \cup Joiner \cup Waiter)
    /\ Stream \cap Socket = {}       \* a request is of one kind
    /\ (Stream \cup Socket) \cap (Joiner \cup Waiter) = {}

VARIABLES
    runner,      \* where the run is
    status,      \* the status of its record
    stored,      \* events of the run in the store
    published,   \* events of the run the broker has numbered
    pc,          \* follower -> where it is
    cursor,      \* follower -> the last event it was given, None if none
    queue,       \* follower -> the queue of its subscription
    first,       \* stream -> the cursor it first came with
    delivered,   \* stream -> the events it was given,
                 \* socket -> those sent since its last subscription.subscribe
    socket       \* socket -> its subscription, what is left of the replay, and
                 \* the cursor both loops move

run == <<runner, status, stored, published>>
vars == <<run, pc, cursor, queue, first, delivered, socket>>
-----------------------------------------------------------------------------
None == -1
Follower == Stream \cup Socket \cup Joiner \cup Waiter
Event == 0..MaxEvents
NewSocket == [subscribed |-> FALSE, replay |-> <<>>, cursor |-> None]

TypeOK ==
    /\ runner \in {"stream", "publish", "tell", "publishEnd", "done"}
    /\ status \in {"running", "success"}
    /\ stored \in 0..(MaxEvents + 1)
    /\ published \in 0..stored
    /\ pc \in [Follower -> {"new", "open", "away", "poll", "subscribe", "wait",
                            "done", "gone"}]
    /\ cursor \in [Follower -> Event \cup {None}]
    /\ \A f \in Follower :
         /\ Len(queue[f]) <= QueueLimit
         /\ \A i \in DOMAIN queue[f] : queue[f][i] \in Event
    /\ first \in [Stream -> Event \cup {None}]
    /\ delivered \in [Stream \cup Socket -> SUBSET Event]
    /\ \A k \in Socket :
         /\ socket[k].subscribed \in BOOLEAN
         /\ Len(socket[k].replay) <= HistoryLimit
         /\ socket[k].cursor \in Event \cup {None}

Init ==
    /\ runner = "stream"
    /\ status = "running"
    /\ stored = 0
    /\ published = 0
    /\ \E followers \in Together :
         pc = [f \in Follower |-> CASE f \notin followers -> "gone"
                                   [] f \in Stream \cup Socket -> "new"
                                   [] OTHER -> "poll"]
    /\ cursor = [f \in Follower |-> None]
    /\ queue = [f \in Follower |-> <<>>]
    /\ first = [s \in Stream |-> None]
    /\ delivered = [s \in Stream \cup Socket |-> {}]
    /\ socket = [k \in Socket |-> NewSocket]

\* The last event of the run is its terminal lifecycle event.
IsTerminal(event) == runner = "done" /\ event = published - 1

\* broker.list_events(since)
Events(since) ==
    {e \in 0..(published - 1) : e >= published - HistoryLimit /\ e > since}
Oldest(events) == CHOOSE e \in events : \A o \in events : e <= o
Newest(events) == CHOOSE e \in events : \A o \in events : e >= o
\* What a new subscription finds in its queue.
Replay(since) ==
    [i \in 1..Cardinality(Events(since)) |-> Oldest(Events(since)) + i - 1]

Subscribed == {f \in Follower : pc[f] \in {"open", "wait"}}
Full == {f \in Subscribed : Len(queue[f]) = QueueLimit}
-----------------------------------------------------------------------------
(* The run: append_event persists an event and then publishes it.          *)

Persist ==
    /\ runner = "stream"
    /\ stored < MaxEvents
    /\ stored' = stored + 1
    /\ runner' = "publish"
    /\ UNCHANGED <<status, published, pc, cursor, queue, first, delivered, socket>>

PersistEnd ==
    /\ runner = "tell"
    /\ stored' = stored + 1
    /\ runner' = "publishEnd"
    /\ UNCHANGED <<status, published, pc, cursor, queue, first, delivered, socket>>

\* The runner saves the outcome and then tells it.
SaveOutcome ==
    /\ runner = "stream"
    /\ status' = "success"
    /\ runner' = "tell"
    /\ UNCHANGED <<stored, published, pc, cursor, queue, first, delivered, socket>>

Deliverable(reached) ==
    queue' = [f \in Follower |-> IF f \in reached THEN Append(queue[f], published)
                                 ELSE queue[f]]

\* Mutant of Publish: the queues are not bounded.
PublishUnbounded ==
    /\ runner \in {"publish", "publishEnd"}
    /\ published' = published + 1
    /\ Deliverable(Subscribed)
    /\ runner' = IF runner = "publish" THEN "stream" ELSE "done"
    /\ UNCHANGED <<status, stored, pc, cursor, first, delivered, socket>>

\* The event is put on one queue after the other.  The first full one raises
\* QueueFull, which the caller only logs: the queues behind it, in the order of
\* a set, do not get the event either.
Publish ==
    /\ runner \in {"publish", "publishEnd"}
    /\ published' = published + 1
    /\ \/ Full = {} /\ Deliverable(Subscribed)
       \/ Full # {} /\ \E reached \in SUBSET (Subscribed \ Full) : Deliverable(reached)
    /\ runner' = IF runner = "publish" THEN "stream" ELSE "done"
    /\ UNCHANGED <<status, stored, pc, cursor, first, delivered, socket>>
-----------------------------------------------------------------------------
(* SSE streams.                                                            *)

\* Mutant of Subscribe: the event after the cursor counts as seen.
SubscribeOffByOne(f, since) ==
    queue' = [queue EXCEPT ![f] = Replay(since + 1)]

\* Mutant of Subscribe: only live events.
SubscribeLive(f, since) == queue' = [queue EXCEPT ![f] = <<>>]

Subscribe(f, since) == queue' = [queue EXCEPT ![f] = Replay(since)]
Unsubscribe(f) == queue' = [queue EXCEPT ![f] = <<>>]

\* The client comes for the first time, with or without a Last-Event-ID.
Connect(s) ==
    /\ pc[s] = "new"
    /\ \E since \in {None} \cup 0..(published - 1) :
         /\ first' = [first EXCEPT ![s] = since]
         /\ cursor' = [cursor EXCEPT ![s] = since]
         /\ Subscribe(s, since)
    /\ pc' = [pc EXCEPT ![s] = "open"]
    /\ UNCHANGED <<run, delivered, socket>>

\* iter_events: a seen number is skipped, the terminal event ends the stream.
Deliver(s) ==
    /\ pc[s] = "open"
    /\ queue[s] # <<>>
    /\ LET event == Head(queue[s]) IN
       IF event <= cursor[s]
       THEN /\ queue' = [queue EXCEPT ![s] = Tail(@)]
            /\ UNCHANGED <<pc, cursor, delivered>>
       ELSE /\ cursor' = [cursor EXCEPT ![s] = event]
            /\ delivered' = [delivered EXCEPT ![s] = @ \cup {event}]
            /\ IF IsTerminal(event)
               THEN Unsubscribe(s) /\ pc' = [pc EXCEPT ![s] = "done"]
               ELSE /\ queue' = [queue EXCEPT ![s] = Tail(@)]
                    /\ UNCHANGED pc
    /\ UNCHANGED <<run, first, socket>>

Disconnect(s) ==
    /\ pc[s] = "open"
    /\ Unsubscribe(s)
    /\ pc' = [pc EXCEPT ![s] = "away"]
    /\ UNCHANGED <<run, cursor, first, delivered, socket>>

Reconnect(s) ==
    /\ pc[s] = "away"
    /\ Subscribe(s, cursor[s])
    /\ pc' = [pc EXCEPT ![s] = "open"]
    /\ UNCHANGED <<run, cursor, first, delivered, socket>>
-----------------------------------------------------------------------------
(* WebSockets: protocol_events_websocket.  A client holds one subscription *)
(* at a time, for every event.  What is sent is received, and in order.    *)
(* Other commands are handed to the run service and move nothing here.     *)

\* send_loop subscribes to the thread from the cursor, which is not set yet.
SocketConnect(k) ==
    /\ pc[k] = "new"
    /\ Subscribe(k, None)
    /\ pc' = [pc EXCEPT ![k] = "open"]
    /\ UNCHANGED <<run, cursor, first, delivered, socket>>

Later(e, f) == IF e > f THEN e ELSE f

\* receive_loop enters the subscription and then reads the events so far.
SocketSubscribe(k) ==
    /\ pc[k] = "open" /\ ~socket[k].subscribed
    /\ socket' = [socket EXCEPT ![k].subscribed = TRUE, ![k].replay = Replay(None)]
    /\ delivered' = [delivered EXCEPT ![k] = {}]
    /\ UNCHANGED <<run, pc, cursor, queue, first>>

\* Each send of the replay suspends receive_loop, not send_loop.
SocketReplay(k) ==
    /\ pc[k] = "open" /\ socket[k].replay # <<>>
    /\ LET event == Head(socket[k].replay) IN
       /\ delivered' = [delivered EXCEPT ![k] = @ \cup {event}]
       /\ socket' = [socket EXCEPT ![k].replay = Tail(@), ![k].cursor = Later(@, event)]
    /\ UNCHANGED <<run, pc, cursor, queue, first>>

\* Commands are handled one after the other, so the replay is over.
SocketUnsubscribe(k) ==
    /\ pc[k] = "open" /\ socket[k].subscribed /\ socket[k].replay = <<>>
    /\ socket' = [socket EXCEPT ![k].subscribed = FALSE]
    /\ delivered' = [delivered EXCEPT ![k] = {}]
    /\ UNCHANGED <<run, pc, cursor, queue, first>>

\* What send_matching_events sends of an event.
Matching(k, event) == IF socket[k].subscribed THEN {event} ELSE {}

\* send_loop and iter_events: every event moves the cursor, an event that nobody
\* has subscribed to is dropped.
SocketDeliver(k) ==
    /\ pc[k] = "open" /\ queue[k] # <<>>
    /\ queue' = [queue EXCEPT ![k] = Tail(@)]
    /\ LET event == Head(queue[k]) IN
       IF event <= cursor[k]
       THEN UNCHANGED <<cursor, delivered, socket>>
       ELSE /\ cursor' = [cursor EXCEPT ![k] = event]
            /\ socket' = [socket EXCEPT ![k].cursor = Later(@, event)]
            /\ delivered' = [delivered EXCEPT ![k] = @ \cup Matching(k, event)]
    /\ UNCHANGED <<run, pc, first>>

\* Either loop ends, and the other one is cancelled.
SocketClose(k) ==
    /\ pc[k] = "open"
    /\ Unsubscribe(k)
    /\ pc' = [pc EXCEPT ![k] = "gone"]
    /\ UNCHANGED <<run, cursor, first, delivered, socket>>
-----------------------------------------------------------------------------
(* join_run and wait_for_run_output.                                       *)

\* get_run: the record tells whether the run has ended.
JoinPoll(j) ==
    /\ pc[j] = "poll"
    /\ pc' = [pc EXCEPT ![j] = IF status = "success" THEN "done" ELSE "subscribe"]
    /\ UNCHANGED <<run, cursor, queue, first, delivered, socket>>

\* list_events(cursor): the terminal event is looked for among the newer ones.
WaitPoll(w) ==
    /\ pc[w] = "poll"
    /\ LET events == Events(cursor[w]) IN
       IF \E e \in events : IsTerminal(e)
       THEN pc' = [pc EXCEPT ![w] = "done"] /\ UNCHANGED cursor
       ELSE /\ pc' = [pc EXCEPT ![w] = "subscribe"]
            /\ cursor' = IF events = {} THEN cursor
                         ELSE [cursor EXCEPT ![w] = Newest(events)]
    /\ UNCHANGED <<run, queue, first, delivered, socket>>

\* wait_for_next_event subscribes, takes one event and unsubscribes.
WaitSubscribe(f) ==
    /\ pc[f] = "subscribe"
    /\ Subscribe(f, cursor[f])
    /\ pc' = [pc EXCEPT ![f] = "wait"]
    /\ UNCHANGED <<run, cursor, first, delivered, socket>>

NextEvent(f) ==
    /\ pc[f] = "wait"
    /\ queue[f] # <<>>
    /\ cursor' = [cursor EXCEPT ![f] = Head(queue[f])]
    /\ Unsubscribe(f)
    /\ pc' = [pc EXCEPT ![f] = "poll"]
    /\ UNCHANGED <<run, first, delivered, socket>>

\* Mutant of Timeout: the wait is repeated, nothing is polled.
TimeoutWaitsOn(f) ==
    /\ pc[f] = "wait"
    /\ queue[f] = <<>>
    /\ UNCHANGED vars

\* No event within 30 seconds.
Timeout(f) ==
    /\ pc[f] = "wait"
    /\ queue[f] = <<>>
    /\ pc' = [pc EXCEPT ![f] = "poll"]
    /\ UNCHANGED <<run, cursor, queue, first, delivered, socket>>

\* The client hangs up: 499.
Leave(f) ==
    /\ pc[f] = "poll"
    /\ pc' = [pc EXCEPT ![f] = "gone"]
    /\ UNCHANGED <<run, cursor, queue, first, delivered, socket>>
-----------------------------------------------------------------------------
RunStep == Persist \/ SaveOutcome \/ PersistEnd \/ Publish

FollowerStep(f) ==
    \/ f \in Stream /\ Deliver(f)
    \/ f \in Socket /\ (SocketReplay(f) \/ SocketDeliver(f))
    \/ f \in Joiner /\ JoinPoll(f)
    \/ f \in Waiter /\ WaitPoll(f)
    \/ f \in Joiner \cup Waiter /\ (WaitSubscribe(f) \/ NextEvent(f) \/ Timeout(f))

ClientStep ==
    \/ \E s \in Stream : Connect(s) \/ Disconnect(s) \/ Reconnect(s)
    \/ \E k \in Socket : \/ SocketConnect(k) \/ SocketClose(k)
                         \/ SocketSubscribe(k) \/ SocketUnsubscribe(k)
    \/ \E f \in Joiner \cup Waiter : Leave(f)

Next == RunStep \/ (\E f \in Follower : FollowerStep(f)) \/ ClientStep

Spec == Init /\ [][Next]_vars

\* The run goes on and ends, and the server serves an open request: what is on
\* a queue is taken off it, and a wait without an event times out.
FairSpec ==
    /\ Spec
    /\ WF_vars(RunStep)
    /\ \A f \in Follower : WF_vars(FollowerStep(f))
-----------------------------------------------------------------------------
(* What holds.                                                             *)

\* As long as the limits are not reached, an open stream was given, or has on
\* its queue, every event after the one it first came with, however often its
\* client left and came back and whatever was published meanwhile: subscribing
\* replays and joins the live events in one step (InMemoryEventBroker.subscribe).
\* A subscription of a WebSocket misses nothing between its replay and the events
\* that come in, and applied_through_seq promises no event it was not sent.
CompleteUpToLimit ==
    published <= HistoryLimit =>
      /\ \A s \in Stream :
           pc[s] \in {"open", "done"} =>
             delivered[s] \cup Range(queue[s]) = {e \in 0..(published - 1) : e > first[s]}
      /\ \A k \in Socket :
           pc[k] = "open" /\ socket[k].subscribed =>
             /\ delivered[k] \cup Range(socket[k].replay) \cup Range(queue[k])
                  = 0..(published - 1)
             /\ socket[k].replay = <<>> => 0..socket[k].cursor \subseteq delivered[k]

\* Until then a stream is given each event behind the one it first came with once
\* and in order, however often its client comes back with its last number.
Feed == INSTANCE EventFeed
            WITH Follower <- Stream, Before <- None, events <- 0..(published - 1),
                 last <- [s \in Stream |-> cursor[s]],
                 given <- [s \in Stream |-> delivered[s]]
FeedSpec == Feed!Init /\ [][published' <= HistoryLimit => Feed!Next]_(Feed!vars)

\* An open stream ends with the run, or its client leaves first: the terminal
\* event is on its queue even if it came back only after the run had ended
\* (stop_on_terminal).  A stream that came with the terminal event as its
\* Last-Event-ID is left open with heartbeats.
StreamsEnd ==
    \A s \in Stream :
      pc[s] = "open" ~> \/ pc[s] # "open"
                        \/ published > HistoryLimit
                        \/ runner = "done" /\ first[s] = published - 1

\* join_run returns when the run has ended, even if the event it waits for is
\* lost on a full queue: the record is read again after every timeout.  So does
\* wait_for_run_output, unless the terminal event is the one that
\* wait_for_next_event took from its queue: list_events looks behind it only.
JoinReturns ==
    /\ \A j \in Joiner : pc[j] = "poll" ~> pc[j] \in {"done", "gone"}
    /\ \A w \in Waiter :
         pc[w] = "poll" ~> \/ pc[w] \in {"done", "gone"}
                           \/ runner = "done" /\ cursor[w] = published - 1
=============================================================================
