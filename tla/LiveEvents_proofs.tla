-------------------------- MODULE LiveEvents_proofs --------------------------
(***************************************************************************)
(* Proofs about LiveEvents: its types, and that a stream or a subscription *)
(* misses no event as long as the broker still keeps all of them.          *)
(*                                                                         *)
(* The argument: within the limit a subscription finds the events behind   *)
(* its cursor on its queue, and no queue is full, so the queue of an open  *)
(* follower is always the rest of the numbers, from its cursor to the last *)
(* one that was published (Rest).  What a stream was given is what lies    *)
(* between the cursors it first came with and has now (StreamInv).  What a *)
(* socket was sent or will be by its replay has no holes and reaches up to *)
(* either cursor (SocketInv).                                              *)
(***************************************************************************)
EXTENDS LiveEvents, FiniteSetTheorems, SequenceTheorems, TLAPS

Sockets == [subscribed : BOOLEAN, replay : Seq(Event), cursor : Event \cup {None}]

\* Where the run is, in numbers.
RunInv ==
    /\ runner \in {"stream", "publish", "tell", "publishEnd", "done"}
    /\ status \in {"running", "success"}
    /\ stored \in Nat /\ published \in Nat
    /\ runner \in {"stream", "tell"} => stored = published /\ stored <= MaxEvents
    /\ runner = "publish" => stored = published + 1 /\ stored <= MaxEvents
    /\ runner = "publishEnd" => stored = published + 1 /\ stored <= MaxEvents + 1
    /\ runner = "done" => stored = published /\ stored <= MaxEvents + 1

QueuesOK ==
    /\ queue \in [Follower -> Seq(Event)]
    /\ \A f \in Follower : Len(queue[f]) <= QueueLimit /\ Len(queue[f]) <= published
FollowersOK ==
    /\ pc \in [Follower -> {"new", "open", "away", "poll", "subscribe", "wait",
                            "done", "gone"}]
    /\ cursor \in [Follower -> Event \cup {None}]
    /\ first \in [Stream -> Event \cup {None}]
    /\ delivered \in [Stream \cup Socket -> SUBSET Event]
SocketsOK ==
    /\ socket \in [Socket -> Sockets]
    /\ \A k \in Socket : Len(socket[k].replay) <= HistoryLimit
TypeInv == RunInv /\ QueuesOK /\ FollowersOK /\ SocketsOK

\* The numbers behind c that were published, in order.
Rest(q, c) ==
    /\ c < published
    /\ Len(q) = published - 1 - c
    /\ \A i \in 1..Len(q) : q[i] = c + i

StreamInv(s) ==
    /\ pc[s] \in {"open", "done"} => Rest(queue[s], cursor[s])
    /\ pc[s] \in {"open", "away", "done"} =>
         /\ cursor[s] < published
         /\ delivered[s] = {e \in Event : first[s] < e /\ e <= cursor[s]}
         /\ first[s] <= cursor[s]
    /\ pc[s] = "new" => delivered[s] = {} /\ cursor[s] = None
    /\ pc[s] = "done" => runner = "done"

\* What a socket was sent since it subscribed, or will be by its replay.
Sent(k) == delivered[k] \cup Range(socket[k].replay)
SocketInv(k) ==
    /\ pc[k] = "new" => cursor[k] = None /\ ~socket[k].subscribed
    /\ socket[k].cursor < published /\ cursor[k] < published
    /\ \A e \in Sent(k) : e < published
    /\ pc[k] = "open" => Rest(queue[k], cursor[k])
    /\ pc[k] = "open" /\ socket[k].subscribed =>
         /\ \A e \in Sent(k) : 0..e \subseteq Sent(k)
         /\ 0..cursor[k] \subseteq Sent(k) /\ 0..socket[k].cursor \subseteq Sent(k)

LiveInv ==
    published <= HistoryLimit =>
      (\A s \in Stream : StreamInv(s)) /\ (\A k \in Socket : SocketInv(k))
IInv == TypeInv /\ LiveInv

-----------------------------------------------------------------------------
(* Queues.                                                                 *)

LEMMA Numbers ==
    ASSUME RunInv
    PROVE  /\ published \in Nat /\ published <= MaxEvents + 1 /\ MaxEvents \in Nat
           /\ 0..(published - 1) \subseteq Event
           /\ HistoryLimit \in Nat /\ QueueLimit \in Nat /\ HistoryLimit <= QueueLimit
BY ConstantsAssumption DEF RunInv, Event

\* What the broker finds behind `since' is an interval that ends with its newest.
LEMMA EventsAre ==
    ASSUME RunInv, NEW since \in Event \cup {None}
    PROVE  \E lo \in Nat :
             /\ Events(since) = lo..(published - 1)
             /\ lo > since /\ lo >= published - HistoryLimit
             /\ published <= HistoryLimit => lo = since + 1
<1> DEFINE least == IF since + 1 >= published - HistoryLimit THEN since + 1
                    ELSE published - HistoryLimit
<1>1. least \in Nat /\ least > since /\ least >= published - HistoryLimit
  BY Numbers DEF Event, None
<1>2. Events(since) = least..(published - 1)
  BY Numbers DEF Events, Event, None
<1>3. published <= HistoryLimit => least = since + 1
  BY Numbers DEF Event, None
<1> QED BY <1>1, <1>2, <1>3

\* A new subscription has room for what it finds; within the limit that is all.
LEMMA Replays ==
    ASSUME RunInv, NEW since \in Event \cup {None}
    PROVE  /\ Replay(since) \in Seq(Event)
           /\ Len(Replay(since)) <= HistoryLimit /\ Len(Replay(since)) <= published
           /\ published <= HistoryLimit /\ since < published => Rest(Replay(since), since)
<1>1. PICK lo \in Nat :
        /\ Events(since) = lo..(published - 1)
        /\ lo > since /\ lo >= published - HistoryLimit
        /\ published <= HistoryLimit => lo = since + 1
  BY EventsAre
<1>2. PICK n \in Nat : /\ n = Cardinality(Events(since))
                       /\ n = IF lo > published - 1 THEN 0 ELSE published - lo
  <2>1. lo \in Int /\ published - 1 \in Int
    BY Numbers
  <2> DEFINE k == IF lo > published - 1 THEN 0 ELSE published - lo
  <2>2. Cardinality(lo..(published - 1))
          = IF lo > published - 1 THEN 0 ELSE (published - 1) - lo + 1
    BY <2>1, FS_Interval
  <2>3. k \in Nat /\ k = IF lo > published - 1 THEN 0 ELSE (published - 1) - lo + 1
    BY Numbers
  <2>4. Cardinality(Events(since)) = k
    BY <1>1, <2>2, <2>3
  <2> QED BY <2>3, <2>4
<1>3. n > 0 => Oldest(Events(since)) = lo
  BY <1>1, <1>2, Numbers DEF Oldest
<1>4. Replay(since) = [i \in 1..n |-> Oldest(Events(since)) + i - 1]
  BY <1>2 DEF Replay
<1>5. \A i \in 1..n : Oldest(Events(since)) + i - 1 = lo + i - 1 /\ lo + i - 1 \in Event
  BY <1>2, <1>3, Numbers DEF Event
<1>6. Replay(since) = [i \in 1..n |-> lo + i - 1]
  BY <1>4, <1>5
<1>7. Replay(since) \in Seq(Event) /\ Len(Replay(since)) = n
  <2>1. Replay(since) \in [1..n -> Event] /\ DOMAIN Replay(since) = 1..n
    BY <1>5, <1>6
  <2>2. Replay(since) \in Seq(Event)
    BY <2>1, SeqDef
  <2> QED BY <2>1, <2>2, LenProperties
<1>8. n <= HistoryLimit /\ n <= published
  BY <1>1, <1>2, Numbers DEF Event, None
<1>9. published <= HistoryLimit /\ since < published => Rest(Replay(since), since)
  BY <1>1, <1>2, <1>6, <1>7, Numbers DEF Rest, Event, None
<1> QED BY <1>7, <1>8, <1>9

LEMMA RestTail ==
    ASSUME RunInv, NEW q \in Seq(Event), NEW c \in Event \cup {None}, Rest(q, c), q # <<>>
    PROVE  Head(q) = c + 1 /\ Rest(Tail(q), c + 1) /\ c + 1 \in Event
<1>1. Len(q) \in Nat /\ Len(q) > 0 /\ Head(q) = q[1] /\ q[1] \in Event
  OBVIOUS
<1>2. Tail(q) \in Seq(Event) /\ Len(Tail(q)) = Len(q) - 1
      /\ \A i \in 1..Len(q) - 1 : Tail(q)[i] = q[i + 1]
  BY <1>1
<1>3. /\ c \in Int /\ Len(q) = published - 1 - c /\ c < published
      /\ \A i \in 1..Len(q) : q[i] = c + i
  BY DEF Rest, Event, None
<1>4. Head(q) = c + 1 /\ c + 1 \in Event
  BY <1>1, <1>3
<1>5. \A i \in 1..Len(q) - 1 : i + 1 \in 1..Len(q) /\ Tail(q)[i] = c + 1 + i
  BY <1>1, <1>2, <1>3
<1>6. c + 1 < published /\ Len(Tail(q)) = published - 1 - (c + 1)
  BY <1>1, <1>2, <1>3, Numbers
<1> QED BY <1>2, <1>4, <1>5, <1>6 DEF Rest

LEMMA RestAppend ==
    ASSUME RunInv, NEW q \in Seq(Event), NEW c \in Event \cup {None}, Rest(q, c),
           NEW m, m = published, published' = published + 1
    PROVE  Rest(Append(q, m), c)'
<1>0. c \in Int /\ Len(q) \in Nat /\ m \in Nat
  BY Numbers DEF Event, None
<1>1. /\ Len(Append(q, m)) = Len(q) + 1
      /\ \A i \in 1..Len(q) : Append(q, m)[i] = q[i]
      /\ Append(q, m)[Len(q) + 1] = m
  OBVIOUS
<1>2. c < published' /\ Len(q) + 1 = published' - 1 - c /\ m = c + (Len(q) + 1)
  BY <1>0, Numbers DEF Rest
<1>3. ASSUME NEW i \in 1..Len(q) + 1 PROVE Append(q, m)[i] = c + i
  <2>1. i \in 1..Len(q) \/ i = Len(q) + 1
    BY <1>0
  <2> QED BY <1>1, <1>2, <2>1 DEF Rest
<1> QED BY <1>1, <1>2, <1>3 DEF Rest

LEMMA RestRange ==
    ASSUME RunInv, NEW q \in Seq(Event), NEW c \in Event \cup {None}, Rest(q, c)
    PROVE  Range(q) = (c + 1)..(published - 1)
<1>1. Range(q) = {q[i] : i \in 1..Len(q)}
  BY DEF Range
<1>2. ASSUME NEW e \in (c + 1)..(published - 1)
      PROVE  e - c \in 1..Len(q) /\ q[e - c] = e
  <2>1. Len(q) = published - 1 - c /\ c \in Int /\ published \in Nat
    BY Numbers DEF Rest, Event, None
  <2>2. e - c \in 1..Len(q) /\ c + (e - c) = e
    BY <2>1
  <2>3. q[e - c] = c + (e - c)
    BY <2>2 DEF Rest
  <2> QED BY <2>2, <2>3
<1>3. ASSUME NEW i \in 1..Len(q) PROVE q[i] \in (c + 1)..(published - 1)
  <2>1. q[i] = c + i /\ Len(q) = published - 1 - c /\ c \in Int /\ published \in Nat
    BY Numbers DEF Rest, Event, None
  <2> QED BY <2>1
<1> QED BY <1>1, <1>2, <1>3

LEMMA RangeTail ==
    ASSUME NEW S, NEW q \in Seq(S), q # <<>>
    PROVE  Head(q) \in Range(q) /\ Range(q) = {Head(q)} \cup Range(Tail(q))
<1>1. Len(q) \in Nat /\ Len(q) > 0 /\ Head(q) = q[1]
  OBVIOUS
<1>2. Tail(q) \in Seq(S) /\ Len(Tail(q)) = Len(q) - 1
      /\ \A i \in 1..Len(q) - 1 : Tail(q)[i] = q[i + 1]
  BY <1>1
<1>3. /\ Range(q) = {q[i] : i \in 1..Len(q)}
      /\ Range(Tail(q)) = {Tail(q)[i] : i \in 1..Len(q) - 1}
  <2>1. DOMAIN q = 1..Len(q) /\ DOMAIN Tail(q) = 1..Len(q) - 1
    BY <1>2
  <2> QED BY <2>1, Zenon DEF Range
<1>4. ASSUME NEW e \in Range(q), e # Head(q) PROVE e \in Range(Tail(q))
  <2>1. PICK i \in 1..Len(q) : e = q[i]
    BY <1>3
  <2>2. i - 1 \in 1..Len(q) - 1 /\ Tail(q)[i - 1] = e
    BY <1>1, <1>2, <1>4, <2>1
  <2> QED BY <1>3, <2>2
<1>5. ASSUME NEW e \in Range(Tail(q)) PROVE e \in Range(q)
  <2>1. PICK i \in 1..Len(q) - 1 : e = Tail(q)[i]
    BY <1>3
  <2>2. i + 1 \in 1..Len(q) /\ q[i + 1] = e
    BY <1>1, <1>2, <2>1
  <2> QED BY <1>3, <2>2
<1>6. Head(q) \in Range(q)
  BY <1>1, <1>3
<1> QED BY <1>4, <1>5, <1>6
-----------------------------------------------------------------------------
(* The types.                                                              *)

\* A subscription, an unsubscription or a taken event leaves a bounded queue.
LEMMA QueueSet ==
    ASSUME TypeInv, UNCHANGED run, NEW f \in Follower, NEW q \in Seq(Event),
           Len(q) <= QueueLimit, Len(q) <= published,
           queue' = [queue EXCEPT ![f] = q]
    PROVE  QueuesOK'
<1>1. queue \in [Follower -> Seq(Event)]
  BY DEF TypeInv, QueuesOK
<1>2. /\ queue' \in [Follower -> Seq(Event)]
      /\ queue'[f] = q
      /\ \A g \in Follower : g # f => queue'[g] = queue[g]
  BY <1>1
<1>3. published' = published
  BY DEF run
<1>4. ASSUME NEW g \in Follower
      PROVE  Len(queue'[g]) <= QueueLimit /\ Len(queue'[g]) <= published'
  BY <1>2, <1>3 DEF TypeInv, QueuesOK
<1> QED BY <1>2, <1>4 DEF QueuesOK

LEMMA QueueReplay ==
    ASSUME TypeInv, UNCHANGED run, NEW f \in Follower, NEW since \in Event \cup {None},
           Subscribe(f, since)
    PROVE  QueuesOK'
<1>1. RunInv
  BY DEF TypeInv
<1>2. Replay(since) \in Seq(Event) /\ Len(Replay(since)) <= HistoryLimit
      /\ Len(Replay(since)) <= published
  BY <1>1, Replays
<1>3. Len(Replay(since)) <= QueueLimit
  BY <1>1, <1>2, Numbers, LenProperties
<1> QED BY <1>2, <1>3, QueueSet DEF Subscribe

LEMMA QueueEmpty ==
    ASSUME TypeInv, UNCHANGED run, NEW f \in Follower, Unsubscribe(f)
    PROVE  QueuesOK'
<1>1. << >> \in Seq(Event) /\ Len(<< >>) = 0
  OBVIOUS
<1>2. 0 <= QueueLimit /\ 0 <= published
  BY Numbers DEF TypeInv
<1> QED BY <1>1, <1>2, QueueSet DEF Unsubscribe

LEMMA TailOf ==
    ASSUME NEW S, NEW q \in Seq(S), q # <<>>
    PROVE  Head(q) \in S /\ Tail(q) \in Seq(S) /\ Len(Tail(q)) = Len(q) - 1
OBVIOUS

LEMMA QueueTail ==
    ASSUME TypeInv, UNCHANGED run, NEW f \in Follower, queue[f] # <<>>,
           queue' = [queue EXCEPT ![f] = Tail(@)]
    PROVE  QueuesOK'
<1>1. queue[f] \in Seq(Event) /\ Len(queue[f]) <= QueueLimit /\ Len(queue[f]) <= published
  BY DEF TypeInv, QueuesOK
<1>2. Tail(queue[f]) \in Seq(Event) /\ Len(Tail(queue[f])) = Len(queue[f]) - 1
  BY <1>1, TailOf
<1>3. Len(Tail(queue[f])) <= QueueLimit /\ Len(Tail(queue[f])) <= published
  BY <1>1, <1>2, Numbers, LenProperties DEF TypeInv
<1>4. queue' = [queue EXCEPT ![f] = Tail(queue[f])]
  OBVIOUS
<1> QED BY <1>2, <1>3, <1>4, QueueSet

LEMMA RunTypes ==
    ASSUME TypeInv, RunStep
    PROVE  TypeInv'
<1>1. RunInv'
  BY Numbers DEF TypeInv, RunInv, RunStep, Persist, SaveOutcome, PersistEnd, Publish
<1>2. FollowersOK' /\ SocketsOK'
  BY DEF TypeInv, FollowersOK, SocketsOK, RunStep, Persist, SaveOutcome, PersistEnd, Publish
<1>3. QueuesOK'
  <2>1. CASE Persist \/ SaveOutcome \/ PersistEnd
    BY <2>1 DEF TypeInv, QueuesOK, Persist, SaveOutcome, PersistEnd
  <2>2. CASE Publish
    <3>1. PICK reached \in SUBSET (Subscribed \ Full) : Deliverable(reached)
      BY <2>2 DEF Publish
    <3>2. published \in Event /\ published \in Nat /\ published' = published + 1
      BY <2>2, Numbers DEF TypeInv, RunInv, Publish, Event
    <3>3. ASSUME NEW f \in Follower
          PROVE  /\ queue'[f] \in Seq(Event)
                 /\ Len(queue'[f]) <= QueueLimit /\ Len(queue'[f]) <= published'
      <4>1. queue[f] \in Seq(Event) /\ Len(queue[f]) \in Nat
            /\ Len(queue[f]) <= QueueLimit /\ Len(queue[f]) <= published
        BY LenProperties DEF TypeInv, QueuesOK
      <4>2. CASE f \in reached
        <5>1. queue'[f] = Append(queue[f], published)
          BY <3>1, <4>2 DEF Deliverable
        <5>2. Len(queue[f]) # QueueLimit
          BY <3>1, <4>2 DEF Full
        <5>3. Append(queue[f], published) \in Seq(Event)
              /\ Len(Append(queue[f], published)) = Len(queue[f]) + 1
          BY <3>2, <4>1
        <5>4. Len(queue[f]) + 1 <= QueueLimit
          BY <4>1, <5>2, Numbers DEF TypeInv
        <5> QED BY <3>2, <4>1, <5>1, <5>3, <5>4
      <4>3. CASE f \notin reached
        <5>1. queue'[f] = queue[f]
          BY <3>1, <4>3 DEF Deliverable
        <5> QED BY <3>2, <4>1, <5>1
      <4> QED BY <4>2, <4>3
    <3>4. queue' \in [Follower -> Seq(Event)]
      <4>1. queue' = [f \in Follower |-> queue'[f]]
        BY <3>1 DEF Deliverable
      <4> QED BY <3>3, <4>1
    <3> QED BY <3>3, <3>4 DEF QueuesOK
  <2> QED BY <2>1, <2>2 DEF RunStep
<1> QED BY <1>1, <1>2, <1>3 DEF TypeInv

LEMMA RunStays ==
    ASSUME TypeInv, UNCHANGED run
    PROVE  RunInv'
BY DEF TypeInv, RunInv, run

LEMMA SocketsStay ==
    ASSUME TypeInv, UNCHANGED socket
    PROVE  SocketsOK'
BY DEF TypeInv, SocketsOK

LEMMA StreamTypes ==
    ASSUME TypeInv, NEW s \in Stream,
           Connect(s) \/ Deliver(s) \/ Disconnect(s) \/ Reconnect(s)
    PROVE  TypeInv'
<1>0. UNCHANGED run /\ UNCHANGED socket /\ s \in Follower /\ RunInv
  BY DEF Connect, Deliver, Disconnect, Reconnect, Follower, TypeInv
<1>1. RunInv' /\ SocketsOK'
  BY <1>0, RunStays, SocketsStay
<1>2. cursor[s] \in Event \cup {None} /\ queue[s] \in Seq(Event)
  BY <1>0 DEF TypeInv, FollowersOK, QueuesOK
<1>3. QueuesOK' /\ FollowersOK'
  <2>1. CASE Connect(s)
    <3>1. PICK since \in {None} \cup 0..(published - 1) :
            /\ first' = [first EXCEPT ![s] = since]
            /\ cursor' = [cursor EXCEPT ![s] = since]
            /\ Subscribe(s, since)
      BY <2>1 DEF Connect
    <3>2. since \in Event \cup {None}
      BY <1>0, Numbers
    <3>3. QueuesOK'
      BY <1>0, <3>1, <3>2, QueueReplay
    <3>4. FollowersOK'
      BY <1>0, <2>1, <3>1, <3>2 DEF Connect, TypeInv, FollowersOK
    <3> QED BY <3>3, <3>4
  <2>2. CASE Deliver(s)
    <3>1. Head(queue[s]) \in Event
      BY <1>2, <2>2, TailOf DEF Deliver
    <3>2. queue' = [queue EXCEPT ![s] = Tail(@)] \/ Unsubscribe(s)
      BY <2>2 DEF Deliver
    <3>3. QueuesOK'
      BY <1>0, <2>2, <3>2, QueueTail, QueueEmpty DEF Deliver
    <3>4. FollowersOK'
      <4>1. CASE Head(queue[s]) <= cursor[s]
        BY <2>2, <4>1 DEF Deliver, TypeInv, FollowersOK
      <4>2. CASE ~(Head(queue[s]) <= cursor[s])
        <5>1. /\ cursor' = [cursor EXCEPT ![s] = Head(queue[s])]
              /\ delivered' = [delivered EXCEPT ![s] = @ \cup {Head(queue[s])}]
              /\ pc' = [pc EXCEPT ![s] = "done"] \/ pc' = pc
              /\ first' = first
          BY <2>2, <4>2 DEF Deliver
        <5>2. delivered' \in [Stream \cup Socket -> SUBSET Event]
          BY <3>1, <5>1 DEF TypeInv, FollowersOK
        <5> QED BY <1>0, <3>1, <5>1, <5>2 DEF TypeInv, FollowersOK
      <4> QED BY <4>1, <4>2
    <3> QED BY <3>3, <3>4
  <2>3. CASE Disconnect(s)
    <3>1. QueuesOK'
      BY <1>0, <2>3, QueueEmpty DEF Disconnect
    <3> QED BY <2>3, <1>0, <3>1 DEF Disconnect, TypeInv, FollowersOK
  <2>4. CASE Reconnect(s)
    <3>1. QueuesOK'
      BY <1>0, <1>2, <2>4, QueueReplay DEF Reconnect
    <3> QED BY <2>4, <1>0, <3>1 DEF Reconnect, TypeInv, FollowersOK
  <2> QED BY <2>1, <2>2, <2>3, <2>4
<1> QED BY <1>1, <1>3 DEF TypeInv

\* One socket's record is replaced.
LEMMA SocketSet ==
    ASSUME TypeInv, NEW k \in Socket, NEW r \in Sockets, Len(r.replay) <= HistoryLimit,
           socket' = [socket EXCEPT ![k] = r]
    PROVE  SocketsOK'
<1>1. /\ socket' \in [Socket -> Sockets]
      /\ socket'[k] = r
      /\ \A j \in Socket : j # k => socket'[j] = socket[j]
  BY DEF TypeInv, SocketsOK
<1>2. \A j \in Socket : Len(socket'[j].replay) <= HistoryLimit
  BY <1>1 DEF TypeInv, SocketsOK
<1> QED BY <1>1, <1>2 DEF SocketsOK

LEMMA LaterIs ==
    ASSUME NEW e \in Event, NEW c \in Event \cup {None}
    PROVE  /\ Later(c, e) \in Event \cup {None} /\ Later(c, e) \in {c, e}
           /\ c <= Later(c, e) /\ e <= Later(c, e)
BY DEF Later, Event, None

LEMMA SocketTypes ==
    ASSUME TypeInv, NEW k \in Socket,
           \/ SocketConnect(k) \/ SocketSubscribe(k) \/ SocketReplay(k)
           \/ SocketUnsubscribe(k) \/ SocketDeliver(k) \/ SocketClose(k)
    PROVE  TypeInv'
<1>0. UNCHANGED run /\ k \in Follower /\ RunInv /\ k \in Stream \cup Socket
  BY DEF SocketConnect, SocketSubscribe, SocketReplay, SocketUnsubscribe, SocketDeliver,
         SocketClose, Follower, TypeInv
<1>1. RunInv'
  BY <1>0, RunStays
<1>2. /\ socket[k] \in Sockets /\ Len(socket[k].replay) <= HistoryLimit
      /\ queue[k] \in Seq(Event) /\ cursor[k] \in Event \cup {None}
      /\ delivered[k] \in SUBSET Event /\ None \in Event \cup {None}
  BY <1>0 DEF TypeInv, FollowersOK, QueuesOK, SocketsOK
<1>3. /\ socket[k].subscribed \in BOOLEAN /\ socket[k].replay \in Seq(Event)
      /\ socket[k].cursor \in Event \cup {None}
  BY <1>2 DEF Sockets
<1>4. CASE SocketConnect(k)
  <2>1. QueuesOK'
    BY <1>0, <1>2, <1>4, QueueReplay DEF SocketConnect
  <2>2. SocketsOK'
    BY <1>4, SocketsStay DEF SocketConnect
  <2> QED BY <1>1, <1>4, <2>1, <2>2 DEF SocketConnect, TypeInv, FollowersOK
<1>5. CASE SocketSubscribe(k)
  <2>1. PICK q : q = Replay(None)
    OBVIOUS
  <2>2. q \in Seq(Event) /\ Len(q) <= HistoryLimit
    BY <1>0, <1>2, <2>1, Replays
  <2>3. PICK r : r = [socket[k] EXCEPT !.subscribed = TRUE, !.replay = q]
    OBVIOUS
  <2>4. r \in Sockets /\ r.replay = q
    BY <1>2, <2>2, <2>3 DEF Sockets
  <2>5. socket' = [socket EXCEPT ![k] = r]
    BY <1>5, <2>1, <2>3 DEF SocketSubscribe
  <2>6. SocketsOK'
    BY <2>2, <2>4, <2>5, SocketSet
  <2> QED BY <1>1, <1>5, <2>6 DEF SocketSubscribe, TypeInv, FollowersOK, QueuesOK, run
<1>6. CASE SocketReplay(k)
  <2>1. PICK event : event = Head(socket[k].replay)
    OBVIOUS
  <2>2. event \in Event /\ Tail(socket[k].replay) \in Seq(Event)
        /\ Len(Tail(socket[k].replay)) = Len(socket[k].replay) - 1
    BY <1>3, <1>6, <2>1, TailOf DEF SocketReplay
  <2>3. Len(Tail(socket[k].replay)) <= HistoryLimit
    BY <1>0, <1>2, <1>3, <2>2, Numbers, LenProperties
  <2>4. PICK c \in Event \cup {None} : c = Later(socket[k].cursor, event)
    BY <1>3, <2>2, LaterIs
  <2>5. PICK r : r = [socket[k] EXCEPT !.replay = Tail(socket[k].replay), !.cursor = c]
    OBVIOUS
  <2>6. r \in Sockets /\ r.replay = Tail(socket[k].replay)
    BY <1>2, <2>2, <2>5 DEF Sockets
  <2>7. /\ socket' = [socket EXCEPT ![k] = r]
        /\ delivered' = [delivered EXCEPT ![k] = @ \cup {event}]
    BY <1>6, <2>1, <2>4, <2>5 DEF SocketReplay
  <2>8. SocketsOK'
    BY <2>3, <2>6, <2>7, SocketSet
  <2>9. delivered' \in [Stream \cup Socket -> SUBSET Event]
    BY <2>2, <2>7 DEF TypeInv, FollowersOK
  <2> QED BY <1>1, <1>6, <2>8, <2>9 DEF SocketReplay, TypeInv, FollowersOK, QueuesOK, run
<1>7. CASE SocketUnsubscribe(k)
  <2>1. PICK r : r = [socket[k] EXCEPT !.subscribed = FALSE]
    OBVIOUS
  <2>2. r \in Sockets /\ r.replay = socket[k].replay
    BY <1>2, <2>1 DEF Sockets
  <2>3. socket' = [socket EXCEPT ![k] = r]
    BY <1>7, <2>1 DEF SocketUnsubscribe
  <2>4. SocketsOK'
    BY <1>2, <2>2, <2>3, SocketSet
  <2> QED BY <1>1, <1>7, <2>4 DEF SocketUnsubscribe, TypeInv, FollowersOK, QueuesOK, run
<1>8. CASE SocketDeliver(k)
  <2>1. PICK event : event = Head(queue[k])
    OBVIOUS
  <2>2. event \in Event
    BY <1>2, <1>8, <2>1, TailOf DEF SocketDeliver
  <2>3. QueuesOK'
    BY <1>0, <1>8, QueueTail DEF SocketDeliver
  <2>4. CASE event <= cursor[k]
    <3>1. UNCHANGED <<pc, cursor, first, delivered, socket>>
      BY <1>8, <2>1, <2>4 DEF SocketDeliver
    <3>2. FollowersOK' /\ SocketsOK'
      BY <3>1, SocketsStay DEF TypeInv, FollowersOK
    <3> QED BY <1>1, <2>3, <3>2 DEF TypeInv
  <2>5. CASE ~(event <= cursor[k])
    <3>1. PICK c \in Event \cup {None} : c = Later(socket[k].cursor, event)
      BY <1>3, <2>2, LaterIs
    <3>2. PICK r : r = [socket[k] EXCEPT !.cursor = c]
      OBVIOUS
    <3>3. r \in Sockets /\ r.replay = socket[k].replay
      BY <1>2, <3>2 DEF Sockets
    <3>4. /\ socket' = [socket EXCEPT ![k] = r]
          /\ delivered' = [delivered EXCEPT ![k] = @ \cup Matching(k, event)]
          /\ cursor' = [cursor EXCEPT ![k] = event]
      BY <1>8, <2>1, <2>5, <3>1, <3>2 DEF SocketDeliver
    <3>5. SocketsOK'
      BY <1>2, <3>3, <3>4, SocketSet
    <3>6. Matching(k, event) \subseteq Event
      BY <2>2 DEF Matching
    <3>7. delivered' \in [Stream \cup Socket -> SUBSET Event]
      BY <3>4, <3>6 DEF TypeInv, FollowersOK
    <3>8. FollowersOK'
      BY <1>8, <2>2, <3>4, <3>7 DEF SocketDeliver, TypeInv, FollowersOK
    <3> QED BY <1>1, <2>3, <3>5, <3>8 DEF TypeInv
  <2> QED BY <2>4, <2>5
<1>9. CASE SocketClose(k)
  <2>1. QueuesOK'
    BY <1>0, <1>9, QueueEmpty DEF SocketClose
  <2>2. SocketsOK'
    BY <1>9, SocketsStay DEF SocketClose
  <2> QED BY <1>1, <1>9, <2>1, <2>2 DEF SocketClose, TypeInv, FollowersOK
<1> QED BY <1>4, <1>5, <1>6, <1>7, <1>8, <1>9

Request(f) ==
    \/ f \in Joiner /\ JoinPoll(f)
    \/ f \in Waiter /\ WaitPoll(f)
    \/ WaitSubscribe(f) \/ NextEvent(f) \/ Timeout(f) \/ Leave(f)

LEMMA RequestTypes ==
    ASSUME TypeInv, NEW f \in Joiner \cup Waiter, Request(f)
    PROVE  TypeInv'
<1>0. UNCHANGED run /\ UNCHANGED socket /\ f \in Follower /\ RunInv
  BY DEF Request, JoinPoll, WaitPoll, WaitSubscribe, NextEvent, Timeout, Leave, Follower,
         TypeInv
<1>1. RunInv' /\ SocketsOK'
  BY <1>0, RunStays, SocketsStay
<1>2. cursor[f] \in Event \cup {None} /\ queue[f] \in Seq(Event)
  BY <1>0 DEF TypeInv, FollowersOK, QueuesOK
<1>3. CASE JoinPoll(f) \/ Timeout(f) \/ Leave(f)
  BY <1>0, <1>1, <1>3 DEF JoinPoll, Timeout, Leave, TypeInv, FollowersOK, QueuesOK, run
<1>4. CASE WaitPoll(f)
  <2>1. QueuesOK'
    BY <1>0, <1>4 DEF WaitPoll, TypeInv, QueuesOK, run
  <2>2. pc' = [pc EXCEPT ![f] = "done"] \/ pc' = [pc EXCEPT ![f] = "subscribe"]
    BY <1>4 DEF WaitPoll
  <2>3. cursor' \in [Follower -> Event \cup {None}]
    <3>1. CASE cursor' = cursor
      BY <3>1 DEF TypeInv, FollowersOK
    <3>2. CASE cursor' # cursor
      <4>1. PICK events : events = Events(cursor[f])
        OBVIOUS
      <4>2. events # {} /\ cursor' = [cursor EXCEPT ![f] = Newest(events)]
        BY <1>4, <3>2, <4>1 DEF WaitPoll
      <4>3. PICK lo \in Nat : events = lo..(published - 1)
        BY <1>0, <1>2, <4>1, EventsAre
      <4>4. published - 1 \in events /\ \A o \in events : published - 1 >= o
        BY <1>0, <4>2, <4>3, Numbers
      <4>5. Newest(events) \in events
        BY <4>4 DEF Newest
      <4>6. Newest(events) \in Event
        BY <1>0, <4>3, <4>5, Numbers DEF Event
      <4> QED BY <4>2, <4>6 DEF TypeInv, FollowersOK
    <3> QED BY <3>1, <3>2
  <2>4. FollowersOK'
    BY <1>0, <1>4, <2>2, <2>3 DEF WaitPoll, TypeInv, FollowersOK
  <2> QED BY <1>1, <2>1, <2>4 DEF TypeInv
<1>5. CASE WaitSubscribe(f)
  <2>1. QueuesOK'
    BY <1>0, <1>2, <1>5, QueueReplay DEF WaitSubscribe
  <2> QED BY <1>0, <1>1, <1>5, <2>1 DEF WaitSubscribe, TypeInv, FollowersOK
<1>6. CASE NextEvent(f)
  <2>1. QueuesOK'
    BY <1>0, <1>6, QueueEmpty DEF NextEvent
  <2>2. Head(queue[f]) \in Event
    BY <1>2, <1>6, TailOf DEF NextEvent
  <2> QED BY <1>0, <1>1, <1>6, <2>1, <2>2 DEF NextEvent, TypeInv, FollowersOK
<1> QED BY <1>3, <1>4, <1>5, <1>6 DEF Request

LEMMA StutterTypes ==
    ASSUME TypeInv, UNCHANGED vars
    PROVE  TypeInv'
BY DEF TypeInv, RunInv, QueuesOK, FollowersOK, SocketsOK, vars, run

\* The steps by who takes them.
LEMMA Steps ==
    ASSUME Next
    PROVE  \/ RunStep
           \/ \E s \in Stream : Connect(s) \/ Deliver(s) \/ Disconnect(s) \/ Reconnect(s)
           \/ \E k \in Socket : \/ SocketConnect(k) \/ SocketSubscribe(k) \/ SocketReplay(k)
                                \/ SocketUnsubscribe(k) \/ SocketDeliver(k)
                                \/ SocketClose(k)
           \/ \E f \in Joiner \cup Waiter : Request(f)
BY DEF Next, FollowerStep, ClientStep, Request

LEMMA TypesInit == Init => TypeInv
<1> SUFFICES ASSUME Init PROVE TypeInv
  OBVIOUS
<1>1. RunInv
  BY ConstantsAssumption DEF Init, RunInv
<1>2. << >> \in Seq(Event) /\ Len(<< >>) = 0
  OBVIOUS
<1>3. QueuesOK
  BY <1>1, <1>2, Numbers DEF Init, QueuesOK
<1>4. FollowersOK
  BY DEF Init, FollowersOK
<1>5. NewSocket \in Sockets /\ NewSocket.replay = << >>
  BY <1>2 DEF NewSocket, Sockets
<1>6. SocketsOK
  BY <1>1, <1>2, <1>5, Numbers DEF Init, SocketsOK
<1> QED BY <1>1, <1>3, <1>4, <1>6 DEF TypeInv

LEMMA TypesStep ==
    ASSUME TypeInv, [Next]_vars
    PROVE  TypeInv'
BY Steps, RunTypes, StreamTypes, SocketTypes, RequestTypes, StutterTypes

LEMMA TypesAreOK ==
    ASSUME TypeInv
    PROVE  TypeOK
<1>1. /\ stored \in 0..(MaxEvents + 1) /\ published \in 0..stored
  BY Numbers DEF TypeInv, RunInv
<1>2. ASSUME NEW f \in Follower
      PROVE  /\ Len(queue[f]) <= QueueLimit
             /\ \A i \in DOMAIN queue[f] : queue[f][i] \in Event
  <2>1. queue[f] \in Seq(Event) /\ Len(queue[f]) <= QueueLimit
    BY DEF TypeInv, QueuesOK
  <2> QED BY <2>1
<1>3. ASSUME NEW k \in Socket
      PROVE  /\ socket[k].subscribed \in BOOLEAN
             /\ Len(socket[k].replay) <= HistoryLimit
             /\ socket[k].cursor \in Event \cup {None}
  BY DEF TypeInv, SocketsOK, Sockets
<1> QED BY <1>1, <1>2, <1>3 DEF TypeOK, TypeInv, RunInv, FollowersOK

\* The broker keeps no queue longer than its limit and every number it gives an
\* event, a cursor or a queue is one of the run's.
THEOREM TypeCorrect == Spec => []TypeOK
<1>1. TypeInv /\ [Next]_vars => TypeInv'
  BY TypesStep
<1> QED BY <1>1, TypesInit, TypesAreOK, PTL DEF Spec
-----------------------------------------------------------------------------
(* Nothing is missed within the limit.                                     *)

\* A stream, a socket that a step does not touch.
LEMMA StreamStays ==
    ASSUME NEW s, StreamInv(s), UNCHANGED run,
           pc'[s] = pc[s], cursor'[s] = cursor[s], queue'[s] = queue[s],
           first'[s] = first[s], delivered'[s] = delivered[s]
    PROVE  StreamInv(s)'
BY DEF StreamInv, Rest, run

LEMMA SocketStays ==
    ASSUME NEW k, SocketInv(k), UNCHANGED run,
           pc'[k] = pc[k], cursor'[k] = cursor[k], queue'[k] = queue[k],
           delivered'[k] = delivered[k], socket'[k] = socket[k]
    PROVE  SocketInv(k)'
BY DEF SocketInv, Sent, Rest, run

LEMMA RunLive ==
    ASSUME TypeInv, LiveInv, RunStep
    PROVE  LiveInv'
<1> SUFFICES ASSUME published' <= HistoryLimit
             PROVE  /\ \A s \in Stream : StreamInv(s)'
                    /\ \A k \in Socket : SocketInv(k)'
  BY DEF LiveInv
<1>1. CASE Persist \/ SaveOutcome \/ PersistEnd
  <2>1. /\ published' = published /\ runner # "done"
        /\ UNCHANGED <<pc, cursor, queue, first, delivered, socket>>
    BY <1>1 DEF Persist, SaveOutcome, PersistEnd
  <2>2. ASSUME NEW s \in Stream PROVE StreamInv(s)'
    <3>1. StreamInv(s)
      BY <2>1 DEF LiveInv
    <3> QED BY <2>1, <3>1 DEF StreamInv, Rest
  <2>3. ASSUME NEW k \in Socket PROVE SocketInv(k)'
    <3>1. SocketInv(k)
      BY <2>1 DEF LiveInv
    <3> QED BY <2>1, <3>1 DEF SocketInv, Sent, Rest
  <2> QED BY <2>2, <2>3
<1>2. CASE Publish
  <2>1. PICK m : m = published
    OBVIOUS
  <2>2. /\ RunInv /\ m \in Nat /\ published' = m + 1 /\ published' = published + 1
        /\ runner # "done" /\ UNCHANGED <<pc, cursor, first, delivered, socket>>
    BY <1>2, <2>1 DEF Publish, TypeInv, RunInv
  <2>3. /\ published <= HistoryLimit /\ HistoryLimit <= QueueLimit
        /\ HistoryLimit \in Nat /\ QueueLimit \in Nat /\ published < QueueLimit
    BY <2>1, <2>2, Numbers
  <2>4. Full = {}
    <3>1. SUFFICES ASSUME NEW f \in Full PROVE FALSE
      OBVIOUS
    <3>2. f \in Follower /\ Len(queue[f]) = QueueLimit
      BY DEF Full, Subscribed
    <3>3. Len(queue[f]) <= published
      BY <3>2 DEF TypeInv, QueuesOK
    <3> QED BY <2>1, <2>2, <2>3, <3>2, <3>3
  <2>5. \A f \in Follower :
          queue'[f] = IF f \in Subscribed THEN Append(queue[f], m) ELSE queue[f]
    BY <1>2, <2>1, <2>4 DEF Publish, Deliverable
  <2>6. ASSUME NEW f \in Follower, pc[f] = "open", Rest(queue[f], cursor[f])
        PROVE  Rest(queue[f], cursor[f])'
    <3>1. PICK q \in Seq(Event), c \in Event \cup {None} : q = queue[f] /\ c = cursor[f]
      BY DEF TypeInv, QueuesOK, FollowersOK
    <3>2. queue'[f] = Append(q, m) /\ cursor'[f] = c
      BY <2>2, <2>5, <2>6, <3>1 DEF Subscribed
    <3>3. Rest(q, c)
      BY <2>6, <3>1
    <3>4. Rest(Append(q, m), c)'
      BY <2>1, <2>2, <3>3, RestAppend
    <3> QED BY <3>2, <3>4 DEF Rest
  <2>7. ASSUME NEW s \in Stream PROVE StreamInv(s)'
    <3>1. StreamInv(s) /\ s \in Follower /\ cursor[s] \in Event \cup {None}
      BY <2>3 DEF LiveInv, Follower, TypeInv, FollowersOK
    <3>2. pc'[s] \in {"open", "done"} => Rest(queue[s], cursor[s])'
      BY <2>2, <2>6, <3>1 DEF StreamInv
    <3>3. cursor[s] < published => cursor[s] < published'
      BY <2>1, <2>2, <3>1 DEF Event, None
    <3> QED BY <2>2, <3>1, <3>2, <3>3 DEF StreamInv
  <2>8. ASSUME NEW k \in Socket PROVE SocketInv(k)'
    <3>1. /\ SocketInv(k) /\ k \in Follower /\ cursor[k] \in Event \cup {None}
          /\ socket[k].cursor \in Event \cup {None}
      BY <2>3 DEF LiveInv, Follower, TypeInv, FollowersOK, SocketsOK, Sockets
    <3>2. pc'[k] = "open" => Rest(queue[k], cursor[k])'
      BY <2>2, <2>6, <3>1 DEF SocketInv
    <3>3. Sent(k)' = Sent(k)
      BY <2>2 DEF Sent
    <3>4. delivered[k] \in SUBSET Event /\ Range(socket[k].replay) \subseteq Event
      <4>1. socket[k].replay \in Seq(Event)
        BY <3>1 DEF TypeInv, SocketsOK, Sockets
      <4> QED BY <4>1 DEF Range, TypeInv, FollowersOK
    <3>5. /\ cursor'[k] < published' /\ socket'[k].cursor < published'
          /\ \A e \in Sent(k) : e < published'
      BY <2>1, <2>2, <3>1, <3>4 DEF SocketInv, Sent, Event, None
    <3> QED BY <2>2, <3>1, <3>2, <3>3, <3>5 DEF SocketInv
  <2> QED BY <2>7, <2>8
<1> QED BY <1>1, <1>2 DEF RunStep

LEMMA StreamLive ==
    ASSUME TypeInv, LiveInv, NEW s \in Stream,
           Connect(s) \/ Deliver(s) \/ Disconnect(s) \/ Reconnect(s)
    PROVE  LiveInv'
<1>0. UNCHANGED run /\ UNCHANGED socket /\ published' = published
  BY DEF Connect, Deliver, Disconnect, Reconnect, run
<1> SUFFICES ASSUME published <= HistoryLimit
             PROVE  /\ \A t \in Stream : StreamInv(t)'
                    /\ \A k \in Socket : SocketInv(k)'
  BY <1>0 DEF LiveInv
<1>1. /\ RunInv /\ StreamInv(s) /\ s \in Follower
      /\ queue \in [Follower -> Seq(Event)] /\ cursor \in [Follower -> Event \cup {None}]
      /\ first \in [Stream -> Event \cup {None}]
      /\ delivered \in [Stream \cup Socket -> SUBSET Event]
      /\ DOMAIN pc = Follower
  BY DEF TypeInv, LiveInv, Follower, QueuesOK, FollowersOK
<1>2. ASSUME NEW f \in Stream \cup Socket, f # s
      PROVE  /\ pc'[f] = pc[f] /\ cursor'[f] = cursor[f] /\ queue'[f] = queue[f]
             /\ delivered'[f] = delivered[f]
             /\ f \in Stream => first'[f] = first[f]
  <2>0. f \in Follower
    BY DEF Follower
  <2>1. CASE Connect(s)
    BY <1>1, <1>2, <2>0, <2>1 DEF Connect, Subscribe
  <2>2. CASE Deliver(s)
    BY <1>1, <1>2, <2>0, <2>2 DEF Deliver, Unsubscribe
  <2>3. CASE Disconnect(s) \/ Reconnect(s)
    BY <1>1, <1>2, <2>0, <2>3 DEF Disconnect, Reconnect, Subscribe, Unsubscribe
  <2> QED BY <2>1, <2>2, <2>3
<1>3. ASSUME NEW t \in Stream, t # s PROVE StreamInv(t)'
  <2>1. StreamInv(t)
    BY DEF LiveInv
  <2> QED BY <1>0, <1>2, <1>3, <2>1, StreamStays
<1>4. ASSUME NEW k \in Socket PROVE SocketInv(k)'
  <2>1. SocketInv(k) /\ k # s
    BY ConstantsAssumption DEF LiveInv
  <2>2. socket'[k] = socket[k]
    BY <1>0
  <2> QED BY <1>0, <1>2, <2>1, <2>2, SocketStays
<1>5. PICK q \in Seq(Event), c \in Event \cup {None}, b \in Event \cup {None},
           d \in SUBSET Event :
        q = queue[s] /\ c = cursor[s] /\ b = first[s] /\ d = delivered[s]
  BY <1>1
<1>6. CASE Connect(s)
  <2>1. PICK since \in {None} \cup 0..(published - 1) :
          /\ first' = [first EXCEPT ![s] = since]
          /\ cursor' = [cursor EXCEPT ![s] = since]
          /\ Subscribe(s, since)
    BY <1>6 DEF Connect
  <2>2. since \in Event \cup {None} /\ since < published
    BY <1>1, Numbers DEF None, Event
  <2>3. Rest(Replay(since), since)
    BY <1>1, <2>2, Replays
  <2>4. /\ pc'[s] = "open" /\ first'[s] = since /\ cursor'[s] = since
        /\ queue'[s] = Replay(since) /\ delivered'[s] = {}
    BY <1>1, <1>6, <2>1 DEF Connect, Subscribe, StreamInv
  <2>5. {} = {e \in Event : since < e /\ e <= since}
    BY <2>2 DEF Event, None
  <2>6. Rest(queue[s], cursor[s])'
    BY <1>0, <2>3, <2>4 DEF Rest
  <2>7. since <= since
    BY <2>2 DEF Event, None
  <2>8. StreamInv(s)'
    BY <1>0, <2>2, <2>4, <2>5, <2>6, <2>7 DEF StreamInv
  <2> QED BY <1>3, <1>4, <2>8
<1>7. CASE Deliver(s)
  <2>1. Rest(q, c) /\ q # << >> /\ pc[s] = "open"
    BY <1>1, <1>5, <1>7 DEF Deliver, StreamInv
  <2>2. Head(q) = c + 1 /\ Rest(Tail(q), c + 1) /\ c + 1 \in Event
    BY <1>1, <2>1, RestTail
  <2>3. c \in Int /\ b \in Int /\ ~(Head(q) <= c)
    BY <2>2 DEF Event, None
  <2>4. /\ cursor'[s] = c + 1 /\ delivered'[s] = d \cup {c + 1} /\ first'[s] = b
        /\ \/ /\ IsTerminal(c + 1)
              /\ queue'[s] = << >> /\ pc'[s] = "done"
           \/ queue'[s] = Tail(q) /\ pc'[s] = "open"
    BY <1>1, <1>5, <1>7, <2>1, <2>2, <2>3 DEF Deliver, Unsubscribe
  <2>5. c + 1 < published
    BY <2>2 DEF Rest
  <2>6. IsTerminal(c + 1) => runner = "done" /\ Len(<< >>) = published - 1 - (c + 1)
    BY <1>1, Numbers DEF IsTerminal
  <2>7. Rest(queue[s], cursor[s])'
    <3>1. CASE IsTerminal(c + 1) /\ queue'[s] = << >>
      <4>1. Len(queue'[s]) = 0 /\ 0 = published - 1 - (c + 1) /\ 1..0 = {}
        BY <2>6, <3>1
      <4> QED BY <1>0, <2>4, <2>5, <4>1 DEF Rest
    <3>2. CASE queue'[s] = Tail(q)
      BY <1>0, <2>2, <2>4, <3>2 DEF Rest
    <3> QED BY <2>4, <3>1, <3>2
  <2>8. d \cup {c + 1} = {e \in Event : b < e /\ e <= c + 1} /\ b <= c + 1
    <3>1. d = {e \in Event : b < e /\ e <= c} /\ b <= c
      BY <1>1, <1>5, <2>1 DEF StreamInv
    <3>2. b <= c + 1 /\ b < c + 1 /\ c + 1 <= c + 1
      BY <2>3, <3>1
    <3>3. ASSUME NEW e \in Event
          PROVE  e <= c + 1 <=> (e <= c \/ e = c + 1)
      BY <2>3 DEF Event
    <3> QED BY <2>2, <3>1, <3>2, <3>3, Zenon
  <2>9. pc'[s] = "done" => runner' = "done"
    BY <1>0, <2>4, <2>6 DEF run
  <2>10. StreamInv(s)'
    BY <1>0, <2>4, <2>5, <2>7, <2>8, <2>9 DEF StreamInv
  <2> QED BY <1>3, <1>4, <2>10
<1>8. CASE Disconnect(s)
  <2>1. /\ pc[s] = "open" /\ pc'[s] = "away" /\ cursor'[s] = cursor[s]
        /\ first'[s] = first[s] /\ delivered'[s] = delivered[s]
    BY <1>1, <1>8 DEF Disconnect
  <2>2. StreamInv(s)'
    BY <1>0, <1>1, <2>1 DEF StreamInv
  <2> QED BY <1>3, <1>4, <2>2
<1>9. CASE Reconnect(s)
  <2>1. /\ pc[s] = "away" /\ pc'[s] = "open" /\ cursor'[s] = c
        /\ first'[s] = first[s] /\ delivered'[s] = delivered[s]
        /\ queue'[s] = Replay(c)
    BY <1>1, <1>5, <1>9 DEF Reconnect, Subscribe
  <2>2. c < published
    BY <1>1, <1>5, <2>1 DEF StreamInv
  <2>3. Rest(Replay(c), c)
    BY <1>1, <2>2, Replays
  <2>4. Rest(queue[s], cursor[s])'
    BY <1>0, <2>1, <2>3 DEF Rest
  <2>5. StreamInv(s)'
    BY <1>0, <1>1, <1>5, <2>1, <2>4 DEF StreamInv
  <2> QED BY <1>3, <1>4, <2>5
<1> QED BY <1>6, <1>7, <1>8, <1>9

LEMMA SocketLive ==
    ASSUME TypeInv, LiveInv, NEW k \in Socket,
           \/ SocketConnect(k) \/ SocketSubscribe(k) \/ SocketReplay(k)
           \/ SocketUnsubscribe(k) \/ SocketDeliver(k) \/ SocketClose(k)
    PROVE  LiveInv'
<1>0. UNCHANGED run /\ UNCHANGED first /\ published' = published
  BY DEF SocketConnect, SocketSubscribe, SocketReplay, SocketUnsubscribe, SocketDeliver,
         SocketClose, run
<1> SUFFICES ASSUME published <= HistoryLimit
             PROVE  /\ \A s \in Stream : StreamInv(s)'
                    /\ \A j \in Socket : SocketInv(j)'
  BY <1>0 DEF LiveInv
<1>1. /\ RunInv /\ SocketInv(k) /\ k \in Follower
      /\ queue \in [Follower -> Seq(Event)] /\ cursor \in [Follower -> Event \cup {None}]
      /\ delivered \in [Stream \cup Socket -> SUBSET Event]
      /\ socket \in [Socket -> Sockets]
      /\ DOMAIN pc = Follower
  BY DEF TypeInv, LiveInv, Follower, QueuesOK, FollowersOK, SocketsOK
<1>2. ASSUME NEW f \in Stream \cup Socket, f # k
      PROVE  /\ pc'[f] = pc[f] /\ cursor'[f] = cursor[f] /\ queue'[f] = queue[f]
             /\ delivered'[f] = delivered[f]
             /\ f \in Socket => socket'[f] = socket[f]
  <2>0. f \in Follower
    BY DEF Follower
  <2>1. CASE SocketConnect(k) \/ SocketSubscribe(k)
    BY <1>1, <1>2, <2>0, <2>1 DEF SocketConnect, SocketSubscribe, Subscribe
  <2>2. CASE SocketReplay(k) \/ SocketUnsubscribe(k)
    BY <1>1, <1>2, <2>0, <2>2 DEF SocketReplay, SocketUnsubscribe
  <2>3. CASE SocketDeliver(k)
    BY <1>1, <1>2, <2>0, <2>3 DEF SocketDeliver
  <2>4. CASE SocketClose(k)
    BY <1>1, <1>2, <2>0, <2>4 DEF SocketClose, Unsubscribe
  <2> QED BY <2>1, <2>2, <2>3, <2>4
<1>3. ASSUME NEW s \in Stream PROVE StreamInv(s)'
  <2>1. StreamInv(s) /\ s # k
    BY ConstantsAssumption DEF LiveInv
  <2>2. first'[s] = first[s]
    BY <1>0
  <2> QED BY <1>0, <1>2, <2>1, <2>2, StreamStays
<1>4. ASSUME NEW j \in Socket, j # k PROVE SocketInv(j)'
  <2>1. SocketInv(j)
    BY DEF LiveInv
  <2> QED BY <1>0, <1>2, <1>4, <2>1, SocketStays
<1>5. PICK q \in Seq(Event), c \in Event \cup {None}, d \in SUBSET Event, r \in Seq(Event),
           a \in Event \cup {None} :
        /\ q = queue[k] /\ c = cursor[k] /\ d = delivered[k]
        /\ r = socket[k].replay /\ a = socket[k].cursor
  BY <1>1 DEF Sockets
<1>6. Sent(k) = d \cup Range(r)
  BY <1>5 DEF Sent
<1>7. c \in Int /\ a \in Int /\ published \in Nat /\ None \in Event \cup {None} /\ None \in Int
  BY <1>1, Numbers DEF Event, None
<1>8. a < published /\ c < published /\ \A e \in d \cup Range(r) : e < published
  BY <1>1, <1>5, <1>6 DEF SocketInv
<1>9. pc[k] = "open" /\ socket[k].subscribed =>
        /\ \A e \in d \cup Range(r) : 0..e \subseteq d \cup Range(r)
        /\ 0..c \subseteq d \cup Range(r) /\ 0..a \subseteq d \cup Range(r)
  BY <1>1, <1>5, <1>6 DEF SocketInv
<1>10. Range(<< >>) = {}
  BY DEF Range
<1>11. CASE SocketConnect(k)
  <2>1. /\ pc'[k] = "open" /\ cursor'[k] = cursor[k] /\ cursor[k] = None
        /\ queue'[k] = Replay(None) /\ delivered' = delivered /\ socket' = socket
        /\ ~socket[k].subscribed
    BY <1>1, <1>11 DEF SocketConnect, Subscribe, SocketInv
  <2>2. Rest(Replay(None), None)
    BY <1>1, <1>5, <1>7, <1>8, <2>1, Replays
  <2>3. Rest(queue[k], cursor[k])'
    BY <1>0, <2>1, <2>2 DEF Rest
  <2>4. SocketInv(k)'
    BY <1>0, <1>1, <2>1, <2>3 DEF SocketInv, Sent
  <2> QED BY <1>3, <1>4, <2>4
<1>12. CASE SocketSubscribe(k)
  <2>1. PICK new : new = Replay(None)
    OBVIOUS
  <2>2. /\ pc'[k] = "open" /\ pc[k] = "open" /\ cursor'[k] = c /\ queue'[k] = q
        /\ delivered'[k] = {}
    BY <1>1, <1>5, <1>12 DEF SocketConnect, SocketSubscribe
  <2>3. socket'[k].replay = new /\ socket'[k].cursor = a
    BY <1>1, <1>5, <1>12, <2>1 DEF SocketSubscribe, Sockets
  <2>4. new \in Seq(Event) /\ Rest(new, None)
    <3>1. None < published
      BY <1>7 DEF None
    <3> QED BY <1>1, <1>7, <2>1, <3>1, Replays
  <2>5. Range(new) = (None + 1)..(published - 1)
    BY <1>1, <1>7, <2>4, RestRange
  <2>6. Range(new) = 0..(published - 1)
    BY <2>5 DEF None
  <2>7. Sent(k)' = 0..(published - 1)
    BY <2>2, <2>3, <2>6 DEF Sent
  <2>8. Rest(queue[k], cursor[k])'
    BY <1>0, <1>1, <1>5, <2>2 DEF SocketInv, Rest
  <2>9. /\ \A e \in 0..(published - 1) : e < published /\ 0..e \subseteq 0..(published - 1)
        /\ 0..c \subseteq 0..(published - 1) /\ 0..a \subseteq 0..(published - 1)
    BY <1>7, <1>8
  <2>10. SocketInv(k)'
    BY <1>0, <1>8, <2>2, <2>3, <2>7, <2>8, <2>9 DEF SocketInv
  <2> QED BY <1>3, <1>4, <2>10
<1>13. CASE SocketReplay(k)
  <2>1. r # << >>
    BY <1>5, <1>13 DEF SocketReplay
  <2>2. Head(r) \in Range(r) /\ Range(r) = {Head(r)} \cup Range(Tail(r))
    BY <2>1, RangeTail
  <2>3. Head(r) \in Event
    BY <2>1, TailOf
  <2>4. PICK new \in {a, Head(r)} : new = Later(a, Head(r))
    BY <2>3, LaterIs
  <2>5. /\ pc'[k] = "open" /\ pc[k] = "open" /\ cursor'[k] = c /\ queue'[k] = q
        /\ delivered'[k] = d \cup {Head(r)}
    BY <1>1, <1>5, <1>13 DEF SocketReplay
  <2>6. /\ socket'[k].replay = Tail(r) /\ socket'[k].cursor = new
        /\ socket'[k].subscribed = socket[k].subscribed
    BY <1>1, <1>5, <1>13, <2>4 DEF SocketReplay, Sockets
  <2>7. Sent(k)' = d \cup Range(r)
    <3>1. Sent(k)' = (d \cup {Head(r)}) \cup Range(Tail(r))
      BY <2>5, <2>6 DEF Sent
    <3> QED BY <2>2, <3>1
  <2>8. Rest(queue[k], cursor[k])'
    BY <1>0, <1>1, <1>5, <2>5 DEF SocketInv, Rest
  <2>9. new < published
    BY <1>8, <2>2, <2>4
  <2>10. socket[k].subscribed => 0..new \subseteq d \cup Range(r)
    BY <1>9, <2>2, <2>4, <2>5
  <2>11. SocketInv(k)'
    BY <1>0, <1>8, <1>9, <2>5, <2>6, <2>7, <2>8, <2>9, <2>10 DEF SocketInv
  <2> QED BY <1>3, <1>4, <2>11
<1>14. CASE SocketUnsubscribe(k)
  <2>1. /\ pc'[k] = "open" /\ pc[k] = "open" /\ cursor'[k] = c /\ queue'[k] = q
        /\ delivered'[k] = {}
    BY <1>1, <1>5, <1>14 DEF SocketUnsubscribe
  <2>2. /\ socket'[k].replay = << >> /\ socket'[k].cursor = a
        /\ ~socket'[k].subscribed
    BY <1>1, <1>5, <1>14 DEF SocketUnsubscribe, Sockets
  <2>3. Sent(k)' = {}
    BY <1>10, <2>1, <2>2 DEF Sent
  <2>4. Rest(queue[k], cursor[k])'
    BY <1>0, <1>1, <1>5, <2>1 DEF SocketInv, Rest
  <2>5. SocketInv(k)'
    BY <1>0, <1>8, <2>1, <2>2, <2>3, <2>4 DEF SocketInv
  <2> QED BY <1>3, <1>4, <2>5
<1>15. CASE SocketDeliver(k)
  <2>1. Rest(q, c) /\ q # << >> /\ pc[k] = "open"
    BY <1>1, <1>5, <1>15 DEF SocketDeliver, SocketInv
  <2>2. Head(q) = c + 1 /\ Rest(Tail(q), c + 1) /\ c + 1 \in Event
    BY <1>1, <2>1, RestTail
  <2>3. ~(Head(q) <= c)
    BY <1>7, <2>2
  <2>4. PICK new \in {a, c + 1} : new = Later(a, c + 1)
    BY <2>2, LaterIs
  <2>5. /\ pc'[k] = "open" /\ cursor'[k] = c + 1 /\ queue'[k] = Tail(q)
        /\ delivered'[k] = d \cup Matching(k, c + 1)
    BY <1>1, <1>5, <1>15, <2>1, <2>2, <2>3 DEF SocketDeliver
  <2>6. socket' = [socket EXCEPT ![k].cursor = new]
    BY <1>5, <1>15, <2>2, <2>3, <2>4 DEF SocketDeliver
  <2>7. /\ socket'[k].replay = r /\ socket'[k].cursor = new
        /\ socket'[k].subscribed = socket[k].subscribed
    BY <1>1, <1>5, <2>6 DEF Sockets
  <2>8. c + 1 < published /\ new < published
    BY <1>8, <2>2, <2>4 DEF Rest
  <2>9. Rest(queue[k], cursor[k])'
    BY <1>0, <2>2, <2>5 DEF Rest
  <2>10. CASE socket[k].subscribed
    <3> DEFINE sent == d \cup Range(r) \cup {c + 1}
    <3>1. Sent(k)' = sent
      BY <2>5, <2>7, <2>10 DEF Sent, Matching
    <3>2. 0..(c + 1) \subseteq sent
      <4>1. 0..c \subseteq sent
        BY <1>9, <2>1, <2>10
      <4>2. ASSUME NEW e \in 0..(c + 1) PROVE e \in 0..c \/ e = c + 1
        BY <1>7
      <4> QED BY <4>1, <4>2
    <3>3. 0..a \subseteq sent
      BY <1>9, <2>1, <2>10
    <3>4. ASSUME NEW e \in sent PROVE e < published /\ 0..e \subseteq sent
      BY <1>8, <1>9, <2>1, <2>8, <2>10, <3>2
    <3>5. 0..new \subseteq sent
      BY <2>4, <3>2, <3>3
    <3> HIDE DEF sent
    <3>6. SocketInv(k)'
      BY <1>0, <2>5, <2>7, <2>8, <2>9, <3>1, <3>2, <3>4, <3>5 DEF SocketInv
    <3> QED BY <1>3, <1>4, <3>6
  <2>11. CASE ~socket[k].subscribed
    <3>1. Sent(k)' = d \cup Range(r)
      BY <2>5, <2>7, <2>11 DEF Sent, Matching
    <3>2. SocketInv(k)'
      BY <1>0, <1>8, <2>5, <2>7, <2>8, <2>9, <2>11, <3>1 DEF SocketInv
    <3> QED BY <1>3, <1>4, <3>2
  <2> QED BY <2>10, <2>11
<1>16. CASE SocketClose(k)
  <2>1. pc'[k] = "gone" /\ cursor'[k] = cursor[k] /\ delivered' = delivered /\ socket' = socket
    BY <1>1, <1>16 DEF SocketClose
  <2>2. SocketInv(k)'
    BY <1>0, <1>1, <2>1 DEF SocketInv, Sent
  <2> QED BY <1>3, <1>4, <2>2
<1> QED BY <1>11, <1>12, <1>13, <1>14, <1>15, <1>16

LEMMA RequestLive ==
    ASSUME TypeInv, LiveInv, NEW f \in Joiner \cup Waiter, Request(f)
    PROVE  LiveInv'
<1>0. /\ UNCHANGED run /\ UNCHANGED <<first, delivered, socket>> /\ published' = published
      /\ f \in Follower
  BY DEF Request, JoinPoll, WaitPoll, WaitSubscribe, NextEvent, Timeout, Leave, run, Follower
<1> SUFFICES ASSUME published <= HistoryLimit
             PROVE  /\ \A s \in Stream : StreamInv(s)'
                    /\ \A k \in Socket : SocketInv(k)'
  BY <1>0 DEF LiveInv
<1>1. /\ queue \in [Follower -> Seq(Event)] /\ cursor \in [Follower -> Event \cup {None}]
      /\ DOMAIN pc = Follower
  BY DEF TypeInv, QueuesOK, FollowersOK
<1>2. ASSUME NEW g \in Stream \cup Socket
      PROVE  pc'[g] = pc[g] /\ cursor'[g] = cursor[g] /\ queue'[g] = queue[g]
  <2>0. g \in Follower /\ g # f
    BY ConstantsAssumption DEF Follower
  <2>1. CASE JoinPoll(f) \/ Timeout(f) \/ Leave(f)
    BY <1>1, <2>0, <2>1 DEF JoinPoll, Timeout, Leave
  <2>2. CASE WaitPoll(f)
    BY <1>1, <2>0, <2>2 DEF WaitPoll
  <2>3. CASE WaitSubscribe(f) \/ NextEvent(f)
    BY <1>1, <2>0, <2>3 DEF WaitSubscribe, NextEvent, Subscribe, Unsubscribe
  <2> QED BY <2>1, <2>2, <2>3 DEF Request
<1>3. ASSUME NEW s \in Stream PROVE StreamInv(s)'
  <2>1. StreamInv(s) /\ first'[s] = first[s] /\ delivered'[s] = delivered[s]
    BY <1>0 DEF LiveInv
  <2> QED BY <1>0, <1>2, <2>1, StreamStays
<1>4. ASSUME NEW k \in Socket PROVE SocketInv(k)'
  <2>1. SocketInv(k) /\ socket'[k] = socket[k] /\ delivered'[k] = delivered[k]
    BY <1>0 DEF LiveInv
  <2> QED BY <1>0, <1>2, <2>1, SocketStays
<1> QED BY <1>3, <1>4

LEMMA LiveStep ==
    ASSUME TypeInv, LiveInv, [Next]_vars
    PROVE  LiveInv'
<1>1. CASE UNCHANGED vars
  <2>1. /\ UNCHANGED run /\ published' = published
        /\ UNCHANGED <<pc, cursor, queue, first, delivered, socket>>
    BY <1>1 DEF vars, run
  <2> QED BY <2>1, StreamStays, SocketStays DEF LiveInv
<1>2. CASE Next
  BY <1>2, Steps, RunLive, StreamLive, SocketLive, RequestLive
<1> QED BY <1>1, <1>2

LEMMA LiveInit == Init => LiveInv
<1> SUFFICES ASSUME Init PROVE LiveInv
  OBVIOUS
<1>1. published = 0 /\ None < published /\ None = -1
  BY DEF Init, None
<1>2. PICK followers \in Together :
        pc = [f \in Follower |-> CASE f \notin followers -> "gone"
                                  [] f \in Stream \cup Socket -> "new"
                                  [] OTHER -> "poll"]
  BY DEF Init
<1>3. ASSUME NEW f \in Stream \cup Socket
      PROVE  f \in Follower /\ pc[f] \in {"new", "gone"} /\ cursor[f] = None
             /\ delivered[f] = {}
  BY <1>2 DEF Init, Follower
<1>4. ASSUME NEW s \in Stream PROVE StreamInv(s)
  BY <1>3 DEF StreamInv
<1>5. ASSUME NEW k \in Socket PROVE SocketInv(k)
  <2>1. socket[k] = NewSocket
    BY DEF Init
  <2>2. ~socket[k].subscribed /\ socket[k].cursor = None /\ socket[k].replay = << >>
    BY <2>1 DEF NewSocket
  <2>3. Sent(k) = {}
    BY <1>3, <2>2 DEF Sent, Range
  <2> QED BY <1>1, <1>3, <2>2, <2>3 DEF SocketInv
<1> QED BY <1>4, <1>5 DEF LiveInv

LEMMA InitIInv == Init => IInv
BY TypesInit, LiveInit DEF IInv

LEMMA StepIInv == IInv /\ [Next]_vars => IInv'
BY TypesStep, LiveStep DEF IInv

\* What the invariant says of an open stream and of a subscription.
LEMMA NothingIsMissed ==
    ASSUME TypeInv, LiveInv
    PROVE  CompleteUpToLimit
<1> SUFFICES ASSUME published <= HistoryLimit
             PROVE  CompleteUpToLimit
  BY DEF CompleteUpToLimit
<1>0. RunInv
  BY DEF TypeInv
<1>1. ASSUME NEW f \in Stream \cup Socket
      PROVE  /\ queue[f] \in Seq(Event) /\ cursor[f] \in Event \cup {None}
             /\ delivered[f] \in SUBSET Event
  BY DEF TypeInv, QueuesOK, FollowersOK, Follower
<1>2. ASSUME NEW s \in Stream, pc[s] \in {"open", "done"}
      PROVE  delivered[s] \cup Range(queue[s]) = {e \in 0..(published - 1) : e > first[s]}
  <2>1. StreamInv(s) /\ first[s] \in Event \cup {None}
    BY DEF LiveInv, TypeInv, FollowersOK
  <2>2. PICK c \in Event \cup {None}, b \in Event \cup {None} :
          c = cursor[s] /\ b = first[s]
    BY <1>1, <2>1
  <2>3. Range(queue[s]) = (c + 1)..(published - 1)
    BY <1>0, <1>1, <1>2, <2>1, <2>2, RestRange DEF StreamInv
  <2>4. delivered[s] = {e \in Event : b < e /\ e <= c} /\ b <= c /\ c < published
    BY <1>2, <2>1, <2>2 DEF StreamInv
  <2>5. /\ b \in Int /\ c \in Int /\ published \in Nat /\ None <= b /\ None = -1
        /\ 0..(published - 1) \subseteq Event /\ \A e \in Event : e \in Nat
    BY <1>0, Numbers DEF Event, None
  <2>6. ASSUME NEW e \in Event, b < e, e <= c
        PROVE  e \in 0..(published - 1) /\ e > b
    BY <2>4, <2>5, <2>6
  <2>7. ASSUME NEW e \in (c + 1)..(published - 1)
        PROVE  e \in 0..(published - 1) /\ e > b
    BY <2>4, <2>5
  <2>8. ASSUME NEW e \in 0..(published - 1), e > b
        PROVE  e \in Event /\ ((b < e /\ e <= c) \/ e \in (c + 1)..(published - 1))
    BY <2>4, <2>5, <2>8
  <2> QED BY <2>2, <2>3, <2>4, <2>6, <2>7, <2>8
<1>3. ASSUME NEW k \in Socket, pc[k] = "open", socket[k].subscribed
      PROVE  /\ delivered[k] \cup Range(socket[k].replay) \cup Range(queue[k])
                  = 0..(published - 1)
             /\ socket[k].replay = <<>> => 0..socket[k].cursor \subseteq delivered[k]
  <2>1. SocketInv(k)
    BY DEF LiveInv
  <2>2. PICK c \in Event \cup {None} : c = cursor[k]
    BY <1>1
  <2>3. Range(queue[k]) = (c + 1)..(published - 1)
    BY <1>0, <1>1, <1>3, <2>1, <2>2, RestRange DEF SocketInv
  <2>4. /\ \A e \in Sent(k) : e < published
        /\ 0..c \subseteq Sent(k) /\ 0..socket[k].cursor \subseteq Sent(k)
        /\ c < published
    BY <1>3, <2>1, <2>2 DEF SocketInv
  <2>5. Sent(k) \subseteq Event
    <3>1. socket[k].replay \in Seq(Event)
      BY DEF TypeInv, SocketsOK, Sockets
    <3> QED BY <1>1, <3>1 DEF Sent, Range
  <2>6. c \in Int /\ c >= -1 /\ published \in Nat /\ \A e \in Event : e \in Nat
    BY <1>0, Numbers DEF Event, None
  <2>7. ASSUME NEW e \in Sent(k) PROVE e \in 0..(published - 1)
    <3>1. e \in Nat /\ e < published
      BY <2>4, <2>5, <2>6
    <3> QED BY <2>6, <3>1
  <2>8. \A e \in (c + 1)..(published - 1) : e \in 0..(published - 1)
    BY <2>6
  <2>9. \A e \in 0..(published - 1) : e \in 0..c \/ e \in (c + 1)..(published - 1)
    BY <2>6
  <2>10. Sent(k) \cup Range(queue[k]) = 0..(published - 1)
    BY <2>3, <2>4, <2>7, <2>8, <2>9
  <2>11. socket[k].replay = << >> => Sent(k) = delivered[k]
    BY DEF Sent, Range
  <2> QED BY <2>4, <2>10, <2>11 DEF Sent
<1> QED BY <1>2, <1>3 DEF CompleteUpToLimit

\* As long as the broker keeps every event, an open stream was given or finds on
\* its queue every event after the one its client first named, whatever
\* disconnections, reconnections and publications came between; and what a
\* WebSocket was sent since it subscribed, with what is still to come, has no hole.
THEOREM NothingMissedUpToLimit == Spec => []CompleteUpToLimit
<1>1. IInv => CompleteUpToLimit
  BY NothingIsMissed DEF IInv
<1> QED BY InitIInv, StepIInv, <1>1, PTL DEF Spec
-----------------------------------------------------------------------------
(* The streams are fed.                                                    *)

LEMMA InitFeeds == Init => Feed!Init
<1> SUFFICES ASSUME Init PROVE Feed!Init
  OBVIOUS
<1>1. 0..(published - 1) = {}
  BY DEF Init
<1>2. \A s \in Stream : cursor[s] = None /\ delivered[s] = {}
  BY DEF Init, Follower
<1> QED BY <1>1, <1>2 DEF Feed!Init

LEMMA StreamsStay ==
    ASSUME published' = published,
           \A s \in Stream : cursor'[s] = cursor[s] /\ delivered'[s] = delivered[s]
    PROVE  UNCHANGED Feed!vars
BY DEF Feed!vars

LEMMA SocketsAside ==
    ASSUME TypeInv, NEW k \in Socket,
           \/ SocketConnect(k) \/ SocketSubscribe(k) \/ SocketReplay(k)
           \/ SocketUnsubscribe(k) \/ SocketDeliver(k) \/ SocketClose(k)
    PROVE  UNCHANGED Feed!vars
<1>1. published' = published
  BY DEF SocketConnect, SocketSubscribe, SocketReplay, SocketUnsubscribe, SocketDeliver,
         SocketClose, run
<1>2. ASSUME NEW s \in Stream
      PROVE  cursor'[s] = cursor[s] /\ delivered'[s] = delivered[s]
  <2>0. s # k /\ s \in Follower /\ DOMAIN cursor = Follower
        /\ DOMAIN delivered = Stream \cup Socket
    BY ConstantsAssumption DEF Follower, TypeInv, FollowersOK
  <2>1. CASE SocketConnect(k) \/ SocketSubscribe(k) \/ SocketUnsubscribe(k) \/ SocketClose(k)
    BY <2>0, <2>1 DEF SocketConnect, SocketSubscribe, SocketUnsubscribe, SocketClose
  <2>2. CASE SocketReplay(k)
    BY <2>0, <2>2 DEF SocketReplay
  <2>3. CASE SocketDeliver(k)
    BY <2>0, <2>3 DEF SocketDeliver
  <2> QED BY <2>1, <2>2, <2>3
<1> QED BY <1>1, <1>2, StreamsStay

LEMMA RequestsAside ==
    ASSUME TypeInv, NEW f \in Joiner \cup Waiter, Request(f)
    PROVE  UNCHANGED Feed!vars
<1>1. published' = published /\ UNCHANGED delivered
  BY DEF Request, JoinPoll, WaitPoll, WaitSubscribe, NextEvent, Timeout, Leave, run
<1>2. ASSUME NEW s \in Stream PROVE cursor'[s] = cursor[s]
  <2>0. s # f /\ s \in Follower /\ DOMAIN cursor = Follower
    BY ConstantsAssumption DEF Follower, TypeInv, FollowersOK
  <2> QED BY <2>0 DEF Request, JoinPoll, WaitPoll, WaitSubscribe, NextEvent, Timeout, Leave
<1> QED BY <1>1, <1>2, StreamsStay

\* A stream comes with the number of an event, or with none.
LEMMA ConnectComes ==
    ASSUME TypeInv, NEW s \in Stream, StreamInv(s), Connect(s)
    PROVE  UNCHANGED Feed!vars \/ Feed!Come(s)
<1> DEFINE last == [t \in Stream |-> cursor[t]]
           given == [t \in Stream |-> delivered[t]]
<1>1. PICK since \in {None} \cup 0..(published - 1) :
        cursor' = [cursor EXCEPT ![s] = since]
  BY DEF Connect
<1>2. /\ published' = published /\ UNCHANGED delivered
      /\ cursor[s] = None /\ delivered[s] = {}
  BY DEF Connect, run, StreamInv
<1>3. Stream \subseteq Follower /\ DOMAIN cursor = Follower
  BY DEF Follower, TypeInv, FollowersOK
<1>4. CASE since = None
  BY <1>1, <1>2, <1>3, <1>4, StreamsStay
<1>5. CASE since # None
  <2>1. since \in 0..(published - 1)
    BY <1>1, <1>5
  <2>2. last' = [last EXCEPT ![s] = since]
    BY <1>1, <1>3
  <2>3. last[s] = None /\ given[s] = {} /\ given' = given
    BY <1>2
  <2> HIDE DEF last, given
  <2>4. \E n \in 0..(published - 1) : last' = [last EXCEPT ![s] = n]
    BY <2>1, <2>2
  <2> QED BY <1>2, <2>3, <2>4 DEF Feed!Come, last, given
<1> QED BY <1>4, <1>5

\* What a stream takes from its queue is what was published behind its cursor.
LEMMA DeliverGives ==
    ASSUME TypeInv, NEW s \in Stream, StreamInv(s), Deliver(s)
    PROVE  Feed!Give(s)
<1> DEFINE last == [t \in Stream |-> cursor[t]]
           given == [t \in Stream |-> delivered[t]]
<1>1. /\ RunInv /\ published' = published /\ Stream \subseteq Follower
      /\ DOMAIN cursor = Follower /\ DOMAIN delivered = Stream \cup Socket
      /\ queue[s] \in Seq(Event) /\ cursor[s] \in Event \cup {None}
  BY DEF Deliver, run, Follower, TypeInv, QueuesOK, FollowersOK
<1>2. PICK q \in Seq(Event), c \in Event \cup {None} : q = queue[s] /\ c = cursor[s]
  BY <1>1
<1>3. PICK p : p = published
  OBVIOUS
<1>4. Rest(q, c) /\ q # << >>
  BY <1>2 DEF Deliver, StreamInv
<1>5. Head(q) = c + 1 /\ Rest(Tail(q), c + 1) /\ c + 1 \in Event
  BY <1>1, <1>4, RestTail
<1>6. c \in Int /\ c + 1 \in Nat /\ p \in Nat /\ c + 1 < p /\ ~(Head(q) <= c)
  BY <1>1, <1>3, <1>5 DEF Event, None, Rest, RunInv
<1>7. /\ cursor' = [cursor EXCEPT ![s] = c + 1]
      /\ delivered' = [delivered EXCEPT ![s] = @ \cup {c + 1}]
  BY <1>2, <1>5, <1>6 DEF Deliver
<1>8. c + 1 \in 0..(p - 1) /\ c + 1 > c
  BY <1>6
<1>9. {e \in 0..(p - 1) : c < e /\ e <= c + 1} = {c + 1}
  BY <1>6
<1>10. last' = [last EXCEPT ![s] = c + 1] /\ last[s] = c
  BY <1>1, <1>2, <1>7
<1>11. given' = [given EXCEPT ![s] = @ \cup {c + 1}]
  BY <1>1, <1>7
<1> HIDE DEF last, given
<1>12. \E n \in 0..(p - 1) :
         /\ n > last[s]
         /\ last' = [last EXCEPT ![s] = n]
         /\ given' = [given EXCEPT ![s] = @ \cup {e \in 0..(p - 1) : last[s] < e /\ e <= n}]
  BY <1>8, <1>9, <1>10, <1>11
<1> QED BY <1>1, <1>3, <1>12 DEF Feed!Give, last, given

LEMMA RunFeeds ==
    ASSUME TypeInv, RunStep
    PROVE  [Feed!Next]_(Feed!vars)
<1>1. CASE Persist \/ SaveOutcome \/ PersistEnd
  <2>1. published' = published /\ UNCHANGED <<cursor, delivered>>
    BY <1>1 DEF Persist, SaveOutcome, PersistEnd
  <2> QED BY <2>1, StreamsStay
<1>2. CASE Publish
  <2>1. PICK p : p = published
    OBVIOUS
  <2>2. p \in Nat /\ published' = p + 1 /\ UNCHANGED <<cursor, delivered>>
    BY <1>2, <2>1 DEF Publish, TypeInv, RunInv
  <2>3. /\ 0..(p - 1) \subseteq 0..(p + 1 - 1)
        /\ \A n \in (0..(p + 1 - 1)) \ (0..(p - 1)) :
             n > -1 /\ \A e \in 0..(p - 1) : n > e
    BY <2>2
  <2>4. Feed!Publish
    BY <2>1, <2>2, <2>3 DEF Feed!Publish, None
  <2> QED BY <2>4 DEF Feed!Next
<1> QED BY <1>1, <1>2 DEF RunStep

\* Publishing is Publish, a stream that comes with a number is Come, and what it
\* takes from its queue is Give; all else is a stutter.
LEMMA StepFeeds ==
    IInv /\ [Next]_vars => [published' <= HistoryLimit => Feed!Next]_(Feed!vars)
<1> SUFFICES ASSUME IInv, [Next]_vars, published' <= HistoryLimit
             PROVE  [Feed!Next]_(Feed!vars)
  OBVIOUS
<1>1. TypeInv
  BY DEF IInv
<1>2. CASE RunStep
  BY <1>1, <1>2, RunFeeds
<1>3. ASSUME NEW s \in Stream, Connect(s) \/ Deliver(s) \/ Disconnect(s) \/ Reconnect(s)
      PROVE  [Feed!Next]_(Feed!vars)
  <2>1. published' = published
    BY <1>3 DEF Connect, Deliver, Disconnect, Reconnect, run
  <2>2. StreamInv(s)
    BY <2>1 DEF IInv, LiveInv
  <2>3. CASE Connect(s)
    BY <1>1, <2>2, <2>3, ConnectComes DEF Feed!Next
  <2>4. CASE Deliver(s)
    BY <1>1, <2>2, <2>4, DeliverGives DEF Feed!Next
  <2>5. CASE Disconnect(s) \/ Reconnect(s)
    <3>1. UNCHANGED <<cursor, delivered>>
      BY <2>5 DEF Disconnect, Reconnect
    <3> QED BY <2>1, <3>1, StreamsStay
  <2> QED BY <1>3, <2>3, <2>4, <2>5
<1>4. CASE UNCHANGED vars
  <2>1. published' = published /\ UNCHANGED <<cursor, delivered>>
    BY <1>4 DEF vars, run
  <2> QED BY <2>1, StreamsStay
<1> QED BY <1>1, <1>2, <1>3, <1>4, Steps, SocketsAside, RequestsAside

\* As long as the broker keeps every event, a stream is given each event behind
\* the one its client came with once, in order and with none left out.
THEOREM StreamsAreFed == Spec => FeedSpec
BY InitIInv, StepIInv, InitFeeds, StepFeeds, PTL DEF Spec, FeedSpec
=============================================================================
