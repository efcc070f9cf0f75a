------------------------- MODULE RabbitEvents_proofs -------------------------
(***************************************************************************)
(* Proofs about RabbitEvents, for every number of appenders, readers,      *)
(* events and producers, every queue limit and every set of faults.        *)
(*                                                                         *)
(* A producer is opened only behind the lock, while there is none          *)
(* (ConnectsWithout); an event that is sent over a living connection is    *)
(* still under way or in the stream (SentIsUnderWay); what an appender     *)
(* begins later is not there before (NotAhead); and what waits in a queue  *)
(* is the piece of the stream behind the cursor (QueueIsNext).             *)
(***************************************************************************)
EXTENDS RabbitEvents, TLAPS

\* An append that is under way is that of an event.
HasEvent == \A a \in Appender : app[a].pc # "idle" => app[a].event \in 1..MaxEvents

TypeInv == TypeOK /\ HasEvent

AppOK == app \in [Appender -> AppState]

AppPC == {"idle", "ensure", "lockProducer", "connect", "declare", "create",
          "send", "confirm", "reset"}

\* An appender goes to pc, and works with producer p from there.
Moves(a, pc, p) ==
    /\ AppOK'
    /\ app'[a].pc = pc /\ app'[a].producer = p /\ app'[a].event = app[a].event
    /\ \A b \in Appender : b # a => app'[b] = app[b]

LEMMA GotoMoves ==
    ASSUME AppOK, NEW a \in Appender, NEW pc \in AppPC, Goto(a, pc)
    PROVE  Moves(a, pc, app[a].producer)
BY DEF AppOK, AppState, AppPC, Goto, Moves

LEMMA UseMoves ==
    ASSUME AppOK, NEW a \in Appender, NEW p \in Producer,
           app' = [app EXCEPT ![a].pc = "declare", ![a].producer = p]
    PROVE  Moves(a, "declare", p)
BY DEF AppOK, AppState, Moves

LEMMA BecomeMoves ==
    ASSUME AppOK, NEW a \in Appender, NEW pc \in AppPC, NEW n \in 1..2, Become(a, pc, n)
    PROVE  Moves(a, pc, None)
BY DEF AppOK, AppState, AppPC, Become, Moves

LEMMA ReturnMoves ==
    ASSUME AppOK, NEW a \in Appender, Return(a)
    PROVE  Moves(a, "idle", None)
<1>1. 1 \in 1..2 /\ "idle" \in AppPC
  BY DEF AppPC
<1> QED BY <1>1, BecomeMoves DEF Return

LEMMA NextMoves ==
    ASSUME AppOK, NEW a \in Appender, NextAttempt(a)
    PROVE  \E pc \in {"idle", "ensure"} : Moves(a, pc, None)
<1>1. 2 \in 1..2 /\ "ensure" \in AppPC
  BY DEF AppPC
<1> QED BY <1>1, BecomeMoves, ReturnMoves DEF NextAttempt

LEMMA AppendMoves ==
    ASSUME AppOK, NEW a \in Appender, AppendEvent(a)
    PROVE  /\ AppOK'
           /\ app'[a].pc = "ensure" /\ app'[a].producer = app[a].producer
           /\ app'[a].event = app[a].event + 1 /\ app'[a].event \in 1..MaxEvents
           /\ \A b \in Appender : b # a => app'[b] = app[b]
BY ConstantsAssumption DEF AppOK, AppState, AppendEvent

LEMMA ConnectMoves ==
    ASSUME TypeInv, NEW a \in Appender, Connect(a)
    PROVE  Moves(a, "declare", made') /\ made' = made + 1 /\ made' \in Producer
<1>1. made' \in Producer /\ made' = made + 1
  BY ConstantsAssumption DEF TypeInv, TypeOK, Connect, Producer, None
<1> QED BY <1>1, UseMoves DEF Connect, TypeInv, TypeOK, AppOK

LEMMA TypeMoves == TypeInv => AppOK
BY DEF TypeInv, TypeOK, AppOK

\* What is left to show when an appender moves.
LEMMA MovesTypeInv ==
    ASSUME TypeInv, NEW a \in Appender, NEW pc \in AppPC, NEW p, Moves(a, pc, p),
           app[a].pc # "idle",
           UNCHANGED <<reader, consumers>>,
           \/ lock' = lock /\ (lock = a <=> pc \in {"connect", "create"})
           \/ lock = Nobody /\ lock' = a /\ pc \in {"connect", "create"}
           \/ lock = a /\ lock' = Nobody /\ pc \notin {"connect", "create"},
           log' \in Seq(Event), flight' \subseteq Event \X Producer,
           made' \in {None} \cup Producer, alive' \subseteq 1..made', producer' \in 0..made',
           declared' \in BOOLEAN, told' \subseteq Event
    PROVE  TypeInv'
<1>1. HasEvent'
  BY DEF TypeInv, HasEvent, Moves
<1>2. (\A b \in Appender : lock = b <=> app[b].pc \in {"connect", "create"})'
  BY ConstantsAssumption DEF TypeInv, TypeOK, Moves
<1>3. (\A r \in Reader : lock = r <=> reader[r].pc = "create")'
  BY ConstantsAssumption DEF TypeInv, TypeOK, Moves
<1>4. lock' \in Appender \cup Reader \cup {Nobody}
  BY DEF TypeInv, TypeOK
<1> QED BY <1>1, <1>2, <1>3, <1>4 DEF TypeInv, TypeOK, Moves, AppOK

LEMMA AppenderTypeInv ==
    ASSUME TypeInv, NEW a \in Appender, AppendEvent(a) \/ AppenderStep(a)
    PROVE  TypeInv'
<1> USE TypeMoves
<1>0. /\ log \in Seq(Event) /\ flight \subseteq Event \X Producer
      /\ made \in {None} \cup Producer /\ alive \subseteq 1..made /\ producer \in 0..made
      /\ declared \in BOOLEAN /\ told \subseteq Event /\ None \in 0..made /\ made \in Nat
      /\ lock = a <=> app[a].pc \in {"connect", "create"}
      /\ app[a].pc # "idle" => Current(a) \in Event
  BY ConstantsAssumption
     DEF TypeInv, TypeOK, HasEvent, Current, Event, Producer, None
<1>1. CASE AppendEvent(a)
  <2>1. HasEvent'
    BY <1>1, AppendMoves DEF TypeInv, HasEvent
  <2>2. (\A b \in Appender : lock = b <=> app[b].pc \in {"connect", "create"})'
    BY <1>1, AppendMoves DEF TypeInv, TypeOK, AppendEvent, shared
  <2> QED BY <1>1, <2>1, <2>2, AppendMoves
          DEF TypeInv, TypeOK, AppOK, AppendEvent, server, shared
<1>2. CASE EnsureProducer(a)
  <2>1. CASE producer # None
    <3>1. producer \in Producer
      BY <1>0, <2>1, ConstantsAssumption DEF Producer, None
    <3>2. Moves(a, "declare", producer)
      BY <1>2, <2>1, <3>1, UseMoves DEF EnsureProducer, UseProducer
    <3> QED BY <1>0, <1>2, <3>2, MovesTypeInv DEF EnsureProducer, AppPC, server, shared
  <2>2. CASE producer = None
    <3>1. Moves(a, "lockProducer", app[a].producer)
      BY <1>2, <2>2, GotoMoves DEF EnsureProducer, AppPC
    <3> QED BY <1>0, <1>2, <3>1, MovesTypeInv DEF EnsureProducer, AppPC, server, shared
  <2> QED BY <2>1, <2>2
<1>3. CASE LockProducer(a)
  <2>1. CASE producer # None
    <3>1. producer \in Producer
      BY <1>0, <2>1, ConstantsAssumption DEF Producer, None
    <3>2. Moves(a, "declare", producer)
      BY <1>3, <2>1, <3>1, UseMoves DEF LockProducer, UseProducer
    <3> QED BY <1>0, <1>3, <2>1, <3>2, MovesTypeInv DEF LockProducer, AppPC, server
  <2>2. CASE producer = None
    <3>1. Moves(a, "connect", app[a].producer)
      BY <1>3, <2>2, GotoMoves DEF LockProducer, AppPC
    <3> QED BY <1>0, <1>3, <2>2, <3>1, MovesTypeInv DEF LockProducer, LockFree, AppPC, server
  <2> QED BY <2>1, <2>2
<1>4. CASE Connect(a)
  <2>1. Moves(a, "declare", made') /\ made' = made + 1 /\ made' \in Producer
    BY <1>4, ConnectMoves
  <2>2. alive' \subseteq 1..made' /\ producer' \in 0..made'
    BY <1>0, <1>4, <2>1 DEF Connect
  <2> QED BY <1>0, <1>4, <2>1, <2>2, MovesTypeInv DEF Connect, AppPC
<1>5. CASE ConnectFails(a)
  <2>1. Moves(a, "idle", None)
    BY <1>5, ReturnMoves DEF ConnectFails
  <2> QED BY <1>0, <1>5, <2>1, MovesTypeInv DEF ConnectFails, AppPC, server
<1> USE DEF AppPC, server, shared
<1>6. CASE Declare(a)
  <2>1. PICK pc \in {"send", "reset", "create"} : Goto(a, pc) /\
          IF pc = "create" THEN lock' = a ELSE lock' = lock
    BY <1>6 DEF Declare
  <2>2. Moves(a, pc, app[a].producer)
    BY <2>1, GotoMoves
  <2> QED BY <1>0, <1>6, <2>1, <2>2, MovesTypeInv DEF Declare, LockFree
<1>7. CASE Create(a)
  <2>1. PICK pc \in {"send", "reset"} : Goto(a, pc)
    BY <1>7 DEF Create
  <2>2. Moves(a, pc, app[a].producer)
    BY <2>1, GotoMoves
  <2> QED BY <1>0, <1>7, <2>1, <2>2, MovesTypeInv DEF Create
<1>8. CASE Send(a)
  <2>1. PICK pc \in {"confirm", "reset"} : Goto(a, pc)
    BY <1>8 DEF Send
  <2>2. Moves(a, pc, app[a].producer)
    BY <2>1, GotoMoves
  <2>3. flight' \subseteq Event \X Producer
    <3>1. 1..made \subseteq Producer
      BY <1>0, ConstantsAssumption DEF Producer, None
    <3>2. app[a].producer \in alive =>
            <<Current(a), app[a].producer>> \in Event \X Producer
      BY <1>0, <1>8, <3>1 DEF Send
    <3> QED BY <1>0, <1>8, <3>2 DEF Send
  <2> QED BY <1>0, <1>8, <2>1, <2>2, <2>3, MovesTypeInv DEF Send
<1>9. CASE Confirm(a)
  <2>1. Moves(a, "idle", None)
    BY <1>9, ReturnMoves DEF Confirm
  <2> QED BY <1>0, <1>9, <2>1, MovesTypeInv DEF Confirm
<1>10. CASE SendFails(a)
  <2>1. Moves(a, "reset", app[a].producer)
    BY <1>10, GotoMoves DEF SendFails
  <2> QED BY <1>0, <1>10, <2>1, MovesTypeInv DEF SendFails
<1>11. CASE Reset(a)
  <2>1. PICK pc \in {"idle", "ensure"} : Moves(a, pc, None)
    BY <1>11, NextMoves DEF Reset
  <2>2. alive' \subseteq 1..made' /\ producer' \in 0..made' /\ declared' \in BOOLEAN
    BY <1>0, <1>11 DEF Reset
  <2> QED BY <1>0, <1>11, <2>1, <2>2, MovesTypeInv DEF Reset
<1> QED BY <1>1, <1>2, <1>3, <1>4, <1>5, <1>6, <1>7, <1>8, <1>9, <1>10, <1>11
        DEF AppenderStep
-----------------------------------------------------------------------------
(* The readers.                                                            *)

ReaderSteps(r) ==
    ReaderStep(r) \/ StartFails(r) \/ SubscribeFails(r) \/ Leave(r) \/ LeaveEarly(r)

ReaderPC == {"away", "declare", "create", "start", "register", "subscribe",
             "open", "refused", "crashed"}

ReaderOK == reader \in [Reader -> ReaderState]

LEMMA ReaderGotoMoves ==
    ASSUME ReaderOK, NEW r \in Reader, NEW pc \in ReaderPC, ReaderGoto(r, pc)
    PROVE  /\ ReaderOK'
           /\ reader'[r].pc = pc /\ reader'[r].queue = reader[r].queue
           /\ \A s \in Reader : s # r => reader'[s] = reader[s]
BY DEF ReaderOK, ReaderState, ReaderPC, ReaderGoto

\* The changes of a reader that are more than going on.
Reopened(s, pc, n) == [s EXCEPT !.pc = pc, !.next = n, !.queue = <<>>]
Pushed(s) == [s EXCEPT !.queue = Append(@, s.next), !.next = @ + 1]
Taken(s, q, c, d) == [s EXCEPT !.queue = q, !.cursor = c, !.delivered = d]
Given(s) ==
    LET offset == Head(s.queue) IN
    IF offset > s.cursor
    THEN Taken(s, Tail(s.queue), offset, s.delivered \cup {offset})
    ELSE Taken(s, Tail(s.queue), s.cursor, s.delivered)

LEMMA ReopenedType ==
    ASSUME NEW s \in ReaderState, NEW pc \in ReaderPC, NEW n \in Nat
    PROVE  /\ Reopened(s, pc, n) \in ReaderState
           /\ Reopened(s, pc, n).pc = pc /\ Reopened(s, pc, n).next = n
           /\ Reopened(s, pc, n).queue = <<>> /\ Reopened(s, pc, n).cursor = s.cursor
           /\ Reopened(s, pc, n).delivered = s.delivered
<1> DEFINE t == [s EXCEPT !.pc = pc, !.next = n]
           u == Reopened(s, pc, n)
<1>1. t \in ReaderState /\ t.pc = pc /\ t.next = n
      /\ t.cursor = s.cursor /\ t.delivered = s.delivered
  BY DEF ReaderState, ReaderPC
<1>2. u = [t EXCEPT !.queue = <<>>]
  BY DEF ReaderState, Reopened
<1>3. <<>> \in Seq(Nat)
  OBVIOUS
<1> HIDE DEF t, u
<1>4. u \in ReaderState
  BY <1>1, <1>2, <1>3 DEF ReaderState
<1>5. /\ u.pc = pc /\ u.next = n /\ u.queue = <<>>
      /\ u.cursor = s.cursor /\ u.delivered = s.delivered
  BY <1>1, <1>2 DEF ReaderState
<1> QED BY <1>4, <1>5 DEF u

LEMMA PushedType ==
    ASSUME NEW s \in ReaderState
    PROVE  /\ Pushed(s) \in ReaderState
           /\ Pushed(s).pc = s.pc /\ Pushed(s).next = s.next + 1
           /\ Pushed(s).queue = Append(s.queue, s.next)
           /\ Pushed(s).cursor = s.cursor /\ Pushed(s).delivered = s.delivered
<1>1. s.next + 1 \in Nat /\ Append(s.queue, s.next) \in Seq(Nat)
  BY DEF ReaderState
<1> QED BY <1>1 DEF ReaderState, Pushed

LEMMA TakenType ==
    ASSUME NEW s \in ReaderState, NEW q \in Seq(Nat),
           NEW c \in Nat \cup {NoOffset}, NEW d \in SUBSET Nat
    PROVE  /\ Taken(s, q, c, d) \in ReaderState
           /\ Taken(s, q, c, d).pc = s.pc /\ Taken(s, q, c, d).next = s.next
           /\ Taken(s, q, c, d).queue = q /\ Taken(s, q, c, d).cursor = c
           /\ Taken(s, q, c, d).delivered = d
<1> DEFINE t == [s EXCEPT !.queue = q, !.cursor = c]
           u == Taken(s, q, c, d)
<1>1. t \in ReaderState /\ t.pc = s.pc /\ t.next = s.next /\ t.queue = q
      /\ t.cursor = c /\ t.delivered = s.delivered
  BY DEF ReaderState
<1>2. u = [t EXCEPT !.delivered = d]
  BY DEF ReaderState, Taken
<1> HIDE DEF t, u
<1>3. u \in ReaderState
      /\ u.pc = s.pc /\ u.next = s.next /\ u.queue = q /\ u.cursor = c /\ u.delivered = d
  BY <1>1, <1>2 DEF ReaderState
<1> QED BY <1>3 DEF u

LEMMA GivenType ==
    ASSUME NEW s \in ReaderState, s.queue # <<>>
    PROVE  LET offset == Head(s.queue) IN
           /\ offset \in Nat
           /\ Given(s) \in ReaderState
           /\ Given(s).pc = s.pc /\ Given(s).next = s.next
           /\ Given(s).queue = Tail(s.queue)
           /\ IF offset > s.cursor
              THEN Given(s).cursor = offset /\ Given(s).delivered = s.delivered \cup {offset}
              ELSE Given(s).cursor = s.cursor /\ Given(s).delivered = s.delivered
<1> DEFINE offset == Head(s.queue)
           q == Tail(s.queue)
<1>1. s.queue \in Seq(Nat) /\ s.cursor \in Nat \cup {NoOffset} /\ s.delivered \in SUBSET Nat
  BY DEF ReaderState
<1>2. offset \in Nat /\ q \in Seq(Nat)
  BY <1>1
<1>3. offset \in Nat \cup {NoOffset} /\ s.delivered \cup {offset} \in SUBSET Nat
  BY <1>1, <1>2
<1> HIDE DEF offset, q
<1>4. CASE offset > s.cursor
  <2> DEFINE d == s.delivered \cup {offset}
             u == Taken(s, q, offset, d)
  <2>1. d \in SUBSET Nat
    BY <1>3
  <2> HIDE DEF d
  <2>2. /\ u \in ReaderState /\ u.pc = s.pc /\ u.next = s.next /\ u.queue = q
        /\ u.cursor = offset /\ u.delivered = d
    BY <1>2, <1>3, <2>1, TakenType
  <2>3. Given(s) = u
    BY <1>4 DEF Given, offset, q, d
  <2> HIDE DEF u
  <2> QED BY <1>2, <1>4, <2>2, <2>3 DEF offset, q, d
<1>5. CASE ~(offset > s.cursor)
  <2> DEFINE c == s.cursor
             d == s.delivered
             u == Taken(s, q, c, d)
  <2>1. c \in Nat \cup {NoOffset} /\ d \in SUBSET Nat
    BY <1>1
  <2> HIDE DEF c, d
  <2>2. /\ u \in ReaderState /\ u.pc = s.pc /\ u.next = s.next /\ u.queue = q
        /\ u.cursor = c /\ u.delivered = d
    BY <1>2, <2>1, TakenType
  <2>3. Given(s) = u
    BY <1>5 DEF Given, offset, q, c, d
  <2> HIDE DEF u
  <2> QED BY <1>2, <1>5, <2>2, <2>3 DEF offset, q, c, d
<1> QED BY <1>4, <1>5

LEMMA ReaderMovesTypeInv ==
    ASSUME TypeInv, NEW r \in Reader, ReaderOK',
           Len(reader'[r].queue) <= QueueLimit,
           \A s \in Reader : s # r => reader'[s] = reader[s],
           UNCHANGED <<server, producer, app, told>>,
           declared' \in BOOLEAN, consumers' \subseteq Reader,
           lock' \in {lock, r, Nobody},
           lock' # lock => lock \in {r, Nobody},
           lock' = r <=> reader'[r].pc = "create"
    PROVE  TypeInv'
<1>1. HasEvent'
  BY DEF TypeInv, HasEvent
<1>2. (\A b \in Appender : lock = b <=> app[b].pc \in {"connect", "create"})'
  BY ConstantsAssumption DEF TypeInv, TypeOK
<1>3. (\A s \in Reader : lock = s <=> reader[s].pc = "create")'
  BY ConstantsAssumption DEF TypeInv, TypeOK
<1>4. (\A s \in Reader : Len(reader[s].queue) <= QueueLimit)'
  BY DEF TypeInv, TypeOK
<1>5. lock' \in Appender \cup Reader \cup {Nobody}
  BY DEF TypeInv, TypeOK
<1> QED BY <1>1, <1>2, <1>3, <1>4, <1>5 DEF TypeInv, TypeOK, ReaderOK, server

LEMMA ReaderBecomesTypeInv ==
    ASSUME TypeInv, NEW r \in Reader, NEW s \in ReaderState,
           reader' = [reader EXCEPT ![r] = s],
           Len(s.queue) <= QueueLimit,
           UNCHANGED <<server, shared, app, told>>,
           consumers' \subseteq Reader,
           s.pc # "create", reader[r].pc # "create"
    PROVE  TypeInv'
<1>1. reader \in [Reader -> ReaderState] /\ declared \in BOOLEAN /\ lock # r
  BY DEF TypeInv, TypeOK
<1>2. reader'[r] = s /\ ReaderOK' /\ \A q \in Reader : q # r => reader'[q] = reader[q]
  BY <1>1 DEF ReaderOK
<1> QED BY <1>1, <1>2, ReaderMovesTypeInv DEF server, shared

LEMMA ReaderTypeInv ==
    ASSUME TypeInv, NEW r \in Reader, ReaderSteps(r)
    PROVE  TypeInv'
<1>0. /\ ReaderOK /\ Len(reader[r].queue) <= QueueLimit
      /\ lock = r <=> reader[r].pc = "create"
      /\ declared \in BOOLEAN /\ consumers \subseteq Reader /\ r # Nobody
  BY ConstantsAssumption DEF TypeInv, TypeOK, ReaderOK
<1>1. ASSUME NEW pc \in ReaderPC, ReaderGoto(r, pc),
             UNCHANGED <<server, producer, app, told>>,
             declared' \in BOOLEAN, consumers' \subseteq Reader,
             lock' \in {lock, r, Nobody}, lock' # lock => lock \in {r, Nobody},
             lock' = r <=> pc = "create"
      PROVE  TypeInv'
  BY <1>0, <1>1, ReaderGotoMoves, ReaderMovesTypeInv
<1> USE DEF ReaderPC, server, shared
<1>2. CASE Enter(r)
  <2>1. PICK pc \in {"crashed", "declare"} : ReaderGoto(r, pc)
    BY <1>2 DEF Enter
  <2> QED BY <1>0, <1>1, <1>2, <2>1 DEF Enter
<1>3. CASE ReaderDeclare(r)
  <2>1. PICK pc \in {"start", "crashed", "create"} :
          ReaderGoto(r, pc) /\ IF pc = "create" THEN lock' = r ELSE lock' = lock
    BY <1>3 DEF ReaderDeclare
  <2> QED BY <1>0, <1>1, <1>3, <2>1 DEF ReaderDeclare, LockFree
<1>4. CASE ReaderCreate(r)
  <2>1. PICK pc \in {"start", "refused"} : ReaderGoto(r, pc)
    BY <1>4 DEF ReaderCreate
  <2> QED BY <1>0, <1>1, <1>4, <2>1 DEF ReaderCreate
<1>5. CASE StartConsumer(r) \/ StartFails(r) \/ Retry(r)
  <2>1. PICK pc \in {"register", "refused", "away"} : ReaderGoto(r, pc)
    BY <1>5 DEF StartConsumer, StartFails, Retry
  <2> QED BY <1>0, <1>1, <1>5, <2>1 DEF StartConsumer, StartFails, Retry
<1>6. CASE Register(r) \/ SubscribeFails(r)
  <2>1. PICK pc \in {"subscribe", "crashed"} : ReaderGoto(r, pc)
    BY <1>6 DEF Register, SubscribeFails
  <2>2. consumers' \subseteq Reader
    BY <1>0, <1>6 DEF Register, SubscribeFails
  <2> QED BY <1>0, <1>1, <1>6, <2>1, <2>2 DEF Register, SubscribeFails
<1>7. CASE LeaveEarly(r)
  <2>1. ReaderGoto(r, "away")
    BY <1>7 DEF LeaveEarly
  <2> QED BY <1>0, <1>1, <1>7, <2>1 DEF LeaveEarly
<1> HIDE DEF ReaderPC
<1>8. CASE Subscribe(r)
  <2>1. PICK start \in 0..(reader[r].cursor + 1) :
          reader' = [reader EXCEPT ![r] = Reopened(reader[r], "open", start)]
    BY <1>8 DEF Subscribe, Reopened
  <2>2. start \in Nat /\ reader[r] \in ReaderState /\ "open" \in ReaderPC
    BY <1>0, <2>1 DEF ReaderOK, ReaderPC
  <2>3. /\ Reopened(reader[r], "open", start) \in ReaderState
        /\ Reopened(reader[r], "open", start).pc = "open"
        /\ Reopened(reader[r], "open", start).queue = <<>>
    BY <2>2, ReopenedType
  <2>4. Len(Reopened(reader[r], "open", start).queue) <= QueueLimit
    BY <2>2, <2>3, ConstantsAssumption
  <2> QED BY <1>0, <1>8, <2>1, <2>3, <2>4, ReaderBecomesTypeInv DEF Subscribe
<1>9. CASE Push(r)
  <2>1. reader[r] \in ReaderState /\ reader' = [reader EXCEPT ![r] = Pushed(reader[r])]
    BY <1>0, <1>9 DEF Push, ReaderOK, Pushed
  <2>2. /\ Pushed(reader[r]) \in ReaderState /\ Pushed(reader[r]).pc = "open"
        /\ Pushed(reader[r]).queue = Append(reader[r].queue, reader[r].next)
    BY <1>9, <2>1, PushedType DEF Push
  <2>3. Len(Pushed(reader[r]).queue) <= QueueLimit
    BY <1>9, <2>1, <2>2, ConstantsAssumption DEF ReaderState, Push
  <2> QED BY <1>0, <1>9, <2>1, <2>2, <2>3, ReaderBecomesTypeInv DEF Push
<1>10. CASE Deliver(r)
  <2>1. reader[r] \in ReaderState /\ reader' = [reader EXCEPT ![r] = Given(reader[r])]
    BY <1>0, <1>10 DEF Deliver, ReaderOK, Given, Taken
  <2>2. /\ Given(reader[r]) \in ReaderState /\ Given(reader[r]).pc = "open"
        /\ Given(reader[r]).queue = Tail(reader[r].queue)
    BY <1>10, <2>1, GivenType DEF Deliver
  <2>3. Len(Given(reader[r]).queue) <= QueueLimit
    BY <1>0, <1>10, <2>1, <2>2, ConstantsAssumption DEF ReaderState, Deliver
  <2> QED BY <1>0, <1>10, <2>1, <2>2, <2>3, ReaderBecomesTypeInv DEF Deliver
<1>11. CASE Leave(r)
  <2>1. reader[r] \in ReaderState /\ reader' = [reader EXCEPT ![r] = Reopened(reader[r], "away", 0)]
    BY <1>0, <1>11 DEF Leave, ReaderOK, Reopened
  <2>5. 0 \in Nat /\ "away" \in ReaderPC
    BY DEF ReaderPC
  <2>2. /\ Reopened(reader[r], "away", 0) \in ReaderState
        /\ Reopened(reader[r], "away", 0).pc = "away"
        /\ Reopened(reader[r], "away", 0).queue = <<>>
    BY <2>1, <2>5, ReopenedType
  <2>4. Len(Reopened(reader[r], "away", 0).queue) <= QueueLimit
    BY <2>1, <2>2, ConstantsAssumption
  <2>3. consumers' \subseteq Reader
    BY <1>0, <1>11 DEF Leave
  <2> QED BY <1>0, <1>11, <2>1, <2>2, <2>3, <2>4, ReaderBecomesTypeInv DEF Leave
<1> QED BY <1>2, <1>3, <1>4, <1>5, <1>6, <1>7, <1>8, <1>9, <1>10, <1>11
        DEF ReaderSteps, ReaderStep

LEMMA ServerTypeInv ==
    ASSUME TypeInv, ServerStep \/ \E p \in Producer : ConnectionLost(p)
    PROVE  TypeInv'
<1>1. ASSUME NEW m \in flight, Store(m) PROVE TypeInv'
  <2>1. log' \in Seq(Event) /\ flight' \subseteq Event \X Producer
    BY <1>1 DEF Store, TypeInv, TypeOK
  <2> QED BY <1>1, <2>1 DEF Store, TypeInv, TypeOK, HasEvent, shared
<1>2. ASSUME NEW m \in flight, Lose(m) PROVE TypeInv'
  BY <1>2 DEF Lose, TypeInv, TypeOK, HasEvent, shared
<1>3. ASSUME NEW p \in Producer, ConnectionLost(p) PROVE TypeInv'
  BY <1>3 DEF ConnectionLost, TypeInv, TypeOK, HasEvent, shared
<1> QED BY <1>1, <1>2, <1>3 DEF ServerStep

LEMMA InitTypeInv == Init => TypeInv
<1> SUFFICES ASSUME Init PROVE TypeInv
  OBVIOUS
<1>1. app \in [Appender -> AppState] /\ \A a \in Appender : app[a].pc = "idle"
  BY ConstantsAssumption DEF Init, AppState, None
<1>2. reader \in [Reader -> ReaderState]
      /\ \A r \in Reader : reader[r].pc = "away" /\ reader[r].queue = <<>>
  BY DEF Init, ReaderState
<1>3. 1 \in Producer
  BY ConstantsAssumption DEF Producer
<1>4. /\ log \in Seq(Event) /\ flight \subseteq Event \X Producer /\ told \subseteq Event
      /\ made \in {None} \cup Producer /\ alive \subseteq 1..made /\ producer \in 0..made
      /\ declared \in BOOLEAN /\ consumers \subseteq Reader
      /\ lock = Nobody
  <2>1. log \in Seq(Event) /\ lock = Nobody /\ declared \in BOOLEAN
        /\ flight \subseteq Event \X Producer /\ told \subseteq Event /\ consumers \subseteq Reader
    <3>1. <<>> \in Seq(Event)
      OBVIOUS
    <3> QED BY <3>1 DEF Init
  <2>2. made = 1 /\ alive = {1} /\ producer = 1
    BY DEF Init
  <2> QED BY <1>3, <2>1, <2>2
<1>5. \A r \in Reader : Len(reader[r].queue) <= QueueLimit
  BY <1>2, ConstantsAssumption
<1> QED BY <1>1, <1>2, <1>4, <1>5, ConstantsAssumption DEF TypeInv, TypeOK, HasEvent

LEMMA StepTypeInv == TypeInv /\ [Next]_vars => TypeInv'
<1> SUFFICES ASSUME TypeInv, [Next]_vars PROVE TypeInv'
  OBVIOUS
<1>1. CASE UNCHANGED vars
  BY <1>1 DEF vars, server, shared, TypeInv, TypeOK, HasEvent
<1>2. CASE Next
  BY <1>2, AppenderTypeInv, ReaderTypeInv, ServerTypeInv DEF Next, ReaderSteps
<1> QED BY <1>1, <1>2

\* The locals of all tasks fit each other: the lock is held by a task that
\* connects or declares the stream and by nobody else, whatever failed before.
THEOREM TypeCorrect == Spec => []TypeOK
<1>1. Spec => []TypeInv
  BY InitTypeInv, StepTypeInv, PTL DEF Spec
<1>2. TypeInv => TypeOK
  BY DEF TypeInv
<1> QED BY <1>1, <1>2, PTL
-----------------------------------------------------------------------------
(* The producer.                                                           *)

ConnectsWithout == \A a \in Appender : app[a].pc = "connect" => producer = None
KnownProducer == \A a \in Appender : app[a].producer <= made

ProducerInv == TypeInv /\ ConnectsWithout /\ KnownProducer /\ NoProducerLeaks

\* How far a step of an appender takes it, and what it needs for that.
LEMMA AppenderMoves ==
    ASSUME TypeInv, KnownProducer, NEW a \in Appender, AppenderStep(a)
    PROVE  \E pc \in AppPC, p \in Nat :
             /\ Moves(a, pc, p) /\ p <= made'
             /\ pc = "connect" => LockProducer(a) /\ producer = None /\ lock = Nobody
             /\ pc = "confirm" => Send(a) /\ p = app[a].producer /\ p \in alive
<1>0. /\ AppOK /\ made \in Nat /\ producer \in Nat /\ producer <= made /\ None \in Nat
      /\ None <= made /\ app[a].producer \in Nat /\ app[a].producer <= made
  BY ConstantsAssumption
     DEF TypeInv, TypeOK, AppOK, AppState, KnownProducer, Producer, None
<1> DEFINE P(pc, p) ==
             /\ Moves(a, pc, p) /\ p <= made'
             /\ pc = "connect" => LockProducer(a) /\ producer = None /\ lock = Nobody
             /\ pc = "confirm" => Send(a) /\ p = app[a].producer /\ p \in alive
<1>1. SUFFICES \E pc \in AppPC, p \in Nat : P(pc, p)
  OBVIOUS
<1>2. CASE EnsureProducer(a)
  <2>0. made' = made
    BY <1>2 DEF EnsureProducer, server
  <2>1. CASE producer # None
    <3>1. producer \in Producer
      BY <2>1, ConstantsAssumption DEF TypeInv, TypeOK, Producer, None
    <3>2. Moves(a, "declare", producer)
      BY <1>0, <1>2, <2>1, <3>1, UseMoves DEF EnsureProducer, UseProducer
    <3>3. P("declare", producer)
      BY <1>0, <2>0, <3>2
    <3> QED BY <1>0, <3>3 DEF AppPC
  <2>2. CASE producer = None
    <3>1. P("lockProducer", app[a].producer)
      BY <1>0, <1>2, <2>0, <2>2, GotoMoves DEF EnsureProducer, AppPC
    <3> QED BY <1>0, <3>1 DEF AppPC
  <2> QED BY <2>1, <2>2
<1>3. CASE LockProducer(a)
  <2>0. made' = made
    BY <1>3 DEF LockProducer, server
  <2>1. CASE producer # None
    <3>1. producer \in Producer
      BY <2>1, ConstantsAssumption DEF TypeInv, TypeOK, Producer, None
    <3>2. Moves(a, "declare", producer)
      BY <1>0, <1>3, <2>1, <3>1, UseMoves DEF LockProducer, UseProducer
    <3>3. P("declare", producer)
      BY <1>0, <2>0, <3>2
    <3> QED BY <1>0, <3>3 DEF AppPC
  <2>2. CASE producer = None
    <3>1. Moves(a, "connect", app[a].producer)
      BY <1>0, <1>3, <2>2, GotoMoves DEF LockProducer, AppPC
    <3>2. P("connect", app[a].producer)
      BY <1>0, <1>3, <2>0, <2>2, <3>1 DEF LockProducer, LockFree
    <3> QED BY <1>0, <3>2 DEF AppPC
  <2> QED BY <2>1, <2>2
<1>4. CASE Connect(a)
  <2>1. P("declare", made') /\ made' \in Nat
    BY <1>0, <1>4, ConnectMoves
  <2> QED BY <2>1 DEF AppPC
<1>5. CASE ConnectFails(a) \/ Confirm(a)
  <2>1. P("idle", None)
    BY <1>0, <1>5, ReturnMoves DEF ConnectFails, Confirm, server
  <2> QED BY <1>0, <2>1 DEF AppPC
<1>6. CASE Declare(a) \/ Create(a) \/ SendFails(a)
  <2>1. PICK pc \in {"send", "reset", "create"} : Goto(a, pc)
    BY <1>6 DEF Declare, Create, SendFails
  <2>2. Moves(a, pc, app[a].producer)
    BY <1>0, <2>1, GotoMoves DEF AppPC
  <2>3. P(pc, app[a].producer)
    BY <1>0, <1>6, <2>2 DEF Declare, Create, SendFails, server
  <2> QED BY <1>0, <2>3 DEF AppPC
<1>7. CASE Send(a)
  <2>1. PICK pc \in {"confirm", "reset"} :
          Goto(a, pc) /\ (pc = "confirm" => app[a].producer \in alive)
    BY <1>7 DEF Send
  <2>2. Moves(a, pc, app[a].producer)
    BY <1>0, <2>1, GotoMoves DEF AppPC
  <2>3. P(pc, app[a].producer)
    BY <1>0, <1>7, <2>1, <2>2 DEF Send
  <2> QED BY <1>0, <2>3 DEF AppPC
<1>8. CASE Reset(a)
  <2>1. PICK pc \in {"idle", "ensure"} : Moves(a, pc, None)
    BY <1>0, <1>8, NextMoves DEF Reset
  <2>2. P(pc, None)
    BY <1>0, <1>8, <2>1 DEF Reset
  <2> QED BY <1>0, <2>2 DEF AppPC
<1> QED BY <1>2, <1>3, <1>4, <1>5, <1>6, <1>7, <1>8 DEF AppenderStep

LEMMA InitProducerInv == Init => ProducerInv
<1> SUFFICES ASSUME Init PROVE ProducerInv
  OBVIOUS
<1>1. \A a \in Appender : app[a].pc = "idle" /\ app[a].producer = None
  BY DEF Init
<1>2. made = 1 /\ alive = {1} /\ producer = 1
  BY DEF Init
<1> QED BY <1>1, <1>2, InitTypeInv
        DEF ProducerInv, ConnectsWithout, KnownProducer, NoProducerLeaks, None

LEMMA StepProducerInv == ProducerInv /\ [Next]_vars => ProducerInv'
<1> SUFFICES ASSUME ProducerInv, [Next]_vars PROVE ProducerInv'
  OBVIOUS
<1> USE DEF ProducerInv
<1>0. TypeInv'
  BY StepTypeInv
<1>1. ASSUME UNCHANGED <<producer, made, app>>, alive' \subseteq alive PROVE ProducerInv'
  BY <1>0, <1>1 DEF ConnectsWithout, KnownProducer, NoProducerLeaks
<1> USE DEF server, shared
<1>2. ASSUME NEW a \in Appender, AppendEvent(a) PROVE ProducerInv'
  <2>1. \A b \in Appender : app'[b].producer = app[b].producer
                            /\ (app'[b].pc = "connect" => app[b].pc = "connect")
    BY <1>2, AppendMoves, TypeMoves
  <2>2. UNCHANGED <<producer, made, alive>>
    BY <1>2 DEF AppendEvent
  <2> QED BY <1>0, <2>1, <2>2 DEF ConnectsWithout, KnownProducer, NoProducerLeaks
<1>3. ASSUME NEW a \in Appender, AppenderStep(a) PROVE ProducerInv'
  <2>1. PICK pc \in AppPC, p \in Nat :
             /\ Moves(a, pc, p) /\ p <= made'
             /\ pc = "connect" => LockProducer(a) /\ producer = None /\ lock = Nobody
    BY <1>3, AppenderMoves
  <2>2. made' \in Nat /\ made \in Nat /\ made <= made' /\ producer \in 0..made
        /\ alive \subseteq 1..made
    BY <1>3, ConstantsAssumption
       DEF AppenderStep, EnsureProducer, LockProducer, Connect, ConnectFails, Declare,
           Create, Send, Confirm, SendFails, Reset, TypeInv, TypeOK, Producer, None
  <2>3. KnownProducer'
    <3>1. \A b \in Appender : app[b].producer \in Nat
      BY ConstantsAssumption DEF TypeInv, TypeOK, AppState, Producer, None
    <3>2. ASSUME NEW b \in Appender PROVE app'[b].producer <= made'
      BY <2>1, <2>2, <3>1 DEF KnownProducer, Moves
    <3> QED BY <3>2 DEF KnownProducer
  <2>4. CASE Connect(a)
    <3>1. producer = None
      BY <2>4 DEF Connect, ConnectsWithout
    <3>2. alive = {}
      BY <2>2, <3>1 DEF NoProducerLeaks, None
    <3>3. NoProducerLeaks'
      BY <2>4, <3>2 DEF Connect, NoProducerLeaks
    <3>4. \A b \in Appender : app'[b].pc # "connect"
      <4>1. \A b \in Appender : b # a => app[b].pc # "connect"
        BY <2>4 DEF Connect, TypeInv, TypeOK
      <4>2. app'[a].pc = "declare" /\ \A b \in Appender : b # a => app'[b] = app[b]
        BY <2>4, ConnectMoves DEF Moves
      <4> QED BY <4>1, <4>2
    <3> QED BY <1>0, <2>3, <3>3, <3>4 DEF ConnectsWithout
  <2>5. CASE Reset(a)
    <3>1. \A b \in Appender : app'[b].pc = "connect" => app[b].pc = "connect"
      <4>1. PICK pcc \in {"idle", "ensure"} : Moves(a, pcc, None)
        BY <2>5, NextMoves, TypeMoves DEF Reset
      <4> QED BY <4>1 DEF Moves
    <3>2. ConnectsWithout' /\ NoProducerLeaks'
      BY <2>5, <3>1 DEF Reset, ConnectsWithout, NoProducerLeaks
    <3> QED BY <1>0, <2>3, <3>2
  <2>6. CASE ~Connect(a) /\ ~Reset(a)
    <3>1. UNCHANGED <<producer, alive>>
      BY <1>3, <2>6 DEF AppenderStep, EnsureProducer, LockProducer, ConnectFails, Declare,
           Create, Send, Confirm, SendFails
    <3>2. ConnectsWithout'
      BY <2>1, <3>1 DEF Moves, ConnectsWithout
    <3> QED BY <1>0, <2>3, <3>1, <3>2 DEF NoProducerLeaks
  <2> QED BY <2>4, <2>5, <2>6
<1>4. ASSUME NEW r \in Reader, ReaderSteps(r) PROVE ProducerInv'
  <2>1. UNCHANGED <<producer, made, app, alive>>
    BY <1>4 DEF ReaderSteps, ReaderStep, Enter, ReaderDeclare, ReaderCreate, StartConsumer,
         Register, Subscribe, Push, Deliver, Retry, StartFails, SubscribeFails, Leave,
         LeaveEarly
  <2> QED BY <1>1, <2>1
<1>5. CASE ServerStep \/ \E p \in Producer : ConnectionLost(p)
  <2>1. UNCHANGED <<producer, made, app>> /\ alive' \subseteq alive
    BY <1>5 DEF ServerStep, Store, Lose, ConnectionLost
  <2> QED BY <1>1, <2>1
<1>6. CASE UNCHANGED vars
  BY <1>1, <1>6 DEF vars
<1> QED BY <1>2, <1>3, <1>4, <1>5, <1>6 DEF Next, ReaderSteps

\* At most the broker's own producer is connected, however many appenders fail
\* and reconnect at the same time (_ensure_producer, _reset_producer).
THEOREM OneConnection == Spec => []NoProducerLeaks
<1>1. Spec => []ProducerInv
  BY InitProducerInv, StepProducerInv, PTL DEF Spec
<1>2. ProducerInv => NoProducerLeaks
  BY DEF ProducerInv
<1> QED BY <1>1, <1>2, PTL
-----------------------------------------------------------------------------
(* What was published.                                                     *)

InLog(e) == \E i \in DOMAIN log : log[i] = e

SentIsUnderWay ==
    \A a \in Appender :
        app[a].pc = "confirm" /\ app[a].producer \in alive =>
            <<Current(a), app[a].producer>> \in flight \/ InLog(Current(a))

Begun(e) == e[2] <= app[e[1]].event

NotAhead ==
    /\ \A i \in DOMAIN log : Begun(log[i])
    /\ \A m \in flight : Begun(m[1])

ToldIsInLog == \A e \in told : InLog(e)

\* ToldInOrder, whether the later event was told or not.
ToldComesFirst ==
    \A d \in told, i \in DOMAIN log :
        d[1] = log[i][1] /\ d[2] < log[i][2] => \E j \in 1..(i - 1) : log[j] = d

OrderInv == ProducerInv /\ SentIsUnderWay /\ NotAhead /\ ToldIsInLog /\ ToldComesFirst

\* A step that stores nothing, tells nothing and begins or sends at most what
\* it should.
LEMMA SameLog ==
    ASSUME OrderInv, ProducerInv', UNCHANGED <<log, told>>,
           \A a \in Appender : app'[a].event \in Nat /\ app[a].event <= app'[a].event,
           \A m \in flight' : m \in flight \/ (\E a \in Appender : m[1] = Current(a)),
           \A a \in Appender : app'[a].pc = "confirm" /\ app'[a].producer \in alive' =>
             /\ app'[a].event = app[a].event
             /\ \/ <<Current(a), app'[a].producer>> \in flight'
                \/ InLog(Current(a))
    PROVE  OrderInv'
<1>1. /\ DOMAIN log = 1..Len(log) /\ \A i \in DOMAIN log : log[i] \in Event
      /\ \A m \in flight : m[1] \in Event
      /\ \A a \in Appender : app[a].event \in Nat
  BY DEF OrderInv, ProducerInv, TypeInv, TypeOK, AppState
<1>2. \A e \in Event : Begun(e) => Begun(e)'
  BY <1>1 DEF Begun, Event
<1>3. \A a \in Appender : Current(a)[2] <= app'[Current(a)[1]].event
  BY <1>1 DEF Current
<1>4. NotAhead'
  <2>1. ASSUME NEW i \in DOMAIN log PROVE log[i][2] <= app'[log[i][1]].event
    BY <1>1, <1>2 DEF OrderInv, NotAhead, Begun
  <2>2. ASSUME NEW m \in flight' PROVE m[1][2] <= app'[m[1][1]].event
    <3>1. CASE m \in flight
      BY <1>1, <1>2, <3>1 DEF OrderInv, NotAhead, Begun
    <3>2. ASSUME NEW a \in Appender, m[1] = Current(a)
          PROVE  m[1][2] <= app'[m[1][1]].event
      BY <1>3, <3>2
    <3> QED BY <3>1, <3>2
  <2> QED BY <2>1, <2>2 DEF NotAhead, Begun
<1>5. \A e : InLog(e)' <=> InLog(e)
  BY DEF InLog
<1>6. SentIsUnderWay'
  BY <1>5 DEF SentIsUnderWay, Current
<1>7. ToldIsInLog' /\ ToldComesFirst'
  BY <1>5 DEF OrderInv, ToldIsInLog, ToldComesFirst
<1> QED BY <1>4, <1>6, <1>7 DEF OrderInv

LEMMA StepOrderInv == OrderInv /\ [Next]_vars => OrderInv'
<1> SUFFICES ASSUME OrderInv, [Next]_vars PROVE OrderInv'
  OBVIOUS
<1>0. /\ ProducerInv' /\ TypeInv /\ TypeInv' /\ KnownProducer /\ AppOK /\ AppOK'
      /\ \A a \in Appender : app[a].event \in Nat /\ app'[a].event \in Nat
      /\ alive \subseteq 1..made /\ made \in Nat
  <2>1. ProducerInv' /\ TypeInv /\ TypeInv' /\ KnownProducer
    BY StepProducerInv DEF OrderInv, ProducerInv
  <2>2. AppOK /\ AppOK'
    BY <2>1 DEF TypeInv, TypeOK, AppOK
  <2>3. \A a \in Appender : app[a].event \in Nat /\ app'[a].event \in Nat
    BY <2>2 DEF AppOK, AppState
  <2>4. alive \subseteq 1..made /\ made \in Nat
    BY <2>1, ConstantsAssumption DEF TypeInv, TypeOK, Producer, None
  <2> QED BY <2>1, <2>2, <2>3, <2>4
<1>1. ASSUME UNCHANGED <<log, told, app>>, flight \subseteq flight', alive' \subseteq alive,
             \A m \in flight' : m \in flight
      PROVE  OrderInv'
  <2>1. \A a \in Appender : app'[a].pc = "confirm" /\ app'[a].producer \in alive' =>
             \/ <<Current(a), app'[a].producer>> \in flight'
             \/ InLog(Current(a))
    BY <1>1 DEF OrderInv, SentIsUnderWay
  <2> QED BY <1>0, <1>1, <2>1, SameLog
<1> USE DEF server, shared
<1>2. ASSUME NEW a \in Appender, AppendEvent(a) PROVE OrderInv'
  <2>1. UNCHANGED <<log, told, flight, alive>>
    BY <1>2 DEF AppendEvent
  <2>2. /\ app'[a].pc = "ensure" /\ app'[a].event = app[a].event + 1
        /\ \A b \in Appender : b # a => app'[b] = app[b]
    BY <1>0, <1>2, AppendMoves
  <2>3. \A b \in Appender : app[b].event <= app'[b].event
    BY <1>0, <2>2
  <2>4. \A b \in Appender : app'[b].pc = "confirm" /\ app'[b].producer \in alive' =>
             /\ app'[b].event = app[b].event
             /\ \/ <<Current(b), app'[b].producer>> \in flight'
                \/ InLog(Current(b))
    BY <2>1, <2>2 DEF OrderInv, SentIsUnderWay
  <2> QED BY <1>0, <2>1, <2>3, <2>4, SameLog
<1>3. ASSUME NEW a \in Appender, AppenderStep(a) PROVE OrderInv'
  <2>1. PICK pc \in AppPC, p \in Nat :
             /\ Moves(a, pc, p)
             /\ pc = "confirm" => Send(a) /\ p = app[a].producer /\ p \in alive
    BY <1>0, <1>3, AppenderMoves
  <2>2. \A b \in Appender : app'[b].event = app[b].event
    BY <2>1 DEF Moves
  <2>3. \A b \in Appender : b # a /\ app'[b].pc = "confirm" /\ app'[b].producer \in alive' =>
          app[b].pc = "confirm" /\ app[b].producer \in alive /\ app'[b].producer = app[b].producer
    <3>1. \A b \in Appender : b # a => app'[b] = app[b]
      BY <2>1 DEF Moves
    <3>2. alive' \subseteq alive \cup {made + 1}
      BY <1>3 DEF AppenderStep, EnsureProducer, LockProducer, Connect, ConnectFails, Declare,
           Create, Send, Confirm, SendFails, Reset
    <3>3. \A b \in Appender : app[b].producer # made + 1
      BY <1>0 DEF KnownProducer, AppOK, AppState, Producer, None
    <3> QED BY <3>1, <3>2, <3>3
  <2>4. CASE Send(a)
    <3>1. /\ flight' \subseteq flight \cup {<<Current(a), app[a].producer>>}
          /\ flight \subseteq flight'
      BY <2>4 DEF Send
    <3>2. UNCHANGED <<log, told, alive>>
      BY <2>4 DEF Send
    <3>3. app'[a].pc = "confirm" =>
            app'[a].producer = app[a].producer /\ <<Current(a), app[a].producer>> \in flight'
      <4>1. CASE app[a].producer \in alive
        BY <2>1, <2>4, <4>1 DEF Send, Moves
      <4>2. CASE app[a].producer \notin alive
        BY <2>1, <2>4, <4>2 DEF Send, Moves
      <4> QED BY <4>1, <4>2
    <3>4. \A b \in Appender : app'[b].pc = "confirm" /\ app'[b].producer \in alive' =>
             \/ <<Current(b), app'[b].producer>> \in flight'
             \/ InLog(Current(b))
      BY <2>3, <3>1, <3>3 DEF OrderInv, SentIsUnderWay
    <3>5. \A m \in flight' : m \in flight \/ (\E b \in Appender : m[1] = Current(b))
      BY <3>1
    <3> QED BY <1>0, <2>2, <3>2, <3>4, <3>5, SameLog
  <2>5. CASE Confirm(a)
    <3>1. UNCHANGED <<log, flight, alive>> /\ told' = told \cup {Current(a)}
          /\ app[a].pc = "confirm" /\ app[a].producer \in alive
          /\ <<Current(a), app[a].producer>> \notin flight
      BY <2>5 DEF Confirm
    <3>2. InLog(Current(a))
      BY <3>1 DEF OrderInv, SentIsUnderWay
    <3>3. \A b \in Appender : app'[b].pc = "confirm" => b # a
      BY <1>0, <2>5, ReturnMoves DEF Confirm, Moves
    <3>4. SentIsUnderWay'
      BY <2>2, <2>3, <3>1, <3>3 DEF OrderInv, SentIsUnderWay, Current, InLog
    <3>5. NotAhead'
      BY <1>0, <2>2, <3>1 DEF OrderInv, NotAhead, Begun, TypeInv, TypeOK, Event
    <3>6. ToldIsInLog'
      BY <3>1, <3>2 DEF OrderInv, ToldIsInLog, InLog
    <3>7. \A i \in DOMAIN log : Current(a)[1] = log[i][1] => ~(Current(a)[2] < log[i][2])
      BY <1>0 DEF OrderInv, NotAhead, Begun, Current, TypeInv, TypeOK, Event
    <3>8. ToldComesFirst'
      BY <3>1, <3>7 DEF OrderInv, ToldComesFirst
    <3> QED BY <1>0, <3>4, <3>5, <3>6, <3>8 DEF OrderInv
  <2>6. CASE ~Send(a) /\ ~Confirm(a)
    <3>1. UNCHANGED <<log, told, flight>>
      BY <1>3, <2>6 DEF AppenderStep, EnsureProducer, LockProducer, Connect, ConnectFails,
           Declare, Create, SendFails, Reset
    <3>2. \A b \in Appender : app'[b].pc = "confirm" => b # a
      BY <2>1, <2>6 DEF Moves
    <3>3. \A b \in Appender : app'[b].pc = "confirm" /\ app'[b].producer \in alive' =>
             \/ <<Current(b), app'[b].producer>> \in flight'
             \/ InLog(Current(b))
      BY <2>3, <3>1, <3>2 DEF OrderInv, SentIsUnderWay
    <3> QED BY <1>0, <2>2, <3>1, <3>3, SameLog
  <2> QED BY <2>4, <2>5, <2>6
<1>4. ASSUME NEW r \in Reader, ReaderSteps(r) PROVE OrderInv'
  <2>1. UNCHANGED <<log, told, app, flight, alive>>
    BY <1>4 DEF ReaderSteps, ReaderStep, Enter, ReaderDeclare, ReaderCreate, StartConsumer,
         Register, Subscribe, Push, Deliver, Retry, StartFails, SubscribeFails, Leave,
         LeaveEarly
  <2> QED BY <1>1, <2>1
<1>5. ASSUME NEW m \in flight, Store(m) PROVE OrderInv'
  <2>1. /\ log' = Append(log, m[1]) /\ flight' = flight \ {m} /\ UNCHANGED <<alive, app, told>>
        /\ log \in Seq(Event) /\ m[1] \in Event
    BY <1>5, <1>0 DEF Store, TypeInv, TypeOK
  <2>2. /\ DOMAIN log = 1..Len(log) /\ DOMAIN log' = 1..(Len(log) + 1) /\ Len(log) \in Nat
        /\ \A i \in 1..Len(log) : log'[i] = log[i]
        /\ log'[Len(log) + 1] = m[1]
    BY <2>1
  <2>3. \A e : InLog(e) => InLog(e)'
    BY <2>2 DEF InLog
  <2>4. SentIsUnderWay'
    <3>1. InLog(m[1])'
      BY <2>2 DEF InLog
    <3> QED BY <2>1, <2>3, <3>1 DEF OrderInv, SentIsUnderWay, Current
  <2>5. NotAhead'
    BY <2>1, <2>2 DEF OrderInv, NotAhead, Begun
  <2>6. ToldIsInLog'
    BY <2>1, <2>3 DEF OrderInv, ToldIsInLog
  <2>7. ToldComesFirst'
    <3>1. SUFFICES ASSUME NEW d \in told, NEW i \in 1..(Len(log) + 1),
                          d[1] = log'[i][1], d[2] < log'[i][2]
                   PROVE  \E j \in 1..(i - 1) : log'[j] = d
      BY <2>1, <2>2 DEF ToldComesFirst
    <3>2. CASE i \in 1..Len(log)
      <4>1. PICK j \in 1..(i - 1) : log[j] = d
        BY <2>2, <3>1, <3>2 DEF OrderInv, ToldComesFirst
      <4> QED BY <2>2, <3>2, <4>1
    <3>3. CASE i = Len(log) + 1
      <4>1. PICK j \in 1..Len(log) : log[j] = d
        BY <2>2 DEF OrderInv, ToldIsInLog, InLog
      <4> QED BY <2>2, <3>3, <4>1
    <3> QED BY <2>2, <3>2, <3>3
  <2> QED BY <1>0, <2>4, <2>5, <2>6, <2>7 DEF OrderInv
<1>6. ASSUME NEW m \in flight, Lose(m) PROVE OrderInv'
  <2>1. UNCHANGED <<log, told, app, alive>> /\ flight' = flight \ {m} /\ m[2] \notin alive
    BY <1>6 DEF Lose
  <2>2. \A a \in Appender : app'[a].pc = "confirm" /\ app'[a].producer \in alive' =>
             \/ <<Current(a), app'[a].producer>> \in flight'
             \/ InLog(Current(a))
    BY <2>1 DEF OrderInv, SentIsUnderWay
  <2> QED BY <1>0, <2>1, <2>2, SameLog
<1>7. ASSUME NEW p \in Producer, ConnectionLost(p) PROVE OrderInv'
  BY <1>1, <1>7 DEF ConnectionLost
<1>8. CASE UNCHANGED vars
  BY <1>1, <1>8 DEF vars
<1> QED BY <1>2, <1>3, <1>4, <1>5, <1>6, <1>7, <1>8 DEF Next, ReaderSteps, ServerStep

LEMMA InitOrderInv == Init => OrderInv
<1> SUFFICES ASSUME Init PROVE OrderInv
  OBVIOUS
<1>1. log = <<>> /\ flight = {} /\ told = {} /\ \A a \in Appender : app[a].pc = "idle"
  BY DEF Init
<1>2. DOMAIN log = {}
  BY <1>1
<1> QED BY <1>1, <1>2, InitProducerInv
        DEF OrderInv, SentIsUnderWay, NotAhead, ToldIsInLog, ToldComesFirst

\* What append_event returned for is in the stream, and in order, although
\* sends are repeated, confirmed late or lost and producers replaced.
THEOREM PublishedInOrder == Spec => []ToldInOrder
<1>1. Spec => []OrderInv
  BY InitOrderInv, StepOrderInv, PTL DEF Spec
<1>2. OrderInv => ToldInOrder
  <2> SUFFICES ASSUME OrderInv, NEW e \in told
               PROVE  /\ e \in Range(log)
                      /\ \A d \in told, i \in DOMAIN log :
                           d[1] = e[1] /\ d[2] < e[2] /\ log[i] = e =>
                             \E j \in 1..(i - 1) : log[j] = d
    BY DEF ToldInOrder
  <2>1. e \in Range(log)
    BY DEF OrderInv, ToldIsInLog, InLog, Range
  <2> QED BY <2>1 DEF OrderInv, ToldComesFirst
<1> QED BY <1>1, <1>2, PTL
-----------------------------------------------------------------------------
(* What was read.                                                          *)

\* What waits in the queue of an open stream is the piece of the log that ends
\* where the consumer is, and begins behind the cursor at the latest.
First(s) == s.next - Len(s.queue)
QueueIsNext(s) ==
    /\ First(s) \in Nat /\ First(s) <= s.cursor + 1
    /\ \A i \in 1..Len(s.queue) : s.queue[i] = First(s) + i - 1
CompleteReader(s) ==
    /\ s.delivered = 0..s.cursor
    /\ s.pc = "open" => QueueIsNext(s)

\* A reader has and awaits only what is in the log.
InTheLog(s) == s.cursor + 1 <= Len(log) /\ s.next <= Len(log)

ReadInv == TypeInv /\ \A r \in Reader : CompleteReader(reader[r]) /\ InTheLog(reader[r])

\* From s to t a reader is given at most one event, the next one ...
Further(s, t) ==
    \/ t.cursor = s.cursor /\ t.delivered = s.delivered
    \/ /\ t.cursor = s.cursor + 1 /\ t.cursor < s.next
       /\ t.delivered = s.delivered \cup {t.cursor}
\* ... and its consumer stays in the log.
Reaches(s, t) ==
    \/ t.next <= s.next
    \/ t.next <= s.cursor + 1
    \/ t.next = s.next + 1 /\ s.next < Len(log)

\* A step that changes one reader keeps what every reader has.
LEMMA OneReader ==
    ASSUME ReadInv, TypeInv', NEW r \in Reader, CompleteReader(reader'[r]),
           Further(reader[r], reader'[r]), Reaches(reader[r], reader'[r]), UNCHANGED log,
           \A s \in Reader : s # r => reader'[s] = reader[s]
    PROVE  ReadInv'
<1>1. /\ reader[r].cursor \in Int /\ reader[r].next \in Int
      /\ reader'[r].cursor \in Int /\ reader'[r].next \in Int /\ Len(log) \in Nat
  BY DEF ReadInv, TypeInv, TypeOK, ReaderState, NoOffset
<1>2. InTheLog(reader[r])
  BY DEF ReadInv
<1>3. InTheLog(reader'[r])
  <2>1. reader[r].cursor + 1 <= Len(log) /\ reader[r].next <= Len(log)
    BY <1>2 DEF InTheLog
  <2>2. reader'[r].cursor + 1 <= Len(log)
    BY <1>1, <2>1 DEF Further
  <2>3. reader'[r].next <= Len(log)
    BY <1>1, <2>1 DEF Reaches
  <2> QED BY <2>2, <2>3 DEF InTheLog
<1>4. \A s \in Reader : CompleteReader(reader'[s]) /\ InTheLog(reader'[s])
  BY <1>3 DEF ReadInv
<1> QED BY <1>4 DEF ReadInv, InTheLog, CompleteReader, QueueIsNext, First

LEMMA PushedComplete ==
    ASSUME NEW s \in ReaderState, CompleteReader(s), s.pc = "open"
    PROVE  CompleteReader(Pushed(s))
<1> DEFINE u == Pushed(s)
<1>1. /\ u.pc = s.pc /\ u.next = s.next + 1 /\ u.queue = Append(s.queue, s.next)
      /\ u.cursor = s.cursor /\ u.delivered = s.delivered
  BY PushedType
<1>2. s.queue \in Seq(Nat) /\ s.next \in Nat
  BY DEF ReaderState
<1>3. /\ Len(u.queue) = Len(s.queue) + 1 /\ u.queue[Len(s.queue) + 1] = s.next
      /\ \A i \in 1..Len(s.queue) : u.queue[i] = s.queue[i]
      /\ Len(s.queue) \in Nat
  BY <1>1, <1>2
<1> HIDE DEF u
<1>4. First(u) = First(s) /\ First(s) + Len(s.queue) = s.next
  <2>1. u.next = s.next + 1 /\ Len(u.queue) = Len(s.queue) + 1
        /\ s.next \in Nat /\ Len(s.queue) \in Nat
    BY <1>1, <1>2, <1>3
  <2> DEFINE m == Len(s.queue) n == s.next
  <2>2. First(u) = (n + 1) - (m + 1) /\ First(s) = n - m
    BY <2>1 DEF First
  <2>3. n \in Nat /\ m \in Nat
    BY <2>1
  <2> HIDE DEF m, n
  <2>4. (n + 1) - (m + 1) = n - m /\ (n - m) + m = n
    BY <2>3
  <2>5. First(u) = First(s)
    BY <2>2, <2>4
  <2>6. First(s) + m = n
    BY <2>2, <2>4
  <2> QED BY <2>5, <2>6 DEF m, n
<1>5. QueueIsNext(s)
  BY DEF CompleteReader
<1>6. \A i \in 1..Len(u.queue) : u.queue[i] = First(u) + i - 1
  <2> SUFFICES ASSUME NEW i \in 1..Len(u.queue) PROVE u.queue[i] = First(u) + i - 1
    OBVIOUS
  <2>1. CASE i \in 1..Len(s.queue)
    BY <1>3, <1>4, <1>5, <2>1 DEF QueueIsNext
  <2>2. CASE i = Len(s.queue) + 1
    BY <1>3, <1>4, <1>5, <2>2 DEF QueueIsNext
  <2> QED BY <1>3, <2>1, <2>2
<1>7. CompleteReader(u)
  BY <1>1, <1>4, <1>5, <1>6 DEF CompleteReader, QueueIsNext
<1> QED BY <1>7 DEF u

LEMMA OneMore ==
    ASSUME NEW c \in Int, c >= -1
    PROVE  (0..c) \cup {c + 1} = 0..(c + 1)
OBVIOUS

LEMMA GivenComplete ==
    ASSUME NEW s \in ReaderState, CompleteReader(s), s.pc = "open", s.queue # <<>>
    PROVE  /\ CompleteReader(Given(s)) /\ Further(s, Given(s))
           /\ Given(s).next = s.next
<1> DEFINE u == Given(s)
           offset == Head(s.queue)
<1>1. s.queue \in Seq(Nat) /\ s.next \in Nat /\ s.cursor \in Int /\ s.cursor >= -1
  BY DEF ReaderState, NoOffset
<1>2. QueueIsNext(s) /\ s.delivered = 0..s.cursor
  BY DEF CompleteReader
<1>3. /\ offset = s.queue[1] /\ Len(s.queue) \in Nat \ {0}
      /\ Len(Tail(s.queue)) = Len(s.queue) - 1
      /\ \A i \in 1..(Len(s.queue) - 1) : Tail(s.queue)[i] = s.queue[i + 1]
  BY <1>1
<1>4. offset = First(s) /\ offset \in Nat /\ offset <= s.cursor + 1
  BY <1>1, <1>2, <1>3 DEF QueueIsNext, First
<1>5. /\ u.pc = s.pc /\ u.next = s.next /\ u.queue = Tail(s.queue)
      /\ IF offset > s.cursor
         THEN u.cursor = offset /\ u.delivered = s.delivered \cup {offset}
         ELSE u.cursor = s.cursor /\ u.delivered = s.delivered
  BY GivenType
<1> HIDE DEF u, offset
<1>6. First(u) = offset + 1 /\ Len(u.queue) = Len(s.queue) - 1
  BY <1>1, <1>3, <1>4, <1>5 DEF First
<1>7. \A i \in 1..Len(u.queue) : u.queue[i] = First(u) + i - 1
  <2> SUFFICES ASSUME NEW i \in 1..Len(u.queue) PROVE u.queue[i] = First(u) + i - 1
    OBVIOUS
  <2>1. u.queue[i] = s.queue[i + 1] /\ i + 1 \in 1..Len(s.queue)
    BY <1>3, <1>5, <1>6
  <2>2. s.queue[i + 1] = First(s) + (i + 1) - 1
    BY <1>2, <2>1 DEF QueueIsNext
  <2> QED BY <1>4, <1>6, <2>1, <2>2
<1>8. CASE offset > s.cursor
  <2>1. u.cursor = offset /\ offset = s.cursor + 1
    BY <1>1, <1>4, <1>5, <1>8
  <2>2. u.delivered = 0..u.cursor
    BY <1>1, <1>2, <1>5, <1>8, <2>1, OneMore
  <2>3. QueueIsNext(u)
    BY <1>4, <1>6, <1>7, <2>1 DEF QueueIsNext
  <2>4. u.cursor < s.next
    BY <1>1, <1>3, <1>4, <2>1 DEF First
  <2>5. Further(s, u)
    BY <1>5, <1>8, <2>1, <2>4 DEF Further
  <2>6. CompleteReader(u)
    BY <2>2, <2>3 DEF CompleteReader
  <2> QED BY <1>5, <2>5, <2>6 DEF u
<1>9. CASE ~(offset > s.cursor)
  <2>1. QueueIsNext(u)
    BY <1>1, <1>4, <1>5, <1>6, <1>7, <1>9 DEF QueueIsNext
  <2>2. CompleteReader(u) /\ Further(s, u)
    BY <1>2, <1>5, <1>9, <2>1 DEF CompleteReader, Further
  <2> QED BY <1>5, <2>2 DEF u
<1> QED BY <1>8, <1>9

LEMMA ReopenedComplete ==
    ASSUME NEW s \in ReaderState, CompleteReader(s), NEW n \in Nat, n <= s.cursor + 1,
           NEW pc \in ReaderPC
    PROVE  CompleteReader(Reopened(s, pc, n))
<1> DEFINE u == Reopened(s, pc, n)
<1>1. u.next = n /\ u.queue = <<>> /\ u.cursor = s.cursor /\ u.delivered = s.delivered
  BY ReopenedType
<1> HIDE DEF u
<1>2. First(u) = n /\ Len(u.queue) = 0
  BY <1>1 DEF First
<1>3. QueueIsNext(u)
  BY <1>1, <1>2 DEF QueueIsNext
<1>4. CompleteReader(u)
  BY <1>1, <1>3 DEF CompleteReader
<1> QED BY <1>4 DEF u

\* A reader that goes on keeps what it has.
LEMMA GoneOnComplete ==
    ASSUME ReaderOK, NEW r \in Reader, CompleteReader(reader[r]),
           NEW pc \in ReaderPC \ {"open"}, ReaderGoto(r, pc)
    PROVE  /\ CompleteReader(reader'[r])
           /\ reader'[r].cursor = reader[r].cursor /\ reader'[r].next = reader[r].next
           /\ reader'[r].delivered = reader[r].delivered
           /\ \A s \in Reader : s # r => reader'[s] = reader[s]
BY DEF ReaderOK, ReaderState, ReaderPC, ReaderGoto, CompleteReader

\* Every step of a reader keeps it complete, and gives it the next event or none.
LEMMA ReaderStepComplete ==
    ASSUME ReadInv, NEW r \in Reader, ReaderSteps(r)
    PROVE  /\ CompleteReader(reader'[r])
           /\ Further(reader[r], reader'[r]) /\ Reaches(reader[r], reader'[r])
           /\ \A s \in Reader : s # r => reader'[s] = reader[s]
           /\ UNCHANGED log
<1>0. /\ ReaderOK /\ reader[r] \in ReaderState /\ CompleteReader(reader[r])
      /\ reader \in [Reader -> ReaderState]
      /\ reader[r].cursor \in Int /\ reader[r].cursor >= -1 /\ reader[r].next \in Nat
  BY DEF ReadInv, TypeInv, TypeOK, ReaderOK, ReaderState, NoOffset
<1>a. UNCHANGED log
  BY DEF ReaderSteps, ReaderStep, Enter, ReaderDeclare, ReaderCreate, StartConsumer,
         Register, Retry, StartFails, SubscribeFails, LeaveEarly, Subscribe, Push,
         Deliver, Leave, server
<1>1. CASE \E pc \in ReaderPC \ {"open"} : ReaderGoto(r, pc)
  BY <1>0, <1>a, <1>1, GoneOnComplete DEF Further, Reaches
<1>2. CASE Subscribe(r)
  <2>1. PICK start \in 0..(reader[r].cursor + 1) :
          reader' = [reader EXCEPT ![r] = Reopened(reader[r], "open", start)]
    BY <1>2 DEF Subscribe, Reopened
  <2>2. start \in Nat /\ start <= reader[r].cursor + 1 /\ "open" \in ReaderPC
    BY <1>0, <2>1 DEF ReaderPC
  <2>3. CompleteReader(Reopened(reader[r], "open", start))
    BY <1>0, <2>2, ReopenedComplete
  <2>4. /\ Further(reader[r], Reopened(reader[r], "open", start))
        /\ Reaches(reader[r], Reopened(reader[r], "open", start))
    BY <1>0, <2>2, ReopenedType DEF Further, Reaches
  <2> QED BY <1>0, <1>a, <2>1, <2>3, <2>4
<1>3. CASE Leave(r)
  <2>1. reader' = [reader EXCEPT ![r] = Reopened(reader[r], "away", 0)]
    BY <1>3 DEF Leave, Reopened
  <2>2. 0 \in Nat /\ 0 <= reader[r].cursor + 1 /\ "away" \in ReaderPC
    BY <1>0 DEF ReaderPC
  <2>3. CompleteReader(Reopened(reader[r], "away", 0))
    BY <1>0, <2>2, ReopenedComplete
  <2>4. /\ Further(reader[r], Reopened(reader[r], "away", 0))
        /\ Reaches(reader[r], Reopened(reader[r], "away", 0))
    BY <1>0, <2>2, ReopenedType DEF Further, Reaches
  <2> QED BY <1>0, <1>a, <2>1, <2>3, <2>4
<1>4. CASE Push(r)
  <2>1. /\ reader' = [reader EXCEPT ![r] = Pushed(reader[r])]
        /\ reader[r].pc = "open" /\ reader[r].next < Len(log)
    BY <1>4 DEF Push, Pushed
  <2>2. CompleteReader(Pushed(reader[r]))
    BY <1>0, <2>1, PushedComplete
  <2>3. Further(reader[r], Pushed(reader[r])) /\ Reaches(reader[r], Pushed(reader[r]))
    BY <1>0, <2>1, PushedType DEF Further, Reaches
  <2> QED BY <1>0, <1>a, <2>1, <2>2, <2>3
<1>5. CASE Deliver(r)
  <2>1. /\ reader' = [reader EXCEPT ![r] = Given(reader[r])]
        /\ reader[r].pc = "open" /\ reader[r].queue # <<>>
    BY <1>0, <1>5 DEF Deliver, Given, Taken
  <2>2. /\ CompleteReader(Given(reader[r])) /\ Further(reader[r], Given(reader[r]))
        /\ Given(reader[r]).next = reader[r].next
    BY <1>0, <2>1, GivenComplete
  <2>3. Reaches(reader[r], Given(reader[r]))
    BY <1>0, <2>2 DEF Reaches
  <2> QED BY <1>0, <1>a, <2>1, <2>2, <2>3
<1> QED BY <1>1, <1>2, <1>3, <1>4, <1>5
        DEF ReaderSteps, ReaderStep, Enter, ReaderDeclare, ReaderCreate, StartConsumer,
            Register, Retry, StartFails, SubscribeFails, LeaveEarly, ReaderPC

\* Other steps leave the readers alone, and only the server adds to the log.
LEMMA OtherSteps ==
    ASSUME TypeInv, Next, ~\E r \in Reader : ReaderSteps(r)
    PROVE  UNCHANGED reader /\ Len(log') \in Nat /\ Len(log') >= Len(log)
<1>1. log \in Seq(Event)
  BY DEF TypeInv, TypeOK
<1>2. CASE ServerStep
  <2>1. PICK m \in flight : Store(m) \/ Lose(m)
    BY <1>2 DEF ServerStep
  <2>2. CASE Store(m)
    <3>1. m[1] \in Event /\ log' = Append(log, m[1]) /\ UNCHANGED reader
      BY <2>1, <2>2 DEF TypeInv, TypeOK, Store
    <3> QED BY <1>1, <3>1
  <2>3. CASE Lose(m)
    BY <1>1, <2>3 DEF Lose
  <2> QED BY <2>1, <2>2, <2>3
<1>3. CASE ~ServerStep
  <2>1. UNCHANGED <<reader, log>>
    BY <1>3 DEF Next, ReaderSteps, AppendEvent, AppenderStep, EnsureProducer,
       LockProducer, Connect, ConnectFails, Declare, Create, Send, Confirm, SendFails,
       Reset, ConnectionLost, server
  <2> QED BY <1>1, <2>1
<1> QED BY <1>2, <1>3

LEMMA InitReadInv == Init => ReadInv
<1> SUFFICES ASSUME Init PROVE ReadInv
  OBVIOUS
<1>1. /\ \A r \in Reader : /\ reader[r].pc = "away" /\ reader[r].cursor = -1
                           /\ reader[r].delivered = {} /\ reader[r].next = 0
      /\ Len(log) = 0
  BY DEF Init, NoOffset
<1>2. 0..-1 = {}
  OBVIOUS
<1>3. \A r \in Reader : CompleteReader(reader[r])
  BY <1>1, <1>2 DEF CompleteReader
<1>4. \A r \in Reader : InTheLog(reader[r])
  BY <1>1 DEF InTheLog
<1> QED BY <1>3, <1>4, InitTypeInv DEF ReadInv

LEMMA StepReadInv == ReadInv /\ [Next]_vars => ReadInv'
<1> SUFFICES ASSUME ReadInv, [Next]_vars PROVE ReadInv'
  OBVIOUS
<1>0. TypeInv'
  BY StepTypeInv DEF ReadInv
<1>1. CASE \E r \in Reader : ReaderSteps(r)
  <2>1. PICK r \in Reader : ReaderSteps(r)
    BY <1>1
  <2> QED BY <1>0, <2>1, ReaderStepComplete, OneReader
<1>2. ASSUME UNCHANGED reader, Len(log') \in Nat, Len(log') >= Len(log) PROVE ReadInv'
  <2>1. Len(log) \in Nat /\ \A r \in Reader : reader[r].cursor \in Int /\ reader[r].next \in Int
    BY DEF ReadInv, TypeInv, TypeOK, ReaderState, NoOffset
  <2>2. (\A r \in Reader : InTheLog(reader[r]))'
    BY <1>2, <2>1 DEF ReadInv, InTheLog
  <2>3. (\A r \in Reader : CompleteReader(reader[r]))'
    BY <1>2 DEF ReadInv, CompleteReader, QueueIsNext, First
  <2> QED BY <1>0, <2>2, <2>3 DEF ReadInv
<1>3. CASE Next /\ ~\E r \in Reader : ReaderSteps(r)
  <2>1. TypeInv
    BY DEF ReadInv
  <2> QED BY <1>2, <1>3, <2>1, OtherSteps
<1>4. CASE UNCHANGED vars
  <2>1. UNCHANGED <<log, reader>> /\ Len(log) \in Nat
    BY <1>4 DEF vars, server, ReadInv, TypeInv, TypeOK
  <2> QED BY <1>2, <2>1
<1> QED BY <1>1, <1>3, <1>4

\* A client that comes back with its last event, however often and wherever the
\* delivery restarts, is given every event up to its cursor (subscribe).
THEOREM ReadersMissNothing == Spec => []NoOffsetMissed
<1>1. Spec => []ReadInv
  BY InitReadInv, StepReadInv, PTL DEF Spec
<1>2. ReadInv => NoOffsetMissed
  BY DEF ReadInv, CompleteReader, NoOffsetMissed
<1> QED BY <1>1, <1>2, PTL
-----------------------------------------------------------------------------
LEMMA InitFeeds == Init => Feed!Init
<1> SUFFICES ASSUME Init PROVE Feed!Init
  OBVIOUS
<1>1. /\ Len(log) = 0
      /\ \A r \in Reader : reader[r].cursor = NoOffset /\ reader[r].delivered = {}
  BY DEF Init
<1>2. 0..(Len(log) - 1) = {}
  BY <1>1
<1> QED BY <1>1, <1>2 DEF Feed!Init

\* A reader that is given the next event.
LEMMA NextIsGiven ==
    ASSUME ReadInv, NEW r \in Reader, UNCHANGED log,
           \A s \in Reader : s # r => reader'[s] = reader[s],
           reader'[r].cursor = reader[r].cursor + 1, reader'[r].cursor < reader[r].next,
           reader'[r].delivered = reader[r].delivered \cup {reader'[r].cursor}
    PROVE  Feed!Give(r)
<1> DEFINE last == [s \in Reader |-> reader[s].cursor]
           given == [s \in Reader |-> reader[s].delivered]
<1>1. PICK c : c = reader[r].cursor
  OBVIOUS
<1>2. PICK l : l = Len(log)
  OBVIOUS
<1>3. c \in Int /\ c >= -1 /\ l \in Nat /\ c + 1 < l
  BY <1>1, <1>2 DEF ReadInv, InTheLog, TypeInv, TypeOK, ReaderState, NoOffset
<1>4. c + 1 \in 0..(l - 1) /\ c + 1 > c
  BY <1>3
<1>5. {e \in 0..(l - 1) : c < e /\ e <= c + 1} = {c + 1}
  BY <1>3
<1>6. last' = [last EXCEPT ![r] = c + 1]
  BY <1>1
<1>7. given' = [given EXCEPT ![r] = @ \cup {e \in 0..(l - 1) : c < e /\ e <= c + 1}]
  BY <1>1, <1>5
<1>8. last[r] = c
  BY <1>1
<1> HIDE DEF last, given
<1>9. \E n \in 0..(l - 1) :
        /\ n > last[r]
        /\ last' = [last EXCEPT ![r] = n]
        /\ given' = [given EXCEPT ![r] = @ \cup {e \in 0..(l - 1) : last[r] < e /\ e <= n}]
  BY <1>4, <1>6, <1>7, <1>8
<1> QED BY <1>2, <1>9 DEF Feed!Give, last, given

\* Delivery is Give and storing is Publish; all else is a stutter.
LEMMA StepFeeds == ReadInv /\ [Next]_vars => [Feed!Next]_(Feed!vars)
<1> SUFFICES ASSUME ReadInv, [Next]_vars PROVE [Feed!Next]_(Feed!vars)
  OBVIOUS
<1>1. CASE \E r \in Reader : ReaderSteps(r)
  <2>1. PICK r \in Reader : ReaderSteps(r)
    BY <1>1
  <2>2. /\ Further(reader[r], reader'[r]) /\ UNCHANGED log
        /\ \A s \in Reader : s # r => reader'[s] = reader[s]
    BY <2>1, ReaderStepComplete
  <2>3. CASE /\ reader'[r].cursor = reader[r].cursor
             /\ reader'[r].delivered = reader[r].delivered
    <3>1. \A s \in Reader : /\ reader'[s].cursor = reader[s].cursor
                           /\ reader'[s].delivered = reader[s].delivered
      BY <2>2, <2>3
    <3> QED BY <2>2, <3>1 DEF Feed!vars
  <2>4. CASE /\ reader'[r].cursor = reader[r].cursor + 1
             /\ reader'[r].cursor < reader[r].next
             /\ reader'[r].delivered = reader[r].delivered \cup {reader'[r].cursor}
    <3>1. Feed!Give(r)
      BY <2>2, <2>4, NextIsGiven
    <3> QED BY <3>1 DEF Feed!Next
  <2> QED BY <2>2, <2>3, <2>4 DEF Further
<1>2. CASE Next /\ ~\E r \in Reader : ReaderSteps(r)
  <2>1. UNCHANGED reader /\ Len(log') \in Nat /\ Len(log') >= Len(log) /\ Len(log) \in Nat
    BY <1>2, OtherSteps DEF ReadInv, TypeInv, TypeOK
  <2>2. PICK l : l = Len(log)
    OBVIOUS
  <2>3. PICK k : k = Len(log')
    OBVIOUS
  <2>4. /\ 0..(l - 1) \subseteq 0..(k - 1)
        /\ \A n \in (0..(k - 1)) \ (0..(l - 1)) :
             n > -1 /\ \A e \in 0..(l - 1) : n > e
    BY <2>1, <2>2, <2>3
  <2>5. Feed!Publish
    BY <2>1, <2>2, <2>3, <2>4 DEF Feed!Publish, NoOffset
  <2> QED BY <2>5 DEF Feed!Next
<1>3. CASE UNCHANGED vars
  BY <1>3 DEF vars, server, Feed!vars
<1> QED BY <1>1, <1>2, <1>3

\* The stream of a thread is a feed to the clients that read it: each is given
\* every event once, in the order of the offsets, and none is left out.
THEOREM ImplementsEventFeed == Spec => FeedSpec
BY InitReadInv, StepReadInv, InitFeeds, StepFeeds, PTL DEF Spec, FeedSpec, Feed!Spec
=============================================================================
