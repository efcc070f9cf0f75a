------------------------ MODULE PostgresEvents_proofs ------------------------
(***************************************************************************)
(* Proofs about PostgresEvents, for every number of processes, appenders   *)
(* and readers and every retry limit.  The heart of the argument is that a *)
(* number read is at most one above the newest row (SeqIsNext), so that a  *)
(* free number can only be the next one.                                   *)
(***************************************************************************)
EXTENDS PostgresEvents, SequenceTheorems, TLAPS

SeqIsNext ==
    \A a \in Appender : call[a].pc = "insert" => call[a].seq \in 1..(Len(table) + 1)

\* What an appender was told, or is about to be told, is an event of its own.
ToldIsOwn ==
    \A a \in Appender : \A s \in told[a] : s \in DOMAIN table /\ table[s] = a
ReturnIsOwn ==
    \A a \in Appender : call[a].pc = "return" =>
      /\ call[a].seq \in DOMAIN table /\ table[call[a].seq] = a
      /\ call[a].seq \notin told[a]

\* Each conflict was caused by an event stored since the lock was taken.
ConflictsArePaid ==
    \A a \in Appender :
      /\ call[a].pc = "select" => call[a].base + call[a].attempt <= Len(table)
      /\ call[a].pc = "insert" => call[a].base + call[a].attempt < call[a].seq
      /\ call[a].pc = "failed" => call[a].base + MaxAttempts <= Len(table)
      /\ call[a].pc \in LockedSteps => call[a].attempt < MaxAttempts

CursorInLog ==
    \A r \in Reader : cursor[r] <= Len(table) /\ seen[r] = 1..cursor[r]

LogInv == TypeOK /\ SeqIsNext /\ ToldIsOwn /\ ReturnIsOwn /\ ConflictsArePaid /\ CursorInLog
-----------------------------------------------------------------------------
LEMMA MaxSeqIsLen ==
    ASSUME table \in Seq(Appender)
    PROVE  MaxSeq = Len(table)
<1>1. DOMAIN table = 1..Len(table) /\ Len(table) \in Nat
  OBVIOUS
<1>2. Len(table) \in {0} \cup DOMAIN table /\ \A s \in DOMAIN table : s <= Len(table)
  BY <1>1
<1>3. /\ MaxSeq \in {0} \cup DOMAIN table
      /\ \A s \in DOMAIN table : s <= MaxSeq
  BY <1>2 DEF MaxSeq
<1>4. CASE Len(table) = 0
  <2>1. DOMAIN table = {}
    BY <1>1, <1>4
  <2> QED BY <1>3, <1>4, <2>1
<1>5. CASE Len(table) # 0
  <2>1. Len(table) \in DOMAIN table
    BY <1>1, <1>5
  <2>2. Len(table) <= MaxSeq
    BY <1>3, <2>1
  <2>3. MaxSeq # 0
    BY <1>1, <1>5, <2>2
  <2>4. MaxSeq \in DOMAIN table
    BY <1>3, <2>3
  <2> QED BY <1>1, <2>2, <2>4
<1> QED BY <1>4, <1>5

\* Storing the next number appends to the log.
LEMMA StoreAppends ==
    ASSUME table \in Seq(Appender), NEW a \in Appender, NEW seq \in 1..(Len(table) + 1),
           seq \notin DOMAIN table, Store(a, seq)
    PROVE  /\ seq = Len(table) + 1
           /\ table' = Append(table, a)
<1>1. DOMAIN table = 1..Len(table) /\ Len(table) \in Nat
  OBVIOUS
<1>2. seq = Len(table) + 1 /\ DOMAIN table \cup {seq} = 1..(Len(table) + 1)
  BY <1>1
<1>3. table' = [s \in 1..(Len(table) + 1) |-> IF s = seq THEN a ELSE table[s]]
  BY <1>2 DEF Store
<1>4. /\ Append(table, a) \in Seq(Appender)
      /\ Len(Append(table, a)) = Len(table) + 1
      /\ \A s \in 1..Len(table) : Append(table, a)[s] = table[s]
      /\ Append(table, a)[Len(table) + 1] = a
  BY AppendProperties
<1>5. table' \in [1..(Len(table) + 1) -> Appender]
  BY <1>1, <1>3
<1>6. table' \in Seq(Appender) /\ Len(table') = Len(table) + 1
  BY <1>1, <1>5
<1>7. \A s \in 1..Len(table') : table'[s] = Append(table, a)[s]
  BY <1>1, <1>2, <1>3, <1>4, <1>6
<1>8. table' = Append(table, a)
  BY <1>4, <1>6, <1>7, SeqEqual
<1> QED BY <1>2, <1>8

LEMMA IdleType == Idle \in CallState /\ Idle.pc = "idle"
BY ConstantsAssumption DEF Idle, CallState

LEMMA InitLogInv == Init => LogInv
<1> SUFFICES ASSUME Init PROVE LogInv
  OBVIOUS
<1>1. table \in Seq(Appender) /\ Len(table) = 0
  BY DEF Init
<1> QED BY <1>1, IdleType, ConstantsAssumption
       DEF Init, LogInv, TypeOK, SeqIsNext, ToldIsOwn, ReturnIsOwn, ConflictsArePaid,
           CursorInLog, LockedSteps

\* Nothing but the state of one call changes.
LEMMA CallStep ==
    ASSUME LogInv, NEW a \in Appender, NEW s \in CallState, Become(a, s),
           UNCHANGED <<table, told, seen, cursor>>, calls' \in 0..MaxCalls,
           s.pc = "insert" => /\ s.seq \in 1..(Len(table) + 1)
                              /\ s.base + s.attempt < s.seq,
           s.pc = "select" => s.base + s.attempt <= Len(table),
           s.pc = "failed" => s.base + MaxAttempts <= Len(table),
           s.pc \in LockedSteps => s.attempt < MaxAttempts,
           s.pc # "return"
    PROVE  LogInv'
BY DEF LogInv, TypeOK, SeqIsNext, ToldIsOwn, ReturnIsOwn, ConflictsArePaid,
       CursorInLog, Become

\* A row is stored and its appender moves on.
LEMMA StoreStep ==
    ASSUME LogInv, NEW a \in Appender, call[a].pc = "insert",
           call[a].seq \notin DOMAIN table, Store(a, call[a].seq),
           NEW s \in CallState, Become(a, s),
           s.pc = "idle" \/ (s.pc = "return" /\ s.seq = call[a].seq),
           UNCHANGED <<calls, told, seen, cursor>>
    PROVE  LogInv'
<1>1. /\ call[a].seq = Len(table) + 1
      /\ table' = Append(table, a)
  BY StoreAppends DEF LogInv, TypeOK, SeqIsNext
<1>2. /\ table' \in Seq(Appender)
      /\ Len(table') = Len(table) + 1 /\ Len(table) \in Nat
      /\ DOMAIN table = 1..Len(table) /\ DOMAIN table' = 1..(Len(table) + 1)
      /\ \A i \in DOMAIN table : table'[i] = table[i]
      /\ table'[Len(table) + 1] = a
  BY <1>1 DEF LogInv, TypeOK
<1>3. call' \in [Appender -> CallState] /\ call'[a] = s
      /\ \A b \in Appender : b # a => call'[b] = call[b]
  BY DEF Become, LogInv, TypeOK
<1>4. TypeOK'
  BY <1>2, <1>3 DEF LogInv, TypeOK
<1>5. SeqIsNext'
  <2> SUFFICES ASSUME NEW b \in Appender, call'[b].pc = "insert"
               PROVE  call'[b].seq \in 1..(Len(table) + 2)
    BY <1>2 DEF SeqIsNext
  <2>1. b # a /\ call[b].pc = "insert" /\ call'[b] = call[b]
    BY <1>3
  <2>2. call[b].seq \in 1..(Len(table) + 1)
    BY <2>1 DEF LogInv, SeqIsNext
  <2> QED BY <1>2, <2>1, <2>2
<1>6. ToldIsOwn'
  BY <1>2 DEF LogInv, TypeOK, ToldIsOwn
<1>7. ReturnIsOwn'
  <2> SUFFICES ASSUME NEW b \in Appender, call'[b].pc = "return"
               PROVE  /\ call'[b].seq \in DOMAIN table' /\ table'[call'[b].seq] = b
                      /\ call'[b].seq \notin told[b]
    BY DEF ReturnIsOwn
  <2>1. CASE b = a
    <3>1. call'[b].seq = Len(table) + 1
      BY <1>1, <1>3, <2>1
    <3>2. Len(table) + 1 \notin told[a]
      BY <1>2 DEF LogInv, ToldIsOwn
    <3> QED BY <1>2, <2>1, <3>1, <3>2
  <2>2. CASE b # a
    <3>1. call[b].pc = "return" /\ call'[b] = call[b]
      BY <1>3, <2>2
    <3>2. /\ call[b].seq \in DOMAIN table /\ table[call[b].seq] = b
          /\ call[b].seq \notin told[b]
      BY <3>1 DEF LogInv, ReturnIsOwn
    <3> QED BY <1>2, <3>1, <3>2
  <2> QED BY <2>1, <2>2
<1>8. ConflictsArePaid'
  <2> SUFFICES ASSUME NEW b \in Appender
               PROVE  /\ call'[b].pc = "select" =>
                           call'[b].base + call'[b].attempt <= Len(table) + 1
                      /\ call'[b].pc = "insert" =>
                           call'[b].base + call'[b].attempt < call'[b].seq
                      /\ call'[b].pc = "failed" =>
                           call'[b].base + MaxAttempts <= Len(table) + 1
                      /\ call'[b].pc \in LockedSteps => call'[b].attempt < MaxAttempts
    BY <1>2 DEF ConflictsArePaid
  <2>1. CASE b = a
    BY <1>3, <2>1 DEF LockedSteps
  <2>2. CASE b # a
    <3>1. call'[b] = call[b] /\ call[b] \in CallState
      BY <1>3, <2>2 DEF LogInv, TypeOK
    <3>2. call[b].base \in Nat /\ call[b].attempt \in Nat
      BY <3>1 DEF CallState
    <3> QED BY <1>2, <3>1, <3>2, ConstantsAssumption DEF LogInv, ConflictsArePaid
  <2> QED BY <2>1, <2>2
<1>9. CursorInLog'
  BY <1>2 DEF LogInv, TypeOK, CursorInLog
<1> QED BY <1>4, <1>5, <1>6, <1>7, <1>8, <1>9 DEF LogInv

LEMMA StepLogInv == LogInv /\ [Next]_vars => LogInv'
<1> SUFFICES ASSUME LogInv, [Next]_vars PROVE LogInv'
  OBVIOUS
<1>1. CASE UNCHANGED vars
  BY <1>1 DEF vars, LogInv, TypeOK, SeqIsNext, ToldIsOwn, ReturnIsOwn,
              ConflictsArePaid, CursorInLog
<1>2. ASSUME NEW a \in Appender,
             Call(a) \/ TakeLock(a) \/ Select(a) \/ InsertStores(a) \/ InsertConflicts(a)
               \/ Return(a) \/ ConnectionLost(a)
      PROVE  LogInv'
  <2>1. /\ call[a] \in CallState /\ Len(table) \in Nat /\ DOMAIN table = 1..Len(table)
        /\ calls \in 0..MaxCalls
    BY DEF LogInv, TypeOK
  <2>2. MaxSeq = Len(table)
    BY MaxSeqIsLen DEF LogInv, TypeOK
  <2>3. ASSUME Become(a, Idle), UNCHANGED <<table, calls, told, seen, cursor>>
        PROVE  LogInv'
    BY <2>1, <2>3, IdleType, CallStep DEF LockedSteps
  <2>4. CASE Call(a)
    <3> DEFINE s == [Idle EXCEPT !.pc = "lock"]
    <3>1. s \in CallState /\ s.pc = "lock" /\ Become(a, s)
      BY <2>4, ConstantsAssumption DEF Call, Idle, CallState
    <3>2. calls' \in 0..MaxCalls
      BY <2>1, <2>4, ConstantsAssumption DEF Call
    <3> HIDE DEF s
    <3> QED BY <2>4, <3>1, <3>2, CallStep DEF Call, LockedSteps
  <2>5. CASE TakeLock(a)
    <3> DEFINE s == [Idle EXCEPT !.pc = "select", !.base = MaxSeq]
    <3>0. MaxSeq \in Nat /\ 0 \in 0..MaxAttempts
      BY <2>1, <2>2, ConstantsAssumption
    <3>1. s \in CallState /\ s.pc = "select" /\ s.base = Len(table) /\ s.attempt = 0
      BY <2>2, <3>0 DEF Idle, CallState
    <3>2. Become(a, s)
      BY <2>5 DEF TakeLock
    <3> HIDE DEF s
    <3> QED BY <2>1, <2>5, <3>1, <3>2, CallStep, ConstantsAssumption DEF TakeLock, LockedSteps
  <2>6. CASE Select(a)
    <3> DEFINE n == MaxSeq + 1
               s == [call[a] EXCEPT !.pc = "insert", !.seq = n]
    <3>0. n \in Nat /\ n = Len(table) + 1
      BY <2>1, <2>2
    <3> HIDE DEF n
    <3>1. /\ s \in CallState /\ s.pc = "insert" /\ s.seq = Len(table) + 1
          /\ s.base = call[a].base /\ s.attempt = call[a].attempt
      BY <2>1, <3>0 DEF CallState
    <3>2. Become(a, s) /\ call[a].pc = "select"
      BY <2>6 DEF Select, n
    <3>3. call[a].base + call[a].attempt <= Len(table) /\ call[a].attempt < MaxAttempts
      BY <3>2 DEF LogInv, ConflictsArePaid, LockedSteps
    <3>4. s.base + s.attempt < s.seq
      BY <2>1, <3>1, <3>3 DEF CallState
    <3> HIDE DEF s
    <3> QED BY <2>1, <2>6, <3>1, <3>2, <3>3, <3>4, CallStep DEF Select
  <2>7. CASE InsertStores(a)
    <3> DEFINE s == [call[a] EXCEPT !.pc = "return"]
    <3>1. s \in CallState /\ s.pc = "return" /\ s.seq = call[a].seq /\ Become(a, s)
      BY <2>1, <2>7 DEF InsertStores, CallState
    <3> HIDE DEF s
    <3> QED BY <2>7, <3>1, StoreStep DEF InsertStores
  <2>8. CASE InsertConflicts(a)
    <3> DEFINE attempt == call[a].attempt + 1
               pc == IF attempt < MaxAttempts THEN "select" ELSE "failed"
               s == [call[a] EXCEPT !.attempt = attempt, !.pc = pc]
    <3>1. attempt \in Nat /\ pc \in {"select", "failed"}
      BY <2>1 DEF CallState
    <3>2. Become(a, s) /\ call[a].pc = "insert" /\ call[a].seq \in DOMAIN table
      BY <2>8 DEF InsertConflicts
    <3>3. call[a].base + attempt <= Len(table)
      BY <2>1, <3>2 DEF LogInv, ConflictsArePaid, CallState
    <3>4. attempt <= MaxAttempts
      BY <2>1, <3>2, ConstantsAssumption DEF LogInv, ConflictsArePaid, LockedSteps, CallState
    <3>5. /\ pc = "select" => attempt < MaxAttempts
          /\ pc = "failed" => attempt = MaxAttempts
      BY <3>1, <3>4, ConstantsAssumption
    <3>6. attempt \in 0..MaxAttempts
      BY <3>1, <3>4, ConstantsAssumption
    <3> HIDE DEF pc, attempt
    <3>7. s \in CallState /\ s.pc = pc /\ s.attempt = attempt /\ s.base = call[a].base
      BY <2>1, <3>1, <3>6 DEF CallState
    <3> HIDE DEF s
    <3> QED BY <2>1, <2>8, <3>1, <3>2, <3>3, <3>5, <3>7, CallStep DEF InsertConflicts,
           LockedSteps
  <2>9. CASE Return(a)
    <3>1. CASE call[a].pc = "failed"
      BY <2>3, <2>9, <3>1 DEF Return
    <3>2. CASE call[a].pc = "return"
      <4>1. told' = [told EXCEPT ![a] = @ \cup {call[a].seq}]
        BY <2>9, <3>2 DEF Return
      <4>2. call[a].seq \in DOMAIN table /\ table[call[a].seq] = a
        BY <3>2 DEF LogInv, ReturnIsOwn
      <4>3. call' \in [Appender -> CallState] /\ call'[a].pc = "idle"
            /\ \A b \in Appender : b # a => call'[b] = call[b] /\ told'[b] = told[b]
        BY <2>9, <4>1, IdleType DEF Return, Become, LogInv, TypeOK
      <4>4. UNCHANGED <<table, calls, seen, cursor>>
        BY <2>9 DEF Return
      <4>5. ToldIsOwn'
        BY <4>1, <4>2, <4>4 DEF LogInv, TypeOK, ToldIsOwn
      <4>6. TypeOK' /\ CursorInLog'
        <5>1. told' \in [Appender -> SUBSET Nat]
          BY <2>1, <4>1, <4>2 DEF LogInv, TypeOK
        <5> QED BY <4>3, <4>4, <5>1 DEF LogInv, TypeOK, CursorInLog
      <4>7. SeqIsNext' /\ ReturnIsOwn' /\ ConflictsArePaid'
        BY <4>3, <4>4 DEF LogInv, SeqIsNext, ReturnIsOwn, ConflictsArePaid, LockedSteps
      <4> QED BY <4>5, <4>6, <4>7 DEF LogInv
    <3> QED BY <2>9, <3>1, <3>2 DEF Return
  <2>10. CASE ConnectionLost(a)
    <3>1. CASE UNCHANGED table
      BY <2>3, <2>10, <3>1 DEF ConnectionLost
    <3>2. CASE call[a].pc = "insert" /\ call[a].seq \notin DOMAIN table
               /\ Store(a, call[a].seq)
      BY <2>10, <3>2, IdleType, StoreStep DEF ConnectionLost
    <3> QED BY <2>10, <3>1, <3>2 DEF ConnectionLost
  <2> QED BY <1>2, <2>4, <2>5, <2>6, <2>7, <2>8, <2>9, <2>10
<1>3. ASSUME NEW p \in Process, Crash(p) PROVE LogInv'
  BY <1>3, IdleType DEF Crash, LogInv, TypeOK, SeqIsNext, ToldIsOwn, ReturnIsOwn,
                        ConflictsArePaid, CursorInLog, LockedSteps
<1>4. ASSUME NEW r \in Reader, ListEvents(r) PROVE LogInv'
  <2>1. PICK last \in DOMAIN table :
          /\ last > cursor[r]
          /\ seen' = [seen EXCEPT ![r] =
               @ \cup {s \in DOMAIN table : cursor[r] < s /\ s <= last}]
          /\ cursor' = [cursor EXCEPT ![r] = last]
          /\ UNCHANGED <<table, call, calls, told>>
    BY <1>4 DEF ListEvents
  <2>2. DOMAIN table = 1..Len(table) /\ Len(table) \in Nat /\ cursor[r] \in Nat
        /\ seen[r] = 1..cursor[r]
    BY DEF LogInv, TypeOK, CursorInLog
  <2>3. seen[r] \cup {s \in DOMAIN table : cursor[r] < s /\ s <= last} = 1..last
    BY <2>1, <2>2
  <2>4. /\ cursor' \in [Reader -> Nat] /\ cursor'[r] = last
        /\ seen' \in [Reader -> SUBSET Nat] /\ seen'[r] = 1..last
        /\ \A q \in Reader : q # r => seen'[q] = seen[q] /\ cursor'[q] = cursor[q]
    <3>1. 1..last \in SUBSET Nat /\ last \in Nat
      BY <2>2
    <3> QED BY <2>1, <2>3, <3>1 DEF LogInv, TypeOK
  <2>5. TypeOK'
    BY <2>1, <2>4 DEF LogInv, TypeOK
  <2>6. CursorInLog'
    <3>1. \A q \in Reader : cursor'[q] <= Len(table) /\ seen'[q] = 1..cursor'[q]
      BY <2>2, <2>4 DEF LogInv, CursorInLog
    <3> QED BY <2>1, <3>1 DEF CursorInLog
  <2> QED BY <2>1, <2>5, <2>6 DEF LogInv, SeqIsNext, ToldIsOwn, ReturnIsOwn, ConflictsArePaid
<1> QED BY <1>1, <1>2, <1>3, <1>4 DEF Next

\* Every reachable state is well typed: the rows always are a sequence, numbered
\* from 1 without gaps.
THEOREM TypeCorrect == Spec => []TypeOK
<1>1. LogInv => TypeOK
  BY DEF LogInv
<1> QED BY InitLogInv, StepLogInv, <1>1, PTL DEF Spec

\* A reader that follows the log by cursor misses no event, whatever appenders
\* race with each other and with it.
THEOREM ReadersMissNothing == Spec => []NoEventMissed
<1>1. LogInv => NoEventMissed
  <2> SUFFICES ASSUME LogInv, NEW r \in Reader
               PROVE  seen[r] = {s \in DOMAIN table : s <= cursor[r]}
    BY DEF NoEventMissed
  <2>1. /\ DOMAIN table = 1..Len(table) /\ Len(table) \in Nat /\ cursor[r] \in Nat
        /\ cursor[r] <= Len(table) /\ seen[r] = 1..cursor[r]
    BY DEF LogInv, TypeOK, CursorInLog
  <2> QED BY <2>1
<1> QED BY InitLogInv, StepLogInv, <1>1, PTL DEF Spec

\* append_event gives up only when others stored MaxAttempts events during it.
THEOREM ContentionBounded == Spec => []GivesUpOnlyUnderContention
<1>1. LogInv => GivesUpOnlyUnderContention
  BY ConstantsAssumption
     DEF LogInv, TypeOK, ConflictsArePaid, GivesUpOnlyUnderContention, CallState
<1> QED BY InitLogInv, StepLogInv, <1>1, PTL DEF Spec
-----------------------------------------------------------------------------
LEMMA InitRefines == Init => Log!Init
BY DEF Init, Log!Init

\* Storing a row is Put, returning its number is Tell, all else is a stutter.
LEMMA StepRefines == LogInv /\ [Next]_vars => [Log!Next]_(Log!vars)
<1> SUFFICES ASSUME LogInv, [Next]_vars PROVE [Log!Next]_(Log!vars)
  OBVIOUS
<1>1. ASSUME UNCHANGED <<table, told>> PROVE [Log!Next]_(Log!vars)
  BY <1>1 DEF Log!vars
<1>2. ASSUME NEW a \in Appender, call[a].pc = "insert", call[a].seq \notin DOMAIN table,
             Store(a, call[a].seq), UNCHANGED told
      PROVE  Log!Next
  BY <1>2, StoreAppends DEF LogInv, TypeOK, SeqIsNext, Log!Next, Log!Put
<1>3. CASE UNCHANGED vars
  BY <1>1, <1>3 DEF vars
<1>4. ASSUME NEW a \in Appender,
             Call(a) \/ TakeLock(a) \/ Select(a) \/ InsertConflicts(a)
      PROVE  [Log!Next]_(Log!vars)
  BY <1>1, <1>4 DEF Call, TakeLock, Select, InsertConflicts
<1>5. ASSUME NEW a \in Appender, InsertStores(a) \/ ConnectionLost(a)
      PROVE  [Log!Next]_(Log!vars)
  BY <1>1, <1>2, <1>5 DEF InsertStores, ConnectionLost
<1>6. ASSUME NEW a \in Appender, Return(a) PROVE [Log!Next]_(Log!vars)
  <2>1. CASE call[a].pc = "failed"
    BY <1>1, <1>6, <2>1 DEF Return
  <2>2. CASE call[a].pc = "return"
    <3>1. /\ told' = [told EXCEPT ![a] = @ \cup {call[a].seq}] /\ UNCHANGED table
      BY <1>6, <2>2 DEF Return
    <3>2. /\ call[a].seq \in DOMAIN table \ told[a] /\ table[call[a].seq] = a
      BY <2>2 DEF LogInv, ReturnIsOwn
    <3>3. Log!Tell(a)
      BY <3>1, <3>2 DEF Log!Tell
    <3> QED BY <3>3 DEF Log!Next
  <2> QED BY <1>6, <2>1, <2>2 DEF Return
<1>7. ASSUME NEW p \in Process, Crash(p) PROVE [Log!Next]_(Log!vars)
  BY <1>1, <1>7 DEF Crash
<1>8. ASSUME NEW r \in Reader, ListEvents(r) PROVE [Log!Next]_(Log!vars)
  BY <1>1, <1>8 DEF ListEvents
<1> QED BY <1>3, <1>4, <1>5, <1>6, <1>7, <1>8 DEF Next

\* The table with its optimistic numbering implements the append-only log.
THEOREM ImplementsEventLog == Spec => LogSpec
BY InitLogInv, StepLogInv, InitRefines, StepRefines, PTL DEF Spec, LogSpec, Log!Spec
-----------------------------------------------------------------------------
LEMMA InitFeeds == Init => Feed!Init
BY DEF Init, Feed!Init

\* A row is stored behind all rows there are.
LEMMA StoreFeeds ==
    ASSUME LogInv, NEW a \in Appender, call[a].pc = "insert",
           call[a].seq \notin DOMAIN table, Store(a, call[a].seq),
           UNCHANGED <<cursor, seen>>
    PROVE  Feed!Publish
<1>1. /\ call[a].seq = Len(table) + 1
      /\ DOMAIN table = 1..Len(table) /\ Len(table) \in Nat
  BY StoreAppends DEF LogInv, TypeOK, SeqIsNext
<1>2. DOMAIN table' = DOMAIN table \cup {call[a].seq}
  BY DEF Store
<1>3. \A n \in (DOMAIN table)' \ DOMAIN table :
        n > 0 /\ \A e \in DOMAIN table : n > e
  BY <1>1, <1>2
<1> QED BY <1>2, <1>3 DEF Feed!Publish

\* Storing a row is Publish, a read is Give, all else is a stutter.
LEMMA StepFeeds == LogInv /\ [Next]_vars => [Feed!Next]_(Feed!vars)
<1> SUFFICES ASSUME LogInv, [Next]_vars PROVE [Feed!Next]_(Feed!vars)
  OBVIOUS
<1>1. ASSUME UNCHANGED <<table, cursor, seen>> PROVE [Feed!Next]_(Feed!vars)
  BY <1>1 DEF Feed!vars
<1>2. CASE UNCHANGED vars
  BY <1>1, <1>2 DEF vars
<1>3. ASSUME NEW a \in Appender,
             Call(a) \/ TakeLock(a) \/ Select(a) \/ InsertConflicts(a) \/ Return(a)
      PROVE  [Feed!Next]_(Feed!vars)
  BY <1>1, <1>3 DEF Call, TakeLock, Select, InsertConflicts, Return
<1>4. ASSUME NEW a \in Appender, InsertStores(a) \/ ConnectionLost(a)
      PROVE  [Feed!Next]_(Feed!vars)
  BY <1>1, <1>4, StoreFeeds DEF InsertStores, ConnectionLost, Feed!Next
<1>5. ASSUME NEW p \in Process, Crash(p) PROVE [Feed!Next]_(Feed!vars)
  BY <1>1, <1>5 DEF Crash
<1>6. ASSUME NEW r \in Reader, ListEvents(r) PROVE [Feed!Next]_(Feed!vars)
  <2>1. Feed!Give(r)
    BY <1>6 DEF ListEvents, Feed!Give
  <2> QED BY <2>1 DEF Feed!Next
<1> QED BY <1>2, <1>3, <1>4, <1>5, <1>6 DEF Next

\* The log is a feed to all who read it by `since`: those who follow it are given
\* each event once, in order, and no row is ever stored below one they could see.
THEOREM ImplementsEventFeed == Spec => FeedSpec
BY InitLogInv, StepLogInv, InitFeeds, StepFeeds, PTL DEF Spec, FeedSpec, Feed!Spec
=============================================================================
