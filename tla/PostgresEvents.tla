--------------------------- MODULE PostgresEvents ---------------------------
(***************************************************************************)
(* The event log of ONE thread in PostgreSQL: the table stream_events and  *)
(* PostgresRepository.append_event / list_events (app/store_postgres.py).  *)
(*                                                                         *)
(* API servers and Celery workers append concurrently.  A sequence number  *)
(* is read (MAX(seq) + 1) and then inserted under the primary key          *)
(* (thread_id, seq); the pool runs in autocommit mode, so these are two    *)
(* transactions and another process may insert in between.  The insert     *)
(* then does nothing and the appender tries again.  An asyncio lock keeps  *)
(* the appenders of one process apart.                                     *)
(*                                                                         *)
(* The log is followed until its thread is deleted: delete_thread removes  *)
(* the rows and the numbers start again.                                   *)
(***************************************************************************)
EXTENDS Naturals, Sequences, FiniteSets

CONSTANTS
    Appender,      \* asyncio tasks that append events to the thread
    Process,       \* the processes they run in
    ProcessOf,     \* [Appender -> Process]
    Reader,        \* those who read the log by cursor
    MaxAttempts,   \* max_attempts: 25 in the code
    MaxCalls       \* a bound: calls of append_event in a behaviour

ASSUME ConstantsAssumption ==
    /\ ProcessOf \in [Appender -> Process]
    /\ MaxAttempts \in Nat \ {0}
    /\ MaxCalls \in Nat

VARIABLES
    table,   \* seq -> the appender whose event the row holds
    call,    \* appender -> the state of its call of append_event
    calls,   \* how often append_event was called
    told,    \* appender -> the sequence numbers its calls returned
    seen,    \* reader -> the sequence numbers of the events it was given
    cursor   \* reader -> the last of them, the `since` of its next read

vars == <<table, call, calls, told, seen, cursor>>
-----------------------------------------------------------------------------
CallState ==
    [pc      : {"idle", "lock", "select", "insert", "return", "failed"},
     seq     : Nat,    \* candidate.seq
     attempt : 0..MaxAttempts,   \* conflicts so far
     base    : Nat]    \* MAX(seq) when the lock was taken (not in the code)
Idle == [pc |-> "idle", seq |-> 0, attempt |-> 0, base |-> 0]
LockedSteps == {"select", "insert"}

TypeOK ==
    /\ table \in Seq(Appender)
    /\ call \in [Appender -> CallState]
    /\ calls \in 0..MaxCalls
    /\ told \in [Appender -> SUBSET Nat]
    /\ seen \in [Reader -> SUBSET Nat]
    /\ cursor \in [Reader -> Nat]

Init ==
    /\ table = <<>>
    /\ call = [a \in Appender |-> Idle]
    /\ calls = 0
    /\ told = [a \in Appender |-> {}]
    /\ seen = [r \in Reader |-> {}]
    /\ cursor = [r \in Reader |-> 0]

\* COALESCE(MAX(seq), 0)
MaxSeq ==
    CHOOSE m \in {0} \cup DOMAIN table : \A s \in DOMAIN table : s <= m

Become(a, state) == call' = [call EXCEPT ![a] = state]
\* INSERT of a row with a free sequence number.
Store(a, seq) ==
    table' = [s \in DOMAIN table \cup {seq} |-> IF s = seq THEN a ELSE table[s]]
-----------------------------------------------------------------------------
Call(a) ==
    /\ call[a].pc = "idle"
    /\ calls < MaxCalls
    /\ calls' = calls + 1
    /\ Become(a, [Idle EXCEPT !.pc = "lock"])
    /\ UNCHANGED <<table, told, seen, cursor>>

\* async with self._lock
TakeLock(a) ==
    /\ call[a].pc = "lock"
    /\ \A b \in Appender : ProcessOf[b] = ProcessOf[a] => call[b].pc \notin LockedSteps
    /\ Become(a, [Idle EXCEPT !.pc = "select", !.base = MaxSeq])
    /\ UNCHANGED <<table, calls, told, seen, cursor>>

Select(a) ==
    /\ call[a].pc = "select"
    /\ Become(a, [call[a] EXCEPT !.pc = "insert", !.seq = MaxSeq + 1])
    /\ UNCHANGED <<table, calls, told, seen, cursor>>

InsertStores(a) ==
    /\ call[a].pc = "insert"
    /\ call[a].seq \notin DOMAIN table
    /\ Store(a, call[a].seq)
    /\ Become(a, [call[a] EXCEPT !.pc = "return"])
    /\ UNCHANGED <<calls, told, seen, cursor>>

\* Mutant of InsertConflicts: rowcount is not looked at.
InsertConflictsUnnoticed(a) ==
    /\ call[a].pc = "insert"
    /\ call[a].seq \in DOMAIN table
    /\ Become(a, [call[a] EXCEPT !.pc = "return"])
    /\ UNCHANGED <<table, calls, told, seen, cursor>>

\* Mutant of InsertConflicts: the same number is tried again.
InsertConflictsSameSeq(a) ==
    /\ call[a].pc = "insert"
    /\ call[a].seq \in DOMAIN table
    /\ LET attempt == call[a].attempt + 1 IN
       Become(a, [call[a] EXCEPT !.attempt = attempt,
                    !.pc = IF attempt < MaxAttempts THEN "insert" ELSE "failed"])
    /\ UNCHANGED <<table, calls, told, seen, cursor>>

\* Mutant of InsertConflicts: tried again for ever.
InsertConflictsForEver(a) ==
    /\ call[a].pc = "insert"
    /\ call[a].seq \in DOMAIN table
    /\ Become(a, [call[a] EXCEPT !.attempt = @ + 1, !.pc = "select"])
    /\ UNCHANGED <<table, calls, told, seen, cursor>>

\* ON CONFLICT DO NOTHING: try again, but not for ever.
InsertConflicts(a) ==
    /\ call[a].pc = "insert"
    /\ call[a].seq \in DOMAIN table
    /\ LET attempt == call[a].attempt + 1 IN
       Become(a, [call[a] EXCEPT !.attempt = attempt,
                    !.pc = IF attempt < MaxAttempts THEN "select" ELSE "failed"])
    /\ UNCHANGED <<table, calls, told, seen, cursor>>

\* append_event returns the event, or raises the RuntimeError.
Return(a) ==
    /\ call[a].pc \in {"return", "failed"}
    /\ told' = IF call[a].pc = "failed" THEN told
               ELSE [told EXCEPT ![a] = @ \cup {call[a].seq}]
    /\ Become(a, Idle)
    /\ UNCHANGED <<table, calls, seen, cursor>>

\* The connection breaks: append_event raises, and an insert that was under way
\* may have been carried out.
ConnectionLost(a) ==
    /\ call[a].pc \in LockedSteps
    /\ \/ UNCHANGED table
       \/ /\ call[a].pc = "insert"
          /\ call[a].seq \notin DOMAIN table
          /\ Store(a, call[a].seq)
    /\ Become(a, Idle)
    /\ UNCHANGED <<calls, told, seen, cursor>>

\* A process dies in the middle of its calls.
Crash(p) ==
    /\ \E a \in Appender : ProcessOf[a] = p /\ call[a].pc # "idle"
    /\ call' = [a \in Appender |-> IF ProcessOf[a] = p THEN Idle ELSE call[a]]
    /\ UNCHANGED <<table, calls, told, seen, cursor>>

\* Mutant of ListEvents: the cursor runs ahead of what was read.
ListEventsAhead(r) ==
    \E last \in DOMAIN table :
      /\ last > cursor[r]
      /\ seen' = [seen EXCEPT ![r] =
           @ \cup {s \in DOMAIN table : cursor[r] < s /\ s <= last}]
      /\ cursor' = [cursor EXCEPT ![r] = last + 1]
      /\ UNCHANGED <<table, call, calls, told>>

\* list_events(since): the rows above the cursor in the order of seq, up to a
\* limit (any here, 10000 in the code); the last one is the next cursor.
ListEvents(r) ==
    \E last \in DOMAIN table :
      /\ last > cursor[r]
      /\ seen' = [seen EXCEPT ![r] =
           @ \cup {s \in DOMAIN table : cursor[r] < s /\ s <= last}]
      /\ cursor' = [cursor EXCEPT ![r] = last]
      /\ UNCHANGED <<table, call, calls, told>>

Next ==
    \/ \E a \in Appender :
         \/ Call(a) \/ TakeLock(a) \/ Select(a)
         \/ InsertStores(a) \/ InsertConflicts(a)
         \/ Return(a) \/ ConnectionLost(a)
    \/ \E p \in Process : Crash(p)
    \/ \E r \in Reader : ListEvents(r)

Spec == Init /\ [][Next]_vars
-----------------------------------------------------------------------------
(* What holds.                                                             *)

\* Appenders of any number of processes, each with its own lock, together build
\* one gapless log that only grows at its end, and each is told only numbers of
\* events of its own: reading MAX(seq) + 1 outside the inserting transaction is
\* made good by the primary key and the retry (the comment in append_event).
Log == INSTANCE EventLog WITH log <- table
LogSpec == Log!Spec

\* A reader that follows the log by `seq > since` is given each event once, in
\* order, and none is left out: no event is stored below a number that was
\* already visible (list_events).
Feed == INSTANCE EventFeed
            WITH Follower <- Reader, Before <- 0,
                 events <- DOMAIN table, last <- cursor, given <- seen
FeedSpec == Feed!Spec

\* So it has every event up to its cursor.
NoEventMissed ==
    \A r \in Reader : seen[r] = {s \in DOMAIN table : s <= cursor[r]}

\* append_event raises "could not allocate a sequence" only after MaxAttempts
\* events of others were stored during the call ("high concurrent write
\* contention"): a retry never loses to an event it could have seen.
GivesUpOnlyUnderContention ==
    \A a \in Appender :
      call[a].pc = "failed" => Len(table) >= call[a].base + MaxAttempts
=============================================================================
