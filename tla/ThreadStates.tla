---------------------------- MODULE ThreadStates ----------------------------
(***************************************************************************)
(* One thread in PostgreSQL: its row (newest state and metadata), its      *)
(* history, and the rows of its runs and run snapshots, as they are used   *)
(* by the requests and runs of several processes                           *)
(* (app/store_postgres.py, app/projections.py, the thread endpoints of     *)
(* app/main.py, the parts of the runners that save states).                *)
(*                                                                         *)
(* A transaction is one action per statement.  PostgreSQL works at READ    *)
(* COMMITTED: a statement sees what is committed when it starts, writes    *)
(* lock the row until the transaction ends, and a cycle of waiting         *)
(* transactions is broken by aborting one of them.  The lock of a          *)
(* PostgresRepository serialises its own process only.                     *)
(*                                                                         *)
(* Left out: the assistant id, the timestamps and the event log of the     *)
(* thread (PostgresEvents).  A state keeps its messages, its parent and    *)
(* the run that wrote it.                                                  *)
(***************************************************************************)
EXTENDS Naturals, FiniteSets, Sequences, SequencesExt

CONSTANTS
    Actor,       \* requests and runs, each acts once
    Process,     \* API replicas and workers
    Kinds,       \* what actors do
    Faults,      \* what may go wrong
    Limit,       \* get_history(limit=200) of a snapshot
    Nothing

ASSUME ConstantsAssumption ==
    /\ Kinds \subseteq {"create", "update", "rename", "delete", "run"}
    /\ Faults \subseteq {"connection"}
    /\ Limit \in Nat \ {0}
    /\ Nothing \notin Actor \cup ((Actor \cup {Nothing}) \X {"empty", "initial", "final", "update"})

VARIABLES
    row,        \* stream_threads: the row of the thread, or Absent
    history,    \* stream_thread_history: newest first, or None
    runs,       \* stream_runs: run -> status, or "none"
    snapshots,  \* stream_run_snapshots: run -> its messages
    lock,       \* table -> the transaction that wrote the thread's row in it
    repo,       \* process -> the actor in `async with self._lock'
    actor       \* actor -> its local state

tables == <<row, history, runs, snapshots>>
vars == <<tables, lock, repo, actor>>
-----------------------------------------------------------------------------
Table == {"thread", "history", "runs"}

\* Checkpoints are named by who made them and when.
Checkpoint == (Actor \cup {Nothing}) \X {"empty", "initial", "final", "update"}
Message == Actor \X {"user", "answer", "edit"}

Absent == [absent |-> TRUE]
None == <<>>                   \* the row of a history is never empty
Snapshot(messages) == [saved |-> TRUE, messages |-> messages]
NoSnapshot == [saved |-> FALSE, messages |-> <<>>]
State(checkpoint, parent, run, messages) ==
    [id |-> checkpoint, parent |-> parent, run |-> run, messages |-> messages]
EmptyState(a) == State(<<a, "empty">>, Nothing, Nothing, <<>>)
Row(state, metadata) == [state |-> state, metadata |-> metadata]

New == [pc |-> "new", kind |-> "none", process |-> Nothing,
        thread |-> Absent,       \* what was read of the row
        state |-> Absent,        \* the state being saved
        states |-> None,         \* the history to be written or projected
        phase |-> "initial",     \* of a run: which of its two states comes next
        prior |-> <<>>,          \* the messages a run found when it started
        outcome |-> "success"]

Transaction == {"insertHistory", "commitEnsure", "lockHistory", "writeHistory",
                "commitSave", "deleteHistory", "deleteThread", "commitDelete"}
\* Inside `async with self._lock' of the actor's repository.
Locked == Transaction \cup {"insertThread", "writeMetadata"}

Init ==
    /\ \/ row = Absent /\ history = None
       \/ /\ row = Row(EmptyState(Nothing), {})
          /\ history = <<EmptyState(Nothing)>>
    /\ runs = [r \in Actor |-> "none"]
    /\ snapshots = [r \in Actor |-> NoSnapshot]
    /\ lock = [t \in Table |-> Nothing]
    /\ repo = [p \in Process |-> Nothing]
    /\ actor = [a \in Actor |-> New]
-----------------------------------------------------------------------------
(* Locks.                                                                  *)

RepoFree(a) == repo[actor[a].process] = Nothing
TakeRepo(a) == repo' = [repo EXCEPT ![actor[a].process] = a]
LeaveRepo(a) == repo' = [p \in Process |-> IF repo[p] = a THEN Nothing ELSE repo[p]]

\* A write waits for the transaction that wrote the row before.
Free(a, t) == lock[t] \in {a, Nothing}
Take(a, t) == lock' = [lock EXCEPT ![t] = a]
Release(a) == lock' = [t \in Table |-> IF lock[t] = a THEN Nothing ELSE lock[t]]
Owns(a, t) == lock[t] = a

Become(a, state) == actor' = [actor EXCEPT ![a] = state]
Goto(a, pc) == actor' = [actor EXCEPT ![a].pc = pc]
IsRun(a) == actor[a].kind = "run"
-----------------------------------------------------------------------------
(* A request or a run arrives; _run_start lets one run be active.          *)

Arrive(a, kind, p) ==
    /\ actor[a].pc = "new"
    /\ kind = "run" => \A r \in Actor : IsRun(r) => actor[r].pc = "done"
    /\ Become(a, [New EXCEPT !.kind = kind, !.process = p,
                    !.pc = CASE kind \in {"create", "update"} -> "ensure"
                             [] kind = "run" -> "start"
                             [] kind = "rename" -> "metadata"
                             [] kind = "delete" -> "delete"])
    /\ UNCHANGED <<tables, lock, repo>>

\* save_run: one statement, an upsert.
SaveRun(a, status) ==
    /\ Free(a, "runs")
    /\ runs' = [runs EXCEPT ![a] = status]
    /\ UNCHANGED <<row, history, snapshots, lock, repo>>

StartRun(a) ==
    /\ actor[a].pc = "start"
    /\ SaveRun(a, "running")
    /\ Goto(a, "ensure")
-----------------------------------------------------------------------------
(* ensure_thread: get_thread, or insert the thread if nobody has.          *)

\* The caller goes on with the thread it was given.
Ensured(a, thread) ==
    Become(a, [actor[a] EXCEPT
        !.thread = thread,
        !.prior = IF actor[a].phase = "initial" THEN thread.state.messages ELSE @,
        !.pc = IF actor[a].kind = "create" THEN "done" ELSE "save"])

EnsureThread(a) ==
    /\ actor[a].pc = "ensure" /\ RepoFree(a)
    /\ IF row # Absent
       THEN Ensured(a, row) /\ UNCHANGED repo
       ELSE Goto(a, "insertThread") /\ TakeRepo(a)
    /\ UNCHANGED <<tables, lock>>

\* INSERT ... ON CONFLICT DO NOTHING waits for whoever writes the same key.
InsertThread(a) ==
    /\ actor[a].pc = "insertThread" /\ Free(a, "thread")
    /\ IF row = Absent THEN Take(a, "thread") ELSE UNCHANGED lock
    /\ Goto(a, "insertHistory")
    /\ UNCHANGED <<tables, repo>>

InsertHistory(a) ==
    /\ actor[a].pc = "insertHistory" /\ Free(a, "history")
    /\ IF history = None THEN Take(a, "history") ELSE UNCHANGED lock
    /\ Goto(a, "commitEnsure")
    /\ UNCHANGED <<tables, repo>>

\* Mutant: the conflict clause updates instead of doing nothing.
CommitEnsureOverwrites(a) ==
    /\ actor[a].pc = "commitEnsure"
    /\ row' = Row(EmptyState(a), {})
    /\ history' = <<EmptyState(a)>>
    /\ Ensured(a, Row(EmptyState(a), {}))
    /\ Release(a) /\ LeaveRepo(a)
    /\ UNCHANGED <<runs, snapshots>>

\* It returns the thread it made, also when another one was already there.
CommitEnsure(a) ==
    /\ actor[a].pc = "commitEnsure"
    /\ row' = IF Owns(a, "thread") THEN Row(EmptyState(a), {}) ELSE row
    /\ history' = IF Owns(a, "history") THEN <<EmptyState(a)>> ELSE history
    /\ Ensured(a, Row(EmptyState(a), {}))
    /\ Release(a) /\ LeaveRepo(a)
    /\ UNCHANGED <<runs, snapshots>>
-----------------------------------------------------------------------------
(* save_thread_state, for update_thread_state and for the two states a run *)
(* saves: with the user's message, and with the answer.                    *)

\* merge_values keeps the messages that were read unless the update names its
\* own; a run appends to those it found when it started.
NewStates(a) ==
    LET previous == actor[a].thread.state
        user == <<a, "user">>
        answer == <<a, "answer">>
    IN  IF IsRun(a)
        THEN { State(<<a, actor[a].phase>>, previous.id, a,
                     actor[a].prior \o IF actor[a].phase = "initial"
                                       THEN <<user>> ELSE <<user, answer>>) }
        ELSE { State(<<a, "update">>, previous.id, Nothing, messages) :
                 messages \in {previous.messages, <<<<a, "edit">>>>} }

UpsertThread(a) ==
    /\ actor[a].pc = "save" /\ RepoFree(a) /\ Free(a, "thread")
    /\ TakeRepo(a) /\ Take(a, "thread")
    /\ \E s \in NewStates(a) :
         Become(a, [actor[a] EXCEPT !.state = s, !.pc = "lockHistory"])
    /\ UNCHANGED tables

\* Mutant: the state is appended at the other end.
LockHistoryAppends(a) ==
    /\ actor[a].pc = "lockHistory"
    /\ history = None \/ Free(a, "history")
    /\ IF history = None THEN UNCHANGED lock ELSE Take(a, "history")
    /\ Become(a, [actor[a] EXCEPT !.pc = "writeHistory",
                    !.states = (IF history = None THEN <<>> ELSE history) \o <<actor[a].state>>])
    /\ UNCHANGED <<tables, repo>>

\* SELECT history ... FOR UPDATE: there may be no row to lock.
LockHistory(a) ==
    /\ actor[a].pc = "lockHistory"
    /\ history = None \/ Free(a, "history")
    /\ IF history = None THEN UNCHANGED lock ELSE Take(a, "history")
    /\ Become(a, [actor[a] EXCEPT !.pc = "writeHistory",
                    !.states = <<actor[a].state>> \o IF history = None THEN <<>> ELSE history])
    /\ UNCHANGED <<tables, repo>>

WriteHistory(a) ==
    /\ actor[a].pc = "writeHistory" /\ Free(a, "history")
    /\ Take(a, "history")
    /\ Goto(a, "commitSave")
    /\ UNCHANGED <<tables, repo>>

CommitSave(a) ==
    /\ actor[a].pc = "commitSave"
    /\ row' = Row(actor[a].state, IF row = Absent THEN {} ELSE row.metadata)
    /\ history' = actor[a].states
    /\ Become(a, [actor[a] EXCEPT !.states = None, !.phase = "final",
                    !.pc = CASE ~IsRun(a) -> "done"
                             [] IsRun(a) /\ actor[a].phase = "initial" -> "ensure"
                             [] IsRun(a) /\ actor[a].phase = "final" -> "metadata"])
    /\ Release(a) /\ LeaveRepo(a)
    /\ UNCHANGED <<runs, snapshots>>
-----------------------------------------------------------------------------
(* update_thread_metadata: a rename, and the assistant of a finished run.  *)

AfterMetadata(a) == IF IsRun(a) THEN "getHistory" ELSE "done"

\* Mutant: the metadata is read before the repository's lock is taken.
ReadMetadataUnlocked(a) ==
    /\ actor[a].pc = "metadata"
    /\ Become(a, [actor[a] EXCEPT !.thread = row,
                    !.pc = IF row = Absent THEN AfterMetadata(a) ELSE "writeMetadata"])
    /\ UNCHANGED <<tables, lock, repo>>

ReadMetadata(a) ==
    /\ actor[a].pc = "metadata" /\ RepoFree(a)
    /\ IF row = Absent
       THEN Goto(a, AfterMetadata(a)) /\ UNCHANGED repo
       ELSE Become(a, [actor[a] EXCEPT !.thread = row, !.pc = "writeMetadata"]) /\ TakeRepo(a)
    /\ UNCHANGED <<tables, lock>>

\* The whole merged metadata is written; the WHERE may match no row.
WriteMetadata(a) ==
    /\ actor[a].pc = "writeMetadata" /\ Free(a, "thread")
    /\ row' = IF row = Absent THEN Absent
              ELSE Row(row.state, actor[a].thread.metadata \cup {a})
    /\ Goto(a, AfterMetadata(a))
    /\ LeaveRepo(a)
    /\ UNCHANGED <<history, runs, snapshots, lock>>
-----------------------------------------------------------------------------
(* _persist_run_snapshot and the run's outcome.                            *)

StateOf(states, id) == CHOOSE s \in Range(states) : s.id = id
Known(states, id) == \E s \in Range(states) : s.id = id

\* Mutant: the parent of the newest state of the run counts, whoever wrote it.
PreviousMessageCountOfParent(states, r) ==
    LET own == {k \in DOMAIN states : states[k].run = r}
        latest == states[CHOOSE k \in own : \A j \in own : k <= j]
    IN  IF own = {} \/ ~Known(states, latest.parent) THEN 0
        ELSE Len(StateOf(states, latest.parent).messages)

\* previous_message_count_for_run: how many messages the first ancestor of the
\* run's states has that is not the run's own.
PreviousMessageCount(states, r) ==
    LET own == {k \in DOMAIN states : states[k].run = r}
        first == states[CHOOSE k \in own : \A j \in own : j <= k]   \* newest first
        Back[id \in {s.parent : s \in Range(states)}] ==
            IF id = Nothing THEN Len(first.messages) - 1
            ELSE IF ~Known(states, id) THEN 0
            ELSE IF StateOf(states, id).run # r THEN Len(StateOf(states, id).messages)
            ELSE Back[StateOf(states, id).parent]
    IN  IF own = {} THEN 0 ELSE Back[first.parent]

\* project_run_checkpoints: the messages of the newest state of the run behind
\* those that were there before.
Project(states, r) ==
    LET own == {k \in DOMAIN states : states[k].run = r}
        latest == states[CHOOSE k \in own : \A j \in own : k <= j]
    IN  IF own = {} THEN <<>>
        ELSE SubSeq(latest.messages, PreviousMessageCount(states, r) + 1,
                    Len(latest.messages))

GetHistory(a) ==
    /\ actor[a].pc = "getHistory"
    /\ Become(a, [actor[a] EXCEPT !.pc = "snapshot",
                    !.states = IF Len(history) <= Limit THEN history
                               ELSE SubSeq(history, 1, Limit)])
    /\ UNCHANGED <<tables, lock, repo>>

SaveSnapshot(a) ==
    /\ actor[a].pc = "snapshot" /\ Free(a, "runs")
    /\ snapshots' = [snapshots EXCEPT ![a] = Snapshot(Project(actor[a].states, a))]
    /\ Become(a, [actor[a] EXCEPT !.pc = "outcome", !.states = None])
    /\ UNCHANGED <<row, history, runs, lock, repo>>

SaveOutcome(a) ==
    /\ actor[a].pc = "outcome"
    /\ SaveRun(a, actor[a].outcome)
    /\ Goto(a, "done")
-----------------------------------------------------------------------------
(* delete_thread: first the events, snapshots and runs, last the thread.   *)

DeleteRuns(a) ==
    /\ actor[a].pc = "delete" /\ RepoFree(a) /\ Free(a, "runs")
    /\ TakeRepo(a) /\ Take(a, "runs")
    /\ Goto(a, "deleteHistory")
    /\ UNCHANGED tables

\* A row that another transaction is inserting is not seen, and not waited for.
DeleteHistory(a) ==
    /\ actor[a].pc = "deleteHistory"
    /\ history = None \/ Free(a, "history")
    /\ IF history = None THEN UNCHANGED lock ELSE Take(a, "history")
    /\ Goto(a, "deleteThread")
    /\ UNCHANGED <<tables, repo>>

DeleteThread(a) ==
    /\ actor[a].pc = "deleteThread"
    /\ row = Absent \/ Free(a, "thread")
    /\ IF row = Absent THEN UNCHANGED lock ELSE Take(a, "thread")
    /\ Goto(a, "commitDelete")
    /\ UNCHANGED <<tables, repo>>

CommitDelete(a) ==
    /\ actor[a].pc = "commitDelete"
    /\ runs' = [r \in Actor |-> "none"]
    /\ snapshots' = [r \in Actor |-> NoSnapshot]
    /\ history' = IF Owns(a, "history") THEN None ELSE history
    /\ row' = IF Owns(a, "thread") THEN Absent ELSE row
    /\ Goto(a, "done")
    /\ Release(a) /\ LeaveRepo(a)
-----------------------------------------------------------------------------
(* Failures.                                                               *)

\* The exception ends a request; a run saves what there is, with `error'.
Fail(a) ==
    /\ Become(a, [actor[a] EXCEPT
         !.states = None, !.outcome = "error",
         !.pc = IF IsRun(a) /\ actor[a].outcome # "error" THEN "getHistory" ELSE "done"])
    /\ Release(a) /\ LeaveRepo(a)
    /\ UNCHANGED tables

WaitsFor(a, b) ==
    \E t \in Table :
        /\ lock[t] = b /\ a # b
        /\ \/ t = "thread" /\ actor[a].pc = "deleteThread" /\ row # Absent
           \/ t = "history" /\ actor[a].pc = "lockHistory" /\ history # None
           \/ t = "thread" /\ actor[a].pc = "insertThread"
           \/ t = "history" /\ actor[a].pc \in {"insertHistory", "writeHistory"}

\* PostgreSQL aborts a transaction of a cycle.
DeadlockDetected(a) ==
    /\ \E b \in Actor : WaitsFor(a, b) /\ WaitsFor(b, a)
    /\ Fail(a)

\* The connection is lost: the open transaction is rolled back.
ConnectionLost(a) ==
    /\ "connection" \in Faults
    /\ actor[a].pc \in Locked \ {"writeMetadata"}
    /\ Fail(a)

\* The snapshot is only logged when it cannot be written.
SnapshotFails(a) ==
    /\ "connection" \in Faults
    /\ actor[a].pc = "snapshot"
    /\ Become(a, [actor[a] EXCEPT !.pc = "outcome", !.states = None])
    /\ UNCHANGED <<tables, lock, repo>>
-----------------------------------------------------------------------------
Step(a) ==
    \/ StartRun(a) \/ EnsureThread(a) \/ InsertThread(a) \/ InsertHistory(a)
    \/ CommitEnsure(a) \/ UpsertThread(a) \/ LockHistory(a) \/ WriteHistory(a)
    \/ CommitSave(a) \/ ReadMetadata(a) \/ WriteMetadata(a) \/ GetHistory(a)
    \/ SaveSnapshot(a) \/ SaveOutcome(a) \/ DeleteRuns(a) \/ DeleteHistory(a)
    \/ DeleteThread(a) \/ CommitDelete(a) \/ DeadlockDetected(a)

Next ==
    \E a \in Actor :
        \/ \E kind \in Kinds, p \in Process : Arrive(a, kind, p)
        \/ Step(a)
        \/ ConnectionLost(a) \/ SnapshotFails(a)

Spec == Init /\ [][Next]_vars
-----------------------------------------------------------------------------
\* Deleting a thread does not wait for its runs, and they bring parts of it
\* back: what follows is said of a thread that nobody deletes.
Deleted == \E a \in Actor : actor[a].kind = "delete"

\* The state of the row is the newest of the history, and there is a history
\* exactly if there is a row, whichever of the requests and runs of several
\* processes inserted each of the two rows (ensure_thread, save_thread_state).
HeadIsNewest ==
    ~Deleted =>
        /\ (row = Absent) <=> (history = None)
        /\ row # Absent => row.state = Head(history)

\* A state that was committed stays in the history, behind the newer ones,
\* whatever other transactions were open at the same time, were aborted or
\* lost their connection (SELECT ... FOR UPDATE in save_thread_state).
NoStateLost ==
    [][~Deleted /\ history # history' => Tail(history') = history]_vars

\* The snapshot of a run shows the messages of that run and nothing of the
\* requests and runs that wrote before or in between, and a success shows both
\* (previous_message_count_for_run, project_run_checkpoints).
SnapshotIsOwn ==
    \A r \in Actor :
        ~Deleted /\ snapshots[r].saved /\ Len(history) <= Limit =>
            LET both == <<<<r, "user">>, <<r, "answer">>>>
            IN  /\ IsPrefix(snapshots[r].messages, both)
                /\ runs[r] = "success" => snapshots[r].messages = both

\* What one request or run wrote into the metadata is not undone by another of
\* the same process, also not while states are saved (update_thread_metadata).
MetadataSticks ==
    [][(\E p \in Process : \A a \in Actor :
            actor[a].kind \in {"rename", "run"} => actor[a].process = p)
        /\ row # Absent /\ row' # Absent
       => row.metadata \subseteq row'.metadata]_vars
=============================================================================
