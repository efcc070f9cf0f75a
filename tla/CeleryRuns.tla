----------------------------- MODULE CeleryRuns -----------------------------
(***************************************************************************)
(* The life of the runs of ONE thread when runs execute on Celery workers  *)
(* (STREAM_BACKEND_RUNNER_BACKEND=celery) and the run records live in a    *)
(* shared store.  Three kinds of process touch a run record:               *)
(*                                                                         *)
(*   - API requests (app/service.py, ProtocolService), several replicas of *)
(*     the API server, each with its own per-thread asyncio lock;          *)
(*   - the worker task body (worker/tasks.py, execute_run_direct);         *)
(*   - the agent runner inside that task (app/research_runtime.py).        *)
(*                                                                         *)
(* None of them updates a field of the record: each reads the record or    *)
(* carries a copy of it, and later writes the WHOLE copy back              *)
(* (store_postgres.save_run is an upsert of every column).  Each read,     *)
(* each write, each enqueue is a step of its own here, so a copy may be    *)
(* stale when it is written.                                               *)
(*                                                                         *)
(* A request that creates a run or enqueues a task lends it its identity:  *)
(* new_id() never repeats, and a request creates at most one of each.      *)
(***************************************************************************)
EXTENDS Naturals

CONSTANTS
    Request,         \* API requests of the behaviour, each is served once
    Replica,         \* API server processes
    ReplicaOf,       \* [Request -> Replica]: the process that serves a request
    Worker,          \* execution slots of the Celery workers
    Operations,      \* the operations clients call
    MaxReschedules,  \* STREAM_BACKEND_MAX_RESCHEDULES
    ResultBackend,   \* TRUE iff a Celery result backend is configured
    Faults,          \* what the environment may do to the system
    NoTask           \* metadata without "celery_task_id"

AllOperations == {"start", "stream", "resume", "respond", "cancel"}
AllFaults == {"worker_crash", "api_crash", "shutdown", "enqueue", "abandon",
              "unavailable", "failure", "transient", "store", "backend_down"}

ASSUME ConstantsAssumption ==
    /\ ReplicaOf \in [Request -> Replica]
    /\ Operations \subseteq AllOperations
    /\ MaxReschedules \in Nat
    /\ ResultBackend \in BOOLEAN
    /\ Faults \subseteq AllFaults
    /\ NoTask \notin Request

VARIABLES
    rec,        \* stream_runs: run -> its record
    latest,     \* run -> `next` of the newest root ThreadState of the run
    finals,     \* runs whose history holds a ThreadState with an empty `next`
    announced,  \* runs with a terminal lifecycle event in the event log
    queue,      \* messages on the Celery queue
    ended,      \* task ids whose outcome the result backend has recorded
    req,        \* request -> its local state
    work        \* worker -> its local state

vars == <<rec, latest, finals, announced, queue, ended, req, work>>
-----------------------------------------------------------------------------
Active == {"pending", "running"}
Terminal == {"success", "error", "interrupted"}
RunRecord == [status : Active \cup Terminal \cup {"absent"},
              cancel : BOOLEAN,
              task   : Request \cup {NoTask},
              count  : 0..MaxReschedules]
Absent == [status |-> "absent", cancel |-> FALSE, task |-> NoTask, count |-> 0]

\* What send_task puts on the queue: the record as it was at that moment.
Message == [id : Request, run : Request, action : {"run", "resume"},
            rec : RunRecord, retries : 0..1]
NoMessage == [id |-> NoTask, run |-> NoTask, action |-> "run",
              rec |-> Absent, retries |-> 0]

StartSteps == {"startPending", "create", "offer", "guard", "save", "enqueue"}
ResumeSteps == {"resume", "check", "count", "checkpoint", "complete", "limit",
                "assign", "submit"}
\* `async with self.thread_locks[thread_id]` surrounds these steps.
LockedSteps == {"startPending", "create", "check", "count", "checkpoint",
                "complete", "limit", "assign", "submit", "tell"}
RequestSteps == {"new", "respondPending", "cancel", "tell", "tellCancel", "done"}
                  \cup StartSteps \cup ResumeSteps
RequestState ==
    [pc   : RequestSteps,
     run  : Request \cup {NoTask},
     copy : RunRecord,
     value : BOOLEAN]     \* a resume_value was given (input.respond)
New == [pc |-> "new", run |-> NoTask, copy |-> Absent, value |-> FALSE]

WorkerSteps == {"load", "mark", "close", "begin", "init", "stream",
                "snapshot", "save", "tell"}
WorkerState ==
    [pc     : {"idle"} \cup WorkerSteps,
     msg    : Message \cup {NoMessage},
     seen   : RunRecord,               \* the record update_run_status read
     target : {"running"} \cup Terminal] \* the status to be written next
Idle == [pc |-> "idle", msg |-> NoMessage, seen |-> Absent, target |-> "running"]

TypeOK ==
    /\ rec \in [Request -> RunRecord]
    /\ latest \in [Request -> {"none", "agent", "empty"}]
    /\ finals \subseteq Request
    /\ announced \subseteq Request
    /\ queue \subseteq Message
    /\ ended \subseteq Request
    /\ req \in [Request -> RequestState]
    /\ work \in [Worker -> WorkerState]

Init ==
    /\ rec = [r \in Request |-> Absent]
    /\ latest = [r \in Request |-> "none"]
    /\ finals = {}
    /\ announced = {}
    /\ queue = {}
    /\ ended = {}
    /\ req = [q \in Request |-> New]
    /\ work = [w \in Worker |-> Idle]
-----------------------------------------------------------------------------
WithStatus(status) == {r \in Request : rec[r].status = status}

\* The asyncio lock of the thread in the process that serves q.
LockFree(q) ==
    \A p \in Request : ReplicaOf[p] = ReplicaOf[q] => req[p].pc \notin LockedSteps

\* worker/client.py, is_task_active.  With a result backend a task is active
\* until its outcome is recorded (an unknown or lost task stays PENDING or
\* STARTED), and a failing backend reads as inactive.  Without one the workers
\* are asked: no answer counts as active, and a task that no answering worker
\* holds counts as inactive, whether it ended, was lost or is still queued.
TaskActiveAnswers(t) ==
    IF ResultBackend
    THEN {t \notin ended} \cup (IF "backend_down" \in Faults THEN {FALSE} ELSE {})
    ELSE {TRUE} \cup {FALSE : w \in {v \in Worker : work[v].msg.id # t}}

Become(q, state) == req' = [req EXCEPT ![q] = state]
Goto(q, pc) == Become(q, [req[q] EXCEPT !.pc = pc])
Advance(q, pc, copy) == Become(q, [req[q] EXCEPT !.pc = pc, !.copy = copy])
Return(q) == Become(q, [New EXCEPT !.pc = "done"])
Save(r, record) == rec' = [rec EXCEPT ![r] = record]
-----------------------------------------------------------------------------
(* run.start: _run_start, then start_run_task.                             *)

\* The lock is taken and list_runs(status="running") read.
StartRunning(q) ==
    /\ {"start", "stream"} \cap Operations # {}
    /\ req[q].pc = "new"
    /\ LockFree(q)
    /\ IF WithStatus("running") # {} THEN Return(q) ELSE Goto(q, "startPending")
    /\ UNCHANGED <<rec, latest, finals, announced, queue, ended, work>>

\* list_runs(status="pending").
StartPending(q) ==
    /\ req[q].pc = "startPending"
    /\ IF WithStatus("pending") # {} THEN Return(q) ELSE Goto(q, "create")
    /\ UNCHANGED <<rec, latest, finals, announced, queue, ended, work>>

\* create_run; the lock is released.  "start" schedules the run at once,
\* "stream" (POST /runs/stream) when its response generator is first polled.
StartCreate(q) ==
    /\ req[q].pc = "create"
    /\ LET run == [Absent EXCEPT !.status = "pending"] IN
       /\ Save(q, run)
       /\ \E pc \in {p \in {"guard", "offer"} :
                       \/ p = "guard" /\ "start" \in Operations
                       \/ p = "offer" /\ "stream" \in Operations} :
            Become(q, [req[q] EXCEPT !.pc = pc, !.run = q, !.copy = run])
    /\ UNCHANGED <<latest, finals, announced, queue, ended, work>>

\* stream_stateful_run: the generator reads the run again before starting it.
StreamBegin(q) ==
    /\ req[q].pc = "offer"
    /\ Advance(q, "guard", rec[req[q].run])
    /\ UNCHANGED <<rec, latest, finals, announced, queue, ended, work>>

\* The event broker is unavailable, or the client is gone before the generator
\* is polled: the run was created and is never scheduled.
StreamAbandon(q) ==
    /\ "abandon" \in Faults
    /\ req[q].pc = "offer"
    /\ Return(q)
    /\ UNCHANGED <<rec, latest, finals, announced, queue, ended, work>>

\* Mutant of StartGuard: the worker's copy lacks the task id.
StartGuardNoTask(q) ==
    /\ req[q].pc = "guard"
    /\ IF rec[req[q].run].status \in Terminal THEN Return(q) ELSE Goto(q, "save")
    /\ UNCHANGED <<rec, latest, finals, announced, queue, ended, work>>

\* The id of the task to be enqueued is put on the request's copy.
Claim(q) == Advance(q, "save", [req[q].copy EXCEPT !.task = q])

\* _schedule_block_reason, outside the lock.
StartGuard(q) ==
    /\ req[q].pc = "guard"
    /\ LET stored == rec[req[q].run] IN
       \/ /\ stored.status \in Terminal
          /\ Return(q)
       \/ /\ stored.status \notin Terminal
          /\ stored.task = NoTask
          /\ Claim(q)
       \/ /\ stored.status \notin Terminal
          /\ stored.task # NoTask
          /\ \E active \in TaskActiveAnswers(stored.task) :
               IF active THEN Return(q)
               ELSE Claim(q)
    /\ UNCHANGED <<rec, latest, finals, announced, queue, ended, work>>

\* save_run(run) with the new task id, then enqueue_run.
StartSave(q) ==
    /\ req[q].pc = "save"
    /\ Save(req[q].run, req[q].copy)
    /\ Goto(q, "enqueue")
    /\ UNCHANGED <<latest, finals, announced, queue, ended, work>>

Send(q, action) ==
    /\ queue' = queue \cup
         {[id |-> q, run |-> req[q].run, action |-> action,
           rec |-> req[q].copy, retries |-> 0]}
    /\ Return(q)

StartEnqueue(q) ==
    /\ req[q].pc = "enqueue"
    /\ Send(q, "run")
    /\ UNCHANGED <<rec, latest, finals, announced, ended, work>>

\* send_task raises (broker unreachable): the exception is re-raised and the
\* record keeps the id of a task that does not exist.
EnqueueFails(q) ==
    /\ "enqueue" \in Faults
    /\ req[q].pc \in {"enqueue", "submit"}
    /\ Return(q)
    /\ UNCHANGED <<rec, latest, finals, announced, queue, ended, work>>
-----------------------------------------------------------------------------
(* resume_run (POST .../resume, GET .../stream) and _input_respond.        *)

ResumeArrives(q, r) ==
    /\ "resume" \in Operations
    /\ req[q].pc = "new"
    /\ rec[r].status # "absent"
    /\ Become(q, [req[q] EXCEPT !.pc = "resume", !.run = r])
    /\ UNCHANGED <<rec, latest, finals, announced, queue, ended, work>>

\* The two list_runs reads of _input_respond; a run whose cancel was requested
\* does not wait for input.
RespondTo(q, candidates) ==
    \E r \in candidates :
      IF rec[r].cancel THEN Return(q)
      ELSE \E given \in BOOLEAN :
             Become(q, [req[q] EXCEPT !.pc = "resume", !.run = r, !.value = given])

RespondRunning(q) ==
    /\ "respond" \in Operations
    /\ req[q].pc = "new"
    /\ IF WithStatus("running") # {} THEN RespondTo(q, WithStatus("running"))
       ELSE Goto(q, "respondPending")
    /\ UNCHANGED <<rec, latest, finals, announced, queue, ended, work>>

RespondPending(q) ==
    /\ req[q].pc = "respondPending"
    /\ IF WithStatus("pending") # {} THEN RespondTo(q, WithStatus("pending"))
       ELSE Return(q)
    /\ UNCHANGED <<rec, latest, finals, announced, queue, ended, work>>

\* The lock is taken and the run read.
ResumeRead(q) ==
    /\ req[q].pc = "resume"
    /\ LockFree(q)
    /\ LET stored == rec[req[q].run] IN
       IF stored.status \notin Active THEN Return(q)
       ELSE LET probe == stored.task # NoTask /\ ~req[q].value IN
            Advance(q, IF probe THEN "check" ELSE "checkpoint", stored)
    /\ UNCHANGED <<rec, latest, finals, announced, queue, ended, work>>

\* The liveness probe of the task and the reschedule limit.
ResumeCheck(q) ==
    /\ req[q].pc = "check"
    /\ \E active \in TaskActiveAnswers(req[q].copy.task) :
         \/ active /\ Return(q)
         \/ /\ ~active
            /\ req[q].copy.count >= MaxReschedules
            /\ Advance(q, "limit", [req[q].copy EXCEPT !.status = "error"])
         \/ /\ ~active
            /\ req[q].copy.count < MaxReschedules
            /\ Advance(q, "count", [req[q].copy EXCEPT !.count = @ + 1])
    /\ UNCHANGED <<rec, latest, finals, announced, queue, ended, work>>

\* save_run with the incremented reschedule_count.
ResumeCount(q) ==
    /\ req[q].pc = "count"
    /\ Save(req[q].run, req[q].copy)
    /\ Goto(q, "checkpoint")
    /\ UNCHANGED <<latest, finals, announced, queue, ended, work>>

\* Mutant of ResumeCheckpoint: a run without any state counts as finished.
ResumeCheckpointNoState(q) ==
    /\ req[q].pc = "checkpoint"
    /\ IF latest[req[q].run] # "agent"
       THEN Advance(q, "complete", [req[q].copy EXCEPT !.status = "success"])
       ELSE Advance(q, "assign", [req[q].copy EXCEPT !.task = q])
    /\ UNCHANGED <<rec, latest, finals, announced, queue, ended, work>>

\* _latest_run_state: an empty `next` means the graph finished.
ResumeCheckpoint(q) ==
    /\ req[q].pc = "checkpoint"
    /\ IF latest[req[q].run] = "empty"
       THEN Advance(q, "complete", [req[q].copy EXCEPT !.status = "success"])
       ELSE Advance(q, "assign", [req[q].copy EXCEPT !.task = q])
    /\ UNCHANGED <<rec, latest, finals, announced, queue, ended, work>>

\* save_run before the terminal event (limit, complete) or before the enqueue.
ResumeSave(q) ==
    /\ req[q].pc \in {"limit", "complete", "assign"}
    /\ Save(req[q].run, req[q].copy)
    /\ IF req[q].pc = "assign" THEN Goto(q, "submit")
       ELSE Advance(q, "tell", Absent)
    /\ UNCHANGED <<latest, finals, announced, queue, ended, work>>

\* Mutant of ResumeSubmit: the task id is saved and nothing is enqueued.
ResumeSubmitLost(q) ==
    /\ req[q].pc = "submit"
    /\ Return(q)
    /\ UNCHANGED <<rec, latest, finals, announced, queue, ended, work>>

ResumeSubmit(q) ==
    /\ req[q].pc = "submit"
    /\ Send(q, "resume")
    /\ UNCHANGED <<rec, latest, finals, announced, ended, work>>
-----------------------------------------------------------------------------
(* cancel_run: no lock, no test of the status, and the call that would     *)
(* revoke the task is commented out.                                       *)

CancelRead(q, r) ==
    /\ "cancel" \in Operations
    /\ req[q].pc = "new"
    /\ rec[r].status # "absent"
    /\ LET copy == [rec[r] EXCEPT !.cancel = TRUE, !.status = "interrupted"] IN
       Become(q, [req[q] EXCEPT !.pc = "cancel", !.run = r, !.copy = copy])
    /\ UNCHANGED <<rec, latest, finals, announced, queue, ended, work>>

CancelSave(q) ==
    /\ req[q].pc = "cancel"
    /\ Save(req[q].run, req[q].copy)
    /\ Advance(q, "tellCancel", Absent)
    /\ UNCHANGED <<latest, finals, announced, queue, ended, work>>

\* append_event(lifecycle, completed | failed | interrupted) of a request.
Tell(q) ==
    /\ req[q].pc \in {"tell", "tellCancel"}
    /\ announced' = announced \cup {req[q].run}
    /\ Return(q)
    /\ UNCHANGED <<rec, latest, finals, queue, ended, work>>

\* An API server dies with every request it is serving.
ApiCrash(p) ==
    /\ "api_crash" \in Faults
    /\ \E q \in Request : ReplicaOf[q] = p /\ req[q].pc \notin {"new", "done"}
    /\ req' = [q \in Request |->
                 IF ReplicaOf[q] = p /\ req[q].pc # "new"
                 THEN [New EXCEPT !.pc = "done"] ELSE req[q]]
    /\ UNCHANGED <<rec, latest, finals, announced, queue, ended, work>>
-----------------------------------------------------------------------------
(* execute_run_direct and the Celery task around it.                       *)

Run(w) == work[w].msg.run
WBecome(w, state) == work' = [work EXCEPT ![w] = state]
WGoto(w, pc) == WBecome(w, [work[w] EXCEPT !.pc = pc])
WAdvance(w, pc, status) ==
    WBecome(w, [work[w] EXCEPT !.pc = pc, !.seen = Absent, !.target = status])
\* update_run_status(status): get_run, save_run, and for a terminal status an
\* event named like the status.
Update(w, status) == WAdvance(w, "load", status)
\* The slot is free again; a configured result backend learns the outcome.
EndTask(w) ==
    /\ ended' = IF ResultBackend THEN ended \cup {work[w].msg.id} ELSE ended
    /\ WBecome(w, Idle)

\* The message is acknowledged when it is delivered.  Only the cancel flag of
\* the enqueued copy is looked at, never the stored record.
Take(w, m) ==
    /\ work[w].pc = "idle"
    /\ queue' = queue \ {m}
    /\ IF m.rec.cancel
       THEN /\ ended' = IF ResultBackend THEN ended \cup {m.id} ELSE ended
            /\ UNCHANGED work
       ELSE /\ \E status \in {"running"} \cup
                  (IF "shutdown" \in Faults THEN {"interrupted"} ELSE {}) :
                 WBecome(w, [pc |-> "load", msg |-> m,
                             seen |-> Absent, target |-> status])
            /\ UNCHANGED ended
    /\ UNCHANGED <<rec, latest, finals, announced, req>>

UpdateRead(w) ==
    /\ work[w].pc = "load"
    /\ WBecome(w, [work[w] EXCEPT !.pc = "mark", !.seen = rec[Run(w)]])
    /\ UNCHANGED <<rec, latest, finals, announced, queue, ended, req>>

UpdateSave(w) ==
    /\ work[w].pc = "mark"
    /\ Save(Run(w), [work[w].seen EXCEPT !.status = work[w].target])
    /\ WAdvance(w, IF work[w].target = "running" THEN "begin" ELSE "close",
                work[w].target)
    /\ UNCHANGED <<latest, finals, announced, queue, ended, req>>

\* Mutant of Close: autoretry without max_retries.
CloseRetriesForever(w) ==
    /\ work[w].pc = "close"
    /\ announced' = IF work[w].target = "interrupted" THEN announced \cup {Run(w)}
                    ELSE announced
    /\ \/ EndTask(w) /\ UNCHANGED queue
       \/ /\ "transient" \in Faults
          /\ work[w].target = "error"
          /\ queue' = queue \cup {[work[w].msg EXCEPT !.retries = @ + 1]}
          /\ WBecome(w, Idle)
          /\ UNCHANGED ended
    /\ UNCHANGED <<rec, latest, finals, req>>

\* The task returns, or its exception reaches Celery: a deterministic error and
\* a cancellation are swallowed, any other is retried once with the arguments
\* the task was first enqueued with.  Of the event names success, error and
\* interrupted only the last is one a stream takes for terminal.
Close(w) ==
    /\ work[w].pc = "close"
    /\ announced' = IF work[w].target = "interrupted" THEN announced \cup {Run(w)}
                    ELSE announced
    /\ \/ EndTask(w) /\ UNCHANGED queue
       \/ /\ "transient" \in Faults
          /\ work[w].target = "error"
          /\ work[w].msg.retries = 0
          /\ queue' = queue \cup {[work[w].msg EXCEPT !.retries = @ + 1]}
          /\ WBecome(w, Idle)
          /\ UNCHANGED ended
    /\ UNCHANGED <<rec, latest, finals, req>>

\* A worker process dies: the message is already acknowledged and is lost.
WorkerCrash(w) ==
    /\ "worker_crash" \in Faults
    /\ work[w].pc # "idle"
    /\ WBecome(w, Idle)
    /\ UNCHANGED <<rec, latest, finals, announced, queue, ended, req>>
-----------------------------------------------------------------------------
(* ResearchDeepAgentRunner.run and .resume.  The runner writes the copy    *)
(* that came with the message, with the status it sets.                    *)

RunnerCopy(w, status) == [work[w].msg.rec EXCEPT !.status = status]

Begin(w) ==
    /\ work[w].pc = "begin"
    /\ Save(Run(w), RunnerCopy(w, "running"))
    /\ WGoto(w, IF work[w].msg.action = "run" THEN "init" ELSE "stream")
    /\ UNCHANGED <<latest, finals, announced, queue, ended, req>>

\* The checkpointer or the agent cannot be built: resume finds out before it
\* writes anything, run after its first state, and neither reports a failure.
Unavailable(w) ==
    /\ "unavailable" \in Faults
    /\ \/ work[w].pc = "begin" /\ work[w].msg.action = "resume" /\ UNCHANGED latest
       \/ /\ work[w].pc = "init"
          /\ latest' = [latest EXCEPT ![Run(w)] = "agent"]
    /\ Update(w, "error")
    /\ UNCHANGED <<rec, finals, announced, queue, ended, req>>

\* save_thread_state(next=["agent"]).
SaveInitialState(w) ==
    /\ work[w].pc = "init"
    /\ latest' = [latest EXCEPT ![Run(w)] = "agent"]
    /\ WGoto(w, "stream")
    /\ UNCHANGED <<rec, finals, announced, queue, ended, req>>

\* The throttled poll of the stored cancel flag, inside the streaming loop.
ObserveCancel(w) ==
    /\ work[w].pc = "stream"
    /\ rec[Run(w)].cancel
    /\ WAdvance(w, "snapshot", "interrupted")
    /\ UNCHANGED <<rec, latest, finals, announced, queue, ended, req>>

\* The agent's event stream ends; the flag is not read once more.
StreamEnds(w) ==
    /\ work[w].pc = "stream"
    /\ WAdvance(w, "snapshot", "success")
    /\ UNCHANGED <<rec, latest, finals, announced, queue, ended, req>>

\* An exception inside the runner's `try`, the final snapshot included.
StreamFails(w) ==
    /\ "failure" \in Faults
    /\ work[w].pc \in {"stream", "snapshot"}
    /\ WAdvance(w, "save", "error")
    /\ UNCHANGED <<rec, latest, finals, announced, queue, ended, req>>

\* The store refuses the outcome or its event (append_event gives up under
\* contention): even a success or a cancellation that is already saved is then
\* overwritten, and a failure is left to execute_run_direct.
StoreFails(w) ==
    /\ "store" \in Faults
    /\ work[w].pc \in {"save", "tell"}
    /\ IF work[w].target = "error" THEN Update(w, "error")
       ELSE WAdvance(w, "save", "error")
    /\ UNCHANGED <<rec, latest, finals, announced, queue, ended, req>>

\* The worker shuts down and cancels its asyncio tasks at whatever they await.
\* The runner does not catch CancelledError, execute_run_direct marks the run;
\* cancelled while it marks a failure, it ends without the mark.
ShutDown(w) ==
    /\ "shutdown" \in Faults
    /\ \/ /\ \/ work[w].pc \in {"begin", "init", "stream", "snapshot", "save", "tell"}
             \/ work[w].pc \in {"load", "mark", "close"} /\ work[w].target = "success"
          /\ Update(w, "interrupted")
          /\ UNCHANGED ended
       \/ /\ work[w].pc \in {"load", "mark"}
          /\ work[w].target = "error"
          /\ EndTask(w)
    /\ UNCHANGED <<rec, latest, finals, announced, queue, req>>

\* Mutant of SaveFinalSnapshot: the end is told before the record shows it.
SaveFinalSnapshotTells(w) ==
    /\ work[w].pc = "snapshot"
    /\ latest' = [latest EXCEPT ![Run(w)] = "empty"]
    /\ finals' = finals \cup {Run(w)}
    /\ announced' = announced \cup {Run(w)}
    /\ WGoto(w, "save")
    /\ UNCHANGED <<rec, queue, ended, req>>

\* _save_final_snapshot: a ThreadState with an empty `next`.
SaveFinalSnapshot(w) ==
    /\ work[w].pc = "snapshot"
    /\ latest' = [latest EXCEPT ![Run(w)] = "empty"]
    /\ finals' = finals \cup {Run(w)}
    /\ WGoto(w, "save")
    /\ UNCHANGED <<rec, announced, queue, ended, req>>

SaveOutcome(w) ==
    /\ work[w].pc = "save"
    /\ Save(Run(w), RunnerCopy(w, work[w].target))
    /\ WGoto(w, "tell")
    /\ UNCHANGED <<latest, finals, announced, queue, ended, req>>

\* Mutant of TellOutcome: a failure is re-raised without its `failed` event.
TellOutcomeNotFailures(w) ==
    /\ work[w].pc = "tell"
    /\ announced' = IF work[w].target = "error" THEN announced
                    ELSE announced \cup {Run(w)}
    /\ IF work[w].target = "interrupted" THEN EndTask(w)
       ELSE Update(w, work[w].target) /\ UNCHANGED ended
    /\ UNCHANGED <<rec, latest, finals, queue, req>>

\* append_event(lifecycle, completed | failed | interrupted); then the worker
\* repeats the status, except after RunCancelled, which ends the task.
TellOutcome(w) ==
    /\ work[w].pc = "tell"
    /\ announced' = announced \cup {Run(w)}
    /\ IF work[w].target = "interrupted" THEN EndTask(w)
       ELSE Update(w, work[w].target) /\ UNCHANGED ended
    /\ UNCHANGED <<rec, latest, finals, queue, req>>
-----------------------------------------------------------------------------
\* A request that was accepted runs on by itself.
RequestStep(q) ==
    \/ StartPending(q) \/ StartCreate(q) \/ StreamBegin(q) \/ StartGuard(q)
    \/ StartSave(q) \/ StartEnqueue(q)
    \/ RespondPending(q) \/ ResumeRead(q) \/ ResumeCheck(q) \/ ResumeCount(q)
    \/ ResumeCheckpoint(q) \/ ResumeSave(q) \/ ResumeSubmit(q)
    \/ CancelSave(q) \/ Tell(q)

RequestArrives(q) ==
    \/ StartRunning(q)
    \/ RespondRunning(q)
    \/ \E r \in Request : ResumeArrives(q, r) \/ CancelRead(q, r)

WorkerStep(w) ==
    \/ \E m \in queue : Take(w, m)
    \/ UpdateRead(w) \/ UpdateSave(w) \/ Close(w)
    \/ Begin(w) \/ SaveInitialState(w)
    \/ ObserveCancel(w) \/ StreamEnds(w)
    \/ SaveFinalSnapshot(w) \/ SaveOutcome(w) \/ TellOutcome(w)

Fault ==
    \/ \E q \in Request : StreamAbandon(q) \/ EnqueueFails(q)
    \/ \E p \in Replica : ApiCrash(p)
    \/ \E w \in Worker : \/ WorkerCrash(w) \/ Unavailable(w)
                          \/ StreamFails(w) \/ StoreFails(w) \/ ShutDown(w)

Next ==
    \/ \E q \in Request : RequestArrives(q) \/ RequestStep(q)
    \/ \E w \in Worker : WorkerStep(w)
    \/ Fault

Spec == Init /\ [][Next]_vars

\* Once accepted a request is served, and an idle worker takes what is queued:
\* nothing obliges a client to call, nor a fault to happen.
FairSpec ==
    /\ Spec
    /\ \A q \in Request : WF_vars(RequestStep(q))
    /\ \A w \in Worker : WF_vars(WorkerStep(w))
-----------------------------------------------------------------------------
(* What holds.                                                             *)

\* A run reported as a success has a ThreadState with an empty `next` in its
\* history, whoever reported it (the runner, the worker's second mark, or a
\* resume that trusted the checkpoint), whatever crashed, was cancelled or was
\* overwritten on the way: research_runtime.py saves the snapshot first, and
\* service.py:474 infers success only from it.
SuccessHasFinalState ==
    \A r \in Request : rec[r].status = "success" => r \in finals

\* A running record names a task, so is_run_streaming and the liveness checks
\* can tell whether the run is alive: the id is persisted before the enqueue so
\* that the worker's copy carries it (the comments at service.py:203 and :489).
\* This takes one API replica and no cancellation: either lets a copy read
\* before the id was saved be written after it.  It also takes a store that does
\* not refuse an outcome, or Celery without a retry: a resume may leave the
\* record of a run under way unnamed until its task writes the outcome, and a
\* retry instead of the outcome marks that record running again.
RunningNamesTask ==
    \A r \in Request : rec[r].status = "running" => rec[r].task # NoTask

\* Nothing that a single client sees of its runs departs from RunContract, as
\* long as runs are only started: workers and servers may crash, enqueues and
\* runs may fail, and stale copies are still written.
Contract == INSTANCE RunContract WITH
    RunId <- Request,
    status <- [r \in Request |-> rec[r].status]
ContractSpec == Contract!Spec

\* A created run ends, although requests resume it, reschedule it, give it up
\* and mark it complete while workers execute it, perhaps twice.
EveryRunEnds ==
    \A r \in Request : rec[r].status \in Active ~> rec[r].status \in Terminal

\* Whoever follows the event log learns that a run ended: service.py and the
\* runner append a terminal lifecycle event after they save the outcome.
EndsAreAnnounced ==
    \A r \in Request : rec[r].status \in Terminal ~> r \in announced
=============================================================================
