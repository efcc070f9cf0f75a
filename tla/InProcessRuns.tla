---------------------------- MODULE InProcessRuns ----------------------------
(***************************************************************************)
(* The life of the runs of ONE thread when they execute as asyncio tasks   *)
(* of the API process (STREAM_BACKEND_RUNNER_BACKEND=asyncio, the          *)
(* default): ProtocolService (app/service.py) with its table run_tasks,    *)
(* the fixture runner (app/deep_agent.py), the research runner             *)
(* (app/research_runtime.py) and the fallback from one to the other        *)
(* (AutoResearchRunner).                                                   *)
(*                                                                         *)
(* Everything happens in one event loop, so what may be interleaved        *)
(* depends on the store.  An operation of the InMemoryRepository           *)
(* (app/store.py) never suspends: its lock is never contended.  A          *)
(* coroutine then keeps the loop (`holder') until it sleeps, waits for the *)
(* agent or ends.  An operation of PostgresRepository suspends its caller. *)
(* Both stores are checked; the store and the agent mode are chosen when   *)
(* the process starts.                                                     *)
(*                                                                         *)
(* A start request lends its identity to the run it creates, a start or    *)
(* resume request to the task it creates.                                  *)
(***************************************************************************)
EXTENDS Naturals, FiniteSets, Sequences, SequencesExt

CONSTANTS
    Request,     \* API requests of the behaviour, each is served once
    Operations,  \* the operations clients call
    Stores,      \* the values of STREAM_BACKEND_STORE considered
    Modes,       \* the values of STREAM_BACKEND_AGENT_MODE considered
    Faults,      \* what the environment may do to the system
    Nothing      \* no task, no run, no coroutine

AllOperations == {"start", "stream", "resume", "respond", "cancel"}
AllFaults == {"abandon", "unavailable", "broken", "failure", "store"}

ASSUME ConstantsAssumption ==
    /\ Operations \subseteq AllOperations
    /\ Stores \subseteq {"memory", "postgres"}
    /\ Modes \subseteq {"fixture", "research", "auto"}
    /\ Faults \subseteq AllFaults
    /\ Nothing \notin Request \cup ({"request", "task"} \X Request)

VARIABLES
    store,      \* the repository of the process
    mode,       \* the agent mode of the process
    holder,     \* the coroutine that has not suspended since its last step
    rec,        \* run -> its record
    next,       \* run -> `next` of the newest root ThreadState of the run
    answered,   \* runs whose history holds their final ThreadState
    snapshots,  \* runs with a row of run snapshots
    log,        \* run -> its events, in the order of the event log
    attached,   \* run_tasks: run -> task
    req,        \* request -> its local state
    task        \* task -> its local state, children included

settings == <<store, mode>>
data == <<rec, next, answered, snapshots, log>>
vars == <<settings, holder, data, attached, req, task>>
-----------------------------------------------------------------------------
Active == {"pending", "running"}
Terminal == {"success", "error", "interrupted"}
RunRecord == [status : Active \cup Terminal \cup {"absent"}, cancel : BOOLEAN]
Absent == [status |-> "absent", cancel |-> FALSE]

Ends == {"completed", "failed", "interrupted"}
Event == {"running", "step", "subagent completed"} \cup Ends

\* `async with self.thread_locks[thread_id]` surrounds these steps.
LockedSteps == {"startPending", "create", "check", "history", "complete",
                "recover", "attach", "tell"}
RequestState ==
    [pc    : {"new", "offer", "guard", "spawn", "respondPending", "resume",
              "detach", "cancel", "tellCancel", "gone", "done"} \cup LockedSteps,
     run   : Request \cup {Nothing},
     copy  : RunRecord]
New == [pc |-> "new", run |-> Nothing, copy |-> Absent]

Subagent == {"researcher", "analyst"}
Finished == {"finished", "done"}
TaskState ==
    [pc      : {"none", "created", "prepare", "mark", "announce", "initial", "agent", "stream",
                "plan", "script", "gather", "final", "results", "snapshot",
                "save", "tell"} \cup Finished,
     run     : Request \cup {Nothing},
     runner  : {"fixture", "research"},
     action  : {"run", "resume"},
     copy    : RunRecord,                       \* the RunRecord object it was given
     target  : Terminal,                        \* the outcome to be recorded
     cancelled : BOOLEAN,                       \* task.cancel() was called
     child   : [Subagent -> {"none", "ready", "closing", "done", "failed"}]]
NoChildren == [s \in Subagent |-> "none"]
NoTask == [pc |-> "none", run |-> Nothing, runner |-> "fixture", action |-> "run",
           copy |-> Absent, target |-> "success", cancelled |-> FALSE,
           child |-> NoChildren]

TypeOK ==
    /\ store \in Stores
    /\ mode \in Modes
    /\ holder \in {Nothing} \cup ({"request", "task"} \X Request)
    /\ rec \in [Request -> RunRecord]
    /\ next \in [Request -> {"none", "agent", "empty"}]
    /\ answered \subseteq Request
    /\ snapshots \subseteq Request
    /\ \A r \in Request : Range(log[r]) \subseteq Event
    /\ attached \in [Request -> Request \cup {Nothing}]
    /\ req \in [Request -> RequestState]
    /\ task \in [Request -> TaskState]

Init ==
    /\ store \in Stores
    /\ mode \in Modes
    /\ holder = Nothing
    /\ rec = [r \in Request |-> Absent]
    /\ next = [r \in Request |-> "none"]
    /\ answered = {}
    /\ snapshots = {}
    /\ log = [r \in Request |-> <<>>]
    /\ attached = [r \in Request |-> Nothing]
    /\ req = [q \in Request |-> New]
    /\ task = [t \in Request |-> NoTask]
-----------------------------------------------------------------------------
(* The event loop and the repository.                                      *)

LiveTask(t) == task[t].pc \notin {"none"} \cup Finished
Attached(r) == attached[r] # Nothing /\ LiveTask(attached[r])

\* Coroutine c may run, and after this step it suspends (`waits'), or the
\* loop stays with it because the repository answered at once.
Runs(c) == holder \in {Nothing, c}
Suspends == holder' = Nothing
Continues(c) == holder' = IF store = "memory" THEN c ELSE Nothing

Save(r, record) == rec' = [rec EXCEPT ![r] = record]
Emit(r, event) == log' = [log EXCEPT ![r] = Append(@, event)]
WithStatus(status) == {r \in Request : rec[r].status = status}
LockFree == \A q \in Request : req[q].pc \notin LockedSteps

BecomeReq(q, state) == req' = [req EXCEPT ![q] = state]
Goto(q, pc) == BecomeReq(q, [req[q] EXCEPT !.pc = pc])
Return(q) == BecomeReq(q, [New EXCEPT !.pc = "done"])

Spawn(q, r, action, copy) ==
    /\ task' = [task EXCEPT ![q] =
                  [NoTask EXCEPT !.run = r, !.action = action, !.copy = copy,
                                 !.runner = IF mode = "fixture" THEN "fixture" ELSE "research",
                                 !.pc = "created"]]
    /\ attached' = [attached EXCEPT ![r] = q]
-----------------------------------------------------------------------------
(* run.start: _run_start, then start_run_task.                             *)

StartRunning(q) ==
    /\ Operations \cap {"start", "stream"} # {}
    /\ req[q].pc = "new" /\ LockFree
    /\ IF WithStatus("running") # {}
       THEN Return(q) /\ Suspends
       ELSE Goto(q, "startPending") /\ Continues(<<"request", q>>)
    /\ UNCHANGED <<data, attached, task>>

\* Mutant: a start looks only for running runs.
StartPendingIgnored(q) ==
    /\ req[q].pc = "startPending"
    /\ Goto(q, "create") /\ Continues(<<"request", q>>)
    /\ UNCHANGED <<data, attached, task>>

StartPending(q) ==
    /\ req[q].pc = "startPending"
    /\ IF WithStatus("pending") # {}
       THEN Return(q) /\ Suspends
       ELSE Goto(q, "create") /\ Continues(<<"request", q>>)
    /\ UNCHANGED <<data, attached, task>>

\* create_run; a streaming start is scheduled later, by its response.
StartCreate(q) ==
    /\ req[q].pc = "create"
    /\ Save(q, [Absent EXCEPT !.status = "pending"])
    /\ \/ /\ "start" \in Operations
          /\ BecomeReq(q, [req[q] EXCEPT !.pc = "guard", !.run = q, !.copy = rec'[q]])
          /\ Continues(<<"request", q>>)
       \/ /\ "stream" \in Operations
          /\ BecomeReq(q, [req[q] EXCEPT !.pc = "offer", !.run = q])
          /\ Suspends
    /\ UNCHANGED <<next, answered, snapshots, log, attached, task>>

\* The generator of POST /runs/stream has subscribed and reads the run.
StreamBegin(q) ==
    /\ req[q].pc = "offer"
    /\ BecomeReq(q, [req[q] EXCEPT !.pc = "guard", !.copy = rec[q]])
    /\ Continues(<<"request", q>>)
    /\ UNCHANGED <<data, attached, task>>

StreamAbandon(q) ==
    /\ "abandon" \in Faults
    /\ req[q].pc = "offer"
    /\ Goto(q, "gone")
    /\ Suspends
    /\ UNCHANGED <<data, attached, task>>

\* Mutant: a run that ended is scheduled all the same.
StartGuardNone(q) ==
    /\ req[q].pc = "guard"
    /\ Goto(q, "spawn") /\ Continues(<<"request", q>>)
    /\ UNCHANGED <<data, attached, task>>

\* _schedule_block_reason reads the record ...
StartGuard(q) ==
    /\ req[q].pc = "guard"
    /\ IF rec[req[q].run].status \in Terminal
       THEN Return(q) /\ Suspends
       ELSE Goto(q, "spawn") /\ Continues(<<"request", q>>)
    /\ UNCHANGED <<data, attached, task>>

\* Mutant: start_run_task creates its task without looking at run_tasks.
StartSpawnAlways(q) ==
    /\ req[q].pc = "spawn"
    /\ Return(q)
    /\ Suspends
    /\ Spawn(q, req[q].run, "run", req[q].copy)
    /\ UNCHANGED data

\* ... and from here to create_task there is no await.
StartSpawn(q) ==
    /\ req[q].pc = "spawn"
    /\ Return(q)
    /\ Suspends
    /\ IF Attached(req[q].run)
       THEN UNCHANGED <<attached, task>>
       ELSE Spawn(q, req[q].run, "run", req[q].copy)
    /\ UNCHANGED data
-----------------------------------------------------------------------------
(* resume: resume_run and _input_respond.                                  *)

ResumeArrives(q, r) ==
    /\ "resume" \in Operations
    /\ req[q].pc = "new" /\ rec[r] # Absent
    /\ BecomeReq(q, [req[q] EXCEPT !.pc = "resume", !.run = r])
    /\ Continues(<<"request", q>>)
    /\ UNCHANGED <<data, attached, task>>

Waiting(r) == ~rec[r].cancel

RespondRunning(q) ==
    /\ "respond" \in Operations
    /\ req[q].pc = "new"
    /\ IF WithStatus("running") = {}
       THEN Goto(q, "respondPending") /\ Continues(<<"request", q>>)
       ELSE \E r \in WithStatus("running") :
              IF Waiting(r)
              THEN /\ BecomeReq(q, [req[q] EXCEPT !.pc = "resume", !.run = r])
                   /\ Continues(<<"request", q>>)
              ELSE Return(q) /\ Suspends
    /\ UNCHANGED <<data, attached, task>>

RespondPending(q) ==
    /\ req[q].pc = "respondPending"
    /\ IF \E r \in WithStatus("pending") : Waiting(r)
       THEN \E r \in WithStatus("pending") :
              /\ Waiting(r)
              /\ BecomeReq(q, [req[q] EXCEPT !.pc = "resume", !.run = r])
              /\ Continues(<<"request", q>>)
       ELSE Return(q) /\ Suspends
    /\ UNCHANGED <<data, attached, task>>

ResumeRead(q) ==
    /\ req[q].pc = "resume" /\ LockFree
    /\ IF rec[req[q].run].status \in Active
       THEN /\ BecomeReq(q, [req[q] EXCEPT !.pc = "check", !.copy = rec[req[q].run]])
            /\ Continues(<<"request", q>>)
       ELSE Return(q) /\ Suspends
    /\ UNCHANGED <<data, attached, task>>

\* Mutant: a resume does not look for a live task before it reads the checkpoints.
ResumeCheckNone(q) ==
    /\ req[q].pc = "check"
    /\ Goto(q, "history") /\ Continues(<<"request", q>>)
    /\ UNCHANGED <<data, attached, task>>

\* The record was read; run_tasks is looked at when the answer is here.
ResumeCheck(q) ==
    /\ req[q].pc = "check"
    /\ IF Attached(req[q].run)
       THEN Return(q) /\ Suspends
       ELSE Goto(q, "history") /\ Continues(<<"request", q>>)
    /\ UNCHANGED <<data, attached, task>>

\* _latest_run_state: no `next' means that the run is complete.
ResumeHistory(q) ==
    /\ req[q].pc = "history"
    /\ Goto(q, IF next[req[q].run] = "empty" THEN "complete" ELSE "recover")
    /\ Continues(<<"request", q>>)
    /\ UNCHANGED <<data, attached, task>>

ResumeComplete(q) ==
    /\ req[q].pc = "complete"
    /\ Save(req[q].run, [req[q].copy EXCEPT !.status = "success"])
    /\ Goto(q, "tell")
    /\ Continues(<<"request", q>>)
    /\ UNCHANGED <<next, answered, snapshots, log, attached, task>>

ResumeTell(q) ==
    /\ req[q].pc = "tell"
    /\ Emit(req[q].run, "completed")
    /\ Return(q)
    /\ Suspends
    /\ UNCHANGED <<rec, next, answered, snapshots, attached, task>>

ResumeRecover(q) ==
    /\ req[q].pc = "recover"
    /\ Save(req[q].run, req[q].copy)
    /\ Goto(q, "attach")
    /\ Continues(<<"request", q>>)
    /\ UNCHANGED <<next, answered, snapshots, log, attached, task>>

ResumeAttach(q) ==
    /\ req[q].pc = "attach"
    /\ Spawn(q, req[q].run, "resume", req[q].copy)
    /\ Return(q)
    /\ Suspends
    /\ UNCHANGED data
-----------------------------------------------------------------------------
(* cancel_run.                                                             *)

CancelRead(q, r) ==
    /\ "cancel" \in Operations
    /\ req[q].pc = "new" /\ rec[r] # Absent
    /\ BecomeReq(q, [req[q] EXCEPT !.pc = "detach", !.run = r, !.copy = rec[r]])
    /\ Continues(<<"request", q>>)
    /\ UNCHANGED <<data, attached, task>>

\* Mutant: a cancel forgets the task without cancelling it.
CancelDetachOnly(q) ==
    /\ req[q].pc = "detach"
    /\ attached' = [attached EXCEPT ![req[q].run] = Nothing]
    /\ Goto(q, "cancel")
    /\ Continues(<<"request", q>>)
    /\ UNCHANGED <<data, task>>

CancelDetach(q) ==
    LET r == req[q].run IN
    /\ req[q].pc = "detach"
    /\ attached' = [attached EXCEPT ![r] = Nothing]
    /\ task' = IF Attached(r) THEN [task EXCEPT ![attached[r]].cancelled = TRUE] ELSE task
    /\ Goto(q, "cancel")
    /\ Continues(<<"request", q>>)
    /\ UNCHANGED data

\* Mutant: a cancel of a run announces nothing.
CancelSaveSilent(q) ==
    /\ req[q].pc = "cancel"
    /\ Save(req[q].run, [status |-> "interrupted", cancel |-> TRUE])
    /\ Return(q)
    /\ Suspends
    /\ UNCHANGED <<next, answered, snapshots, log, attached, task>>

CancelSave(q) ==
    /\ req[q].pc = "cancel"
    /\ Save(req[q].run, [status |-> "interrupted", cancel |-> TRUE])
    /\ Goto(q, "tellCancel")
    /\ Continues(<<"request", q>>)
    /\ UNCHANGED <<next, answered, snapshots, log, attached, task>>

CancelTell(q) ==
    /\ req[q].pc = "tellCancel"
    /\ Emit(req[q].run, "interrupted")
    /\ Return(q)
    /\ Suspends
    /\ UNCHANGED <<rec, next, answered, snapshots, attached, task>>

RequestStep(q) ==
    /\ Runs(<<"request", q>>)
    /\ UNCHANGED settings
    /\ \/ StartRunning(q) \/ StartPending(q) \/ StartCreate(q)
       \/ StreamBegin(q) \/ StreamAbandon(q) \/ StartGuard(q) \/ StartSpawn(q)
       \/ \E r \in Request : ResumeArrives(q, r) \/ CancelRead(q, r)
       \/ RespondRunning(q) \/ RespondPending(q)
       \/ ResumeRead(q) \/ ResumeCheck(q) \/ ResumeHistory(q) \/ ResumeComplete(q)
       \/ ResumeTell(q) \/ ResumeRecover(q) \/ ResumeAttach(q)
       \/ CancelDetach(q) \/ CancelSave(q) \/ CancelTell(q)
-----------------------------------------------------------------------------
(* The runners.  A step of a task is what it does between two suspensions  *)
(* in PostgreSQL.  With the in-memory store it keeps the loop, except      *)
(* where it sleeps between tokens, waits for the agent or for its children.*)

\* A cancelled task does no more than what it already asked the database for.
To(t, pc) ==
    task' = [task EXCEPT ![t].pc = IF task[t].cancelled THEN "finished" ELSE pc]
KeepsLoop(t) == IF task[t].cancelled THEN Suspends ELSE Continues(<<"task", t>>)

TaskBegins(t) ==
    /\ task[t].pc = "created" /\ ~task[t].cancelled
    /\ To(t, IF task[t].runner = "research" /\ task[t].action = "resume"
             THEN "prepare" ELSE "mark")
    /\ KeepsLoop(t)
    /\ UNCHANGED data

Prepare(t) ==        \* research resume: _ensure_checkpointer, _ensure_agent
    /\ task[t].pc = "prepare"
    /\ To(t, "mark")
    /\ Suspends
    /\ UNCHANGED data

MarkRunning(t) ==
    LET record == [task[t].copy EXCEPT !.status = "running"] IN
    /\ task[t].pc = "mark"
    /\ Save(task[t].run, record)
    /\ task' = [task EXCEPT ![t].copy = record,
                            ![t].pc = IF task[t].cancelled THEN "finished" ELSE "announce"]
    /\ KeepsLoop(t)
    /\ UNCHANGED <<next, answered, snapshots, log>>

AnnounceRunning(t) ==
    /\ task[t].pc = "announce"
    /\ Emit(task[t].run, "running")
    /\ To(t, CASE task[t].runner = "research" /\ task[t].action = "run" -> "initial"
               [] task[t].runner = "research" /\ task[t].action = "resume" -> "stream"
               [] task[t].runner = "fixture" /\ task[t].action = "run" -> "plan"
               [] task[t].runner = "fixture" /\ task[t].action = "resume" -> "final")
    /\ KeepsLoop(t)
    /\ UNCHANGED <<rec, next, answered, snapshots>>
-----------------------------------------------------------------------------
(* ResearchDeepAgentRunner between `running' and the final state.          *)

\* Mutant: the first state of a research run has no next node.
SaveInitialStateNoNext(t) ==
    /\ task[t].pc = "initial"
    /\ next' = [next EXCEPT ![task[t].run] = "empty"]
    /\ To(t, "agent")
    /\ Suspends
    /\ UNCHANGED <<rec, answered, snapshots, log>>

\* The state with next=["agent"]; then the agent is built.
SaveInitialState(t) ==
    /\ task[t].pc = "initial"
    /\ next' = [next EXCEPT ![task[t].run] = "agent"]
    /\ To(t, "agent")
    /\ Suspends
    /\ UNCHANGED <<rec, answered, snapshots, log>>

AgentBuilt(t) ==
    /\ task[t].pc = "agent"
    /\ To(t, "stream")
    /\ Suspends
    /\ UNCHANGED data

\* ResearchRuntimeUnavailable: AutoResearchRunner falls back to the fixture's
\* run unless it is strict.
AgentUnavailable(t) ==
    /\ "unavailable" \in Faults
    /\ task[t].pc \in {"prepare", "agent"} /\ ~task[t].cancelled
    /\ task' = IF mode = "auto"
               THEN [task EXCEPT ![t].pc = "mark", ![t].runner = "fixture",
                                 ![t].action = "run"]
               ELSE [task EXCEPT ![t].pc = "finished"]
    /\ Suspends
    /\ UNCHANGED data

\* Any other exception while the agent is built leaves the task: the runner's
\* `try' is not yet entered, and nothing is recorded.
AgentBroken(t) ==
    /\ "broken" \in Faults
    /\ task[t].pc \in {"prepare", "agent"} /\ ~task[t].cancelled
    /\ task' = [task EXCEPT ![t].pc = "finished"]
    /\ Suspends
    /\ UNCHANGED data

\* One more mirrored event of the agent, and the end of its event stream.
AgentEvent(t) ==
    /\ task[t].pc = "stream"
    /\ "step" \notin Range(log[task[t].run])   \* bound: one event stands for many
    /\ Emit(task[t].run, "step")
    /\ To(t, "stream")
    /\ Suspends
    /\ UNCHANGED <<rec, next, answered, snapshots>>

StreamEnds(t) ==
    /\ task[t].pc = "stream" /\ ~task[t].cancelled
    /\ \/ task' = [task EXCEPT ![t].target = "success", ![t].pc = "final"]
       \/ /\ "failure" \in Faults
          /\ task' = [task EXCEPT ![t].target = "error", ![t].pc = "snapshot"]
       \/ /\ rec[task[t].run].cancel         \* _is_cancel_requested
          /\ task' = [task EXCEPT ![t].target = "interrupted", ![t].pc = "final"]
    /\ Suspends
    /\ UNCHANGED data
-----------------------------------------------------------------------------
(* DeepAgentDemoRunner.run between `running' and the final state.          *)

\* The first root state already has next=[].
CommitPlan(t) ==
    /\ task[t].pc = "plan"
    /\ next' = [next EXCEPT ![task[t].run] = "empty"]
    /\ To(t, "script")
    /\ KeepsLoop(t)
    /\ UNCHANGED <<rec, answered, snapshots, log>>

\* Mutant: only one of the two subagents is started.
PlanOneSubagent(t) ==
    /\ task[t].pc = "script"
    /\ Emit(task[t].run, "step")
    /\ task' = [task EXCEPT
         ![t].pc = IF task[t].cancelled THEN "finished" ELSE "gather",
         ![t].child["researcher"] = IF task[t].cancelled THEN "none" ELSE "ready"]
    /\ Suspends
    /\ UNCHANGED <<rec, next, answered, snapshots>>

\* The planning message and the task tools; both subagents are created.
Plan(t) ==
    /\ task[t].pc = "script"
    /\ Emit(task[t].run, "step")
    /\ task' = [task EXCEPT
         ![t].pc = IF task[t].cancelled THEN "finished" ELSE "gather",
         ![t].child = [s \in Subagent |-> IF task[t].cancelled THEN "none" ELSE "ready"]]
    /\ Suspends
    /\ UNCHANGED <<rec, next, answered, snapshots>>

Child(t, s, state) ==
    task' = [task EXCEPT ![t].child[s] = IF task[t].cancelled THEN "failed" ELSE state]

SubagentWorks(t, s) ==
    /\ task[t].child[s] = "ready"
    /\ Emit(task[t].run, "step")
    /\ Child(t, s, "closing")
    /\ Suspends
    /\ UNCHANGED <<rec, next, answered, snapshots>>

\* lifecycle {"event": "completed", "run_id"} with the subagent's namespace.
SubagentCompletes(t, s) ==
    /\ task[t].child[s] = "closing"
    /\ Emit(task[t].run, "subagent completed")
    /\ Child(t, s, "done")
    /\ Suspends
    /\ UNCHANGED <<rec, next, answered, snapshots>>

\* asyncio.gather raises the first exception at once; the other child goes on.
SubagentFails(t, s) ==
    /\ store = "postgres" /\ "store" \in Faults
    /\ task[t].child[s] \in {"ready", "closing"}
    /\ task' = [task EXCEPT ![t].child[s] = "failed",
                            ![t].pc = IF @ = "gather" THEN "finished" ELSE @]
    /\ Suspends
    /\ UNCHANGED data

GatherResults(t) ==
    /\ task[t].pc = "gather" /\ ~task[t].cancelled
    /\ \A s \in Subagent : task[t].child[s] = "done"
    /\ task' = [task EXCEPT ![t].pc = "final"]
    /\ KeepsLoop(t)
    /\ UNCHANGED data
-----------------------------------------------------------------------------
(* The end of a task, common to the runners.                               *)

\* save_thread_state with the answer and next=[]; the fixture then streams the
\* answer's tokens.
SaveFinalState(t) ==
    /\ task[t].pc = "final"
    /\ next' = [next EXCEPT ![task[t].run] = "empty"]
    /\ answered' = answered \cup {task[t].run}
    /\ To(t, "snapshot")
    /\ IF task[t].runner = "fixture" THEN Suspends ELSE KeepsLoop(t)
    /\ UNCHANGED <<rec, snapshots, log>>

\* _persist_run_snapshot swallows what goes wrong in it.
PersistSnapshot(t) ==
    /\ task[t].pc = "snapshot"
    /\ \/ snapshots' = snapshots \cup {task[t].run}
       \/ /\ store = "postgres" /\ "store" \in Faults
          /\ UNCHANGED snapshots
    /\ To(t, "save")
    /\ KeepsLoop(t)
    /\ UNCHANGED <<rec, next, answered, log>>

SaveOutcome(t) ==
    /\ task[t].pc = "save"
    /\ Save(task[t].run, [task[t].copy EXCEPT !.status = task[t].target])
    /\ To(t, "tell")
    /\ KeepsLoop(t)
    /\ UNCHANGED <<next, answered, snapshots, log>>

\* Mutant: the event carries the status instead of the event's name.
TellOutcomeNamesStatus(t) ==
    /\ task[t].pc = "tell"
    /\ Emit(task[t].run, task[t].target)
    /\ To(t, "finished")
    /\ Suspends
    /\ UNCHANGED <<rec, next, answered, snapshots>>

TellOutcome(t) ==
    /\ task[t].pc = "tell"
    /\ Emit(task[t].run, CASE task[t].target = "success" -> "completed"
                           [] task[t].target = "error" -> "failed"
                           [] task[t].target = "interrupted" -> "interrupted")
    /\ To(t, "finished")
    /\ Suspends
    /\ UNCHANGED <<rec, next, answered, snapshots>>

\* An operation of the store fails.  The research runner records an error when
\* it is inside its `try', the fixture runner never does.
StoreFails(t) ==
    /\ store = "postgres" /\ "store" \in Faults
    /\ LiveTask(t) /\ ~task[t].cancelled
    /\ task[t].pc \notin {"created", "prepare", "agent", "gather", "snapshot"}
    /\ task' = IF /\ task[t].runner = "research"
                  /\ \/ task[t].pc \in {"stream", "final"}
                     \/ task[t].pc \in {"save", "tell"} /\ task[t].target # "error"
               THEN [task EXCEPT ![t].target = "error", ![t].pc = "snapshot"]
               ELSE [task EXCEPT ![t].pc = "finished"]
    /\ Suspends
    /\ UNCHANGED data

\* CancelledError is raised where the task waits, and in its children.
CancelDelivered(t) ==
    /\ LiveTask(t) /\ task[t].cancelled
    /\ task' = [task EXCEPT
         ![t].pc = "finished",
         ![t].child = [s \in Subagent |-> IF @[s] \in {"ready", "closing"}
                                          THEN "failed" ELSE @[s]]]
    /\ Suspends
    /\ UNCHANGED data

\* In memory nothing is under way when a task is cancelled: it can only wait.
Advances(t) == store = "memory" => ~task[t].cancelled

TaskStep(t) ==
    /\ Runs(<<"task", t>>)
    /\ UNCHANGED <<settings, attached, req>>
    /\ \/ /\ Advances(t)
          /\ \/ TaskBegins(t) \/ Prepare(t) \/ MarkRunning(t) \/ AnnounceRunning(t)
             \/ SaveInitialState(t) \/ AgentBuilt(t) \/ AgentUnavailable(t)
             \/ AgentBroken(t) \/ AgentEvent(t) \/ StreamEnds(t)
             \/ CommitPlan(t) \/ Plan(t) \/ GatherResults(t)
             \/ SaveFinalState(t) \/ PersistSnapshot(t) \/ SaveOutcome(t)
             \/ TellOutcome(t) \/ StoreFails(t)
             \/ \E s \in Subagent : SubagentWorks(t, s) \/ SubagentCompletes(t, s)
                                    \/ SubagentFails(t, s)
       \/ CancelDelivered(t)

\* _on_task_done, called by the loop after the task ended: it removes the entry
\* of the run, whichever task it names.
OnTaskDone(t) ==
    /\ holder = Nothing
    /\ task[t].pc = "finished"
    /\ task' = [task EXCEPT ![t].pc = "done"]
    /\ attached' = [attached EXCEPT ![task[t].run] = Nothing]
    /\ UNCHANGED <<settings, holder, data, req>>
-----------------------------------------------------------------------------
Next ==
    \/ \E q \in Request : RequestStep(q)
    \/ \E t \in Request : TaskStep(t) \/ OnTaskDone(t)

Spec == Init /\ [][Next]_vars

\* The event loop runs every coroutine that is ready; clients need not come.
Fairness ==
    \A q \in Request : /\ WF_vars(req[q].pc # "new" /\ RequestStep(q))
                       /\ WF_vars(TaskStep(q))
                       /\ WF_vars(OnTaskDone(q))

FairSpec == Spec /\ Fairness
-----------------------------------------------------------------------------
\* An operation of the in-memory store does not suspend its caller, and the agent
\* can be built or AutoResearchRunner falls back: no task ends without the end of
\* its run in the record.  One that did would let a resume start the next task
\* before its _on_task_done, which then detaches that one.
Undisturbed ==
    /\ store = "memory"
    /\ "broken" \notin Faults
    /\ mode = "research" => "unavailable" \notin Faults

Idle == holder = Nothing     \* no coroutine is between two suspensions

\* _run_start rejects a start while a run of the thread is pending or running
\* (service.py:364-390): with the in-memory store at most one run is active.
OneActiveRun == Undisturbed => Cardinality({r \in Request : rec[r].status \in Active}) <= 1

\* _schedule_block_reason "guards against double execution" (service.py:162):
\* no two live tasks drive the same run.
Drives(t, r) == task[t].run = r /\ LiveTask(t)
NoDoubleExecution ==
    Undisturbed => \A r, t, u \in Request : Drives(t, r) /\ Drives(u, r) => t = u

\* What resume_run and cancel_run look up in run_tasks is there as long as the
\* task of a run lives: a live task that was not cancelled is attached.
AttachedWhileLive ==
    Undisturbed => \A t \in Request :
        LiveTask(t) /\ ~task[t].cancelled => attached[task[t].run] = t

\* A run that says success has its answer in the history of the thread, also
\* when it was resume_run that found the success in a checkpoint; and in memory it
\* has its row of snapshots: "Persist the snapshot BEFORE flipping the run to
\* success" (deep_agent.py:342).  (The fixture runner writes next=[] too early for
\* the first to hold in PostgreSQL, and there a snapshot may fail.)
SuccessIsBacked ==
    \A r \in Request : rec[r].status = "success" =>
        /\ Undisturbed \/ mode = "research" => r \in answered
        /\ Undisturbed => r \in snapshots

\* Whenever another coroutine can look, a run that ended has announced it.
EndIsAnnounced ==
    Undisturbed /\ Idle => \A r \in Request :
        rec[r].status \in Terminal => Range(log[r]) \cap Ends # {}

\* Only a cancel changes a run that ended, and after its terminal event nothing
\* of it follows, not even from its children, but the `interrupted' of a cancel
\* that came too late.
Closed(r) == Range(log[r]) \cap Ends # {}
EndIsFinal ==
    [][Undisturbed => \A r \in Request :
          /\ rec[r].status \in Terminal => rec'[r].status \in {rec[r].status, "interrupted"}
          /\ Closed(r) => log'[r] \in {log[r], Append(log[r], "interrupted")}]_vars

\* Every run that has a task ends.
RunsEnd ==
    \A r \in Request : Undisturbed /\ attached[r] # Nothing ~> rec[r].status \in Terminal
=============================================================================
