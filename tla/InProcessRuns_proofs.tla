------------------------- MODULE InProcessRuns_proofs -------------------------
(***************************************************************************)
(* Proofs about InProcessRuns, for every number of requests and every set  *)
(* of operations, stores, modes and faults.                                *)
(*                                                                         *)
(* What holds in every store is typing (TypeInv) and, in the strict mode,  *)
(* that a success is backed by the history (StrictInv).  What holds in an  *)
(* undisturbed process rests on who has the event loop: a request that is  *)
(* under way has it (HoldsLoop), so nobody sees the state between two of   *)
(* its steps, and a live task is either the attached driver of an active   *)
(* run or was cancelled (LiveDrives, EndedIsRecorded).                     *)
(***************************************************************************)
EXTENDS InProcessRuns, FiniteSetTheorems, TLAPS

-----------------------------------------------------------------------------
(* The inductive invariants.                                               *)

ReqOK == req \in [Request -> RequestState]
TaskOK == task \in [Request -> TaskState]
LogOK == log \in [Request -> Seq(Event)]

\* A request that works on a run names it.
RequestNamesRun ==
    \A q \in Request :
        \/ req[q].pc \in {"new", "startPending", "create", "gone", "done", "respondPending"}
        \/ req[q].run \in Request

TaskNamesRun == \A t \in Request : task[t] = NoTask \/ task[t].run \in Request

\* A request creates a task with its last step.
TaskComesLast == \A q \in Request : req[q].pc # "done" => task[q] = NoTask

\* The fixture runner has no agent, and in fixture mode there is no other.
AgentSteps == {"prepare", "initial", "agent", "stream"}
RunnerFits ==
    \A t \in Request :
        /\ mode = "fixture" => task[t].runner = "fixture"
        /\ task[t].runner = "fixture" => task[t].pc \notin AgentSteps

TypeInv ==
    /\ TypeOK
    /\ LogOK
    /\ RequestNamesRun
    /\ TaskNamesRun
    /\ TaskComesLast
    /\ RunnerFits

Checked == {"check", "history", "complete", "recover", "attach"}

\* The strict runner never enters the fixture's script.
StaysResearch ==
    \A t \in Request :
        \/ task[t] = NoTask
        \/ task[t].runner = "research" /\ task[t].pc \notin {"plan", "script", "gather"}

EmptyIsAnswered == \A r \in Request : next[r] = "empty" => r \in answered
SuccessIsAnswered == \A r \in Request : rec[r].status = "success" => r \in answered

RequestsBacked ==
    \A q \in Request :
        /\ req[q].pc \in Checked => req[q].copy.status \in Active
        /\ req[q].pc = "complete" => req[q].run \in answered

TasksBacked ==
    \A t \in Request :
        task[t].pc \in {"snapshot", "save", "tell"} /\ task[t].target = "success"
            => task[t].run \in answered

StrictInv ==
    /\ StaysResearch
    /\ EmptyIsAnswered
    /\ SuccessIsAnswered
    /\ RequestsBacked
    /\ TasksBacked

\* A request that is not under way.
Quiet(q) == req[q].pc \in {"new", "offer", "gone", "done"}
HoldsLoop == \A q \in Request : Quiet(q) \/ holder = <<"request", q>>

\* A task announces the end in the same turn of the loop that records it.
TellHolds ==
    \A t \in Request :
        task[t].pc = "tell" => holder = <<"task", t>> /\ ~task[t].cancelled

\* A cancel has taken the task of r and not yet written the record.
Cancelling(r) ==
    \E q \in Request :
        holder = <<"request", q>> /\ req[q].pc = "cancel" /\ req[q].run = r

\* The end of r is in the record, its event is the next step.
Telling(r) ==
    \/ \E t \in Request : holder = <<"task", t>> /\ task[t].pc = "tell" /\ task[t].run = r
    \/ \E q \in Request : /\ holder = <<"request", q>>
                          /\ req[q].pc = "tellCancel" /\ req[q].run = r

\* A live task that was not cancelled is the attached driver of an active run.
LiveDrives ==
    \A t \in Request : LiveTask(t) /\ ~task[t].cancelled =>
        /\ attached[task[t].run] = t
        /\ IF task[t].pc = "tell"
           THEN rec[task[t].run].status = task[t].target /\ ~Closed(task[t].run)
           ELSE rec[task[t].run].status \in Active

AttachedIsOwn ==
    \A r, t \in Request : attached[r] = t =>
        task[t] # NoTask /\ task[t].run = r /\ ~task[t].cancelled

EndedIsRecorded ==
    \A t \in Request :
        /\ task[t].pc \in Finished => rec[task[t].run].status \in Terminal
        /\ LiveTask(t) /\ task[t].cancelled =>
              rec[task[t].run].status \in Terminal \/ Cancelling(task[t].run)

OneDriver == \A r, t, u \in Request : Drives(t, r) /\ Drives(u, r) => t = u

SuccessIsSaved ==
    /\ \A r \in Request : rec[r].status = "success" => r \in answered /\ r \in snapshots
    /\ TasksBacked
    /\ \A t \in Request : task[t].pc \in {"save", "tell"} => task[t].run \in snapshots

ChildrenAtGather ==
    \A t \in Request, s \in Subagent :
        task[t].child[s] \in {"ready", "closing"} => task[t].pc = "gather"

OneActive ==
    \A r, s \in Request : rec[r].status \in Active /\ rec[s].status \in Active => r = s

\* A run that nobody created has left no trace.
AbsentIsNew ==
    \A r \in Request : rec[r].status = "absent" => rec[r] = Absent /\ next[r] = "none"

ClosedIsEnded == \A r \in Request : Closed(r) => rec[r].status \in Terminal
EndedIsTold == \A r \in Request : rec[r].status \in Terminal => Closed(r) \/ Telling(r)

\* resume_run may trust an empty `next': while the run is active, its task lives.
EmptyHasTask ==
    \A r \in Request :
        next[r] = "empty" /\ rec[r].status \in Active => Attached(r) \/ Cancelling(r)

\* What a request under way knows.
Knows(q) ==
    /\ req[q].pc \in {"new", "startPending", "create"} => rec[q] = Absent
    /\ req[q].pc = "startPending" => WithStatus("running") = {}
    /\ req[q].pc = "create" => \A r \in Request : rec[r].status \notin Active
    /\ req[q].pc \in {"offer", "guard", "resume", "detach", "cancel"} =>
          rec[req[q].run].status # "absent"
    /\ req[q].pc \in {"spawn"} \cup Checked => rec[req[q].run].status \in Active
    /\ req[q].pc \in Checked => req[q].copy = rec[req[q].run]
    /\ req[q].pc \in {"history", "recover", "attach"} => ~Attached(req[q].run)
    /\ req[q].pc = "cancel" => attached[req[q].run] = Nothing
    /\ req[q].pc = "tellCancel" => rec[req[q].run].status = "interrupted"
    /\ req[q].pc \notin {"complete", "tell"}
RequestsKnow == \A q \in Request : Knows(q)

LoopInv ==
    /\ HoldsLoop
    /\ TellHolds
    /\ LiveDrives
    /\ AttachedIsOwn
    /\ EndedIsRecorded
    /\ OneDriver
    /\ SuccessIsSaved
    /\ ChildrenAtGather
    /\ OneActive
    /\ AbsentIsNew
    /\ ClosedIsEnded
    /\ EndedIsTold
    /\ EmptyHasTask
    /\ RequestsKnow

IInv ==
    /\ TypeInv
    /\ mode = "research" => StrictInv
    /\ Undisturbed => LoopInv
-----------------------------------------------------------------------------
(* What the helpers do, at one request, task or run.                       *)

RequestPC == {"new", "offer", "guard", "spawn", "respondPending", "resume",
              "detach", "cancel", "tellCancel", "gone", "done"} \cup LockedSteps

\* Request q goes on at pc, with run r and its copy c.
Moves(q, pc, r, c) ==
    /\ ReqOK'
    /\ req'[q].pc = pc /\ req'[q].run = r /\ req'[q].copy = c
    /\ \A p \in Request : p # q => req'[p] = req[p]

LEMMA GotoMoves ==
    ASSUME ReqOK, NEW q \in Request, NEW pc \in RequestPC, Goto(q, pc)
    PROVE  Moves(q, pc, req[q].run, req[q].copy)
BY DEF ReqOK, RequestState, RequestPC, Goto, BecomeReq, Moves

LEMMA TakesMoves ==
    ASSUME ReqOK, NEW q \in Request, NEW pc \in RequestPC, NEW r \in Request,
           NEW c \in RunRecord,
           BecomeReq(q, [req[q] EXCEPT !.pc = pc, !.run = r, !.copy = c])
    PROVE  Moves(q, pc, r, c)
BY DEF ReqOK, RequestState, RequestPC, BecomeReq, Moves

LEMMA NamesMoves ==
    ASSUME ReqOK, NEW q \in Request, NEW pc \in RequestPC, NEW r \in Request,
           BecomeReq(q, [req[q] EXCEPT !.pc = pc, !.run = r])
    PROVE  Moves(q, pc, r, req[q].copy)
BY DEF ReqOK, RequestState, RequestPC, BecomeReq, Moves

LEMMA CopiesMoves ==
    ASSUME ReqOK, NEW q \in Request, NEW pc \in RequestPC, NEW c \in RunRecord,
           BecomeReq(q, [req[q] EXCEPT !.pc = pc, !.copy = c])
    PROVE  Moves(q, pc, req[q].run, c)
BY DEF ReqOK, RequestState, RequestPC, BecomeReq, Moves

LEMMA ReturnMoves ==
    ASSUME ReqOK, NEW q \in Request, Return(q)
    PROVE  Moves(q, "done", Nothing, Absent)
BY DEF ReqOK, RequestState, Return, New, Absent, RunRecord, BecomeReq, Moves

TaskPC == {"none", "created", "prepare", "mark", "announce", "initial", "agent", "stream",
           "plan", "script", "gather", "final", "results", "snapshot", "save", "tell",
           "finished", "done"}

\* Task t changes, but not the run it works on, and no other task does.
Works(t) ==
    /\ TaskOK'
    /\ task[t] # NoTask
    /\ task'[t].run = task[t].run
    /\ task'[t].cancelled = task[t].cancelled
    /\ \A u \in Request : u # t => task'[u] = task[u]

\* Task t goes on at pc.
Turns(t, pc) ==
    /\ Works(t)
    /\ task'[t].pc = pc
    /\ task'[t].runner = task[t].runner /\ task'[t].target = task[t].target
    /\ task'[t].child = task[t].child

LEMMA ToTurns ==
    ASSUME TaskOK, NEW t \in Request, NEW pc \in TaskPC, To(t, pc), task[t].pc # "none"
    PROVE  Turns(t, IF task[t].cancelled THEN "finished" ELSE pc)
BY DEF TaskOK, TaskState, TaskPC, Finished, To, Turns, Works, NoTask

\* Task q begins its life.
Spawned(q, r) ==
    /\ TaskOK'
    /\ task'[q].pc = "created" /\ task'[q].run = r /\ ~task'[q].cancelled
    /\ task'[q].child = NoChildren
    /\ task'[q].runner = IF mode = "fixture" THEN "fixture" ELSE "research"
    /\ task'[q] # NoTask
    /\ \A u \in Request : u # q => task'[u] = task[u]

LEMMA SpawnMoves ==
    ASSUME TaskOK, NEW q \in Request, NEW r \in Request, NEW action \in {"run", "resume"},
           NEW c \in RunRecord, Spawn(q, r, action, c)
    PROVE  Spawned(q, r)
BY DEF TaskOK, TaskState, Finished, Spawn, Spawned, NoTask, NoChildren, Terminal

RecOK == rec \in [Request -> RunRecord]

LEMMA SaveMoves ==
    ASSUME RecOK, NEW r \in Request, NEW c \in RunRecord, Save(r, c)
    PROVE  RecOK' /\ rec'[r] = c /\ \A s \in Request : s # r => rec'[s] = rec[s]
BY DEF RecOK, Save

LEMMA RangeAppend ==
    ASSUME NEW S, NEW s \in Seq(S), NEW e \in S
    PROVE  Range(Append(s, e)) = Range(s) \cup {e}
<1>1. ASSUME NEW x, x \in Range(Append(s, e))
      PROVE  x \in Range(s) \cup {e}
  <2>1. PICK i \in 1..Len(s) + 1 : x = Append(s, e)[i]
    BY <1>1 DEF Range
  <2>2. CASE i = Len(s) + 1
    BY <2>1, <2>2
  <2>3. CASE i # Len(s) + 1
    <3>1. i \in 1..Len(s) /\ x = s[i]
      BY <2>1, <2>3
    <3> QED BY <3>1 DEF Range
  <2> QED BY <2>2, <2>3
<1>2. ASSUME NEW x, x \in Range(s)
      PROVE  x \in Range(Append(s, e))
  <2>1. PICK i \in 1..Len(s) : x = s[i]
    BY <1>2 DEF Range
  <2>2. i \in 1..Len(Append(s, e)) /\ x = Append(s, e)[i]
    BY <2>1
  <2> QED BY <2>2 DEF Range
<1>3. e \in Range(Append(s, e))
  <2>1. Len(s) + 1 \in 1..Len(Append(s, e)) /\ e = Append(s, e)[Len(s) + 1]
    OBVIOUS
  <2> QED BY <2>1 DEF Range
<1> QED BY <1>1, <1>2, <1>3

LEMMA EmitMoves ==
    ASSUME LogOK, NEW r \in Request, NEW e \in Event, Emit(r, e)
    PROVE  /\ LogOK'
           /\ log'[r] = Append(log[r], e)
           /\ Closed(r)' <=> Closed(r) \/ e \in Ends
           /\ \A s \in Request : s # r => log'[s] = log[s] /\ (Closed(s)' <=> Closed(s))
<1>1. LogOK' /\ log'[r] = Append(log[r], e)
  BY DEF LogOK, Emit
<1>2. \A s \in Request : s # r => log'[s] = log[s]
  BY DEF LogOK, Emit
<1>3. Range(log'[r]) = Range(log[r]) \cup {e}
  BY <1>1, RangeAppend DEF LogOK
<1> QED BY <1>1, <1>2, <1>3 DEF Closed

LEMMA LogTyped == LogOK => \A r \in Request : Range(log[r]) \subseteq Event
BY DEF LogOK, Range

LEMMA Types == TypeInv => ReqOK /\ TaskOK /\ LogOK /\ RecOK
BY DEF TypeInv, TypeOK, ReqOK, TaskOK, RecOK

LEMMA WorkingTask ==
    ASSUME TypeInv, NEW t \in Request, task[t] # NoTask
    PROVE  task[t].run \in Request /\ req[t].pc = "done"
BY DEF TypeInv, TaskNamesRun, TaskComesLast
-----------------------------------------------------------------------------
(* The steps of a request that only read.                                  *)

\* Where a request that only reads goes next, and what it has just read.
Reads(q, pc, r, c) ==
    \/ pc \in {"done", "gone"}
    \/ /\ req[q].pc = "new" /\ pc = "startPending"
       /\ WithStatus("running") = {}
    \/ /\ req[q].pc = "startPending" /\ pc = "create"
       /\ WithStatus("pending") = {}
    \/ req[q].pc = "offer" /\ pc = "guard" /\ r = req[q].run
    \/ /\ req[q].pc = "guard" /\ pc = "spawn" /\ r = req[q].run
       /\ rec[r].status \notin Terminal
    \/ req[q].pc = "new" /\ pc = "respondPending"
    \/ /\ req[q].pc \in {"new", "respondPending"} /\ pc \in {"resume", "detach"}
       /\ r \in Request /\ rec[r] # Absent
    \/ /\ req[q].pc = "resume" /\ pc = "check" /\ r = req[q].run
       /\ rec[r].status \in Active /\ c = rec[r]
    \/ /\ req[q].pc = "check" /\ pc = "history" /\ r = req[q].run /\ c = req[q].copy
       /\ ~Attached(r)
    \/ /\ req[q].pc = "history" /\ pc \in {"complete", "recover"}
       /\ r = req[q].run /\ c = req[q].copy
       /\ pc = "complete" => next[r] = "empty"
       /\ pc = "recover" => next[r] # "empty"

Asks(q) ==
    /\ \E pc \in RequestPC, r \in Request \cup {Nothing}, c \in RunRecord :
          /\ Moves(q, pc, r, c)
          /\ Reads(q, pc, r, c)
          /\ \/ Suspends /\ pc \in {"done", "gone"}
             \/ Continues(<<"request", q>>)
    /\ UNCHANGED <<data, attached, task>>
    /\ req[q].pc \notin {"create", "attach", "complete", "tell", "recover", "detach",
                         "cancel", "tellCancel", "gone", "done"}

ReadingStep(q) ==
    \/ StartRunning(q) \/ StartPending(q) \/ StreamBegin(q) \/ StreamAbandon(q)
    \/ StartGuard(q)
    \/ StartSpawn(q) /\ Attached(req[q].run)
    \/ \E r \in Request : ResumeArrives(q, r) \/ CancelRead(q, r)
    \/ RespondRunning(q) \/ RespondPending(q)
    \/ ResumeRead(q) \/ ResumeCheck(q) \/ ResumeHistory(q)

LEMMA ReadingAsks ==
    ASSUME TypeInv, NEW q \in Request, ReadingStep(q)
    PROVE  Asks(q)
<1> DEFINE Becomes(pc, r, c) == Moves(q, pc, r, c) /\ Reads(q, pc, r, c)
<1>0. /\ ReqOK /\ RecOK
      /\ Absent \in RunRecord /\ Nothing \in Request \cup {Nothing}
      /\ req[q].run \in Request \cup {Nothing} /\ req[q].copy \in RunRecord
      /\ {"done", "gone", "startPending", "create", "guard", "spawn", "respondPending",
          "resume", "detach", "check", "history", "complete", "recover"} \subseteq RequestPC
  BY Types DEF ReqOK, RequestState, RequestPC, LockedSteps, Absent, RunRecord
<1>1. CASE Return(q) /\ Suspends /\ ReadingStep(q)
  <2>1. Becomes("done", Nothing, Absent)
    BY <1>0, <1>1, ReturnMoves DEF Reads
  <2> QED BY <1>0, <1>1, <2>1
          DEF Asks, ReadingStep, StartRunning, StartPending, StreamBegin, StreamAbandon,
              StartGuard, StartSpawn, ResumeArrives, CancelRead, RespondRunning,
              RespondPending, ResumeRead, ResumeCheck, ResumeHistory, data
<1>2. CASE StartRunning(q) /\ ~(Return(q) /\ Suspends)
  <2>1. Becomes("startPending", req[q].run, req[q].copy)
    BY <1>0, <1>2, GotoMoves DEF StartRunning, Reads
  <2> QED BY <1>0, <1>2, <2>1 DEF Asks, StartRunning
<1>3. CASE StartPending(q) /\ ~(Return(q) /\ Suspends)
  <2>1. Becomes("create", req[q].run, req[q].copy)
    BY <1>0, <1>3, GotoMoves DEF StartPending, Reads
  <2> QED BY <1>0, <1>3, <2>1 DEF Asks, StartPending
<1>4. CASE StreamBegin(q)
  <2>1. rec[q] \in RunRecord
    BY <1>0 DEF RecOK
  <2>2. Becomes("guard", req[q].run, rec[q])
    BY <1>0, <1>4, <2>1, CopiesMoves DEF StreamBegin, Reads
  <2> QED BY <1>0, <1>4, <2>1, <2>2 DEF Asks, StreamBegin
<1>5. CASE StreamAbandon(q)
  <2>1. Becomes("gone", req[q].run, req[q].copy)
    BY <1>0, <1>5, GotoMoves DEF StreamAbandon, Reads
  <2> QED BY <1>0, <1>5, <2>1 DEF Asks, StreamAbandon
<1>6. CASE StartGuard(q) /\ ~(Return(q) /\ Suspends)
  <2>1. Becomes("spawn", req[q].run, req[q].copy)
    BY <1>0, <1>6, GotoMoves DEF StartGuard, Reads
  <2> QED BY <1>0, <1>6, <2>1 DEF Asks, StartGuard
<1>7. CASE StartSpawn(q) /\ Attached(req[q].run)
  BY <1>1, <1>7 DEF StartSpawn, ReadingStep
<1>8. ASSUME NEW r \in Request, ResumeArrives(q, r)
      PROVE  Asks(q)
  <2>1. Becomes("resume", r, req[q].copy)
    BY <1>0, <1>8, NamesMoves DEF ResumeArrives, Reads
  <2> QED BY <1>0, <1>8, <2>1 DEF Asks, ResumeArrives
<1>9. ASSUME NEW r \in Request, CancelRead(q, r)
      PROVE  Asks(q)
  <2>1. rec[r] \in RunRecord
    BY <1>0 DEF RecOK
  <2>2. Becomes("detach", r, rec[r])
    BY <1>0, <1>9, <2>1, TakesMoves DEF CancelRead, Reads
  <2> QED BY <1>0, <1>9, <2>1, <2>2 DEF Asks, CancelRead
<1>10. ASSUME NEW r \in Request, rec[r].status \in Active,
              req[q].pc \in {"new", "respondPending"},
              BecomeReq(q, [req[q] EXCEPT !.pc = "resume", !.run = r]),
              Continues(<<"request", q>>), UNCHANGED <<data, attached, task>>
       PROVE  Asks(q)
  <2>1. rec[r] # Absent
    BY <1>10 DEF Absent, Active
  <2>2. Becomes("resume", r, req[q].copy)
    BY <1>0, <1>10, <2>1, NamesMoves DEF Reads
  <2> QED BY <1>0, <1>10, <2>2 DEF Asks
<1>11. CASE RespondRunning(q) /\ ~(Return(q) /\ Suspends)
  <2>1. CASE WithStatus("running") = {}
    <3>1. Becomes("respondPending", req[q].run, req[q].copy)
      BY <1>0, <1>11, <2>1, GotoMoves DEF RespondRunning, Reads
    <3> QED BY <1>0, <1>11, <2>1, <3>1 DEF Asks, RespondRunning
  <2>2. CASE WithStatus("running") # {}
    BY <1>10, <1>11, <2>2 DEF RespondRunning, WithStatus, Active
  <2> QED BY <2>1, <2>2
<1>12. CASE RespondPending(q) /\ ~(Return(q) /\ Suspends)
  BY <1>10, <1>12 DEF RespondPending, WithStatus, Active
<1>13. CASE ResumeRead(q) /\ ~(Return(q) /\ Suspends)
  <2>1. req[q].run \in Request
    BY <1>13 DEF TypeInv, RequestNamesRun, ResumeRead
  <2>2. rec[req[q].run] \in RunRecord
    BY <1>0, <2>1 DEF RecOK
  <2>3. Becomes("check", req[q].run, rec[req[q].run])
    BY <1>0, <1>13, <2>2, CopiesMoves DEF ResumeRead, Reads
  <2> QED BY <1>0, <1>13, <2>2, <2>3 DEF Asks, ResumeRead
<1>14. CASE ResumeCheck(q) /\ ~(Return(q) /\ Suspends)
  <2>1. Becomes("history", req[q].run, req[q].copy)
    BY <1>0, <1>14, GotoMoves DEF ResumeCheck, Reads
  <2> QED BY <1>0, <1>14, <2>1 DEF Asks, ResumeCheck
<1>15. CASE ResumeHistory(q)
  <2> DEFINE pc == IF next[req[q].run] = "empty" THEN "complete" ELSE "recover"
  <2>1. pc \in RequestPC /\ Goto(q, pc)
    BY <1>0, <1>15 DEF ResumeHistory
  <2> HIDE DEF pc
  <2>2. Moves(q, pc, req[q].run, req[q].copy)
    BY <1>0, <2>1, GotoMoves
  <2>3. Becomes(pc, req[q].run, req[q].copy)
    BY <2>2, <1>15 DEF pc, ResumeHistory, Reads
  <2> QED BY <1>0, <1>15, <2>1, <2>3 DEF Asks, ResumeHistory
<1> QED BY <1>1, <1>2, <1>3, <1>4, <1>5, <1>6, <1>7, <1>8, <1>9, <1>11, <1>12,
           <1>13, <1>14, <1>15 DEF ReadingStep
-----------------------------------------------------------------------------
(* The steps of a task.                                                    *)

DataOK ==
    /\ RecOK /\ LogOK
    /\ next \in [Request -> {"none", "agent", "empty"}]
    /\ answered \subseteq Request /\ snapshots \subseteq Request

Script == {"plan", "script", "gather"}
Closing == {"snapshot", "save", "tell"}

\* A task touches the data of its own run only.
OwnData(t) ==
    /\ \A r \in Request : r # task[t].run => rec'[r] = rec[r] /\ next'[r] = next[r]
    /\ answered \subseteq answered' /\ snapshots \subseteq snapshots'
    /\ \/ rec' = rec
       \/ task[t].pc = "mark" /\ rec'[task[t].run].status = "running"
       \/ task[t].pc = "save" /\ rec'[task[t].run].status = task[t].target
    /\ \/ next'[task[t].run] \in {next[task[t].run], "agent"}
       \/ task[t].pc = "plan"
       \/ task[t].pc = "final" /\ task[t].run \in answered'
    /\ \/ log' = log
       \/ \E e \in Event : Emit(task[t].run, e) /\ (e \in Ends => task[t].pc = "tell")

\* An outcome is recorded after the final state and the snapshot.
ClosesInOrder(t) ==
    /\ task'[t].pc \in Closing /\ task'[t].target = "success" =>
          \/ task[t].run \in answered'
          \/ task[t].pc \in Closing /\ task[t].target = "success"
    /\ store = "memory" /\ task'[t].pc \in {"save", "tell"} =>
          task[t].run \in snapshots' \/ task[t].pc \in {"save", "tell"}

KeepsOffScript(t) ==
    mode = "research" /\ task[t].runner = "research" /\ task[t].pc \notin Script
        => task'[t].runner = "research" /\ task'[t].pc \notin Script

KeepsRunner(t) ==
    (task[t].runner = "fixture" => task[t].pc \notin AgentSteps) =>
        /\ task[t].runner = "fixture" => task'[t].runner = "fixture"
        /\ task'[t].runner = "fixture" => task'[t].pc \notin AgentSteps

\* In an undisturbed process a task that was not cancelled goes on to its end.
GoesOn(t) ==
    Undisturbed /\ ~task[t].cancelled /\ ChildrenAtGather =>
        /\ task[t].pc \notin {"none"} \cup Finished
        /\ task'[t].pc \notin {"none", "done"}
        /\ task'[t].pc = "finished" <=> task[t].pc = "tell"
        /\ task'[t].pc = "tell" <=> task[t].pc = "save"
        /\ task[t].pc = "tell" => rec' = rec /\ \E e \in Ends : Emit(task[t].run, e)
        /\ task[t].pc = "save" =>
              /\ task'[t].target = task[t].target /\ holder' = <<"task", t>>
              /\ rec'[task[t].run].status = task[t].target /\ log' = log
        /\ \A s \in Subagent :
              task'[t].child[s] \in {"ready", "closing"} => task'[t].pc = "gather"

Proceeds(t) ==
    /\ Works(t) /\ DataOK' /\ OwnData(t)
    /\ ClosesInOrder(t) /\ KeepsOffScript(t) /\ KeepsRunner(t) /\ GoesOn(t)

LEMMA DataTyped == TypeInv => DataOK
BY Types DEF TypeInv, TypeOK, DataOK

LEMMA TaskTyped ==
    ASSUME TypeInv, NEW t \in Request, task[t] # NoTask
    PROVE  /\ task[t] \in TaskState /\ task[t].run \in Request
           /\ task[t].copy \in RunRecord /\ task[t].target \in Terminal
BY WorkingTask, Types DEF TaskOK, TaskState

LEMMA FixtureHasNoAgent ==
    ASSUME TypeInv, NEW t \in Request, mode = "fixture"
    PROVE  task[t].pc \notin AgentSteps
BY DEF TypeInv, RunnerFits

ChildState == [Subagent -> {"none", "ready", "closing", "done", "failed"}]

LEMMA TaskStateIs ==
    TaskState = [pc : TaskPC, run : Request \cup {Nothing}, runner : {"fixture", "research"},
                 action : {"run", "resume"}, copy : RunRecord, target : Terminal,
                 cancelled : BOOLEAN, child : ChildState]
<1>1. TaskPC = {"none", "created", "prepare", "mark", "announce", "initial", "agent", "stream",
                "plan", "script", "gather", "final", "results", "snapshot",
                "save", "tell"} \cup Finished
  BY DEF TaskPC, Finished
<1> QED BY <1>1 DEF TaskState, ChildState

\* The record of a task after an assignment to some of its fields.
LEMMA UpdateWorks ==
    ASSUME TaskOK, NEW t \in Request, task[t] # NoTask, NEW u \in TaskState,
           u.run = task[t].run, u.cancelled = task[t].cancelled,
           task' = [task EXCEPT ![t] = u]
    PROVE  Works(t) /\ task'[t] = u
BY DEF TaskOK, Works

\* Turning to pc without writing anything.
TurnStep(t) ==
    \/ TaskBegins(t) \/ Prepare(t) \/ AgentBuilt(t)
    \/ GatherResults(t) \/ StreamEnds(t)
    \/ AgentUnavailable(t) \/ AgentBroken(t) \/ StoreFails(t)

LEMMA TurnProceeds ==
    ASSUME TypeInv, NEW t \in Request, TurnStep(t)
    PROVE  Proceeds(t)
<1>0. DataOK /\ TaskOK /\ task[t] # NoTask
  BY DataTyped, Types
     DEF TurnStep, TaskBegins, Prepare, AgentBuilt, GatherResults, StreamEnds,
         AgentUnavailable, AgentBroken, StoreFails, LiveTask, NoTask
<1>1. DataOK' /\ OwnData(t)
  BY <1>0
     DEF DataOK, RecOK, LogOK, OwnData, TurnStep, TaskBegins, Prepare, AgentBuilt,
         GatherResults, StreamEnds, AgentUnavailable, AgentBroken, StoreFails, data
<1>2. CASE TaskBegins(t)
  BY <1>0, <1>1, <1>2
     DEF TaskBegins, To, TaskOK, TaskState, Finished, Proceeds, Works, ClosesInOrder,
         KeepsOffScript, KeepsRunner, AgentSteps, GoesOn, ChildrenAtGather, Closing, Script
<1>3. CASE Prepare(t)
  BY <1>0, <1>1, <1>3
     DEF Prepare, To, TaskOK, TaskState, Finished, Proceeds, Works, ClosesInOrder,
         KeepsOffScript, KeepsRunner, AgentSteps, GoesOn, ChildrenAtGather, Closing, Script
<1>4. CASE AgentBuilt(t)
  BY <1>0, <1>1, <1>4
     DEF AgentBuilt, To, TaskOK, TaskState, Finished, Proceeds, Works, ClosesInOrder,
         KeepsOffScript, KeepsRunner, AgentSteps, GoesOn, ChildrenAtGather, Closing, Script
<1>5. CASE GatherResults(t)
  BY <1>0, <1>1, <1>5
     DEF GatherResults, TaskOK, TaskState, Finished, Proceeds, Works, ClosesInOrder,
         KeepsOffScript, KeepsRunner, AgentSteps, GoesOn, ChildrenAtGather, Closing, Script
<1>6. CASE StreamEnds(t)
  <2>1. PICK pc \in {"final", "snapshot"}, target \in Terminal :
           /\ task' = [task EXCEPT ![t].target = target, ![t].pc = pc]
           /\ pc = "snapshot" => target = "error"
    BY <1>6 DEF StreamEnds, Terminal
  <2>2. /\ task[t].pc = "stream" /\ task'[t].pc = pc /\ task'[t].target = target
        /\ task'[t].runner = task[t].runner /\ task'[t].child = task[t].child
    BY <1>0, <1>6, <2>1 DEF StreamEnds, TaskOK, TaskState
  <2>3. Works(t)
    <3> DEFINE u == [task[t] EXCEPT !.target = target, !.pc = pc]
    <3>1. task' = [task EXCEPT ![t] = u]
      BY <2>1
    <3>2. task[t] \in TaskState
      BY <1>0, TaskTyped
    <3>4. pc \in TaskPC
      BY DEF TaskPC
    <3>3. u \in TaskState /\ u.run = task[t].run /\ u.cancelled = task[t].cancelled
      BY <3>2, <3>4, TaskStateIs
    <3> HIDE DEF u
    <3> QED BY <1>0, <3>1, <3>3, UpdateWorks
  <2> QED BY <1>1, <2>1, <2>2, <2>3
          DEF Proceeds, ClosesInOrder, KeepsOffScript, KeepsRunner, AgentSteps, GoesOn,
              ChildrenAtGather,
              Closing, Script, Finished
<1>7. CASE AgentUnavailable(t)
  <2>1. CASE mode = "auto"
    <3> DEFINE u == [task[t] EXCEPT !.pc = "mark", !.runner = "fixture", !.action = "run"]
    <3>1. task' = [task EXCEPT ![t] = u]
      BY <1>7, <2>1 DEF AgentUnavailable
    <3>2. u \in TaskState /\ u.pc = "mark" /\ u.child = task[t].child
          /\ u.run = task[t].run /\ u.cancelled = task[t].cancelled
      BY <1>0, TaskTyped, TaskStateIs, ZenonT(30) DEF TaskPC
    <3> HIDE DEF u
    <3>3. Works(t) /\ task'[t] = u
      BY <1>0, <3>1, <3>2, UpdateWorks
    <3> QED BY <1>1, <1>7, <2>1, <3>2, <3>3
            DEF AgentUnavailable, Finished, Proceeds, ClosesInOrder, KeepsOffScript,
                KeepsRunner, AgentSteps,
                GoesOn, ChildrenAtGather, Closing, Script
  <2>2. CASE mode # "auto"
    <3> DEFINE u == [task[t] EXCEPT !.pc = "finished"]
    <3>1. task' = [task EXCEPT ![t] = u]
      BY <1>7, <2>2 DEF AgentUnavailable
    <3>2. u \in TaskState /\ u.pc = "finished" /\ u.runner = task[t].runner
          /\ u.run = task[t].run /\ u.cancelled = task[t].cancelled
      BY <1>0, TaskTyped, TaskStateIs DEF TaskPC
    <3> HIDE DEF u
    <3>3. Works(t) /\ task'[t] = u
      BY <1>0, <3>1, <3>2, UpdateWorks
    <3>4. mode = "research"
      BY <1>0, <1>7, <2>2, FixtureHasNoAgent, ConstantsAssumption
         DEF TypeInv, TypeOK, AgentUnavailable, AgentSteps
    <3> QED BY <1>1, <1>7, <2>2, <3>2, <3>3, <3>4
            DEF AgentUnavailable, Finished, Proceeds, ClosesInOrder, KeepsOffScript,
                KeepsRunner, AgentSteps,
                GoesOn, Closing, Script, Undisturbed
  <2> QED BY <2>1, <2>2
<1>8. CASE AgentBroken(t)
  BY <1>0, <1>1, <1>8
     DEF AgentBroken, TaskOK, TaskState, Finished, Proceeds, Works, ClosesInOrder,
         KeepsOffScript, KeepsRunner, AgentSteps, GoesOn, Closing, Script, Undisturbed
<1>9. CASE StoreFails(t)
  BY <1>0, <1>1, <1>9
     DEF StoreFails, TaskOK, TaskState, Finished, Terminal, Proceeds, Works,
         ClosesInOrder, KeepsOffScript, KeepsRunner, AgentSteps, GoesOn, Closing, Script,
         Undisturbed
<1> QED BY <1>2, <1>3, <1>4, <1>5, <1>6, <1>7, <1>8, <1>9 DEF TurnStep

LEMMA MarkProceeds ==
    ASSUME TypeInv, NEW t \in Request, MarkRunning(t)
    PROVE  Proceeds(t)
<1> DEFINE record == [task[t].copy EXCEPT !.status = "running"]
<1>0. DataOK /\ TaskOK /\ task[t] # NoTask /\ task[t].pc = "mark"
  BY DataTyped, Types DEF MarkRunning, NoTask
<1>1. record \in RunRecord /\ record.status = "running"
  BY <1>0, TaskTyped DEF RunRecord, Active
<1>2. /\ RecOK' /\ rec'[task[t].run] = record
      /\ \A r \in Request : r # task[t].run => rec'[r] = rec[r]
  BY <1>0, <1>1, SaveMoves, TaskTyped DEF MarkRunning, DataOK
<1>3. DataOK' /\ OwnData(t)
  BY <1>0, <1>1, <1>2 DEF MarkRunning, DataOK, LogOK, OwnData
<1>4. /\ Works(t) /\ task'[t].pc \in {"finished", "announce"}
      /\ ~task[t].cancelled => task'[t].pc = "announce"
      /\ task'[t].runner = task[t].runner /\ task'[t].child = task[t].child
  BY <1>0, <1>1 DEF MarkRunning, Works, TaskOK, TaskState, Finished
<1> QED BY <1>0, <1>3, <1>4
        DEF Proceeds, ClosesInOrder, KeepsOffScript, KeepsRunner, AgentSteps, GoesOn,
            ChildrenAtGather,
            Closing, Script, Finished

\* Turning to pc and announcing something, or saving a state.
LEMMA TurnsProceeds ==
    ASSUME TypeInv, NEW t \in Request, NEW pc \in TaskPC, To(t, pc),
           task[t].pc \notin {"none", "gather", "save", "tell"} \cup Finished,
           pc \notin {"none", "tell"} \cup Finished,
           DataOK', OwnData(t),
           pc \in AgentSteps => task[t].pc \in AgentSteps \/ task[t].runner # "fixture",
           pc \in Script => task[t].pc \in Script \/ task[t].runner = "fixture",
           pc \in Closing /\ task[t].pc \notin Closing => task[t].run \in answered',
           pc = "save" => task[t].pc = "snapshot"
                          /\ (store = "memory" => task[t].run \in snapshots')
    PROVE  Proceeds(t)
<1>1. Turns(t, IF task[t].cancelled THEN "finished" ELSE pc)
  BY Types, ToTurns
<1> QED BY <1>1
        DEF Proceeds, ClosesInOrder, KeepsOffScript, KeepsRunner, AgentSteps, GoesOn,
            ChildrenAtGather,
            Closing, Script, Finished, Turns

SaveStep(t) ==
    \/ AnnounceRunning(t) \/ SaveInitialState(t) \/ AgentEvent(t) \/ CommitPlan(t)
    \/ SaveFinalState(t) \/ PersistSnapshot(t)

LEMMA SaveProceeds ==
    ASSUME TypeInv, NEW t \in Request, SaveStep(t)
    PROVE  Proceeds(t)
<1>0. DataOK /\ TaskOK /\ task[t] # NoTask
  BY DataTyped, Types
     DEF SaveStep, AnnounceRunning, SaveInitialState, AgentEvent, CommitPlan,
         SaveFinalState, PersistSnapshot, NoTask
<1>1. task[t].run \in Request /\ task[t].runner \in {"fixture", "research"}
      /\ task[t].action \in {"run", "resume"}
  BY <1>0, TaskTyped DEF TaskState
<1>2. CASE AnnounceRunning(t)
  <2>1. PICK pc \in {"initial", "stream", "plan", "final"} :
           /\ To(t, pc)
           /\ task[t].runner = IF pc \in {"initial", "stream"} THEN "research" ELSE "fixture"
    BY <1>1, <1>2 DEF AnnounceRunning
  <2>2. "running" \in Event /\ "running" \notin Ends
    BY DEF Event, Ends
  <2>3. DataOK' /\ OwnData(t)
    BY <1>0, <1>1, <1>2, <2>2, EmitMoves DEF AnnounceRunning, DataOK, RecOK, OwnData
  <2> QED BY <1>2, <2>1, <2>3, TurnsProceeds
          DEF AnnounceRunning, TaskPC, AgentSteps, Script, Closing, Finished
<1>3. CASE SaveInitialState(t)
  <2>1. DataOK' /\ OwnData(t)
    BY <1>0, <1>1, <1>3 DEF SaveInitialState, DataOK, RecOK, LogOK, OwnData
  <2> QED BY <1>3, <2>1, TurnsProceeds
          DEF SaveInitialState, TaskPC, AgentSteps, Script, Closing, Finished
<1>4. CASE AgentEvent(t)
  <2>1. "step" \in Event /\ "step" \notin Ends
    BY DEF Event, Ends
  <2>2. DataOK' /\ OwnData(t)
    BY <1>0, <1>1, <1>4, <2>1, EmitMoves DEF AgentEvent, DataOK, RecOK, OwnData
  <2> QED BY <1>4, <2>2, TurnsProceeds DEF AgentEvent, TaskPC, AgentSteps, Script, Closing,
                                           Finished
<1>5. CASE CommitPlan(t)
  <2>1. DataOK' /\ OwnData(t)
    BY <1>0, <1>1, <1>5 DEF CommitPlan, DataOK, RecOK, LogOK, OwnData
  <2> QED BY <1>5, <2>1, TurnsProceeds DEF CommitPlan, TaskPC, AgentSteps, Script, Closing,
                                           Finished
<1>6. CASE SaveFinalState(t)
  <2>1. DataOK' /\ OwnData(t) /\ task[t].run \in answered'
    BY <1>0, <1>1, <1>6 DEF SaveFinalState, DataOK, RecOK, LogOK, OwnData
  <2> QED BY <1>6, <2>1, TurnsProceeds
          DEF SaveFinalState, TaskPC, AgentSteps, Script, Closing, Finished
<1>7. CASE PersistSnapshot(t)
  <2>1. DataOK' /\ OwnData(t) /\ (store = "memory" => task[t].run \in snapshots')
    BY <1>0, <1>1, <1>7 DEF PersistSnapshot, DataOK, RecOK, LogOK, OwnData
  <2> QED BY <1>7, <2>1, TurnsProceeds
          DEF PersistSnapshot, TaskPC, AgentSteps, Script, Closing, Finished
<1> QED BY <1>2, <1>3, <1>4, <1>5, <1>6, <1>7 DEF SaveStep

LEMMA OutcomeProceeds ==
    ASSUME TypeInv, NEW t \in Request, SaveOutcome(t)
    PROVE  Proceeds(t)
<1> DEFINE record == [task[t].copy EXCEPT !.status = task[t].target]
<1>0. DataOK /\ TaskOK /\ task[t] # NoTask /\ task[t].pc = "save"
  BY DataTyped, Types DEF SaveOutcome, NoTask
<1>1. record \in RunRecord /\ record.status = task[t].target
  BY <1>0, TaskTyped DEF RunRecord
<1>2. /\ RecOK' /\ rec'[task[t].run] = record
      /\ \A r \in Request : r # task[t].run => rec'[r] = rec[r]
  BY <1>0, <1>1, SaveMoves, TaskTyped DEF SaveOutcome, DataOK
<1>3. DataOK' /\ OwnData(t)
  BY <1>0, <1>1, <1>2 DEF SaveOutcome, DataOK, LogOK, OwnData
<1>4. Turns(t, IF task[t].cancelled THEN "finished" ELSE "tell")
  BY <1>0, ToTurns DEF SaveOutcome, TaskPC
<1>5. ~task[t].cancelled /\ store = "memory" => holder' = <<"task", t>>
  BY <1>0 DEF SaveOutcome, KeepsLoop, Continues
<1> QED BY <1>0, <1>1, <1>2, <1>3, <1>4, <1>5
        DEF Proceeds, ClosesInOrder, KeepsOffScript, KeepsRunner, AgentSteps, GoesOn,
            ChildrenAtGather,
            Closing, Script, Finished, Turns, SaveOutcome, Undisturbed

LEMMA TellProceeds ==
    ASSUME TypeInv, NEW t \in Request, TellOutcome(t)
    PROVE  Proceeds(t)
<1>0. DataOK /\ TaskOK /\ task[t] # NoTask /\ task[t].pc = "tell"
  BY DataTyped, Types DEF TellOutcome, NoTask
<1>1. PICK e \in Ends : Emit(task[t].run, e)
  BY <1>0, TaskTyped DEF TellOutcome, Ends, Terminal
<1>2. LogOK' /\ e \in Event
  BY <1>0, <1>1, TaskTyped, EmitMoves DEF DataOK, Event
<1>3. DataOK' /\ OwnData(t)
  BY <1>0, <1>1, <1>2 DEF TellOutcome, DataOK, RecOK, OwnData
<1>4. Turns(t, "finished")
  BY <1>0, ToTurns DEF TellOutcome, TaskPC
<1> QED BY <1>0, <1>1, <1>3, <1>4
        DEF Proceeds, ClosesInOrder, KeepsOffScript, KeepsRunner, AgentSteps, GoesOn,
            ChildrenAtGather,
            Closing, Script, Finished, Turns, TellOutcome

ChildStep(t) ==
    \/ Plan(t)
    \/ \E s \in Subagent :
          SubagentWorks(t, s) \/ SubagentCompletes(t, s) \/ SubagentFails(t, s)

LEMMA ChildProceeds ==
    ASSUME TypeInv, NEW t \in Request, ChildStep(t)
    PROVE  Proceeds(t)
<1>0. DataOK /\ TaskOK /\ task[t] # NoTask
  <2>1. \A s \in Subagent : NoTask.child[s] = "none"
    BY DEF NoTask, NoChildren
  <2>2. NoTask.pc = "none"
    BY DEF NoTask
  <2> QED BY <2>1, <2>2, DataTyped, Types
          DEF ChildStep, Plan, SubagentWorks, SubagentCompletes, SubagentFails
<1>1. CASE Plan(t)
  <2>1. "step" \in Event /\ "step" \notin Ends
    BY DEF Event, Ends
  <2>2. DataOK' /\ OwnData(t)
    BY <1>0, <1>1, <2>1, EmitMoves, TaskTyped DEF Plan, DataOK, RecOK, OwnData
  <2>3. /\ Works(t) /\ task[t].pc = "script"
        /\ task'[t].pc = IF task[t].cancelled THEN "finished" ELSE "gather"
        /\ task'[t].runner = task[t].runner
    <3> DEFINE c == [s \in Subagent |-> IF task[t].cancelled THEN "none" ELSE "ready"]
               pc == IF task[t].cancelled THEN "finished" ELSE "gather"
               u == [task[t] EXCEPT !.pc = pc, !.child = c]
    <3>1. c \in ChildState /\ pc \in TaskPC
      BY DEF ChildState, TaskPC
    <3>2. u \in TaskState /\ u.pc = pc /\ u.run = task[t].run
          /\ u.cancelled = task[t].cancelled /\ u.runner = task[t].runner
      BY <1>0, <3>1, TaskTyped, TaskStateIs
    <3>3. task' = [task EXCEPT ![t] = u]
      BY <1>1 DEF Plan
    <3> HIDE DEF u
    <3> QED BY <1>0, <1>1, <3>1, <3>2, <3>3, UpdateWorks DEF Plan
  <2> QED BY <2>2, <2>3
          DEF Proceeds, ClosesInOrder, KeepsOffScript, KeepsRunner, AgentSteps, GoesOn,
              Closing, Script, Finished
<1>2. ASSUME NEW s \in Subagent, SubagentWorks(t, s) \/ SubagentCompletes(t, s)
      PROVE  Proceeds(t)
  <2>1. PICK e \in Event \ Ends : Emit(task[t].run, e)
    BY <1>2 DEF SubagentWorks, SubagentCompletes, Event, Ends
  <2>2. LogOK'
    BY <1>0, <2>1, EmitMoves, TaskTyped DEF DataOK
  <2>3. DataOK' /\ OwnData(t)
    <3>1. UNCHANGED <<rec, next, answered, snapshots>>
      BY <1>2 DEF SubagentWorks, SubagentCompletes
    <3>2. DataOK'
      BY <1>0, <2>2, <3>1 DEF DataOK, RecOK
    <3> QED BY <2>1, <3>1, <3>2 DEF OwnData
  <2>4. PICK state \in {"failed", "closing", "done"} :
           task' = [task EXCEPT ![t].child[s] = state]
    BY <1>2 DEF SubagentWorks, SubagentCompletes, Child
  <2>5. /\ Works(t) /\ task'[t].pc = task[t].pc /\ task'[t].target = task[t].target
        /\ task'[t].runner = task[t].runner
        /\ \A u \in Subagent : u # s => task'[t].child[u] = task[t].child[u]
        /\ task[t].child[s] \in {"ready", "closing"}
    <3> DEFINE c == [task[t].child EXCEPT ![s] = state]
               u == [task[t] EXCEPT !.child = c]
    <3>1. task[t].child \in ChildState
      BY <1>0, TaskTyped DEF TaskState, ChildState
    <3>2. c \in ChildState
      BY <3>1 DEF ChildState
    <3>3. \A v \in Subagent : v # s => c[v] = task[t].child[v]
      BY <3>1 DEF ChildState
    <3>4. task' = [task EXCEPT ![t] = u]
      BY <2>4
    <3> HIDE DEF c
    <3>5. u \in TaskState /\ u.pc = task[t].pc /\ u.target = task[t].target
          /\ u.runner = task[t].runner /\ u.run = task[t].run
          /\ u.cancelled = task[t].cancelled /\ u.child = c
      BY <1>0, <3>2, TaskTyped, TaskStateIs
    <3> HIDE DEF u
    <3> QED BY <1>0, <1>2, <3>3, <3>4, <3>5, UpdateWorks, ZenonT(30)
            DEF SubagentWorks, SubagentCompletes
  <2>6. ChildrenAtGather => task[t].pc = "gather"
    BY <2>5 DEF ChildrenAtGather
  <2> QED BY <2>3, <2>5, <2>6
          DEF Proceeds, ClosesInOrder, KeepsOffScript, KeepsRunner, AgentSteps, GoesOn,
              ChildrenAtGather,
              Closing, Script, Finished
<1>3. ASSUME NEW s \in Subagent, SubagentFails(t, s)
      PROVE  Proceeds(t)
  <2>1. DataOK' /\ OwnData(t)
    BY <1>0, <1>3 DEF SubagentFails, data, DataOK, RecOK, LogOK, OwnData
  <2>2. /\ Works(t) /\ task'[t].pc \in {"finished", task[t].pc}
        /\ task'[t].runner = task[t].runner /\ task'[t].target = task[t].target
    <3> DEFINE c == [task[t].child EXCEPT ![s] = "failed"]
               pc == IF task[t].pc = "gather" THEN "finished" ELSE task[t].pc
               u == [task[t] EXCEPT !.pc = pc, !.child = c]
    <3>1. task[t].child \in ChildState
      BY <1>0, TaskTyped DEF TaskState, ChildState
    <3>2. c \in ChildState
      BY <3>1 DEF ChildState
    <3>3. task' = [task EXCEPT ![t] = u]
      BY <1>0, <1>3 DEF SubagentFails, TaskOK, TaskState
    <3> HIDE DEF c
    <3>4. pc \in TaskPC
      BY <1>0, TaskTyped DEF TaskState, TaskPC, Finished
    <3> HIDE DEF pc
    <3>5. u \in TaskState /\ u.pc = pc /\ u.target = task[t].target
          /\ u.runner = task[t].runner /\ u.run = task[t].run
          /\ u.cancelled = task[t].cancelled
      BY <1>0, <3>2, <3>4, TaskTyped, TaskStateIs
    <3> HIDE DEF u
    <3> QED BY <1>0, <3>3, <3>5, UpdateWorks DEF pc
  <2> QED BY <1>3, <2>1, <2>2
          DEF Proceeds, ClosesInOrder, KeepsOffScript, KeepsRunner, AgentSteps, GoesOn,
              SubagentFails,
              Undisturbed, Closing, Script, Finished
<1> QED BY <1>1, <1>2, <1>3 DEF ChildStep

\* A task that is cancelled ends where it waits.
LEMMA CancelDeliveredWorks ==
    ASSUME TypeInv, NEW t \in Request, CancelDelivered(t)
    PROVE  /\ Works(t) /\ LiveTask(t) /\ task[t].cancelled
           /\ task'[t].pc = "finished" /\ task'[t].runner = task[t].runner
           /\ \A s \in Subagent : task'[t].child[s] \notin {"ready", "closing"}
<1>1. LiveTask(t) /\ task[t] # NoTask /\ TaskOK
  BY Types DEF CancelDelivered, LiveTask, NoTask
<1> DEFINE c == [s \in Subagent |-> IF task[t].child[s] \in {"ready", "closing"}
                                   THEN "failed" ELSE task[t].child[s]]
           u == [task[t] EXCEPT !.pc = "finished", !.child = c]
<1>2. task[t].child \in ChildState
  BY <1>1, TaskTyped DEF TaskState, ChildState
<1>3. c \in ChildState /\ \A s \in Subagent : c[s] \notin {"ready", "closing"}
  BY <1>2 DEF ChildState
<1>4. task' = [task EXCEPT ![t] = u]
  BY <1>1 DEF CancelDelivered, TaskOK, TaskState
<1> HIDE DEF c
<1>5. u \in TaskState /\ u.pc = "finished" /\ u.run = task[t].run
      /\ u.cancelled = task[t].cancelled /\ u.runner = task[t].runner /\ u.child = c
  BY <1>1, <1>3, TaskTyped, TaskStateIs, ZenonT(30) DEF TaskPC
<1> HIDE DEF u
<1> QED BY <1>1, <1>3, <1>4, <1>5, UpdateWorks DEF CancelDelivered

LEMMA TaskProceeds ==
    ASSUME TypeInv, NEW t \in Request, TaskStep(t)
    PROVE  \/ Proceeds(t) /\ (store = "memory" => ~task[t].cancelled)
           \/ CancelDelivered(t)
BY TurnProceeds, MarkProceeds, SaveProceeds, OutcomeProceeds, TellProceeds, ChildProceeds
   DEF TaskStep, Advances, TurnStep, SaveStep, ChildStep
-----------------------------------------------------------------------------
(* The steps of a request that write.                                      *)

\* What a request under way has, in the type invariant.
LEMMA UnderWay ==
    ASSUME TypeInv, NEW q \in Request,
           req[q].pc \notin {"new", "startPending", "create", "gone", "done", "respondPending"}
    PROVE  req[q].run \in Request /\ req[q].copy \in RunRecord /\ task[q] = NoTask
BY Types DEF TypeInv, RequestNamesRun, TaskComesLast, ReqOK, RequestState

Creates(q) ==
    /\ req[q].pc = "create"
    /\ \E pc \in {"guard", "offer"}, c \in RunRecord :
          /\ Moves(q, pc, q, c)
          /\ IF pc = "guard" THEN Continues(<<"request", q>>) ELSE Suspends
    /\ RecOK' /\ rec'[q].status = "pending"
    /\ \A r \in Request : r # q => rec'[r] = rec[r]
    /\ UNCHANGED <<next, answered, snapshots, log, attached, task>>

LEMMA CreateMoves ==
    ASSUME TypeInv, NEW q \in Request, StartCreate(q)
    PROVE  Creates(q)
<1> DEFINE pending == [Absent EXCEPT !.status = "pending"]
<1>0. ReqOK /\ RecOK /\ {"guard", "offer"} \subseteq RequestPC /\ req[q].pc = "create"
  BY Types DEF RequestPC, StartCreate
<1>1. pending \in RunRecord /\ pending.status = "pending"
  BY DEF Absent, RunRecord, Active
<1>2. RecOK' /\ rec'[q] = pending /\ \A r \in Request : r # q => rec'[r] = rec[r]
  BY <1>0, <1>1, SaveMoves DEF StartCreate
<1>3. UNCHANGED <<next, answered, snapshots, log, attached, task>>
  BY DEF StartCreate
<1> HIDE DEF pending
<1>4. CASE /\ BecomeReq(q, [req[q] EXCEPT !.pc = "guard", !.run = q, !.copy = rec'[q]])
           /\ Continues(<<"request", q>>)
  <2>1. Moves(q, "guard", q, rec'[q])
    BY <1>0, <1>1, <1>2, <1>4, TakesMoves
  <2> QED BY <1>0, <1>1, <1>2, <1>3, <1>4, <2>1 DEF Creates
<1>5. CASE BecomeReq(q, [req[q] EXCEPT !.pc = "offer", !.run = q]) /\ Suspends
  <2>1. Moves(q, "offer", q, req[q].copy) /\ req[q].copy \in RunRecord
    BY <1>0, <1>5, NamesMoves DEF ReqOK, RequestState
  <2> QED BY <1>0, <1>1, <1>2, <1>3, <1>5, <2>1 DEF Creates
<1> QED BY <1>4, <1>5 DEF StartCreate

Spawns(q) ==
    /\ req[q].pc \in {"spawn", "attach"}
    /\ req[q].pc = "spawn" => ~Attached(req[q].run)
    /\ Moves(q, "done", Nothing, Absent)
    /\ Spawned(q, req[q].run)
    /\ attached' = [attached EXCEPT ![req[q].run] = q]
    /\ Suspends
    /\ UNCHANGED data

LEMMA SpawningMoves ==
    ASSUME TypeInv, NEW q \in Request,
           \/ StartSpawn(q) /\ ~Attached(req[q].run)
           \/ ResumeAttach(q)
    PROVE  Spawns(q)
<1>1. /\ req[q].pc \in {"spawn", "attach"} /\ Return(q)
      /\ \E action \in {"run", "resume"} : Spawn(q, req[q].run, action, req[q].copy)
  BY DEF StartSpawn, ResumeAttach
<1>2. req[q].run \in Request /\ req[q].copy \in RunRecord /\ TaskOK /\ ReqOK
  BY <1>1, UnderWay, Types
<1>3. Moves(q, "done", Nothing, Absent)
  BY <1>1, <1>2, ReturnMoves
<1>4. Spawned(q, req[q].run)
  BY <1>1, <1>2, SpawnMoves
<1> QED BY <1>1, <1>3, <1>4 DEF Spawns, StartSpawn, ResumeAttach, Spawn

\* The record of q's run is saved with a status.
Saves(q, pc, status) ==
    /\ Moves(q, pc, req[q].run, req[q].copy)
    /\ RecOK' /\ rec'[req[q].run].status = status
    /\ \A r \in Request : r # req[q].run => rec'[r] = rec[r]
    /\ UNCHANGED <<next, answered, snapshots, log, attached, task>>
    /\ Continues(<<"request", q>>)

LEMMA SavingMoves ==
    ASSUME TypeInv, NEW q \in Request
    PROVE  /\ ResumeComplete(q) => req[q].pc = "complete" /\ Saves(q, "tell", "success")
           /\ ResumeRecover(q) => /\ req[q].pc = "recover"
                                  /\ Saves(q, "attach", req[q].copy.status)
                                  /\ rec'[req[q].run] = req[q].copy
           /\ CancelSave(q) => req[q].pc = "cancel" /\ Saves(q, "tellCancel", "interrupted")
<1>0. ReqOK /\ RecOK /\ {"tell", "attach", "tellCancel"} \subseteq RequestPC
  BY Types DEF RequestPC, LockedSteps
<1>1. ASSUME NEW pc \in {"tell", "attach", "tellCancel"}, Goto(q, pc),
             NEW c \in RunRecord, Save(req[q].run, c), req[q].run \in Request,
             UNCHANGED <<next, answered, snapshots, log, attached, task>>,
             Continues(<<"request", q>>)
      PROVE  Saves(q, pc, c.status) /\ rec'[req[q].run] = c
  BY <1>0, <1>1, GotoMoves, SaveMoves DEF Saves
<1>2. ASSUME ResumeComplete(q)
      PROVE  req[q].pc = "complete" /\ Saves(q, "tell", "success")
  <2> DEFINE c == [req[q].copy EXCEPT !.status = "success"]
  <2>1. req[q].run \in Request /\ req[q].copy \in RunRecord
    BY <1>2, UnderWay DEF ResumeComplete
  <2>2. c \in RunRecord /\ c.status = "success"
    BY <2>1 DEF RunRecord, Terminal
  <2>3. Save(req[q].run, c)
    BY <1>2 DEF ResumeComplete
  <2> HIDE DEF c
  <2> QED BY <1>1, <1>2, <2>1, <2>2, <2>3 DEF ResumeComplete
<1>3. ASSUME ResumeRecover(q)
      PROVE  /\ req[q].pc = "recover" /\ Saves(q, "attach", req[q].copy.status)
             /\ rec'[req[q].run] = req[q].copy
  BY <1>1, <1>3, UnderWay DEF ResumeRecover
<1>4. ASSUME CancelSave(q)
      PROVE  req[q].pc = "cancel" /\ Saves(q, "tellCancel", "interrupted")
  <2> DEFINE c == [status |-> "interrupted", cancel |-> TRUE]
  <2>1. req[q].run \in Request
    BY <1>4, UnderWay DEF CancelSave
  <2>2. c \in RunRecord /\ c.status = "interrupted"
    BY DEF RunRecord, Terminal
  <2>3. Save(req[q].run, c)
    BY <1>4 DEF CancelSave
  <2> HIDE DEF c
  <2> QED BY <1>1, <1>4, <2>1, <2>2, <2>3 DEF CancelSave
<1> QED BY <1>2, <1>3, <1>4

Tells(q, e) ==
    /\ Moves(q, "done", Nothing, Absent)
    /\ Emit(req[q].run, e)
    /\ UNCHANGED <<rec, next, answered, snapshots, attached, task>>
    /\ Suspends

LEMMA TellingMoves ==
    ASSUME TypeInv, NEW q \in Request
    PROVE  /\ ResumeTell(q) => req[q].pc = "tell" /\ Tells(q, "completed")
           /\ CancelTell(q) => req[q].pc = "tellCancel" /\ Tells(q, "interrupted")
BY Types, ReturnMoves DEF ResumeTell, CancelTell, Tells

\* Task t is cancelled.
Cancelled(t) ==
    /\ task'[t] # NoTask /\ task'[t].cancelled
    /\ task'[t].pc = task[t].pc /\ task'[t].run = task[t].run
    /\ task'[t].runner = task[t].runner /\ task'[t].child = task[t].child
    /\ task'[t].target = task[t].target

Detaches(q) ==
    /\ req[q].pc = "detach"
    /\ Moves(q, "cancel", req[q].run, req[q].copy)
    /\ attached' = [attached EXCEPT ![req[q].run] = Nothing]
    /\ TaskOK'
    /\ \A t \in Request :
          IF t = attached[req[q].run] /\ LiveTask(t) THEN Cancelled(t) ELSE task'[t] = task[t]
    /\ UNCHANGED data
    /\ Continues(<<"request", q>>)

LEMMA DetachMoves ==
    ASSUME TypeInv, NEW q \in Request, CancelDetach(q)
    PROVE  Detaches(q)
<1> DEFINE r == req[q].run
<1>0. /\ TaskOK /\ ReqOK /\ "cancel" \in RequestPC /\ r \in Request
      /\ attached[r] \in Request \cup {Nothing} /\ Nothing \notin Request
  BY Types, UnderWay, ConstantsAssumption DEF RequestPC, CancelDetach, TypeInv, TypeOK
<1>1. Moves(q, "cancel", r, req[q].copy)
  BY <1>0, GotoMoves DEF CancelDetach
<1>2. CASE Attached(r)
  <2> DEFINE a == attached[r]
             u == [task[a] EXCEPT !.cancelled = TRUE]
  <2>1. a \in Request /\ LiveTask(a) /\ task[a] \in TaskState
    BY <1>0, <1>2 DEF Attached, TaskOK
  <2>2. /\ u \in TaskState /\ u.cancelled
        /\ u.pc = task[a].pc /\ u.run = task[a].run /\ u.runner = task[a].runner
        /\ u.child = task[a].child /\ u.target = task[a].target
    BY <2>1, TaskStateIs
  <2>3. u # NoTask
    BY <2>2 DEF NoTask
  <2>4. task' = [task EXCEPT ![a] = u]
    BY <1>2 DEF CancelDetach
  <2> HIDE DEF u
  <2>5. /\ TaskOK'
        /\ \A t \in Request :
              IF t = a /\ LiveTask(t) THEN Cancelled(t) ELSE task'[t] = task[t]
    BY <1>0, <2>1, <2>2, <2>3, <2>4 DEF TaskOK, Cancelled
  <2> QED BY <1>1, <2>5 DEF CancelDetach, Detaches
<1>3. CASE ~Attached(r)
  <2>1. \A t \in Request : ~(t = attached[r] /\ LiveTask(t)) /\ task'[t] = task[t]
    BY <1>0, <1>3 DEF Attached, CancelDetach
  <2> QED BY <1>0, <1>1, <1>3, <2>1 DEF CancelDetach, Detaches, TaskOK
<1> QED BY <1>2, <1>3

\* What a request does.
LEMMA RequestActs ==
    ASSUME TypeInv, NEW q \in Request, RequestStep(q)
    PROVE  \/ Asks(q)
           \/ Creates(q)
           \/ Spawns(q)
           \/ req[q].pc = "complete" /\ Saves(q, "tell", "success")
           \/ /\ req[q].pc = "recover" /\ Saves(q, "attach", req[q].copy.status)
              /\ rec'[req[q].run] = req[q].copy
           \/ req[q].pc = "cancel" /\ Saves(q, "tellCancel", "interrupted")
           \/ req[q].pc = "tell" /\ Tells(q, "completed")
           \/ req[q].pc = "tellCancel" /\ Tells(q, "interrupted")
           \/ Detaches(q)
<1>1. \/ ReadingStep(q) \/ StartCreate(q)
      \/ StartSpawn(q) /\ ~Attached(req[q].run)
      \/ ResumeAttach(q)
      \/ ResumeComplete(q) \/ ResumeRecover(q) \/ CancelSave(q)
      \/ ResumeTell(q) \/ CancelTell(q) \/ CancelDetach(q)
  BY DEF RequestStep, ReadingStep
<1>2. CASE ReadingStep(q)
  BY <1>2, ReadingAsks
<1>3. CASE StartCreate(q)
  BY <1>3, CreateMoves
<1>4. CASE (StartSpawn(q) /\ ~Attached(req[q].run)) \/ ResumeAttach(q)
  BY <1>4, SpawningMoves
<1>5. CASE ResumeComplete(q) \/ ResumeRecover(q) \/ CancelSave(q)
  BY <1>5, SavingMoves
<1>6. CASE ResumeTell(q) \/ CancelTell(q)
  BY <1>6, TellingMoves
<1>7. CASE CancelDetach(q)
  BY <1>7, DetachMoves
<1> QED BY <1>1, <1>2, <1>3, <1>4, <1>5, <1>6, <1>7
-----------------------------------------------------------------------------
(* Typing.                                                                 *)

LEMMA InitTypeInv == Init => TypeInv
<1> SUFFICES ASSUME Init PROVE TypeInv
  OBVIOUS
<1>1. Absent \in RunRecord /\ New \in RequestState /\ NoTask \in TaskState
  BY DEF Absent, RunRecord, New, RequestState, NoTask, TaskState, NoChildren, Terminal, Finished
<1>2. LogOK
  BY DEF Init, LogOK
<1>3. \A r \in Request : Range(log[r]) \subseteq Event
  BY <1>2, LogTyped
<1>4. RequestNamesRun /\ TaskNamesRun /\ TaskComesLast /\ RunnerFits
  BY DEF Init, RequestNamesRun, TaskNamesRun, TaskComesLast, RunnerFits, New, NoTask, AgentSteps
<1> QED BY <1>1, <1>2, <1>3, <1>4 DEF Init, TypeInv, TypeOK

\* What is left to show when a step leaves the settings alone.
LEMMA StepTypeInv ==
    ASSUME TypeInv, UNCHANGED settings,
           holder' \in {Nothing} \cup ({"request", "task"} \X Request),
           DataOK', ReqOK', TaskOK', attached' \in [Request -> Request \cup {Nothing}],
           RequestNamesRun', TaskNamesRun', TaskComesLast', RunnerFits'
    PROVE  TypeInv'
<1>1. \A r \in Request : Range(log'[r]) \subseteq Event
  BY DEF DataOK, LogOK, Range
<1> QED BY <1>1 DEF TypeInv, TypeOK, settings, DataOK, RecOK, ReqOK, TaskOK

LEMMA TaskTypeInv ==
    ASSUME TypeInv, NEW t \in Request, TaskStep(t)
    PROVE  TypeInv'
<1>1. Proceeds(t) \/ CancelDelivered(t)
  BY TaskProceeds
<1>2. /\ Works(t) /\ DataOK'
      /\ \/ KeepsRunner(t)
         \/ task'[t].runner = task[t].runner /\ task'[t].pc = "finished"
      /\ mode = "fixture" => task'[t].runner = "fixture"
  <2>1. CASE Proceeds(t)
    <3>1. Works(t) /\ DataOK' /\ KeepsRunner(t)
      BY <2>1 DEF Proceeds
    <3>2. mode = "fixture" => task[t].runner = "fixture" /\ task[t].pc \notin AgentSteps
      BY DEF TypeInv, RunnerFits
    <3> QED BY <3>1, <3>2 DEF KeepsRunner
  <2>2. CASE CancelDelivered(t)
    <3>1. DataOK'
      BY <2>2, DataTyped DEF CancelDelivered, data, DataOK, RecOK, LogOK
    <3> QED BY <2>2, <3>1, CancelDeliveredWorks DEF TypeInv, RunnerFits
  <2> QED BY <1>1, <2>1, <2>2
<1>3. UNCHANGED <<settings, attached, req>>
  BY DEF TaskStep
<1>4. holder' \in {Nothing} \cup ({"request", "task"} \X Request)
  <2>1. TurnStep(t) => Suspends \/ KeepsLoop(t)
    BY DEF TurnStep, TaskBegins, Prepare, AgentBuilt, GatherResults, StreamEnds,
           AgentUnavailable, AgentBroken, StoreFails
  <2>2. SaveStep(t) => Suspends \/ KeepsLoop(t)
    BY DEF SaveStep, AnnounceRunning, SaveInitialState, AgentEvent, CommitPlan,
           SaveFinalState, PersistSnapshot
  <2>3. MarkRunning(t) \/ SaveOutcome(t) \/ TellOutcome(t) => Suspends \/ KeepsLoop(t)
    BY DEF MarkRunning, SaveOutcome, TellOutcome
  <2>4. ChildStep(t) \/ CancelDelivered(t) => Suspends \/ KeepsLoop(t)
    BY DEF ChildStep, Plan, SubagentWorks, SubagentCompletes, SubagentFails, CancelDelivered
  <2>5. Suspends \/ KeepsLoop(t)
    BY <2>1, <2>2, <2>3, <2>4 DEF TaskStep, TurnStep, SaveStep, ChildStep
  <2> QED BY <2>5 DEF KeepsLoop, Continues, Suspends
<1>5. TaskNamesRun' /\ TaskComesLast'
  BY <1>2, <1>3, WorkingTask DEF Works, TypeInv, TaskNamesRun, TaskComesLast
<1>6. RequestNamesRun'
  BY <1>3 DEF TypeInv, RequestNamesRun
<1>7. RunnerFits'
  BY <1>2, <1>3 DEF TypeInv, RunnerFits, Works, KeepsRunner, settings, AgentSteps
<1> QED BY <1>2, <1>3, <1>4, <1>5, <1>6, <1>7, StepTypeInv
        DEF Works, TypeInv, TypeOK, ReqOK

\* A task becomes done.
DoneWorks(t) ==
    /\ Works(t) /\ task[t].pc = "finished" /\ task'[t].pc = "done"
    /\ task'[t].runner = task[t].runner /\ task'[t].child = task[t].child

LEMMA DoneMoves ==
    ASSUME TypeInv, NEW t \in Request, OnTaskDone(t)
    PROVE  DoneWorks(t)
<1> DEFINE u == [task[t] EXCEPT !.pc = "done"]
<1>0. task[t] # NoTask /\ TaskOK
  BY Types DEF OnTaskDone, NoTask
<1>1. /\ u \in TaskState /\ u.run = task[t].run /\ u.cancelled = task[t].cancelled
      /\ u.runner = task[t].runner /\ u.pc = "done" /\ u.child = task[t].child
  BY <1>0, TaskTyped, TaskStateIs DEF TaskPC
<1>2. task' = [task EXCEPT ![t] = u]
  BY DEF OnTaskDone
<1> HIDE DEF u
<1> QED BY <1>0, <1>1, <1>2, UpdateWorks DEF OnTaskDone, DoneWorks

LEMMA DoneTypeInv ==
    ASSUME TypeInv, NEW t \in Request, OnTaskDone(t)
    PROVE  TypeInv'
<1>1. DoneWorks(t) /\ UNCHANGED <<settings, holder, data, req>>
  BY DoneMoves DEF OnTaskDone
<1>2. TaskNamesRun' /\ TaskComesLast' /\ RequestNamesRun'
  BY <1>1, WorkingTask
     DEF DoneWorks, Works, TypeInv, TaskNamesRun, TaskComesLast, RequestNamesRun
<1>3. RunnerFits'
  BY <1>1 DEF DoneWorks, TypeInv, RunnerFits, Works, settings, AgentSteps
<1>4. DataOK'
  BY <1>1, DataTyped DEF data, DataOK, RecOK, LogOK
<1> QED BY <1>1, <1>2, <1>3, <1>4, StepTypeInv
        DEF DoneWorks, OnTaskDone, Works, TypeInv, TypeOK, ReqOK

LEMMA RequestTypeInv ==
    ASSUME TypeInv, NEW q \in Request, RequestStep(q)
    PROVE  TypeInv'
<1> DEFINE Typed == /\ DataOK' /\ ReqOK' /\ TaskOK' /\ RequestNamesRun' /\ TaskNamesRun'
                    /\ TaskComesLast' /\ RunnerFits'
                    /\ attached' \in [Request -> Request \cup {Nothing}]
                    /\ holder' \in {Nothing} \cup ({"request", "task"} \X Request)
<1>0. /\ DataOK /\ UNCHANGED settings
      /\ attached \in [Request -> Request \cup {Nothing}] /\ Nothing \notin Request
  BY DataTyped, ConstantsAssumption DEF RequestStep, TypeInv, TypeOK
<1>1. ASSUME NEW pc \in RequestPC, NEW r, NEW c, Moves(q, pc, r, c), UNCHANGED task,
             \/ pc \in {"new", "startPending", "create", "gone", "done", "respondPending"}
             \/ r \in Request,
             req[q].pc # "done"
      PROVE  /\ ReqOK' /\ TaskOK' /\ RequestNamesRun' /\ TaskNamesRun' /\ TaskComesLast'
             /\ RunnerFits'
  BY <1>0, <1>1, Types
     DEF Moves, TypeInv, RequestNamesRun, TaskNamesRun, TaskComesLast, RunnerFits,
         TaskOK, settings
<1>2. CASE Asks(q)
  <2>1. PICK pc \in RequestPC, r \in Request \cup {Nothing}, c \in RunRecord :
           /\ Moves(q, pc, r, c) /\ Reads(q, pc, r, c)
           /\ \/ Suspends /\ pc \in {"done", "gone"}
              \/ Continues(<<"request", q>>)
    BY <1>2 DEF Asks
  <2>2. req[q].pc # "done"
    BY <1>2 DEF Asks
  <2>3. \/ pc \in {"new", "startPending", "create", "gone", "done", "respondPending"}
        \/ r \in Request
    BY <1>0, <2>1, UnderWay DEF Reads
  <2>4. DataOK' /\ UNCHANGED <<attached, task>>
    BY <1>0, <1>2 DEF Asks, data, DataOK, RecOK, LogOK
  <2>5. Typed
    BY <1>0, <1>1, <2>1, <2>2, <2>3, <2>4 DEF Continues, Suspends
  <2> QED BY <1>0, <2>5, StepTypeInv
<1>3. CASE Creates(q)
  <2>1. PICK pc \in {"guard", "offer"}, c \in RunRecord :
           Moves(q, pc, q, c) /\ IF pc = "guard" THEN Continues(<<"request", q>>) ELSE Suspends
    BY <1>3 DEF Creates
  <2>2. pc \in RequestPC /\ req[q].pc # "done" /\ UNCHANGED <<attached, task>>
    BY <1>3 DEF Creates, RequestPC
  <2>3. DataOK'
    BY <1>0, <1>3 DEF Creates, DataOK, LogOK
  <2>4. Typed
    BY <1>0, <1>1, <2>1, <2>2, <2>3 DEF Continues, Suspends
  <2> QED BY <1>0, <2>4, StepTypeInv
<1>4. CASE Spawns(q)
  <2>1. /\ Moves(q, "done", Nothing, Absent) /\ Spawned(q, req[q].run)
        /\ req[q].run \in Request /\ Suspends
        /\ attached' = [attached EXCEPT ![req[q].run] = q]
    BY <1>4, UnderWay DEF Spawns
  <2>2. DataOK'
    BY <1>0, <1>4 DEF Spawns, data, DataOK, RecOK, LogOK
  <2>3. TaskNamesRun' /\ TaskComesLast' /\ RequestNamesRun'
    BY <2>1 DEF Moves, Spawned, TypeInv, TaskNamesRun, TaskComesLast, RequestNamesRun
  <2>4. RunnerFits'
    BY <1>0, <2>1 DEF Spawned, TypeInv, RunnerFits, AgentSteps, settings
  <2>5. Typed
    BY <1>0, <2>1, <2>2, <2>3, <2>4 DEF Moves, Spawned, Suspends
  <2> QED BY <1>0, <2>5, StepTypeInv
<1>5. ASSUME NEW pc \in {"tell", "attach", "tellCancel"}, NEW status, Saves(q, pc, status),
             req[q].pc \in {"complete", "recover", "cancel"}
      PROVE  TypeInv'
  <2>1. /\ Moves(q, pc, req[q].run, req[q].copy) /\ pc \in RequestPC
        /\ req[q].run \in Request /\ req[q].pc # "done"
        /\ UNCHANGED <<attached, task>> /\ Continues(<<"request", q>>)
    BY <1>5, UnderWay DEF Saves, RequestPC, LockedSteps
  <2>2. DataOK'
    BY <1>0, <1>5 DEF Saves, DataOK, LogOK
  <2>3. Typed
    BY <1>0, <1>1, <2>1, <2>2 DEF Continues
  <2> QED BY <1>0, <2>3, StepTypeInv
<1>6. ASSUME NEW e \in Ends, Tells(q, e), req[q].pc \in {"tell", "tellCancel"}
      PROVE  TypeInv'
  <2>1. /\ Moves(q, "done", Nothing, Absent) /\ "done" \in RequestPC
        /\ req[q].run \in Request /\ req[q].pc # "done"
        /\ UNCHANGED <<attached, task>> /\ Suspends
    BY <1>6, UnderWay DEF Tells, RequestPC
  <2>2. LogOK'
    BY <1>0, <1>6, <2>1, EmitMoves DEF Tells, Event, DataOK
  <2>3. DataOK'
    BY <1>0, <1>6, <2>2 DEF Tells, DataOK, RecOK
  <2>4. Typed
    BY <1>0, <1>1, <2>1, <2>3 DEF Suspends
  <2> QED BY <1>0, <2>4, StepTypeInv
<1>7. CASE Detaches(q)
  <2>1. /\ Moves(q, "cancel", req[q].run, req[q].copy) /\ TaskOK'
        /\ attached' = [attached EXCEPT ![req[q].run] = Nothing]
        /\ req[q].run \in Request /\ req[q].pc = "detach" /\ Continues(<<"request", q>>)
        /\ \A t \in Request : IF t = attached[req[q].run] /\ LiveTask(t)
                              THEN Cancelled(t) ELSE task'[t] = task[t]
    BY <1>7, UnderWay DEF Detaches
  <2>2. DataOK'
    BY <1>0, <1>7 DEF Detaches, data, DataOK, RecOK, LogOK
  <2>3. \A t \in Request : LiveTask(t) => task[t] # NoTask
    BY DEF LiveTask, NoTask
  <2>4. TaskNamesRun' /\ RunnerFits'
    BY <1>0, <2>1, <2>3
       DEF Cancelled, TypeInv, TaskNamesRun, RunnerFits, AgentSteps, settings
  <2>5. TaskComesLast' /\ RequestNamesRun'
    BY <2>1, <2>3 DEF Moves, Cancelled, TypeInv, TaskComesLast, RequestNamesRun
  <2>6. Typed
    BY <1>0, <2>1, <2>2, <2>4, <2>5 DEF Moves, Continues
  <2> QED BY <1>0, <2>6, StepTypeInv
<1>8. "completed" \in Ends /\ "interrupted" \in Ends
  BY DEF Ends
<1> QED BY <1>2, <1>3, <1>4, <1>5, <1>6, <1>7, <1>8, RequestActs

LEMMA StutterTypeInv == TypeInv /\ UNCHANGED vars => TypeInv'
BY DEF vars, settings, data, TypeInv, TypeOK, LogOK, RequestNamesRun, TaskNamesRun,
       TaskComesLast, RunnerFits

LEMMA StepTypes == TypeInv /\ [Next]_vars => TypeInv'
BY RequestTypeInv, TaskTypeInv, DoneTypeInv, StutterTypeInv DEF Next
-----------------------------------------------------------------------------
(* The strict mode, in any store.                                          *)

LEMMA TaskStrict ==
    ASSUME TypeInv, StrictInv, NEW t \in Request, TaskStep(t), mode = "research"
    PROVE  StrictInv'
<1>0. UNCHANGED <<settings, attached, req>>
  BY DEF TaskStep
<1>1. CASE Proceeds(t)
  <2>1. /\ Works(t) /\ OwnData(t) /\ ClosesInOrder(t) /\ KeepsOffScript(t)
        /\ task[t].run \in Request
    BY <1>1, TaskTyped DEF Proceeds, Works
  <2>2. task[t].runner = "research" /\ task[t].pc \notin Script
    BY <2>1 DEF Works, StrictInv, StaysResearch, Script
  <2>3. StaysResearch'
    BY <2>1, <2>2 DEF Works, KeepsOffScript, StrictInv, StaysResearch, Script
  <2>4. EmptyIsAnswered'
    BY <2>1, <2>2 DEF OwnData, StrictInv, EmptyIsAnswered, Script
  <2>5. SuccessIsAnswered'
    BY <2>1 DEF OwnData, StrictInv, SuccessIsAnswered, TasksBacked
  <2>6. RequestsBacked'
    BY <1>0, <2>1 DEF OwnData, StrictInv, RequestsBacked
  <2>7. TasksBacked'
    BY <2>1 DEF Works, OwnData, ClosesInOrder, Closing, StrictInv, TasksBacked
  <2> QED BY <2>3, <2>4, <2>5, <2>6, <2>7 DEF StrictInv
<1>2. CASE CancelDelivered(t)
  <2>1. /\ Works(t) /\ task'[t].pc = "finished" /\ task'[t].runner = task[t].runner
        /\ UNCHANGED data
    BY <1>2, CancelDeliveredWorks DEF CancelDelivered
  <2>2. StaysResearch'
    BY <2>1 DEF Works, StrictInv, StaysResearch
  <2>3. EmptyIsAnswered' /\ SuccessIsAnswered' /\ RequestsBacked'
    BY <1>0, <2>1 DEF data, StrictInv, EmptyIsAnswered, SuccessIsAnswered, RequestsBacked
  <2>4. TasksBacked'
    BY <2>1 DEF data, Works, StrictInv, TasksBacked
  <2> QED BY <2>2, <2>3, <2>4 DEF StrictInv
<1> QED BY <1>1, <1>2, TaskProceeds

LEMMA DoneStrict ==
    ASSUME TypeInv, StrictInv, NEW t \in Request, OnTaskDone(t)
    PROVE  StrictInv'
<1>1. DoneWorks(t) /\ UNCHANGED <<settings, data, req>>
  BY DoneMoves DEF OnTaskDone
<1>2. StaysResearch'
  BY <1>1 DEF DoneWorks, Works, StrictInv, StaysResearch
<1>3. EmptyIsAnswered' /\ SuccessIsAnswered' /\ RequestsBacked'
  BY <1>1 DEF data, StrictInv, EmptyIsAnswered, SuccessIsAnswered, RequestsBacked
<1>4. TasksBacked'
  BY <1>1 DEF data, DoneWorks, Works, StrictInv, TasksBacked
<1> QED BY <1>2, <1>3, <1>4 DEF StrictInv

LEMMA RequestStrict ==
    ASSUME TypeInv, StrictInv, NEW q \in Request, RequestStep(q), mode = "research"
    PROVE  StrictInv'
<1>0. UNCHANGED settings
  BY DEF RequestStep
<1>1. CASE Asks(q)
  <2>1. PICK pc \in RequestPC, r \in Request \cup {Nothing}, c \in RunRecord :
           Moves(q, pc, r, c) /\ Reads(q, pc, r, c)
    BY <1>1 DEF Asks
  <2>2. UNCHANGED <<data, attached, task>>
    BY <1>1 DEF Asks
  <2>3. RequestsBacked'
    <3>1. req'[q].pc \in Checked => req'[q].copy.status \in Active
      BY <2>1 DEF Moves, Reads, Checked, StrictInv, RequestsBacked
    <3>2. req'[q].pc = "complete" => req'[q].run \in answered
      <4>1. SUFFICES ASSUME pc = "complete" PROVE r \in answered
        BY <2>1 DEF Moves
      <4>2. r = req[q].run /\ req[q].pc = "history" /\ next[r] = "empty"
        BY <2>1, <4>1 DEF Reads
      <4>3. r \in Request
        BY <4>2, UnderWay
      <4> QED BY <4>2, <4>3 DEF StrictInv, EmptyIsAnswered
    <3> QED BY <2>1, <2>2, <3>1, <3>2 DEF Moves, data, StrictInv, RequestsBacked
  <2> QED BY <2>2, <2>3 DEF data, StrictInv, StaysResearch, EmptyIsAnswered,
                            SuccessIsAnswered, TasksBacked
<1>2. CASE Creates(q)
  <2>1. PICK pc \in {"guard", "offer"}, c \in RunRecord : Moves(q, pc, q, c)
    BY <1>2 DEF Creates
  <2>2. SuccessIsAnswered'
    BY <1>2 DEF Creates, StrictInv, SuccessIsAnswered
  <2>3. RequestsBacked'
    BY <1>2, <2>1 DEF Creates, Moves, Checked, StrictInv, RequestsBacked
  <2> QED BY <1>2, <2>2, <2>3 DEF Creates, StrictInv, StaysResearch, EmptyIsAnswered,
                                  TasksBacked
<1>3. CASE Spawns(q)
  <2>1. /\ Moves(q, "done", Nothing, Absent) /\ UNCHANGED data
        /\ Spawned(q, req[q].run)
    BY <1>3 DEF Spawns
  <2>2. RequestsBacked'
    BY <2>1 DEF Moves, Checked, data, StrictInv, RequestsBacked
  <2>3. StaysResearch'
    BY <2>1 DEF Spawned, StrictInv, StaysResearch
  <2>4. TasksBacked'
    BY <2>1 DEF Spawned, data, StrictInv, TasksBacked
  <2> QED BY <2>1, <2>2, <2>3, <2>4 DEF data, StrictInv, EmptyIsAnswered, SuccessIsAnswered
<1>4. ASSUME NEW pc \in {"tell", "attach", "tellCancel"}, NEW status, Saves(q, pc, status),
             req[q].pc \in {"complete", "recover", "cancel"},
             status = "success" => req[q].run \in answered,
             pc = "attach" => req[q].pc = "recover"
      PROVE  StrictInv'
  <2>1. SuccessIsAnswered'
    BY <1>4 DEF Saves, StrictInv, SuccessIsAnswered
  <2>2. RequestsBacked'
    BY <1>4 DEF Saves, Moves, Checked, StrictInv, RequestsBacked
  <2> QED BY <1>4, <2>1, <2>2 DEF Saves, StrictInv, StaysResearch, EmptyIsAnswered,
                                  TasksBacked
<1>5. CASE req[q].pc = "complete" /\ Saves(q, "tell", "success")
  BY <1>4, <1>5 DEF StrictInv, RequestsBacked
<1>6. CASE req[q].pc = "recover" /\ Saves(q, "attach", req[q].copy.status)
  <2>1. req[q].copy.status # "success"
    BY <1>6 DEF StrictInv, RequestsBacked, Checked, Active
  <2> QED BY <1>4, <1>6, <2>1
<1>7. CASE req[q].pc = "cancel" /\ Saves(q, "tellCancel", "interrupted")
  BY <1>4, <1>7
<1>8. ASSUME NEW e, Tells(q, e)
      PROVE  StrictInv'
  <2>1. RequestsBacked'
    BY <1>8 DEF Tells, Moves, Checked, StrictInv, RequestsBacked
  <2> QED BY <1>8, <2>1 DEF Tells, StrictInv, StaysResearch, EmptyIsAnswered,
                            SuccessIsAnswered, TasksBacked
<1>9. CASE Detaches(q)
  <2>1. /\ Moves(q, "cancel", req[q].run, req[q].copy) /\ UNCHANGED data
        /\ \A t \in Request : IF t = attached[req[q].run] /\ LiveTask(t)
                              THEN Cancelled(t) ELSE task'[t] = task[t]
    BY <1>9 DEF Detaches
  <2>2. RequestsBacked'
    BY <2>1 DEF Moves, Checked, data, StrictInv, RequestsBacked
  <2>3. StaysResearch'
    <3>1. \A t \in Request : LiveTask(t) => task[t] # NoTask
      BY DEF LiveTask, NoTask
    <3> QED BY <2>1, <3>1 DEF Cancelled, StrictInv, StaysResearch
  <2>4. TasksBacked'
    BY <2>1 DEF Cancelled, data, StrictInv, TasksBacked
  <2> QED BY <2>1, <2>2, <2>3, <2>4 DEF data, StrictInv, EmptyIsAnswered, SuccessIsAnswered
<1> QED BY <1>1, <1>2, <1>3, <1>5, <1>6, <1>7, <1>8, <1>9, RequestActs
-----------------------------------------------------------------------------
(* The undisturbed process: the steps of tasks.                            *)

LEMMA ActiveOrTerminal == Active \cap Terminal = {} /\ "absent" \notin Active \cup Terminal
BY DEF Active, Terminal

\* While a task runs no request is under way, and no other task is telling.
LEMMA LoopIsFree ==
    ASSUME TypeInv, LoopInv, NEW t \in Request, holder \in {Nothing, <<"task", t>>}
    PROVE  /\ \A q \in Request : Quiet(q)
           /\ \A r \in Request : ~Cancelling(r)
           /\ \A u \in Request : task[u].pc = "tell" => u = t
           /\ \A r \in Request : Telling(r) => task[t].pc = "tell" /\ task[t].run = r
<1>1. \A q \in Request : holder # <<"request", q>>
  BY ConstantsAssumption
<1>2. \A q \in Request : Quiet(q)
  BY <1>1 DEF LoopInv, HoldsLoop
<1>3. \A u \in Request : holder = <<"task", u>> => u = t
  BY ConstantsAssumption
<1> QED BY <1>1, <1>2, <1>3 DEF Cancelling, Telling, LoopInv, TellHolds

\* What is known of a task that goes on, and of its run.
LEMMA WorkingAlone ==
    ASSUME TypeInv, LoopInv, NEW t \in Request, TaskStep(t), Undisturbed,
           Proceeds(t), ~task[t].cancelled
    PROVE  /\ Works(t) /\ OwnData(t) /\ ClosesInOrder(t) /\ GoesOn(t) /\ ChildrenAtGather
           /\ LogOK /\ DataOK'
           /\ UNCHANGED <<settings, attached, req>>
           /\ LiveTask(t) /\ task[t].run \in Request /\ attached[task[t].run] = t
           /\ task[t].pc # "tell" => rec[task[t].run].status \in Active
           /\ holder \in {Nothing, <<"task", t>>}
<1>1. /\ Works(t) /\ OwnData(t) /\ ClosesInOrder(t) /\ GoesOn(t)
      /\ LogOK /\ DataOK' /\ ChildrenAtGather
      /\ UNCHANGED <<settings, attached, req>> /\ holder \in {Nothing, <<"task", t>>}
  BY Types DEF Proceeds, TaskStep, Runs, LoopInv
<1>2. LiveTask(t) /\ task[t].run \in Request
  BY <1>1, TaskTyped DEF Works, GoesOn, LiveTask
<1> QED BY <1>1, <1>2 DEF LoopInv, LiveDrives

\* A task that was created names its run.
LEMMA BegunTask ==
    ASSUME TypeInv, NEW t \in Request, task[t].pc # "none"
    PROVE  task[t] # NoTask /\ task[t].run \in Request
<1>1. task[t] # NoTask
  BY DEF NoTask
<1> QED BY <1>1, TaskTyped

LEMMA TaskAdvances ==
    ASSUME TypeInv, LoopInv, NEW t \in Request, TaskStep(t), Undisturbed,
           Proceeds(t), ~task[t].cancelled, task[t].pc \notin {"save", "tell"}
    PROVE  LoopInv'
<1> DEFINE r == task[t].run
<1>0. /\ Works(t) /\ OwnData(t) /\ ClosesInOrder(t) /\ GoesOn(t) /\ ChildrenAtGather
      /\ UNCHANGED <<settings, attached, req>>
      /\ LiveTask(t) /\ r \in Request /\ attached[r] = t /\ rec[r].status \in Active
      /\ holder \in {Nothing, <<"task", t>>} /\ LogOK /\ store = "memory"
  BY WorkingAlone DEF Undisturbed
<1>1. /\ \A q \in Request : Quiet(q)
      /\ \A s \in Request : ~Cancelling(s) /\ ~Telling(s)
      /\ \A u \in Request : task[u].pc # "tell"
  BY <1>0, LoopIsFree
<1>2. /\ task'[t].pc \notin {"none", "tell"} \cup Finished
      /\ task'[t].run = r /\ task'[t] # NoTask /\ ~task'[t].cancelled
      /\ \A u \in Request : u # t => task'[u] = task[u]
  BY <1>0 DEF GoesOn, Works, Finished, NoTask
<1>3. /\ rec'[r].status \in Active
      /\ \A s \in Request : s # r => rec'[s] = rec[s] /\ next'[s] = next[s]
  BY <1>0 DEF OwnData, Active
<1>4. \A s \in Request : Closed(s)' <=> Closed(s)
  <2>1. CASE log' = log
    BY <2>1 DEF Closed
  <2>2. CASE \E e \in Event : Emit(r, e) /\ e \notin Ends
    BY <1>0, <2>2, EmitMoves
  <2> QED BY <1>0, <2>1, <2>2 DEF OwnData
<1>5. HoldsLoop' /\ TellHolds'
  BY <1>0, <1>1, <1>2 DEF HoldsLoop, TellHolds, Quiet
<1>6. LiveDrives'
  BY <1>0, <1>1, <1>2, <1>3, BegunTask DEF LoopInv, LiveDrives, LiveTask
<1>7. AttachedIsOwn'
  BY <1>0, <1>2 DEF LoopInv, AttachedIsOwn
<1>8. EndedIsRecorded'
  <2>1. ASSUME NEW u \in Request, u # t
        PROVE  /\ task'[u].pc \in Finished => rec'[task'[u].run].status \in Terminal
               /\ LiveTask(u)' /\ task'[u].cancelled => rec'[task'[u].run].status \in Terminal
    <3>1. task'[u] = task[u]
      BY <1>2, <2>1
    <3>2. /\ task[u].pc \in Finished => rec[task[u].run].status \in Terminal
          /\ LiveTask(u) /\ task[u].cancelled => rec[task[u].run].status \in Terminal
      BY <1>1, BegunTask DEF LoopInv, EndedIsRecorded, LiveTask
    <3>3. LiveTask(u) \/ task[u].pc \in Finished => task[u].run \in Request
      BY BegunTask DEF LiveTask, Finished
    <3> QED BY <1>0, <1>3, <3>1, <3>2, <3>3, ActiveOrTerminal DEF LiveTask, Finished
  <2> QED BY <1>2, <2>1 DEF EndedIsRecorded, LiveTask
<1>9. OneDriver'
  BY <1>0, <1>2 DEF LoopInv, OneDriver, Drives, LiveTask
<1>10. SuccessIsSaved'
  <2>1. \A s \in Request : rec'[s].status = "success" => s \in answered' /\ s \in snapshots'
    BY <1>0, <1>3 DEF LoopInv, SuccessIsSaved, OwnData, Active
  <2>2. TasksBacked'
    BY <1>0, <1>2 DEF LoopInv, SuccessIsSaved, TasksBacked, OwnData, ClosesInOrder, Closing
  <2>3. \A u \in Request : task'[u].pc \in {"save", "tell"} => task'[u].run \in snapshots'
    BY <1>0, <1>2 DEF LoopInv, SuccessIsSaved, OwnData, ClosesInOrder
  <2> QED BY <2>1, <2>2, <2>3 DEF SuccessIsSaved
<1>11. ChildrenAtGather'
  BY <1>0, <1>2 DEF GoesOn, ChildrenAtGather
<1>12. OneActive'
  BY <1>0, <1>3 DEF LoopInv, OneActive
<1>13. AbsentIsNew'
  BY <1>0, <1>3, ActiveOrTerminal DEF LoopInv, AbsentIsNew
<1>14. ClosedIsEnded' /\ EndedIsTold'
  BY <1>0, <1>1, <1>3, <1>4, ActiveOrTerminal DEF LoopInv, ClosedIsEnded, EndedIsTold
<1>15. EmptyHasTask'
  <2>1. \A s \in Request : Attached(s) => Attached(s)'
    <3>1. \A s \in Request : attached[s] \in Request \cup {Nothing}
      BY DEF TypeInv, TypeOK
    <3> QED BY <1>0, <1>2, <3>1 DEF Attached, LiveTask
  <2>2. Attached(r)
    BY <1>0, ConstantsAssumption DEF Attached
  <2> QED BY <1>1, <1>3, <2>1, <2>2 DEF LoopInv, EmptyHasTask
<1>16. RequestsKnow'
  <2>1. ASSUME NEW q \in Request
        PROVE  Knows(q)'
    <3>1. req'[q] = req[q] /\ req[q].pc \in {"new", "offer", "gone", "done"} /\ Knows(q)
      BY <1>0, <1>1 DEF Quiet, LoopInv, RequestsKnow
    <3>2. req[q].pc = "new" => rec'[q] = Absent
      BY <1>0, <1>3, <3>1, ActiveOrTerminal DEF Knows, Absent
    <3>3. req[q].pc = "offer" => rec'[req[q].run].status # "absent"
      BY <1>0, <1>3, <3>1, ActiveOrTerminal, UnderWay DEF Knows
    <3> QED BY <3>1, <3>2, <3>3 DEF Knows, Checked
  <2> QED BY <2>1 DEF RequestsKnow
<1> QED BY <1>5, <1>6, <1>7, <1>8, <1>9, <1>10, <1>11, <1>12, <1>13, <1>14, <1>15, <1>16
        DEF LoopInv

LEMMA TaskSaves ==
    ASSUME TypeInv, LoopInv, NEW t \in Request, TaskStep(t), Undisturbed,
           Proceeds(t), ~task[t].cancelled, task[t].pc = "save"
    PROVE  LoopInv'
<1> DEFINE r == task[t].run
<1>0. /\ Works(t) /\ OwnData(t) /\ ClosesInOrder(t) /\ GoesOn(t) /\ ChildrenAtGather
      /\ UNCHANGED <<settings, attached, req>>
      /\ LiveTask(t) /\ r \in Request /\ attached[r] = t /\ rec[r].status \in Active
      /\ holder \in {Nothing, <<"task", t>>} /\ store = "memory"
  BY WorkingAlone DEF Undisturbed
<1>1. /\ \A q \in Request : Quiet(q)
      /\ \A s \in Request : ~Cancelling(s) /\ ~Telling(s)
      /\ \A u \in Request : task[u].pc # "tell"
  BY <1>0, LoopIsFree
<1>2. /\ task'[t].pc = "tell" /\ holder' = <<"task", t>> /\ log' = log
      /\ task'[t].target = task[t].target /\ rec'[r].status = task[t].target
      /\ task[t].target \in Terminal
      /\ task'[t].run = r /\ task'[t] # NoTask /\ ~task'[t].cancelled
      /\ \A u \in Request : u # t => task'[u] = task[u]
  BY <1>0, TaskTyped DEF GoesOn, Works, NoTask
<1>3. \A s \in Request : s # r => rec'[s] = rec[s] /\ next'[s] = next[s]
  BY <1>0 DEF OwnData
<1>4. \A s \in Request : Closed(s)' <=> Closed(s)
  BY <1>2 DEF Closed
<1>5. ~Closed(r)
  BY <1>0, ActiveOrTerminal DEF LoopInv, ClosedIsEnded
<1>6. HoldsLoop' /\ TellHolds'
  BY <1>0, <1>1, <1>2 DEF HoldsLoop, TellHolds, Quiet
<1>7. LiveDrives'
  BY <1>0, <1>1, <1>2, <1>3, <1>4, <1>5, BegunTask DEF LoopInv, LiveDrives, LiveTask
<1>8. AttachedIsOwn'
  BY <1>0, <1>2 DEF LoopInv, AttachedIsOwn
<1>9. EndedIsRecorded'
  <2>1. ASSUME NEW u \in Request, u # t
        PROVE  /\ task'[u].pc \in Finished => rec'[task'[u].run].status \in Terminal
               /\ LiveTask(u)' /\ task'[u].cancelled => rec'[task'[u].run].status \in Terminal
    <3>1. task'[u] = task[u]
      BY <1>2, <2>1
    <3>2. /\ task[u].pc \in Finished => rec[task[u].run].status \in Terminal
          /\ LiveTask(u) /\ task[u].cancelled => rec[task[u].run].status \in Terminal
      BY <1>1, BegunTask DEF LoopInv, EndedIsRecorded, LiveTask
    <3>3. LiveTask(u) \/ task[u].pc \in Finished => task[u].run \in Request
      BY BegunTask DEF LiveTask, Finished
    <3> QED BY <1>2, <1>3, <3>1, <3>2, <3>3 DEF LiveTask
  <2> QED BY <1>2, <2>1 DEF EndedIsRecorded, Finished
<1>10. OneDriver'
  BY <1>0, <1>2 DEF LoopInv, OneDriver, Drives, LiveTask
<1>11. SuccessIsSaved'
  <2>1. r \in snapshots /\ (task[t].target = "success" => r \in answered)
    BY <1>0 DEF LoopInv, SuccessIsSaved, TasksBacked
  <2>2. \A s \in Request : rec'[s].status = "success" => s \in answered' /\ s \in snapshots'
    BY <1>0, <1>2, <1>3, <2>1 DEF LoopInv, SuccessIsSaved, OwnData
  <2>3. TasksBacked'
    BY <1>0, <1>2 DEF LoopInv, SuccessIsSaved, TasksBacked, OwnData, ClosesInOrder, Closing
  <2>4. \A u \in Request : task'[u].pc \in {"save", "tell"} => task'[u].run \in snapshots'
    BY <1>0, <1>2, <2>1 DEF LoopInv, SuccessIsSaved, OwnData
  <2> QED BY <2>2, <2>3, <2>4 DEF SuccessIsSaved
<1>12. ChildrenAtGather'
  BY <1>0, <1>2 DEF GoesOn, ChildrenAtGather
<1>13. OneActive'
  BY <1>0, <1>2, <1>3, ActiveOrTerminal DEF LoopInv, OneActive
<1>14. AbsentIsNew'
  BY <1>0, <1>2, <1>3, ActiveOrTerminal DEF LoopInv, AbsentIsNew
<1>15. ClosedIsEnded' /\ EndedIsTold'
  <2>1. Telling(r)'
    BY <1>2 DEF Telling
  <2> QED BY <1>0, <1>1, <1>2, <1>3, <1>4, <2>1 DEF LoopInv, ClosedIsEnded, EndedIsTold
<1>16. EmptyHasTask'
  <2>1. \A s \in Request : Attached(s) => Attached(s)'
    <3>1. \A s \in Request : attached[s] \in Request \cup {Nothing}
      BY DEF TypeInv, TypeOK
    <3> QED BY <1>0, <1>2, <3>1 DEF Attached, LiveTask, Finished
  <2> QED BY <1>1, <1>2, <1>3, <2>1, ActiveOrTerminal DEF LoopInv, EmptyHasTask
<1>17. RequestsKnow'
  <2>1. ASSUME NEW q \in Request
        PROVE  Knows(q)'
    <3>1. req'[q] = req[q] /\ req[q].pc \in {"new", "offer", "gone", "done"} /\ Knows(q)
      BY <1>0, <1>1 DEF Quiet, LoopInv, RequestsKnow
    <3>2. req[q].pc = "new" => rec'[q] = Absent
      BY <1>0, <1>3, <3>1, ActiveOrTerminal DEF Knows, Absent
    <3>3. req[q].pc = "offer" => rec'[req[q].run].status # "absent"
      BY <1>2, <1>3, <3>1, ActiveOrTerminal, UnderWay DEF Knows
    <3> QED BY <3>1, <3>2, <3>3 DEF Knows, Checked
  <2> QED BY <2>1 DEF RequestsKnow
<1> QED BY <1>6, <1>7, <1>8, <1>9, <1>10, <1>11, <1>12, <1>13, <1>14, <1>15, <1>16, <1>17
        DEF LoopInv

\* A task that ends without a write leaves the data of LoopInv in place.
EndsQuietly(t) ==
    /\ Works(t) /\ task'[t].pc \in Finished
    /\ \A s \in Subagent : task'[t].child[s] \notin {"ready", "closing"}
    /\ UNCHANGED <<rec, next, answered, snapshots, req>>
    /\ rec[task[t].run].status \in Terminal
    /\ holder' = Nothing
    /\ \A r \in Request : /\ attached'[r] # attached[r] => attached'[r] = Nothing
                          /\ attached'[r] # attached[r] => rec[r].status \in Terminal
    /\ \A r \in Request : rec[r].status \in Terminal => Closed(r)'
    /\ \A r \in Request : Closed(r)' => rec[r].status \in Terminal
    /\ \A q \in Request : Quiet(q)
    /\ \A r \in Request : ~Cancelling(r)
    /\ \A u \in Request : u # t => task[u].pc # "tell"

LEMMA QuietEnd ==
    ASSUME TypeInv, LoopInv, NEW t \in Request, EndsQuietly(t)
    PROVE  LoopInv'
<1> DEFINE r == task[t].run
<1>0. /\ \A u \in Request : u # t => task'[u] = task[u]
      /\ task'[t].run = r /\ task'[t].cancelled = task[t].cancelled
      /\ task'[t].pc \in Finished /\ r \in Request
  BY TaskTyped DEF EndsQuietly, Works
<1>1. \A s \in Request : attached[s] \in Request \cup {Nothing}
  BY DEF TypeInv, TypeOK
<1>2. Nothing \notin Request
  BY ConstantsAssumption
<1>3. HoldsLoop' /\ TellHolds'
  BY <1>0 DEF EndsQuietly, HoldsLoop, TellHolds, Quiet, Finished
<1>4. LiveDrives'
  <2>1. ASSUME NEW u \in Request, LiveTask(u)', ~task'[u].cancelled
        PROVE  /\ attached'[task'[u].run] = u /\ task'[u].pc # "tell"
               /\ rec'[task'[u].run].status \in Active
    <3>1. u # t /\ task'[u] = task[u] /\ LiveTask(u) /\ task[u].pc # "tell"
      BY <1>0, <2>1 DEF LiveTask, EndsQuietly
    <3>2. task[u].run \in Request
      BY <3>1, BegunTask DEF LiveTask
    <3>3. attached[task[u].run] = u /\ rec[task[u].run].status \in Active
      BY <2>1, <3>1 DEF LoopInv, LiveDrives
    <3> QED BY <3>1, <3>2, <3>3, ActiveOrTerminal DEF EndsQuietly
  <2> QED BY <2>1 DEF LiveDrives
<1>5. AttachedIsOwn'
  <2>1. task'[t] # NoTask
    BY <1>0 DEF NoTask, Finished
  <2> QED BY <1>0, <1>1, <1>2, <2>1 DEF EndsQuietly, LoopInv, AttachedIsOwn
<1>6. EndedIsRecorded'
  <2>1. ASSUME NEW u \in Request, u # t
        PROVE  /\ task'[u].pc \in Finished => rec'[task'[u].run].status \in Terminal
               /\ LiveTask(u)' /\ task'[u].cancelled => rec'[task'[u].run].status \in Terminal
    <3>1. task'[u] = task[u]
      BY <1>0, <2>1
    <3>2. /\ task[u].pc \in Finished => rec[task[u].run].status \in Terminal
          /\ LiveTask(u) /\ task[u].cancelled => rec[task[u].run].status \in Terminal
      BY BegunTask DEF EndsQuietly, LoopInv, EndedIsRecorded, LiveTask
    <3> QED BY <3>1, <3>2 DEF LiveTask, EndsQuietly
  <2> QED BY <1>0, <2>1 DEF EndedIsRecorded, EndsQuietly, LiveTask
<1>7. OneDriver'
  BY <1>0 DEF LoopInv, OneDriver, Drives, LiveTask
<1>8. SuccessIsSaved'
  BY <1>0 DEF EndsQuietly, LoopInv, SuccessIsSaved, TasksBacked, Finished
<1>9. ChildrenAtGather'
  BY <1>0 DEF EndsQuietly, LoopInv, ChildrenAtGather
<1>10. OneActive' /\ AbsentIsNew' /\ ClosedIsEnded' /\ EndedIsTold'
  BY DEF EndsQuietly, LoopInv, OneActive, AbsentIsNew, ClosedIsEnded, EndedIsTold
<1>11. EmptyHasTask'
  <2>1. ASSUME NEW s \in Request, next[s] = "empty", rec[s].status \in Active
        PROVE  Attached(s)'
    <3>1. Attached(s) /\ attached'[s] = attached[s] /\ s # r
      BY <2>1, ActiveOrTerminal DEF EndsQuietly, LoopInv, EmptyHasTask
    <3>2. attached[s] # t
      BY <3>1 DEF LoopInv, AttachedIsOwn
    <3> QED BY <1>0, <1>1, <3>1, <3>2 DEF Attached, LiveTask
  <2> QED BY <2>1 DEF EmptyHasTask, EndsQuietly
<1>12. RequestsKnow'
  <2>1. ASSUME NEW q \in Request
        PROVE  Knows(q)'
    <3>1. req'[q] = req[q] /\ req[q].pc \in {"new", "offer", "gone", "done"} /\ Knows(q)
          /\ rec' = rec
      BY DEF EndsQuietly, Quiet, LoopInv, RequestsKnow
    <3> QED BY <3>1 DEF Knows, Checked
  <2> QED BY <2>1 DEF RequestsKnow
<1> QED BY <1>3, <1>4, <1>5, <1>6, <1>7, <1>8, <1>9, <1>10, <1>11, <1>12 DEF LoopInv

LEMMA TaskTells ==
    ASSUME TypeInv, LoopInv, NEW t \in Request, TaskStep(t), Undisturbed,
           Proceeds(t), ~task[t].cancelled, task[t].pc = "tell"
    PROVE  LoopInv'
<1>r. PICK r \in Request : r = task[t].run
  BY WorkingAlone
<1>0. /\ Works(t) /\ OwnData(t) /\ GoesOn(t) /\ ChildrenAtGather /\ LogOK
      /\ UNCHANGED <<settings, attached, req>>
      /\ LiveTask(t) /\ r = task[t].run /\ holder \in {Nothing, <<"task", t>>}
  BY <1>r, WorkingAlone
<1>1. /\ \A q \in Request : Quiet(q)
      /\ \A s \in Request : ~Cancelling(s) /\ (Telling(s) => s = r)
      /\ \A u \in Request : u # t => task[u].pc # "tell"
  BY <1>0, LoopIsFree
<1>2. /\ task'[t].pc = "finished" /\ rec' = rec
      /\ \A s \in Subagent : task'[t].child[s] \notin {"ready", "closing"}
  BY <1>0 DEF GoesOn
<1>3. PICK e \in Ends : Emit(r, e)
  BY <1>0 DEF GoesOn
<1>4. Closed(r)' /\ \A s \in Request : s # r => (Closed(s)' <=> Closed(s))
  <2>1. e \in Event
    BY DEF Event
  <2> QED BY <1>0, <1>3, <2>1, EmitMoves
<1>5. rec[r].status \in Terminal
  BY <1>0, TaskTyped DEF LoopInv, LiveDrives, Works
<1>6. UNCHANGED <<rec, next, answered, snapshots>> /\ holder' = Nothing
  <2>1. TellOutcome(t)
    BY <1>0, <1>2 DEF TaskStep, TaskBegins, Prepare, MarkRunning, AnnounceRunning,
         SaveInitialState, AgentBuilt, AgentUnavailable, AgentBroken, AgentEvent, StreamEnds,
         CommitPlan, Plan, GatherResults, SaveFinalState, PersistSnapshot, SaveOutcome,
         StoreFails, SubagentWorks, SubagentCompletes, SubagentFails, CancelDelivered,
         ChildrenAtGather, Undisturbed
  <2> QED BY <2>1 DEF TellOutcome, Suspends
<1>7. \A s \in Request : rec[s].status \in Terminal <=> Closed(s)'
  BY <1>1, <1>4, <1>5 DEF LoopInv, ClosedIsEnded, EndedIsTold
<1>8. EndsQuietly(t)
  BY <1>0, <1>1, <1>2, <1>5, <1>6, <1>7 DEF EndsQuietly, Finished
<1> QED BY <1>8, QuietEnd

LEMMA CancelEnds ==
    ASSUME TypeInv, LoopInv, NEW t \in Request, TaskStep(t), CancelDelivered(t)
    PROVE  LoopInv'
<1>0. /\ Works(t) /\ LiveTask(t) /\ task[t].cancelled /\ task'[t].pc = "finished"
      /\ UNCHANGED <<data, attached, req>> /\ holder' = Nothing
      /\ \A s \in Subagent : task'[t].child[s] \notin {"ready", "closing"}
      /\ holder \in {Nothing, <<"task", t>>}
  BY CancelDeliveredWorks DEF TaskStep, CancelDelivered, Suspends, Runs
<1>1. task[t].pc # "tell"
  BY <1>0 DEF LoopInv, TellHolds
<1>2. /\ \A q \in Request : Quiet(q)
      /\ \A s \in Request : ~Cancelling(s) /\ ~Telling(s)
      /\ \A u \in Request : task[u].pc # "tell"
  BY <1>0, <1>1, LoopIsFree
<1>3. rec[task[t].run].status \in Terminal /\ task[t].run \in Request
  BY <1>0, <1>2, BegunTask DEF LoopInv, EndedIsRecorded, LiveTask
<1>4. \A r \in Request : Closed(r)' <=> Closed(r)
  BY <1>0 DEF data, Closed
<1>5. EndsQuietly(t)
  BY <1>0, <1>2, <1>3, <1>4
     DEF EndsQuietly, Finished, data, LoopInv, ClosedIsEnded, EndedIsTold
<1> QED BY <1>5, QuietEnd

LEMMA DoneLeaves ==
    ASSUME TypeInv, LoopInv, NEW t \in Request, OnTaskDone(t)
    PROVE  LoopInv'
<1>0. /\ DoneWorks(t) /\ UNCHANGED <<data, req>> /\ holder = Nothing /\ holder' = Nothing
      /\ attached' = [attached EXCEPT ![task[t].run] = Nothing]
      /\ task[t].run \in Request
  BY DoneMoves, BegunTask DEF OnTaskDone
<1>1. /\ \A q \in Request : Quiet(q)
      /\ \A s \in Request : ~Cancelling(s) /\ ~Telling(s)
      /\ \A u \in Request : task[u].pc # "tell"
  BY <1>0, LoopIsFree DEF DoneWorks
<1>2. rec[task[t].run].status \in Terminal
  BY <1>0 DEF LoopInv, EndedIsRecorded, DoneWorks, Finished
<1>3. \A r \in Request : Closed(r)' <=> Closed(r)
  BY <1>0 DEF data, Closed
<1>4. \A r \in Request : attached'[r] # attached[r] => r = task[t].run /\ attached'[r] = Nothing
  BY <1>0 DEF TypeInv, TypeOK
<1>5. \A s \in Subagent : task'[t].child[s] \notin {"ready", "closing"}
  BY <1>0 DEF DoneWorks, LoopInv, ChildrenAtGather
<1>6. EndsQuietly(t)
  BY <1>0, <1>1, <1>2, <1>3, <1>4, <1>5
     DEF EndsQuietly, DoneWorks, Finished, data, LoopInv, ClosedIsEnded, EndedIsTold
<1> QED BY <1>6, QuietEnd

LEMMA TaskLoop ==
    ASSUME TypeInv, LoopInv, NEW t \in Request, TaskStep(t), Undisturbed
    PROVE  LoopInv'
<1>1. CASE CancelDelivered(t)
  BY <1>1, CancelEnds
<1>2. CASE Proceeds(t) /\ ~task[t].cancelled
  BY <1>2, TaskAdvances, TaskSaves, TaskTells
<1> QED BY <1>1, <1>2, TaskProceeds DEF Undisturbed
-----------------------------------------------------------------------------
(* The undisturbed process: the steps of requests.                         *)

LEMMA RequestAlone ==
    ASSUME TypeInv, LoopInv, NEW q \in Request, RequestStep(q)
    PROVE  /\ holder \in {Nothing, <<"request", q>>}
           /\ \A p \in Request : p # q => Quiet(p)
           /\ \A u \in Request : task[u].pc # "tell"
           /\ \A r \in Request : Cancelling(r) => req[q].pc = "cancel" /\ req[q].run = r
           /\ \A r \in Request : Telling(r) => req[q].pc = "tellCancel" /\ req[q].run = r
           /\ Knows(q)
<1>1. holder \in {Nothing, <<"request", q>>}
  BY DEF RequestStep, Runs
<1>2. /\ \A u \in Request : holder # <<"task", u>>
      /\ \A p \in Request : holder = <<"request", p>> => p = q
  BY <1>1, ConstantsAssumption
<1> QED BY <1>1, <1>2
        DEF LoopInv, HoldsLoop, TellHolds, Cancelling, Telling, RequestsKnow

\* What is left to show when only a request moves on.
LEMMA RequestMovesOn ==
    ASSUME TypeInv, LoopInv, NEW q \in Request, RequestStep(q), Undisturbed,
           NEW pc \in RequestPC, NEW r, NEW c, Moves(q, pc, r, c),
           UNCHANGED <<data, attached, task>>,
           req[q].pc \notin {"cancel", "tellCancel"},
           \/ Suspends /\ pc \in {"offer", "gone", "done"}
           \/ Continues(<<"request", q>>),
           Knows(q)'
    PROVE  LoopInv'
<1>0. /\ \A p \in Request : p # q => Quiet(p)
      /\ \A u \in Request : task[u].pc # "tell"
      /\ \A s \in Request : ~Cancelling(s) /\ ~Telling(s)
  BY RequestAlone
<1>1. \A s \in Request : Closed(s)' <=> Closed(s)
  BY DEF data, Closed
<1>2. HoldsLoop' /\ TellHolds'
  BY <1>0 DEF Moves, HoldsLoop, TellHolds, Quiet, Suspends, Continues, Undisturbed
<1>3. LiveDrives' /\ AttachedIsOwn' /\ OneDriver' /\ ChildrenAtGather'
  BY <1>0, <1>1 DEF LoopInv, LiveDrives, AttachedIsOwn, OneDriver, Drives, LiveTask,
                    ChildrenAtGather, data
<1>4. EndedIsRecorded'
  <2>1. \A u \in Request : LiveTask(u) => task[u].run \in Request
    BY BegunTask DEF LiveTask
  <2> QED BY <1>0, <2>1 DEF LoopInv, EndedIsRecorded, LiveTask, data
<1>5. SuccessIsSaved' /\ OneActive' /\ AbsentIsNew'
  BY DEF LoopInv, SuccessIsSaved, TasksBacked, OneActive, AbsentIsNew, data
<1>6. ClosedIsEnded' /\ EndedIsTold' /\ EmptyHasTask'
  BY <1>0, <1>1 DEF LoopInv, ClosedIsEnded, EndedIsTold, EmptyHasTask, Attached, LiveTask, data
<1>7. RequestsKnow'
  <2>1. ASSUME NEW p \in Request, p # q
        PROVE  Knows(p)'
    <3>1. req'[p] = req[p] /\ req[p].pc \in {"new", "offer", "gone", "done"} /\ Knows(p)
          /\ rec' = rec
      BY <1>0, <2>1 DEF Moves, Quiet, LoopInv, RequestsKnow, data
    <3> QED BY <3>1 DEF Knows, Checked
  <2> QED BY <2>1 DEF RequestsKnow
<1> QED BY <1>2, <1>3, <1>4, <1>5, <1>6, <1>7 DEF LoopInv

LEMMA AskLoop ==
    ASSUME TypeInv, LoopInv, NEW q \in Request, RequestStep(q), Undisturbed, Asks(q)
    PROVE  LoopInv'
<1>1. PICK pc \in RequestPC, r \in Request \cup {Nothing}, c \in RunRecord :
         /\ Moves(q, pc, r, c) /\ Reads(q, pc, r, c)
         /\ \/ Suspends /\ pc \in {"done", "gone"}
            \/ Continues(<<"request", q>>)
  BY DEF Asks
<1>2. /\ UNCHANGED <<data, attached, task>>
      /\ req[q].pc \notin {"cancel", "tellCancel"}
  BY DEF Asks
<1>3. Knows(q) /\ req'[q].pc = pc /\ req'[q].run = r /\ req'[q].copy = c /\ rec' = rec
  BY <1>1, <1>2, RequestAlone DEF Moves, data
<1>4. \A s : Attached(s)' <=> Attached(s)
  BY <1>2 DEF Attached, LiveTask
<1>5. Knows(q)'
  <2>1. CASE pc \in {"done", "gone", "respondPending"}
    BY <1>3, <2>1 DEF Knows, Checked
  <2>2. CASE pc = "startPending"
    <3>1. rec[q] = Absent /\ WithStatus("running")' = {}
      BY <1>1, <1>3, <2>2 DEF Reads, Knows, WithStatus
    <3> QED BY <1>3, <2>2, <3>1 DEF Knows, Checked
  <2>3. CASE pc = "create"
    <3>1. rec[q] = Absent /\ \A s \in Request : rec[s].status \notin Active
      BY <1>1, <1>3, <2>3 DEF Reads, Knows, WithStatus, Active
    <3> QED BY <1>3, <2>3, <3>1 DEF Knows, Checked
  <2>4. CASE pc = "guard"
    <3>1. rec[r].status # "absent"
      BY <1>1, <1>3, <2>4 DEF Reads, Knows
    <3> QED BY <1>3, <2>4, <3>1 DEF Knows, Checked
  <2>5. CASE pc = "spawn"
    <3>1. r \in Request /\ rec[r].status \notin Terminal \cup {"absent"}
      BY <1>1, <1>3, <2>5, UnderWay DEF Reads, Knows
    <3>2. rec[r].status \in Active
      BY <3>1, Types DEF RecOK, RunRecord
    <3> QED BY <1>3, <2>5, <3>2 DEF Knows, Checked
  <2>6. CASE pc \in {"resume", "detach"}
    <3>1. r \in Request /\ rec[r] # Absent
      BY <1>1, <2>6 DEF Reads
    <3>2. rec[r].status # "absent"
      BY <3>1 DEF LoopInv, AbsentIsNew
    <3> QED BY <1>3, <2>6, <3>2 DEF Knows, Checked
  <2>7. CASE pc = "check"
    <3>1. rec[r].status \in Active /\ c = rec[r]
      BY <1>1, <2>7 DEF Reads
    <3> QED BY <1>3, <2>7, <3>1 DEF Knows, Checked
  <2>8. CASE pc = "history"
    <3>1. rec[r].status \in Active /\ c = rec[r] /\ ~Attached(r)
      BY <1>1, <1>3, <2>8 DEF Reads, Knows, Checked
    <3> QED BY <1>3, <1>4, <2>8, <3>1 DEF Knows, Checked
  <2>9. CASE pc \in {"complete", "recover"}
    <3>1. /\ rec[r].status \in Active /\ c = rec[r] /\ ~Attached(r) /\ r \in Request
          /\ pc = "complete" => next[r] = "empty"
      BY <1>1, <1>3, <2>9, UnderWay DEF Reads, Knows, Checked
    <3>2. pc # "complete"
      BY <1>2, <3>1, RequestAlone DEF LoopInv, EmptyHasTask
    <3> QED BY <1>3, <1>4, <2>9, <3>1, <3>2 DEF Knows, Checked
  <2> QED BY <1>1, <2>1, <2>2, <2>3, <2>4, <2>5, <2>6, <2>7, <2>8, <2>9 DEF Reads
<1> QED BY <1>1, <1>2, <1>5, RequestMovesOn

LEMMA RecoverLoop ==
    ASSUME TypeInv, LoopInv, NEW q \in Request, RequestStep(q), Undisturbed,
           req[q].pc = "recover", Saves(q, "attach", req[q].copy.status),
           rec'[req[q].run] = req[q].copy
    PROVE  LoopInv'
<1>1. Knows(q) /\ Moves(q, "attach", req[q].run, req[q].copy) /\ "attach" \in RequestPC
  BY RequestAlone DEF Saves, RequestPC, LockedSteps
<1>2. rec' = rec
  BY <1>1, Types DEF Saves, Knows, Checked, RecOK
<1>3. UNCHANGED <<data, attached, task>>
  BY <1>2 DEF Saves, data
<1>4. \A s : Attached(s)' <=> Attached(s)
  BY <1>3 DEF Attached, LiveTask
<1>5. Knows(q)'
  BY <1>1, <1>2, <1>4 DEF Moves, Knows, Checked
<1> QED BY <1>1, <1>3, <1>5, RequestMovesOn DEF Saves

LEMMA CreateLoop ==
    ASSUME TypeInv, LoopInv, NEW q \in Request, RequestStep(q), Undisturbed, Creates(q)
    PROVE  LoopInv'
<1>0. /\ \A p \in Request : p # q => Quiet(p)
      /\ \A u \in Request : task[u].pc # "tell"
      /\ \A s \in Request : ~Cancelling(s) /\ ~Telling(s)
      /\ rec[q] = Absent /\ \A s \in Request : rec[s].status \notin Active
  BY RequestAlone DEF Creates, Knows
<1>1. PICK pc \in {"guard", "offer"}, c \in RunRecord :
         /\ Moves(q, pc, q, c)
         /\ IF pc = "guard" THEN Continues(<<"request", q>>) ELSE Suspends
  BY DEF Creates
<1>2. /\ rec'[q].status = "pending" /\ \A s \in Request : s # q => rec'[s] = rec[s]
      /\ UNCHANGED <<next, answered, snapshots, log, attached, task>>
  BY DEF Creates
<1>3. \A s \in Request : Closed(s)' <=> Closed(s)
  BY <1>2 DEF Closed
<1>4. rec[q].status = "absent" /\ "pending" \in Active /\ "pending" \notin Terminal
  BY <1>0 DEF Absent, Active, Terminal
<1>5. HoldsLoop' /\ TellHolds'
  BY <1>0, <1>1, <1>2
     DEF Moves, HoldsLoop, TellHolds, Quiet, Suspends, Continues, Undisturbed
<1>6. LiveDrives'
  <2>1. \A u \in Request : LiveTask(u) => task[u].run \in Request /\ task[u].cancelled
    BY <1>0, BegunTask DEF LoopInv, LiveDrives, LiveTask
  <2> QED BY <1>2, <2>1 DEF LiveDrives, LiveTask
<1>7. AttachedIsOwn' /\ OneDriver' /\ ChildrenAtGather'
  BY <1>2 DEF LoopInv, AttachedIsOwn, OneDriver, Drives, LiveTask, ChildrenAtGather
<1>8. EndedIsRecorded'
  <2>1. \A u \in Request : LiveTask(u) \/ task[u].pc \in Finished => task[u].run \in Request
    BY BegunTask DEF LiveTask, Finished
  <2> QED BY <1>0, <1>2, <1>4, <2>1, ActiveOrTerminal
          DEF LoopInv, EndedIsRecorded, LiveTask
<1>9. SuccessIsSaved'
  BY <1>2 DEF LoopInv, SuccessIsSaved, TasksBacked
<1>10. OneActive' /\ AbsentIsNew'
  BY <1>0, <1>2, <1>4 DEF LoopInv, OneActive, AbsentIsNew
<1>11. ClosedIsEnded' /\ EndedIsTold'
  BY <1>0, <1>2, <1>3, <1>4, ActiveOrTerminal DEF LoopInv, ClosedIsEnded, EndedIsTold
<1>12. EmptyHasTask'
  BY <1>0, <1>2, <1>4 DEF LoopInv, EmptyHasTask, AbsentIsNew
<1>13. RequestsKnow'
  <2>1. ASSUME NEW p \in Request, p # q
        PROVE  Knows(p)'
    <3>1. req'[p] = req[p] /\ req[p].pc \in {"new", "offer", "gone", "done"} /\ Knows(p)
      BY <1>0, <1>1, <2>1 DEF Moves, Quiet, LoopInv, RequestsKnow
    <3>2. req[p].pc = "new" => rec'[p] = Absent
      BY <1>2, <2>1, <3>1 DEF Knows
    <3>3. req[p].pc = "offer" => rec'[req[p].run].status # "absent"
      BY <1>2, <3>1, UnderWay DEF Knows
    <3> QED BY <3>1, <3>2, <3>3 DEF Knows, Checked
  <2>2. Knows(q)'
    BY <1>1, <1>2 DEF Moves, Knows, Checked
  <2> QED BY <2>1, <2>2 DEF RequestsKnow
<1> QED BY <1>5, <1>6, <1>7, <1>8, <1>9, <1>10, <1>11, <1>12, <1>13 DEF LoopInv

\* What a step of request q leaves to the others when no task is told to end.
LEMMA OthersKnow ==
    ASSUME TypeInv, LoopInv, NEW q \in Request, RequestStep(q),
           \A p \in Request : p # q => req'[p] = req[p],
           \A r \in Request : rec[r] = Absent \/ rec[r].status = "absent" => rec'[r] = rec[r],
           \A r \in Request : rec[r].status # "absent" => rec'[r].status # "absent",
           Knows(q)'
    PROVE  RequestsKnow'
<1>1. ASSUME NEW p \in Request, p # q
      PROVE  Knows(p)'
  <2>1. req'[p] = req[p] /\ req[p].pc \in {"new", "offer", "gone", "done"} /\ Knows(p)
    BY <1>1, RequestAlone DEF Quiet, LoopInv, RequestsKnow
  <2>2. req[p].pc = "new" => rec'[p] = Absent
    BY <2>1 DEF Knows
  <2>3. req[p].pc = "offer" => rec'[req[p].run].status # "absent"
    BY <2>1, UnderWay DEF Knows
  <2> QED BY <2>1, <2>2, <2>3 DEF Knows, Checked
<1> QED BY <1>1 DEF RequestsKnow

LEMMA SpawnLoop ==
    ASSUME TypeInv, LoopInv, NEW q \in Request, RequestStep(q), Spawns(q)
    PROVE  LoopInv'
<1>r. PICK r \in Request : r = req[q].run
  BY UnderWay DEF Spawns
<1>0. /\ \A p \in Request : p # q => Quiet(p)
      /\ \A u \in Request : task[u].pc # "tell"
      /\ \A s \in Request : ~Cancelling(s) /\ ~Telling(s)
      /\ rec[r].status \in Active /\ ~Attached(r) /\ task[q] = NoTask
  BY <1>r, RequestAlone, UnderWay DEF Spawns, Knows, Checked
<1>1. /\ req'[q].pc = "done" /\ \A p \in Request : p # q => req'[p] = req[p]
      /\ task'[q].pc = "created" /\ task'[q].run = r /\ ~task'[q].cancelled
      /\ task'[q].child = NoChildren /\ task'[q] # NoTask
      /\ \A u \in Request : u # q => task'[u] = task[u]
      /\ attached'[r] = q
      /\ \A s \in Request : s # r => attached'[s] = attached[s]
      /\ UNCHANGED data /\ holder' = Nothing
  BY <1>r DEF Spawns, Spawned, Moves, Suspends, TypeInv, TypeOK
<1>2. \A s \in Request : Closed(s)' <=> Closed(s)
  BY <1>1 DEF data, Closed
<1>3. \A u \in Request : task[u] # NoTask => task[u].run \in Request
  BY WorkingTask
\* No live task works on r: one that was not cancelled would be attached, and
\* the run of a cancelled one has ended.
<1>4. \A u \in Request : LiveTask(u) => task[u].run # r
  <2>1. SUFFICES ASSUME NEW u \in Request, LiveTask(u), task[u].run = r
                 PROVE  FALSE
    OBVIOUS
  <2>2. CASE task[u].cancelled
    BY <1>0, <2>1, <2>2, ActiveOrTerminal DEF LoopInv, EndedIsRecorded
  <2>3. CASE ~task[u].cancelled
    <3>1. attached[r] = u
      BY <2>1, <2>3 DEF LoopInv, LiveDrives
    <3> QED BY <1>0, <2>1, <3>1, ConstantsAssumption DEF Attached
  <2> QED BY <2>2, <2>3
<1>5. HoldsLoop' /\ TellHolds'
  BY <1>0, <1>1 DEF HoldsLoop, TellHolds, Quiet
<1>6. LiveDrives'
  <2>1. ASSUME NEW u \in Request, u # q, LiveTask(u)', ~task'[u].cancelled
        PROVE  /\ attached'[task'[u].run] = u
               /\ task'[u].pc # "tell" /\ rec'[task'[u].run].status \in Active
    <3>1. task'[u] = task[u] /\ LiveTask(u)
      BY <1>1, <2>1 DEF LiveTask
    <3>2. task[u].run # r /\ task[u].run \in Request
      BY <1>4, <3>1, BegunTask DEF LiveTask
    <3> QED BY <1>0, <1>1, <2>1, <3>1, <3>2 DEF LoopInv, LiveDrives, data
  <2> QED BY <1>0, <1>1, <2>1 DEF LiveDrives, data
<1>7. AttachedIsOwn'
  BY <1>0, <1>1 DEF LoopInv, AttachedIsOwn
<1>8. EndedIsRecorded'
  BY <1>0, <1>1, <1>3, BegunTask
     DEF LoopInv, EndedIsRecorded, LiveTask, Finished, data
<1>9. OneDriver'
  BY <1>1, <1>4 DEF LoopInv, OneDriver, Drives, LiveTask
<1>10. SuccessIsSaved'
  BY <1>0, <1>1 DEF LoopInv, SuccessIsSaved, TasksBacked, data
<1>11. ChildrenAtGather'
  BY <1>1 DEF LoopInv, ChildrenAtGather, NoChildren
<1>12. OneActive' /\ AbsentIsNew' /\ ClosedIsEnded' /\ EndedIsTold'
  BY <1>0, <1>1, <1>2
     DEF LoopInv, OneActive, AbsentIsNew, ClosedIsEnded, EndedIsTold, data
<1>13. EmptyHasTask'
  <2>1. Attached(r)'
    BY <1>1, ConstantsAssumption DEF Attached, LiveTask, Finished
  <2>2. ASSUME NEW s \in Request, s # r, Attached(s)
        PROVE  Attached(s)'
    <3>1. attached[s] \in Request /\ attached[s] # q
      BY <1>0, <2>2 DEF Attached, LiveTask, NoTask, TypeInv, TypeOK
    <3> QED BY <1>1, <2>2, <3>1 DEF Attached, LiveTask
  <2> QED BY <1>0, <1>1, <2>1, <2>2 DEF LoopInv, EmptyHasTask, data
<1>14. RequestsKnow'
  <2>1. Knows(q)'
    BY <1>1 DEF Knows, Checked
  <2> QED BY <1>1, <2>1, OthersKnow DEF data
<1> QED BY <1>5, <1>6, <1>7, <1>8, <1>9, <1>10, <1>11, <1>12, <1>13, <1>14 DEF LoopInv

LEMMA CancelSaveLoop ==
    ASSUME TypeInv, LoopInv, NEW q \in Request, RequestStep(q), Undisturbed,
           req[q].pc = "cancel", Saves(q, "tellCancel", "interrupted")
    PROVE  LoopInv'
<1>r. PICK r \in Request : r = req[q].run
  BY UnderWay
<1>0. /\ \A p \in Request : p # q => Quiet(p)
      /\ \A u \in Request : task[u].pc # "tell"
      /\ \A s \in Request : (Cancelling(s) => s = r) /\ ~Telling(s)
      /\ attached[r] = Nothing /\ rec[r].status # "absent"
  BY <1>r, RequestAlone DEF Knows
<1>1. /\ req'[q].pc = "tellCancel" /\ req'[q].run = r
      /\ \A p \in Request : p # q => req'[p] = req[p]
      /\ rec'[r].status = "interrupted" /\ \A s \in Request : s # r => rec'[s] = rec[s]
      /\ UNCHANGED <<next, answered, snapshots, log, attached, task>>
      /\ holder' = <<"request", q>>
  BY <1>r DEF Saves, Moves, Continues, Undisturbed
<1>2. \A s \in Request : Closed(s)' <=> Closed(s)
  BY <1>1 DEF Closed
<1>3. "interrupted" \in Terminal /\ "interrupted" \notin Active
  BY DEF Terminal, Active
<1>4. Telling(r)'
  BY <1>1 DEF Telling
<1>5. \A u \in Request : LiveTask(u) \/ task[u].pc \in Finished => task[u].run \in Request
  BY BegunTask DEF LiveTask, Finished
<1>6. \A u \in Request : LiveTask(u) /\ ~task[u].cancelled => task[u].run # r
  BY <1>0, ConstantsAssumption DEF LoopInv, LiveDrives
<1>7. HoldsLoop' /\ TellHolds'
  BY <1>0, <1>1 DEF HoldsLoop, TellHolds, Quiet
<1>8. LiveDrives'
  BY <1>0, <1>1, <1>5, <1>6 DEF LoopInv, LiveDrives, LiveTask
<1>9. AttachedIsOwn' /\ OneDriver' /\ ChildrenAtGather'
  BY <1>1 DEF LoopInv, AttachedIsOwn, OneDriver, Drives, LiveTask, ChildrenAtGather
<1>10. EndedIsRecorded'
  <2>1. ASSUME NEW u \in Request, task[u].run \in Request,
               rec[task[u].run].status \in Terminal \/ task[u].run = r
        PROVE  rec'[task[u].run].status \in Terminal
    BY <1>1, <1>3, <2>1
  <2>2. ASSUME NEW u \in Request
        PROVE  /\ task'[u].pc \in Finished => rec'[task'[u].run].status \in Terminal
               /\ LiveTask(u)' /\ task'[u].cancelled => rec'[task'[u].run].status \in Terminal
    <3>1. task'[u] = task[u] /\ (LiveTask(u)' <=> LiveTask(u))
      BY <1>1 DEF LiveTask
    <3>2. task[u].pc \in Finished => rec[task[u].run].status \in Terminal
      BY DEF LoopInv, EndedIsRecorded
    <3>3. LiveTask(u) /\ task[u].cancelled =>
             rec[task[u].run].status \in Terminal \/ task[u].run = r
      BY <1>0, <1>5 DEF LoopInv, EndedIsRecorded
    <3> QED BY <1>5, <2>1, <3>1, <3>2, <3>3
  <2> QED BY <2>2 DEF EndedIsRecorded
<1>11. SuccessIsSaved'
  BY <1>1 DEF LoopInv, SuccessIsSaved, TasksBacked
<1>12. OneActive' /\ AbsentIsNew'
  BY <1>0, <1>1, <1>3 DEF LoopInv, OneActive, AbsentIsNew
<1>13. ClosedIsEnded' /\ EndedIsTold'
  BY <1>0, <1>1, <1>2, <1>3, <1>4 DEF LoopInv, ClosedIsEnded, EndedIsTold
<1>14. EmptyHasTask'
  BY <1>0, <1>1, <1>3 DEF LoopInv, EmptyHasTask, Attached, LiveTask
<1>15. RequestsKnow'
  <2>1. Knows(q)'
    BY <1>1 DEF Knows, Checked
  <2> QED BY <1>0, <1>1, <2>1, OthersKnow DEF Absent
<1> QED BY <1>7, <1>8, <1>9, <1>10, <1>11, <1>12, <1>13, <1>14, <1>15 DEF LoopInv

LEMMA CancelTellLoop ==
    ASSUME TypeInv, LoopInv, NEW q \in Request, RequestStep(q),
           req[q].pc = "tellCancel", Tells(q, "interrupted")
    PROVE  LoopInv'
<1>r. PICK r \in Request : r = req[q].run
  BY UnderWay
<1>0. /\ \A p \in Request : p # q => Quiet(p)
      /\ \A u \in Request : task[u].pc # "tell"
      /\ \A s \in Request : ~Cancelling(s) /\ (Telling(s) => s = r)
      /\ rec[r].status = "interrupted"
  BY <1>r, RequestAlone DEF Knows
<1>1. /\ req'[q].pc = "done" /\ \A p \in Request : p # q => req'[p] = req[p]
      /\ Emit(r, "interrupted") /\ holder' = Nothing
      /\ UNCHANGED <<rec, next, answered, snapshots, attached, task>>
  BY <1>r DEF Tells, Moves, Suspends
<1>2. Closed(r)' /\ \A s \in Request : s # r => (Closed(s)' <=> Closed(s))
  <2>1. "interrupted" \in Event /\ "interrupted" \in Ends
    BY DEF Event, Ends
  <2> QED BY <1>1, <2>1, EmitMoves, Types
<1>3. "interrupted" \in Terminal
  BY DEF Terminal
<1>4. \A u \in Request : LiveTask(u) \/ task[u].pc \in Finished => task[u].run \in Request
  BY BegunTask DEF LiveTask, Finished
<1>5. HoldsLoop' /\ TellHolds'
  BY <1>0, <1>1 DEF HoldsLoop, TellHolds, Quiet
<1>6. LiveDrives'
  BY <1>0, <1>1 DEF LoopInv, LiveDrives, LiveTask
<1>7. AttachedIsOwn' /\ OneDriver' /\ ChildrenAtGather'
  BY <1>1 DEF LoopInv, AttachedIsOwn, OneDriver, Drives, LiveTask, ChildrenAtGather
<1>8. EndedIsRecorded'
  BY <1>0, <1>1, <1>4 DEF LoopInv, EndedIsRecorded, LiveTask
<1>9. SuccessIsSaved' /\ OneActive' /\ AbsentIsNew'
  BY <1>1 DEF LoopInv, SuccessIsSaved, TasksBacked, OneActive, AbsentIsNew
<1>10. ClosedIsEnded' /\ EndedIsTold'
  BY <1>0, <1>1, <1>2, <1>3 DEF LoopInv, ClosedIsEnded, EndedIsTold
<1>11. EmptyHasTask'
  BY <1>0, <1>1 DEF LoopInv, EmptyHasTask, Attached, LiveTask
<1>12. RequestsKnow'
  <2>1. Knows(q)'
    BY <1>1 DEF Knows, Checked
  <2> QED BY <1>1, <2>1, OthersKnow
<1> QED BY <1>5, <1>6, <1>7, <1>8, <1>9, <1>10, <1>11, <1>12 DEF LoopInv

LEMMA DetachLoop ==
    ASSUME TypeInv, LoopInv, NEW q \in Request, RequestStep(q), Undisturbed, Detaches(q)
    PROVE  LoopInv'
<1>r. PICK r \in Request : r = req[q].run
  BY UnderWay DEF Detaches
<1>0. /\ \A p \in Request : p # q => Quiet(p)
      /\ \A u \in Request : task[u].pc # "tell"
      /\ \A s \in Request : ~Cancelling(s) /\ ~Telling(s)
      /\ rec[r].status # "absent"
  BY <1>r, RequestAlone DEF Detaches, Knows
<1>1. /\ req'[q].pc = "cancel" /\ req'[q].run = r
      /\ \A p \in Request : p # q => req'[p] = req[p]
      /\ attached'[r] = Nothing
      /\ \A s \in Request : s # r => attached'[s] = attached[s]
      /\ UNCHANGED data /\ holder' = <<"request", q>>
  BY <1>r DEF Detaches, Moves, Continues, Undisturbed, TypeInv, TypeOK
<1>2. \A u \in Request :
         /\ task'[u].pc = task[u].pc /\ task'[u].run = task[u].run
         /\ task'[u].child = task[u].child /\ task'[u].target = task[u].target
         /\ LiveTask(u)' <=> LiveTask(u)
         /\ task[u] # NoTask => task'[u] # NoTask
         /\ task[u].cancelled => task'[u].cancelled
         /\ u # attached[r] => task'[u] = task[u]
         /\ u = attached[r] /\ LiveTask(u) => task'[u].cancelled
         /\ u = attached[r] => task[u].run = r
  BY <1>r DEF Detaches, Cancelled, LiveTask, LoopInv, AttachedIsOwn
<1>3. \A s \in Request : Closed(s)' <=> Closed(s)
  BY <1>1 DEF data, Closed
<1>4. Cancelling(r)'
  BY <1>1 DEF Cancelling
<1>5. \A u \in Request : LiveTask(u) \/ task[u].pc \in Finished => task[u].run \in Request
  BY BegunTask DEF LiveTask, Finished
<1>6. HoldsLoop' /\ TellHolds'
  BY <1>0, <1>1, <1>2 DEF HoldsLoop, TellHolds, Quiet
<1>7. LiveDrives'
  <2>1. ASSUME NEW u \in Request, LiveTask(u)', ~task'[u].cancelled
        PROVE  /\ attached'[task'[u].run] = u
               /\ task'[u].pc # "tell" /\ rec'[task'[u].run].status \in Active
    <3>1. LiveTask(u) /\ ~task[u].cancelled /\ u # attached[r] /\ task[u].pc # "tell"
      BY <1>0, <1>2, <2>1
    <3>2. attached[task[u].run] = u /\ rec[task[u].run].status \in Active
      BY <3>1 DEF LoopInv, LiveDrives
    <3> QED BY <1>1, <1>2, <1>5, <3>1, <3>2 DEF data
  <2> QED BY <2>1 DEF LiveDrives
<1>8. AttachedIsOwn'
  <2>1. ASSUME NEW s \in Request, NEW u \in Request, attached'[s] = u
        PROVE  task'[u] # NoTask /\ task'[u].run = s /\ ~task'[u].cancelled
    <3>1. s # r /\ attached[s] = u
      BY <1>1, <2>1, ConstantsAssumption
    <3>2. task[u] # NoTask /\ task[u].run = s /\ ~task[u].cancelled
      BY <3>1 DEF LoopInv, AttachedIsOwn
    <3>3. u # attached[r]
      BY <1>2, <3>1, <3>2
    <3> QED BY <1>2, <3>2, <3>3
  <2> QED BY <2>1 DEF AttachedIsOwn
<1>9. OneDriver' /\ ChildrenAtGather'
  BY <1>2 DEF LoopInv, OneDriver, Drives, ChildrenAtGather
<1>10. EndedIsRecorded'
  <2>1. ASSUME NEW u \in Request, task'[u].pc \in Finished
        PROVE  rec'[task'[u].run].status \in Terminal
    BY <1>1, <1>2, <2>1 DEF LoopInv, EndedIsRecorded, data
  <2>2. ASSUME NEW u \in Request, LiveTask(u)', task'[u].cancelled
        PROVE  rec'[task'[u].run].status \in Terminal \/ task'[u].run = r
    BY <1>0, <1>1, <1>2, <1>5, <2>2 DEF LoopInv, EndedIsRecorded, data
  <2> QED BY <1>4, <2>1, <2>2 DEF EndedIsRecorded
<1>11. SuccessIsSaved' /\ OneActive' /\ AbsentIsNew'
  BY <1>1, <1>2 DEF LoopInv, SuccessIsSaved, TasksBacked, OneActive, AbsentIsNew, data
<1>12. ClosedIsEnded' /\ EndedIsTold'
  BY <1>0, <1>1, <1>3 DEF LoopInv, ClosedIsEnded, EndedIsTold, data
<1>13. EmptyHasTask'
  <2>1. ASSUME NEW s \in Request, s # r, Attached(s)
        PROVE  Attached(s)'
    <3>1. attached[s] \in Request /\ attached'[s] = attached[s]
      BY <1>1, <2>1 DEF Attached, TypeInv, TypeOK
    <3> QED BY <1>2, <2>1, <3>1 DEF Attached, LiveTask
  <2> QED BY <1>0, <1>1, <1>4, <2>1 DEF LoopInv, EmptyHasTask, data
<1>14. RequestsKnow'
  <2>1. Knows(q)'
    BY <1>0, <1>1 DEF Knows, Checked, data
  <2> QED BY <1>1, <2>1, OthersKnow DEF data
<1> QED BY <1>6, <1>7, <1>8, <1>9, <1>10, <1>11, <1>12, <1>13, <1>14 DEF LoopInv

LEMMA RequestLoop ==
    ASSUME TypeInv, LoopInv, NEW q \in Request, RequestStep(q), Undisturbed
    PROVE  LoopInv'
<1>1. req[q].pc \notin {"complete", "tell"}
  BY RequestAlone DEF Knows
<1> QED BY <1>1, RequestActs, AskLoop, CreateLoop, SpawnLoop, RecoverLoop, CancelSaveLoop,
           CancelTellLoop, DetachLoop
-----------------------------------------------------------------------------
(* The inductive invariant.                                                *)

LEMMA InitIInv == Init => IInv
<1> SUFFICES ASSUME Init PROVE IInv
  OBVIOUS
<1>1. TypeInv
  BY InitTypeInv
<1>2. /\ rec = [r \in Request |-> Absent] /\ log = [r \in Request |-> <<>>]
      /\ next = [r \in Request |-> "none"] /\ req = [q \in Request |-> New]
      /\ task = [t \in Request |-> NoTask] /\ attached = [r \in Request |-> Nothing]
  BY DEF Init
<1>3. \A r \in Request : rec[r] = Absent /\ rec[r].status = "absent"
  BY <1>2 DEF Absent
<1>4. \A t \in Request : task[t] = NoTask /\ task[t].pc = "none" /\ ~LiveTask(t)
  BY <1>2 DEF NoTask, LiveTask
<1>5. \A q \in Request : req[q].pc = "new"
  BY <1>2 DEF New
<1>6. \A r \in Request : ~Closed(r)
  BY <1>2 DEF Closed, Range
<1>7. StrictInv
  BY <1>2, <1>3, <1>4, <1>5
     DEF StrictInv, StaysResearch, EmptyIsAnswered, SuccessIsAnswered, RequestsBacked,
         TasksBacked, Checked
<1>8. HoldsLoop /\ TellHolds /\ LiveDrives /\ EndedIsRecorded
  BY <1>4, <1>5 DEF HoldsLoop, Quiet, TellHolds, LiveDrives, EndedIsRecorded, Finished
<1>9. AttachedIsOwn /\ OneDriver
  BY <1>2, <1>4, ConstantsAssumption DEF AttachedIsOwn, OneDriver, Drives
<1>10. SuccessIsSaved
  BY <1>3, <1>4 DEF SuccessIsSaved, TasksBacked
<1>11. ChildrenAtGather
  BY <1>4 DEF ChildrenAtGather, NoTask, NoChildren
<1>12. OneActive /\ AbsentIsNew /\ ClosedIsEnded /\ EndedIsTold /\ EmptyHasTask
  BY <1>2, <1>3, <1>6, ActiveOrTerminal
     DEF OneActive, AbsentIsNew, ClosedIsEnded, EndedIsTold, EmptyHasTask
<1>13. RequestsKnow
  BY <1>3, <1>5 DEF RequestsKnow, Knows, Checked
<1> QED BY <1>1, <1>7, <1>8, <1>9, <1>10, <1>11, <1>12, <1>13 DEF IInv, LoopInv

LEMMA StutterIInv == IInv /\ UNCHANGED vars => IInv'
<1> SUFFICES ASSUME IInv, UNCHANGED vars PROVE IInv'
  OBVIOUS
<1>1. TypeInv' /\ UNCHANGED <<settings, holder, data, attached, req, task>>
  BY StutterTypeInv DEF IInv, vars
<1>2. StrictInv => StrictInv'
  BY <1>1 DEF data, StrictInv, StaysResearch, EmptyIsAnswered, SuccessIsAnswered,
              RequestsBacked, TasksBacked
<1>3. /\ \A r \in Request : Cancelling(r)' <=> Cancelling(r)
      /\ \A r \in Request : Telling(r)' <=> Telling(r)
      /\ \A r \in Request : Closed(r)' <=> Closed(r)
      /\ \A r \in Request : Attached(r)' <=> Attached(r)
      /\ \A t \in Request : LiveTask(t)' <=> LiveTask(t)
      /\ \A q \in Request : Knows(q)' <=> Knows(q)
  BY <1>1 DEF data, Cancelling, Telling, Closed, Attached, LiveTask, Knows, WithStatus
<1>4. LoopInv => HoldsLoop' /\ TellHolds' /\ LiveDrives' /\ AttachedIsOwn'
  BY <1>1 DEF data, LoopInv, HoldsLoop, Quiet, TellHolds, LiveDrives, AttachedIsOwn,
              LiveTask, Closed
<1>5. LoopInv => EndedIsRecorded'
  BY <1>1, <1>3, BegunTask DEF IInv, data, LoopInv, EndedIsRecorded, LiveTask
<1>6. LoopInv => OneDriver' /\ SuccessIsSaved' /\ ChildrenAtGather' /\ OneActive' /\ AbsentIsNew'
  BY <1>1, <1>3 DEF data, LoopInv, OneDriver, Drives, SuccessIsSaved, TasksBacked,
                    ChildrenAtGather, OneActive, AbsentIsNew
<1>7. LoopInv => ClosedIsEnded' /\ EndedIsTold' /\ EmptyHasTask' /\ RequestsKnow'
  BY <1>1, <1>3 DEF data, LoopInv, ClosedIsEnded, EndedIsTold, EmptyHasTask, RequestsKnow
<1> QED BY <1>1, <1>2, <1>4, <1>5, <1>6, <1>7 DEF IInv, LoopInv, settings, Undisturbed

LEMMA NextIInv == IInv /\ Next => IInv'
<1> SUFFICES ASSUME IInv, Next PROVE IInv'
  OBVIOUS
<1>1. TypeInv /\ TypeInv'
  BY StepTypes DEF IInv
<1>2. UNCHANGED settings
  BY DEF Next, RequestStep, TaskStep, OnTaskDone
<1>3. (mode' = "research" <=> mode = "research") /\ (Undisturbed' <=> Undisturbed)
  BY <1>2 DEF settings, Undisturbed
<1>4. mode = "research" => StrictInv'
  BY <1>1, RequestStrict, TaskStrict, DoneStrict DEF IInv, Next
<1>5. Undisturbed => LoopInv'
  BY <1>1, RequestLoop, TaskLoop, DoneLeaves DEF IInv, Next
<1> QED BY <1>1, <1>3, <1>4, <1>5 DEF IInv

\* What every reachable state has.
THEOREM Inductive == Spec => []IInv
<1>1. Init => IInv
  BY InitIInv
<1>2. IInv /\ [Next]_vars => IInv'
  BY NextIInv, StutterIInv
<1> QED BY <1>1, <1>2, PTL DEF Spec
-----------------------------------------------------------------------------
(* What follows from it.                                                   *)

\* Every variable keeps its type: a coroutine works only on a run that exists in
\* the process, and a log holds only events of the protocol.
THEOREM TypeCorrect == Spec => []TypeOK
<1>1. IInv => TypeOK
  BY DEF IInv, TypeInv
<1> QED BY <1>1, Inductive, PTL

\* With the in-memory store, _run_start keeps at most one run of the thread
\* pending or running, whatever clients resume, answer or cancel meanwhile.
THEOREM StartsExclude == Spec => []OneActiveRun
<1>1. ASSUME IInv PROVE OneActiveRun
  <2> DEFINE active == {r \in Request : rec[r].status \in Active}
  <2>1. SUFFICES ASSUME Undisturbed PROVE Cardinality(active) <= 1
    BY DEF OneActiveRun
  <2>2. \A r, s \in active : r = s
    BY <1>1, <2>1 DEF IInv, LoopInv, OneActive
  <2> HIDE DEF active
  <2>3. CASE active = {}
    BY <2>3, FS_EmptySet
  <2>4. CASE active # {}
    <3>1. PICK r \in active : TRUE
      BY <2>4
    <3>2. active = {r}
      BY <2>2, <3>1
    <3> QED BY <3>2, FS_Singleton
  <2> QED BY <2>3, <2>4
<1> QED BY <1>1, Inductive, PTL

\* start_run_task and resume_run never give a run a second live task.
THEOREM ExecutesOnce == Spec => []NoDoubleExecution
<1>1. IInv => NoDoubleExecution
  BY DEF IInv, LoopInv, OneDriver, NoDoubleExecution
<1> QED BY <1>1, Inductive, PTL

\* run_tasks names the live task of a run until cancel_run takes it out.
THEOREM TableIsTrue == Spec => []AttachedWhileLive
<1>1. IInv => AttachedWhileLive
  BY DEF IInv, LoopInv, LiveDrives, AttachedWhileLive
<1> QED BY <1>1, Inductive, PTL

\* A success has its answer in the history of the thread, in memory also its row
\* of snapshots; in the strict research mode the first holds in every store and
\* with every fault, also for a success that resume_run read from a checkpoint.
THEOREM SuccessHasAnswer == Spec => []SuccessIsBacked
<1>1. ASSUME IInv PROVE SuccessIsBacked
  <2>1. Undisturbed => \A r \in Request :
           rec[r].status = "success" => r \in answered /\ r \in snapshots
    BY <1>1 DEF IInv, LoopInv, SuccessIsSaved
  <2>2. mode = "research" => \A r \in Request : rec[r].status = "success" => r \in answered
    BY <1>1 DEF IInv, StrictInv, SuccessIsAnswered
  <2> QED BY <2>1, <2>2 DEF SuccessIsBacked
<1> QED BY <1>1, Inductive, PTL

\* When the loop is free, the run whose record says that it ended has its
\* terminal event in the log.
THEOREM EndsAreTold == Spec => []EndIsAnnounced
<1>1. ASSUME IInv PROVE EndIsAnnounced
  <2>1. SUFFICES ASSUME Undisturbed, Idle, NEW r \in Request, rec[r].status \in Terminal
                 PROVE  Closed(r)
    BY DEF EndIsAnnounced, Closed
  <2>2. ~Telling(r)
    BY <2>1, ConstantsAssumption DEF Telling, Idle
  <2> QED BY <1>1, <2>1, <2>2 DEF IInv, LoopInv, EndedIsTold
<1> QED BY <1>1, Inductive, PTL

\* A task's step and the record and the log of a run that ended.
LEMMA TaskKeepsEnd ==
    ASSUME TypeInv, LoopInv, Undisturbed, NEW t \in Request, TaskStep(t), NEW r \in Request
    PROVE  /\ rec[r].status \in Terminal => rec'[r] = rec[r]
           /\ Closed(r) => log'[r] = log[r]
<1>1. CASE CancelDelivered(t)
  BY <1>1 DEF CancelDelivered, data
<1>2. CASE Proceeds(t) /\ ~task[t].cancelled
  <2>1. /\ OwnData(t) /\ task[t].run \in Request /\ LogOK
        /\ task[t].pc # "tell" => rec[task[t].run].status \in Active
        /\ task[t].pc = "tell" => rec' = rec
        /\ LiveTask(t)
    BY <1>2, WorkingAlone DEF GoesOn
  <2>2. task[t].pc = "tell" => ~Closed(task[t].run)
    BY <1>2, <2>1 DEF LoopInv, LiveDrives
  <2>3. rec[r].status \in Terminal => rec'[r] = rec[r]
    BY <2>1, ActiveOrTerminal DEF OwnData
  <2>4. Closed(task[t].run) => FALSE
    BY <2>1, <2>2, ActiveOrTerminal DEF LoopInv, ClosedIsEnded
  <2>5. r # task[t].run => log'[r] = log[r]
    BY <2>1, EmitMoves DEF OwnData
  <2> QED BY <2>3, <2>4, <2>5
<1> QED BY <1>1, <1>2, TaskProceeds DEF Undisturbed

LEMMA RequestKeepsEnd ==
    ASSUME TypeInv, LoopInv, NEW q \in Request, RequestStep(q), NEW r \in Request
    PROVE  /\ rec[r].status \in Terminal => rec'[r].status \in {rec[r].status, "interrupted"}
           /\ log'[r] \in {log[r], Append(log[r], "interrupted")}
<1>1. Knows(q)
  BY RequestAlone
<1>2. CASE Asks(q) \/ Spawns(q) \/ Detaches(q)
  BY <1>2 DEF Asks, Spawns, Detaches, data
<1>3. CASE Creates(q)
  BY <1>1, <1>3 DEF Creates, Knows, Absent, Terminal
<1>4. CASE /\ req[q].pc = "recover" /\ Saves(q, "attach", req[q].copy.status)
           /\ rec'[req[q].run] = req[q].copy
  BY <1>1, <1>4 DEF Saves, Knows, Checked
<1>5. CASE req[q].pc = "cancel" /\ Saves(q, "tellCancel", "interrupted")
  BY <1>5 DEF Saves
<1>6. CASE req[q].pc = "tellCancel" /\ Tells(q, "interrupted")
  <2>1. req[q].run \in Request /\ LogOK /\ "interrupted" \in Event
    BY <1>6, UnderWay, Types DEF Event, Ends
  <2> QED BY <1>6, <2>1, EmitMoves DEF Tells
<1> QED BY <1>1, <1>2, <1>3, <1>4, <1>5, <1>6, RequestActs DEF Knows

\* Only cancel_run changes the record of a run that ended, and nothing but the
\* `interrupted' of a late cancel is appended after its terminal event.
THEOREM EndsStay == Spec => EndIsFinal
<1> DEFINE Stays ==
      Undisturbed => \A r \in Request :
          /\ rec[r].status \in Terminal => rec'[r].status \in {rec[r].status, "interrupted"}
          /\ Closed(r) => log'[r] \in {log[r], Append(log[r], "interrupted")}
<1>1. ASSUME IInv, Next PROVE Stays
  <2>1. SUFFICES ASSUME Undisturbed, NEW r \in Request
                 PROVE  /\ rec[r].status \in Terminal =>
                              rec'[r].status \in {rec[r].status, "interrupted"}
                        /\ Closed(r) => log'[r] \in {log[r], Append(log[r], "interrupted")}
    OBVIOUS
  <2>2. TypeInv /\ LoopInv
    BY <1>1, <2>1 DEF IInv
  <2>3. CASE \E q \in Request : RequestStep(q)
    BY <2>2, <2>3, RequestKeepsEnd
  <2>4. CASE \E t \in Request : TaskStep(t)
    BY <2>1, <2>2, <2>4, TaskKeepsEnd
  <2>5. CASE \E t \in Request : OnTaskDone(t)
    BY <2>5 DEF OnTaskDone, data
  <2> QED BY <1>1, <2>3, <2>4, <2>5 DEF Next
<1>2. IInv /\ [Next]_vars => [Stays]_vars
  BY <1>1
<1>3. Spec => [][Stays]_vars
  BY <1>2, Inductive, PTL DEF Spec
<1> QED BY <1>3 DEF EndIsFinal
=============================================================================
