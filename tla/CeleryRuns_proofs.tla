-------------------------- MODULE CeleryRuns_proofs --------------------------
(***************************************************************************)
(* Proofs about CeleryRuns, for every set of requests, replicas and        *)
(* workers, with and without a result backend.  TypeCorrect and            *)
(* SuccessIsBacked hold for every selection of operations and faults;      *)
(* StartedRunsKeepContract and RunningRunsAreNamed name the selections     *)
(* they need (RunsAreStarted, CopiesStayNamed), and why.                   *)
(***************************************************************************)
EXTENDS CeleryRuns, TLAPS

\* The handler positions at which a request has chosen its run.
HasRun == {"offer", "guard", "save", "enqueue", "cancel", "tell", "tellCancel"}
            \cup ResumeSteps

\* TypeOK and what it needs to be inductive: a request that is past its lookup
\* names a run, and a worker that is not idle holds a message.
RequestNamesRun == \A q \in Request : req[q].pc \in HasRun => req[q].run \in Request
WorkerHasMessage == \A w \in Worker : work[w].pc # "idle" => work[w].msg \in Message
TypeInv == TypeOK /\ RequestNamesRun /\ WorkerHasMessage

\* The handler positions before the first read of the run.
NoCopy == {"new", "respondPending", "startPending", "create", "resume"}
FreshCopy == \A q \in Request : req[q].pc \in NoCopy => req[q].copy = Absent

\* A success was inferred from a final state wherever it is held: in the record,
\* in a request's copy, or in a worker that is about to write it.
EmptyIsFinal == \A r \in Request : latest[r] = "empty" => r \in finals
CopiesBacked ==
    \A q \in Request : req[q].copy.status = "success" => req[q].run \in finals
WorkersBacked ==
    \A w \in Worker :
      work[w].target = "success" /\ work[w].pc \in {"save", "tell", "load", "mark"}
        => Run(w) \in finals
SuccessInv ==
    /\ FreshCopy
    /\ EmptyIsFinal
    /\ SuccessHasFinalState
    /\ CopiesBacked
    /\ WorkersBacked
-----------------------------------------------------------------------------
LEMMA NoTaskNotRequest == NoTask \notin Request
BY ConstantsAssumption

LEMMA AbsentType == Absent \in RunRecord
BY ConstantsAssumption DEF Absent, RunRecord, Active, Terminal

LEMMA NewType == New \in RequestState /\ [New EXCEPT !.pc = "done"] \in RequestState
BY AbsentType DEF New, RequestState, RequestSteps

LEMMA IdleType == Idle \in WorkerState
BY AbsentType DEF Idle, WorkerState, NoMessage

\* Every change a handler makes to its copy keeps the type of a record.
LEMMA StatusType ==
    ASSUME NEW c \in RunRecord, NEW s \in Active \cup Terminal
    PROVE  [c EXCEPT !.status = s] \in RunRecord
BY DEF RunRecord

LEMMA TaskType ==
    ASSUME NEW c \in RunRecord, NEW t \in Request
    PROVE  [c EXCEPT !.task = t] \in RunRecord
BY DEF RunRecord

LEMMA CountType ==
    ASSUME NEW c \in RunRecord, c.count < MaxReschedules
    PROVE  [c EXCEPT !.count = @ + 1] \in RunRecord
<1>1. c.count + 1 \in 0..MaxReschedules
  BY ConstantsAssumption DEF RunRecord
<1> QED BY <1>1 DEF RunRecord

LEMMA CancelType ==
    ASSUME NEW c \in RunRecord
    PROVE  [c EXCEPT !.cancel = TRUE, !.status = "interrupted"] \in RunRecord
BY DEF RunRecord, Terminal

\* A request that moves to a well-typed local state leaves all requests so.
LEMMA RequestUpdate ==
    ASSUME TypeInv, NEW q \in Request, NEW s \in RequestState,
           s.pc \in HasRun => s.run \in Request,
           Become(q, s)
    PROVE  req' \in [Request -> RequestState] /\ RequestNamesRun'
BY DEF Become, TypeInv, TypeOK, RequestNamesRun

LEMMA ReturnUpdate ==
    ASSUME TypeInv, NEW q \in Request, Return(q)
    PROVE  req' \in [Request -> RequestState] /\ RequestNamesRun'
<1>1. [New EXCEPT !.pc = "done"].pc \notin HasRun
  BY DEF New, HasRun, ResumeSteps
<1> QED BY <1>1, NewType, RequestUpdate DEF Return

\* The same of the two moves that keep the run.
LEMMA GotoUpdate ==
    ASSUME TypeInv, NEW q \in Request, req[q].run \in Request,
           NEW pc \in RequestSteps, Goto(q, pc)
    PROVE  req' \in [Request -> RequestState] /\ RequestNamesRun'
<1> DEFINE s == [req[q] EXCEPT !.pc = pc]
<1>1. s \in RequestState /\ s.run \in Request
  BY DEF TypeInv, TypeOK, RequestState
<1>2. Become(q, s)
  BY DEF Goto
<1> HIDE DEF s
<1> QED BY <1>1, <1>2, RequestUpdate

LEMMA AdvanceUpdate ==
    ASSUME TypeInv, NEW q \in Request, req[q].run \in Request,
           NEW pc \in RequestSteps, NEW c \in RunRecord, Advance(q, pc, c)
    PROVE  req' \in [Request -> RequestState] /\ RequestNamesRun'
<1> DEFINE s == [req[q] EXCEPT !.pc = pc, !.copy = c]
<1>1. s \in RequestState /\ s.run \in Request
  BY DEF TypeInv, TypeOK, RequestState
<1>2. Become(q, s)
  BY DEF Advance
<1> HIDE DEF s
<1> QED BY <1>1, <1>2, RequestUpdate

LEMMA RespondUpdate ==
    ASSUME TypeInv, NEW q \in Request, NEW runs \in SUBSET Request, RespondTo(q, runs)
    PROVE  req' \in [Request -> RequestState] /\ RequestNamesRun'
<1>1. CASE Return(q)
  BY <1>1, ReturnUpdate
<1>2. ASSUME NEW r \in Request, NEW given \in BOOLEAN,
             Become(q, [req[q] EXCEPT !.pc = "resume", !.run = r, !.value = given])
      PROVE  req' \in [Request -> RequestState] /\ RequestNamesRun'
  <2> DEFINE s == [req[q] EXCEPT !.pc = "resume", !.run = r, !.value = given]
  <2>0. req[q] \in RequestState
    BY DEF TypeInv, TypeOK
  <2>1. s \in RequestState /\ s.run \in Request
    BY <2>0 DEF RequestState, RequestSteps, ResumeSteps
  <2>2. Become(q, s)
    BY <1>2
  <2> HIDE DEF s
  <2> QED BY <2>1, <2>2, RequestUpdate
<1> QED BY <1>1, <1>2 DEF RespondTo

\* The same of the workers.
LEMMA WorkerUpdate ==
    ASSUME TypeInv, NEW w \in Worker, NEW s \in WorkerState,
           s.pc # "idle" => s.msg \in Message,
           WBecome(w, s)
    PROVE  work' \in [Worker -> WorkerState] /\ WorkerHasMessage'
BY DEF WBecome, TypeInv, TypeOK, WorkerHasMessage

LEMMA WAdvanceUpdate ==
    ASSUME TypeInv, NEW w \in Worker, work[w].pc # "idle", NEW pc \in WorkerSteps,
           NEW status \in {"running"} \cup Terminal, WAdvance(w, pc, status)
    PROVE  work' \in [Worker -> WorkerState] /\ WorkerHasMessage'
<1> DEFINE s == [work[w] EXCEPT !.pc = pc, !.seen = Absent, !.target = status]
<1>1. s \in WorkerState /\ s.msg \in Message
  BY AbsentType DEF TypeInv, TypeOK, WorkerHasMessage, WorkerState
<1>2. WBecome(w, s)
  BY DEF WAdvance
<1> HIDE DEF s
<1> QED BY <1>1, <1>2, WorkerUpdate

LEMMA EndTaskUpdate ==
    ASSUME TypeInv, NEW w \in Worker, work[w].pc # "idle", EndTask(w)
    PROVE  /\ work' \in [Worker -> WorkerState] /\ WorkerHasMessage'
           /\ ended' \subseteq Request
<1>1. Idle.pc = "idle"
  BY DEF Idle
<1>2. work' \in [Worker -> WorkerState] /\ WorkerHasMessage'
  BY <1>1, IdleType, WorkerUpdate DEF EndTask
<1>3. work[w].msg.id \in Request
  BY DEF TypeInv, WorkerHasMessage, Message
<1> QED BY <1>2, <1>3 DEF EndTask, TypeInv, TypeOK

LEMMA InitTypeInv == Init => TypeInv
<1> SUFFICES ASSUME Init PROVE TypeInv
  OBVIOUS
<1>1. New.pc \notin HasRun /\ Idle.pc = "idle"
  BY DEF New, Idle, HasRun, ResumeSteps
<1>2. TypeOK
  BY AbsentType, NewType, IdleType DEF Init, TypeOK
<1>3. RequestNamesRun /\ WorkerHasMessage
  BY <1>1 DEF Init, RequestNamesRun, WorkerHasMessage
<1> QED BY <1>2, <1>3 DEF TypeInv

LEMMA StepTypeInv == TypeInv /\ [Next]_vars => TypeInv'
<1> SUFFICES ASSUME TypeInv, [Next]_vars PROVE TypeInv'
  OBVIOUS
<1> USE NoTaskNotRequest, AbsentType, NewType, IdleType
<1> USE DEF TypeInv, TypeOK, RequestNamesRun, WorkerHasMessage
<1>1. CASE UNCHANGED vars
  BY <1>1 DEF vars, Run
<1>2. ASSUME NEW q \in Request, RequestArrives(q) PROVE TypeInv'
  <2>1. CASE StartRunning(q)
    BY <2>1 DEF StartRunning, Goto, Return, Become, RequestState, RequestSteps,
               HasRun, ResumeSteps, StartSteps
  <2>2. CASE RespondRunning(q)
    <3>1. CASE RespondTo(q, WithStatus("running"))
      BY <2>2, <3>1, RespondUpdate DEF RespondRunning, WithStatus
    <3>2. CASE Goto(q, "respondPending")
      BY <2>2, <3>2 DEF RespondRunning, Goto, Become, RequestState, RequestSteps,
                           HasRun, ResumeSteps
    <3> QED BY <2>2, <3>1, <3>2 DEF RespondRunning
  <2>3. ASSUME NEW r \in Request, ResumeArrives(q, r) PROVE TypeInv'
    <3> DEFINE s == [req[q] EXCEPT !.pc = "resume", !.run = r]
    <3>1. s \in RequestState /\ s.run \in Request
      BY DEF RequestState, RequestSteps, ResumeSteps
    <3>2. Become(q, s)
      BY <2>3 DEF ResumeArrives
    <3> HIDE DEF s
    <3>3. req' \in [Request -> RequestState] /\ RequestNamesRun'
      BY <3>1, <3>2, RequestUpdate
    <3> QED BY <2>3, <3>3 DEF ResumeArrives
  <2>4. ASSUME NEW r \in Request, CancelRead(q, r) PROVE TypeInv'
    <3> DEFINE c == [rec[r] EXCEPT !.cancel = TRUE, !.status = "interrupted"]
               s == [req[q] EXCEPT !.pc = "cancel", !.run = r, !.copy = c]
    <3>1. c \in RunRecord
      BY CancelType
    <3>2. Become(q, s)
      BY <2>4 DEF CancelRead
    <3> HIDE DEF c
    <3>3. s \in RequestState /\ s.run \in Request
      BY <3>1 DEF RequestState, RequestSteps
    <3> HIDE DEF s
    <3> QED BY <2>4, <3>2, <3>3, RequestUpdate DEF CancelRead
  <2> QED BY <1>2, <2>1, <2>2, <2>3, <2>4 DEF RequestArrives
<1>3. ASSUME NEW q \in Request, RequestStep(q) PROVE TypeInv'
  <2> USE DEF Goto, Return, Become, RequestState, RequestSteps, HasRun, ResumeSteps,
              StartSteps
  <2>1. CASE StartPending(q)
    BY <2>1 DEF StartPending
  <2>2. CASE StartCreate(q)
    <3> DEFINE c == [Absent EXCEPT !.status = "pending"]
    <3>1. c \in RunRecord
      BY StatusType DEF Active
    <3>2. PICK pc \in {"guard", "offer"} :
            Become(q, [req[q] EXCEPT !.pc = pc, !.run = q, !.copy = c])
      BY <2>2 DEF StartCreate
    <3>3. rec' = [rec EXCEPT ![q] = c]
      BY <2>2 DEF StartCreate, Save
    <3> DEFINE s == [req[q] EXCEPT !.pc = pc, !.run = q, !.copy = c]
    <3>4. Become(q, s)
      BY <3>2
    <3> HIDE DEF c
    <3>5. s \in RequestState /\ s.run \in Request
      BY <3>1
    <3> HIDE DEF s
    <3>6. rec' \in [Request -> RunRecord]
      BY <3>1, <3>3
    <3> QED BY <2>2, <3>4, <3>5, <3>6, RequestUpdate DEF StartCreate
  <2>3. CASE StreamBegin(q)
    <3>1. req[q].run \in Request
      BY <2>3 DEF StreamBegin
    <3> QED BY <2>3, <3>1, AdvanceUpdate DEF StreamBegin
  <2>4. CASE StartGuard(q)
    <3>1. CASE Return(q)
      BY <2>4, <3>1, ReturnUpdate DEF StartGuard
    <3>2. CASE Claim(q)
      <4>1. req[q].run \in Request /\ [req[q].copy EXCEPT !.task = q] \in RunRecord
        BY <2>4, TaskType DEF StartGuard
      <4> QED BY <2>4, <3>2, <4>1, AdvanceUpdate DEF StartGuard, Claim
    <3> QED BY <2>4, <3>1, <3>2 DEF StartGuard
  <2>5. CASE StartSave(q)
    BY <2>5 DEF StartSave, Save
  <2>6. CASE StartEnqueue(q)
    BY <2>6 DEF StartEnqueue, Send, Message
  <2>7. CASE RespondPending(q)
    <3>1. CASE RespondTo(q, WithStatus("pending"))
      BY <2>7, <3>1, RespondUpdate DEF RespondPending, WithStatus
    <3>2. CASE Return(q)
      BY <2>7, <3>2, ReturnUpdate DEF RespondPending
    <3> QED BY <2>7, <3>1, <3>2 DEF RespondPending
  <2>8. CASE ResumeRead(q)
    <3>1. req[q].run \in Request
      BY <2>8 DEF ResumeRead
    <3> QED BY <2>8, <3>1, ReturnUpdate, AdvanceUpdate DEF ResumeRead
  <2>9. CASE ResumeCheck(q)
    <3>1. req[q].run \in Request /\ req[q].copy \in RunRecord
      BY <2>9 DEF ResumeCheck
    <3>2. CASE Return(q)
      BY <2>9, <3>2, ReturnUpdate DEF ResumeCheck
    <3>3. CASE Advance(q, "limit", [req[q].copy EXCEPT !.status = "error"])
      <4>1. [req[q].copy EXCEPT !.status = "error"] \in RunRecord
        BY <3>1, StatusType DEF Terminal
      <4> QED BY <2>9, <3>1, <3>3, <4>1, AdvanceUpdate DEF ResumeCheck
    <3>4. ASSUME req[q].copy.count < MaxReschedules,
                 Advance(q, "count", [req[q].copy EXCEPT !.count = @ + 1])
          PROVE  TypeInv'
      <4>1. [req[q].copy EXCEPT !.count = @ + 1] \in RunRecord
        BY <3>1, <3>4, CountType
      <4> QED BY <2>9, <3>1, <3>4, <4>1, AdvanceUpdate DEF ResumeCheck
    <3> QED BY <2>9, <3>2, <3>3, <3>4 DEF ResumeCheck
  <2>10. CASE ResumeCount(q)
    BY <2>10 DEF ResumeCount, Save
  <2>11. CASE ResumeCheckpoint(q)
    <3>1. req[q].run \in Request
      BY <2>11 DEF ResumeCheckpoint
    <3>2. /\ [req[q].copy EXCEPT !.status = "success"] \in RunRecord
          /\ [req[q].copy EXCEPT !.task = q] \in RunRecord
      BY StatusType, TaskType DEF Terminal
    <3> QED BY <2>11, <3>1, <3>2, AdvanceUpdate DEF ResumeCheckpoint
  <2>12. CASE ResumeSave(q)
    <3>1. req[q].run \in Request /\ rec' \in [Request -> RunRecord]
      BY <2>12 DEF ResumeSave, Save
    <3> QED BY <2>12, <3>1, GotoUpdate, AdvanceUpdate, ZenonT(30) DEF ResumeSave
  <2>13. CASE ResumeSubmit(q)
    BY <2>13 DEF ResumeSubmit, Send, Message
  <2>14. CASE CancelSave(q)
    <3>1. req[q].run \in Request /\ rec' \in [Request -> RunRecord]
      BY <2>14 DEF CancelSave, Save
    <3> QED BY <2>14, <3>1, AdvanceUpdate DEF CancelSave
  <2>15. CASE Tell(q)
    BY <2>15 DEF Tell
  <2> QED BY <1>3, <2>1, <2>2, <2>3, <2>4, <2>5, <2>6, <2>7, <2>8, <2>9, <2>10,
             <2>11, <2>12, <2>13, <2>14, <2>15 DEF RequestStep
<1>4. ASSUME NEW w \in Worker, WorkerStep(w) PROVE TypeInv'
  <2> USE DEF WorkerState, WorkerSteps, WGoto, WBecome, Update, EndTask, Run, RunnerCopy
  <2>1. ASSUME NEW m \in queue, Take(w, m) PROVE TypeInv'
    <3>1. m \in Message /\ m.id \in Request /\ queue' \subseteq Message
      BY <2>1 DEF Take, Message
    <3>2. CASE m.rec.cancel
      BY <2>1, <3>1, <3>2 DEF Take
    <3>3. CASE ~m.rec.cancel
      <4>1. PICK status \in {"running", "interrupted"} :
              WBecome(w, [pc |-> "load", msg |-> m,
                          seen |-> Absent, target |-> status])
        BY <2>1, <3>3 DEF Take
      <4> DEFINE s == [pc |-> "load", msg |-> m, seen |-> Absent, target |-> status]
      <4>2. s \in WorkerState /\ s.msg \in Message
        BY <3>1 DEF Terminal
      <4> HIDE DEF s
      <4>3. work' \in [Worker -> WorkerState] /\ WorkerHasMessage'
        BY <4>1, <4>2, WorkerUpdate DEF s
      <4> QED BY <2>1, <3>1, <3>3, <4>3 DEF Take
    <3> QED BY <3>2, <3>3
  <2>2. CASE UpdateRead(w)
    <3>1. Run(w) \in Request
      BY <2>2 DEF UpdateRead, Message
    <3> DEFINE s == [work[w] EXCEPT !.pc = "mark", !.seen = rec[Run(w)]]
    <3>2. WBecome(w, s)
      BY <2>2 DEF UpdateRead
    <3> HIDE DEF Run
    <3>3. s \in WorkerState /\ s.msg \in Message
      BY <2>2, <3>1 DEF UpdateRead
    <3> HIDE DEF s
    <3> QED BY <2>2, <3>2, <3>3, WorkerUpdate DEF UpdateRead
  <2>3. CASE UpdateSave(w)
    <3>1. Run(w) \in Request /\ work[w].pc # "idle"
      BY <2>3 DEF UpdateSave, Message
    <3>2. [work[w].seen EXCEPT !.status = work[w].target] \in RunRecord
      BY StatusType DEF Active
    <3>3. rec' \in [Request -> RunRecord]
      BY <2>3, <3>1, <3>2 DEF UpdateSave, Save
    <3>4. work' \in [Worker -> WorkerState] /\ WorkerHasMessage'
      BY <2>3, <3>1, WAdvanceUpdate DEF UpdateSave
    <3> QED BY <2>3, <3>3, <3>4 DEF UpdateSave
  <2>4. CASE Close(w)
    <3>1. Run(w) \in Request /\ work[w].msg \in Message /\ work[w].pc # "idle"
      BY <2>4 DEF Close, Message
    <3>2. announced' \subseteq Request
      BY <2>4, <3>1 DEF Close
    <3>3. CASE EndTask(w) /\ UNCHANGED queue
      BY <2>4, <3>1, <3>2, <3>3, EndTaskUpdate DEF Close
    <3>4. CASE /\ work[w].msg.retries = 0
               /\ queue' = queue \cup {[work[w].msg EXCEPT !.retries = @ + 1]}
               /\ WBecome(w, Idle)
               /\ UNCHANGED ended
      <4>1. [work[w].msg EXCEPT !.retries = @ + 1] \in Message
        BY <3>1, <3>4 DEF Message
      <4>2. work' \in [Worker -> WorkerState] /\ WorkerHasMessage'
        BY <3>4, WorkerUpdate DEF Idle
      <4> QED BY <2>4, <3>2, <3>4, <4>1, <4>2 DEF Close
    <3> QED BY <2>4, <3>3, <3>4 DEF Close
  <2>5. CASE Begin(w)
    <3>1. Run(w) \in Request /\ work[w].msg \in Message /\ work[w].msg.rec \in RunRecord
      BY <2>5 DEF Begin, Message
    <3>2. RunnerCopy(w, "running") \in RunRecord
      BY <3>1, StatusType DEF Active
    <3>3. rec' \in [Request -> RunRecord]
      BY <2>5, <3>1, <3>2 DEF Begin, Save
    <3>4. work' \in [Worker -> WorkerState] /\ WorkerHasMessage'
      <4> DEFINE s == [work[w] EXCEPT !.pc = IF work[w].msg.action = "run"
                                             THEN "init" ELSE "stream"]
      <4>1. WBecome(w, s)
        BY <2>5 DEF Begin
      <4>2. s \in WorkerState /\ s.msg \in Message
        BY <3>1
      <4> HIDE DEF s
      <4> QED BY <4>1, <4>2, WorkerUpdate
    <3> QED BY <2>5, <3>3, <3>4 DEF Begin
  <2>6. CASE SaveInitialState(w)
    BY <2>6 DEF SaveInitialState
  <2>7. CASE ObserveCancel(w)
    BY <2>7, WAdvanceUpdate DEF ObserveCancel, Terminal
  <2>8. CASE StreamEnds(w)
    BY <2>8, WAdvanceUpdate DEF StreamEnds, Terminal
  <2>9. CASE SaveFinalSnapshot(w)
    BY <2>9 DEF SaveFinalSnapshot, Message
  <2>10. CASE SaveOutcome(w)
    <3>1. Run(w) \in Request /\ work[w].msg.rec \in RunRecord
      BY <2>10 DEF SaveOutcome, Message
    <3>2. RunnerCopy(w, work[w].target) \in RunRecord
      BY <3>1, StatusType DEF Active
    <3>3. rec' \in [Request -> RunRecord]
      BY <2>10, <3>1, <3>2 DEF SaveOutcome, Save
    <3>4. work' \in [Worker -> WorkerState] /\ WorkerHasMessage'
      BY <2>10 DEF SaveOutcome
    <3> QED BY <2>10, <3>3, <3>4 DEF SaveOutcome
  <2>11. CASE TellOutcome(w)
    <3>1. Run(w) \in Request /\ work[w].pc # "idle"
      BY <2>11 DEF TellOutcome, Message
    <3>2. announced' \subseteq Request
      BY <2>11, <3>1 DEF TellOutcome
    <3>3. CASE EndTask(w)
      BY <2>11, <3>2, <3>3, EndTaskUpdate DEF TellOutcome
    <3>4. CASE Update(w, work[w].target) /\ UNCHANGED ended
      <4>1. work[w].target \in {"running"} \cup Terminal
        OBVIOUS
      <4> QED BY <2>11, <3>1, <3>2, <3>4, <4>1, WAdvanceUpdate DEF TellOutcome
    <3> QED BY <2>11, <3>3, <3>4 DEF TellOutcome
  <2> QED BY <1>4, <2>1, <2>2, <2>3, <2>4, <2>5, <2>6, <2>7, <2>8, <2>9, <2>10,
             <2>11 DEF WorkerStep
<1>5. CASE Fault
  <2>1. ASSUME NEW q \in Request, StreamAbandon(q) \/ EnqueueFails(q) PROVE TypeInv'
    BY <2>1, ReturnUpdate DEF StreamAbandon, EnqueueFails
  <2>2. ASSUME NEW p \in Replica, ApiCrash(p) PROVE TypeInv'
    BY <2>2 DEF ApiCrash, New, HasRun, ResumeSteps
  <2>3. ASSUME NEW w \in Worker, WorkerCrash(w) PROVE TypeInv'
    BY <2>3 DEF WorkerCrash, WBecome, Idle
  <2>4. ASSUME NEW w \in Worker, Unavailable(w) PROVE TypeInv'
    <3>1. work[w].pc # "idle" /\ Run(w) \in Request
      BY <2>4 DEF Unavailable, Run, Message
    <3>2. latest' \in [Request -> {"none", "agent", "empty"}]
      BY <2>4, <3>1 DEF Unavailable
    <3> QED BY <2>4, <3>1, <3>2, WAdvanceUpdate
           DEF Unavailable, Update, WorkerSteps, Terminal
  <2>5. ASSUME NEW w \in Worker, StreamFails(w) PROVE TypeInv'
    BY <2>5, WAdvanceUpdate DEF StreamFails, WorkerSteps, Terminal
  <2>6. ASSUME NEW w \in Worker, StoreFails(w) PROVE TypeInv'
    BY <2>6, WAdvanceUpdate DEF StoreFails, Update, WorkerSteps, Terminal
  <2>7. ASSUME NEW w \in Worker, ShutDown(w) PROVE TypeInv'
    <3>1. CASE EndTask(w)
      BY <2>7, <3>1, EndTaskUpdate DEF ShutDown
    <3>2. CASE work[w].pc # "idle" /\ Update(w, "interrupted") /\ UNCHANGED ended
      BY <2>7, <3>2, WAdvanceUpdate DEF ShutDown, Update, WorkerSteps, Terminal
    <3> QED BY <2>7, <3>1, <3>2 DEF ShutDown
  <2> QED BY <1>5, <2>1, <2>2, <2>3, <2>4, <2>5, <2>6, <2>7 DEF Fault
<1> QED BY <1>1, <1>2, <1>3, <1>4, <1>5 DEF Next

\* Every reachable state is well typed: in particular no record ever counts more
\* than MaxReschedules reschedules, and no message is retried twice.
THEOREM TypeCorrect == Spec => []TypeOK
<1>1. TypeInv => TypeOK
  BY DEF TypeInv
<1> QED BY InitTypeInv, StepTypeInv, <1>1, PTL DEF Spec
-----------------------------------------------------------------------------
LEMMA InitSuccessInv == Init => SuccessInv
<1> SUFFICES ASSUME Init PROVE SuccessInv
  OBVIOUS
<1>1. New.copy = Absent /\ Absent.status = "absent" /\ Idle.target = "running"
  BY DEF New, Idle, Absent
<1> QED BY <1>1 DEF Init, SuccessInv, FreshCopy, EmptyIsFinal, SuccessHasFinalState,
                    CopiesBacked, WorkersBacked

\* A request may move to a local state whose copy, if a success, is backed.
LEMMA RequestSuccess ==
    ASSUME TypeInv, SuccessInv, NEW q \in Request, NEW s,
           s.copy.status = "success" => s.run \in finals,
           s.pc \in NoCopy => s.copy = Absent,
           Become(q, s), UNCHANGED finals
    PROVE  FreshCopy' /\ CopiesBacked'
BY DEF Become, TypeInv, TypeOK, SuccessInv, FreshCopy, CopiesBacked

LEMMA ReturnSuccess ==
    ASSUME TypeInv, SuccessInv, NEW q \in Request, Return(q), UNCHANGED finals
    PROVE  FreshCopy' /\ CopiesBacked'
<1> DEFINE s == [New EXCEPT !.pc = "done"]
<1>1. s.copy = Absent /\ s.copy.status # "success"
  BY DEF New, Absent
<1>2. Become(q, s)
  BY DEF Return
<1> HIDE DEF s
<1> QED BY <1>1, <1>2, RequestSuccess

\* A request that keeps its run and its copy may go to any later position.
LEMMA GotoSuccess ==
    ASSUME TypeInv, SuccessInv, NEW q \in Request, NEW pc, Goto(q, pc),
           pc \in NoCopy => req[q].pc \in NoCopy, UNCHANGED finals
    PROVE  FreshCopy' /\ CopiesBacked'
<1> DEFINE s == [req[q] EXCEPT !.pc = pc]
<1>1. s.copy = req[q].copy /\ s.run = req[q].run /\ s.pc = pc
  BY DEF TypeInv, TypeOK, RequestState
<1>2. Become(q, s)
  BY DEF Goto
<1> HIDE DEF s
<1> QED BY <1>1, <1>2, RequestSuccess DEF SuccessInv, FreshCopy, CopiesBacked

LEMMA RespondSuccess ==
    ASSUME TypeInv, SuccessInv, NEW q \in Request, req[q].pc \in NoCopy,
           NEW runs, RespondTo(q, runs), UNCHANGED finals
    PROVE  FreshCopy' /\ CopiesBacked'
<1>1. CASE Return(q)
  BY <1>1, ReturnSuccess
<1>2. ASSUME NEW r, NEW given,
             Become(q, [req[q] EXCEPT !.pc = "resume", !.run = r, !.value = given])
      PROVE  FreshCopy' /\ CopiesBacked'
  <2> DEFINE s == [req[q] EXCEPT !.pc = "resume", !.run = r, !.value = given]
  <2>1. s.copy = Absent
    BY DEF SuccessInv, FreshCopy, TypeInv, TypeOK, RequestState
  <2>2. Become(q, s)
    BY <1>2
  <2>3. Absent.status # "success"
    BY DEF Absent
  <2> HIDE DEF s
  <2> QED BY <2>1, <2>2, <2>3, RequestSuccess
<1> QED BY <1>1, <1>2 DEF RespondTo

\* A request may take over a copy whose success, if it is one, is backed.
LEMMA CopySuccess ==
    ASSUME TypeInv, SuccessInv, NEW q \in Request, NEW pc, NEW c,
           Advance(q, pc, c), pc \notin NoCopy,
           c.status = "success" => req[q].run \in finals, UNCHANGED finals
    PROVE  FreshCopy' /\ CopiesBacked'
<1> DEFINE s == [req[q] EXCEPT !.pc = pc, !.copy = c]
<1>1. s.copy = c /\ s.run = req[q].run /\ s.pc = pc
  BY DEF TypeInv, TypeOK, RequestState
<1>2. Become(q, s)
  BY DEF Advance
<1> HIDE DEF s
<1> QED BY <1>1, <1>2, RequestSuccess

\* A record may be replaced by one whose success is backed.
LEMMA SaveSuccess ==
    ASSUME TypeInv, SuccessInv, NEW r \in Request, NEW c,
           c.status = "success" => r \in finals,
           Save(r, c), UNCHANGED finals
    PROVE  SuccessHasFinalState'
BY DEF Save, TypeInv, TypeOK, SuccessInv, SuccessHasFinalState

\* A worker may move to a local state whose success, if it has one, is backed.
LEMMA WorkerSuccess ==
    ASSUME TypeInv, SuccessInv, NEW w \in Worker, NEW s,
           s.target = "success" /\ s.pc \in {"save", "tell", "load", "mark"}
             => s.msg.run \in finals',
           finals \subseteq finals', WBecome(w, s)
    PROVE  WorkersBacked'
BY DEF WBecome, TypeInv, TypeOK, SuccessInv, WorkersBacked, Run

LEMMA AdvanceSuccess ==
    ASSUME TypeInv, SuccessInv, NEW w \in Worker, NEW pc, NEW status,
           WAdvance(w, pc, status), UNCHANGED finals,
           status = "success" /\ pc \in {"save", "tell", "load", "mark"}
             => Run(w) \in finals
    PROVE  WorkersBacked'
<1> DEFINE s == [work[w] EXCEPT !.pc = pc, !.seen = Absent, !.target = status]
<1>1. s.pc = pc /\ s.target = status /\ s.msg.run = Run(w)
  BY DEF TypeInv, TypeOK, WorkerState, Run
<1>2. WBecome(w, s)
  BY DEF WAdvance
<1> HIDE DEF s
<1> QED BY <1>1, <1>2, WorkerSuccess

LEMMA IdleSuccess ==
    ASSUME TypeInv, SuccessInv, NEW w \in Worker, WBecome(w, Idle), UNCHANGED finals
    PROVE  WorkersBacked'
<1>1. Idle.pc = "idle"
  BY DEF Idle
<1> QED BY <1>1, WorkerSuccess

\* A frame: what concerns neither the workers nor the history.
LEMMA WorkersUnchanged ==
    ASSUME SuccessInv, UNCHANGED <<latest, finals, work>>
    PROVE  EmptyIsFinal' /\ WorkersBacked'
BY DEF SuccessInv, EmptyIsFinal, WorkersBacked, Run

LEMMA RequestsUnchanged ==
    ASSUME SuccessInv, UNCHANGED req, finals \subseteq finals'
    PROVE  FreshCopy' /\ CopiesBacked'
BY DEF SuccessInv, FreshCopy, CopiesBacked

LEMMA RecordsUnchanged ==
    ASSUME SuccessInv, UNCHANGED rec, finals \subseteq finals'
    PROVE  SuccessHasFinalState'
BY DEF SuccessInv, SuccessHasFinalState

\* Who writes "success": the three steps of a request that follow a read of the
\* checkpoint, and the steps of a worker that follow its final snapshot.
LEMMA StepSuccessInv == TypeInv /\ SuccessInv /\ [Next]_vars => SuccessInv'
<1> SUFFICES ASSUME TypeInv, SuccessInv, [Next]_vars PROVE SuccessInv'
  OBVIOUS
<1>1. CASE UNCHANGED vars
  BY <1>1, WorkersUnchanged, RequestsUnchanged, RecordsUnchanged DEF vars, SuccessInv
<1>2. ASSUME NEW q \in Request, RequestArrives(q) PROVE SuccessInv'
  <2>0. UNCHANGED <<rec, latest, finals, work>>
    BY <1>2 DEF RequestArrives, StartRunning, RespondRunning, ResumeArrives, CancelRead
  <2>1. CASE StartRunning(q)
    <3>1. FreshCopy' /\ CopiesBacked'
      BY <2>0, <2>1, ReturnSuccess, GotoSuccess DEF StartRunning, NoCopy
    <3> QED BY <2>0, <3>1, WorkersUnchanged, RecordsUnchanged DEF SuccessInv
  <2>2. CASE RespondRunning(q)
    <3>1. FreshCopy' /\ CopiesBacked'
      BY <2>0, <2>2, RespondSuccess, GotoSuccess DEF RespondRunning, NoCopy
    <3> QED BY <2>0, <3>1, WorkersUnchanged, RecordsUnchanged DEF SuccessInv
  <2>3. ASSUME NEW r \in Request, ResumeArrives(q, r) PROVE SuccessInv'
    <3> DEFINE s == [req[q] EXCEPT !.pc = "resume", !.run = r]
    <3>1. s.copy = Absent
      BY <2>3 DEF ResumeArrives, SuccessInv, FreshCopy, NoCopy, TypeInv, TypeOK,
                  RequestState
    <3>2. Become(q, s) /\ Absent.status # "success"
      BY <2>3 DEF ResumeArrives, Absent
    <3> HIDE DEF s
    <3>3. FreshCopy' /\ CopiesBacked'
      BY <2>0, <3>1, <3>2, RequestSuccess
    <3> QED BY <2>0, <3>3, WorkersUnchanged, RecordsUnchanged DEF SuccessInv
  <2>4. ASSUME NEW r \in Request, CancelRead(q, r) PROVE SuccessInv'
    <3> DEFINE c == [rec[r] EXCEPT !.cancel = TRUE, !.status = "interrupted"]
               s == [req[q] EXCEPT !.pc = "cancel", !.run = r, !.copy = c]
    <3>1. c.status # "success"
      BY DEF TypeInv, TypeOK, RunRecord
    <3> HIDE DEF c
    <3>2. s.copy.status # "success" /\ s.pc \notin NoCopy
      BY <3>1 DEF NoCopy, TypeInv, TypeOK, RequestState
    <3>3. Become(q, s)
      BY <2>4 DEF CancelRead, c
    <3> HIDE DEF s
    <3>4. FreshCopy' /\ CopiesBacked'
      BY <2>0, <3>2, <3>3, RequestSuccess
    <3> QED BY <2>0, <3>4, WorkersUnchanged, RecordsUnchanged DEF SuccessInv
  <2> QED BY <1>2, <2>1, <2>2, <2>3, <2>4 DEF RequestArrives
<1>3. ASSUME NEW q \in Request, RequestStep(q) PROVE SuccessInv'
  <2>0. UNCHANGED <<latest, finals, work>>
    BY <1>3 DEF RequestStep, StartPending, StartCreate, StreamBegin, StartGuard,
                StartSave, StartEnqueue, RespondPending, ResumeRead, ResumeCheck,
                ResumeCount, ResumeCheckpoint, ResumeSave, ResumeSubmit, CancelSave, Tell
  <2>1. SUFFICES (FreshCopy' /\ CopiesBacked') /\ SuccessHasFinalState'
    BY <2>0, WorkersUnchanged DEF SuccessInv
  <2>2. req[q] \in RequestState /\ (req[q].pc \in HasRun => req[q].run \in Request)
    BY DEF TypeInv, TypeOK, RequestNamesRun
  <2>3. req[q].copy.status = "success" => req[q].run \in finals
    BY DEF SuccessInv, CopiesBacked
  <2> USE <2>0
  <2>4. CASE StartPending(q)
    BY <2>4, RecordsUnchanged, ReturnSuccess, GotoSuccess DEF StartPending, NoCopy
  <2>5. CASE StartCreate(q)
    <3> DEFINE c == [Absent EXCEPT !.status = "pending"]
    <3>1. c.status # "success"
      BY DEF Absent
    <3>2. Save(q, c) /\ \E pc \in {"guard", "offer"} :
            Become(q, [req[q] EXCEPT !.pc = pc, !.run = q, !.copy = c])
      BY <2>5 DEF StartCreate
    <3> HIDE DEF c
    <3>3. PICK pc \in {"guard", "offer"} :
            Become(q, [req[q] EXCEPT !.pc = pc, !.run = q, !.copy = c])
      BY <3>2
    <3> DEFINE s == [req[q] EXCEPT !.pc = pc, !.run = q, !.copy = c]
    <3>4. Become(q, s) /\ s.copy = c /\ s.pc \notin NoCopy
      BY <2>2, <3>3 DEF RequestState, NoCopy
    <3> HIDE DEF s
    <3> QED BY <3>1, <3>2, <3>4, RequestSuccess, SaveSuccess
  <2>6. CASE StreamBegin(q)
    <3> DEFINE c == rec[req[q].run]
    <3>1. c.status = "success" => req[q].run \in finals
      BY <2>2, <2>6 DEF StreamBegin, HasRun, SuccessInv, SuccessHasFinalState
    <3>2. Advance(q, "guard", c) /\ UNCHANGED rec
      BY <2>6 DEF StreamBegin
    <3> HIDE DEF c
    <3>3. FreshCopy' /\ CopiesBacked'
      BY <3>1, <3>2, CopySuccess DEF NoCopy
    <3> QED BY <3>2, <3>3, RecordsUnchanged
  <2>7. CASE StartGuard(q)
    <3> DEFINE c == [req[q].copy EXCEPT !.task = q]
    <3>1. c.status = "success" => req[q].run \in finals
      BY <2>2, <2>3 DEF RequestState, RunRecord
    <3>2. UNCHANGED rec /\
          (Return(q) \/ Advance(q, "save", c))
      BY <2>7 DEF StartGuard, Claim
    <3> HIDE DEF c
    <3>3. FreshCopy' /\ CopiesBacked'
      BY <3>1, <3>2, CopySuccess, ReturnSuccess DEF NoCopy
    <3> QED BY <3>2, <3>3, RecordsUnchanged
  <2>8. CASE StartSave(q)
    BY <2>2, <2>3, <2>8, GotoSuccess, SaveSuccess DEF StartSave, NoCopy, HasRun
  <2>9. CASE StartEnqueue(q) \/ ResumeSubmit(q)
    BY <2>9, ReturnSuccess, RecordsUnchanged DEF StartEnqueue, ResumeSubmit, Send
  <2>10. CASE RespondPending(q)
    BY <2>10, RespondSuccess, ReturnSuccess, RecordsUnchanged DEF RespondPending, NoCopy
  <2>11. CASE ResumeRead(q)
    <3> DEFINE c == rec[req[q].run]
    <3>1. UNCHANGED rec /\
          \/ Return(q)
          \/ /\ c.status # "success"
             /\ \E pc \in {"check", "checkpoint"} :
                  Advance(q, pc, c)
      BY <2>11 DEF ResumeRead, Active
    <3> HIDE DEF c
    <3>2. FreshCopy' /\ CopiesBacked'
      BY <3>1, CopySuccess, ReturnSuccess DEF NoCopy
    <3> QED BY <3>1, <3>2, RecordsUnchanged
  <2>12. CASE ResumeCheck(q)
    <3> DEFINE e == [req[q].copy EXCEPT !.status = "error"]
               c == [req[q].copy EXCEPT !.count = @ + 1]
    <3>1. e.status # "success" /\ (c.status = "success" => req[q].run \in finals)
      BY <2>2, <2>3 DEF RequestState, RunRecord
    <3>2. UNCHANGED rec /\
          \/ Return(q)
          \/ Advance(q, "limit", e)
          \/ Advance(q, "count", c)
      BY <2>12 DEF ResumeCheck
    <3> HIDE DEF c, e
    <3>3. FreshCopy' /\ CopiesBacked'
      BY <3>1, <3>2, CopySuccess, ReturnSuccess DEF NoCopy
    <3> QED BY <3>2, <3>3, RecordsUnchanged
  <2>13. CASE ResumeCount(q)
    BY <2>2, <2>3, <2>13, GotoSuccess, SaveSuccess
       DEF ResumeCount, NoCopy, HasRun, ResumeSteps
  <2>14. CASE ResumeCheckpoint(q)
    <3> DEFINE c == [req[q].copy EXCEPT !.status = "success"]
               t == [req[q].copy EXCEPT !.task = q]
    <3>1. t.status = "success" => req[q].run \in finals
      BY <2>2, <2>3 DEF RequestState, RunRecord
    <3>2. UNCHANGED rec /\
          \/ /\ latest[req[q].run] = "empty"
             /\ Advance(q, "complete", c)
          \/ Advance(q, "assign", t)
      BY <2>14 DEF ResumeCheckpoint
    <3>3. latest[req[q].run] = "empty" => req[q].run \in finals
      BY <2>2, <2>14 DEF ResumeCheckpoint, HasRun, ResumeSteps, SuccessInv, EmptyIsFinal
    <3> HIDE DEF c, t
    <3>4. FreshCopy' /\ CopiesBacked'
      BY <3>1, <3>2, <3>3, CopySuccess DEF NoCopy
    <3> QED BY <3>2, <3>4, RecordsUnchanged
  <2>15. CASE ResumeSave(q)
    <3>1. SuccessHasFinalState'
      BY <2>2, <2>3, <2>15, SaveSuccess DEF ResumeSave, HasRun, ResumeSteps
    <3>2. Absent.status # "success"
      BY DEF Absent
    <3>3. FreshCopy' /\ CopiesBacked'
      BY <2>15, <3>2, CopySuccess, GotoSuccess DEF ResumeSave, NoCopy
    <3> QED BY <3>1, <3>3
  <2>16. CASE CancelSave(q)
    <3>1. SuccessHasFinalState'
      BY <2>2, <2>3, <2>16, SaveSuccess DEF CancelSave, HasRun
    <3>2. Absent.status # "success"
      BY DEF Absent
    <3>3. FreshCopy' /\ CopiesBacked'
      BY <2>16, <3>2, CopySuccess DEF CancelSave, NoCopy
    <3> QED BY <3>1, <3>3
  <2>17. CASE Tell(q)
    BY <2>17, ReturnSuccess, RecordsUnchanged DEF Tell
  <2> QED BY <1>3, <2>4, <2>5, <2>6, <2>7, <2>8, <2>9, <2>10, <2>11, <2>12, <2>13,
             <2>14, <2>15, <2>16, <2>17 DEF RequestStep
<1>4. ASSUME NEW w \in Worker, WorkerStep(w) PROVE SuccessInv'
  <2>0. finals \subseteq finals' /\ UNCHANGED req
    BY <1>4 DEF WorkerStep, Take, UpdateRead, UpdateSave, Close, Begin, SaveInitialState,
                ObserveCancel, StreamEnds, SaveFinalSnapshot, SaveOutcome, TellOutcome
  <2> SUFFICES EmptyIsFinal' /\ SuccessHasFinalState' /\ WorkersBacked'
    BY <2>0, RequestsUnchanged DEF SuccessInv
  <2>2. work[w] \in WorkerState /\ (work[w].pc # "idle" => work[w].msg \in Message)
    BY DEF TypeInv, TypeOK, WorkerHasMessage
  <2>3. work[w].pc # "idle" => Run(w) \in Request
    BY <2>2 DEF Run, Message
  <2>4. work[w].target = "success" /\ work[w].pc \in {"save", "tell", "load", "mark"}
          => work[w].msg.run \in finals
    BY DEF SuccessInv, WorkersBacked, Run
  <2>5. ASSUME UNCHANGED <<latest, finals>> PROVE EmptyIsFinal'
    BY <2>5 DEF SuccessInv, EmptyIsFinal
  <2>6. ASSUME NEW m \in queue, Take(w, m)
        PROVE  EmptyIsFinal' /\ SuccessHasFinalState' /\ WorkersBacked'
    <3>1. UNCHANGED <<rec, latest, finals>>
      BY <2>6 DEF Take
    <3>2. CASE UNCHANGED work
      BY <3>1, <3>2, RecordsUnchanged, WorkersUnchanged
    <3>3. ASSUME NEW status \in {"running", "interrupted"},
                 WBecome(w, [pc |-> "load", msg |-> m, seen |-> Absent, target |-> status])
          PROVE  WorkersBacked'
      <4> DEFINE s == [pc |-> "load", msg |-> m, seen |-> Absent, target |-> status]
      <4>1. WBecome(w, s) /\ s.target # "success"
        BY <3>3
      <4> HIDE DEF s
      <4> QED BY <3>1, <4>1, WorkerSuccess
    <3> QED BY <2>5, <2>6, <3>1, <3>2, <3>3, RecordsUnchanged DEF Take
  <2>7. CASE UpdateRead(w)
    <3> DEFINE s == [work[w] EXCEPT !.pc = "mark", !.seen = rec[Run(w)]]
    <3>1. WBecome(w, s) /\ UNCHANGED <<rec, latest, finals>> /\ work[w].pc = "load"
      BY <2>7 DEF UpdateRead
    <3>2. s.target = work[w].target /\ s.msg = work[w].msg
      BY <2>2 DEF WorkerState
    <3> HIDE DEF s
    <3>3. WorkersBacked'
      BY <2>4, <3>1, <3>2, WorkerSuccess
    <3> QED BY <2>5, <3>1, <3>3, RecordsUnchanged
  <2>8. CASE UpdateSave(w)
    <3> DEFINE c == [work[w].seen EXCEPT !.status = work[w].target]
    <3>1. c.status = "success" => Run(w) \in finals
      BY <2>2, <2>4, <2>8 DEF UpdateSave, WorkerState, RunRecord, Run
    <3>2. Save(Run(w), c) /\ UNCHANGED <<latest, finals>> /\ Run(w) \in Request
      BY <2>3, <2>8 DEF UpdateSave
    <3> HIDE DEF c
    <3>3. SuccessHasFinalState'
      BY <3>1, <3>2, SaveSuccess
    <3>4. ASSUME NEW pc \in {"begin", "close"}, WAdvance(w, pc, work[w].target)
          PROVE  WorkersBacked'
      BY <3>2, <3>4, AdvanceSuccess
    <3> QED BY <2>5, <2>8, <3>2, <3>3, <3>4 DEF UpdateSave
  <2>9. CASE Close(w)
    BY <2>5, <2>9, IdleSuccess, RecordsUnchanged DEF Close, EndTask
  <2>10. CASE Begin(w)
    <3> DEFINE c == RunnerCopy(w, "running")
    <3>1. Save(Run(w), c) /\ UNCHANGED <<latest, finals>> /\ Run(w) \in Request
      BY <2>3, <2>10 DEF Begin
    <3>2. c.status # "success"
      BY <2>2, <2>10 DEF Begin, RunnerCopy, Message, RunRecord
    <3> HIDE DEF c
    <3>3. SuccessHasFinalState'
      BY <3>1, <3>2, SaveSuccess
    <3>4. ASSUME NEW pc \in {"init", "stream"}, WGoto(w, pc) PROVE WorkersBacked'
      <4> DEFINE s == [work[w] EXCEPT !.pc = pc]
      <4>1. WBecome(w, s) /\ s.pc \notin {"save", "tell", "load", "mark"}
        BY <2>2, <3>4 DEF WorkerState, WGoto
      <4> HIDE DEF s
      <4> QED BY <3>1, <4>1, WorkerSuccess
    <3> QED BY <2>5, <2>10, <3>1, <3>3, <3>4 DEF Begin
  <2>11. CASE SaveInitialState(w)
    <3> DEFINE s == [work[w] EXCEPT !.pc = "stream"]
    <3>1. UNCHANGED <<rec, finals>> /\ latest' = [latest EXCEPT ![Run(w)] = "agent"]
      BY <2>11 DEF SaveInitialState
    <3>2. WBecome(w, s) /\ s.pc = "stream"
      BY <2>2, <2>11 DEF SaveInitialState, WGoto, WorkerState
    <3> HIDE DEF s
    <3>3. WorkersBacked'
      BY <3>1, <3>2, WorkerSuccess
    <3>4. EmptyIsFinal'
      BY <3>1 DEF SuccessInv, EmptyIsFinal, TypeInv, TypeOK
    <3> QED BY <3>1, <3>3, <3>4, RecordsUnchanged
  <2>12. CASE ObserveCancel(w) \/ StreamEnds(w)
    <3>1. UNCHANGED <<rec, latest, finals>>
      BY <2>12 DEF ObserveCancel, StreamEnds
    <3>2. WorkersBacked'
      BY <2>12, <3>1, AdvanceSuccess DEF ObserveCancel, StreamEnds
    <3> QED BY <2>5, <3>1, <3>2, RecordsUnchanged
  <2>13. CASE SaveFinalSnapshot(w)
    <3> DEFINE s == [work[w] EXCEPT !.pc = "save"]
    <3>1. /\ UNCHANGED rec /\ latest' = [latest EXCEPT ![Run(w)] = "empty"]
          /\ finals' = finals \cup {Run(w)}
      BY <2>13 DEF SaveFinalSnapshot
    <3>2. WBecome(w, s) /\ s.msg.run \in finals'
      BY <2>2, <2>13 DEF SaveFinalSnapshot, WGoto, WorkerState, Run
    <3> HIDE DEF s
    <3>3. WorkersBacked'
      BY <2>0, <3>2, WorkerSuccess
    <3>4. EmptyIsFinal'
      BY <3>1 DEF SuccessInv, EmptyIsFinal, TypeInv, TypeOK
    <3> QED BY <2>0, <3>1, <3>3, <3>4, RecordsUnchanged
  <2>14. CASE SaveOutcome(w)
    <3> DEFINE c == RunnerCopy(w, work[w].target)
               s == [work[w] EXCEPT !.pc = "tell"]
    <3>1. Save(Run(w), c) /\ UNCHANGED <<latest, finals>> /\ Run(w) \in Request
      BY <2>3, <2>14 DEF SaveOutcome
    <3>2. c.status = "success" => Run(w) \in finals
      BY <2>2, <2>4, <2>14 DEF SaveOutcome, RunnerCopy, Message, RunRecord, Run
    <3>3. WBecome(w, s) /\ (s.target = "success" => s.msg.run \in finals)
      BY <2>2, <2>4, <2>14 DEF SaveOutcome, WGoto, WorkerState
    <3> HIDE DEF c, s
    <3>4. SuccessHasFinalState'
      BY <3>1, <3>2, SaveSuccess
    <3>5. WorkersBacked'
      BY <3>1, <3>3, WorkerSuccess
    <3> QED BY <2>5, <3>1, <3>4, <3>5
  <2>15. CASE TellOutcome(w)
    <3>1. UNCHANGED <<rec, latest, finals>>
      BY <2>15 DEF TellOutcome
    <3>2. CASE EndTask(w)
      BY <2>5, <3>1, <3>2, IdleSuccess, RecordsUnchanged DEF EndTask
    <3>3. CASE Update(w, work[w].target)
      <4>1. WorkersBacked'
        BY <2>4, <2>15, <3>1, <3>3, AdvanceSuccess DEF TellOutcome, Update, Run
      <4> QED BY <2>5, <3>1, <4>1, RecordsUnchanged
    <3> QED BY <2>15, <3>2, <3>3 DEF TellOutcome
  <2> QED BY <1>4, <2>6, <2>7, <2>8, <2>9, <2>10, <2>11, <2>12, <2>13, <2>14,
             <2>15 DEF WorkerStep
<1>5. CASE Fault
  <2>1. ASSUME NEW q \in Request, StreamAbandon(q) \/ EnqueueFails(q) PROVE SuccessInv'
    <3>1. UNCHANGED <<rec, latest, finals, work>> /\ Return(q)
      BY <2>1 DEF StreamAbandon, EnqueueFails
    <3> QED BY <3>1, ReturnSuccess, WorkersUnchanged, RecordsUnchanged DEF SuccessInv
  <2>2. ASSUME NEW p \in Replica, ApiCrash(p) PROVE SuccessInv'
    <3>1. UNCHANGED <<rec, latest, finals, work>>
      BY <2>2 DEF ApiCrash
    <3>2. [New EXCEPT !.pc = "done"].copy = Absent /\ Absent.status # "success"
      BY DEF New, Absent
    <3>3. FreshCopy' /\ CopiesBacked'
      BY <2>2, <3>1, <3>2 DEF ApiCrash, SuccessInv, FreshCopy, CopiesBacked
    <3> QED BY <3>1, <3>3, WorkersUnchanged, RecordsUnchanged DEF SuccessInv
  <2>3. ASSUME NEW w \in Worker,
               \/ WorkerCrash(w) \/ Unavailable(w)
               \/ StreamFails(w) \/ StoreFails(w) \/ ShutDown(w)
        PROVE  SuccessInv'
    <3>1. UNCHANGED <<rec, finals, req>>
      BY <2>3 DEF WorkerCrash, Unavailable, StreamFails, StoreFails, ShutDown
    <3>2. FreshCopy' /\ CopiesBacked' /\ SuccessHasFinalState'
      BY <3>1, RequestsUnchanged, RecordsUnchanged
    <3>3. EmptyIsFinal'
      BY <2>3, <3>1 DEF WorkerCrash, Unavailable, StreamFails, StoreFails, ShutDown, SuccessInv,
                        EmptyIsFinal, TypeInv, TypeOK
    <3>4. WorkersBacked'
      BY <2>3, <3>1, IdleSuccess, AdvanceSuccess
         DEF WorkerCrash, Unavailable, StreamFails, StoreFails, ShutDown, Update, EndTask
    <3> QED BY <3>2, <3>3, <3>4 DEF SuccessInv
  <2> QED BY <1>5, <2>1, <2>2, <2>3 DEF Fault
<1> QED BY <1>1, <1>2, <1>3, <1>4, <1>5 DEF Next

\* Whatever crashes, races or is overwritten, a run whose record says success
\* has a final ThreadState in its history.
THEOREM SuccessIsBacked == Spec => []SuccessHasFinalState
<1>1. SuccessInv => SuccessHasFinalState
  BY DEF SuccessInv
<1> QED BY InitTypeInv, StepTypeInv, InitSuccessInv, StepSuccessInv, <1>1, PTL DEF Spec
-----------------------------------------------------------------------------
(* The life of a task id: a request lends it, one message or one worker     *)
(* holds it, and every copy that schedules it carries it.                   *)

NewRequests == {"new", "startPending", "create"}
Starting == {"offer", "guard", "save", "enqueue"}
Reading == ResumeSteps \ {"resume"}
Busy(w) == work[w].pc # "idle"
TaskOf(w) == work[w].msg.id

\* A task id is held once, and only after the request that lent it returned.
HeldOnce ==
    /\ \A m, n \in queue : m.id = n.id => m = n
    /\ \A m \in queue, w \in Worker : Busy(w) => TaskOf(w) # m.id
    /\ \A v, w \in Worker : Busy(v) /\ Busy(w) /\ TaskOf(v) = TaskOf(w) => v = w
HeldAfterSent ==
    /\ \A m \in queue : req[m.id].pc = "done"
    /\ \A w \in Worker : Busy(w) => req[TaskOf(w)].pc = "done"
HeldInv == HeldOnce /\ HeldAfterSent

\* A run that a request, a message or a worker names has been created, and what
\* schedules a task carries its id.
RequestOK(records, q, s) ==
    /\ s.pc \in NewRequests => records[q] = Absent
    /\ s.pc \in HasRun => records[s.run].status # "absent"
    /\ s.pc \in {"guard", "save", "enqueue", "cancel"} \cup Reading
         => s.copy.status # "absent"
    /\ s.pc \in Starting => s.run = q
    /\ s.pc \in {"save", "enqueue", "assign", "submit"} => s.copy.task = q
    /\ s.pc \in {"check", "count", "limit"} => s.copy.task # NoTask
MessageOK(records, m) == records[m.run].status # "absent" /\ m.rec.task = m.id
WorkerOK(records, s) ==
    /\ s.pc # "idle" => MessageOK(records, s.msg)
    /\ s.pc \in {"begin", "init", "stream"} => s.target = "running"
    /\ s.pc = "snapshot" => s.target \in {"success", "interrupted"}
    /\ s.pc \in {"save", "tell", "close"} => s.target \in Terminal
CopyInv ==
    /\ \A q \in Request : RequestOK(rec, q, req[q])
    /\ \A m \in queue : MessageOK(rec, m)
    /\ \A w \in Worker : WorkerOK(rec, work[w])
TaskInv == HeldInv /\ CopyInv

LEMMA InitTaskInv == Init => TaskInv
<1> SUFFICES ASSUME Init PROVE TaskInv
  OBVIOUS
<1>1. New.pc = "new" /\ Idle.pc = "idle"
  BY DEF New, Idle
<1>2. HeldInv
  BY <1>1 DEF Init, HeldInv, HeldOnce, HeldAfterSent, Busy
<1>3. \A q \in Request : RequestOK(rec, q, New)
  BY <1>1 DEF Init, RequestOK, NewRequests, HasRun, ResumeSteps, Reading, Starting
<1>4. WorkerOK(rec, Idle)
  BY <1>1 DEF WorkerOK
<1> QED BY <1>2, <1>3, <1>4 DEF Init, TaskInv, CopyInv

\* A request that has returned stays so.
LEMMA ReturnIsDone ==
    ASSUME TypeInv, NEW q \in Request, Return(q)
    PROVE  /\ req'[q] = [New EXCEPT !.pc = "done"] /\ req'[q].pc = "done"
           /\ \A p \in Request \ {q} : req'[p] = req[p]
BY DEF Return, Become, New, TypeInv, TypeOK

LEMMA DoneStays ==
    ASSUME TypeInv, [Next]_vars, NEW p \in Request, req[p].pc = "done"
    PROVE  req'[p].pc = "done"
<1>1. ASSUME NEW q \in Request, NEW s, Become(q, s), req[q].pc # "done"
      PROVE  req'[p].pc = "done"
  BY <1>1 DEF Become, TypeInv, TypeOK
<1>2. ASSUME NEW q \in Request, RequestArrives(q) PROVE req'[p].pc = "done"
  <2>1. req[q].pc = "new"
    BY <1>2 DEF RequestArrives, StartRunning, RespondRunning, ResumeArrives, CancelRead
  <2>2. \E s : Become(q, s)
    BY <1>2 DEF RequestArrives, StartRunning, RespondRunning, ResumeArrives, CancelRead,
                Return, Goto, RespondTo
  <2> QED BY <1>1, <2>1, <2>2
<1>3. ASSUME NEW q \in Request, RequestStep(q) PROVE req'[p].pc = "done"
  <2>1. req[q].pc # "done"
    BY <1>3 DEF RequestStep, StartPending, StartCreate, StreamBegin, StartGuard,
                StartSave, StartEnqueue, RespondPending, ResumeRead, ResumeCheck,
                ResumeCount, ResumeCheckpoint, ResumeSave, ResumeSubmit, CancelSave, Tell
  <2>2. \E s : Become(q, s)
    BY <1>3 DEF RequestStep, StartPending, StartCreate, StreamBegin, StartGuard, Claim,
                StartSave, StartEnqueue, RespondPending, ResumeRead, ResumeCheck,
                ResumeCount, ResumeCheckpoint, ResumeSave, ResumeSubmit, CancelSave, Tell,
                Return, Goto, Advance, Send, RespondTo
  <2> QED BY <1>1, <2>1, <2>2
<1>4. ASSUME NEW w \in Worker, WorkerStep(w) PROVE req'[p].pc = "done"
  BY <1>4 DEF WorkerStep, Take, UpdateRead, UpdateSave, Close, Begin, SaveInitialState,
              ObserveCancel, StreamEnds, SaveFinalSnapshot, SaveOutcome, TellOutcome
<1>5. CASE Fault
  <2>1. ASSUME NEW q \in Request, StreamAbandon(q) \/ EnqueueFails(q)
        PROVE  req'[p].pc = "done"
    BY <1>1, <2>1 DEF StreamAbandon, EnqueueFails, Return
  <2>2. ASSUME NEW r \in Replica, ApiCrash(r) PROVE req'[p].pc = "done"
    BY <2>2 DEF ApiCrash, New
  <2>3. ASSUME NEW w \in Worker,
               \/ WorkerCrash(w) \/ Unavailable(w)
               \/ StreamFails(w) \/ StoreFails(w) \/ ShutDown(w)
        PROVE  req'[p].pc = "done"
    BY <2>3 DEF WorkerCrash, Unavailable, StreamFails, StoreFails, ShutDown
  <2> QED BY <1>5, <2>1, <2>2, <2>3 DEF Fault
<1>6. CASE UNCHANGED vars
  BY <1>6 DEF vars
<1> QED BY <1>2, <1>3, <1>4, <1>5, <1>6 DEF Next

\* The five ways in which task ids move.
LEMMA HeldKept ==
    ASSUME TypeInv, [Next]_vars, HeldInv, UNCHANGED <<queue, work>>
    PROVE  HeldInv'
<1>1. \A m \in queue : m.id \in Request
  BY DEF TypeInv, TypeOK, Message
<1>2. \A w \in Worker : Busy(w) => TaskOf(w) \in Request
  BY DEF TypeInv, WorkerHasMessage, Message, Busy, TaskOf
<1> QED BY <1>1, <1>2, DoneStays DEF HeldInv, HeldOnce, HeldAfterSent, Busy, TaskOf

LEMMA HeldSent ==
    ASSUME TypeInv, [Next]_vars, HeldInv, NEW q \in Request,
           req[q].pc # "done", Return(q), NEW m, m.id = q,
           queue' = queue \cup {m}, UNCHANGED work
    PROVE  HeldInv'
<1>1. \A n \in queue : n.id \in Request /\ n.id # q
  BY DEF TypeInv, TypeOK, Message, HeldInv, HeldAfterSent
<1>2. \A w \in Worker : Busy(w) => TaskOf(w) \in Request /\ TaskOf(w) # q
  BY DEF TypeInv, WorkerHasMessage, Message, Busy, TaskOf, HeldInv, HeldAfterSent
<1>3. HeldOnce'
  BY <1>1, <1>2 DEF HeldInv, HeldOnce, Busy, TaskOf
<1>4. req'[q].pc = "done"
  BY ReturnIsDone
<1>5. \A n \in queue' : req'[n.id].pc = "done"
  BY <1>1, <1>4, DoneStays DEF HeldInv, HeldAfterSent
<1>6. \A w \in Worker : Busy(w) => req'[TaskOf(w)].pc = "done"
  BY <1>2, DoneStays DEF HeldInv, HeldAfterSent
<1> QED BY <1>3, <1>5, <1>6 DEF HeldInv, HeldAfterSent, Busy, TaskOf

LEMMA HeldWorks ==
    ASSUME TypeInv, HeldInv, NEW w \in Worker, NEW s, WBecome(w, s),
           UNCHANGED <<queue, req>>,
           s.pc = "idle" \/ (Busy(w) /\ s.msg = work[w].msg)
    PROVE  HeldInv'
<1>1. /\ work'[w] = s
      /\ \A v \in Worker \ {w} : work'[v] = work[v]
  BY DEF WBecome, TypeInv, TypeOK
<1>2. \A v \in Worker : Busy(v)' => Busy(v) /\ TaskOf(v)' = TaskOf(v)
  BY <1>1 DEF Busy, TaskOf
<1> QED BY <1>2 DEF HeldInv, HeldOnce, HeldAfterSent

LEMMA HeldTaken ==
    ASSUME TypeInv, HeldInv, NEW w \in Worker, ~Busy(w), NEW m \in queue,
           queue' = queue \ {m}, UNCHANGED req, NEW s,
           UNCHANGED work \/ (WBecome(w, s) /\ s.msg = m)
    PROVE  HeldInv'
<1>1. CASE UNCHANGED work
  BY <1>1 DEF HeldInv, HeldOnce, HeldAfterSent, Busy, TaskOf
<1>2. CASE WBecome(w, s) /\ s.msg = m
  <2>1. /\ work'[w] = s
        /\ \A v \in Worker \ {w} : work'[v] = work[v]
    BY <1>2 DEF WBecome, TypeInv, TypeOK
  <2>2. /\ TaskOf(w)' = m.id
        /\ \A v \in Worker \ {w} : Busy(v)' = Busy(v) /\ TaskOf(v)' = TaskOf(v)
    BY <1>2, <2>1 DEF Busy, TaskOf
  <2>3. HeldOnce'
    BY <2>2 DEF HeldInv, HeldOnce
  <2>4. HeldAfterSent'
    BY <2>2 DEF HeldInv, HeldAfterSent
  <2> QED BY <2>3, <2>4 DEF HeldInv
<1> QED BY <1>1, <1>2

LEMMA HeldRetried ==
    ASSUME TypeInv, HeldInv, NEW w \in Worker, Busy(w), NEW n, n.id = TaskOf(w),
           queue' = queue \cup {n}, UNCHANGED req, WBecome(w, Idle)
    PROVE  HeldInv'
<1>1. /\ ~Busy(w)'
      /\ \A v \in Worker \ {w} : Busy(v)' = Busy(v) /\ TaskOf(v)' = TaskOf(v)
  BY DEF WBecome, TypeInv, TypeOK, Busy, TaskOf, Idle
<1>2. HeldOnce'
  BY <1>1 DEF HeldInv, HeldOnce
<1>3. HeldAfterSent'
  BY <1>1 DEF HeldInv, HeldAfterSent
<1> QED BY <1>2, <1>3 DEF HeldInv

\* Records are created and never dropped, and only its own start creates a run.
Grown == \A r \in Request : rec[r].status # "absent" => rec'[r].status # "absent"
LEMMA SaveGrows ==
    ASSUME TypeInv, NEW r \in Request, NEW c, c.status # "absent", Save(r, c)
    PROVE  /\ Grown
           /\ \A p \in Request \ {r} : rec'[p] = rec[p]
           /\ rec[r].status # "absent" =>
                \A p \in Request : rec[p] = Absent => rec'[p] = Absent
<1>1. Absent.status = "absent"
  BY DEF Absent
<1> QED BY <1>1 DEF Save, Grown, TypeInv, TypeOK

LEMMA CopiesFollow ==
    ASSUME TypeInv, CopyInv, NEW q \in Request, NEW s, Become(q, s), Grown,
           \A p \in Request \ {q} : rec[p] = Absent => rec'[p] = Absent,
           RequestOK(rec', q, s),
           \A m \in queue' : m \in queue \/ MessageOK(rec', m), UNCHANGED work
    PROVE  CopyInv'
<1>1. /\ req'[q] = s
      /\ \A p \in Request \ {q} : req'[p] = req[p]
  BY DEF Become, TypeInv, TypeOK
<1>2. \A p \in Request : RequestOK(rec', p, req'[p])
  <2> TAKE p \in Request
  <2>1. CASE p # q
    <3>1. RequestOK(rec, p, req[p]) /\ req'[p] = req[p]
      BY <1>1, <2>1 DEF CopyInv
    <3>2. req[p].pc \in HasRun => req[p].run \in Request
      BY DEF TypeInv, RequestNamesRun
    <3> QED BY <2>1, <3>1, <3>2 DEF RequestOK, Grown
  <2> QED BY <1>1, <2>1
<1>3. \A m \in queue : MessageOK(rec', m)
  BY DEF CopyInv, MessageOK, Grown, TypeInv, TypeOK, Message
<1>4. \A w \in Worker : WorkerOK(rec', work[w])
  BY DEF CopyInv, WorkerOK, MessageOK, Grown, TypeInv, WorkerHasMessage, Message
<1> QED BY <1>2, <1>3, <1>4 DEF CopyInv

LEMMA CopiesOfWorker ==
    ASSUME TypeInv, CopyInv, NEW w \in Worker, NEW s, WBecome(w, s), Grown,
           \A p \in Request : rec[p] = Absent => rec'[p] = Absent,
           WorkerOK(rec', s),
           \A m \in queue' : m \in queue \/ MessageOK(rec', m), UNCHANGED req
    PROVE  CopyInv'
<1>1. /\ work'[w] = s
      /\ \A v \in Worker \ {w} : work'[v] = work[v]
  BY DEF WBecome, TypeInv, TypeOK
<1>2. \A p \in Request : RequestOK(rec', p, req[p])
  BY DEF CopyInv, RequestOK, Grown, TypeInv, RequestNamesRun
<1>3. \A m \in queue : MessageOK(rec', m)
  BY DEF CopyInv, MessageOK, Grown, TypeInv, TypeOK, Message
<1>4. \A v \in Worker : WorkerOK(rec', work[v])
  BY DEF CopyInv, WorkerOK, MessageOK, Grown, TypeInv, WorkerHasMessage, Message
<1> QED BY <1>1, <1>2, <1>3, <1>4 DEF CopyInv

\* The moves of a request that leave the records alone.
LEMMA ReturnCopies ==
    ASSUME TypeInv, CopyInv, NEW q \in Request, Return(q), UNCHANGED <<rec, work>>,
           \A m \in queue' : m \in queue \/ MessageOK(rec, m)
    PROVE  CopyInv'
<1> DEFINE s == [New EXCEPT !.pc = "done"]
<1>1. s.pc = "done" /\ Become(q, s)
  BY DEF New, Return
<1> HIDE DEF s
<1>2. RequestOK(rec, q, s)
  BY <1>1 DEF RequestOK, NewRequests, HasRun, ResumeSteps, Reading, Starting
<1> QED BY <1>1, <1>2, CopiesFollow DEF Grown

LEMMA RespondCopies ==
    ASSUME TypeInv, CopyInv, NEW q \in Request, NEW runs,
           \A r \in runs : r \in Request /\ rec[r].status # "absent",
           RespondTo(q, runs), UNCHANGED <<rec, queue, work>>
    PROVE  CopyInv'
<1>1. CASE Return(q)
  BY <1>1, ReturnCopies
<1>2. ASSUME NEW r \in runs, NEW given,
             Become(q, [req[q] EXCEPT !.pc = "resume", !.run = r, !.value = given])
      PROVE  CopyInv'
  <2> DEFINE s == [req[q] EXCEPT !.pc = "resume", !.run = r, !.value = given]
  <2>1. s.pc = "resume" /\ s.run = r /\ Become(q, s)
    BY <1>2 DEF TypeInv, TypeOK, RequestState
  <2> HIDE DEF s
  <2>2. RequestOK(rec, q, s)
    BY <2>1 DEF RequestOK, NewRequests, Reading, Starting
  <2> QED BY <2>1, <2>2, CopiesFollow DEF Grown
<1> QED BY <1>1, <1>2 DEF RespondTo

\* A request goes on with its run and a copy of which RequestOK is left to show.
LEMMA AdvanceCopies ==
    ASSUME TypeInv, CopyInv, NEW q \in Request, NEW pc, NEW c,
           pc \notin NewRequests, req[q].pc \in HasRun,
           pc \in Starting => req[q].pc \in Starting,
           pc \in {"guard", "save", "enqueue", "cancel"} \cup Reading
             => c.status # "absent",
           pc \in {"save", "enqueue", "assign", "submit"} => c.task = q,
           pc \in {"check", "count", "limit"} => c.task # NoTask,
           Advance(q, pc, c) \/ (Goto(q, pc) /\ c = req[q].copy),
           Grown, \A p \in Request \ {q} : rec[p] = Absent => rec'[p] = Absent,
           UNCHANGED <<queue, work>>
    PROVE  CopyInv'
<1>0. PICK s : /\ Become(q, s)
               /\ s = [req[q] EXCEPT !.pc = pc, !.copy = c] \/
                    (s = [req[q] EXCEPT !.pc = pc] /\ c = req[q].copy)
  BY DEF Advance, Goto
<1>1. s.pc = pc /\ s.copy = c /\ s.run = req[q].run
  BY <1>0 DEF TypeInv, TypeOK, RequestState
<1>2. rec'[req[q].run].status # "absent" /\ (pc \in Starting => req[q].run = q)
  BY DEF CopyInv, RequestOK, Grown, TypeInv, RequestNamesRun
<1>3. RequestOK(rec', q, s)
  BY <1>1, <1>2 DEF RequestOK
<1> QED BY <1>0, <1>3, CopiesFollow

LEMMA StepHeldInv == TypeInv /\ HeldInv /\ [Next]_vars => HeldInv'
<1> SUFFICES ASSUME TypeInv, HeldInv, [Next]_vars PROVE HeldInv'
  OBVIOUS
<1>1. CASE UNCHANGED vars
  BY <1>1, HeldKept DEF vars
<1>2. ASSUME NEW q \in Request, RequestArrives(q) PROVE HeldInv'
  BY <1>2, HeldKept
     DEF RequestArrives, StartRunning, RespondRunning, ResumeArrives, CancelRead
<1>3. ASSUME NEW q \in Request, RequestStep(q) PROVE HeldInv'
  <2>1. CASE UNCHANGED <<queue, work>>
    BY <2>1, HeldKept
  <2>2. ASSUME NEW action, Send(q, action), req[q].pc # "done", UNCHANGED work
        PROVE  HeldInv'
    <3> DEFINE m == [id |-> q, run |-> req[q].run, action |-> action,
                     rec |-> req[q].copy, retries |-> 0]
    <3>1. m.id = q /\ queue' = queue \cup {m} /\ Return(q)
      BY <2>2 DEF Send
    <3> HIDE DEF m
    <3> QED BY <2>2, <3>1, HeldSent
  <2>3. CASE StartEnqueue(q) \/ ResumeSubmit(q)
    BY <2>2, <2>3 DEF StartEnqueue, ResumeSubmit
  <2> QED BY <1>3, <2>1, <2>3
          DEF RequestStep, StartPending, StartCreate, StreamBegin, StartGuard, StartSave,
              RespondPending, ResumeRead, ResumeCheck, ResumeCount, ResumeCheckpoint,
              ResumeSave, CancelSave, Tell
<1>4. ASSUME NEW w \in Worker, NEW pc, NEW status, Busy(w), WAdvance(w, pc, status),
             UNCHANGED <<queue, req>>
      PROVE  HeldInv'
  <2> DEFINE s == [work[w] EXCEPT !.pc = pc, !.seen = Absent, !.target = status]
  <2>1. s.msg = work[w].msg /\ WBecome(w, s)
    BY <1>4 DEF TypeInv, TypeOK, WorkerState, WAdvance
  <2> HIDE DEF s
  <2> QED BY <1>4, <2>1, HeldWorks
<1>5. ASSUME NEW w \in Worker, NEW pc, Busy(w), WGoto(w, pc), UNCHANGED <<queue, req>>
      PROVE  HeldInv'
  <2> DEFINE s == [work[w] EXCEPT !.pc = pc]
  <2>1. s.msg = work[w].msg /\ WBecome(w, s)
    BY <1>5 DEF TypeInv, TypeOK, WorkerState, WGoto
  <2> HIDE DEF s
  <2> QED BY <1>5, <2>1, HeldWorks
<1>6. ASSUME NEW w \in Worker, WBecome(w, Idle), UNCHANGED <<queue, req>>
      PROVE  HeldInv'
  BY <1>6, HeldWorks DEF Idle
<1>7. ASSUME NEW w \in Worker, WorkerStep(w) PROVE HeldInv'
  <2>1. ASSUME NEW m \in queue, Take(w, m) PROVE HeldInv'
    <3>1. ~Busy(w) /\ queue' = queue \ {m} /\ UNCHANGED req
      BY <2>1 DEF Take, Busy
    <3>2. CASE UNCHANGED work
      BY <3>1, <3>2, HeldTaken
    <3>3. ASSUME NEW status,
                 WBecome(w, [pc |-> "load", msg |-> m, seen |-> Absent, target |-> status])
          PROVE  HeldInv'
      <4> DEFINE s == [pc |-> "load", msg |-> m, seen |-> Absent, target |-> status]
      <4>1. s.msg = m /\ WBecome(w, s)
        BY <3>3
      <4> HIDE DEF s
      <4> QED BY <3>1, <4>1, HeldTaken
    <3> QED BY <2>1, <3>2, <3>3 DEF Take
  <2>2. CASE UpdateRead(w)
    <3> DEFINE s == [work[w] EXCEPT !.pc = "mark", !.seen = rec[Run(w)]]
    <3>1. s.msg = work[w].msg /\ WBecome(w, s)
      BY <2>2 DEF TypeInv, TypeOK, WorkerState, UpdateRead
    <3> HIDE DEF s
    <3> QED BY <2>2, <3>1, HeldWorks DEF UpdateRead, Busy
  <2>3. CASE Close(w)
    <3>1. Busy(w) /\ UNCHANGED req
      BY <2>3 DEF Close, Busy
    <3>2. CASE EndTask(w) /\ UNCHANGED queue
      BY <1>6, <3>1, <3>2 DEF EndTask
    <3>3. CASE /\ queue' = queue \cup {[work[w].msg EXCEPT !.retries = @ + 1]}
               /\ WBecome(w, Idle)
      <4> DEFINE n == [work[w].msg EXCEPT !.retries = @ + 1]
      <4>1. n.id = TaskOf(w)
        BY <3>1 DEF TypeInv, WorkerHasMessage, Message, Busy, TaskOf
      <4> HIDE DEF n
      <4> QED BY <3>1, <3>3, <4>1, HeldRetried DEF n
    <3> QED BY <2>3, <3>2, <3>3 DEF Close
  <2>4. CASE UpdateSave(w) \/ ObserveCancel(w) \/ StreamEnds(w)
    BY <1>4, <2>4 DEF UpdateSave, ObserveCancel, StreamEnds, Busy
  <2>5. CASE Begin(w) \/ SaveInitialState(w) \/ SaveFinalSnapshot(w) \/ SaveOutcome(w)
    BY <1>5, <2>5 DEF Begin, SaveInitialState, SaveFinalSnapshot, SaveOutcome, Busy
  <2>6. CASE TellOutcome(w)
    BY <1>4, <1>6, <2>6 DEF TellOutcome, EndTask, Update, Busy
  <2> QED BY <1>7, <2>1, <2>2, <2>3, <2>4, <2>5, <2>6 DEF WorkerStep
<1>8. CASE Fault
  <2>1. ASSUME NEW q \in Request, StreamAbandon(q) \/ EnqueueFails(q) PROVE HeldInv'
    BY <2>1, HeldKept DEF StreamAbandon, EnqueueFails
  <2>2. ASSUME NEW p \in Replica, ApiCrash(p) PROVE HeldInv'
    BY <2>2, HeldKept DEF ApiCrash
  <2>3. ASSUME NEW w \in Worker, WorkerCrash(w) PROVE HeldInv'
    BY <1>6, <2>3 DEF WorkerCrash
  <2>4. ASSUME NEW w \in Worker, Unavailable(w) \/ StreamFails(w) \/ StoreFails(w)
        PROVE  HeldInv'
    <3>1. Busy(w) /\ UNCHANGED <<queue, req>>
      BY <2>4 DEF Unavailable, StreamFails, StoreFails, Busy
    <3>2. \E pc, status : WAdvance(w, pc, status)
      BY <2>4 DEF Unavailable, StreamFails, StoreFails, Update
    <3> QED BY <1>4, <3>1, <3>2
  <2>5. ASSUME NEW w \in Worker, ShutDown(w) PROVE HeldInv'
    BY <1>4, <1>6, <2>5 DEF ShutDown, Update, EndTask, Busy
  <2> QED BY <1>8, <2>1, <2>2, <2>3, <2>4, <2>5 DEF Fault
<1> QED BY <1>1, <1>2, <1>3, <1>7, <1>8 DEF Next

\* The moves of a worker, of which WorkerOK is left to show.
LEMMA WorkerMoves ==
    ASSUME TypeInv, CopyInv, NEW w \in Worker, Busy(w), NEW pc, NEW status,
           WAdvance(w, pc, status) \/ (WGoto(w, pc) /\ status = work[w].target),
           pc \in {"begin", "init", "stream"} => status = "running",
           pc = "snapshot" => status \in {"success", "interrupted"},
           pc \in {"save", "tell", "close"} => status \in Terminal,
           Grown, \A p \in Request : rec[p] = Absent => rec'[p] = Absent,
           UNCHANGED <<queue, req>>
    PROVE  CopyInv'
<1>1. PICK s : /\ WBecome(w, s)
               /\ s = [work[w] EXCEPT !.pc = pc, !.seen = Absent, !.target = status] \/
                    (s = [work[w] EXCEPT !.pc = pc] /\ status = work[w].target)
  BY DEF WAdvance, WGoto
<1>2. s.pc = pc /\ s.target = status /\ s.msg = work[w].msg
  BY <1>1 DEF TypeInv, TypeOK, WorkerState
<1>3. MessageOK(rec', work[w].msg)
  BY DEF CopyInv, WorkerOK, MessageOK, Busy, Grown, TypeInv, WorkerHasMessage, Message
<1>4. WorkerOK(rec', s)
  BY <1>2, <1>3 DEF WorkerOK
<1> QED BY <1>1, <1>4, CopiesOfWorker

LEMMA WorkerEnds ==
    ASSUME TypeInv, CopyInv, NEW w \in Worker, WBecome(w, Idle), UNCHANGED <<rec, req>>,
           \A m \in queue' : m \in queue \/ MessageOK(rec', m)
    PROVE  CopyInv'
<1>1. WorkerOK(rec', Idle)
  BY DEF WorkerOK, Idle
<1> QED BY <1>1, CopiesOfWorker DEF Grown

LEMMA StepCopyInv == TypeInv /\ CopyInv /\ [Next]_vars => CopyInv'
<1> SUFFICES ASSUME TypeInv, CopyInv, [Next]_vars PROVE CopyInv'
  OBVIOUS
<1>1. CASE UNCHANGED vars
  BY <1>1 DEF vars, CopyInv
<1>2. ASSUME NEW q \in Request, NEW pc, req[q].pc \in NewRequests, Goto(q, pc),
             pc \in NewRequests \cup {"respondPending"}, UNCHANGED <<rec, queue, work>>
      PROVE  CopyInv'
  <2> DEFINE s == [req[q] EXCEPT !.pc = pc]
  <2>1. s.pc = pc /\ Become(q, s)
    BY <1>2 DEF TypeInv, TypeOK, RequestState, Goto
  <2> HIDE DEF s
  <2>2. RequestOK(rec, q, s)
    BY <1>2, <2>1 DEF CopyInv, RequestOK, NewRequests, HasRun, ResumeSteps, Reading, Starting
  <2> QED BY <1>2, <2>1, <2>2, CopiesFollow DEF Grown
<1>3. ASSUME NEW q \in Request, RequestArrives(q) PROVE CopyInv'
  <2>1. CASE StartRunning(q)
    BY <1>2, <2>1, ReturnCopies DEF StartRunning, NewRequests
  <2>2. CASE RespondRunning(q)
    <3>1. CASE RespondTo(q, WithStatus("running"))
      <4>1. \A r \in WithStatus("running") : r \in Request /\ rec[r].status # "absent"
        BY DEF WithStatus
      <4> QED BY <2>2, <3>1, <4>1, RespondCopies DEF RespondRunning
    <3> QED BY <1>2, <2>2, <3>1 DEF RespondRunning, NewRequests
  <2>3. ASSUME NEW r \in Request, ResumeArrives(q, r) PROVE CopyInv'
    <3> DEFINE s == [req[q] EXCEPT !.pc = "resume", !.run = r]
    <3>1. s.pc = "resume" /\ s.run = r /\ Become(q, s) /\ rec[r].status # "absent"
      BY <2>3 DEF TypeInv, TypeOK, RequestState, ResumeArrives
    <3> HIDE DEF s
    <3>2. RequestOK(rec, q, s)
      BY <3>1 DEF RequestOK, NewRequests, Reading, Starting
    <3> QED BY <2>3, <3>1, <3>2, CopiesFollow DEF Grown, ResumeArrives
  <2>4. ASSUME NEW r \in Request, CancelRead(q, r) PROVE CopyInv'
    <3> DEFINE c == [rec[r] EXCEPT !.cancel = TRUE, !.status = "interrupted"]
               s == [req[q] EXCEPT !.pc = "cancel", !.run = r, !.copy = c]
    <3>1. c.status = "interrupted"
      BY DEF TypeInv, TypeOK, RunRecord
    <3>2. Become(q, s) /\ rec[r].status # "absent"
      BY <2>4 DEF CancelRead
    <3> HIDE DEF c
    <3>3. s.pc = "cancel" /\ s.run = r /\ s.copy = c
      BY DEF TypeInv, TypeOK, RequestState
    <3> HIDE DEF s
    <3>4. RequestOK(rec, q, s)
      BY <3>1, <3>2, <3>3 DEF RequestOK, NewRequests, Reading, ResumeSteps, Starting
    <3> QED BY <2>4, <3>2, <3>4, CopiesFollow DEF Grown, CancelRead
  <2> QED BY <1>3, <2>1, <2>2, <2>3, <2>4 DEF RequestArrives
<1>4. ASSUME NEW q \in Request, RequestStep(q) PROVE CopyInv'
  <2>1. /\ req[q] \in RequestState
        /\ req[q].pc \in HasRun => req[q].run \in Request
        /\ RequestOK(rec, q, req[q])
    BY DEF TypeInv, TypeOK, RequestNamesRun, CopyInv
  <2>2. UNCHANGED rec => Grown /\ \A p \in Request : rec[p] = Absent => rec'[p] = Absent
    BY DEF Grown
  <2>3. CASE StartPending(q)
    BY <1>2, <2>3, ReturnCopies DEF StartPending, NewRequests
  <2>4. CASE StartCreate(q)
    <3> DEFINE c == [Absent EXCEPT !.status = "pending"]
    <3>1. c.status = "pending"
      BY DEF Absent
    <3>2. PICK pc \in {"guard", "offer"} :
            Become(q, [req[q] EXCEPT !.pc = pc, !.run = q, !.copy = c])
      BY <2>4 DEF StartCreate
    <3>3. Save(q, c) /\ UNCHANGED <<queue, work>>
      BY <2>4 DEF StartCreate
    <3> DEFINE s == [req[q] EXCEPT !.pc = pc, !.run = q, !.copy = c]
    <3>4. Become(q, s)
      BY <3>2
    <3> HIDE DEF c
    <3>5. s.pc = pc /\ s.run = q /\ s.copy = c
      BY <2>1 DEF RequestState
    <3> HIDE DEF s
    <3>6. Grown /\ (\A p \in Request \ {q} : rec'[p] = rec[p]) /\ rec'[q] = c
      BY <3>1, <3>3, SaveGrows DEF Save, TypeInv, TypeOK
    <3>7. RequestOK(rec', q, s)
      BY <3>1, <3>5, <3>6 DEF RequestOK, NewRequests, Reading, ResumeSteps
    <3> QED BY <3>3, <3>4, <3>6, <3>7, CopiesFollow
  <2>5. CASE StreamBegin(q)
    <3> DEFINE c == rec[req[q].run]
    <3>1. req[q].pc = "offer" /\ c.status # "absent"
      BY <2>1, <2>5 DEF StreamBegin, RequestOK, HasRun
    <3>2. Advance(q, "guard", c) /\ UNCHANGED <<rec, queue, work>>
      BY <2>5 DEF StreamBegin
    <3> HIDE DEF c
    <3> QED BY <2>2, <3>1, <3>2, AdvanceCopies
            DEF NewRequests, HasRun, Starting, Reading, ResumeSteps
  <2>6. CASE StartGuard(q)
    <3>1. CASE Return(q)
      BY <2>6, <3>1, ReturnCopies DEF StartGuard
    <3>2. CASE Claim(q)
      <4> DEFINE c == [req[q].copy EXCEPT !.task = q]
      <4>1. req[q].pc = "guard" /\ c.status # "absent" /\ c.task = q
        BY <2>1, <2>6 DEF StartGuard, RequestOK, RequestState, RunRecord
      <4>2. Advance(q, "save", c) /\ UNCHANGED <<rec, queue, work>>
        BY <2>6, <3>2 DEF StartGuard, Claim
      <4> HIDE DEF c
      <4> QED BY <2>2, <4>1, <4>2, AdvanceCopies
              DEF NewRequests, HasRun, Starting, Reading, ResumeSteps
    <3> QED BY <2>6, <3>1, <3>2 DEF StartGuard
  <2>7. CASE StartSave(q)
    <3> DEFINE c == req[q].copy
    <3>1. req[q].pc = "save" /\ c.status # "absent" /\ c.task = q
      BY <2>1, <2>7 DEF StartSave, RequestOK
    <3>2. /\ Save(req[q].run, c) /\ Goto(q, "enqueue") /\ UNCHANGED <<queue, work>>
          /\ req[q].run \in Request /\ rec[req[q].run].status # "absent"
      BY <2>1, <2>7 DEF StartSave, HasRun, RequestOK
    <3>3. Grown /\ \A p \in Request : rec[p] = Absent => rec'[p] = Absent
      BY <3>1, <3>2, SaveGrows
    <3>4. c = req[q].copy /\ Goto(q, "enqueue") /\ UNCHANGED <<queue, work>>
      BY <3>2
    <3> HIDE DEF c
    <3>5. /\ "enqueue" \notin NewRequests /\ req[q].pc \in HasRun
          /\ req[q].pc \in Starting
          /\ "enqueue" \notin {"check", "count", "limit"}
      BY <3>1 DEF NewRequests, HasRun, Starting
    <3> QED BY <3>1, <3>3, <3>4, <3>5, AdvanceCopies
  <2>8. CASE StartEnqueue(q) \/ ResumeSubmit(q)
    <3>1. /\ rec[req[q].run].status # "absent" /\ req[q].copy.task = q
      BY <2>1, <2>8 DEF StartEnqueue, ResumeSubmit, RequestOK, HasRun, ResumeSteps
    <3>2. UNCHANGED <<rec, work>> /\ Return(q)
      BY <2>8 DEF StartEnqueue, ResumeSubmit, Send
    <3>3. \A m \in queue' : m \in queue \/ MessageOK(rec, m)
      BY <2>8, <3>1 DEF StartEnqueue, ResumeSubmit, Send, MessageOK
    <3> QED BY <3>2, <3>3, ReturnCopies
  <2>9. CASE RespondPending(q)
    <3>1. \A r \in WithStatus("pending") : r \in Request /\ rec[r].status # "absent"
      BY DEF WithStatus
    <3> QED BY <2>9, <3>1, RespondCopies, ReturnCopies DEF RespondPending
  <2>10. CASE ResumeRead(q)
    <3> DEFINE c == rec[req[q].run]
    <3>1. req[q].pc = "resume" /\ UNCHANGED <<rec, queue, work>> /\
          \/ Return(q)
          \/ /\ c.status # "absent"
             /\ \E pc \in {"check", "checkpoint"} :
                  Advance(q, pc, c) /\ (pc = "check" => c.task # NoTask)
      BY <2>10 DEF ResumeRead, Active
    <3> HIDE DEF c
    <3> QED BY <2>2, <3>1, ReturnCopies, AdvanceCopies
            DEF NewRequests, HasRun, Starting, ResumeSteps
  <2>11. CASE ResumeCheck(q)
    <3> DEFINE e == [req[q].copy EXCEPT !.status = "error"]
               c == [req[q].copy EXCEPT !.count = @ + 1]
    <3>1. /\ e.status # "absent" /\ e.task # NoTask
          /\ c.status # "absent" /\ c.task # NoTask /\ req[q].pc = "check"
      BY <2>1, <2>11 DEF ResumeCheck, RequestState, RunRecord, RequestOK, Reading, ResumeSteps
    <3>2. UNCHANGED <<rec, queue, work>> /\
          (Return(q) \/ Advance(q, "limit", e) \/ Advance(q, "count", c))
      BY <2>11 DEF ResumeCheck
    <3> HIDE DEF c, e
    <3> QED BY <2>2, <3>1, <3>2, ReturnCopies, AdvanceCopies
            DEF NewRequests, HasRun, Starting, ResumeSteps
  <2>12. CASE ResumeCount(q) \/ (ResumeSave(q) /\ req[q].pc = "assign")
    <3> DEFINE c == req[q].copy
    <3>1. /\ req[q].pc \in {"count", "assign"} /\ c.status # "absent"
          /\ req[q].pc = "assign" => c.task = q
      BY <2>1, <2>12 DEF ResumeCount, RequestOK, Reading, ResumeSteps
    <3>2. /\ Save(req[q].run, c) /\ UNCHANGED <<queue, work>>
          /\ \/ req[q].pc = "count" /\ Goto(q, "checkpoint")
             \/ req[q].pc = "assign" /\ Goto(q, "submit")
          /\ req[q].run \in Request /\ rec[req[q].run].status # "absent"
      BY <2>1, <2>12 DEF ResumeCount, ResumeSave, HasRun, ResumeSteps, RequestOK
    <3>3. Grown /\ \A p \in Request : rec[p] = Absent => rec'[p] = Absent
      BY <3>1, <3>2, SaveGrows
    <3> QED BY <3>1, <3>2, <3>3, AdvanceCopies
            DEF NewRequests, HasRun, Starting, Reading, ResumeSteps
  <2>13. CASE ResumeCheckpoint(q)
    <3> DEFINE c == [req[q].copy EXCEPT !.status = "success"]
               t == [req[q].copy EXCEPT !.task = q]
    <3>1. /\ c.status # "absent" /\ t.status # "absent" /\ t.task = q
          /\ req[q].pc = "checkpoint"
      BY <2>1, <2>13 DEF ResumeCheckpoint, RequestState, RunRecord, RequestOK, Reading,
                         ResumeSteps
    <3>2. UNCHANGED <<rec, queue, work>> /\
          (Advance(q, "complete", c) \/ Advance(q, "assign", t))
      BY <2>13 DEF ResumeCheckpoint
    <3> HIDE DEF c, t
    <3> QED BY <2>2, <3>1, <3>2, AdvanceCopies DEF NewRequests, HasRun, Starting, ResumeSteps
  <2>14. CASE \/ ResumeSave(q) /\ req[q].pc # "assign"
              \/ CancelSave(q)
    <3> DEFINE c == req[q].copy
    <3>1. req[q].pc \in {"limit", "complete", "cancel"} /\ c.status # "absent"
      BY <2>1, <2>14 DEF ResumeSave, CancelSave, RequestOK, Reading, ResumeSteps
    <3>2. /\ Save(req[q].run, c) /\ UNCHANGED <<queue, work>>
          /\ Advance(q, "tell", Absent) \/ Advance(q, "tellCancel", Absent)
          /\ req[q].run \in Request /\ rec[req[q].run].status # "absent"
      BY <2>1, <2>14 DEF ResumeSave, CancelSave, HasRun, ResumeSteps, RequestOK
    <3>3. Grown /\ \A p \in Request : rec[p] = Absent => rec'[p] = Absent
      BY <3>1, <3>2, SaveGrows
    <3> QED BY <3>1, <3>2, <3>3, AdvanceCopies
            DEF NewRequests, HasRun, Starting, Reading, ResumeSteps
  <2>15. CASE Tell(q)
    BY <2>15, ReturnCopies DEF Tell
  <2> QED BY <1>4, <2>3, <2>4, <2>5, <2>6, <2>7, <2>8, <2>9, <2>10, <2>11, <2>12, <2>13,
             <2>14, <2>15 DEF RequestStep
<1>5. ASSUME NEW w \in Worker, NEW r \in Request, NEW c \in RunRecord, r = Run(w), Busy(w),
             Save(r, c), c.status # "absent"
      PROVE  Grown /\ \A p \in Request : rec[p] = Absent => rec'[p] = Absent
  <2>1. rec[r].status # "absent"
    BY <1>5 DEF CopyInv, WorkerOK, MessageOK, Busy, Run
  <2> QED BY <1>5, <2>1, SaveGrows
<1>6. UNCHANGED rec => Grown /\ \A p \in Request : rec[p] = Absent => rec'[p] = Absent
  BY DEF Grown
<1>7. ASSUME NEW w \in Worker, WorkerStep(w) PROVE CopyInv'
  <2>1. /\ work[w] \in WorkerState /\ WorkerOK(rec, work[w])
        /\ Busy(w) => work[w].msg \in Message /\ Run(w) \in Request
    BY DEF TypeInv, TypeOK, WorkerHasMessage, Message, CopyInv, Busy, Run
  <2>2. ASSUME NEW m \in queue, Take(w, m) PROVE CopyInv'
    <3>1. queue' \subseteq queue /\ UNCHANGED <<rec, req>>
      BY <2>2 DEF Take
    <3>2. CASE UNCHANGED work
      BY <3>1, <3>2 DEF CopyInv
    <3>3. ASSUME NEW status,
                 WBecome(w, [pc |-> "load", msg |-> m, seen |-> Absent, target |-> status])
          PROVE  CopyInv'
      <4> DEFINE s == [pc |-> "load", msg |-> m, seen |-> Absent, target |-> status]
      <4>1. s.pc = "load" /\ s.msg = m /\ WBecome(w, s)
        BY <3>3
      <4> HIDE DEF s
      <4>2. WorkerOK(rec', s)
        BY <3>1, <4>1 DEF WorkerOK, CopyInv
      <4> QED BY <1>6, <3>1, <4>1, <4>2, CopiesOfWorker
    <3> QED BY <2>2, <3>2, <3>3 DEF Take
  <2>3. CASE UpdateRead(w)
    <3> DEFINE s == [work[w] EXCEPT !.pc = "mark", !.seen = rec[Run(w)]]
    <3>1. s.pc = "mark" /\ s.msg = work[w].msg /\ WBecome(w, s)
      BY <2>1, <2>3 DEF UpdateRead, WorkerState
    <3>2. UNCHANGED <<rec, queue, req>> /\ work[w].pc = "load"
      BY <2>3 DEF UpdateRead
    <3> HIDE DEF s
    <3>3. WorkerOK(rec', s)
      BY <2>1, <3>1, <3>2 DEF WorkerOK
    <3> QED BY <1>6, <3>1, <3>2, <3>3, CopiesOfWorker
  <2>4. CASE UpdateSave(w)
    <3>1. Busy(w) /\ UNCHANGED <<queue, req>>
      BY <2>4 DEF UpdateSave, Busy
    <3> DEFINE c == [work[w].seen EXCEPT !.status = work[w].target]
    <3>2. c \in RunRecord /\ c.status # "absent" /\ Save(Run(w), c)
      BY <2>1, <2>4, StatusType DEF UpdateSave, WorkerState, RunRecord, Active, Terminal
    <3> HIDE DEF c
    <3>3. Grown /\ \A p \in Request : rec[p] = Absent => rec'[p] = Absent
      BY <1>5, <2>1, <3>1, <3>2
    <3>4. \/ work[w].target = "running" /\ WAdvance(w, "begin", "running")
          \/ work[w].target \in Terminal /\ WAdvance(w, "close", work[w].target)
      BY <2>1, <2>4 DEF UpdateSave, WorkerState
    <3> QED BY <3>1, <3>3, <3>4, WorkerMoves
  <2>5. CASE Close(w)
    <3>1. UNCHANGED <<rec, req>> /\ WBecome(w, Idle)
      BY <2>5 DEF Close, EndTask
    <3>2. MessageOK(rec, [work[w].msg EXCEPT !.retries = @ + 1])
      BY <2>1, <2>5 DEF Close, Busy, WorkerOK, MessageOK, Message
    <3>3. \A m \in queue' : m \in queue \/ MessageOK(rec', m)
      BY <2>5, <3>1, <3>2 DEF Close, MessageOK
    <3> QED BY <3>1, <3>3, WorkerEnds
  <2>6. ASSUME NEW status \in Active \cup Terminal, NEW pc, Busy(w),
               Save(Run(w), RunnerCopy(w, status)), WGoto(w, pc), UNCHANGED <<queue, req>>,
               pc \in {"init", "stream"} => work[w].target = "running",
               pc \in {"init", "stream", "tell"},
               pc = "tell" => work[w].target \in Terminal
        PROVE  CopyInv'
    <3> DEFINE c == RunnerCopy(w, status)
    <3>1. c \in RunRecord /\ c.status # "absent"
      BY <2>1, <2>6, StatusType DEF RunnerCopy, Message, RunRecord, Active, Terminal
    <3>2. Save(Run(w), c)
      BY <2>6
    <3> HIDE DEF c
    <3>3. Grown /\ \A p \in Request : rec[p] = Absent => rec'[p] = Absent
      BY <1>5, <2>1, <2>6, <3>1, <3>2
    <3> QED BY <2>6, <3>3, WorkerMoves
  <2>7. CASE Begin(w)
    <3>1. work[w].target = "running" /\ Busy(w)
      BY <2>1, <2>7 DEF Begin, WorkerOK, Busy
    <3> QED BY <2>6, <2>7, <3>1 DEF Begin, Active
  <2>8. CASE SaveOutcome(w)
    <3>1. work[w].target \in Terminal /\ Busy(w)
      BY <2>1, <2>8 DEF SaveOutcome, WorkerOK, Busy
    <3> QED BY <2>6, <2>8, <3>1 DEF SaveOutcome
  <2>9. CASE SaveInitialState(w) \/ SaveFinalSnapshot(w)
    <3>1. /\ Busy(w) /\ UNCHANGED <<rec, queue, req>>
          /\ \/ WGoto(w, "stream") /\ work[w].target = "running"
             \/ WGoto(w, "save") /\ work[w].target \in Terminal
      BY <2>1, <2>9 DEF SaveInitialState, SaveFinalSnapshot, WorkerOK, Busy, Terminal
    <3> QED BY <1>6, <3>1, WorkerMoves
  <2>10. CASE ObserveCancel(w) \/ StreamEnds(w)
    <3>1. /\ Busy(w) /\ UNCHANGED <<rec, queue, req>>
          /\ \E status \in {"success", "interrupted"} : WAdvance(w, "snapshot", status)
      BY <2>10 DEF ObserveCancel, StreamEnds, Busy
    <3> QED BY <1>6, <3>1, WorkerMoves
  <2>11. CASE TellOutcome(w)
    <3>1. Busy(w) /\ UNCHANGED <<rec, queue, req>>
      BY <2>11 DEF TellOutcome, Busy
    <3>2. CASE EndTask(w)
      BY <3>1, <3>2, WorkerEnds DEF EndTask
    <3>3. CASE WAdvance(w, "load", work[w].target)
      BY <1>6, <3>1, <3>3, WorkerMoves
    <3> QED BY <2>11, <3>2, <3>3 DEF TellOutcome, Update
  <2> QED BY <1>7, <2>2, <2>3, <2>4, <2>5, <2>7, <2>8, <2>9, <2>10, <2>11 DEF WorkerStep
<1>8. CASE Fault
  <2>1. ASSUME NEW q \in Request, StreamAbandon(q) \/ EnqueueFails(q) PROVE CopyInv'
    BY <2>1, ReturnCopies DEF StreamAbandon, EnqueueFails
  <2>2. ASSUME NEW p \in Replica, ApiCrash(p) PROVE CopyInv'
    <3>1. \A q \in Request : req'[q] = req[q] \/ req'[q].pc = "done"
      BY <2>2 DEF ApiCrash, New, TypeInv, TypeOK
    <3>2. \A q \in Request : RequestOK(rec, q, req'[q])
      BY <3>1 DEF CopyInv, RequestOK, NewRequests, HasRun, ResumeSteps, Reading, Starting
    <3> QED BY <2>2, <3>2 DEF ApiCrash, CopyInv
  <2>3. ASSUME NEW w \in Worker, WorkerCrash(w) PROVE CopyInv'
    BY <2>3, WorkerEnds DEF WorkerCrash
  <2>4. ASSUME NEW w \in Worker,
               Unavailable(w) \/ StreamFails(w) \/ StoreFails(w)
        PROVE  CopyInv'
    <3>1. Busy(w) /\ UNCHANGED <<rec, queue, req>>
      BY <2>4 DEF Unavailable, StreamFails, StoreFails, Busy
    <3>2. WAdvance(w, "load", "error") \/ WAdvance(w, "save", "error")
      BY <2>4 DEF Unavailable, StreamFails, StoreFails, Update
    <3> QED BY <1>6, <3>1, <3>2, WorkerMoves DEF Terminal
  <2>5. ASSUME NEW w \in Worker, ShutDown(w) PROVE CopyInv'
    <3>1. Busy(w) /\ UNCHANGED <<rec, queue, req>>
      BY <2>5 DEF ShutDown, Busy
    <3>2. CASE EndTask(w)
      BY <3>1, <3>2, WorkerEnds DEF EndTask
    <3>3. CASE WAdvance(w, "load", "interrupted")
      BY <1>6, <3>1, <3>3, WorkerMoves
    <3> QED BY <2>5, <3>2, <3>3 DEF ShutDown, Update
  <2> QED BY <1>8, <2>1, <2>2, <2>3, <2>4, <2>5 DEF Fault
<1> QED BY <1>1, <1>3, <1>4, <1>7, <1>8 DEF Next

LEMMA StepTaskInv == TypeInv /\ TaskInv /\ [Next]_vars => TaskInv'
BY StepHeldInv, StepCopyInv DEF TaskInv
-----------------------------------------------------------------------------
(* CeleryRuns implements RunContract as long as runs are only started.      *)

\* Clients start runs and do nothing else with them; no worker is shut down
\* gently, no task is retried and no outcome is refused by the store.
RunsAreStarted ==
    /\ Operations \subseteq {"start", "stream"}
    /\ Faults \cap {"shutdown", "transient", "store"} = {}

\* A run is pending as long as its request or its message carries it on, and the
\* one worker that holds it writes each status over the one that precedes it.
RequestInStep(records, q, s) ==
    /\ s.pc \in NewRequests \cup Starting \cup {"done"}
    /\ s.pc \in Starting => records[q].status = "pending"
    /\ s.pc \in Starting \ {"offer"} => s.copy.status = "pending"
MessageInStep(records, m) == m.run = m.id /\ records[m.id].status = "pending"
WorkerInStep(records, s) ==
    s.pc # "idle" =>
      LET status == records[s.msg.id].status IN
      /\ s.msg.run = s.msg.id
      /\ s.pc \in {"load", "mark"} =>
           \/ s.target = "running" /\ status = "pending"
           \/ s.target = "success" /\ status = "success"
           \/ s.target = "error" /\ status \in {"running", "error"}
      /\ s.pc \in {"begin", "init", "stream", "snapshot", "save"} => status = "running"
      /\ s.pc \in {"tell", "close"} => status = s.target
ContractInv ==
    /\ \A q \in Request : RequestInStep(rec, q, req[q])
    /\ \A m \in queue : MessageInStep(rec, m)
    /\ \A w \in Worker : WorkerInStep(rec, work[w])

LEMMA InitContract == Init => ContractInv /\ Contract!Init
<1> SUFFICES ASSUME Init PROVE ContractInv /\ Contract!Init
  OBVIOUS
<1>1. New.pc = "new" /\ Idle.pc = "idle" /\ Absent.status = "absent"
  BY DEF New, Idle, Absent
<1>2. Contract!Init
  BY <1>1 DEF Init, Contract!Init
<1>3. \A q \in Request : RequestInStep(rec, q, New)
  BY <1>1 DEF RequestInStep, NewRequests, Starting
<1>4. WorkerInStep(rec, Idle)
  BY <1>1 DEF WorkerInStep
<1> QED BY <1>2, <1>3, <1>4 DEF Init, ContractInv

\* Whoever carries a run on does so alone.
LEMMA RequestInContract ==
    ASSUME TypeInv, TaskInv, ContractInv, NEW q \in Request, req[q].pc # "done",
           NEW s, Become(q, s), RequestInStep(rec', q, s),
           \A r \in Request \ {q} : rec'[r] = rec[r],
           \A m \in queue' : m \in queue \/ MessageInStep(rec', m), UNCHANGED work
    PROVE  ContractInv'
<1>1. /\ req'[q] = s
      /\ \A p \in Request \ {q} : req'[p] = req[p]
  BY DEF Become, TypeInv, TypeOK
<1>2. \A p \in Request : RequestInStep(rec', p, req'[p])
  BY <1>1 DEF ContractInv, RequestInStep
<1>3. \A m \in queue : m.id \in Request /\ m.id # q
  BY DEF TypeInv, TypeOK, Message, TaskInv, HeldInv, HeldAfterSent
<1>4. \A m \in queue' : MessageInStep(rec', m)
  BY <1>3 DEF ContractInv, MessageInStep
<1>5. \A w \in Worker : work[w].pc # "idle"
                          => work[w].msg.id \in Request /\ work[w].msg.id # q
  BY DEF TypeInv, WorkerHasMessage, Message, TaskInv, HeldInv, HeldAfterSent, Busy, TaskOf
<1>6. \A w \in Worker : WorkerInStep(rec', work[w])
  BY <1>5 DEF ContractInv, WorkerInStep
<1> QED BY <1>2, <1>4, <1>6 DEF ContractInv

LEMMA WorkerInContract ==
    ASSUME TypeInv, TaskInv, ContractInv, NEW w \in Worker, Busy(w),
           NEW s, WBecome(w, s), WorkerInStep(rec', s),
           \A r \in Request \ {TaskOf(w)} : rec'[r] = rec[r],
           UNCHANGED <<queue, req>>
    PROVE  ContractInv'
<1>0. TaskOf(w) \in Request
  BY DEF TypeInv, WorkerHasMessage, Message, Busy, TaskOf
<1>1. /\ work'[w] = s
      /\ \A v \in Worker \ {w} : work'[v] = work[v]
  BY DEF WBecome, TypeInv, TypeOK
<1>2. \A p \in Request : RequestInStep(rec', p, req[p])
  <2> TAKE p \in Request
  <2>1. CASE p = TaskOf(w)
    <3>1. req[p].pc = "done"
      BY <2>1 DEF TaskInv, HeldInv, HeldAfterSent
    <3> QED BY <3>1 DEF RequestInStep, Starting
  <2>2. CASE p # TaskOf(w)
    BY <2>2 DEF ContractInv, RequestInStep
  <2> QED BY <2>1, <2>2
<1>3. \A m \in queue : m.id \in Request /\ m.id # TaskOf(w)
  BY DEF TypeInv, TypeOK, Message, TaskInv, HeldInv, HeldOnce
<1>4. \A m \in queue : MessageInStep(rec', m)
  BY <1>3 DEF ContractInv, MessageInStep
<1>5. \A v \in Worker \ {w} : work[v].pc # "idle"
                          => work[v].msg.id \in Request /\ work[v].msg.id # TaskOf(w)
  BY DEF TypeInv, WorkerHasMessage, Message, TaskInv, HeldInv, HeldOnce, Busy, TaskOf
<1>6. \A v \in Worker : WorkerInStep(rec', work'[v])
  BY <1>1, <1>5 DEF ContractInv, WorkerInStep
<1> QED BY <1>2, <1>4, <1>6 DEF ContractInv

\* The contract's view of a step.
LEMMA StatusKept ==
    ASSUME \A r \in Request : rec'[r].status = rec[r].status, UNCHANGED announced
    PROVE  UNCHANGED Contract!vars
BY DEF Contract!vars

LEMMA StatusSaved ==
    ASSUME TypeInv, NEW r \in Request, NEW c, Save(r, c)
    PROVE  /\ [p \in Request |-> rec'[p].status]
                = [[p \in Request |-> rec[p].status] EXCEPT ![r] = c.status]
           /\ rec'[r] = c
           /\ \A p \in Request \ {r} : rec'[p] = rec[p]
BY DEF Save, TypeInv, TypeOK

\* Every step of the system is a step of the contract, or none that it shows.
LEMMA StepContract ==
    ASSUME RunsAreStarted, TypeInv, TaskInv, ContractInv, [Next]_vars
    PROVE  ContractInv' /\ [Contract!Next]_(Contract!vars)
<1> DEFINE Kept == ContractInv' /\ [Contract!Next]_(Contract!vars)
<1>1. UNCHANGED <<rec, announced>> => [Contract!Next]_(Contract!vars)
  BY StatusKept
<1>2. CASE UNCHANGED vars
  BY <1>1, <1>2 DEF vars, ContractInv
<1>3. ASSUME NEW q \in Request, NEW s, Become(q, s), UNCHANGED <<rec, announced, work>>,
             req[q].pc # "done", RequestInStep(rec, q, s),
             \A m \in queue' : m \in queue \/ MessageInStep(rec, m)
      PROVE  Kept
  BY <1>1, <1>3, RequestInContract
<1>4. ASSUME NEW q \in Request, Return(q), UNCHANGED <<rec, announced, work>>,
             req[q].pc # "done", \A m \in queue' : m \in queue \/ MessageInStep(rec, m)
      PROVE  Kept
  <2> DEFINE s == [New EXCEPT !.pc = "done"]
  <2>1. s.pc = "done" /\ Become(q, s)
    BY <1>4 DEF New, Return
  <2> HIDE DEF s, Kept
  <2>2. RequestInStep(rec, q, s)
    BY <2>1 DEF RequestInStep, Starting
  <2> QED BY <1>3, <1>4, <2>1, <2>2
<1>5. \A q \in Request : /\ req[q] \in RequestState
                         /\ req[q].pc \in HasRun => req[q].run \in Request
                         /\ RequestOK(rec, q, req[q]) /\ RequestInStep(rec, q, req[q])
  BY DEF TypeInv, TypeOK, RequestNamesRun, TaskInv, CopyInv, ContractInv
<1> HIDE DEF Kept
<1>6. ASSUME NEW q \in Request, RequestArrives(q) PROVE Kept
  <2>1. StartRunning(q)
    BY <1>6 DEF RequestArrives, RunsAreStarted, RespondRunning, ResumeArrives, CancelRead
  <2>2. req[q].pc = "new" /\ UNCHANGED <<rec, announced, work, queue>>
    BY <2>1 DEF StartRunning
  <2>3. CASE Return(q)
    BY <1>4, <2>2, <2>3
  <2>4. CASE Goto(q, "startPending")
    <3> DEFINE s == [req[q] EXCEPT !.pc = "startPending"]
    <3>1. s.pc = "startPending" /\ Become(q, s)
      BY <1>5, <2>4 DEF RequestState, Goto
    <3> HIDE DEF s
    <3>2. RequestInStep(rec, q, s)
      BY <3>1 DEF RequestInStep, NewRequests, Starting
    <3> QED BY <1>3, <2>2, <3>1, <3>2
  <2> QED BY <2>1, <2>3, <2>4 DEF StartRunning
<1>7. ASSUME NEW q \in Request, RequestStep(q) PROVE Kept
  <2>0. req[q].pc \in NewRequests \cup Starting \cup {"done"}
    BY <1>5 DEF RequestInStep
  <2>1. CASE StartPending(q)
    <3>1. req[q].pc = "startPending" /\ UNCHANGED <<rec, announced, work, queue>>
      BY <2>1 DEF StartPending
    <3>2. CASE Return(q)
      BY <1>4, <3>1, <3>2
    <3>3. CASE Goto(q, "create")
      <4> DEFINE s == [req[q] EXCEPT !.pc = "create"]
      <4>1. s.pc = "create" /\ Become(q, s)
        BY <1>5, <3>3 DEF RequestState, Goto
      <4> HIDE DEF s
      <4>2. RequestInStep(rec, q, s)
        BY <4>1 DEF RequestInStep, NewRequests, Starting
      <4> QED BY <1>3, <3>1, <4>1, <4>2
    <3> QED BY <2>1, <3>2, <3>3 DEF StartPending
  <2>2. CASE StartCreate(q)
    <3> DEFINE c == [Absent EXCEPT !.status = "pending"]
    <3>1. c.status = "pending"
      BY DEF Absent
    <3>2. PICK pc \in {"guard", "offer"} :
            Become(q, [req[q] EXCEPT !.pc = pc, !.run = q, !.copy = c])
      BY <2>2 DEF StartCreate
    <3>3. Save(q, c) /\ UNCHANGED <<queue, work, announced>> /\ req[q].pc = "create"
      BY <2>2 DEF StartCreate
    <3> DEFINE s == [req[q] EXCEPT !.pc = pc, !.run = q, !.copy = c]
    <3>4. Become(q, s)
      BY <3>2
    <3> HIDE DEF c
    <3>5. s.pc = pc /\ s.copy = c
      BY <1>5 DEF RequestState
    <3> HIDE DEF s
    <3>6. /\ [p \in Request |-> rec'[p].status]
                = [[p \in Request |-> rec[p].status] EXCEPT ![q] = "pending"]
          /\ rec'[q] = c /\ \A p \in Request \ {q} : rec'[p] = rec[p]
      BY <3>1, <3>3, StatusSaved
    <3>7. RequestInStep(rec', q, s)
      BY <3>1, <3>5, <3>6 DEF RequestInStep, Starting
    <3>8. ContractInv'
      BY <3>3, <3>4, <3>6, <3>7, RequestInContract
    <3>9. rec[q].status = "absent"
      BY <1>5, <3>3 DEF RequestOK, NewRequests, Absent
    <3>10. Contract!Create(q)
      BY <3>3, <3>6, <3>9 DEF Contract!Create
    <3> QED BY <3>8, <3>10 DEF Contract!Next, Kept
  <2>3. CASE StreamBegin(q)
    <3> DEFINE c == rec[req[q].run]
               s == [req[q] EXCEPT !.pc = "guard", !.copy = c]
    <3>1. req[q].pc = "offer" /\ UNCHANGED <<rec, announced, work, queue>> /\ Become(q, s)
      BY <2>3 DEF StreamBegin, Advance
    <3>2. req[q].run = q /\ rec[q].status = "pending"
      BY <1>5, <3>1 DEF RequestOK, RequestInStep, Starting
    <3>3. s.pc = "guard" /\ s.copy.status = "pending"
      BY <1>5, <3>2 DEF RequestState
    <3> HIDE DEF s
    <3>4. RequestInStep(rec, q, s)
      BY <3>2, <3>3 DEF RequestInStep, Starting
    <3> QED BY <1>3, <3>1, <3>4
  <2>4. CASE StartGuard(q)
    <3>1. req[q].pc = "guard" /\ UNCHANGED <<rec, announced, work, queue>>
      BY <2>4 DEF StartGuard
    <3>2. CASE Return(q)
      BY <1>4, <3>1, <3>2
    <3>3. CASE Claim(q)
      <4> DEFINE s == [req[q] EXCEPT !.pc = "save", !.copy = [req[q].copy EXCEPT !.task = q]]
      <4>1. s.pc = "save" /\ s.copy.status = req[q].copy.status /\ Become(q, s)
        BY <1>5, <3>3 DEF Claim, Advance, RequestState, RunRecord
      <4> HIDE DEF s
      <4>2. RequestInStep(rec, q, s)
        BY <1>5, <3>1, <4>1 DEF RequestInStep, Starting
      <4> QED BY <1>3, <3>1, <4>1, <4>2
    <3> QED BY <2>4, <3>2, <3>3 DEF StartGuard
  <2>5. CASE StartSave(q)
    <3>1. req[q].pc = "save" /\ UNCHANGED <<announced, work, queue>> /\ req[q].run = q
      BY <1>5, <2>5 DEF StartSave, RequestOK, Starting
    <3>2. PICK c : c = req[q].copy
      OBVIOUS
    <3>3. Save(q, c) /\ c.status = "pending" /\ rec[q].status = "pending"
      BY <1>5, <2>5, <3>1, <3>2 DEF StartSave, RequestInStep, Starting
    <3>4. rec'[q] = c /\ \A p \in Request \ {q} : rec'[p] = rec[p]
      BY <3>3, StatusSaved
    <3> DEFINE s == [req[q] EXCEPT !.pc = "enqueue"]
    <3>5. s.pc = "enqueue" /\ s.copy = c /\ Become(q, s)
      BY <1>5, <2>5, <3>2 DEF StartSave, Goto, RequestState
    <3> HIDE DEF s
    <3>6. RequestInStep(rec', q, s)
      BY <3>3, <3>4, <3>5 DEF RequestInStep, Starting
    <3>7. ContractInv'
      BY <3>1, <3>4, <3>5, <3>6, RequestInContract
    <3>8. UNCHANGED Contract!vars
      BY <3>1, <3>3, <3>4, StatusKept
    <3> QED BY <3>7, <3>8 DEF Kept
  <2>6. CASE StartEnqueue(q)
    <3>1. /\ req[q].pc = "enqueue" /\ UNCHANGED <<rec, announced, work>>
          /\ Send(q, "run") /\ req[q].run = q /\ rec[q].status = "pending"
      BY <1>5, <2>6 DEF StartEnqueue, RequestOK, RequestInStep, Starting
    <3>2. Return(q) /\ \A m \in queue' : m \in queue \/ MessageInStep(rec, m)
      BY <3>1 DEF Send, MessageInStep
    <3> QED BY <1>4, <3>1, <3>2
  <2> QED BY <1>7, <2>0, <2>1, <2>2, <2>3, <2>4, <2>5, <2>6
          DEF RequestStep, RespondPending, ResumeRead, ResumeCheck, ResumeCount,
              ResumeCheckpoint, ResumeSave, ResumeSubmit, CancelSave, Tell,
              NewRequests, Starting
<1>8. ASSUME NEW w \in Worker, NEW s, Busy(w), WBecome(w, s),
             UNCHANGED <<rec, announced, queue, req>>, WorkerInStep(rec, s)
      PROVE  Kept
  BY <1>1, <1>8, WorkerInContract DEF Kept
<1>9. ASSUME NEW w \in Worker, Busy(w), WBecome(w, Idle),
             UNCHANGED <<rec, announced, queue, req>>
      PROVE  Kept
  BY <1>8, <1>9 DEF WorkerInStep, Idle
<1>10. ASSUME NEW w \in Worker, NEW pc, NEW status, Busy(w),
              UNCHANGED <<rec, announced, queue, req>>,
              WAdvance(w, pc, status) \/ (WGoto(w, pc) /\ status = work[w].target),
              \/ /\ pc \in {"init", "stream", "snapshot", "save"}
                 /\ rec[TaskOf(w)].status = "running"
              \/ /\ pc = "load" /\ status \in {"success", "error"}
                 /\ rec[TaskOf(w)].status = status
              \/ /\ pc = "load" /\ status = "error"
                 /\ rec[TaskOf(w)].status = "running"
       PROVE  Kept
  <2>1. PICK s : /\ WBecome(w, s)
                 /\ s = [work[w] EXCEPT !.pc = pc, !.seen = Absent, !.target = status] \/
                      (s = [work[w] EXCEPT !.pc = pc] /\ status = work[w].target)
    BY <1>10 DEF WAdvance, WGoto
  <2>2. s.pc = pc /\ s.target = status /\ s.msg = work[w].msg
    BY <2>1 DEF TypeInv, TypeOK, WorkerState
  <2>3. work[w].msg.run = work[w].msg.id
    BY <1>10 DEF ContractInv, WorkerInStep, Busy
  <2>4. WorkerInStep(rec, s)
    BY <1>10, <2>2, <2>3 DEF WorkerInStep, TaskOf
  <2> QED BY <1>8, <1>10, <2>1, <2>4
<1>11. ASSUME NEW w \in Worker, Busy(w)
       PROVE  /\ work[w] \in WorkerState /\ work[w].msg \in Message
              /\ WorkerInStep(rec, work[w]) /\ WorkerOK(rec, work[w])
              /\ Run(w) = TaskOf(w) /\ TaskOf(w) \in Request
  BY <1>11 DEF TypeInv, TypeOK, WorkerHasMessage, Message, TaskInv, CopyInv, ContractInv,
               WorkerInStep, Busy, Run, TaskOf
\* A save of the worker: the record takes the status, the worker goes on.
<1>12. ASSUME NEW w \in Worker, Busy(w), NEW c, Save(TaskOf(w), c), NEW pc, NEW status,
              UNCHANGED <<announced, queue, req>>,
              WAdvance(w, pc, status) \/ (WGoto(w, pc) /\ status = work[w].target),
              \/ pc \in {"begin", "init", "stream"} /\ c.status = "running"
              \/ pc \in {"tell", "close"} /\ c.status = status,
              \/ c.status = rec[TaskOf(w)].status
              \/ c.status = "running" /\ rec[TaskOf(w)].status = "pending"
              \/ c.status \in Terminal /\ rec[TaskOf(w)].status = "running"
       PROVE  Kept
  <2>1. PICK s : /\ WBecome(w, s)
                 /\ s = [work[w] EXCEPT !.pc = pc, !.seen = Absent, !.target = status] \/
                      (s = [work[w] EXCEPT !.pc = pc] /\ status = work[w].target)
    BY <1>12 DEF WAdvance, WGoto
  <2>2. s.pc = pc /\ s.target = status /\ s.msg = work[w].msg
    BY <2>1 DEF TypeInv, TypeOK, WorkerState
  <2>3. work[w].msg.run = work[w].msg.id
    BY <1>12 DEF ContractInv, WorkerInStep, Busy
  <2>4. PICK r \in Request : r = TaskOf(w)
    BY <1>11, <1>12
  <2>5. /\ [p \in Request |-> rec'[p].status]
                = [[p \in Request |-> rec[p].status] EXCEPT ![r] = c.status]
        /\ rec'[r] = c /\ \A p \in Request \ {r} : rec'[p] = rec[p]
    BY <1>12, <2>4, StatusSaved
  <2>6. WorkerInStep(rec', s)
    BY <1>12, <2>2, <2>3, <2>4, <2>5 DEF WorkerInStep, TaskOf
  <2>7. ContractInv'
    BY <1>12, <2>1, <2>4, <2>5, <2>6, WorkerInContract
  <2>8. CASE c.status = rec[r].status
    <3>1. UNCHANGED Contract!vars
      BY <1>12, <2>5, <2>8, StatusKept
    <3> QED BY <2>7, <3>1 DEF Kept
  <2>9. CASE c.status = "running" /\ rec[r].status = "pending"
    <3>1. Contract!Start(r)
      BY <1>12, <2>5, <2>9 DEF Contract!Start
    <3> QED BY <2>7, <3>1 DEF Contract!Next, Kept
  <2>10. CASE c.status \in Terminal /\ rec[r].status = "running"
    <3>1. Contract!Finish(r)
      BY <1>12, <2>5, <2>10
         DEF Contract!Finish, Contract!Active, Contract!Terminal, Terminal
    <3> QED BY <2>7, <3>1 DEF Contract!Next, Kept
  <2> QED BY <1>12, <2>4, <2>8, <2>9, <2>10
<1>13. ASSUME NEW w \in Worker, WorkerStep(w) PROVE Kept
  <2>1. ASSUME NEW m \in queue, Take(w, m) PROVE Kept
    <3>1. /\ ~Busy(w) /\ queue' = queue \ {m} /\ UNCHANGED <<rec, announced, req>>
          /\ MessageInStep(rec, m)
      BY <2>1 DEF Take, Busy, ContractInv
    <3>2. CASE UNCHANGED work
      <4>1. ContractInv'
        BY <3>1, <3>2 DEF ContractInv
      <4> QED BY <1>1, <3>1, <4>1 DEF Kept
    <3>3. CASE WBecome(w, [pc |-> "load", msg |-> m, seen |-> Absent, target |-> "running"])
      <4> DEFINE s == [pc |-> "load", msg |-> m, seen |-> Absent, target |-> "running"]
      <4>1. WBecome(w, s) /\ WorkerInStep(rec, s)
        BY <3>1, <3>3 DEF WorkerInStep, MessageInStep
      <4> HIDE DEF s
      <4>2. work'[w] = s /\ \A v \in Worker \ {w} : work'[v] = work[v]
        BY <4>1 DEF WBecome, TypeInv, TypeOK
      <4>3. ContractInv'
        BY <3>1, <4>1, <4>2 DEF ContractInv
      <4> QED BY <1>1, <3>1, <4>3 DEF Kept
    <3> QED BY <2>1, <3>2, <3>3 DEF Take, RunsAreStarted
  <2>2. CASE UpdateRead(w)
    <3>1. Busy(w) /\ work[w].pc = "load" /\ UNCHANGED <<rec, announced, queue, req>>
      BY <2>2 DEF UpdateRead, Busy
    <3> DEFINE s == [work[w] EXCEPT !.pc = "mark", !.seen = rec[Run(w)]]
    <3>2. s.pc = "mark" /\ s.msg = work[w].msg /\ s.target = work[w].target /\ WBecome(w, s)
      BY <1>11, <2>2, <3>1 DEF UpdateRead, WorkerState
    <3> HIDE DEF s
    <3>3. WorkerInStep(rec, s)
      BY <1>11, <3>1, <3>2 DEF WorkerInStep
    <3> QED BY <1>8, <3>1, <3>2, <3>3
  <2>3. CASE UpdateSave(w)
    <3>1. Busy(w) /\ work[w].pc = "mark" /\ UNCHANGED <<announced, queue, req>>
      BY <2>3 DEF UpdateSave, Busy
    <3>2. PICK c : c = [work[w].seen EXCEPT !.status = work[w].target]
      OBVIOUS
    <3>3. Save(TaskOf(w), c) /\ c.status = work[w].target
      BY <1>11, <2>3, <3>1, <3>2 DEF UpdateSave, WorkerState, RunRecord
    <3>4. \/ /\ work[w].target = "running" /\ rec[TaskOf(w)].status = "pending"
             /\ WAdvance(w, "begin", "running")
          \/ /\ work[w].target = "success" /\ rec[TaskOf(w)].status = "success"
             /\ WAdvance(w, "close", "success")
          \/ /\ work[w].target = "error" /\ rec[TaskOf(w)].status \in {"running", "error"}
             /\ WAdvance(w, "close", "error")
      BY <1>11, <2>3, <3>1 DEF UpdateSave, WorkerInStep, TaskOf
    <3> QED BY <1>12, <3>1, <3>3, <3>4 DEF Terminal
  <2>4. CASE Close(w)
    <3>1. /\ Busy(w) /\ work[w].pc = "close" /\ UNCHANGED <<rec, queue, req>>
          /\ WBecome(w, Idle)
      BY <2>4 DEF Close, Busy, EndTask, RunsAreStarted
    <3>2. Idle.pc = "idle" /\ work[w].target = rec[TaskOf(w)].status
      BY <1>11, <3>1 DEF Idle, WorkerInStep, TaskOf
    <3>3. ContractInv'
      BY <3>1, <3>2, WorkerInContract DEF WorkerInStep
    <3>4. CASE UNCHANGED announced
      BY <1>1, <3>1, <3>3, <3>4 DEF Kept
    <3>5. CASE work[w].target = "interrupted" /\ announced' = announced \cup {Run(w)}
      <4>1. Contract!Announce(TaskOf(w))
        BY <1>11, <3>1, <3>2, <3>5 DEF Contract!Announce, Contract!Terminal
      <4> QED BY <1>11, <3>1, <3>3, <4>1 DEF Contract!Next, Kept
    <3> QED BY <2>4, <3>4, <3>5 DEF Close
  <2>5. CASE Begin(w)
    <3>1. Busy(w) /\ work[w].pc = "begin" /\ UNCHANGED <<announced, queue, req>>
      BY <2>5 DEF Begin, Busy
    <3>2. PICK c : c = RunnerCopy(w, "running")
      OBVIOUS
    <3>3. /\ Save(TaskOf(w), c) /\ c.status = "running"
          /\ rec[TaskOf(w)].status = "running"
      BY <1>11, <2>5, <3>1, <3>2 DEF Begin, RunnerCopy, Message, RunRecord, WorkerInStep, TaskOf
    <3>4. WGoto(w, "init") \/ WGoto(w, "stream")
      BY <2>5 DEF Begin
    <3> QED BY <1>12, <3>1, <3>3, <3>4
  <2>6. CASE SaveInitialState(w) \/ SaveFinalSnapshot(w)
    <3>1. /\ Busy(w) /\ UNCHANGED <<rec, announced, queue, req>>
          /\ work[w].pc \in {"init", "snapshot"}
          /\ WGoto(w, "stream") \/ WGoto(w, "save")
      BY <2>6 DEF SaveInitialState, SaveFinalSnapshot, Busy
    <3>2. rec[TaskOf(w)].status = "running"
      BY <1>11, <3>1 DEF WorkerInStep, TaskOf
    <3> QED BY <1>10, <3>1, <3>2
  <2>7. CASE ObserveCancel(w) \/ StreamEnds(w)
    <3>1. /\ Busy(w) /\ UNCHANGED <<rec, announced, queue, req>>
          /\ work[w].pc = "stream" /\ \E status : WAdvance(w, "snapshot", status)
      BY <2>7 DEF ObserveCancel, StreamEnds, Busy
    <3>2. rec[TaskOf(w)].status = "running"
      BY <1>11, <3>1 DEF WorkerInStep, TaskOf
    <3> QED BY <1>10, <3>1, <3>2
  <2>8. CASE SaveOutcome(w)
    <3>1. Busy(w) /\ work[w].pc = "save" /\ UNCHANGED <<announced, queue, req>>
      BY <2>8 DEF SaveOutcome, Busy
    <3>2. PICK c : c = RunnerCopy(w, work[w].target)
      OBVIOUS
    <3>3. /\ Save(TaskOf(w), c) /\ c.status = work[w].target /\ WGoto(w, "tell")
          /\ rec[TaskOf(w)].status = "running" /\ work[w].target \in Terminal
      BY <1>11, <2>8, <3>1, <3>2
         DEF SaveOutcome, RunnerCopy, Message, RunRecord, WorkerInStep, WorkerOK, TaskOf
    <3> QED BY <1>12, <3>1, <3>3
  <2>9. CASE TellOutcome(w)
    <3>1. /\ Busy(w) /\ UNCHANGED <<rec, queue, req>>
          /\ announced' = announced \cup {TaskOf(w)}
          /\ rec[TaskOf(w)].status = work[w].target /\ work[w].target \in Terminal
      BY <1>11, <2>9 DEF TellOutcome, WorkerInStep, WorkerOK, Busy, TaskOf
    <3>2. Contract!Announce(TaskOf(w))
      BY <1>11, <3>1 DEF Contract!Announce, Contract!Terminal, Terminal
    <3>3. CASE EndTask(w)
      <4>1. ContractInv'
        BY <3>1, <3>3, WorkerInContract DEF WorkerInStep, EndTask, Idle
      <4> QED BY <1>11, <3>1, <3>2, <4>1 DEF Contract!Next, Kept
    <3>4. CASE WAdvance(w, "load", work[w].target) /\ work[w].target # "interrupted"
      <4> DEFINE s == [work[w] EXCEPT !.pc = "load", !.seen = Absent,
                                      !.target = work[w].target]
      <4>1. /\ s.pc = "load" /\ s.msg = work[w].msg /\ s.target = work[w].target
            /\ WBecome(w, s)
        BY <1>11, <3>1, <3>4 DEF WorkerState, WAdvance
      <4> HIDE DEF s
      <4>2. WorkerInStep(rec, s)
        BY <1>11, <3>1, <3>4, <4>1 DEF WorkerInStep, TaskOf, Terminal, Busy
      <4>3. ContractInv'
        BY <3>1, <4>1, <4>2, WorkerInContract
      <4> QED BY <1>11, <3>1, <3>2, <4>3 DEF Contract!Next, Kept
    <3> QED BY <2>9, <3>3, <3>4 DEF TellOutcome, Update
  <2> QED BY <1>13, <2>1, <2>2, <2>3, <2>4, <2>5, <2>6, <2>7, <2>8, <2>9 DEF WorkerStep
<1>14. ASSUME Fault PROVE Kept
  <2>1. ASSUME NEW q \in Request, StreamAbandon(q) \/ EnqueueFails(q) PROVE Kept
    <3>1. /\ Return(q) /\ UNCHANGED <<rec, announced, work, queue>>
          /\ req[q].pc # "done"
      BY <2>1 DEF StreamAbandon, EnqueueFails
    <3> QED BY <1>4, <3>1
  <2>2. ASSUME NEW p \in Replica, ApiCrash(p) PROVE Kept
    <3>1. UNCHANGED <<rec, announced, work, queue>>
      BY <2>2 DEF ApiCrash
    <3>2. \A q \in Request : req'[q] = req[q] \/ req'[q].pc = "done"
      BY <2>2 DEF ApiCrash, New, TypeInv, TypeOK
    <3>3. \A q \in Request : RequestInStep(rec, q, req'[q])
      BY <1>5, <3>2 DEF RequestInStep, Starting
    <3>4. ContractInv'
      BY <3>1, <3>3 DEF ContractInv
    <3> QED BY <1>1, <3>1, <3>4 DEF Kept
  <2>3. ASSUME NEW w \in Worker, WorkerCrash(w) PROVE Kept
    BY <1>9, <2>3 DEF WorkerCrash, Busy
  <2>4. ASSUME NEW w \in Worker, Unavailable(w) \/ StreamFails(w) PROVE Kept
    <3>1. /\ Busy(w) /\ UNCHANGED <<rec, announced, queue, req>>
          /\ work[w].pc \in {"begin", "init", "stream", "snapshot"}
          /\ WAdvance(w, "load", "error") \/ WAdvance(w, "save", "error")
      BY <2>4 DEF Unavailable, StreamFails, Update, Busy
    <3>2. rec[TaskOf(w)].status = "running"
      BY <1>11, <3>1 DEF WorkerInStep, TaskOf
    <3> QED BY <1>10, <3>1, <3>2
  <2>5. ASSUME NEW w \in Worker, StoreFails(w) \/ ShutDown(w) PROVE Kept
    BY <2>5 DEF RunsAreStarted, StoreFails, ShutDown
  <2> QED BY <1>14, <2>1, <2>2, <2>3, <2>4, <2>5 DEF Fault
<1> QED BY <1>2, <1>6, <1>7, <1>13, <1>14 DEF Next, Kept

\* As long as runs are only started, the run records and the event log behave as
\* the contract says for every number of requests, replicas and workers, whatever
\* crashes or fails in between: an outcome is final and told after it is stored.
THEOREM StartedRunsKeepContract == ASSUME RunsAreStarted PROVE Spec => ContractSpec
<1>1. TypeInv /\ TaskInv /\ ContractInv /\ [Next]_vars
        => ContractInv' /\ [Contract!Next]_(Contract!vars)
  BY StepContract
<1>2. Init => Contract!Init /\ ContractInv
  BY InitContract
<1> QED BY InitTypeInv, StepTypeInv, InitTaskInv, StepTaskInv, <1>1, <1>2, PTL
        DEF Spec, ContractSpec, Contract!Spec
-----------------------------------------------------------------------------
(* A running record names a task, under the conditions that the comment on *)
(* RunningNamesTask states.                                                 *)

\* One API process, no cancellation, and no outcome that the store refuses and
\* the task retries.
CopiesStayNamed ==
    /\ \A p, q \in Request : ReplicaOf[p] = ReplicaOf[q]
    /\ "cancel" \notin Operations
    /\ ~({"store", "transient"} \subseteq Faults)

\* The thread lock is the only one, and it covers every resume.
LockInv ==
    /\ \A p, q \in Request :
         req[p].pc \in LockedSteps /\ req[q].pc \in LockedSteps => p = q
    /\ \A q \in Request : req[q].pc # "cancel"

\* A resume that read the record before the start put its task id there; a run
\* whose record has no id, or may lose it to such a resume.
Stale(s) == s.pc \in {"checkpoint", "complete"} /\ s.copy.task = NoTask
Unnamed(r) == rec[r].task = NoTask \/ \E q \in Request : Stale(req[q]) /\ req[q].run = r

\* Then nothing but the task of its start works for it, and when that has saved
\* its final state it never marks the run running again.
OwnTaskOnly ==
    \A r \in Request : Unnamed(r) =>
      /\ \A m \in queue : m.run = r => m.id = r
      /\ \A w \in Worker : Busy(w) /\ Run(w) = r => TaskOf(w) = r
      /\ latest[r] # "none" => req[r].pc = "done"
Over(s) ==
    /\ s.pc \in {"save", "tell", "load", "mark", "close"}
    /\ s.target \in Terminal
    /\ s.target = "error" => "transient" \notin Faults
LastTask ==
    \A r \in Request : Unnamed(r) /\ latest[r] = "empty" =>
      /\ \A m \in queue : m.run # r
      /\ \A w \in Worker : Busy(w) /\ Run(w) = r => Over(work[w])

\* A record without an id is not taken up yet, or a stale resume completed it.
UnnamedRecord ==
    \A r \in Request : rec[r].task = NoTask =>
      \/ /\ rec[r].status \in {"absent", "pending"}
         /\ \A m \in queue : m.run # r
         /\ \A w \in Worker : Busy(w) => Run(w) # r
      \/ /\ rec[r].status \in Terminal
         /\ latest[r] = "empty"
         /\ \A q \in Request : req[q].pc \in Reading => req[q].run # r
StaleCompletion ==
    \A q \in Request : Stale(req[q]) /\ req[q].pc = "complete" =>
      latest[req[q].run] = "empty" /\ req[q].copy.status = "success"
NamedWhenSent ==
    \A q \in Request : req[q].pc \in {"enqueue", "submit"} => rec[req[q].run].task # NoTask
SeenIsStored ==
    \A w \in Worker : work[w].pc = "mark" /\ work[w].seen.task = NoTask
                        => rec[Run(w)].task = NoTask
NameInv ==
    /\ LockInv /\ OwnTaskOnly /\ LastTask /\ UnnamedRecord /\ StaleCompletion
    /\ NamedWhenSent /\ SeenIsStored /\ RunningNamesTask

LEMMA InitNameInv == Init => NameInv
<1> SUFFICES ASSUME Init PROVE NameInv
  OBVIOUS
<1>1. New.pc = "new" /\ Idle.pc = "idle" /\ Absent.status = "absent"
  BY DEF New, Idle, Absent
<1>2. LockInv /\ StaleCompletion /\ NamedWhenSent /\ SeenIsStored /\ RunningNamesTask
  BY <1>1 DEF Init, LockInv, LockedSteps, StaleCompletion, Stale, NamedWhenSent, SeenIsStored,
              RunningNamesTask
<1>3. OwnTaskOnly /\ LastTask /\ UnnamedRecord
  BY <1>1 DEF Init, OwnTaskOnly, LastTask, UnnamedRecord, Busy
<1> QED BY <1>2, <1>3 DEF NameInv

\* The worker that holds the task of an unnamed run is the only one.
LEMMA OnlyHolder ==
    ASSUME TypeInv, TaskInv, NameInv, NEW w \in Worker, Busy(w), Unnamed(Run(w))
    PROVE  /\ Run(w) \in Request /\ TaskOf(w) = Run(w) /\ req[Run(w)].pc = "done"
           /\ \A m \in queue : m.run # Run(w)
           /\ \A v \in Worker : Busy(v) /\ Run(v) = Run(w) => v = w
           /\ latest[Run(w)] = "empty" => Over(work[w])
           /\ rec[Run(w)].task = NoTask =>
                /\ rec[Run(w)].status \in Terminal /\ latest[Run(w)] = "empty"
                /\ \A q \in Request : req[q].pc \in Reading => req[q].run # Run(w)
<1>1. Run(w) \in Request
  BY DEF TypeInv, WorkerHasMessage, Message, Busy, Run
<1>2. TaskOf(w) = Run(w)
  BY <1>1 DEF NameInv, OwnTaskOnly
<1>3. req[Run(w)].pc = "done" /\ \A m \in queue : m.id # Run(w)
  BY <1>2 DEF TaskInv, HeldInv, HeldAfterSent, HeldOnce
<1>4. \A m \in queue : m.run # Run(w)
  BY <1>1, <1>3 DEF NameInv, OwnTaskOnly
<1>5. \A v \in Worker : Busy(v) /\ Run(v) = Run(w) => v = w
  BY <1>1, <1>2 DEF NameInv, OwnTaskOnly, TaskInv, HeldInv, HeldOnce
<1>6. latest[Run(w)] = "empty" => Over(work[w])
  BY <1>1 DEF NameInv, LastTask
<1>7. rec[Run(w)].task = NoTask =>
        /\ rec[Run(w)].status \in Terminal /\ latest[Run(w)] = "empty"
        /\ \A q \in Request : req[q].pc \in Reading => req[q].run # Run(w)
  BY <1>1 DEF NameInv, UnnamedRecord
<1> QED BY <1>1, <1>2, <1>3, <1>4, <1>5, <1>6, <1>7

SetLatest(r, next) == latest' = [latest EXCEPT ![r] = next]

\* A step of a worker, seen from the records.
LEMMA WorkerNames ==
    ASSUME TypeInv, TaskInv, NameInv, NEW w \in Worker, Busy(w), NEW r, r = Run(w),
           NEW s, WBecome(w, s), s.pc = "idle" \/ s.msg = work[w].msg,
           NEW c, Save(r, c), NEW l, SetLatest(r, l),
           UNCHANGED <<queue, req>>,
           c.task = NoTask => rec[r].task = NoTask /\ c.status \in Terminal,
           Unnamed(r) /\ l = "empty" => s.pc = "idle" \/ Over(s),
           Unnamed(r) /\ latest[r] = "empty" => l = "empty",
           s.pc = "mark" /\ s.seen.task = NoTask => c.task = NoTask
    PROVE  NameInv'
<1>1. /\ work'[w] = s
      /\ \A v \in Worker \ {w} : work'[v] = work[v]
  BY DEF WBecome, TypeInv, TypeOK
<1>2. \A v \in Worker : Busy(v)' => Busy(v) /\ Run(v)' = Run(v) /\ TaskOf(v)' = TaskOf(v)
  BY <1>1 DEF Busy, Run, TaskOf
<1>3. /\ r \in Request /\ rec'[r] = c /\ latest'[r] = l
      /\ \A p \in Request \ {r} : rec'[p] = rec[p] /\ latest'[p] = latest[p]
  BY DEF Save, SetLatest, TypeInv, TypeOK, WorkerHasMessage, Message, Busy, Run
<1>4. \A p \in Request : Unnamed(p)' => Unnamed(p)
  BY <1>3 DEF Unnamed
<1>5. Unnamed(r) =>
        /\ req[r].pc = "done" /\ \A m \in queue : m.run # r
        /\ \A v \in Worker : Busy(v) /\ Run(v) = r => v = w
  BY OnlyHolder
<1>6. rec[r].task = NoTask =>
        /\ latest[r] = "empty"
        /\ \A q \in Request : req[q].pc \in Reading => req[q].run # r
  BY OnlyHolder DEF Unnamed
<1>7. LockInv'
  BY DEF NameInv, LockInv
<1>8. OwnTaskOnly'
  BY <1>2, <1>3, <1>4, <1>5 DEF NameInv, OwnTaskOnly
<1>9. LastTask'
  <2> SUFFICES ASSUME NEW p \in Request, Unnamed(p)', latest'[p] = "empty"
               PROVE  /\ \A m \in queue : m.run # p
                      /\ \A v \in Worker : Busy(v)' /\ Run(v)' = p => Over(work'[v])
    BY DEF LastTask
  <2>1. CASE p = r
    <3>1. \A v \in Worker : Busy(v)' /\ Run(v)' = p => v = w
      BY <1>2, <1>4, <1>5, <2>1
    <3>2. Busy(w)' => Over(s)
      BY <1>1, <1>3, <1>4, <2>1 DEF Busy
    <3> QED BY <1>1, <1>4, <1>5, <2>1, <3>1, <3>2
  <2>2. CASE p # r
    <3>1. \A v \in Worker : Busy(v)' /\ Run(v)' = p => v # w
      BY <1>2, <2>2
    <3> QED BY <1>1, <1>2, <1>3, <1>4, <2>2, <3>1 DEF NameInv, LastTask
  <2> QED BY <2>1, <2>2
<1>10. UnnamedRecord'
  <2> SUFFICES ASSUME NEW p \in Request, rec'[p].task = NoTask
               PROVE  \/ /\ rec'[p].status \in {"absent", "pending"}
                         /\ \A m \in queue : m.run # p
                         /\ \A v \in Worker : Busy(v)' => Run(v)' # p
                      \/ /\ rec'[p].status \in Terminal
                         /\ latest'[p] = "empty"
                         /\ \A q \in Request : req[q].pc \in Reading => req[q].run # p
    BY DEF UnnamedRecord
  <2>1. CASE p = r
    BY <1>3, <1>6, <2>1 DEF Unnamed
  <2>2. CASE p # r
    BY <1>2, <1>3, <2>2 DEF NameInv, UnnamedRecord
  <2> QED BY <2>1, <2>2
<1>11. StaleCompletion'
  <2> SUFFICES ASSUME NEW q \in Request, Stale(req[q]), req[q].pc = "complete"
               PROVE  latest'[req[q].run] = "empty" /\ req[q].copy.status = "success"
    BY DEF StaleCompletion, Stale
  <2>1. /\ req[q].run \in Request /\ Unnamed(req[q].run)
        /\ latest[req[q].run] = "empty" /\ req[q].copy.status = "success"
    BY DEF TypeInv, RequestNamesRun, HasRun, ResumeSteps, Unnamed, NameInv, StaleCompletion
  <2> QED BY <1>3, <2>1
<1>12. NamedWhenSent'
  <2>1. \A q \in Request : req[q].pc \in {"enqueue", "submit"} => req[q].run \in Request
    BY DEF TypeInv, RequestNamesRun, HasRun, ResumeSteps
  <2> QED BY <1>3, <2>1 DEF NameInv, NamedWhenSent
<1>13. SeenIsStored'
  <2> SUFFICES ASSUME NEW v \in Worker, work'[v].pc = "mark", work'[v].seen.task = NoTask
               PROVE  rec'[Run(v)'].task = NoTask
    BY DEF SeenIsStored
  <2>1. Busy(v)'
    BY DEF Busy
  <2>2. CASE v = w
    BY <1>1, <1>2, <1>3, <2>1, <2>2
  <2>3. CASE v # w
    <3>1. rec[Run(v)].task = NoTask /\ Run(v) \in Request /\ Busy(v)
      BY <1>1, <1>2, <2>1, <2>3 DEF NameInv, SeenIsStored, TypeInv, WorkerHasMessage, Message,
                                    Busy, Run
    <3>2. Run(v) # r
      BY <1>5, <2>3, <3>1 DEF Unnamed
    <3> QED BY <1>2, <1>3, <2>1, <3>1, <3>2
  <2> QED BY <2>2, <2>3
<1>14. RunningNamesTask'
  BY <1>3 DEF NameInv, RunningNamesTask, Terminal
<1> QED BY <1>7, <1>8, <1>9, <1>10, <1>11, <1>12, <1>13, <1>14 DEF NameInv

\* A request whose copy may be stale only if the run is unnamed already.
LEMMA RequestNames ==
    ASSUME TypeInv, TaskInv, NameInv, NEW q \in Request, req[q].pc # "done",
           NEW s, Become(q, s), UNCHANGED <<rec, queue, work, latest>>, LockInv',
           Stale(s) => Unnamed(s.run),
           Stale(s) /\ s.pc = "complete" =>
             latest[s.run] = "empty" /\ s.copy.status = "success",
           s.pc \notin {"enqueue", "submit"},
           s.pc \in Reading =>
             \/ req[q].pc \in Reading /\ s.run = req[q].run
             \/ rec[s.run].status \in Active
    PROVE  NameInv'
<1>1. /\ req'[q] = s
      /\ \A p \in Request \ {q} : req'[p] = req[p]
  BY DEF Become, TypeInv, TypeOK
<1>2. \A r \in Request : Unnamed(r)' => Unnamed(r)
  BY <1>1 DEF Unnamed, Stale
<1>3. \A r \in Request : req[r].pc = "done" => req'[r].pc = "done"
  BY <1>1
<1>4. OwnTaskOnly'
  BY <1>2, <1>3 DEF NameInv, OwnTaskOnly, Busy, Run, TaskOf
<1>5. LastTask'
  BY <1>2 DEF NameInv, LastTask, Busy, Run
<1>6. UnnamedRecord'
  <2> SUFFICES ASSUME NEW r \in Request, rec[r].task = NoTask
               PROVE  \/ /\ rec[r].status \in {"absent", "pending"}
                         /\ \A m \in queue : m.run # r
                         /\ \A w \in Worker : Busy(w) => Run(w) # r
                      \/ /\ rec[r].status \in Terminal
                         /\ latest[r] = "empty"
                         /\ \A p \in Request : req'[p].pc \in Reading => req'[p].run # r
    BY DEF UnnamedRecord, Busy, Run
  <2>1. CASE rec[r].status \in {"absent", "pending"}
    BY <2>1 DEF NameInv, UnnamedRecord, Terminal
  <2>2. CASE rec[r].status \notin {"absent", "pending"}
    <3>1. /\ rec[r].status \in Terminal /\ latest[r] = "empty"
          /\ \A p \in Request : req[p].pc \in Reading => req[p].run # r
      BY <2>2 DEF NameInv, UnnamedRecord
    <3>2. s.pc \in Reading => s.run # r
      BY <3>1 DEF Active, Terminal
    <3> QED BY <1>1, <3>1, <3>2
  <2> QED BY <2>1, <2>2
<1>7. StaleCompletion' /\ NamedWhenSent'
  BY <1>1 DEF NameInv, StaleCompletion, NamedWhenSent, Stale
<1>8. SeenIsStored' /\ RunningNamesTask'
  BY DEF NameInv, SeenIsStored, RunningNamesTask, Run
<1> QED BY <1>4, <1>5, <1>6, <1>7, <1>8 DEF NameInv

\* A request that saves its copy: with a task id, or a stale completion.
LEMMA SaveNames ==
    ASSUME TypeInv, TaskInv, NameInv, NEW q \in Request, req[q].pc # "done",
           NEW s, Become(q, s), NEW r \in Request, NEW c, Save(r, c),
           UNCHANGED <<queue, work, latest>>, LockInv',
           \/ c.task # NoTask
           \/ /\ Stale(req[q]) /\ req[q].pc = "complete" /\ req[q].run = r
              /\ c.status \in Terminal /\ s.pc \notin Reading,
           c.task # NoTask /\ rec[r].task = NoTask => \A w \in Worker : Busy(w) => Run(w) # r,
           ~Stale(s),
           s.pc \in {"enqueue", "submit"} => s.run = r /\ c.task # NoTask,
           s.pc \in Reading => req[q].pc \in Reading /\ s.run = req[q].run
    PROVE  NameInv'
<1>1. /\ req'[q] = s
      /\ \A p \in Request \ {q} : req'[p] = req[p]
  BY DEF Become, TypeInv, TypeOK
<1>2. rec'[r] = c /\ \A p \in Request \ {r} : rec'[p] = rec[p]
  BY DEF Save, TypeInv, TypeOK
<1>3. \A p \in Request : Unnamed(p)' => Unnamed(p)
  BY <1>1, <1>2 DEF Unnamed, Stale
<1>4. \A p \in Request : req[p].pc = "done" => req'[p].pc = "done"
  BY <1>1
<1>5. c.task = NoTask => /\ Unnamed(r) /\ latest[r] = "empty" /\ req[r].pc = "done"
                         /\ \A p \in Request : req[p].pc \in LockedSteps => p = q
  <2> SUFFICES ASSUME c.task = NoTask
               PROVE  /\ Unnamed(r) /\ latest[r] = "empty" /\ req[r].pc = "done"
                      /\ \A p \in Request : req[p].pc \in LockedSteps => p = q
    OBVIOUS
  <2>1. Unnamed(r) /\ latest[r] = "empty"
    BY DEF Unnamed, NameInv, StaleCompletion
  <2>2. req[r].pc = "done"
    BY <2>1 DEF NameInv, OwnTaskOnly
  <2>3. req[q].pc \in LockedSteps
    BY DEF LockedSteps
  <2> QED BY <2>1, <2>2, <2>3 DEF NameInv, LockInv
<1>6. OwnTaskOnly'
  BY <1>3, <1>4 DEF NameInv, OwnTaskOnly, Busy, Run, TaskOf
<1>7. LastTask'
  BY <1>3 DEF NameInv, LastTask, Busy, Run
<1>8. UnnamedRecord'
  <2> SUFFICES ASSUME NEW p \in Request, rec'[p].task = NoTask
               PROVE  \/ /\ rec'[p].status \in {"absent", "pending"}
                         /\ \A m \in queue : m.run # p
                         /\ \A w \in Worker : Busy(w) => Run(w) # p
                      \/ /\ rec'[p].status \in Terminal
                         /\ latest[p] = "empty"
                         /\ \A x \in Request : req'[x].pc \in Reading => req'[x].run # p
    BY DEF UnnamedRecord, Busy, Run
  <2>1. CASE p = r
    <3>1. c.task = NoTask /\ c.status \in Terminal /\ s.pc \notin Reading
      BY <1>2, <2>1
    <3>2. \A x \in Request : req'[x].pc \in Reading => x # q /\ req[x].pc \in LockedSteps
      BY <1>1, <3>1 DEF Reading, ResumeSteps, LockedSteps
    <3> QED BY <1>2, <1>5, <2>1, <3>1, <3>2
  <2>2. CASE p # r
    BY <1>1, <1>2, <2>2 DEF NameInv, UnnamedRecord
  <2> QED BY <2>1, <2>2
<1>9. StaleCompletion'
  BY <1>1 DEF NameInv, StaleCompletion, Stale
<1>10. NamedWhenSent'
  <2> SUFFICES ASSUME NEW p \in Request, req'[p].pc \in {"enqueue", "submit"}
               PROVE  rec'[req'[p].run].task # NoTask
    BY DEF NamedWhenSent
  <2>1. CASE p = q
    BY <1>1, <1>2, <2>1
  <2>2. CASE p # q
    <3>1. /\ req'[p] = req[p] /\ req[p].run \in Request /\ rec[req[p].run].task # NoTask
          /\ req[p].pc = "enqueue" => req[p].run = p
      BY <1>1, <2>2 DEF NameInv, NamedWhenSent, TypeInv, RequestNamesRun, HasRun, ResumeSteps,
                        TaskInv, CopyInv, RequestOK, Starting
    <3>2. CASE req[p].run = r /\ c.task = NoTask
      <4>1. req[p].pc # "submit"
        BY <1>5, <2>2, <3>2 DEF LockedSteps
      <4> QED BY <1>1, <1>5, <2>2, <3>1, <3>2, <4>1
    <3> QED BY <1>2, <3>1, <3>2
  <2> QED BY <2>1, <2>2
<1>11. SeenIsStored'
  <2> SUFFICES ASSUME NEW w \in Worker, work[w].pc = "mark", work[w].seen.task = NoTask
               PROVE  rec'[Run(w)].task = NoTask
    BY DEF SeenIsStored, Run
  <2>1. rec[Run(w)].task = NoTask /\ Busy(w) /\ Run(w) \in Request
    BY DEF NameInv, SeenIsStored, Busy, TypeInv, WorkerHasMessage, Message, Run
  <2> QED BY <1>2, <2>1
<1>12. RunningNamesTask'
  BY <1>2 DEF NameInv, RunningNamesTask, Terminal
<1> QED BY <1>6, <1>7, <1>8, <1>9, <1>10, <1>11, <1>12 DEF NameInv

\* A request takes the lock only when nobody has it.
LEMMA RequestLock ==
    ASSUME CopiesStayNamed, TypeInv, NameInv, NEW q \in Request, NEW s, Become(q, s),
           s.pc \in LockedSteps => req[q].pc \in LockedSteps \/ LockFree(q),
           s.pc # "cancel"
    PROVE  LockInv'
<1>1. /\ req'[q] = s
      /\ \A p \in Request \ {q} : req'[p] = req[p]
  BY DEF Become, TypeInv, TypeOK
<1>2. s.pc \in LockedSteps => \A p \in Request \ {q} : req[p].pc \notin LockedSteps
  BY DEF CopiesStayNamed, NameInv, LockInv, LockFree
<1> QED BY <1>1, <1>2 DEF NameInv, LockInv

LEMMA ReturnNames ==
    ASSUME CopiesStayNamed, TypeInv, TaskInv, NameInv, NEW q \in Request,
           req[q].pc # "done", Return(q), UNCHANGED <<rec, queue, work, latest>>
    PROVE  NameInv'
<1> DEFINE s == [New EXCEPT !.pc = "done"]
<1>1. s.pc = "done" /\ Become(q, s)
  BY DEF New, Return
<1> HIDE DEF s
<1>2. LockInv'
  BY <1>1, RequestLock DEF LockedSteps
<1> QED BY <1>1, <1>2, RequestNames DEF Stale, Reading, ResumeSteps

\* A request that goes on without a new copy and without a lock.
LEMMA GotoNames ==
    ASSUME CopiesStayNamed, TypeInv, TaskInv, NameInv, NEW q \in Request,
           NEW s, Become(q, s), UNCHANGED <<rec, queue, work, latest>>,
           s.pc \in {"respondPending", "startPending", "create", "guard", "save", "resume"},
           s.pc = "startPending" => LockFree(q),
           s.pc = "create" => req[q].pc = "startPending", req[q].pc # "done"
    PROVE  NameInv'
<1>1. LockInv'
  BY RequestLock DEF LockedSteps
<1> QED BY <1>1, RequestNames DEF Stale, Reading, ResumeSteps

LEMMA RespondNames ==
    ASSUME CopiesStayNamed, TypeInv, TaskInv, NameInv, NEW q \in Request,
           req[q].pc # "done", NEW runs, RespondTo(q, runs),
           UNCHANGED <<rec, queue, work, latest>>
    PROVE  NameInv'
<1>1. CASE Return(q)
  BY <1>1, ReturnNames
<1>2. ASSUME NEW r, NEW given,
             Become(q, [req[q] EXCEPT !.pc = "resume", !.run = r, !.value = given])
      PROVE  NameInv'
  <2> DEFINE s == [req[q] EXCEPT !.pc = "resume", !.run = r, !.value = given]
  <2>1. s.pc = "resume" /\ Become(q, s)
    BY <1>2 DEF TypeInv, TypeOK, RequestState
  <2> HIDE DEF s
  <2> QED BY <2>1, GotoNames
<1> QED BY <1>1, <1>2 DEF RespondTo

\* The run is created without a task id, and nobody works for it.
LEMMA CreateNames ==
    ASSUME CopiesStayNamed, TypeInv, TaskInv, NameInv, NEW q \in Request,
           req[q].pc = "create", NEW s, Become(q, s), s.pc \in {"guard", "offer"},
           NEW c, Save(q, c), c.status = "pending", c.task = NoTask,
           UNCHANGED <<queue, work, latest>>
    PROVE  NameInv'
<1>1. /\ req'[q] = s
      /\ \A p \in Request \ {q} : req'[p] = req[p]
  BY DEF Become, TypeInv, TypeOK
<1>2. rec'[q] = c /\ \A p \in Request \ {q} : rec'[p] = rec[p]
  BY DEF Save, TypeInv, TypeOK
<1>3. rec[q] = Absent /\ Absent.status = "absent" /\ Absent.task = NoTask
  BY DEF TaskInv, CopyInv, RequestOK, NewRequests, Absent
<1>4. \A p \in Request : Unnamed(p)' => Unnamed(p)
  BY <1>1, <1>2, <1>3 DEF Unnamed, Stale
<1>5. \A p \in Request : req[p].pc = "done" => req'[p].pc = "done"
  BY <1>1
<1>6. (\A m \in queue : m.run # q) /\ (\A w \in Worker : Busy(w) => Run(w) # q)
  BY <1>3 DEF TaskInv, CopyInv, MessageOK, WorkerOK, Busy, Run
<1>7. LockInv'
  BY RequestLock DEF LockedSteps
<1>8. OwnTaskOnly'
  BY <1>4, <1>5 DEF NameInv, OwnTaskOnly, Busy, Run, TaskOf
<1>9. LastTask'
  BY <1>4 DEF NameInv, LastTask, Busy, Run
<1>10. UnnamedRecord'
  BY <1>1, <1>2, <1>6 DEF NameInv, UnnamedRecord, Busy, Run, Reading, ResumeSteps
<1>11. StaleCompletion'
  BY <1>1 DEF NameInv, StaleCompletion, Stale
<1>12. NamedWhenSent'
  <2>1. \A p \in Request : req[p].pc \in {"enqueue", "submit"}
                             => rec[req[p].run].task # NoTask /\ req[p].run \in Request
    BY DEF NameInv, NamedWhenSent, TypeInv, RequestNamesRun, HasRun, ResumeSteps
  <2> QED BY <1>1, <1>2, <1>3, <2>1 DEF NamedWhenSent
<1>13. SeenIsStored'
  <2>1. \A w \in Worker : Busy(w) => Run(w) \in Request
    BY DEF TypeInv, WorkerHasMessage, Message, Busy, Run
  <2> QED BY <1>2, <1>6, <2>1 DEF NameInv, SeenIsStored, Busy, Run
<1>14. RunningNamesTask'
  BY <1>2 DEF NameInv, RunningNamesTask
<1> QED BY <1>7, <1>8, <1>9, <1>10, <1>11, <1>12, <1>13, <1>14 DEF NameInv

\* A task is sent for a run that has an id.
LEMMA SendNames ==
    ASSUME CopiesStayNamed, TypeInv, TaskInv, NameInv, NEW q \in Request,
           req[q].pc \in {"enqueue", "submit"}, NEW m, m.id = q, m.run = req[q].run,
           queue' = queue \cup {m}, Return(q), UNCHANGED <<rec, work, latest>>
    PROVE  NameInv'
<1>1. /\ req'[q].pc = "done"
      /\ \A p \in Request \ {q} : req'[p] = req[p]
  BY ReturnIsDone
<1>2. req[q].run \in Request /\ rec[req[q].run].task # NoTask
  BY DEF NameInv, NamedWhenSent, TypeInv, RequestNamesRun, HasRun, ResumeSteps
<1>3. Unnamed(m.run) => m.id = m.run /\ latest[m.run] # "empty"
  <2>1. CASE req[q].pc = "enqueue"
    <3>1. m.run = q /\ req[q].pc # "done"
      BY <2>1 DEF TaskInv, CopyInv, RequestOK, Starting
    <3> QED BY <3>1 DEF NameInv, OwnTaskOnly
  <2>2. CASE req[q].pc = "submit"
    <3>1. \A p \in Request : Stale(req[p]) => p = q
      BY <2>2 DEF NameInv, LockInv, LockedSteps, Stale
    <3> QED BY <1>2, <2>2, <3>1 DEF Unnamed, Stale
  <2> QED BY <2>1, <2>2
<1>4. \A r \in Request : Unnamed(r)' => Unnamed(r)
  BY <1>1 DEF Unnamed, Stale
<1>5. \A p \in Request : req[p].pc = "done" => req'[p].pc = "done"
  BY <1>1
<1>6. LockInv'
  BY <1>1 DEF NameInv, LockInv, LockedSteps
<1>7. OwnTaskOnly'
  BY <1>3, <1>4, <1>5 DEF NameInv, OwnTaskOnly, Busy, Run, TaskOf
<1>8. LastTask'
  BY <1>3, <1>4 DEF NameInv, LastTask, Busy, Run
<1>9. UnnamedRecord'
  BY <1>1, <1>2 DEF NameInv, UnnamedRecord, Busy, Run, Reading, ResumeSteps
<1>10. StaleCompletion' /\ NamedWhenSent'
  BY <1>1 DEF NameInv, StaleCompletion, NamedWhenSent, Stale
<1>11. SeenIsStored' /\ RunningNamesTask'
  BY DEF NameInv, SeenIsStored, RunningNamesTask, Run
<1> QED BY <1>6, <1>7, <1>8, <1>9, <1>10, <1>11 DEF NameInv

LEMMA TakeNames ==
    ASSUME TypeInv, TaskInv, NameInv, NEW w \in Worker, ~Busy(w), NEW m \in queue,
           queue' = queue \ {m}, NEW s, s.msg = m, s.pc = "load",
           UNCHANGED work \/ WBecome(w, s), UNCHANGED <<rec, latest, req>>
    PROVE  NameInv'
<1>1. \A v \in Worker : Busy(v)' =>
        \/ /\ v # w /\ work'[v] = work[v] /\ Busy(v)
           /\ Run(v)' = Run(v) /\ TaskOf(v)' = TaskOf(v)
        \/ /\ v = w /\ work'[v].pc = "load" /\ Run(v)' = m.run /\ TaskOf(v)' = m.id
  BY DEF WBecome, TypeInv, TypeOK, Busy, Run, TaskOf
<1>2. \A r \in Request : Unnamed(r)' = Unnamed(r)
  BY DEF Unnamed
<1>3. LockInv' /\ StaleCompletion' /\ NamedWhenSent' /\ RunningNamesTask'
  BY DEF NameInv, LockInv, StaleCompletion, NamedWhenSent, RunningNamesTask
<1>4. OwnTaskOnly'
  BY <1>1, <1>2 DEF NameInv, OwnTaskOnly
<1>5. LastTask'
  BY <1>1, <1>2 DEF NameInv, LastTask
<1>6. UnnamedRecord'
  BY <1>1 DEF NameInv, UnnamedRecord
<1>7. SeenIsStored'
  BY <1>1 DEF NameInv, SeenIsStored, Busy
<1> QED BY <1>3, <1>4, <1>5, <1>6, <1>7 DEF NameInv

\* What is retried has failed, and then it had no final state or is not retried.
LEMMA RetryNames ==
    ASSUME CopiesStayNamed, TypeInv, TaskInv, NameInv, NEW w \in Worker, Busy(w),
           work[w].target = "error", "transient" \in Faults,
           NEW n, n.run = Run(w), n.id = TaskOf(w), queue' = queue \cup {n},
           WBecome(w, Idle), UNCHANGED <<rec, latest, req>>
    PROVE  NameInv'
<1>1. \A v \in Worker : Busy(v)' => /\ v # w /\ work'[v] = work[v] /\ Busy(v)
                                    /\ Run(v)' = Run(v) /\ TaskOf(v)' = TaskOf(v)
  BY DEF WBecome, Idle, TypeInv, TypeOK, Busy, Run, TaskOf
<1>2. \A r \in Request : Unnamed(r)' = Unnamed(r)
  BY DEF Unnamed
<1>3. Unnamed(Run(w)) => latest[Run(w)] # "empty"
  BY OnlyHolder DEF Over
<1>4. rec[Run(w)].task # NoTask \/ latest[Run(w)] = "empty"
  BY OnlyHolder DEF Unnamed
<1>5. LockInv' /\ StaleCompletion' /\ NamedWhenSent' /\ RunningNamesTask'
  BY DEF NameInv, LockInv, StaleCompletion, NamedWhenSent, RunningNamesTask
<1>6. OwnTaskOnly'
  BY <1>1, <1>2 DEF NameInv, OwnTaskOnly
<1>7. LastTask'
  BY <1>1, <1>2, <1>3 DEF NameInv, LastTask
<1>8. UnnamedRecord'
  BY <1>1, <1>3, <1>4 DEF NameInv, UnnamedRecord, Unnamed
<1>9. SeenIsStored'
  BY <1>1 DEF NameInv, SeenIsStored, Busy
<1> QED BY <1>5, <1>6, <1>7, <1>8, <1>9 DEF NameInv

\* The moves of a worker that leave the records alone.
LEMMA WorkerGoesOn ==
    ASSUME TypeInv, TaskInv, NameInv, NEW w \in Worker, Busy(w), NEW pc, NEW status,
           WAdvance(w, pc, status) \/ (WGoto(w, pc) /\ status = work[w].target),
           pc # "mark", NEW l \in {"none", "agent", "empty"},
           SetLatest(Run(w), l), UNCHANGED <<rec, queue, req>>,
           Unnamed(Run(w)) /\ l = "empty" =>
             /\ pc \in {"save", "tell", "load", "mark", "close"} /\ status \in Terminal
             /\ status = "error" => "transient" \notin Faults,
           Unnamed(Run(w)) /\ latest[Run(w)] = "empty" => l = "empty"
    PROVE  NameInv'
<1>1. PICK s : /\ WBecome(w, s)
               /\ s = [work[w] EXCEPT !.pc = pc, !.seen = Absent, !.target = status] \/
                    (s = [work[w] EXCEPT !.pc = pc] /\ status = work[w].target)
  BY DEF WAdvance, WGoto
<1>2. s.pc = pc /\ s.target = status /\ s.msg = work[w].msg
  BY <1>1 DEF TypeInv, TypeOK, WorkerState
<1>3. PICK r \in Request : r = Run(w)
  BY DEF TypeInv, WorkerHasMessage, Message, Busy, Run
<1>4. PICK c : c = rec[r]
  OBVIOUS
<1>5. Save(r, c) /\ SetLatest(r, l)
  BY <1>3, <1>4 DEF Save, TypeInv, TypeOK
<1>6. c.task = NoTask => rec[r].task = NoTask /\ c.status \in Terminal
  BY <1>3, <1>4, OnlyHolder DEF Unnamed
<1>7. Unnamed(r) /\ l = "empty" => Over(s)
  BY <1>2, <1>3 DEF Over
<1>8. Unnamed(r) /\ latest[r] = "empty" => l = "empty"
  BY <1>3
<1>9. s.pc # "mark"
  BY <1>2
<1>10. /\ r = Run(w) /\ WBecome(w, s) /\ (s.pc = "idle" \/ s.msg = work[w].msg)
       /\ UNCHANGED <<queue, req>>
       /\ Unnamed(r) /\ l = "empty" => s.pc = "idle" \/ Over(s)
       /\ s.pc = "mark" /\ s.seen.task = NoTask => c.task = NoTask
  BY <1>1, <1>2, <1>3, <1>7, <1>9
<1> QED BY <1>5, <1>6, <1>8, <1>10, WorkerNames

\* A worker that saves a record with the id of its task.
LEMMA WorkerSaves ==
    ASSUME TypeInv, TaskInv, NameInv, NEW w \in Worker, Busy(w), NEW pc, NEW status,
           WAdvance(w, pc, status) \/ (WGoto(w, pc) /\ status = work[w].target),
           pc # "mark", UNCHANGED <<latest, queue, req>>, NEW c, Save(Run(w), c),
           c.task = NoTask => rec[Run(w)].task = NoTask /\ c.status \in Terminal,
           Unnamed(Run(w)) /\ latest[Run(w)] = "empty" =>
             /\ pc \in {"save", "tell", "load", "mark", "close"} /\ status \in Terminal
             /\ status = "error" => "transient" \notin Faults
    PROVE  NameInv'
<1>1. PICK s : /\ WBecome(w, s)
               /\ s = [work[w] EXCEPT !.pc = pc, !.seen = Absent, !.target = status] \/
                    (s = [work[w] EXCEPT !.pc = pc] /\ status = work[w].target)
  BY DEF WAdvance, WGoto
<1>2. s.pc = pc /\ s.target = status /\ s.msg = work[w].msg
  BY <1>1 DEF TypeInv, TypeOK, WorkerState
<1>3. PICK r \in Request : r = Run(w)
  BY DEF TypeInv, WorkerHasMessage, Message, Busy, Run
<1>4. PICK l : l = latest[r]
  OBVIOUS
<1>5. Save(r, c) /\ SetLatest(r, l)
  BY <1>3, <1>4 DEF SetLatest, TypeInv, TypeOK
<1>6. Unnamed(r) /\ l = "empty" => Over(s)
  BY <1>2, <1>3, <1>4 DEF Over
<1>7. Unnamed(r) /\ latest[r] = "empty" => l = "empty"
  BY <1>4
<1>8. /\ r = Run(w) /\ WBecome(w, s) /\ (s.pc = "idle" \/ s.msg = work[w].msg)
      /\ c.task = NoTask => rec[r].task = NoTask /\ c.status \in Terminal
      /\ Unnamed(r) /\ l = "empty" => s.pc = "idle" \/ Over(s)
      /\ s.pc = "mark" /\ s.seen.task = NoTask => c.task = NoTask
  BY <1>1, <1>2, <1>3, <1>6
<1> QED BY <1>5, <1>7, <1>8, WorkerNames

LEMMA WorkerLeaves ==
    ASSUME TypeInv, TaskInv, NameInv, NEW w \in Worker, Busy(w), WBecome(w, Idle),
           UNCHANGED <<rec, latest, queue, req>>
    PROVE  NameInv'
<1>1. PICK s : s = Idle
  OBVIOUS
<1>2. PICK r \in Request : r = Run(w)
  BY DEF TypeInv, WorkerHasMessage, Message, Busy, Run
<1>3. PICK c : c = rec[r]
  OBVIOUS
<1>4. PICK l : l = latest[r]
  OBVIOUS
<1>5. Save(r, c) /\ SetLatest(r, l) /\ s.pc = "idle" /\ WBecome(w, s)
  BY <1>1, <1>2, <1>3, <1>4 DEF Save, SetLatest, TypeInv, TypeOK, Idle
<1>6. c.task = NoTask => rec[r].task = NoTask /\ c.status \in Terminal
  BY <1>2, <1>3, OnlyHolder DEF Unnamed
<1>7. Unnamed(r) /\ latest[r] = "empty" => l = "empty"
  BY <1>4
<1>8. /\ r = Run(w) /\ (s.pc = "idle" \/ s.msg = work[w].msg)
      /\ Unnamed(r) /\ l = "empty" => s.pc = "idle" \/ Over(s)
      /\ s.pc = "mark" /\ s.seen.task = NoTask => c.task = NoTask
  BY <1>2, <1>5
<1> QED BY <1>5, <1>6, <1>7, <1>8, WorkerNames

LEMMA StepNameInv ==
    ASSUME CopiesStayNamed, TypeInv, TaskInv, NameInv, [Next]_vars
    PROVE  NameInv'
<1>1. CASE UNCHANGED vars
  <2>1. UNCHANGED <<rec, latest, queue, req, work>>
    BY <1>1 DEF vars
  <2> QED BY <2>1 DEF NameInv, LockInv, OwnTaskOnly, LastTask, UnnamedRecord, StaleCompletion,
                      NamedWhenSent, SeenIsStored, RunningNamesTask, Unnamed, Busy, Run, TaskOf
<1>2. \A q \in Request : /\ req[q] \in RequestState
                         /\ req[q].pc \in HasRun => req[q].run \in Request
                         /\ RequestOK(rec, q, req[q])
  BY DEF TypeInv, TypeOK, RequestNamesRun, TaskInv, CopyInv
<1>3. ASSUME NEW q \in Request, NEW pc, Goto(q, pc), req[q].pc # "done",
             UNCHANGED <<rec, queue, work, latest>>,
             pc \in {"respondPending", "startPending", "create"},
             pc = "startPending" => LockFree(q), pc = "create" => req[q].pc = "startPending"
      PROVE  NameInv'
  <2> DEFINE s == [req[q] EXCEPT !.pc = pc]
  <2>1. s.pc = pc /\ Become(q, s)
    BY <1>2, <1>3 DEF RequestState, Goto
  <2> HIDE DEF s
  <2> QED BY <1>3, <2>1, GotoNames
<1>4. ASSUME NEW q \in Request, RequestArrives(q) PROVE NameInv'
  <2>1. CASE StartRunning(q)
    BY <1>3, <2>1, ReturnNames DEF StartRunning
  <2>2. CASE RespondRunning(q)
    BY <1>3, <2>2, RespondNames DEF RespondRunning
  <2>3. ASSUME NEW r \in Request, ResumeArrives(q, r) PROVE NameInv'
    <3> DEFINE s == [req[q] EXCEPT !.pc = "resume", !.run = r]
    <3>1. /\ s.pc = "resume" /\ Become(q, s) /\ req[q].pc = "new"
          /\ UNCHANGED <<rec, queue, work, latest>>
      BY <1>2, <2>3 DEF RequestState, ResumeArrives
    <3> HIDE DEF s
    <3> QED BY <3>1, GotoNames
  <2>4. ASSUME NEW r \in Request, CancelRead(q, r) PROVE NameInv'
    BY <2>4 DEF CancelRead, CopiesStayNamed
  <2> QED BY <1>4, <2>1, <2>2, <2>3, <2>4 DEF RequestArrives
<1>5. ASSUME NEW q \in Request, req[q].pc # "done", NEW s, Become(q, s),
             UNCHANGED <<rec, queue, work, latest>>,
             s.pc \in Reading, s.pc # "submit", s.run = req[q].run,
             \/ req[q].pc \in Reading
             \/ req[q].pc = "resume" /\ LockFree(q) /\ rec[s.run].status \in Active,
             Stale(s) => Unnamed(s.run),
             Stale(s) /\ s.pc = "complete" =>
               latest[s.run] = "empty" /\ s.copy.status = "success"
      PROVE  NameInv'
  <2>1. LockInv'
    BY <1>5, RequestLock DEF LockedSteps, Reading, ResumeSteps
  <2> QED BY <1>5, <2>1, RequestNames DEF Reading, ResumeSteps
<1>6. ASSUME NEW q \in Request, RequestStep(q) PROVE NameInv'
  <2>1. CASE StartPending(q)
    BY <1>3, <2>1, ReturnNames DEF StartPending
  <2>2. CASE StartCreate(q)
    <3> DEFINE c == [Absent EXCEPT !.status = "pending"]
    <3>1. c.status = "pending" /\ c.task = NoTask
      BY DEF Absent
    <3>2. PICK pc \in {"guard", "offer"} :
            Become(q, [req[q] EXCEPT !.pc = pc, !.run = q, !.copy = c])
      BY <2>2 DEF StartCreate
    <3>3. Save(q, c) /\ UNCHANGED <<queue, work, latest>> /\ req[q].pc = "create"
      BY <2>2 DEF StartCreate
    <3> DEFINE s == [req[q] EXCEPT !.pc = pc, !.run = q, !.copy = c]
    <3>4. Become(q, s)
      BY <3>2
    <3> HIDE DEF c
    <3>5. s.pc \in {"guard", "offer"}
      BY <1>2 DEF RequestState
    <3> HIDE DEF s
    <3> QED BY <3>1, <3>3, <3>4, <3>5, CreateNames
  <2>3. CASE StreamBegin(q)
    <3> DEFINE s == [req[q] EXCEPT !.pc = "guard", !.copy = rec[req[q].run]]
    <3>1. /\ s.pc = "guard" /\ Become(q, s) /\ req[q].pc = "offer"
          /\ UNCHANGED <<rec, queue, work, latest>>
      BY <1>2, <2>3 DEF RequestState, StreamBegin, Advance
    <3> HIDE DEF s
    <3> QED BY <3>1, GotoNames
  <2>4. CASE StartGuard(q)
    <3>1. req[q].pc = "guard" /\ UNCHANGED <<rec, queue, work, latest>>
      BY <2>4 DEF StartGuard
    <3>2. CASE Return(q)
      BY <3>1, <3>2, ReturnNames
    <3>3. CASE Claim(q)
      <4> DEFINE s == [req[q] EXCEPT !.pc = "save", !.copy = [req[q].copy EXCEPT !.task = q]]
      <4>1. s.pc = "save" /\ Become(q, s)
        BY <1>2, <3>3 DEF RequestState, Claim, Advance
      <4> HIDE DEF s
      <4> QED BY <3>1, <4>1, GotoNames
    <3> QED BY <2>4, <3>2, <3>3 DEF StartGuard
  <2>5. CASE StartSave(q)
    <3>1. /\ req[q].pc = "save" /\ UNCHANGED <<queue, work, latest>>
          /\ req[q].run = q /\ req[q].copy.task = q
      BY <1>2, <2>5 DEF StartSave, RequestOK, Starting
    <3>2. PICK c : c = req[q].copy
      OBVIOUS
    <3>3. Save(q, c) /\ c.task # NoTask
      BY <2>5, <3>1, <3>2, NoTaskNotRequest DEF StartSave
    <3> DEFINE s == [req[q] EXCEPT !.pc = "enqueue"]
    <3>4. s.pc = "enqueue" /\ s.run = q /\ Become(q, s)
      BY <1>2, <2>5, <3>1 DEF RequestState, StartSave, Goto
    <3> HIDE DEF s
    <3>5. LockInv'
      BY <3>4, RequestLock DEF LockedSteps
    <3>6. rec[q].task = NoTask => \A w \in Worker : Busy(w) => Run(w) # q
      BY <3>1, OnlyHolder DEF Unnamed
    <3>7. ~Stale(s) /\ s.pc \notin Reading
      BY <3>4 DEF Stale, Reading, ResumeSteps
    <3> QED BY <3>1, <3>3, <3>4, <3>5, <3>6, <3>7, SaveNames
  <2>6. CASE StartEnqueue(q) \/ ResumeSubmit(q)
    <3>1. PICK action : /\ Send(q, action) /\ UNCHANGED <<rec, work, latest>>
                        /\ req[q].pc \in {"enqueue", "submit"}
      BY <2>6 DEF StartEnqueue, ResumeSubmit
    <3> DEFINE m == [id |-> q, run |-> req[q].run, action |-> action,
                     rec |-> req[q].copy, retries |-> 0]
    <3>2. m.id = q /\ m.run = req[q].run /\ queue' = queue \cup {m} /\ Return(q)
      BY <3>1 DEF Send
    <3> HIDE DEF m
    <3> QED BY <3>1, <3>2, SendNames
  <2>7. CASE RespondPending(q)
    BY <2>7, RespondNames, ReturnNames DEF RespondPending
  <2>8. CASE ResumeRead(q)
    <3>1. /\ req[q].pc = "resume" /\ LockFree(q) /\ UNCHANGED <<rec, queue, work, latest>>
          /\ req[q].run \in Request
      BY <1>2, <2>8 DEF ResumeRead, HasRun, ResumeSteps
    <3>2. CASE Return(q)
      BY <3>1, <3>2, ReturnNames
    <3>3. ASSUME NEW pc \in {"check", "checkpoint"}, Advance(q, pc, rec[req[q].run]),
                 rec[req[q].run].status \in Active
          PROVE  NameInv'
      <4> DEFINE s == [req[q] EXCEPT !.pc = pc, !.copy = rec[req[q].run]]
      <4>1. /\ s.pc = pc /\ s.run = req[q].run /\ s.copy = rec[req[q].run]
            /\ Become(q, s)
        BY <1>2, <3>3 DEF RequestState, Advance
      <4> HIDE DEF s
      <4>2. Stale(s) => Unnamed(s.run)
        BY <4>1 DEF Stale, Unnamed
      <4>3. s.pc \in Reading /\ s.pc \notin {"submit", "complete"}
        BY <4>1 DEF Reading, ResumeSteps
      <4> QED BY <1>5, <3>1, <3>3, <4>1, <4>2, <4>3
    <3> QED BY <2>8, <3>2, <3>3 DEF ResumeRead
  <2>9. CASE ResumeCheck(q)
    <3>1. req[q].pc = "check" /\ UNCHANGED <<rec, queue, work, latest>>
      BY <2>9 DEF ResumeCheck
    <3>2. CASE Return(q)
      BY <3>1, <3>2, ReturnNames
    <3>3. ASSUME NEW pc \in {"limit", "count"}, NEW c, Advance(q, pc, c) PROVE NameInv'
      <4> DEFINE s == [req[q] EXCEPT !.pc = pc, !.copy = c]
      <4>1. s.pc = pc /\ s.run = req[q].run /\ Become(q, s)
        BY <1>2, <3>3 DEF RequestState, Advance
      <4> HIDE DEF s
      <4>2. s.pc \in Reading /\ s.pc # "submit" /\ ~Stale(s) /\ req[q].pc \in Reading
        BY <3>1, <4>1 DEF Reading, ResumeSteps, Stale
      <4> QED BY <1>5, <3>1, <4>1, <4>2
    <3> QED BY <2>9, <3>2, <3>3 DEF ResumeCheck
  <2>10. CASE ResumeCount(q) \/ ResumeSave(q)
    <3>1. PICK c : c = req[q].copy
      OBVIOUS
    <3>2. PICK r \in Request : r = req[q].run
      BY <1>2, <2>10 DEF ResumeCount, ResumeSave, HasRun, ResumeSteps
    <3>3. /\ req[q].pc \in {"count", "limit", "complete", "assign"}
          /\ UNCHANGED <<queue, work, latest>> /\ Save(r, c)
      BY <2>10, <3>1, <3>2 DEF ResumeCount, ResumeSave
    <3>4. PICK s : /\ Become(q, s)
                   /\ \/ /\ req[q].pc = "count"
                         /\ s = [req[q] EXCEPT !.pc = "checkpoint"]
                      \/ req[q].pc = "assign" /\ s = [req[q] EXCEPT !.pc = "submit"]
                      \/ /\ req[q].pc \in {"limit", "complete"}
                         /\ s = [req[q] EXCEPT !.pc = "tell", !.copy = Absent]
      BY <2>10 DEF ResumeCount, ResumeSave, Goto, Advance
    <3>5. /\ s.run = r
          /\ \/ req[q].pc = "count" /\ s.pc = "checkpoint" /\ s.copy = c
             \/ req[q].pc = "assign" /\ s.pc = "submit"
             \/ req[q].pc \in {"limit", "complete"} /\ s.pc = "tell"
      BY <1>2, <3>1, <3>2, <3>4 DEF RequestState
    <3>6. /\ req[q].pc \in {"count", "limit"} => c.task # NoTask
          /\ req[q].pc = "assign" => c.task # NoTask
      BY <1>2, <3>1, NoTaskNotRequest DEF RequestOK
    <3>7. LockInv'
      BY <3>3, <3>4, <3>5, RequestLock DEF LockedSteps
    <3>8. ~Stale(s)
      BY <3>5, <3>6 DEF Stale
    <3>9. Stale(req[q]) /\ req[q].pc = "complete" => c.status = "success"
      BY <3>1 DEF NameInv, StaleCompletion
    <3>10. rec[r].task = NoTask => \A w \in Worker : Busy(w) => Run(w) # r
      <4>1. req[q].pc \in Reading
        BY <3>3 DEF Reading, ResumeSteps
      <4> QED BY <3>2, <4>1 DEF NameInv, UnnamedRecord
    <3>11. c.task # NoTask \/ (Stale(req[q]) /\ req[q].pc = "complete" /\ s.pc \notin Reading)
      BY <3>1, <3>3, <3>5, <3>6 DEF Stale, Reading, ResumeSteps
    <3>12. /\ s.pc \in {"enqueue", "submit"} => s.run = r /\ c.task # NoTask
           /\ s.pc \in Reading => req[q].pc \in Reading /\ s.run = req[q].run
      BY <3>2, <3>5, <3>6 DEF Reading, ResumeSteps
    <3> QED BY <3>2, <3>3, <3>4, <3>7, <3>8, <3>9, <3>10, <3>11, <3>12, SaveNames DEF Terminal
  <2>11. CASE ResumeCheckpoint(q)
    <3>1. /\ req[q].pc = "checkpoint" /\ UNCHANGED <<rec, queue, work, latest>>
          /\ req[q].pc \in Reading
      BY <2>11 DEF ResumeCheckpoint, Reading, ResumeSteps
    <3>2. CASE /\ latest[req[q].run] = "empty"
               /\ Advance(q, "complete", [req[q].copy EXCEPT !.status = "success"])
      <4> DEFINE s == [req[q] EXCEPT !.pc = "complete",
                                     !.copy = [req[q].copy EXCEPT !.status = "success"]]
      <4>1. /\ s.pc = "complete" /\ s.run = req[q].run /\ Become(q, s)
            /\ s.copy.task = req[q].copy.task /\ s.copy.status = "success"
        BY <1>2, <3>2 DEF RequestState, RunRecord, Advance
      <4> HIDE DEF s
      <4>2. Stale(s) => Unnamed(s.run)
        BY <3>1, <4>1 DEF Stale, Unnamed
      <4>3. s.pc \in Reading /\ s.pc # "submit"
        BY <4>1 DEF Reading, ResumeSteps
      <4> QED BY <1>5, <3>1, <3>2, <4>1, <4>2, <4>3
    <3>3. CASE Advance(q, "assign", [req[q].copy EXCEPT !.task = q])
      <4> DEFINE s == [req[q] EXCEPT !.pc = "assign", !.copy = [req[q].copy EXCEPT !.task = q]]
      <4>1. s.pc = "assign" /\ s.run = req[q].run /\ Become(q, s)
        BY <1>2, <3>3 DEF RequestState, Advance
      <4> HIDE DEF s
      <4>2. s.pc \in Reading /\ s.pc # "submit" /\ ~Stale(s)
        BY <4>1 DEF Reading, ResumeSteps, Stale
      <4> QED BY <1>5, <3>1, <4>1, <4>2
    <3> QED BY <2>11, <3>2, <3>3 DEF ResumeCheckpoint
  <2>12. CASE CancelSave(q)
    BY <2>12 DEF CancelSave, NameInv, LockInv
  <2>13. CASE Tell(q)
    BY <2>13, ReturnNames DEF Tell
  <2> QED BY <1>6, <2>1, <2>2, <2>3, <2>4, <2>5, <2>6, <2>7, <2>8, <2>9, <2>10, <2>11, <2>12,
             <2>13 DEF RequestStep
<1>7. ASSUME NEW w \in Worker, Busy(w)
      PROVE  /\ work[w] \in WorkerState /\ work[w].msg \in Message /\ Run(w) \in Request
             /\ WorkerOK(rec, work[w]) /\ work[w].msg.rec.task # NoTask
             /\ Unnamed(Run(w)) /\ latest[Run(w)] = "empty" => Over(work[w])
  <2>1. work[w] \in WorkerState /\ work[w].msg \in Message /\ Run(w) \in Request
    BY <1>7 DEF TypeInv, TypeOK, WorkerHasMessage, Message, Busy, Run
  <2>2. WorkerOK(rec, work[w]) /\ work[w].msg.rec.task # NoTask
    BY <1>7, <2>1, NoTaskNotRequest DEF TaskInv, CopyInv, WorkerOK, MessageOK, Busy, Message
  <2>3. Unnamed(Run(w)) /\ latest[Run(w)] = "empty" => Over(work[w])
    BY <1>7, OnlyHolder
  <2> QED BY <2>1, <2>2, <2>3
\* A worker that leaves both the record and the history alone.
<1>8. ASSUME NEW w \in Worker, Busy(w), NEW pc, NEW status,
             WAdvance(w, pc, status) \/ (WGoto(w, pc) /\ status = work[w].target),
             pc # "mark", UNCHANGED <<rec, latest, queue, req>>,
             Over(work[w]) =>
               /\ pc \in {"save", "tell", "load", "mark", "close"} /\ status \in Terminal
               /\ status = "error" => "transient" \notin Faults
      PROVE  NameInv'
  <2>1. PICK l \in {"none", "agent", "empty"} : l = latest[Run(w)]
    BY <1>7, <1>8 DEF TypeInv, TypeOK
  <2>2. SetLatest(Run(w), l)
    BY <1>7, <1>8, <2>1 DEF SetLatest, TypeInv, TypeOK
  <2>3. UNCHANGED <<rec, queue, req>>
    BY <1>8
  <2>4. Unnamed(Run(w)) /\ l = "empty" =>
          /\ pc \in {"save", "tell", "load", "mark", "close"} /\ status \in Terminal
          /\ status = "error" => "transient" \notin Faults
    BY <1>7, <1>8, <2>1
  <2>5. Unnamed(Run(w)) /\ latest[Run(w)] = "empty" => l = "empty"
    BY <2>1
  <2> QED BY <1>8, <2>2, <2>3, <2>4, <2>5, WorkerGoesOn
<1>9. ASSUME NEW w \in Worker, WorkerStep(w) PROVE NameInv'
  <2>1. ASSUME NEW m \in queue, Take(w, m) PROVE NameInv'
    <3>1. ~Busy(w) /\ queue' = queue \ {m} /\ UNCHANGED <<rec, latest, req>>
      BY <2>1 DEF Take, Busy
    <3>2. ASSUME NEW status,
                 \/ UNCHANGED work
                 \/ WBecome(w, [pc |-> "load", msg |-> m, seen |-> Absent, target |-> status])
          PROVE  NameInv'
      <4> DEFINE s == [pc |-> "load", msg |-> m, seen |-> Absent, target |-> status]
      <4>1. s.msg = m /\ s.pc = "load" /\ (UNCHANGED work \/ WBecome(w, s))
        BY <3>2
      <4> HIDE DEF s
      <4> QED BY <3>1, <4>1, TakeNames
    <3> QED BY <2>1, <3>2 DEF Take
  <2>2. CASE UpdateRead(w)
    <3>1. Busy(w) /\ work[w].pc = "load" /\ UNCHANGED <<rec, latest, queue, req>>
      BY <2>2 DEF UpdateRead, Busy
    <3>2. PICK r \in Request : r = Run(w)
      BY <1>7, <3>1
    <3>3. PICK c : c = rec[r]
      OBVIOUS
    <3>4. PICK l : l = latest[r]
      OBVIOUS
    <3> DEFINE s == [work[w] EXCEPT !.pc = "mark", !.seen = rec[Run(w)]]
    <3>5. /\ s.pc = "mark" /\ s.seen = c /\ s.msg = work[w].msg /\ s.target = work[w].target
          /\ WBecome(w, s)
      BY <1>7, <2>2, <3>1, <3>2, <3>3 DEF UpdateRead, WorkerState
    <3> HIDE DEF s
    <3>6. Save(r, c) /\ SetLatest(r, l)
      BY <3>1, <3>2, <3>3, <3>4 DEF Save, SetLatest, TypeInv, TypeOK
    <3>7. c.task = NoTask => rec[r].task = NoTask /\ c.status \in Terminal
      BY <3>1, <3>2, <3>3, OnlyHolder DEF Unnamed
    <3>8. Unnamed(r) /\ l = "empty" => Over(s)
      BY <1>7, <3>1, <3>2, <3>4, <3>5 DEF Over
    <3>9. Unnamed(r) /\ latest[r] = "empty" => l = "empty"
      BY <3>4
    <3>10. UNCHANGED <<queue, req>>
      BY <3>1
    <3> QED BY <3>1, <3>2, <3>5, <3>6, <3>7, <3>8, <3>9, <3>10, WorkerNames
  <2>3. CASE UpdateSave(w)
    <3>1. Busy(w) /\ work[w].pc = "mark" /\ UNCHANGED <<latest, queue, req>>
      BY <2>3 DEF UpdateSave, Busy
    <3>2. PICK c : c = [work[w].seen EXCEPT !.status = work[w].target]
      OBVIOUS
    <3>3. /\ Save(Run(w), c) /\ c.status = work[w].target
          /\ c.task = work[w].seen.task
      BY <1>7, <2>3, <3>1, <3>2 DEF UpdateSave, WorkerState, RunRecord
    <3>4. c.task = NoTask => rec[Run(w)].task = NoTask /\ c.status \in Terminal
      <4>1. c.task = NoTask => rec[Run(w)].task = NoTask
        BY <3>1, <3>3 DEF NameInv, SeenIsStored
      <4>2. rec[Run(w)].task = NoTask => Over(work[w])
        BY <1>7, <3>1, OnlyHolder DEF Unnamed
      <4> QED BY <3>3, <4>1, <4>2 DEF Over
    <3>5. PICK pc : /\ WAdvance(w, pc, work[w].target) /\ pc \in {"begin", "close"}
                    /\ work[w].target # "running" => pc = "close"
      BY <2>3 DEF UpdateSave
    <3>6. PICK status : status = work[w].target
      OBVIOUS
    <3>7. Unnamed(Run(w)) /\ latest[Run(w)] = "empty" =>
             /\ pc \in {"save", "tell", "load", "mark", "close"} /\ status \in Terminal
             /\ status = "error" => "transient" \notin Faults
      BY <1>7, <3>1, <3>5, <3>6 DEF Over, Terminal
    <3>8. WAdvance(w, pc, status) /\ pc # "mark"
      BY <3>5, <3>6
    <3> QED BY <3>1, <3>3, <3>4, <3>7, <3>8, WorkerSaves
  <2>4. CASE Close(w)
    <3>1. Busy(w) /\ UNCHANGED <<rec, latest, req>>
      BY <2>4 DEF Close, Busy
    <3>2. CASE EndTask(w) /\ UNCHANGED queue
      BY <3>1, <3>2, WorkerLeaves DEF EndTask
    <3>3. CASE /\ "transient" \in Faults /\ work[w].target = "error"
               /\ queue' = queue \cup {[work[w].msg EXCEPT !.retries = @ + 1]}
               /\ WBecome(w, Idle)
      <4> DEFINE n == [work[w].msg EXCEPT !.retries = @ + 1]
      <4>1. n.run = Run(w) /\ n.id = TaskOf(w) /\ queue' = queue \cup {n}
        BY <1>7, <3>1, <3>3 DEF Message, Run, TaskOf
      <4> HIDE DEF n
      <4> QED BY <3>1, <3>3, <4>1, RetryNames
    <3> QED BY <2>4, <3>2, <3>3 DEF Close
  <2>5. CASE Begin(w)
    <3>1. Busy(w) /\ work[w].pc = "begin" /\ UNCHANGED <<latest, queue, req>>
      BY <2>5 DEF Begin, Busy
    <3>2. PICK c : c = RunnerCopy(w, "running")
      OBVIOUS
    <3>3. Save(Run(w), c) /\ c.task # NoTask
      BY <1>7, <2>5, <3>1, <3>2 DEF Begin, RunnerCopy, Message, RunRecord
    <3>4. ~(Unnamed(Run(w)) /\ latest[Run(w)] = "empty")
      BY <1>7, <3>1 DEF Over
    <3>5. PICK status : status = work[w].target
      OBVIOUS
    <3>6. PICK pc \in {"init", "stream"} : WGoto(w, pc)
      BY <2>5 DEF Begin
    <3> QED BY <3>1, <3>3, <3>4, <3>5, <3>6, WorkerSaves
  <2>6. CASE SaveOutcome(w)
    <3>1. Busy(w) /\ work[w].pc = "save" /\ UNCHANGED <<latest, queue, req>> /\ WGoto(w, "tell")
      BY <2>6 DEF SaveOutcome, Busy
    <3>2. PICK c : c = RunnerCopy(w, work[w].target)
      OBVIOUS
    <3>3. Save(Run(w), c) /\ c.task # NoTask
      BY <1>7, <2>6, <3>1, <3>2 DEF SaveOutcome, RunnerCopy, Message, RunRecord
    <3>4. PICK status : status = work[w].target
      OBVIOUS
    <3>5. Unnamed(Run(w)) /\ latest[Run(w)] = "empty" =>
             status \in Terminal /\ (status = "error" => "transient" \notin Faults)
      BY <1>7, <3>1, <3>4 DEF Over
    <3> QED BY <3>1, <3>3, <3>4, <3>5, WorkerSaves
  <2>7. CASE SaveInitialState(w) \/ SaveFinalSnapshot(w)
    <3>1. Busy(w) /\ work[w].pc \in {"init", "snapshot"} /\ UNCHANGED <<rec, queue, req>>
      BY <2>7 DEF SaveInitialState, SaveFinalSnapshot, Busy
    <3>2. ~(Unnamed(Run(w)) /\ latest[Run(w)] = "empty")
      BY <1>7, <3>1 DEF Over
    <3>3. PICK status : status = work[w].target
      OBVIOUS
    <3>4. CASE SaveInitialState(w)
      <4>1. WGoto(w, "stream") /\ SetLatest(Run(w), "agent")
        BY <3>4 DEF SaveInitialState, SetLatest
      <4> QED BY <3>1, <3>2, <3>3, <4>1, WorkerGoesOn
    <3>5. CASE SaveFinalSnapshot(w)
      <4>1. /\ WGoto(w, "save") /\ SetLatest(Run(w), "empty")
            /\ status \in Terminal /\ status # "error"
        BY <1>7, <3>1, <3>3, <3>5 DEF SaveFinalSnapshot, SetLatest, WorkerOK, Terminal
      <4> QED BY <3>1, <3>2, <3>3, <4>1, WorkerGoesOn
    <3> QED BY <2>7, <3>4, <3>5
  <2>8. CASE ObserveCancel(w) \/ StreamEnds(w)
    <3>1. /\ Busy(w) /\ work[w].pc = "stream" /\ UNCHANGED <<rec, latest, queue, req>>
          /\ \E status : WAdvance(w, "snapshot", status)
      BY <2>8 DEF ObserveCancel, StreamEnds, Busy
    <3> QED BY <1>8, <3>1 DEF Over
  <2>9. CASE TellOutcome(w)
    <3>1. Busy(w) /\ work[w].pc = "tell" /\ UNCHANGED <<rec, latest, queue, req>>
      BY <2>9 DEF TellOutcome, Busy
    <3>2. CASE EndTask(w)
      BY <3>1, <3>2, WorkerLeaves DEF EndTask
    <3>3. CASE Update(w, work[w].target)
      <4>1. PICK status : status = work[w].target
        OBVIOUS
      <4>2. WAdvance(w, "load", status)
        BY <3>3, <4>1 DEF Update
      <4> QED BY <1>8, <3>1, <4>1, <4>2 DEF Over
    <3> QED BY <2>9, <3>2, <3>3 DEF TellOutcome
  <2> QED BY <1>9, <2>1, <2>2, <2>3, <2>4, <2>5, <2>6, <2>7, <2>8, <2>9 DEF WorkerStep
<1>10. CASE Fault
  <2>1. ASSUME NEW q \in Request, StreamAbandon(q) \/ EnqueueFails(q) PROVE NameInv'
    BY <2>1, ReturnNames DEF StreamAbandon, EnqueueFails
  <2>2. ASSUME NEW p \in Replica, ApiCrash(p) PROVE NameInv'
    <3>1. UNCHANGED <<rec, latest, queue, work>>
      BY <2>2 DEF ApiCrash
    <3>2. \A q \in Request : req'[q] = req[q] \/ req'[q].pc = "done"
      BY <2>2 DEF ApiCrash, New, TypeInv, TypeOK
    <3>3. \A q \in Request : req[q].pc = "done" => req'[q].pc = "done"
      BY <3>2
    <3>4. \A r \in Request : Unnamed(r)' => Unnamed(r)
      BY <3>1, <3>2 DEF Unnamed, Stale
    <3>5. LockInv'
      BY <3>2 DEF NameInv, LockInv, LockedSteps
    <3>6. OwnTaskOnly'
      BY <3>1, <3>3, <3>4 DEF NameInv, OwnTaskOnly, Busy, Run, TaskOf
    <3>7. LastTask'
      BY <3>1, <3>4 DEF NameInv, LastTask, Busy, Run
    <3>8. UnnamedRecord'
      BY <3>1, <3>2 DEF NameInv, UnnamedRecord, Busy, Run, Reading, ResumeSteps
    <3>9. StaleCompletion' /\ NamedWhenSent'
      BY <3>1, <3>2 DEF NameInv, StaleCompletion, NamedWhenSent, Stale
    <3>10. SeenIsStored' /\ RunningNamesTask'
      BY <3>1 DEF NameInv, SeenIsStored, RunningNamesTask, Run
    <3> QED BY <3>5, <3>6, <3>7, <3>8, <3>9, <3>10 DEF NameInv
  <2>3. ASSUME NEW w \in Worker, WorkerCrash(w) PROVE NameInv'
    BY <2>3, WorkerLeaves DEF WorkerCrash, Busy
  <2>4. ASSUME NEW w \in Worker, Unavailable(w) PROVE NameInv'
    <3>1. /\ Busy(w) /\ UNCHANGED <<rec, queue, req>> /\ work[w].pc \in {"begin", "init"}
          /\ WAdvance(w, "load", "error")
          /\ UNCHANGED latest \/ SetLatest(Run(w), "agent")
      BY <2>4 DEF Unavailable, Update, Busy, SetLatest
    <3>2. ~(Unnamed(Run(w)) /\ latest[Run(w)] = "empty") /\ ~Over(work[w])
      BY <1>7, <3>1 DEF Over
    <3>3. CASE UNCHANGED latest
      BY <1>8, <3>1, <3>2, <3>3
    <3>4. CASE SetLatest(Run(w), "agent")
      BY <3>1, <3>2, <3>4, WorkerGoesOn
    <3> QED BY <3>1, <3>3, <3>4
  <2>5. ASSUME NEW w \in Worker, StreamFails(w) PROVE NameInv'
    <3>1. /\ Busy(w) /\ UNCHANGED <<rec, latest, queue, req>>
          /\ work[w].pc \in {"stream", "snapshot"} /\ WAdvance(w, "save", "error")
      BY <2>5 DEF StreamFails, Busy
    <3>2. ~Over(work[w])
      BY <3>1 DEF Over
    <3> QED BY <1>8, <3>1, <3>2
  <2>6. ASSUME NEW w \in Worker, StoreFails(w) PROVE NameInv'
    <3>1. /\ Busy(w) /\ UNCHANGED <<rec, latest, queue, req>>
          /\ WAdvance(w, "load", "error") \/ WAdvance(w, "save", "error")
      BY <2>6 DEF StoreFails, Update, Busy
    <3>2. "transient" \notin Faults
      BY <2>6 DEF StoreFails, CopiesStayNamed
    <3> QED BY <1>8, <3>1, <3>2 DEF Terminal
  <2>7. ASSUME NEW w \in Worker, ShutDown(w) PROVE NameInv'
    <3>1. Busy(w) /\ UNCHANGED <<rec, latest, queue, req>>
      BY <2>7 DEF ShutDown, Busy
    <3>2. CASE EndTask(w)
      BY <3>1, <3>2, WorkerLeaves DEF EndTask
    <3>3. CASE WAdvance(w, "load", "interrupted")
      BY <1>8, <3>1, <3>3 DEF Terminal
    <3> QED BY <2>7, <3>2, <3>3 DEF ShutDown, Update
  <2> QED BY <1>10, <2>1, <2>2, <2>3, <2>4, <2>5, <2>6, <2>7 DEF Fault
<1> QED BY <1>1, <1>4, <1>6, <1>9, <1>10 DEF Next

\* With one API process, without cancellation, and unless the store refuses an
\* outcome whose task is then retried, a running record names its task.
THEOREM RunningRunsAreNamed == ASSUME CopiesStayNamed PROVE Spec => []RunningNamesTask
<1>1. TypeInv /\ TaskInv /\ NameInv /\ [Next]_vars => NameInv'
  BY StepNameInv
<1>2. NameInv => RunningNamesTask
  BY DEF NameInv
<1> QED BY InitTypeInv, StepTypeInv, InitTaskInv, StepTaskInv, InitNameInv, <1>1, <1>2, PTL
        DEF Spec
=============================================================================
