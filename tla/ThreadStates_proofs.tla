------------------------- MODULE ThreadStates_proofs -------------------------
(***************************************************************************)
(* Proofs about ThreadStates, for every number of requests, runs and       *)
(* processes, every limit, and connections that may break or not.          *)
(*                                                                         *)
(* The transactions that save a state, and those that insert the thread,   *)
(* keep the lock of the thread's row from their first statement on         *)
(* (LockInv), so what such a transaction has read of the history is still  *)
(* the history when it commits (HeadInv).  What a run's snapshot shows     *)
(* rests on that: a state is never committed twice, the parent of the      *)
(* first state of a run is the state the run began with, and the states of *)
(* a run keep their order in the history (HistoryInv, ReadInv).            *)
(***************************************************************************)
EXTENDS ThreadStates, SequenceTheorems, TLAPS

-----------------------------------------------------------------------------
(* Typing.                                                                 *)

States == [id : Checkpoint, parent : Checkpoint \cup {Nothing}, run : Actor \cup {Nothing},
           messages : Seq(Message)]
Rows == [state : States, metadata : SUBSET Actor]
Statuses == {"none", "running", "success", "error"}

PC == Locked \cup {"new", "ensure", "start", "metadata", "delete", "save", "getHistory",
                   "snapshot", "outcome", "done"}
ActorState ==
    [pc : PC, kind : {"none", "create", "update", "rename", "delete", "run"},
     process : Process \cup {Nothing}, thread : Rows \cup {Absent}, state : States \cup {Absent},
     states : Seq(States), phase : {"initial", "final"}, prior : Seq(Message),
     outcome : {"success", "error"}]

RowOK == row \in Rows \cup {Absent}
HistoryOK == history \in Seq(States)
RunsOK == runs \in [Actor -> Statuses]
SnapshotsOK == snapshots = [r \in Actor |-> snapshots[r]]
LockOK == lock \in [Table -> Actor \cup {Nothing}]
RepoOK == repo \in [Process -> Actor \cup {Nothing}]
ActorOK == actor \in [Actor -> ActorState]

\* Which steps belong to which request.
Inserting == {"insertHistory", "commitEnsure"}
Saving == {"lockHistory", "writeHistory", "commitSave"}
Deleting == {"delete", "deleteHistory", "deleteThread", "commitDelete"}
Fits(pc, kind, thread, state) ==
    /\ pc \in {"ensure", "insertThread"} \cup Inserting => kind \in {"create", "update", "run"}
    /\ pc \in {"save"} \cup Saving => kind \in {"update", "run"}
    /\ pc = "save" => thread # Absent
    /\ pc \in Saving => state # Absent
    /\ pc \in {"metadata", "writeMetadata"} => kind \in {"rename", "run"}
    /\ pc = "writeMetadata" => thread # Absent
    /\ pc \in {"start", "getHistory", "snapshot", "outcome"} => kind = "run"
    /\ pc \in Deleting => kind = "delete"
KindFits(a) ==
    /\ IF actor[a].pc = "new"
       THEN actor[a] = New
       ELSE actor[a].process \in Process /\ actor[a].kind # "none"
    /\ Fits(actor[a].pc, actor[a].kind, actor[a].thread, actor[a].state)
KindsFit == \A a \in Actor : KindFits(a)

TypeInv ==
    /\ RowOK /\ HistoryOK /\ RunsOK /\ SnapshotsOK /\ LockOK /\ RepoOK /\ ActorOK
    /\ KindsFit
-----------------------------------------------------------------------------
(* Who holds which lock.                                                   *)

\* Only one request of a process is inside `async with self._lock'.
RepoHeld == \A a \in Actor : actor[a].pc \in Locked => repo[actor[a].process] = a

SavingLocks ==
    \A a \in Actor :
        /\ actor[a].pc \in Saving => lock["thread"] = a
        /\ actor[a].pc = "commitSave" => lock["history"] = a

LocksAreSaving ==
    \A a \in Actor :
        /\ lock["thread"] = a =>
              actor[a].pc \in Inserting \cup Saving \cup {"commitDelete"}
        /\ lock["history"] = a =>
              actor[a].pc \in {"commitEnsure", "writeHistory", "commitSave", "deleteThread",
                               "commitDelete"}

\* Whoever inserts the thread finds it absent until the end.
InsertsOnce ==
    \A a \in Actor : actor[a].pc \in Inserting /\ lock["thread"] = a => row = Absent

LockInv == RepoHeld /\ SavingLocks /\ LocksAreSaving /\ InsertsOnce

\* In one process, what was read of the metadata is all there is.
OneProcess ==
    \E p \in Process : \A a \in Actor :
        actor[a].kind \in {"rename", "run"} => actor[a].process = p
MetadataIsRead ==
    OneProcess => \A a \in Actor :
        actor[a].pc = "writeMetadata" =>
            row = Absent \/ row.metadata \subseteq actor[a].thread.metadata
-----------------------------------------------------------------------------
(* A thread that nobody deletes: its row and its history.                  *)

HeadOK ==
    /\ row = Absent <=> history = None
    /\ row # Absent => row.state = history[1]

InsertsBoth ==
    \A a \in Actor :
        /\ actor[a].pc \in Inserting => row # Absent \/ lock["thread"] = a
        /\ actor[a].pc = "commitEnsure" => (lock["thread"] = a <=> lock["history"] = a)

HistoryIsRead ==
    \A a \in Actor :
        actor[a].pc \in {"writeHistory", "commitSave"} =>
            actor[a].states = <<actor[a].state>> \o history

HeadInv == HeadOK /\ InsertsBoth /\ HistoryIsRead
-----------------------------------------------------------------------------
(* A thread that nobody deletes: the states of its runs.                   *)

Wrote(id) == \E i \in DOMAIN history : history[i].id = id

\* A checkpoint is in the history once.
IdsDiffer ==
    \A i, j \in DOMAIN history : history[i].id = history[j].id => i = j

\* The state a run saves in a phase.
RunState(s, r, phase) ==
    /\ s.id = <<r, phase>> /\ s.run = r
    /\ s.parent # Nothing
    /\ s.messages = actor[r].prior \o IF phase = "initial" THEN <<<<r, "user">>>>
                                      ELSE <<<<r, "user">>, <<r, "answer">>>>

\* Whose state it is, and that its author is past saving it.
StateFits(s) ==
    \/ \E r \in Actor, phase \in {"initial", "final"} :
          /\ IsRun(r) /\ actor[r].phase = "final" /\ RunState(s, r, phase)
          /\ phase = "final" =>
                actor[r].pc \in {"metadata", "writeMetadata", "getHistory", "snapshot",
                                 "outcome", "done"}
    \/ \E a \in Actor :
          actor[a].kind = "update" /\ actor[a].pc = "done"
          /\ s.run = Nothing /\ s.id = <<a, "update">>
    \/ \E a \in Actor \cup {Nothing} : s = EmptyState(a)
StatesFit == \A i \in DOMAIN history : StateFits(history[i])

\* Before its final state a run has saved its initial state.
InitialIsSaved ==
    \A r \in Actor :
        IsRun(r) /\ actor[r].phase = "final" =>
            \E i \in DOMAIN history :
                /\ history[i].id = <<r, "initial">>
                /\ \A j \in DOMAIN history : history[j].id = <<r, "final">> => j < i

\* The parent of the first state of run r is what the run began with.
Begins(r, parent) ==
    /\ \A i \in DOMAIN history :
          history[i].id = parent =>
              history[i].run # r /\ history[i].messages = actor[r].prior
    /\ Wrote(parent) \/ (parent = <<r, "empty">> /\ actor[r].prior = <<>>)
ParentsFit ==
    \A r \in Actor : \A i \in DOMAIN history :
        history[i].id = <<r, "initial">> => Begins(r, history[i].parent)

HistoryInv == IdsDiffer /\ StatesFit /\ InitialIsSaved /\ ParentsFit

\* What an actor that is about to save, or is saving, has in hand.
InHand(a) ==
    /\ actor[a].pc = "save" /\ IsRun(a) /\ actor[a].phase = "initial" =>
          Begins(a, actor[a].thread.state.id)
    /\ actor[a].pc \in Saving =>
          IF IsRun(a)
          THEN /\ RunState(actor[a].state, a, actor[a].phase)
               /\ actor[a].phase = "initial" => Begins(a, actor[a].state.parent)
          ELSE actor[a].state.run = Nothing /\ actor[a].state.id = <<a, "update">>
InHands == \A a \in Actor : InHand(a)

\* A run that has not failed when it projects its states has saved both.
FinalIsSaved ==
    \A r \in Actor :
        IsRun(r) /\ actor[r].outcome = "success"
            /\ actor[r].pc \in {"metadata", "writeMetadata", "getHistory"}
        => Wrote(<<r, "final">>)

ReadInv == InHands /\ FinalIsSaved

\* What the snapshot of run r may show.
Shows(r, messages) ==
    /\ messages \in {<<>>, <<<<r, "user">>>>, <<<<r, "user">>, <<r, "answer">>>>}
    /\ actor[r].outcome = "success" => messages = <<<<r, "user">>, <<r, "answer">>>>

SnapshotInv ==
    \A r \in Actor :
        /\ actor[r].pc = "snapshot" /\ Len(history) <= Limit =>
              Shows(r, Project(actor[r].states, r))
        /\ snapshots[r].saved /\ Len(history) <= Limit => Shows(r, snapshots[r].messages)
        /\ snapshots[r].saved => actor[r].pc \in {"outcome", "done"}
        /\ runs[r] = "success" => actor[r].pc = "done" /\ actor[r].outcome = "success"

IInv ==
    /\ TypeInv
    /\ LockInv
    /\ MetadataIsRead
    /\ ~Deleted => HeadInv /\ HistoryInv /\ ReadInv /\ SnapshotInv
-----------------------------------------------------------------------------
(* What the helpers do, at one actor, lock or state.                       *)

LEMMA NothingIsNobody == \A a \in Actor : a # Nothing
BY ConstantsAssumption

LEMMA Prepend ==
    ASSUME NEW S, NEW s \in S, NEW h \in Seq(S)
    PROVE  /\ <<s>> \o h \in Seq(S)
           /\ <<s>> \o h # <<>>
           /\ Len(<<s>> \o h) = Len(h) + 1
           /\ (<<s>> \o h)[1] = s
           /\ \A i \in 1..Len(h) : (<<s>> \o h)[i + 1] = h[i]
           /\ Head(<<s>> \o h) = s /\ Tail(<<s>> \o h) = h
<1> DEFINE g == <<s>> \o h
<1>0. <<s>> \in Seq(S) /\ Len(<<s>>) = 1 /\ <<s>>[1] = s /\ Len(h) \in Nat
  OBVIOUS
<1>1. /\ g \in Seq(S) /\ Len(g) = 1 + Len(h)
      /\ \A i \in 1..(1 + Len(h)) : g[i] = IF i <= 1 THEN <<s>>[i] ELSE h[i - 1]
  BY <1>0, ConcatProperties
<1> HIDE DEF g
<1>2. g[1] = s /\ \A i \in 1..Len(h) : g[i + 1] = h[i]
  BY <1>0, <1>1
<1>3. g # <<>>
  BY <1>0, <1>1
<1>4. Head(g) = s
  BY <1>1, <1>2, <1>3
<1>5. Tail(g) \in Seq(S) /\ Len(Tail(g)) = Len(h) /\ \A i \in 1..Len(h) : Tail(g)[i] = h[i]
  BY <1>0, <1>1, <1>2, <1>3, HeadTailProperties
<1>6. Tail(g) = h
  BY <1>5, SeqEqual
<1> QED BY <1>1, <1>2, <1>3, <1>4, <1>6 DEF g

LEMMA RowIsThere == \A s, m : Row(s, m) # Absent /\ Row(s, m).state = s /\ Row(s, m).metadata = m
<1> SUFFICES ASSUME NEW s, NEW m PROVE Row(s, m) # Absent
  BY DEF Row
<1>1. DOMAIN Row(s, m) = {"state", "metadata"} /\ DOMAIN Absent = {"absent"}
  BY DEF Row, Absent
<1> QED BY <1>1

LEMMA StatesAreThere == Absent \notin States /\ Absent \notin Rows
<1>1. DOMAIN Absent = {"absent"}
  BY DEF Absent
<1>2. \A s \in States : DOMAIN s = {"id", "parent", "run", "messages"}
  BY DEF States
<1>3. \A r \in Rows : DOMAIN r = {"state", "metadata"}
  BY DEF Rows
<1> QED BY <1>1, <1>2, <1>3

LEMMA StateTyped ==
    ASSUME NEW id \in Checkpoint, NEW parent \in Checkpoint \cup {Nothing},
           NEW r \in Actor \cup {Nothing}, NEW messages \in Seq(Message)
    PROVE  State(id, parent, r, messages) \in States
BY DEF State, States

LEMMA RowTyped ==
    ASSUME NEW s \in States, NEW m \in SUBSET Actor
    PROVE  Row(s, m) \in Rows
BY DEF Row, Rows

LEMMA EmptyTyped == \A a \in Actor \cup {Nothing} : EmptyState(a) \in States
<1> SUFFICES ASSUME NEW a \in Actor \cup {Nothing} PROVE EmptyState(a) \in States
  OBVIOUS
<1>1. <<a, "empty">> \in Checkpoint /\ <<>> \in Seq(Message)
  BY DEF Checkpoint
<1> QED BY <1>1, StateTyped DEF EmptyState

LEMMA MessagesTyped ==
    ASSUME NEW a \in Actor
    PROVE  /\ <<<<a, "user">>>> \in Seq(Message)
           /\ <<<<a, "user">>, <<a, "answer">>>> \in Seq(Message)
           /\ <<<<a, "edit">>>> \in Seq(Message)
BY DEF Message

LEMMA NewStatesTyped ==
    ASSUME ActorOK, NEW a \in Actor, actor[a].thread # Absent, NEW s \in NewStates(a)
    PROVE  s \in States
<1> DEFINE previous == actor[a].thread.state
<1>1. /\ previous \in States /\ actor[a].prior \in Seq(Message)
      /\ actor[a].phase \in {"initial", "final"}
  BY DEF ActorOK, ActorState, Rows
<1>2. previous.id \in Checkpoint /\ previous.messages \in Seq(Message)
  BY <1>1 DEF States
<1>3. <<a, actor[a].phase>> \in Checkpoint /\ <<a, "update">> \in Checkpoint
  BY <1>1 DEF Checkpoint
<1>4. CASE IsRun(a)
  <2>1. PICK new \in {<<<<a, "user">>>>, <<<<a, "user">>, <<a, "answer">>>>} :
           s = State(<<a, actor[a].phase>>, previous.id, a, actor[a].prior \o new)
    BY <1>4 DEF NewStates
  <2>2. actor[a].prior \o new \in Seq(Message)
    BY <1>1, MessagesTyped, ConcatProperties
  <2> QED BY <1>2, <1>3, <2>1, <2>2, StateTyped
<1>5. CASE ~IsRun(a)
  <2>1. PICK messages \in {previous.messages, <<<<a, "edit">>>>} :
           s = State(<<a, "update">>, previous.id, Nothing, messages)
    BY <1>5 DEF NewStates
  <2> QED BY <1>2, <1>3, <2>1, MessagesTyped, StateTyped
<1> QED BY <1>4, <1>5

\* Actor a goes on at pc; the other arguments are what it has in hand then.
Acts(a, pc, thread, state, states, phase, prior, outcome) ==
    /\ ActorOK'
    /\ \A b \in Actor : b # a => actor'[b] = actor[b]
    /\ actor'[a].kind = actor[a].kind /\ actor'[a].process = actor[a].process
    /\ actor'[a].pc = pc
    /\ actor'[a].thread = thread /\ actor'[a].state = state /\ actor'[a].states = states
    /\ actor'[a].phase = phase /\ actor'[a].prior = prior /\ actor'[a].outcome = outcome

LEMMA BecomeActs ==
    ASSUME ActorOK, NEW a \in Actor, NEW s \in ActorState, Become(a, s),
           s.kind = actor[a].kind, s.process = actor[a].process
    PROVE  Acts(a, s.pc, s.thread, s.state, s.states, s.phase, s.prior, s.outcome)
<1>1. actor' = [actor EXCEPT ![a] = s]
  BY DEF Become
<1> HIDE DEF ActorState
<1>2. ActorOK'
  BY <1>1 DEF ActorOK
<1>3. actor'[a] = s /\ \A b \in Actor : b # a => actor'[b] = actor[b]
  BY <1>1 DEF ActorOK
<1> QED BY <1>2, <1>3 DEF Acts

LEMMA ItsState ==
    ASSUME ActorOK, NEW a \in Actor
    PROVE  actor[a] \in ActorState
BY DEF ActorOK

LEMMA GotoActs ==
    ASSUME ActorOK, NEW a \in Actor, NEW pc \in PC, Goto(a, pc)
    PROVE  Acts(a, pc, actor[a].thread, actor[a].state, actor[a].states, actor[a].phase,
                actor[a].prior, actor[a].outcome)
<1> DEFINE old == actor[a]
           s == [old EXCEPT !.pc = pc]
<1>1. old \in ActorState
  BY ItsState
<1>2. Become(a, s)
  BY DEF Goto, Become
<1>3. /\ s \in ActorState
      /\ s.kind = old.kind /\ s.process = old.process /\ s.pc = pc /\ s.thread = old.thread
      /\ s.state = old.state /\ s.states = old.states /\ s.phase = old.phase
      /\ s.prior = old.prior /\ s.outcome = old.outcome
  <2> HIDE DEF old
  <2> QED BY <1>1 DEF ActorState
<1> HIDE DEF s
<1> QED BY <1>2, <1>3, BecomeActs

LEMMA EnsuredActs ==
    ASSUME ActorOK, NEW a \in Actor, NEW thread \in Rows, Ensured(a, thread)
    PROVE  Acts(a, IF actor[a].kind = "create" THEN "done" ELSE "save", thread, actor[a].state,
                actor[a].states, actor[a].phase,
                IF actor[a].phase = "initial" THEN thread.state.messages ELSE actor[a].prior,
                actor[a].outcome)
<1> DEFINE old == actor[a]
           pc == IF old.kind = "create" THEN "done" ELSE "save"
           prior == IF old.phase = "initial" THEN thread.state.messages ELSE old.prior
           s == [old EXCEPT !.thread = thread, !.prior = prior, !.pc = pc]
<1>0. old \in ActorState
  BY ItsState
<1>1. prior \in Seq(Message) /\ pc \in PC
  <2> HIDE DEF old
  <2> QED BY <1>0 DEF ActorState, Rows, States, PC
<1>2. Become(a, s)
  BY DEF Ensured
<1>3. /\ s \in ActorState
      /\ s.kind = old.kind /\ s.process = old.process /\ s.pc = pc /\ s.thread = thread
      /\ s.state = old.state /\ s.states = old.states /\ s.phase = old.phase
      /\ s.prior = prior /\ s.outcome = old.outcome
  <2> HIDE DEF old, pc, prior
  <2> QED BY <1>0, <1>1 DEF ActorState
<1> HIDE DEF s
<1>4. Acts(a, pc, thread, old.state, old.states, old.phase, prior, old.outcome)
  BY <1>2, <1>3, BecomeActs
<1> QED BY <1>4

LEMMA StatesActs ==
    ASSUME ActorOK, NEW a \in Actor, NEW pc \in PC, NEW states \in Seq(States),
           Become(a, [actor[a] EXCEPT !.pc = pc, !.states = states])
    PROVE  Acts(a, pc, actor[a].thread, actor[a].state, states, actor[a].phase,
                actor[a].prior, actor[a].outcome)
<1> DEFINE old == actor[a]
           s == [old EXCEPT !.pc = pc, !.states = states]
<1>1. old \in ActorState
  BY ItsState
<1>2. Become(a, s)
  OBVIOUS
<1>3. /\ s \in ActorState
      /\ s.kind = old.kind /\ s.process = old.process /\ s.pc = pc
      /\ s.thread = old.thread /\ s.state = old.state /\ s.states = states
      /\ s.phase = old.phase /\ s.prior = old.prior /\ s.outcome = old.outcome
  <2> HIDE DEF old
  <2> QED BY <1>1 DEF ActorState
<1> HIDE DEF s
<1> QED BY <1>2, <1>3, BecomeActs

LEMMA StateActs ==
    ASSUME ActorOK, NEW a \in Actor, NEW pc \in PC, NEW st \in States,
           Become(a, [actor[a] EXCEPT !.state = st, !.pc = pc])
    PROVE  Acts(a, pc, actor[a].thread, st, actor[a].states, actor[a].phase,
                actor[a].prior, actor[a].outcome)
<1> DEFINE old == actor[a]
           s == [old EXCEPT !.state = st, !.pc = pc]
<1>1. old \in ActorState
  BY ItsState
<1>2. Become(a, s)
  OBVIOUS
<1>3. /\ s \in ActorState
      /\ s.kind = old.kind /\ s.process = old.process /\ s.pc = pc
      /\ s.thread = old.thread /\ s.state = st /\ s.states = old.states
      /\ s.phase = old.phase /\ s.prior = old.prior /\ s.outcome = old.outcome
  <2> HIDE DEF old
  <2> QED BY <1>1 DEF ActorState
<1> HIDE DEF s
<1> QED BY <1>2, <1>3, BecomeActs

LEMMA SavedActs ==
    ASSUME ActorOK, NEW a \in Actor, NEW pc \in PC,
           Become(a, [actor[a] EXCEPT !.states = None, !.phase = "final", !.pc = pc])
    PROVE  Acts(a, pc, actor[a].thread, actor[a].state, None, "final",
                actor[a].prior, actor[a].outcome)
<1> DEFINE old == actor[a]
           s == [old EXCEPT !.states = None, !.phase = "final", !.pc = pc]
<1>1. old \in ActorState
  BY ItsState
<1>2. Become(a, s)
  OBVIOUS
<1>3. /\ s \in ActorState
      /\ s.kind = old.kind /\ s.process = old.process /\ s.pc = pc
      /\ s.thread = old.thread /\ s.state = old.state /\ s.states = None
      /\ s.phase = "final" /\ s.prior = old.prior /\ s.outcome = old.outcome
  <2> None \in Seq(States)
    BY DEF None
  <2> HIDE DEF old
  <2> QED BY <1>1 DEF ActorState
<1> HIDE DEF s
<1> QED BY <1>2, <1>3, BecomeActs

LEMMA ThreadActs ==
    ASSUME ActorOK, NEW a \in Actor, NEW pc \in PC, NEW thread \in Rows,
           Become(a, [actor[a] EXCEPT !.thread = thread, !.pc = pc])
    PROVE  Acts(a, pc, thread, actor[a].state, actor[a].states, actor[a].phase,
                actor[a].prior, actor[a].outcome)
<1> DEFINE old == actor[a]
           s == [old EXCEPT !.thread = thread, !.pc = pc]
<1>1. old \in ActorState
  BY ItsState
<1>2. Become(a, s)
  OBVIOUS
<1>3. /\ s \in ActorState
      /\ s.kind = old.kind /\ s.process = old.process /\ s.pc = pc
      /\ s.thread = thread /\ s.state = old.state /\ s.states = old.states
      /\ s.phase = old.phase /\ s.prior = old.prior /\ s.outcome = old.outcome
  <2> HIDE DEF old
  <2> QED BY <1>1 DEF ActorState
<1> HIDE DEF s
<1> QED BY <1>2, <1>3, BecomeActs

LEMMA FailActs ==
    ASSUME ActorOK, NEW a \in Actor, NEW pc \in PC,
           Become(a, [actor[a] EXCEPT !.states = None, !.outcome = "error", !.pc = pc])
    PROVE  Acts(a, pc, actor[a].thread, actor[a].state, None, actor[a].phase,
                actor[a].prior, "error")
<1> DEFINE old == actor[a]
           s == [old EXCEPT !.states = None, !.outcome = "error", !.pc = pc]
<1>1. old \in ActorState
  BY ItsState
<1>2. Become(a, s)
  OBVIOUS
<1>3. /\ s \in ActorState
      /\ s.kind = old.kind /\ s.process = old.process /\ s.pc = pc
      /\ s.thread = old.thread /\ s.state = old.state /\ s.states = None
      /\ s.phase = old.phase /\ s.prior = old.prior /\ s.outcome = "error"
  <2> None \in Seq(States)
    BY DEF None
  <2> HIDE DEF old
  <2> QED BY <1>1 DEF ActorState
<1> HIDE DEF s
<1> QED BY <1>2, <1>3, BecomeActs

\* What actor a does to the locks and to what the others have in hand: nothing.
Frame(a) ==
    \A b \in Actor : b # a =>
        /\ actor'[b] = actor[b]
        /\ \A t \in Table : lock'[t] = b <=> lock[t] = b
        /\ \A p \in Process : repo[p] = b => repo'[p] = b

LEMMA TakeLock ==
    ASSUME LockOK, NEW a \in Actor, NEW t \in Table, Free(a, t), Take(a, t)
    PROVE  /\ LockOK' /\ lock'[t] = a
           /\ \A u \in Table : u # t => lock'[u] = lock[u]
           /\ \A b \in Actor : b # a => \A u \in Table : lock'[u] = b <=> lock[u] = b
BY NothingIsNobody DEF LockOK, Free, Take

LEMMA ReleaseLocks ==
    ASSUME LockOK, NEW a \in Actor, Release(a)
    PROVE  /\ LockOK'
           /\ \A t \in Table : lock'[t] # a
           /\ \A b \in Actor : b # a => \A t \in Table : lock'[t] = b <=> lock[t] = b
BY NothingIsNobody DEF LockOK, Release

LEMMA TakesRepo ==
    ASSUME RepoOK, NEW a \in Actor, actor[a].process \in Process, RepoFree(a), TakeRepo(a)
    PROVE  /\ RepoOK' /\ repo'[actor[a].process] = a
           /\ \A b \in Actor : b # a => \A p \in Process : repo[p] = b => repo'[p] = b
BY NothingIsNobody DEF RepoOK, RepoFree, TakeRepo

LEMMA LeavesRepo ==
    ASSUME RepoOK, NEW a \in Actor, LeaveRepo(a)
    PROVE  /\ RepoOK'
           /\ \A b \in Actor : b # a => \A p \in Process : repo[p] = b => repo'[p] = b
BY DEF RepoOK, LeaveRepo

\* Typing is left to show where a step writes.
LEMMA ActsTyped ==
    ASSUME TypeInv, NEW a \in Actor, NEW pc, NEW thread, NEW state, NEW states, NEW phase,
           NEW prior, NEW outcome, Acts(a, pc, thread, state, states, phase, prior, outcome),
           actor[a].pc # "new", pc # "new", Fits(pc, actor[a].kind, thread, state),
           RowOK', HistoryOK', RunsOK', SnapshotsOK', LockOK', RepoOK'
    PROVE  TypeInv'
<1>1. KindFits(a)'
  BY DEF Acts, TypeInv, KindsFit, KindFits
<1>2. \A b \in Actor : b # a => KindFits(b)'
  BY DEF Acts, TypeInv, KindsFit, KindFits
<1> QED BY <1>1, <1>2 DEF TypeInv, KindsFit, Acts

LEMMA OwnType ==
    ASSUME TypeInv, NEW a \in Actor, actor[a].pc # "new"
    PROVE  /\ actor[a].process \in Process /\ actor[a].kind # "none"
           /\ Fits(actor[a].pc, actor[a].kind, actor[a].thread, actor[a].state)
           /\ actor[a].states \in Seq(States) /\ actor[a].prior \in Seq(Message)
           /\ actor[a].thread \in Rows \cup {Absent} /\ actor[a].state \in States \cup {Absent}
           /\ actor[a].outcome \in {"success", "error"}
           /\ actor[a].phase \in {"initial", "final"}
BY DEF TypeInv, KindsFit, KindFits, ActorOK, ActorState

LEMMA UnchangedTyped ==
    TypeInv =>
        /\ UNCHANGED row => RowOK'
        /\ UNCHANGED history => HistoryOK'
        /\ UNCHANGED runs => RunsOK'
        /\ UNCHANGED snapshots => SnapshotsOK'
        /\ UNCHANGED lock => LockOK'
        /\ UNCHANGED repo => RepoOK'
BY DEF TypeInv, RowOK, HistoryOK, RunsOK, SnapshotsOK, LockOK, RepoOK
-----------------------------------------------------------------------------
(* What the actions do.                                                    *)

Arrives(a, kind, p) ==
    /\ ActorOK' /\ actor[a].pc = "new"
    /\ kind = "run" => \A r \in Actor : IsRun(r) => actor[r].pc = "done"
    /\ actor'[a].kind = kind /\ actor'[a].process = p
    /\ actor'[a].pc = CASE kind \in {"create", "update"} -> "ensure"
                        [] kind = "run" -> "start"
                        [] kind = "rename" -> "metadata"
                        [] kind = "delete" -> "delete"
    /\ actor'[a].phase = "initial" /\ actor'[a].outcome = "success"
    /\ UNCHANGED <<tables, lock, repo>>

LEMMA ArriveDoes ==
    ASSUME TypeInv, NEW a \in Actor, NEW kind \in Kinds, NEW p \in Process, Arrive(a, kind, p)
    PROVE  TypeInv' /\ Frame(a) /\ Arrives(a, kind, p)
<1> DEFINE pc == CASE kind \in {"create", "update"} -> "ensure"
                   [] kind = "run" -> "start"
                   [] kind = "rename" -> "metadata"
                   [] kind = "delete" -> "delete"
           u == [New EXCEPT !.kind = kind, !.process = p, !.pc = pc]
<1>1. kind \in {"create", "update", "rename", "delete", "run"}
  BY ConstantsAssumption
<1>2. pc \in {"ensure", "start", "metadata", "delete"}
  BY <1>1
<1>3. /\ kind \in {"create", "update"} <=> pc = "ensure"
      /\ kind = "run" <=> pc = "start"
      /\ kind = "rename" <=> pc = "metadata"
      /\ kind = "delete" <=> pc = "delete"
  BY <1>1
<1> HIDE DEF pc
<1>4. /\ u \in ActorState /\ u.kind = kind /\ u.process = p /\ u.pc = pc
      /\ u.phase = "initial" /\ u.outcome = "success"
  <2>1. None \in Seq(States) /\ <<>> \in Seq(Message) /\ pc \in PC
    BY <1>2 DEF None, PC
  <2> QED BY <1>1, <2>1 DEF New, ActorState
<1>5. actor' = [actor EXCEPT ![a] = u]
  BY DEF Arrive, Become, pc
<1> HIDE DEF u
<1>6. ActorOK' /\ actor'[a] = u /\ \A b \in Actor : b # a => actor'[b] = actor[b]
  BY <1>4, <1>5 DEF TypeInv, ActorOK
<1>7. UNCHANGED <<row, history, runs, snapshots, lock, repo>>
  BY DEF Arrive, tables
<1>8. KindFits(a)'
  BY <1>1, <1>2, <1>3, <1>4, <1>6 DEF KindFits, Fits, Inserting, Saving, Deleting
<1>9. \A b \in Actor : b # a => KindFits(b)'
  BY <1>6 DEF TypeInv, KindsFit, KindFits
<1>10. TypeInv'
  BY <1>6, <1>7, <1>8, <1>9, UnchangedTyped DEF TypeInv, KindsFit
<1>11. Frame(a)
  BY <1>6, <1>7 DEF Frame
<1>12. Arrives(a, kind, p)
  BY <1>4, <1>6 DEF Arrives, Arrive, pc
<1> QED BY <1>10, <1>11, <1>12

\* The step of a changes nothing but where a is, to pc.
Moves(a, pc) ==
    Acts(a, pc, actor[a].thread, actor[a].state, actor[a].states, actor[a].phase,
         actor[a].prior, actor[a].outcome)

LEMMA RunRowsDo ==
    ASSUME TypeInv, NEW a \in Actor
    PROVE  /\ StartRun(a) => /\ TypeInv' /\ Frame(a) /\ Moves(a, "ensure")
                             /\ runs'[a] = "running"
           /\ SaveOutcome(a) => /\ TypeInv' /\ Frame(a) /\ Moves(a, "done")
                                /\ runs'[a] = actor[a].outcome
           /\ StartRun(a) \/ SaveOutcome(a) =>
                 \A r \in Actor : r # a => runs'[r] = runs[r]
<1>1. ASSUME NEW status \in Statuses, NEW pc \in {"ensure", "done"}, SaveRun(a, status),
             Goto(a, pc), actor[a].pc # "new", pc = "ensure" => actor[a].kind = "run"
      PROVE  /\ TypeInv' /\ Frame(a) /\ Moves(a, pc) /\ runs'[a] = status
             /\ \A r \in Actor : r # a => runs'[r] = runs[r]
  <2>1. Moves(a, pc)
    BY <1>1, GotoActs DEF TypeInv, Moves, PC
  <2>2. RunsOK' /\ runs'[a] = status /\ \A r \in Actor : r # a => runs'[r] = runs[r]
    BY <1>1 DEF TypeInv, RunsOK, SaveRun
  <2>3. UNCHANGED <<row, history, snapshots, lock, repo>>
    BY <1>1 DEF SaveRun
  <2>4. Fits(pc, actor[a].kind, actor[a].thread, actor[a].state)
    BY <1>1 DEF Fits, Inserting, Saving, Deleting
  <2>5. TypeInv'
    BY <1>1, <2>1, <2>2, <2>3, <2>4, UnchangedTyped, ActsTyped DEF Moves
  <2> QED BY <2>1, <2>2, <2>3, <2>5 DEF Frame, Moves, Acts
<1>2. CASE StartRun(a)
  <2>1. actor[a].kind = "run" /\ "running" \in Statuses /\ ~SaveOutcome(a)
    BY <1>2, OwnType DEF StartRun, SaveOutcome, Fits, Statuses
  <2> QED BY <1>1, <1>2, <2>1 DEF StartRun
<1>3. CASE SaveOutcome(a)
  <2>1. actor[a].outcome \in Statuses /\ ~StartRun(a)
    BY <1>3, OwnType DEF SaveOutcome, StartRun, Statuses
  <2> QED BY <1>1, <1>3, <2>1 DEF SaveOutcome
<1> QED BY <1>2, <1>3

LEMMA EnsureDoes ==
    ASSUME TypeInv, NEW a \in Actor, EnsureThread(a)
    PROVE  /\ TypeInv' /\ Frame(a) /\ UNCHANGED <<tables, lock>>
           /\ \/ /\ row # Absent
                 /\ Acts(a, IF actor[a].kind = "create" THEN "done" ELSE "save", row,
                         actor[a].state, actor[a].states, actor[a].phase,
                         IF actor[a].phase = "initial" THEN row.state.messages
                         ELSE actor[a].prior,
                         actor[a].outcome)
              \/ Moves(a, "insertThread") /\ repo'[actor[a].process] = a
<1>1. UNCHANGED <<row, history, runs, snapshots, lock>> /\ actor[a].pc = "ensure"
  BY DEF EnsureThread, tables
<1>2. actor[a].process \in Process /\ actor[a].kind \in {"create", "update", "run"}
  BY <1>1, OwnType DEF Fits
<1>3. CASE row # Absent
  <2> DEFINE pc == IF actor[a].kind = "create" THEN "done" ELSE "save"
             prior == IF actor[a].phase = "initial" THEN row.state.messages ELSE actor[a].prior
  <2>1. Acts(a, pc, row, actor[a].state, actor[a].states, actor[a].phase, prior,
             actor[a].outcome)
    BY <1>3, EnsuredActs DEF EnsureThread, TypeInv, RowOK
  <2>2. Fits(pc, actor[a].kind, row, actor[a].state) /\ pc # "new"
    BY <1>2, <1>3 DEF Fits, Inserting, Saving, Deleting
  <2> HIDE DEF pc, prior
  <2>3. UNCHANGED repo
    BY <1>3 DEF EnsureThread
  <2>4. TypeInv'
    BY <1>1, <2>1, <2>2, <2>3, UnchangedTyped, ActsTyped
  <2>5. Frame(a)
    BY <1>1, <2>1, <2>3 DEF Frame, Acts
  <2> QED BY <1>1, <1>3, <2>1, <2>4, <2>5 DEF tables, pc, prior
<1>4. CASE row = Absent
  <2>1. Moves(a, "insertThread")
    BY <1>4, GotoActs DEF EnsureThread, TypeInv, Moves, PC, Locked
  <2>2. /\ RepoOK' /\ repo'[actor[a].process] = a
        /\ \A b \in Actor : b # a => \A p \in Process : repo[p] = b => repo'[p] = b
    BY <1>2, <1>4, TakesRepo DEF EnsureThread, TypeInv
  <2>3. Fits("insertThread", actor[a].kind, actor[a].thread, actor[a].state)
    BY <1>2 DEF Fits, Inserting, Saving, Deleting
  <2>4. TypeInv'
    BY <1>1, <2>1, <2>2, <2>3, UnchangedTyped, ActsTyped DEF Moves
  <2>5. Frame(a)
    BY <1>1, <2>1, <2>2 DEF Frame, Moves, Acts
  <2> QED BY <1>1, <2>1, <2>2, <2>4, <2>5 DEF tables
<1> QED BY <1>3, <1>4

\* A step that goes to pc and takes the locks of some tables.
LocksTo(a, pc) ==
    /\ TypeInv' /\ Frame(a) /\ Moves(a, pc) /\ UNCHANGED <<tables, repo>>

LEMMA LockingDoes ==
    ASSUME TypeInv, NEW a \in Actor, NEW pc \in PC, NEW t \in Table,
           Goto(a, pc), \/ Free(a, t) /\ Take(a, t)
                        \/ UNCHANGED lock,
           actor[a].pc # "new", Fits(pc, actor[a].kind, actor[a].thread, actor[a].state),
           pc # "new", UNCHANGED <<tables, repo>>
    PROVE  LocksTo(a, pc) /\ \A u \in Table : u # t => lock'[u] = lock[u]
<1>1. Moves(a, pc)
  BY GotoActs DEF TypeInv, Moves
<1>2. LockOK' /\ (\A u \in Table : u # t => lock'[u] = lock[u])
      /\ \A b \in Actor : b # a => \A u \in Table : lock'[u] = b <=> lock[u] = b
  BY TakeLock, UnchangedTyped DEF TypeInv
<1>3. UNCHANGED <<row, history, runs, snapshots, repo>>
  BY DEF tables
<1>4. TypeInv'
  BY <1>1, <1>2, <1>3, UnchangedTyped, ActsTyped DEF Moves
<1> QED BY <1>1, <1>2, <1>3, <1>4 DEF LocksTo, Frame, Moves, Acts

LEMMA InsertsDo ==
    ASSUME TypeInv, NEW a \in Actor
    PROVE  /\ InsertThread(a) =>
                 /\ LocksTo(a, "insertHistory")
                 /\ IF row = Absent THEN lock'["thread"] = a ELSE lock' = lock
                 /\ lock'["history"] = lock["history"]
           /\ InsertHistory(a) =>
                 /\ LocksTo(a, "commitEnsure")
                 /\ IF history = None THEN lock'["history"] = a ELSE lock' = lock
                 /\ lock'["thread"] = lock["thread"]
<1>0. {"thread", "history"} \subseteq Table /\ {"insertHistory", "commitEnsure"} \subseteq PC
  BY DEF Table, PC, Locked, Transaction
<1>1. ASSUME InsertThread(a)
      PROVE  /\ LocksTo(a, "insertHistory")
             /\ IF row = Absent THEN lock'["thread"] = a ELSE lock' = lock
             /\ lock'["history"] = lock["history"]
  <2>1. Fits("insertHistory", actor[a].kind, actor[a].thread, actor[a].state)
    BY <1>1, OwnType DEF InsertThread, Fits, Inserting, Saving, Deleting
  <2>2. LocksTo(a, "insertHistory") /\ lock'["history"] = lock["history"]
    BY <1>0, <1>1, <2>1, LockingDoes DEF InsertThread
  <2>3. IF row = Absent THEN lock'["thread"] = a ELSE lock' = lock
    BY <1>0, <1>1, TakeLock DEF InsertThread, TypeInv
  <2> QED BY <2>2, <2>3
<1>2. ASSUME InsertHistory(a)
      PROVE  /\ LocksTo(a, "commitEnsure")
             /\ IF history = None THEN lock'["history"] = a ELSE lock' = lock
             /\ lock'["thread"] = lock["thread"]
  <2>1. Fits("commitEnsure", actor[a].kind, actor[a].thread, actor[a].state)
    BY <1>2, OwnType DEF InsertHistory, Fits, Inserting, Saving, Deleting
  <2>2. LocksTo(a, "commitEnsure") /\ lock'["thread"] = lock["thread"]
    BY <1>0, <1>2, <2>1, LockingDoes DEF InsertHistory
  <2>3. IF history = None THEN lock'["history"] = a ELSE lock' = lock
    BY <1>0, <1>2, TakeLock DEF InsertHistory, TypeInv
  <2> QED BY <2>2, <2>3
<1> QED BY <1>1, <1>2

\* a ends a transaction.
Releases(a) == \A t \in Table : lock'[t] # a

LEMMA CommitEnsureDoes ==
    ASSUME TypeInv, NEW a \in Actor, CommitEnsure(a)
    PROVE  /\ TypeInv' /\ Frame(a) /\ Releases(a) /\ UNCHANGED <<runs, snapshots>>
           /\ row' = IF lock["thread"] = a THEN Row(EmptyState(a), {}) ELSE row
           /\ history' = IF lock["history"] = a THEN <<EmptyState(a)>> ELSE history
           /\ Acts(a, IF actor[a].kind = "create" THEN "done" ELSE "save",
                   Row(EmptyState(a), {}), actor[a].state, actor[a].states, actor[a].phase,
                   IF actor[a].phase = "initial" THEN <<>> ELSE actor[a].prior,
                   actor[a].outcome)
<1> DEFINE pc == IF actor[a].kind = "create" THEN "done" ELSE "save"
           prior == IF actor[a].phase = "initial" THEN <<>> ELSE actor[a].prior
           empty == Row(EmptyState(a), {})
<1>1. empty \in Rows /\ empty # Absent /\ empty.state = EmptyState(a)
      /\ EmptyState(a) \in States /\ empty.state.messages = <<>>
  BY EmptyTyped, RowTyped, RowIsThere DEF EmptyState, State
<1>2. Acts(a, pc, empty, actor[a].state, actor[a].states, actor[a].phase, prior,
           actor[a].outcome)
  BY <1>1, EnsuredActs DEF CommitEnsure, TypeInv
<1>3. actor[a].kind \in {"create", "update", "run"} /\ actor[a].pc = "commitEnsure"
  BY OwnType DEF CommitEnsure, Fits, Inserting
<1>4. pc # "new" /\ Fits(pc, actor[a].kind, empty, actor[a].state)
  BY <1>1, <1>3 DEF Fits, Inserting, Saving, Deleting
<1> HIDE DEF empty, pc, prior
<1>5. /\ row' = IF lock["thread"] = a THEN empty ELSE row
      /\ history' = IF lock["history"] = a THEN <<EmptyState(a)>> ELSE history
      /\ UNCHANGED <<runs, snapshots>>
  BY DEF CommitEnsure, Owns, empty
<1>6. RowOK' /\ HistoryOK'
  BY <1>1, <1>5 DEF TypeInv, RowOK, HistoryOK
<1>7. LockOK' /\ Releases(a)
      /\ \A b \in Actor : b # a => \A t \in Table : lock'[t] = b <=> lock[t] = b
  BY ReleaseLocks DEF CommitEnsure, TypeInv, Releases
<1>8. RepoOK' /\ \A b \in Actor : b # a => \A p \in Process : repo[p] = b => repo'[p] = b
  BY LeavesRepo DEF CommitEnsure, TypeInv
<1>9. TypeInv'
  BY <1>2, <1>3, <1>4, <1>5, <1>6, <1>7, <1>8, UnchangedTyped, ActsTyped
<1>10. Frame(a)
  BY <1>2, <1>7, <1>8 DEF Frame, Acts
<1> QED BY <1>2, <1>5, <1>7, <1>9, <1>10 DEF empty, pc, prior

LEMMA UpsertDoes ==
    ASSUME TypeInv, NEW a \in Actor, UpsertThread(a)
    PROVE  /\ TypeInv' /\ Frame(a) /\ UNCHANGED tables
           /\ lock'["thread"] = a /\ lock'["history"] = lock["history"]
           /\ repo'[actor[a].process] = a
           /\ \E s \in NewStates(a) \cap States :
                 Acts(a, "lockHistory", actor[a].thread, s, actor[a].states, actor[a].phase,
                      actor[a].prior, actor[a].outcome)
<1>0. "thread" \in Table /\ "history" \in Table /\ "lockHistory" \in PC
  BY DEF Table, PC, Locked, Transaction
<1>1. /\ actor[a].pc = "save" /\ actor[a].thread # Absent /\ actor[a].process \in Process
      /\ actor[a].kind \in {"update", "run"}
      /\ UNCHANGED <<row, history, runs, snapshots>>
  BY OwnType DEF UpsertThread, Fits, tables
<1>2. PICK s \in NewStates(a) : Become(a, [actor[a] EXCEPT !.state = s, !.pc = "lockHistory"])
  BY DEF UpsertThread
<1>3. s \in States /\ s # Absent
  BY <1>1, NewStatesTyped, StatesAreThere DEF TypeInv
<1>4. Acts(a, "lockHistory", actor[a].thread, s, actor[a].states, actor[a].phase,
           actor[a].prior, actor[a].outcome)
  BY <1>0, <1>2, <1>3, StateActs DEF TypeInv
<1>5. /\ LockOK' /\ lock'["thread"] = a /\ lock'["history"] = lock["history"]
      /\ \A b \in Actor : b # a => \A t \in Table : lock'[t] = b <=> lock[t] = b
  BY <1>0, TakeLock DEF UpsertThread, TypeInv
<1>6. /\ RepoOK' /\ repo'[actor[a].process] = a
      /\ \A b \in Actor : b # a => \A p \in Process : repo[p] = b => repo'[p] = b
  BY <1>1, TakesRepo DEF UpsertThread, TypeInv
<1>7. Fits("lockHistory", actor[a].kind, actor[a].thread, s)
  BY <1>1, <1>3 DEF Fits, Inserting, Saving, Deleting
<1>8. TypeInv'
  BY <1>1, <1>4, <1>5, <1>6, <1>7, UnchangedTyped, ActsTyped
<1>9. Frame(a)
  BY <1>4, <1>5, <1>6 DEF Frame, Acts
<1> QED BY <1>1, <1>3, <1>4, <1>5, <1>6, <1>8, <1>9 DEF tables

LEMMA LockHistoryDoes ==
    ASSUME TypeInv, NEW a \in Actor, LockHistory(a)
    PROVE  /\ TypeInv' /\ Frame(a) /\ UNCHANGED <<tables, repo>>
           /\ lock'["thread"] = lock["thread"]
           /\ Acts(a, "writeHistory", actor[a].thread, actor[a].state,
                   <<actor[a].state>> \o history, actor[a].phase, actor[a].prior,
                   actor[a].outcome)
<1> DEFINE states == <<actor[a].state>> \o history
<1>0. "thread" \in Table /\ "history" \in Table /\ "writeHistory" \in PC
  BY DEF Table, PC, Locked, Transaction
<1>1. /\ actor[a].pc = "lockHistory" /\ actor[a].kind \in {"update", "run"}
      /\ actor[a].state # Absent /\ actor[a].state \in States
      /\ UNCHANGED <<row, history, runs, snapshots, repo>>
  BY OwnType DEF LockHistory, Fits, Saving, tables
<1>2. states \in Seq(States) /\ (IF history = None THEN <<>> ELSE history) = history
  BY <1>1, Prepend DEF TypeInv, HistoryOK, None
<1>3. Become(a, [actor[a] EXCEPT !.pc = "writeHistory", !.states = states])
  BY <1>2 DEF LockHistory
<1> HIDE DEF states
<1>4. Acts(a, "writeHistory", actor[a].thread, actor[a].state, states, actor[a].phase,
           actor[a].prior, actor[a].outcome)
  BY <1>0, <1>2, <1>3, StatesActs DEF TypeInv
<1>5. /\ LockOK' /\ lock'["thread"] = lock["thread"]
      /\ \A b \in Actor : b # a => \A t \in Table : lock'[t] = b <=> lock[t] = b
  BY <1>0, TakeLock, UnchangedTyped DEF LockHistory, TypeInv
<1>6. Fits("writeHistory", actor[a].kind, actor[a].thread, actor[a].state)
  BY <1>1 DEF Fits, Inserting, Saving, Deleting
<1>7. TypeInv'
  BY <1>1, <1>4, <1>5, <1>6, UnchangedTyped, ActsTyped
<1>8. Frame(a)
  BY <1>1, <1>4, <1>5 DEF Frame, Acts
<1> QED BY <1>1, <1>4, <1>5, <1>7, <1>8 DEF tables, states

LEMMA WriteHistoryDoes ==
    ASSUME TypeInv, NEW a \in Actor, WriteHistory(a)
    PROVE  /\ LocksTo(a, "commitSave")
           /\ lock'["thread"] = lock["thread"] /\ lock'["history"] = a
<1>0. {"thread", "history"} \subseteq Table /\ "commitSave" \in PC
  BY DEF Table, PC, Locked, Transaction
<1>1. Fits("commitSave", actor[a].kind, actor[a].thread, actor[a].state)
  BY OwnType DEF WriteHistory, Fits, Inserting, Saving, Deleting
<1>2. LocksTo(a, "commitSave") /\ lock'["thread"] = lock["thread"]
  BY <1>0, <1>1, LockingDoes DEF WriteHistory
<1>3. lock'["history"] = a
  BY <1>0, TakeLock DEF WriteHistory, TypeInv
<1> QED BY <1>2, <1>3

AfterSave(a) ==
    IF ~IsRun(a) THEN "done" ELSE IF actor[a].phase = "initial" THEN "ensure" ELSE "metadata"

LEMMA CommitSaveDoes ==
    ASSUME TypeInv, NEW a \in Actor, CommitSave(a)
    PROVE  /\ TypeInv' /\ Frame(a) /\ Releases(a) /\ UNCHANGED <<runs, snapshots>>
           /\ row' = Row(actor[a].state, IF row = Absent THEN {} ELSE row.metadata)
           /\ history' = actor[a].states
           /\ Acts(a, AfterSave(a), actor[a].thread, actor[a].state, None, "final",
                   actor[a].prior, actor[a].outcome)
<1>1. /\ actor[a].pc = "commitSave" /\ actor[a].kind \in {"update", "run"}
      /\ actor[a].state \in States /\ actor[a].states \in Seq(States)
      /\ actor[a].phase \in {"initial", "final"}
      /\ UNCHANGED <<runs, snapshots>>
  BY OwnType DEF CommitSave, Fits, Saving
<1> DEFINE metadata == IF row = Absent THEN {} ELSE row.metadata
<1>2. metadata \in SUBSET Actor
  BY DEF TypeInv, RowOK, Rows
<1>3. /\ row' = Row(actor[a].state, metadata) /\ history' = actor[a].states
      /\ Become(a, [actor[a] EXCEPT !.states = None, !.phase = "final", !.pc = AfterSave(a)])
  BY <1>1 DEF CommitSave, AfterSave
<1> HIDE DEF metadata
<1>4. RowOK' /\ HistoryOK'
  BY <1>1, <1>2, <1>3, RowTyped DEF RowOK, HistoryOK
<1>5. AfterSave(a) \in PC /\ AfterSave(a) # "new"
  BY DEF AfterSave, PC
<1>6. Acts(a, AfterSave(a), actor[a].thread, actor[a].state, None, "final", actor[a].prior,
           actor[a].outcome)
  BY <1>3, <1>5, SavedActs DEF TypeInv
<1>7. LockOK' /\ Releases(a)
      /\ \A b \in Actor : b # a => \A t \in Table : lock'[t] = b <=> lock[t] = b
  BY ReleaseLocks DEF CommitSave, TypeInv, Releases
<1>8. RepoOK' /\ \A b \in Actor : b # a => \A p \in Process : repo[p] = b => repo'[p] = b
  BY LeavesRepo DEF CommitSave, TypeInv
<1>9. Fits(AfterSave(a), actor[a].kind, actor[a].thread, actor[a].state)
  BY <1>1 DEF AfterSave, IsRun, Fits, Inserting, Saving, Deleting
<1>10. TypeInv'
  BY <1>1, <1>4, <1>5, <1>6, <1>7, <1>8, <1>9, UnchangedTyped, ActsTyped
<1>11. Frame(a)
  BY <1>6, <1>7, <1>8 DEF Frame, Acts
<1> QED BY <1>1, <1>3, <1>6, <1>7, <1>10, <1>11 DEF metadata

LEMMA MetadataDoes ==
    ASSUME TypeInv, NEW a \in Actor
    PROVE  /\ ReadMetadata(a) =>
                 /\ TypeInv' /\ Frame(a) /\ UNCHANGED <<tables, lock>>
                 /\ \/ Moves(a, AfterMetadata(a))
                    \/ /\ repo'[actor[a].process] = a
                       /\ row # Absent
                       /\ Acts(a, "writeMetadata", row, actor[a].state, actor[a].states,
                               actor[a].phase, actor[a].prior, actor[a].outcome)
           /\ WriteMetadata(a) =>
                 /\ TypeInv' /\ Frame(a) /\ Moves(a, AfterMetadata(a))
                 /\ UNCHANGED <<history, runs, snapshots, lock>>
                 /\ lock["thread"] \in {a, Nothing}
                 /\ row' = IF row = Absent THEN Absent
                           ELSE Row(row.state, actor[a].thread.metadata \cup {a})
<1> DEFINE pc == AfterMetadata(a)
<1>0. /\ pc \in PC /\ pc \in {"getHistory", "done"} /\ {"writeMetadata"} \subseteq PC
      /\ actor[a].kind \in {"rename", "run"} =>
            Fits(pc, actor[a].kind, actor[a].thread, actor[a].state)
  BY DEF AfterMetadata, IsRun, PC, Locked, Fits, Inserting, Saving, Deleting
<1> HIDE DEF pc
<1>1. ASSUME ReadMetadata(a)
      PROVE  /\ TypeInv' /\ Frame(a) /\ UNCHANGED <<tables, lock>>
             /\ \/ Moves(a, pc)
                \/ /\ repo'[actor[a].process] = a
                   /\ row # Absent
                   /\ Acts(a, "writeMetadata", row, actor[a].state, actor[a].states,
                           actor[a].phase, actor[a].prior, actor[a].outcome)
  <2>1. /\ UNCHANGED <<row, history, runs, snapshots, lock>> /\ actor[a].pc = "metadata"
        /\ actor[a].process \in Process /\ actor[a].kind \in {"rename", "run"}
    BY <1>1, OwnType DEF ReadMetadata, tables, Fits
  <2>2. CASE row = Absent
    <3>1. Moves(a, pc) /\ UNCHANGED repo
      BY <1>0, <1>1, <2>2, GotoActs DEF ReadMetadata, TypeInv, Moves, pc
    <3>2. TypeInv'
      BY <1>0, <2>1, <3>1, UnchangedTyped, ActsTyped DEF Moves
    <3> QED BY <2>1, <3>1, <3>2 DEF Frame, Moves, Acts, tables
  <2>3. CASE row # Absent
    <3>1. Acts(a, "writeMetadata", row, actor[a].state, actor[a].states, actor[a].phase,
               actor[a].prior, actor[a].outcome)
      BY <1>0, <1>1, <2>3, ThreadActs DEF ReadMetadata, TypeInv, RowOK
    <3>2. /\ RepoOK' /\ repo'[actor[a].process] = a
          /\ \A b \in Actor : b # a => \A p \in Process : repo[p] = b => repo'[p] = b
      BY <1>1, <2>1, <2>3, TakesRepo DEF ReadMetadata, TypeInv
    <3>3. Fits("writeMetadata", actor[a].kind, row, actor[a].state)
      BY <2>1, <2>3 DEF Fits, Inserting, Saving, Deleting
    <3>4. TypeInv'
      BY <2>1, <3>1, <3>2, <3>3, UnchangedTyped, ActsTyped
    <3>5. Frame(a)
      BY <2>1, <3>1, <3>2 DEF Frame, Acts
    <3> QED BY <2>1, <2>3, <3>1, <3>2, <3>4, <3>5 DEF tables
  <2> QED BY <2>2, <2>3
<1>2. ASSUME WriteMetadata(a)
      PROVE  /\ TypeInv' /\ Frame(a) /\ Moves(a, pc)
             /\ UNCHANGED <<history, runs, snapshots, lock>>
             /\ lock["thread"] \in {a, Nothing}
             /\ row' = IF row = Absent THEN Absent
                       ELSE Row(row.state, actor[a].thread.metadata \cup {a})
  <2>1. /\ actor[a].kind \in {"rename", "run"} /\ actor[a].thread \in Rows
        /\ actor[a].pc = "writeMetadata"
        /\ UNCHANGED <<history, runs, snapshots, lock>> /\ lock["thread"] \in {a, Nothing}
        /\ row' = IF row = Absent THEN Absent
                  ELSE Row(row.state, actor[a].thread.metadata \cup {a})
    BY <1>2, OwnType DEF WriteMetadata, Fits, Free
  <2>2. RowOK'
    <3>1. row # Absent => row.state \in States
      BY DEF TypeInv, RowOK, Rows
    <3>2. actor[a].thread.metadata \cup {a} \in SUBSET Actor
      BY <2>1 DEF Rows
    <3> QED BY <2>1, <3>1, <3>2, RowTyped DEF RowOK
  <2>3. Moves(a, pc)
    BY <1>0, <1>2, GotoActs DEF WriteMetadata, TypeInv, Moves, pc
  <2>4. RepoOK' /\ \A b \in Actor : b # a => \A p \in Process : repo[p] = b => repo'[p] = b
    BY <1>2, LeavesRepo DEF WriteMetadata, TypeInv
  <2>5. TypeInv'
    BY <1>0, <2>1, <2>2, <2>3, <2>4, UnchangedTyped, ActsTyped DEF Moves
  <2> QED BY <2>1, <2>3, <2>4, <2>5 DEF Frame, Moves, Acts
<1> QED BY <1>1, <1>2 DEF pc

\* The history as far as get_history gives it.
Given(h) == IF Len(h) <= Limit THEN h ELSE SubSeq(h, 1, Limit)

LEMMA ProjectionDoes ==
    ASSUME TypeInv, NEW a \in Actor
    PROVE  /\ GetHistory(a) =>
                 /\ TypeInv' /\ Frame(a) /\ UNCHANGED <<tables, lock, repo>>
                 /\ Acts(a, "snapshot", actor[a].thread, actor[a].state, Given(history),
                         actor[a].phase, actor[a].prior, actor[a].outcome)
           /\ SaveSnapshot(a) \/ SnapshotFails(a) =>
                 /\ TypeInv' /\ Frame(a) /\ UNCHANGED <<row, history, runs, lock, repo>>
                 /\ Acts(a, "outcome", actor[a].thread, actor[a].state, None,
                         actor[a].phase, actor[a].prior, actor[a].outcome)
                 /\ \/ snapshots' = snapshots
                    \/ snapshots' = [snapshots EXCEPT
                                       ![a] = Snapshot(Project(actor[a].states, a))]
<1>0. "snapshot" \in PC /\ "outcome" \in PC /\ None \in Seq(States)
  BY DEF PC, None
<1>1. ASSUME GetHistory(a)
      PROVE  /\ TypeInv' /\ Frame(a) /\ UNCHANGED <<tables, lock, repo>>
             /\ Acts(a, "snapshot", actor[a].thread, actor[a].state, Given(history),
                     actor[a].phase, actor[a].prior, actor[a].outcome)
  <2>1. actor[a].pc = "getHistory" /\ actor[a].kind = "run"
        /\ UNCHANGED <<row, history, runs, snapshots, lock, repo>>
    BY <1>1, OwnType DEF GetHistory, Fits, tables
  <2>2. Given(history) \in Seq(States)
    <3>1. history \in Seq(States) /\ Limit \in Nat
      BY ConstantsAssumption DEF TypeInv, HistoryOK
    <3>2. CASE Len(history) <= Limit
      BY <3>1, <3>2 DEF Given
    <3>3. CASE ~(Len(history) <= Limit)
      <4>1. \A i \in 1..Limit : history[i] \in States
        BY <3>1, <3>3
      <4> QED BY <3>1, <3>3, <4>1, SubSeqProperties DEF Given
    <3> QED BY <3>2, <3>3
  <2>3. Become(a, [actor[a] EXCEPT !.pc = "snapshot", !.states = Given(history)])
    BY <1>1 DEF GetHistory, Given
  <2>4. Acts(a, "snapshot", actor[a].thread, actor[a].state, Given(history),
             actor[a].phase, actor[a].prior, actor[a].outcome)
    BY <1>0, <2>2, <2>3, StatesActs DEF TypeInv
  <2>5. Fits("snapshot", actor[a].kind, actor[a].thread, actor[a].state)
    BY <2>1 DEF Fits, Inserting, Saving, Deleting
  <2>6. TypeInv'
    BY <2>1, <2>4, <2>5, UnchangedTyped, ActsTyped
  <2>7. Frame(a)
    BY <2>1, <2>4 DEF Frame, Acts
  <2> QED BY <2>1, <2>4, <2>6, <2>7 DEF tables
<1>2. ASSUME SaveSnapshot(a) \/ SnapshotFails(a)
      PROVE  /\ TypeInv' /\ Frame(a) /\ UNCHANGED <<row, history, runs, lock, repo>>
             /\ Acts(a, "outcome", actor[a].thread, actor[a].state, None,
                     actor[a].phase, actor[a].prior, actor[a].outcome)
             /\ \/ snapshots' = snapshots
                \/ snapshots' = [snapshots EXCEPT
                                   ![a] = Snapshot(Project(actor[a].states, a))]
  <2>1. /\ actor[a].pc = "snapshot" /\ actor[a].kind = "run"
        /\ UNCHANGED <<row, history, runs, lock, repo>>
        /\ Become(a, [actor[a] EXCEPT !.pc = "outcome", !.states = None])
        /\ \/ snapshots' = snapshots
           \/ snapshots' = [snapshots EXCEPT ![a] = Snapshot(Project(actor[a].states, a))]
    BY <1>2, OwnType DEF SaveSnapshot, SnapshotFails, Fits, tables
  <2>2. SnapshotsOK'
    BY <2>1 DEF TypeInv, SnapshotsOK
  <2>3. Acts(a, "outcome", actor[a].thread, actor[a].state, None,
             actor[a].phase, actor[a].prior, actor[a].outcome)
    BY <1>0, <2>1, StatesActs DEF TypeInv
  <2>4. Fits("outcome", actor[a].kind, actor[a].thread, actor[a].state)
    BY <2>1 DEF Fits, Inserting, Saving, Deleting
  <2>5. TypeInv'
    BY <2>1, <2>2, <2>3, <2>4, UnchangedTyped, ActsTyped
  <2>6. Frame(a)
    BY <2>1, <2>3 DEF Frame, Acts
  <2> QED BY <2>1, <2>3, <2>5, <2>6
<1> QED BY <1>1, <1>2

LEMMA DeletesDo ==
    ASSUME TypeInv, NEW a \in Actor
    PROVE  /\ DeleteRuns(a) => /\ TypeInv' /\ Frame(a) /\ Moves(a, "deleteHistory")
                               /\ UNCHANGED tables
                               /\ \A t \in {"thread", "history"} : lock'[t] = lock[t]
                               /\ repo'[actor[a].process] = a
           /\ DeleteHistory(a) => /\ LocksTo(a, "deleteThread")
                                  /\ lock'["thread"] = lock["thread"]
           /\ DeleteThread(a) => /\ LocksTo(a, "commitDelete")
                                 /\ lock'["history"] = lock["history"]
<1>0. /\ {"thread", "history", "runs"} \subseteq Table
      /\ {"deleteHistory", "deleteThread", "commitDelete"} \subseteq PC
  BY DEF Table, PC, Locked, Transaction
<1>1. ASSUME actor[a].pc \in Deleting
      PROVE  /\ actor[a].process \in Process
             /\ \A pc \in {"deleteHistory", "deleteThread", "commitDelete"} :
                   Fits(pc, actor[a].kind, actor[a].thread, actor[a].state)
  BY <1>1, OwnType DEF Fits, Inserting, Saving, Deleting
<1>2. ASSUME DeleteRuns(a)
      PROVE  /\ TypeInv' /\ Frame(a) /\ Moves(a, "deleteHistory")
             /\ UNCHANGED tables
             /\ \A t \in {"thread", "history"} : lock'[t] = lock[t]
             /\ repo'[actor[a].process] = a
  <2>1. UNCHANGED <<row, history, runs, snapshots>> /\ actor[a].pc = "delete"
    BY <1>2 DEF DeleteRuns, tables
  <2>2. Moves(a, "deleteHistory")
    BY <1>0, <1>2, GotoActs DEF DeleteRuns, TypeInv, Moves
  <2>3. /\ LockOK' /\ \A t \in {"thread", "history"} : lock'[t] = lock[t]
        /\ \A b \in Actor : b # a => \A t \in Table : lock'[t] = b <=> lock[t] = b
    BY <1>0, <1>2, TakeLock DEF DeleteRuns, TypeInv
  <2>4. /\ RepoOK' /\ repo'[actor[a].process] = a
        /\ \A b \in Actor : b # a => \A p \in Process : repo[p] = b => repo'[p] = b
    BY <1>1, <1>2, <2>1, TakesRepo DEF DeleteRuns, TypeInv, Deleting
  <2>5. Fits("deleteHistory", actor[a].kind, actor[a].thread, actor[a].state)
    BY <1>1, <2>1 DEF Deleting
  <2>6. TypeInv'
    BY <2>1, <2>2, <2>3, <2>4, <2>5, UnchangedTyped, ActsTyped DEF Moves
  <2> QED BY <2>1, <2>2, <2>3, <2>4, <2>6 DEF Frame, Moves, Acts, tables
<1>3. ASSUME DeleteHistory(a)
      PROVE  LocksTo(a, "deleteThread") /\ lock'["thread"] = lock["thread"]
  BY <1>0, <1>1, <1>3, LockingDoes DEF DeleteHistory, Deleting
<1>4. ASSUME DeleteThread(a)
      PROVE  LocksTo(a, "commitDelete") /\ lock'["history"] = lock["history"]
  BY <1>0, <1>1, <1>4, LockingDoes DEF DeleteThread, Deleting
<1> QED BY <1>2, <1>3, <1>4

LEMMA CommitDeleteDoes ==
    ASSUME TypeInv, NEW a \in Actor, CommitDelete(a)
    PROVE  /\ TypeInv' /\ Frame(a) /\ Releases(a) /\ Moves(a, "done")
           /\ actor[a].kind = "delete"
           /\ row' = IF lock["thread"] = a THEN Absent ELSE row
<1>1. /\ actor[a].pc = "commitDelete" /\ actor[a].kind = "delete"
      /\ row' = IF lock["thread"] = a THEN Absent ELSE row
      /\ history' = IF lock["history"] = a THEN None ELSE history
      /\ runs' = [r \in Actor |-> "none"] /\ snapshots' = [r \in Actor |-> NoSnapshot]
  BY OwnType DEF CommitDelete, Owns, Fits, Deleting
<1>2. RowOK' /\ HistoryOK' /\ RunsOK' /\ SnapshotsOK'
  BY <1>1 DEF TypeInv, RowOK, HistoryOK, RunsOK, SnapshotsOK, Statuses, None
<1>3. Moves(a, "done")
  BY GotoActs DEF CommitDelete, TypeInv, Moves, PC
<1>4. LockOK' /\ Releases(a)
      /\ \A b \in Actor : b # a => \A t \in Table : lock'[t] = b <=> lock[t] = b
  BY ReleaseLocks DEF CommitDelete, TypeInv, Releases
<1>5. RepoOK' /\ \A b \in Actor : b # a => \A p \in Process : repo[p] = b => repo'[p] = b
  BY LeavesRepo DEF CommitDelete, TypeInv
<1>6. Fits("done", actor[a].kind, actor[a].thread, actor[a].state)
  BY DEF Fits, Inserting, Saving, Deleting
<1>7. TypeInv'
  BY <1>1, <1>2, <1>3, <1>4, <1>5, <1>6, ActsTyped DEF Moves
<1> QED BY <1>1, <1>3, <1>4, <1>5, <1>7 DEF Frame, Moves, Acts

AfterFailure(a) == IF IsRun(a) /\ actor[a].outcome # "error" THEN "getHistory" ELSE "done"

Fails(a) ==
    /\ actor[a].pc \in Locked
    /\ Acts(a, AfterFailure(a), actor[a].thread, actor[a].state, None, actor[a].phase,
            actor[a].prior, "error")
    /\ Releases(a) /\ UNCHANGED tables

LEMMA FailDoes ==
    ASSUME TypeInv, NEW a \in Actor, DeadlockDetected(a) \/ ConnectionLost(a)
    PROVE  TypeInv' /\ Frame(a) /\ Fails(a)
<1>0. actor[a].pc \in Locked /\ actor[a].pc # "new" /\ Fail(a)
  BY DEF DeadlockDetected, ConnectionLost, WaitsFor, Locked, Transaction
<1>1. UNCHANGED <<row, history, runs, snapshots>>
  BY <1>0 DEF Fail, tables
<1>2. AfterFailure(a) \in PC /\ AfterFailure(a) # "new"
  BY DEF AfterFailure, PC
<1>3. Acts(a, AfterFailure(a), actor[a].thread, actor[a].state, None, actor[a].phase,
           actor[a].prior, "error")
  BY <1>0, <1>2, FailActs DEF Fail, AfterFailure, TypeInv
<1>4. LockOK' /\ Releases(a)
      /\ \A b \in Actor : b # a => \A t \in Table : lock'[t] = b <=> lock[t] = b
  BY <1>0, ReleaseLocks DEF Fail, TypeInv, Releases
<1>5. RepoOK' /\ \A b \in Actor : b # a => \A p \in Process : repo[p] = b => repo'[p] = b
  BY <1>0, LeavesRepo DEF Fail, TypeInv
<1>6. Fits(AfterFailure(a), actor[a].kind, actor[a].thread, actor[a].state)
  BY DEF AfterFailure, IsRun, Fits, Inserting, Saving, Deleting
<1>7. TypeInv'
  BY <1>0, <1>1, <1>2, <1>3, <1>4, <1>5, <1>6, UnchangedTyped, ActsTyped
<1>8. Frame(a)
  BY <1>3, <1>4, <1>5 DEF Frame, Acts
<1> QED BY <1>0, <1>1, <1>3, <1>4, <1>7, <1>8 DEF Fails, tables

LEMMA InitTypeInv == Init => TypeInv
<1> SUFFICES ASSUME Init PROVE TypeInv
  OBVIOUS
<1> DEFINE empty == EmptyState(Nothing)
<1>1. RowOK /\ HistoryOK
  <2>1. /\ empty \in States /\ Row(empty, {}) \in Rows
        /\ None \in Seq(States) /\ <<empty>> \in Seq(States)
    BY EmptyTyped, RowTyped DEF None
  <2>2. CASE row = Absent /\ history = None
    BY <2>1, <2>2 DEF RowOK, HistoryOK
  <2>3. CASE row = Row(empty, {}) /\ history = <<empty>>
    BY <2>1, <2>3 DEF RowOK, HistoryOK
  <2> QED BY <2>2, <2>3 DEF Init
<1>2. RunsOK /\ SnapshotsOK /\ LockOK /\ RepoOK
  BY DEF Init, RunsOK, SnapshotsOK, LockOK, RepoOK, Statuses
<1>3. New \in ActorState
  BY DEF New, ActorState, PC, None
<1>4. ActorOK /\ \A a \in Actor : actor[a] = New
  BY <1>3 DEF Init, ActorOK
<1>5. KindsFit
  BY <1>4 DEF New, KindsFit, KindFits, Fits, Inserting, Saving, Deleting
<1> QED BY <1>1, <1>2, <1>4, <1>5 DEF TypeInv

-----------------------------------------------------------------------------
(* The locks.                                                              *)

OwnLocks(a) ==
    /\ actor[a].pc \in Locked => repo[actor[a].process] = a
    /\ actor[a].pc \in Saving => lock["thread"] = a
    /\ actor[a].pc = "commitSave" => lock["history"] = a
    /\ lock["thread"] = a => actor[a].pc \in Inserting \cup Saving \cup {"commitDelete"}
    /\ lock["history"] = a =>
          actor[a].pc \in {"commitEnsure", "writeHistory", "commitSave", "deleteThread",
                           "commitDelete"}
    /\ actor[a].pc \in Inserting /\ lock["thread"] = a => row = Absent

LEMMA EachOwns == LockInv <=> \A a \in Actor : OwnLocks(a)
BY DEF LockInv, RepoHeld, SavingLocks, LocksAreSaving, InsertsOnce, OwnLocks

\* The row is inserted or removed only by the transaction that holds its lock.
LEMMA OthersOwn ==
    ASSUME TypeInv, LockInv, NEW a \in Actor, Frame(a),
           row = Absent /\ lock["thread"] # a => row' = Absent
    PROVE  \A b \in Actor : b # a => OwnLocks(b)'
<1> SUFFICES ASSUME NEW b \in Actor, b # a PROVE OwnLocks(b)'
  OBVIOUS
<1>1. /\ actor'[b] = actor[b]
      /\ lock'["thread"] = b <=> lock["thread"] = b
      /\ lock'["history"] = b <=> lock["history"] = b
      /\ \A p \in Process : repo[p] = b => repo'[p] = b
  BY DEF Frame, Table
<1>2. OwnLocks(b) /\ (actor[b].pc \in Locked => actor[b].process \in Process)
  BY EachOwns, OwnType DEF Locked, Transaction
<1>3. lock["thread"] = b => lock["thread"] # a
  OBVIOUS
<1> QED BY <1>1, <1>2, <1>3 DEF OwnLocks

\* What remains to be shown of a step of actor a.
Good(a) == TypeInv' /\ Frame(a) /\ OwnLocks(a)'

LEMMA GoodKeeps ==
    ASSUME TypeInv, LockInv, NEW a \in Actor, Good(a),
           row = Absent /\ lock["thread"] # a => row' = Absent
    PROVE  TypeInv' /\ LockInv'
<1>1. \A b \in Actor : OwnLocks(b)'
  BY OthersOwn DEF Good
<1>2. LockInv'
  BY <1>1 DEF OwnLocks, LockInv, RepoHeld, SavingLocks, LocksAreSaving, InsertsOnce
<1> QED BY <1>2 DEF Good

\* An actor that is not inside the lock of its repository holds no lock.
LEMMA Outside ==
    ASSUME LockInv, NEW a \in Actor, actor[a].pc \notin Locked
    PROVE  lock["thread"] # a /\ lock["history"] # a
BY EachOwns DEF OwnLocks, Locked, Transaction, Inserting, Saving

LEMMA Free2 ==
    ASSUME NEW a \in Actor, actor'[a].pc \notin Locked,
           lock'["thread"] # a, lock'["history"] # a
    PROVE  OwnLocks(a)'
BY DEF OwnLocks, Locked, Transaction, Inserting, Saving

LEMMA ArriveGood ==
    ASSUME TypeInv, LockInv, NEW a \in Actor, NEW kind \in Kinds, NEW p \in Process,
           Arrive(a, kind, p)
    PROVE  TypeInv' /\ LockInv'
<1>1. TypeInv' /\ Frame(a) /\ Arrives(a, kind, p)
  BY ArriveDoes
<1>2. kind \in {"create", "update", "rename", "delete", "run"}
  BY ConstantsAssumption
<1>3. lock["thread"] # a /\ lock["history"] # a
  BY <1>1, Outside DEF Arrives, Locked, Transaction
<1>4. OwnLocks(a)'
  BY <1>1, <1>2, <1>3, Free2 DEF Arrives, Locked, Transaction
<1> QED BY <1>1, <1>4, GoodKeeps DEF Good, Arrives, tables

LEMMA RunRowsGood ==
    ASSUME TypeInv, LockInv, NEW a \in Actor, StartRun(a) \/ SaveOutcome(a)
    PROVE  TypeInv' /\ LockInv'
<1>1. TypeInv' /\ Frame(a) /\ actor'[a].pc \in {"ensure", "done"}
  BY RunRowsDo DEF Moves, Acts
<1>2. actor[a].pc \in {"start", "outcome"} /\ UNCHANGED <<row, lock>>
  BY DEF StartRun, SaveOutcome, SaveRun
<1>3. lock["thread"] # a /\ lock["history"] # a
  BY <1>2, Outside DEF Locked, Transaction
<1>4. OwnLocks(a)'
  BY <1>1, <1>2, <1>3, Free2 DEF Locked, Transaction
<1> QED BY <1>1, <1>2, <1>4, GoodKeeps DEF Good

LEMMA EnsureGood ==
    ASSUME TypeInv, LockInv, NEW a \in Actor, EnsureThread(a)
    PROVE  TypeInv' /\ LockInv'
<1>1. /\ TypeInv' /\ Frame(a) /\ UNCHANGED <<row, lock>>
      /\ actor'[a].process = actor[a].process
      /\ \/ actor'[a].pc \in {"done", "save"}
         \/ actor'[a].pc = "insertThread" /\ repo'[actor[a].process] = a
  BY EnsureDoes DEF Moves, Acts, tables
<1>2. actor[a].pc = "ensure"
  BY DEF EnsureThread
<1>3. lock["thread"] # a /\ lock["history"] # a
  BY <1>2, Outside DEF Locked, Transaction
<1>4. OwnLocks(a)'
  BY <1>1, <1>3 DEF OwnLocks, Locked, Transaction, Inserting, Saving
<1> QED BY <1>1, <1>4, GoodKeeps DEF Good

LEMMA InsertsGood ==
    ASSUME TypeInv, LockInv, NEW a \in Actor, InsertThread(a) \/ InsertHistory(a)
    PROVE  TypeInv' /\ LockInv'
<1>1. /\ TypeInv' /\ Frame(a) /\ UNCHANGED <<row, repo>>
      /\ actor'[a].process = actor[a].process
      /\ actor'[a].pc \in {"insertHistory", "commitEnsure"}
      /\ actor[a].pc \in {"insertThread", "insertHistory"}
  BY InsertsDo DEF LocksTo, Moves, Acts, tables, InsertThread, InsertHistory
<1>2. OwnLocks(a)
  BY EachOwns
<1>3. repo[actor[a].process] = a
  BY <1>1, <1>2 DEF OwnLocks, Locked, Transaction
<1>4. CASE InsertThread(a)
  <2>1. /\ actor'[a].pc = "insertHistory" /\ actor[a].pc = "insertThread"
        /\ IF row = Absent THEN lock'["thread"] = a ELSE lock' = lock
        /\ lock'["history"] = lock["history"]
    BY <1>4, InsertsDo DEF LocksTo, Moves, Acts, InsertThread
  <2>2. lock["thread"] # a /\ lock["history"] # a
    BY <1>2, <2>1 DEF OwnLocks, Inserting, Saving
  <2>3. OwnLocks(a)'
    BY <1>1, <1>3, <2>1, <2>2 DEF OwnLocks, Inserting, Saving
  <2> QED BY <1>1, <2>3, GoodKeeps DEF Good
<1>5. CASE InsertHistory(a)
  <2>1. /\ actor'[a].pc = "commitEnsure" /\ actor[a].pc = "insertHistory"
        /\ lock'["thread"] = lock["thread"]
    BY <1>5, InsertsDo DEF LocksTo, Moves, Acts, InsertHistory
  <2>2. OwnLocks(a)'
    BY <1>1, <1>2, <1>3, <2>1 DEF OwnLocks, Inserting, Saving
  <2> QED BY <1>1, <2>2, GoodKeeps DEF Good
<1> QED BY <1>4, <1>5

LEMMA EndsGood ==
    ASSUME TypeInv, LockInv, NEW a \in Actor, TypeInv', Frame(a), Releases(a),
           actor'[a].pc \notin Locked, row = Absent /\ lock["thread"] # a => row' = Absent
    PROVE  TypeInv' /\ LockInv'
<1>1. lock'["thread"] # a /\ lock'["history"] # a
  BY DEF Releases, Table
<1>2. OwnLocks(a)'
  BY <1>1, Free2
<1> QED BY <1>2, GoodKeeps DEF Good

LEMMA CommitsGood ==
    ASSUME TypeInv, LockInv, NEW a \in Actor,
           \/ CommitEnsure(a)
           \/ CommitSave(a)
           \/ CommitDelete(a)
           \/ DeadlockDetected(a) \/ ConnectionLost(a)
    PROVE  TypeInv' /\ LockInv'
<1>1. CASE CommitEnsure(a)
  <2>1. /\ TypeInv' /\ Frame(a) /\ Releases(a) /\ actor'[a].pc \in {"done", "save"}
        /\ row' = IF lock["thread"] = a THEN Row(EmptyState(a), {}) ELSE row
    BY <1>1, CommitEnsureDoes DEF Acts
  <2> QED BY <2>1, EndsGood DEF Locked, Transaction
<1>2. CASE CommitSave(a)
  <2>1. /\ TypeInv' /\ Frame(a) /\ Releases(a)
        /\ actor'[a].pc \in {"done", "ensure", "metadata"}
    BY <1>2, CommitSaveDoes DEF Acts, AfterSave
  <2>2. lock["thread"] = a
    BY <1>2, EachOwns DEF OwnLocks, CommitSave, Saving
  <2> QED BY <2>1, <2>2, EndsGood DEF Locked, Transaction
<1>3. CASE CommitDelete(a)
  <2>1. /\ TypeInv' /\ Frame(a) /\ Releases(a) /\ actor'[a].pc = "done"
        /\ row' = IF lock["thread"] = a THEN Absent ELSE row
    BY <1>3, CommitDeleteDoes DEF Moves, Acts
  <2> QED BY <2>1, EndsGood DEF Locked, Transaction
<1>4. CASE DeadlockDetected(a) \/ ConnectionLost(a)
  <2>1. /\ TypeInv' /\ Frame(a) /\ Releases(a) /\ actor'[a].pc \in {"getHistory", "done"}
        /\ UNCHANGED row
    BY <1>4, FailDoes DEF Fails, Acts, AfterFailure, tables
  <2> QED BY <2>1, EndsGood DEF Locked, Transaction
<1> QED BY <1>1, <1>2, <1>3, <1>4

LEMMA SavesGood ==
    ASSUME TypeInv, LockInv, NEW a \in Actor,
           UpsertThread(a) \/ LockHistory(a) \/ WriteHistory(a)
    PROVE  TypeInv' /\ LockInv'
<1>0. OwnLocks(a)
  BY EachOwns
<1>1. CASE UpsertThread(a)
  <2>1. /\ TypeInv' /\ Frame(a) /\ UNCHANGED row
        /\ actor'[a].process = actor[a].process /\ repo'[actor[a].process] = a
        /\ lock'["thread"] = a /\ lock'["history"] = lock["history"]
        /\ actor'[a].pc = "lockHistory" /\ actor[a].pc = "save"
    BY <1>1, UpsertDoes DEF Acts, tables, UpsertThread
  <2>2. OwnLocks(a)'
    BY <1>0, <2>1 DEF OwnLocks, Inserting, Saving
  <2> QED BY <2>1, <2>2, GoodKeeps DEF Good
<1>2. CASE LockHistory(a)
  <2>1. /\ TypeInv' /\ Frame(a) /\ UNCHANGED <<row, repo>>
        /\ actor'[a].process = actor[a].process
        /\ lock'["thread"] = lock["thread"]
        /\ actor'[a].pc = "writeHistory" /\ actor[a].pc = "lockHistory"
    BY <1>2, LockHistoryDoes DEF Acts, tables, LockHistory
  <2>2. OwnLocks(a)'
    BY <1>0, <2>1 DEF OwnLocks, Inserting, Saving, Locked, Transaction
  <2> QED BY <2>1, <2>2, GoodKeeps DEF Good
<1>3. CASE WriteHistory(a)
  <2>1. /\ TypeInv' /\ Frame(a) /\ UNCHANGED <<row, repo>>
        /\ actor'[a].process = actor[a].process
        /\ lock'["thread"] = lock["thread"] /\ lock'["history"] = a
        /\ actor'[a].pc = "commitSave" /\ actor[a].pc = "writeHistory"
    BY <1>3, WriteHistoryDoes DEF LocksTo, Moves, Acts, tables, WriteHistory
  <2>2. OwnLocks(a)'
    BY <1>0, <2>1 DEF OwnLocks, Inserting, Saving, Locked, Transaction
  <2> QED BY <2>1, <2>2, GoodKeeps DEF Good
<1> QED BY <1>1, <1>2, <1>3

LEMMA MetadataGood ==
    ASSUME TypeInv, LockInv, NEW a \in Actor, ReadMetadata(a) \/ WriteMetadata(a)
    PROVE  TypeInv' /\ LockInv'
<1>0. OwnLocks(a)
  BY EachOwns
<1>1. CASE ReadMetadata(a)
  <2>1. /\ TypeInv' /\ Frame(a) /\ UNCHANGED <<row, lock>>
        /\ actor'[a].process = actor[a].process
        /\ \/ actor'[a].pc \in {"getHistory", "done"}
           \/ actor'[a].pc = "writeMetadata" /\ repo'[actor[a].process] = a
        /\ actor[a].pc = "metadata"
    BY <1>1, MetadataDoes DEF Moves, Acts, AfterMetadata, ReadMetadata, tables
  <2>2. OwnLocks(a)'
    BY <1>0, <2>1 DEF OwnLocks, Inserting, Saving, Locked, Transaction
  <2> QED BY <2>1, <2>2, GoodKeeps DEF Good
<1>2. CASE WriteMetadata(a)
  <2>1. /\ TypeInv' /\ Frame(a) /\ UNCHANGED lock
        /\ actor'[a].pc \in {"getHistory", "done"} /\ actor[a].pc = "writeMetadata"
        /\ row = Absent => row' = Absent
    BY <1>2, MetadataDoes DEF Moves, Acts, AfterMetadata, WriteMetadata
  <2>2. OwnLocks(a)'
    BY <1>0, <2>1 DEF OwnLocks, Inserting, Saving, Locked, Transaction
  <2> QED BY <2>1, <2>2, GoodKeeps DEF Good
<1> QED BY <1>1, <1>2

LEMMA ProjectionGood ==
    ASSUME TypeInv, LockInv, NEW a \in Actor,
           GetHistory(a) \/ SaveSnapshot(a) \/ SnapshotFails(a)
    PROVE  TypeInv' /\ LockInv'
<1>1. TypeInv' /\ Frame(a) /\ actor'[a].pc \in {"snapshot", "outcome"} /\ UNCHANGED <<row, lock>>
  BY ProjectionDoes DEF Acts, tables
<1>2. actor[a].pc \in {"getHistory", "snapshot"}
  BY DEF GetHistory, SaveSnapshot, SnapshotFails
<1>3. lock["thread"] # a /\ lock["history"] # a
  BY <1>2, Outside DEF Locked, Transaction
<1>4. OwnLocks(a)'
  BY <1>1, <1>3, Free2 DEF Locked, Transaction
<1> QED BY <1>1, <1>4, GoodKeeps DEF Good

LEMMA DeletesGood ==
    ASSUME TypeInv, LockInv, NEW a \in Actor,
           DeleteRuns(a) \/ DeleteHistory(a) \/ DeleteThread(a)
    PROVE  TypeInv' /\ LockInv'
<1>0. OwnLocks(a)
  BY EachOwns
<1>1. CASE DeleteRuns(a)
  <2>1. /\ TypeInv' /\ Frame(a) /\ UNCHANGED row
        /\ actor'[a].process = actor[a].process /\ repo'[actor[a].process] = a
        /\ lock'["thread"] = lock["thread"] /\ lock'["history"] = lock["history"]
        /\ actor'[a].pc = "deleteHistory" /\ actor[a].pc = "delete"
    BY <1>1, DeletesDo DEF Moves, Acts, tables, DeleteRuns
  <2>2. OwnLocks(a)'
    BY <1>0, <2>1 DEF OwnLocks, Inserting, Saving
  <2> QED BY <2>1, <2>2, GoodKeeps DEF Good
<1>2. CASE DeleteHistory(a)
  <2>1. /\ TypeInv' /\ Frame(a) /\ UNCHANGED <<row, repo>>
        /\ actor'[a].process = actor[a].process
        /\ lock'["thread"] = lock["thread"]
        /\ actor'[a].pc = "deleteThread" /\ actor[a].pc = "deleteHistory"
    BY <1>2, DeletesDo DEF LocksTo, Moves, Acts, tables, DeleteHistory
  <2>2. OwnLocks(a)'
    BY <1>0, <2>1 DEF OwnLocks, Inserting, Saving, Locked, Transaction
  <2> QED BY <2>1, <2>2, GoodKeeps DEF Good
<1>3. CASE DeleteThread(a)
  <2>1. /\ TypeInv' /\ Frame(a) /\ UNCHANGED <<row, repo>>
        /\ actor'[a].process = actor[a].process
        /\ lock'["history"] = lock["history"]
        /\ actor'[a].pc = "commitDelete" /\ actor[a].pc = "deleteThread"
    BY <1>3, DeletesDo DEF LocksTo, Moves, Acts, tables, DeleteThread
  <2>2. OwnLocks(a)'
    BY <1>0, <2>1 DEF OwnLocks, Inserting, Saving, Locked, Transaction
  <2> QED BY <2>1, <2>2, GoodKeeps DEF Good
<1> QED BY <1>1, <1>2, <1>3

LEMMA StepLocks ==
    ASSUME TypeInv, LockInv, [Next]_vars
    PROVE  TypeInv' /\ LockInv'
<1>1. CASE UNCHANGED vars
  BY <1>1 DEF vars, tables, TypeInv, RowOK, HistoryOK, RunsOK, SnapshotsOK, LockOK, RepoOK,
     ActorOK, KindsFit, KindFits, LockInv, RepoHeld, SavingLocks, LocksAreSaving, InsertsOnce
<1>2. CASE Next
  <2>1. PICK a \in Actor : \/ \E kind \in Kinds, p \in Process : Arrive(a, kind, p)
                           \/ Step(a)
                           \/ ConnectionLost(a) \/ SnapshotFails(a)
    BY <1>2 DEF Next
  <2> QED BY <2>1, ArriveGood, RunRowsGood, EnsureGood, InsertsGood, CommitsGood, SavesGood,
             MetadataGood, ProjectionGood, DeletesGood DEF Step
<1> QED BY <1>1, <1>2

LEMMA InitLocks == Init => TypeInv /\ LockInv
<1> SUFFICES ASSUME Init PROVE LockInv
  BY InitTypeInv
<1>1. \A a \in Actor : actor[a].pc = "new" /\ lock["thread"] = Nothing /\ lock["history"] = Nothing
  BY DEF Init, New, Table
<1>2. \A a \in Actor : OwnLocks(a)
  BY <1>1, NothingIsNobody DEF OwnLocks, Locked, Transaction, Inserting, Saving
<1> QED BY <1>2, EachOwns
-----------------------------------------------------------------------------
(* The metadata.                                                           *)

\* A step of actor a in Next.
Acting(a) ==
    \/ \E kind \in Kinds, p \in Process : Arrive(a, kind, p)
    \/ Step(a)
    \/ ConnectionLost(a) \/ SnapshotFails(a)

\* Only update_thread_metadata changes the metadata of a row that stays.
KeepsMetadata ==
    /\ row' # Absent => (row = Absent /\ row'.metadata = {})
                        \/ (row # Absent /\ row'.metadata = row.metadata)

LEMMA RowDoes ==
    ASSUME TypeInv, LockInv, NEW a \in Actor, Acting(a), ~WriteMetadata(a)
    PROVE  KeepsMetadata
<1>1. CASE CommitEnsure(a)
  <2>1. row' = IF lock["thread"] = a THEN Row(EmptyState(a), {}) ELSE row
    BY <1>1, CommitEnsureDoes
  <2>2. lock["thread"] = a => row = Absent
    BY <1>1, EachOwns DEF CommitEnsure, OwnLocks, Inserting
  <2>3. CASE lock["thread"] = a
    BY <2>1, <2>2, <2>3, RowIsThere DEF KeepsMetadata
  <2>4. CASE lock["thread"] # a
    BY <2>1, <2>4 DEF KeepsMetadata
  <2> QED BY <2>3, <2>4
<1>2. CASE CommitSave(a)
  <2>1. row' = Row(actor[a].state, IF row = Absent THEN {} ELSE row.metadata)
    BY <1>2, CommitSaveDoes
  <2>2. row' # Absent /\ row'.metadata = IF row = Absent THEN {} ELSE row.metadata
    BY <2>1, RowIsThere
  <2> QED BY <2>2 DEF KeepsMetadata
<1>3. CASE CommitDelete(a)
  <2>1. row' = Absent \/ row' = row
    BY <1>3, CommitDeleteDoes
  <2> QED BY <2>1 DEF KeepsMetadata
<1>4. CASE DeadlockDetected(a) \/ ConnectionLost(a)
  <2>1. UNCHANGED row
    BY <1>4, FailDoes DEF Fails, tables
  <2> QED BY <2>1 DEF KeepsMetadata
<1>5. CASE ~(\/ CommitEnsure(a)
             \/ CommitSave(a)
             \/ CommitDelete(a)
             \/ DeadlockDetected(a) \/ ConnectionLost(a))
  <2>1. UNCHANGED row
    BY <1>5 DEF Acting, Step, Arrive, StartRun, SaveRun, EnsureThread, InsertThread,
       InsertHistory, UpsertThread, LockHistory, WriteHistory, ReadMetadata, GetHistory,
       SaveSnapshot, SaveOutcome, DeleteRuns, DeleteHistory, DeleteThread, SnapshotFails, tables
  <2> QED BY <2>1 DEF KeepsMetadata
<1> QED BY <1>1, <1>2, <1>3, <1>4, <1>5

LEMMA ActingFrames ==
    ASSUME TypeInv, NEW a \in Actor, Acting(a)
    PROVE  /\ Frame(a)
           /\ actor[a].pc # "new" =>
                 actor'[a].kind = actor[a].kind /\ actor'[a].process = actor[a].process
<1>1. CASE \E kind \in Kinds, p \in Process : Arrive(a, kind, p)
  BY <1>1, ArriveDoes DEF Arrives
<1>2. CASE StartRun(a) \/ SaveOutcome(a)
  BY <1>2, RunRowsDo DEF Moves, Acts
<1>3. CASE EnsureThread(a)
  BY <1>3, EnsureDoes DEF Moves, Acts
<1>4. CASE InsertThread(a) \/ InsertHistory(a)
  BY <1>4, InsertsDo DEF LocksTo, Moves, Acts
<1>5. CASE CommitEnsure(a)
  BY <1>5, CommitEnsureDoes DEF Acts
<1>6. CASE UpsertThread(a)
  BY <1>6, UpsertDoes DEF Acts
<1>7. CASE LockHistory(a)
  BY <1>7, LockHistoryDoes DEF Acts
<1>8. CASE WriteHistory(a)
  BY <1>8, WriteHistoryDoes DEF LocksTo, Moves, Acts
<1>9. CASE CommitSave(a)
  BY <1>9, CommitSaveDoes DEF Acts
<1>10. CASE ReadMetadata(a) \/ WriteMetadata(a)
  BY <1>10, MetadataDoes DEF Moves, Acts
<1>11. CASE GetHistory(a) \/ SaveSnapshot(a) \/ SnapshotFails(a)
  BY <1>11, ProjectionDoes DEF Acts
<1>12. CASE DeleteRuns(a) \/ DeleteHistory(a) \/ DeleteThread(a)
  BY <1>12, DeletesDo DEF LocksTo, Moves, Acts
<1>13. CASE CommitDelete(a)
  BY <1>13, CommitDeleteDoes DEF Moves, Acts
<1>14. CASE DeadlockDetected(a) \/ ConnectionLost(a)
  BY <1>14, FailDoes DEF Fails, Acts
<1> QED BY <1>1, <1>2, <1>3, <1>4, <1>5, <1>6, <1>7, <1>8, <1>9, <1>10, <1>11, <1>12, <1>13,
           <1>14 DEF Acting, Step

\* Which actions lead to a step.
ComesFrom(a) ==
    /\ actor'[a].pc = "insertHistory" => InsertThread(a)
    /\ actor'[a].pc = "commitEnsure" => InsertHistory(a)
    /\ actor'[a].pc = "save" => EnsureThread(a) \/ CommitEnsure(a)
    /\ actor'[a].pc = "lockHistory" => UpsertThread(a)
    /\ actor'[a].pc = "writeHistory" => LockHistory(a)
    /\ actor'[a].pc = "commitSave" => WriteHistory(a)
    /\ actor'[a].pc = "writeMetadata" => ReadMetadata(a)
    /\ actor'[a].pc = "snapshot" => GetHistory(a)
    /\ actor'[a].pc = "metadata" => CommitSave(a) \/ actor[a].pc = "new"
    /\ actor'[a].pc = "getHistory" =>
          ReadMetadata(a) \/ WriteMetadata(a) \/ actor'[a].outcome = "error"

LEMMA ActingComes ==
    ASSUME TypeInv, NEW a \in Actor, Acting(a)
    PROVE  ComesFrom(a)
<1>1. CASE \E kind \in Kinds, p \in Process : Arrive(a, kind, p)
  <2>1. PICK kind \in Kinds, p \in Process : Arrive(a, kind, p)
    BY <1>1
  <2>2. kind \in {"create", "update", "rename", "delete", "run"}
    BY ConstantsAssumption
  <2> QED BY <2>1, <2>2, ArriveDoes DEF Arrives, ComesFrom
<1>2. CASE StartRun(a) \/ SaveOutcome(a)
  BY <1>2, RunRowsDo DEF Moves, Acts, ComesFrom
<1>3. CASE EnsureThread(a)
  BY <1>3, EnsureDoes DEF Moves, Acts, ComesFrom
<1>4. CASE InsertThread(a) \/ InsertHistory(a)
  BY <1>4, InsertsDo DEF LocksTo, Moves, Acts, ComesFrom
<1>5. CASE CommitEnsure(a)
  BY <1>5, CommitEnsureDoes DEF Acts, ComesFrom
<1>6. CASE UpsertThread(a)
  BY <1>6, UpsertDoes DEF Acts, ComesFrom
<1>7. CASE LockHistory(a)
  BY <1>7, LockHistoryDoes DEF Acts, ComesFrom
<1>8. CASE WriteHistory(a)
  BY <1>8, WriteHistoryDoes DEF LocksTo, Moves, Acts, ComesFrom
<1>9. CASE CommitSave(a)
  BY <1>9, CommitSaveDoes DEF Acts, AfterSave, ComesFrom
<1>10. CASE ReadMetadata(a) \/ WriteMetadata(a)
  BY <1>10, MetadataDoes DEF Moves, Acts, AfterMetadata, ComesFrom
<1>11. CASE GetHistory(a) \/ SaveSnapshot(a) \/ SnapshotFails(a)
  BY <1>11, ProjectionDoes DEF Acts, ComesFrom
<1>12. CASE DeleteRuns(a) \/ DeleteHistory(a) \/ DeleteThread(a)
  BY <1>12, DeletesDo DEF LocksTo, Moves, Acts, ComesFrom
<1>13. CASE CommitDelete(a)
  BY <1>13, CommitDeleteDoes DEF Moves, Acts, ComesFrom
<1>14. CASE DeadlockDetected(a) \/ ConnectionLost(a)
  BY <1>14, FailDoes DEF Fails, Acts, AfterFailure, ComesFrom
<1> QED BY <1>1, <1>2, <1>3, <1>4, <1>5, <1>6, <1>7, <1>8, <1>9, <1>10, <1>11, <1>12, <1>13,
           <1>14 DEF Acting, Step

LEMMA WritesMetadata ==
    ASSUME TypeInv, NEW a \in Actor, WriteMetadata(a)
    PROVE  /\ actor'[a].pc \in {"getHistory", "done"} /\ actor[a].pc = "writeMetadata"
           /\ row = Absent => row' = Absent
           /\ row # Absent => /\ row' # Absent /\ row'.state = row.state
                              /\ row'.metadata = actor[a].thread.metadata \cup {a}
<1>1. /\ actor'[a].pc \in {"getHistory", "done"} /\ actor[a].pc = "writeMetadata"
      /\ row' = IF row = Absent THEN Absent
                ELSE Row(row.state, actor[a].thread.metadata \cup {a})
  BY MetadataDoes DEF Moves, Acts, AfterMetadata, WriteMetadata
<1> QED BY <1>1, RowIsThere

LEMMA StepMetadata ==
    ASSUME TypeInv, LockInv, MetadataIsRead, [Next]_vars
    PROVE  /\ MetadataIsRead'
           /\ OneProcess /\ row # Absent /\ row' # Absent => row.metadata \subseteq row'.metadata
<1>1. CASE UNCHANGED vars
  BY <1>1 DEF vars, tables, MetadataIsRead, OneProcess
<1>2. CASE Next
  <2>1. PICK a \in Actor : Acting(a)
    BY <1>2 DEF Next, Acting
  <2>2. /\ Frame(a)
        /\ actor[a].pc # "new" =>
              actor'[a].kind = actor[a].kind /\ actor'[a].process = actor[a].process
    BY <2>1, ActingFrames
  <2>3. OneProcess' => OneProcess
    <3>1. \A b \in Actor : actor[b].kind \in {"rename", "run"} =>
             actor'[b].kind = actor[b].kind /\ actor'[b].process = actor[b].process
      <4>1. actor[a].pc = "new" => actor[a].kind = "none"
        BY DEF TypeInv, KindsFit, KindFits, New
      <4> QED BY <2>2, <4>1 DEF Frame
    <3> QED BY <3>1 DEF OneProcess
  <2>4. CASE WriteMetadata(a)
    <3>1. OneProcess => \A b \in Actor : b # a => actor[b].pc # "writeMetadata"
      <4> SUFFICES ASSUME OneProcess, NEW b \in Actor, b # a, actor[b].pc = "writeMetadata"
                   PROVE  FALSE
        OBVIOUS
      <4>1. /\ actor[a].pc = "writeMetadata" /\ actor[a].kind \in {"rename", "run"}
            /\ actor[b].kind \in {"rename", "run"}
        BY <2>4, OwnType DEF WriteMetadata, Fits
      <4>2. actor[a].process = actor[b].process
        BY <4>1 DEF OneProcess
      <4>3. repo[actor[a].process] = a /\ repo[actor[b].process] = b
        BY <4>1, EachOwns DEF OwnLocks, Locked
      <4> QED BY <4>2, <4>3
    <3>2. /\ actor'[a].pc # "writeMetadata" /\ actor[a].pc = "writeMetadata"
          /\ row = Absent => row' = Absent
          /\ row # Absent => row'.metadata = actor[a].thread.metadata \cup {a}
      BY <2>4, WritesMetadata
    <3>3. MetadataIsRead'
      BY <2>2, <2>3, <3>1, <3>2 DEF Frame, MetadataIsRead
    <3>4. OneProcess /\ row # Absent => row.metadata \subseteq actor[a].thread.metadata
      BY <3>2 DEF MetadataIsRead
    <3> QED BY <3>2, <3>3, <3>4
  <2>5. CASE ~WriteMetadata(a)
    <3>1. KeepsMetadata
      BY <2>1, <2>5, RowDoes
    <3>2. ASSUME OneProcess, NEW b \in Actor, actor'[b].pc = "writeMetadata"
          PROVE  row' = Absent \/ row'.metadata \subseteq actor'[b].thread.metadata
      <4>1. CASE b # a
        <5>1. actor'[b] = actor[b]
          BY <2>2, <4>1 DEF Frame
        <5>2. row = Absent \/ row.metadata \subseteq actor[b].thread.metadata
          BY <3>2, <5>1 DEF MetadataIsRead
        <5> QED BY <3>1, <5>1, <5>2 DEF KeepsMetadata
      <4>2. CASE b = a
        <5>1. ReadMetadata(a)
          BY <2>1, <3>2, <4>2, ActingComes DEF ComesFrom
        <5>2. UNCHANGED row /\ actor'[a].thread = row
          BY <3>2, <4>2, <5>1, MetadataDoes DEF Moves, Acts, AfterMetadata, tables
        <5> QED BY <4>2, <5>2
      <4> QED BY <4>1, <4>2
    <3>3. MetadataIsRead'
      BY <2>3, <3>2 DEF MetadataIsRead
    <3> QED BY <3>1, <3>3 DEF KeepsMetadata
  <2> QED BY <2>4, <2>5
<1> QED BY <1>1, <1>2

LEMMA InitMetadata == Init => MetadataIsRead
BY DEF Init, New, MetadataIsRead
-----------------------------------------------------------------------------
(* The history of a thread that nobody deletes.                            *)

LEMMA NeverDeleted ==
    ASSUME TypeInv, NEW a \in Actor, Acting(a), ~Deleted'
    PROVE  ~Deleted /\ actor[a].kind # "delete"
<1>1. /\ Frame(a)
      /\ actor[a].pc # "new" => actor'[a].kind = actor[a].kind
  BY ActingFrames
<1>2. actor[a].pc = "new" => actor[a].kind = "none"
  BY DEF TypeInv, KindsFit, KindFits, New
<1> QED BY <1>1, <1>2 DEF Frame, Deleted

Inserted(a) ==
    /\ CommitEnsure(a) /\ row = Absent /\ history = None
    /\ row' = Row(EmptyState(a), {}) /\ history' = <<EmptyState(a)>>
Saved(a) ==
    /\ CommitSave(a) /\ lock["thread"] = a
    /\ row' # Absent /\ row'.state = actor[a].state
    /\ history' = <<actor[a].state>> \o history /\ actor[a].state \in States
StatesKept ==
    /\ (row = Absent) <=> (row' = Absent)
    /\ row # Absent => row'.state = row.state
    /\ history' = history

LEMMA HistoryDoes ==
    ASSUME TypeInv, LockInv, HeadInv, NEW a \in Actor, Acting(a), actor[a].kind # "delete"
    PROVE  Inserted(a) \/ Saved(a) \/ StatesKept
<1>0. OwnLocks(a)
  BY EachOwns
<1>1. CASE CommitEnsure(a)
  <2>1. /\ row' = IF lock["thread"] = a THEN Row(EmptyState(a), {}) ELSE row
        /\ history' = IF lock["history"] = a THEN <<EmptyState(a)>> ELSE history
        /\ actor[a].pc = "commitEnsure"
    BY <1>1, CommitEnsureDoes DEF CommitEnsure
  <2>2. lock["thread"] = a <=> lock["history"] = a
    BY <2>1 DEF HeadInv, InsertsBoth
  <2>3. CASE lock["thread"] = a
    <3>1. row = Absent /\ history = None
      BY <1>0, <2>1, <2>3 DEF OwnLocks, Inserting, HeadInv, HeadOK
    <3> QED BY <1>1, <2>1, <2>2, <2>3, <3>1 DEF Inserted
  <2>4. CASE lock["thread"] # a
    BY <2>1, <2>2, <2>4 DEF StatesKept
  <2> QED BY <2>3, <2>4
<1>2. CASE CommitSave(a)
  <2>1. /\ row' = Row(actor[a].state, IF row = Absent THEN {} ELSE row.metadata)
        /\ history' = actor[a].states /\ actor[a].pc = "commitSave"
    BY <1>2, CommitSaveDoes DEF CommitSave
  <2>2. row' # Absent /\ row'.state = actor[a].state
    BY <2>1, RowIsThere
  <2>3. history' = <<actor[a].state>> \o history
    BY <2>1 DEF HeadInv, HistoryIsRead
  <2>4. actor[a].state \in States
    BY <2>1, OwnType DEF Fits, Saving
  <2> QED BY <1>0, <1>2, <2>1, <2>2, <2>3, <2>4 DEF Saved, OwnLocks, Saving
<1>3. CASE WriteMetadata(a)
  <2>1. /\ row = Absent => row' = Absent
        /\ row # Absent => row' # Absent /\ row'.state = row.state
        /\ history' = history
    BY <1>3, WritesMetadata, MetadataDoes
  <2> QED BY <2>1 DEF StatesKept
<1>4. CASE ~(\/ CommitEnsure(a)
             \/ CommitSave(a)
             \/ WriteMetadata(a))
  <2>1. ~CommitDelete(a)
    BY OwnType DEF CommitDelete, Fits, Deleting
  <2>2. UNCHANGED <<row, history>>
    BY <1>4, <2>1 DEF Acting, Step, Arrive, StartRun, SaveRun, EnsureThread, InsertThread,
       InsertHistory, UpsertThread, LockHistory, WriteHistory, ReadMetadata, GetHistory,
       SaveSnapshot, SaveOutcome, DeleteRuns, DeleteHistory, DeleteThread, SnapshotFails,
       DeadlockDetected, ConnectionLost, Fail, tables
  <2> QED BY <2>2 DEF StatesKept
<1> QED BY <1>1, <1>2, <1>3, <1>4

\* What actor b relies on while it inserts or saves.
Heads(b) ==
    /\ actor[b].pc \in Inserting => row # Absent \/ lock["thread"] = b
    /\ actor[b].pc = "commitEnsure" => (lock["thread"] = b <=> lock["history"] = b)
    /\ actor[b].pc \in {"writeHistory", "commitSave"} =>
          actor[b].states = <<actor[b].state>> \o history

LEMMA EachHeads == HeadInv <=> HeadOK /\ \A b \in Actor : Heads(b)
BY DEF HeadInv, InsertsBoth, HistoryIsRead, Heads

LEMMA OwnHead ==
    ASSUME TypeInv, LockInv, HeadInv, NEW a \in Actor, Acting(a), actor[a].kind # "delete"
    PROVE  Heads(a)'
<1>0. OwnLocks(a) /\ Heads(a) /\ HeadOK
  BY EachOwns, EachHeads
<1>1. CASE InsertThread(a)
  <2>1. /\ actor'[a].pc = "insertHistory" /\ UNCHANGED row
        /\ IF row = Absent THEN lock'["thread"] = a ELSE lock' = lock
    BY <1>1, InsertsDo DEF LocksTo, Moves, Acts, tables
  <2> QED BY <2>1 DEF Heads, Inserting
<1>2. CASE InsertHistory(a)
  <2>1. /\ actor'[a].pc = "commitEnsure" /\ UNCHANGED row /\ actor[a].pc = "insertHistory"
        /\ IF history = None THEN lock'["history"] = a ELSE lock' = lock
        /\ lock'["thread"] = lock["thread"]
    BY <1>2, InsertsDo DEF LocksTo, Moves, Acts, tables, InsertHistory
  <2>2. lock["history"] # a
    BY <1>0, <2>1 DEF OwnLocks
  <2>3. lock["thread"] = a <=> history = None
    BY <1>0, <2>1 DEF OwnLocks, Heads, HeadOK, Inserting
  <2>4. lock'["thread"] = a <=> lock'["history"] = a
    BY <2>1, <2>2, <2>3
  <2> QED BY <1>0, <2>1, <2>4 DEF Heads, Inserting
<1>3. CASE LockHistory(a)
  <2>1. /\ UNCHANGED history /\ actor'[a].pc = "writeHistory"
        /\ actor'[a].states = <<actor[a].state>> \o history /\ actor'[a].state = actor[a].state
    BY <1>3, LockHistoryDoes DEF Acts, tables
  <2> QED BY <2>1 DEF Heads, Inserting
<1>4. CASE WriteHistory(a)
  <2>1. /\ UNCHANGED history /\ actor'[a].pc = "commitSave" /\ actor[a].pc = "writeHistory"
        /\ actor'[a].states = actor[a].states /\ actor'[a].state = actor[a].state
    BY <1>4, WriteHistoryDoes DEF LocksTo, Moves, Acts, tables, WriteHistory
  <2> QED BY <1>0, <2>1 DEF Heads, Inserting
<1>5. CASE ~(InsertThread(a) \/ InsertHistory(a) \/ LockHistory(a) \/ WriteHistory(a))
  <2>1. actor'[a].pc \notin Inserting \cup {"writeHistory", "commitSave"}
    BY <1>5, ActingComes DEF ComesFrom, Inserting
  <2> QED BY <2>1 DEF Heads, Inserting
<1> QED BY <1>1, <1>2, <1>3, <1>4, <1>5

LEMMA StepHead ==
    ASSUME TypeInv, LockInv, HeadInv, NEW a \in Actor, Acting(a), actor[a].kind # "delete"
    PROVE  HeadInv'
<1>1. Inserted(a) \/ Saved(a) \/ StatesKept
  BY HistoryDoes
<1>2. /\ HeadOK /\ history \in Seq(States)
      /\ \A b \in Actor : Heads(b) /\ OwnLocks(b)
  BY EachHeads, EachOwns DEF TypeInv, HistoryOK
<1>3. HeadOK' /\ (row # Absent => row' # Absent)
  <2>1. CASE Inserted(a)
    <3>1. row' # Absent /\ row'.state = EmptyState(a) /\ history'[1] = EmptyState(a)
          /\ history' # None /\ row = Absent
      BY <2>1, RowIsThere DEF Inserted, None
    <3> QED BY <3>1 DEF HeadOK
  <2>2. CASE Saved(a)
    <3>1. history' # None /\ history'[1] = actor[a].state /\ row' # Absent
          /\ row'.state = actor[a].state
      BY <1>2, <2>2, Prepend DEF Saved, None
    <3> QED BY <3>1 DEF HeadOK
  <2>3. CASE StatesKept
    BY <1>2, <2>3 DEF HeadOK, StatesKept
  <2> QED BY <1>1, <2>1, <2>2, <2>3
<1>4. Frame(a)
  BY ActingFrames
<1>5. \A b \in Actor : b # a => Heads(b)'
  <2> SUFFICES ASSUME NEW b \in Actor, b # a PROVE Heads(b)'
    OBVIOUS
  <2>1. /\ actor'[b] = actor[b]
        /\ lock'["thread"] = b <=> lock["thread"] = b
        /\ lock'["history"] = b <=> lock["history"] = b
    BY <1>4 DEF Frame, Table
  <2>2. ASSUME actor[b].pc \in {"writeHistory", "commitSave"} PROVE history' = history
    <3>1. lock["thread"] = b
      BY <1>2, <2>2 DEF OwnLocks, Saving
    <3>2. ~Saved(a)
      BY <3>1 DEF Saved
    <3>3. ~Inserted(a)
      <4> SUFFICES ASSUME Inserted(a) PROVE FALSE
        OBVIOUS
      <4>1. actor[a].pc = "commitEnsure" /\ row = Absent
        BY DEF Inserted, CommitEnsure
      <4>2. lock["thread"] = a
        BY <1>2, <4>1 DEF Heads, Inserting
      <4> QED BY <3>1, <4>2
    <3> QED BY <1>1, <3>2, <3>3 DEF StatesKept
  <2> QED BY <1>2, <1>3, <2>1, <2>2 DEF Heads
<1>6. \A b \in Actor : Heads(b)'
  BY <1>5, OwnHead
<1> QED BY <1>3, <1>6 DEF HeadInv, InsertsBoth, HistoryIsRead, Heads

LEMMA InitHead == Init => HeadInv
<1> SUFFICES ASSUME Init PROVE HeadInv
  OBVIOUS
<1>1. HeadOK
  <2>1. CASE row = Absent /\ history = None
    BY <2>1 DEF HeadOK
  <2>2. CASE row = Row(EmptyState(Nothing), {}) /\ history = <<EmptyState(Nothing)>>
    BY <2>2, RowIsThere DEF HeadOK, None
  <2> QED BY <2>1, <2>2 DEF Init
<1>2. \A b \in Actor : Heads(b)
  BY DEF Init, New, Heads, Inserting
<1> QED BY <1>1, <1>2, EachHeads
-----------------------------------------------------------------------------
(* The states of the runs.                                                 *)

LEMMA NothingIsNoCheckpoint == Nothing \notin Checkpoint
BY ConstantsAssumption DEF Checkpoint

LEMMA OnlyArrives ==
    ASSUME NEW a \in Actor, Acting(a), actor[a].pc = "new"
    PROVE  \E kind \in Kinds, p \in Process : Arrive(a, kind, p)
BY DEF Acting, Step, StartRun, EnsureThread, InsertThread, InsertHistory, CommitEnsure,
   UpsertThread, LockHistory, WriteHistory, CommitSave, ReadMetadata, WriteMetadata, GetHistory,
   SaveSnapshot, SaveOutcome, DeleteRuns, DeleteHistory, DeleteThread, CommitDelete,
   DeadlockDetected, WaitsFor, ConnectionLost, SnapshotFails, Locked, Transaction

\* Where an actor is that has saved all it will save.
Past == {"metadata", "writeMetadata", "getHistory", "snapshot", "outcome", "done"}

\* What an actor never takes back.
Ages(a) ==
    /\ actor[a].pc # "done"
    /\ actor[a].phase = "final" =>
          actor'[a].phase = "final" /\ actor'[a].prior = actor[a].prior
    /\ actor[a].phase # actor'[a].phase => CommitSave(a)
    /\ actor[a].pc \in Past => actor'[a].pc \in Past
    /\ actor[a].outcome = "error" => actor'[a].outcome = "error"
    /\ actor'[a].outcome = "error" \/ actor'[a].outcome = actor[a].outcome
    /\ actor'[a].kind = actor[a].kind

LEMMA ActingAges ==
    ASSUME TypeInv, NEW a \in Actor, Acting(a), actor[a].pc # "new"
    PROVE  Ages(a)
<1>1. ~ \E kind \in Kinds, p \in Process : Arrive(a, kind, p)
  BY DEF Arrive
<1>2. CASE StartRun(a) \/ SaveOutcome(a)
  BY <1>2, RunRowsDo DEF Moves, Acts, Ages, StartRun, SaveOutcome, Past
<1>3. CASE EnsureThread(a)
  BY <1>3, EnsureDoes DEF Moves, Acts, Ages, EnsureThread, Past
<1>4. CASE InsertThread(a) \/ InsertHistory(a)
  BY <1>4, InsertsDo DEF LocksTo, Moves, Acts, Ages, InsertThread, InsertHistory, Past
<1>5. CASE CommitEnsure(a)
  BY <1>5, CommitEnsureDoes DEF Acts, Ages, CommitEnsure, Past
<1>6. CASE UpsertThread(a)
  BY <1>6, UpsertDoes DEF Acts, Ages, UpsertThread, Past
<1>7. CASE LockHistory(a)
  BY <1>7, LockHistoryDoes DEF Acts, Ages, LockHistory, Past
<1>8. CASE WriteHistory(a)
  BY <1>8, WriteHistoryDoes DEF LocksTo, Moves, Acts, Ages, WriteHistory, Past
<1>9. CASE CommitSave(a)
  BY <1>9, CommitSaveDoes DEF Acts, Ages, CommitSave, Past
<1>10. CASE ReadMetadata(a) \/ WriteMetadata(a)
  BY <1>10, MetadataDoes DEF Moves, Acts, Ages, AfterMetadata, ReadMetadata, WriteMetadata, Past
<1>11. CASE GetHistory(a) \/ SaveSnapshot(a) \/ SnapshotFails(a)
  BY <1>11, ProjectionDoes DEF Acts, Ages, GetHistory, SaveSnapshot, SnapshotFails, Past
<1>12. CASE DeleteRuns(a) \/ DeleteHistory(a) \/ DeleteThread(a)
  BY <1>12, DeletesDo DEF LocksTo, Moves, Acts, Ages, DeleteRuns, DeleteHistory, DeleteThread,
     Past
<1>13. CASE CommitDelete(a)
  BY <1>13, CommitDeleteDoes DEF Moves, Acts, Ages, CommitDelete, Past
<1>14. CASE DeadlockDetected(a) \/ ConnectionLost(a)
  BY <1>14, FailDoes DEF Fails, Acts, AfterFailure, Ages, Locked, Transaction, Past
<1> QED BY <1>1, <1>2, <1>3, <1>4, <1>5, <1>6, <1>7, <1>8, <1>9, <1>10, <1>11, <1>12, <1>13,
           <1>14 DEF Acting, Step

\* The history with one state more.
Longer(s) ==
    /\ 1 \in DOMAIN history' /\ history'[1] = s
    /\ \A i \in DOMAIN history :
          i \in Nat /\ i + 1 \in DOMAIN history' /\ history'[i + 1] = history[i] /\ i >= 1
    /\ \A i \in DOMAIN history' :
          /\ i \in Nat
          /\ i # 1 => i > 1 /\ i - 1 \in DOMAIN history /\ history'[i] = history[i - 1]
    /\ Len(history') = Len(history) + 1

LEMMA Grown ==
    ASSUME HistoryOK, NEW s \in States, history' = <<s>> \o history
    PROVE  Longer(s)
<1>1. /\ history' \in Seq(States) /\ Len(history') = Len(history) + 1
      /\ history'[1] = s /\ \A i \in 1..Len(history) : history'[i + 1] = history[i]
      /\ Len(history) \in Nat /\ history \in Seq(States)
  BY Prepend DEF HistoryOK
<1>2. DOMAIN history' = 1..(Len(history) + 1) /\ DOMAIN history = 1..Len(history)
  BY <1>1
<1>3. \A i \in DOMAIN history' : i # 1 => i - 1 \in 1..Len(history) /\ (i - 1) + 1 = i
  BY <1>1, <1>2
<1> QED BY <1>1, <1>2, <1>3 DEF Longer

\* What an actor saves.
Saves(a, s) ==
    IF IsRun(a)
    THEN /\ RunState(s, a, actor[a].phase)
         /\ actor[a].phase = "initial" => Begins(a, s.parent)
    ELSE actor[a].kind = "update" /\ s.run = Nothing /\ s.id = <<a, "update">>

LEMMA WhatIsSaved ==
    ASSUME TypeInv, InHands, NEW a \in Actor, actor[a].pc \in Saving
    PROVE  /\ Saves(a, actor[a].state) /\ actor[a].state \in States
           /\ actor[a].phase \in {"initial", "final"} /\ actor[a].pc \notin Past
<1>1. /\ actor[a].kind \in {"update", "run"} /\ actor[a].state \in States
      /\ actor[a].phase \in {"initial", "final"}
  BY OwnType DEF Saving, Fits
<1> QED BY <1>1 DEF InHands, InHand, Saves, IsRun, Saving, Past

\* The first transaction to insert the thread makes its history.
LEMMA OneMore ==
    ASSUME TypeInv, LockInv, HeadInv, InHands, NEW a \in Actor, Acting(a),
           actor[a].kind # "delete", history' # history
    PROVE  \E s \in States :
              /\ Longer(s)
              /\ \/ s = EmptyState(a) /\ DOMAIN history = {}
                    /\ CommitEnsure(a)
                 \/ CommitSave(a) /\ Saves(a, s)
<1>1. Inserted(a) \/ Saved(a)
  BY HistoryDoes DEF StatesKept
<1>2. CASE Inserted(a)
  <2>1. EmptyState(a) \in States /\ <<EmptyState(a)>> \o history = <<EmptyState(a)>>
        /\ DOMAIN history = {}
    <3>1. EmptyState(a) \in States
      BY EmptyTyped
    <3>2. <<EmptyState(a)>> \o <<>> = <<EmptyState(a)>>
      BY <3>1
    <3> QED BY <1>2, <3>1, <3>2 DEF Inserted, None
  <2>2. Longer(EmptyState(a))
    BY <1>2, <2>1, Grown DEF Inserted, TypeInv
  <2> QED BY <1>2, <2>1, <2>2 DEF Inserted
<1>3. CASE Saved(a)
  <2>1. actor[a].pc = "commitSave"
    BY <1>3 DEF Saved, CommitSave
  <2>2. Saves(a, actor[a].state) /\ actor[a].state \in States
    BY <2>1, WhatIsSaved DEF Saving
  <2>3. Longer(actor[a].state)
    BY <1>3, <2>2, Grown DEF Saved, TypeInv
  <2> QED BY <1>3, <2>2, <2>3 DEF Saved
<1> QED BY <1>1, <1>2, <1>3

\* The states of a run are its own, and only of the phases it is past.
LEMMA WhoseState ==
    ASSUME TypeInv, StatesFit, NEW i \in DOMAIN history, NEW r \in Actor
    PROVE  /\ history[i] \in States
           /\ history[i].run = r =>
                 /\ IsRun(r) /\ actor[r].phase = "final"
                 /\ \E phase \in {"initial", "final"} : RunState(history[i], r, phase)
           /\ \A phase \in {"initial", "final"} :
                 history[i].id = <<r, phase>> =>
                    /\ history[i].run = r /\ RunState(history[i], r, phase)
                    /\ actor[r].phase = "final" /\ IsRun(r)
                    /\ phase = "final" => actor[r].pc \in Past
           /\ history[i].id = <<r, "update">> => actor[r].pc = "done"
           /\ history[i].id = <<r, "empty">> =>
                 history[i].run = Nothing /\ history[i].messages = <<>>
<1>1. history[i] \in States
  BY DEF TypeInv, HistoryOK
<1> PICK s \in States : s = history[i]
  BY <1>1
<1>2. StateFits(s)
  BY DEF StatesFit
<1>3. r # Nothing
  BY NothingIsNobody
<1>4. CASE \E q \in Actor, phase \in {"initial", "final"} :
              /\ IsRun(q) /\ actor[q].phase = "final" /\ RunState(s, q, phase)
              /\ phase = "final" => actor[q].pc \in Past
  <2>1. PICK q \in Actor, phase \in {"initial", "final"} :
           /\ IsRun(q) /\ actor[q].phase = "final" /\ RunState(s, q, phase)
           /\ phase = "final" => actor[q].pc \in Past
    BY <1>4
  <2>2. s.run = q /\ s.id = <<q, phase>>
    BY <2>1 DEF RunState
  <2>3. \A other \in {"initial", "final"} : s.id = <<r, other>> => r = q /\ other = phase
    BY <2>2
  <2> QED BY <1>1, <2>1, <2>2, <2>3
<1>5. CASE \E a \in Actor : actor[a].kind = "update" /\ actor[a].pc = "done"
                            /\ s.run = Nothing /\ s.id = <<a, "update">>
  BY <1>3, <1>5
<1>6. CASE \E a \in Actor \cup {Nothing} : s = EmptyState(a)
  BY <1>3, <1>6 DEF EmptyState, State
<1> QED BY <1>2, <1>4, <1>5, <1>6 DEF StateFits, Past

\* A state is not in the history before it is committed.
LEMMA Fresh ==
    ASSUME TypeInv, StatesFit, NEW a \in Actor, actor[a].pc = "commitSave", NEW s \in States,
           Saves(a, s)
    PROVE  ~Wrote(s.id) /\ \A r \in Actor : s.id # <<r, "empty">>
<1>1. actor[a].phase \in {"initial", "final"}
  BY OwnType
<1>2. /\ \/ /\ s.id = <<a, actor[a].phase>> /\ IsRun(a)
         \/ s.id = <<a, "update">>
  BY DEF Saves, RunState
<1> SUFFICES ASSUME NEW i \in DOMAIN history, history[i].id = s.id PROVE FALSE
  BY <1>1, <1>2 DEF Wrote
<1>3. CASE s.id = <<a, actor[a].phase>>
  BY <1>1, <1>3, WhoseState DEF Past
<1>4. CASE s.id = <<a, "update">>
  BY <1>4, WhoseState
<1> QED BY <1>2, <1>3, <1>4

StatesInv == HeadInv /\ HistoryInv /\ ReadInv

LEMMA StepIds ==
    ASSUME TypeInv, LockInv, StatesInv, NEW a \in Actor, Acting(a), actor[a].kind # "delete"
    PROVE  IdsDiffer'
<1>0. IdsDiffer /\ StatesFit /\ InHands /\ HeadInv
  BY DEF StatesInv, HistoryInv, ReadInv
<1>1. CASE history' = history
  BY <1>0, <1>1 DEF IdsDiffer
<1>2. CASE history' # history
  <2>1. PICK s \in States : /\ Longer(s)
                            /\ \/ s = EmptyState(a) /\ DOMAIN history = {}
                                  /\ CommitEnsure(a)
                               \/ CommitSave(a) /\ Saves(a, s)
    BY <1>0, <1>2, OneMore
  <2>2. \A i \in DOMAIN history : history[i].id # s.id
    <3>1. CASE CommitSave(a) /\ Saves(a, s)
      BY <1>0, <3>1, Fresh DEF CommitSave, Wrote
    <3> QED BY <2>1, <3>1
  <2>3. ASSUME NEW i \in DOMAIN history', NEW j \in DOMAIN history',
               history'[i].id = history'[j].id
        PROVE  i = j
    <3>1. CASE i = 1
      BY <2>1, <2>2, <2>3, <3>1 DEF Longer
    <3>2. CASE j = 1
      BY <2>1, <2>2, <2>3, <3>2 DEF Longer
    <3>3. CASE i # 1 /\ j # 1
      <4>1. /\ i \in Nat /\ i - 1 \in DOMAIN history /\ history'[i] = history[i - 1]
            /\ j \in Nat /\ j - 1 \in DOMAIN history /\ history'[j] = history[j - 1]
        BY <2>1, <3>3 DEF Longer
      <4>2. i - 1 = j - 1
        BY <1>0, <2>3, <4>1 DEF IdsDiffer
      <4> QED BY <4>1, <4>2
    <3> QED BY <3>1, <3>2, <3>3
  <2> QED BY <2>3 DEF IdsDiffer
<1> QED BY <1>1, <1>2

\* The state of an author stays what it is while the author goes on.
LEMMA FitsStill ==
    ASSUME TypeInv, NEW a \in Actor, Acting(a), NEW s \in States, StateFits(s)
    PROVE  StateFits(s)'
<1>1. /\ Frame(a) /\ (actor[a].pc = "new" => actor[a].kind = "none")
      /\ actor[a].pc # "new" => Ages(a)
  BY ActingFrames, ActingAges DEF TypeInv, KindsFit, KindFits, New
<1>2. CASE \E q \in Actor, phase \in {"initial", "final"} :
              /\ IsRun(q) /\ actor[q].phase = "final" /\ RunState(s, q, phase)
              /\ phase = "final" => actor[q].pc \in Past
  <2>1. PICK q \in Actor, phase \in {"initial", "final"} :
           /\ IsRun(q) /\ actor[q].phase = "final" /\ RunState(s, q, phase)
           /\ phase = "final" => actor[q].pc \in Past
    BY <1>2
  <2>2. /\ IsRun(q)' /\ actor'[q].phase = "final" /\ actor'[q].prior = actor[q].prior
        /\ phase = "final" => actor'[q].pc \in Past
    BY <1>1, <2>1 DEF Frame, Ages, IsRun
  <2>3. RunState(s, q, phase)'
    BY <2>1, <2>2 DEF RunState
  <2> QED BY <2>2, <2>3 DEF StateFits, Past
<1>3. CASE \E b \in Actor : actor[b].kind = "update" /\ actor[b].pc = "done"
                            /\ s.run = Nothing /\ s.id = <<b, "update">>
  <2>1. PICK b \in Actor : actor[b].kind = "update" /\ actor[b].pc = "done"
                           /\ s.run = Nothing /\ s.id = <<b, "update">>
    BY <1>3
  <2>2. b # a
    BY <1>1, <2>1 DEF Ages
  <2>3. actor'[b] = actor[b]
    BY <1>1, <2>2 DEF Frame
  <2> QED BY <2>1, <2>3 DEF StateFits
<1>4. CASE \E b \in Actor \cup {Nothing} : s = EmptyState(b)
  BY <1>4 DEF StateFits
<1> QED BY <1>2, <1>3, <1>4 DEF StateFits, Past

LEMMA StepStatesFit ==
    ASSUME TypeInv, LockInv, StatesInv, NEW a \in Actor, Acting(a), actor[a].kind # "delete"
    PROVE  StatesFit'
<1>0. StatesFit /\ InHands /\ HeadInv /\ history \in Seq(States)
  BY DEF StatesInv, HistoryInv, ReadInv, TypeInv, HistoryOK
<1>1. \A i \in DOMAIN history : history[i] \in States /\ StateFits(history[i])
  BY <1>0 DEF StatesFit
<1>2. \A s \in States : StateFits(s) => StateFits(s)'
  BY FitsStill
<1>3. CASE history' = history
  BY <1>1, <1>2, <1>3 DEF StatesFit
<1>4. CASE history' # history
  <2>1. PICK s \in States : /\ Longer(s)
                            /\ \/ s = EmptyState(a) /\ DOMAIN history = {}
                                  /\ CommitEnsure(a)
                               \/ CommitSave(a) /\ Saves(a, s)
    BY <1>0, <1>4, OneMore
  <2>2. StateFits(s)'
    <3>1. CASE s = EmptyState(a)
      BY <3>1 DEF StateFits
    <3>2. CASE CommitSave(a) /\ Saves(a, s)
      <4>1. /\ actor'[a].phase = "final" /\ actor'[a].kind = actor[a].kind
            /\ actor'[a].prior = actor[a].prior /\ actor'[a].pc = AfterSave(a)
        BY <3>2, CommitSaveDoes DEF Acts
      <4>2. actor[a].phase \in {"initial", "final"}
        BY <3>2, OwnType DEF CommitSave
      <4>3. CASE IsRun(a)
        <5>1. RunState(s, a, actor[a].phase)
          BY <3>2, <4>3 DEF Saves
        <5>2. PICK phase \in {"initial", "final"} : phase = actor[a].phase
          BY <4>2
        <5>3. RunState(s, a, phase)'
          BY <4>1, <5>1, <5>2 DEF RunState
        <5>4. IsRun(a)' /\ (phase = "final" => actor'[a].pc = "metadata")
          BY <4>1, <4>3, <5>2 DEF AfterSave, IsRun
        <5> QED BY <4>1, <5>3, <5>4 DEF StateFits
      <4>4. CASE ~IsRun(a)
        BY <3>2, <4>1, <4>4 DEF StateFits, Saves, AfterSave
      <4> QED BY <4>3, <4>4
    <3> QED BY <2>1, <3>1, <3>2
  <2>3. \A i \in DOMAIN history' : \E t \in States : t = history'[i] /\ StateFits(t)'
    <3> SUFFICES ASSUME NEW i \in DOMAIN history'
                 PROVE  \E t \in States : t = history'[i] /\ StateFits(t)'
      OBVIOUS
    <3>1. CASE i = 1
      BY <2>1, <2>2, <3>1 DEF Longer
    <3>2. CASE i # 1
      <4>1. i - 1 \in DOMAIN history /\ history'[i] = history[i - 1]
        BY <2>1, <3>2 DEF Longer
      <4> QED BY <1>1, <1>2, <4>1
    <3> QED BY <3>1, <3>2
  <2> QED BY <2>3 DEF StatesFit
<1> QED BY <1>3, <1>4

LEMMA StepInitials ==
    ASSUME TypeInv, LockInv, StatesInv, NEW a \in Actor, Acting(a), actor[a].kind # "delete"
    PROVE  InitialIsSaved'
<1>0. InitialIsSaved /\ StatesFit /\ InHands /\ HeadInv
  BY DEF StatesInv, HistoryInv, ReadInv
<1>1. /\ Frame(a) /\ (actor[a].pc = "new" => actor[a].kind = "none")
      /\ actor[a].pc # "new" => Ages(a)
      /\ actor[a].pc = "new" => actor'[a].phase = "initial"
  <2>1. actor[a].pc = "new" => actor'[a].phase = "initial"
    BY OnlyArrives, ArriveDoes DEF Arrives
  <2> QED BY <2>1, ActingFrames, ActingAges DEF TypeInv, KindsFit, KindFits, New
<1> SUFFICES ASSUME NEW r \in Actor, actor'[r].kind = "run", actor'[r].phase = "final"
             PROVE  \E i \in DOMAIN history' :
                       /\ history'[i].id = <<r, "initial">>
                       /\ \A j \in DOMAIN history' : history'[j].id = <<r, "final">> => j < i
  BY DEF InitialIsSaved, IsRun
<1>2. actor[r].kind = "run" /\ (actor[r].phase = "final" \/ (r = a /\ CommitSave(a)))
  BY <1>1 DEF Frame, Ages
<1>3. CASE history' = history
  <2>1. actor[r].phase = "final"
    <3> SUFFICES ASSUME CommitSave(a) PROVE FALSE
      BY <1>2
    <3>1. history' = <<actor[a].state>> \o history /\ actor[a].state \in States
      <4>1. actor[a].pc = "commitSave" /\ history' = actor[a].states
        BY DEF CommitSave
      <4> QED BY <1>0, <4>1, OwnType DEF HeadInv, HistoryIsRead, Fits, Saving
    <3>2. Longer(actor[a].state)
      BY <3>1, Grown DEF TypeInv
    <3>3. Len(history) \in Nat
      BY DEF TypeInv, HistoryOK
    <3> QED BY <1>3, <3>2, <3>3 DEF Longer
  <2> QED BY <1>0, <1>2, <1>3, <2>1 DEF InitialIsSaved, IsRun
<1>4. CASE history' # history
  <2>1. PICK s \in States : /\ Longer(s)
                            /\ \/ s = EmptyState(a) /\ DOMAIN history = {}
                                  /\ CommitEnsure(a)
                               \/ CommitSave(a) /\ Saves(a, s)
    BY <1>0, <1>4, OneMore
  <2>2. CASE actor[r].phase = "final"
    <3>1. PICK i \in DOMAIN history :
             /\ history[i].id = <<r, "initial">>
             /\ \A j \in DOMAIN history : history[j].id = <<r, "final">> => j < i
      BY <1>0, <1>2, <2>2 DEF InitialIsSaved, IsRun
    <3>2. i \in Nat /\ i >= 1 /\ i + 1 \in DOMAIN history' /\ history'[i + 1] = history[i]
      BY <2>1 DEF Longer
    <3>3. ASSUME NEW j \in DOMAIN history', history'[j].id = <<r, "final">>
          PROVE  j < i + 1
      <4>1. CASE j = 1
        BY <3>2, <4>1
      <4>2. CASE j # 1
        <5>1. j \in Nat /\ j - 1 \in DOMAIN history /\ history'[j] = history[j - 1]
          BY <2>1, <4>2 DEF Longer
        <5>2. j - 1 < i
          BY <3>1, <3>3, <5>1
        <5> QED BY <3>2, <5>1, <5>2
      <4> QED BY <4>1, <4>2
    <3> QED BY <3>1, <3>2, <3>3
  <2>3. CASE actor[r].phase # "final"
    <3>1. r = a /\ CommitSave(a) /\ actor[a].phase = "initial" /\ IsRun(a)
      BY <1>2, <2>3, OwnType DEF CommitSave, IsRun
    <3>2. s.id = <<a, "initial">>
      <4>1. Saves(a, s)
        BY <2>1, <3>1 DEF CommitSave, CommitEnsure
      <4> QED BY <3>1, <4>1 DEF Saves, RunState
    <3>3. ASSUME NEW j \in DOMAIN history', history'[j].id = <<r, "final">>
          PROVE  FALSE
      <4>1. CASE j = 1
        BY <2>1, <3>1, <3>2, <3>3, <4>1 DEF Longer
      <4>2. CASE j # 1
        <5>1. j - 1 \in DOMAIN history /\ history[j - 1].id = <<r, "final">>
          BY <2>1, <3>3, <4>2 DEF Longer
        <5> QED BY <1>0, <2>3, <5>1, WhoseState
      <4> QED BY <4>1, <4>2
    <3> QED BY <2>1, <3>1, <3>2, <3>3 DEF Longer
  <2> QED BY <2>2, <2>3
<1> QED BY <1>3, <1>4

LEMMA WroteStill ==
    ASSUME TypeInv, LockInv, StatesInv, NEW a \in Actor, Acting(a), actor[a].kind # "delete",
           NEW id, Wrote(id)
    PROVE  Wrote(id)'
<1>0. InHands /\ HeadInv
  BY DEF StatesInv, ReadInv
<1>1. CASE history' = history
  BY <1>1 DEF Wrote
<1>2. CASE history' # history
  <2>1. PICK s \in States : Longer(s)
    BY <1>0, <1>2, OneMore
  <2> QED BY <2>1 DEF Longer, Wrote
<1> QED BY <1>1, <1>2

LEMMA BeginsStill ==
    ASSUME TypeInv, LockInv, StatesInv, NEW a \in Actor, Acting(a), actor[a].kind # "delete",
           NEW r \in Actor, NEW parent, Begins(r, parent), actor'[r].prior = actor[r].prior
    PROVE  Begins(r, parent)'
<1>0. StatesFit /\ InHands /\ HeadInv
  BY DEF StatesInv, HistoryInv, ReadInv
<1>1. Wrote(parent)' \/ (parent = <<r, "empty">> /\ actor'[r].prior = <<>>)
  BY WroteStill DEF Begins
<1>2. ASSUME NEW i \in DOMAIN history', history'[i].id = parent
      PROVE  history'[i].run # r /\ history'[i].messages = actor'[r].prior
  <2>1. CASE history' = history
    BY <1>2, <2>1 DEF Begins
  <2>2. CASE history' # history
    <3>1. PICK s \in States : /\ Longer(s)
                              /\ \/ s = EmptyState(a) /\ DOMAIN history = {}
                                    /\ CommitEnsure(a)
                                 \/ CommitSave(a) /\ Saves(a, s)
      BY <1>0, <2>2, OneMore
    <3>2. CASE i # 1
      <4>1. i - 1 \in DOMAIN history /\ history'[i] = history[i - 1]
        BY <3>1, <3>2 DEF Longer
      <4> QED BY <1>2, <4>1 DEF Begins
    <3>3. CASE i = 1
      <4>1. s.id = parent /\ history'[i] = s
        BY <1>2, <3>1, <3>3 DEF Longer
      <4>2. CASE CommitSave(a) /\ Saves(a, s)
        <5>1. ~Wrote(s.id) /\ s.id # <<r, "empty">>
          BY <1>0, <4>2, Fresh DEF CommitSave
        <5> QED BY <4>1, <5>1 DEF Begins
      <4>3. CASE s = EmptyState(a) /\ DOMAIN history = {}
        <5>1. actor[r].prior = <<>>
          BY <4>3 DEF Begins, Wrote
        <5>2. s.run = Nothing /\ s.messages = <<>> /\ r # Nothing
          BY <4>3, NothingIsNobody DEF EmptyState, State
        <5> QED BY <4>1, <5>1, <5>2
      <4> QED BY <3>1, <4>2, <4>3
    <3> QED BY <3>2, <3>3
  <2> QED BY <2>1, <2>2
<1> QED BY <1>1, <1>2 DEF Begins

LEMMA PriorStays ==
    ASSUME TypeInv, NEW a \in Actor, Acting(a), NEW r \in Actor,
           (actor[r].phase = "final" /\ IsRun(r)) \/ r # a
    PROVE  actor'[r].prior = actor[r].prior
<1>1. Frame(a)
  BY ActingFrames
<1>2. CASE r = a
  <2>1. actor[a].pc # "new"
    BY <1>2 DEF TypeInv, KindsFit, KindFits, New, IsRun
  <2> QED BY <1>2, <2>1, ActingAges DEF Ages
<1> QED BY <1>1, <1>2 DEF Frame

LEMMA StepParents ==
    ASSUME TypeInv, LockInv, StatesInv, NEW a \in Actor, Acting(a), actor[a].kind # "delete"
    PROVE  ParentsFit'
<1>0. ParentsFit /\ StatesFit /\ InHands /\ HeadInv
  BY DEF StatesInv, HistoryInv, ReadInv
<1>1. ASSUME NEW r \in Actor, NEW i \in DOMAIN history, history[i].id = <<r, "initial">>
      PROVE  \A parent : parent = history[i].parent => Begins(r, parent)'
  <2>1. Begins(r, history[i].parent)
    BY <1>0, <1>1 DEF ParentsFit
  <2>2. actor[r].phase = "final" /\ IsRun(r)
    BY <1>0, <1>1, WhoseState
  <2>3. actor'[r].prior = actor[r].prior
    BY <2>2, PriorStays
  <2> QED BY <2>1, <2>3, BeginsStill
<1> SUFFICES ASSUME NEW r \in Actor, NEW i \in DOMAIN history',
                    history'[i].id = <<r, "initial">>
             PROVE  \E parent : parent = history'[i].parent /\ Begins(r, parent)'
  BY DEF ParentsFit
<1>2. CASE history' = history
  BY <1>1, <1>2
<1>3. CASE history' # history
  <2>1. PICK s \in States : /\ Longer(s)
                            /\ \/ s = EmptyState(a) /\ DOMAIN history = {}
                                  /\ CommitEnsure(a)
                               \/ CommitSave(a) /\ Saves(a, s)
    BY <1>0, <1>3, OneMore
  <2>2. CASE i # 1
    <3>1. i - 1 \in DOMAIN history /\ history'[i] = history[i - 1]
      BY <2>1, <2>2 DEF Longer
    <3> QED BY <1>1, <3>1
  <2>3. CASE i = 1
    <3>1. history'[i] = s /\ s.id = <<r, "initial">>
      BY <2>1, <2>3 DEF Longer
    <3>2. s # EmptyState(a)
      BY <3>1 DEF EmptyState, State
    <3>3. CommitSave(a) /\ Saves(a, s)
      BY <2>1, <3>2
    <3>4. IsRun(a) /\ r = a /\ actor[a].phase = "initial"
      <4>1. CASE IsRun(a)
        <5>1. s.id = <<a, actor[a].phase>>
          BY <3>3, <4>1 DEF Saves, RunState
        <5> QED BY <3>1, <4>1, <5>1
      <4>2. CASE ~IsRun(a)
        <5>1. s.id = <<a, "update">>
          BY <3>3, <4>2 DEF Saves
        <5> QED BY <3>1, <5>1
      <4> QED BY <4>1, <4>2
    <3>5. Begins(a, s.parent)
      BY <3>3, <3>4 DEF Saves
    <3>6. actor'[a].prior = actor[a].prior
      BY <3>3, CommitSaveDoes DEF Acts
    <3> QED BY <3>1, <3>4, <3>5, <3>6, BeginsStill
  <2> QED BY <2>2, <2>3
<1> QED BY <1>2, <1>3

\* A run begins with the state it finds in the row, or with the empty one.
LEMMA BeginsWithRow ==
    ASSUME TypeInv, StatesInv, NEW a \in Actor, IsRun(a), actor[a].phase = "initial",
           row # Absent, EnsureThread(a)
    PROVE  Begins(a, row.state.id)'
<1>0. HeadOK /\ IdsDiffer /\ StatesFit /\ history \in Seq(States)
  BY DEF StatesInv, HeadInv, HistoryInv, TypeInv, HistoryOK
<1>1. /\ UNCHANGED <<row, history>>
      /\ actor'[a].prior = row.state.messages
  <2>1. UNCHANGED <<row, history>> /\ Ensured(a, row) /\ row \in Rows
    BY DEF EnsureThread, tables, TypeInv, RowOK
  <2> QED BY <2>1, EnsuredActs DEF TypeInv, Acts
<1>2. row.state = history[1] /\ 1 \in DOMAIN history
  BY <1>0 DEF HeadOK, None
<1>3. history[1].run # a
  BY <1>0, <1>2, WhoseState
<1>4. \A i \in DOMAIN history : history[i].id = row.state.id => i = 1
  BY <1>0, <1>2 DEF IdsDiffer
<1> QED BY <1>1, <1>2, <1>3, <1>4 DEF Begins, Wrote

EmptyFits ==
    \A a \in Actor : \A i \in DOMAIN history :
        history[i].id = <<a, "empty">> =>
            history[i].run = Nothing /\ history[i].messages = <<>>

LEMMA EmptyIsEmpty == TypeInv /\ StatesFit => EmptyFits
BY WhoseState DEF EmptyFits

LEMMA OwnHand ==
    ASSUME TypeInv, LockInv, StatesInv, NEW a \in Actor, Acting(a), actor[a].kind # "delete"
    PROVE  InHand(a)'
<1>0. /\ StatesFit /\ InHands /\ HeadInv /\ InHand(a)
      /\ actor'[a].pc \in {"save"} \cup Saving => actor[a].pc # "new"
  BY ActingComes DEF StatesInv, HistoryInv, ReadInv, InHands, ComesFrom, Saving, EnsureThread,
     CommitEnsure, UpsertThread, LockHistory, WriteHistory
<1>1. CASE EnsureThread(a)
  <2>1. /\ actor'[a].kind = actor[a].kind /\ actor'[a].phase = actor[a].phase
        /\ actor'[a].pc \in {"insertThread", "done", "save"}
        /\ actor'[a].pc = "save" => row # Absent /\ actor'[a].thread = row
    BY <1>1, EnsureDoes DEF Moves, Acts
  <2>2. UNCHANGED row
    BY <1>1 DEF EnsureThread, tables
  <2>3. ASSUME actor'[a].pc = "save", actor'[a].kind = "run", actor'[a].phase = "initial"
        PROVE  \E id : id = actor'[a].thread.state.id /\ Begins(a, id)'
    <3>1. Begins(a, row.state.id)'
      BY <1>1, <2>1, <2>3, BeginsWithRow DEF IsRun
    <3> QED BY <2>1, <2>2, <2>3, <3>1
  <2> QED BY <2>1, <2>3 DEF InHand, IsRun, Saving
<1>2. CASE CommitEnsure(a)
  <2>1. /\ actor'[a].kind = actor[a].kind /\ actor'[a].phase = actor[a].phase
        /\ actor'[a].pc \in {"done", "save"}
        /\ actor'[a].thread = Row(EmptyState(a), {})
        /\ actor'[a].phase = "initial" => actor'[a].prior = <<>>
    BY <1>2, CommitEnsureDoes DEF Acts
  <2>2. actor'[a].thread.state.id = <<a, "empty">>
    BY <2>1, RowIsThere DEF EmptyState, State
  <2>3. StatesFit' /\ TypeInv'
    BY <1>2, StepStatesFit, CommitEnsureDoes
  <2>4. \A i \in DOMAIN history' : history'[i].id = <<a, "empty">> =>
           history'[i].run = Nothing /\ history'[i].messages = <<>>
    <3>1. EmptyFits'
      BY <2>3, EmptyIsEmpty, PTL
    <3> QED BY <3>1 DEF EmptyFits
  <2> QED BY <2>1, <2>2, <2>4, NothingIsNobody DEF InHand, IsRun, Saving, Begins
<1>3. CASE UpsertThread(a)
  <2>1. PICK s \in NewStates(a) \cap States :
           Acts(a, "lockHistory", actor[a].thread, s, actor[a].states, actor[a].phase,
                actor[a].prior, actor[a].outcome)
    BY <1>3, UpsertDoes
  <2>2. /\ UNCHANGED history /\ actor[a].pc = "save" /\ actor[a].kind \in {"update", "run"}
        /\ actor[a].thread \in Rows /\ actor[a].phase \in {"initial", "final"}
    BY <1>3, OwnType DEF UpsertThread, tables, Fits
  <2>3. actor[a].thread.state.id # Nothing
    BY <2>2, NothingIsNoCheckpoint DEF Rows, States
  <2>4. CASE IsRun(a)
    <3>1. s.parent = actor[a].thread.state.id /\ RunState(s, a, actor[a].phase)
      <4>1. s = State(<<a, actor[a].phase>>, actor[a].thread.state.id, a,
                      actor[a].prior \o IF actor[a].phase = "initial" THEN <<<<a, "user">>>>
                                        ELSE <<<<a, "user">>, <<a, "answer">>>>)
        BY <2>1, <2>4 DEF NewStates
      <4> QED BY <2>3, <4>1 DEF State, RunState
    <3>2. /\ IsRun(a)' /\ actor'[a].phase = actor[a].phase /\ actor'[a].state = s
          /\ actor'[a].prior = actor[a].prior /\ actor'[a].pc = "lockHistory"
      BY <2>1, <2>4 DEF Acts, IsRun
    <3>3. actor[a].phase = "initial" => Begins(a, s.parent)
      BY <1>0, <2>2, <2>4, <3>1 DEF InHand
    <3>4. \E phase \in {"initial", "final"} : phase = actor'[a].phase /\ RunState(s, a, phase)'
      BY <2>2, <3>1, <3>2 DEF RunState
    <3>5. actor[a].phase = "initial" => Begins(a, s.parent)'
      BY <2>2, <3>2, <3>3 DEF Begins, Wrote
    <3> QED BY <3>2, <3>4, <3>5 DEF InHand
  <2>5. CASE ~IsRun(a)
    <3>1. s.run = Nothing /\ s.id = <<a, "update">>
      BY <2>1, <2>5 DEF NewStates, State
    <3> QED BY <2>1, <2>5, <3>1 DEF InHand, Acts, IsRun
  <2> QED BY <2>4, <2>5
<1>4. CASE LockHistory(a) \/ WriteHistory(a)
  <2>1. /\ UNCHANGED history /\ actor'[a].pc \in Saving /\ actor[a].pc \in Saving
        /\ actor'[a].kind = actor[a].kind /\ actor'[a].state = actor[a].state
        /\ actor'[a].phase = actor[a].phase /\ actor'[a].prior = actor[a].prior
    BY <1>4, LockHistoryDoes, WriteHistoryDoes
    DEF LocksTo, Moves, Acts, tables, Saving, LockHistory, WriteHistory
  <2> QED BY <1>0, <2>1 DEF InHand, IsRun, RunState, Begins, Wrote, Saving
<1>5. CASE ~(\/ EnsureThread(a)
             \/ CommitEnsure(a)
             \/ UpsertThread(a)
             \/ LockHistory(a) \/ WriteHistory(a))
  BY <1>5, ActingComes DEF ComesFrom, InHand, Saving
<1> QED BY <1>1, <1>2, <1>3, <1>4, <1>5

LEMMA StepHands ==
    ASSUME TypeInv, LockInv, StatesInv, NEW a \in Actor, Acting(a), actor[a].kind # "delete"
    PROVE  InHands'
<1>1. ASSUME NEW b \in Actor, b # a PROVE InHand(b)'
  <2>1. actor'[b] = actor[b] /\ InHand(b)
    BY <1>1, ActingFrames DEF Frame, StatesInv, ReadInv, InHands
  <2>2. \A parent : Begins(b, parent) => Begins(b, parent)'
    BY <2>1, BeginsStill
  <2> QED BY <2>1, <2>2 DEF InHand, IsRun, RunState
<1>2. InHand(a)'
  BY OwnHand
<1> QED BY <1>1, <1>2 DEF InHands

LEMMA StepFinal ==
    ASSUME TypeInv, LockInv, StatesInv, NEW a \in Actor, Acting(a), actor[a].kind # "delete"
    PROVE  FinalIsSaved'
<1>0. FinalIsSaved /\ InHands /\ HeadInv
  BY DEF StatesInv, ReadInv
<1> SUFFICES ASSUME NEW r \in Actor, actor'[r].kind = "run", actor'[r].outcome = "success",
                    actor'[r].pc \in {"metadata", "writeMetadata", "getHistory"}
             PROVE  Wrote(<<r, "final">>)'
  BY DEF FinalIsSaved, IsRun
<1>1. ASSUME actor[r].kind = "run", actor[r].outcome = "success",
             actor[r].pc \in {"metadata", "writeMetadata", "getHistory"}
      PROVE  Wrote(<<r, "final">>)'
  BY <1>0, <1>1, WroteStill DEF FinalIsSaved, IsRun
<1>2. CASE r # a
  BY <1>1, <1>2, ActingFrames DEF Frame
<1>3. CASE r = a /\ CommitSave(a)
  <2>1. actor'[a].pc = AfterSave(a) /\ actor'[a].kind = actor[a].kind
    BY <1>3, CommitSaveDoes DEF Acts
  <2>2. IsRun(a) /\ actor[a].phase = "final" /\ actor[a].pc = "commitSave"
    BY <1>3, <2>1, OwnType DEF AfterSave, IsRun, CommitSave
  <2>3. Saves(a, actor[a].state) /\ actor[a].state \in States
    BY <1>0, <2>2, WhatIsSaved DEF Saving
  <2>4. history' = <<actor[a].state>> \o history
    BY <1>0, <1>3, <2>2 DEF CommitSave, HeadInv, HistoryIsRead
  <2>5. Longer(actor[a].state)
    BY <2>3, <2>4, Grown DEF TypeInv
  <2>6. actor[a].state.id = <<a, "final">>
    BY <2>2, <2>3 DEF Saves, RunState
  <2> QED BY <1>3, <2>5, <2>6 DEF Longer, Wrote
<1>4. CASE r = a /\ ~CommitSave(a)
  <2>1. actor[a].pc # "new"
    <3> SUFFICES ASSUME actor[a].pc = "new" PROVE FALSE
      OBVIOUS
    <3>1. \E kind \in Kinds, p \in Process : Arrive(a, kind, p)
      BY OnlyArrives
    <3> QED BY <1>4, <3>1, ArriveDoes DEF Arrives
  <2>2. ReadMetadata(a) \/ WriteMetadata(a)
    BY <1>4, <2>1, ActingComes DEF ComesFrom
  <2>3. actor[a].pc \in {"metadata", "writeMetadata"}
    BY <2>2 DEF ReadMetadata, WriteMetadata
  <2>4. actor[a].kind = "run" /\ actor[a].outcome = "success"
    BY <1>4, <2>2, MetadataDoes DEF Moves, Acts
  <2> QED BY <1>1, <1>4, <2>3, <2>4
<1> QED BY <1>2, <1>3, <1>4
-----------------------------------------------------------------------------
(* The projection of the states of a run.                                  *)

LEMMA Behind ==
    ASSUME NEW S, NEW p \in Seq(S), NEW n \in Seq(S)
    PROVE  SubSeq(p \o n, Len(p) + 1, Len(p \o n)) = n
<1> DEFINE m == p \o n
           q == SubSeq(m, Len(p) + 1, Len(m))
<1>1. /\ m \in Seq(S) /\ Len(m) = Len(p) + Len(n) /\ Len(p) \in Nat /\ Len(n) \in Nat
      /\ \A i \in 1..Len(n) : m[Len(p) + i] = n[i]
  <2>1. /\ m \in Seq(S) /\ Len(m) = Len(p) + Len(n) /\ Len(p) \in Nat /\ Len(n) \in Nat
        /\ \A i \in 1..(Len(p) + Len(n)) : m[i] = IF i <= Len(p) THEN p[i] ELSE n[i - Len(p)]
    BY ConcatProperties
  <2> HIDE DEF m
  <2> QED BY <2>1, SMTT(30)
<1>2. \A i \in (Len(p) + 1)..Len(m) : m[i] \in S
  <2> HIDE DEF m
  <2> QED BY <1>1
<1>3. /\ q \in Seq(S) /\ Len(q) = Len(n)
      /\ \A i \in 1..Len(n) : q[i] = n[i]
  <2> HIDE DEF m
  <2>1. /\ q \in Seq(S)
        /\ Len(q) = IF Len(p) + 1 <= Len(m) THEN Len(m) - (Len(p) + 1) + 1 ELSE 0
        /\ \A i \in 1..(Len(m) - (Len(p) + 1) + 1) : q[i] = m[(Len(p) + 1) + i - 1]
    BY <1>1, <1>2, SubSeqProperties, SMTT(30)
  <2> HIDE DEF q
  <2>2. Len(q) = Len(n)
    <3>1. CASE Len(n) = 0
      BY <1>1, <2>1, <3>1
    <3>2. CASE Len(n) > 0
      BY <1>1, <2>1, <3>2
    <3> QED BY <1>1, <3>1, <3>2
  <2>3. ASSUME NEW i \in 1..Len(n) PROVE q[i] = n[i]
    <3>1. (Len(p) + 1) + i - 1 = Len(p) + i /\ i \in 1..(Len(m) - (Len(p) + 1) + 1)
      BY <1>1
    <3> QED BY <1>1, <2>1, <3>1
  <2> QED BY <2>1, <2>2, <2>3
<1> HIDE DEF q
<1>4. q = n
  BY <1>3, SeqEqual
<1> QED BY <1>4 DEF q

\* The states of a run, the oldest of them, and one step back from it.
OwnStates(states, r) == {k \in DOMAIN states : states[k].run = r}
FirstState(states, r) ==
    states[CHOOSE k \in OwnStates(states, r) : \A j \in OwnStates(states, r) : j <= k]
LatestState(states, r) ==
    states[CHOOSE k \in OwnStates(states, r) : \A j \in OwnStates(states, r) : k <= j]
BackStep(g, states, r) ==
    [id \in {s.parent : s \in Range(states)} |->
        IF id = Nothing THEN Len(FirstState(states, r).messages) - 1
        ELSE IF ~Known(states, id) THEN 0
        ELSE IF StateOf(states, id).run # r THEN Len(StateOf(states, id).messages)
        ELSE g[StateOf(states, id).parent]]

\* The recursion of previous_message_count_for_run has a value if there is a
\* function that is what it asks for.
LEMMA BackIs ==
    ASSUME NEW states, NEW r, OwnStates(states, r) # {},
           NEW f, f = BackStep(f, states, r)
    PROVE  \E g : g = BackStep(g, states, r)
                  /\ PreviousMessageCount(states, r) = g[FirstState(states, r).parent]
<1> DEFINE G == CHOOSE g : g = BackStep(g, states, r)
<1>1. PreviousMessageCount(states, r) = G[FirstState(states, r).parent]
  BY DEF PreviousMessageCount, OwnStates, FirstState, BackStep
<1>2. G = BackStep(G, states, r)
  OBVIOUS
<1> HIDE DEF G
<1> QED BY <1>1, <1>2

LEMMA StateOfIs ==
    ASSUME IdsDiffer
    PROVE  /\ \A id : Known(history, id) <=> Wrote(id)
           /\ \A k \in DOMAIN history : StateOf(history, history[k].id) = history[k]
<1>1. \A id : Known(history, id) <=> Wrote(id)
  BY DEF Known, Wrote, Range
<1>2. ASSUME NEW k \in DOMAIN history
      PROVE  StateOf(history, history[k].id) = history[k]
  <2>1. history[k] \in Range(history)
    BY DEF Range
  <2>2. \A s \in Range(history) : s.id = history[k].id => s = history[k]
    BY DEF Range, IdsDiffer
  <2> QED BY <2>1, <2>2 DEF StateOf
<1> QED BY <1>1, <1>2

\* Of a run that saved something: its first state is i.
First(r, i) ==
    /\ i \in DOMAIN history /\ history[i].id = <<r, "initial">>
    /\ RunState(history[i], r, "initial")
    /\ FirstState(history, r) = history[i] /\ i \in OwnStates(history, r)
    /\ \A k \in OwnStates(history, r) :
          k = i \/ (k < i /\ history[k].id = <<r, "final">> /\ RunState(history[k], r, "final"))

LEMMA FirstIs ==
    ASSUME TypeInv, HistoryInv, NEW r \in Actor, OwnStates(history, r) # {}
    PROVE  \E i \in DOMAIN history : First(r, i)
<1>0. StatesFit /\ IdsDiffer /\ InitialIsSaved /\ history \in Seq(States)
  BY DEF HistoryInv, TypeInv, HistoryOK
<1>1. IsRun(r) /\ actor[r].phase = "final"
  BY <1>0, WhoseState DEF OwnStates
<1>2. PICK i \in DOMAIN history :
         /\ history[i].id = <<r, "initial">>
         /\ \A j \in DOMAIN history : history[j].id = <<r, "final">> => j < i
  BY <1>0, <1>1 DEF InitialIsSaved
<1>3. RunState(history[i], r, "initial") /\ i \in OwnStates(history, r)
  BY <1>0, <1>2, WhoseState DEF OwnStates
<1>4. ASSUME NEW k \in OwnStates(history, r)
      PROVE  k = i \/ (k < i /\ history[k].id = <<r, "final">> /\ RunState(history[k], r, "final"))
  <2>1. PICK phase \in {"initial", "final"} : RunState(history[k], r, phase)
    BY <1>0, WhoseState DEF OwnStates
  <2>2. history[k].id = <<r, phase>> /\ k \in DOMAIN history
    BY <2>1 DEF RunState, OwnStates
  <2>3. CASE phase = "initial"
    BY <1>0, <1>2, <2>2, <2>3 DEF IdsDiffer
  <2>4. CASE phase = "final"
    BY <1>2, <2>1, <2>2, <2>4
  <2> QED BY <2>3, <2>4
<1>5. i \in Nat /\ \A k \in OwnStates(history, r) : k \in Nat /\ k <= i
  <2>1. DOMAIN history \subseteq Nat
    BY <1>0
  <2> QED BY <1>4, <2>1 DEF OwnStates
<1>6. i = CHOOSE k \in OwnStates(history, r) : \A j \in OwnStates(history, r) : j <= k
  <2>1. \A k \in OwnStates(history, r) : (\A j \in OwnStates(history, r) : j <= k) => k = i
    BY <1>3, <1>5
  <2> QED BY <1>3, <1>5, <2>1
<1> QED BY <1>2, <1>3, <1>4, <1>6 DEF First, FirstState

LEMMA PreviousMessages ==
    ASSUME TypeInv, HistoryInv, NEW r \in Actor, OwnStates(history, r) # {}
    PROVE  PreviousMessageCount(history, r) = Len(actor[r].prior)
<1>0. StatesFit /\ IdsDiffer /\ ParentsFit /\ history \in Seq(States)
  BY DEF HistoryInv, TypeInv, HistoryOK
<1>1. PICK i \in DOMAIN history : First(r, i)
  BY FirstIs
<1> DEFINE S == {s.parent : s \in Range(history)}
           p == history[i].parent
           n == Len(actor[r].prior)
           Base(id) == IF id = Nothing THEN Len(FirstState(history, r).messages) - 1
                       ELSE IF ~Known(history, id) THEN 0
                       ELSE Len(StateOf(history, id).messages)
           Own(id) == id # Nothing /\ Known(history, id) /\ StateOf(history, id).run = r
           Parent(id) == StateOf(history, id).parent
           f == [id \in S |-> IF ~Own(id) THEN Base(id)
                              ELSE IF Own(Parent(id)) THEN n ELSE Base(Parent(id))]
<1>2. p \in S /\ FirstState(history, r).parent = p /\ p # Nothing
  BY <1>1 DEF First, RunState, Range
<1>3. Begins(r, p)
  BY <1>0, <1>1 DEF ParentsFit, First
<1>4. /\ Known(history, p) => /\ StateOf(history, p).run # r
                              /\ StateOf(history, p).messages = actor[r].prior
      /\ ~Known(history, p) => actor[r].prior = <<>>
  <2>1. ASSUME Known(history, p)
        PROVE  StateOf(history, p).run # r /\ StateOf(history, p).messages = actor[r].prior
    <3>1. PICK k \in DOMAIN history : history[k].id = p
      BY <1>0, <2>1, StateOfIs DEF Wrote
    <3>2. StateOf(history, p) = history[k]
      BY <1>0, <3>1, StateOfIs
    <3> QED BY <1>3, <3>1, <3>2 DEF Begins
  <2>2. ~Known(history, p) => actor[r].prior = <<>>
    BY <1>0, <1>3, StateOfIs DEF Begins
  <2> QED BY <2>1, <2>2
<1>5. ~Own(p) /\ Base(p) = n
  BY <1>2, <1>4
<1>6. ASSUME NEW id, Own(id)
      PROVE  /\ Parent(id) \in S
             /\ id = <<r, "initial">> => Parent(id) = p
             /\ id \in {<<r, "initial">>, <<r, "final">>}
  <2>1. PICK k \in DOMAIN history : history[k].id = id
    BY <1>0, <1>6, StateOfIs DEF Wrote
  <2>2. StateOf(history, id) = history[k]
    BY <1>0, <2>1, StateOfIs
  <2>3. k \in OwnStates(history, r)
    BY <1>6, <2>2 DEF OwnStates
  <2>4. id \in {<<r, "initial">>, <<r, "final">>}
    BY <1>1, <2>1, <2>3 DEF First
  <2>5. id = <<r, "initial">> => k = i
    BY <1>0, <1>1, <2>1 DEF First, IdsDiffer
  <2> QED BY <2>2, <2>4, <2>5 DEF Range
<1>7. f = BackStep(f, history, r)
  <2>1. ASSUME NEW id \in S
        PROVE  f[id] = IF id = Nothing THEN Len(FirstState(history, r).messages) - 1
                       ELSE IF ~Known(history, id) THEN 0
                       ELSE IF StateOf(history, id).run # r
                            THEN Len(StateOf(history, id).messages)
                       ELSE f[StateOf(history, id).parent]
    <3>1. CASE ~Own(id)
      <4>1. f[id] = Base(id)
        BY <3>1
      <4> QED BY <3>1, <4>1
    <3>2. CASE Own(id)
      <4>1. Parent(id) \in S
        BY <1>6, <3>2
      <4>2. f[id] = f[Parent(id)]
        <5>1. CASE ~Own(Parent(id))
          <6>1. f[Parent(id)] = Base(Parent(id)) /\ f[id] = Base(Parent(id))
            BY <3>2, <4>1, <5>1
          <6> QED BY <6>1
        <5>2. CASE Own(Parent(id))
          <6>1. id = <<r, "final">>
            BY <1>5, <1>6, <3>2, <5>2
          <6>2. f[id] = n
            BY <3>2, <5>2
          <6>3. CASE Parent(id) = <<r, "initial">>
            <7>1. Parent(Parent(id)) = p
              BY <1>6, <5>2, <6>3
            <7>2. f[Parent(id)] = Base(p)
              BY <1>5, <4>1, <5>2, <7>1
            <7> QED BY <1>5, <6>2, <7>2
          <6>4. CASE Parent(id) = <<r, "final">>
            BY <6>1, <6>4
          <6> QED BY <1>6, <5>2, <6>3, <6>4
        <5> QED BY <5>1, <5>2
      <4> HIDE DEF f
      <4> QED BY <3>2, <4>2
    <3> QED BY <3>1, <3>2
  <2>2. f = [id \in S |-> f[id]]
    OBVIOUS
  <2> HIDE DEF f
  <2> QED BY <2>1, <2>2 DEF BackStep
<1> HIDE DEF f
<1>8. PICK g : /\ g = BackStep(g, history, r)
               /\ PreviousMessageCount(history, r) = g[FirstState(history, r).parent]
  BY <1>7, BackIs
<1>9. g[p] = n
  <2>1. g[p] = IF p = Nothing THEN Len(FirstState(history, r).messages) - 1
               ELSE IF ~Known(history, p) THEN 0
               ELSE IF StateOf(history, p).run # r THEN Len(StateOf(history, p).messages)
               ELSE g[StateOf(history, p).parent]
    BY <1>2, <1>8 DEF BackStep
  <2> QED BY <1>2, <1>4, <2>1
<1> QED BY <1>2, <1>8, <1>9

LEMMA ProjectOwn ==
    ASSUME TypeInv, HistoryInv, NEW r \in Actor,
           actor[r].outcome = "success" => Wrote(<<r, "final">>)
    PROVE  Shows(r, Project(history, r))
<1> DEFINE own == OwnStates(history, r)
           user == <<<<r, "user">>>>
           both == <<<<r, "user">>, <<r, "answer">>>>
<1>0. StatesFit /\ IdsDiffer /\ history \in Seq(States) /\ actor[r].prior \in Seq(Message)
  BY DEF HistoryInv, TypeInv, HistoryOK, ActorOK, ActorState
<1>1. ASSUME actor[r].outcome = "success"
      PROVE  \E k \in own : history[k].id = <<r, "final">>
  <2>1. PICK k \in DOMAIN history : history[k].id = <<r, "final">>
    BY <1>1 DEF Wrote
  <2> QED BY <1>0, <2>1, WhoseState DEF OwnStates
<1>2. CASE own = {}
  <2>1. Project(history, r) = <<>>
    BY <1>2 DEF Project, OwnStates
  <2> QED BY <1>1, <1>2, <2>1 DEF Shows
<1>3. CASE own # {}
  <2>1. PICK i \in DOMAIN history : First(r, i)
    BY <1>3, FirstIs
  <2>2. own \subseteq Nat /\ i \in own
    BY <1>0, <2>1 DEF OwnStates, First
  <2>3. \A k \in own : k = i \/ (k < i /\ history[k].id = <<r, "final">>
                                 /\ RunState(history[k], r, "final"))
    BY <2>1 DEF First
  <2>4. \A j, k \in own : j # i /\ k # i => j = k
    BY <1>0, <2>3 DEF IdsDiffer, OwnStates
  <2>5. \E k \in own : \A j \in own : k <= j
    <3>1. CASE \A j \in own : j = i
      BY <2>2, <3>1
    <3>2. CASE \E j \in own : j # i
      <4>1. PICK j \in own : j # i
        BY <3>2
      <4>2. \A k \in own : j <= k
        BY <2>2, <2>3, <2>4, <4>1
      <4> QED BY <4>2
    <3> QED BY <3>1, <3>2
  <2>6. PICK l \in own : (\A j \in own : l <= j) /\ LatestState(history, r) = history[l]
    BY <2>5 DEF LatestState
  <2>7. /\ Project(history, r) = SubSeq(history[l].messages,
                                       PreviousMessageCount(history, r) + 1,
                                       Len(history[l].messages))
        /\ PreviousMessageCount(history, r) = Len(actor[r].prior)
    <3>1. Project(history, r) = SubSeq(LatestState(history, r).messages,
                                       PreviousMessageCount(history, r) + 1,
                                       Len(LatestState(history, r).messages))
      BY <1>3 DEF Project, LatestState, OwnStates
    <3> QED BY <1>3, <2>6, <3>1, PreviousMessages
  <2>8. user \in Seq(Message) /\ both \in Seq(Message)
    BY MessagesTyped
  <2>9. CASE l = i
    <3>1. history[l].messages = actor[r].prior \o user
      BY <2>1, <2>9 DEF First, RunState
    <3>2. Project(history, r) = user
      <4> DEFINE p == actor[r].prior
      <4>1. SubSeq(p \o user, Len(p) + 1, Len(p \o user)) = user
        BY <1>0, <2>8, Behind
      <4>2. Project(history, r) = SubSeq(p \o user, Len(p) + 1, Len(p \o user))
        BY <2>7, <3>1
      <4> QED BY <4>1, <4>2
    <3>3. actor[r].outcome # "success"
      <4> SUFFICES ASSUME NEW k \in own, history[k].id = <<r, "final">> PROVE FALSE
        BY <1>1
      <4>1. k # i
        BY <2>1 DEF First
      <4> QED BY <2>2, <2>3, <2>6, <2>9, <4>1
    <3> QED BY <3>2, <3>3 DEF Shows
  <2>10. CASE l # i
    <3>1. history[l].messages = actor[r].prior \o both
      BY <2>3, <2>10 DEF RunState
    <3>2. Project(history, r) = both
      <4> DEFINE p == actor[r].prior
      <4>1. SubSeq(p \o both, Len(p) + 1, Len(p \o both)) = both
        BY <1>0, <2>8, Behind
      <4>2. Project(history, r) = SubSeq(p \o both, Len(p) + 1, Len(p \o both))
        BY <2>7, <3>1
      <4> QED BY <4>1, <4>2
    <3> QED BY <3>2 DEF Shows
  <2> QED BY <2>9, <2>10
<1> QED BY <1>2, <1>3

\* What SnapshotInv says of one run.
SnapshotOf(r) ==
    /\ actor[r].pc = "snapshot" /\ Len(history) <= Limit =>
          Shows(r, Project(actor[r].states, r))
    /\ snapshots[r].saved /\ Len(history) <= Limit => Shows(r, snapshots[r].messages)
    /\ snapshots[r].saved => actor[r].pc \in {"outcome", "done"}
    /\ runs[r] = "success" => actor[r].pc = "done" /\ actor[r].outcome = "success"

LEMMA NeverShorter ==
    ASSUME TypeInv, LockInv, StatesInv, NEW a \in Actor, Acting(a), actor[a].kind # "delete",
           Len(history') <= Limit
    PROVE  Len(history) <= Limit
<1>0. InHands /\ HeadInv /\ Len(history) \in Nat /\ Limit \in Nat
  BY ConstantsAssumption DEF StatesInv, ReadInv, TypeInv, HistoryOK
<1>1. CASE history' = history
  BY <1>1
<1>2. CASE history' # history
  <2>1. PICK s \in States : Longer(s)
    BY <1>0, <1>2, OneMore
  <2> QED BY <1>0, <2>1 DEF Longer
<1> QED BY <1>1, <1>2

\* Only a run itself writes its snapshot and its row.
LEMMA RunRowsStay ==
    ASSUME TypeInv, NEW a \in Actor, Acting(a), actor[a].kind # "delete"
    PROVE  /\ \A r \in Actor : r # a => runs'[r] = runs[r] /\ snapshots'[r] = snapshots[r]
           /\ ~(SaveSnapshot(a) \/ SnapshotFails(a)) => UNCHANGED snapshots
           /\ ~(StartRun(a) \/ SaveOutcome(a)) => UNCHANGED runs
<1>1. ~CommitDelete(a)
  BY CommitDeleteDoes
<1>2. CASE StartRun(a) \/ SaveOutcome(a)
  <2>1. UNCHANGED snapshots /\ \A r \in Actor : r # a => runs'[r] = runs[r]
    BY <1>2, RunRowsDo DEF StartRun, SaveOutcome, SaveRun
  <2> QED BY <1>2, <2>1
<1>3. CASE SaveSnapshot(a) \/ SnapshotFails(a)
  <2>1. /\ \/ snapshots' = snapshots
           \/ snapshots' = [snapshots EXCEPT ![a] = Snapshot(Project(actor[a].states, a))]
        /\ UNCHANGED runs
    BY <1>3, ProjectionDoes
  <2>2. \A r \in Actor : r # a => snapshots'[r] = snapshots[r]
    BY <2>1 DEF TypeInv, SnapshotsOK
  <2> QED BY <1>3, <2>1, <2>2
<1>4. CASE ~(\/ StartRun(a) \/ SaveOutcome(a)
             \/ SaveSnapshot(a) \/ SnapshotFails(a))
  <2>1. UNCHANGED <<runs, snapshots>>
    BY <1>1, <1>4 DEF Acting, Step, Arrive, EnsureThread, InsertThread, InsertHistory,
       CommitEnsure, UpsertThread, LockHistory, WriteHistory, CommitSave, ReadMetadata,
       WriteMetadata, GetHistory, DeleteRuns, DeleteHistory, DeleteThread, DeadlockDetected,
       ConnectionLost, Fail, tables
  <2> QED BY <1>4, <2>1
<1> QED BY <1>2, <1>3, <1>4

LEMMA OwnSnapshot ==
    ASSUME TypeInv, LockInv, StatesInv, SnapshotInv, NEW a \in Actor, Acting(a),
           actor[a].kind # "delete"
    PROVE  SnapshotOf(a)'
<1>0. SnapshotOf(a) /\ HistoryInv /\ FinalIsSaved
  BY DEF SnapshotInv, SnapshotOf, StatesInv, ReadInv
<1>1. CASE StartRun(a)
  <2>1. /\ actor'[a].pc = "ensure" /\ actor[a].pc = "start" /\ runs'[a] = "running"
        /\ UNCHANGED snapshots
    BY <1>1, RunRowsDo DEF Moves, Acts, StartRun, SaveRun
  <2> QED BY <1>0, <2>1 DEF SnapshotOf
<1>2. CASE SaveOutcome(a)
  <2>1. /\ actor'[a].pc = "done" /\ actor[a].pc = "outcome" /\ runs'[a] = actor[a].outcome
        /\ actor'[a].outcome = actor[a].outcome /\ UNCHANGED <<snapshots, history>>
    BY <1>2, RunRowsDo DEF Moves, Acts, SaveOutcome, SaveRun
  <2> QED BY <1>0, <2>1 DEF SnapshotOf, Shows
<1>3. CASE GetHistory(a)
  <2>1. /\ actor'[a].pc = "snapshot" /\ actor[a].pc = "getHistory" /\ UNCHANGED history
        /\ actor'[a].states = Given(history) /\ actor'[a].outcome = actor[a].outcome
        /\ UNCHANGED <<runs, snapshots>> /\ IsRun(a)
    BY <1>3, ProjectionDoes, OwnType DEF Acts, tables, GetHistory, Fits, IsRun
  <2>2. Shows(a, Project(history, a))
    BY <1>0, <2>1, ProjectOwn DEF FinalIsSaved
  <2>3. Len(history) <= Limit => actor'[a].states = history
    BY <2>1 DEF Given
  <2> QED BY <1>0, <2>1, <2>2, <2>3 DEF SnapshotOf, Shows
<1>4. CASE SaveSnapshot(a) \/ SnapshotFails(a)
  <2>1. /\ actor'[a].pc = "outcome" /\ actor[a].pc = "snapshot" /\ UNCHANGED <<history, runs>>
        /\ actor'[a].outcome = actor[a].outcome
        /\ \/ snapshots' = snapshots
           \/ snapshots' = [snapshots EXCEPT ![a] = Snapshot(Project(actor[a].states, a))]
    BY <1>4, ProjectionDoes DEF Acts, SaveSnapshot, SnapshotFails
  <2>2. \/ snapshots'[a] = snapshots[a]
        \/ /\ snapshots'[a].saved
           /\ snapshots'[a].messages = Project(actor[a].states, a)
    BY <2>1 DEF TypeInv, SnapshotsOK, Snapshot
  <2> QED BY <1>0, <2>1, <2>2 DEF SnapshotOf, Shows
<1>5. CASE ~(\/ StartRun(a) \/ SaveOutcome(a)
             \/ GetHistory(a) \/ SaveSnapshot(a) \/ SnapshotFails(a))
  <2>1. UNCHANGED <<runs, snapshots>>
    BY <1>5, RunRowsStay
  <2>2. actor'[a].pc # "snapshot"
    BY <1>5, ActingComes DEF ComesFrom
  <2>3. actor[a].pc \notin {"outcome", "done"}
    BY <1>5 DEF Acting, Step, Arrive, EnsureThread, InsertThread, InsertHistory, CommitEnsure,
       UpsertThread, LockHistory, WriteHistory, CommitSave, ReadMetadata, WriteMetadata,
       DeleteRuns, DeleteHistory, DeleteThread, CommitDelete, DeadlockDetected, WaitsFor,
       ConnectionLost, Locked, Transaction
  <2> QED BY <1>0, <2>1, <2>2, <2>3 DEF SnapshotOf
<1> QED BY <1>1, <1>2, <1>3, <1>4, <1>5

LEMMA StepSnapshot ==
    ASSUME TypeInv, LockInv, StatesInv, SnapshotInv, NEW a \in Actor, Acting(a),
           actor[a].kind # "delete"
    PROVE  SnapshotInv'
<1>1. ASSUME NEW r \in Actor, r # a PROVE SnapshotOf(r)'
  <2>1. /\ SnapshotOf(r) /\ actor'[r] = actor[r]
        /\ runs'[r] = runs[r] /\ snapshots'[r] = snapshots[r]
        /\ Len(history') <= Limit => Len(history) <= Limit
    BY <1>1, ActingFrames, RunRowsStay, NeverShorter DEF Frame, SnapshotInv, SnapshotOf
  <2> QED BY <2>1 DEF SnapshotOf, Shows
<1>2. \A r \in Actor : SnapshotOf(r)'
  BY <1>1, OwnSnapshot
<1> QED BY <1>2 DEF SnapshotInv, SnapshotOf

LEMMA InitStates == Init => HistoryInv /\ ReadInv /\ SnapshotInv
<1> SUFFICES ASSUME Init PROVE HistoryInv /\ ReadInv /\ SnapshotInv
  OBVIOUS
<1>1. \A a \in Actor : actor[a].pc = "new" /\ actor[a].kind = "none" /\ ~snapshots[a].saved
                       /\ runs[a] = "none"
  BY DEF Init, New, NoSnapshot
<1>2. \A i \in DOMAIN history : i = 1 /\ history[i] = EmptyState(Nothing)
  BY DEF Init, None
<1>3. IdsDiffer /\ StatesFit /\ ParentsFit
  BY <1>2, NothingIsNobody DEF IdsDiffer, StatesFit, StateFits, ParentsFit, EmptyState, State
<1>4. InitialIsSaved /\ FinalIsSaved /\ InHands /\ SnapshotInv
  BY <1>1 DEF InitialIsSaved, FinalIsSaved, IsRun, InHands, InHand, Saving, SnapshotInv
<1> QED BY <1>3, <1>4 DEF HistoryInv, ReadInv
-----------------------------------------------------------------------------
(* The theorems.                                                           *)

LEMMA Prefix ==
    ASSUME NEW S, NEW s \in Seq(S), NEW t \in Seq(S), Len(s) <= Len(t),
           \A i \in 1..Len(s) : s[i] = t[i]
    PROVE  IsPrefix(s, t)
<1>1. Len(s) \in Nat /\ Len(t) \in Nat
  OBVIOUS
<1>2. /\ \A i \in 1..Len(s) : s[i] \in S
      /\ \A i \in 1..Len(s) : t[i] \in S
  BY <1>1
<1> DEFINE u == SubSeq(s, 1, Len(s))
           v == SubSeq(t, 1, Len(s))
<1>3. /\ u \in Seq(S) /\ Len(u) = Len(s)
      /\ \A i \in 1..Len(s) : u[i] = s[i]
  BY <1>1, <1>2, SubSeqProperties
<1>4. /\ v \in Seq(S) /\ Len(v) = Len(s)
      /\ \A i \in 1..Len(s) : v[i] = t[i]
  BY <1>1, <1>2, SubSeqProperties
<1> HIDE DEF u, v
<1>5. u = v
  BY <1>3, <1>4, SeqEqual
<1> QED BY <1>5 DEF u, v, IsPrefix

LEMMA Undeleted ==
    ASSUME TypeInv, LockInv, ~Deleted => StatesInv /\ SnapshotInv, [Next]_vars, ~Deleted'
    PROVE  StatesInv' /\ SnapshotInv'
<1>1. CASE UNCHANGED vars
  <2>1. ~Deleted
    BY <1>1 DEF vars, Deleted
  <2>2. UNCHANGED <<row, history, runs, snapshots, lock, actor>>
    BY <1>1 DEF vars, tables
  <2>3. HeadInv'
    BY <2>1, <2>2 DEF StatesInv, HeadInv, HeadOK, InsertsBoth, HistoryIsRead
  <2>4. HistoryInv'
    <3>0. IdsDiffer'
      BY <2>1, <2>2 DEF StatesInv, HistoryInv, IdsDiffer
    <3>1. StatesFit'
      <4>1. \A s : StateFits(s) => StateFits(s)'
        <5> TAKE s
        <5>1. ASSUME NEW r \in Actor, NEW phase \in {"initial", "final"}
              PROVE  RunState(s, r, phase) <=> RunState(s, r, phase)'
          BY <2>2 DEF RunState
        <5> QED BY <2>2, <5>1 DEF StateFits, IsRun
      <4>2. \A i \in DOMAIN history : StateFits(history[i])
        BY <2>1 DEF StatesInv, HistoryInv, StatesFit
      <4>3. ASSUME NEW i \in DOMAIN history', NEW s, s = history'[i]
            PROVE  StateFits(s)'
        BY <2>2, <4>1, <4>2, <4>3
      <4> QED BY <4>3 DEF StatesFit
    <3>2. InitialIsSaved'
      BY <2>1, <2>2 DEF StatesInv, HistoryInv, InitialIsSaved, IsRun
    <3>3. ParentsFit'
      BY <2>1, <2>2 DEF StatesInv, HistoryInv, ParentsFit, Begins, Wrote
    <3> QED BY <3>0, <3>1, <3>2, <3>3 DEF HistoryInv
  <2>5. ReadInv'
    <3>1. InHands'
      <4>1. InHands
        BY <2>1 DEF StatesInv, ReadInv
      <4>2. ASSUME NEW a \in Actor PROVE InHand(a)'
        <5>1. InHand(a) /\ actor'[a] = actor[a]
          BY <2>2, <4>1 DEF InHands
        <5>2. \A parent : Begins(a, parent) => Begins(a, parent)'
          BY <2>2 DEF Begins, Wrote
        <5> QED BY <5>1, <5>2 DEF InHand, IsRun, RunState
      <4> QED BY <4>2 DEF InHands
    <3>2. FinalIsSaved'
      BY <2>1, <2>2 DEF StatesInv, ReadInv, FinalIsSaved, Wrote, IsRun
    <3> QED BY <3>1, <3>2 DEF ReadInv
  <2>6. SnapshotInv'
    BY <2>1, <2>2 DEF SnapshotInv, Shows
  <2> QED BY <2>3, <2>4, <2>5, <2>6 DEF StatesInv
<1>2. CASE Next
  <2>1. PICK a \in Actor : Acting(a)
    BY <1>2 DEF Next, Acting
  <2>2. ~Deleted /\ actor[a].kind # "delete"
    BY <2>1, NeverDeleted
  <2>3. StatesInv /\ SnapshotInv /\ HeadInv
    BY <2>2 DEF StatesInv
  <2>4. SnapshotInv'
    BY <2>1, <2>2, <2>3, StepSnapshot
  <2>5. HeadInv'
    BY <2>1, <2>2, <2>3, StepHead
  <2>6. HistoryInv'
    BY <2>1, <2>2, <2>3, StepIds, StepStatesFit, StepInitials, StepParents DEF HistoryInv
  <2>7. ReadInv'
    BY <2>1, <2>2, <2>3, StepHands, StepFinal DEF ReadInv
  <2> QED BY <2>4, <2>5, <2>6, <2>7 DEF StatesInv
<1> QED BY <1>1, <1>2

\* The invariant is inductive.
THEOREM Inductive == Spec => []IInv
<1>1. Init => IInv
  BY InitLocks, InitMetadata, InitHead, InitStates DEF IInv
<1>2. ASSUME IInv, [Next]_vars PROVE IInv'
  <2>1. TypeInv' /\ LockInv'
    BY <1>2, StepLocks DEF IInv
  <2>2. MetadataIsRead'
    BY <1>2, StepMetadata DEF IInv
  <2>3. (~Deleted => HeadInv /\ HistoryInv /\ ReadInv /\ SnapshotInv)'
    BY <1>2, Undeleted DEF IInv, StatesInv
  <2> QED BY <2>1, <2>2, <2>3 DEF IInv
<1> QED BY <1>1, <1>2, PTL DEF Spec

\* Every table, lock and local state has its type, and a request is only at the
\* steps of what it does (the branches of save_thread_state, ensure_thread,
\* update_thread_metadata and delete_thread).
THEOREM TypeCorrect == Spec => []TypeInv
BY Inductive, PTL DEF IInv

\* The row of a thread that nobody deletes holds the newest state of its
\* history (ensure_thread, save_thread_state).
THEOREM RowIsHead == Spec => []HeadIsNewest
<1>1. IInv => HeadIsNewest
  <2> SUFFICES ASSUME IInv, ~Deleted
               PROVE  /\ (row = Absent) <=> (history = None)
                      /\ row # Absent => row.state = Head(history)
    BY DEF HeadIsNewest
  <2>1. HeadOK /\ history \in Seq(States)
    BY DEF IInv, HeadInv, TypeInv, HistoryOK
  <2> QED BY <2>1 DEF HeadOK, None
<1> QED BY <1>1, Inductive, PTL

\* A committed state stays in the history of a thread that nobody deletes, right
\* behind the one committed next (SELECT ... FOR UPDATE in save_thread_state).
THEOREM HistoryGrows == Spec => NoStateLost
<1>1. ASSUME IInv, [Next]_vars
      PROVE  [~Deleted /\ history # history' => Tail(history') = history]_vars
  <2> SUFFICES ASSUME ~Deleted, history # history' PROVE Tail(history') = history
    OBVIOUS
  <2>1. CASE UNCHANGED vars
    BY <2>1 DEF vars, tables
  <2>2. CASE Next
    <3>1. PICK a \in Actor : Acting(a)
      BY <2>2 DEF Next, Acting
    <3>2. HeadInv /\ TypeInv /\ LockInv /\ actor[a].kind # "delete"
      <4>1. HeadInv /\ TypeInv /\ LockInv
        BY <1>1 DEF IInv
      <4> QED BY <4>1 DEF Deleted
    <3>3. Inserted(a) => Tail(history') = history
      <4>1. Tail(<<EmptyState(a)>>) = <<>>
        BY EmptyTyped, Prepend
      <4> QED BY <4>1 DEF Inserted, None
    <3>4. Saved(a) => Tail(history') = history
      BY <3>2, Prepend DEF Saved, TypeInv, HistoryOK
    <3> QED BY <3>1, <3>2, <3>3, <3>4, HistoryDoes DEF StatesKept
  <2> QED BY <1>1, <2>1, <2>2
<1> QED BY <1>1, Inductive, PTL DEF NoStateLost, Spec

\* The snapshot of a run shows that run's messages, in order and nothing else,
\* and all of them if the run is a success (project_run_checkpoints).
THEOREM SnapshotShowsRun == Spec => []SnapshotIsOwn
<1>1. IInv => SnapshotIsOwn
  <2> SUFFICES ASSUME IInv, NEW r \in Actor, ~Deleted, snapshots[r].saved,
                      Len(history) <= Limit
               PROVE  /\ IsPrefix(snapshots[r].messages, <<<<r, "user">>, <<r, "answer">>>>)
                      /\ runs[r] = "success" =>
                            snapshots[r].messages = <<<<r, "user">>, <<r, "answer">>>>
    BY DEF SnapshotIsOwn
  <2> DEFINE user == <<r, "user">>
             both == <<user, <<r, "answer">>>>
  <2>1. /\ Shows(r, snapshots[r].messages)
        /\ runs[r] = "success" => actor[r].outcome = "success"
    BY DEF IInv, SnapshotInv
  <2>2. PICK m \in {<<>>, <<user>>, both} : m = snapshots[r].messages
    BY <2>1 DEF Shows
  <2>3. IsPrefix(m, both)
    <3>1. user \in Message /\ <<r, "answer">> \in Message
      BY DEF Message
    <3> HIDE DEF user
    <3>2. both \in Seq(Message) /\ Len(both) = 2 /\ both[1] = user
      BY <3>1
    <3>3. CASE m = <<>>
      <4>1. m \in Seq(Message) /\ Len(m) = 0
        BY <3>3
      <4> HIDE DEF both
      <4>2. Len(m) <= Len(both) /\ \A i \in 1..Len(m) : m[i] = both[i]
        BY <3>2, <4>1
      <4> QED BY <3>2, <4>1, <4>2, Prefix
    <3>4. CASE m = <<user>>
      <4>1. m \in Seq(Message) /\ Len(m) = 1 /\ m[1] = user
        BY <3>1, <3>4
      <4> HIDE DEF both
      <4>2. Len(m) <= Len(both) /\ \A i \in 1..Len(m) : m[i] = both[i]
        BY <3>2, <4>1
      <4> QED BY <3>2, <4>1, <4>2, Prefix
    <3>5. CASE m = both
      <4> HIDE DEF both
      <4> QED BY <3>2, <3>5, Prefix
    <3> QED BY <3>3, <3>4, <3>5
  <2> QED BY <2>1, <2>2, <2>3 DEF Shows
<1> QED BY <1>1, Inductive, PTL

\* What requests and runs of one process wrote into the metadata is not undone
\* by another of them (update_thread_metadata holds the repository's lock from
\* its read to its write).
THEOREM MetadataStays == Spec => MetadataSticks
<1>1. ASSUME IInv, [Next]_vars
      PROVE  OneProcess /\ row # Absent /\ row' # Absent => row.metadata \subseteq row'.metadata
  BY <1>1, StepMetadata DEF IInv
<1> QED BY <1>1, Inductive, PTL DEF MetadataSticks, OneProcess, Spec
=============================================================================
