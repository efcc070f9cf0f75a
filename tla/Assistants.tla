------------------------------ MODULE Assistants ------------------------------
(***************************************************************************)
(* One assistant: its definition in the store that the processes share,    *)
(* the requests that edit it (app/assistant_api.py), and the runs that     *)
(* build an agent from it, keep that agent, and save the definition again  *)
(* when they end (app/assistants.py, app/assistant_store_postgres.py,      *)
(* _ensure_assistant_agent and _persist_assistant_snapshot of              *)
(* app/research_runtime.py).                                               *)
(*                                                                         *)
(* The stores are synchronous: what an operation does to the store in      *)
(* several statements is interleaved with other processes, but not with    *)
(* other tasks of its own event loop; `loop' is who has that.  With        *)
(* PostgreSQL an agent needs the definition on the disk of its process;    *)
(* with folders the disk is the store.                                     *)
(*                                                                         *)
(* A definition is who edited it last, which of the skill files it names,  *)
(* and its updated_at.  Every actor writes it at most once, so the actor   *)
(* names the edit, the skill and the timestamp.  A memory file is handled  *)
(* like a skill.                                                           *)
(***************************************************************************)
EXTENDS Naturals, FiniteSets, Sequences

CONSTANTS
    Actor,       \* requests and runs, each acts once
    Process,     \* API replicas and workers
    Kinds,       \* what actors do
    Stores,      \* the backends considered
    Nobody

ASSUME ConstantsAssumption ==
    /\ Kinds \subseteq {"create", "put", "skill", "delete", "run"}
    /\ Stores \subseteq {"filesystem", "postgres"}
    /\ Nobody \notin Actor \cup Process
    /\ 0 \notin Actor \cup {Nobody}       \* NoTime is no timestamp

VARIABLES
    store,         \* the backend
    row,           \* the stored definition, or Absent
    files,         \* the stored skill files
    disk,          \* process -> its scratch folder
    materialized,  \* process -> the updated_at it was written from
    cache,         \* process -> the agent it keeps, and the mtime it keeps it for
    loop,          \* process -> who is running, if it cannot be interrupted
    setup,         \* process -> who holds _setup_lock
    actor,         \* actor -> its local state
    past           \* what has been stored, oldest first

stored == <<row, files, past>>
local == <<disk, materialized, cache>>
vars == <<store, stored, local, loop, setup, actor>>
-----------------------------------------------------------------------------
Absent == [absent |-> TRUE]
Config(edit, skills, stamp) == [edit |-> edit, skills |-> skills, stamp |-> stamp]
\* What a definition says; the timestamp aside.
Content(c) == IF c = Absent THEN Absent ELSE [edit |-> c.edit, skills |-> c.skills]

Legacy == [legacy |-> TRUE]     \* the agent without a definition
NoAgent == [none |-> TRUE]
NoTime == 0

New == [pc |-> "new", kind |-> "none", process |-> Nobody,
        config |-> Absent,      \* what was read, or will be written
        fetched |-> Absent,     \* what _materialize has read
        mtime |-> NoTime,
        agent |-> NoAgent,
        since |-> 0,            \* what was stored when the run asked for its agent
        snapshot |-> Absent]

Init ==
    /\ store \in Stores
    /\ row = Config(Nobody, {}, Nobody)       \* ensure_seeded
    /\ files = {}
    /\ disk = [p \in Process |-> [present |-> FALSE, mtime |-> NoTime, files |-> {}]]
    /\ materialized = [p \in Process |-> Nobody]
    /\ cache = [p \in Process |-> NoAgent]
    /\ loop = [p \in Process |-> Nobody]
    /\ setup = [p \in Process |-> Nobody]
    /\ actor = [a \in Actor |-> New]
    /\ past = <<Content(row)>>
-----------------------------------------------------------------------------
(* Steps of an actor.                                                      *)

At(a, pc) == actor[a].pc = pc /\ loop[actor[a].process] \in {a, Nobody}

\* Becomes `state' and goes on without a break, or lets others run.
GoOn(a, state) ==
    /\ actor' = [actor EXCEPT ![a] = state]
    /\ loop' = [loop EXCEPT ![actor[a].process] = a]
Yield(a, state) ==
    /\ actor' = [actor EXCEPT ![a] = state]
    /\ loop' = [loop EXCEPT ![actor[a].process] = Nobody]
With(a, pc) == [actor[a] EXCEPT !.pc = pc]
Done(a) == Yield(a, With(a, "done"))

TakeSetup(a) == setup' = [setup EXCEPT ![actor[a].process] = a]
LeaveSetup(a) == setup' = [setup EXCEPT ![actor[a].process] = Nobody]

Write(config) ==
    /\ row' = config
    /\ past' = IF Content(config) = Content(row) THEN past ELSE Append(past, Content(config))

\* A client that edits the definition sends all of it, as it has read it.
Arrive(a, kind, p) ==
    /\ actor[a].pc = "new"
    /\ actor' = [actor EXCEPT ![a] = [New EXCEPT
         !.kind = kind, !.process = p,
         !.config = CASE kind = "create" -> Config(a, {}, a)
                      [] kind = "put" -> Config(a, IF row = Absent THEN {} ELSE row.skills, a)
                      [] OTHER -> Absent,
         !.pc = CASE kind = "create" -> "createExists"
                  [] kind = "put" -> "updateGet"
                  [] kind = "skill" -> "skillGet"
                  [] kind = "delete" -> "deleteExists"
                  [] kind = "run" -> "exists"]]
    /\ UNCHANGED <<store, stored, local, loop, setup>>
-----------------------------------------------------------------------------
(* The writing operations of both stores: create, update, save, delete,    *)
(* write_skill.                                                            *)

\* 409, or AssistantExists, which a run only logs.
CreateExists(a) ==
    /\ At(a, "createExists")
    /\ IF row # Absent THEN Done(a) ELSE GoOn(a, With(a, "upsert"))
    /\ UNCHANGED <<store, stored, local, setup>>

\* 404, or AssistantNotFound.
UpdateGet(a) ==
    /\ At(a, "updateGet")
    /\ IF row = Absent THEN Done(a) ELSE GoOn(a, With(a, "upsert"))
    /\ UNCHANGED <<store, stored, local, setup>>

Upsert(a) ==
    /\ At(a, "upsert")
    /\ Write([actor[a].config EXCEPT !.stamp = a])
    /\ Yield(a, [With(a, "done") EXCEPT
                   !.snapshot = IF actor[a].kind = "run" THEN actor[a].config ELSE Absent])
    /\ UNCHANGED <<store, files, local, setup>>

\* Mutant: the definition names the skill before its file is stored.
SkillGetFirst(a) ==
    /\ At(a, "skillGet")
    /\ IF row = Absent
       THEN Done(a) /\ UNCHANGED <<row, past>>
       ELSE /\ Write(Config(row.edit, row.skills \cup {a}, a))
            /\ GoOn(a, [With(a, "putFile") EXCEPT !.config = row'])
    /\ UNCHANGED <<store, files, local, setup>>

SkillGet(a) ==
    /\ At(a, "skillGet")
    /\ IF row = Absent THEN Done(a)
       ELSE GoOn(a, [With(a, "putFile") EXCEPT
                       !.config = Config(row.edit, row.skills \cup {a}, a)])
    /\ UNCHANGED <<store, stored, local, setup>>

PutFile(a) ==
    /\ At(a, "putFile")
    /\ files' = files \cup {a}
    /\ GoOn(a, With(a, "updateGet"))
    /\ UNCHANGED <<store, row, past, local, setup>>

DeleteExists(a) ==
    /\ At(a, "deleteExists")
    /\ IF row = Absent THEN Done(a)
       ELSE GoOn(a, With(a, IF store = "postgres" THEN "deleteFiles" ELSE "deleteConfig"))
    /\ UNCHANGED <<store, stored, local, setup>>

DeleteFiles(a) ==
    /\ At(a, "deleteFiles")
    /\ files' = {}
    /\ GoOn(a, With(a, "deleteConfig"))
    /\ UNCHANGED <<store, row, past, local, setup>>

\* Then the scratch folder of its own process; with folders, rmtree does it all.
DeleteConfig(a) ==
    /\ At(a, "deleteConfig")
    /\ Write(Absent)
    /\ files' = IF store = "filesystem" THEN {} ELSE files
    /\ disk' = [disk EXCEPT ![actor[a].process].present = FALSE,
                            ![actor[a].process].files = {}]
    /\ Done(a)
    /\ UNCHANGED <<store, materialized, cache, setup>>
-----------------------------------------------------------------------------
(* _ensure_agent.                                                          *)

\* The agent that a run gets; it goes on without the lock.
Got(a, agent) ==
    Yield(a, [With(a, "running") EXCEPT !.agent = agent, !.config = Absent,
                                        !.fetched = Absent, !.mtime = NoTime])

Exists(a) ==
    /\ At(a, "exists")
    /\ LET asked == [actor[a] EXCEPT !.since = Len(past)] IN
       IF row = Absent
       THEN Yield(a, [asked EXCEPT !.pc = "running", !.agent = Legacy]) /\ UNCHANGED setup
       ELSE IF setup[actor[a].process] = Nobody
       THEN GoOn(a, [asked EXCEPT !.pc = "materialize"]) /\ TakeSetup(a)
       ELSE Yield(a, [asked EXCEPT !.pc = "waitSetup"]) /\ UNCHANGED setup
    /\ UNCHANGED <<store, stored, local>>

WaitSetup(a) ==
    /\ At(a, "waitSetup")
    /\ setup[actor[a].process] = Nobody
    /\ GoOn(a, With(a, "materialize")) /\ TakeSetup(a)
    /\ UNCHANGED <<store, stored, local>>

\* path_for: the folder itself, or _materialize, which first reads the row.
Materialize(a, from, list, next) ==
    /\ At(a, from)
    /\ IF store = "filesystem" \/ row = Absent
       THEN GoOn(a, With(a, next))
       ELSE GoOn(a, [With(a, list) EXCEPT !.fetched = row])
    /\ UNCHANGED <<store, stored, local, setup>>

\* Files are added and replaced in the folder, never removed.
List(a, from, next) ==
    /\ At(a, from)
    /\ LET p == actor[a].process
           fresh == disk[p].present /\ materialized[p] = actor[a].fetched.stamp
       IN  IF fresh THEN UNCHANGED <<disk, materialized>>
           ELSE /\ disk' = [disk EXCEPT ![p] = [present |-> TRUE, mtime |-> @.mtime + 1,
                                                files |-> @.files \cup files]]
                /\ materialized' = [materialized EXCEPT ![p] = actor[a].fetched.stamp]
    /\ GoOn(a, With(a, next))
    /\ UNCHANGED <<store, stored, cache, setup>>

\* The mtime of assistant.json; every write gives it another one.
Mtime(p) ==
    IF store = "postgres"
    THEN IF disk[p].present THEN disk[p].mtime ELSE NoTime
    ELSE IF row = Absent THEN NoTime ELSE row.stamp

\* An agent is used again if the file is still the one it was kept for.
Stat(a) ==
    /\ At(a, "stat")
    /\ LET p == actor[a].process IN
       IF cache[p] # NoAgent /\ cache[p].mtime = Mtime(p)
       THEN Got(a, cache[p].agent) /\ LeaveSetup(a)
       ELSE GoOn(a, [With(a, "get") EXCEPT !.mtime = Mtime(p)]) /\ UNCHANGED setup
    /\ UNCHANGED <<store, stored, local>>

\* The checkpointer and the MCP tools are awaited with the definition in hand.
\* Without a definition the run fails.
Get(a) ==
    /\ At(a, "get")
    /\ IF row = Absent
       THEN Done(a) /\ LeaveSetup(a)
       ELSE Yield(a, [With(a, "rematerialize") EXCEPT !.config = row]) /\ UNCHANGED setup
    /\ UNCHANGED <<store, stored, local>>

\* Mutant: the agent is kept for the file as it is now.
BuiltForNow(a) ==
    /\ At(a, "built")
    /\ LET agent == Content(actor[a].config) IN
       /\ cache' = [cache EXCEPT ![actor[a].process] =
                      [agent |-> agent, mtime |-> Mtime(actor[a].process)]]
       /\ Got(a, agent)
    /\ LeaveSetup(a)
    /\ UNCHANGED <<store, stored, disk, materialized>>

Built(a) ==
    /\ At(a, "built")
    /\ LET agent == Content(actor[a].config) IN
       /\ cache' = [cache EXCEPT ![actor[a].process] =
                      [agent |-> agent, mtime |-> actor[a].mtime]]
       /\ Got(a, agent)
    /\ LeaveSetup(a)
    /\ UNCHANGED <<store, stored, disk, materialized>>
-----------------------------------------------------------------------------
(* _persist_assistant_snapshot, when the run ends.                         *)

End(a) ==
    /\ At(a, "running")
    /\ GoOn(a, With(a, "snapshotExists"))
    /\ UNCHANGED <<store, stored, local, setup>>

SnapshotExists(a) ==
    /\ At(a, "snapshotExists")
    /\ IF row = Absent THEN Done(a) ELSE GoOn(a, With(a, "snapshotGet"))
    /\ UNCHANGED <<store, stored, local, setup>>

\* Mutant: the event loop may run others between reading and saving.
SnapshotGetYields(a) ==
    /\ At(a, "snapshotGet")
    /\ IF row = Absent THEN Done(a)
       ELSE Yield(a, [With(a, "saveExists") EXCEPT !.config = row])
    /\ UNCHANGED <<store, stored, local, setup>>

SnapshotGet(a) ==
    /\ At(a, "snapshotGet")
    /\ IF row = Absent THEN Done(a)
       ELSE GoOn(a, [With(a, "saveExists") EXCEPT !.config = row])
    /\ UNCHANGED <<store, stored, local, setup>>

SaveExists(a) ==
    /\ At(a, "saveExists")
    /\ GoOn(a, With(a, IF row = Absent THEN "createExists" ELSE "updateGet"))
    /\ UNCHANGED <<store, stored, local, setup>>
-----------------------------------------------------------------------------
Step(a) ==
    \/ CreateExists(a) \/ UpdateGet(a) \/ Upsert(a) \/ SkillGet(a) \/ PutFile(a)
    \/ DeleteExists(a) \/ DeleteFiles(a) \/ DeleteConfig(a)
    \/ Exists(a) \/ WaitSetup(a)
    \/ Materialize(a, "materialize", "list", "stat") \/ List(a, "list", "stat")
    \/ Stat(a) \/ Get(a)
    \/ Materialize(a, "rematerialize", "relist", "built") \/ List(a, "relist", "built")
    \/ Built(a)
    \/ End(a) \/ SnapshotExists(a) \/ SnapshotGet(a) \/ SaveExists(a)

Next ==
    \E a \in Actor :
        \/ \E kind \in Kinds, p \in Process : Arrive(a, kind, p)
        \/ Step(a)

Spec == Init /\ [][Next]_vars
-----------------------------------------------------------------------------
Since(a) == {past[i] : i \in actor[a].since..Len(past)}

\* The agent of a run is that of a definition that was stored when the run
\* asked for it or later, never of an older one that is still in the cache or
\* on the disk of the process, unless the assistant was deleted meanwhile
\* (_ensure_assistant_agent, _materialize).
AgentIsCurrent ==
    \A a \in Actor :
        actor[a].agent # NoAgent =>
            \/ actor[a].agent \in Since(a)
            \/ Absent \in Since(a)

\* As long as nobody deletes the assistant, every skill an agent was built with
\* has its file where the agent looks for it, whatever another process stored
\* between the reads of the definition and of the files (write_skill, _materialize).
SkillsHaveFiles ==
    (\A a \in Actor : actor[a].kind # "delete") =>
        \A a \in Actor :
            actor[a].agent \notin {NoAgent, Legacy} =>
                actor[a].agent.skills \subseteq
                    IF store = "postgres" THEN disk[actor[a].process].files ELSE files

\* In one process: an edit stays until the next one, and an assistant that was
\* deleted is back only if it is created.  What is saved with a run or a skill
\* neither undoes an edit, nor drops a skill, nor brings the assistant back,
\* although both write the whole definition they have read (write_skill,
\* _persist_assistant_snapshot).
OneProcess == \E p \in Process : \A a \in Actor : actor[a].process \in {p, Nobody}
EditsStick ==
    [][OneProcess /\ row # row' /\ row' # Absent =>
         CASE row = Absent -> actor[row'.stamp].kind = "create"
           [] actor[row'.stamp].kind \in {"skill", "run"} ->
                row'.edit = row.edit /\ row.skills \subseteq row'.skills
           [] OTHER -> TRUE]_vars
=============================================================================
