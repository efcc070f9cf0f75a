------------------------- MODULE Assistants_proofs -------------------------
(***************************************************************************)
(* Proofs about Assistants: no run gets an agent that is older than its    *)
(* request, the files of an agent's skills are where it looks for them,    *)
(* and in one process no edit is undone.                                   *)
(*                                                                         *)
(* The argument: who is between two statements of its event loop, and who  *)
(* is inside _setup_lock (LockInv); a timestamp that was once stored never *)
(* comes back (StampInv), nor does an mtime of a scratch folder (TimeInv); *)
(* hence what a process keeps for an mtime that is still valid is the      *)
(* definition that is stored now (KeepInv).  What a run reads was stored   *)
(* after it asked (ReadInv).  Unless the assistant is deleted, files stay, *)
(* and a definition names no skill before its file is there (SkillsInv).   *)
(* In one process nobody comes between reading the definition and writing  *)
(* it back (EditsInv).                                                     *)
(***************************************************************************)
EXTENDS Assistants, TLAPS

Someone == Actor \cup {Nobody}
Configs == [edit : Someone, skills : SUBSET Actor, stamp : Someone]
Contents == [edit : Someone, skills : SUBSET Actor]
Time == Nat \cup Someone
Agents == [agent : Contents, mtime : Time]

Preparing == {"materialize", "list", "stat", "get", "rematerialize", "relist", "built"}
RunSteps == Preparing \cup {"exists", "waitSetup", "running", "snapshotExists",
                            "snapshotGet", "saveExists"}
DeleteSteps == {"deleteExists", "deleteFiles", "deleteConfig"}
SkillSteps == {"skillGet", "putFile"}
PC == RunSteps \cup DeleteSteps \cup SkillSteps
          \cup {"new", "createExists", "updateGet", "upsert", "done"}
ActorState ==
    [pc : PC, kind : {"none", "create", "put", "skill", "delete", "run"},
     process : Process \cup {Nobody}, config : Configs \cup {Absent},
     fetched : Configs \cup {Absent}, mtime : Time,
     agent : Contents \cup {NoAgent, Legacy}, since : Nat, snapshot : Configs \cup {Absent}]

\* What an actor does decides its steps, and what it has read by then.
Fits(pc, kind, config, fetched, mtime, agent) ==
    /\ pc \in RunSteps => kind = "run"
    /\ pc \in SkillSteps => kind = "skill"
    /\ pc \in DeleteSteps => kind = "delete"
    /\ pc = "createExists" => kind \in {"create", "run"}
    /\ pc = "updateGet" => kind \in {"put", "skill", "run"}
    /\ pc = "upsert" => kind \in {"create", "put", "skill", "run"}
    /\ pc \in {"createExists", "updateGet", "upsert", "putFile", "saveExists", "rematerialize",
               "relist", "built"} => config # Absent
    /\ pc \in {"list", "relist"} => fetched # Absent
    /\ pc \in {"new", "exists", "waitSetup", "materialize"} => fetched = Absent /\ mtime = NoTime
    /\ pc \in Preparing \cup {"new", "exists", "waitSetup"} => agent = NoAgent
KindFits(a) ==
    /\ actor[a].pc # "new" => actor[a].process \in Process
    /\ actor[a].pc = "new" => actor[a] = New
    /\ Fits(actor[a].pc, actor[a].kind, actor[a].config, actor[a].fetched, actor[a].mtime,
            actor[a].agent)

RowOK == row \in Configs \cup {Absent}
DiskOK == disk \in [Process -> [present : BOOLEAN, mtime : Nat, files : SUBSET Actor]]
CacheOK == cache \in [Process -> Agents \cup {NoAgent}]
LocksOK == loop \in [Process -> Someone] /\ setup \in [Process -> Someone]
ActorOK == actor \in [Actor -> ActorState]
WorldOK ==
    /\ RowOK /\ files \in SUBSET Actor /\ past \in Seq(Contents \cup {Absent})
    /\ DiskOK /\ materialized \in [Process -> Someone] /\ CacheOK
TypeInv ==
    /\ store \in {"filesystem", "postgres"}
    /\ WorldOK /\ LocksOK /\ ActorOK
    /\ \A a \in Actor : KindFits(a)
-----------------------------------------------------------------------------
(* Who runs, and who prepares an agent.                                    *)

\* The steps that follow another one without a break.
Unbreaks(pc, kind) ==
    \/ pc \in {"upsert", "putFile", "deleteFiles", "deleteConfig", "materialize", "list", "stat",
              "get", "relist", "built", "snapshotExists", "snapshotGet", "saveExists"}
    \/ pc \in {"updateGet", "createExists"} /\ kind \in {"skill", "run"}
Unbroken(a) == Unbreaks(actor[a].pc, actor[a].kind)
LockInv ==
    \A a \in Actor :
        /\ Unbroken(a) => loop[actor[a].process] = a
        /\ actor[a].pc \in Preparing => setup[actor[a].process] = a
-----------------------------------------------------------------------------
(* Timestamps and mtimes are not used twice.                               *)

Spent == {Nobody} \cup {a \in Actor : actor[a].pc = "done"}
StampInv ==
    /\ row # Absent => row.stamp \in Spent
    /\ \A p \in Process : materialized[p] \in Spent
    /\ \A a \in Actor : actor[a].fetched # Absent => actor[a].fetched.stamp \in Spent

\* m is an mtime that was read in process p, or its writer's timestamp.
Was(m, p) ==
    IF store = "postgres" THEN m \in 0..disk[p].mtime ELSE m \in Spent \cup {NoTime}
TimeInv ==
    /\ \A p \in Process : /\ disk[p].present => disk[p].mtime # NoTime
                          /\ cache[p] # NoAgent => Was(cache[p].mtime, p)
    /\ \A a \in Actor : actor[a].pc \in Preparing => Was(actor[a].mtime, actor[a].process)
-----------------------------------------------------------------------------
(* What is kept is what is stored.                                         *)

\* An agent that was kept for m in process p would be used for the stored row.
Valid(m, p) ==
    /\ row # Absent
    /\ IF store = "postgres"
       THEN disk[p].present /\ m = disk[p].mtime /\ row.stamp = materialized[p]
       ELSE m = row.stamp
\* The same for the row that actor a has read.
ValidFor(a, p) ==
    /\ disk[p].present /\ cache[p].mtime = disk[p].mtime
    /\ actor[a].fetched.stamp = materialized[p]

KeepInv ==
    /\ \A p \in Process : cache[p] # NoAgent /\ Valid(cache[p].mtime, p)
                             => cache[p].agent = Content(row)
    /\ \A a \in Actor :
         /\ actor[a].pc \in {"rematerialize", "relist", "built"}
                /\ Valid(actor[a].mtime, actor[a].process)
              => Content(actor[a].config) = Content(row)
         /\ store = "postgres" /\ actor[a].pc \in {"list", "stat"}
                /\ actor[a].fetched # Absent
                /\ cache[actor[a].process] # NoAgent /\ ValidFor(a, actor[a].process)
              => cache[actor[a].process].agent = Content(actor[a].fetched)
-----------------------------------------------------------------------------
(* What is read was stored after the run asked.                            *)

PastInv == past # <<>> /\ past[Len(past)] = Content(row)
\* What a run has by now.
Reads(a) ==
    /\ actor[a].pc \in Preparing \cup {"waitSetup"} \/ actor[a].agent # NoAgent =>
         actor[a].since \in 1..Len(past)
    /\ actor[a].pc \in Preparing /\ actor[a].fetched # Absent =>
         Content(actor[a].fetched) \in Since(a)
    /\ actor[a].pc \in {"rematerialize", "relist", "built"} =>
         Content(actor[a].config) \in Since(a)
    /\ actor[a].pc = "stat" /\ store = "postgres" =>
         IF actor[a].fetched = Absent
         THEN Absent \in Since(a)
         ELSE /\ disk[actor[a].process].present
              /\ materialized[actor[a].process] = actor[a].fetched.stamp
ReadInv == \A a \in Actor : Reads(a)
CurrentInv == KeepInv /\ PastInv /\ ReadInv /\ AgentIsCurrent
-----------------------------------------------------------------------------
(* Skills have files, if nobody deletes the assistant.                     *)

Deleted == \E a \in Actor : actor[a].kind = "delete"
\* Where an agent of process p looks for its skills.
Files(p) == IF store = "postgres" THEN disk[p].files ELSE files
RowSkills ==
    /\ row # Absent /\ row.skills \subseteq files
    /\ \A p \in Process : disk[p].present /\ row.stamp = materialized[p] =>
         row.skills \subseteq disk[p].files
HasFiles(a) ==
    /\ actor[a].config # Absent =>
         actor[a].config.skills \subseteq IF actor[a].pc = "putFile" THEN files \cup {a} ELSE files
    /\ store = "postgres" =>
         /\ actor[a].pc = "rematerialize" /\ disk[actor[a].process].present
                /\ row.stamp = materialized[actor[a].process] =>
              actor[a].config.skills \subseteq disk[actor[a].process].files
         /\ actor[a].pc = "relist" /\ disk[actor[a].process].present
                /\ actor[a].fetched.stamp = materialized[actor[a].process] =>
              actor[a].config.skills \subseteq disk[actor[a].process].files
         /\ actor[a].pc = "built" =>
              actor[a].config.skills \subseteq disk[actor[a].process].files
    /\ actor[a].agent \notin {NoAgent, Legacy} =>
         actor[a].agent.skills \subseteq Files(actor[a].process)
KeptSkills ==
    \A p \in Process : cache[p] # NoAgent => cache[p].agent.skills \subseteq Files(p)
SkillsInv == RowSkills /\ KeptSkills /\ \A a \in Actor : HasFiles(a)
-----------------------------------------------------------------------------
(* In one process, what is written back is what is stored.                 *)

Rewrites(a) ==
    /\ actor[a].kind \in {"skill", "run"}
           /\ actor[a].pc \in {"putFile", "saveExists", "createExists", "updateGet", "upsert"} =>
         /\ row # Absent /\ actor[a].pc # "createExists"
         /\ actor[a].config.edit = row.edit /\ row.skills \subseteq actor[a].config.skills
    /\ actor[a].kind = "put" /\ actor[a].pc = "upsert" => row # Absent
EditsInv == OneProcess => \A a \in Actor : Rewrites(a)

IInv ==
    /\ TypeInv /\ LockInv /\ StampInv /\ TimeInv /\ CurrentInv
    /\ ~Deleted => SkillsInv
    /\ EditsInv
-----------------------------------------------------------------------------
(* What each step does to its actor.                                       *)

Others(a) == \A b \in Actor : b # a => actor'[b] = actor[b]
\* The step of a takes no lock from anyone else.
Undisturbs(a) ==
    \A p \in Process : /\ loop'[p] = loop[p] \/ loop[p] \in {a, Nobody}
                       /\ setup'[p] = setup[p] \/ setup[p] \in {a, Nobody}
Locked(a) ==
    /\ Unbroken(a) => loop[actor[a].process] = a
    /\ actor[a].pc \in Preparing => setup[actor[a].process] = a
Good(a) == TypeInv' /\ Others(a) /\ Undisturbs(a) /\ Locked(a)'

\* Actor a goes on at pc, and this is what it has then.
Acts(a, pc, config, fetched, mtime, agent, since) ==
    /\ actor'[a].kind = actor[a].kind /\ actor'[a].process = actor[a].process
    /\ actor'[a].pc = pc
    /\ actor'[a].config = config /\ actor'[a].fetched = fetched /\ actor'[a].mtime = mtime
    /\ actor'[a].agent = agent /\ actor'[a].since = since
Moves(a, pc) ==
    Acts(a, pc, actor[a].config, actor[a].fetched, actor[a].mtime, actor[a].agent,
         actor[a].since)

LEMMA Names == Nobody \notin Actor /\ Nobody \notin Process /\ NoTime \notin Someone
BY ConstantsAssumption DEF Someone, NoTime

LEMMA Records ==
    /\ \A c \in Configs : c # Absent
    /\ \A c \in Contents : c # Absent /\ c # NoAgent /\ c # Legacy
    /\ Absent # NoAgent /\ Absent # Legacy /\ Legacy # NoAgent
    /\ \A k \in Agents : k # NoAgent
BY DEF Configs, Contents, Agents, Absent, NoAgent, Legacy

LEMMA ItsState ==
    ASSUME TypeInv, NEW a \in Actor
    PROVE  /\ actor[a] \in ActorState /\ KindFits(a)
           /\ actor[a].pc # "new" => actor[a].process \in Process
BY DEF TypeInv, ActorOK, KindFits

\* After GoOn or Yield an actor is in the state it was given, and no other one
\* was running in its process.
LEMMA Becomes ==
    ASSUME TypeInv, NEW a \in Actor, actor[a].process \in Process,
           loop[actor[a].process] \in {a, Nobody},
           NEW s \in ActorState, GoOn(a, s) \/ Yield(a, s)
    PROVE  /\ ActorOK' /\ Others(a) /\ actor'[a] = s
           /\ loop' \in [Process -> Someone]
           /\ \A p \in Process : loop'[p] = loop[p] \/ loop[p] \in {a, Nobody}
           /\ GoOn(a, s) => loop'[actor[a].process] = a
<1>1. actor' = [actor EXCEPT ![a] = s]
  BY DEF GoOn, Yield
<1>2. PICK l \in Someone : /\ loop' = [loop EXCEPT ![actor[a].process] = l]
                           /\ GoOn(a, s) => l = a
  <2>1. CASE GoOn(a, s)
    BY <2>1 DEF GoOn, Someone
  <2>2. CASE ~GoOn(a, s)
    BY <2>2 DEF Yield, Someone
  <2> QED BY <2>1, <2>2
<1> HIDE DEF ActorState
<1> QED BY <1>1, <1>2 DEF TypeInv, ActorOK, LocksOK, Others

LEMMA WithIs ==
    ASSUME TypeInv, NEW a \in Actor, NEW pc \in PC
    PROVE  /\ With(a, pc) \in ActorState /\ With(a, pc).pc = pc
           /\ With(a, pc).kind = actor[a].kind /\ With(a, pc).process = actor[a].process
           /\ With(a, pc).config = actor[a].config /\ With(a, pc).fetched = actor[a].fetched
           /\ With(a, pc).mtime = actor[a].mtime /\ With(a, pc).agent = actor[a].agent
           /\ With(a, pc).since = actor[a].since
<1> DEFINE old == actor[a]
           s == [old EXCEPT !.pc = pc]
<1>1. old \in ActorState
  BY ItsState
<1>2. With(a, pc) = s
  BY DEF With
<1> HIDE DEF old
<1>3. /\ s \in ActorState /\ s.pc = pc /\ s.kind = old.kind /\ s.process = old.process
      /\ s.config = old.config /\ s.fetched = old.fetched /\ s.mtime = old.mtime
      /\ s.agent = old.agent /\ s.since = old.since
  BY <1>1 DEF ActorState
<1> HIDE DEF s
<1> QED BY <1>2, <1>3 DEF old

\* The step of a leaves _setup_lock to whom it belongs, and keeps it at pc.
SetsUp(a, pc) ==
    /\ setup' \in [Process -> Someone]
    /\ \A p \in Process : setup'[p] = setup[p] \/ setup[p] \in {a, Nobody}
    /\ pc \in Preparing => setup'[actor[a].process] = a

LEMMA SetupStays ==
    ASSUME TypeInv, LockInv, NEW a \in Actor, NEW pc, UNCHANGED setup,
           pc \in Preparing => actor[a].pc \in Preparing
    PROVE  SetsUp(a, pc)
BY DEF TypeInv, LocksOK, LockInv, SetsUp

LEMMA SetupTaken ==
    ASSUME TypeInv, NEW a \in Actor, NEW pc, actor[a].process \in Process,
           setup[actor[a].process] = Nobody, TakeSetup(a)
    PROVE  SetsUp(a, pc)
BY DEF TypeInv, LocksOK, TakeSetup, SetsUp, Someone

LEMMA SetupLeft ==
    ASSUME TypeInv, LockInv, NEW a \in Actor, NEW pc, actor[a].process \in Process,
           actor[a].pc \in Preparing, pc \notin Preparing, LeaveSetup(a)
    PROVE  SetsUp(a, pc)
BY DEF TypeInv, LocksOK, LockInv, LeaveSetup, SetsUp, Someone

\* A step of a that leaves it in state s.
LEMMA Steps ==
    ASSUME TypeInv, LockInv, NEW a \in Actor, actor[a].pc # "new",
           loop[actor[a].process] \in {a, Nobody}, store' = store, WorldOK',
           NEW s \in ActorState, s.kind = actor[a].kind, s.process = actor[a].process,
           s.pc # "new", Fits(s.pc, s.kind, s.config, s.fetched, s.mtime, s.agent),
           GoOn(a, s) \/ (Yield(a, s) /\ ~Unbreaks(s.pc, s.kind)), SetsUp(a, s.pc)
    PROVE  Good(a) /\ Acts(a, s.pc, s.config, s.fetched, s.mtime, s.agent, s.since)
<1>1. actor[a].process \in Process
  BY ItsState
<1>2. /\ ActorOK' /\ Others(a) /\ actor'[a] = s
      /\ loop' \in [Process -> Someone]
      /\ \A p \in Process : loop'[p] = loop[p] \/ loop[p] \in {a, Nobody}
      /\ GoOn(a, s) => loop'[actor[a].process] = a
  BY <1>1, Becomes
<1>3. KindFits(a)'
  BY <1>1, <1>2 DEF KindFits
<1>4. ASSUME NEW b \in Actor, b # a PROVE KindFits(b)'
  BY <1>2, <1>4 DEF TypeInv, Others, KindFits
<1>5. TypeInv'
  BY <1>2, <1>3, <1>4 DEF TypeInv, LocksOK, SetsUp
<1>6. Undisturbs(a)
  BY <1>2 DEF SetsUp, Undisturbs
<1>7. Locked(a)'
  BY <1>2 DEF SetsUp, Locked, Unbroken
<1> QED BY <1>2, <1>5, <1>6, <1>7 DEF Good, Acts

LEMMA StillTyped == ASSUME TypeInv, UNCHANGED <<stored, local>> PROVE WorldOK'
BY DEF TypeInv, WorldOK, RowOK, DiskOK, CacheOK, stored, local

\* Most steps only move on.
LEMMA MovesOn ==
    ASSUME TypeInv, LockInv, NEW a \in Actor, NEW pc \in PC, At(a, actor[a].pc),
           actor[a].pc # "new", pc # "new", UNCHANGED <<store, setup>>, WorldOK',
           pc \in Preparing => actor[a].pc \in Preparing,
           Fits(pc, actor[a].kind, actor[a].config, actor[a].fetched, actor[a].mtime,
                actor[a].agent),
           GoOn(a, With(a, pc)) \/ (pc = "done" /\ Done(a))
    PROVE  Good(a) /\ Moves(a, pc)
<1> DEFINE s == With(a, pc)
<1>1. /\ s \in ActorState /\ s.pc = pc
      /\ s.kind = actor[a].kind /\ s.process = actor[a].process
      /\ s.config = actor[a].config /\ s.fetched = actor[a].fetched
      /\ s.mtime = actor[a].mtime /\ s.agent = actor[a].agent /\ s.since = actor[a].since
  BY WithIs
<1>2. GoOn(a, s) \/ (Yield(a, s) /\ ~Unbreaks(s.pc, s.kind))
  BY <1>1 DEF Done, Unbreaks
<1>3. SetsUp(a, s.pc) /\ loop[actor[a].process] \in {a, Nobody}
  BY <1>1, SetupStays DEF At
<1> HIDE DEF s
<1> QED BY <1>1, <1>2, <1>3, Steps DEF Moves

LEMMA StopsThere ==
    ASSUME TypeInv, LockInv, NEW a \in Actor, At(a, actor[a].pc), actor[a].pc # "new",
           UNCHANGED <<store, setup>>, WorldOK', Done(a)
    PROVE  Good(a) /\ Moves(a, "done")
<1>1. "done" \in PC /\ "done" # "new" /\ "done" \notin Preparing
  BY DEF PC, Preparing
<1>2. Fits("done", actor[a].kind, actor[a].config, actor[a].fetched, actor[a].mtime,
           actor[a].agent)
  BY DEF Fits, RunSteps, SkillSteps, DeleteSteps, Preparing
<1> QED BY <1>1, <1>2, MovesOn
-----------------------------------------------------------------------------
(* The steps, one by one.                                                  *)

LEMMA CreateExistsDoes ==
    ASSUME TypeInv, LockInv, NEW a \in Actor, CreateExists(a)
    PROVE  /\ Good(a) /\ UNCHANGED <<stored, local>>
           /\ \E pc \in {"done", "upsert"} : Moves(a, pc)
           /\ row # Absent => actor'[a].pc = "done"
<1>1. At(a, actor[a].pc) /\ actor[a].pc # "new" /\ UNCHANGED <<store, setup, stored, local>>
  BY DEF CreateExists, At
<1>2. KindFits(a) /\ WorldOK'
  BY <1>1, ItsState, StillTyped
<1>3. CASE row # Absent
  <2>1. Good(a) /\ Moves(a, "done")
    BY <1>1, <1>2, <1>3, StopsThere DEF CreateExists
  <2> QED BY <1>1, <2>1 DEF Moves, Acts
<1>4. CASE row = Absent
  <2>1. Good(a) /\ Moves(a, "upsert")
    BY <1>1, <1>2, <1>4, MovesOn
    DEF CreateExists, PC, Preparing, RunSteps, SkillSteps, DeleteSteps, KindFits, Fits, At
  <2> QED BY <1>1, <1>4, <2>1
<1> QED BY <1>3, <1>4

LEMMA UpdateGetDoes ==
    ASSUME TypeInv, LockInv, NEW a \in Actor, UpdateGet(a)
    PROVE  /\ Good(a) /\ UNCHANGED <<stored, local>>
           /\ \E pc \in {"done", "upsert"} : Moves(a, pc)
           /\ row = Absent => actor'[a].pc = "done"
<1>1. At(a, actor[a].pc) /\ actor[a].pc # "new" /\ UNCHANGED <<store, setup, stored, local>>
  BY DEF UpdateGet, At
<1>2. KindFits(a) /\ WorldOK'
  BY <1>1, ItsState, StillTyped
<1>3. CASE row = Absent
  <2>1. Good(a) /\ Moves(a, "done")
    BY <1>1, <1>2, <1>3, StopsThere DEF UpdateGet
  <2> QED BY <1>1, <2>1 DEF Moves, Acts
<1>4. CASE row # Absent
  <2>1. Good(a) /\ Moves(a, "upsert")
    BY <1>1, <1>2, <1>4, MovesOn
    DEF UpdateGet, PC, Preparing, RunSteps, SkillSteps, DeleteSteps, KindFits, Fits, At
  <2> QED BY <1>1, <1>4, <2>1
<1> QED BY <1>3, <1>4

LEMMA DeleteExistsDoes ==
    ASSUME TypeInv, LockInv, NEW a \in Actor, DeleteExists(a)
    PROVE  /\ Good(a) /\ UNCHANGED <<stored, local>>
           /\ \E pc \in {"done", "deleteFiles", "deleteConfig"} : Moves(a, pc)
<1>1. At(a, actor[a].pc) /\ actor[a].pc # "new" /\ UNCHANGED <<store, setup, stored, local>>
  BY DEF DeleteExists, At
<1>2. KindFits(a) /\ WorldOK'
  BY <1>1, ItsState, StillTyped
<1>3. CASE row = Absent
  <2>1. Good(a) /\ Moves(a, "done")
    BY <1>1, <1>2, <1>3, StopsThere DEF DeleteExists
  <2> QED BY <1>1, <2>1
<1>4. CASE row # Absent
  <2> DEFINE pc == IF store = "postgres" THEN "deleteFiles" ELSE "deleteConfig"
  <2>1. pc \in {"deleteFiles", "deleteConfig"} /\ GoOn(a, With(a, pc))
    BY <1>4 DEF DeleteExists
  <2> HIDE DEF pc
  <2>2. Good(a) /\ Moves(a, pc)
    BY <1>1, <1>2, <2>1, MovesOn
    DEF DeleteExists, PC, Preparing, RunSteps, SkillSteps, DeleteSteps, KindFits, Fits, At
  <2> QED BY <1>1, <2>1, <2>2
<1> QED BY <1>3, <1>4

LEMMA EndDoes ==
    ASSUME TypeInv, LockInv, NEW a \in Actor, End(a)
    PROVE  /\ Good(a) /\ UNCHANGED <<stored, local>>
           /\ \E pc \in {"snapshotExists"} : Moves(a, pc)
<1>1. At(a, actor[a].pc) /\ actor[a].pc # "new" /\ UNCHANGED <<store, setup, stored, local>>
  BY DEF End, At
<1>2. KindFits(a) /\ WorldOK'
  BY <1>1, ItsState, StillTyped
<1>3. Good(a) /\ Moves(a, "snapshotExists")
  BY <1>1, <1>2, MovesOn
  DEF End, PC, Preparing, RunSteps, SkillSteps, DeleteSteps, KindFits, Fits, At
<1> QED BY <1>1, <1>3

LEMMA SnapshotExistsDoes ==
    ASSUME TypeInv, LockInv, NEW a \in Actor, SnapshotExists(a)
    PROVE  /\ Good(a) /\ UNCHANGED <<stored, local>>
           /\ \E pc \in {"done", "snapshotGet"} : Moves(a, pc)
<1>1. At(a, actor[a].pc) /\ actor[a].pc # "new" /\ UNCHANGED <<store, setup, stored, local>>
  BY DEF SnapshotExists, At
<1>2. KindFits(a) /\ WorldOK'
  BY <1>1, ItsState, StillTyped
<1>3. CASE row = Absent
  <2>1. Good(a) /\ Moves(a, "done")
    BY <1>1, <1>2, <1>3, StopsThere DEF SnapshotExists
  <2> QED BY <1>1, <2>1
<1>4. CASE row # Absent
  <2>1. Good(a) /\ Moves(a, "snapshotGet")
    BY <1>1, <1>2, <1>4, MovesOn
    DEF SnapshotExists, PC, Preparing, RunSteps, SkillSteps, DeleteSteps, KindFits, Fits, At
  <2> QED BY <1>1, <2>1
<1> QED BY <1>3, <1>4

LEMMA SaveExistsDoes ==
    ASSUME TypeInv, LockInv, NEW a \in Actor, SaveExists(a)
    PROVE  /\ Good(a) /\ UNCHANGED <<stored, local>>
           /\ \E pc \in {"createExists", "updateGet"} : Moves(a, pc)
           /\ row # Absent => actor'[a].pc = "updateGet"
<1>1. At(a, actor[a].pc) /\ actor[a].pc # "new" /\ UNCHANGED <<store, setup, stored, local>>
  BY DEF SaveExists, At
<1>2. KindFits(a) /\ WorldOK'
  BY <1>1, ItsState, StillTyped
<1>3. PICK pc \in {"createExists", "updateGet"} :
          GoOn(a, With(a, pc)) /\ (row # Absent => pc = "updateGet")
  BY DEF SaveExists
<1>4. Good(a) /\ Moves(a, pc)
  BY <1>1, <1>2, <1>3, MovesOn
  DEF SaveExists, PC, Preparing, RunSteps, SkillSteps, DeleteSteps, KindFits, Fits, At
<1> QED BY <1>1, <1>3, <1>4 DEF Moves, Acts

LEMMA SnapshotGetDoes ==
    ASSUME TypeInv, LockInv, NEW a \in Actor, SnapshotGet(a)
    PROVE  /\ Good(a) /\ UNCHANGED <<stored, local>>
           /\ \/ Moves(a, "done")
              \/ /\ Acts(a, "saveExists", row, actor[a].fetched, actor[a].mtime, actor[a].agent,
                         actor[a].since)
                 /\ row # Absent
<1>1. At(a, actor[a].pc) /\ actor[a].pc = "snapshotGet" /\ UNCHANGED <<store, setup, stored, local>>
  BY DEF SnapshotGet, At
<1>2. KindFits(a) /\ WorldOK'
  BY <1>1, ItsState, StillTyped
<1>3. CASE row = Absent
  <2>1. Good(a) /\ Moves(a, "done")
    BY <1>1, <1>2, <1>3, StopsThere DEF SnapshotGet
  <2> QED BY <1>1, <2>1
<1>4. CASE row # Absent
  <2>1. row \in Configs
    BY <1>4 DEF TypeInv, WorldOK, RowOK
  <2> DEFINE w == With(a, "saveExists")
             s == [w EXCEPT !.config = row]
  <2>2. /\ w \in ActorState /\ w.pc = "saveExists" /\ w.kind = actor[a].kind
        /\ w.process = actor[a].process /\ w.config = actor[a].config
        /\ w.fetched = actor[a].fetched
        /\ w.mtime = actor[a].mtime /\ w.agent = actor[a].agent /\ w.since = actor[a].since
    BY WithIs DEF PC, RunSteps, SkillSteps, DeleteSteps, Preparing
  <2>3. /\ s \in ActorState
        /\ s.pc = w.pc /\ s.kind = w.kind /\ s.process = w.process
        /\ s.config = row /\ s.fetched = w.fetched /\ s.mtime = w.mtime
        /\ s.agent = w.agent /\ s.since = w.since
    <3> HIDE DEF w
    <3> QED BY <2>1, <2>2 DEF ActorState
  <2>4. GoOn(a, s)
    BY <1>4 DEF SnapshotGet
  <2>5. Fits(s.pc, s.kind, s.config, s.fetched, s.mtime, s.agent) /\ SetsUp(a, s.pc)
    <3> HIDE DEF s, w
    <3> QED BY <1>1, <1>2, <1>4, <2>2, <2>3, SetupStays
            DEF KindFits, Fits, RunSteps, SkillSteps, DeleteSteps, Preparing
  <2> HIDE DEF s, w
  <2>6. Good(a) /\ Acts(a, s.pc, s.config, s.fetched, s.mtime, s.agent, s.since)
    BY <1>1, <1>2, <2>2, <2>3, <2>4, <2>5, Steps DEF At
  <2> QED BY <1>1, <1>4, <2>2, <2>3, <2>6 DEF Acts
<1> QED BY <1>3, <1>4

LEMMA SkillGetDoes ==
    ASSUME TypeInv, LockInv, NEW a \in Actor, SkillGet(a)
    PROVE  /\ Good(a) /\ UNCHANGED <<stored, local>>
           /\ \/ Moves(a, "done")
              \/ /\ Acts(a, "putFile", Config(row.edit, row.skills \cup {a}, a),
                         actor[a].fetched, actor[a].mtime, actor[a].agent, actor[a].since)
                 /\ row # Absent
<1>1. At(a, actor[a].pc) /\ actor[a].pc = "skillGet" /\ UNCHANGED <<store, setup, stored, local>>
  BY DEF SkillGet, At
<1>2. KindFits(a) /\ WorldOK'
  BY <1>1, ItsState, StillTyped
<1>3. CASE row = Absent
  <2>1. Good(a) /\ Moves(a, "done")
    BY <1>1, <1>2, <1>3, StopsThere DEF SkillGet
  <2> QED BY <1>1, <2>1
<1>4. CASE row # Absent
  <2> DEFINE c == Config(row.edit, row.skills \cup {a}, a)
  <2>1. c \in Configs
    BY <1>4 DEF TypeInv, WorldOK, RowOK, Config, Configs, Someone
  <2> DEFINE w == With(a, "putFile")
             s == [w EXCEPT !.config = c]
  <2>2. /\ w \in ActorState /\ w.pc = "putFile" /\ w.kind = actor[a].kind
        /\ w.process = actor[a].process /\ w.config = actor[a].config
        /\ w.fetched = actor[a].fetched
        /\ w.mtime = actor[a].mtime /\ w.agent = actor[a].agent /\ w.since = actor[a].since
    BY WithIs DEF PC, RunSteps, SkillSteps, DeleteSteps, Preparing
  <2>3. /\ s \in ActorState
        /\ s.pc = w.pc /\ s.kind = w.kind /\ s.process = w.process
        /\ s.config = c /\ s.fetched = w.fetched /\ s.mtime = w.mtime
        /\ s.agent = w.agent /\ s.since = w.since
    <3> HIDE DEF w, c
    <3> QED BY <2>1, <2>2 DEF ActorState
  <2>4. GoOn(a, s)
    BY <1>4 DEF SkillGet
  <2>5. Fits(s.pc, s.kind, s.config, s.fetched, s.mtime, s.agent) /\ SetsUp(a, s.pc)
    <3> HIDE DEF s, w, c
    <3> QED BY <1>1, <1>2, <2>1, <2>2, <2>3, Records, SetupStays
            DEF KindFits, Fits, RunSteps, SkillSteps, DeleteSteps, Preparing
  <2> HIDE DEF s, w, c
  <2>6. Good(a) /\ Acts(a, s.pc, s.config, s.fetched, s.mtime, s.agent, s.since)
    BY <1>1, <1>2, <2>2, <2>3, <2>4, <2>5, Steps DEF At
  <2>7. Acts(a, "putFile", c, actor[a].fetched, actor[a].mtime, actor[a].agent, actor[a].since)
    BY <2>2, <2>3, <2>6 DEF Acts
  <2> QED BY <1>1, <1>4, <2>6, <2>7 DEF c
<1> QED BY <1>3, <1>4

LEMMA PutFileDoes ==
    ASSUME TypeInv, LockInv, NEW a \in Actor, PutFile(a)
    PROVE  /\ Good(a) /\ UNCHANGED <<row, past, local>>
           /\ files' = files \cup {a}
           /\ Moves(a, "updateGet")
<1>1. /\ At(a, actor[a].pc) /\ actor[a].pc = "putFile"
      /\ UNCHANGED <<store, setup, row, past, local>> /\ files' = files \cup {a}
  BY DEF PutFile, At
<1>2. KindFits(a) /\ WorldOK'
  BY <1>1, ItsState DEF TypeInv, WorldOK, RowOK, DiskOK, CacheOK, local
<1>3. Good(a) /\ Moves(a, "updateGet")
  BY <1>1, <1>2, MovesOn
  DEF PutFile, PC, Preparing, RunSteps, SkillSteps, DeleteSteps, KindFits, Fits, At
<1> QED BY <1>1, <1>3

LEMMA DeleteFilesDoes ==
    ASSUME TypeInv, LockInv, NEW a \in Actor, DeleteFiles(a)
    PROVE  /\ Good(a) /\ UNCHANGED <<row, past, local>>
           /\ files' = {}
           /\ Moves(a, "deleteConfig")
<1>1. /\ At(a, actor[a].pc) /\ actor[a].pc = "deleteFiles"
      /\ UNCHANGED <<store, setup, row, past, local>> /\ files' = {}
  BY DEF DeleteFiles, At
<1>2. KindFits(a) /\ WorldOK'
  BY <1>1, ItsState DEF TypeInv, WorldOK, RowOK, DiskOK, CacheOK, local
<1>3. Good(a) /\ Moves(a, "deleteConfig")
  BY <1>1, <1>2, MovesOn
  DEF DeleteFiles, PC, Preparing, RunSteps, SkillSteps, DeleteSteps, KindFits, Fits, At
<1> QED BY <1>1, <1>3

LEMMA DeleteConfigDoes ==
    ASSUME TypeInv, LockInv, NEW a \in Actor, DeleteConfig(a)
    PROVE  /\ Good(a) /\ UNCHANGED <<materialized, cache>> /\ actor[a].kind = "delete"
           /\ Write(Absent)
           /\ \A p \in Process : /\ disk'[p].mtime = disk[p].mtime
                                 /\ disk'[p].present => disk[p].present
                                 /\ p # actor[a].process => disk'[p] = disk[p]
           /\ Moves(a, "done")
<1>1. /\ At(a, actor[a].pc) /\ actor[a].pc = "deleteConfig"
      /\ UNCHANGED <<store, setup, materialized, cache>> /\ files' \in SUBSET Actor
  BY DEF DeleteConfig, At, TypeInv, WorldOK
<1>2. KindFits(a) /\ actor[a].kind = "delete" /\ actor[a].process \in Process
  BY <1>1, ItsState DEF KindFits, Fits, DeleteSteps
<1>3. Write(Absent) /\ row' = Absent /\ past' \in Seq(Contents \cup {Absent})
  BY DEF DeleteConfig, Write, TypeInv, WorldOK, Content
<1>4. /\ DiskOK'
      /\ \A p \in Process : /\ disk'[p].mtime = disk[p].mtime
                            /\ disk'[p].present => disk[p].present
                            /\ p # actor[a].process => disk'[p] = disk[p]
  <2> DEFINE p == actor[a].process
             d == disk[p]
             e == [d EXCEPT !.present = FALSE, !.files = {}]
  <2>1. disk' = [disk EXCEPT ![p] = e]
    BY DEF DeleteConfig
  <2>2. d \in [present : BOOLEAN, mtime : Nat, files : SUBSET Actor]
    BY <1>2 DEF TypeInv, WorldOK, DiskOK
  <2>3. /\ e \in [present : BOOLEAN, mtime : Nat, files : SUBSET Actor]
        /\ ~e.present /\ e.mtime = d.mtime
    <3> HIDE DEF d
    <3> QED BY <2>2
  <2> HIDE DEF e
  <2> QED BY <2>1, <2>3, <1>2 DEF TypeInv, WorldOK, DiskOK
<1>5. WorldOK'
  BY <1>1, <1>3, <1>4 DEF TypeInv, WorldOK, RowOK, CacheOK
<1>6. Good(a) /\ Moves(a, "done")
  BY <1>1, <1>2, <1>5, StopsThere DEF DeleteConfig
<1> QED BY <1>1, <1>2, <1>3, <1>4, <1>6

LEMMA UpsertDoes ==
    ASSUME TypeInv, LockInv, NEW a \in Actor, Upsert(a)
    PROVE  /\ Good(a) /\ UNCHANGED <<files, local>> /\ Moves(a, "done")
           /\ actor[a].pc = "upsert" /\ row' = [actor[a].config EXCEPT !.stamp = a]
           /\ Write(row') /\ row' \in Configs
           /\ row'.edit = actor[a].config.edit /\ row'.skills = actor[a].config.skills
           /\ row'.stamp = a
<1> DEFINE old == actor[a].config
           c == [old EXCEPT !.stamp = a]
<1>1. /\ At(a, actor[a].pc) /\ actor[a].pc = "upsert"
      /\ UNCHANGED <<store, setup, files, local>> /\ row' = c /\ Write(c)
  BY DEF Upsert, At, Write
<1>2. KindFits(a) /\ old \in Configs /\ actor[a].process \in Process
  BY <1>1, ItsState DEF KindFits, Fits, ActorState
<1>3. c \in Configs /\ c.edit = old.edit /\ c.skills = old.skills /\ c.stamp = a
  <2> HIDE DEF old
  <2> QED BY <1>2 DEF Configs, Someone
<1>4. Content(c) \in Contents
  <2> HIDE DEF c
  <2> QED BY <1>3, Records DEF Content, Contents, Configs
<1>5. past' \in Seq(Contents \cup {Absent})
  <2> HIDE DEF c
  <2> QED BY <1>1, <1>4 DEF Write, TypeInv, WorldOK
<1>6. WorldOK'
  <2> HIDE DEF c
  <2> QED BY <1>1, <1>3, <1>5 DEF TypeInv, WorldOK, RowOK, DiskOK, CacheOK, local
<1>7. PICK shown : /\ Yield(a, [With(a, "done") EXCEPT !.snapshot = shown])
                   /\ shown \in Configs \cup {Absent}
  BY <1>2 DEF Upsert
<1> DEFINE w == With(a, "done")
           s == [w EXCEPT !.snapshot = shown]
<1>8. /\ w \in ActorState /\ w.pc = "done" /\ w.kind = actor[a].kind
      /\ w.process = actor[a].process /\ w.config = actor[a].config /\ w.fetched = actor[a].fetched
      /\ w.mtime = actor[a].mtime /\ w.agent = actor[a].agent /\ w.since = actor[a].since
  BY WithIs DEF PC, RunSteps, SkillSteps, DeleteSteps, Preparing
<1>9. /\ s \in ActorState
      /\ s.pc = w.pc /\ s.kind = w.kind /\ s.process = w.process
      /\ s.config = w.config /\ s.fetched = w.fetched /\ s.mtime = w.mtime
      /\ s.agent = w.agent /\ s.since = w.since
  <2> HIDE DEF w
  <2> QED BY <1>7, <1>8 DEF ActorState
<1>10. ~Unbreaks(s.pc, s.kind) /\ SetsUp(a, s.pc) /\ Yield(a, s)
  <2>1. s.pc \notin Preparing /\ ~Unbreaks(s.pc, s.kind)
    <3> HIDE DEF s, w
    <3> QED BY <1>8, <1>9 DEF Unbreaks, Preparing
  <2>2. SetsUp(a, s.pc)
    <3> HIDE DEF s, w
    <3> QED BY <1>1, <2>1, SetupStays
  <2> QED BY <1>7, <2>1, <2>2
<1>11. Fits(s.pc, s.kind, s.config, s.fetched, s.mtime, s.agent)
  <2> HIDE DEF s, w
  <2> QED BY <1>8, <1>9 DEF Fits, RunSteps, SkillSteps, DeleteSteps, Preparing
<1> HIDE DEF s, w, c
<1>12. Good(a) /\ Acts(a, s.pc, s.config, s.fetched, s.mtime, s.agent, s.since)
  BY <1>1, <1>2, <1>6, <1>8, <1>9, <1>10, <1>11, Steps DEF At
<1> QED BY <1>1, <1>3, <1>8, <1>9, <1>12 DEF Acts, Moves, c

\* What a request brings.
Arrived(a) ==
    \/ /\ actor'[a].kind = "create" /\ actor'[a].pc = "createExists"
       /\ actor'[a].config = Config(a, {}, a)
    \/ /\ actor'[a].kind = "put" /\ actor'[a].pc = "updateGet"
       /\ actor'[a].config = Config(a, IF row = Absent THEN {} ELSE row.skills, a)
    \/ /\ \/ actor'[a].kind = "skill" /\ actor'[a].pc = "skillGet"
          \/ actor'[a].kind = "delete" /\ actor'[a].pc = "deleteExists"
          \/ actor'[a].kind = "run" /\ actor'[a].pc = "exists"
       /\ actor'[a].config = Absent

LEMMA ArriveDoes ==
    ASSUME TypeInv, LockInv, NEW a \in Actor, NEW kind \in Kinds, NEW p \in Process,
           Arrive(a, kind, p)
    PROVE  /\ Good(a) /\ UNCHANGED <<stored, local>> /\ Arrived(a) /\ actor[a].pc = "new"
           /\ actor'[a].agent = NoAgent /\ actor'[a].fetched = Absent
           /\ actor'[a].process = p /\ actor'[a].mtime = NoTime /\ actor[a].kind = "none"
<1>1. /\ actor[a].pc = "new" /\ UNCHANGED <<store, setup, loop, stored, local>>
  BY DEF Arrive
<1>2. kind \in {"create", "put", "skill", "delete", "run"}
  BY ConstantsAssumption
<1>3. PICK c \in Configs \cup {Absent}, pc \in PC :
        /\ actor' = [actor EXCEPT ![a] =
             [New EXCEPT !.kind = kind, !.process = p, !.config = c, !.pc = pc]]
        /\ \/ kind = "create" /\ pc = "createExists" /\ c = Config(a, {}, a)
           \/ /\ kind = "put" /\ pc = "updateGet"
              /\ c = Config(a, IF row = Absent THEN {} ELSE row.skills, a)
           \/ /\ \/ kind = "skill" /\ pc = "skillGet"
                 \/ kind = "delete" /\ pc = "deleteExists"
                 \/ kind = "run" /\ pc = "exists"
              /\ c = Absent
        /\ kind \in {"create", "put"} => c \in Configs
  <2> DEFINE c == CASE kind = "create" -> Config(a, {}, a)
                    [] kind = "put" -> Config(a, IF row = Absent THEN {} ELSE row.skills, a)
                    [] OTHER -> Absent
             pc == CASE kind = "create" -> "createExists"
                     [] kind = "put" -> "updateGet"
                     [] kind = "skill" -> "skillGet"
                     [] kind = "delete" -> "deleteExists"
                     [] kind = "run" -> "exists"
  <2>1. actor' = [actor EXCEPT ![a] =
          [New EXCEPT !.kind = kind, !.process = p, !.config = c, !.pc = pc]]
    BY DEF Arrive
  <2>2. \/ kind = "create" /\ pc = "createExists" /\ c = Config(a, {}, a)
        \/ /\ kind = "put" /\ pc = "updateGet"
           /\ c = Config(a, IF row = Absent THEN {} ELSE row.skills, a)
        \/ /\ \/ kind = "skill" /\ pc = "skillGet"
              \/ kind = "delete" /\ pc = "deleteExists"
              \/ kind = "run" /\ pc = "exists"
           /\ c = Absent
    BY <1>2
  <2> HIDE DEF c, pc
  <2>3. /\ Config(a, {}, a) \in Configs
        /\ Config(a, IF row = Absent THEN {} ELSE row.skills, a) \in Configs
    BY DEF TypeInv, WorldOK, RowOK, Config, Configs, Someone
  <2>4. c \in Configs \cup {Absent} /\ pc \in PC
    BY <2>2, <2>3 DEF PC, RunSteps, SkillSteps, DeleteSteps
  <2>5. kind \in {"create", "put"} => c \in Configs
    BY <2>2, <2>3
  <2> QED BY <2>1, <2>2, <2>4, <2>5
<1> DEFINE s == [New EXCEPT !.kind = kind, !.process = p, !.config = c, !.pc = pc]
<1>4. /\ s \in ActorState
      /\ s.pc = pc /\ s.kind = kind /\ s.process = p /\ s.config = c
      /\ s.fetched = Absent /\ s.mtime = NoTime /\ s.agent = NoAgent
  BY <1>2, <1>3 DEF New, ActorState, Time, NoTime
<1> HIDE DEF s
<1>5. ActorOK' /\ Others(a) /\ actor'[a] = s
  <2>1. actor' = [actor EXCEPT ![a] = s]
    BY <1>3 DEF s
  <2> HIDE DEF ActorState
  <2> QED BY <1>4, <2>1 DEF TypeInv, ActorOK, Others
<1>6. KindFits(a)'
  <2>1. Fits(pc, kind, c, Absent, NoTime, NoAgent) /\ pc # "new"
    BY <1>2, <1>3, Records DEF Fits, RunSteps, SkillSteps, DeleteSteps, Preparing
  <2> QED BY <1>4, <1>5, <2>1 DEF KindFits
<1>7. ASSUME NEW b \in Actor, b # a PROVE KindFits(b)'
  BY <1>5, <1>7 DEF TypeInv, Others, KindFits
<1>8. TypeInv'
  BY <1>1, <1>5, <1>6, <1>7, StillTyped DEF TypeInv, LocksOK
<1>9. Locked(a)' /\ Undisturbs(a)
  BY <1>1, <1>3, <1>4, <1>5 DEF Locked, Unbroken, Unbreaks, Preparing, Undisturbs
<1>10. actor[a].kind = "none"
  BY <1>1, ItsState DEF KindFits, New
<1> QED BY <1>1, <1>3, <1>4, <1>5, <1>8, <1>9, <1>10 DEF Good, Arrived

LEMMA ExistsDoes ==
    ASSUME TypeInv, LockInv, NEW a \in Actor, Exists(a)
    PROVE  /\ Good(a) /\ UNCHANGED <<stored, local>> /\ actor[a].pc = "exists"
           /\ \/ /\ row = Absent
                 /\ Acts(a, "running", actor[a].config, Absent, NoTime, Legacy, Len(past))
              \/ \E pc \in {"materialize", "waitSetup"} :
                    Acts(a, pc, actor[a].config, Absent, NoTime, NoAgent, Len(past))
<1>1. /\ At(a, actor[a].pc) /\ actor[a].pc = "exists" /\ UNCHANGED <<store, stored, local>>
  BY DEF Exists, At
<1>2. KindFits(a) /\ WorldOK' /\ actor[a].process \in Process /\ Len(past) \in Nat
  BY <1>1, ItsState, StillTyped DEF TypeInv, WorldOK
<1>3. /\ actor[a].fetched = Absent /\ actor[a].mtime = NoTime /\ actor[a].agent = NoAgent
      /\ actor[a].kind = "run"
  BY <1>1, <1>2 DEF KindFits, Fits, RunSteps
<1> DEFINE old == actor[a]
           asked == [old EXCEPT !.since = Len(past)]
<1>4. /\ asked \in ActorState /\ asked.pc = old.pc /\ asked.kind = old.kind
      /\ asked.process = old.process /\ asked.config = old.config
      /\ asked.fetched = old.fetched /\ asked.mtime = old.mtime
      /\ asked.agent = old.agent /\ asked.since = Len(past)
  <2>1. old \in ActorState
    BY ItsState
  <2> HIDE DEF old
  <2> QED BY <1>2, <2>1 DEF ActorState
<1>5. CASE row = Absent
  <2> DEFINE s == [asked EXCEPT !.pc = "running", !.agent = Legacy]
  <2>1. Yield(a, s) /\ UNCHANGED setup
    BY <1>5 DEF Exists
  <2>2. /\ s \in ActorState /\ s.pc = "running" /\ s.kind = asked.kind
        /\ s.process = asked.process /\ s.config = asked.config
        /\ s.fetched = asked.fetched /\ s.mtime = asked.mtime
        /\ s.agent = Legacy /\ s.since = asked.since
    <3> HIDE DEF asked
    <3> QED BY <1>4 DEF ActorState, PC, RunSteps
  <2>3. SetsUp(a, s.pc) /\ ~Unbreaks(s.pc, s.kind)
    <3> HIDE DEF s
    <3> QED BY <2>1, <2>2, SetupStays DEF Preparing, Unbreaks
  <2>4. Fits(s.pc, s.kind, s.config, s.fetched, s.mtime, s.agent)
    <3> HIDE DEF s, asked
    <3> QED BY <1>3, <1>4, <2>2 DEF Fits, RunSteps, SkillSteps, DeleteSteps, Preparing
  <2> HIDE DEF s, asked
  <2>5. Good(a) /\ Acts(a, s.pc, s.config, s.fetched, s.mtime, s.agent, s.since)
    BY <1>1, <1>2, <1>4, <2>1, <2>2, <2>3, <2>4, Steps DEF At
  <2> QED BY <1>1, <1>3, <1>4, <1>5, <2>2, <2>5 DEF Acts
<1>6. CASE row # Absent
  <2>1. PICK pc \in {"materialize", "waitSetup"} :
          /\ \/ pc = "materialize" /\ GoOn(a, [asked EXCEPT !.pc = pc])
                /\ setup[actor[a].process] = Nobody /\ TakeSetup(a)
             \/ pc = "waitSetup" /\ Yield(a, [asked EXCEPT !.pc = pc]) /\ UNCHANGED setup
    BY <1>6 DEF Exists
  <2> DEFINE s == [asked EXCEPT !.pc = pc]
  <2>2. /\ s \in ActorState /\ s.pc = pc /\ s.kind = asked.kind
        /\ s.process = asked.process /\ s.config = asked.config
        /\ s.fetched = asked.fetched /\ s.mtime = asked.mtime
        /\ s.agent = asked.agent /\ s.since = asked.since
    <3> HIDE DEF asked
    <3> QED BY <1>4 DEF ActorState, PC, RunSteps, Preparing
  <2>3. SetsUp(a, s.pc)
    <3>1. CASE pc = "materialize"
      <4> HIDE DEF s
      <4> QED BY <1>2, <2>1, <3>1, SetupTaken
    <3>2. CASE pc = "waitSetup"
      <4> HIDE DEF s
      <4> QED BY <2>1, <2>2, <3>2, SetupStays DEF Preparing
    <3> QED BY <3>1, <3>2
  <2>4. Fits(s.pc, s.kind, s.config, s.fetched, s.mtime, s.agent)
    <3> HIDE DEF s, asked
    <3> QED BY <1>3, <1>4, <2>2 DEF Fits, RunSteps, SkillSteps, DeleteSteps, Preparing
  <2>5. GoOn(a, s) \/ (Yield(a, s) /\ ~Unbreaks(s.pc, s.kind))
    <3>1. CASE pc = "materialize"
      BY <2>1, <3>1
    <3>2. CASE pc = "waitSetup"
      <4>1. Yield(a, s)
        BY <2>1, <3>2
      <4> HIDE DEF s
      <4> QED BY <2>2, <3>2, <4>1 DEF Unbreaks
    <3> QED BY <3>1, <3>2
  <2> HIDE DEF s, asked
  <2>6. Good(a) /\ Acts(a, s.pc, s.config, s.fetched, s.mtime, s.agent, s.since)
    BY <1>1, <1>2, <1>4, <2>1, <2>2, <2>3, <2>4, <2>5, Steps DEF At
  <2> QED BY <1>1, <1>3, <1>4, <2>2, <2>6 DEF Acts
<1> QED BY <1>5, <1>6

LEMMA WaitSetupDoes ==
    ASSUME TypeInv, LockInv, NEW a \in Actor, WaitSetup(a)
    PROVE  /\ Good(a) /\ UNCHANGED <<stored, local>> /\ actor[a].pc = "waitSetup"
           /\ Moves(a, "materialize")
<1>1. /\ At(a, actor[a].pc) /\ actor[a].pc = "waitSetup" /\ UNCHANGED <<store, stored, local>>
  BY DEF WaitSetup, At
<1>2. KindFits(a) /\ WorldOK' /\ actor[a].process \in Process
  BY <1>1, ItsState, StillTyped
<1> DEFINE s == With(a, "materialize")
<1>3. /\ s \in ActorState /\ s.pc = "materialize"
      /\ s.kind = actor[a].kind /\ s.process = actor[a].process
      /\ s.config = actor[a].config /\ s.fetched = actor[a].fetched
      /\ s.mtime = actor[a].mtime /\ s.agent = actor[a].agent /\ s.since = actor[a].since
  BY WithIs DEF PC, RunSteps, Preparing
<1>4. GoOn(a, s) /\ SetsUp(a, s.pc)
  <2>1. GoOn(a, s) /\ setup[actor[a].process] = Nobody /\ TakeSetup(a)
    BY DEF WaitSetup
  <2> HIDE DEF s
  <2> QED BY <1>2, <2>1, SetupTaken
<1> HIDE DEF s
<1>5. Fits(s.pc, s.kind, s.config, s.fetched, s.mtime, s.agent)
  BY <1>1, <1>2, <1>3 DEF KindFits, Fits, RunSteps, SkillSteps, DeleteSteps, Preparing
<1> QED BY <1>1, <1>2, <1>3, <1>4, <1>5, Steps DEF At, Moves

\* The first and the second time that a run materializes the definition.
Rounds == {<<"materialize", "list", "stat">>, <<"rematerialize", "relist", "built">>}

LEMMA MaterializeDoes ==
    ASSUME TypeInv, LockInv, NEW a \in Actor, NEW from, NEW list, NEW next,
           <<from, list, next>> \in Rounds, Materialize(a, from, list, next)
    PROVE  /\ Good(a) /\ UNCHANGED <<stored, local>> /\ actor[a].pc = from
           /\ \/ (store = "filesystem" \/ row = Absent) /\ Moves(a, next)
              \/ /\ store = "postgres" /\ row # Absent
                 /\ Acts(a, list, actor[a].config, row, actor[a].mtime, actor[a].agent,
                         actor[a].since)
<1>0. from \in Preparing /\ list \in Preparing /\ next \in Preparing /\ from # "new"
  BY DEF Rounds, Preparing
<1>1. /\ At(a, actor[a].pc) /\ actor[a].pc = from /\ UNCHANGED <<store, setup, stored, local>>
  BY DEF Materialize, At
<1>2. KindFits(a) /\ WorldOK' /\ store \in {"filesystem", "postgres"}
  BY <1>0, <1>1, ItsState, StillTyped DEF TypeInv
<1>3. CASE store = "filesystem" \/ row = Absent
  <2>1. Fits(next, actor[a].kind, actor[a].config, actor[a].fetched, actor[a].mtime,
             actor[a].agent)
    BY <1>0, <1>1, <1>2
    DEF Rounds, KindFits, Fits, RunSteps, SkillSteps, DeleteSteps, Preparing
  <2>2. GoOn(a, With(a, next)) /\ next \in PC /\ next # "new"
    BY <1>0, <1>3 DEF Materialize, PC, RunSteps, Rounds
  <2>3. Good(a) /\ Moves(a, next)
    BY <1>0, <1>1, <1>2, <2>1, <2>2, MovesOn
  <2> QED BY <1>1, <1>3, <2>3
<1>4. CASE ~(store = "filesystem" \/ row = Absent)
  <2>1. row \in Configs /\ list \in PC
    BY <1>0, <1>4 DEF TypeInv, WorldOK, RowOK, PC, RunSteps
  <2> DEFINE w == With(a, list)
             s == [w EXCEPT !.fetched = row]
  <2>2. /\ w \in ActorState /\ w.pc = list /\ w.kind = actor[a].kind
        /\ w.process = actor[a].process /\ w.config = actor[a].config
        /\ w.mtime = actor[a].mtime /\ w.agent = actor[a].agent /\ w.since = actor[a].since
    BY <2>1, WithIs
  <2>3. /\ s \in ActorState /\ s.pc = w.pc /\ s.kind = w.kind /\ s.process = w.process
        /\ s.config = w.config /\ s.fetched = row /\ s.mtime = w.mtime
        /\ s.agent = w.agent /\ s.since = w.since
    <3> HIDE DEF w
    <3> QED BY <2>1, <2>2 DEF ActorState
  <2>4. GoOn(a, s)
    BY <1>4 DEF Materialize
  <2>5. SetsUp(a, s.pc)
    <3> HIDE DEF s, w
    <3> QED BY <1>0, <1>1, <2>2, <2>3, SetupStays
  <2>6. Fits(s.pc, s.kind, s.config, s.fetched, s.mtime, s.agent) /\ s.pc # "new"
    <3> HIDE DEF s, w
    <3> QED BY <1>0, <1>1, <1>2, <1>4, <2>2, <2>3
            DEF Rounds, KindFits, Fits, RunSteps, SkillSteps, DeleteSteps, Preparing
  <2> HIDE DEF s, w
  <2>7. Good(a) /\ Acts(a, s.pc, s.config, s.fetched, s.mtime, s.agent, s.since)
    BY <1>0, <1>1, <1>2, <2>2, <2>3, <2>4, <2>5, <2>6, Steps DEF At
  <2> QED BY <1>1, <1>2, <1>4, <2>2, <2>3, <2>7 DEF Acts
<1> QED BY <1>3, <1>4

\* What writing the scratch folder of process p from a row with this stamp does.
Writes(p, stamp) ==
    /\ disk'[p].present /\ disk'[p].mtime = disk[p].mtime + 1
    /\ disk'[p].files = disk[p].files \cup files /\ materialized'[p] = stamp
    /\ \A q \in Process : q # p => disk'[q] = disk[q] /\ materialized'[q] = materialized[q]

LEMMA ListDoes ==
    ASSUME TypeInv, LockInv, NEW a \in Actor, NEW from, NEW list, NEW next,
           <<from, list, next>> \in Rounds, List(a, list, next)
    PROVE  /\ Good(a) /\ UNCHANGED <<stored, cache>> /\ Moves(a, next)
           /\ actor[a].pc = list /\ actor[a].fetched # Absent /\ actor[a].process \in Process
           /\ \/ /\ disk[actor[a].process].present
                 /\ materialized[actor[a].process] = actor[a].fetched.stamp
                 /\ UNCHANGED <<disk, materialized>>
              \/ Writes(actor[a].process, actor[a].fetched.stamp)
<1>0. list \in Preparing /\ next \in Preparing /\ list # "new" /\ list \in {"list", "relist"}
  BY DEF Rounds, Preparing
<1>1. /\ At(a, actor[a].pc) /\ actor[a].pc = list /\ UNCHANGED <<store, setup, stored, cache>>
  BY DEF List, At
<1>2. /\ KindFits(a) /\ actor[a].process \in Process
      /\ actor[a].fetched \in Configs /\ actor[a].fetched # Absent
  BY <1>0, <1>1, ItsState DEF KindFits, Fits, ActorState
<1>3. /\ DiskOK' /\ materialized' \in [Process -> Someone]
      /\ \/ /\ disk[actor[a].process].present
            /\ materialized[actor[a].process] = actor[a].fetched.stamp
            /\ UNCHANGED <<disk, materialized>>
         \/ Writes(actor[a].process, actor[a].fetched.stamp)
  <2> DEFINE p == actor[a].process
             stamp == actor[a].fetched.stamp
             d == disk[p]
             e == [present |-> TRUE, mtime |-> d.mtime + 1, files |-> d.files \cup files]
  <2>1. stamp \in Someone
    BY <1>2 DEF Configs
  <2>2. CASE d.present /\ materialized[p] = stamp
    BY <2>2 DEF List, TypeInv, WorldOK, DiskOK
  <2>3. CASE ~(d.present /\ materialized[p] = stamp)
    <3>1. disk' = [disk EXCEPT ![p] = e] /\ materialized' = [materialized EXCEPT ![p] = stamp]
      BY <2>3 DEF List
    <3>2. e \in [present : BOOLEAN, mtime : Nat, files : SUBSET Actor]
      BY <1>2 DEF TypeInv, WorldOK, DiskOK
    <3>3. e.present /\ e.mtime = d.mtime + 1 /\ e.files = d.files \cup files
      OBVIOUS
    <3> HIDE DEF e, stamp
    <3> QED BY <1>2, <2>1, <3>1, <3>2, <3>3 DEF TypeInv, WorldOK, DiskOK, Writes, stamp
  <2> QED BY <2>2, <2>3
<1>4. WorldOK'
  BY <1>1, <1>3 DEF TypeInv, WorldOK, RowOK, CacheOK, stored
<1>5. Fits(next, actor[a].kind, actor[a].config, actor[a].fetched, actor[a].mtime,
           actor[a].agent)
  BY <1>0, <1>1, <1>2
  DEF Rounds, KindFits, Fits, RunSteps, SkillSteps, DeleteSteps, Preparing
<1>6. GoOn(a, With(a, next)) /\ next \in PC /\ next # "new"
  BY <1>0 DEF List, PC, RunSteps, Rounds
<1>7. Good(a) /\ Moves(a, next)
  BY <1>0, <1>1, <1>4, <1>5, <1>6, MovesOn
<1> QED BY <1>1, <1>2, <1>3, <1>7

\* The end of the preparation.
LEMMA GotDoes ==
    ASSUME TypeInv, LockInv, NEW a \in Actor, At(a, actor[a].pc), actor[a].pc \in Preparing,
           store' = store, WorldOK', LeaveSetup(a), NEW agent \in Contents, Got(a, agent)
    PROVE  Good(a) /\ Acts(a, "running", Absent, Absent, NoTime, agent, actor[a].since)
<1>1. KindFits(a) /\ actor[a].process \in Process /\ actor[a].pc # "new"
  BY ItsState DEF Preparing
<1> DEFINE w == With(a, "running")
           s == [w EXCEPT !.agent = agent, !.config = Absent, !.fetched = Absent,
                          !.mtime = NoTime]
<1>2. /\ w \in ActorState /\ w.pc = "running" /\ w.kind = actor[a].kind
      /\ w.process = actor[a].process /\ w.since = actor[a].since
  BY WithIs DEF PC, RunSteps
<1>3. /\ s \in ActorState /\ s.pc = w.pc /\ s.kind = w.kind /\ s.process = w.process
      /\ s.config = Absent /\ s.fetched = Absent /\ s.mtime = NoTime /\ s.agent = agent
      /\ s.since = w.since
  <2> HIDE DEF w
  <2> QED BY <1>2 DEF ActorState, Time, NoTime
<1>4. Yield(a, s)
  BY DEF Got
<1>5. ~Unbreaks(s.pc, s.kind) /\ s.pc \notin Preparing
  <2> HIDE DEF s, w
  <2> QED BY <1>2, <1>3 DEF Unbreaks, Preparing
<1>6. SetsUp(a, s.pc)
  <2> HIDE DEF s, w
  <2> QED BY <1>1, <1>5, SetupLeft
<1>7. Fits(s.pc, s.kind, s.config, s.fetched, s.mtime, s.agent)
  <2> HIDE DEF s, w
  <2> QED BY <1>1, <1>2, <1>3
          DEF KindFits, Fits, RunSteps, SkillSteps, DeleteSteps, Preparing
<1> HIDE DEF s, w
<1>8. Good(a) /\ Acts(a, s.pc, s.config, s.fetched, s.mtime, s.agent, s.since)
  BY <1>1, <1>2, <1>3, <1>4, <1>5, <1>6, <1>7, Steps DEF At
<1> QED BY <1>2, <1>3, <1>8 DEF Acts

LEMMA MtimeTyped ==
    ASSUME TypeInv, NEW p \in Process
    PROVE  Mtime(p) \in Time
<1>1. disk[p].mtime \in Nat
  BY DEF TypeInv, WorldOK, DiskOK
<1>2. CASE row = Absent
  BY <1>1, <1>2 DEF Mtime, Time, NoTime
<1>3. CASE row # Absent
  BY <1>1, <1>3 DEF Mtime, Time, NoTime, TypeInv, WorldOK, RowOK, Configs
<1> QED BY <1>2, <1>3

LEMMA StatDoes ==
    ASSUME TypeInv, LockInv, NEW a \in Actor, Stat(a)
    PROVE  /\ Good(a) /\ UNCHANGED <<stored, local>> /\ actor[a].pc = "stat"
           /\ \/ /\ cache[actor[a].process] # NoAgent
                 /\ cache[actor[a].process].mtime = Mtime(actor[a].process)
                 /\ Acts(a, "running", Absent, Absent, NoTime, cache[actor[a].process].agent,
                         actor[a].since)
              \/ Acts(a, "get", actor[a].config, actor[a].fetched, Mtime(actor[a].process),
                      actor[a].agent, actor[a].since)
<1>1. /\ At(a, actor[a].pc) /\ actor[a].pc = "stat" /\ UNCHANGED <<store, stored, local>>
  BY DEF Stat, At
<1>2. KindFits(a) /\ WorldOK' /\ actor[a].process \in Process /\ actor[a].pc \in Preparing
  BY <1>1, ItsState, StillTyped DEF Preparing
<1> DEFINE p == actor[a].process
<1>3. CASE cache[p] # NoAgent /\ cache[p].mtime = Mtime(p)
  <2> DEFINE agent == cache[p].agent
  <2>1. agent \in Contents
    BY <1>2, <1>3 DEF TypeInv, WorldOK, CacheOK, Agents
  <2>2. Got(a, agent) /\ LeaveSetup(a)
    BY <1>3 DEF Stat
  <2> HIDE DEF agent
  <2>3. Good(a) /\ Acts(a, "running", Absent, Absent, NoTime, agent, actor[a].since)
    BY <1>1, <1>2, <2>1, <2>2, GotDoes
  <2> QED BY <1>1, <1>3, <2>3 DEF agent
<1>4. CASE ~(cache[p] # NoAgent /\ cache[p].mtime = Mtime(p))
  <2> DEFINE w == With(a, "get")
             m == Mtime(p)
             s == [w EXCEPT !.mtime = m]
  <2>1. /\ w \in ActorState /\ w.pc = "get" /\ w.kind = actor[a].kind
        /\ w.process = actor[a].process /\ w.config = actor[a].config
        /\ w.fetched = actor[a].fetched /\ w.agent = actor[a].agent
        /\ w.since = actor[a].since
    BY WithIs DEF PC, RunSteps, Preparing
  <2>2. m \in Time
    BY <1>2, MtimeTyped
  <2>3. GoOn(a, s) /\ UNCHANGED setup
    BY <1>4 DEF Stat
  <2> HIDE DEF m
  <2>4. /\ s \in ActorState /\ s.pc = w.pc /\ s.kind = w.kind /\ s.process = w.process
        /\ s.config = w.config /\ s.fetched = w.fetched /\ s.mtime = m
        /\ s.agent = w.agent /\ s.since = w.since
    <3> HIDE DEF w
    <3> QED BY <2>1, <2>2 DEF ActorState
  <2>5. SetsUp(a, s.pc)
    <3> HIDE DEF s, w
    <3> QED BY <1>2, <2>3, SetupStays
  <2>6. Fits(s.pc, s.kind, s.config, s.fetched, s.mtime, s.agent) /\ s.pc # "new"
    <3> HIDE DEF s, w
    <3> QED BY <1>1, <1>2, <2>1, <2>4
            DEF KindFits, Fits, RunSteps, SkillSteps, DeleteSteps, Preparing
  <2> HIDE DEF s, w
  <2>7. Good(a) /\ Acts(a, s.pc, s.config, s.fetched, s.mtime, s.agent, s.since)
    BY <1>1, <1>2, <2>1, <2>3, <2>4, <2>5, <2>6, Steps DEF At
  <2>8. Acts(a, "get", actor[a].config, actor[a].fetched, m, actor[a].agent, actor[a].since)
    BY <2>1, <2>4, <2>7 DEF Acts
  <2> QED BY <1>1, <2>7, <2>8 DEF m
<1> QED BY <1>3, <1>4

LEMMA GetDoes ==
    ASSUME TypeInv, LockInv, NEW a \in Actor, Get(a)
    PROVE  /\ Good(a) /\ UNCHANGED <<stored, local>> /\ actor[a].pc = "get"
           /\ \/ Moves(a, "done")
              \/ /\ row # Absent
                 /\ Acts(a, "rematerialize", row, actor[a].fetched, actor[a].mtime,
                         actor[a].agent, actor[a].since)
<1>1. /\ At(a, actor[a].pc) /\ actor[a].pc = "get" /\ UNCHANGED <<store, stored, local>>
  BY DEF Get, At
<1>2. KindFits(a) /\ WorldOK' /\ actor[a].process \in Process /\ actor[a].pc \in Preparing
  BY <1>1, ItsState, StillTyped DEF Preparing
<1>3. CASE row = Absent
  <2> DEFINE s == With(a, "done")
  <2>1. /\ s \in ActorState /\ s.pc = "done"
        /\ s.kind = actor[a].kind /\ s.process = actor[a].process
        /\ s.config = actor[a].config /\ s.fetched = actor[a].fetched
        /\ s.mtime = actor[a].mtime /\ s.agent = actor[a].agent /\ s.since = actor[a].since
    BY WithIs DEF PC
  <2>2. Yield(a, s) /\ LeaveSetup(a)
    BY <1>3 DEF Get, Done
  <2> HIDE DEF s
  <2>3. ~Unbreaks(s.pc, s.kind) /\ s.pc \notin Preparing
    BY <2>1 DEF Unbreaks, Preparing
  <2>4. SetsUp(a, s.pc)
    BY <1>2, <2>2, <2>3, SetupLeft
  <2>5. Fits(s.pc, s.kind, s.config, s.fetched, s.mtime, s.agent)
    BY <2>1 DEF Fits, RunSteps, SkillSteps, DeleteSteps, Preparing
  <2> QED BY <1>1, <1>2, <2>1, <2>2, <2>3, <2>4, <2>5, Steps DEF At, Moves
<1>4. CASE row # Absent
  <2>1. row \in Configs
    BY <1>4 DEF TypeInv, WorldOK, RowOK
  <2> DEFINE w == With(a, "rematerialize")
             s == [w EXCEPT !.config = row]
  <2>2. /\ w \in ActorState /\ w.pc = "rematerialize" /\ w.kind = actor[a].kind
        /\ w.process = actor[a].process /\ w.mtime = actor[a].mtime
        /\ w.fetched = actor[a].fetched /\ w.agent = actor[a].agent
        /\ w.since = actor[a].since
    BY WithIs DEF PC, RunSteps, Preparing
  <2>3. /\ s \in ActorState /\ s.pc = w.pc /\ s.kind = w.kind /\ s.process = w.process
        /\ s.config = row /\ s.fetched = w.fetched /\ s.mtime = w.mtime
        /\ s.agent = w.agent /\ s.since = w.since
    <3> HIDE DEF w
    <3> QED BY <2>1, <2>2 DEF ActorState
  <2>4. Yield(a, s) /\ UNCHANGED setup
    BY <1>4 DEF Get
  <2>5. SetsUp(a, s.pc) /\ ~Unbreaks(s.pc, s.kind)
    <3> HIDE DEF s, w
    <3> QED BY <1>2, <2>2, <2>3, <2>4, SetupStays DEF Unbreaks
  <2>6. Fits(s.pc, s.kind, s.config, s.fetched, s.mtime, s.agent) /\ s.pc # "new"
    <3> HIDE DEF s, w
    <3> QED BY <1>1, <1>2, <1>4, <2>2, <2>3
            DEF KindFits, Fits, RunSteps, SkillSteps, DeleteSteps, Preparing
  <2> HIDE DEF s, w
  <2>7. Good(a) /\ Acts(a, s.pc, s.config, s.fetched, s.mtime, s.agent, s.since)
    BY <1>1, <1>2, <2>2, <2>3, <2>4, <2>5, <2>6, Steps DEF At
  <2> QED BY <1>1, <1>4, <2>2, <2>3, <2>7 DEF Acts
<1> QED BY <1>3, <1>4

\* What a process keeps.
Keeps(p, agent, mtime) ==
    /\ cache'[p] # NoAgent /\ cache'[p].agent = agent /\ cache'[p].mtime = mtime
    /\ \A q \in Process : q # p => cache'[q] = cache[q]

LEMMA ContentTyped ==
    /\ \A c \in Configs : /\ Content(c) \in Contents
                          /\ Content(c).edit = c.edit /\ Content(c).skills = c.skills
    /\ Content(Absent) = Absent
BY Records DEF Content, Configs, Contents

LEMMA BuiltDoes ==
    ASSUME TypeInv, LockInv, NEW a \in Actor, Built(a)
    PROVE  /\ Good(a) /\ UNCHANGED <<stored, disk, materialized>> /\ actor[a].pc = "built"
           /\ actor[a].process \in Process /\ actor[a].config \in Configs
           /\ Keeps(actor[a].process, Content(actor[a].config), actor[a].mtime)
           /\ Acts(a, "running", Absent, Absent, NoTime, Content(actor[a].config),
                   actor[a].since)
<1>1. /\ At(a, actor[a].pc) /\ actor[a].pc = "built"
      /\ UNCHANGED <<store, stored, disk, materialized>>
  BY DEF Built, At
<1>2. /\ KindFits(a) /\ actor[a].process \in Process /\ actor[a].pc \in Preparing
      /\ actor[a].config \in Configs /\ actor[a].mtime \in Time
  BY <1>1, ItsState DEF KindFits, Fits, Preparing, ActorState
<1> DEFINE agent == Content(actor[a].config)
           kept == [agent |-> agent, mtime |-> actor[a].mtime]
<1>3. agent \in Contents
  BY <1>2, ContentTyped
<1>4. Got(a, agent) /\ LeaveSetup(a) /\ cache' = [cache EXCEPT ![actor[a].process] = kept]
  BY DEF Built
<1> HIDE DEF agent
<1>5. kept \in Agents /\ kept.agent = agent /\ kept.mtime = actor[a].mtime
  BY <1>2, <1>3 DEF Agents
<1> HIDE DEF kept
<1>6. CacheOK' /\ Keeps(actor[a].process, agent, actor[a].mtime)
  BY <1>2, <1>4, <1>5, Records DEF TypeInv, WorldOK, CacheOK, Keeps
<1>7. WorldOK'
  BY <1>1, <1>6 DEF TypeInv, WorldOK, RowOK, DiskOK, stored
<1>8. Good(a) /\ Acts(a, "running", Absent, Absent, NoTime, agent, actor[a].since)
  BY <1>1, <1>2, <1>3, <1>4, <1>7, GotDoes
<1> QED BY <1>1, <1>2, <1>6, <1>8 DEF agent
-----------------------------------------------------------------------------
(* A step of a, whichever it is.                                           *)

Arrives(a) == \E kind \in Kinds, p \in Process : Arrive(a, kind, p)
Acting(a) == Step(a) \/ Arrives(a)

\* The steps that neither read nor write anything but the row's presence.
Walking(a) ==
    \/ CreateExists(a) \/ UpdateGet(a) \/ DeleteExists(a)
    \/ End(a) \/ SnapshotExists(a) \/ SaveExists(a)
Materializes(a) ==
    \/ Materialize(a, "materialize", "list", "stat")
    \/ Materialize(a, "rematerialize", "relist", "built")
Lists(a) == List(a, "list", "stat") \/ List(a, "relist", "built")

LEMMA Walks ==
    ASSUME TypeInv, LockInv, NEW a \in Actor, Walking(a)
    PROVE  /\ Good(a) /\ UNCHANGED <<stored, local>>
           /\ \E pc \in {"done", "upsert", "deleteFiles", "deleteConfig", "snapshotExists",
                       "snapshotGet", "createExists", "updateGet"} : Moves(a, pc)
<1>1. CASE CreateExists(a)
  BY <1>1, CreateExistsDoes
<1>2. CASE UpdateGet(a)
  BY <1>2, UpdateGetDoes
<1>3. CASE DeleteExists(a)
  BY <1>3, DeleteExistsDoes
<1>4. CASE End(a)
  BY <1>4, EndDoes
<1>5. CASE SnapshotExists(a)
  BY <1>5, SnapshotExistsDoes
<1>6. CASE SaveExists(a)
  BY <1>6, SaveExistsDoes
<1> QED BY <1>1, <1>2, <1>3, <1>4, <1>5, <1>6 DEF Walking

\* What a step changes, and which step it is if it changes it.
Changes(a) ==
    /\ store' = store
    /\ UNCHANGED <<row, past>> \/ Upsert(a) \/ DeleteConfig(a)
    /\ UNCHANGED files \/ PutFile(a) \/ DeleteFiles(a) \/ DeleteConfig(a)
    /\ UNCHANGED disk \/ Lists(a) \/ DeleteConfig(a)
    /\ UNCHANGED materialized \/ Lists(a)
    /\ UNCHANGED cache \/ Built(a)
    /\ actor[a].pc # "new" => /\ actor'[a].kind = actor[a].kind
                              /\ actor'[a].process = actor[a].process
    /\ actor'[a].fetched \in {actor[a].fetched, Absent, row}
    /\ actor'[a].pc \in Preparing =>
         \/ actor[a].pc \in Preparing /\ (actor'[a].mtime = actor[a].mtime \/ Stat(a))
         \/ actor'[a].mtime = NoTime
    /\ actor'[a].since = actor[a].since \/ Exists(a) \/ Arrives(a)
    /\ \/ actor'[a].agent = actor[a].agent
       \/ Exists(a) \/ Stat(a) \/ Built(a)
       \/ Arrives(a) /\ actor'[a].agent = NoAgent

LEMMA WalkingChanges ==
    ASSUME TypeInv, LockInv, NEW a \in Actor, Walking(a)
    PROVE  /\ Good(a) /\ Changes(a) /\ actor[a].pc # "done"
           /\ actor'[a].pc \notin Preparing \cup {"waitSetup"}
<1>1. Good(a) /\ UNCHANGED <<stored, local>> /\ actor[a].pc # "done" /\ store' = store
  BY Walks
  DEF Walking, CreateExists, UpdateGet, DeleteExists, End, SnapshotExists, SaveExists, At
<1>2. PICK pc \in {"done", "upsert", "deleteFiles", "deleteConfig", "snapshotExists",
                  "snapshotGet", "createExists", "updateGet"} : Moves(a, pc)
  BY Walks
<1> QED BY <1>1, <1>2 DEF Moves, Acts, Changes, stored, local, Preparing

LEMMA ActingChanges ==
    ASSUME TypeInv, LockInv, NEW a \in Actor, Acting(a)
    PROVE  Good(a) /\ Changes(a) /\ actor[a].pc # "done"
<1>0. KindFits(a)
  BY ItsState
<1>1. CASE Walking(a)
  BY <1>1, WalkingChanges
<1>2. CASE Upsert(a)
  <2>1. store' = store
    BY <1>2 DEF Upsert
  <2> QED BY <1>0, <1>2, <2>1, UpsertDoes
          DEF Upsert, Changes, Moves, Acts, At, stored, local, Preparing, KindFits, Fits
<1>3. CASE SkillGet(a)
  <2>1. store' = store
    BY <1>3 DEF SkillGet
  <2> QED BY <1>0, <1>3, <2>1, SkillGetDoes
          DEF SkillGet, Changes, Moves, Acts, At, stored, local, Preparing, KindFits, Fits
<1>4. CASE PutFile(a)
  <2>1. store' = store
    BY <1>4 DEF PutFile
  <2> QED BY <1>0, <1>4, <2>1, PutFileDoes
          DEF PutFile, Changes, Moves, Acts, At, stored, local, Preparing, KindFits, Fits
<1>5. CASE DeleteFiles(a)
  <2>1. store' = store
    BY <1>5 DEF DeleteFiles
  <2> QED BY <1>0, <1>5, <2>1, DeleteFilesDoes
          DEF DeleteFiles, Changes, Moves, Acts, At, stored, local, Preparing, KindFits, Fits
<1>6. CASE DeleteConfig(a)
  <2>1. store' = store
    BY <1>6 DEF DeleteConfig
  <2> QED BY <1>0, <1>6, <2>1, DeleteConfigDoes
          DEF DeleteConfig, Changes, Moves, Acts, At, stored, local, Preparing, KindFits, Fits
<1>7. CASE Exists(a)
  <2>1. store' = store
    BY <1>7 DEF Exists
  <2> QED BY <1>0, <1>7, <2>1, ExistsDoes
          DEF Exists, Changes, Moves, Acts, At, stored, local, Preparing, KindFits, Fits
<1>8. CASE WaitSetup(a)
  <2>1. store' = store
    BY <1>8 DEF WaitSetup
  <2> QED BY <1>0, <1>8, <2>1, WaitSetupDoes
          DEF WaitSetup, Changes, Moves, Acts, At, stored, local, Preparing, KindFits, Fits
<1>9. CASE Stat(a)
  <2>1. store' = store
    BY <1>9 DEF Stat
  <2> QED BY <1>0, <1>9, <2>1, StatDoes
          DEF Stat, Changes, Moves, Acts, At, stored, local, Preparing, KindFits, Fits
<1>10. CASE Get(a)
  <2>1. store' = store
    BY <1>10 DEF Get
  <2> QED BY <1>0, <1>10, <2>1, GetDoes
          DEF Get, Changes, Moves, Acts, At, stored, local, Preparing, KindFits, Fits
<1>11. CASE Built(a)
  <2>1. store' = store
    BY <1>11 DEF Built
  <2> QED BY <1>0, <1>11, <2>1, BuiltDoes
          DEF Built, Changes, Moves, Acts, At, stored, local, Preparing, KindFits, Fits
<1>12. CASE SnapshotGet(a)
  <2>1. store' = store
    BY <1>12 DEF SnapshotGet
  <2> QED BY <1>0, <1>12, <2>1, SnapshotGetDoes
          DEF SnapshotGet, Changes, Moves, Acts, At, stored, local, Preparing, KindFits, Fits
<1>13. CASE Materializes(a)
  <2>1. PICK from, list, next : /\ <<from, list, next>> \in Rounds
                                /\ Materialize(a, from, list, next)
    BY <1>13 DEF Materializes, Rounds
  <2>2. store' = store /\ from \in Preparing /\ from # "done" /\ from # "new"
    BY <2>1 DEF Materialize, Rounds, Preparing
  <2> QED BY <2>1, <2>2, MaterializeDoes DEF Changes, Moves, Acts, stored, local
<1>14. CASE Lists(a)
  <2>1. PICK from, list, next : /\ <<from, list, next>> \in Rounds
                                /\ List(a, list, next)
    BY <1>14 DEF Lists, Rounds
  <2>2. store' = store /\ list \in Preparing /\ list # "done" /\ list # "new"
    BY <2>1 DEF List, Rounds, Preparing
  <2> QED BY <1>14, <2>1, <2>2, ListDoes DEF Changes, Moves, Acts, stored
<1>15. CASE Arrives(a)
  <2>1. PICK kind \in Kinds, p \in Process : Arrive(a, kind, p)
    BY <1>15 DEF Arrives
  <2>2. store' = store
    BY <2>1 DEF Arrive
  <2> QED BY <1>0, <1>15, <2>1, <2>2, ArriveDoes
          DEF Changes, stored, local, Arrived, Preparing, KindFits, Fits
<1> QED BY <1>1, <1>2, <1>3, <1>4, <1>5, <1>6, <1>7, <1>8, <1>9, <1>10, <1>11, <1>12, <1>13,
           <1>14, <1>15
        DEF Acting, Step, Walking, Materializes, Lists

LEMMA StepTypes ==
    ASSUME TypeInv, LockInv, NEW a \in Actor, Acting(a)
    PROVE  TypeInv' /\ LockInv'
<1>1. Good(a) /\ a # Nobody
  BY ActingChanges, Names
<1>2. ASSUME NEW b \in Actor, b # a
      PROVE  /\ Unbroken(b)' => loop'[actor'[b].process] = b
             /\ actor'[b].pc \in Preparing => setup'[actor'[b].process] = b
  <2>1. /\ Unbroken(b) => loop[actor[b].process] = b
        /\ actor[b].pc \in Preparing => setup[actor[b].process] = b
        /\ actor'[b] = actor[b] /\ b # Nobody
    BY <1>1, <1>2, Names DEF LockInv, Good, Others
  <2>2. Unbroken(b)' \/ actor'[b].pc \in Preparing => actor[b].process \in Process
    BY <2>1, ItsState DEF Unbroken, Unbreaks, Preparing
  <2>3. Unbroken(b)' <=> Unbroken(b)
    BY <2>1 DEF Unbroken
  <2> QED BY <1>1, <1>2, <2>1, <2>2, <2>3 DEF Good, Undisturbs
<1> QED BY <1>1, <1>2 DEF Good, LockInv, Locked

LEMMA SpentStays ==
    ASSUME TypeInv, LockInv, NEW a \in Actor, Acting(a)
    PROVE  \A t \in Spent : t \in Spent'
BY ActingChanges DEF Good, Others, Spent

LEMMA StepStamps ==
    ASSUME TypeInv, LockInv, StampInv, NEW a \in Actor, Acting(a)
    PROVE  StampInv'
<1>1. Good(a) /\ Changes(a)
  BY ActingChanges
<1>2. row' # Absent => row'.stamp \in Spent'
  <2>1. CASE Upsert(a)
    <3>1. row'.stamp = a /\ actor'[a].pc = "done"
      BY <2>1, UpsertDoes DEF Moves, Acts
    <3> QED BY <3>1 DEF Spent
  <2>2. CASE DeleteConfig(a)
    BY <2>2, DeleteConfigDoes DEF Write
  <2>3. CASE row' = row
    BY <2>3, SpentStays DEF StampInv
  <2> QED BY <1>1, <2>1, <2>2, <2>3 DEF Changes
<1>3. ASSUME NEW p \in Process PROVE materialized'[p] \in Spent'
  <2>1. CASE Lists(a)
    <3>1. PICK from, list, next : /\ <<from, list, next>> \in Rounds
                                  /\ List(a, list, next)
      BY <2>1 DEF Lists, Rounds
    <3>2. materialized'[p] \in {materialized[p], actor[a].fetched.stamp}
          /\ actor[a].fetched # Absent
      BY <3>1, ListDoes DEF Writes
    <3> QED BY <3>2, SpentStays DEF StampInv
  <2>2. CASE materialized' = materialized
    BY <2>2, SpentStays DEF StampInv
  <2> QED BY <1>1, <2>1, <2>2 DEF Changes
<1>4. ASSUME NEW b \in Actor, actor'[b].fetched # Absent
      PROVE  actor'[b].fetched.stamp \in Spent'
  <2>1. actor'[b].fetched \in {actor[b].fetched, Absent, row}
    BY <1>1 DEF Good, Others, Changes
  <2> QED BY <1>4, <2>1, SpentStays DEF StampInv
<1> QED BY <1>2, <1>3, <1>4 DEF StampInv

LEMMA WasStill ==
    ASSUME TypeInv, LockInv, NEW a \in Actor, Acting(a), NEW p \in Process
    PROVE  /\ disk'[p].mtime >= disk[p].mtime
           /\ \A m : Was(m, p) => Was(m, p)'
<1>1. Good(a) /\ Changes(a) /\ disk[p].mtime \in Nat /\ disk'[p].mtime \in Nat
  BY ActingChanges DEF Good, TypeInv, WorldOK, DiskOK
<1>2. disk'[p].mtime >= disk[p].mtime
  <2>1. CASE Lists(a)
    <3>1. PICK from, list, next : /\ <<from, list, next>> \in Rounds
                                  /\ List(a, list, next)
      BY <2>1 DEF Lists, Rounds
    <3>2. \/ disk' = disk
          \/ Writes(actor[a].process, actor[a].fetched.stamp)
      BY <3>1, ListDoes
    <3> QED BY <1>1, <3>2 DEF Writes
  <2>2. CASE DeleteConfig(a)
    <3>1. \A q \in Process : disk'[q].mtime = disk[q].mtime
      BY <2>2, DeleteConfigDoes, Zenon
    <3> QED BY <1>1, <3>1
  <2>3. CASE disk' = disk
    BY <1>1, <2>3
  <2> QED BY <1>1, <2>1, <2>2, <2>3 DEF Changes
<1>3. ASSUME NEW m, Was(m, p) PROVE Was(m, p)'
  <2>1. CASE store = "postgres"
    BY <1>1, <1>2, <1>3, <2>1 DEF Was, Changes
  <2>2. CASE store # "postgres"
    BY <1>1, <1>3, <2>2, SpentStays DEF Was, Changes
  <2> QED BY <2>1, <2>2
<1> QED BY <1>2, <1>3

LEMMA StepTimes ==
    ASSUME TypeInv, LockInv, StampInv, TimeInv, NEW a \in Actor, Acting(a)
    PROVE  TimeInv'
<1>1. Good(a) /\ Changes(a)
  BY ActingChanges
<1>2. ASSUME NEW p \in Process, disk'[p].present PROVE disk'[p].mtime # NoTime
  <2>0. disk[p].mtime \in Nat
    BY DEF TypeInv, WorldOK, DiskOK
  <2>1. CASE Lists(a)
    <3>1. PICK from, list, next : /\ <<from, list, next>> \in Rounds
                                  /\ List(a, list, next)
      BY <2>1 DEF Lists, Rounds
    <3>2. \/ disk' = disk
          \/ Writes(actor[a].process, actor[a].fetched.stamp)
      BY <3>1, ListDoes
    <3> QED BY <1>2, <2>0, <3>2 DEF Writes, TimeInv, NoTime
  <2>2. CASE DeleteConfig(a)
    <3>1. \A q \in Process : /\ disk'[q].mtime = disk[q].mtime
                             /\ disk'[q].present => disk[q].present
      BY <2>2, DeleteConfigDoes, Zenon
    <3> QED BY <1>2, <3>1 DEF TimeInv
  <2>3. CASE disk' = disk
    BY <1>2, <2>3 DEF TimeInv
  <2> QED BY <1>1, <2>1, <2>2, <2>3 DEF Changes
<1>3. ASSUME NEW p \in Process, cache'[p] # NoAgent, NEW m, m = cache'[p].mtime
      PROVE  Was(m, p)'
  <2>1. CASE Built(a)
    <3>1. /\ actor[a].pc \in Preparing
          /\ Keeps(actor[a].process, Content(actor[a].config), actor[a].mtime)
      BY <2>1, BuiltDoes DEF Preparing
    <3>2. Was(m, p)
      BY <1>3, <3>1 DEF Keeps, TimeInv
    <3> QED BY <3>2, WasStill
  <2>2. CASE cache' = cache
    <3>1. Was(m, p)
      BY <1>3, <2>2 DEF TimeInv
    <3> QED BY <3>1, WasStill
  <2> QED BY <1>1, <2>1, <2>2 DEF Changes
<1>4. ASSUME NEW b \in Actor, actor'[b].pc \in Preparing, NEW m, m = actor'[b].mtime,
             NEW p, p = actor'[b].process
      PROVE  Was(m, p)'
  <2>1. p \in Process
    BY <1>1, <1>4 DEF Good, TypeInv, KindFits, Preparing
  <2>2. CASE actor[b].pc \in Preparing /\ actor'[b].mtime = actor[b].mtime
    <3>1. actor'[b].process = actor[b].process
      BY <1>1, <2>2 DEF Good, Others, Changes, Preparing
    <3>2. Was(m, p)
      BY <1>4, <2>2, <3>1 DEF TimeInv
    <3> QED BY <2>1, <3>2, WasStill
  <2>3. CASE b = a /\ Stat(a) /\ actor'[a].mtime = Mtime(p)
    <3>1. Was(m, p)
      <4>1. disk[p].mtime \in Nat /\ store \in {"filesystem", "postgres"}
        BY <2>1 DEF TypeInv, WorldOK, DiskOK
      <4>2. CASE store = "postgres"
        BY <1>4, <2>3, <4>1, <4>2 DEF Was, Mtime, NoTime
      <4>3. CASE store # "postgres"
        BY <1>4, <2>3, <4>1, <4>3 DEF Was, Mtime, StampInv
      <4> QED BY <4>2, <4>3
    <3> QED BY <2>1, <3>1, WasStill
  <2>4. CASE actor'[b].mtime = NoTime
    <3>1. Was(m, p)
      BY <1>4, <2>1, <2>4 DEF Was, NoTime, TypeInv, WorldOK, DiskOK
    <3> QED BY <2>1, <3>1, WasStill
  <2>5. b = a /\ Stat(a) => \/ actor'[a].pc = "running"
                            \/ actor'[a].mtime = Mtime(p)
    BY <1>4, StatDoes DEF Acts
  <2> QED BY <1>1, <1>4, <2>2, <2>3, <2>4, <2>5 DEF Good, Others, Changes, Preparing
<1> QED BY <1>2, <1>3, <1>4 DEF TimeInv

-----------------------------------------------------------------------------
(* What is kept stays what is stored.                                      *)

\* The steps at which a run has read the definition.
Holding == {"rematerialize", "relist", "built"}

\* Where the steps of the preparation come from.
Prepares(a) ==
    /\ actor'[a].pc \in Preparing \cup {"waitSetup"} =>
         Exists(a) \/ actor[a].pc \in Preparing \cup {"waitSetup"}
    /\ actor'[a].pc \in Preparing =>
         /\ actor[a].pc \in Preparing \cup {"exists", "waitSetup"}
         /\ \/ actor'[a].fetched = actor[a].fetched
            \/ actor'[a].fetched = Absent
            \/ Materializes(a) /\ actor'[a].fetched = row
    /\ actor'[a].pc \in Holding =>
         \/ Get(a) /\ row # Absent /\ actor'[a].config = row
         \/ /\ actor[a].pc \in Holding
            /\ actor'[a].config = actor[a].config /\ actor'[a].mtime = actor[a].mtime
    /\ actor'[a].pc \in {"list", "stat"} =>
         \/ /\ Materialize(a, "materialize", "list", "stat")
            /\ actor'[a].fetched = IF actor'[a].pc = "list" THEN row ELSE Absent
         \/ List(a, "list", "stat") /\ actor'[a].fetched = actor[a].fetched
    /\ actor'[a].pc = "rematerialize" => Get(a)
    /\ actor'[a].pc = "relist" =>
         Materialize(a, "rematerialize", "relist", "built") /\ actor'[a].fetched = row
    /\ actor'[a].pc = "built" =>
         \/ /\ Materialize(a, "rematerialize", "relist", "built")
            /\ store = "filesystem" \/ row = Absent
         \/ List(a, "relist", "built") /\ actor'[a].fetched = actor[a].fetched

LEMMA ActingPrepares ==
    ASSUME TypeInv, LockInv, NEW a \in Actor, Acting(a)
    PROVE  Prepares(a)
<1>1. CASE actor'[a].pc \notin Preparing \cup {"waitSetup"}
  BY <1>1 DEF Prepares, Preparing, Holding
<1>2. CASE Exists(a)
  BY <1>2, ExistsDoes DEF Prepares, Preparing, Holding, Acts, KindFits, Fits
<1>3. CASE WaitSetup(a)
  BY <1>3, WaitSetupDoes DEF Prepares, Preparing, Holding, Acts, Moves
<1>4. CASE Materialize(a, "materialize", "list", "stat")
  <2>1. <<"materialize", "list", "stat">> \in Rounds
    BY DEF Rounds
  <2>2. actor[a].pc = "materialize" /\ actor[a].fetched = Absent /\ Materializes(a)
    BY <1>4, <2>1, MaterializeDoes, ItsState DEF KindFits, Fits, Materializes
  <2> QED BY <1>4, <2>1, <2>2, MaterializeDoes DEF Prepares, Preparing, Holding, Acts, Moves
<1>5. CASE Materialize(a, "rematerialize", "relist", "built")
  <2>1. <<"rematerialize", "relist", "built">> \in Rounds
    BY DEF Rounds
  <2>2. actor[a].pc = "rematerialize" /\ Materializes(a)
    BY <1>5, <2>1, MaterializeDoes DEF Materializes
  <2> QED BY <1>5, <2>1, <2>2, MaterializeDoes DEF Prepares, Preparing, Holding, Acts, Moves
<1>6. CASE List(a, "list", "stat")
  <2>1. <<"materialize", "list", "stat">> \in Rounds
    BY DEF Rounds
  <2> QED BY <1>6, <2>1, ListDoes DEF Prepares, Preparing, Holding, Acts, Moves
<1>7. CASE List(a, "relist", "built")
  <2>1. <<"rematerialize", "relist", "built">> \in Rounds
    BY DEF Rounds
  <2> QED BY <1>7, <2>1, ListDoes DEF Prepares, Preparing, Holding, Acts, Moves
<1>8. CASE Stat(a)
  BY <1>8, StatDoes DEF Prepares, Preparing, Holding, Acts
<1>9. CASE Get(a)
  BY <1>9, GetDoes DEF Prepares, Preparing, Holding, Acts, Moves
<1>10. CASE Walking(a)
  BY <1>1, <1>10, WalkingChanges
<1>11. CASE Upsert(a) \/ DeleteConfig(a)
  <2>1. actor'[a].pc = "done"
    BY <1>11, UpsertDoes, DeleteConfigDoes DEF Moves, Acts
  <2> QED BY <1>1, <2>1 DEF Preparing
<1>12. CASE SkillGet(a) \/ PutFile(a) \/ DeleteFiles(a)
  <2>1. actor'[a].pc \in {"done", "putFile", "updateGet", "deleteConfig"}
    BY <1>12, SkillGetDoes, PutFileDoes, DeleteFilesDoes DEF Moves, Acts
  <2> QED BY <1>1, <2>1 DEF Preparing
<1>13. CASE Built(a) \/ SnapshotGet(a)
  <2>1. actor'[a].pc \in {"done", "running", "saveExists"}
    BY <1>13, BuiltDoes, SnapshotGetDoes DEF Moves, Acts
  <2> QED BY <1>1, <2>1 DEF Preparing
<1>14. CASE Arrives(a)
  <2>1. actor'[a].pc \notin Preparing \cup {"waitSetup"}
    BY <1>14, ArriveDoes DEF Arrives, Arrived, Preparing
  <2> QED BY <1>1, <2>1
<1> QED BY <1>2, <1>3, <1>4, <1>5, <1>6, <1>7, <1>8, <1>9, <1>10, <1>11, <1>12, <1>13, <1>14
        DEF Acting, Step, Walking

\* An mtime that was there before the step, and is valid after it, is valid for
\* the same definition before it.
LEMMA ValidWas ==
    ASSUME TypeInv, LockInv, StampInv, NEW a \in Actor, Acting(a),
           NEW p \in Process, NEW m, Was(m, p), Valid(m, p)'
    PROVE  Valid(m, p) /\ row' = row
<1>1. Good(a) /\ Changes(a) /\ store \in {"filesystem", "postgres"}
  BY ActingChanges DEF TypeInv
<1>2. disk[p].mtime \in Nat
  BY DEF TypeInv, WorldOK, DiskOK
<1>3. CASE Upsert(a)
  <2>1. /\ row'.stamp = a /\ a \notin Spent /\ a # NoTime
        /\ disk' = disk /\ materialized' = materialized /\ store' = store
    BY <1>1, <1>3, UpsertDoes, Names DEF Spent, Changes, local, Someone
  <2> QED BY <1>1, <2>1 DEF Valid, Was, StampInv
<1>4. CASE DeleteConfig(a)
  BY <1>4, DeleteConfigDoes DEF Valid, Write
<1>5. CASE row' = row
  <2>1. CASE store = "filesystem"
    BY <1>1, <1>5, <2>1 DEF Changes, Valid
  <2>2. CASE store = "postgres" /\ Lists(a)
    <3>1. PICK from, list, next : /\ <<from, list, next>> \in Rounds
                                  /\ List(a, list, next)
      BY <2>2 DEF Lists, Rounds
    <3>2. \/ UNCHANGED <<disk, materialized>>
          \/ Writes(actor[a].process, actor[a].fetched.stamp)
      BY <3>1, ListDoes
    <3>3. m \in 0..disk[p].mtime /\ m = disk'[p].mtime
      BY <1>1, <2>2 DEF Was, Valid, Changes
    <3>4. disk'[p] = disk[p] /\ materialized'[p] = materialized[p]
      BY <1>2, <3>2, <3>3 DEF Writes
    <3> QED BY <1>1, <1>5, <3>4 DEF Changes, Valid
  <2>3. CASE store = "postgres" /\ disk' = disk /\ materialized' = materialized
    BY <1>1, <1>5, <2>3 DEF Changes, Valid
  <2>4. CASE store = "postgres" /\ DeleteConfig(a)
    BY <1>4, <2>4
  <2> QED BY <1>1, <2>1, <2>2, <2>3, <2>4 DEF Changes
<1> QED BY <1>1, <1>3, <1>4, <1>5 DEF Changes

LEMMA OneByOne ==
    ASSUME TypeInv, LockInv, NEW a \in Actor, NEW b \in Actor,
           actor[a].pc \in Preparing, actor[b].pc \in Preparing,
           actor[a].process = actor[b].process
    PROVE  a = b
BY DEF LockInv

LEMMA StepKeepsRow ==
    ASSUME TypeInv, LockInv, StampInv, TimeInv, KeepInv, NEW a \in Actor, Acting(a),
           NEW p \in Process, cache'[p] # NoAgent, NEW m, m = cache'[p].mtime, Valid(m, p)'
    PROVE  cache'[p].agent = Content(row')
<1>1. Changes(a)
  BY ActingChanges
<1>2. CASE Built(a) /\ p = actor[a].process
  <2>1. /\ actor[a].pc = "built" /\ cache'[p].agent = Content(actor[a].config)
        /\ m = actor[a].mtime
    BY <1>2, BuiltDoes DEF Keeps
  <2>2. Was(m, p)
    BY <1>2, <2>1 DEF TimeInv, Preparing
  <2>3. Valid(m, p) /\ row' = row
    BY <2>2, ValidWas
  <2> QED BY <1>2, <2>1, <2>3 DEF KeepInv
<1>3. CASE cache'[p] = cache[p]
  <2>1. Was(m, p)
    BY <1>3 DEF TimeInv
  <2>2. Valid(m, p) /\ row' = row
    BY <2>1, ValidWas
  <2> QED BY <1>3, <2>2 DEF KeepInv
<1>4. Built(a) /\ p # actor[a].process => cache'[p] = cache[p]
  BY BuiltDoes DEF Keeps
<1> QED BY <1>1, <1>2, <1>3, <1>4 DEF Changes

LEMMA StepKeepsConfig ==
    ASSUME TypeInv, LockInv, StampInv, TimeInv, KeepInv, NEW a \in Actor, Acting(a),
           NEW b \in Actor, actor'[b].pc \in Holding, NEW m, m = actor'[b].mtime,
           NEW p, p = actor'[b].process, Valid(m, p)'
    PROVE  Content(actor'[b].config) = Content(row')
<1>1. Good(a) /\ Changes(a) /\ Prepares(a)
  BY ActingChanges, ActingPrepares
<1>2. p \in Process
  BY <1>1 DEF Good, TypeInv, KindFits, Holding
<1>3. CASE b = a /\ Get(a) /\ actor'[a].config = row
  BY <1>3, GetDoes DEF stored
<1>4. CASE /\ actor[b].pc \in Holding /\ actor'[b].config = actor[b].config
           /\ m = actor[b].mtime /\ p = actor[b].process
  <2>1. Was(m, p)
    BY <1>4 DEF TimeInv, Preparing, Holding
  <2>2. Valid(m, p) /\ row' = row
    BY <1>2, <2>1, ValidWas
  <2> QED BY <1>4, <2>2 DEF KeepInv, Holding
<1>5. b = a /\ actor[a].pc \in Holding => actor'[a].process = actor[a].process
  BY <1>1 DEF Changes, Holding
<1> QED BY <1>1, <1>3, <1>4, <1>5 DEF Good, Others, Prepares

LEMMA StepKeepsFetched ==
    ASSUME TypeInv, LockInv, StampInv, TimeInv, KeepInv, NEW a \in Actor, Acting(a),
           store' = "postgres", NEW b \in Actor, actor'[b].pc \in {"list", "stat"},
           actor'[b].fetched # Absent, NEW p, p = actor'[b].process,
           cache'[p] # NoAgent, ValidFor(b, p)'
    PROVE  cache'[p].agent = Content(actor'[b].fetched)
<1>1. Good(a) /\ Changes(a) /\ Prepares(a)
  BY ActingChanges, ActingPrepares
<1>2. p \in Process /\ store = "postgres"
  BY <1>1 DEF Good, TypeInv, KindFits, Changes
<1>3. disk[p].mtime \in Nat /\ (cache[p] # NoAgent => cache[p].mtime \in 0..disk[p].mtime)
  BY <1>2 DEF TypeInv, WorldOK, DiskOK, TimeInv, Was
<1>4. CASE b # a
  <2>1. actor'[b] = actor[b] /\ actor[b].pc \in Preparing
    BY <1>1, <1>4 DEF Good, Others, Preparing
  <2>2. actor[a].pc \in Preparing => actor[a].process # p
    BY <1>4, <2>1, OneByOne
  <2>3. /\ cache'[p] = cache[p]
        /\ UNCHANGED <<disk, materialized>> \/ DeleteConfig(a)
             \/ (disk'[p] = disk[p] /\ materialized'[p] = materialized[p])
    <3>1. Built(a) => cache'[p] = cache[p]
      BY <1>2, <2>2, BuiltDoes DEF Keeps, Preparing
    <3>2. Lists(a) => disk'[p] = disk[p] /\ materialized'[p] = materialized[p]
      <4>1. SUFFICES ASSUME NEW from, NEW list, NEW next, <<from, list, next>> \in Rounds,
                            List(a, list, next)
                     PROVE  disk'[p] = disk[p] /\ materialized'[p] = materialized[p]
        BY DEF Lists, Rounds
      <4>2. actor[a].pc \in Preparing
        BY <4>1 DEF Rounds, List, At, Preparing
      <4> QED BY <1>2, <2>2, <4>1, <4>2, ListDoes DEF Writes
    <3> QED BY <1>1, <3>1, <3>2 DEF Changes
  <2>4. ValidFor(b, p)
    <3>1. DeleteConfig(a) => /\ disk'[p].mtime = disk[p].mtime
                             /\ disk'[p].present => disk[p].present
                             /\ materialized' = materialized
      BY <1>2, DeleteConfigDoes
    <3> QED BY <2>1, <2>3, <3>1 DEF ValidFor
  <2> QED BY <1>2, <2>1, <2>3, <2>4 DEF KeepInv
<1>5. CASE b = a /\ Materialize(a, "materialize", "list", "stat") /\ actor'[b].fetched = row
  <2>1. <<"materialize", "list", "stat">> \in Rounds
    BY DEF Rounds
  <2>2. UNCHANGED <<disk, materialized, cache>>
    BY <1>5, <2>1, MaterializeDoes DEF local
  <2> DEFINE m == cache[p].mtime
  <2>3. Valid(m, p)
    BY <1>2, <1>5, <2>2 DEF ValidFor, Valid
  <2> QED BY <1>2, <1>5, <2>2, <2>3 DEF KeepInv
<1>6. CASE /\ b = a /\ List(a, "list", "stat") /\ actor'[b].fetched = actor[b].fetched
  <2>1. <<"materialize", "list", "stat">> \in Rounds
    BY DEF Rounds
  <2>2. /\ actor[a].pc = "list" /\ cache' = cache /\ p = actor[a].process
        /\ \/ UNCHANGED <<disk, materialized>>
           \/ Writes(p, actor[a].fetched.stamp)
    BY <1>6, <2>1, ListDoes DEF Moves, Acts
  <2>3. UNCHANGED <<disk, materialized>>
    BY <1>2, <1>3, <2>2 DEF Writes, ValidFor
  <2>4. ValidFor(b, p)
    BY <1>6, <2>2, <2>3 DEF ValidFor
  <2> QED BY <1>2, <1>6, <2>2, <2>4 DEF KeepInv
<1> QED BY <1>1, <1>4, <1>5, <1>6 DEF Prepares

LEMMA StepKeep ==
    ASSUME TypeInv, LockInv, StampInv, TimeInv, KeepInv, NEW a \in Actor, Acting(a)
    PROVE  KeepInv'
<1>1. ASSUME NEW p \in Process, cache'[p] # NoAgent, NEW m, m = cache'[p].mtime, Valid(m, p)'
      PROVE  cache'[p].agent = Content(row')
  BY <1>1, StepKeepsRow
<1>2. ASSUME NEW b \in Actor, actor'[b].pc \in Holding, NEW m, m = actor'[b].mtime,
             NEW p, p = actor'[b].process, Valid(m, p)'
      PROVE  Content(actor'[b].config) = Content(row')
  BY <1>2, StepKeepsConfig
<1>3. ASSUME store' = "postgres", NEW b \in Actor, actor'[b].pc \in {"list", "stat"},
             actor'[b].fetched # Absent, NEW p, p = actor'[b].process,
             cache'[p] # NoAgent, ValidFor(b, p)'
      PROVE  cache'[p].agent = Content(actor'[b].fetched)
  BY <1>3, StepKeepsFetched
<1> QED BY <1>1, <1>2, <1>3 DEF KeepInv, Holding
-----------------------------------------------------------------------------
(* What is read was stored after the run asked.                            *)

\* What has been stored from the k-th definition on.
From(k) == {past[i] : i \in k..Len(past)}

LEMMA StepPast ==
    ASSUME TypeInv, LockInv, PastInv, NEW a \in Actor, Acting(a)
    PROVE  /\ PastInv' /\ Len(past) \in Nat /\ Len(past) >= 1 /\ Len(past') \in Nat
           /\ Len(past') >= Len(past)
           /\ \A i \in 1..Len(past) : past'[i] = past[i]
<1>1. Changes(a) /\ past \in Seq(Contents \cup {Absent}) /\ past # <<>>
  BY ActingChanges DEF TypeInv, WorldOK, PastInv
<1>2. Len(past) \in Nat /\ Len(past) >= 1 /\ past[Len(past)] = Content(row)
  BY <1>1 DEF PastInv
<1>3. CASE UNCHANGED <<row, past>>
  BY <1>2, <1>3 DEF PastInv
<1>4. CASE \E c \in Configs \cup {Absent} : row' = c /\ Write(c)
  <2>1. PICK c \in Configs \cup {Absent} : row' = c /\ Write(c)
    BY <1>4
  <2>2. CASE Content(c) = Content(row)
    BY <1>2, <2>1, <2>2 DEF PastInv, Write
  <2>3. CASE Content(c) # Content(row)
    <3>1. past' = Append(past, Content(c)) /\ Content(c) \in Contents \cup {Absent}
      BY <2>1, <2>3, ContentTyped DEF Write
    <3>2. /\ Len(past') = Len(past) + 1 /\ past' # <<>>
          /\ past'[Len(past')] = Content(c)
          /\ \A i \in 1..Len(past) : past'[i] = past[i]
      BY <1>1, <3>1
    <3> QED BY <1>2, <2>1, <3>2 DEF PastInv
  <2> QED BY <2>2, <2>3
<1>5. Upsert(a) => \E c \in Configs \cup {Absent} : row' = c /\ Write(c)
  BY UpsertDoes
<1>6. DeleteConfig(a) => \E c \in Configs \cup {Absent} : row' = c /\ Write(c)
  <2>1. DeleteConfig(a) => row' = Absent /\ Write(Absent)
    BY DeleteConfigDoes DEF Write
  <2> QED BY <2>1
<1> QED BY <1>1, <1>3, <1>4, <1>5, <1>6 DEF Changes

LEMMA FromGrows ==
    ASSUME TypeInv, LockInv, PastInv, NEW a \in Actor, Acting(a), NEW k \in 1..Len(past)
    PROVE  /\ k \in 1..Len(past') /\ Content(row) \in From(k)
           /\ \A x \in From(k) : x \in From(k)'
<1>1. /\ PastInv' /\ Len(past) \in Nat /\ Len(past') \in Nat /\ Len(past') >= Len(past)
      /\ \A i \in 1..Len(past) : past'[i] = past[i]
  BY StepPast
<1>2. Content(row) \in From(k)
  BY <1>1 DEF PastInv, From
<1>3. ASSUME NEW x \in From(k) PROVE x \in From(k)'
  <2>1. PICK i \in k..Len(past) : x = past[i]
    BY DEF From
  <2>2. x = past'[i] /\ i \in k..Len(past')
    BY <1>1, <2>1
  <2> QED BY <2>2 DEF From
<1>4. k \in 1..Len(past')
  BY <1>1
<1> QED BY <1>2, <1>3, <1>4

\* What a run had before the step was stored after it asked.
LEMMA Had ==
    ASSUME TypeInv, LockInv, PastInv, ReadInv, NEW a \in Actor, Acting(a), NEW b \in Actor,
           actor'[b].since = actor[b].since,
           actor[b].pc \in Preparing \cup {"waitSetup"} \/ actor[b].agent # NoAgent
    PROVE  /\ actor'[b].since \in 1..Len(past') /\ Content(row) \in Since(b)'
           /\ \A x \in Since(b) : x \in Since(b)'
<1>1. PICK k \in 1..Len(past) : k = actor[b].since
  BY DEF ReadInv, Reads
<1>2. Since(b) = From(k)
  BY <1>1, Zenon DEF Since, From
<1>3. Since(b)' = From(k)'
  BY <1>1, Zenon DEF Since, From
<1>4. k \in 1..Len(past') /\ Content(row) \in From(k) /\ \A x \in From(k) : x \in From(k)'
  BY FromGrows
<1> QED BY <1>1, <1>2, <1>3, <1>4

LEMMA NewlyAsked ==
    ASSUME TypeInv, LockInv, PastInv, NEW a \in Actor, Acting(a),
           actor'[a].since = Len(past)
    PROVE  actor'[a].since \in 1..Len(past') /\ Content(row) \in Since(a)'
<1>1. PICK k \in 1..Len(past) : k = Len(past)
  BY StepPast
<1>2. Since(a)' = From(k)'
  BY <1>1, Zenon DEF Since, From
<1>3. k \in 1..Len(past') /\ Content(row) \in From(k) /\ \A x \in From(k) : x \in From(k)'
  BY FromGrows
<1> QED BY <1>1, <1>2, <1>3

\* Which runs have asked before the step.
LEMMA AskedBefore ==
    ASSUME TypeInv, LockInv, NEW a \in Actor, Acting(a), NEW b \in Actor,
           actor'[b].pc \in Preparing \cup {"waitSetup"} \/ actor'[b].agent # NoAgent
    PROVE  \/ b = a /\ Exists(a)
           \/ /\ actor'[b].since = actor[b].since
              /\ actor[b].pc \in Preparing \cup {"waitSetup"} \/ actor[b].agent # NoAgent
<1>1. Good(a) /\ Changes(a) /\ Prepares(a)
  BY ActingChanges, ActingPrepares
<1>2. CASE b # a
  BY <1>1, <1>2 DEF Good, Others
<1>3. CASE b = a /\ Arrives(a)
  <2>1. actor'[a].pc \notin Preparing \cup {"waitSetup"} /\ actor'[a].agent = NoAgent
    BY <1>3, ArriveDoes DEF Arrives, Arrived, Preparing
  <2> QED BY <1>3, <2>1
<1>4. CASE b = a /\ ~Arrives(a) /\ ~Exists(a)
  <2>1. actor'[a].since = actor[a].since
    BY <1>1, <1>4 DEF Changes
  <2>2. Stat(a) \/ Built(a) => actor[a].pc \in Preparing
    BY StatDoes, BuiltDoes DEF Preparing
  <2> QED BY <1>1, <1>4, <2>1, <2>2 DEF Changes, Prepares
<1> QED BY <1>2, <1>3, <1>4

LEMMA StepReads ==
    ASSUME TypeInv, LockInv, PastInv, ReadInv, NEW a \in Actor, Acting(a), NEW b \in Actor
    PROVE  Reads(b)'
<1>1. Good(a) /\ Changes(a) /\ Prepares(a)
  BY ActingChanges, ActingPrepares
<1>2. ASSUME actor'[b].pc \in Preparing \cup {"waitSetup"} \/ actor'[b].agent # NoAgent
      PROVE  actor'[b].since \in 1..Len(past') /\ Content(row) \in Since(b)'
  <2>1. CASE b = a /\ Exists(a)
    <3>1. actor'[a].since = Len(past)
      BY <2>1, ExistsDoes DEF Acts
    <3> QED BY <2>1, <3>1, NewlyAsked
  <2>2. CASE /\ actor'[b].since = actor[b].since
             /\ actor[b].pc \in Preparing \cup {"waitSetup"} \/ actor[b].agent # NoAgent
    BY <2>2, Had
  <2> QED BY <1>2, <2>1, <2>2, AskedBefore
<1>3. ASSUME actor'[b].pc \in Preparing, actor'[b].fetched # Absent
      PROVE  Content(actor'[b].fetched) \in Since(b)'
  <2>1. CASE actor'[b].fetched = row
    BY <1>2, <1>3, <2>1
  <2>2. CASE /\ actor'[b].fetched = actor[b].fetched
             /\ actor[b].pc \in Preparing
    <3>1. actor'[b].since = actor[b].since
      BY <1>3, <2>2, AskedBefore DEF Exists, At, Preparing
    <3>2. Content(actor[b].fetched) \in Since(b)
      BY <1>3, <2>2 DEF ReadInv, Reads
    <3> QED BY <2>2, <3>1, <3>2, Had
  <2>3. CASE actor[b].pc \in {"exists", "waitSetup"} /\ actor'[b].fetched = actor[b].fetched
    BY <1>3, <2>3, ItsState DEF KindFits, Fits
  <2> QED BY <1>1, <1>3, <2>1, <2>2, <2>3 DEF Good, Others, Prepares
<1>4. ASSUME actor'[b].pc \in Holding
      PROVE  Content(actor'[b].config) \in Since(b)'
  <2>1. CASE actor'[b].config = row
    BY <1>2, <1>4, <2>1 DEF Preparing, Holding
  <2>2. CASE actor'[b].config = actor[b].config /\ actor[b].pc \in Holding
    <3>1. actor'[b].since = actor[b].since
      BY <1>4, <2>2, AskedBefore DEF Exists, At, Preparing, Holding
    <3>2. Content(actor[b].config) \in Since(b)
      BY <2>2 DEF ReadInv, Reads, Holding
    <3> QED BY <2>2, <3>1, <3>2, Had DEF Preparing, Holding
  <2> QED BY <1>1, <1>4, <2>1, <2>2 DEF Good, Others, Prepares
<1>5. ASSUME actor'[b].pc = "stat", store' = "postgres", actor'[b].fetched = Absent
      PROVE  Absent \in Since(b)'
  <2>1. CASE b = a /\ Materialize(a, "materialize", "list", "stat")
    <3>1. <<"materialize", "list", "stat">> \in Rounds
      BY DEF Rounds
    <3>2. row = Absent
      BY <1>1, <1>5, <2>1, <3>1, MaterializeDoes DEF Acts, Changes
    <3> QED BY <1>2, <1>5, <3>2, ContentTyped DEF Preparing
  <2>2. CASE b = a /\ List(a, "list", "stat")
    <3>1. <<"materialize", "list", "stat">> \in Rounds
      BY DEF Rounds
    <3> QED BY <1>5, <2>2, <3>1, ListDoes DEF Moves, Acts
  <2>3. CASE b # a
    <3>1. actor'[b] = actor[b] /\ actor[b].pc = "stat"
      BY <1>1, <1>5, <2>3 DEF Good, Others
    <3>2. Absent \in Since(b)
      BY <1>1, <1>5, <3>1 DEF Changes, ReadInv, Reads
    <3> QED BY <3>1, <3>2, Had DEF Preparing
  <2> QED BY <1>1, <1>5, <2>1, <2>2, <2>3 DEF Prepares
<1>6. ASSUME actor'[b].pc = "stat", store' = "postgres", actor'[b].fetched # Absent,
             NEW p, p = actor'[b].process
      PROVE  disk'[p].present /\ materialized'[p] = actor'[b].fetched.stamp
  <2>0. p \in Process
    BY <1>1, <1>6 DEF Good, TypeInv, KindFits
  <2>1. CASE b = a /\ Materialize(a, "materialize", "list", "stat")
    BY <1>1, <1>6, <2>1 DEF Prepares, List, At, Materialize
  <2>2. CASE b = a /\ List(a, "list", "stat")
    <3>1. <<"materialize", "list", "stat">> \in Rounds
      BY DEF Rounds
    <3> QED BY <1>6, <2>2, <3>1, ListDoes DEF Moves, Acts, Writes
  <2>3. CASE b # a
    <3>1. actor'[b] = actor[b] /\ actor[b].pc = "stat" /\ p = actor[b].process
      BY <1>1, <1>6, <2>3 DEF Good, Others
    <3>2. disk[p].present /\ materialized[p] = actor[b].fetched.stamp
      BY <1>1, <1>6, <3>1 DEF Changes, ReadInv, Reads
    <3>3. Lists(a) => disk'[p] = disk[p] /\ materialized'[p] = materialized[p]
      <4>1. SUFFICES ASSUME NEW from, NEW list, NEW next, <<from, list, next>> \in Rounds,
                            List(a, list, next)
                     PROVE  disk'[p] = disk[p] /\ materialized'[p] = materialized[p]
        BY DEF Lists, Rounds
      <4>2. actor[a].process # p
        BY <2>3, <3>1, <4>1, OneByOne DEF Rounds, List, At, Preparing
      <4> QED BY <2>0, <4>1, <4>2, ListDoes DEF Writes
    <3>4. DeleteConfig(a) => disk'[p] = disk[p] /\ materialized'[p] = materialized[p]
      <4>1. loop[p] = b /\ b # Nobody
        BY <3>1, Names DEF LockInv, Unbroken, Unbreaks
      <4>2. DeleteConfig(a) => loop[actor[a].process] \in {a, Nobody}
        BY DEF DeleteConfig, At
      <4> QED BY <2>0, <2>3, <4>1, <4>2, DeleteConfigDoes
    <3> QED BY <1>1, <3>1, <3>2, <3>3, <3>4 DEF Changes
  <2> QED BY <1>1, <1>6, <2>1, <2>2, <2>3 DEF Prepares
<1>7. actor'[b].pc = "stat" => actor'[b].pc \in Preparing
  BY DEF Preparing
<1>8. actor'[b].pc \in Preparing \cup {"waitSetup"} \/ actor'[b].agent # NoAgent =>
        actor'[b].since \in 1..Len(past')
  BY <1>2
<1>9. /\ actor'[b].pc \in Preparing /\ actor'[b].fetched # Absent =>
           Content(actor'[b].fetched) \in Since(b)'
      /\ actor'[b].pc \in {"rematerialize", "relist", "built"} =>
           Content(actor'[b].config) \in Since(b)'
  BY <1>3, <1>4 DEF Holding
<1>10. actor'[b].pc = "stat" /\ store' = "postgres" =>
           IF actor'[b].fetched = Absent
           THEN Absent \in Since(b)'
           ELSE /\ disk'[actor'[b].process].present
                /\ materialized'[actor'[b].process] = actor'[b].fetched.stamp
  BY <1>5, <1>6
<1> QED BY <1>8, <1>9, <1>10, Zenon DEF Reads

LEMMA StepCurrent ==
    ASSUME TypeInv, LockInv, StampInv, TimeInv, CurrentInv, NEW a \in Actor, Acting(a)
    PROVE  AgentIsCurrent'
<1> SUFFICES ASSUME NEW b \in Actor, actor'[b].agent # NoAgent
             PROVE  actor'[b].agent \in Since(b)' \/ Absent \in Since(b)'
  BY DEF AgentIsCurrent
<1>0. PastInv /\ ReadInv /\ KeepInv
  BY DEF CurrentInv
<1>1. Good(a) /\ Changes(a) /\ store \in {"filesystem", "postgres"}
  BY ActingChanges DEF TypeInv
<1>2. CASE b = a /\ Exists(a)
  <2>1. actor'[a].since = Len(past) /\ row = Absent
    BY <1>2, ExistsDoes DEF Acts
  <2> QED BY <1>0, <1>2, <2>1, NewlyAsked, ContentTyped
<1>3. CASE /\ actor'[b].since = actor[b].since /\ actor'[b].agent = actor[b].agent
           /\ actor[b].agent # NoAgent
  <2>1. actor[b].agent \in Since(b) \/ Absent \in Since(b)
    BY <1>3 DEF CurrentInv, AgentIsCurrent
  <2> QED BY <1>0, <1>3, <2>1, Had
<1>4. CASE b = a /\ Built(a)
  <2>1. /\ actor'[a].agent = Content(actor[a].config) /\ actor'[a].since = actor[a].since
        /\ actor[a].pc = "built"
    BY <1>4, BuiltDoes DEF Acts
  <2>2. Content(actor[a].config) \in Since(a)
    BY <1>0, <2>1 DEF ReadInv, Reads
  <2> QED BY <1>0, <1>4, <2>1, <2>2, Had DEF Preparing
<1>5. CASE b = a /\ Stat(a)
  <2> DEFINE p == actor[a].process
  <2>0. p \in Process /\ actor[a].pc = "stat" /\ actor[a].agent = NoAgent
    BY <1>5, StatDoes, ItsState DEF KindFits, Fits, Preparing
  <2>1. /\ actor'[a].since = actor[a].since /\ cache[p] # NoAgent
        /\ cache[p].mtime = Mtime(p) /\ actor'[a].agent = cache[p].agent
    BY <1>5, <2>0, StatDoes DEF Acts
  <2>2. /\ Content(row) \in Since(a)'
        /\ \A x \in Since(a) : x \in Since(a)'
    BY <1>0, <2>0, <2>1, Had DEF Preparing
  <2>3. CASE store = "filesystem" /\ row = Absent
    BY <1>5, <2>2, <2>3, ContentTyped
  <2>4. CASE store = "filesystem" /\ row # Absent
    <3>1. Valid(cache[p].mtime, p)
      BY <2>1, <2>4 DEF Valid, Mtime
    <3>2. cache[p].agent = Content(row)
      BY <1>0, <2>0, <2>1, <3>1 DEF KeepInv
    <3> QED BY <1>5, <2>1, <2>2, <3>2
  <2>5. CASE store = "postgres" /\ actor[a].fetched = Absent
    <3>1. Absent \in Since(a)
      BY <1>0, <2>0, <2>5 DEF ReadInv, Reads
    <3> QED BY <1>5, <2>2, <3>1
  <2>6. CASE store = "postgres" /\ actor[a].fetched # Absent
    <3>1. /\ disk[p].present /\ materialized[p] = actor[a].fetched.stamp
          /\ Content(actor[a].fetched) \in Since(a)
      BY <1>0, <2>0, <2>6 DEF ReadInv, Reads, Preparing
    <3>2. ValidFor(a, p)
      BY <2>1, <2>6, <3>1 DEF ValidFor, Mtime
    <3>3. cache[p].agent = Content(actor[a].fetched)
      BY <1>0, <2>0, <2>1, <2>6, <3>2 DEF KeepInv
    <3> QED BY <1>5, <2>1, <2>2, <3>1, <3>3
  <2> QED BY <1>1, <2>3, <2>4, <2>5, <2>6
<1>6. CASE b = a /\ Arrives(a)
  BY <1>6, ArriveDoes DEF Arrives
<1> QED BY <1>1, <1>2, <1>3, <1>4, <1>5, <1>6 DEF Good, Others, Changes
-----------------------------------------------------------------------------
(* Skills have files.                                                      *)

\* Where the definition that an actor has comes from.
Configures(a) ==
    \/ actor'[a].config = Absent
    \/ /\ actor'[a].config = actor[a].config /\ actor[a].pc # "new"
       /\ actor'[a].pc # "putFile" /\ (actor[a].pc = "putFile" => PutFile(a))
    \/ /\ actor'[a].config = row /\ row # Absent /\ actor'[a].pc # "putFile"
       /\ Get(a) \/ SnapshotGet(a)
    \/ /\ SkillGet(a) /\ row # Absent /\ actor'[a].pc = "putFile"
       /\ actor'[a].config = Config(row.edit, row.skills \cup {a}, a)
    \/ Arrives(a) /\ Arrived(a)

LEMMA ActingConfigures ==
    ASSUME TypeInv, LockInv, NEW a \in Actor, Acting(a)
    PROVE  Configures(a)
<1>1. CASE Walking(a)
  <2>1. actor[a].pc \notin {"new", "putFile"}
    BY <1>1
    DEF Walking, CreateExists, UpdateGet, DeleteExists, End, SnapshotExists, SaveExists, At
  <2> QED BY <1>1, <2>1, Walks DEF Configures, Moves, Acts
<1>2. CASE Upsert(a)
  BY <1>2, UpsertDoes DEF Configures, Moves, Acts
<1>3. CASE SkillGet(a)
  <2>1. actor[a].pc = "skillGet"
    BY <1>3 DEF SkillGet, At
  <2> QED BY <1>3, <2>1, SkillGetDoes DEF Configures, Moves, Acts
<1>4. CASE PutFile(a)
  <2>1. actor[a].pc = "putFile"
    BY <1>4 DEF PutFile, At
  <2> QED BY <1>4, <2>1, PutFileDoes DEF Configures, Moves, Acts
<1>5. CASE DeleteFiles(a) \/ DeleteConfig(a)
  <2>1. actor[a].pc \in {"deleteFiles", "deleteConfig"}
    BY <1>5 DEF DeleteFiles, DeleteConfig, At
  <2> QED BY <1>5, <2>1, DeleteFilesDoes, DeleteConfigDoes DEF Configures, Moves, Acts
<1>6. CASE Exists(a) \/ WaitSetup(a)
  BY <1>6, ExistsDoes, WaitSetupDoes DEF Configures, Moves, Acts
<1>7. CASE Stat(a)
  BY <1>7, StatDoes DEF Configures, Acts
<1>8. CASE Get(a)
  BY <1>8, GetDoes DEF Configures, Moves, Acts
<1>9. CASE Built(a)
  BY <1>9, BuiltDoes DEF Configures, Acts
<1>10. CASE SnapshotGet(a)
  <2>1. actor[a].pc = "snapshotGet"
    BY <1>10 DEF SnapshotGet, At
  <2> QED BY <1>10, <2>1, SnapshotGetDoes DEF Configures, Moves, Acts
<1>11. CASE Materializes(a)
  <2>1. PICK from, list, next : /\ <<from, list, next>> \in Rounds
                                /\ Materialize(a, from, list, next)
    BY <1>11 DEF Materializes, Rounds
  <2>2. {from, list, next} \subseteq Preparing
    BY <2>1 DEF Rounds, Preparing
  <2> QED BY <2>1, <2>2, MaterializeDoes DEF Configures, Moves, Acts, Preparing
<1>12. CASE Lists(a)
  <2>1. PICK from, list, next : /\ <<from, list, next>> \in Rounds
                                /\ List(a, list, next)
    BY <1>12 DEF Lists, Rounds
  <2>2. {from, list, next} \subseteq Preparing
    BY <2>1 DEF Rounds, Preparing
  <2> QED BY <2>1, <2>2, ListDoes DEF Configures, Moves, Acts, Preparing
<1>13. CASE Arrives(a)
  BY <1>13, ArriveDoes DEF Arrives, Configures
<1> QED BY <1>1, <1>2, <1>3, <1>4, <1>5, <1>6, <1>7, <1>8, <1>9, <1>10, <1>11, <1>12, <1>13
        DEF Acting, Step, Walking, Materializes, Lists

\* As long as nobody deletes the assistant, files stay where they are.
LEMMA FilesStay ==
    ASSUME TypeInv, LockInv, NEW a \in Actor, Acting(a), ~Deleted'
    PROVE  /\ ~Deleted /\ files \subseteq files'
           /\ UNCHANGED row \/ Upsert(a)
           /\ UNCHANGED disk \/ Lists(a)
           /\ \A p \in Process : /\ disk[p].files \subseteq disk'[p].files
                                 /\ Files(p) \subseteq Files(p)'
<1>1. Good(a) /\ Changes(a)
  BY ActingChanges
<1>2. ~Deleted
  <2>1. SUFFICES ASSUME NEW b \in Actor, actor[b].kind = "delete" PROVE FALSE
    BY DEF Deleted
  <2>2. actor[b].pc # "new"
    BY <2>1, ItsState DEF KindFits, New
  <2>3. actor'[b].kind = "delete"
    BY <1>1, <2>1, <2>2 DEF Good, Others, Changes
  <2> QED BY <2>3 DEF Deleted
<1>3. ~DeleteFiles(a) /\ ~DeleteConfig(a)
  <2>1. DeleteFiles(a) \/ DeleteConfig(a) => actor[a].kind = "delete"
    BY ItsState DEF DeleteFiles, DeleteConfig, At, KindFits, Fits, DeleteSteps
  <2> QED BY <1>2, <2>1 DEF Deleted
<1>4. files \subseteq files'
  BY <1>1, <1>3, PutFileDoes DEF Changes
<1>5. ASSUME NEW p \in Process PROVE disk[p].files \subseteq disk'[p].files
  <2>1. CASE Lists(a)
    <3>1. PICK from, list, next : /\ <<from, list, next>> \in Rounds
                                  /\ List(a, list, next)
      BY <2>1 DEF Lists, Rounds
    <3>2. \/ disk' = disk
          \/ Writes(actor[a].process, actor[a].fetched.stamp)
      BY <3>1, ListDoes
    <3> QED BY <3>2 DEF Writes
  <2> QED BY <1>1, <1>3, <2>1 DEF Changes
<1>6. ASSUME NEW p \in Process PROVE Files(p) \subseteq Files(p)'
  BY <1>1, <1>4, <1>5 DEF Files, Changes
<1> QED BY <1>1, <1>2, <1>3, <1>4, <1>5, <1>6 DEF Changes

\* The process of an actor that prepares is not touched by others.
LEMMA Untouched ==
    ASSUME TypeInv, LockInv, NEW a \in Actor, Acting(a), ~Deleted',
           NEW b \in Actor, b # a, actor[b].pc \in Preparing, NEW p, p = actor[b].process
    PROVE  disk'[p] = disk[p] /\ materialized'[p] = materialized[p]
<1>1. Good(a) /\ Changes(a) /\ p \in Process
  BY ActingChanges, ItsState DEF Preparing
<1>2. Lists(a) => disk'[p] = disk[p] /\ materialized'[p] = materialized[p]
  <2>1. SUFFICES ASSUME NEW from, NEW list, NEW next, <<from, list, next>> \in Rounds,
                        List(a, list, next)
                 PROVE  disk'[p] = disk[p] /\ materialized'[p] = materialized[p]
    BY DEF Lists, Rounds
  <2>2. actor[a].process # p
    BY <2>1, OneByOne DEF Rounds, List, At, Preparing
  <2> QED BY <1>1, <2>1, <2>2, ListDoes DEF Writes
<1> QED BY <1>1, <1>2, FilesStay DEF Changes

LEMMA StepRowSkills ==
    ASSUME TypeInv, LockInv, StampInv, SkillsInv, NEW a \in Actor, Acting(a), ~Deleted'
    PROVE  RowSkills'
<1>1. /\ Good(a) /\ Changes(a) /\ RowSkills /\ HasFiles(a) /\ files \subseteq files'
      /\ \A p \in Process : disk[p].files \subseteq disk'[p].files
      /\ UNCHANGED row \/ Upsert(a)
  BY ActingChanges, FilesStay DEF SkillsInv
<1>2. CASE Upsert(a)
  <2>1. /\ row' # Absent /\ row'.stamp = a /\ row'.skills = actor[a].config.skills
        /\ actor[a].pc = "upsert" /\ materialized' = materialized
        /\ actor[a].config # Absent /\ a # Nobody
    BY <1>2, UpsertDoes, ItsState, Records, Names DEF local, KindFits, Fits
  <2>2. row'.skills \subseteq files'
    BY <1>1, <2>1 DEF HasFiles
  <2>3. \A p \in Process : row'.stamp # materialized'[p]
    BY <2>1 DEF StampInv, Spent
  <2> QED BY <2>1, <2>2, <2>3 DEF RowSkills
<1>3. CASE row' = row
  <2>1. ASSUME NEW p \in Process, disk'[p].present, row.stamp = materialized'[p]
        PROVE  row.skills \subseteq disk'[p].files
    <3>1. CASE Lists(a)
      <4>1. PICK from, list, next : /\ <<from, list, next>> \in Rounds
                                    /\ List(a, list, next)
        BY <3>1 DEF Lists, Rounds
      <4>2. \/ UNCHANGED <<disk, materialized>>
            \/ Writes(actor[a].process, actor[a].fetched.stamp)
        BY <4>1, ListDoes
      <4>3. \/ disk'[p] = disk[p] /\ materialized'[p] = materialized[p]
            \/ disk'[p].files = disk[p].files \cup files
        BY <4>2 DEF Writes
      <4> QED BY <1>1, <2>1, <4>3 DEF RowSkills
    <3>2. CASE disk' = disk /\ materialized' = materialized
      BY <1>1, <2>1, <3>2 DEF RowSkills
    <3> QED BY <1>1, <3>1, <3>2, FilesStay DEF Changes
  <2> QED BY <1>1, <1>3, <2>1 DEF RowSkills
<1> QED BY <1>1, <1>2, <1>3

LEMMA StepConfigSkills ==
    ASSUME TypeInv, LockInv, SkillsInv, NEW a \in Actor, Acting(a), ~Deleted',
           NEW b \in Actor, actor'[b].config # Absent
    PROVE  actor'[b].config.skills \subseteq
             IF actor'[b].pc = "putFile" THEN files' \cup {b} ELSE files'
<1>1. /\ Good(a) /\ Configures(a) /\ RowSkills /\ HasFiles(b) /\ files \subseteq files'
  BY ActingChanges, ActingConfigures, FilesStay DEF SkillsInv
<1>2. CASE b # a
  BY <1>1, <1>2 DEF Good, Others, HasFiles
<1>3. CASE b = a
  <2>1. CASE /\ actor'[a].config = actor[a].config
             /\ actor'[a].pc # "putFile" /\ (actor[a].pc = "putFile" => PutFile(a))
    <3>1. PutFile(a) => files' = files \cup {a}
      BY PutFileDoes
    <3> QED BY <1>1, <1>3, <2>1, <3>1 DEF HasFiles
  <2>2. CASE actor'[a].config = row /\ actor'[a].pc # "putFile"
    BY <1>1, <1>3, <2>2 DEF RowSkills
  <2>3. CASE /\ actor'[a].pc = "putFile"
             /\ actor'[a].config = Config(row.edit, row.skills \cup {a}, a)
    BY <1>1, <1>3, <2>3 DEF RowSkills, Config
  <2>4. CASE Arrived(a)
    BY <1>1, <1>3, <2>4 DEF RowSkills, Config, Arrived
  <2> QED BY <1>1, <1>3, <2>1, <2>2, <2>3, <2>4 DEF Configures
<1> QED BY <1>2, <1>3

\* The definition in the hands of a run that reads it again.
LEMMA StepHeldSkills ==
    ASSUME TypeInv, LockInv, StampInv, SkillsInv, NEW a \in Actor, Acting(a), ~Deleted',
           store' = "postgres", NEW b \in Actor, NEW p, p = actor'[b].process,
           NEW s, s = actor'[b].config.skills
    PROVE  /\ actor'[b].pc = "rematerialize" /\ disk'[p].present
                  /\ row'.stamp = materialized'[p] => s \subseteq disk'[p].files
           /\ actor'[b].pc = "relist" /\ disk'[p].present
                  /\ actor'[b].fetched.stamp = materialized'[p] => s \subseteq disk'[p].files
           /\ actor'[b].pc = "built" => s \subseteq disk'[p].files
<1>1. /\ Good(a) /\ Changes(a) /\ Prepares(a) /\ RowSkills /\ HasFiles(b)
      /\ UNCHANGED row \/ Upsert(a)
      /\ store = "postgres"
  BY ActingChanges, ActingPrepares, FilesStay DEF SkillsInv, Changes
<1>2. CASE b # a
  <2>1. actor'[b] = actor[b] /\ p = actor[b].process
    BY <1>1, <1>2 DEF Good, Others
  <2>2. actor[b].pc \in Holding =>
          disk'[p] = disk[p] /\ materialized'[p] = materialized[p] /\ p \in Process
    BY <1>2, <2>1, Untouched, ItsState DEF Holding, Preparing
  <2>3. actor[b].pc \in Holding /\ row'.stamp = materialized'[p] => row' = row
    <3>1. Upsert(a) => row'.stamp = a /\ a \notin Spent
      BY UpsertDoes, Names DEF Spent
    <3> QED BY <1>1, <2>2, <3>1 DEF StampInv
  <2> QED BY <1>1, <2>1, <2>2, <2>3 DEF HasFiles, Holding
<1>3. CASE b = a /\ actor'[a].pc = "rematerialize"
  <2>1. Get(a)
    BY <1>1, <1>3 DEF Prepares
  <2>2. /\ actor'[a].config = row /\ row' = row /\ disk' = disk /\ materialized' = materialized
        /\ p \in Process
    BY <1>3, <2>1, GetDoes, ItsState DEF Acts, Moves, stored, local
  <2> QED BY <1>1, <1>3, <2>2 DEF RowSkills
<1>4. CASE b = a /\ actor'[a].pc = "relist"
  <2>1. <<"rematerialize", "relist", "built">> \in Rounds
    BY DEF Rounds
  <2>2. Materialize(a, "rematerialize", "relist", "built") /\ actor'[a].fetched = row
    BY <1>1, <1>4 DEF Prepares
  <2>3. /\ actor[a].pc = "rematerialize" /\ p = actor[a].process
        /\ actor'[a].config = actor[a].config /\ disk' = disk /\ materialized' = materialized
    BY <1>4, <2>1, <2>2, MaterializeDoes DEF Acts, Moves, local
  <2> QED BY <1>1, <1>4, <2>2, <2>3 DEF HasFiles
<1>5. CASE b = a /\ actor'[a].pc = "built"
  <2>1. <<"rematerialize", "relist", "built">> \in Rounds
    BY DEF Rounds
  <2>2. List(a, "relist", "built")
    BY <1>1, <1>5 DEF Prepares, RowSkills
  <2>3. /\ actor[a].pc = "relist" /\ p = actor[a].process
        /\ actor'[a].config = actor[a].config
        /\ \/ /\ disk[p].present /\ materialized[p] = actor[a].fetched.stamp
              /\ disk' = disk
           \/ disk'[p].files = disk[p].files \cup files
    BY <1>5, <2>1, <2>2, ListDoes DEF Acts, Moves, Writes
  <2>4. actor[a].config # Absent
    BY <2>3, ItsState DEF KindFits, Fits
  <2> QED BY <1>1, <1>5, <2>3, <2>4 DEF HasFiles
<1> QED BY <1>2, <1>3, <1>4, <1>5

LEMMA StepAgentSkills ==
    ASSUME TypeInv, LockInv, SkillsInv, NEW a \in Actor, Acting(a), ~Deleted'
    PROVE  /\ KeptSkills'
           /\ \A b \in Actor : actor'[b].agent \notin {NoAgent, Legacy} =>
                actor'[b].agent.skills \subseteq Files(actor[b].process)'
<1>1. /\ Good(a) /\ Changes(a) /\ HasFiles(a) /\ KeptSkills
      /\ \A p \in Process : Files(p) \subseteq Files(p)'
  BY ActingChanges, FilesStay DEF SkillsInv
<1>2. Built(a) => /\ Content(actor[a].config).skills \subseteq Files(actor[a].process)
                  /\ actor[a].process \in Process
  <2>1. Built(a) => /\ actor[a].pc = "built" /\ actor[a].process \in Process
                    /\ Content(actor[a].config).skills = actor[a].config.skills
                    /\ actor[a].config # Absent
    BY BuiltDoes, ContentTyped, Records
  <2> QED BY <1>1, <2>1 DEF HasFiles, Files
<1>3. ASSUME NEW p \in Process, cache'[p] # NoAgent
      PROVE  cache'[p].agent.skills \subseteq Files(p)'
  <2>1. CASE cache'[p] = cache[p]
    BY <1>1, <1>3, <2>1 DEF KeptSkills
  <2>2. CASE Built(a) /\ p = actor[a].process
    <3>1. cache'[p].agent = Content(actor[a].config)
      BY <2>2, BuiltDoes DEF Keeps
    <3> QED BY <1>1, <1>2, <2>2, <3>1
  <2>3. Built(a) /\ p # actor[a].process => cache'[p] = cache[p]
    BY BuiltDoes DEF Keeps
  <2> QED BY <1>1, <2>1, <2>2, <2>3 DEF Changes
<1>4. ASSUME NEW b \in Actor, actor'[b].agent \notin {NoAgent, Legacy},
             NEW p, p = actor'[b].process
      PROVE  actor'[b].agent.skills \subseteq Files(p)'
  <2>1. CASE actor'[b].agent = actor[b].agent
    <3>1. actor[b].pc # "new"
      BY <1>4, <2>1, ItsState DEF KindFits, New
    <3>2. p = actor[b].process /\ p \in Process
      BY <1>1, <1>4, <3>1, ItsState DEF Good, Others, Changes
    <3>3. actor[b].agent.skills \subseteq Files(p)
      BY <1>4, <2>1, <3>2 DEF SkillsInv, HasFiles
    <3> QED BY <1>1, <2>1, <3>2, <3>3
  <2>2. CASE b = a /\ Built(a)
    <3>1. actor'[a].agent = Content(actor[a].config) /\ p = actor[a].process
      BY <1>4, <2>2, BuiltDoes DEF Acts
    <3> QED BY <1>1, <1>2, <2>2, <3>1
  <2>3. CASE b = a /\ Stat(a)
    <3>1. actor[a].agent = NoAgent /\ actor[a].process \in Process
      BY <2>3, StatDoes, ItsState DEF KindFits, Fits, Preparing
    <3>2. /\ p = actor[a].process /\ cache[p] # NoAgent
          /\ actor'[a].agent = cache[p].agent
      BY <1>4, <2>3, <3>1, StatDoes DEF Acts
    <3> QED BY <1>1, <2>3, <3>1, <3>2 DEF KeptSkills
  <2>4. CASE b = a /\ Exists(a)
    BY <1>4, <2>4, ExistsDoes DEF Acts
  <2>5. CASE b = a /\ Arrives(a)
    BY <1>4, <2>5, ArriveDoes DEF Arrives
  <2> QED BY <1>1, <2>1, <2>2, <2>3, <2>4, <2>5 DEF Good, Others, Changes
<1> QED BY <1>3, <1>4 DEF KeptSkills

LEMMA StepSkills ==
    ASSUME TypeInv, LockInv, StampInv, SkillsInv, NEW a \in Actor, Acting(a), ~Deleted'
    PROVE  SkillsInv'
<1>1. RowSkills' /\ KeptSkills'
  BY StepRowSkills, StepAgentSkills
<1>2. ASSUME NEW b \in Actor
      PROVE  HasFiles(b)'
  <2>1. actor'[b].config # Absent =>
          actor'[b].config.skills \subseteq
            IF actor'[b].pc = "putFile" THEN files' \cup {b} ELSE files'
    BY StepConfigSkills
  <2>2. actor'[b].agent \notin {NoAgent, Legacy} =>
          actor'[b].agent.skills \subseteq Files(actor[b].process)'
    BY StepAgentSkills
  <2>3. store' = "postgres" =>
          /\ actor'[b].pc = "rematerialize" /\ disk'[actor'[b].process].present
                 /\ row'.stamp = materialized'[actor'[b].process] =>
               actor'[b].config.skills \subseteq disk'[actor'[b].process].files
          /\ actor'[b].pc = "relist" /\ disk'[actor'[b].process].present
                 /\ actor'[b].fetched.stamp = materialized'[actor'[b].process] =>
               actor'[b].config.skills \subseteq disk'[actor'[b].process].files
          /\ actor'[b].pc = "built" =>
               actor'[b].config.skills \subseteq disk'[actor'[b].process].files
    BY StepHeldSkills
  <2> QED BY <2>1, <2>2, <2>3 DEF HasFiles
<1> QED BY <1>1, <1>2 DEF SkillsInv
-----------------------------------------------------------------------------
(* In one process, what is written back is what is stored.                 *)

LEMMA StaysOneProcess ==
    ASSUME TypeInv, LockInv, NEW a \in Actor, Acting(a), OneProcess'
    PROVE  OneProcess
<1>1. PICK p \in Process : \A b \in Actor : actor'[b].process \in {p, Nobody}
  BY DEF OneProcess
<1>2. ASSUME NEW b \in Actor PROVE actor[b].process \in {p, Nobody}
  <2>1. CASE actor[b].pc = "new"
    BY <2>1, ItsState DEF KindFits, New
  <2>2. CASE actor[b].pc # "new"
    <3>1. actor'[b].process = actor[b].process
      BY <2>2, ActingChanges DEF Good, Others, Changes
    <3> QED BY <1>1, <3>1
  <2> QED BY <2>1, <2>2
<1> QED BY <1>2 DEF OneProcess

\* In one process nobody comes between the steps of an unbroken actor.
LEMMA NobodyBetween ==
    ASSUME TypeInv, LockInv, NEW a \in Actor, Step(a), OneProcess, NEW b \in Actor,
           Unbroken(b)
    PROVE  a = b
<1>1. PICK p \in Process : \A c \in Actor : actor[c].process \in {p, Nobody}
  BY DEF OneProcess
<1>2. actor[a].pc # "new" /\ loop[actor[a].process] \in {a, Nobody}
  <2>1. CASE Walking(a)
    BY <2>1
    DEF Walking, CreateExists, UpdateGet, DeleteExists, End, SnapshotExists, SaveExists, At
  <2>2. CASE Upsert(a) \/ SkillGet(a) \/ PutFile(a) \/ DeleteFiles(a) \/ DeleteConfig(a)
    BY <2>2 DEF Upsert, SkillGet, PutFile, DeleteFiles, DeleteConfig, At
  <2>3. CASE Exists(a) \/ WaitSetup(a) \/ Stat(a) \/ Get(a) \/ Built(a) \/ SnapshotGet(a)
    BY <2>3 DEF Exists, WaitSetup, Stat, Get, Built, SnapshotGet, At
  <2>4. CASE Materializes(a) \/ Lists(a)
    BY <2>4 DEF Materializes, Lists, Materialize, List, At
  <2> QED BY <2>1, <2>2, <2>3, <2>4 DEF Step, Walking, Materializes, Lists
<1>3. actor[b].pc # "new" /\ loop[actor[b].process] = b
  BY Zenon DEF Unbroken, Unbreaks, LockInv
<1>4. actor[a].process = p /\ actor[b].process = p
  <2>1. actor[a].process \in Process /\ actor[b].process \in Process
    BY <1>2, <1>3, ItsState
  <2> QED BY <1>1, <2>1, Names
<1> QED BY <1>2, <1>3, <1>4, Names

\* The steps at which an actor has the whole definition it will write.
Rewriting == {"putFile", "saveExists", "createExists", "updateGet", "upsert"}

LEMMA ToRewriting ==
    ASSUME TypeInv, LockInv, NEW a \in Actor, Acting(a), actor'[a].pc \in Rewriting
    PROVE  \/ Walking(a) \/ SkillGet(a) \/ PutFile(a) \/ SnapshotGet(a) \/ Arrives(a)
<1>1. CASE Materializes(a)
  <2>1. PICK from, list, next : /\ <<from, list, next>> \in Rounds
                                /\ Materialize(a, from, list, next)
    BY <1>1 DEF Materializes, Rounds
  <2>2. actor'[a].pc \in {list, next}
    BY <2>1, MaterializeDoes DEF Moves, Acts
  <2> QED BY <2>1, <2>2 DEF Rounds, Rewriting
<1>2. CASE Lists(a)
  <2>1. PICK from, list, next : /\ <<from, list, next>> \in Rounds
                                /\ List(a, list, next)
    BY <1>2 DEF Lists, Rounds
  <2>2. actor'[a].pc = next
    BY <2>1, ListDoes DEF Moves, Acts
  <2> QED BY <2>1, <2>2 DEF Rounds, Rewriting
<1>3. CASE Upsert(a) \/ DeleteFiles(a) \/ DeleteConfig(a)
  BY <1>3, UpsertDoes, DeleteFilesDoes, DeleteConfigDoes DEF Moves, Acts, Rewriting
<1>4. CASE Exists(a) \/ WaitSetup(a)
  BY <1>4, ExistsDoes, WaitSetupDoes DEF Moves, Acts, Rewriting
<1>5. CASE Stat(a) \/ Get(a) \/ Built(a)
  BY <1>5, StatDoes, GetDoes, BuiltDoes DEF Moves, Acts, Rewriting
<1> QED BY <1>1, <1>2, <1>3, <1>4, <1>5 DEF Acting, Step, Walking, Materializes, Lists

LEMMA ItsRewrites ==
    ASSUME TypeInv, LockInv, NEW a \in Actor, Acting(a), Rewrites(a)
    PROVE  Rewrites(a)'
<1>1. Good(a) /\ KindFits(a) /\ KindFits(a)'
  BY ActingChanges, ItsState DEF Good, TypeInv
<1>2. CASE actor'[a].pc \notin Rewriting
  BY <1>2 DEF Rewrites, Rewriting
<1>3. CASE SkillGet(a)
  <2>1. CASE Moves(a, "done")
    BY <1>2, <2>1 DEF Moves, Acts, Rewriting
  <2> DEFINE c == Config(row.edit, row.skills \cup {a}, a)
  <2>2. c.edit = row.edit /\ row.skills \subseteq c.skills
    BY DEF Config
  <2> HIDE DEF c
  <2>3. CASE ~Moves(a, "done")
    <3>1. actor'[a].pc = "putFile" /\ actor'[a].config = c /\ row # Absent /\ row' = row
      BY <1>3, <2>3, SkillGetDoes DEF Acts, stored, c
    <3> QED BY <2>2, <3>1 DEF Rewrites
  <2> QED BY <2>1, <2>3
<1>4. CASE SnapshotGet(a)
  BY <1>2, <1>4, SnapshotGetDoes DEF Moves, Acts, Rewrites, Rewriting, stored
<1>5. CASE PutFile(a)
  <2>1. actor[a].pc = "putFile" /\ actor[a].kind = "skill"
    BY <1>1, <1>5 DEF PutFile, At, KindFits, Fits, SkillSteps
  <2> QED BY <1>5, <2>1, PutFileDoes DEF Moves, Acts, Rewrites
<1>6. CASE CreateExists(a)
  <2>1. actor[a].pc = "createExists"
    BY <1>6 DEF CreateExists, At
  <2>2. PICK pc \in {"done", "upsert"} : Moves(a, pc)
    BY <1>6, CreateExistsDoes
  <2>3. row' = row /\ actor[a].kind \in {"create", "run"}
    BY <1>1, <1>6, <2>1, CreateExistsDoes DEF stored, KindFits, Fits
  <2> QED BY <1>6, <2>1, <2>2, <2>3 DEF Moves, Acts, Rewrites
<1>7. CASE UpdateGet(a)
  <2>1. actor[a].pc = "updateGet"
    BY <1>7 DEF UpdateGet, At
  <2>2. PICK pc \in {"done", "upsert"} : Moves(a, pc)
    BY <1>7, UpdateGetDoes
  <2>3. row' = row /\ (row = Absent => actor'[a].pc = "done")
    BY <1>7, UpdateGetDoes DEF stored
  <2> QED BY <2>1, <2>2, <2>3 DEF Moves, Acts, Rewrites
<1>8. CASE SaveExists(a)
  <2>1. actor[a].pc = "saveExists" /\ actor[a].kind = "run"
    BY <1>1, <1>8 DEF SaveExists, At, KindFits, Fits, RunSteps
  <2>2. PICK pc \in {"createExists", "updateGet"} : Moves(a, pc)
    BY <1>8, SaveExistsDoes
  <2>3. row' = row /\ (row # Absent => actor'[a].pc = "updateGet")
    BY <1>8, SaveExistsDoes DEF stored
  <2> QED BY <2>1, <2>2, <2>3 DEF Moves, Acts, Rewrites
<1>9. CASE DeleteExists(a) \/ End(a) \/ SnapshotExists(a)
  <2>1. actor'[a].pc \in {"done", "deleteFiles", "deleteConfig", "snapshotExists", "snapshotGet"}
    BY <1>9, DeleteExistsDoes, EndDoes, SnapshotExistsDoes DEF Moves, Acts
  <2> QED BY <1>2, <2>1 DEF Rewriting
<1>10. CASE Arrives(a)
  <2>1. Arrived(a)
    BY <1>10, ArriveDoes DEF Arrives
  <2> QED BY <2>1 DEF Arrived, Rewrites
<1> QED BY <1>2, <1>3, <1>4, <1>5, <1>6, <1>7, <1>8, <1>9, <1>10, ToRewriting DEF Walking

LEMMA StepEdits ==
    ASSUME TypeInv, LockInv, EditsInv, NEW a \in Actor, Acting(a)
    PROVE  EditsInv'
<1> SUFFICES ASSUME OneProcess', NEW b \in Actor PROVE Rewrites(b)'
  BY DEF EditsInv
<1>1. OneProcess /\ Rewrites(b) /\ Good(a) /\ Changes(a) /\ KindFits(b)
  BY StaysOneProcess, ActingChanges, ItsState DEF EditsInv
<1>2. CASE b = a
  BY <1>1, <1>2, ItsRewrites
<1>3. CASE b # a /\ actor[b].pc \notin Rewriting
  BY <1>1, <1>3 DEF Good, Others, Rewrites, Rewriting
<1>4. CASE b # a /\ actor[b].kind \notin {"skill", "run", "put"}
  BY <1>1, <1>4 DEF Good, Others, Rewrites
<1>5. CASE /\ b # a /\ actor[b].pc \in Rewriting /\ actor[b].kind \in {"skill", "run"}
  <2>1. Unbroken(b)
    BY <1>5 DEF Rewriting, Unbroken, Unbreaks
  <2>2. Arrives(a)
    BY <1>1, <1>5, <2>1, NobodyBetween DEF Acting
  <2>3. row' = row
    BY <2>2, ArriveDoes DEF Arrives, stored
  <2> QED BY <1>1, <1>5, <2>3 DEF Good, Others, Rewrites
<1>6. CASE b # a /\ actor[b].kind = "put" /\ actor[b].pc = "upsert"
  <2>1. Unbroken(b)
    BY <1>6 DEF Unbroken, Unbreaks
  <2>2. Arrives(a)
    BY <1>1, <1>6, <2>1, NobodyBetween DEF Acting
  <2>3. row' = row
    BY <2>2, ArriveDoes DEF Arrives, stored
  <2> QED BY <1>1, <1>6, <2>3 DEF Good, Others, Rewrites
<1>7. CASE b # a /\ actor[b].kind = "put" /\ actor[b].pc # "upsert"
  BY <1>1, <1>7 DEF Good, Others, Rewrites
<1> QED BY <1>2, <1>3, <1>4, <1>5, <1>6, <1>7

LEMMA UpsertSticks ==
    ASSUME TypeInv, LockInv, EditsInv, NEW a \in Actor, Acting(a), OneProcess,
           row # row', row' # Absent
    PROVE  CASE row = Absent -> actor[row'.stamp].kind = "create"
             [] actor[row'.stamp].kind \in {"skill", "run"} ->
                  row'.edit = row.edit /\ row.skills \subseteq row'.skills
             [] OTHER -> TRUE
<1>1. Upsert(a)
  BY ActingChanges, DeleteConfigDoes DEF Changes, Write
<1>2. /\ row'.stamp = a /\ actor[a].pc = "upsert"
      /\ row'.edit = actor[a].config.edit /\ row'.skills = actor[a].config.skills
  BY <1>1, UpsertDoes
<1>3. actor[a].kind \in {"create", "put", "skill", "run"} /\ Rewrites(a)
  BY <1>2, ItsState DEF KindFits, Fits, EditsInv
<1> QED BY <1>2, <1>3 DEF Rewrites
-----------------------------------------------------------------------------
(* The invariant, and what follows from it.                                *)

LEMMA InitInv == Init => IInv
<1> SUFFICES ASSUME Init PROVE IInv
  OBVIOUS
<1>1. /\ row \in Configs /\ row # Absent /\ row.stamp = Nobody /\ row.skills = {}
      /\ Content(row) \in Contents
  <2>1. row \in Configs /\ row.stamp = Nobody /\ row.skills = {}
    BY DEF Init, Config, Configs, Someone
  <2> QED BY <2>1, Records, ContentTyped
<1>2. \A a \in Actor : actor[a] = New
  BY DEF Init
<1>3. /\ New \in ActorState /\ New.pc = "new" /\ New.kind = "none" /\ New.process = Nobody
      /\ New.config = Absent /\ New.fetched = Absent /\ New.mtime = NoTime
      /\ New.agent = NoAgent
  BY DEF New, ActorState, Time, NoTime, PC
<1>4. WorldOK
  <2>1. DiskOK
    BY DEF Init, DiskOK, NoTime
  <2>2. CacheOK /\ materialized \in [Process -> Someone] /\ files \in SUBSET Actor
    BY DEF Init, CacheOK, Someone
  <2>3. past \in Seq(Contents \cup {Absent})
    BY <1>1 DEF Init
  <2> QED BY <1>1, <2>1, <2>2, <2>3 DEF WorldOK, RowOK
<1>5. ASSUME NEW a \in Actor PROVE KindFits(a)
  BY <1>2, <1>3 DEF KindFits, Fits, RunSteps, SkillSteps, DeleteSteps, Preparing
<1>6. TypeInv
  <2>1. ActorOK
    <3> HIDE DEF ActorState, New
    <3> QED BY <1>3 DEF Init, ActorOK
  <2>2. LocksOK /\ store \in {"filesystem", "postgres"}
    BY ConstantsAssumption DEF Init, LocksOK, Someone
  <2> QED BY <1>4, <1>5, <2>1, <2>2 DEF TypeInv
<1>7. LockInv
  BY <1>2, <1>3 DEF LockInv, Unbroken, Unbreaks, Preparing
<1>8. StampInv
  BY <1>1, <1>2, <1>3 DEF Init, StampInv, Spent
<1>9. /\ \A p \in Process : cache[p] = NoAgent /\ materialized[p] = Nobody
                            /\ ~disk[p].present
      /\ past = <<Content(row)>>
  BY DEF Init
<1>10. TimeInv
  BY <1>2, <1>3, <1>9 DEF TimeInv, Preparing
<1>11. CurrentInv
  <2>1. KeepInv
    BY <1>2, <1>3, <1>9 DEF KeepInv
  <2>2. PastInv
    BY <1>9 DEF PastInv
  <2>3. ReadInv /\ AgentIsCurrent
    BY <1>2, <1>3 DEF ReadInv, Reads, AgentIsCurrent, Preparing
  <2> QED BY <2>1, <2>2, <2>3 DEF CurrentInv
<1>12. SkillsInv
  BY <1>1, <1>2, <1>3, <1>9 DEF SkillsInv, RowSkills, KeptSkills, HasFiles
<1>13. EditsInv
  BY <1>2, <1>3 DEF EditsInv, Rewrites
<1> QED BY <1>6, <1>7, <1>8, <1>10, <1>11, <1>12, <1>13 DEF IInv

LEMMA NextActs == ASSUME Next PROVE \E a \in Actor : Acting(a)
BY DEF Next, Acting, Arrives

LEMMA NextInv == ASSUME IInv, Next PROVE IInv'
<1>1. PICK a \in Actor : Acting(a)
  BY NextActs
<1>2. /\ TypeInv /\ LockInv /\ StampInv /\ TimeInv /\ CurrentInv /\ EditsInv
      /\ KeepInv /\ PastInv /\ ReadInv /\ (~Deleted => SkillsInv)
  BY DEF IInv, CurrentInv
<1>3. TypeInv' /\ LockInv' /\ StampInv' /\ TimeInv'
  BY <1>1, <1>2, StepTypes, StepStamps, StepTimes
<1>4. CurrentInv'
  <2>1. \A b \in Actor : Reads(b)'
    BY <1>1, <1>2, StepReads
  <2> QED BY <1>1, <1>2, <2>1, StepKeep, StepPast, StepCurrent DEF CurrentInv, ReadInv
<1>5. ~Deleted' => SkillsInv'
  BY <1>1, <1>2, FilesStay, StepSkills
<1>6. EditsInv'
  BY <1>1, <1>2, StepEdits
<1> QED BY <1>3, <1>4, <1>5, <1>6 DEF IInv

LEMMA StutterInv == ASSUME IInv, UNCHANGED vars PROVE IInv'
<1>1. /\ store' = store /\ row' = row /\ files' = files /\ past' = past /\ disk' = disk
      /\ materialized' = materialized /\ cache' = cache /\ loop' = loop /\ setup' = setup
      /\ actor' = actor
  BY DEF vars, stored, local
<1>2. TypeInv'
  BY <1>1 DEF IInv, TypeInv, WorldOK, LocksOK, ActorOK, RowOK, DiskOK, CacheOK, KindFits
<1>3. LockInv' /\ StampInv'
  BY <1>1 DEF IInv, LockInv, Unbroken, StampInv, Spent
<1>4. TimeInv'
  BY <1>1 DEF IInv, TimeInv, Was, Spent
<1>5. KeepInv'
  BY <1>1 DEF IInv, CurrentInv, KeepInv, Valid, ValidFor
<1>6. PastInv' /\ (\A a \in Actor : Since(a)' = Since(a))
  BY <1>1 DEF IInv, CurrentInv, PastInv, Since
<1>7. ReadInv' /\ AgentIsCurrent'
  BY <1>1, <1>6 DEF IInv, CurrentInv, ReadInv, Reads, AgentIsCurrent
<1>8. ~Deleted' => SkillsInv'
  BY <1>1 DEF IInv, Deleted, SkillsInv, RowSkills, KeptSkills, HasFiles, Files
<1>9. EditsInv'
  BY <1>1 DEF IInv, EditsInv, OneProcess, Rewrites
<1> QED BY <1>2, <1>3, <1>4, <1>5, <1>6, <1>7, <1>8, <1>9 DEF IInv, CurrentInv

\* Every state of the program is one of the invariant's: each actor is where its
\* kind of request or run can be, with what it has read by then (assistant_api.py,
\* _ensure_assistant_agent).
THEOREM Inductive == Spec => []IInv
<1>1. IInv /\ [Next]_vars => IInv'
  BY NextInv, StutterInv
<1> QED BY <1>1, InitInv, PTL DEF Spec

\* No run gets an agent that is older than its request for it, unless the assistant
\* was deleted meanwhile: neither from the cache of its process nor from its disk
\* (_ensure_assistant_agent, _materialize).
THEOREM RunsGetCurrentAgent == Spec => []AgentIsCurrent
<1>1. IInv => AgentIsCurrent
  BY DEF IInv, CurrentInv
<1> QED BY <1>1, Inductive, PTL

\* The skills of an agent have their files, whatever other processes store between
\* the reads of the definition and of the files, as long as nobody deletes the
\* assistant (write_skill, _materialize).
THEOREM AgentsHaveTheirSkills == Spec => []SkillsHaveFiles
<1>1. IInv => SkillsHaveFiles
  BY DEF IInv, Deleted, SkillsInv, HasFiles, Files, SkillsHaveFiles
<1> QED BY <1>1, Inductive, PTL

\* In one process, what is saved with a run or a skill undoes no edit, drops no
\* skill, and brings no deleted assistant back (write_skill,
\* _persist_assistant_snapshot).
THEOREM NoEditIsLost == Spec => EditsStick
<1> DEFINE Sticks == OneProcess /\ row # row' /\ row' # Absent =>
                       CASE row = Absent -> actor[row'.stamp].kind = "create"
                         [] actor[row'.stamp].kind \in {"skill", "run"} ->
                              row'.edit = row.edit /\ row.skills \subseteq row'.skills
                         [] OTHER -> TRUE
<1>1. IInv /\ Next => Sticks
  <2>1. SUFFICES ASSUME IInv, Next, OneProcess, row # row', row' # Absent
                 PROVE  CASE row = Absent -> actor[row'.stamp].kind = "create"
                          [] actor[row'.stamp].kind \in {"skill", "run"} ->
                               row'.edit = row.edit /\ row.skills \subseteq row'.skills
                          [] OTHER -> TRUE
    OBVIOUS
  <2>2. PICK a \in Actor : Acting(a)
    BY <2>1, NextActs
  <2> QED BY <2>1, <2>2, UpsertSticks DEF IInv
<1>2. IInv /\ [Next]_vars => [Sticks]_vars
  BY <1>1
<1> HIDE DEF Sticks
<1>3. Spec => [][Sticks]_vars
  BY <1>2, Inductive, PTL DEF Spec
<1> QED BY <1>3 DEF Sticks, EditsStick
=============================================================================
