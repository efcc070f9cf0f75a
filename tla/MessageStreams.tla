--------------------------- MODULE MessageStreams ---------------------------
(***************************************************************************)
(* How the text of a message gets from the agent to a client that may lose *)
(* its connection.  The research runner mirrors what the agent does as     *)
(* protocol events (_mirror_agent_event of app/research_runtime.py), the   *)
(* events of a thread are one log, and each connection turns them into the *)
(* frames of the SDK (legacy_sse_frame, stream_thread_events and the       *)
(* endpoints for streams of app/main.py, RunStreamFilter and iter_events   *)
(* of app/streaming.py).                                                   *)
(*                                                                         *)
(* A content-block-delta does not say whose text it is.  The runner and    *)
(* every connection keep a table of the messages under way by namespace,   *)
(* and several namespaces (the root agent, its subagents) speak at once.   *)
(*                                                                         *)
(* The log is that of LiveEvents as long as its limits are not exceeded:   *)
(* a connection is given the events behind its cursor, once and in order.  *)
(* A namespace makes one model call at a time, so its node is left out.    *)
(* A message or a tool call is named by the number of the event that       *)
(* starts it, a piece of text by the model call and its place in it.       *)
(***************************************************************************)
EXTENDS Integers, Sequences, FiniteSets, SequencesExt

CONSTANTS
    Namespace,      \* the root agent and its subagents
    Client,
    Modes,          \* the stream modes that clients ask for
    MaxEvents,      \* a bound: length of the log
    MaxRuns,        \* a bound: runs of the thread
    MaxBreaks       \* a bound: connections a client loses

ASSUME ConstantsAssumption ==
    /\ Modes \subseteq {"run_modes", "messages"}
    /\ {MaxEvents, MaxRuns, MaxBreaks} \subseteq Nat

VARIABLES
    log,        \* the events of the thread, oldest first
    run,        \* the newest run
    going,      \* is it executing?
    calls,      \* of the agent: namespace -> its model call, and the chunks it made
    tools,      \* of the agent: tool calls under way
    active,     \* active_messages: namespace -> message under way
    conn,       \* client -> its connection, with the stream_state of the server
    client      \* client -> what it follows and what it was sent

agent == <<run, going, calls, tools, active>>
vars == <<log, agent, conn, client>>
-----------------------------------------------------------------------------
None == 0
NoCall == [id |-> None, chunks |-> 0]
NoMessage == [id |-> None, text |-> <<>>]
NoMessages == [n \in Namespace |-> NoMessage]
NoCalls == [n \in Namespace |-> NoCall]
Thread == 0                                 \* follows the thread, not one run
Closed == [open |-> FALSE, since |-> 0, cursor |-> 0,
           messages |-> [n \in Namespace |-> None], tools |-> {}]
New == [follows |-> Thread, mode |-> "run_modes", frames |-> <<>>,
        came |-> FALSE, breaks |-> 0, ended |-> FALSE]

Init ==
    /\ log = <<>>
    /\ run = 0 /\ going = FALSE
    /\ calls = NoCalls
    /\ tools = {}
    /\ active = NoMessages
    /\ conn = [c \in Client |-> Closed]
    /\ client = [c \in Client |-> New]
-----------------------------------------------------------------------------
(* The runner.  It handles one event of the agent at a time.               *)

NextSeq == Len(log) + 1                         \* the number of the next event
Event(kind, namespace, id, text) ==
    [kind |-> kind, run |-> run, namespace |-> namespace, id |-> id, text |-> text]
Emit(events) ==
    /\ Len(log) + Len(events) <= MaxEvents
    /\ log' = log \o events

RunBegins ==
    /\ ~going /\ run < MaxRuns
    /\ run' = run + 1 /\ going' = TRUE
    /\ UNCHANGED <<log, calls, tools, active, conn, client>>

\* Completed, failed or interrupted, maybe in the middle of messages.
RunEnds ==
    /\ going
    /\ Emit(<<Event("end", None, None, <<>>)>>)
    /\ going' = FALSE
    /\ calls' = NoCalls /\ tools' = {} /\ active' = NoMessages
    /\ UNCHANGED <<run, conn, client>>

\* The worker is gone and another one resumes the run, with tables of its own.
Resume ==
    /\ going /\ calls # NoCalls
    /\ calls' = NoCalls /\ tools' = {} /\ active' = NoMessages
    /\ UNCHANGED <<log, run, going, conn, client>>

\* Mutant: a message that is still in the table is continued.
ModelStartContinues(n) ==
    /\ going
    /\ Emit(<<Event("message-start", n, NextSeq, <<>>)>>)
    /\ calls' = [calls EXCEPT ![n] = [id |-> NextSeq, chunks |-> 0]]
    /\ active' = [active EXCEPT ![n] = IF @ = NoMessage THEN [id |-> NextSeq, text |-> <<>>] ELSE @]
    /\ UNCHANGED <<run, going, tools, conn, client>>

\* on_chat_model_start.  A call that failed is tried again without an end.  The
\* empty content-block-start that follows is left out.
ModelStart(n) ==
    /\ going
    /\ Emit(<<Event("message-start", n, NextSeq, <<>>)>>)
    /\ calls' = [calls EXCEPT ![n] = [id |-> NextSeq, chunks |-> 0]]
    /\ active' = [active EXCEPT ![n] = [id |-> NextSeq, text |-> <<>>]]
    /\ UNCHANGED <<run, going, tools, conn, client>>

\* on_chat_model_stream with text.
ModelStream(n) ==
    LET token == <<calls[n].id, calls[n].chunks + 1>>
        current == IF active[n] = NoMessage THEN [id |-> -NextSeq, text |-> <<>>] ELSE active[n]
    IN
    /\ calls[n] # NoCall
    /\ Emit(<<Event("content-block-delta", n, None, <<token>>)>>)
    /\ calls' = [calls EXCEPT ![n].chunks = @ + 1]
    /\ active' = [active EXCEPT ![n] = [current EXCEPT !.text = Append(@, token)]]
    /\ UNCHANGED <<run, going, tools, conn, client>>

\* on_chat_model_end.
ModelEnd(n) ==
    /\ calls[n] # NoCall
    /\ Emit(<<Event("content-block-finish", n, None, active[n].text),
              Event("message-finish", n, None, <<>>)>>)
    /\ calls' = [calls EXCEPT ![n] = NoCall]
    /\ active' = [active EXCEPT ![n] = NoMessage]
    /\ UNCHANGED <<run, going, tools, conn, client>>

ToolStart ==
    /\ going
    /\ Emit(<<Event("tool-started", None, NextSeq, <<>>)>>)
    /\ tools' = tools \cup {NextSeq}
    /\ UNCHANGED <<run, going, calls, active, conn, client>>

\* The event has the tool's id, its name is in tool-started only.
ToolEnd(t) ==
    /\ t \in tools
    /\ Emit(<<Event("tool-finished", None, t, <<>>)>>)
    /\ tools' = tools \ {t}
    /\ UNCHANGED <<run, going, calls, active, conn, client>>
-----------------------------------------------------------------------------
(* A connection.                                                           *)

\* Mutant: every event of the thread is sent.
MatchesAnyRun(c, e) ==
    \/ client[c].mode = "run_modes"
    \/ e.kind \notin {"tool-started", "tool-finished", "end"}

\* RunStreamFilter.matches
Matches(c, e) ==
    /\ client[c].follows \in {Thread, e.run}
    /\ \/ client[c].mode = "run_modes"
       \/ e.kind \notin {"tool-started", "tool-finished", "end"}

\* RunStreamFilter.is_terminal
IsTerminal(c, e) == e.kind = "end" /\ client[c].follows = e.run

\* legacy_sse_frame: the tables of the connection after event e ...
\* Mutant: a message that is still in the table stays the current one.
MessagesKept(c, e) ==
    CASE e.kind \in {"message-start", "content-block-delta"}
         /\ conn[c].messages[e.namespace] = None ->
             [conn[c].messages EXCEPT ![e.namespace] =
                IF e.kind = "message-start" THEN e.id ELSE -(conn[c].cursor + 1)]
      [] e.kind = "message-finish" -> [conn[c].messages EXCEPT ![e.namespace] = None]
      [] OTHER -> conn[c].messages

\* A delta of a message that the connection does not know starts one.
Messages(c, e) ==
    CASE e.kind = "message-start" -> [conn[c].messages EXCEPT ![e.namespace] = e.id]
      [] e.kind = "message-finish" -> [conn[c].messages EXCEPT ![e.namespace] = None]
      [] e.kind = "content-block-delta" /\ conn[c].messages[e.namespace] = None ->
             [conn[c].messages EXCEPT ![e.namespace] = -(conn[c].cursor + 1)]
      [] OTHER -> conn[c].messages

Tools(c, e) == conn[c].tools \cup IF e.kind = "tool-started" THEN {e.id} ELSE {}

\* ... and the frames it is turned into, with the number of the event as their id.
Frames(c, e) ==
    LET frame(id, named) == <<[seq |-> conn[c].cursor + 1, id |-> id,
                               text |-> e.text, named |-> named]>>
    IN  CASE e.kind = "content-block-delta" -> frame(Messages(c, e)[e.namespace], TRUE)
          [] e.kind \in {"tool-started", "tool-finished"} -> frame(e.id, e.id \in Tools(c, e))
          [] e.kind = "end" -> frame(None, TRUE)
          [] OTHER -> <<>>

\* The id of the last frame: what a client sends as Last-Event-ID.
LastEventId(c) ==
    IF client[c].frames = <<>> THEN 0 ELSE Last(client[c].frames).seq

Connect(c) ==
    /\ ~conn[c].open /\ ~client[c].ended
    /\ \/ client[c].came /\ UNCHANGED client
       \/ /\ ~client[c].came
          /\ \E follows \in Thread..run, mode \in Modes :
               client' = [client EXCEPT ![c] = [New EXCEPT !.follows = follows,
                                                  !.mode = mode, !.came = TRUE]]
    /\ conn' = [conn EXCEPT ![c] = [Closed EXCEPT !.open = TRUE, !.since = LastEventId(c),
                                                  !.cursor = LastEventId(c)]]
    /\ UNCHANGED <<log, agent>>

\* The stream of a run ends behind its terminal event.
Deliver(c) ==
    /\ conn[c].open /\ conn[c].cursor < Len(log)
    /\ LET e == log[conn[c].cursor + 1]
           next == [conn[c] EXCEPT !.cursor = @ + 1, !.open = ~IsTerminal(c, e)]
       IN
       /\ conn' = [conn EXCEPT ![c] =
                     IF Matches(c, e)
                     THEN [next EXCEPT !.messages = Messages(c, e), !.tools = Tools(c, e)]
                     ELSE next]
       /\ client' = [client EXCEPT
                       ![c].frames = IF Matches(c, e) THEN @ \o Frames(c, e) ELSE @,
                       ![c].ended = IsTerminal(c, e)]
    /\ UNCHANGED <<log, agent>>

\* What the server has sent and the client has not received is sent again.
Break(c) ==
    /\ conn[c].open /\ client[c].breaks < MaxBreaks
    /\ conn' = [conn EXCEPT ![c].open = FALSE]
    /\ client' = [client EXCEPT ![c].breaks = @ + 1]
    /\ UNCHANGED <<log, agent>>
-----------------------------------------------------------------------------
Next ==
    \/ RunBegins \/ RunEnds \/ Resume
    \/ \E n \in Namespace : ModelStart(n) \/ ModelStream(n) \/ ModelEnd(n)
    \/ ToolStart \/ \E t \in tools : ToolEnd(t)
    \/ \E c \in Client : Connect(c) \/ Deliver(c) \/ Break(c)

Spec == Init /\ [][Next]_vars
-----------------------------------------------------------------------------
\* The model call that a piece of text comes from.
Origin(token) == token[1]

\* Events of the log that start a message of namespace n or carry text of one.
StartsMessage(o, n) == log[o].kind = "message-start" /\ log[o].namespace = n
Deltas(n, from, to) ==
    {k \in from..to : log[k].kind = "content-block-delta" /\ log[k].namespace = n}
\* The pieces of text are those of the deltas, each once and in their order.
Repeats(text, n, from, to) ==
    /\ Len(text) = Cardinality(Deltas(n, from, to))
    /\ \A k \in Deltas(n, from, to) : log[k].text = <<text[Cardinality(Deltas(n, from, k))]>>

\* content-block-finish repeats the whole text of its model call and nothing
\* else, also when calls of other namespaces, a call that was given up, or an
\* earlier worker of the run came in between (_mirror_agent_event).
FinishTellsAll ==
    \A i \in DOMAIN log :
        log[i].kind = "content-block-finish" =>
            \E start \in 1..i :
                /\ StartsMessage(start, log[i].namespace)
                /\ \A o \in (start + 1)..i : ~StartsMessage(o, log[i].namespace)
                /\ Repeats(log[i].text, log[i].namespace, start, i)

\* A piece of text is sent under the id of its message, whatever other messages
\* of the namespace began, broke off or ended around it, and the end of a tool
\* call with the name of the tool.  The exception is a client that came back
\* with a Last-Event-ID behind the start: the tables of legacy_sse_frame ended
\* with its last connection.  (It may have got no piece of the message yet, but
\* a frame of another namespace.)
FramesNameTheirOrigin ==
    \A c \in Client : \A f \in Range(client[c].frames) :
        /\ f.text # <<>> /\ f.id # Origin(f.text[1]) => Origin(f.text[1]) <= conn[c].since
        /\ ~f.named => f.id <= conn[c].since

\* Text of what the client follows.
Wanted(c, e) ==
    e.kind = "content-block-delta" /\ client[c].follows \in {Thread, e.run}

\* However often its connection breaks, a client is sent each piece of text of
\* what it follows once and in order (stream_thread_events, iter_events): no
\* frame before its Last-Event-ID is left out, although most events have none.
TextOnce ==
    \A c \in Client :
        LET upTo == IF conn[c].open \/ client[c].ended THEN conn[c].cursor ELSE LastEventId(c)
            frames == client[c].frames
        IN  /\ \A i, j \in DOMAIN frames : i < j => frames[i].seq < frames[j].seq
            /\ \A f \in Range(frames) : f.text # <<>> =>
                 f.seq \in 1..upTo /\ Wanted(c, log[f.seq]) /\ f.text = log[f.seq].text
            /\ \A k \in 1..upTo : Wanted(c, log[k]) =>
                 \E f \in Range(frames) : f.seq = k /\ f.text = log[k].text
=============================================================================
