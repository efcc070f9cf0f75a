------------------------ MODULE MessageStreams_proofs ------------------------
(***************************************************************************)
(* Proofs about MessageStreams: each frame names the message, or the tool, *)
(* that it belongs to; the end of a message repeats its text; a client is  *)
(* sent each piece of text once.                                           *)
(*                                                                         *)
(* The argument: a delta in the log has its message-start before it, in    *)
(* the same run and namespace, and nothing between them starts or finishes *)
(* a message of that namespace, because the runner's call is the newest    *)
(* one there (EntryOK, AgentInv).  So a connection that was given the      *)
(* start still has that message in its table when it is given the delta    *)
(* (ConnInv), whatever the other namespaces did; the same for tool calls.  *)
(* A filter of the connection that lets the delta pass lets the start      *)
(* pass too.                                                               *)
(*                                                                         *)
(* The text that the runner has of a call is that of the deltas behind its *)
(* start (TextInv).  A client has the text up to its last frame, and what  *)
(* its connection was given behind that frame has no text for it (SentOK): *)
(* so nothing is lost when it comes back with the number of that frame.    *)
(***************************************************************************)
EXTENDS MessageStreams, SequenceTheorems, FiniteSetTheorems, TLAPS

Kinds == {"message-start", "content-block-delta", "content-block-finish",
          "message-finish", "tool-started", "tool-finished", "end"}
Token == Nat \X Nat
Events == [kind : Kinds, run : Nat, namespace : Namespace \cup {None}, id : Nat,
           text : Seq(Token)]
Framed == [seq : Nat, id : Int, text : Seq(Token), named : BOOLEAN]
Connections == [open : BOOLEAN, since : Nat, cursor : Nat,
                messages : [Namespace -> Int], tools : SUBSET Nat]
Clients == [follows : Nat, mode : Modes \cup {"run_modes"}, frames : Seq(Framed),
            came : BOOLEAN, breaks : Nat, ended : BOOLEAN]

TypeInv ==
    /\ log \in Seq(Events)
    /\ run \in Nat /\ going \in BOOLEAN
    /\ calls \in [Namespace -> [id : Nat, chunks : Nat]]
    /\ tools \subseteq Nat
    /\ active \in [Namespace -> [id : Int, text : Seq(Token)]]
    /\ conn \in [Client -> Connections]
    /\ client \in [Client -> Clients]

\* Event o starts a message of namespace n in run r ...
Starts(o, n, r) ==
    log[o].kind = "message-start" /\ log[o].namespace = n /\ log[o].run = r
\* ... and no event behind it, up to m, starts or finishes one there.
Quiet(n, o, m) ==
    \A i \in (o + 1)..m :
        log[i].namespace = n => log[i].kind \notin {"message-start", "message-finish"}

\* What event i says of those before it.
EntryOK(i) ==
    /\ log[i].kind \in {"message-start", "tool-started"} => log[i].id = i
    /\ log[i].kind \in {"tool-started", "tool-finished", "end"} => log[i].text = <<>>
    /\ log[i].kind \in {"message-start", "content-block-delta", "message-finish"} =>
         log[i].namespace \in Namespace
    /\ log[i].kind = "content-block-delta" =>
         \E o \in 1..(i - 1) :
           /\ log[i].text # <<>> /\ log[i].text[1][1] = o
           /\ Starts(o, log[i].namespace, log[i].run)
           /\ Quiet(log[i].namespace, o, i - 1)
    /\ log[i].kind = "tool-finished" =>
         /\ log[i].id \in 1..(i - 1)
         /\ log[log[i].id].kind = "tool-started" /\ log[log[i].id].run = log[i].run

\* The calls under way are the newest of their namespaces, of the newest run.
CallOK(n) ==
    /\ calls[n].id \in 1..Len(log)
    /\ Starts(calls[n].id, n, run)
    /\ Quiet(n, calls[n].id, Len(log))
ToolOK(t) == t \in 1..Len(log) /\ log[t].kind = "tool-started" /\ log[t].run = run
AgentInv ==
    /\ \A n \in Namespace : calls[n] # NoCall => CallOK(n)
    /\ \A t \in tools : ToolOK(t)
    /\ ~going => calls = NoCalls /\ tools = {}

LogInv == (\A i \in 1..Len(log) : EntryOK(i)) /\ AgentInv

\* What a connection was given since it was opened is in its tables.
TablesOK(c) ==
    /\ conn[c].since <= conn[c].cursor /\ conn[c].cursor <= Len(log)
    /\ \A o \in (conn[c].since + 1)..conn[c].cursor :
         log[o].kind = "message-start" /\ Matches(c, log[o])
         /\ Quiet(log[o].namespace, o, conn[c].cursor) =>
           conn[c].messages[log[o].namespace] = o
    /\ \A t \in (conn[c].since + 1)..conn[c].cursor :
         log[t].kind = "tool-started" /\ Matches(c, log[t]) => t \in conn[c].tools

\* A client comes back with a number that is no older than the last time.
LastSeen(c) ==
    /\ conn[c].open \/ client[c].frames # <<>> => client[c].came
    /\ IF client[c].frames = <<>> THEN conn[c].since = 0
       ELSE conn[c].since <= LastEventId(c) /\ LastEventId(c) <= Len(log)

FrameOK(c, f) ==
    /\ f.text # <<>> /\ f.id # Origin(f.text[1]) => Origin(f.text[1]) <= conn[c].since
    /\ ~f.named => f.id <= conn[c].since
ConnInv(c) ==
    /\ TablesOK(c)
    /\ LastSeen(c)
    /\ \A i \in 1..Len(client[c].frames) : FrameOK(c, client[c].frames[i])

IInv == TypeInv /\ LogInv /\ \A c \in Client : ConnInv(c)

-----------------------------------------------------------------------------
(* The types.                                                              *)

LEMMA Bounds == MaxEvents \in Nat /\ MaxRuns \in Nat /\ MaxBreaks \in Nat
BY ConstantsAssumption

\* An event that is emitted leaves the others where they are.
LEMMA Emitted ==
    ASSUME log \in Seq(Events), NEW es \in Seq(Events), Emit(es)
    PROVE  /\ log' \in Seq(Events) /\ Len(log') = Len(log) + Len(es)
           /\ Len(log) \in Nat /\ Len(es) \in Nat
           /\ \A i \in 1..Len(log) : log'[i] = log[i]
           /\ \A i \in 1..Len(es) : log'[Len(log) + i] = es[i]
<1>1. log' = log \o es
  BY DEF Emit
<1> QED BY <1>1

LEMMA KindsAre ==
    /\ "message-start" \in Kinds /\ "content-block-delta" \in Kinds
    /\ "content-block-finish" \in Kinds /\ "message-finish" \in Kinds
    /\ "tool-started" \in Kinds /\ "tool-finished" \in Kinds /\ "end" \in Kinds
    /\ None \in Namespace \cup {None} /\ None \in Nat /\ None = 0
    /\ << >> \in Seq(Token) /\ NoCall \in [id : Nat, chunks : Nat]
    /\ NoCalls \in [Namespace -> [id : Nat, chunks : Nat]]
    /\ NoMessages \in [Namespace -> [id : Int, text : Seq(Token)]]
<1>1. << >> \in Seq(Token)
  OBVIOUS
<1>2. /\ NoCall \in [id : Nat, chunks : Nat]
      /\ NoMessage \in [id : Int, text : Seq(Token)]
  BY <1>1 DEF NoCall, NoMessage, None
<1>3. NoCalls \in [Namespace -> [id : Nat, chunks : Nat]]
  BY <1>2 DEF NoCalls
<1>4. NoMessages \in [Namespace -> [id : Int, text : Seq(Token)]]
  BY <1>2 DEF NoMessages
<1> QED BY <1>1, <1>2, <1>3, <1>4 DEF Kinds, None

\* What the agent's steps put on the log, and the tables they leave.
LEMMA Ended ==
    ASSUME TypeInv, RunEnds
    PROVE  \E e \in Events :
             /\ e.kind = "end" /\ e.text = << >> /\ Emit(<<e>>)
<1>1. PICK e : e = Event("end", None, None, << >>)
  OBVIOUS
<1>2. e \in Events /\ e.kind = "end" /\ e.text = << >>
  BY <1>1, KindsAre DEF Event, Events, TypeInv
<1> QED BY <1>1, <1>2 DEF RunEnds

LEMMA Started ==
    ASSUME TypeInv, NEW n \in Namespace, ModelStart(n)
    PROVE  \E e \in Events, id \in Nat :
             /\ id = Len(log) + 1 /\ e.id = id
             /\ e.kind = "message-start" /\ e.namespace = n /\ e.run = run /\ Emit(<<e>>)
             /\ calls' = [calls EXCEPT ![n] = [id |-> id, chunks |-> 0]]
             /\ active' = [active EXCEPT ![n] = [id |-> id, text |-> << >>]]
<1>1. PICK id \in Nat : id = Len(log) + 1
  BY LenProperties DEF TypeInv
<1>2. PICK e : e = Event("message-start", n, id, << >>)
  OBVIOUS
<1>3. /\ e \in Events /\ e.id = id /\ e.kind = "message-start" /\ e.namespace = n
      /\ e.run = run
  BY <1>2, KindsAre DEF Event, Events, TypeInv
<1>4. /\ Emit(<<e>>)
      /\ calls' = [calls EXCEPT ![n] = [id |-> id, chunks |-> 0]]
      /\ active' = [active EXCEPT ![n] = [id |-> id, text |-> << >>]]
  BY <1>1, <1>2 DEF ModelStart, NextSeq
<1> QED BY <1>1, <1>3, <1>4

LEMMA Streamed ==
    ASSUME TypeInv, NEW n \in Namespace, ModelStream(n)
    PROVE  \E e \in Events, token \in Token, a \in [id : Int, text : Seq(Token)] :
             /\ token[1] = calls[n].id /\ e.text = <<token>>
             /\ e.kind = "content-block-delta" /\ e.namespace = n /\ e.run = run
             /\ Emit(<<e>>)
             /\ calls' = [calls EXCEPT ![n].chunks = @ + 1]
             /\ active' = [active EXCEPT ![n] = a]
             /\ active[n].id # None =>
                  a.id = active[n].id /\ a.text = Append(active[n].text, token)
<1>1. calls[n].id \in Nat /\ calls[n].chunks \in Nat
  BY DEF TypeInv
<1>2. PICK token : token = <<calls[n].id, calls[n].chunks + 1>>
  OBVIOUS
<1>3. token \in Token /\ token[1] = calls[n].id
  BY <1>1, <1>2 DEF Token
<1>10. <<token>> \in Seq(Token)
  BY <1>3
<1>4. PICK e : e = Event("content-block-delta", n, None, <<token>>)
  OBVIOUS
<1>5. /\ e \in Events /\ e.text = <<token>> /\ e.kind = "content-block-delta"
      /\ e.namespace = n /\ e.run = run
  BY <1>4, <1>10, KindsAre DEF Event, Events, TypeInv
<1>6. PICK current \in [id : Int, text : Seq(Token)] :
        current = IF active[n] = NoMessage THEN [id |-> -NextSeq, text |-> << >>]
                  ELSE active[n]
  <2>1. NextSeq \in Nat
    BY LenProperties DEF TypeInv, NextSeq
  <2>2. [id |-> -NextSeq, text |-> << >>] \in [id : Int, text : Seq(Token)]
    BY <2>1, KindsAre
  <2> QED BY <2>2 DEF TypeInv
<1>7. PICK a : a = [current EXCEPT !.text = Append(@, token)]
  OBVIOUS
<1>8. a \in [id : Int, text : Seq(Token)]
  <2>1. Append(current.text, token) \in Seq(Token)
    BY <1>3, AppendProperties
  <2> QED BY <1>7, <2>1
<1>9. /\ Emit(<<e>>)
      /\ calls' = [calls EXCEPT ![n].chunks = @ + 1]
      /\ active' = [active EXCEPT ![n] = a]
  BY <1>2, <1>4, <1>6, <1>7 DEF ModelStream
<1>11. ASSUME active[n].id # None
       PROVE  a.id = active[n].id /\ a.text = Append(active[n].text, token)
  <2>1. active[n] # NoMessage
    BY <1>11 DEF NoMessage
  <2>2. current = active[n]
    BY <1>6, <2>1
  <2>3. active[n] \in [id : Int, text : Seq(Token)]
    BY DEF TypeInv
  <2> QED BY <1>7, <2>2, <2>3
<1> QED BY <1>3, <1>5, <1>8, <1>9, <1>11

LEMMA Finished ==
    ASSUME TypeInv, NEW n \in Namespace, ModelEnd(n)
    PROVE  \E e \in Events, f \in Events :
             /\ e.kind = "content-block-finish" /\ f.kind = "message-finish"
             /\ e.namespace = n /\ f.namespace = n /\ e.text = active[n].text
             /\ Emit(<<e, f>>)
             /\ calls' = [calls EXCEPT ![n] = NoCall]
             /\ active' = [active EXCEPT ![n] = NoMessage]
<1>1. active[n].text \in Seq(Token)
  BY DEF TypeInv
<1>2. PICK e : e = Event("content-block-finish", n, None, active[n].text)
  OBVIOUS
<1>3. PICK f : f = Event("message-finish", n, None, << >>)
  OBVIOUS
<1>4. /\ e \in Events /\ e.kind = "content-block-finish" /\ e.namespace = n
      /\ e.text = active[n].text
  BY <1>1, <1>2, KindsAre DEF Event, Events, TypeInv
<1>5. f \in Events /\ f.kind = "message-finish" /\ f.namespace = n
  BY <1>3, KindsAre DEF Event, Events, TypeInv
<1> QED BY <1>2, <1>3, <1>4, <1>5 DEF ModelEnd

LEMMA ToolStarted ==
    ASSUME TypeInv, ToolStart
    PROVE  \E e \in Events, id \in Nat :
             /\ id = Len(log) + 1 /\ e.id = id /\ e.text = << >>
             /\ e.kind = "tool-started" /\ e.run = run /\ Emit(<<e>>)
             /\ tools' = tools \cup {id}
<1>1. PICK id \in Nat : id = Len(log) + 1
  BY LenProperties DEF TypeInv
<1>2. PICK e : e = Event("tool-started", None, id, << >>)
  OBVIOUS
<1>3. e \in Events /\ e.id = id /\ e.kind = "tool-started" /\ e.text = << >> /\ e.run = run
  BY <1>2, KindsAre DEF Event, Events, TypeInv
<1>4. Emit(<<e>>) /\ tools' = tools \cup {id}
  BY <1>1, <1>2 DEF ToolStart, NextSeq
<1> QED BY <1>1, <1>3, <1>4

LEMMA ToolEnded ==
    ASSUME TypeInv, NEW t \in tools, ToolEnd(t)
    PROVE  \E e \in Events :
             /\ e.kind = "tool-finished" /\ e.id = t /\ e.text = << >> /\ e.run = run
             /\ Emit(<<e>>)
             /\ tools' = tools \ {t}
<1>1. PICK e : e = Event("tool-finished", None, t, << >>)
  OBVIOUS
<1>2. t \in Nat
  BY DEF TypeInv
<1>3. /\ e \in Events /\ e.kind = "tool-finished" /\ e.id = t /\ e.text = << >>
      /\ e.run = run
  BY <1>1, <1>2, KindsAre DEF Event, Events, TypeInv
<1> QED BY <1>1, <1>3 DEF ToolEnd

LEMMA AgentTypes ==
    ASSUME TypeInv,
           \/ RunBegins \/ RunEnds \/ Resume
           \/ \E n \in Namespace : ModelStart(n) \/ ModelStream(n) \/ ModelEnd(n)
           \/ ToolStart \/ \E t \in tools : ToolEnd(t)
    PROVE  TypeInv' /\ UNCHANGED <<conn, client>>
<1>1. UNCHANGED <<conn, client>>
  BY DEF RunBegins, RunEnds, Resume, ModelStart, ModelStream, ModelEnd, ToolStart, ToolEnd
<1>2. conn' \in [Client -> Connections] /\ client' \in [Client -> Clients]
  BY <1>1 DEF TypeInv
<1>3. CASE RunBegins
  BY <1>2, <1>3 DEF RunBegins, TypeInv
<1>4. CASE RunEnds
  <2>1. PICK e \in Events : Emit(<<e>>)
    BY <1>4, Ended
  <2>2. <<e>> \in Seq(Events)
    OBVIOUS
  <2>3. log' \in Seq(Events)
    BY <2>1, <2>2, Emitted DEF TypeInv
  <2> QED BY <1>2, <1>4, <2>3, KindsAre DEF RunEnds, TypeInv
<1>5. CASE Resume
  BY <1>2, <1>5, KindsAre DEF Resume, TypeInv
<1>6. ASSUME NEW n \in Namespace, ModelStart(n) PROVE TypeInv'
  <2>1. PICK e \in Events, id \in Nat :
          /\ Emit(<<e>>)
          /\ calls' = [calls EXCEPT ![n] = [id |-> id, chunks |-> 0]]
          /\ active' = [active EXCEPT ![n] = [id |-> id, text |-> << >>]]
    BY <1>6, Started
  <2>2. <<e>> \in Seq(Events)
    OBVIOUS
  <2>3. log' \in Seq(Events)
    BY <2>1, <2>2, Emitted DEF TypeInv
  <2>4. /\ [id |-> id, chunks |-> 0] \in [id : Nat, chunks : Nat]
        /\ [id |-> id, text |-> << >>] \in [id : Int, text : Seq(Token)]
    BY KindsAre
  <2>5. /\ calls' \in [Namespace -> [id : Nat, chunks : Nat]]
        /\ active' \in [Namespace -> [id : Int, text : Seq(Token)]]
    BY <2>1, <2>4 DEF TypeInv
  <2> QED BY <1>2, <1>6, <2>3, <2>5 DEF ModelStart, TypeInv
<1>7. ASSUME NEW n \in Namespace, ModelStream(n) PROVE TypeInv'
  <2>1. PICK e \in Events, a \in [id : Int, text : Seq(Token)] :
          /\ Emit(<<e>>)
          /\ calls' = [calls EXCEPT ![n].chunks = @ + 1]
          /\ active' = [active EXCEPT ![n] = a]
    BY <1>7, Streamed
  <2>2. <<e>> \in Seq(Events)
    OBVIOUS
  <2>3. log' \in Seq(Events)
    BY <2>1, <2>2, Emitted DEF TypeInv
  <2>4. /\ calls' \in [Namespace -> [id : Nat, chunks : Nat]]
        /\ active' \in [Namespace -> [id : Int, text : Seq(Token)]]
    <3>1. PICK call \in [id : Nat, chunks : Nat] : call = calls[n]
      BY DEF TypeInv
    <3>2. calls' = [calls EXCEPT ![n] = [call EXCEPT !.chunks = call.chunks + 1]]
      BY <2>1, <3>1
    <3>3. [call EXCEPT !.chunks = call.chunks + 1] \in [id : Nat, chunks : Nat]
      OBVIOUS
    <3>4. PICK changed \in [id : Nat, chunks : Nat] :
            calls' = [calls EXCEPT ![n] = changed]
      BY <3>2, <3>3
    <3>5. calls \in [Namespace -> [id : Nat, chunks : Nat]]
          /\ active \in [Namespace -> [id : Int, text : Seq(Token)]]
      BY DEF TypeInv
    <3>6. calls' \in [Namespace -> [id : Nat, chunks : Nat]]
      <4> DEFINE Calls == [id : Nat, chunks : Nat]
      <4>1. calls \in [Namespace -> Calls] /\ changed \in Calls
        BY <3>5
      <4> HIDE DEF Calls
      <4>2. calls' \in [Namespace -> Calls]
        BY <3>4, <4>1
      <4> QED BY <4>2 DEF Calls
    <3>7. active' \in [Namespace -> [id : Int, text : Seq(Token)]]
      <4> DEFINE Active == [id : Int, text : Seq(Token)]
      <4>1. active \in [Namespace -> Active] /\ a \in Active
        BY <3>5
      <4> HIDE DEF Active
      <4>2. active' \in [Namespace -> Active]
        BY <2>1, <4>1
      <4> QED BY <4>2 DEF Active
    <3> QED BY <3>6, <3>7
  <2> QED BY <1>2, <1>7, <2>3, <2>4 DEF ModelStream, TypeInv
<1>8. ASSUME NEW n \in Namespace, ModelEnd(n) PROVE TypeInv'
  <2>1. PICK e \in Events, f \in Events :
          /\ Emit(<<e, f>>)
          /\ calls' = [calls EXCEPT ![n] = NoCall]
          /\ active' = [active EXCEPT ![n] = NoMessage]
    BY <1>8, Finished
  <2>2. <<e, f>> \in Seq(Events)
    OBVIOUS
  <2>3. log' \in Seq(Events)
    BY <2>1, <2>2, Emitted DEF TypeInv
  <2>4. NoMessage \in [id : Int, text : Seq(Token)]
    BY KindsAre DEF NoMessage
  <2>5. /\ calls' \in [Namespace -> [id : Nat, chunks : Nat]]
        /\ active' \in [Namespace -> [id : Int, text : Seq(Token)]]
    BY <2>1, <2>4, KindsAre DEF TypeInv
  <2> QED BY <1>2, <1>8, <2>3, <2>5 DEF ModelEnd, TypeInv
<1>9. CASE ToolStart
  <2>1. PICK e \in Events, id \in Nat : Emit(<<e>>) /\ tools' = tools \cup {id}
    BY <1>9, ToolStarted
  <2>2. <<e>> \in Seq(Events)
    OBVIOUS
  <2>3. log' \in Seq(Events)
    BY <2>1, <2>2, Emitted DEF TypeInv
  <2> QED BY <1>2, <1>9, <2>1, <2>3 DEF ToolStart, TypeInv
<1>10. ASSUME NEW t \in tools, ToolEnd(t) PROVE TypeInv'
  <2>1. PICK e \in Events : Emit(<<e>>) /\ tools' = tools \ {t}
    BY <1>10, ToolEnded
  <2>2. <<e>> \in Seq(Events)
    OBVIOUS
  <2>3. log' \in Seq(Events)
    BY <2>1, <2>2, Emitted DEF TypeInv
  <2> QED BY <1>2, <1>10, <2>1, <2>3 DEF ToolEnd, TypeInv
<1> QED BY <1>1, <1>3, <1>4, <1>5, <1>6, <1>7, <1>8, <1>9, <1>10

\* What a connection takes from the event e with number i.
Takes(c, e, i) ==
    /\ i = conn[c].cursor + 1 /\ e = log[i]
    /\ conn'[c].since = conn[c].since /\ conn'[c].cursor = i
    /\ client'[c].follows = client[c].follows /\ client'[c].mode = client[c].mode
    /\ client'[c].came = client[c].came
    /\ \/ /\ Matches(c, e)
          /\ conn'[c].messages = Messages(c, e) /\ conn'[c].tools = Tools(c, e)
          /\ client'[c].frames = client[c].frames \o Frames(c, e)
       \/ /\ ~Matches(c, e)
          /\ conn'[c].messages = conn[c].messages /\ conn'[c].tools = conn[c].tools
          /\ client'[c].frames = client[c].frames

\* A frame is that of a delta, of a tool call or of the end of a run.
Makes(c, e, i, f) ==
    /\ f.seq = i /\ f.text = e.text
    /\ \/ /\ e.kind = "content-block-delta"
          /\ f.id = Messages(c, e)[e.namespace] /\ f.named
       \/ /\ e.kind \in {"tool-started", "tool-finished"}
          /\ f.id = e.id /\ f.named = (e.id \in Tools(c, e))
       \/ e.kind = "end" /\ f.named

LEMMA FramesAre ==
    ASSUME TypeInv, NEW c \in Client, NEW e \in Events,
           e.kind = "content-block-delta" => e.namespace \in Namespace,
           NEW i \in Nat, i = conn[c].cursor + 1
    PROVE  /\ Messages(c, e) \in [Namespace -> Int] /\ Tools(c, e) \in SUBSET Nat
           /\ \/ Frames(c, e) = << >>
              \/ \E f \in Framed : Frames(c, e) = <<f>> /\ Makes(c, e, i, f)
<1>1. conn[c] \in Connections /\ conn[c].cursor \in Nat
      /\ conn[c].messages \in [Namespace -> Int] /\ conn[c].tools \subseteq Nat
  BY DEF TypeInv, Connections
<1>2. /\ e.id \in Nat /\ e.text \in Seq(Token) /\ e.kind \in Kinds
      /\ -(conn[c].cursor + 1) \in Int /\ None \in Int
  BY <1>1 DEF Events, None
<1>3. Messages(c, e) \in [Namespace -> Int]
  <2>1. PICK m \in [Namespace -> Int] : m = conn[c].messages
    BY <1>1
  <2>2. ASSUME NEW n, NEW v \in Int PROVE [m EXCEPT ![n] = v] \in [Namespace -> Int]
    OBVIOUS
  <2>3. e.id \in Int
    BY <1>2
  <2>4. CASE e.kind = "message-start"
    BY <2>1, <2>2, <2>3, <2>4 DEF Messages
  <2>5. CASE e.kind = "message-finish"
    BY <1>2, <2>1, <2>2, <2>5 DEF Messages
  <2>6. CASE e.kind = "content-block-delta"
    BY <1>2, <2>1, <2>2, <2>6 DEF Messages
  <2>7. CASE e.kind \notin {"message-start", "message-finish", "content-block-delta"}
    BY <2>1, <2>7 DEF Messages
  <2> QED BY <2>4, <2>5, <2>6, <2>7
<1>4. Tools(c, e) \in SUBSET Nat
  BY <1>1, <1>2 DEF Tools
<1>5. CASE e.kind = "content-block-delta"
  <2>1. PICK m \in Int : m = Messages(c, e)[e.namespace]
    BY <1>3, <1>5
  <2>2. PICK f : f = [seq |-> i, id |-> m, text |-> e.text, named |-> TRUE]
    OBVIOUS
  <2>3. f \in Framed
    BY <1>2, <2>2 DEF Framed
  <2>4. Frames(c, e) = <<f>>
    BY <1>5, <2>1, <2>2 DEF Frames
  <2>5. Makes(c, e, i, f)
    BY <1>5, <2>1, <2>2 DEF Makes
  <2> QED BY <1>3, <1>4, <2>3, <2>4, <2>5
<1>6. CASE e.kind \in {"tool-started", "tool-finished"}
  <2>0. (e.id \in Tools(c, e)) \in BOOLEAN
    OBVIOUS
  <2>1. PICK b \in BOOLEAN : b = (e.id \in Tools(c, e))
    BY <2>0
  <2>2. PICK f : f = [seq |-> i, id |-> e.id, text |-> e.text, named |-> b]
    OBVIOUS
  <2>3. f \in Framed
    BY <1>2, <2>2 DEF Framed
  <2>4. Frames(c, e) = <<f>>
    BY <1>6, <2>1, <2>2 DEF Frames
  <2>5. Makes(c, e, i, f)
    BY <1>6, <2>1, <2>2 DEF Makes
  <2> QED BY <1>3, <1>4, <2>3, <2>4, <2>5
<1>7. CASE e.kind = "end"
  <2>1. PICK f : f = [seq |-> i, id |-> None, text |-> e.text, named |-> TRUE]
    OBVIOUS
  <2>2. f \in Framed
    BY <1>2, <2>1 DEF Framed
  <2>3. Frames(c, e) = <<f>>
    BY <1>7, <2>1 DEF Frames
  <2>4. Makes(c, e, i, f)
    BY <1>7, <2>1 DEF Makes
  <2> QED BY <1>3, <1>4, <2>2, <2>3, <2>4
<1>8. CASE e.kind \notin {"content-block-delta", "tool-started", "tool-finished", "end"}
  BY <1>3, <1>4, <1>8 DEF Frames
<1> QED BY <1>5, <1>6, <1>7, <1>8

LEMMA Delivers ==
    ASSUME TypeInv, LogInv, NEW c \in Client, Deliver(c)
    PROVE  /\ UNCHANGED <<log, agent>>
           /\ \A d \in Client : d # c => conn'[d] = conn[d] /\ client'[d] = client[d]
           /\ \E i \in 1..Len(log), e \in Events : Takes(c, e, i)
           /\ conn' \in [Client -> Connections] /\ client' \in [Client -> Clients]
<1>1. conn[c] \in Connections /\ client[c] \in Clients
  BY DEF TypeInv
<1>2. conn[c].cursor \in Nat /\ conn[c].cursor < Len(log) /\ Len(log) \in Nat
  BY <1>1, LenProperties DEF TypeInv, Connections, Deliver
<1>3. PICK i \in 1..Len(log) : i = conn[c].cursor + 1
  BY <1>2
<1>4. PICK e \in Events : e = log[i]
  BY DEF TypeInv
<1>5. e.kind = "content-block-delta" => e.namespace \in Namespace
  BY <1>4 DEF LogInv, EntryOK
<1>6. i \in Nat
  BY <1>3
<1>7. Messages(c, e) \in [Namespace -> Int] /\ Tools(c, e) \in SUBSET Nat
  BY <1>3, <1>5, <1>6, FramesAre
<1>8. Frames(c, e) \in Seq(Framed)
  <2>1. CASE Frames(c, e) = << >>
    BY <2>1
  <2>2. CASE \E f \in Framed : Frames(c, e) = <<f>>
    BY <2>2
  <2> QED BY <1>3, <1>5, <1>6, <2>1, <2>2, FramesAre
<1>9. PICK next : next = [conn[c] EXCEPT !.cursor = i, !.open = ~IsTerminal(c, e)]
  OBVIOUS
<1>10. PICK here : here = IF Matches(c, e)
                          THEN [next EXCEPT !.messages = Messages(c, e),
                                            !.tools = Tools(c, e)]
                          ELSE next
  OBVIOUS
<1>11. conn' = [conn EXCEPT ![c] = here]
  BY <1>3, <1>4, <1>9, <1>10 DEF Deliver
<1>12. PICK frames : frames = IF Matches(c, e) THEN client[c].frames \o Frames(c, e)
                              ELSE client[c].frames
  OBVIOUS
<1>13. client' = [client EXCEPT ![c].frames = frames, ![c].ended = IsTerminal(c, e)]
  BY <1>3, <1>4, <1>12 DEF Deliver
<1>14. IsTerminal(c, e) \in BOOLEAN
  BY DEF IsTerminal
<1>15. next \in Connections /\ next.messages = conn[c].messages /\ next.tools = conn[c].tools
       /\ next.since = conn[c].since /\ next.cursor = i
  BY <1>1, <1>6, <1>9, <1>14 DEF Connections
<1>16. here \in Connections /\ here.since = conn[c].since /\ here.cursor = i
       /\ IF Matches(c, e) THEN here.messages = Messages(c, e) /\ here.tools = Tools(c, e)
          ELSE here.messages = conn[c].messages /\ here.tools = conn[c].tools
  <2>1. CASE Matches(c, e)
    <3>1. here = [next EXCEPT !.messages = Messages(c, e), !.tools = Tools(c, e)]
      BY <1>10, <2>1
    <3> QED BY <1>7, <1>15, <2>1, <3>1 DEF Connections
  <2>2. CASE ~Matches(c, e)
    BY <1>10, <1>15, <2>2
  <2> QED BY <2>1, <2>2
<1>17. client[c].frames \in Seq(Framed)
  BY <1>1 DEF Clients
<1>18. frames \in Seq(Framed)
  BY <1>8, <1>12, <1>17, ConcatProperties
<1>19. PICK there : there = [client[c] EXCEPT !.frames = frames, !.ended = IsTerminal(c, e)]
  OBVIOUS
<1>20. /\ there \in Clients /\ there.follows = client[c].follows
       /\ there.mode = client[c].mode /\ there.came = client[c].came /\ there.frames = frames
  BY <1>1, <1>14, <1>18, <1>19 DEF Clients
<1>21. client' = [client EXCEPT ![c] = there]
  BY <1>13, <1>19
<1>22. conn' \in [Client -> Connections] /\ client' \in [Client -> Clients]
  BY <1>11, <1>16, <1>20, <1>21 DEF TypeInv
<1>23. conn'[c] = here /\ client'[c] = there
       /\ \A d \in Client : d # c => conn'[d] = conn[d] /\ client'[d] = client[d]
  BY <1>11, <1>21 DEF TypeInv
<1>24. Takes(c, e, i)
  BY <1>3, <1>4, <1>12, <1>16, <1>20, <1>23 DEF Takes
<1> QED BY <1>22, <1>23, <1>24 DEF Deliver

LEMMA Connects ==
    ASSUME TypeInv, NEW c \in Client, LastSeen(c), Connect(c)
    PROVE  /\ UNCHANGED <<log, agent>>
           /\ \A d \in Client : d # c => conn'[d] = conn[d] /\ client'[d] = client[d]
           /\ client'[c].frames = client[c].frames
           /\ client'[c].came
           /\ conn'[c].since = LastEventId(c) /\ conn'[c].cursor = LastEventId(c)
           /\ LastEventId(c) \in Nat
           /\ conn' \in [Client -> Connections] /\ client' \in [Client -> Clients]
<1>1. conn[c] \in Connections /\ client[c] \in Clients
  BY DEF TypeInv
<1>2. client[c].frames \in Seq(Framed)
  BY <1>1 DEF Clients
<1>3. LastEventId(c) \in Nat
  <2>1. CASE client[c].frames = << >>
    BY <2>1 DEF LastEventId
  <2>2. CASE client[c].frames # << >>
    <3>1. Last(client[c].frames) \in Framed
      BY <1>2, <2>2, LenProperties DEF Last
    <3> QED BY <2>2, <3>1 DEF LastEventId, Framed
  <2> QED BY <2>1, <2>2
<1>4. PICK here : here = [Closed EXCEPT !.open = TRUE, !.since = LastEventId(c),
                                        !.cursor = LastEventId(c)]
  OBVIOUS
<1>5. here \in Connections /\ here.since = LastEventId(c) /\ here.cursor = LastEventId(c)
  <2>1. Closed \in Connections
    BY DEF Closed, Connections, None
  <2> QED BY <1>3, <1>4, <2>1 DEF Connections
<1>6. conn' = [conn EXCEPT ![c] = here]
  BY <1>4 DEF Connect
<1>7. conn'[c] = here /\ conn' \in [Client -> Connections]
      /\ \A d \in Client : d # c => conn'[d] = conn[d]
  BY <1>5, <1>6 DEF TypeInv
<1>8. /\ client' \in [Client -> Clients] /\ client'[c].frames = client[c].frames
      /\ client'[c].came
      /\ \A d \in Client : d # c => client'[d] = client[d]
  <2>1. CASE client[c].came /\ client' = client
    BY <2>1 DEF TypeInv
  <2>2. CASE ~client[c].came
    <3>1. PICK follows \in Thread..run, mode \in Modes :
            client' = [client EXCEPT ![c] = [New EXCEPT !.follows = follows,
                                                 !.mode = mode, !.came = TRUE]]
      BY <2>2 DEF Connect
    <3>2. client[c].frames = << >>
      BY <2>2 DEF LastSeen
    <3>3. New \in Clients /\ New.frames = << >>
      BY DEF New, Clients, Thread
    <3>4. follows \in Nat
      BY DEF Thread, TypeInv
    <3>5. PICK there : there = [New EXCEPT !.follows = follows, !.mode = mode,
                                           !.came = TRUE]
      OBVIOUS
    <3>6. there \in Clients /\ there.frames = << >> /\ there.came
      BY <3>3, <3>4, <3>5 DEF Clients
    <3>7. client' = [client EXCEPT ![c] = there]
      BY <3>1, <3>5
    <3> QED BY <3>2, <3>6, <3>7 DEF TypeInv
  <2> QED BY <2>1, <2>2 DEF Connect
<1> QED BY <1>3, <1>5, <1>7, <1>8 DEF Connect

LEMMA Breaks ==
    ASSUME TypeInv, NEW c \in Client, Break(c)
    PROVE  /\ UNCHANGED <<log, agent>>
           /\ \A d \in Client : d # c => conn'[d] = conn[d] /\ client'[d] = client[d]
           /\ client'[c].frames = client[c].frames
           /\ client'[c].follows = client[c].follows /\ client'[c].mode = client[c].mode
           /\ client'[c].came = client[c].came
           /\ conn'[c].since = conn[c].since /\ conn'[c].cursor = conn[c].cursor
           /\ conn'[c].messages = conn[c].messages /\ conn'[c].tools = conn[c].tools
           /\ conn[c].open
           /\ conn' \in [Client -> Connections] /\ client' \in [Client -> Clients]
<1>1. conn[c] \in Connections /\ client[c] \in Clients
  BY DEF TypeInv
<1>2. PICK here : here = [conn[c] EXCEPT !.open = FALSE]
  OBVIOUS
<1>3. PICK there : there = [client[c] EXCEPT !.breaks = client[c].breaks + 1]
  OBVIOUS
<1>4. /\ here \in Connections
      /\ here.since = conn[c].since /\ here.cursor = conn[c].cursor
      /\ here.messages = conn[c].messages /\ here.tools = conn[c].tools
  BY <1>1, <1>2 DEF Connections
<1>5. /\ there \in Clients
      /\ there.frames = client[c].frames /\ there.follows = client[c].follows
      /\ there.mode = client[c].mode /\ there.came = client[c].came
  BY <1>1, <1>3 DEF Clients
<1>6. conn' = [conn EXCEPT ![c] = here] /\ client' = [client EXCEPT ![c] = there]
  BY <1>2, <1>3 DEF Break
<1>7. conn'[c] = here /\ client'[c] = there
      /\ conn' \in [Client -> Connections] /\ client' \in [Client -> Clients]
      /\ \A d \in Client : d # c => conn'[d] = conn[d] /\ client'[d] = client[d]
  BY <1>4, <1>5, <1>6 DEF TypeInv
<1> QED BY <1>4, <1>5, <1>7 DEF Break

LEMMA TypesStep ==
    ASSUME TypeInv, LogInv, \A c \in Client : ConnInv(c), [Next]_vars
    PROVE  TypeInv'
<1>1. ASSUME NEW c \in Client, Connect(c) \/ Deliver(c) \/ Break(c) PROVE TypeInv'
  <2>1. LastSeen(c)
    BY DEF ConnInv
  <2>2. /\ UNCHANGED <<log, agent>>
        /\ conn' \in [Client -> Connections] /\ client' \in [Client -> Clients]
    BY <1>1, <2>1, Connects, Delivers, Breaks
  <2> QED BY <2>2 DEF TypeInv, agent
<1>2. CASE UNCHANGED vars
  BY <1>2 DEF vars, agent, TypeInv
<1> QED BY <1>1, <1>2, AgentTypes DEF Next

LEMMA TypesInit == Init => TypeInv
<1>1. << >> \in Seq(Events) /\ Closed \in Connections /\ New \in Clients
  BY DEF Closed, Connections, New, Clients, None, Thread
<1> QED BY <1>1, KindsAre DEF Init, TypeInv
-----------------------------------------------------------------------------
(* The log: every delta and every end of a tool call has its start.        *)

\* What an event says of those before it stays true.
LEMMA EntryStays ==
    ASSUME Len(log) \in Nat, NEW i \in 1..Len(log), EntryOK(i),
           \A j \in 1..Len(log) : log'[j] = log[j]
    PROVE  EntryOK(i)'
<1>1. log'[i] = log[i] /\ \A j \in 1..(i - 1) : log'[j] = log[j]
  OBVIOUS
<1>2. ASSUME log[i].kind = "content-block-delta"
      PROVE  \E o \in 1..(i - 1) :
               /\ log'[i].text # <<>> /\ log'[i].text[1][1] = o
               /\ Starts(o, log[i].namespace, log[i].run)'
               /\ Quiet(log[i].namespace, o, i - 1)'
  <2>1. PICK o \in 1..(i - 1) :
          /\ log[i].text # <<>> /\ log[i].text[1][1] = o
          /\ Starts(o, log[i].namespace, log[i].run)
          /\ Quiet(log[i].namespace, o, i - 1)
    BY <1>2 DEF EntryOK
  <2>2. log'[o] = log[o] /\ \A j \in (o + 1)..(i - 1) : log'[j] = log[j]
    BY <1>1
  <2>3. Starts(o, log[i].namespace, log[i].run)'
    BY <1>1, <2>1, <2>2 DEF Starts
  <2>4. Quiet(log[i].namespace, o, i - 1)'
    BY <1>1, <2>1, <2>2 DEF Quiet
  <2> QED BY <1>1, <2>1, <2>3, <2>4
<1>3. ASSUME log[i].kind = "tool-finished"
      PROVE  /\ log[i].id \in 1..(i - 1)
             /\ log'[log[i].id].kind = "tool-started"
             /\ log'[log[i].id].run = log[i].run
  BY <1>1, <1>3 DEF EntryOK
<1> QED BY <1>1, <1>2, <1>3 DEF EntryOK

LEMMA LogGrows ==
    ASSUME TypeInv, LogInv, NEW es \in Seq(Events), Emit(es), NEW m \in Nat, m = Len(log),
           \A i \in (m + 1)..(m + Len(es)) : EntryOK(i)'
    PROVE  \A i \in 1..Len(log') : EntryOK(i)'
<1>1. /\ Len(log') = m + Len(es) /\ Len(es) \in Nat
      /\ \A j \in 1..m : log'[j] = log[j]
  BY Emitted DEF TypeInv
<1>2. \A i \in 1..m : EntryOK(i)'
  BY <1>1, EntryStays DEF LogInv
<1>3. \A i \in 1..(m + Len(es)) : i \in 1..m \/ i \in (m + 1)..(m + Len(es))
  BY <1>1
<1> QED BY <1>1, <1>2, <1>3

\* One event more.
LEMMA EmittedOne ==
    ASSUME TypeInv, NEW e \in Events, Emit(<<e>>), NEW m \in Nat, m = Len(log)
    PROVE  /\ Len(log') = m + 1 /\ log'[m + 1] = e
           /\ \A j \in 1..m : log'[j] = log[j]
<1>1. PICK es : es = <<e>>
  OBVIOUS
<1>2. es \in Seq(Events) /\ Len(es) = 1 /\ es[1] = e
  BY <1>1
<1>3. /\ Len(log') = Len(log) + Len(es)
      /\ \A j \in 1..Len(log) : log'[j] = log[j]
      /\ \A j \in 1..Len(es) : log'[Len(log) + j] = es[j]
  BY <1>1, <1>2, Emitted DEF TypeInv
<1>4. 1 \in 1..Len(es)
  BY <1>2
<1>5. log'[m + 1] = e
  BY <1>2, <1>3, <1>4
<1> QED BY <1>2, <1>3, <1>5

LEMMA LogGrowsOne ==
    ASSUME TypeInv, LogInv, NEW e \in Events, Emit(<<e>>), NEW m \in Nat, m = Len(log),
           EntryOK(m + 1)'
    PROVE  \A i \in 1..Len(log') : EntryOK(i)'
<1>1. PICK es : es = <<e>>
  OBVIOUS
<1>2. es \in Seq(Events) /\ Len(es) = 1
  BY <1>1
<1>3. Emit(es)
  BY <1>1
<1>4. \A i \in (m + 1)..(m + Len(es)) : i = m + 1
  BY <1>2
<1>5. \A i \in (m + 1)..(m + Len(es)) : EntryOK(i)'
  BY <1>4
<1> QED BY <1>2, <1>3, <1>5, LogGrows

\* A call stays the newest of its namespace unless another message starts or
\* finishes there.
LEMMA CallStays ==
    ASSUME TypeInv, NEW n \in Namespace, CallOK(n),
           calls'[n].id = calls[n].id, run' = run,
           NEW es \in Seq(Events), Emit(es),
           \A i \in 1..Len(es) :
             es[i].namespace = n => es[i].kind \notin {"message-start", "message-finish"}
    PROVE  CallOK(n)'
<1>1. PICK m \in Nat : m = Len(log)
  BY LenProperties DEF TypeInv
<1>2. /\ Len(log') = m + Len(es) /\ Len(es) \in Nat
      /\ \A j \in 1..m : log'[j] = log[j]
      /\ \A j \in 1..Len(es) : log'[m + j] = es[j]
  BY <1>1, Emitted DEF TypeInv
<1>3. PICK o \in 1..m : o = calls[n].id
  BY <1>1 DEF CallOK
<1>4. Starts(o, n, run) /\ Quiet(n, o, m) /\ log'[o] = log[o]
  BY <1>1, <1>2, <1>3 DEF CallOK
<1>5. log'[o].kind = "message-start" /\ log'[o].namespace = n /\ log'[o].run = run
  BY <1>4 DEF Starts
<1>6. ASSUME NEW i \in (o + 1)..(m + Len(es)), log'[i].namespace = n
      PROVE  log'[i].kind \notin {"message-start", "message-finish"}
  <2>1. CASE i <= m
    <3>1. i \in 1..m /\ i \in (o + 1)..m
      BY <1>2, <2>1
    <3> QED BY <1>2, <1>4, <1>6, <3>1 DEF Quiet
  <2>2. CASE ~(i <= m)
    <3>1. i - m \in 1..Len(es) /\ m + (i - m) = i
      BY <1>2, <2>2
    <3>2. log'[i] = es[i - m]
      BY <1>2, <3>1
    <3> QED BY <1>6, <3>1, <3>2
  <2> QED BY <2>1, <2>2
<1>7. o \in 1..(m + Len(es))
  BY <1>2
<1> QED BY <1>2, <1>3, <1>5, <1>6, <1>7 DEF CallOK, Starts, Quiet

LEMMA ToolStays ==
    ASSUME TypeInv, NEW t, ToolOK(t), run' = run, NEW es \in Seq(Events), Emit(es)
    PROVE  ToolOK(t)'
<1>1. /\ Len(log') = Len(log) + Len(es) /\ Len(es) \in Nat /\ Len(log) \in Nat
      /\ \A j \in 1..Len(log) : log'[j] = log[j]
  BY Emitted DEF TypeInv
<1>2. t \in 1..Len(log) /\ t \in 1..Len(log')
  BY <1>1 DEF ToolOK
<1> QED BY <1>1, <1>2 DEF ToolOK

\* A message that starts, and one that is finished.
LEMMA StartKept ==
    ASSUME TypeInv, LogInv, NEW n \in Namespace, ModelStart(n)
    PROVE  LogInv'
<1>1. PICK e \in Events, id \in Nat :
        /\ id = Len(log) + 1 /\ e.id = id
        /\ e.kind = "message-start" /\ e.namespace = n /\ e.run = run /\ Emit(<<e>>)
        /\ calls' = [calls EXCEPT ![n] = [id |-> id, chunks |-> 0]]
  BY Started
<1>2. <<e>> \in Seq(Events) /\ Len(<<e>>) = 1 /\ <<e>>[1] = e
  OBVIOUS
<1>3. PICK m \in Nat : m = Len(log)
  BY LenProperties DEF TypeInv
<1>4. Len(log') = m + 1 /\ log'[m + 1] = e /\ id = m + 1
  BY <1>1, <1>3, EmittedOne
<1>5. EntryOK(m + 1)'
  BY <1>1, <1>4 DEF EntryOK
<1>6. \A i \in 1..Len(log') : EntryOK(i)'
  BY <1>1, <1>3, <1>5, LogGrowsOne
<1>7. /\ run' = run /\ going' = going /\ tools' = tools /\ going
      /\ calls'[n].id = id /\ \A p \in Namespace : p # n => calls'[p] = calls[p]
  BY <1>1 DEF ModelStart, TypeInv
<1>8. ASSUME NEW p \in Namespace, calls'[p] # NoCall PROVE CallOK(p)'
  <2>1. CASE p = n
    <3>1. (m + 2)..(m + 1) = {}
      OBVIOUS
    <3>2. id \in 1..(m + 1) /\ id + 1 = m + 2
      BY <1>4
    <3>3. Starts(calls[n].id, n, run)'
      BY <1>1, <1>4, <1>7 DEF Starts
    <3>4. Quiet(n, calls[n].id, Len(log))'
      BY <1>4, <1>7, <3>1, <3>2 DEF Quiet
    <3> QED BY <1>4, <1>7, <2>1, <3>2, <3>3, <3>4 DEF CallOK
  <2>2. CASE p # n
    <3>1. CallOK(p) /\ calls'[p].id = calls[p].id
      BY <1>7, <1>8, <2>2 DEF LogInv, AgentInv
    <3>2. \A i \in 1..Len(<<e>>) : <<e>>[i].namespace # p
      BY <1>1, <1>2, <2>2
    <3> QED BY <1>1, <1>2, <1>7, <3>1, <3>2, CallStays
  <2> QED BY <2>1, <2>2
<1>9. \A t \in tools' : ToolOK(t)'
  BY <1>1, <1>2, <1>7, ToolStays DEF LogInv, AgentInv
<1> QED BY <1>6, <1>7, <1>8, <1>9 DEF LogInv, AgentInv

LEMMA DeltaKept ==
    ASSUME TypeInv, LogInv, NEW n \in Namespace, ModelStream(n)
    PROVE  LogInv'
<1>1. PICK e \in Events, token \in Token, a \in [id : Int, text : Seq(Token)] :
        /\ token[1] = calls[n].id /\ e.text = <<token>>
        /\ e.kind = "content-block-delta" /\ e.namespace = n /\ e.run = run
        /\ Emit(<<e>>)
        /\ calls' = [calls EXCEPT ![n].chunks = @ + 1]
        /\ active' = [active EXCEPT ![n] = a]
        /\ active[n].id # None =>
             a.id = active[n].id /\ a.text = Append(active[n].text, token)
  BY Streamed
<1>2. <<e>> \in Seq(Events) /\ Len(<<e>>) = 1 /\ <<e>>[1] = e
  OBVIOUS
<1>3. PICK m \in Nat : m = Len(log)
  BY LenProperties DEF TypeInv
<1>4. /\ Len(log') = m + 1 /\ log'[m + 1] = e
      /\ \A j \in 1..m : log'[j] = log[j]
  BY <1>1, <1>3, EmittedOne
<1>5. CallOK(n) /\ calls[n] # NoCall
  BY DEF ModelStream, LogInv, AgentInv
<1>6. PICK o \in 1..m : o = calls[n].id
  BY <1>3, <1>5 DEF CallOK
<1>7. Starts(o, n, run) /\ Quiet(n, o, m)
  BY <1>3, <1>5, <1>6 DEF CallOK
<1>8. /\ log'[m + 1].text # << >> /\ log'[m + 1].text[1][1] = o
      /\ log'[m + 1].kind = "content-block-delta"
      /\ log'[m + 1].namespace = n /\ log'[m + 1].run = run
  BY <1>1, <1>4, <1>6
<1>9. log'[o].kind = "message-start" /\ log'[o].namespace = n /\ log'[o].run = run
  BY <1>4, <1>7 DEF Starts
<1>10. \A i \in (o + 1)..m :
         log'[i].namespace = n => log'[i].kind \notin {"message-start", "message-finish"}
  <2>1. \A i \in (o + 1)..m : i \in 1..m
    OBVIOUS
  <2> QED BY <1>4, <1>7, <2>1 DEF Quiet
<1>11. EntryOK(m + 1)'
  <2>1. (m + 1) - 1 = m
    OBVIOUS
  <2>2. \E i \in 1..m :
          /\ log'[m + 1].text # << >> /\ log'[m + 1].text[1][1] = i
          /\ Starts(i, log[m + 1].namespace, log[m + 1].run)'
          /\ Quiet(log[m + 1].namespace, i, m)'
    BY <1>8, <1>9, <1>10 DEF Starts, Quiet
  <2> QED BY <1>8, <2>1, <2>2 DEF EntryOK
<1>12. \A i \in 1..Len(log') : EntryOK(i)'
  BY <1>1, <1>3, <1>11, LogGrowsOne
<1>13. run' = run /\ going' = going /\ tools' = tools
  BY DEF ModelStream
<1>14. going
  <2>1. NoCalls[n] = NoCall
    BY DEF NoCalls
  <2> QED BY <1>5, <2>1 DEF LogInv, AgentInv
<1>15. \A p \in Namespace : calls'[p].id = calls[p].id /\ (p # n => calls'[p] = calls[p])
  BY <1>1 DEF TypeInv
<1>16. ASSUME NEW p \in Namespace, calls'[p] # NoCall PROVE CallOK(p)'
  <2>1. CallOK(p)
    BY <1>5, <1>15, <1>16 DEF LogInv, AgentInv
  <2>2. /\ \A i \in 1..Len(<<e>>) : <<e>>[i].kind \notin {"message-start", "message-finish"}
        /\ Emit(<<e>>) /\ <<e>> \in Seq(Events)
    BY <1>1, <1>2
  <2> QED BY <1>13, <1>15, <2>1, <2>2, CallStays
<1>17. \A t \in tools' : ToolOK(t)'
  BY <1>1, <1>2, <1>13, ToolStays DEF LogInv, AgentInv
<1> QED BY <1>12, <1>13, <1>14, <1>16, <1>17 DEF LogInv, AgentInv

LEMMA FinishKept ==
    ASSUME TypeInv, LogInv, NEW n \in Namespace, ModelEnd(n)
    PROVE  LogInv'
<1>1. PICK e \in Events, f \in Events :
        /\ e.kind = "content-block-finish" /\ f.kind = "message-finish"
        /\ e.namespace = n /\ f.namespace = n
        /\ Emit(<<e, f>>)
        /\ calls' = [calls EXCEPT ![n] = NoCall]
  BY Finished
<1>0. PICK es : es = <<e, f>>
  OBVIOUS
<1>2. es = <<e, f>> /\ es \in Seq(Events) /\ Len(es) = 2 /\ es[1] = e /\ es[2] = f
  BY <1>0
<1>3. PICK m \in Nat : m = Len(log)
  BY LenProperties DEF TypeInv
<1>4. log'[m + 1] = e /\ log'[m + 2] = f
  <2>1. \A j \in 1..Len(es) : log'[Len(log) + j] = es[j]
    BY <1>1, <1>2, Emitted DEF TypeInv
  <2>2. 1 \in 1..Len(es) /\ 2 \in 1..Len(es)
    BY <1>2
  <2> QED BY <1>2, <1>3, <2>1, <2>2
<1>5. EntryOK(m + 1)' /\ EntryOK(m + 2)'
  BY <1>1, <1>4 DEF EntryOK
<1>6. \A i \in 1..Len(log') : EntryOK(i)'
  <2>1. \A i \in (m + 1)..(m + Len(es)) : i = m + 1 \/ i = m + 2
    BY <1>2
  <2>2. \A i \in (m + 1)..(m + Len(es)) : EntryOK(i)'
    BY <1>5, <2>1
  <2> QED BY <1>1, <1>2, <1>3, <2>2, LogGrows
<1>7. /\ run' = run /\ going' = going /\ tools' = tools
      /\ calls'[n] = NoCall /\ \A p \in Namespace : p # n => calls'[p] = calls[p]
  BY <1>1 DEF ModelEnd, TypeInv
<1>8. going
  <2>1. NoCalls[n] = NoCall /\ calls[n] # NoCall
    BY DEF NoCalls, ModelEnd
  <2> QED BY <2>1 DEF LogInv, AgentInv
<1>9. ASSUME NEW p \in Namespace, calls'[p] # NoCall PROVE CallOK(p)'
  <2>1. p # n /\ CallOK(p) /\ calls'[p].id = calls[p].id
    BY <1>7, <1>9 DEF LogInv, AgentInv
  <2>2. \A i \in 1..Len(es) : es[i].namespace # p
    BY <1>1, <1>2, <2>1
  <2> QED BY <1>1, <1>2, <1>7, <2>1, <2>2, CallStays
<1>10. \A t \in tools' : ToolOK(t)'
  BY <1>1, <1>2, <1>7, ToolStays DEF LogInv, AgentInv
<1> QED BY <1>6, <1>7, <1>8, <1>9, <1>10 DEF LogInv, AgentInv

LEMMA ToolsKept ==
    ASSUME TypeInv, LogInv, ToolStart \/ \E t \in tools : ToolEnd(t)
    PROVE  LogInv'
<1>1. PICK e \in Events :
        /\ Emit(<<e>>) /\ e.run = run /\ e.text = << >>
        /\ \/ /\ e.kind = "tool-started" /\ e.id = Len(log) + 1
              /\ tools' = tools \cup {Len(log) + 1}
           \/ /\ e.kind = "tool-finished" /\ e.id \in tools /\ tools' \subseteq tools
  <2>1. CASE ToolStart
    BY <2>1, ToolStarted
  <2>2. ASSUME NEW t \in tools, ToolEnd(t)
        PROVE  \E e \in Events :
                 /\ Emit(<<e>>) /\ e.run = run /\ e.text = << >>
                 /\ e.kind = "tool-finished" /\ e.id \in tools /\ tools' \subseteq tools
    BY <2>2, ToolEnded
  <2> QED BY <2>1, <2>2
<1>2. <<e>> \in Seq(Events) /\ Len(<<e>>) = 1 /\ <<e>>[1] = e
  OBVIOUS
<1>3. PICK m \in Nat : m = Len(log)
  BY LenProperties DEF TypeInv
<1>4. /\ Len(log') = m + 1 /\ log'[m + 1] = e
      /\ \A j \in 1..m : log'[j] = log[j]
  BY <1>1, <1>3, EmittedOne
<1>5. EntryOK(m + 1)'
  <2>1. CASE e.kind = "tool-started"
    BY <1>1, <1>3, <1>4, <2>1 DEF EntryOK
  <2>2. CASE e.kind = "tool-finished"
    <3>1. ToolOK(e.id)
      BY <1>1, <2>2 DEF LogInv, AgentInv
    <3>2. e.id \in 1..m /\ log'[e.id].kind = "tool-started" /\ log'[e.id].run = e.run
      BY <1>1, <1>3, <1>4, <3>1 DEF ToolOK
    <3>3. (m + 1) - 1 = m
      OBVIOUS
    <3> QED BY <1>1, <1>4, <2>2, <3>2, <3>3 DEF EntryOK
  <2> QED BY <1>1, <2>1, <2>2
<1>6. \A i \in 1..Len(log') : EntryOK(i)'
  BY <1>1, <1>3, <1>5, LogGrowsOne
<1>7. run' = run /\ going' = going /\ calls' = calls
  BY DEF ToolStart, ToolEnd
<1>8. going
  BY DEF ToolStart, ToolEnd, LogInv, AgentInv
<1>9. ASSUME NEW p \in Namespace, calls'[p] # NoCall PROVE CallOK(p)'
  <2>1. CallOK(p) /\ calls'[p].id = calls[p].id
    BY <1>7, <1>9 DEF LogInv, AgentInv
  <2>2. \A i \in 1..Len(<<e>>) : <<e>>[i].kind \notin {"message-start", "message-finish"}
    BY <1>1, <1>2
  <2> QED BY <1>1, <1>2, <1>7, <2>1, <2>2, CallStays
<1>10. ASSUME NEW t \in tools' PROVE ToolOK(t)'
  <2>1. CASE t \in tools
    <3>1. ToolOK(t)
      BY <2>1 DEF LogInv, AgentInv
    <3> QED BY <1>1, <1>2, <1>7, <3>1, ToolStays
  <2>2. CASE t \notin tools
    <3>1. t = m + 1 /\ e.kind = "tool-started"
      BY <1>1, <1>3, <2>2
    <3> QED BY <1>1, <1>4, <1>7, <3>1 DEF ToolOK
  <2> QED BY <2>1, <2>2
<1> QED BY <1>6, <1>7, <1>8, <1>9, <1>10 DEF LogInv, AgentInv

LEMMA LogStep ==
    ASSUME TypeInv, LogInv, [Next]_vars
    PROVE  LogInv'
<1>1. CASE RunBegins
  <2>1. log' = log /\ calls = NoCalls /\ tools = {} /\ calls' = calls /\ tools' = tools
        /\ going'
    BY <1>1 DEF RunBegins, LogInv, AgentInv
  <2>2. Len(log) \in Nat
    BY LenProperties DEF TypeInv
  <2>3. \A i \in 1..Len(log') : EntryOK(i)'
    BY <2>1, <2>2, EntryStays DEF LogInv
  <2>4. \A n \in Namespace : calls'[n] = NoCall
    BY <2>1 DEF NoCalls
  <2> QED BY <2>1, <2>3, <2>4 DEF LogInv, AgentInv
<1>2. CASE RunEnds
  <2>1. PICK e \in Events : e.kind = "end" /\ e.text = << >> /\ Emit(<<e>>)
    BY <1>2, Ended
  <2>2. <<e>> \in Seq(Events) /\ Len(<<e>>) = 1 /\ <<e>>[1] = e
    OBVIOUS
  <2>3. PICK m \in Nat : m = Len(log)
    BY LenProperties DEF TypeInv
  <2>4. log'[m + 1] = e
    BY <2>1, <2>3, EmittedOne
  <2>5. EntryOK(m + 1)'
    BY <2>1, <2>4 DEF EntryOK
  <2>6. \A i \in 1..Len(log') : EntryOK(i)'
    BY <2>1, <2>3, <2>5, LogGrowsOne
  <2>7. calls' = NoCalls /\ tools' = {} /\ \A n \in Namespace : NoCalls[n] = NoCall
    BY <1>2 DEF RunEnds, NoCalls
  <2> QED BY <2>6, <2>7 DEF LogInv, AgentInv
<1>3. CASE Resume
  <2>1. log' = log /\ calls' = NoCalls /\ tools' = {} /\ \A n \in Namespace : NoCalls[n] = NoCall
    BY <1>3 DEF Resume, NoCalls
  <2>2. Len(log) \in Nat
    BY LenProperties DEF TypeInv
  <2>3. \A i \in 1..Len(log') : EntryOK(i)'
    BY <2>1, <2>2, EntryStays DEF LogInv
  <2> QED BY <2>1, <2>3 DEF LogInv, AgentInv
<1>4. ASSUME NEW c \in Client, Connect(c) \/ Deliver(c) \/ Break(c) PROVE LogInv'
  <2>1. UNCHANGED <<log, run, going, calls, tools>>
    BY <1>4 DEF Connect, Deliver, Break, agent
  <2> QED BY <2>1 DEF LogInv, AgentInv, EntryOK, CallOK, ToolOK, Starts, Quiet
<1>5. CASE UNCHANGED vars
  <2>1. UNCHANGED <<log, run, going, calls, tools>>
    BY <1>5 DEF vars, agent
  <2> QED BY <2>1 DEF LogInv, AgentInv, EntryOK, CallOK, ToolOK, Starts, Quiet
<1> QED BY <1>1, <1>2, <1>3, <1>4, <1>5, StartKept, DeltaKept, FinishKept, ToolsKept DEF Next
-----------------------------------------------------------------------------
(* The connections.                                                        *)

LEMMA ConnTyped ==
    ASSUME TypeInv, NEW c \in Client
    PROVE  /\ conn[c].since \in Nat /\ conn[c].cursor \in Nat /\ Len(log) \in Nat
           /\ conn[c].messages \in [Namespace -> Int] /\ conn[c].tools \subseteq Nat
           /\ client[c].frames \in Seq(Framed)
BY LenProperties DEF TypeInv, Connections, Clients

\* A step that moves neither the connection nor its client, nor what is in the log.
LEMMA ConnStays ==
    ASSUME TypeInv, NEW c \in Client, ConnInv(c),
           conn'[c] = conn[c], client'[c] = client[c],
           Len(log') \in Nat, Len(log) <= Len(log'),
           \A j \in 1..Len(log) : log'[j] = log[j]
    PROVE  ConnInv(c)'
<1>1. PICK since \in Nat, cursor \in Nat, len \in Nat :
        /\ since = conn[c].since /\ cursor = conn[c].cursor /\ len = Len(log)
        /\ since <= cursor /\ cursor <= len /\ len <= Len(log')
  BY ConnTyped DEF ConnInv, TablesOK
<1>2. \A j \in 1..len : log'[j] = log[j]
  BY <1>1
<1>3. ASSUME NEW o \in (since + 1)..cursor
      PROVE  /\ o \in 1..len /\ log'[o] = log[o]
             /\ Matches(c, log[o])' <=> Matches(c, log[o])
  <2>1. o \in 1..len
    BY <1>1
  <2>2. log'[o] = log[o]
    BY <1>2, <2>1
  <2> QED BY <2>1, <2>2 DEF Matches
<1>4. ASSUME NEW o \in (since + 1)..cursor, log'[o].kind = "message-start",
             Matches(c, log[o])', Quiet(log[o].namespace, o, cursor)'
      PROVE  conn[c].messages[log[o].namespace] = o
  <2>1. \A j \in (o + 1)..cursor : j \in 1..len
    BY <1>1
  <2>2. Quiet(log[o].namespace, o, cursor)
    BY <1>2, <1>3, <1>4, <2>1 DEF Quiet
  <2>3. log[o].kind = "message-start" /\ Matches(c, log[o])
    BY <1>3, <1>4
  <2> QED BY <1>1, <2>2, <2>3 DEF ConnInv, TablesOK
<1>5. ASSUME NEW t \in (since + 1)..cursor, log'[t].kind = "tool-started",
             Matches(c, log[t])'
      PROVE  t \in conn[c].tools
  BY <1>1, <1>3, <1>5 DEF ConnInv, TablesOK
<1>6. TablesOK(c)'
  <2>1. /\ conn'[c].since = since /\ conn'[c].cursor = cursor
        /\ since <= cursor /\ cursor <= Len(log')
    BY <1>1
  <2>2. \A o \in (since + 1)..cursor :
          log'[o].kind = "message-start" /\ Matches(c, log[o])'
          /\ Quiet(log[o].namespace, o, cursor)' =>
            conn'[c].messages[log'[o].namespace] = o
    BY <1>3, <1>4
  <2>3. \A t \in (since + 1)..cursor :
          log'[t].kind = "tool-started" /\ Matches(c, log[t])' => t \in conn'[c].tools
    BY <1>5
  <2> QED BY <2>1, <2>2, <2>3 DEF TablesOK, Quiet
<1>7. LastSeen(c)'
  <2>1. LastSeen(c) /\ LastEventId(c)' = LastEventId(c)
    BY DEF ConnInv, LastEventId
  <2>2. CASE client[c].frames = << >>
    BY <2>1, <2>2 DEF LastSeen
  <2>3. CASE client[c].frames # << >>
    <3>1. Last(client[c].frames) \in Framed
      BY <2>3, ConnTyped, LenProperties DEF Last
    <3>2. LastEventId(c) \in Nat
      BY <2>3, <3>1 DEF LastEventId, Framed
    <3>3. LastEventId(c) <= Len(log')
      BY <1>1, <2>1, <2>3, <3>2 DEF LastSeen
    <3> QED BY <2>1, <2>3, <3>3 DEF LastSeen
  <2> QED BY <2>2, <2>3
<1>8. \A i \in 1..Len(client[c].frames) : FrameOK(c, client[c].frames[i])'
  BY DEF ConnInv, FrameOK
<1> QED BY <1>6, <1>7, <1>8 DEF ConnInv

\* A connection that opens knows nothing, and what it will not repeat is not newer
\* than what its client has.
LEMMA ConnectKept ==
    ASSUME TypeInv, NEW c \in Client, ConnInv(c), Connect(c)
    PROVE  ConnInv(c)'
<1>1. LastSeen(c)
  BY DEF ConnInv
<1>2. PICK last \in Nat, frames \in Seq(Framed), since \in Nat :
        /\ last = LastEventId(c) /\ frames = client[c].frames /\ since = conn[c].since
  BY <1>1, Connects, ConnTyped
<1>3. /\ log' = log /\ client'[c].frames = frames
      /\ client'[c].came
      /\ conn'[c].since = last /\ conn'[c].cursor = last
  BY <1>1, <1>2, Connects
<1>4. since <= last /\ last <= Len(log)
  <2>1. CASE frames = << >>
    BY <1>1, <1>2, <2>1, ConnTyped DEF LastSeen, LastEventId
  <2>2. CASE frames # << >>
    BY <1>1, <1>2, <2>2 DEF LastSeen
  <2> QED BY <2>1, <2>2
<1>5. (last + 1)..last = {} /\ last <= last
  OBVIOUS
<1>6. TablesOK(c)'
  BY <1>3, <1>4, <1>5 DEF TablesOK
<1>7. LastEventId(c)' = last
  BY <1>2, <1>3 DEF LastEventId
<1>8. LastSeen(c)'
  <2>1. frames = << >> => last = 0
    BY <1>2 DEF LastEventId
  <2> QED BY <1>3, <1>4, <1>5, <1>7, <2>1 DEF LastSeen
<1>9. ASSUME NEW f \in Framed, FrameOK(c, f) PROVE FrameOK(c, f)'
  <2>1. f.id \in Int /\ f.text \in Seq(Token)
    BY DEF Framed
  <2>2. f.text # << >> => Origin(f.text[1]) \in Nat
    BY <2>1 DEF Origin, Token
  <2> QED BY <1>2, <1>3, <1>4, <1>9, <2>1, <2>2 DEF FrameOK
<1>10. \A i \in 1..Len(frames) : frames[i] \in Framed /\ FrameOK(c, frames[i])
  BY <1>2 DEF ConnInv
<1>11. \A i \in 1..Len(frames) : FrameOK(c, frames[i])'
  BY <1>9, <1>10
<1> QED BY <1>3, <1>6, <1>8, <1>11 DEF ConnInv

\* What is in the tables after an event is given.
LEMMA TablesKept ==
    ASSUME TypeInv, LogInv, NEW c \in Client, ConnInv(c), log' = log,
           NEW i \in 1..Len(log), NEW e \in Events, Takes(c, e, i)
    PROVE  TablesOK(c)'
<1>1. PICK since \in Nat, cursor \in Nat :
        /\ since = conn[c].since /\ cursor = conn[c].cursor
        /\ since <= cursor /\ i = cursor + 1
        /\ conn'[c].since = since /\ conn'[c].cursor = i
  BY ConnTyped DEF ConnInv, TablesOK, Takes
<1>2. /\ e = log[i] /\ EntryOK(i) /\ conn[c].messages \in [Namespace -> Int]
      /\ client'[c].follows = client[c].follows /\ client'[c].mode = client[c].mode
  BY ConnTyped DEF LogInv, Takes
<1>3. ASSUME NEW o \in (since + 1)..i,
             log[o].kind = "message-start", Matches(c, log[o])',
             Quiet(log[o].namespace, o, i)
      PROVE  conn'[c].messages[log[o].namespace] = o
  <2>1. PICK n : n = log[o].namespace
    OBVIOUS
  <2>2. Matches(c, log[o])
    BY <1>2, <1>3 DEF Matches
  <2>3. o \in 1..Len(log)
    BY <1>1
  <2>4. n \in Namespace /\ log[o].id = o
    BY <1>3, <2>1, <2>3 DEF LogInv, EntryOK
  <2>5. CASE o = i
    <3>1. conn'[c].messages = Messages(c, e)
      BY <1>2, <2>2, <2>5 DEF Takes
    <3>2. Messages(c, e) = [conn[c].messages EXCEPT ![n] = o]
      BY <1>2, <1>3, <2>1, <2>4, <2>5 DEF Messages
    <3> QED BY <1>2, <2>1, <2>4, <3>1, <3>2
  <2>6. CASE o # i
    <3>1. o \in (since + 1)..cursor
      BY <1>1, <2>6
    <3>2. i \in (o + 1)..i /\ \A j \in (o + 1)..cursor : j \in (o + 1)..i
      BY <1>1, <3>1
    <3>3. Quiet(n, o, cursor)
      BY <1>3, <2>1, <3>2 DEF Quiet
    <3>4. conn[c].messages[n] = o
      BY <1>1, <1>3, <2>1, <2>2, <3>1, <3>3 DEF ConnInv, TablesOK
    <3>5. e.namespace = n => e.kind \notin {"message-start", "message-finish"}
      BY <1>2, <1>3, <2>1, <3>2 DEF Quiet
    <3>6. o # None
      BY <3>1 DEF None
    <3>7. Messages(c, e)[n] = o
      <4>1. CASE e.namespace = n
        BY <2>4, <3>4, <3>5, <3>6, <4>1 DEF Messages
      <4>2. CASE e.namespace # n
        BY <1>2, <2>4, <3>4, <4>2 DEF Messages
      <4> QED BY <4>1, <4>2
    <3> QED BY <2>1, <3>4, <3>7 DEF Takes
  <2> QED BY <2>5, <2>6
<1>4. ASSUME NEW t \in (since + 1)..i,
             log[t].kind = "tool-started", Matches(c, log[t])'
      PROVE  t \in conn'[c].tools
  <2>1. Matches(c, log[t])
    BY <1>2, <1>4 DEF Matches
  <2>2. t \in 1..Len(log)
    BY <1>1
  <2>3. log[t].id = t
    BY <1>4, <2>2 DEF LogInv, EntryOK
  <2>4. CASE t = i
    BY <1>2, <1>4, <2>1, <2>3, <2>4 DEF Takes, Tools
  <2>5. CASE t # i
    <3>1. t \in (since + 1)..cursor
      BY <1>1, <2>5
    <3>2. t \in conn[c].tools
      BY <1>1, <1>4, <2>1, <3>1 DEF ConnInv, TablesOK
    <3> QED BY <3>2 DEF Takes, Tools
  <2> QED BY <2>4, <2>5
<1>5. since <= i /\ i <= Len(log)
  BY <1>1, ConnTyped
<1> QED BY <1>1, <1>3, <1>4, <1>5 DEF TablesOK, Quiet

\* The frame of an event names its message or its tool.
LEMMA FrameNames ==
    ASSUME TypeInv, LogInv, NEW c \in Client, ConnInv(c),
           NEW i \in 1..Len(log), NEW e \in Events, Takes(c, e, i), Matches(c, e),
           NEW f \in Framed, Makes(c, e, i, f)
    PROVE  FrameOK(c, f)
<1>1. PICK since \in Nat, cursor \in Nat :
        /\ since = conn[c].since /\ cursor = conn[c].cursor
        /\ since <= cursor /\ i = cursor + 1
  BY ConnTyped DEF ConnInv, TablesOK, Takes
<1>2. e = log[i] /\ EntryOK(i) /\ f.text = e.text
  BY DEF LogInv, Takes, Makes
<1>3. CASE e.kind = "content-block-delta"
  <2>1. PICK o \in 1..(i - 1), n \in Namespace :
          /\ n = e.namespace
          /\ e.text # <<>> /\ e.text[1][1] = o
          /\ Starts(o, n, e.run) /\ Quiet(n, o, i - 1)
    BY <1>2, <1>3 DEF EntryOK
  <2>2. CASE o <= since
    BY <1>1, <1>2, <1>3, <2>1, <2>2 DEF FrameOK, Origin, Makes
  <2>3. CASE ~(o <= since)
    <3>0. i - 1 = cursor
      BY <1>1
    <3>1. o \in (since + 1)..cursor /\ i - 1 = cursor /\ o # None
      BY <2>3, <3>0 DEF None
    <3>2. log[o].kind = "message-start" /\ log[o].namespace = n /\ log[o].run = e.run
      BY <2>1 DEF Starts
    <3>3. Matches(c, log[o])
      BY <3>2 DEF Matches
    <3>4. conn[c].messages[n] = o
      BY <1>1, <2>1, <3>1, <3>2, <3>3 DEF ConnInv, TablesOK
    <3>5. Messages(c, e)[n] = o
      BY <1>3, <2>1, <3>1, <3>4 DEF Messages
    <3>6. f.id = o /\ f.named
      BY <1>3, <2>1, <3>5 DEF Makes
    <3> QED BY <1>2, <2>1, <3>6 DEF FrameOK, Origin
  <2> QED BY <2>2, <2>3
<1>4. CASE e.kind \in {"tool-started", "tool-finished"}
  <2>1. f.text = << >> /\ f.id = e.id /\ f.named = (e.id \in Tools(c, e))
    BY <1>2, <1>4 DEF EntryOK, Makes
  <2>2. CASE e.kind = "tool-started"
    <3>1. e.id \in Tools(c, e)
      BY <2>2 DEF Tools
    <3> QED BY <2>1, <3>1 DEF FrameOK
  <2>3. CASE e.kind = "tool-finished"
    <3>1. PICK t \in 1..(i - 1) :
            t = e.id /\ log[t].kind = "tool-started" /\ log[t].run = e.run
      BY <1>2, <2>3 DEF EntryOK
    <3>2. CASE t <= since
      BY <1>1, <2>1, <3>1, <3>2 DEF FrameOK
    <3>3. CASE ~(t <= since)
      <4>0. i - 1 = cursor
        BY <1>1
      <4>1. t \in (since + 1)..cursor
        BY <3>3, <4>0
      <4>2. Matches(c, log[t])
        BY <2>3, <3>1 DEF Matches
      <4>3. t \in conn[c].tools
        BY <1>1, <3>1, <4>1, <4>2 DEF ConnInv, TablesOK
      <4>4. e.id \in Tools(c, e)
        BY <3>1, <4>3 DEF Tools
      <4> QED BY <2>1, <4>4 DEF FrameOK
    <3> QED BY <3>2, <3>3
  <2> QED BY <1>4, <2>2, <2>3
<1>5. CASE e.kind = "end"
  BY <1>2, <1>5 DEF EntryOK, FrameOK, Makes
<1> QED BY <1>3, <1>4, <1>5 DEF Makes

LEMMA DeliverKept ==
    ASSUME TypeInv, LogInv, NEW c \in Client, ConnInv(c), Deliver(c)
    PROVE  ConnInv(c)'
<1>1. PICK i \in 1..Len(log), e \in Events : Takes(c, e, i) /\ log' = log
  BY Delivers
<1>2. TablesOK(c)'
  BY <1>1, TablesKept
<1>3. PICK since \in Nat, cursor \in Nat, frames \in Seq(Framed), last \in Seq(Framed) :
        /\ since = conn[c].since /\ cursor = conn[c].cursor
        /\ since <= cursor /\ i = cursor + 1
        /\ frames = client[c].frames /\ conn'[c].since = since
        /\ client'[c].came = client[c].came
        /\ client'[c].frames = frames \o last
        /\ \/ last = << >>
           \/ \E f \in Framed : /\ last = <<f>> /\ Makes(c, e, i, f) /\ Matches(c, e)
  <2>1. /\ conn[c].since <= conn[c].cursor /\ i = conn[c].cursor + 1
        /\ conn'[c].since = conn[c].since /\ client'[c].came = client[c].came
    BY <1>1 DEF ConnInv, TablesOK, Takes
  <2>2. /\ << >> \in Seq(Framed) /\ client[c].frames \in Seq(Framed)
        /\ client[c].frames = client[c].frames \o << >>
    BY ConnTyped
  <2>3. CASE ~Matches(c, e) \/ Frames(c, e) = << >>
    <3>1. client'[c].frames = client[c].frames \o << >>
      BY <1>1, <2>2, <2>3 DEF Takes
    <3> QED BY <2>1, <2>2, <3>1, ConnTyped
  <2>4. CASE Matches(c, e) /\ Frames(c, e) # << >>
    <3>1. e.kind = "content-block-delta" => e.namespace \in Namespace
      BY <1>1 DEF LogInv, EntryOK, Takes
    <3>2. PICK f \in Framed : Frames(c, e) = <<f>> /\ Makes(c, e, i, f)
      BY <1>1, <2>1, <2>4, <3>1, FramesAre
    <3>3. client'[c].frames = client[c].frames \o <<f>> /\ <<f>> \in Seq(Framed)
      BY <1>1, <2>4, <3>2 DEF Takes
    <3> QED BY <2>1, <2>4, <3>2, <3>3, ConnTyped
  <2> QED BY <2>3, <2>4
<1>4. client'[c].came
  BY <1>3 DEF ConnInv, LastSeen, Deliver
<1>5. \A j \in 1..Len(frames) : FrameOK(c, frames[j])
  BY <1>3 DEF ConnInv
<1>6. frames = << >> \/ (since <= Last(frames).seq /\ Last(frames).seq <= Len(log))
  BY <1>3 DEF ConnInv, LastSeen, LastEventId
<1>7. frames = << >> => since = 0
  BY <1>3 DEF ConnInv, LastSeen
<1>8. CASE last = << >>
  <2>1. client'[c].frames = frames
    BY <1>3, <1>8
  <2>2. LastSeen(c)'
    BY <1>1, <1>3, <1>4, <1>6, <1>7, <2>1 DEF LastSeen, LastEventId
  <2>3. \A j \in 1..Len(frames) : FrameOK(c, frames[j])'
    BY <1>3, <1>5 DEF FrameOK
  <2> QED BY <1>2, <2>1, <2>2, <2>3 DEF ConnInv
<1>9. ASSUME NEW f \in Framed, last = <<f>>, Makes(c, e, i, f), Matches(c, e)
      PROVE  ConnInv(c)'
  <2>1. PICK all : all = frames \o <<f>>
    OBVIOUS
  <2>2. /\ Len(frames) \in Nat /\ Len(all) = Len(frames) + 1 /\ all # << >>
        /\ \A j \in 1..Len(frames) : all[j] = frames[j]
        /\ all[Len(frames) + 1] = f
    BY <2>1
  <2>3. client'[c].frames = all
    BY <1>3, <1>9, <2>1
  <2>4. Last(all).seq = i
    BY <1>9, <2>2 DEF Last, Makes
  <2>5. since <= i /\ i <= Len(log)
    BY <1>3, ConnTyped
  <2>6. LastSeen(c)'
    BY <1>1, <1>3, <1>4, <2>2, <2>3, <2>4, <2>5 DEF LastSeen, LastEventId
  <2>7. FrameOK(c, f)
    BY <1>1, <1>9, FrameNames
  <2>8. \A j \in 1..Len(frames) + 1 : j \in 1..Len(frames) \/ j = Len(frames) + 1
    BY <2>2
  <2>9. \A j \in 1..Len(all) : FrameOK(c, all[j])
    BY <1>5, <2>2, <2>7, <2>8
  <2>10. \A j \in 1..Len(all) : FrameOK(c, all[j])'
    BY <1>3, <2>9 DEF FrameOK
  <2> QED BY <1>2, <2>3, <2>6, <2>10 DEF ConnInv
<1> QED BY <1>3, <1>8, <1>9

LEMMA BreakKept ==
    ASSUME TypeInv, NEW c \in Client, ConnInv(c), Break(c)
    PROVE  ConnInv(c)'
<1>1. /\ log' = log
      /\ client'[c].frames = client[c].frames
      /\ client'[c].follows = client[c].follows /\ client'[c].mode = client[c].mode
      /\ client'[c].came = client[c].came /\ conn[c].open
      /\ conn'[c].since = conn[c].since /\ conn'[c].cursor = conn[c].cursor
      /\ conn'[c].messages = conn[c].messages /\ conn'[c].tools = conn[c].tools
  BY Breaks
<1>2. TablesOK(c)'
  BY <1>1 DEF ConnInv, TablesOK, Matches, Quiet
<1>3. LastSeen(c)'
  BY <1>1 DEF ConnInv, LastSeen, LastEventId
<1>4. \A j \in 1..Len(client[c].frames) : FrameOK(c, client[c].frames[j])'
  BY <1>1 DEF ConnInv, FrameOK
<1> QED BY <1>1, <1>2, <1>3, <1>4 DEF ConnInv

LEMMA LogOnlyGrows ==
    ASSUME TypeInv, [Next]_vars
    PROVE  /\ Len(log') \in Nat /\ Len(log) <= Len(log')
           /\ \A j \in 1..Len(log) : log'[j] = log[j]
<1>1. CASE log' = log
  BY <1>1, LenProperties DEF TypeInv
<1>2. ASSUME NEW e \in Events, Emit(<<e>>)
      PROVE  /\ Len(log') \in Nat /\ Len(log) <= Len(log')
             /\ \A j \in 1..Len(log) : log'[j] = log[j]
  <2>1. PICK m \in Nat : m = Len(log)
    BY LenProperties DEF TypeInv
  <2> QED BY <1>2, <2>1, EmittedOne
<1>3. ASSUME NEW e \in Events, NEW f \in Events, Emit(<<e, f>>)
      PROVE  /\ Len(log') \in Nat /\ Len(log) <= Len(log')
             /\ \A j \in 1..Len(log) : log'[j] = log[j]
  <2>1. PICK es : es = <<e, f>>
    OBVIOUS
  <2>2. es \in Seq(Events) /\ Len(es) = 2
    BY <2>1
  <2>3. Emit(es)
    BY <1>3, <2>1
  <2>4. /\ Len(log') = Len(log) + Len(es) /\ Len(log) \in Nat
        /\ \A j \in 1..Len(log) : log'[j] = log[j]
    BY <2>2, <2>3, Emitted DEF TypeInv
  <2> QED BY <2>2, <2>4
<1>4. CASE RunBegins \/ Resume \/ UNCHANGED vars
           \/ \E c \in Client : Connect(c) \/ Deliver(c) \/ Break(c)
  BY <1>1, <1>4 DEF RunBegins, Resume, vars, Connect, Deliver, Break
<1>5. CASE RunEnds \/ ToolStart \/ \E t \in tools : ToolEnd(t)
  BY <1>2, <1>5, Ended, ToolStarted, ToolEnded
<1>6. ASSUME NEW n \in Namespace, ModelStart(n) \/ ModelStream(n) \/ ModelEnd(n)
      PROVE  /\ Len(log') \in Nat /\ Len(log) <= Len(log')
             /\ \A j \in 1..Len(log) : log'[j] = log[j]
  BY <1>2, <1>3, <1>6, Started, Streamed, Finished
<1> QED BY <1>4, <1>5, <1>6 DEF Next

LEMMA ConnStep ==
    ASSUME TypeInv, LogInv, \A c \in Client : ConnInv(c), [Next]_vars, NEW c \in Client
    PROVE  ConnInv(c)'
<1>1. ConnInv(c)
  OBVIOUS
<1>2. CASE conn'[c] = conn[c] /\ client'[c] = client[c]
  BY <1>1, <1>2, LogOnlyGrows, ConnStays
<1>3. ASSUME NEW d \in Client, Connect(d) \/ Deliver(d) \/ Break(d)
      PROVE  ConnInv(c)'
  <2>1. CASE d = c
    BY <1>1, <1>3, <2>1, ConnectKept, DeliverKept, BreakKept
  <2>2. CASE d # c
    <3>1. LastSeen(d)
      BY DEF ConnInv
    <3>2. conn'[c] = conn[c] /\ client'[c] = client[c]
      BY <1>3, <2>2, <3>1, Connects, Delivers, Breaks
    <3> QED BY <1>2, <3>2
  <2> QED BY <2>1, <2>2
<1>4. CASE UNCHANGED vars
  BY <1>2, <1>4 DEF vars
<1>5. CASE \/ RunBegins \/ RunEnds \/ Resume
           \/ \E n \in Namespace : ModelStart(n) \/ ModelStream(n) \/ ModelEnd(n)
           \/ ToolStart \/ \E t \in tools : ToolEnd(t)
  <2>1. UNCHANGED <<conn, client>>
    BY <1>5, AgentTypes
  <2> QED BY <1>2, <2>1
<1> QED BY <1>3, <1>4, <1>5 DEF Next

LEMMA InvInit == Init => IInv
<1> SUFFICES ASSUME Init PROVE IInv
  OBVIOUS
<1>1. TypeInv
  BY TypesInit
<1>2. log = << >> /\ Len(log) = 0 /\ 1..Len(log) = {}
  BY DEF Init
<1>3. \A n \in Namespace : calls[n] = NoCall
  BY DEF Init, NoCalls
<1>4. LogInv
  BY <1>2, <1>3 DEF Init, LogInv, AgentInv
<1>5. ASSUME NEW c \in Client PROVE ConnInv(c)
  <2>1. conn[c] = Closed /\ client[c] = New
    BY DEF Init
  <2>2. /\ conn[c].since = 0 /\ conn[c].cursor = 0 /\ ~conn[c].open
        /\ client[c].frames = << >> /\ Len(client[c].frames) = 0
    BY <2>1 DEF Closed, New
  <2>3. (0 + 1)..0 = {} /\ 1..0 = {}
    OBVIOUS
  <2> QED BY <1>2, <2>2, <2>3 DEF ConnInv, TablesOK, LastSeen
<1> QED BY <1>1, <1>4, <1>5 DEF IInv

LEMMA InvStep ==
    ASSUME IInv, [Next]_vars
    PROVE  IInv'
BY TypesStep, LogStep, ConnStep DEF IInv

\* A piece of text is sent under the id of its message, and the end of a tool call
\* with the name of the tool, however many namespaces speak at once, calls are given
\* up and workers take over; but for a client that came back behind their start.
THEOREM FramesAreNamed == Spec => []FramesNameTheirOrigin
<1>1. IInv => FramesNameTheirOrigin
  <2> SUFFICES ASSUME IInv, NEW c \in Client, NEW f \in Range(client[c].frames)
               PROVE  FrameOK(c, f)
    BY DEF FramesNameTheirOrigin, FrameOK
  <2>1. TypeInv /\ ConnInv(c)
    BY DEF IInv
  <2>2. client[c].frames \in Seq(Framed)
    BY <2>1, ConnTyped
  <2>3. PICK i \in 1..Len(client[c].frames) : f = client[c].frames[i]
    BY <2>2 DEF Range
  <2> QED BY <2>1, <2>3 DEF ConnInv
<1>2. IInv /\ [Next]_vars => IInv'
  BY InvStep
<1> QED BY <1>1, <1>2, InvInit, PTL DEF Spec
-----------------------------------------------------------------------------
(* The text of a message: what the runner has of a call under way is the   *)
(* text of its deltas (TextOK), so content-block-finish repeats them.      *)

TellsAll(i) ==
    log[i].kind = "content-block-finish" =>
        \E start \in 1..i :
            /\ StartsMessage(start, log[i].namespace)
            /\ \A o \in (start + 1)..i : ~StartsMessage(o, log[i].namespace)
            /\ Repeats(log[i].text, log[i].namespace, start, i)
TextOK(n) ==
    /\ active[n].id = calls[n].id
    /\ Repeats(active[n].text, n, calls[n].id, Len(log))
TextInv ==
    /\ \A i \in 1..Len(log) : TellsAll(i)
    /\ \A n \in Namespace : calls[n] # NoCall => TextOK(n)

LEMMA DeltasCounted ==
    ASSUME NEW n, NEW from \in Int, NEW to \in Int
    PROVE  IsFiniteSet(Deltas(n, from, to)) /\ Cardinality(Deltas(n, from, to)) \in Nat
<1>1. Deltas(n, from, to) \subseteq from..to
  BY DEF Deltas
<1>2. IsFiniteSet(from..to)
  BY FS_Interval
<1>3. IsFiniteSet(Deltas(n, from, to))
  BY <1>1, <1>2, FS_Subset
<1> QED BY <1>3, FS_CardinalityType

\* The deltas up to m are the same after events were added behind m.
LEMMA DeltasStay ==
    ASSUME NEW n, NEW from \in Nat \ {0}, NEW m \in Nat, NEW to \in Int, to <= m,
           \A j \in 1..m : log'[j] = log[j]
    PROVE  Deltas(n, from, to)' = Deltas(n, from, to)
<1>1. \A k \in from..to : log'[k] = log[k]
  OBVIOUS
<1> QED BY <1>1 DEF Deltas

\* No delta of n among the events that were added.
LEMMA RepeatsStays ==
    ASSUME NEW n, NEW from \in Nat \ {0}, NEW m \in Nat, NEW upTo \in Nat, m <= upTo,
           \A j \in 1..m : log'[j] = log[j],
           \A j \in (m + 1)..upTo :
             log'[j].namespace = n => log'[j].kind # "content-block-delta",
           NEW text, Repeats(text, n, from, m)
    PROVE  Repeats(text, n, from, upTo)'
<1>1. Deltas(n, from, upTo)' = Deltas(n, from, m)
  <2>1. \A k \in from..upTo : k \in from..m \/ k \in (m + 1)..upTo
    OBVIOUS
  <2>2. \A k \in from..m : k \in from..upTo /\ log'[k] = log[k]
    OBVIOUS
  <2> QED BY <2>1, <2>2 DEF Deltas
<1>2. ASSUME NEW k \in Deltas(n, from, m)
      PROVE  log'[k] = log[k] /\ Deltas(n, from, k)' = Deltas(n, from, k)
  <2>1. k \in 1..m /\ k \in Int /\ k <= m
    BY DEF Deltas
  <2> QED BY <2>1, DeltasStay
<1>3. Len(text) = Cardinality(Deltas(n, from, upTo)')
  BY <1>1 DEF Repeats
<1>4. \A k \in Deltas(n, from, upTo)' :
        log'[k].text = <<text[Cardinality(Deltas(n, from, k)')]>>
  BY <1>1, <1>2 DEF Repeats
<1> QED BY <1>3, <1>4 DEF Repeats

\* A delta of n was added.
LEMMA RepeatsMore ==
    ASSUME NEW n, NEW from \in Nat \ {0}, NEW m \in Nat, from <= m,
           \A j \in 1..m : log'[j] = log[j],
           NEW token, log'[m + 1].namespace = n, log'[m + 1].kind = "content-block-delta",
           log'[m + 1].text = <<token>>,
           NEW text \in Seq(Token), token \in Token, Repeats(text, n, from, m)
    PROVE  Repeats(Append(text, token), n, from, m + 1)'
<1>1. PICK before : before = Deltas(n, from, m)
  OBVIOUS
<1>2. PICK count \in Nat : count = Cardinality(before) /\ count = Len(text)
  <2>1. Len(text) = Cardinality(before) /\ Len(text) \in Nat
    BY <1>1 DEF Repeats
  <2> QED BY <2>1
<1>3. IsFiniteSet(before) /\ m + 1 \notin before
  <2>1. from \in Int /\ m \in Int /\ m + 1 \notin from..m
    OBVIOUS
  <2>2. IsFiniteSet(before)
    BY <1>1, <2>1, DeltasCounted
  <2>3. before \subseteq from..m
    BY <1>1 DEF Deltas
  <2> QED BY <2>1, <2>2, <2>3
<1>4. Deltas(n, from, m + 1)' = before \cup {m + 1}
  <2>1. \A k \in from..(m + 1) : k \in from..m \/ k = m + 1
    OBVIOUS
  <2>2. \A k \in from..m : k \in from..(m + 1) /\ log'[k] = log[k]
    OBVIOUS
  <2>3. m + 1 \in from..(m + 1)
    OBVIOUS
  <2> QED BY <1>1, <2>1, <2>2, <2>3 DEF Deltas
<1>5. Cardinality(Deltas(n, from, m + 1)') = count + 1
  <2>1. Cardinality(before \cup {m + 1}) = count + 1
    BY <1>2, <1>3, FS_AddElement
  <2> QED BY <1>4, <2>1
<1>6. PICK longer : longer = Append(text, token)
  OBVIOUS
<1>7. /\ Len(longer) = count + 1 /\ longer[count + 1] = token
      /\ \A r \in 1..count : longer[r] = text[r]
  BY <1>2, <1>6
<1>8. ASSUME NEW k \in before
      PROVE  log'[k].text = <<longer[Cardinality(Deltas(n, from, k)')]>>
  <2>1. k \in from..m /\ log[k].kind = "content-block-delta" /\ log[k].namespace = n
    BY <1>1 DEF Deltas
  <2>2. log'[k] = log[k] /\ Deltas(n, from, k)' = Deltas(n, from, k)
    BY <2>1, DeltasStay
  <2>3. PICK upTo : upTo = Deltas(n, from, k)
    OBVIOUS
  <2>4. upTo \subseteq before /\ k \in upTo
    BY <1>1, <2>1, <2>3 DEF Deltas
  <2>5. Cardinality(upTo) \in 1..count
    <3>1. IsFiniteSet(upTo) /\ Cardinality(upTo) \in Nat
      BY <2>1, <2>3, DeltasCounted
    <3>2. Cardinality(upTo) <= count
      BY <1>2, <1>3, <2>4, FS_Subset
    <3>3. Cardinality(upTo) # 0
      BY <2>4, <3>1, FS_EmptySet
    <3> QED BY <3>1, <3>2, <3>3
  <2>6. log[k].text = <<text[Cardinality(upTo)]>>
    BY <1>1, <2>3 DEF Repeats
  <2> QED BY <1>7, <2>2, <2>3, <2>5, <2>6
<1>9. \A k \in Deltas(n, from, m + 1)' :
        log'[k].text = <<longer[Cardinality(Deltas(n, from, k)')]>>
  <2>1. log'[m + 1].text = <<longer[Cardinality(Deltas(n, from, m + 1)')]>>
    BY <1>5, <1>7
  <2> QED BY <1>4, <1>8, <2>1
<1> QED BY <1>5, <1>6, <1>7, <1>9 DEF Repeats

LEMMA TellsAllStays ==
    ASSUME NEW m \in Nat, NEW i \in 1..m, TellsAll(i), \A j \in 1..m : log'[j] = log[j]
    PROVE  TellsAll(i)'
<1>1. log'[i] = log[i]
  OBVIOUS
<1>2. ASSUME log[i].kind = "content-block-finish"
      PROVE  \E start \in 1..i :
               /\ StartsMessage(start, log[i].namespace)'
               /\ \A o \in (start + 1)..i : ~StartsMessage(o, log[i].namespace)'
               /\ Repeats(log[i].text, log[i].namespace, start, i)'
  <2>0. PICK n, text : n = log[i].namespace /\ text = log[i].text
    OBVIOUS
  <2>1. PICK start \in 1..i :
          /\ StartsMessage(start, n)
          /\ \A o \in (start + 1)..i : ~StartsMessage(o, n)
          /\ Repeats(text, n, start, i)
    BY <1>2, <2>0 DEF TellsAll
  <2>2. \A o \in start..i : log'[o] = log[o]
    OBVIOUS
  <2>3. StartsMessage(start, n)'
    BY <2>1, <2>2 DEF StartsMessage
  <2>4. \A o \in (start + 1)..i : ~StartsMessage(o, n)'
    BY <2>1, <2>2 DEF StartsMessage
  <2>5. Repeats(text, n, start, i)'
    <3>1. \A j \in 1..i : log'[j] = log[j]
      OBVIOUS
    <3>2. (i + 1)..i = {} /\ i \in Nat /\ start \in Nat \ {0}
      OBVIOUS
    <3> QED BY <2>1, <3>1, <3>2, RepeatsStays
  <2> QED BY <2>0, <2>3, <2>4, <2>5
<1> QED BY <1>1, <1>2 DEF TellsAll

\* A call whose text is not added to, and no delta of its namespace either.
LEMMA TextStays ==
    ASSUME TypeInv, NEW n \in Namespace, CallOK(n), TextOK(n),
           calls'[n].id = calls[n].id, active'[n] = active[n],
           Len(log') \in Nat, Len(log) <= Len(log'),
           \A j \in 1..Len(log) : log'[j] = log[j],
           \A j \in (Len(log) + 1)..Len(log') :
             log'[j].namespace = n => log'[j].kind # "content-block-delta"
    PROVE  TextOK(n)'
<1>0. PICK text : text = active[n].text
  OBVIOUS
<1>1. PICK m \in Nat, upTo \in Nat, o \in Nat \ {0} :
        m = Len(log) /\ upTo = Len(log') /\ m <= upTo /\ o = calls[n].id
  BY LenProperties DEF TypeInv, CallOK
<1>2. Repeats(text, n, o, m)
  BY <1>0, <1>1 DEF TextOK
<1>3. Repeats(text, n, o, upTo)'
  BY <1>1, <1>2, RepeatsStays
<1> QED BY <1>0, <1>1, <1>3 DEF TextOK

\* The events that an agent's step adds, as far as the text goes.
LEMMA TextStep ==
    ASSUME TypeInv, LogInv, TextInv, [Next]_vars
    PROVE  TextInv'
<1>1. PICK m \in Nat : m = Len(log)
  BY LenProperties DEF TypeInv
<1>2. Len(log') \in Nat /\ m <= Len(log') /\ \A j \in 1..m : log'[j] = log[j]
  BY <1>1, LogOnlyGrows
<1>3. \A i \in 1..m : TellsAll(i)'
  BY <1>1, <1>2, TellsAllStays DEF TextInv
<1>4. ASSUME NEW n \in Namespace, calls[n] # NoCall PROVE CallOK(n) /\ TextOK(n)
  BY <1>4 DEF LogInv, AgentInv, TextInv
<1>5. \A i \in 1..Len(log') : i \in 1..m \/ i \in (m + 1)..Len(log')
  BY <1>2
<1>6. CASE /\ UNCHANGED <<calls, active>> \/ (calls' = NoCalls /\ active' = NoMessages)
           /\ \A j \in (m + 1)..Len(log') :
                log'[j].kind \notin {"content-block-delta", "content-block-finish"}
  <2>1. \A i \in (m + 1)..Len(log') : TellsAll(i)'
    BY <1>6 DEF TellsAll
  <2>2. ASSUME NEW n \in Namespace, calls'[n] # NoCall PROVE TextOK(n)'
    <3>1. calls'[n] = calls[n] /\ active'[n] = active[n]
      BY <1>6, <2>2 DEF NoCalls
    <3>2. CallOK(n) /\ TextOK(n)
      BY <1>4, <2>2, <3>1
    <3> QED BY <1>1, <1>2, <1>6, <3>1, <3>2, TextStays
  <2> QED BY <1>3, <1>5, <2>1, <2>2 DEF TextInv
<1>7. CASE log' = log /\ (UNCHANGED <<calls, active>> \/ (calls' = NoCalls /\ active' = NoMessages))
  <2>1. (m + 1)..Len(log') = {}
    BY <1>1, <1>7
  <2> QED BY <1>6, <1>7, <2>1
<1>8. ASSUME NEW e \in Events, Emit(<<e>>)
      PROVE  /\ Len(log') = m + 1 /\ log'[m + 1] = e
             /\ \A j \in (m + 1)..Len(log') : log'[j] = e
  <2>1. Len(log') = m + 1 /\ log'[m + 1] = e
    BY <1>1, <1>8, EmittedOne
  <2> QED BY <2>1
<1>9. CASE RunEnds
  <2>1. PICK e \in Events : e.kind = "end" /\ Emit(<<e>>)
    BY <1>9, Ended
  <2>2. \A j \in (m + 1)..Len(log') : log'[j].kind = "end"
    BY <1>8, <2>1
  <2>3. calls' = NoCalls /\ active' = NoMessages
    BY <1>9 DEF RunEnds
  <2> QED BY <1>6, <2>2, <2>3
<1>10. CASE ToolStart \/ \E t \in tools : ToolEnd(t)
  <2>1. PICK e \in Events : e.kind \in {"tool-started", "tool-finished"} /\ Emit(<<e>>)
    <3>1. CASE ToolStart
      BY <3>1, ToolStarted
    <3>2. ASSUME NEW t \in tools, ToolEnd(t)
          PROVE  \E e \in Events : e.kind \in {"tool-started", "tool-finished"} /\ Emit(<<e>>)
      BY <3>2, ToolEnded
    <3> QED BY <1>10, <3>1, <3>2
  <2>2. \A j \in (m + 1)..Len(log') : log'[j].kind \in {"tool-started", "tool-finished"}
    BY <1>8, <2>1
  <2>3. UNCHANGED <<calls, active>>
    BY <1>10 DEF ToolStart, ToolEnd
  <2> QED BY <1>6, <2>2, <2>3
<1>11. ASSUME NEW n \in Namespace, ModelStart(n) PROVE TextInv'
  <2>1. PICK e \in Events, id \in Nat :
          /\ id = m + 1 /\ e.kind = "message-start" /\ e.namespace = n /\ Emit(<<e>>)
          /\ calls' = [calls EXCEPT ![n] = [id |-> id, chunks |-> 0]]
          /\ active' = [active EXCEPT ![n] = [id |-> id, text |-> << >>]]
    BY <1>1, <1>11, Started
  <2>2. Len(log') = m + 1 /\ \A j \in (m + 1)..Len(log') : log'[j].kind = "message-start"
    BY <1>8, <2>1
  <2>3. \A i \in (m + 1)..Len(log') : TellsAll(i)'
    BY <2>2 DEF TellsAll
  <2>4. /\ calls'[n].id = id
        /\ active'[n].id = id /\ active'[n].text = << >>
        /\ \A p \in Namespace : p # n => calls'[p] = calls[p] /\ active'[p] = active[p]
    BY <2>1 DEF TypeInv
  <2>5. TextOK(n)'
    <3>1. Deltas(n, id, id)' = {}
      BY <2>1, <2>2 DEF Deltas
    <3>2. Repeats(<< >>, n, id, id)'
      BY <3>1, FS_EmptySet DEF Repeats
    <3> QED BY <2>1, <2>2, <2>4, <3>2 DEF TextOK
  <2>6. ASSUME NEW p \in Namespace, p # n, calls'[p] # NoCall PROVE TextOK(p)'
    <3>1. CallOK(p) /\ TextOK(p) /\ calls'[p].id = calls[p].id /\ active'[p] = active[p]
      BY <1>4, <2>4, <2>6
    <3> QED BY <1>1, <1>2, <2>2, <3>1, TextStays
  <2> QED BY <1>3, <1>5, <2>3, <2>5, <2>6 DEF TextInv
<1>12. ASSUME NEW n \in Namespace, ModelStream(n) PROVE TextInv'
  <2>1. PICK e \in Events, token \in Token, a \in [id : Int, text : Seq(Token)] :
          /\ token[1] = calls[n].id /\ e.text = <<token>>
          /\ e.kind = "content-block-delta" /\ e.namespace = n /\ e.run = run
          /\ Emit(<<e>>)
          /\ calls' = [calls EXCEPT ![n].chunks = @ + 1]
          /\ active' = [active EXCEPT ![n] = a]
          /\ active[n].id # None =>
               a.id = active[n].id /\ a.text = Append(active[n].text, token)
    BY <1>12, Streamed
  <2>2. /\ Len(log') = m + 1 /\ log'[m + 1] = e
        /\ \A j \in (m + 1)..Len(log') : log'[j] = e
    BY <1>8, <2>1
  <2>3. \A i \in (m + 1)..Len(log') : TellsAll(i)'
    BY <2>1, <2>2 DEF TellsAll
  <2>4. /\ active'[n] = a
        /\ \A p \in Namespace : p # n => calls'[p] = calls[p] /\ active'[p] = active[p]
    BY <2>1 DEF TypeInv
  <2>5. calls'[n].id = calls[n].id
    BY <2>1 DEF TypeInv
  <2>6. TextOK(n)'
    <3>1. CallOK(n) /\ TextOK(n)
      BY <1>4, <1>12 DEF ModelStream
    <3>2. PICK o \in 1..m, text \in Seq(Token) : o = calls[n].id /\ text = active[n].text
      <4>1. calls[n].id \in 1..m
        BY <1>1, <3>1 DEF CallOK
      <4>2. active[n].text \in Seq(Token)
        BY DEF TypeInv
      <4> QED BY <4>1, <4>2
    <3>6. o \in Nat \ {0} /\ o <= m
      OBVIOUS
    <3>3. Repeats(text, n, o, m) /\ active[n].id = o
      BY <1>1, <3>1, <3>2 DEF TextOK
    <3>4. a.id = o /\ a.text = Append(text, token)
      BY <2>1, <3>2, <3>3 DEF None
    <3>5. Repeats(Append(text, token), n, o, m + 1)'
      BY <1>2, <2>1, <2>2, <3>3, <3>6, RepeatsMore
    <3> QED BY <2>2, <2>4, <2>5, <3>2, <3>4, <3>5 DEF TextOK
  <2>7. ASSUME NEW p \in Namespace, p # n, calls'[p] # NoCall PROVE TextOK(p)'
    <3>1. CallOK(p) /\ TextOK(p) /\ calls'[p].id = calls[p].id /\ active'[p] = active[p]
      BY <1>4, <2>4, <2>7
    <3> QED BY <1>1, <1>2, <2>1, <2>2, <2>7, <3>1, TextStays
  <2> QED BY <1>3, <1>5, <2>3, <2>6, <2>7 DEF TextInv
<1>13. ASSUME NEW n \in Namespace, ModelEnd(n) PROVE TextInv'
  <2>1. PICK e \in Events, f \in Events :
          /\ e.kind = "content-block-finish" /\ f.kind = "message-finish"
          /\ e.namespace = n /\ f.namespace = n /\ e.text = active[n].text
          /\ Emit(<<e, f>>)
          /\ calls' = [calls EXCEPT ![n] = NoCall]
          /\ active' = [active EXCEPT ![n] = NoMessage]
    BY <1>13, Finished
  <2>2. Len(log') = m + 2 /\ log'[m + 1] = e /\ log'[m + 2] = f
    <3>1. PICK es : es = <<e, f>>
      OBVIOUS
    <3>2. es \in Seq(Events) /\ Len(es) = 2 /\ es[1] = e /\ es[2] = f
      BY <3>1
    <3>3. Len(log') = m + Len(es) /\ \A j \in 1..Len(es) : log'[m + j] = es[j]
      BY <1>1, <2>1, <3>1, <3>2, Emitted DEF TypeInv
    <3>4. 1 \in 1..Len(es) /\ 2 \in 1..Len(es)
      BY <3>2
    <3> QED BY <3>2, <3>3, <3>4
  <2>3. \A i \in (m + 1)..Len(log') : i = m + 1 \/ i = m + 2
    BY <2>2
  <2>4. CallOK(n) /\ TextOK(n)
    BY <1>4, <1>13 DEF ModelEnd
  <2>0. PICK text : text = active[n].text
    OBVIOUS
  <2>5. PICK o \in 1..m : o = calls[n].id
    BY <1>1, <2>4 DEF CallOK
  <2>6. TellsAll(m + 1)'
    <3>1. log[o].kind = "message-start" /\ log[o].namespace = n /\ Quiet(n, o, m)
      BY <1>1, <2>4, <2>5 DEF CallOK, Starts
    <3>2. StartsMessage(o, n)'
      BY <1>2, <3>1 DEF StartsMessage
    <3>3. ASSUME NEW i \in (o + 1)..(m + 1) PROVE ~StartsMessage(i, n)'
      <4>1. CASE i = m + 1
        BY <2>1, <2>2, <4>1 DEF StartsMessage
      <4>2. CASE i # m + 1
        <5>1. i \in (o + 1)..m /\ i \in 1..m
          BY <4>2
        <5> QED BY <1>2, <3>1, <5>1 DEF StartsMessage, Quiet
      <4> QED BY <4>1, <4>2
    <3>4. Repeats(text, n, o, m)
      BY <1>1, <2>0, <2>4, <2>5 DEF TextOK
    <3>5. \A j \in (m + 1)..(m + 1) :
            log'[j].namespace = n => log'[j].kind # "content-block-delta"
      BY <2>1, <2>2
    <3>6. o \in Nat \ {0} /\ m + 1 \in Nat /\ m <= m + 1
      OBVIOUS
    <3>7. Repeats(text, n, o, m + 1)'
      BY <1>2, <3>4, <3>5, <3>6, RepeatsStays
    <3>8. log'[m + 1].namespace = n /\ log'[m + 1].text = text /\ o \in 1..(m + 1)
      BY <2>0, <2>1, <2>2
    <3> QED BY <3>2, <3>3, <3>7, <3>8 DEF TellsAll
  <2>7. TellsAll(m + 2)'
    BY <2>1, <2>2 DEF TellsAll
  <2>8. /\ calls'[n] = NoCall
        /\ \A p \in Namespace : p # n => calls'[p] = calls[p] /\ active'[p] = active[p]
    BY <2>1 DEF TypeInv
  <2>9. ASSUME NEW p \in Namespace, calls'[p] # NoCall PROVE TextOK(p)'
    <3>1. /\ p # n /\ CallOK(p) /\ TextOK(p)
          /\ calls'[p].id = calls[p].id /\ active'[p] = active[p]
      BY <1>4, <2>8, <2>9
    <3>2. \A j \in (m + 1)..Len(log') :
            log'[j].namespace = p => log'[j].kind # "content-block-delta"
      BY <2>1, <2>2, <2>3, <3>1
    <3> QED BY <1>1, <1>2, <3>1, <3>2, TextStays
  <2>10. \A i \in (m + 1)..Len(log') : TellsAll(i)'
    BY <2>3, <2>6, <2>7
  <2> QED BY <1>3, <1>5, <2>9, <2>10 DEF TextInv
<1>14. CASE RunBegins \/ Resume \/ UNCHANGED vars
            \/ \E c \in Client : Connect(c) \/ Deliver(c) \/ Break(c)
  <2>1. log' = log /\ (UNCHANGED <<calls, active>> \/ (calls' = NoCalls /\ active' = NoMessages))
    BY <1>14 DEF RunBegins, Resume, vars, agent, Connect, Deliver, Break
  <2> QED BY <1>7, <2>1
<1> QED BY <1>9, <1>10, <1>11, <1>12, <1>13, <1>14 DEF Next

\* The text that content-block-finish repeats is that of its model call, whole and
\* without that of any other, however calls, namespaces and workers come in between.
THEOREM FinishRepeatsText == Spec => []FinishTellsAll
<1>1. Init => TextInv
  <2>1. Init => log = << >> /\ Len(log) = 0 /\ 1..Len(log) = {}
    BY DEF Init
  <2> QED BY <2>1 DEF Init, TextInv, NoCalls
<1>2. IInv /\ TextInv /\ [Next]_vars => IInv' /\ TextInv'
  BY InvStep, TextStep DEF IInv
<1>3. IInv /\ TextInv => FinishTellsAll
  <2>1. TypeInv => DOMAIN log = 1..Len(log)
    BY DEF TypeInv
  <2> QED BY <2>1 DEF IInv, TextInv, TellsAll, FinishTellsAll
<1> QED BY <1>1, <1>2, <1>3, InvInit, PTL DEF Spec
-----------------------------------------------------------------------------
(* What a client was sent: the text of what it follows up to the last      *)
(* frame, once and in order, and nothing behind it yet that it follows.    *)

FramesSent(c, last) ==
    LET frames == client[c].frames IN
    /\ \A i, j \in 1..Len(frames) : i < j => frames[i].seq < frames[j].seq
    /\ \A i \in 1..Len(frames) :
         /\ frames[i].seq \in 1..last
         /\ frames[i].text # <<>> =>
              Wanted(c, log[frames[i].seq]) /\ frames[i].text = log[frames[i].seq].text
    /\ \A k \in 1..last : Wanted(c, log[k]) =>
         \E i \in 1..Len(frames) : frames[i].seq = k /\ frames[i].text = log[k].text
SentOK(c) ==
    /\ LastEventId(c) <= conn[c].cursor
    /\ FramesSent(c, LastEventId(c))
    /\ \A k \in (LastEventId(c) + 1)..conn[c].cursor : ~Wanted(c, log[k])

LEMMA LastTyped ==
    ASSUME TypeInv, NEW c \in Client
    PROVE  LastEventId(c) \in Nat
<1>1. CASE client[c].frames = << >>
  BY <1>1 DEF LastEventId
<1>2. CASE client[c].frames # << >>
  <2>1. Last(client[c].frames) \in Framed
    BY <1>2, ConnTyped, LenProperties DEF Last
  <2> QED BY <1>2, <2>1 DEF LastEventId, Framed
<1> QED BY <1>1, <1>2

\* A step that gives the connection nothing.
LEMMA SentStays ==
    ASSUME TypeInv, NEW c \in Client, ConnInv(c), SentOK(c),
           conn'[c].cursor = conn[c].cursor, client'[c].frames = client[c].frames,
           client'[c].follows = client[c].follows,
           \A j \in 1..Len(log) : log'[j] = log[j]
    PROVE  SentOK(c)'
<1>1. PICK last \in Nat, cursor \in Nat, frames \in Seq(Framed) :
        /\ last = LastEventId(c) /\ cursor = conn[c].cursor /\ frames = client[c].frames
        /\ last <= cursor /\ cursor <= Len(log)
  BY LastTyped, ConnTyped DEF SentOK, ConnInv, TablesOK
<1>2. LastEventId(c)' = last /\ conn'[c].cursor = cursor
  BY <1>1 DEF LastEventId
<1>3. ASSUME NEW k \in 1..cursor
      PROVE  log'[k] = log[k] /\ (Wanted(c, log[k])' <=> Wanted(c, log[k]))
  <2>1. k \in 1..Len(log)
    BY <1>1, ConnTyped
  <2>2. log'[k] = log[k]
    BY <2>1
  <2> QED BY <2>2 DEF Wanted
<1>4. FramesSent(c, last)'
  <2>1. FramesSent(c, last) /\ \A k \in 1..last : k \in 1..cursor
    BY <1>1 DEF SentOK
  <2>2. client'[c].frames = frames
    BY <1>1
  <2>3. ASSUME NEW i \in 1..Len(frames)
        PROVE  /\ frames[i].seq \in 1..last
               /\ frames[i].text # <<>> =>
                    /\ Wanted(c, log[frames[i].seq])'
                    /\ frames[i].text = log'[frames[i].seq].text
    BY <1>1, <1>3, <2>1 DEF FramesSent
  <2>4. ASSUME NEW k \in 1..last, Wanted(c, log[k])'
        PROVE  \E i \in 1..Len(frames) : frames[i].seq = k /\ frames[i].text = log'[k].text
    BY <1>1, <1>3, <2>1, <2>4 DEF FramesSent
  <2>5. \A i, j \in 1..Len(frames) : i < j => frames[i].seq < frames[j].seq
    BY <1>1, <2>1 DEF FramesSent
  <2> QED BY <2>2, <2>3, <2>4, <2>5 DEF FramesSent
<1>5. \A k \in (last + 1)..cursor : ~Wanted(c, log[k])'
  <2>1. \A k \in (last + 1)..cursor : k \in 1..cursor
    OBVIOUS
  <2> QED BY <1>1, <1>3, <2>1 DEF SentOK
<1> QED BY <1>1, <1>2, <1>4, <1>5 DEF SentOK

\* A connection goes on behind the last frame, and only a client that was sent
\* nothing yet changes what it follows.
LEMMA SentConnect ==
    ASSUME TypeInv, NEW c \in Client, ConnInv(c), SentOK(c), Connect(c)
    PROVE  SentOK(c)'
<1>1. LastSeen(c)
  BY DEF ConnInv
<1>2. PICK last \in Nat : last = LastEventId(c)
  BY LastTyped
<1>3. /\ log' = log /\ client'[c].frames = client[c].frames
      /\ conn'[c].cursor = last
  BY <1>1, <1>2, Connects
<1>4. LastEventId(c)' = last
  BY <1>2, <1>3 DEF LastEventId
<1>5. (last + 1)..last = {} /\ last <= last
  OBVIOUS
<1>6. FramesSent(c, last)'
  <2>1. FramesSent(c, last)
    BY <1>2 DEF SentOK
  <2>2. CASE client[c].came
    <3>1. client' = client
      BY <2>2 DEF Connect
    <3> QED BY <1>3, <2>1, <3>1 DEF FramesSent, Wanted
  <2>3. CASE ~client[c].came
    <3>1. client[c].frames = << >> /\ client'[c].frames = << >>
      BY <1>1, <1>3, <2>3 DEF LastSeen
    <3>2. last = 0 /\ 1..last = {}
      BY <1>2, <3>1 DEF LastEventId
    <3>3. 1..Len(client'[c].frames) = {}
      BY <3>1
    <3> QED BY <3>2, <3>3 DEF FramesSent
  <2> QED BY <2>2, <2>3
<1> QED BY <1>3, <1>4, <1>5, <1>6 DEF SentOK

\* An event that is given to a connection is sent if the client follows it.
LEMMA Sends ==
    ASSUME TypeInv, LogInv, NEW c \in Client,
           NEW i \in 1..Len(log), NEW e \in Events, Takes(c, e, i)
    PROVE  \/ client'[c].frames = client[c].frames /\ ~Wanted(c, e)
           \/ \E f \in Framed :
                /\ client'[c].frames = Append(client[c].frames, f)
                /\ f.seq = i /\ f.text = e.text /\ (f.text # << >> => Wanted(c, e))
<1>1. i = conn[c].cursor + 1 /\ e = log[i] /\ EntryOK(i) /\ i \in Nat
  BY DEF Takes, LogInv
<1>2. e.kind = "content-block-delta" => e.namespace \in Namespace
  BY <1>1 DEF EntryOK
<1>3. CASE ~Matches(c, e)
  <2>1. ~Wanted(c, e)
    BY <1>3 DEF Wanted, Matches
  <2> QED BY <1>3, <2>1 DEF Takes
<1>4. CASE Matches(c, e) /\ Frames(c, e) = << >>
  <2>1. e.kind # "content-block-delta"
    BY <1>4 DEF Frames
  <2>2. client[c].frames \o << >> = client[c].frames
    BY ConnTyped
  <2> QED BY <1>4, <2>1, <2>2 DEF Takes, Wanted
<1>5. ASSUME Matches(c, e), NEW f \in Framed, Frames(c, e) = <<f>>, Makes(c, e, i, f)
      PROVE  /\ client'[c].frames = Append(client[c].frames, f)
             /\ f.seq = i /\ f.text = e.text /\ (f.text # << >> => Wanted(c, e))
  <2>1. client'[c].frames = client[c].frames \o <<f>>
    BY <1>5 DEF Takes
  <2>2. client[c].frames \o <<f>> = Append(client[c].frames, f)
    BY ConnTyped
  <2>3. f.seq = i /\ f.text = e.text
    BY <1>5 DEF Makes
  <2>4. ASSUME f.text # << >> PROVE Wanted(c, e)
    <3>1. e.kind = "content-block-delta"
      BY <1>1, <1>5, <2>3, <2>4 DEF Makes, EntryOK
    <3> QED BY <1>5, <3>1 DEF Matches, Wanted
  <2> QED BY <2>1, <2>2, <2>3, <2>4
<1> QED BY <1>1, <1>2, <1>3, <1>4, <1>5, FramesAre

LEMMA SentDeliver ==
    ASSUME TypeInv, LogInv, NEW c \in Client, ConnInv(c), SentOK(c), Deliver(c)
    PROVE  SentOK(c)'
<1>1. PICK i \in 1..Len(log), e \in Events : Takes(c, e, i) /\ log' = log
  BY Delivers
<1>2. PICK last \in Nat, cursor \in Nat, frames \in Seq(Framed) :
        /\ last = LastEventId(c) /\ cursor = conn[c].cursor /\ frames = client[c].frames
        /\ last <= cursor
  BY LastTyped, ConnTyped DEF SentOK
<1>3. /\ i = cursor + 1 /\ e = log[i] /\ conn'[c].cursor = i
      /\ client'[c].follows = client[c].follows
  BY <1>1, <1>2 DEF Takes
<1>4. \A k : Wanted(c, log[k])' <=> Wanted(c, log[k])
  BY <1>1, <1>3 DEF Wanted
<1>5. FramesSent(c, last)
  BY <1>2 DEF SentOK
<1>6. \A k \in (last + 1)..cursor : ~Wanted(c, log[k])
  BY <1>2 DEF SentOK
<1>9. \A x \in 1..last : x \in 1..i
  <2>1. i \in Nat /\ last <= i
    BY <1>2, <1>3
  <2> QED BY <2>1
<1>7. CASE client'[c].frames = client[c].frames /\ ~Wanted(c, e)
  <2>1. LastEventId(c)' = last
    BY <1>2, <1>7 DEF LastEventId
  <2>2. FramesSent(c, last)'
    <3>1. client'[c].frames = frames
      BY <1>2, <1>7
    <3>2. /\ \A j, k \in 1..Len(frames) : j < k => frames[j].seq < frames[k].seq
          /\ \A j \in 1..Len(frames) :
               /\ frames[j].seq \in 1..last
               /\ frames[j].text # <<>> =>
                    /\ Wanted(c, log[frames[j].seq])
                    /\ frames[j].text = log[frames[j].seq].text
          /\ \A k \in 1..last : Wanted(c, log[k]) =>
               \E j \in 1..Len(frames) : frames[j].seq = k /\ frames[j].text = log[k].text
      BY <1>2, <1>5 DEF FramesSent
    <3>3. \A j \in 1..Len(frames) :
            frames[j].text # <<>> => Wanted(c, log[frames[j].seq])'
      BY <1>4, <3>1, <3>2
    <3>4. \A k \in 1..last : Wanted(c, log[k])' =>
            \E j \in 1..Len(frames) : frames[j].seq = k /\ frames[j].text = log'[k].text
      BY <1>1, <1>4, <3>2
    <3> QED BY <1>1, <3>1, <3>2, <3>3, <3>4 DEF FramesSent
  <2>3. \A k \in (last + 1)..i : k = i \/ k \in (last + 1)..cursor
    BY <1>3
  <2>4. \A k \in (last + 1)..i : ~Wanted(c, log[k])'
    BY <1>3, <1>4, <1>6, <1>7, <2>3
  <2>5. last <= i
    BY <1>2, <1>3
  <2> QED BY <1>1, <1>3, <2>1, <2>2, <2>4, <2>5 DEF SentOK
<1>8. ASSUME NEW f \in Framed, client'[c].frames = Append(client[c].frames, f),
             f.seq = i, f.text = e.text, f.text # << >> => Wanted(c, e)
      PROVE  SentOK(c)'
  <2>1. PICK all \in Seq(Framed) : all = Append(frames, f)
    BY AppendProperties
  <2>2. PICK n \in Nat : n = Len(frames)
    BY LenProperties
  <2>3. /\ Len(all) = n + 1 /\ all[n + 1] = f /\ all # << >>
        /\ \A j \in 1..n : all[j] = frames[j]
    BY <2>1, <2>2
  <2>4. client'[c].frames = all
    BY <1>2, <1>8, <2>1
  <2>5. LastEventId(c)' = i
    BY <1>8, <2>3, <2>4 DEF LastEventId, Last
  <2>6. \A j \in 1..(n + 1) : j \in 1..n \/ j = n + 1
    OBVIOUS
  <2>7. \A j \in 1..n : all[j].seq \in 1..last
    BY <1>2, <1>5, <2>2, <2>3 DEF FramesSent
  <2>8. ASSUME NEW j \in 1..(n + 1), NEW k \in 1..(n + 1), j < k
        PROVE  all[j].seq < all[k].seq
    <3>1. CASE k = n + 1
      <4>1. j \in 1..n
        BY <2>8, <3>1
      <4>2. all[k].seq = i /\ all[j].seq \in 1..last
        BY <1>8, <2>3, <2>7, <3>1, <4>1
      <4>3. last < i
        BY <1>2, <1>3
      <4> QED BY <4>2, <4>3
    <3>2. CASE k # n + 1
      <4>1. j \in 1..n /\ k \in 1..n
        BY <2>8, <3>2
      <4> QED BY <1>2, <1>5, <2>2, <2>3, <2>8, <4>1 DEF FramesSent
    <3> QED BY <3>1, <3>2
  <2>9. ASSUME NEW j \in 1..(n + 1)
        PROVE  /\ all[j].seq \in 1..i
               /\ all[j].text # <<>> =>
                    Wanted(c, log[all[j].seq]) /\ all[j].text = log[all[j].seq].text
    <3>1. CASE j = n + 1
      BY <1>3, <1>8, <2>3, <3>1
    <3>2. CASE j \in 1..n
      <4>1. all[j] = frames[j]
        BY <2>3, <3>2
      <4>2. /\ frames[j].seq \in 1..last
            /\ frames[j].text # <<>> =>
                 Wanted(c, log[frames[j].seq]) /\ frames[j].text = log[frames[j].seq].text
        BY <1>2, <1>5, <2>2, <3>2 DEF FramesSent
      <4>3. frames[j].seq \in 1..i
        BY <1>9, <4>2
      <4> QED BY <4>1, <4>2, <4>3
    <3> QED BY <2>6, <3>1, <3>2
  <2>10. ASSUME NEW k \in 1..i, Wanted(c, log[k])
         PROVE  \E j \in 1..(n + 1) : all[j].seq = k /\ all[j].text = log[k].text
    <3>1. CASE k = i
      BY <1>3, <1>8, <2>3, <3>1
    <3>2. CASE k # i
      <4>0. k \in 1..last \/ k \in (last + 1)..cursor
        BY <1>2, <1>3, <3>2
      <4>1. k \in 1..last
        BY <1>6, <2>10, <4>0
      <4>2. PICK j \in 1..n : frames[j].seq = k /\ frames[j].text = log[k].text
        BY <1>2, <1>5, <2>2, <2>10, <4>1 DEF FramesSent
      <4>3. j \in 1..(n + 1)
        OBVIOUS
      <4> QED BY <2>3, <4>2, <4>3
    <3> QED BY <3>1, <3>2
  <2>11. FramesSent(c, i)'
    <3>1. \A j \in 1..(n + 1) : all[j].text # <<>> => Wanted(c, log[all[j].seq])'
      BY <1>4, <2>9
    <3>2. \A k \in 1..i : Wanted(c, log[k])' =>
            \E j \in 1..(n + 1) : all[j].seq = k /\ all[j].text = log'[k].text
      BY <1>1, <1>4, <2>10
    <3> QED BY <1>1, <2>3, <2>4, <2>8, <2>9, <3>1, <3>2 DEF FramesSent
  <2>12. (i + 1)..i = {} /\ i <= i
    OBVIOUS
  <2> QED BY <1>3, <2>5, <2>11, <2>12 DEF SentOK
<1> QED BY <1>1, <1>7, <1>8, Sends

LEMMA SentStep ==
    ASSUME IInv, [Next]_vars, NEW c \in Client, SentOK(c)
    PROVE  SentOK(c)'
<1>1. TypeInv /\ LogInv /\ ConnInv(c)
  BY DEF IInv
<1>2. \A j \in 1..Len(log) : log'[j] = log[j]
  BY <1>1, LogOnlyGrows
<1>3. CASE conn'[c] = conn[c] /\ client'[c] = client[c]
  BY <1>1, <1>2, <1>3, SentStays
<1>4. ASSUME NEW d \in Client, Connect(d) \/ Deliver(d) \/ Break(d)
      PROVE  SentOK(c)'
  <2>1. CASE d = c /\ Break(c)
    <3>1. /\ conn'[c].cursor = conn[c].cursor /\ client'[c].frames = client[c].frames
          /\ client'[c].follows = client[c].follows
      BY <1>1, <2>1, Breaks
    <3> QED BY <1>1, <1>2, <3>1, SentStays
  <2>2. CASE d = c /\ (Connect(c) \/ Deliver(c))
    BY <1>1, <2>2, SentConnect, SentDeliver
  <2>3. CASE d # c
    <3>1. LastSeen(d)
      BY DEF IInv, ConnInv
    <3>2. conn'[c] = conn[c] /\ client'[c] = client[c]
      BY <1>1, <1>4, <2>3, <3>1, Connects, Delivers, Breaks
    <3> QED BY <1>3, <3>2
  <2> QED BY <1>4, <2>1, <2>2, <2>3
<1>5. CASE UNCHANGED vars
  BY <1>3, <1>5 DEF vars
<1>6. CASE \/ RunBegins \/ RunEnds \/ Resume
           \/ \E n \in Namespace : ModelStart(n) \/ ModelStream(n) \/ ModelEnd(n)
           \/ ToolStart \/ \E t \in tools : ToolEnd(t)
  <2>1. UNCHANGED <<conn, client>>
    BY <1>1, <1>6, AgentTypes
  <2> QED BY <1>3, <2>1
<1> QED BY <1>4, <1>5, <1>6 DEF Next

\* A client is sent each piece of text of what it follows once and in order, however
\* often it loses its connection and asks for the frames behind its Last-Event-ID.
THEOREM TextIsSentOnce == Spec => []TextOnce
<1>1. Init => \A c \in Client : SentOK(c)
  <2> SUFFICES ASSUME Init, NEW c \in Client PROVE SentOK(c)
    OBVIOUS
  <2>1. conn[c].cursor = 0 /\ client[c].frames = << >> /\ Len(client[c].frames) = 0
    BY DEF Init, Closed, New
  <2>2. LastEventId(c) = 0
    BY <2>1 DEF LastEventId
  <2>3. (0 + 1)..0 = {} /\ 1..0 = {} /\ 0 <= 0
    OBVIOUS
  <2> QED BY <2>1, <2>2, <2>3 DEF SentOK, FramesSent
<1>2. IInv /\ (\A c \in Client : SentOK(c)) /\ [Next]_vars
        => IInv' /\ (\A c \in Client : SentOK(c))'
  BY InvStep, SentStep
<1>3. IInv /\ (\A c \in Client : SentOK(c)) => TextOnce
  <2> SUFFICES ASSUME IInv, NEW c \in Client, SentOK(c),
                      NEW upTo, upTo = IF conn[c].open \/ client[c].ended
                                       THEN conn[c].cursor ELSE LastEventId(c)
               PROVE  LET frames == client[c].frames
                      IN  /\ \A i, j \in DOMAIN frames :
                               i < j => frames[i].seq < frames[j].seq
                          /\ \A f \in Range(frames) : f.text # <<>> =>
                               /\ f.seq \in 1..upTo
                               /\ Wanted(c, log[f.seq]) /\ f.text = log[f.seq].text
                          /\ \A k \in 1..upTo : Wanted(c, log[k]) =>
                               \E f \in Range(frames) : f.seq = k /\ f.text = log[k].text
    BY DEF TextOnce
  <2>1. PICK last \in Nat, cursor \in Nat, frames \in Seq(Framed) :
          /\ last = LastEventId(c) /\ cursor = conn[c].cursor /\ frames = client[c].frames
          /\ last <= cursor
    BY LastTyped, ConnTyped DEF SentOK, IInv
  <2>2. upTo \in Nat /\ last <= upTo /\ upTo <= cursor
    BY <2>1
  <2>3. DOMAIN frames = 1..Len(frames)
    OBVIOUS
  <2>4. FramesSent(c, last) /\ \A k \in (last + 1)..cursor : ~Wanted(c, log[k])
    BY <2>1 DEF SentOK
  <2>5. ASSUME NEW f \in Range(frames), f.text # <<>>
        PROVE  f.seq \in 1..upTo /\ Wanted(c, log[f.seq]) /\ f.text = log[f.seq].text
    <3>1. PICK i \in 1..Len(frames) : f = frames[i]
      BY <2>3 DEF Range
    <3>2. f.seq \in 1..last /\ Wanted(c, log[f.seq]) /\ f.text = log[f.seq].text
      BY <2>1, <2>4, <2>5, <3>1 DEF FramesSent
    <3> QED BY <2>2, <3>2
  <2>6. ASSUME NEW k \in 1..upTo, Wanted(c, log[k])
        PROVE  \E f \in Range(frames) : f.seq = k /\ f.text = log[k].text
    <3>1. k \in 1..last
      BY <2>2, <2>4, <2>6
    <3>2. PICK i \in 1..Len(frames) : frames[i].seq = k /\ frames[i].text = log[k].text
      BY <2>1, <2>4, <2>6, <3>1 DEF FramesSent
    <3>3. frames[i] \in Range(frames)
      BY <2>3 DEF Range
    <3> QED BY <3>2, <3>3
  <2>7. \A i, j \in DOMAIN frames : i < j => frames[i].seq < frames[j].seq
    BY <2>1, <2>3, <2>4 DEF FramesSent
  <2> QED BY <2>1, <2>5, <2>6, <2>7
<1> QED BY <1>1, <1>2, <1>3, InvInit, PTL DEF Spec
=============================================================================
