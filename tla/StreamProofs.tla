---------------------------- MODULE StreamProofs ----------------------------
(***************************************************************************)
(* Proofs about Stream: the hub and the client keep to their types and     *)
(* capacities, chunks are written in order, a hole between two of them     *)
(* never ends as a success, and a gap is never reported that is none.      *)
(***************************************************************************)
EXTENDS Stream, TLAPS

Positions == [attempt : Nat, n : Nat]
WorkerStates == [attempt : Nat, chunks : 0..Chunks, sendErr : BOOLEAN]
HandlerStates == [pc : {"idle", "inject", "stamp", "persist"},
                  todo : Seq(Message), loaded : Nat, save : Nat]
Histories == [sent : Nat, over : Nat, stopped : BOOLEAN, unanswered : SUBSET Positions]
Dials == {"none", "start", "listen", "again"}
Listens == {"off", "reading", "closed", "exhausted", "error"}
ClientStates == [dial : Dials, retries : 0..MaxRetries, listen : Listens,
                 sawMessage : BOOLEAN, lastSeq : Nat, gap : BOOLEAN, sawData : BOOLEAN,
                 terminalSeen : BOOLEAN, heard : SUBSET Nat, got : Seq(Positions),
                 stdoutErr : BOOLEAN]
MainPCs == {"dial", "loop", "drain", "fallback", "done"}
Results == {"none", "success", "failed", "incomplete", "unwritten", "empty", "exhausted", "error",
            "deadline"}
MainStates == [mode : Modes, pc : MainPCs, terminal : {"no", "seen", "looked"}, closes : Nat,
               result : Results]

(* The server's part of the state. *)
ServerShape ==
    /\ up \in BOOLEAN
    /\ job \in {"running", "completed", "failed"}
    /\ worker \in WorkerStates
    /\ hnd \in [Handlers -> HandlerStates]
    /\ \A h \in Handlers : hnd[h].pc # "idle" => hnd[h].todo # <<>>
    /\ counter \in Nat
    /\ row \in Nat
    /\ hist \in Histories
    /\ queue \in Seq(Message) /\ Len(queue) <= HubCap

(* The connection. *)
PumpShape ==
    /\ sconn \in {"none", "registering", "open", "gone"}
    /\ buf \in Seq(Message) /\ Len(buf) <= SendCap
    /\ net \in Seq(Message)

(* The client. *)
ClientShape ==
    /\ cl \in ClientStates
    /\ main \in MainStates
    /\ poll \in {"off", "on", "done", "err"}

Shape == ServerShape /\ PumpShape /\ ClientShape /\ events \in 0..MaxEvents

-----------------------------------------------------------------------------
(* Types *)

(* The bounds are numbers. *)
LEMMA Bounds ==
    /\ Chunks \in Nat /\ MaxRetries \in Nat /\ MaxEvents \in Nat
    /\ HubCap \in Nat /\ HubCap > 0 /\ SendCap \in Nat /\ SendCap > 0
BY BoundsAssumption, CapAssumption

(* An event is counted within its bound. *)
LEMMA EventType ==
    ASSUME events \in 0..MaxEvents, NEW kind, Event(kind)
    PROVE  events' \in 0..MaxEvents
BY Bounds DEF Event

Kinds == {"stdout", "stderr", "progress", "status", "complete", "release"} \cup Closing

(* What Msg builds is a message. *)
LEMMA MsgType ==
    ASSUME NEW kind \in Kinds
    PROVE  Msg(kind) \in Message /\ Msg(kind).kind = kind
BY DEF Msg, Message, NoChunk, Kinds

(* The message of a chunk. *)
LEMMA ChunkType ==
    ASSUME NEW c \in Positions
    PROVE  /\ [Msg("stdout") EXCEPT !.chunk = c] \in Message
           /\ [Msg("stdout") EXCEPT !.chunk = c].kind = "stdout"
           /\ [Msg("stdout") EXCEPT !.chunk = c].chunk = c
BY DEF Msg, Message, NoChunk, Positions

(* The fields of a handler. *)
LEMMA HandlerFields ==
    ASSUME ServerShape, NEW h \in Handlers
    PROVE  /\ hnd[h] \in HandlerStates
           /\ hnd[h].pc \in {"idle", "inject", "stamp", "persist"}
           /\ hnd[h].todo \in Seq(Message) /\ hnd[h].loaded \in Nat /\ hnd[h].save \in Nat
BY DEF ServerShape, HandlerStates

(* prefetchSeq leaves a handler about to number its first message. *)
LEMMA PrefetchedType ==
    ASSUME NEW todo \in Seq(Message), todo # <<>>, NEW saved \in Nat, counter \in Nat
    PROVE  /\ Prefetched(todo, saved) \in HandlerStates
           /\ Prefetched(todo, saved).todo = todo
           /\ Prefetched(todo, saved).pc \in {"inject", "stamp"}
           /\ (counter # 0 \/ saved = 0 => Prefetched(todo, saved).pc = "stamp")
<1> DEFINE load == IF counter = 0 /\ Head(todo).kind # "release" THEN saved ELSE 0
<1>1. load \in Nat
  OBVIOUS
<1>2. Prefetched(todo, saved) =
        [pc |-> IF load > 0 THEN "inject" ELSE "stamp", todo |-> todo, loaded |-> load, save |-> 0]
  BY DEF Prefetched
<1>3. counter # 0 \/ saved = 0 => load = 0
  OBVIOUS
<1> HIDE DEF load
<1> QED
  BY <1>1, <1>2, <1>3 DEF HandlerStates

(* A handler that serves a report. *)
LEMMA ServeShape ==
    ASSUME Shape, NEW h \in Handlers, NEW todo \in Seq(Message), todo # <<>>, Serve(h, todo),
           job' \in {"running", "completed", "failed"}, worker' \in WorkerStates,
           events' \in 0..MaxEvents
    PROVE  Shape'
<1> DEFINE p == Prefetched(todo, row)
<1>1. p \in HandlerStates /\ p.todo # <<>>
  BY PrefetchedType DEF Shape, ServerShape
<1>2. hnd' = [hnd EXCEPT ![h] = p]
  BY DEF Serve
<1> HIDE DEF p
<1>3. hnd' \in [Handlers -> HandlerStates] /\ \A g \in Handlers : hnd'[g].pc # "idle" => hnd'[g].todo # <<>>
  BY <1>1, <1>2 DEF Shape, ServerShape
<1>4. UNCHANGED <<up, counter, row, queue, hist, sconn, buf, net, cl, main, poll>>
  BY DEF Serve, pumps, client
<1> QED
  BY <1>3, <1>4 DEF Shape, ServerShape, PumpShape, ClientShape

(* The chunk a worker has just sent. *)
LEMMA SentChunk ==
    ASSUME Shape, NEW n \in Nat
    PROVE  Chunk(n) \in Positions /\ Chunk(n).attempt = worker.attempt /\ Chunk(n).n = n
<1>1. worker.attempt \in Nat
  BY DEF Shape, ServerShape, WorkerStates
<1> QED
  BY <1>1 DEF Chunk, Positions

(* What is remembered of the answers that never came. *)
LEMMA Unheard ==
    ASSUME Shape, NEW c \in Positions, hist' = [hist EXCEPT !.unanswered = @ \cup {c}]
    PROVE  /\ hist' \in Histories /\ hist'.sent = hist.sent /\ hist'.over = hist.over
           /\ hist'.stopped = hist.stopped /\ hist'.unanswered = hist.unanswered \cup {c}
<1>1. hist \in Histories /\ hist.unanswered \subseteq Positions
  BY DEF Shape, ServerShape, Histories
<1> QED
  BY <1>1 DEF Histories

(* A report that goes on without its sender. *)
LEMMA AbandonType ==
    ASSUME Shape, NEW s \in Strays, Abandon(s)
    PROVE  /\ hnd' \in [Handlers -> HandlerStates]
           /\ \A g \in Handlers : hnd'[g].pc # "idle" => hnd'[g].todo # <<>>
           /\ s \in Handlers \ {"out", "side"} /\ hnd[s].pc = "idle"
           /\ hnd'[s] = hnd["out"] /\ hnd'["out"] = Idle
           /\ \A g \in Handlers \ {s, "out"} : hnd'[g] = hnd[g]
           /\ hist' \in Histories /\ hist'.sent = hist.sent /\ hist'.over = hist.over
           /\ hist'.stopped = hist.stopped
           /\ hist'.unanswered = hist.unanswered \cup {Chunk(worker.chunks)}
<1>1. s \in Handlers \ {"out", "side"} /\ "out" \in Handlers
  BY StraysAssumption DEF Handlers
<1>2. hnd' = [hnd EXCEPT ![s] = hnd["out"], !["out"] = Idle] /\ hnd[s].pc = "idle"
  BY DEF Abandon
<1>3. Idle \in HandlerStates /\ Idle.pc = "idle"
  BY DEF Idle, HandlerStates
<1>4. hnd \in [Handlers -> HandlerStates] /\ \A g \in Handlers : hnd[g].pc # "idle" => hnd[g].todo # <<>>
  BY DEF Shape, ServerShape
<1>5. hnd'[s] = hnd["out"] /\ hnd'["out"] = Idle /\ \A g \in Handlers \ {s, "out"} : hnd'[g] = hnd[g]
  BY <1>1, <1>2, <1>4
<1>6. hnd' \in [Handlers -> HandlerStates]
  BY <1>1, <1>2, <1>3, <1>4
<1>7. \A g \in Handlers : hnd'[g].pc # "idle" => hnd'[g].todo # <<>>
  BY <1>1, <1>3, <1>4, <1>5
<1>8. Chunk(worker.chunks) \in Positions
  BY SentChunk, Bounds DEF Shape, ServerShape, WorkerStates
<1>9. hist' = [hist EXCEPT !.unanswered = @ \cup {Chunk(worker.chunks)}]
  BY DEF Abandon
<1> QED
  BY <1>1, <1>2, <1>5, <1>6, <1>7, <1>8, <1>9, Unheard

(* The handlers of the reports. *)
LEMMA ReportShape ==
    ASSUME Shape,
           PostStdout \/ PostFails \/ LoseAnswer \/ Migrate \/ PostSide \/ ReportFinal \/ Verdict
    PROVE  Shape'
<1>1. worker \in WorkerStates /\ "out" \in Handlers /\ "side" \in Handlers /\ events \in 0..MaxEvents
      /\ hist \in Histories
  BY DEF Shape, ServerShape, Handlers
<1>2. worker.attempt \in Nat /\ worker.chunks \in 0..Chunks /\ worker.sendErr \in BOOLEAN
  BY <1>1 DEF WorkerStates
<1>3. CASE PostStdout
  <2> DEFINE c == Chunk(worker.chunks + 1)
             m == [Msg("stdout") EXCEPT !.chunk = c]
  <2>1. c \in Positions /\ worker.chunks + 1 \in 0..Chunks
    BY <1>2, <1>3, Bounds, SentChunk DEF PostStdout
  <2>2. m \in Message
    BY <2>1, ChunkType
  <2>3. Serve("out", <<m>>) /\ UNCHANGED <<job, events>>
    BY <1>3 DEF PostStdout
  <2>4. worker' \in WorkerStates
    BY <1>1, <1>3, <2>1 DEF PostStdout, WorkerStates
  <2> HIDE DEF m
  <2>5. <<m>> \in Seq(Message) /\ <<m>> # <<>>
    BY <2>2
  <2> QED
    BY <1>1, <2>3, <2>4, <2>5, ServeShape DEF Shape, ServerShape
<1>4. CASE PostFails
  <2> DEFINE c == Chunk(worker.chunks + 1)
  <2>1. worker.chunks + 1 \in 0..Chunks /\ c \in Positions
    BY <1>2, <1>4, Bounds, SentChunk DEF PostFails
  <2>2. worker' \in WorkerStates
    BY <1>1, <1>4, <2>1 DEF PostFails, WorkerStates
  <2>3. hist' = [hist EXCEPT !.unanswered = @ \cup {c}]
    BY <1>4 DEF PostFails
  <2> HIDE DEF c
  <2>4. hist' \in Histories
    BY <2>1, <2>3, Unheard
  <2>5. events' \in 0..MaxEvents
    BY <1>1, <1>4, EventType DEF PostFails
  <2>6. UNCHANGED <<up, job, hnd, counter, row, queue, sconn, buf, net, cl, main, poll>>
    BY <1>4 DEF PostFails, pumps, client
  <2> QED
    BY <2>2, <2>4, <2>5, <2>6 DEF Shape, ServerShape, PumpShape, ClientShape
<1>5. CASE LoseAnswer \/ Migrate
  <2>1. events' \in 0..MaxEvents
    BY <1>1, <1>5, EventType DEF Migrate, LoseAnswer
  <2>2. 0 \in 0..Chunks /\ worker.attempt + 1 \in Nat
    BY <1>2, Bounds
  <2>3. worker' \in WorkerStates
    BY <1>1, <1>5, <2>2 DEF Migrate, LoseAnswer, WorkerStates
  <2>4. /\ hnd' \in [Handlers -> HandlerStates] /\ hist' \in Histories
        /\ \A g \in Handlers : hnd'[g].pc # "idle" => hnd'[g].todo # <<>>
    <3>1. CASE UNCHANGED <<hnd, hist>>
      BY <1>1, <3>1 DEF Shape, ServerShape
    <3>2. CASE \E s \in Strays : Abandon(s)
      BY <3>2, AbandonType
    <3> QED
      BY <1>5, <3>1, <3>2 DEF Migrate, LoseAnswer
  <2>5. UNCHANGED <<up, job, counter, row, queue, sconn, buf, net, cl, main, poll>>
    BY <1>5 DEF Migrate, LoseAnswer, pumps, client
  <2> QED
    BY <2>1, <2>3, <2>4, <2>5 DEF Shape, ServerShape, PumpShape, ClientShape
<1>6. CASE PostSide
  <2>1. PICK kind \in {"stderr", "progress"} : Serve("side", <<Msg(kind)>>)
    BY <1>6 DEF PostSide
  <2>2. Msg(kind) \in Message /\ UNCHANGED <<job, worker>> /\ events' \in 0..MaxEvents
    BY <1>1, <1>6, MsgType, EventType DEF PostSide, Kinds
  <2> DEFINE m == Msg(kind)
  <2> HIDE DEF m
  <2>3. <<m>> \in Seq(Message) /\ <<m>> # <<>>
    BY <2>2 DEF m
  <2> QED
    BY <1>1, <2>1, <2>2, <2>3, ServeShape DEF Shape, ServerShape, m
<1>7. CASE ReportFinal
  <2> DEFINE s == Msg("status")
             c == Msg("complete")
  <2>1. s \in Message /\ c \in Message
    BY MsgType DEF Kinds
  <2>2. /\ Serve("out", <<s, c>>) /\ UNCHANGED <<worker, events>>
        /\ job' \in {"running", "completed", "failed"}
    BY <1>7 DEF ReportFinal
  <2> HIDE DEF s, c
  <2>3. <<s, c>> \in Seq(Message) /\ <<s, c>> # <<>>
    BY <2>1
  <2> QED
    BY <1>1, <2>2, <2>3, ServeShape DEF Shape, ServerShape
<1>8. CASE Verdict
  <2> DEFINE s == Msg("status")
             c == Msg("complete")
             r == Msg("release")
  <2>1. s \in Message /\ c \in Message /\ r \in Message
    BY MsgType DEF Kinds
  <2>2. PICK todo \in {<<s, c, r>>, <<s, r>>, <<r>>} : Serve("side", todo)
    BY <1>8 DEF Verdict
  <2>3. job' = "failed" /\ worker' = worker /\ events' \in 0..MaxEvents
    BY <1>1, <1>8, EventType DEF Verdict
  <2> HIDE DEF s, c, r
  <2>4. todo \in Seq(Message) /\ todo # <<>>
    <3>1. <<s, c, r>> \in Seq(Message) /\ <<s, c, r>> # <<>>
      BY <2>1
    <3>2. <<s, r>> \in Seq(Message) /\ <<s, r>> # <<>>
      BY <2>1
    <3>3. <<r>> \in Seq(Message) /\ <<r>> # <<>>
      BY <2>1
    <3> QED
      BY <2>2, <3>1, <3>2, <3>3
  <2> QED
    BY <1>1, <2>2, <2>3, <2>4, ServeShape DEF Shape, ServerShape
<1> QED
  BY <1>3, <1>4, <1>5, <1>6, <1>7, <1>8

(* Sequences: what Append, Tail, SubSeq and concatenation return. *)
LEMMA AppendType ==
    ASSUME NEW S, NEW s \in Seq(S), NEW e \in S
    PROVE  Append(s, e) \in Seq(S) /\ Len(Append(s, e)) = Len(s) + 1
OBVIOUS

(* The rest of a sequence. *)
LEMMA TailType ==
    ASSUME NEW S, NEW s \in Seq(S), s # <<>>
    PROVE  /\ Tail(s) \in Seq(S) /\ Len(Tail(s)) = Len(s) - 1 /\ Len(s) \in Nat \ {0}
           /\ Head(s) \in S /\ Head(s) = s[1]
OBVIOUS

(* A part of a sequence. *)
LEMMA SubType ==
    ASSUME NEW S, NEW s \in Seq(S), NEW a \in 1..(Len(s) + 1), NEW b \in 0..Len(s)
    PROVE  SubSeq(s, a, b) \in Seq(S) /\ Len(SubSeq(s, a, b)) <= Len(s)
OBVIOUS

(* Two sequences in a row. *)
LEMMA ConcatType ==
    ASSUME NEW S, NEW s \in Seq(S), NEW t \in Seq(S)
    PROVE  s \o t \in Seq(S)
OBVIOUS

(* The messages a handler numbers. *)
LEMMA StampEffect ==
    ASSUME Shape, NEW h \in Handlers, Stamp(h)
    PROVE  /\ Shape'
           /\ LET msg == Head(hnd[h].todo)
              IN  /\ hnd[h].pc = "stamp" /\ hnd[h].todo # <<>> /\ msg \in Message
                  /\ hnd'[h].pc = "persist" /\ hnd'[h].todo = hnd[h].todo
                  /\ \A g \in Handlers \ {h} : hnd'[g] = hnd[g]
                  /\ msg.kind = "release" => UNCHANGED <<queue, hist>>
                  /\ msg.kind # "release" =>
                       /\ hist'.sent = hist.sent + 1 /\ hist'.stopped = hist.stopped
                       /\ hist'.unanswered = hist.unanswered
                       /\ hist'.over = IF msg.kind = "status" THEN hist.sent + 1 ELSE hist.over
                       /\ queue' \in {queue, Append(queue, [msg EXCEPT !.seq = EnsureSeq + 1,
                                                                       !.id = hist.sent + 1])}
                  /\ [msg EXCEPT !.seq = EnsureSeq + 1, !.id = hist.sent + 1] \in Message
<1> DEFINE msg == Head(hnd[h].todo)
           s == EnsureSeq + 1
           out == [msg EXCEPT !.seq = s, !.id = hist.sent + 1]
           save == IF msg.kind \in {"status", "complete", "release"} THEN 0 ELSE s
           r == [hnd[h] EXCEPT !.pc = "persist", !.save = save]
<1>1. ServerShape /\ hnd[h].pc = "stamp" /\ hnd[h].todo # <<>> /\ hnd[h] \in HandlerStates
      /\ hnd[h].todo \in Seq(Message)
  BY HandlerFields DEF Shape, ServerShape, Stamp
<1>2. msg \in Message
  BY <1>1, TailType
<1>3. s \in Nat /\ hist \in Histories /\ hist.sent \in Nat /\ hist.stopped \in BOOLEAN
      /\ hist.over \in Nat
  BY <1>1 DEF ServerShape, EnsureSeq, Histories
<1>4. /\ counter' = IF msg.kind \in {"complete", "release"} THEN 0 ELSE s
      /\ hnd' = [hnd EXCEPT ![h] = r]
      /\ IF msg.kind = "release" THEN UNCHANGED <<queue, hist>>
         ELSE /\ hist' = [hist EXCEPT !.sent = @ + 1,
                                       !.over = IF msg.kind = "status" THEN hist.sent + 1 ELSE @]
              /\ queue' = IF Len(queue) < HubCap THEN Append(queue, out) ELSE queue
      /\ UNCHANGED <<up, job, worker, row, pumps, client, events>>
  BY DEF Stamp
<1>5. out \in Message
  <2> HIDE DEF msg, s
  <2>1. hist.sent + 1 \in Nat
    BY <1>3
  <2> QED
    BY <1>2, <1>3, <2>1 DEF Message
<1>6. save \in Nat
  BY <1>3
<1> HIDE DEF s, out, save
<1>7. r \in HandlerStates /\ r.pc = "persist" /\ r.todo = hnd[h].todo
  BY <1>1, <1>6 DEF HandlerStates
<1> HIDE DEF msg, r
<1>8. hnd' \in [Handlers -> HandlerStates] /\ hnd'[h] = r /\ \A g \in Handlers \ {h} : hnd'[g] = hnd[g]
  BY <1>1, <1>4, <1>7 DEF ServerShape
<1>9. \A g \in Handlers : hnd'[g].pc # "idle" => hnd'[g].todo # <<>>
  BY <1>1, <1>7, <1>8 DEF ServerShape
<1>10. counter' \in Nat /\ row' \in Nat
  BY <1>1, <1>3, <1>4 DEF ServerShape
<1>11. hist' \in Histories
  <2> DEFINE o == IF msg.kind = "status" THEN hist.sent + 1 ELSE hist.over
  <2>1. o \in Nat /\ hist.sent + 1 \in Nat
    BY <1>3
  <2>2. hist' = hist \/ hist' = [hist EXCEPT !.sent = hist.sent + 1, !.over = o]
    BY <1>4
  <2> HIDE DEF o
  <2> QED
    BY <1>3, <2>1, <2>2 DEF Histories
<1>12. queue' \in Seq(Message) /\ Len(queue') <= HubCap
  <2>1. queue \in Seq(Message) /\ Len(queue) <= HubCap /\ Len(queue) \in Nat /\ HubCap \in Nat
    BY <1>1, Bounds DEF ServerShape
  <2>2. Append(queue, out) \in Seq(Message) /\ Len(Append(queue, out)) = Len(queue) + 1
    BY <1>5, <2>1, AppendType
  <2> QED
    BY <1>4, <2>1, <2>2
<1>13. UNCHANGED <<up, job, worker, sconn, buf, net, cl, main, poll, events>>
  BY <1>4 DEF pumps, client
<1>14. Shape'
  BY <1>1, <1>8, <1>9, <1>10, <1>11, <1>12, <1>13 DEF Shape, ServerShape, PumpShape, ClientShape
<1>15. msg.kind = "release" => UNCHANGED <<queue, hist>>
  BY <1>4
<1>16. msg.kind # "release" =>
          /\ hist'.sent = hist.sent + 1 /\ hist'.stopped = hist.stopped
          /\ hist'.unanswered = hist.unanswered
          /\ hist'.over = IF msg.kind = "status" THEN hist.sent + 1 ELSE hist.over
          /\ queue' \in {queue, Append(queue, out)}
  BY <1>3, <1>4 DEF Histories
<1> QED
  BY <1>1, <1>2, <1>5, <1>7, <1>8, <1>14, <1>15, <1>16 DEF msg, s, out

(* The other steps of a broadcast. *)
LEMMA InjectEffect ==
    ASSUME Shape, NEW h \in Handlers, InjectSeq(h)
    PROVE  /\ Shape'
           /\ hnd[h].pc = "inject" /\ hnd'[h].pc = "stamp" /\ hnd'[h].todo = hnd[h].todo
           /\ \A g \in Handlers \ {h} : hnd'[g] = hnd[g]
           /\ counter # 0 => counter' = counter
<1> DEFINE r == [hnd[h] EXCEPT !.pc = "stamp", !.loaded = 0]
<1>1. ServerShape /\ hnd[h].pc = "inject" /\ hnd[h].todo # <<>> /\ hnd[h] \in HandlerStates
      /\ hnd[h].loaded \in Nat
  BY HandlerFields DEF Shape, ServerShape, InjectSeq
<1>2. /\ counter' = IF counter = 0 THEN hnd[h].loaded ELSE counter
      /\ hnd' = [hnd EXCEPT ![h] = r]
      /\ UNCHANGED <<up, job, worker, row, queue, hist, sconn, buf, net, cl, main, poll, events>>
  BY DEF InjectSeq, pumps, client
<1>3. r \in HandlerStates /\ r.pc = "stamp" /\ r.todo = hnd[h].todo
  BY <1>1 DEF HandlerStates
<1> HIDE DEF r
<1>4. hnd' \in [Handlers -> HandlerStates] /\ hnd'[h] = r /\ \A g \in Handlers \ {h} : hnd'[g] = hnd[g]
  BY <1>1, <1>2, <1>3 DEF ServerShape
<1>5. \A g \in Handlers : hnd'[g].pc # "idle" => hnd'[g].todo # <<>>
  BY <1>1, <1>3, <1>4 DEF ServerShape
<1>6. counter' \in Nat
  BY <1>1, <1>2 DEF ServerShape
<1>7. Shape'
  BY <1>1, <1>2, <1>4, <1>5, <1>6 DEF Shape, ServerShape, PumpShape, ClientShape
<1> QED
  BY <1>1, <1>2, <1>3, <1>4, <1>7

(* The row is saved and the handler takes its next message, if it has one. *)
LEMMA PersistEffect ==
    ASSUME Shape, NEW h \in Handlers, PersistSeq(h)
    PROVE  /\ Shape'
           /\ hnd[h].pc = "persist"
           /\ \/ hnd'[h] = Idle
              \/ hnd'[h].pc \in {"inject", "stamp"} /\ hnd'[h].todo = Tail(hnd[h].todo)
           /\ counter # 0 => hnd'[h].pc # "inject"
           /\ \A g \in Handlers \ {h} : hnd'[g] = hnd[g]
<1>1. ServerShape /\ hnd[h].pc = "persist" /\ hnd[h].todo # <<>> /\ hnd[h] \in HandlerStates
      /\ hnd[h].todo \in Seq(Message) /\ hnd[h].save \in Nat
  BY HandlerFields DEF Shape, ServerShape, PersistSeq
<1>2. row' \in Nat
  BY <1>1 DEF PersistSeq, SaveWSJobSeq, ServerShape
<1>3. events' \in 0..MaxEvents
  BY EventType DEF Shape, PersistSeq
<1> DEFINE p == Prefetched(Tail(hnd[h].todo), row')
           r == IF Len(hnd[h].todo) = 1 THEN Idle ELSE p
<1>4. /\ hnd' = [hnd EXCEPT ![h] = r]
      /\ UNCHANGED <<up, job, worker, counter, queue, hist, sconn, buf, net, cl, main, poll>>
  BY DEF PersistSeq, pumps, client
<1>5. Idle \in HandlerStates /\ Idle.pc = "idle"
  BY DEF Idle, HandlerStates
<1>6. ASSUME Len(hnd[h].todo) # 1
      PROVE  /\ p \in HandlerStates /\ p.todo = Tail(hnd[h].todo) /\ p.todo # <<>>
             /\ p.pc \in {"inject", "stamp"} /\ (counter # 0 => p.pc = "stamp")
  <2>1. Tail(hnd[h].todo) \in Seq(Message) /\ Tail(hnd[h].todo) # <<>>
    <3>1. Tail(hnd[h].todo) \in Seq(Message) /\ Len(Tail(hnd[h].todo)) = Len(hnd[h].todo) - 1
          /\ Len(hnd[h].todo) \in Nat \ {0}
      BY <1>1, TailType
    <3>2. Len(Tail(hnd[h].todo)) # 0
      <4> DEFINE a == Len(hnd[h].todo)
                 b == Len(Tail(hnd[h].todo))
      <4>1. a \in Nat \ {0} /\ a # 1 /\ b = a - 1
        BY <1>6, <3>1
      <4> HIDE DEF a, b
      <4>2. b # 0
        BY <4>1
      <4> QED
        BY <4>2 DEF b
    <3>3. Len(<<>>) = 0
      OBVIOUS
    <3> QED
      BY <3>1, <3>2, <3>3
  <2>2. counter \in Nat
    BY <1>1 DEF ServerShape
  <2> QED
    BY <1>2, <2>1, <2>2, PrefetchedType
<1>7. /\ r \in HandlerStates /\ (r.pc # "idle" => r.todo # <<>>)
      /\ r = Idle \/ (r.pc \in {"inject", "stamp"} /\ r.todo = Tail(hnd[h].todo))
      /\ counter # 0 => r.pc # "inject"
  BY <1>5, <1>6
<1> HIDE DEF r, p
<1>8. hnd' \in [Handlers -> HandlerStates] /\ hnd'[h] = r /\ \A g \in Handlers \ {h} : hnd'[g] = hnd[g]
  BY <1>1, <1>4, <1>7 DEF ServerShape
<1>9. \A g \in Handlers : hnd'[g].pc # "idle" => hnd'[g].todo # <<>>
  BY <1>1, <1>7, <1>8 DEF ServerShape
<1>10. Shape'
  BY <1>1, <1>2, <1>3, <1>4, <1>8, <1>9 DEF Shape, ServerShape, PumpShape, ClientShape
<1> QED
  BY <1>1, <1>7, <1>8, <1>10

(* A close leaves a frame on the wire, or finds one there. *)
LEMMA ClosedType ==
    ASSUME net \in Seq(Message), NEW kind \in Closing, Closed(kind)
    PROVE  net' \in Seq(Message)
<1>1. Msg(kind) \in Message
  BY MsgType DEF Kinds
<1>2. Append(net, Msg(kind)) \in Seq(Message)
  BY <1>1, AppendType
<1> QED
  BY <1>2 DEF Closed

(* The hub and the pumps. *)
LEMMA HubShape ==
    ASSUME Shape, Hub
    PROVE  Shape'
<1>1. CASE HubRegister \/ HubUnregister
  <2>1. /\ sconn' \in {"none", "registering", "open", "gone"} /\ buf' \in {buf, <<>>}
        /\ UNCHANGED <<up, job, worker, hnd, counter, row, queue, hist, net, cl, main, poll, events>>
    BY <1>1 DEF HubRegister, HubUnregister, server, client
  <2>2. buf' \in Seq(Message) /\ Len(buf') <= SendCap
    <3>1. <<>> \in Seq(Message) /\ Len(<<>>) <= SendCap
      BY Bounds
    <3>2. buf \in Seq(Message) /\ Len(buf) <= SendCap
      BY DEF Shape, PumpShape
    <3> QED
      BY <2>1, <3>1, <3>2
  <2> QED
    BY <2>1, <2>2 DEF Shape, ServerShape, PumpShape, ClientShape
<1>2. CASE HubBroadcast
  <2>1. /\ queue # <<>> /\ queue' = Tail(queue)
        /\ UNCHANGED <<up, job, worker, hnd, counter, row, hist, cl, main, poll, events>>
    BY <1>2 DEF HubBroadcast, client
  <2>2. queue \in Seq(Message) /\ Len(queue) <= HubCap /\ buf \in Seq(Message) /\ Len(buf) <= SendCap
        /\ net \in Seq(Message)
    BY DEF Shape, ServerShape, PumpShape
  <2>3. queue' \in Seq(Message) /\ Len(queue') = Len(queue) - 1 /\ Len(queue) \in Nat /\ Head(queue) \in Message
    BY <2>1, <2>2, TailType
  <2>4. Len(queue') <= HubCap
    BY <2>2, <2>3, Bounds
  <2>5. /\ sconn' \in {"none", "registering", "open", "gone"} /\ net' \in Seq(Message)
        /\ buf' \in Seq(Message) /\ Len(buf') <= SendCap
    <3>1. CASE UNCHANGED pumps
      BY <3>1 DEF pumps, Shape, PumpShape
    <3>2. CASE Len(buf) < SendCap /\ buf' = Append(buf, Head(queue)) /\ UNCHANGED <<sconn, net>>
      BY <2>2, <2>3, <3>2, AppendType, Bounds DEF Shape, PumpShape
    <3>3. CASE sconn' = "gone" /\ buf' = <<>> /\ \E kind \in Closing : Closed(kind)
      BY <2>2, <3>3, ClosedType, Bounds
    <3> QED
      BY <1>2, <3>1, <3>2, <3>3 DEF HubBroadcast
  <2> QED
    BY <2>1, <2>3, <2>4, <2>5 DEF Shape, ServerShape, PumpShape, ClientShape
<1>3. CASE WritePump
  <2>1. PICK k \in 1..Len(buf) : net' = net \o SubSeq(buf, 1, k) /\ buf' = SubSeq(buf, k + 1, Len(buf))
    BY <1>3 DEF WritePump
  <2>2. UNCHANGED <<up, job, worker, hnd, counter, row, queue, hist, sconn, cl, main, poll, events>>
    BY <1>3 DEF WritePump, server, client
  <2>3. buf \in Seq(Message) /\ Len(buf) <= SendCap /\ net \in Seq(Message) /\ Len(buf) \in Nat
    BY DEF Shape, PumpShape
  <2>4. 1 \in 1..(Len(buf) + 1) /\ k \in 0..Len(buf) /\ k + 1 \in 1..(Len(buf) + 1) /\ Len(buf) \in 0..Len(buf)
    BY <2>3
  <2>5. SubSeq(buf, 1, k) \in Seq(Message)
    BY <2>3, <2>4, SubType
  <2>6. buf' \in Seq(Message) /\ Len(buf') <= Len(buf) /\ Len(buf') \in Nat
    BY <2>1, <2>3, <2>4, SubType
  <2>7. net' \in Seq(Message)
    BY <2>1, <2>3, <2>5, ConcatType
  <2>8. Len(buf') <= SendCap
    BY <2>3, <2>6, Bounds
  <2> QED
    BY <2>2, <2>6, <2>7, <2>8 DEF Shape, ServerShape, PumpShape, ClientShape
<1> QED
  BY <1>1, <1>2, <1>3 DEF Hub

(* The faults of server and network. *)
LEMMA StopShape ==
    ASSUME Shape, NEW kind, NEW closing \in Closing, StopServer(kind, closing)
    PROVE  /\ Shape' /\ queue' = <<>> /\ buf' = <<>>
           /\ hist'.stopped = TRUE /\ hist'.sent = hist.sent /\ hist'.over = hist.over
           /\ hnd["out"].pc # "idle" /\ job = "running" =>
                worker'.sendErr /\ hist'.unanswered = hist.unanswered \cup {Chunk(worker.chunks)}
           /\ hnd["out"].pc = "idle" \/ job # "running" =>
                worker'.sendErr = worker.sendErr /\ hist'.unanswered = hist.unanswered
           /\ hnd' = [h \in Handlers |-> Idle]
           /\ worker'.attempt = worker.attempt /\ worker'.chunks = worker.chunks
           /\ net' = net \/ Closed(closing)
           /\ UNCHANGED <<job, row, client>>
<1> DEFINE posting == hnd["out"].pc # "idle" /\ job = "running"
           e == worker.sendErr \/ posting
           u == IF posting THEN hist.unanswered \cup {Chunk(worker.chunks)} ELSE hist.unanswered
<1>1. /\ up' = FALSE /\ counter' = 0 /\ queue' = <<>> /\ buf' = <<>>
      /\ hist' = [hist EXCEPT !.stopped = TRUE, !.unanswered = u]
      /\ hnd' = [h \in Handlers |-> Idle]
      /\ worker' = [worker EXCEPT !.sendErr = e]
      /\ UNCHANGED <<job, row, client>>
  BY DEF StopServer
<1>2. sconn' \in {"none", "registering", "open", "gone"} /\ (net' = net \/ Closed(closing))
  BY DEF StopServer, Shape, PumpShape
<1>3. hist \in Histories /\ worker \in WorkerStates
  BY DEF Shape, ServerShape
<1>4. /\ hist' \in Histories /\ hist'.stopped = TRUE /\ hist'.sent = hist.sent
      /\ hist'.over = hist.over /\ hist'.unanswered = u
  <2>1. Chunk(worker.chunks) \in Positions /\ hist.unanswered \subseteq Positions
    BY <1>3, SentChunk, Bounds DEF WorkerStates, Histories
  <2>2. u \subseteq Positions
    BY <2>1
  <2> HIDE DEF u
  <2> QED
    BY <1>1, <1>3, <2>2 DEF Histories
<1>5. /\ worker' \in WorkerStates /\ worker'.sendErr = e
      /\ worker'.attempt = worker.attempt /\ worker'.chunks = worker.chunks
  <2>1. e \in BOOLEAN
    BY <1>3 DEF WorkerStates
  <2> HIDE DEF e
  <2> QED
    BY <1>1, <1>3, <2>1 DEF WorkerStates
<1>6. Idle \in HandlerStates /\ Idle.pc = "idle"
  BY DEF Idle, HandlerStates
<1>7. hnd' \in [Handlers -> HandlerStates] /\ \A h \in Handlers : hnd'[h].pc # "idle" => hnd'[h].todo # <<>>
  BY <1>1, <1>6
<1>8. net' \in Seq(Message)
  BY <1>2, ClosedType DEF Shape, PumpShape
<1>9. <<>> \in Seq(Message) /\ Len(<<>>) <= HubCap /\ Len(<<>>) <= SendCap
  BY Bounds
<1>10. events' \in 0..MaxEvents
  BY EventType DEF StopServer, Shape
<1>11. UNCHANGED <<job, row, cl, main, poll>>
  BY <1>1 DEF client
<1>12. Shape'
  BY <1>1, <1>2, <1>4, <1>5, <1>7, <1>8, <1>9, <1>10, <1>11
     DEF Shape, ServerShape, PumpShape, ClientShape
<1>13. posting => worker'.sendErr /\ hist'.unanswered = hist.unanswered \cup {Chunk(worker.chunks)}
  <2>1. posting => e = TRUE /\ u = hist.unanswered \cup {Chunk(worker.chunks)}
    OBVIOUS
  <2> QED
    BY <1>4, <1>5, <2>1
<1>14. ~posting => worker'.sendErr = worker.sendErr /\ hist'.unanswered = hist.unanswered
  <2>1. ~posting => e = worker.sendErr /\ u = hist.unanswered
    BY <1>3 DEF WorkerStates
  <2> QED
    BY <1>4, <1>5, <2>1
<1> HIDE DEF e, u
<1> QED
  BY <1>13, <1>14, <1>1, <1>2, <1>4, <1>5, <1>12

(* What the client remembers of the stream. *)
Memory == <<cl.sawMessage, cl.lastSeq, cl.gap, cl.terminalSeen, cl.heard, cl.got, cl.stdoutErr>>

(* A step of the client that reads nothing. *)
ClientMoves ==
    /\ Shape'
    /\ UNCHANGED <<server, Memory>>
    /\ net' \in {net, <<>>}
    /\ buf' \in {buf, <<>>}

(* The connection after a step that keeps it, drops it, or opens a new one. *)
LEMMA PumpsKept ==
    ASSUME Shape, sconn' \in {"none", "registering", "open", "gone"},
           net' \in {net, <<>>}, buf' \in {buf, <<>>}
    PROVE  PumpShape'
<1>1. <<>> \in Seq(Message) /\ Len(<<>>) <= SendCap
  BY Bounds
<1> QED
  BY <1>1 DEF Shape, PumpShape

(* Such a step, by what it does to the client. *)
LEMMA ClientMove ==
    ASSUME Shape, UNCHANGED server, cl' \in ClientStates, main' \in MainStates,
           poll' \in {"off", "on", "done", "err"}, events' \in 0..MaxEvents, UNCHANGED Memory,
           sconn' \in {"none", "registering", "open", "gone"},
           net' \in {net, <<>>}, buf' \in {buf, <<>>}
    PROVE  ClientMoves
<1>1. PumpShape'
  BY PumpsKept
<1>2. ServerShape'
  BY DEF Shape, server, ServerShape
<1> QED
  BY <1>1, <1>2 DEF ClientMoves, Shape, ClientShape

(* The wait returns. *)
LEMMA ReturnType ==
    ASSUME Shape, NEW result \in Results, Return(result)
    PROVE  /\ main' \in MainStates /\ main'.pc = "done" /\ main'.result = result
           /\ main'.mode = main.mode
           /\ sconn' \in {"none", "registering", "open", "gone"}
           /\ net' \in {net, <<>>} /\ buf' \in {buf, <<>>}
<1>1. main \in MainStates /\ "done" \in MainPCs
  BY DEF Shape, ClientShape, MainPCs
<1> QED
  BY <1>1 DEF Return, MainStates

(* The wait goes on. *)
LEMMA StaysType ==
    ASSUME Shape, NEW next \in MainStates, Stays(next)
    PROVE  /\ main' = next /\ sconn' \in {"none", "registering", "open", "gone"}
           /\ net' \in {net, <<>>} /\ buf' \in {buf, <<>>}
BY DEF Stays, pumps, Shape, PumpShape

(* integrityErr names a result; success means that no gap was seen and that *)
(* stdout took every chunk.                                                  *)
LEMMA OutcomeType ==
    /\ Outcome \in Results \ {"none"}
    /\ Outcome = "success" /\ Terminal =>
         job = "completed" /\ (main.mode = "stream" => ~cl.gap /\ ~cl.stdoutErr /\ cl.got # <<>>)
    /\ \A status : IntegrityErr(status) \in Results
BY DEF Outcome, IntegrityErr, Results, Terminal

(* The dials, the refused connection and the end of a connection. *)
LEMMA DialMoves ==
    ASSUME Shape, Connected \/ DialFailed \/ DialRefused \/ ReadError
    PROVE  ClientMoves
<1>1. cl \in ClientStates /\ main \in MainStates /\ poll \in {"off", "on", "done", "err"}
      /\ events \in 0..MaxEvents /\ sconn \in {"none", "registering", "open", "gone"}
  BY DEF Shape, ClientShape, PumpShape
<1>2. cl.retries \in 0..MaxRetries /\ 0 \in 0..MaxRetries
  BY <1>1, Bounds DEF ClientStates
<1>3. CASE Connected
  <2>1. cl' = [cl EXCEPT !.dial = "none", !.retries = 0, !.listen = "reading", !.sawData = FALSE]
    BY <1>3 DEF Connected
  <2>2. cl' \in ClientStates /\ UNCHANGED Memory
    BY <1>1, <1>2, <2>1 DEF ClientStates, Memory, Dials, Listens
  <2>3. main' \in MainStates
    BY <1>1, <1>3 DEF Connected, MainStates, MainPCs
  <2>4. /\ poll' \in {"off", "on", "done", "err"} /\ UNCHANGED <<server, events>>
        /\ sconn' = "registering" /\ buf' = <<>> /\ net' = <<>>
    BY <1>1, <1>3 DEF Connected, HandleJobLog
  <2> QED
    BY <1>1, <2>2, <2>3, <2>4, ClientMove
<1>4. CASE DialFailed
  <2>1. UNCHANGED <<server, poll, events>>
    BY <1>4 DEF DialFailed
  <2>2. CASE /\ cl.retries < MaxRetries
             /\ cl' = [cl EXCEPT !.retries = @ + 1]
             /\ Stays(main)
    <3>1. cl.retries + 1 \in 0..MaxRetries
      BY <1>2, <2>2, Bounds
    <3>2. cl' \in ClientStates /\ UNCHANGED Memory
      BY <1>1, <2>2, <3>1 DEF ClientStates, Memory
    <3> QED
      BY <1>1, <2>1, <2>2, <3>2, StaysType, ClientMove
  <2>3. CASE /\ cl' = [cl EXCEPT !.dial = "none", !.retries = 0,
                                 !.listen = IF cl.dial = "listen" THEN "exhausted" ELSE "off"]
             /\ IF cl.dial = "listen" THEN Stays(main) ELSE Return("exhausted")
    <3>1. cl' \in ClientStates /\ UNCHANGED Memory
      BY <1>1, <1>2, <2>3 DEF ClientStates, Memory, Dials, Listens
    <3>2. CASE Stays(main)
      BY <1>1, <2>1, <3>1, <3>2, StaysType, ClientMove
    <3>3. CASE Return("exhausted")
      BY <1>1, <2>1, <3>1, <3>3, ReturnType, ClientMove DEF Results
    <3> QED
      BY <2>3, <3>2, <3>3
  <2> QED
    BY <1>4, <2>2, <2>3 DEF DialFailed
<1>5. CASE DialRefused
  <2>1. UNCHANGED <<server, poll>> /\ events' \in 0..MaxEvents
    BY <1>1, <1>5, EventType DEF DialRefused
  <2>2. cl' = [cl EXCEPT !.dial = "none", !.retries = 0,
                         !.listen = IF cl.dial = "listen" THEN "error" ELSE "off"]
    BY <1>5 DEF DialRefused
  <2>3. cl' \in ClientStates /\ UNCHANGED Memory
    BY <1>1, <1>2, <2>2 DEF ClientStates, Memory, Dials, Listens
  <2>4. [main EXCEPT !.pc = "fallback"] \in MainStates
    BY <1>1 DEF MainStates, MainPCs
  <2>5. CASE Stays(main)
    BY <1>1, <2>1, <2>3, <2>5, StaysType, ClientMove
  <2>6. CASE Return("error")
    BY <1>1, <2>1, <2>3, <2>6, ReturnType, ClientMove DEF Results
  <2>7. CASE Stays([main EXCEPT !.pc = "fallback"])
    BY <1>1, <2>1, <2>3, <2>4, <2>7, StaysType, ClientMove
  <2> QED
    BY <1>5, <2>5, <2>6, <2>7 DEF DialRefused
<1>6. CASE ReadError
  <2>1. /\ cl' = [cl EXCEPT !.listen = "closed"] \/ cl' = [cl EXCEPT !.listen = "off", !.dial = "listen"]
        /\ net' = <<>> /\ UNCHANGED <<server, sconn, buf, main, poll, events>>
    BY <1>6 DEF ReadError
  <2>2. cl' \in ClientStates /\ UNCHANGED Memory
    BY <1>1, <2>1 DEF ClientStates, Memory, Dials, Listens
  <2> QED
    BY <1>1, <2>1, <2>2, ClientMove
<1> QED
  BY <1>3, <1>4, <1>5, <1>6

(* The arms of the select of the wait. *)
LEMMA WaitMoves ==
    ASSUME Shape, BackupPoll \/ Waiting \/ ContextDone
    PROVE  ClientMoves
<1>1. cl \in ClientStates /\ main \in MainStates /\ poll \in {"off", "on", "done", "err"}
      /\ events \in 0..MaxEvents /\ sconn \in {"none", "registering", "open", "gone"}
  BY DEF Shape, ClientShape, PumpShape
<1>2. ASSUME NEW result \in Results, Return(result), UNCHANGED <<server, cl, poll, events>>
      PROVE  ClientMoves
  BY <1>1, <1>2, ReturnType, ClientMove DEF Memory
<1>3. ASSUME NEW next \in MainStates, Stays(next), UNCHANGED <<server, cl, poll, events>>
      PROVE  ClientMoves
  BY <1>1, <1>3, StaysType, ClientMove DEF Memory
<1>4. /\ Outcome \in Results /\ {"exhausted", "deadline", "error"} \subseteq Results
      /\ IntegrityErr("unknown") \in Results
  BY OutcomeType DEF Results
<1>5. /\ [main EXCEPT !.pc = "drain"] \in MainStates
      /\ [main EXCEPT !.terminal = "looked"] \in MainStates
      /\ [main EXCEPT !.pc = "fallback"] \in MainStates
      /\ [main EXCEPT !.closes = @ + 1] \in MainStates
  BY <1>1 DEF MainStates, MainPCs
<1>6. CASE BackupPoll
  <2>1. UNCHANGED <<server, sconn, buf, net, cl, main, events>> /\ poll' \in {"done", "err"}
    BY <1>6 DEF BackupPoll, pumps
  <2> QED
    BY <1>1, <2>1, ClientMove DEF Memory
<1>7. CASE PollDone \/ DrainStreamingOutput \/ TerminalEvent
  BY <1>2, <1>3, <1>4, <1>5, <1>7 DEF PollDone, DrainStreamingOutput, TerminalEvent
<1>8. CASE PollErr \/ Fallback \/ ContextDone
  BY <1>2, <1>4, <1>8 DEF PollErr, Fallback, ContextDone
<1>9. CASE ListenDone
  <2>1. CASE UNCHANGED cl
    BY <1>2, <1>3, <1>4, <1>5, <1>9, <2>1 DEF ListenDone
  <2>2. CASE /\ Stays([main EXCEPT !.closes = @ + 1])
             /\ cl' = [cl EXCEPT !.listen = "off", !.dial = "again"]
    <3>1. cl' \in ClientStates /\ UNCHANGED Memory
      BY <1>1, <2>2 DEF ClientStates, Memory, Dials, Listens
    <3>2. UNCHANGED <<server, poll, events>>
      BY <1>9 DEF ListenDone
    <3> QED
      BY <1>1, <1>5, <2>2, <3>1, <3>2, StaysType, ClientMove
  <2> QED
    BY <1>9, <2>1, <2>2 DEF ListenDone
<1> QED
  BY <1>6, <1>7, <1>8, <1>9 DEF Waiting

(* handleMessage: what the client remembers after a message. *)
LEMMA HandleEffect ==
    ASSUME Shape, HandleMessage
    PROVE  LET msg == Head(net)
               term == cl.terminalSeen \/ msg.kind = "status"
               first == ~cl.sawMessage
               restart == msg.seq = 1 /\ cl.lastSeq > 1
           IN  /\ Shape' /\ net # <<>> /\ msg \in Message /\ msg.kind \notin Closing
               /\ net' = Tail(net) /\ UNCHANGED <<server, sconn, buf, poll>>
               /\ Running /\ main'.result = main.result /\ main'.pc = main.pc /\ main'.mode = main.mode
               /\ cl'.sawMessage /\ cl'.terminalSeen = term
               /\ cl'.lastSeq = IF first \/ term \/ restart \/ msg.seq > cl.lastSeq
                                THEN msg.seq ELSE cl.lastSeq
               /\ cl'.gap = (cl.gap \/ (~first /\ ~term /\ \/ restart /\ cl.sawData
                                                           \/ msg.seq > cl.lastSeq + 1))
               /\ cl'.sawData = (cl.sawData \/ msg.kind \in {"stdout", "stderr"})
               /\ cl'.heard = cl.heard \cup {msg.id}
               /\ cl'.stdoutErr \in BOOLEAN /\ (cl.stdoutErr => cl'.stdoutErr)
               /\ cl'.got \in {cl.got, Append(cl.got, msg.chunk)}
               /\ msg.kind # "stdout" => cl'.got = cl.got
               /\ msg.kind = "stdout" /\ ~cl'.stdoutErr => cl'.got = Append(cl.got, msg.chunk)
               /\ cl'.stdoutErr # cl.stdoutErr => cl'.got = cl.got
<1> DEFINE msg == Head(net)
           term == cl.terminalSeen \/ msg.kind = "status"
           first == ~cl.sawMessage
           restart == msg.seq = 1 /\ cl.lastSeq > 1
           last == IF first \/ term \/ restart \/ msg.seq > cl.lastSeq THEN msg.seq ELSE cl.lastSeq
           gap == cl.gap \/ (~first /\ ~term /\ \/ restart /\ cl.sawData
                                                \/ msg.seq > cl.lastSeq + 1)
           heard == cl.heard \cup {msg.id}
           data == cl.sawData \/ msg.kind \in {"stdout", "stderr"}
           t == Tracked(cl, msg)
<1>1. PICK taken \in BOOLEAN :
      /\ net # <<>> /\ msg.kind \notin Closing /\ Running
      /\ cl' = Delivered(Tracked(cl, msg), msg, taken)
      /\ \/ taken /\ UNCHANGED events
         \/ ~taken /\ msg.kind = "stdout" /\ Event("write")
      /\ main' = [main EXCEPT !.terminal = IF @ = "no" /\ msg.kind \in {"status", "complete"}
                                            THEN "seen" ELSE @]
      /\ net' = Tail(net) /\ UNCHANGED <<server, sconn, buf, poll>>
  BY DEF HandleMessage
<1> DEFINE got == IF msg.kind = "stdout" /\ taken THEN Append(cl.got, msg.chunk) ELSE cl.got
           err == cl.stdoutErr \/ ~taken
<1>2. cl \in ClientStates /\ main \in MainStates /\ net \in Seq(Message)
  BY DEF Shape, ClientShape, PumpShape
<1>3. msg \in Message /\ Tail(net) \in Seq(Message)
  BY <1>1, <1>2, TailType
<1>4. msg.seq \in Nat /\ msg.id \in Nat /\ msg.chunk \in Positions
  BY <1>3 DEF Message, Positions
<1>5. /\ cl.lastSeq \in Nat /\ cl.heard \in SUBSET Nat /\ cl.got \in Seq(Positions)
      /\ cl.gap \in BOOLEAN /\ cl.sawData \in BOOLEAN /\ cl.terminalSeen \in BOOLEAN
      /\ cl.sawMessage \in BOOLEAN /\ cl.stdoutErr \in BOOLEAN
  BY <1>2 DEF ClientStates
<1> HIDE DEF msg
<1>6. /\ term \in BOOLEAN /\ last \in Nat /\ gap \in BOOLEAN /\ heard \in SUBSET Nat
      /\ data \in BOOLEAN /\ err \in BOOLEAN
  BY <1>4, <1>5
<1>7. got \in Seq(Positions)
  <2>1. Append(cl.got, msg.chunk) \in Seq(Positions)
    BY <1>4, <1>5, AppendType
  <2> QED
    BY <1>5, <2>1
<1>8. t = [cl EXCEPT !.terminalSeen = term, !.sawMessage = TRUE, !.lastSeq = last, !.gap = gap]
  BY DEF Tracked
<1> HIDE DEF term, last, gap, first, restart
<1>9. /\ t \in ClientStates /\ t.terminalSeen = term /\ t.sawMessage = TRUE /\ t.lastSeq = last
      /\ t.gap = gap /\ t.sawData = cl.sawData /\ t.heard = cl.heard /\ t.got = cl.got
      /\ t.stdoutErr = cl.stdoutErr
  BY <1>2, <1>6, <1>8 DEF ClientStates
<1> HIDE DEF t
<1>10. cl' = [t EXCEPT !.sawData = data, !.heard = heard, !.got = got, !.stdoutErr = err]
  BY <1>1, <1>9 DEF Delivered, t
<1>a. events' \in 0..MaxEvents
  BY <1>1, EventType DEF Shape
<1> HIDE DEF heard, got, data, err
<1>11. /\ cl' \in ClientStates /\ cl'.terminalSeen = term /\ cl'.sawMessage = TRUE
       /\ cl'.lastSeq = last /\ cl'.gap = gap /\ cl'.sawData = data
       /\ cl'.heard = heard /\ cl'.got = got /\ cl'.stdoutErr = err
  BY <1>6, <1>7, <1>9, <1>10 DEF ClientStates
<1>12. /\ main' \in MainStates /\ main'.result = main.result /\ main'.pc = main.pc
       /\ main'.mode = main.mode
  BY <1>1, <1>2 DEF MainStates
<1>13. Shape'
  BY <1>1, <1>3, <1>a, <1>11, <1>12 DEF Shape, ServerShape, PumpShape, ClientShape, server
<1>14. /\ err \in BOOLEAN /\ (cl.stdoutErr => err) /\ got \in {cl.got, Append(cl.got, msg.chunk)}
       /\ msg.kind # "stdout" => got = cl.got
       /\ msg.kind = "stdout" /\ ~err => got = Append(cl.got, msg.chunk)
       /\ err # cl.stdoutErr => got = cl.got
  BY <1>1, <1>5 DEF got, err
<1> QED
  BY <1>1, <1>3, <1>11, <1>12, <1>13, <1>14 DEF msg, term, last, gap, first, restart, data, heard

(* Start and the network. *)
LEMMA OutsideShape ==
    ASSUME Shape, Start \/ NetBreak \/ Over
    PROVE  Shape'
<1>1. CASE Start
  BY <1>1 DEF Start, Shape, ServerShape, PumpShape, ClientShape, pumps, client
<1>2. CASE Over
  BY <1>2 DEF Over, vars, Shape, ServerShape, PumpShape, ClientShape, server, pumps, client
<1>3. CASE NetBreak
  <2>1. PICK k \in 0..Len(net) : net' = Append(SubSeq(net, 1, k), Msg("BROKEN"))
    BY <1>3 DEF NetBreak
  <2>2. net \in Seq(Message) /\ Len(net) \in Nat
    BY DEF Shape, PumpShape
  <2>3. 1 \in 1..(Len(net) + 1)
    BY <2>2
  <2>4. SubSeq(net, 1, k) \in Seq(Message)
    BY <2>2, <2>3, SubType
  <2>5. Msg("BROKEN") \in Message
    BY MsgType DEF Kinds, Closing
  <2>6. net' \in Seq(Message)
    BY <2>1, <2>4, <2>5, AppendType
  <2>7. events' \in 0..MaxEvents
    BY <1>3, EventType DEF NetBreak, Shape
  <2>8. UNCHANGED <<up, job, worker, hnd, counter, row, queue, hist, sconn, buf, cl, main, poll>>
    BY <1>3 DEF NetBreak, server, client
  <2> QED
    BY <2>6, <2>7, <2>8 DEF Shape, ServerShape, PumpShape, ClientShape
<1> QED
  BY <1>1, <1>2, <1>3

(* The initial state is well formed. *)
LEMMA ShapeInit == Init => Shape
<1> SUFFICES ASSUME Init PROVE Shape
  OBVIOUS
<1>1. Idle \in HandlerStates /\ Idle.pc = "idle"
  BY DEF Idle, HandlerStates
<1>2. hnd \in [Handlers -> HandlerStates] /\ \A h \in Handlers : hnd[h].pc # "idle" => hnd[h].todo # <<>>
  BY <1>1 DEF Init
<1>3. worker \in WorkerStates /\ hist \in Histories
  BY Bounds DEF Init, WorkerStates, Histories
<1>4. queue \in Seq(Message) /\ Len(queue) <= HubCap /\ buf \in Seq(Message) /\ Len(buf) <= SendCap
      /\ net \in Seq(Message)
  BY Bounds DEF Init
<1>5. cl \in ClientStates
  BY Bounds DEF Init, ClientStates, Dials, Listens
<1>6. main \in MainStates
  BY DEF Init, MainStates, MainPCs, Results
<1> QED
  BY <1>2, <1>3, <1>4, <1>5, <1>6, Bounds DEF Init, Shape, ServerShape, PumpShape, ClientShape

(* Every step keeps it well formed. *)
LEMMA ShapeStep == Shape /\ [Next]_vars => Shape'
<1> SUFFICES ASSUME Shape, [Next]_vars PROVE Shape'
  OBVIOUS
<1>1. CASE PostStdout \/ PostFails \/ LoseAnswer \/ Migrate \/ PostSide \/ ReportFinal \/ Verdict
  BY <1>1, ReportShape
<1>2. CASE Broadcasting
  BY <1>2, StampEffect, InjectEffect, PersistEffect DEF Broadcasting
<1>3. CASE Hub
  BY <1>3, HubShape
<1>4. CASE Crash \/ Shutdown
  BY <1>4, StopShape DEF Crash, Shutdown, Closing
<1>5. CASE Start \/ NetBreak \/ Over
  BY <1>5, OutsideShape
<1>6. CASE HandleMessage
  BY <1>6, HandleEffect
<1>7. CASE Connected \/ DialFailed \/ DialRefused \/ ReadError
  BY <1>7, DialMoves DEF ClientMoves
<1>8. CASE BackupPoll \/ Waiting \/ ContextDone
  BY <1>8, WaitMoves DEF ClientMoves
<1>9. CASE UNCHANGED vars
  BY <1>9 DEF vars, Shape, ServerShape, PumpShape, ClientShape, server, pumps, client
<1> QED
  BY <1>1, <1>2, <1>3, <1>4, <1>5, <1>6, <1>7, <1>8, <1>9 DEF Next, Client

(* The state of handlers, hub, connection and client is well formed in     *)
(* every reachable state.                                                  *)
LEMMA ShapeInvariance == Spec => []Shape
BY ShapeInit, ShapeStep, PTL DEF Spec

(* BroadcastWSMessage and the hub keep Hub.broadcast and Client.send       *)
(* within their capacities, whatever the handlers, the network and the     *)
(* client do, for every capacity and number of chunks.                     *)
THEOREM StreamTypeCorrect == Spec => []TypeOK
<1>1. Shape => TypeOK
  BY DEF Shape, ServerShape, PumpShape, ClientShape, TypeOK, Positions, WorkerStates,
         HandlerStates, Histories, Dials, Listens, ClientStates, MainPCs, Results, MainStates
<1> QED
  BY <1>1, ShapeInvariance, PTL

-----------------------------------------------------------------------------
(* The line of messages from the hub to the client.  Every message carries *)
(* the number of broadcasts before it (id), so the line is in order when   *)
(* the ids rise along net, buf and queue.                                  *)

(* The messages of a sequence, closing frames apart. *)
In(s) == {s[i] : i \in {k \in 1..Len(s) : s[k].kind \notin Closing}}

Rising(s) ==
    \A i, k \in 1..Len(s) :
        i < k /\ s[i].kind \notin Closing /\ s[k].kind \notin Closing => s[i].id < s[k].id

(* Nothing is in the empty sequence. *)
LEMMA InEmpty == In(<<>>) = {} /\ Rising(<<>>)
BY DEF In, Rising

(* Taking the first message off. *)
LEMMA InTail ==
    ASSUME NEW s \in Seq(Message), s # <<>>, Rising(s)
    PROVE  /\ In(Tail(s)) \subseteq In(s) /\ Rising(Tail(s))
           /\ Head(s).kind \notin Closing =>
                /\ Head(s) \in In(s)
                /\ \A m \in In(Tail(s)) : Head(s).id < m.id
<1>1. Len(s) \in Nat /\ Len(s) > 0 /\ Head(s) = s[1] /\ Len(Tail(s)) = Len(s) - 1
  OBVIOUS
<1>2. \A i \in 1..Len(Tail(s)) : Tail(s)[i] = s[i + 1] /\ i + 1 \in 1..Len(s)
  BY <1>1
<1>3. Len(Tail(s)) \in Nat
  BY <1>1
<1> DEFINE t == Tail(s)
<1>4. Rising(t)
  <2> SUFFICES ASSUME NEW i \in 1..Len(t), NEW k \in 1..Len(t), i < k,
                      t[i].kind \notin Closing, t[k].kind \notin Closing
               PROVE  t[i].id < t[k].id
    BY DEF Rising
  <2>1. t[i] = s[i + 1] /\ t[k] = s[k + 1] /\ i + 1 \in 1..Len(s) /\ k + 1 \in 1..Len(s)
    BY <1>2
  <2>2. i + 1 < k + 1
    BY <1>3
  <2> HIDE DEF t
  <2> QED
    BY <2>1, <2>2 DEF Rising
<1>5. ASSUME NEW m \in In(t) PROVE m \in In(s) /\ (s[1].kind \notin Closing => s[1].id < m.id)
  <2>1. PICK i \in 1..Len(t) : m = t[i] /\ t[i].kind \notin Closing
    BY <1>5 DEF In
  <2>2. m = s[i + 1] /\ i + 1 \in 1..Len(s) /\ m.kind \notin Closing
    BY <1>2, <2>1
  <2>3. 1 \in 1..Len(s) /\ 1 < i + 1
    BY <1>1, <1>3
  <2>4. m \in In(s)
    BY <2>2 DEF In
  <2> QED
    BY <2>2, <2>3, <2>4 DEF Rising
<1>6. s[1].kind \notin Closing => s[1] \in In(s)
  BY <1>1 DEF In
<1> QED
  BY <1>1, <1>4, <1>5, <1>6

(* Adding a message at the end. *)
LEMMA InAppend ==
    ASSUME NEW s \in Seq(Message), NEW e \in Message, Rising(s),
           e.kind \notin Closing => \A m \in In(s) : m.id < e.id
    PROVE  /\ In(Append(s, e)) \subseteq In(s) \cup {m \in {e} : m.kind \notin Closing}
           /\ Rising(Append(s, e))
<1> DEFINE t == Append(s, e)
           n == Len(s)
<1>1. n \in Nat /\ Len(t) = n + 1 /\ t[n + 1] = e /\ \A i \in 1..n : t[i] = s[i]
  OBVIOUS
<1>2. \A i \in 1..Len(t) : i = n + 1 \/ i \in 1..n
  BY <1>1
<1> HIDE DEF t
<1>3. \A i \in 1..n : s[i].kind \notin Closing => s[i] \in In(s)
  BY DEF In
<1>4. In(t) \subseteq In(s) \cup {m \in {e} : m.kind \notin Closing}
  BY <1>1, <1>2, <1>3 DEF In
<1>5. Rising(t)
  <2> SUFFICES ASSUME NEW i \in 1..Len(t), NEW k \in 1..Len(t), i < k,
                      t[i].kind \notin Closing, t[k].kind \notin Closing
               PROVE  t[i].id < t[k].id
    BY DEF Rising
  <2>1. i \in 1..n /\ t[i] = s[i]
    BY <1>1, <1>2
  <2>2. CASE k \in 1..n
    BY <1>1, <2>1, <2>2 DEF Rising
  <2>3. CASE k = n + 1
    BY <1>1, <1>3, <2>1, <2>3
  <2> QED
    BY <1>2, <2>2, <2>3
<1> QED
  BY <1>4, <1>5 DEF t

(* A closing frame adds no message. *)
LEMMA InClosed ==
    ASSUME net \in Seq(Message), Rising(net), NEW kind \in Closing, Closed(kind)
    PROVE  In(net') \subseteq In(net) /\ Rising(net')
<1>1. Msg(kind) \in Message /\ Msg(kind).kind \in Closing
  BY MsgType DEF Kinds
<1>2. In(Append(net, Msg(kind))) \subseteq In(net) /\ Rising(Append(net, Msg(kind)))
  BY <1>1, InAppend
<1> QED
  BY <1>2 DEF Closed

(* Cutting a sequence in two. *)
LEMMA InSub ==
    ASSUME NEW s \in Seq(Message), Rising(s), NEW k \in 0..Len(s)
    PROVE  LET a == SubSeq(s, 1, k)
               b == SubSeq(s, k + 1, Len(s))
           IN  /\ a \in Seq(Message) /\ b \in Seq(Message)
               /\ In(a) \subseteq In(s) /\ Rising(a)
               /\ In(b) \subseteq In(s) /\ Rising(b)
               /\ \A m \in In(a), n \in In(b) : m.id < n.id
<1> DEFINE a == SubSeq(s, 1, k)
           b == SubSeq(s, k + 1, Len(s))
<1>1. Len(s) \in Nat /\ k \in Nat
  OBVIOUS
<1>2. a \in Seq(Message) /\ Len(a) = k /\ \A i \in 1..k : a[i] = s[i] /\ i \in 1..Len(s)
  BY <1>1
<1>3. /\ b \in Seq(Message) /\ Len(b) = Len(s) - k
      /\ \A i \in 1..(Len(s) - k) : b[i] = s[i + k] /\ i + k \in 1..Len(s)
  BY <1>1
<1> HIDE DEF a, b
<1>4. Rising(a)
  BY <1>2 DEF Rising
<1>5. Rising(b)
  <2> SUFFICES ASSUME NEW i \in 1..Len(b), NEW j \in 1..Len(b), i < j,
                      b[i].kind \notin Closing, b[j].kind \notin Closing
               PROVE  b[i].id < b[j].id
    BY DEF Rising
  <2>1. b[i] = s[i + k] /\ b[j] = s[j + k] /\ i + k \in 1..Len(s) /\ j + k \in 1..Len(s)
    BY <1>3
  <2>2. i + k < j + k
    BY <1>1
  <2> QED
    BY <2>1, <2>2 DEF Rising
<1>6. \A m \in In(a) : \E i \in 1..k : m = s[i] /\ s[i].kind \notin Closing /\ i \in 1..Len(s)
  BY <1>2 DEF In
<1>7. \A m \in In(b) : \E i \in 1..Len(s) : m = s[i] /\ s[i].kind \notin Closing /\ i > k
  <2> SUFFICES ASSUME NEW m \in In(b)
               PROVE  \E i \in 1..Len(s) : m = s[i] /\ s[i].kind \notin Closing /\ i > k
    OBVIOUS
  <2>1. PICK i \in 1..Len(b) : m = b[i] /\ b[i].kind \notin Closing
    BY DEF In
  <2>2. m = s[i + k] /\ i + k \in 1..Len(s) /\ i + k > k
    BY <1>1, <1>3, <2>1
  <2> QED
    BY <2>1, <2>2
<1>8. In(a) \subseteq In(s) /\ In(b) \subseteq In(s)
  BY <1>6, <1>7 DEF In
<1>9. \A m \in In(a), n \in In(b) : m.id < n.id
  <2> SUFFICES ASSUME NEW m \in In(a), NEW n \in In(b) PROVE m.id < n.id
    OBVIOUS
  <2>1. PICK i \in 1..k : m = s[i] /\ s[i].kind \notin Closing /\ i \in 1..Len(s)
    BY <1>6
  <2>2. PICK j \in 1..Len(s) : n = s[j] /\ s[j].kind \notin Closing /\ j > k
    BY <1>7
  <2>3. i < j
    BY <1>1, <2>1, <2>2
  <2> QED
    BY <2>1, <2>2, <2>3 DEF Rising
<1> QED
  BY <1>2, <1>3, <1>4, <1>5, <1>8, <1>9 DEF a, b

(* Writing messages behind others. *)
LEMMA InConcat ==
    ASSUME NEW s \in Seq(Message), NEW t \in Seq(Message), Rising(s), Rising(t),
           \A m \in In(s), n \in In(t) : m.id < n.id
    PROVE  In(s \o t) \subseteq In(s) \cup In(t) /\ Rising(s \o t)
<1> DEFINE u == s \o t
           n == Len(s)
<1>1. /\ n \in Nat /\ Len(t) \in Nat /\ Len(u) = n + Len(t)
      /\ \A i \in 1..n : u[i] = s[i]
      /\ \A i \in 1..Len(u) : i > n => u[i] = t[i - n]
  OBVIOUS
<1>2. \A i \in 1..Len(u) : i \in 1..n \/ (i > n /\ i - n \in 1..Len(t))
  BY <1>1
<1> HIDE DEF u
<1>3. \A i \in 1..n : s[i].kind \notin Closing => s[i] \in In(s)
  BY DEF In
<1>4. \A i \in 1..Len(t) : t[i].kind \notin Closing => t[i] \in In(t)
  BY DEF In
<1>5. In(u) \subseteq In(s) \cup In(t)
  BY <1>1, <1>2, <1>3, <1>4 DEF In
<1>6. Rising(u)
  <2> SUFFICES ASSUME NEW i \in 1..Len(u), NEW k \in 1..Len(u), i < k,
                      u[i].kind \notin Closing, u[k].kind \notin Closing
               PROVE  u[i].id < u[k].id
    BY DEF Rising
  <2>1. CASE k \in 1..n
    <3>1. i \in 1..n /\ u[i] = s[i] /\ u[k] = s[k]
      BY <1>1, <2>1
    <3> QED
      BY <2>1, <3>1 DEF Rising
  <2>2. CASE i \in 1..n /\ k > n
    <3>1. u[i] = s[i] /\ u[k] = t[k - n] /\ k - n \in 1..Len(t)
      BY <1>1, <1>2, <2>2
    <3> QED
      BY <1>3, <1>4, <2>2, <3>1
  <2>3. CASE i > n /\ k > n
    <3>1. u[i] = t[i - n] /\ u[k] = t[k - n] /\ i - n \in 1..Len(t) /\ k - n \in 1..Len(t)
      BY <1>1, <1>2, <2>3
    <3>2. i - n < k - n
      BY <1>1
    <3> QED
      BY <3>1, <3>2 DEF Rising
  <2> QED
    BY <1>2, <2>1, <2>2, <2>3
<1> QED
  BY <1>5, <1>6 DEF u

(* The messages on their way, and the ones heard. *)
Line == In(net) \cup In(buf) \cup In(queue)

LineInv ==
    /\ Rising(net) /\ Rising(buf) /\ Rising(queue)
    /\ \A m \in In(net), n \in In(buf) : m.id < n.id
    /\ \A m \in In(net), n \in In(queue) : m.id < n.id
    /\ \A m \in In(buf), n \in In(queue) : m.id < n.id
    /\ \A m \in Line : m.id \in 1..hist.sent
    /\ cl.heard \subseteq 1..hist.sent
    /\ \A m \in Line, j \in cl.heard : j < m.id

(* The line stays in order when messages only get lost. *)
LEMMA LineShrinks ==
    ASSUME LineInv, Rising(net'), Rising(buf'), Rising(queue'), In(net') \subseteq In(net),
           In(buf') \subseteq In(buf), In(queue') \subseteq In(queue),
           hist'.sent = hist.sent, cl'.heard = cl.heard
    PROVE  LineInv' /\ Line' \subseteq Line
<1>1. Line' \subseteq Line
  BY DEF Line
<1> QED
  BY <1>1 DEF LineInv

(* The hub hands a message to a client that has room. *)
LEMMA LineHub ==
    ASSUME Shape, LineInv, HubBroadcast
    PROVE  LineInv' /\ Line' \subseteq Line
<1>1. queue # <<>> /\ queue' = Tail(queue) /\ UNCHANGED <<hist, cl>>
  BY DEF HubBroadcast, client
<1>2. queue \in Seq(Message) /\ buf \in Seq(Message) /\ net \in Seq(Message)
  BY DEF Shape, ServerShape, PumpShape
<1>3. In(queue') \subseteq In(queue) /\ Rising(queue')
  BY <1>1, <1>2, InTail DEF LineInv
<1>4. CASE UNCHANGED pumps
  <2>1. UNCHANGED <<buf, net>>
    BY <1>4 DEF pumps
  <2> QED
    BY <1>1, <1>3, <2>1, LineShrinks DEF LineInv
<1>5. CASE buf' = <<>> /\ \E kind \in Closing : Closed(kind)
  <2>1. In(net') \subseteq In(net) /\ Rising(net') /\ In(buf') = {} /\ Rising(buf')
    BY <1>2, <1>5, InClosed, InEmpty DEF LineInv
  <2> QED
    BY <1>1, <1>3, <2>1, LineShrinks
<1>6. CASE buf' = Append(buf, Head(queue)) /\ UNCHANGED net
  <2> DEFINE e == Head(queue)
  <2>1. e \in Message
    BY <1>1, <1>2, TailType
  <2>2. e.kind \notin Closing => e \in In(queue) /\ \A m \in In(queue') : e.id < m.id
    BY <1>1, <1>2, InTail DEF LineInv
  <2>3. e.kind \notin Closing => \A m \in In(buf) : m.id < e.id
    BY <2>2 DEF LineInv
  <2> HIDE DEF e
  <2>4. In(buf') \subseteq In(buf) \cup {m \in {e} : m.kind \notin Closing} /\ Rising(buf')
    BY <1>2, <1>6, <2>1, <2>3, InAppend DEF LineInv, e
  <2>5. \A m \in In(buf') : m \in In(buf) \/ (m = e /\ m \in In(queue) /\ \A k \in In(queue') : m.id < k.id)
    BY <2>2, <2>4
  <2>6. Line' \subseteq Line
    BY <1>3, <1>6, <2>5 DEF Line
  <2>7. \A m \in In(net'), n \in In(buf') : m.id < n.id
    BY <1>6, <2>5 DEF LineInv
  <2>8. \A m \in In(net'), n \in In(queue') : m.id < n.id
    BY <1>3, <1>6 DEF LineInv
  <2>9. \A m \in In(buf'), n \in In(queue') : m.id < n.id
    BY <1>3, <2>5 DEF LineInv
  <2>10. Rising(net')
    BY <1>6 DEF LineInv
  <2>11. /\ \A m \in Line' : m.id \in 1..hist'.sent
         /\ cl'.heard \subseteq 1..hist'.sent
         /\ \A m \in Line', j \in cl'.heard : j < m.id
    BY <1>1, <2>6 DEF LineInv
  <2> QED
    BY <1>3, <2>4, <2>6, <2>7, <2>8, <2>9, <2>10, <2>11 DEF LineInv
<1> QED
  BY <1>4, <1>5, <1>6 DEF HubBroadcast

(* writeFrame moves a prefix of the buffer to the wire. *)
LEMMA LineWrite ==
    ASSUME Shape, LineInv, WritePump
    PROVE  LineInv' /\ Line' \subseteq Line
<1>1. PICK k \in 1..Len(buf) : net' = net \o SubSeq(buf, 1, k) /\ buf' = SubSeq(buf, k + 1, Len(buf))
  BY DEF WritePump
<1>2. UNCHANGED <<hist, queue, cl>>
  BY DEF WritePump, server, client
<1>3. buf \in Seq(Message) /\ net \in Seq(Message) /\ k \in 0..Len(buf)
  BY DEF Shape, PumpShape
<1> DEFINE a == SubSeq(buf, 1, k)
<1>4. /\ a \in Seq(Message) /\ In(a) \subseteq In(buf) /\ Rising(a)
      /\ In(buf') \subseteq In(buf) /\ Rising(buf')
      /\ \A m \in In(a), n \in In(buf') : m.id < n.id
  BY <1>1, <1>3, InSub DEF LineInv
<1>5. net' = net \o a
  BY <1>1
<1> HIDE DEF a
<1>6. \A m \in In(net), n \in In(a) : m.id < n.id
  BY <1>4 DEF LineInv
<1>7. In(net') \subseteq In(net) \cup In(a) /\ Rising(net')
  BY <1>3, <1>4, <1>5, <1>6, InConcat DEF LineInv
<1>8. Line' \subseteq Line
  BY <1>2, <1>4, <1>7 DEF Line
<1>9. \A m \in In(net'), n \in In(buf') : m.id < n.id
  BY <1>4, <1>7 DEF LineInv
<1>10. \A m \in In(net'), n \in In(queue') : m.id < n.id
  BY <1>2, <1>4, <1>7 DEF LineInv
<1>11. \A m \in In(buf'), n \in In(queue') : m.id < n.id
  BY <1>2, <1>4 DEF LineInv
<1>12. /\ \A m \in Line' : m.id \in 1..hist'.sent
       /\ cl'.heard \subseteq 1..hist'.sent
       /\ \A m \in Line', j \in cl'.heard : j < m.id
  BY <1>2, <1>8 DEF LineInv
<1> QED
  BY <1>2, <1>4, <1>7, <1>8, <1>9, <1>10, <1>11, <1>12 DEF LineInv

(* A message is numbered and queued. *)
LEMMA LineStamp ==
    ASSUME Shape, LineInv, NEW h \in Handlers, Stamp(h)
    PROVE  /\ LineInv'
           /\ LET msg == Head(hnd[h].todo)
              IN  \A m \in Line' : \/ m \in Line
                                   \/ /\ msg.kind # "release" /\ m.kind = msg.kind
                                      /\ m.chunk = msg.chunk /\ m.seq = EnsureSeq + 1
                                      /\ m.id = hist.sent + 1
<1> DEFINE msg == Head(hnd[h].todo)
           s == EnsureSeq + 1
           e == [msg EXCEPT !.seq = s, !.id = hist.sent + 1]
<1>1. /\ msg.kind = "release" => UNCHANGED <<queue, hist>>
      /\ msg.kind # "release" => hist'.sent = hist.sent + 1 /\ queue' \in {queue, Append(queue, e)}
      /\ e \in Message /\ msg \in Message
  BY StampEffect
<1>2. UNCHANGED <<buf, net, cl>> /\ queue \in Seq(Message) /\ hist.sent \in Nat
  BY DEF Stamp, pumps, client, Shape, ServerShape, Histories
<1> HIDE DEF msg, s
<1>3. e.kind = msg.kind /\ e.chunk = msg.chunk /\ e.seq = s /\ e.id = hist.sent + 1
  BY <1>1 DEF Message
<1> HIDE DEF e
<1>4. CASE queue' = queue
  <2>1. Line' = Line
    BY <1>2, <1>4 DEF Line
  <2>2. hist'.sent \in {hist.sent, hist.sent + 1}
    BY <1>1
  <2>3. \A j \in 1..hist.sent : j \in 1..hist'.sent
    BY <1>2, <2>2
  <2>4. LineInv'
    BY <1>2, <1>4, <2>1, <2>3 DEF LineInv
  <2> QED
    BY <2>1, <2>4
<1>5. CASE msg.kind # "release" /\ queue' = Append(queue, e)
  <2>1. hist'.sent = hist.sent + 1
    BY <1>1, <1>5
  <2>2. \A j \in 1..hist.sent : j \in 1..hist'.sent /\ j < hist.sent + 1
    BY <1>2, <2>1
  <2>3. \A m \in In(queue) : m.id < e.id
    BY <1>3, <2>2 DEF LineInv, Line
  <2>4. In(queue') \subseteq In(queue) \cup {m \in {e} : m.kind \notin Closing} /\ Rising(queue')
    BY <1>1, <1>2, <1>5, <2>3, InAppend DEF LineInv
  <2>5. \A m \in In(queue') : m \in In(queue) \/ m = e
    BY <2>4
  <2>6. \A m \in Line' : m \in Line \/ m = e
    BY <1>2, <2>5 DEF Line
  <2>7. \A m \in Line' : m.id \in 1..hist'.sent
    BY <1>2, <1>3, <2>1, <2>2, <2>6 DEF LineInv
  <2>8. /\ \A m \in In(net'), n \in In(queue') : m.id < n.id
        /\ \A m \in In(buf'), n \in In(queue') : m.id < n.id
    BY <1>2, <1>3, <2>2, <2>5 DEF LineInv, Line
  <2>9. \A m \in Line', j \in cl'.heard : j < m.id
    BY <1>2, <1>3, <2>2, <2>6 DEF LineInv
  <2>10. LineInv'
    BY <1>2, <2>2, <2>4, <2>7, <2>8, <2>9 DEF LineInv
  <2> QED
    BY <1>3, <1>5, <2>6, <2>10 DEF msg, s
<1> QED
  BY <1>1, <1>4, <1>5

(* A message is read. *)
LEMMA LineHandle ==
    ASSUME Shape, LineInv, HandleMessage
    PROVE  /\ LineInv' /\ Line' \subseteq Line /\ Head(net) \in Line
           /\ \A m \in Line' : Head(net).id < m.id
<1> DEFINE e == Head(net)
<1>1. /\ net # <<>> /\ e.kind \notin Closing /\ net' = Tail(net) /\ UNCHANGED <<server, buf>>
      /\ cl'.heard = cl.heard \cup {e.id}
  BY HandleEffect
<1>2. net \in Seq(Message) /\ UNCHANGED <<queue, hist>>
  BY <1>1 DEF Shape, PumpShape, server
<1>3. In(net') \subseteq In(net) /\ Rising(net') /\ e \in In(net) /\ \A m \in In(net') : e.id < m.id
  BY <1>1, <1>2, InTail DEF LineInv
<1> HIDE DEF e
<1>4. Line' \subseteq Line /\ e \in Line
  BY <1>1, <1>2, <1>3 DEF Line
<1>5. \A m \in Line' : e.id < m.id
  BY <1>1, <1>2, <1>3 DEF LineInv, Line
<1>6. cl'.heard \subseteq 1..hist'.sent /\ \A m \in Line' : m.id \in 1..hist'.sent
  BY <1>1, <1>2, <1>4 DEF LineInv
<1>7. \A m \in Line', j \in cl'.heard : j < m.id
  BY <1>1, <1>4, <1>5 DEF LineInv
<1>8. LineInv'
  BY <1>1, <1>2, <1>3, <1>6, <1>7 DEF LineInv
<1> QED
  BY <1>4, <1>5, <1>8 DEF e

(* A connection that breaks loses what was on the wire. *)
LEMMA LineBreak ==
    ASSUME Shape, LineInv, NetBreak
    PROVE  LineInv' /\ Line' \subseteq Line
<1>1. PICK k \in 0..Len(net) : net' = Append(SubSeq(net, 1, k), Msg("BROKEN"))
  BY DEF NetBreak
<1>2. UNCHANGED <<queue, hist, buf, cl>> /\ net \in Seq(Message)
  BY DEF NetBreak, server, client, Shape, PumpShape
<1> DEFINE a == SubSeq(net, 1, k)
<1>3. a \in Seq(Message) /\ In(a) \subseteq In(net) /\ Rising(a)
  BY <1>2, InSub DEF LineInv
<1>4. net' = Append(a, Msg("BROKEN"))
  BY <1>1
<1> HIDE DEF a
<1>5. Msg("BROKEN") \in Message /\ Msg("BROKEN").kind \in Closing
  BY MsgType DEF Kinds, Closing
<1>6. In(net') \subseteq In(a) /\ Rising(net')
  BY <1>3, <1>4, <1>5, InAppend
<1> QED
  BY <1>2, <1>3, <1>6, LineShrinks DEF LineInv

(* A server that stops takes its queues along. *)
LEMMA LineStop ==
    ASSUME Shape, LineInv, NEW kind, NEW closing \in Closing, StopServer(kind, closing)
    PROVE  LineInv' /\ Line' \subseteq Line
<1>1. /\ queue' = <<>> /\ buf' = <<>> /\ hist'.sent = hist.sent /\ cl' = cl
      /\ net' = net \/ Closed(closing)
  BY StopShape DEF client
<1>2. net \in Seq(Message)
  BY DEF Shape, PumpShape
<1>3. In(net') \subseteq In(net) /\ Rising(net')
  BY <1>1, <1>2, InClosed DEF LineInv
<1> QED
  BY <1>1, <1>3, InEmpty, LineShrinks

(* A step of the client that reads nothing. *)
LEMMA LineClient ==
    ASSUME LineInv, ClientMoves
    PROVE  LineInv' /\ Line' \subseteq Line
<1>1. UNCHANGED <<queue, hist>> /\ cl'.heard = cl.heard /\ net' \in {net, <<>>} /\ buf' \in {buf, <<>>}
  BY DEF ClientMoves, server, Memory
<1>2. Rising(net') /\ In(net') \subseteq In(net) /\ Rising(buf') /\ In(buf') \subseteq In(buf)
  BY <1>1, InEmpty DEF LineInv
<1> QED
  BY <1>1, <1>2, LineShrinks DEF LineInv

(* A connection that is registered or dropped. *)
LEMMA LineRegister ==
    ASSUME LineInv, HubRegister \/ HubUnregister
    PROVE  LineInv' /\ Line' \subseteq Line
<1>1. UNCHANGED <<queue, hist, net, cl>> /\ buf' \in {buf, <<>>}
  BY DEF HubRegister, HubUnregister, server, client
<1>2. Rising(buf') /\ In(buf') \subseteq In(buf)
  BY <1>1, InEmpty DEF LineInv
<1> QED
  BY <1>1, <1>2, LineShrinks DEF LineInv

(* A handler that only takes a report. *)
LEMMA LineSame ==
    ASSUME LineInv, UNCHANGED <<net, buf, queue, cl>>, hist'.sent = hist.sent
    PROVE  LineInv' /\ Line' = Line
BY DEF LineInv, Line

-----------------------------------------------------------------------------
(* The story of the stream.  No variable records which chunk had which     *)
(* number, but the invariant can say that such a record exists: log[i] is  *)
(* the chunk of the i-th broadcast (number 0 when it was none), at[i] the   *)
(* broadcast the client's i-th chunk came with, and t the number of         *)
(* broadcasts before the final report.                                      *)

UpTo(a, b) == a = b \/ Before(a, b)

(* How far the worker has come, and the chunk a handler has yet to number. *)
Reached == Chunk(worker.chunks)
Carries(h) == hnd[h].pc \in {"inject", "stamp"} /\ Head(hnd[h].todo).kind = "stdout"
Load(h) == Head(hnd[h].todo).chunk

(* What the handlers have to broadcast: the worker's newest chunk, or one   *)
(* whose sender gave it up, each chunk by one of them.                      *)
Duties ==
    /\ \A h \in Handlers : \A i \in 2..Len(hnd[h].todo) : hnd[h].todo[i].kind # "stdout"
    /\ \A h \in Handlers : Carries(h) => h # "side" /\ UpTo(Load(h), Reached) /\ Load(h).n > 0
    /\ Carries("out") => Load("out") = Reached
    /\ \A h \in Handlers \ {"out"} : Carries(h) => Load(h) \in hist.unanswered
    /\ \A g, h \in Handlers : g # h /\ Carries(g) /\ Carries(h) => Load(g) # Load(h)
    /\ ~up => hist.stopped /\ \A h \in Handlers : hnd[h] = Idle

(* What the worker knows of its chunks. *)
Accounts ==
    /\ \A c \in hist.unanswered :
         c.attempt <= worker.attempt /\ (c.attempt = worker.attempt => worker.sendErr)
    /\ job = "completed" => ~worker.sendErr /\ worker.chunks = Chunks /\ ~Carries("out")

(* The record goes forward but for the chunks nobody waits for, never       *)
(* repeats one and never runs past the worker.                              *)
Forward(log) ==
    \A i, k \in 1..hist.sent : (i < k /\ log[i].n > 0 /\ log[k].n > 0) =>
        log[i] # log[k] /\ (Before(log[i], log[k]) \/ log[k] \in hist.unanswered)
Behind(log) ==
    \A i \in 1..hist.sent : log[i].n > 0 =>
        UpTo(log[i], Reached) /\ \A h \in Handlers : Carries(h) => log[i] # Load(h)

(* A chunk its sender is sure of comes behind all earlier ones of its       *)
(* attempt that it is sure of,                                              *)
Backed(log) ==
    \A k \in 1..hist.sent : (log[k].n > 0 /\ log[k] \notin hist.unanswered) =>
        \A c \in Positions : (c.attempt = log[k].attempt /\ c.n > 0 /\ c.n < log[k].n) =>
            c \in hist.unanswered \/ \E i \in 1..(k - 1) : log[i] = c
(* and so will the one that is on its way.                                  *)
Complete(log) ==
    job = "running" \/ Carries("out") =>
        \A c \in Positions : (c.attempt = worker.attempt /\ c.n > 0 /\ c.n <= worker.chunks) =>
            \/ c \in hist.unanswered \/ \E i \in 1..hist.sent : log[i] = c
            \/ Carries("out") /\ c = Reached

(* What is on its way and what was written is in the record. *)
OnLine(log) ==
    \A m \in Line : IF m.kind = "stdout" THEN m.chunk = log[m.id] /\ m.chunk.n > 0
                    ELSE log[m.id].n = 0
Written(log, at) ==
    /\ \A i \in 1..Len(cl.got) : at[i] \in cl.heard /\ cl.got[i] = log[at[i]] /\ cl.got[i].n > 0
    /\ \A i, k \in 1..Len(cl.got) : i < k => at[i] < at[k]
    /\ ~cl.stdoutErr =>
         \A j \in cl.heard : log[j].n > 0 => \E i \in 1..Len(cl.got) : at[i] = j

(* While no server process has died and the server has not given the job   *)
(* up: numbers and broadcasts agree until the final report,                *)
Live == ~hist.stopped /\ job # "failed"

Numbering(t) ==
    job = "running" =>
         /\ t = hist.sent /\ counter = hist.sent
         /\ hist.sent = 0 => row = 0 /\ \A h \in Handlers : hnd[h].pc \in {"idle", "stamp"}
         /\ \A h \in Handlers : \A i \in 1..Len(hnd[h].todo) :
              hnd[h].todo[i].kind \in {"stdout", "stderr", "progress"}

(* behind which only chunks come that nobody waits for,                    *)
Settled(log, t) ==
    \A k \in 1..hist.sent : log[k].n > 0 /\ log[k] \notin hist.unanswered => k <= t

Numbered(t) == \A m \in Line : m.id <= t => m.seq = m.id /\ m.kind # "status"

(* and the client that has seen no gap has missed nothing since its first  *)
(* message.                                                                *)
Following(t) ==
    /\ ~cl.gap => \A p, q \in cl.heard : \A r \in Nat : p < r /\ r < q /\ q <= t => r \in cl.heard
    /\ (\A j \in cl.heard : j <= t) =>
         /\ ~cl.terminalSeen
         /\ cl.sawMessage => cl.lastSeq \in cl.heard /\ \A j \in cl.heard : j <= cl.lastSeq
         /\ ~cl.sawMessage => cl.heard = {}

Tale(log, at, t) ==
    /\ t <= hist.sent
    /\ Forward(log) /\ Behind(log) /\ Backed(log) /\ Complete(log)
    /\ OnLine(log) /\ Written(log, at)
    /\ Live => Numbering(t) /\ Settled(log, t) /\ Numbered(t) /\ Following(t)

Records == [Nat -> Positions]
Numbers == [Nat -> Nat]

StreamInv ==
    /\ Shape /\ LineInv /\ Duties /\ Accounts
    /\ \E log \in Records, at \in Numbers, t \in Nat : Tale(log, at, t)

(* The order of positions. *)
LEMMA UpToThenOn ==
    ASSUME NEW a \in Positions, NEW b \in Positions, NEW c \in Positions, UpTo(a, b), UpTo(b, c)
    PROVE  UpTo(a, c) /\ (Before(b, c) => Before(a, c))
BY DEF Positions, UpTo, Before

(* The worker's position is one. *)
LEMMA ReachedType ==
    ASSUME Shape
    PROVE  /\ Reached \in Positions /\ Reached.attempt = worker.attempt /\ Reached.n = worker.chunks
           /\ worker.attempt \in Nat /\ worker.chunks \in Nat /\ hist.sent \in Nat
           /\ worker.sendErr \in BOOLEAN /\ hist.unanswered \subseteq Positions
           /\ worker \in WorkerStates
BY Bounds DEF Shape, ServerShape, WorkerStates, Reached, Chunk, Positions, Histories

(* What a handler carries is a chunk. *)
LEMMA LoadType ==
    ASSUME Shape, NEW h \in Handlers, Carries(h)
    PROVE  Load(h) \in Positions
<1>1. hnd[h].todo \in Seq(Message) /\ hnd[h].todo # <<>>
  BY HandlerFields DEF Shape, ServerShape, Carries
<1>2. Head(hnd[h].todo) \in Message
  BY <1>1, TailType
<1> QED
  BY <1>2 DEF Load, Message, Positions

(* A handler that stays as it is carries what it carried. *)
LEMMA SameLoad ==
    ASSUME NEW h \in Handlers, hnd'[h] = hnd[h]
    PROVE  Carries(h)' = Carries(h) /\ Load(h)' = Load(h)
BY DEF Carries, Load

(* A step that numbers nothing and reads nothing keeps the tale when it     *)
(* keeps the part about the worker and the handlers.                        *)
LEMMA HandlersStep ==
    ASSUME NEW log \in Records, NEW at \in Numbers, NEW t \in Nat, Tale(log, at, t),
           Line' \subseteq Line, UNCHANGED Memory, hist'.sent = hist.sent,
           hist.unanswered \subseteq hist'.unanswered,
           Behind(log)', Complete(log)',
           Live' => Live /\ Numbering(t)'
    PROVE  Tale(log, at, t)'
<1>1. UNCHANGED <<cl.sawMessage, cl.lastSeq, cl.gap, cl.terminalSeen, cl.heard, cl.got, cl.stdoutErr>>
  BY DEF Memory
<1>2. Forward(log)'
  BY DEF Tale, Forward
<1>3. Backed(log)'
  BY DEF Tale, Backed
<1>4. OnLine(log)'
  BY DEF Tale, OnLine
<1>5. Written(log, at)'
  BY <1>1 DEF Tale, Written
<1>6. Live' => Settled(log, t)'
  BY DEF Tale, Settled
<1>7. Live' => Numbered(t)'
  BY DEF Tale, Numbered
<1>8. Live' => Following(t)'
  BY <1>1 DEF Tale, Following
<1> QED
  BY <1>2, <1>3, <1>4, <1>5, <1>6, <1>7, <1>8 DEF Tale

(* The steps that neither number a message nor read one. *)
LEMMA QuietTale ==
    ASSUME Duties, Accounts, NEW log \in Records, NEW at \in Numbers, NEW t \in Nat, Tale(log, at, t),
           Line' \subseteq Line, UNCHANGED <<job, worker, hnd, counter, row, hist, Memory>>,
           up' = up \/ up'
    PROVE  Duties' /\ Accounts' /\ Tale(log, at, t)'
<1>1. Behind(log)' /\ Complete(log)'
  BY DEF Tale, Behind, Complete, Carries, Load, Reached, Chunk
<1>2. Live' => Live /\ Numbering(t)'
  BY DEF Tale, Live, Numbering
<1>3. Tale(log, at, t)'
  BY <1>1, <1>2, HandlersStep
<1>4. Duties'
  BY DEF Duties, Carries, Load, Reached, Chunk
<1>5. Accounts'
  BY DEF Accounts, Carries
<1> QED
  BY <1>3, <1>4, <1>5

(* The hub, the network and the client that dials or waits. *)
LEMMA QuietActions ==
    ASSUME Shape, LineInv, Duties, Accounts,
           NEW log \in Records, NEW at \in Numbers, NEW t \in Nat, Tale(log, at, t),
           Hub \/ Start \/ NetBreak \/ Over \/ ClientMoves
    PROVE  LineInv' /\ Duties' /\ Accounts' /\ Tale(log, at, t)'
<1>1. ASSUME LineInv', Line' \subseteq Line, up' = up \/ up',
             UNCHANGED <<job, worker, hnd, counter, row, hist, Memory>>
      PROVE  LineInv' /\ Duties' /\ Accounts' /\ Tale(log, at, t)'
  BY <1>1, QuietTale
<1>2. CASE HubBroadcast
  <2>1. UNCHANGED <<up, job, worker, hnd, counter, row, hist, cl>>
    BY <1>2 DEF HubBroadcast, client
  <2> QED
    BY <1>1, <1>2, <2>1, LineHub DEF Memory
<1>3. CASE HubRegister \/ HubUnregister
  <2>1. UNCHANGED <<up, job, worker, hnd, counter, row, hist, cl>>
    BY <1>3 DEF HubRegister, HubUnregister, server, client
  <2> QED
    BY <1>1, <1>3, <2>1, LineRegister DEF Memory
<1>4. CASE WritePump
  <2>1. UNCHANGED <<up, job, worker, hnd, counter, row, hist, cl>>
    BY <1>4 DEF WritePump, server, client
  <2> QED
    BY <1>1, <1>4, <2>1, LineWrite DEF Memory
<1>5. CASE Start \/ Over
  <2>1. UNCHANGED <<job, worker, hnd, counter, row, queue, hist, net, buf, cl>> /\ (up' = up \/ up')
    BY <1>5 DEF Start, Over, vars, server, pumps, client
  <2> QED
    BY <1>1, <2>1, LineSame DEF Memory
<1>6. CASE NetBreak
  <2>1. UNCHANGED <<up, job, worker, hnd, counter, row, hist, cl>>
    BY <1>6 DEF NetBreak, server, client
  <2> QED
    BY <1>1, <1>6, <2>1, LineBreak DEF Memory
<1>7. CASE ClientMoves
  <2>1. UNCHANGED <<up, job, worker, hnd, counter, row, hist, Memory>>
    BY <1>7 DEF ClientMoves, server
  <2> QED
    BY <1>1, <1>7, <2>1, LineClient
<1> QED
  BY <1>2, <1>3, <1>4, <1>5, <1>6, <1>7 DEF Hub

(* What taking a report changes. *)
LEMMA ServeEffect ==
    ASSUME Shape, NEW h \in Handlers, NEW todo \in Seq(Message), todo # <<>>, Serve(h, todo)
    PROVE  /\ up /\ hnd[h].pc = "idle"
           /\ hnd'[h].todo = todo /\ hnd'[h].pc \in {"inject", "stamp"}
           /\ counter # 0 \/ row = 0 => hnd'[h].pc = "stamp"
           /\ \A g \in Handlers \ {h} : hnd'[g] = hnd[g]
           /\ UNCHANGED <<up, counter, row, queue, hist, sconn, buf, net, cl, main, poll>>
<1> DEFINE p == Prefetched(todo, row)
<1>1. /\ p.todo = todo /\ p.pc \in {"inject", "stamp"}
      /\ counter # 0 \/ row = 0 => p.pc = "stamp"
  BY PrefetchedType DEF Shape, ServerShape
<1>2. /\ up /\ hnd[h].pc = "idle" /\ hnd' = [hnd EXCEPT ![h] = p]
      /\ UNCHANGED <<up, counter, row, queue, hist, sconn, buf, net, cl, main, poll>>
  BY DEF Serve, pumps, client
<1> HIDE DEF p
<1>3. hnd'[h] = p /\ \A g \in Handlers \ {h} : hnd'[g] = hnd[g]
  BY <1>2 DEF Shape, ServerShape
<1> QED
  BY <1>1, <1>2, <1>3

(* A handler that goes on with something other than a chunk: the chunks the *)
(* others carry are not concerned.                                          *)
LEMMA OtherDuty ==
    ASSUME Shape, Duties, Accounts,
           NEW log \in Records, NEW at \in Numbers, NEW t \in Nat, Tale(log, at, t),
           NEW h \in Handlers, \A g \in Handlers \ {h} : hnd'[g] = hnd[g],
           Carries(h)' => Carries(h) /\ Load(h)' = Load(h),
           \A i \in 2..Len(hnd'[h].todo) : hnd'[h].todo[i].kind # "stdout",
           up, up', UNCHANGED <<worker, hist, queue, buf, net, cl>>,
           \/ job' = job
           \/ job = "running" /\ job' = "failed"
           \/ job = "running" /\ job' = "completed" /\ ~worker.sendErr /\ worker.chunks = Chunks
              /\ h = "out" /\ ~Carries(h)',
           Live' => Numbering(t)',
           h = "out" /\ Carries(h) /\ ~Carries(h)' => FALSE
    PROVE  Duties' /\ Accounts' /\ Tale(log, at, t)'
<1>1. "side" \in Handlers /\ "out" \in Handlers
  BY DEF Handlers
<1>2. Reached' = Reached /\ hist' = hist
  BY DEF Reached, Chunk
<1>3. \A g \in Handlers : Carries(g)' => Carries(g) /\ Load(g)' = Load(g)
  BY SameLoad
<1>4. Carries("out")' = Carries("out")
  BY <1>1, <1>3, SameLoad DEF Carries
<1>5. Duties'
  <2>1. \A g \in Handlers : \A i \in 2..Len(hnd'[g].todo) : hnd'[g].todo[i].kind # "stdout"
    BY DEF Duties
  <2>2. \A g \in Handlers : Carries(g)' => g # "side" /\ UpTo(Load(g)', Reached) /\ Load(g)'.n > 0
    BY <1>3 DEF Duties
  <2>3. Carries("out")' => Load("out")' = Reached
    BY <1>1, <1>3 DEF Duties
  <2>4. \A g \in Handlers \ {"out"} : Carries(g)' => Load(g)' \in hist.unanswered
    BY <1>3 DEF Duties
  <2>5. \A f, g \in Handlers : f # g /\ Carries(f)' /\ Carries(g)' => Load(f)' # Load(g)'
    BY <1>3 DEF Duties
  <2> QED
    BY <1>2, <2>1, <2>2, <2>3, <2>4, <2>5 DEF Duties, UpTo, Before
<1>6. Accounts'
  BY <1>2, <1>3, <1>1 DEF Accounts
<1>7. Behind(log)'
  BY <1>2, <1>3 DEF Tale, Behind
<1>8. Complete(log)'
  BY <1>2, <1>4 DEF Tale, Complete
<1>9. Line' = Line /\ UNCHANGED Memory
  BY DEF Line, Memory
<1>10. Live' => Live
  BY <1>2 DEF Live
<1> QED
  BY <1>2, <1>5, <1>6, <1>7, <1>8, <1>9, <1>10, HandlersStep

(* The side reports, the final report and the verdicts of the server. *)
LEMMA ReportTale ==
    ASSUME Shape, LineInv, Duties, Accounts,
           NEW log \in Records, NEW at \in Numbers, NEW t \in Nat, Tale(log, at, t),
           PostSide \/ ReportFinal \/ Verdict
    PROVE  Duties' /\ Accounts' /\ Tale(log, at, t)'
<1>1. "side" \in Handlers /\ "out" \in Handlers
  BY DEF Handlers
<1> DEFINE s == Msg("status")
           c == Msg("complete")
           r == Msg("release")
<1>2. /\ s \in Message /\ s.kind = "status" /\ c \in Message /\ c.kind = "complete"
      /\ r \in Message /\ r.kind = "release"
  BY MsgType DEF Kinds
<1>3. ASSUME NEW h \in Handlers, NEW todo \in Seq(Message), todo # <<>>, Serve(h, todo),
             worker' = worker, \A i \in 1..Len(todo) : todo[i].kind # "stdout",
             \/ job' = job /\ \A i \in 1..Len(todo) : todo[i].kind \in {"stderr", "progress"}
             \/ job = "running" /\ job' = "failed"
             \/ job = "running" /\ job' = "completed" /\ ~worker.sendErr /\ worker.chunks = Chunks
                /\ h = "out"
      PROVE  Duties' /\ Accounts' /\ Tale(log, at, t)'
  <2>1. /\ up /\ up' = up /\ hnd[h].pc = "idle" /\ hnd'[h].todo = todo
        /\ hnd'[h].pc \in {"inject", "stamp"}
        /\ counter # 0 \/ row = 0 => hnd'[h].pc = "stamp"
        /\ \A g \in Handlers \ {h} : hnd'[g] = hnd[g]
        /\ UNCHANGED <<counter, row, hist, queue, buf, net, cl>>
    BY <1>3, ServeEffect
  <2>2. ~Carries(h)' /\ ~Carries(h)
    <3>1. Head(todo) = todo[1] /\ 1 \in 1..Len(todo)
      BY <1>3, TailType
    <3> QED
      BY <1>3, <2>1, <3>1 DEF Carries
  <2>3. \A i \in 2..Len(hnd'[h].todo) : hnd'[h].todo[i].kind # "stdout"
    BY <1>3, <2>1
  <2>4. Live' => Numbering(t)'
    <3> SUFFICES ASSUME Live' PROVE Numbering(t)'
      OBVIOUS
    <3>1. Numbering(t)
      BY <1>3, <2>1 DEF Live, Tale
    <3>2. CASE job' # "running"
      BY <3>2 DEF Numbering
    <3>3. CASE job' = "running"
      <4>1. job = "running" /\ \A i \in 1..Len(todo) : todo[i].kind \in {"stderr", "progress"}
        BY <1>3, <3>3
      <4>2. \A g \in Handlers : \A i \in 1..Len(hnd'[g].todo) :
              hnd'[g].todo[i].kind \in {"stdout", "stderr", "progress"}
        BY <2>1, <3>1, <4>1 DEF Numbering
      <4>3. hist.sent = 0 => row = 0 /\ \A g \in Handlers : hnd'[g].pc \in {"idle", "stamp"}
        BY <2>1, <3>1, <4>1 DEF Numbering
      <4> QED
        BY <2>1, <3>1, <4>1, <4>2, <4>3 DEF Numbering
    <3> QED
      BY <3>2, <3>3
  <2> QED
    BY <1>3, <2>1, <2>2, <2>3, <2>4, OtherDuty
<1>4. CASE PostSide
  <2>1. PICK kind \in {"stderr", "progress"} : Serve("side", <<Msg(kind)>>)
    BY <1>4 DEF PostSide
  <2> DEFINE m == Msg(kind)
  <2>2. m \in Message /\ m.kind = kind /\ UNCHANGED <<job, worker>>
    BY <1>4, MsgType DEF PostSide, Kinds
  <2> HIDE DEF m
  <2>3. <<m>> \in Seq(Message) /\ <<m>> # <<>> /\ \A i \in 1..Len(<<m>>) : <<m>>[i].kind = kind
    BY <2>2
  <2> QED
    BY <1>1, <1>3, <2>1, <2>2, <2>3 DEF m
<1>5. CASE ReportFinal
  <2>1. /\ Serve("out", <<s, c>>) /\ worker' = worker /\ job = "running" /\ worker.chunks = Chunks
        /\ job' = IF worker.sendErr THEN "failed" ELSE "completed"
    BY <1>5 DEF ReportFinal
  <2> HIDE DEF s, c
  <2>2. /\ <<s, c>> \in Seq(Message) /\ <<s, c>> # <<>>
        /\ \A i \in 1..Len(<<s, c>>) : <<s, c>>[i].kind # "stdout"
    BY <1>2
  <2> QED
    BY <1>1, <1>3, <2>1, <2>2
<1>6. CASE Verdict
  <2>1. PICK todo \in {<<s, c, r>>, <<s, r>>, <<r>>} : Serve("side", todo)
    BY <1>6 DEF Verdict
  <2>2. job = "running" /\ job' = "failed" /\ worker' = worker
    BY <1>6 DEF Verdict
  <2> HIDE DEF s, c, r
  <2>3. todo \in Seq(Message) /\ todo # <<>> /\ \A i \in 1..Len(todo) : todo[i].kind # "stdout"
    <3>1. CASE todo = <<s, c, r>>
      BY <1>2, <3>1
    <3>2. CASE todo = <<s, r>>
      BY <1>2, <3>2
    <3>3. CASE todo = <<r>>
      BY <1>2, <3>3
    <3> QED
      BY <2>1, <3>1, <3>2, <3>3
  <2> QED
    BY <1>1, <1>3, <2>1, <2>2, <2>3
<1> QED
  BY <1>4, <1>5, <1>6

(* The saved number is put in place. *)
LEMMA InjectTale ==
    ASSUME Shape, LineInv, Duties, Accounts,
           NEW log \in Records, NEW at \in Numbers, NEW t \in Nat, Tale(log, at, t),
           NEW h \in Handlers, InjectSeq(h)
    PROVE  Duties' /\ Accounts' /\ Tale(log, at, t)'
<1>1. /\ hnd[h].pc = "inject" /\ hnd'[h].pc = "stamp" /\ hnd'[h].todo = hnd[h].todo
      /\ \A g \in Handlers \ {h} : hnd'[g] = hnd[g] /\ (counter # 0 => counter' = counter)
      /\ (counter # 0 => counter' = counter)
  BY InjectEffect
<1>2. up /\ up' /\ UNCHANGED <<job, worker, row, queue, hist, net, buf, cl>>
  BY DEF InjectSeq, pumps, client
<1>3. Carries(h)' = Carries(h) /\ Load(h)' = Load(h)
  BY <1>1 DEF Carries, Load
<1>4. Live' => Numbering(t)'
  <2> SUFFICES ASSUME Live', job = "running" PROVE Numbering(t)'
    BY <1>2 DEF Numbering
  <2>1. Numbering(t) /\ hist.sent # 0 /\ counter = hist.sent
    BY <1>1, <1>2 DEF Live, Tale, Numbering
  <2> QED
    BY <1>1, <1>2, <2>1 DEF Numbering
<1>5. \A i \in 2..Len(hnd'[h].todo) : hnd'[h].todo[i].kind # "stdout"
  BY <1>1 DEF Duties
<1> QED
  BY <1>1, <1>2, <1>3, <1>4, <1>5, OtherDuty

(* The number is saved, and the handler turns to its next message. *)
LEMMA PersistTale ==
    ASSUME Shape, LineInv, Duties, Accounts,
           NEW log \in Records, NEW at \in Numbers, NEW t \in Nat, Tale(log, at, t),
           NEW h \in Handlers, PersistSeq(h)
    PROVE  Duties' /\ Accounts' /\ Tale(log, at, t)'
<1>1. /\ hnd[h].pc = "persist"
      /\ \/ hnd'[h] = Idle
         \/ hnd'[h].pc \in {"inject", "stamp"} /\ hnd'[h].todo = Tail(hnd[h].todo)
      /\ counter # 0 => hnd'[h].pc # "inject"
      /\ \A g \in Handlers \ {h} : hnd'[g] = hnd[g]
  BY PersistEffect
<1>2. up /\ up' /\ UNCHANGED <<job, worker, counter, queue, hist, net, buf, cl>>
  BY DEF PersistSeq, pumps, client
<1>3. hnd[h].todo \in Seq(Message) /\ hnd[h].todo # <<>> /\ hnd'[h].todo \in Seq(Message)
      /\ (hnd'[h].pc # "idle" => hnd'[h].todo # <<>>)
  <2>1. Shape'
    BY PersistEffect
  <2> QED
    BY <1>1, <2>1, HandlerFields DEF Shape, ServerShape, HandlerStates
<1>4. \A i \in 1..Len(hnd'[h].todo) :
        /\ i + 1 \in 2..Len(hnd[h].todo) /\ hnd'[h].todo[i] = hnd[h].todo[i + 1]
  <2>1. CASE hnd'[h] = Idle
    BY <2>1 DEF Idle
  <2>2. CASE hnd'[h].todo = Tail(hnd[h].todo)
    BY <1>3, <2>2
  <2> QED
    BY <1>1, <2>1, <2>2
<1>5. ~Carries(h) /\ ~Carries(h)'
  <2>1. ~Carries(h)
    BY <1>1 DEF Carries
  <2>2. CASE hnd'[h] = Idle
    BY <2>1, <2>2 DEF Carries, Idle
  <2>3. CASE hnd'[h].pc \in {"inject", "stamp"}
    <3>1. hnd'[h].todo # <<>> /\ Head(hnd'[h].todo) = hnd'[h].todo[1] /\ 1 \in 1..Len(hnd'[h].todo)
      BY <1>3, <2>3, TailType
    <3>2. hnd'[h].todo[1].kind # "stdout"
      BY <1>4, <3>1 DEF Duties
    <3> QED
      BY <2>1, <3>1, <3>2 DEF Carries
  <2> QED
    BY <1>1, <2>1, <2>2, <2>3
<1>6. \A i \in 2..Len(hnd'[h].todo) : hnd'[h].todo[i].kind # "stdout"
  BY <1>4 DEF Duties
<1>7. Live' => Numbering(t)'
  <2> SUFFICES ASSUME Live', job = "running" PROVE Numbering(t)'
    BY <1>2 DEF Numbering
  <2>1. Numbering(t) /\ hist.sent # 0
    BY <1>1, <1>2 DEF Live, Tale, Numbering
  <2>2. \A g \in Handlers : \A i \in 1..Len(hnd'[g].todo) :
          hnd'[g].todo[i].kind \in {"stdout", "stderr", "progress"}
    <3>0. \A i \in 1..Len(hnd[h].todo) : hnd[h].todo[i].kind \in {"stdout", "stderr", "progress"}
      BY <2>1 DEF Numbering
    <3>1. \A i \in 1..Len(hnd'[h].todo) : hnd'[h].todo[i].kind \in {"stdout", "stderr", "progress"}
      <4> SUFFICES ASSUME NEW i \in 1..Len(hnd'[h].todo)
                   PROVE  hnd'[h].todo[i].kind \in {"stdout", "stderr", "progress"}
        OBVIOUS
      <4> DEFINE j == i + 1
      <4>1. hnd'[h].todo[i] = hnd[h].todo[j] /\ j \in 2..Len(hnd[h].todo)
        BY <1>4
      <4> HIDE DEF j
      <4>2. j \in 1..Len(hnd[h].todo)
        BY <4>1
      <4> QED
        BY <3>0, <4>1, <4>2
    <3> QED
      BY <1>1, <2>1, <3>1 DEF Numbering
  <2> QED
    BY <1>1, <1>2, <2>1, <2>2 DEF Numbering
<1> QED
  BY <1>1, <1>2, <1>5, <1>6, <1>7, OtherDuty

(* SendStdoutChunk. *)
LEMMA PostTale ==
    ASSUME Shape, LineInv, Duties, Accounts,
           NEW log \in Records, NEW at \in Numbers, NEW t \in Nat, Tale(log, at, t), PostStdout
    PROVE  Duties' /\ Accounts' /\ Tale(log, at, t)'
<1> DEFINE c == Chunk(worker.chunks + 1)
           m == [Msg("stdout") EXCEPT !.chunk = c]
<1>1. /\ Serve("out", <<m>>) /\ UNCHANGED <<job, events>> /\ job = "running"
      /\ worker' = [worker EXCEPT !.chunks = @ + 1]
  BY DEF PostStdout
<1>2. /\ Reached \in Positions /\ Reached.attempt = worker.attempt /\ Reached.n = worker.chunks
      /\ worker.attempt \in Nat /\ worker.chunks \in Nat /\ hist.sent \in Nat
      /\ hist.unanswered \subseteq Positions /\ worker \in WorkerStates
  BY ReachedType
<1>3. c \in Positions /\ c.attempt = worker.attempt /\ c.n = worker.chunks + 1
  BY <1>2, SentChunk
<1>4. m \in Message /\ m.kind = "stdout" /\ m.chunk = c
  BY <1>3, ChunkType
<1>5. /\ worker'.attempt = worker.attempt /\ worker'.chunks = worker.chunks + 1
      /\ worker'.sendErr = worker.sendErr /\ Reached' = c
  BY <1>1, <1>2 DEF WorkerStates, Reached, Chunk
<1> HIDE DEF m, c
<1>6. <<m>> \in Seq(Message) /\ <<m>> # <<>> /\ Head(<<m>>) = m /\ Len(<<m>>) = 1 /\ <<m>>[1] = m
  BY <1>4
<1>7. "out" \in Handlers
  BY DEF Handlers
<1>8. /\ up /\ up' = up /\ hnd["out"].pc = "idle"
      /\ hnd'["out"].todo = <<m>> /\ hnd'["out"].pc \in {"inject", "stamp"}
      /\ counter # 0 \/ row = 0 => hnd'["out"].pc = "stamp"
      /\ \A g \in Handlers \ {"out"} : hnd'[g] = hnd[g]
      /\ UNCHANGED <<counter, row, queue, hist, buf, net, cl>>
  BY <1>1, <1>6, <1>7, ServeEffect
<1>9. ~Carries("out") /\ Carries("out")' /\ Load("out")' = c
  BY <1>4, <1>6, <1>8 DEF Carries, Load
<1>10. \A g \in Handlers \ {"out"} : Carries(g)' = Carries(g) /\ Load(g)' = Load(g)
  BY <1>8, SameLoad
<1>11. Before(Reached, c) /\ UpTo(Reached, c)
  BY <1>2, <1>3 DEF Before, UpTo
<1>12. \A p \in Positions : UpTo(p, Reached) => UpTo(p, c) /\ Before(p, c) /\ p # c
  <2> SUFFICES ASSUME NEW p \in Positions, UpTo(p, Reached) PROVE UpTo(p, c) /\ Before(p, c) /\ p # c
    OBVIOUS
  <2>1. UpTo(p, c) /\ Before(p, c)
    BY <1>2, <1>3, <1>11, UpToThenOn
  <2> QED
    BY <1>3, <2>1 DEF Before, Positions
<1>13. \A g \in Handlers \ {"out"} : Carries(g) => UpTo(Load(g), c) /\ Load(g) # c
  BY <1>12, LoadType DEF Duties
<1>14. Duties'
  <2>1. \A g \in Handlers : \A i \in 2..Len(hnd'[g].todo) : hnd'[g].todo[i].kind # "stdout"
    BY <1>6, <1>8 DEF Duties
  <2>2. \A g \in Handlers : Carries(g)' => g # "side" /\ UpTo(Load(g)', c) /\ Load(g)'.n > 0
    BY <1>2, <1>3, <1>9, <1>10, <1>13 DEF Duties, UpTo
  <2>3. \A g \in Handlers \ {"out"} : Carries(g)' => Load(g)' \in hist.unanswered
    BY <1>10 DEF Duties
  <2>4. \A f, g \in Handlers : f # g /\ Carries(f)' /\ Carries(g)' => Load(f)' # Load(g)'
    BY <1>9, <1>10, <1>13 DEF Duties
  <2> QED
    BY <1>5, <1>8, <1>9, <2>1, <2>2, <2>3, <2>4 DEF Duties, UpTo, Before
<1>15. Accounts'
  BY <1>1, <1>5, <1>8 DEF Accounts
<1>16. Behind(log)'
  <2>1. \A i \in 1..hist.sent : log[i].n > 0 => UpTo(log[i], Reached) /\ log[i] \in Positions
    BY <1>2 DEF Tale, Behind, Records
  <2>2. \A i \in 1..hist.sent : log[i].n > 0 => UpTo(log[i], c) /\ log[i] # c
    BY <1>12, <2>1
  <2>3. \A i \in 1..hist.sent : log[i].n > 0 => \A g \in Handlers : Carries(g)' => log[i] # Load(g)'
    BY <1>9, <1>10, <2>2 DEF Tale, Behind
  <2> QED
    BY <1>5, <1>8, <2>2, <2>3 DEF Behind, UpTo, Before
<1>17. Complete(log)'
  <2> SUFFICES ASSUME NEW d \in Positions, d.attempt = worker.attempt, d.n > 0, d.n <= worker.chunks + 1
               PROVE  d \in hist.unanswered \/ (\E i \in 1..hist.sent : log[i] = d) \/ d = c
    BY <1>5, <1>8, <1>9 DEF Complete
  <2>1. CASE d.n <= worker.chunks
    BY <1>1, <1>9, <2>1 DEF Tale, Complete
  <2>2. CASE d.n = worker.chunks + 1
    BY <1>3, <2>2 DEF Positions
  <2> QED
    BY <1>2, <2>1, <2>2 DEF Positions
<1>18. Live' => Live /\ Numbering(t)'
  <2> SUFFICES ASSUME Live' PROVE Live /\ Numbering(t)'
    OBVIOUS
  <2>1. Live /\ Numbering(t)
    BY <1>1, <1>8 DEF Live, Tale
  <2>2. \A h \in Handlers : \A i \in 1..Len(hnd'[h].todo) :
          hnd'[h].todo[i].kind \in {"stdout", "stderr", "progress"}
    BY <1>1, <1>4, <1>6, <1>8, <2>1 DEF Numbering
  <2>3. hist.sent = 0 => row = 0 /\ \A h \in Handlers : hnd'[h].pc \in {"idle", "stamp"}
    BY <1>1, <1>8, <2>1 DEF Numbering
  <2> QED
    BY <1>1, <1>8, <2>1, <2>2, <2>3 DEF Numbering
<1>19. Line' = Line /\ UNCHANGED Memory
  BY <1>8 DEF Line, Memory
<1> QED
  BY <1>8, <1>14, <1>15, <1>16, <1>17, <1>18, <1>19, HandlersStep

(* A chunk that is lost, and a report that goes on without its sender: the *)
(* chunk joins those nobody is sure of.  The next worker starts behind it.  *)
LEMMA GiveUpTale ==
    ASSUME Shape, LineInv, Duties, Accounts,
           NEW log \in Records, NEW at \in Numbers, NEW t \in Nat, Tale(log, at, t),
           PostFails \/ LoseAnswer \/ Migrate
    PROVE  Duties' /\ Accounts' /\ Tale(log, at, t)'
<1>1. /\ Reached \in Positions /\ Reached.attempt = worker.attempt /\ Reached.n = worker.chunks
      /\ worker.attempt \in Nat /\ worker.chunks \in Nat /\ hist.sent \in Nat
      /\ hist.unanswered \subseteq Positions /\ worker \in WorkerStates /\ hist \in Histories
  BY ReachedType DEF Shape, ServerShape
<1>2. "out" \in Handlers
  BY DEF Handlers
<1>3. /\ Line' = Line /\ UNCHANGED <<Memory, job, up, counter, row>>
      /\ hist'.sent = hist.sent /\ hist'.stopped = hist.stopped
      /\ hist.unanswered \subseteq hist'.unanswered
      /\ job = "running" \/ (PostFails /\ ~up)
  <2>1. UNCHANGED <<job, up, counter, row, queue, buf, net, cl>> /\ (job = "running" \/ (PostFails /\ ~up))
    BY DEF PostFails, LoseAnswer, Migrate, pumps, client
  <2>2. PICK u \in {hist.unanswered} \cup {hist.unanswered \cup {Chunk(n)} : n \in Nat} :
          hist' = [hist EXCEPT !.unanswered = u]
    <3>1. CASE UNCHANGED hist
      BY <1>1, <3>1 DEF Histories
    <3>2. worker.chunks + 1 \in Nat
      BY <1>1
    <3> QED
      BY <1>1, <3>1, <3>2 DEF PostFails, LoseAnswer, Migrate, Abandon
  <2> QED
    BY <1>1, <2>1, <2>2 DEF Line, Memory, Histories
<1>4. \A h \in Handlers : hnd[h].pc = "idle" => ~Carries(h)
  BY DEF Carries
<1>5. ASSUME UNCHANGED hnd, hnd["out"].pc = "idle", Reached' \in Positions, Before(Reached, Reached'),
             Accounts', Complete(log)'
      PROVE  Duties' /\ Accounts' /\ Tale(log, at, t)'
  <2>1. \A h \in Handlers : Carries(h)' = Carries(h) /\ Load(h)' = Load(h)
    BY <1>5, SameLoad
  <2>2. ~Carries("out") /\ ~Carries("out")'
    BY <1>2, <1>4, <1>5, <2>1
  <2>3. UpTo(Reached, Reached')
    BY <1>5 DEF UpTo
  <2>4. \A p \in Positions : UpTo(p, Reached) => UpTo(p, Reached')
    BY <1>1, <1>5, <2>3, UpToThenOn
  <2>5. Duties'
    <3>1. \A h \in Handlers : Carries(h)' => h # "side" /\ UpTo(Load(h)', Reached') /\ Load(h)'.n > 0
      BY <2>1, <2>4, LoadType DEF Duties
    <3>2. \A h \in Handlers \ {"out"} : Carries(h)' => Load(h)' \in hist'.unanswered
      BY <1>3, <2>1 DEF Duties
    <3>3. \A f, g \in Handlers : f # g /\ Carries(f)' /\ Carries(g)' => Load(f)' # Load(g)'
      BY <2>1 DEF Duties
    <3>4. \A h \in Handlers : \A i \in 2..Len(hnd'[h].todo) : hnd'[h].todo[i].kind # "stdout"
      BY <1>5 DEF Duties
    <3> QED
      BY <1>3, <1>5, <2>2, <3>1, <3>2, <3>3, <3>4 DEF Duties, UpTo, Before
  <2>6. Behind(log)'
    <3>1. \A i \in 1..hist.sent : log[i].n > 0 => log[i] \in Positions /\ UpTo(log[i], Reached')
      BY <1>1, <2>4 DEF Tale, Behind, Records
    <3> QED
      BY <1>3, <2>1, <3>1 DEF Tale, Behind, UpTo, Before
  <2>7. Live' => Live /\ Numbering(t)'
    <3>1. Live' => Live /\ Numbering(t)
      BY <1>3 DEF Live, Tale
    <3>2. UNCHANGED <<job, counter, row, hnd>> /\ hist'.sent = hist.sent
      BY <1>3, <1>5
    <3> QED
      BY <3>1, <3>2 DEF Numbering
  <2> QED
    BY <1>3, <1>5, <2>5, <2>6, <2>7, HandlersStep
<1>6. CASE PostFails
  <2> DEFINE c == Chunk(worker.chunks + 1)
  <2>1. /\ hnd["out"].pc = "idle" /\ UNCHANGED <<job, hnd>> /\ worker.chunks < Chunks
        /\ worker' = [worker EXCEPT !.chunks = @ + 1, !.sendErr = TRUE]
        /\ hist' = [hist EXCEPT !.unanswered = @ \cup {c}]
    BY <1>6 DEF PostFails
  <2>2. c \in Positions /\ c.attempt = worker.attempt /\ c.n = worker.chunks + 1
    BY <1>1, SentChunk
  <2>3. /\ worker'.attempt = worker.attempt /\ worker'.chunks = worker.chunks + 1 /\ worker'.sendErr
        /\ Reached' = c
    BY <1>1, <2>1 DEF WorkerStates, Reached, Chunk
  <2> HIDE DEF c
  <2>4. hist'.unanswered = hist.unanswered \cup {c} /\ hist'.sent = hist.sent
    BY <2>1, <2>2, Unheard
  <2>5. Before(Reached, c)
    BY <1>1, <2>2 DEF Before
  <2>6. ~Carries("out") /\ ~Carries("out")'
    BY <1>2, <1>4, <2>1, SameLoad
  <2>7. Accounts'
    <3>1. \A d \in hist.unanswered \cup {c} : d.attempt <= worker.attempt
      BY <1>1, <2>2 DEF Accounts
    <3>2. job # "completed"
      BY <1>1, <2>1, Bounds DEF Accounts
    <3> QED
      BY <2>1, <2>3, <2>4, <3>1, <3>2 DEF Accounts
  <2>8. Complete(log)'
    <3> SUFFICES ASSUME job = "running", NEW d \in Positions, d.attempt = worker.attempt, d.n > 0,
                        d.n <= worker.chunks + 1
                 PROVE  d \in hist.unanswered \cup {c} \/ \E i \in 1..hist.sent : log[i] = d
      BY <2>1, <2>3, <2>4, <2>6 DEF Complete
    <3>1. CASE d.n <= worker.chunks
      BY <2>6, <3>1 DEF Tale, Complete
    <3>2. CASE d.n = worker.chunks + 1
      BY <2>2, <3>2 DEF Positions
    <3> QED
      BY <1>1, <3>1, <3>2 DEF Positions
  <2> QED
    BY <1>5, <2>1, <2>2, <2>3, <2>5, <2>7, <2>8
<1>7. ASSUME Migrate, hnd["out"].pc = "idle"
      PROVE  Duties' /\ Accounts' /\ Tale(log, at, t)'
  <2>1. /\ UNCHANGED <<hnd, hist, job>> /\ job = "running"
        /\ worker' = [worker EXCEPT !.attempt = @ + 1, !.chunks = 0, !.sendErr = FALSE]
    BY <1>7 DEF Migrate
  <2>2. /\ worker'.attempt = worker.attempt + 1 /\ worker'.chunks = 0
        /\ Reached' = [attempt |-> worker.attempt + 1, n |-> 0]
    BY <1>1, <2>1 DEF WorkerStates, Reached, Chunk
  <2>3. Reached' \in Positions /\ Before(Reached, Reached')
    BY <1>1, <2>2 DEF Before, Positions
  <2>4. Accounts'
    <3>1. \A d \in hist.unanswered : d.attempt \in Nat /\ d.attempt <= worker.attempt
      BY <1>1 DEF Accounts, Positions
    <3>2. \A d \in hist.unanswered : d.attempt <= worker'.attempt /\ d.attempt # worker'.attempt
      BY <1>1, <2>2, <3>1
    <3> QED
      BY <2>1, <3>2 DEF Accounts
  <2>5. Complete(log)'
    BY <2>2 DEF Complete, Positions
  <2> QED
    BY <1>5, <1>7, <2>1, <2>3, <2>4, <2>5
<1>8. ASSUME NEW s \in Strays, Abandon(s), job = "running", LoseAnswer \/ Migrate
      PROVE  Duties' /\ Accounts' /\ Tale(log, at, t)'
  <2>1. /\ s \in Handlers \ {"out", "side"} /\ hnd[s].pc = "idle"
        /\ hnd'[s] = hnd["out"] /\ hnd'["out"] = Idle
        /\ \A g \in Handlers \ {s, "out"} : hnd'[g] = hnd[g]
        /\ hist'.unanswered = hist.unanswered \cup {Reached}
    BY <1>8, AbandonType DEF Reached
  <2>2. /\ worker'.attempt \in {worker.attempt, worker.attempt + 1}
        /\ worker'.attempt = worker.attempt => worker'.chunks = worker.chunks /\ worker'.sendErr
        /\ worker'.attempt = worker.attempt + 1 => worker'.chunks = 0
        /\ Reached' = [attempt |-> worker'.attempt, n |-> worker'.chunks]
    <3>1. CASE worker' = [worker EXCEPT !.sendErr = TRUE]
      BY <1>1, <3>1 DEF WorkerStates, Reached, Chunk
    <3>2. CASE worker' = [worker EXCEPT !.attempt = @ + 1, !.chunks = 0, !.sendErr = FALSE]
      BY <1>1, <3>2 DEF WorkerStates, Reached, Chunk
    <3> QED
      BY <1>8, <3>1, <3>2 DEF LoseAnswer, Migrate
  <2>3. Reached' \in Positions /\ UpTo(Reached, Reached')
    BY <1>1, <2>2 DEF Before, Positions, UpTo, Reached, Chunk
  <2>4. \A p \in Positions : UpTo(p, Reached) => UpTo(p, Reached')
    BY <1>1, <2>3, UpToThenOn
  <2>5. /\ ~Carries("out")' /\ Carries(s)' = Carries("out") /\ Load(s)' = Load("out") /\ ~Carries(s)
        /\ \A g \in Handlers \ {s, "out"} : Carries(g)' = Carries(g) /\ Load(g)' = Load(g)
    BY <2>1 DEF Carries, Load, Idle
  <2>6. Carries("out") => Load("out") = Reached
    BY DEF Duties
  <2>7. Duties'
    <3>1. \A h \in Handlers : Carries(h)' => h # "side" /\ UpTo(Load(h)', Reached') /\ Load(h)'.n > 0
      BY <1>2, <2>1, <2>4, <2>5, LoadType DEF Duties
    <3>2. \A h \in Handlers \ {"out"} : Carries(h)' => Load(h)' \in hist'.unanswered
      BY <2>1, <2>5, <2>6 DEF Duties
    <3>3. \A f, g \in Handlers : f # g /\ Carries(f)' /\ Carries(g)' => Load(f)' # Load(g)'
      BY <1>2, <2>1, <2>5 DEF Duties
    <3>4. \A h \in Handlers : \A i \in 2..Len(hnd'[h].todo) : hnd'[h].todo[i].kind # "stdout"
      BY <1>2, <2>1 DEF Duties, Idle
    <3>5. up'
      BY <1>3, <1>8 DEF LoseAnswer, Migrate
    <3> QED
      BY <2>5, <3>1, <3>2, <3>3, <3>4, <3>5 DEF Duties, UpTo, Before
  <2>8. Accounts'
    <3>1. \A d \in hist'.unanswered : d.attempt \in Nat /\ d.attempt <= worker.attempt
      BY <1>1, <2>1 DEF Accounts, Positions
    <3>2. \A d \in hist'.unanswered :
            d.attempt <= worker'.attempt /\ (d.attempt = worker'.attempt => worker'.sendErr)
      BY <1>1, <2>2, <3>1
    <3> QED
      BY <1>3, <1>8, <3>2 DEF Accounts
  <2>9. Behind(log)'
    <3>1. \A i \in 1..hist.sent : log[i].n > 0 => log[i] \in Positions /\ UpTo(log[i], Reached')
      BY <1>1, <2>4 DEF Tale, Behind, Records
    <3>2. \A i \in 1..hist.sent : log[i].n > 0 => \A g \in Handlers : Carries(g)' => log[i] # Load(g)'
      BY <1>2, <2>5 DEF Tale, Behind
    <3> QED
      BY <1>3, <3>1, <3>2 DEF Behind, UpTo, Before
  <2>10. Complete(log)'
    <3> SUFFICES ASSUME NEW d \in Positions, d.attempt = worker'.attempt, d.n > 0, d.n <= worker'.chunks
                 PROVE  d \in hist'.unanswered \/ \E i \in 1..hist.sent : log[i] = d
      BY <1>3, <2>5 DEF Complete
    <3>1. worker'.attempt = worker.attempt /\ worker'.chunks = worker.chunks
      BY <1>1, <2>2 DEF Positions
    <3> QED
      BY <1>8, <2>1, <3>1 DEF Tale, Complete
  <2>11. Live' => Live /\ Numbering(t)'
    <3> SUFFICES ASSUME Live' PROVE Live /\ Numbering(t)'
      OBVIOUS
    <3>1. Live /\ Numbering(t)
      BY <1>3 DEF Live, Tale
    <3>2. \A h \in Handlers : \A i \in 1..Len(hnd'[h].todo) :
            hnd'[h].todo[i].kind \in {"stdout", "stderr", "progress"}
      BY <1>2, <1>8, <2>1, <3>1 DEF Numbering, Idle
    <3>3. hist.sent = 0 => row = 0 /\ \A h \in Handlers : hnd'[h].pc \in {"idle", "stamp"}
      BY <1>2, <1>8, <2>1, <3>1 DEF Numbering, Idle
    <3> QED
      BY <1>3, <1>8, <3>1, <3>2, <3>3 DEF Numbering
  <2> QED
    BY <1>3, <2>7, <2>8, <2>9, <2>10, <2>11, HandlersStep
<1>9. CASE LoseAnswer
  BY <1>8, <1>9 DEF LoseAnswer
<1>10. CASE Migrate
  BY <1>7, <1>8, <1>10 DEF Migrate
<1> QED
  BY <1>6, <1>9, <1>10

(* A message gets its number: the record grows by its chunk. *)
LEMMA StampTale ==
    ASSUME Shape, LineInv, Duties, Accounts,
           NEW log \in Records, NEW at \in Numbers, NEW t \in Nat, Tale(log, at, t),
           NEW h \in Handlers, Stamp(h)
    PROVE  /\ Duties' /\ Accounts'
           /\ \E g \in Records, u \in Nat : Tale(g, at, u)'
<1> DEFINE msg == Head(hnd[h].todo)
<1>1. /\ hnd[h].pc = "stamp" /\ hnd[h].todo # <<>> /\ msg \in Message
      /\ hnd'[h].pc = "persist" /\ hnd'[h].todo = hnd[h].todo
      /\ \A g \in Handlers \ {h} : hnd'[g] = hnd[g]
      /\ msg.kind = "release" => UNCHANGED <<queue, hist>>
      /\ msg.kind # "release" => /\ hist'.sent = hist.sent + 1 /\ hist'.stopped = hist.stopped
                                 /\ hist'.unanswered = hist.unanswered
  BY StampEffect
<1>2. /\ up /\ up' /\ UNCHANGED <<job, worker, row, net, buf, cl>>
      /\ counter' = IF msg.kind \in {"complete", "release"} THEN 0 ELSE EnsureSeq + 1
  BY DEF Stamp, pumps, client
<1>3. /\ Reached \in Positions /\ hist.sent \in Nat /\ hist.unanswered \subseteq Positions
      /\ worker.chunks \in Nat /\ Reached' = Reached
      /\ Reached.attempt = worker.attempt /\ Reached.n = worker.chunks
  BY <1>2, ReachedType DEF Reached, Chunk
<1>4. LineInv' /\ \A m \in Line' : \/ m \in Line
                                   \/ /\ msg.kind # "release" /\ m.kind = msg.kind
                                      /\ m.chunk = msg.chunk /\ m.seq = EnsureSeq + 1
                                      /\ m.id = hist.sent + 1
  BY LineStamp
<1>5. /\ Carries(h) = (msg.kind = "stdout") /\ Load(h) = msg.chunk /\ ~Carries(h)'
      /\ \A g \in Handlers \ {h} : Carries(g)' = Carries(g) /\ Load(g)' = Load(g)
  BY <1>1 DEF Carries, Load
<1> HIDE DEF msg
<1>6. "out" \in Handlers /\ "side" \in Handlers /\ hist'.unanswered = hist.unanswered
      /\ hist'.stopped = hist.stopped
  BY <1>1 DEF Handlers
<1>7. Duties'
  <2>1. \A g \in Handlers : Carries(g)' => Carries(g) /\ Load(g)' = Load(g)
    BY <1>5
  <2>2. \A g \in Handlers : Carries(g)' => g # "side" /\ UpTo(Load(g)', Reached) /\ Load(g)'.n > 0
    BY <2>1 DEF Duties
  <2>3. Carries("out")' => Load("out")' = Reached
    BY <1>6, <2>1 DEF Duties
  <2>4. \A g \in Handlers \ {"out"} : Carries(g)' => Load(g)' \in hist.unanswered
    BY <2>1 DEF Duties
  <2>5. \A f, g \in Handlers : f # g /\ Carries(f)' /\ Carries(g)' => Load(f)' # Load(g)'
    BY <2>1 DEF Duties
  <2>6. \A g \in Handlers : \A i \in 2..Len(hnd'[g].todo) : hnd'[g].todo[i].kind # "stdout"
    BY <1>1 DEF Duties
  <2> QED
    BY <1>2, <1>3, <1>6, <2>2, <2>3, <2>4, <2>5, <2>6 DEF Duties, UpTo, Before
<1>8. Accounts'
  BY <1>2, <1>5, <1>6 DEF Accounts
<1>9. Live' = Live /\ UNCHANGED Memory
  BY <1>2, <1>6 DEF Live, Memory
<1>10. CASE msg.kind = "release"
  <2>1. UNCHANGED <<queue, hist>> /\ Line' = Line
    BY <1>1, <1>2, <1>10 DEF Line
  <2>2. ~Carries(h) /\ \A g \in Handlers : Carries(g)' => Carries(g) /\ Load(g)' = Load(g)
    BY <1>5, <1>10
  <2>3. Carries("out")' = Carries("out")
    <3>1. CASE h = "out"
      BY <1>5, <2>2, <3>1 DEF Carries
    <3>2. CASE h # "out"
      BY <1>5, <1>6, <3>2
    <3> QED
      BY <3>1, <3>2
  <2>4. Behind(log)'
    BY <1>3, <2>1, <2>2 DEF Tale, Behind
  <2>5. Complete(log)'
    BY <1>2, <1>3, <2>1, <2>3 DEF Tale, Complete
  <2>6. Live' => Live /\ Numbering(t)'
    <3>1. Live => job # "running"
      <4> SUFFICES ASSUME Live, job = "running" PROVE FALSE
        OBVIOUS
      <4>1. hnd[h].todo \in Seq(Message) /\ hnd[h].todo # <<>>
        BY <1>1, HandlerFields DEF Shape
      <4>2. msg = hnd[h].todo[1] /\ 1 \in 1..Len(hnd[h].todo)
        BY <4>1, TailType DEF msg
      <4> QED
        BY <1>10, <4>2 DEF Tale, Numbering
    <3> QED
      BY <1>2, <1>9, <3>1 DEF Numbering
  <2>7. Tale(log, at, t)'
    BY <1>6, <1>9, <2>1, <2>4, <2>5, <2>6, HandlersStep
  <2> QED
    BY <1>7, <1>8, <2>7
<1>11. CASE msg.kind # "release"
  <2>1. PICK n \in Nat : n = hist.sent + 1
    BY <1>3
  <2>2. PICK c \in Positions : /\ c = IF msg.kind = "stdout" THEN msg.chunk ELSE NoChunk
                              /\ (msg.kind = "stdout" <=> c.n > 0) /\ (Carries(h) => c = Load(h))
    <3>1. CASE msg.kind = "stdout"
      <4>1. msg.chunk \in Positions /\ msg.chunk.n > 0 /\ msg.chunk = Load(h)
        BY <1>5, <3>1, LoadType DEF Duties
      <4> QED
        BY <3>1, <4>1
    <3>2. CASE msg.kind # "stdout"
      <4>1. NoChunk \in Positions /\ ~(NoChunk.n > 0)
        BY DEF NoChunk, Positions
      <4> QED
        BY <1>5, <3>2, <4>1
    <3> QED
      BY <3>1, <3>2
  <2>3. PICK g \in Records : g[n] = c /\ \A i \in Nat \ {n} : g[i] = log[i]
    <3>1. [log EXCEPT ![n] = c] \in Records
      BY DEF Records
    <3> QED
      BY <3>1 DEF Records
  <2>4. PICK u \in Nat : u = IF job = "running" THEN n ELSE t
    OBVIOUS
  <2>0. n > 0 /\ hist'.sent = n /\ t <= hist.sent
    BY <1>1, <1>3, <1>11, <2>1 DEF Tale
  <2>18. hist.sent = n - 1
    BY <1>3, <2>1
  <2>17. \A i \in 1..n : i \in 1..hist.sent \/ i = n
    BY <1>3, <2>1
  <2>5. \A i \in 1..hist.sent : g[i] = log[i] /\ log[i] \in Positions /\ i # n /\ i \in Nat
    BY <1>3, <2>1, <2>3 DEF Records
  <2>6. Carries(h) => /\ \A i \in 1..hist.sent : log[i].n > 0 => log[i] # c
                      /\ h = "out" => c = Reached
                      /\ h # "out" => c \in hist.unanswered
                      /\ UpTo(c, Reached)
    BY <2>2 DEF Tale, Behind, Duties
  <2>7. Forward(g)'
    <3> SUFFICES ASSUME NEW i \in 1..n, NEW k \in 1..n, i < k, g[i].n > 0, g[k].n > 0
                 PROVE  g[i] # g[k] /\ (Before(g[i], g[k]) \/ g[k] \in hist.unanswered)
      BY <1>6, <2>0, <2>1 DEF Forward
    <3>1. i \in 1..hist.sent /\ g[i] = log[i]
      BY <1>3, <2>5, <2>18
    <3>2. CASE k \in 1..hist.sent
      BY <2>5, <3>1, <3>2 DEF Tale, Forward
    <3>3. CASE k = n
      <4>1. g[k] = c /\ Carries(h)
        BY <1>5, <2>2, <2>3, <3>3
      <4>2. log[i] # c /\ UpTo(log[i], Reached)
        BY <2>6, <3>1, <4>1 DEF Tale, Behind
      <4> QED
        BY <2>6, <3>1, <4>1, <4>2 DEF UpTo
    <3> QED
      BY <2>17, <3>2, <3>3
  <2>8. Behind(g)'
    <3> SUFFICES ASSUME NEW i \in 1..n, g[i].n > 0
                 PROVE  UpTo(g[i], Reached) /\ \A f \in Handlers : Carries(f)' => g[i] # Load(f)'
      BY <1>3, <2>0, <2>1 DEF Behind
    <3>1. \A f \in Handlers : Carries(f)' => f # h /\ Carries(f) /\ Load(f)' = Load(f)
      BY <1>5
    <3>2. CASE i \in 1..hist.sent
      BY <2>5, <3>1, <3>2 DEF Tale, Behind
    <3>3. CASE i = n
      <4>1. g[i] = c /\ Carries(h) /\ c = Load(h)
        BY <1>5, <2>2, <2>3, <3>3
      <4> QED
        BY <2>6, <3>1, <4>1 DEF Duties
    <3> QED
      BY <2>17, <3>2, <3>3
  <2>9. Backed(g)'
    <3> SUFFICES ASSUME NEW k \in 1..n, g[k].n > 0, g[k] \notin hist.unanswered,
                        NEW d \in Positions, d.attempt = g[k].attempt, d.n > 0, d.n < g[k].n
                 PROVE  d \in hist.unanswered \/ \E i \in 1..(k - 1) : g[i] = d
      BY <1>6, <2>0, <2>1 DEF Backed
    <3>1. \A i \in 1..(k - 1) : i \in 1..hist.sent /\ g[i] = log[i]
      BY <1>3, <2>5, <2>18
    <3>2. CASE k \in 1..hist.sent
      <4>1. d \in hist.unanswered \/ \E i \in 1..(k - 1) : log[i] = d
        BY <2>5, <3>2 DEF Tale, Backed
      <4> QED
        BY <3>1, <4>1
    <3>3. CASE k = n
      <4>1. g[k] = c /\ Carries(h) /\ h = "out" /\ c = Reached
        BY <1>5, <2>2, <2>3, <2>6, <3>3
      <4>2. d.attempt = worker.attempt /\ d.n <= worker.chunks /\ d # Reached
        BY <1>3, <4>1 DEF Positions
      <4>3. d \in hist.unanswered \/ \E i \in 1..hist.sent : log[i] = d
        BY <4>1, <4>2 DEF Tale, Complete
      <4>4. 1..hist.sent = 1..(k - 1)
        BY <2>18, <3>3
      <4> QED
        BY <3>1, <4>3, <4>4
    <3> QED
      BY <2>17, <3>2, <3>3
  <2>10. Complete(g)'
    <3> SUFFICES ASSUME job = "running" \/ Carries("out")',
                        NEW d \in Positions, d.attempt = worker.attempt, d.n > 0, d.n <= worker.chunks
                 PROVE  \/ d \in hist.unanswered \/ \E i \in 1..n : g[i] = d
                        \/ Carries("out")' /\ d = Reached
      BY <1>2, <1>3, <1>6, <2>0, <2>1 DEF Complete
    <3>1. job = "running" \/ Carries("out")
      BY <1>5, <1>6
    <3>2. \/ d \in hist.unanswered \/ \E i \in 1..hist.sent : log[i] = d
          \/ Carries("out") /\ d = Reached
      BY <3>1 DEF Tale, Complete
    <3>3. CASE \E i \in 1..hist.sent : log[i] = d
      <4>1. PICK i \in 1..hist.sent : log[i] = d
        BY <3>3
      <4>2. i \in 1..n /\ g[i] = d
        BY <1>3, <2>5, <2>18, <4>1
      <4> QED
        BY <4>2
    <3>4. CASE Carries("out") /\ d = Reached /\ h = "out"
      <4>1. g[n] = d /\ n \in 1..n
        BY <2>0, <2>1, <2>3, <2>6, <3>4
      <4> QED
        BY <4>1
    <3>5. CASE Carries("out") /\ d = Reached /\ h # "out"
      BY <1>5, <1>6, <3>5
    <3> QED
      BY <3>2, <3>3, <3>4, <3>5
  <2>11. \A m \in Line' : \/ /\ m \in Line /\ m.id \in 1..hist.sent
                          \/ /\ m.kind = msg.kind /\ m.chunk = msg.chunk
                             /\ m.id = n /\ m.seq = EnsureSeq + 1
    BY <1>4, <2>1 DEF LineInv
  <2>12. OnLine(g)'
    <3> SUFFICES ASSUME NEW m \in Line'
                 PROVE  IF m.kind = "stdout" THEN m.chunk = g[m.id] /\ m.chunk.n > 0 ELSE g[m.id].n = 0
      BY DEF OnLine
    <3>1. CASE m \in Line /\ m.id \in 1..hist.sent
      BY <2>5, <3>1 DEF Tale, OnLine
    <3>2. CASE m.kind = msg.kind /\ m.chunk = msg.chunk /\ m.id = n
      BY <2>2, <2>3, <3>2 DEF NoChunk
    <3> QED
      BY <2>11, <3>1, <3>2
  <2>13. Written(g, at)'
    <3>1. \A j \in cl.heard : j \in 1..hist.sent /\ g[j] = log[j]
      BY <2>5 DEF LineInv
    <3>2. \A i \in 1..Len(cl.got) : at[i] \in cl.heard /\ cl.got[i] = g[at[i]] /\ cl.got[i].n > 0
      BY <3>1 DEF Tale, Written
    <3>3. ~cl.stdoutErr => \A j \in cl.heard : g[j].n > 0 => \E i \in 1..Len(cl.got) : at[i] = j
      BY <3>1 DEF Tale, Written
    <3> QED
      BY <1>2, <3>2, <3>3 DEF Tale, Written
  <2>14. ASSUME Live
         PROVE  Numbering(u)' /\ Settled(g, u)' /\ Numbered(u)' /\ Following(u)'
    <3>1. Numbering(t) /\ Settled(log, t) /\ Numbered(t) /\ Following(t)
      BY <2>14 DEF Tale
    <3>2. job = "running" => msg.kind \in {"stdout", "stderr", "progress"} /\ EnsureSeq = hist.sent
      <4> SUFFICES ASSUME job = "running"
                   PROVE  msg.kind \in {"stdout", "stderr", "progress"} /\ EnsureSeq = hist.sent
        OBVIOUS
      <4>1. hnd[h].todo \in Seq(Message) /\ hnd[h].todo # <<>>
        BY <1>1, HandlerFields DEF Shape
      <4>2. msg = hnd[h].todo[1] /\ 1 \in 1..Len(hnd[h].todo)
        BY <4>1, TailType DEF msg
      <4> QED
        BY <3>1, <4>2 DEF Numbering, EnsureSeq
    <3>3. Numbering(u)'
      <4> SUFFICES ASSUME job = "running" PROVE Numbering(u)'
        BY <1>2 DEF Numbering
      <4>1. u = n /\ counter' = n
        BY <1>2, <2>1, <2>4, <3>2
      <4>2. \A f \in Handlers : \A i \in 1..Len(hnd'[f].todo) :
              hnd'[f].todo[i].kind \in {"stdout", "stderr", "progress"}
        BY <1>1, <3>1 DEF Numbering
      <4> QED
        BY <2>0, <2>1, <4>1, <4>2 DEF Numbering
    <3>4. Settled(g, u)'
      <4> SUFFICES ASSUME NEW k \in 1..n, g[k].n > 0, g[k] \notin hist.unanswered PROVE k <= u
        BY <1>6, <2>0, <2>1 DEF Settled
      <4>1. CASE job = "running"
        BY <2>0, <2>1, <4>1, <2>4
      <4>2. CASE job # "running" /\ k \in 1..hist.sent
        BY <2>5, <3>1, <4>2, <2>4 DEF Settled
      <4>3. CASE job # "running" /\ k = n
        <5>1. g[k] = c /\ Carries(h) /\ h = "out"
          BY <1>5, <2>2, <2>3, <2>6, <4>3
        <5>2. job = "completed"
          BY <2>14, <4>3 DEF Live, Shape, ServerShape
        <5> QED
          BY <5>1, <5>2 DEF Accounts
      <4> QED
        BY <2>17, <4>1, <4>2, <4>3
    <3>5. Numbered(u)'
      <4> SUFFICES ASSUME NEW m \in Line', m.id <= u PROVE m.seq = m.id /\ m.kind # "status"
        BY DEF Numbered
      <4>1. CASE m \in Line /\ m.id \in 1..hist.sent
        <5>1. m.id <= t
          BY <1>3, <3>1, <4>1, <2>4 DEF Numbering
        <5> QED
          BY <3>1, <4>1, <5>1 DEF Numbered
      <4>2. CASE m.kind = msg.kind /\ m.id = n /\ m.seq = EnsureSeq + 1
        <5>1. job = "running"
          BY <1>3, <2>0, <2>1, <2>4, <4>2
        <5> QED
          BY <2>1, <3>2, <4>2, <5>1
      <4> QED
        BY <2>11, <4>1, <4>2
    <3>6. Following(u)'
      <4>1. \A j \in cl.heard : j \in Nat /\ j <= hist.sent
        BY <1>3 DEF LineInv
      <4>2. \A j \in cl.heard : j <= u <=> j <= t
        BY <2>0, <2>1, <3>1, <4>1, <2>4 DEF Numbering
      <4> QED
        BY <1>2, <3>1, <4>2 DEF Following
    <3> QED
      BY <3>3, <3>4, <3>5, <3>6
  <2>15. u <= hist'.sent
    BY <1>3, <2>0, <2>1, <2>4
  <2>16. Tale(g, at, u)'
    BY <1>9, <2>7, <2>8, <2>9, <2>10, <2>12, <2>13, <2>14, <2>15 DEF Tale
  <2> QED
    BY <1>7, <1>8, <2>0, <2>1, <2>3, <2>16
<1> QED
  BY <1>10, <1>11

(* The server process stops: what the worker was posting has no answer. *)
LEMMA StopTale ==
    ASSUME Shape, LineInv, Duties, Accounts,
           NEW log \in Records, NEW at \in Numbers, NEW t \in Nat, Tale(log, at, t),
           NEW kind, NEW closing \in Closing, StopServer(kind, closing)
    PROVE  Duties' /\ Accounts' /\ Tale(log, at, t)'
<1> DEFINE posting == hnd["out"].pc # "idle" /\ job = "running"
<1>1. /\ hist'.stopped = TRUE /\ hist'.sent = hist.sent /\ hnd' = [h \in Handlers |-> Idle]
      /\ posting => worker'.sendErr /\ hist'.unanswered = hist.unanswered \cup {Reached}
      /\ ~posting => worker'.sendErr = worker.sendErr /\ hist'.unanswered = hist.unanswered
      /\ worker'.attempt = worker.attempt /\ worker'.chunks = worker.chunks
      /\ UNCHANGED <<job, row, cl>>
  BY StopShape DEF Reached, client
<1>2. /\ Reached \in Positions /\ Reached.attempt = worker.attempt /\ Reached.n = worker.chunks
      /\ worker.attempt \in Nat /\ hist.unanswered \subseteq Positions
  BY ReachedType
<1>3. Reached' = Reached
  BY <1>1 DEF Reached, Chunk
<1>4. \A h \in Handlers : hnd'[h] = Idle /\ ~Carries(h)' /\ Len(hnd'[h].todo) = 0
  BY <1>1 DEF Carries, Idle
<1>5. "out" \in Handlers /\ (hnd["out"].pc = "idle" => ~Carries("out"))
  BY DEF Handlers, Carries
<1>6. hist.unanswered \subseteq hist'.unanswered
  BY <1>1
<1>7. Duties'
  BY <1>1, <1>4, <1>5 DEF Duties
<1>8. Accounts'
  <2>1. \A c \in hist'.unanswered :
          c.attempt <= worker'.attempt /\ (c.attempt = worker'.attempt => worker'.sendErr)
    <3>1. CASE posting
      BY <1>1, <1>2, <3>1 DEF Accounts
    <3>2. CASE ~posting
      BY <1>1, <3>2 DEF Accounts
    <3> QED
      BY <3>1, <3>2
  <2> QED
    BY <1>1, <1>4, <1>5, <2>1 DEF Accounts
<1>9. Behind(log)'
  BY <1>1, <1>3, <1>4 DEF Tale, Behind
<1>10. Complete(log)'
  <2> SUFFICES ASSUME job = "running", NEW d \in Positions, d.attempt = worker.attempt, d.n > 0,
                      d.n <= worker.chunks
               PROVE  d \in hist'.unanswered \/ \E i \in 1..hist.sent : log[i] = d
    BY <1>1, <1>4, <1>5 DEF Complete
  <2>1. \/ d \in hist.unanswered \/ \E i \in 1..hist.sent : log[i] = d
        \/ Carries("out") /\ d = Reached
    BY DEF Tale, Complete
  <2> QED
    BY <1>1, <1>5, <1>6, <2>1
<1>11. ~Live' /\ UNCHANGED Memory
  BY <1>1 DEF Live, Memory
<1>12. Line' \subseteq Line
  BY LineStop
<1> QED
  BY <1>1, <1>6, <1>7, <1>8, <1>9, <1>10, <1>11, <1>12, HandlersStep

(* The client reads a message: what it has heard and written grows. *)
LEMMA HandleTale ==
    ASSUME Shape, LineInv, Duties, Accounts,
           NEW log \in Records, NEW at \in Numbers, NEW t \in Nat, Tale(log, at, t), HandleMessage
    PROVE  Duties' /\ Accounts' /\ \E b \in Numbers : Tale(log, b, t)'
<1> DEFINE msg == Head(net)
<1>1. /\ msg \in Message /\ UNCHANGED server
      /\ cl'.sawMessage /\ cl'.terminalSeen = (cl.terminalSeen \/ msg.kind = "status")
      /\ cl'.lastSeq = IF \/ ~cl.sawMessage \/ cl.terminalSeen \/ msg.kind = "status"
                          \/ (msg.seq = 1 /\ cl.lastSeq > 1) \/ msg.seq > cl.lastSeq
                       THEN msg.seq ELSE cl.lastSeq
      /\ cl'.gap = (cl.gap \/ (cl.sawMessage /\ ~(cl.terminalSeen \/ msg.kind = "status")
                               /\ \/ msg.seq = 1 /\ cl.lastSeq > 1 /\ cl.sawData
                                  \/ msg.seq > cl.lastSeq + 1))
      /\ cl'.heard = cl.heard \cup {msg.id}
      /\ cl.stdoutErr => cl'.stdoutErr
      /\ \/ cl'.got = cl.got /\ (msg.kind # "stdout" \/ cl'.stdoutErr)
         \/ cl'.got = Append(cl.got, msg.chunk) /\ msg.kind = "stdout"
  BY HandleEffect
<1>2. LineInv' /\ Line' \subseteq Line /\ msg \in Line
  BY LineHandle
<1>3. UNCHANGED <<up, job, worker, hnd, counter, row, hist>>
  BY <1>1 DEF server
<1>4. /\ cl.got \in Seq(Positions) /\ Len(cl.got) \in Nat /\ cl.lastSeq \in Nat
      /\ cl.heard \subseteq Nat /\ cl.sawMessage \in BOOLEAN
      /\ hist.sent \in Nat /\ msg.id \in 1..hist.sent /\ msg.seq \in Nat /\ msg.chunk \in Positions
  <2>1. cl \in ClientStates /\ hist.sent \in Nat
    BY ReachedType DEF Shape, ClientShape
  <2>2. /\ cl.got \in Seq(Positions) /\ cl.lastSeq \in Nat /\ cl.heard \subseteq Nat
        /\ cl.sawMessage \in BOOLEAN
    BY <2>1 DEF ClientStates
  <2>3. msg.id \in 1..hist.sent
    BY <1>2 DEF LineInv
  <2>4. msg.seq \in Nat /\ msg.chunk \in Positions
    <3> HIDE DEF msg
    <3> QED
      BY <1>1 DEF Message, Positions
  <2> QED
    BY <2>1, <2>2, <2>3, <2>4
<1>5. PICK j \in Nat : j = msg.id
  BY <1>4
<1>6. PICK l \in Nat : l = Len(cl.got) + 1
  BY <1>4
<1>7. PICK b \in Numbers : b[l] = j /\ \A i \in Nat \ {l} : b[i] = at[i]
  <2>1. [at EXCEPT ![l] = j] \in Numbers
    BY DEF Numbers
  <2> QED
    BY <2>1 DEF Numbers
<1>8. \A i \in cl.heard : i < j /\ i \in Nat
  BY <1>2, <1>4, <1>5 DEF LineInv
<1>9. IF msg.kind = "stdout" THEN msg.chunk = log[j] /\ msg.chunk.n > 0 ELSE log[j].n = 0
  BY <1>2, <1>5 DEF Tale, OnLine
<1> HIDE DEF msg
<1>10. Duties' /\ Accounts' /\ (Live' = Live)
  BY <1>3 DEF Duties, Accounts, Carries, Load, Reached, Chunk, Live
<1>11. Forward(log)' /\ Behind(log)' /\ Backed(log)' /\ Complete(log)'
  <2>1. Forward(log)'
    BY <1>3 DEF Tale, Forward
  <2>2. Behind(log)' /\ Complete(log)'
    BY <1>3 DEF Tale, Behind, Complete, Carries, Load, Reached, Chunk
  <2>3. Backed(log)'
    BY <1>3 DEF Tale, Backed
  <2> QED
    BY <2>1, <2>2, <2>3
<1>12. OnLine(log)'
  BY <1>2 DEF Tale, OnLine
<1>13. Written(log, b)'
  <2>1. \A i \in 1..Len(cl.got) : b[i] = at[i] /\ i # l
    BY <1>4, <1>6, <1>7
  <2>2. /\ \A i \in 1..Len(cl.got) : b[i] \in cl.heard /\ cl.got[i] = log[b[i]] /\ cl.got[i].n > 0
        /\ \A i, k \in 1..Len(cl.got) : i < k => b[i] < b[k]
        /\ ~cl.stdoutErr =>
             \A q \in cl.heard : log[q].n > 0 => \E i \in 1..Len(cl.got) : b[i] = q
    BY <2>1 DEF Tale, Written
  <2>3. CASE cl'.got = cl.got /\ (msg.kind # "stdout" \/ cl'.stdoutErr)
    <3>1. \A i \in 1..Len(cl.got) : b[i] \in cl'.heard
      BY <1>1, <2>2
    <3>2. ~cl'.stdoutErr => \A q \in cl'.heard : log[q].n > 0 => \E i \in 1..Len(cl.got) : b[i] = q
      BY <1>1, <1>5, <1>9, <2>2, <2>3
    <3> QED
      BY <2>2, <2>3, <3>1, <3>2 DEF Written
  <2>4. CASE cl'.got = Append(cl.got, msg.chunk) /\ msg.kind = "stdout"
    <3>1. /\ Len(cl'.got) = l /\ cl'.got[l] = msg.chunk /\ l \in 1..l
          /\ \A i \in 1..Len(cl.got) : cl'.got[i] = cl.got[i] /\ i \in 1..l
      BY <1>4, <1>6, <2>4
    <3>2. \A i \in 1..l : i = l \/ i \in 1..Len(cl.got)
      BY <1>4, <1>6
    <3>3. \A i \in 1..l : b[i] \in cl'.heard /\ cl'.got[i] = log[b[i]] /\ cl'.got[i].n > 0
      BY <1>1, <1>5, <1>7, <1>9, <2>2, <2>4, <3>1, <3>2
    <3>4. \A i, k \in 1..l : i < k => b[i] < b[k]
      <4> SUFFICES ASSUME NEW i \in 1..l, NEW k \in 1..l, i < k PROVE b[i] < b[k]
        OBVIOUS
      <4>1. i \in 1..Len(cl.got)
        BY <1>4, <1>6
      <4>2. CASE k = l
        BY <1>7, <1>8, <2>2, <4>1, <4>2
      <4>3. CASE k \in 1..Len(cl.got)
        BY <2>2, <4>1, <4>3
      <4> QED
        BY <3>2, <4>2, <4>3
    <3>5. ~cl'.stdoutErr => \A q \in cl'.heard : log[q].n > 0 => \E i \in 1..l : b[i] = q
      <4> SUFFICES ASSUME ~cl.stdoutErr, NEW q \in cl'.heard, log[q].n > 0
                   PROVE  \E i \in 1..l : b[i] = q
        BY <1>1
      <4>1. CASE q = j
        BY <1>7, <3>1, <4>1
      <4>2. CASE q \in cl.heard
        <5>1. PICK i \in 1..Len(cl.got) : b[i] = q
          BY <2>2, <4>2
        <5> QED
          BY <3>1, <5>1
      <4> QED
        BY <1>1, <1>5, <4>1, <4>2
    <3> QED
      BY <3>1, <3>3, <3>4, <3>5 DEF Written
  <2> QED
    BY <1>1, <2>3, <2>4
<1>14. ASSUME Live
       PROVE  Numbering(t)' /\ Settled(log, t)' /\ Numbered(t)' /\ Following(t)'
  <2>1. Numbering(t) /\ Settled(log, t) /\ Numbered(t) /\ Following(t)
    BY <1>14 DEF Tale
  <2>2. Numbering(t)' /\ Settled(log, t)'
    BY <1>3, <2>1 DEF Numbering, Settled
  <2>3. Numbered(t)'
    BY <1>2, <2>1 DEF Numbered
  <2>4. j <= t => /\ msg.seq = j /\ msg.kind # "status"
                  /\ \A i \in cl.heard : i <= t
                  /\ ~cl.terminalSeen
                  /\ cl.sawMessage => cl.lastSeq \in cl.heard /\ \A i \in cl.heard : i <= cl.lastSeq
                  /\ ~cl.sawMessage => cl.heard = {}
    <3> SUFFICES ASSUME j <= t
                 PROVE  /\ msg.seq = j /\ msg.kind # "status" /\ \A i \in cl.heard : i <= t
      BY <2>1 DEF Following
    <3> QED
      BY <1>2, <1>5, <1>8, <2>1 DEF Numbered
  <2>5. ASSUME ~cl'.gap, NEW p \in cl'.heard, NEW q \in cl'.heard, NEW r \in Nat,
               p < r, r < q, q <= t
        PROVE  r \in cl'.heard
    <3>1. ~cl.gap
      BY <1>1, <2>5
    <3>2. p \in Nat /\ q \in Nat /\ p <= j /\ q <= j
      BY <1>1, <1>5, <1>8, <2>5
    <3>3. p \in cl.heard
      BY <1>1, <1>5, <2>5, <3>2
    <3>4. CASE q \in cl.heard
      BY <1>1, <2>1, <2>5, <3>1, <3>3, <3>4 DEF Following
    <3>5. CASE q = j
      <4>1. /\ msg.seq = j /\ msg.kind # "status" /\ ~cl.terminalSeen /\ cl.sawMessage
            /\ cl.lastSeq \in cl.heard /\ p <= cl.lastSeq
        BY <2>4, <2>5, <3>3, <3>5
      <4>2. ~(j > cl.lastSeq + 1)
        BY <1>1, <2>5, <4>1
      <4>3. r <= cl.lastSeq
        BY <1>4, <2>5, <3>5, <4>2
      <4>4. CASE r = cl.lastSeq
        BY <1>1, <4>1, <4>4
      <4>5. CASE r < cl.lastSeq
        <5>1. cl.lastSeq <= t
          BY <2>4, <2>5, <3>5, <4>1
        <5>2. r \in cl.heard
          BY <2>1, <2>5, <3>1, <3>3, <4>1, <4>5, <5>1 DEF Following
        <5> QED
          BY <1>1, <5>2
      <4> QED
        BY <1>4, <4>3, <4>4, <4>5
    <3> QED
      BY <1>1, <1>5, <3>4, <3>5
  <2>6. ASSUME \A i \in cl'.heard : i <= t
        PROVE  ~cl'.terminalSeen /\ cl'.lastSeq \in cl'.heard /\ \A i \in cl'.heard : i <= cl'.lastSeq
    <3>1. j <= t /\ j \in cl'.heard
      BY <1>1, <1>5, <2>6
    <3>2. cl'.lastSeq = j
      <4>1. cl.sawMessage => cl.lastSeq < j
        BY <1>8, <2>4, <3>1
      <4> QED
        BY <1>1, <1>4, <2>4, <3>1, <4>1
    <3>3. \A i \in cl'.heard : i <= j
      BY <1>1, <1>5, <1>8
    <3> QED
      BY <1>1, <2>4, <3>1, <3>2, <3>3
  <2>7. Following(t)'
    BY <1>1, <2>5, <2>6 DEF Following
  <2> QED
    BY <2>2, <2>3, <2>7
<1>15. Tale(log, b, t)'
  BY <1>3, <1>10, <1>11, <1>12, <1>13, <1>14 DEF Tale
<1> QED
  BY <1>7, <1>10, <1>15

(* At the start there is nothing to tell. *)
LEMMA StreamInit == Init => StreamInv
<1> SUFFICES ASSUME Init PROVE StreamInv
  OBVIOUS
<1> DEFINE log == [i \in Nat |-> NoChunk]
           at == [i \in Nat |-> 0]
<1>1. Shape
  BY ShapeInit
<1>2. /\ up = TRUE /\ hist.sent = 0 /\ hist.unanswered = {} /\ hist.stopped = FALSE
      /\ queue = <<>> /\ buf = <<>> /\ net = <<>> /\ counter = 0 /\ row = 0
      /\ job = "running" /\ worker.attempt = 1 /\ worker.chunks = 0
      /\ cl.got = <<>> /\ cl.heard = {} /\ cl.lastSeq = 0 /\ cl.terminalSeen = FALSE
      /\ cl.sawMessage = FALSE
      /\ hnd = [h \in Handlers |-> Idle]
  BY DEF Init
<1>3. \A h \in Handlers : hnd[h] = Idle /\ hnd[h].pc = "idle" /\ Len(hnd[h].todo) = 0 /\ ~Carries(h)
  BY <1>2 DEF Idle, Carries
<1>4. "side" \in Handlers /\ "out" \in Handlers
  BY DEF Handlers
<1>5. Line = {} /\ Rising(net) /\ Rising(buf) /\ Rising(queue)
  BY <1>2, InEmpty DEF Line
<1>6. LineInv
  BY <1>2, <1>5 DEF LineInv, Line
<1>7. Duties
  BY <1>2, <1>3, <1>4 DEF Duties
<1>8. Accounts
  BY <1>2 DEF Accounts
<1>9. log \in Records /\ at \in Numbers
  BY DEF NoChunk, Positions, Records, Numbers
<1> HIDE DEF log, at
<1>10. Forward(log) /\ Behind(log) /\ Backed(log)
  BY <1>2 DEF Forward, Behind, Backed
<1>11. Complete(log)
  BY <1>2 DEF Complete, Positions
<1>12. OnLine(log) /\ Written(log, at)
  BY <1>2, <1>5 DEF OnLine, Written
<1>13. Numbering(0) /\ Settled(log, 0) /\ Numbered(0) /\ Following(0)
  BY <1>2, <1>3, <1>5 DEF Numbering, Settled, Numbered, Following
<1>14. Tale(log, at, 0)
  BY <1>2, <1>10, <1>11, <1>12, <1>13 DEF Tale
<1> QED
  BY <1>1, <1>6, <1>7, <1>8, <1>9, <1>14 DEF StreamInv

(* Every step leaves a record that tells the tale. *)
LEMMA StreamStep == StreamInv /\ [Next]_vars => StreamInv'
<1> SUFFICES ASSUME StreamInv, [Next]_vars PROVE StreamInv'
  OBVIOUS
<1>1. Shape /\ LineInv /\ Duties /\ Accounts /\ Shape'
  BY ShapeStep DEF StreamInv
<1>2. PICK log \in Records, at \in Numbers, t \in Nat : Tale(log, at, t)
  BY DEF StreamInv
<1>3. ASSUME LineInv', Duties', Accounts', Tale(log, at, t)' PROVE StreamInv'
  BY <1>1, <1>3 DEF StreamInv
<1>4. CASE PostStdout
  <2>1. UNCHANGED <<net, buf, queue, cl>> /\ hist'.sent = hist.sent
    BY <1>4 DEF PostStdout, Serve, pumps, client
  <2> QED
    BY <1>1, <1>2, <1>3, <1>4, <2>1, PostTale, LineSame
<1>5. CASE PostFails \/ LoseAnswer \/ Migrate
  <2>1. UNCHANGED <<net, buf, queue, cl>>
    BY <1>5 DEF PostFails, LoseAnswer, Migrate, pumps, client
  <2>2. hist'.sent = hist.sent
    <3>1. hist \in Histories
      BY <1>1 DEF Shape, ServerShape
    <3> QED
      BY <1>5, <3>1 DEF PostFails, LoseAnswer, Migrate, Abandon, Histories
  <2> QED
    BY <1>1, <1>2, <1>3, <1>5, <2>1, <2>2, GiveUpTale, LineSame
<1>6. CASE PostSide \/ ReportFinal \/ Verdict
  <2>1. UNCHANGED <<net, buf, queue, cl>> /\ hist'.sent = hist.sent
    BY <1>6 DEF PostSide, ReportFinal, Verdict, Serve, pumps, client
  <2> QED
    BY <1>1, <1>2, <1>3, <1>6, <2>1, ReportTale, LineSame
<1>7. ASSUME NEW h \in Handlers, InjectSeq(h) \/ PersistSeq(h) PROVE StreamInv'
  <2>1. UNCHANGED <<net, buf, queue, cl>> /\ hist'.sent = hist.sent
    BY <1>7 DEF InjectSeq, PersistSeq, pumps, client
  <2> QED
    BY <1>1, <1>2, <1>3, <1>7, <2>1, InjectTale, PersistTale, LineSame
<1>8. ASSUME NEW h \in Handlers, Stamp(h) PROVE StreamInv'
  <2>1. Duties' /\ Accounts' /\ LineInv'
    BY <1>1, <1>2, <1>8, StampTale, LineStamp
  <2>2. \E g \in Records, u \in Nat : Tale(g, at, u)'
    BY <1>1, <1>2, <1>8, StampTale
  <2> QED
    BY <1>1, <2>1, <2>2 DEF StreamInv
<1>9. CASE Crash \/ Shutdown
  <2>1. PICK kind \in {"crash", "stop"}, closing \in Closing : StopServer(kind, closing)
    BY <1>9 DEF Crash, Shutdown, Closing
  <2> QED
    BY <1>1, <1>2, <1>3, <2>1, StopTale, LineStop
<1>10. CASE HandleMessage
  <2>1. Duties' /\ Accounts' /\ LineInv'
    BY <1>1, <1>2, <1>10, HandleTale, LineHandle
  <2>2. \E b \in Numbers : Tale(log, b, t)'
    BY <1>1, <1>2, <1>10, HandleTale
  <2> QED
    BY <1>1, <2>1, <2>2 DEF StreamInv
<1>11. CASE Hub \/ Start \/ NetBreak \/ Over \/ ClientMoves
  BY <1>1, <1>2, <1>3, <1>11, QuietActions
<1>12. CASE Connected \/ DialFailed \/ DialRefused \/ ReadError
  BY <1>1, <1>11, <1>12, DialMoves
<1>13. CASE BackupPoll \/ Waiting \/ ContextDone
  BY <1>1, <1>11, <1>13, WaitMoves
<1>14. CASE UNCHANGED vars
  <2>1. ClientMoves
    BY <1>1, <1>14 DEF vars, ClientMoves, server, pumps, client, Memory
  <2> QED
    BY <1>11, <2>1
<1>15. CASE Broadcasting
  BY <1>7, <1>8, <1>15 DEF Broadcasting
<1> QED
  BY <1>4, <1>5, <1>6, <1>9, <1>10, <1>11, <1>12, <1>13, <1>14, <1>15 DEF Next, Client

(* In every reachable state some record tells the tale of the stream. *)
LEMMA StreamInvariance == Spec => []StreamInv
BY StreamInit, StreamStep, PTL DEF Spec

(* What was written follows the record. *)
LEMMA WrittenInOrder ==
    ASSUME Shape, LineInv, NEW log \in Records, NEW at \in Numbers, NEW t \in Nat, Tale(log, at, t)
    PROVE  DeliveredInOrder
<1> SUFFICES ASSUME NEW i \in 1..Len(cl.got), NEW k \in 1..Len(cl.got), i < k
             PROVE  /\ cl.got[i] # cl.got[k]
                    /\ Before(cl.got[i], cl.got[k]) \/ cl.got[k] \in hist.unanswered
  BY DEF DeliveredInOrder
<1>1. /\ at[i] \in cl.heard /\ cl.got[i] = log[at[i]] /\ cl.got[i].n > 0
      /\ at[k] \in cl.heard /\ cl.got[k] = log[at[k]] /\ cl.got[k].n > 0
      /\ at[i] < at[k]
  BY DEF Tale, Written
<1>2. at[i] \in 1..hist.sent /\ at[k] \in 1..hist.sent
  BY <1>1 DEF LineInv
<1> QED
  BY <1>1, <1>2 DEF Tale, Forward

(* What the client writes to stdout never goes back (HandleMessage), for    *)
(* every number of chunks, strays, retries and events and every capacity of *)
(* the hub: shed clients, lost frames, restarts, migrations and reports     *)
(* that outlive their sender included.                                      *)
THEOREM ChunksArriveInOrder == Spec => []DeliveredInOrder
<1>1. StreamInv => DeliveredInOrder
  BY WrittenInOrder DEF StreamInv
<1> QED
  BY <1>1, StreamInvariance, PTL

-----------------------------------------------------------------------------
(* What a result says.  The wait that is over does not read, so what it     *)
(* said of the stream stays true.                                           *)
ResultInv ==
    /\ ~Running => main.pc = "done"
    /\ poll = "done" \/ main.pc = "drain" => Terminal
    /\ main.result = "success" =>
         job = "completed" /\ (main.mode = "stream" => ~cl.gap /\ ~cl.stdoutErr)

(* What a wait returns besides the outcome of a job that is over: a failure *)
(* of its own, or what it holds against the output.                         *)
Excuses == {"exhausted", "error", "deadline", "incomplete", "unwritten"}

(* A wait that ends with the outcome of a job that is over. *)
LEMMA ReturnResult ==
    ASSUME Shape, ResultInv, UNCHANGED <<job, cl, poll>>, NEW result \in Results \ {"none"}, Return(result),
           result # "success" \/ (result = Outcome /\ Terminal)
    PROVE  ResultInv'
<1>1. main'.pc = "done" /\ main'.result = result /\ main'.mode = main.mode
  BY ReturnType
<1>2. result = "success" =>
        job = "completed" /\ (main.mode = "stream" => ~cl.gap /\ ~cl.stdoutErr)
  BY OutcomeType
<1> QED
  BY <1>1, <1>2 DEF ResultInv, Terminal, Running

(* A wait that goes on. *)
LEMMA StaysResult ==
    ASSUME Shape, ResultInv, UNCHANGED <<job, cl.gap, cl.stdoutErr>>,
           poll' = poll \/ poll' # "done" \/ Terminal,
           main'.result = main.result, main'.mode = main.mode,
           main'.pc = main.pc \/ (main'.pc # "drain" /\ Running) \/ (Terminal /\ Running)
    PROVE  ResultInv'
BY DEF ResultInv, Terminal, Running

(* What a streaming wait can hold against its output, and why. *)
LEMMA Objections ==
    ASSUME NEW status
    PROVE  \/ /\ IntegrityErr(status) = "none"
              /\ main.mode = "stream" =>
                   ~cl.gap /\ ~cl.stdoutErr /\ (status = "completed" => cl.got # <<>>)
           \/ IntegrityErr(status) = "incomplete" /\ main.mode = "stream"
           \/ IntegrityErr(status) = "unwritten" /\ main.mode = "stream" /\ cl.stdoutErr
           \/ /\ IntegrityErr(status) = "empty" /\ main.mode = "stream"
              /\ status = "completed" /\ cl.got = <<>>
<1>1. CASE main.mode # "stream"
  BY <1>1 DEF IntegrityErr
<1>2. CASE main.mode = "stream" /\ cl.gap
  BY <1>2 DEF IntegrityErr
<1>3. CASE main.mode = "stream" /\ ~cl.gap /\ cl.stdoutErr
  BY <1>3 DEF IntegrityErr
<1>4. CASE main.mode = "stream" /\ ~cl.gap /\ ~cl.stdoutErr
  BY <1>4 DEF IntegrityErr
<1> QED
  BY <1>1, <1>2, <1>3, <1>4

(* What a wait that does not know the verdict holds against the output. *)
LEMMA Excused ==
    IntegrityErr("unknown") # "none" =>
        /\ IntegrityErr("unknown") \in Excuses /\ main.mode = "stream"
        /\ IntegrityErr("unknown") = "unwritten" => cl.stdoutErr
<1>1. "unknown" # "completed"
  OBVIOUS
<1> QED
  BY <1>1, Objections DEF Excuses

(* The dials and the end of a connection. *)
LEMMA DialResult ==
    ASSUME Shape, ResultInv, Connected \/ DialFailed \/ DialRefused \/ ReadError
    PROVE  ResultInv'
<1>1. main \in MainStates /\ {"exhausted", "error"} \subseteq Results \ {"none", "success"}
  BY DEF Shape, ClientShape, Results
<1>2. UNCHANGED <<job, cl.gap, cl.stdoutErr>>
  BY DialMoves DEF ClientMoves, server, Memory
<1>3. ASSUME NEW result \in {"exhausted", "error"}, Return(result), poll' = poll PROVE ResultInv'
  <2>1. main'.pc = "done" /\ main'.result = result /\ main'.mode = main.mode
    BY <1>1, <1>3, ReturnType
  <2> QED
    BY <1>1, <1>2, <1>3, <2>1 DEF ResultInv, Running, Terminal
<1>4. CASE Connected
  <2>1. /\ main'.result = main.result /\ main'.mode = main.mode /\ Running
        /\ main'.pc = main.pc \/ main'.pc = "loop"
        /\ poll' = poll \/ poll' # "done"
    BY <1>1, <1>4 DEF Connected, MainStates
  <2> QED
    BY <1>2, <2>1, StaysResult
<1>5. CASE DialFailed
  <2>1. poll' = poll /\ (Return("exhausted") \/ main' = main)
    BY <1>5 DEF DialFailed, Stays
  <2>2. CASE main' = main
    BY <1>2, <2>1, <2>2, StaysResult
  <2> QED
    BY <1>3, <2>1, <2>2
<1>6. CASE DialRefused
  <2>1. poll' = poll /\ Running /\ (Return("error") \/ main' = main \/ main' = [main EXCEPT !.pc = "fallback"])
    BY <1>6 DEF DialRefused, Stays
  <2>2. CASE main' = main \/ main' = [main EXCEPT !.pc = "fallback"]
    <3>1. /\ main'.result = main.result /\ main'.mode = main.mode
          /\ main'.pc = main.pc \/ main'.pc = "fallback"
      BY <1>1, <2>2 DEF MainStates
    <3> QED
      BY <1>2, <2>1, <3>1, StaysResult
  <2> QED
    BY <1>3, <2>1, <2>2
<1>7. CASE ReadError
  <2>1. main' = main /\ poll' = poll
    BY <1>7 DEF ReadError
  <2> QED
    BY <1>2, <2>1, StaysResult
<1> QED
  BY <1>4, <1>5, <1>6, <1>7

(* The arms of the select of the wait. *)
LEMMA WaitResult ==
    ASSUME Shape, ResultInv, BackupPoll \/ Waiting \/ ContextDone
    PROVE  ResultInv'
<1>1. main \in MainStates /\ Excuses \subseteq Results \ {"none", "success"}
      /\ Outcome \in Results \ {"none"}
  BY OutcomeType DEF Shape, ClientShape, Results, Excuses
<1>2. UNCHANGED <<job, cl.gap, cl.stdoutErr>>
  BY WaitMoves DEF ClientMoves, server, Memory
<1>3. ASSUME UNCHANGED <<cl, poll>>, Return(Outcome), Terminal
      PROVE ResultInv'
  BY <1>1, <1>2, <1>3, ReturnResult
<1>4. ASSUME UNCHANGED <<cl, poll>>, NEW result \in Excuses, Return(result)
       PROVE ResultInv'
  BY <1>1, <1>2, <1>4, ReturnResult
<1>5. main.pc # "done" => Running
  BY DEF ResultInv
<1>6. ASSUME poll' = poll, main.pc = "loop", NEW next, Stays(next),
             \/ next = [main EXCEPT !.pc = "fallback"]
             \/ next = [main EXCEPT !.terminal = "looked"]
             \/ next = [main EXCEPT !.closes = @ + 1]
             \/ next = [main EXCEPT !.pc = "drain"] /\ Terminal
      PROVE  ResultInv'
  <2>1. /\ main'.result = main.result /\ main'.mode = main.mode /\ Running
        /\ main'.pc \in {main.pc, "fallback"} \/ (main'.pc = "drain" /\ Terminal)
    BY <1>1, <1>5, <1>6 DEF Stays, MainStates
  <2> QED
    BY <1>2, <1>6, <2>1, StaysResult
<1>7. CASE BackupPoll
  <2>1. main' = main /\ (poll' = "err" \/ Terminal)
    BY <1>7 DEF BackupPoll
  <2> QED
    BY <1>2, <2>1, StaysResult
<1>8. CASE PollDone \/ DrainStreamingOutput
  <2>1. Terminal
    BY <1>8 DEF PollDone, DrainStreamingOutput, ResultInv
  <2> QED
    BY <1>3, <1>6, <1>8, <2>1 DEF PollDone, DrainStreamingOutput
<1>9. CASE PollErr \/ ContextDone \/ Fallback
  <2>1. /\ UNCHANGED <<cl, poll>>
        /\ \/ Return(Outcome) /\ Terminal
           \/ \E result \in Excuses : Return(result)
    BY <1>9, Excused DEF PollErr, ContextDone, Fallback, SeesTerminal, Excuses
  <2> QED
    BY <1>3, <1>4, <2>1
<1>10. CASE TerminalEvent
  <2>1. /\ UNCHANGED <<cl, poll>> /\ main.pc = "loop"
        /\ Stays([main EXCEPT !.terminal = "looked"]) \/ (Return(Outcome) /\ Terminal)
    BY <1>10 DEF TerminalEvent, SeesTerminal
  <2> QED
    BY <1>3, <1>6, <2>1
<1>11. CASE ListenDone
  <2>1. /\ poll' = poll /\ main.pc = "loop"
        /\ \/ Stays([main EXCEPT !.pc = "fallback"]) \/ Stays([main EXCEPT !.closes = @ + 1])
           \/ UNCHANGED cl /\ Return(Outcome) /\ Terminal
           \/ UNCHANGED cl /\ \E result \in Excuses : Return(result)
    BY <1>11 DEF ListenDone, SeesTerminal, Excuses
  <2> QED
    BY <1>3, <1>4, <1>6, <2>1
<1> QED
  BY <1>7, <1>8, <1>9, <1>10, <1>11 DEF Waiting

(* Every step keeps what a result says. *)
LEMMA ResultStep == Shape /\ ResultInv /\ [Next]_vars => ResultInv'
<1> SUFFICES ASSUME Shape, ResultInv, [Next]_vars PROVE ResultInv'
  OBVIOUS
<1>1. ASSUME UNCHANGED <<cl, main, poll>>, job' = job \/ job = "running" PROVE ResultInv'
  BY <1>1 DEF ResultInv, Terminal, Running
<1>2. CASE PostStdout \/ PostFails \/ LoseAnswer \/ Migrate \/ PostSide \/ ReportFinal \/ Verdict
  BY <1>1, <1>2 DEF PostStdout, PostFails, LoseAnswer, Migrate, PostSide, ReportFinal, Verdict, Serve, client
<1>3. CASE Broadcasting
  BY <1>1, <1>3 DEF Broadcasting, InjectSeq, Stamp, PersistSeq, client
<1>4. CASE Hub
  BY <1>1, <1>4 DEF Hub, HubBroadcast, HubRegister, HubUnregister, WritePump, server, client
<1>5. CASE Crash \/ Shutdown \/ Start \/ NetBreak \/ Over \/ UNCHANGED vars
  BY <1>1, <1>5 DEF Crash, Shutdown, StopServer, Start, NetBreak, Over, vars, server, client
<1>6. CASE HandleMessage
  <2>1. /\ Running /\ main'.result = main.result /\ main'.pc = main.pc /\ UNCHANGED <<job, poll>>
    BY <1>6, HandleEffect DEF server
  <2> QED
    BY <2>1 DEF ResultInv, Running, Terminal
<1>7. CASE Connected \/ DialFailed \/ DialRefused \/ ReadError
  BY <1>7, DialResult
<1>8. CASE BackupPoll \/ Waiting \/ ContextDone
  BY <1>8, WaitResult
<1> QED
  BY <1>2, <1>3, <1>4, <1>5, <1>6, <1>7, <1>8 DEF Next, Client

(* A chunk missing between two that were written has been noticed: the     *)
(* record has it between theirs, so the client that saw no gap has heard it *)
(* and, as stdout took everything, written it there.                        *)
LEMMA NoGapNoHole ==
    ASSUME StreamInv, ~hist.stopped, job = "completed", ~cl.gap, ~cl.stdoutErr,
           NEW i \in 1..Len(cl.got), NEW k \in 1..Len(cl.got), i < k,
           cl.got[i] \notin hist.unanswered, cl.got[k] \notin hist.unanswered,
           NEW c \in Positions, c.attempt = cl.got[k].attempt, c.n > 0, c.n < cl.got[k].n,
           Before(cl.got[i], c)
    PROVE  \/ \E m \in (i + 1)..(k - 1) : cl.got[m] = c
           \/ c \in hist.unanswered /\ c.attempt # worker.attempt
<1>1. PICK log \in Records, at \in Numbers, t \in Nat : Tale(log, at, t)
  BY DEF StreamInv
<1>2. /\ Shape /\ LineInv /\ Accounts /\ Forward(log) /\ Backed(log) /\ Written(log, at)
      /\ Settled(log, t) /\ Following(t)
  BY <1>1 DEF StreamInv, Tale, Live
<1>3. CASE c \in hist.unanswered
  BY <1>2, <1>3 DEF Accounts
<1>4. CASE c \notin hist.unanswered
  <2> DEFINE p == at[i]
             q == at[k]
  <2>11. Len(cl.got) \in Nat
    BY <1>2 DEF Shape, ClientShape, ClientStates
  <2>1. /\ p \in cl.heard /\ q \in cl.heard /\ p \in Nat /\ q \in Nat
        /\ cl.got[i] = log[p] /\ cl.got[k] = log[q] /\ log[p].n > 0 /\ log[q].n > 0
    <3>1. at[i] \in Nat /\ at[k] \in Nat
      BY <1>2, <2>11 DEF Numbers
    <3> QED
      BY <1>2, <3>1 DEF Written
  <2>2. p \in 1..hist.sent /\ q \in 1..hist.sent /\ hist.sent \in Nat
    BY <1>2, <2>1, ReachedType DEF LineInv
  <2>3. log[p] \in Positions /\ log[q] \in Positions
    BY <2>1 DEF Records
  <2> HIDE DEF p, q
  <2>4. PICK r \in 1..(q - 1) : log[r] = c
    BY <1>2, <1>4, <2>1, <2>2 DEF Backed
  <2>5. r \in 1..hist.sent /\ r \in Nat /\ r < q
    BY <2>2, <2>4
  <2>6. ~Before(c, log[p]) /\ c # log[p]
    BY <2>1, <2>3 DEF Before, Positions
  <2>7. ~(r < p) /\ r # p
    BY <1>2, <2>1, <2>2, <2>4, <2>5, <2>6 DEF Forward
  <2>8. p < r /\ q <= t
    BY <1>2, <2>1, <2>2, <2>5, <2>7 DEF Settled
  <2>9. r \in cl.heard
    BY <1>2, <2>1, <2>5, <2>8 DEF Following
  <2>10. PICK m \in 1..Len(cl.got) : at[m] = r
    BY <1>2, <2>4, <2>9 DEF Written
  <2>12. m > i
    <3>1. ~(m < i)
      <4>1. m < i => at[m] < at[i]
        BY <1>2 DEF Written
      <4> QED
        BY <2>2, <2>5, <2>8, <2>10, <4>1 DEF p
    <3>2. m # i
      BY <2>2, <2>5, <2>8, <2>10 DEF p
    <3> QED
      BY <2>11, <3>1, <3>2
  <2>13. m < k
    <3>1. ~(k < m)
      BY <1>2, <2>2, <2>5, <2>10 DEF Written, q
    <3>2. m # k
      BY <2>2, <2>5, <2>10 DEF q
    <3> QED
      BY <2>11, <3>1, <3>2
  <2>14. m \in (i + 1)..(k - 1) /\ cl.got[m] = c
    BY <1>2, <2>4, <2>10, <2>11, <2>12, <2>13 DEF Written
  <2> QED
    BY <2>14
<1> QED
  BY <1>3, <1>4

(* The chunks of the statement are positions. *)
LEMMA GotType ==
    ASSUME Shape, NEW k \in 1..Len(cl.got), NEW n \in 1..(cl.got[k].n - 1)
    PROVE  LET c == [attempt |-> cl.got[k].attempt, n |-> n]
           IN  c \in Positions /\ c.attempt = cl.got[k].attempt /\ c.n > 0 /\ c.n < cl.got[k].n
<1>1. cl.got[k] \in Positions
  BY DEF Shape, ClientShape, ClientStates
<1> QED
  BY <1>1 DEF Positions

(* The exit code 0 of a streaming wait (integrityErr): the job completed,   *)
(* stdout took what came and, unless a server process died with the         *)
(* counter, no chunk its sender is sure of is missing between two that were *)
(* written, for every capacity of the hub and every number of lost          *)
(* connections, shed buffers, migrations and stray reports.                 *)
THEOREM SuccessHasNoHoles == Spec => []HolesAreReported
<1>1. Init => ResultInv
  BY DEF Init, ResultInv, Running
<1>2. ResultInv /\ StreamInv => HolesAreReported
  <2> SUFFICES ASSUME ResultInv, StreamInv, main.result = "success", main.mode = "stream",
                      ~hist.stopped
               PROVE  HolesAreReported
    BY DEF HolesAreReported
  <2>1. job = "completed" /\ ~cl.gap /\ ~cl.stdoutErr /\ Shape
    BY DEF ResultInv, StreamInv
  <2>2. ASSUME NEW i \in 1..Len(cl.got), NEW k \in 1..Len(cl.got), i < k,
               {cl.got[i], cl.got[k]} \cap hist.unanswered = {}, NEW n \in 1..(cl.got[k].n - 1),
               Before(cl.got[i], [attempt |-> cl.got[k].attempt, n |-> n])
        PROVE  LET c == [attempt |-> cl.got[k].attempt, n |-> n] IN
               \/ \E m \in (i + 1)..(k - 1) : cl.got[m] = c
               \/ c \in hist.unanswered /\ c.attempt # worker.attempt
    <3> DEFINE c == [attempt |-> cl.got[k].attempt, n |-> n]
    <3>1. c \in Positions /\ c.attempt = cl.got[k].attempt /\ c.n > 0 /\ c.n < cl.got[k].n
      BY <2>1, <2>2, GotType
    <3>2. Before(cl.got[i], c) /\ cl.got[i] \notin hist.unanswered /\ cl.got[k] \notin hist.unanswered
      BY <2>2
    <3> HIDE DEF c
    <3>3. \/ \E m \in (i + 1)..(k - 1) : cl.got[m] = c
          \/ c \in hist.unanswered /\ c.attempt # worker.attempt
      BY <2>1, <2>2, <3>1, <3>2, NoGapNoHole
    <3> QED
      BY <3>3 DEF c
  <2> QED
    BY <2>1, <2>2 DEF HolesAreReported
<1> QED
  BY <1>1, <1>2, ResultStep, ShapeInvariance, StreamInvariance, PTL DEF Spec

-----------------------------------------------------------------------------
(* The promise of the wait.  Only a message written to stdout changes what  *)
(* was written, and only the return of the wait its answer.                 *)

(* A result a wait has reason to return. *)
Earned(result) ==
    \/ result \in {"exhausted", "error", "deadline"}
    \/ result = Outcome /\ Terminal
    \/ result = IntegrityErr("unknown") /\ result # "none"

(* A step of the client either leaves the answer alone or gives it. *)
Answers ==
    /\ main'.mode = main.mode
    /\ \/ main'.result = main.result
       \/ Running /\ \E result \in Results \ {"none"} : Earned(result) /\ main'.result = result

(* The dials and the end of a connection. *)
LEMMA DialAnswers ==
    ASSUME Shape, Connected \/ DialFailed \/ DialRefused \/ ReadError
    PROVE  Answers
<1>1. main \in MainStates /\ {"exhausted", "error"} \subseteq Results \ {"none"}
  BY DEF Shape, ClientShape, Results
<1>2. ASSUME Running, NEW result \in {"exhausted", "error"}, Return(result) PROVE Answers
  <2>1. main'.result = result /\ main'.mode = main.mode
    BY <1>1, <1>2, ReturnType
  <2> QED
    BY <1>1, <1>2, <2>1 DEF Answers, Earned
<1>3. CASE Connected
  BY <1>1, <1>3 DEF Connected, MainStates, Answers
<1>4. CASE DialFailed
  <2>1. Running /\ (Return("exhausted") \/ main' = main)
    BY <1>4 DEF DialFailed, Stays
  <2> QED
    BY <1>2, <2>1 DEF Answers
<1>5. CASE DialRefused
  <2>1. Running /\ (Return("error") \/ main' = main \/ main' = [main EXCEPT !.pc = "fallback"])
    BY <1>5 DEF DialRefused, Stays
  <2>2. CASE main' = [main EXCEPT !.pc = "fallback"]
    BY <1>1, <2>2 DEF MainStates, Answers
  <2> QED
    BY <1>2, <2>1, <2>2 DEF Answers
<1>6. CASE ReadError
  BY <1>6 DEF ReadError, Answers
<1> QED
  BY <1>3, <1>4, <1>5, <1>6

(* The arms of the select of the wait. *)
LEMMA WaitAnswers ==
    ASSUME Shape, ResultInv, BackupPoll \/ Waiting \/ ContextDone
    PROVE  Answers
<1>1. main \in MainStates /\ {"exhausted", "deadline"} \subseteq Results \ {"none"}
      /\ IntegrityErr("unknown") \in Results
      /\ Outcome \in Results \ {"none"}
  BY OutcomeType DEF Shape, ClientShape, Results
<1>2. main.pc # "done" => Running
  BY DEF ResultInv
<1>3. ASSUME main.pc # "done", NEW result \in Results \ {"none"}, Return(result), Earned(result)
      PROVE  Answers
  <2>1. main'.result = result /\ main'.mode = main.mode
    BY <1>3, ReturnType
  <2> QED
    BY <1>2, <1>3, <2>1 DEF Answers
<1>4. ASSUME NEW next, Stays(next),
             \/ next = [main EXCEPT !.pc = "fallback"]
             \/ next = [main EXCEPT !.terminal = "looked"]
             \/ next = [main EXCEPT !.closes = @ + 1]
             \/ next = [main EXCEPT !.pc = "drain"]
      PROVE  Answers
  BY <1>1, <1>4 DEF Stays, MainStates, Answers
<1>5. ASSUME main.pc # "done", Return(Outcome), Terminal PROVE Answers
  BY <1>1, <1>3, <1>5 DEF Earned
<1>6. ASSUME main.pc # "done", NEW result \in {"exhausted", "deadline"}, Return(result) PROVE Answers
  BY <1>1, <1>3, <1>6 DEF Earned
<1>11. ASSUME main.pc # "done", Return(IntegrityErr("unknown")), IntegrityErr("unknown") # "none"
       PROVE  Answers
  BY <1>1, <1>3, <1>11 DEF Earned
<1>7. CASE BackupPoll
  BY <1>7 DEF BackupPoll, Answers
<1>8. CASE PollDone \/ DrainStreamingOutput
  <2>1. Terminal
    BY <1>8 DEF PollDone, DrainStreamingOutput, ResultInv
  <2> QED
    BY <1>4, <1>5, <1>8, <2>1 DEF PollDone, DrainStreamingOutput
<1>9. CASE PollErr \/ ContextDone \/ Fallback \/ TerminalEvent
  <2>1. /\ main.pc # "done"
        /\ \/ Return(Outcome) /\ Terminal
           \/ Stays([main EXCEPT !.terminal = "looked"])
           \/ \E result \in {"exhausted", "deadline"} : Return(result)
           \/ Return(IntegrityErr("unknown")) /\ IntegrityErr("unknown") # "none"
    BY <1>9 DEF PollErr, ContextDone, Fallback, TerminalEvent, SeesTerminal
  <2> QED
    BY <1>4, <1>5, <1>6, <1>11, <2>1
<1>10. CASE ListenDone
  <2>1. /\ main.pc # "done"
        /\ \/ Stays([main EXCEPT !.pc = "fallback"]) \/ Stays([main EXCEPT !.closes = @ + 1])
           \/ Return(Outcome) /\ Terminal
           \/ \E result \in {"exhausted", "deadline"} : Return(result)
    BY <1>10 DEF ListenDone, SeesTerminal
  <2> QED
    BY <1>4, <1>5, <1>6, <2>1
<1> QED
  BY <1>7, <1>8, <1>9, <1>10 DEF Waiting

(* What no gap was seen in is whole. *)
LEMMA NoHoleIsWhole ==
    ASSUME StreamInv, ~hist.stopped, job = "completed", ~cl.gap, ~cl.stdoutErr
    PROVE  Promise!Whole(cl.got)
<1> SUFFICES ASSUME NEW i \in 1..Len(cl.got), NEW k \in 1..Len(cl.got), i < k,
                    {cl.got[i], cl.got[k]} \cap hist.unanswered = {}, NEW n \in 1..(cl.got[k].n - 1),
                    Promise!Later(cl.got[i], [attempt |-> cl.got[k].attempt, n |-> n])
             PROVE  LET c == [attempt |-> cl.got[k].attempt, n |-> n] IN
                    c \in hist.unanswered \/ \E m \in (i + 1)..(k - 1) : cl.got[m] = c
  BY DEF Promise!Whole
<1> DEFINE c == [attempt |-> cl.got[k].attempt, n |-> n]
<1>1. c \in Positions /\ c.attempt = cl.got[k].attempt /\ c.n > 0 /\ c.n < cl.got[k].n
  BY GotType DEF StreamInv
<1>2. Before(cl.got[i], c) /\ cl.got[i] \notin hist.unanswered /\ cl.got[k] \notin hist.unanswered
  BY DEF Before, Promise!Later
<1> HIDE DEF c
<1>3. c \in hist.unanswered \/ \E m \in (i + 1)..(k - 1) : cl.got[m] = c
  BY <1>1, <1>2, NoGapNoHole
<1> QED
  BY <1>3 DEF c

(* What a wait has reason to return is due. *)
LEMMA EarnedIsDue ==
    ASSUME StreamInv, NEW result, Earned(result)
    PROVE  Promise!Due(result)
<1>1. CASE result \in {"exhausted", "error", "deadline"}
  BY <1>1 DEF Promise!Due
<1>2. CASE result = IntegrityErr("unknown") /\ result # "none"
  BY <1>2, Excused DEF Excuses, Promise!Due
<1>3. CASE result = Outcome /\ Terminal
  <2>1. CASE IntegrityErr(job) # "none"
    <3>1. /\ result = IntegrityErr(job) /\ main.mode = "stream"
          /\ result \in {"incomplete", "unwritten", "empty"}
          /\ result = "unwritten" => cl.stdoutErr
          /\ result = "empty" => job = "completed" /\ cl.got = <<>>
      BY <1>3, <2>1, Objections DEF Outcome
    <3> QED
      BY <3>1 DEF Promise!Due
  <2>2. CASE IntegrityErr(job) = "none" /\ job = "failed"
    BY <1>3, <2>2 DEF Outcome, Promise!Due
  <2>3. CASE IntegrityErr(job) = "none" /\ job = "completed"
    <3>1. /\ result = "success"
          /\ main.mode = "stream" => ~cl.gap /\ ~cl.stdoutErr /\ cl.got # <<>>
      BY <1>3, <2>3, Objections DEF Outcome
    <3>2. main.mode = "stream" => hist.stopped \/ Promise!Whole(cl.got)
      BY <2>3, <3>1, NoHoleIsWhole
    <3> QED
      BY <2>3, <3>1, <3>2 DEF Promise!Due
  <2> QED
    BY <1>3, <2>1, <2>2, <2>3 DEF Terminal
<1> QED
  BY <1>1, <1>2, <1>3 DEF Earned

(* A step that changes none of what the user sees, the verdict or the loss. *)
LEMMA SilentStep ==
    ASSUME job' = job, hist'.stopped = hist.stopped, hist'.unanswered = hist.unanswered,
           main'.mode = main.mode, cl'.got = cl.got, cl'.stdoutErr = cl.stdoutErr,
           main'.result = main.result
    PROVE  UNCHANGED Promise!vars
BY DEF Promise!vars

(* Every step of the system is a step of the promise, or none. *)
LEMMA PromiseStep ==
    StreamInv /\ DeliveredInOrder' /\ ResultInv /\ [Next]_vars => [Promise!Next]_(Promise!vars)
<1> SUFFICES ASSUME StreamInv, DeliveredInOrder', ResultInv, [Next]_vars
             PROVE  Promise!Next \/ UNCHANGED Promise!vars
  OBVIOUS
<1>1. Shape /\ cl.got \in Seq(Positions) 
  BY DEF StreamInv, Shape, ClientShape, ClientStates
<1>2. ASSUME UNCHANGED <<cl, main, job>>, hist'.stopped = hist.stopped,
             hist'.unanswered = hist.unanswered
      PROVE  UNCHANGED Promise!vars
  BY <1>2, SilentStep
<1>3. ASSUME UNCHANGED <<job, hist>>, cl'.got = cl.got, cl'.stdoutErr = cl.stdoutErr, Answers
      PROVE  Promise!Next \/ UNCHANGED Promise!vars
  <2>1. CASE main'.result = main.result
    BY <1>3, <2>1, SilentStep DEF Answers
  <2>2. CASE main'.result # main.result
    <3>1. PICK result \in Results \ {"none"} : Earned(result) /\ main'.result = result
      BY <1>3, <2>2 DEF Answers
    <3>2. Promise!Due(result)
      BY <3>1, EarnedIsDue
    <3>3. main.result = "none" /\ main'.mode = main.mode
      BY <1>3, <2>2 DEF Answers, Running
    <3>4. Promise!Answer(result)
      BY <1>3, <3>1, <3>2, <3>3 DEF Promise!Answer
    <3> QED
      BY <3>1, <3>4 DEF Promise!Next, Results
  <2> QED
    BY <2>1, <2>2
<1>4. CASE PostStdout \/ PostSide
  BY <1>2, <1>4 DEF PostStdout, PostSide, Serve, client
<1>13. CASE PostFails \/ LoseAnswer \/ Migrate
  <2>1. UNCHANGED <<job, cl, main>>
    BY <1>13 DEF PostFails, LoseAnswer, Migrate, client
  <2>2. hist'.stopped = hist.stopped /\ hist.unanswered \subseteq hist'.unanswered
    <3>1. hist \in Histories
      BY <1>1 DEF Shape, ServerShape
    <3> QED
      BY <1>13, <3>1 DEF PostFails, LoseAnswer, Migrate, Abandon, Histories
  <2>3. Promise!GoUnanswered
    BY <2>1, <2>2 DEF Promise!GoUnanswered
  <2> QED
    BY <2>3 DEF Promise!Next
<1>5. CASE ReportFinal \/ Verdict
  <2>1. job = "running" /\ job' \in {"completed", "failed"} /\ UNCHANGED <<hist, cl, main>>
    BY <1>5 DEF ReportFinal, Verdict, Serve, client
  <2>2. Promise!Settle
    BY <2>1 DEF Promise!Settle
  <2> QED
    BY <2>2 DEF Promise!Next
<1>6. CASE Broadcasting
  <2>1. UNCHANGED <<cl, main, job>>
    BY <1>6 DEF Broadcasting, InjectSeq, Stamp, PersistSeq, client
  <2>2. hist'.stopped = hist.stopped /\ hist'.unanswered = hist.unanswered
    <3>1. PICK h \in Handlers : InjectSeq(h) \/ Stamp(h) \/ PersistSeq(h)
      BY <1>6 DEF Broadcasting
    <3>2. CASE Stamp(h)
      BY <1>1, <3>2, StampEffect
    <3>3. CASE InjectSeq(h) \/ PersistSeq(h)
      BY <3>3 DEF InjectSeq, PersistSeq
    <3> QED
      BY <3>1, <3>2, <3>3
  <2> QED
    BY <1>2, <2>1, <2>2
<1>7. CASE Hub
  BY <1>2, <1>7 DEF Hub, HubBroadcast, HubRegister, HubUnregister, WritePump, server, client
<1>8. CASE Crash \/ Shutdown
  <2>1. PICK kind \in {"crash", "stop"}, closing \in Closing : StopServer(kind, closing)
    BY <1>8 DEF Crash, Shutdown, Closing
  <2>2. /\ hist'.stopped = TRUE /\ UNCHANGED <<job, cl, main>>
        /\ hist.unanswered \subseteq hist'.unanswered
    BY <1>1, <2>1, StopShape DEF client
  <2>3. Promise!Lose
    BY <2>2 DEF Promise!Lose
  <2> QED
    BY <2>3 DEF Promise!Next
<1>9. CASE Start \/ NetBreak \/ Over \/ UNCHANGED vars
  BY <1>2, <1>9 DEF Start, NetBreak, Over, vars, server, client
<1>10. CASE HandleMessage
  <2>1. /\ main.result = "none" /\ main'.result = main.result /\ main'.mode = main.mode
        /\ UNCHANGED <<job, hist>>
        /\ cl'.got \in {cl.got, Append(cl.got, Head(net).chunk)}
        /\ cl'.stdoutErr \in BOOLEAN /\ (cl.stdoutErr => cl'.stdoutErr)
        /\ cl'.stdoutErr # cl.stdoutErr => cl'.got = cl.got
    BY <1>1, <1>10, HandleEffect DEF server, Running
  <2>2. CASE cl'.got = cl.got /\ cl'.stdoutErr = cl.stdoutErr
    BY <2>1, <2>2, SilentStep
  <2>3. CASE cl'.stdoutErr # cl.stdoutErr
    <3>1. cl.stdoutErr \in BOOLEAN
      BY <1>1 DEF Shape, ClientShape, ClientStates
    <3>2. Promise!Refuse
      BY <2>1, <2>3, <3>1 DEF Promise!Refuse
    <3> QED
      BY <3>2 DEF Promise!Next
  <2>4. CASE cl'.got = Append(cl.got, Head(net).chunk) /\ cl'.stdoutErr = cl.stdoutErr
    <3>1. /\ Len(cl'.got) = Len(cl.got) + 1
          /\ \A i \in 1..Len(cl.got) : cl'.got[i] = cl.got[i]
      BY <1>1, <2>4
    <3>2. DeliveredInOrder'
      OBVIOUS
    <3>3. Promise!Write
      BY <2>1, <2>4, <3>1, <3>2
         DEF Promise!Write, Promise!InOrder, Promise!Later, DeliveredInOrder, Before
    <3> QED
      BY <3>3 DEF Promise!Next
  <2> QED
    BY <2>1, <2>2, <2>3, <2>4
<1>11. CASE Connected \/ DialFailed \/ DialRefused \/ ReadError
  <2>1. UNCHANGED <<job, hist>> /\ cl'.got = cl.got /\ cl'.stdoutErr = cl.stdoutErr
    BY <1>1, <1>11, DialMoves DEF ClientMoves, server, Memory
  <2> QED
    BY <1>1, <1>3, <1>11, <2>1, DialAnswers
<1>12. CASE BackupPoll \/ Waiting \/ ContextDone
  <2>1. UNCHANGED <<job, hist>> /\ cl'.got = cl.got /\ cl'.stdoutErr = cl.stdoutErr
    BY <1>1, <1>12, WaitMoves DEF ClientMoves, server, Memory
  <2> QED
    BY <1>1, <1>3, <1>12, <2>1, WaitAnswers
<1> QED
  BY <1>4, <1>5, <1>6, <1>7, <1>8, <1>9, <1>10, <1>11, <1>12, <1>13 DEF Next, Client

(* The wait keeps its promise to the user (WaitForJobWithStreamingOutput,   *)
(* WaitForJobWithLogs, integrityErr), for every capacity, number of chunks, *)
(* retries and events: stdout only grows, in order and until the one answer,*)
(* and the answer is one the job and what was written allow.                *)
THEOREM StreamKeepsPromise == Spec => ImplementsPromise
<1>1. Init => Promise!Init
  BY DEF Init, Promise!Init
<1>2. Init => ResultInv
  BY DEF Init, ResultInv, Running
<1> QED
  BY <1>1, <1>2, PromiseStep, ResultStep, ShapeInvariance, StreamInvariance, ChunksArriveInOrder, PTL
     DEF Spec, ImplementsPromise, Promise!Spec

-----------------------------------------------------------------------------
(* Gaps.  Another record: sq[i] is the number of the i-th broadcast, up to  *)
(* the terminal status, which is broadcast number hist.over.  Numbers never *)
(* jump from one of them to the next, whatever a restart loads and whoever  *)
(* saves last, so a client for which they jump has missed a broadcast.      *)
(* Behind the status the completion forgets the counter and the reports     *)
(* still under way start over: a client that was there before and reads one *)
(* of them without the status has missed the status.                        *)

(* What can still reach the client on its connection. *)
Deliverable == In(net) \cup In(buf) \cup (IF sconn = "open" THEN In(queue) ELSE {})

(* Up to the terminal status. *)
Early(i) == hist.over = 0 \/ i <= hist.over

(* From one broadcast to the next the number grows by at most one. *)
Steady(sq) ==
    sq[0] = 0 /\ \A i \in 0..(hist.sent - 1) : Early(i + 1) => sq[i + 1] <= sq[i] + 1

(* The messages on their way are as the record says. *)
Noted(sq) ==
    /\ hist.over \in 0..hist.sent
    /\ \A m \in Line : /\ Early(m.id) => m.seq = sq[m.id]
                       /\ m.seq >= 1
                       /\ (m.kind = "status") = (m.id = hist.over)

(* What the next number is made of never runs ahead of the last one. *)
Source(sq) ==
    hist.over = 0 =>
        /\ row <= EnsureSeq /\ EnsureSeq <= sq[hist.sent]
        /\ \A h \in Handlers : hnd[h].save <= EnsureSeq /\ hnd[h].loaded <= EnsureSeq
        /\ counter = 0 => \A h \in Handlers :
             hnd[h].pc # "persist" /\ (hnd[h].pc = "inject" => hnd[h].loaded = row)

(* A report of one message that does not end the stream. *)
Plain(h) ==
    /\ Len(hnd[h].todo) <= 1
    /\ \A i \in 1..Len(hnd[h].todo) : hnd[h].todo[i].kind \in {"stdout", "stderr", "progress"}

(* The final report. *)
Reporting ==
    LET todo == hnd["out"].todo
    IN  \/ hnd["out"].pc = "idle"
        \/ /\ Len(todo) = 2 /\ todo[1].kind = "status" /\ todo[2].kind = "complete"
           /\ (hnd["out"].pc = "persist") = (hist.over # 0)
        \/ Len(todo) = 1 /\ todo[1].kind = "complete" /\ hist.over # 0

(* What is left to broadcast: only the final report ends the stream, and it *)
(* comes once.                                                              *)
Agenda ==
    /\ \A h \in Handlers \ {"out"} : Plain(h)
    /\ job = "running" => hist.over = 0 /\ Plain("out")
    /\ job = "completed" => Reporting

(* On one connection the numbers rise up to the status. *)
Rises ==
    /\ \A m, n \in In(queue) : m.id < n.id /\ Early(n.id) => m.seq < n.seq
    /\ \A m, n \in Deliverable : m.id < n.id /\ Early(n.id) => m.seq < n.seq
    /\ hist.over = 0 => \A m \in In(queue) : m.seq <= counter
    /\ hist.over = 0 /\ sconn = "open" => \A m \in Deliverable : m.seq <= counter
    /\ sconn \in {"none", "registering"} => In(net) = {} /\ In(buf) = {}

(* A broadcast after the first one heard that the client will never hear. *)
Missed ==
    \E x \in 1..hist.sent : /\ x \notin cl.heard /\ \E k \in cl.heard : k < x
                            /\ \A m \in Line : x < m.id

(* The client came when the status was out. *)
Late == hist.over # 0 /\ cl.heard # {} /\ \A k \in cl.heard : k > hist.over

(* The client is never behind the last number it heard. *)
Heeds(sq) ==
    /\ cl.sawMessage => cl.heard # {}
    /\ \A i \in cl.heard : Early(i) /\ (\A k \in cl.heard : k <= i) => sq[i] <= cl.lastSeq
    /\ hist.over \in cl.heard => cl.terminalSeen
    /\ cl.sawData => /\ sconn \in {"open", "gone"}
                     /\ \A m \in Deliverable : Early(m.id) => m.seq > 1
                     /\ hist.over = 0 /\ sconn = "open" => counter >= 1
    /\ cl.gap => Missed \/ Late

Ledger(sq) == Steady(sq) /\ Noted(sq) /\ Source(sq) /\ Agenda /\ Rises /\ Heeds(sq)

GapInv == job # "failed" => \E sq \in Numbers : Ledger(sq)

(* The connection in a step that broadcasts and reads nothing: the client   *)
(* can only lose messages, or starts a new connection, which then opens.    *)
SocketStep ==
    \/ Deliverable' \subseteq Deliverable /\ cl'.sawData = cl.sawData /\ sconn' \in {sconn, "gone"}
    \/ sconn' = "registering" /\ In(net') = {} /\ In(buf') = {} /\ ~cl'.sawData
    \/ sconn = "registering" /\ sconn' = "open" /\ UNCHANGED <<net, buf, queue, cl>>

(* Such a step keeps the record. *)
LEMMA QuietLedger ==
    ASSUME NEW sq \in Numbers, Ledger(sq), SocketStep,
           Line' \subseteq Line, In(queue') \subseteq In(queue),
           UNCHANGED <<job, hnd, counter, row, hist.sent, hist.over, Memory>>
    PROVE  Ledger(sq)'
<1>1. UNCHANGED <<cl.sawMessage, cl.lastSeq, cl.gap, cl.terminalSeen, cl.heard>>
  BY DEF Memory
<1>2. Steady(sq)' /\ Noted(sq)'
  BY DEF Ledger, Steady, Noted, Early
<1>3. Source(sq)' /\ Agenda'
  BY DEF Ledger, Source, Agenda, Plain, Reporting, EnsureSeq
<1>4. (Missed => Missed') /\ (Late => Late')
  BY <1>1 DEF Missed, Late
<1>5. /\ cl'.sawMessage => cl'.heard # {}
      /\ \A i \in cl'.heard : Early(i)' /\ (\A k \in cl'.heard : k <= i) => sq[i] <= cl'.lastSeq
      /\ hist'.over \in cl'.heard => cl'.terminalSeen
      /\ cl'.gap => Missed' \/ Late'
  BY <1>1, <1>4 DEF Ledger, Heeds, Early
<1>6. /\ \A m, n \in In(queue') : m.id < n.id /\ Early(n.id) => m.seq < n.seq
      /\ hist.over = 0 => \A m \in In(queue') : m.seq <= counter'
  BY DEF Ledger, Rises, Early
<1>7. CASE /\ Deliverable' \subseteq Deliverable /\ cl'.sawData = cl.sawData
           /\ sconn' \in {sconn, "gone"}
  <2>1. sconn' \in {"none", "registering"} => In(net') = {} /\ In(buf') = {}
    BY <1>7 DEF Ledger, Rises, Deliverable
  <2>2. Rises'
    BY <1>6, <1>7, <2>1 DEF Ledger, Rises, Early
  <2>3. Heeds(sq)'
    BY <1>1, <1>5, <1>7 DEF Ledger, Heeds, Early
  <2> QED
    BY <1>2, <1>3, <2>2, <2>3 DEF Ledger
<1>8. CASE sconn' = "registering" /\ In(net') = {} /\ In(buf') = {} /\ ~cl'.sawData
  <2>1. Deliverable' = {}
    BY <1>8 DEF Deliverable
  <2>2. Rises'
    BY <1>6, <1>8, <2>1 DEF Rises, Early
  <2>3. Heeds(sq)'
    BY <1>5, <1>8 DEF Heeds, Early
  <2> QED
    BY <1>2, <1>3, <2>2, <2>3 DEF Ledger
<1>9. CASE sconn = "registering" /\ sconn' = "open" /\ UNCHANGED <<net, buf, queue, cl>>
  <2>1. Deliverable' = In(queue') /\ ~cl'.sawData
    BY <1>9 DEF Ledger, Rises, Heeds, Deliverable
  <2>2. Rises'
    BY <1>6, <1>9, <2>1 DEF Rises, Early
  <2>3. Heeds(sq)'
    BY <1>5, <2>1 DEF Heeds, Early
  <2> QED
    BY <1>2, <1>3, <2>2, <2>3 DEF Ledger
<1> QED
  BY <1>7, <1>8, <1>9 DEF SocketStep

(* Such a step keeps the invariant. *)
LEMMA QuietGap ==
    ASSUME GapInv, SocketStep, Line' \subseteq Line, In(queue') \subseteq In(queue),
           UNCHANGED <<job, hnd, counter, row, hist.sent, hist.over, Memory>>
    PROVE  GapInv'
<1> SUFFICES ASSUME job' # "failed"
             PROVE  \E sq \in Numbers : Ledger(sq)'
  BY DEF GapInv
<1>1. PICK sq \in Numbers : Ledger(sq)
  BY DEF GapInv
<1>2. Ledger(sq)'
  BY <1>1, QuietLedger
<1> QED
  BY <1>2

(* Messages get lost, the connection stays or goes. *)
LEMMA ShrinkSocket ==
    ASSUME In(net') \subseteq In(net), In(buf') \subseteq In(buf), In(queue') \subseteq In(queue),
           sconn' \in {sconn, "gone"}, cl'.sawData = cl.sawData
    PROVE  SocketStep
<1>1. Deliverable' \subseteq Deliverable
  BY DEF Deliverable
<1> QED
  BY <1>1 DEF SocketStep

(* The wait returns or goes on. *)
LEMMA ReturnSocket ==
    ASSUME NEW result, Return(result), UNCHANGED <<queue, cl.sawData>>
    PROVE  SocketStep
<1>1. sconn' \in {sconn, "gone"} /\ In(net') = {} /\ In(buf') = {}
  BY InEmpty DEF Return
<1> QED
  BY <1>1, ShrinkSocket

LEMMA StaysSocket ==
    ASSUME NEW next, Stays(next), UNCHANGED <<queue, cl.sawData>>
    PROVE  SocketStep
<1>1. sconn' = sconn /\ net' = net /\ buf' = buf
  BY DEF Stays, pumps
<1> QED
  BY <1>1, ShrinkSocket

(* The dials, the refused connection and the end of a connection. *)
LEMMA DialSocket ==
    ASSUME Shape, Connected \/ DialFailed \/ DialRefused \/ ReadError
    PROVE  SocketStep
<1>1. cl \in ClientStates
  BY DEF Shape, ClientShape
<1>2. CASE Connected
  <2>1. sconn' = "registering" /\ In(net') = {} /\ In(buf') = {}
    BY <1>2, InEmpty DEF Connected, HandleJobLog
  <2>2. ~cl'.sawData
    BY <1>1, <1>2 DEF Connected, ClientStates
  <2> QED
    BY <2>1, <2>2 DEF SocketStep
<1>3. CASE DialFailed
  <2>1. queue' = queue /\ cl'.sawData = cl.sawData
    BY <1>1, <1>3 DEF DialFailed, server, ClientStates
  <2>2. (\E next : Stays(next)) \/ (\E result : Return(result))
    BY <1>3 DEF DialFailed
  <2> QED
    BY <2>1, <2>2, StaysSocket, ReturnSocket
<1>4. CASE DialRefused
  <2>1. queue' = queue /\ cl'.sawData = cl.sawData
    BY <1>1, <1>4 DEF DialRefused, server, ClientStates
  <2>2. (\E next : Stays(next)) \/ (\E result : Return(result))
    BY <1>4 DEF DialRefused
  <2> QED
    BY <2>1, <2>2, StaysSocket, ReturnSocket
<1>5. CASE ReadError
  <2>1. queue' = queue /\ cl'.sawData = cl.sawData
    BY <1>1, <1>5 DEF ReadError, server, ClientStates
  <2>2. sconn' = sconn /\ buf' = buf /\ In(net') = {}
    BY <1>5, InEmpty DEF ReadError
  <2> QED
    BY <2>1, <2>2, ShrinkSocket
<1> QED
  BY <1>2, <1>3, <1>4, <1>5

(* The arms of the select of the wait. *)
LEMMA WaitSocket ==
    ASSUME Shape, BackupPoll \/ Waiting \/ ContextDone
    PROVE  SocketStep
<1>1. cl \in ClientStates
  BY DEF Shape, ClientShape
<1>2. queue' = queue /\ cl'.sawData = cl.sawData
  BY <1>1 DEF BackupPoll, Waiting, PollDone, DrainStreamingOutput, TerminalEvent, PollErr,
              ListenDone, Fallback, ContextDone, server, ClientStates
<1>3. (\E next : Stays(next)) \/ (\E result : Return(result))
  BY DEF BackupPoll, Waiting, PollDone, DrainStreamingOutput, TerminalEvent, PollErr,
         ListenDone, Fallback, ContextDone, Stays
<1> QED
  BY <1>2, <1>3, StaysSocket, ReturnSocket

(* The hub and the pumps. *)
LEMMA HubSocket ==
    ASSUME Shape, LineInv, Hub
    PROVE  /\ SocketStep /\ Line' \subseteq Line /\ In(queue') \subseteq In(queue)
           /\ UNCHANGED <<job, hnd, counter, row, hist, cl>>
<1>1. CASE HubRegister
  <2>1. /\ sconn = "registering" /\ sconn' = "open"
        /\ UNCHANGED <<job, hnd, counter, row, hist, queue, net, buf, cl>>
    BY <1>1 DEF HubRegister, server, client
  <2> QED
    BY <1>1, <2>1, LineRegister DEF SocketStep
<1>2. CASE HubUnregister
  <2>1. /\ sconn' = "gone" /\ In(buf') = {}
        /\ UNCHANGED <<job, hnd, counter, row, hist, queue, net, cl>>
    BY <1>2, InEmpty DEF HubUnregister, server, client
  <2> QED
    BY <1>2, <2>1, LineRegister, ShrinkSocket
<1>3. CASE WritePump
  <2>1. PICK k \in 1..Len(buf) : net' = net \o SubSeq(buf, 1, k) /\ buf' = SubSeq(buf, k + 1, Len(buf))
    BY <1>3 DEF WritePump
  <2>2. UNCHANGED <<job, hnd, counter, row, hist, queue, sconn, cl>>
    BY <1>3 DEF WritePump, server, client
  <2>3. buf \in Seq(Message) /\ net \in Seq(Message) /\ k \in 0..Len(buf)
    BY DEF Shape, PumpShape
  <2> DEFINE a == SubSeq(buf, 1, k)
  <2>4. /\ a \in Seq(Message) /\ In(a) \subseteq In(buf) /\ Rising(a)
        /\ In(buf') \subseteq In(buf)
    BY <2>1, <2>3, InSub DEF LineInv
  <2>5. net' = net \o a
    BY <2>1
  <2> HIDE DEF a
  <2>6. In(net') \subseteq In(net) \cup In(buf)
    BY <2>3, <2>4, <2>5, InConcat DEF LineInv
  <2>7. Deliverable' \subseteq Deliverable
    BY <2>2, <2>4, <2>6 DEF Deliverable
  <2> QED
    BY <1>3, <2>2, <2>7, LineWrite DEF SocketStep
<1>4. CASE HubBroadcast
  <2>1. queue # <<>> /\ queue' = Tail(queue) /\ UNCHANGED <<job, hnd, counter, row, hist, cl>>
    BY <1>4 DEF HubBroadcast, client
  <2>2. queue \in Seq(Message) /\ buf \in Seq(Message) /\ net \in Seq(Message)
    BY DEF Shape, ServerShape, PumpShape
  <2>3. In(queue') \subseteq In(queue)
    BY <2>1, <2>2, InTail DEF LineInv
  <2>4. CASE UNCHANGED pumps
    <3>1. UNCHANGED <<sconn, buf, net>>
      BY <2>4 DEF pumps
    <3> QED
      BY <1>4, <2>1, <2>3, <3>1, ShrinkSocket, LineHub
  <2>5. CASE sconn' = "gone" /\ buf' = <<>> /\ \E kind \in Closing : Closed(kind)
    <3>1. In(net') \subseteq In(net) /\ In(buf') = {}
      BY <2>2, <2>5, InClosed, InEmpty DEF LineInv
    <3> QED
      BY <1>4, <2>1, <2>3, <2>5, <3>1, ShrinkSocket, LineHub
  <2>6. CASE sconn = "open" /\ buf' = Append(buf, Head(queue)) /\ UNCHANGED <<sconn, net>>
    <3> DEFINE e == Head(queue)
    <3>1. e \in Message
      BY <2>1, <2>2, TailType
    <3>2. e.kind \notin Closing => e \in In(queue)
      BY <2>1, <2>2, InTail DEF LineInv
    <3> HIDE DEF e
    <3>3. e.kind \notin Closing => \A m \in In(buf) : m.id < e.id
      BY <3>2 DEF LineInv
    <3>4. In(buf') \subseteq In(buf) \cup {m \in {e} : m.kind \notin Closing}
      BY <2>2, <2>6, <3>1, <3>3, InAppend DEF LineInv, e
    <3>5. In(buf') \subseteq In(buf) \cup In(queue)
      BY <3>2, <3>4
    <3>6. Deliverable' \subseteq Deliverable
      BY <2>3, <2>6, <3>5 DEF Deliverable
    <3> QED
      BY <1>4, <2>1, <2>3, <2>6, <3>6, LineHub DEF SocketStep
  <2> QED
    BY <1>4, <2>4, <2>5, <2>6 DEF HubBroadcast
<1> QED
  BY <1>1, <1>2, <1>3, <1>4 DEF Hub

(* The network and the steps that touch no stream. *)
LEMMA OutsideSocket ==
    ASSUME Shape, LineInv, NetBreak \/ Start \/ UNCHANGED vars
    PROVE  /\ SocketStep /\ Line' \subseteq Line /\ In(queue') \subseteq In(queue)
           /\ UNCHANGED <<job, hnd, counter, row, hist, cl>>
<1>1. CASE NetBreak
  <2>1. PICK k \in 0..Len(net) : net' = Append(SubSeq(net, 1, k), Msg("BROKEN"))
    BY <1>1 DEF NetBreak
  <2>2. UNCHANGED <<job, hnd, counter, row, hist, queue, sconn, buf, cl>> /\ net \in Seq(Message)
    BY <1>1 DEF NetBreak, server, client, Shape, PumpShape
  <2> DEFINE a == SubSeq(net, 1, k)
  <2>3. a \in Seq(Message) /\ In(a) \subseteq In(net) /\ Rising(a)
    BY <2>2, InSub DEF LineInv
  <2>4. net' = Append(a, Msg("BROKEN"))
    BY <2>1
  <2> HIDE DEF a
  <2>5. Msg("BROKEN") \in Message /\ Msg("BROKEN").kind \in Closing
    BY MsgType DEF Kinds, Closing
  <2>6. In(net') \subseteq In(a)
    BY <2>3, <2>4, <2>5, InAppend
  <2> QED
    BY <1>1, <2>2, <2>3, <2>6, LineBreak, ShrinkSocket
<1>2. CASE Start \/ UNCHANGED vars
  <2>1. UNCHANGED <<job, hnd, counter, row, hist, queue, sconn, buf, net, cl>>
    BY <1>2 DEF Start, vars, server, pumps, client
  <2> QED
    BY <2>1, LineSame, ShrinkSocket
<1> QED
  BY <1>1, <1>2

(* All steps that broadcast and read nothing keep the invariant. *)
LEMMA QuietGaps ==
    ASSUME StreamInv, GapInv,
           \/ Hub \/ NetBreak \/ Start \/ UNCHANGED vars
           \/ Connected \/ DialFailed \/ DialRefused \/ ReadError
           \/ BackupPoll \/ Waiting \/ ContextDone
    PROVE  GapInv'
<1>1. Shape /\ LineInv
  BY DEF StreamInv
<1>2. CASE Hub \/ NetBreak \/ Start \/ UNCHANGED vars
  <2>1. /\ SocketStep /\ Line' \subseteq Line /\ In(queue') \subseteq In(queue)
        /\ UNCHANGED <<job, hnd, counter, row, hist, cl>>
    BY <1>1, <1>2, HubSocket, OutsideSocket
  <2>2. UNCHANGED Memory
    BY <2>1 DEF Memory
  <2> QED
    BY <2>1, <2>2, QuietGap
<1>3. CASE \/ Connected \/ DialFailed \/ DialRefused \/ ReadError
           \/ BackupPoll \/ Waiting \/ ContextDone
  <2>1. ClientMoves /\ SocketStep
    BY <1>1, <1>3, DialMoves, WaitMoves, DialSocket, WaitSocket
  <2>2. Line' \subseteq Line
    BY <1>1, <2>1, LineClient
  <2>3. UNCHANGED <<job, hnd, counter, row, hist, queue, Memory>>
    BY <2>1 DEF ClientMoves, server
  <2> QED
    BY <2>1, <2>2, <2>3, QuietGap
<1> QED
  BY <1>2, <1>3

(* The numbers of the messages on their way. *)
LEMMA LineType ==
    ASSUME Shape
    PROVE  \A m \in Line : m \in Message /\ m.seq \in Nat /\ m.id \in Nat
<1>1. queue \in Seq(Message) /\ buf \in Seq(Message) /\ net \in Seq(Message)
  BY DEF Shape, ServerShape, PumpShape
<1>2. ASSUME NEW s \in Seq(Message), NEW m \in In(s) PROVE m \in Message
  BY <1>2 DEF In
<1>3. \A m \in Line : m \in Message
  BY <1>1, <1>2 DEF Line
<1> QED
  BY <1>3 DEF Message

(* A step of the handlers that numbers nothing keeps the record when it     *)
(* keeps the part about them.                                               *)
LEMMA HandlerLedger ==
    ASSUME Shape, NEW sq \in Numbers, Ledger(sq),
           UNCHANGED <<hist.sent, hist.over, queue, net, buf, sconn, cl>>, Source(sq)', Agenda',
           counter' \in Nat, hist.over = 0 => counter' >= counter
    PROVE  Ledger(sq)'
<1>1. Line' = Line /\ Deliverable' = Deliverable /\ Deliverable \subseteq Line /\ In(queue) \subseteq Line
  BY DEF Line, Deliverable
<1>2. Steady(sq)' /\ Noted(sq)'
  BY <1>1 DEF Ledger, Steady, Noted, Early
<1>3. counter \in Nat /\ \A m \in Line : m.seq \in Nat
  BY LineType DEF Shape, ServerShape
<1>4. Rises'
  <2>1. \A m \in Line : hist.over = 0 /\ m.seq <= counter => m.seq <= counter'
    BY <1>3
  <2> QED
    BY <1>1, <2>1 DEF Ledger, Rises, Early
<1>5. Heeds(sq)'
  <2>1. hist.over = 0 /\ counter >= 1 => counter' >= 1
    BY <1>3
  <2>2. Missed' = Missed /\ Late' = Late
    BY <1>1 DEF Missed, Late
  <2> QED
    BY <1>1, <2>1, <2>2 DEF Ledger, Heeds, Early
<1> QED
  BY <1>2, <1>4, <1>5 DEF Ledger

(* The fields prefetchSeq sets. *)
LEMMA PrefetchedFields ==
    ASSUME NEW todo, NEW saved \in Nat, counter \in Nat
    PROVE  LET p == Prefetched(todo, saved)
           IN  /\ p.todo = todo /\ p.save = 0 /\ p.loaded \in {0, saved}
               /\ p.pc \in {"inject", "stamp"}
               /\ counter # 0 => p.pc = "stamp" /\ p.loaded = 0
               /\ p.pc = "inject" => p.loaded = saved
<1> DEFINE load == IF counter = 0 /\ Head(todo).kind # "release" THEN saved ELSE 0
<1>1. load \in {0, saved} /\ (load > 0 => load = saved) /\ (counter # 0 => load = 0) /\ load \in Nat
  OBVIOUS
<1>2. Prefetched(todo, saved) =
        [pc |-> IF load > 0 THEN "inject" ELSE "stamp", todo |-> todo, loaded |-> load, save |-> 0]
  BY DEF Prefetched
<1> HIDE DEF load
<1> QED
  BY <1>1, <1>2

(* The number a report may load is not ahead of the stream. *)
LEMMA ServeSource ==
    ASSUME Shape, NEW sq \in Numbers, Source(sq), NEW h \in Handlers, NEW todo, Serve(h, todo)
    PROVE  /\ Source(sq)' /\ hnd'[h].todo = todo /\ hnd'[h].pc \in {"inject", "stamp"}
           /\ \A g \in Handlers \ {h} : hnd'[g] = hnd[g]
           /\ UNCHANGED <<counter, row, hist, queue, net, buf, sconn, cl>>
<1>1. counter \in Nat /\ row \in Nat /\ ServerShape
  BY DEF Shape, ServerShape
<1> DEFINE p == Prefetched(todo, row)
<1>2. /\ p.todo = todo /\ p.save = 0 /\ p.loaded \in {0, row} /\ p.pc \in {"inject", "stamp"}
      /\ p.pc = "inject" => p.loaded = row
  BY <1>1, PrefetchedFields
<1>3. hnd' = [hnd EXCEPT ![h] = p] /\ UNCHANGED <<counter, row, hist, queue, net, buf, sconn, cl>>
  BY DEF Serve, pumps, client
<1> HIDE DEF p
<1>4. hnd'[h] = p /\ \A g \in Handlers \ {h} : hnd'[g] = hnd[g]
  BY <1>1, <1>3 DEF ServerShape
<1>5. EnsureSeq' = EnsureSeq /\ EnsureSeq \in Nat
  BY <1>1, <1>3 DEF EnsureSeq
<1>6. Source(sq)'
  <2> SUFFICES ASSUME hist.over = 0
               PROVE  /\ row <= EnsureSeq /\ EnsureSeq <= sq[hist.sent]
                      /\ \A g \in Handlers : hnd'[g].save <= EnsureSeq /\ hnd'[g].loaded <= EnsureSeq
                      /\ counter = 0 => \A g \in Handlers :
                           hnd'[g].pc # "persist" /\ (hnd'[g].pc = "inject" => hnd'[g].loaded = row)
    BY <1>3, <1>5 DEF Source
  <2>1. p.save <= EnsureSeq /\ p.loaded <= EnsureSeq
    BY <1>1, <1>2, <1>5 DEF Source
  <2>2. \A g \in Handlers : hnd'[g].save <= EnsureSeq /\ hnd'[g].loaded <= EnsureSeq
    BY <1>4, <2>1 DEF Source
  <2>3. counter = 0 => \A g \in Handlers :
          hnd'[g].pc # "persist" /\ (hnd'[g].pc = "inject" => hnd'[g].loaded = row)
    BY <1>2, <1>4 DEF Source
  <2> QED
    BY <2>2, <2>3 DEF Source
<1> QED
  BY <1>2, <1>3, <1>4, <1>6

(* A report of one message. *)
LEMMA PlainOne ==
    ASSUME NEW h \in Handlers, NEW m, hnd'[h].todo = <<m>>,
           m.kind \in {"stdout", "stderr", "progress"}
    PROVE  Plain(h)'
<1>1. Len(hnd'[h].todo) = 1 /\ hnd'[h].todo[1] = m /\ 1..1 = {1}
  OBVIOUS
<1>2. \A i \in 1..1 : hnd'[h].todo[i].kind \in {"stdout", "stderr", "progress"}
  BY <1>1
<1> QED
  BY <1>1, <1>2 DEF Plain

(* The reports: SendStdoutChunk, a side report, the final report. *)
LEMMA ReportLedger ==
    ASSUME Shape, NEW sq \in Numbers, Ledger(sq), PostStdout \/ PostSide \/ ReportFinal,
           job' # "failed"
    PROVE  Ledger(sq)'
<1>1. /\ Source(sq) /\ Agenda /\ counter \in Nat /\ job = "running" /\ hist.over = 0
      /\ "out" \in Handlers /\ "side" \in Handlers
  BY DEF PostStdout, PostSide, ReportFinal, Ledger, Agenda, Shape, ServerShape, Handlers
<1>2. ASSUME NEW h \in Handlers, NEW todo, Serve(h, todo), Agenda'
      PROVE  Ledger(sq)'
  <2>1. Source(sq)' /\ UNCHANGED <<counter, hist, queue, net, buf, sconn, cl>>
    BY <1>1, <1>2, ServeSource
  <2> QED
    BY <1>1, <1>2, <2>1, HandlerLedger
<1>3. ASSUME NEW h \in Handlers, NEW m, m.kind \in {"stdout", "stderr", "progress"},
             Serve(h, <<m>>), job' = job
      PROVE  Ledger(sq)'
  <2>1. /\ hnd'[h].todo = <<m>> /\ (\A g \in Handlers \ {h} : hnd'[g] = hnd[g]) /\ hist' = hist
    BY <1>1, <1>3, ServeSource
  <2>2. Plain(h)'
    BY <1>3, <2>1, PlainOne
  <2>3. \A g \in Handlers : Plain(g)'
    <3>1. \A g \in Handlers : Plain(g)
      BY <1>1 DEF Agenda
    <3>2. \A g \in Handlers \ {h} : Plain(g)'
      BY <2>1, <3>1 DEF Plain
    <3> QED
      BY <2>2, <3>2
  <2>4. Agenda'
    BY <1>1, <1>3, <2>1, <2>3 DEF Agenda
  <2> QED
    BY <1>2, <1>3, <2>4
<1>4. CASE PostStdout
  <2> DEFINE m == [Msg("stdout") EXCEPT !.chunk = Chunk(worker.chunks + 1)]
  <2>1. Serve("out", <<m>>) /\ job' = job
    BY <1>4 DEF PostStdout
  <2>2. m.kind = "stdout"
    BY DEF Msg
  <2> HIDE DEF m
  <2> QED
    BY <1>1, <1>3, <2>1, <2>2
<1>5. CASE PostSide
  <2>1. PICK kind \in {"stderr", "progress"} : Serve("side", <<Msg(kind)>>)
    BY <1>5 DEF PostSide
  <2> DEFINE m == Msg(kind)
  <2>2. Serve("side", <<m>>) /\ job' = job
    BY <1>5, <2>1 DEF PostSide
  <2>3. m.kind \in {"stderr", "progress"}
    BY DEF Msg
  <2> HIDE DEF m
  <2> QED
    BY <1>1, <1>3, <2>2, <2>3
<1>6. CASE ReportFinal
  <2> DEFINE s == Msg("status")
             c == Msg("complete")
  <2>1. Serve("out", <<s, c>>) /\ job' = "completed"
    BY <1>6 DEF ReportFinal
  <2>2. s.kind = "status" /\ c.kind = "complete"
    BY DEF Msg
  <2> HIDE DEF s, c
  <2>3. /\ hnd'["out"].todo = <<s, c>> /\ hnd'["out"].pc \in {"inject", "stamp"}
        /\ (\A g \in Handlers \ {"out"} : hnd'[g] = hnd[g]) /\ hist' = hist
    BY <1>1, <2>1, ServeSource
  <2>4. Reporting'
    BY <1>1, <2>2, <2>3 DEF Reporting
  <2>5. Agenda'
    BY <1>1, <2>1, <2>3, <2>4 DEF Agenda, Plain
  <2> QED
    BY <1>1, <1>2, <2>1, <2>5
<1> QED
  BY <1>4, <1>5, <1>6

(* A sender that has gone, or was never heard. *)
LEMMA SenderLedger ==
    ASSUME Shape, NEW sq \in Numbers, Ledger(sq), PostFails \/ LoseAnswer \/ Migrate
    PROVE  Ledger(sq)'
<1>1. /\ UNCHANGED <<job, counter, row, queue, net, buf, sconn, cl>>
      /\ counter \in Nat /\ row \in Nat /\ Source(sq) /\ Agenda
  BY DEF PostFails, LoseAnswer, Migrate, pumps, client, Shape, ServerShape, Ledger
<1>2. CASE hnd' = hnd /\ hist'.sent = hist.sent /\ hist'.over = hist.over
  <2>1. Source(sq)' /\ Agenda'
    BY <1>1, <1>2 DEF Source, Agenda, Plain, Reporting, EnsureSeq
  <2> QED
    BY <1>1, <1>2, <2>1, HandlerLedger
<1>3. ASSUME NEW s \in Strays, Abandon(s), job = "running" PROVE Ledger(sq)'
  <2>1. /\ s \in Handlers \ {"out", "side"} /\ "out" \in Handlers
        /\ hnd'[s] = hnd["out"] /\ hnd'["out"] = Idle
        /\ \A g \in Handlers \ {s, "out"} : hnd'[g] = hnd[g]
        /\ hist'.sent = hist.sent /\ hist'.over = hist.over
    BY <1>3, AbandonType DEF Handlers
  <2>2. Idle.pc = "idle" /\ Idle.todo = <<>> /\ Idle.save = 0 /\ Idle.loaded = 0 /\ Len(<<>>) = 0
    BY DEF Idle
  <2>3. \A g \in Handlers \ {"out"} : \E f \in Handlers : hnd'[g] = hnd[f]
    BY <2>1
  <2>4. EnsureSeq' = EnsureSeq /\ EnsureSeq \in Nat
    BY <1>1 DEF EnsureSeq
  <2>5. Source(sq)'
    <3> SUFFICES ASSUME hist.over = 0
                 PROVE  /\ row <= EnsureSeq /\ EnsureSeq <= sq[hist.sent]
                        /\ \A g \in Handlers : hnd'[g].save <= EnsureSeq /\ hnd'[g].loaded <= EnsureSeq
                        /\ counter = 0 => \A g \in Handlers :
                             hnd'[g].pc # "persist" /\ (hnd'[g].pc = "inject" => hnd'[g].loaded = row)
      BY <1>1, <2>1, <2>4 DEF Source
    <3>1. 0 <= EnsureSeq
      BY <2>4
    <3>2. \A g \in Handlers : hnd'[g].save <= EnsureSeq /\ hnd'[g].loaded <= EnsureSeq
      BY <1>1, <2>1, <2>2, <2>3, <3>1 DEF Source
    <3>3. counter = 0 => \A g \in Handlers :
            hnd'[g].pc # "persist" /\ (hnd'[g].pc = "inject" => hnd'[g].loaded = row)
      BY <1>1, <2>1, <2>2, <2>3 DEF Source
    <3> QED
      BY <1>1, <3>2, <3>3 DEF Source
  <2>6. \A g \in Handlers : Plain(g)
    BY <1>1, <1>3 DEF Agenda
  <2>7. \A g \in Handlers \ {"out"} : Plain(g)'
    BY <2>3, <2>6 DEF Plain
  <2>8. Plain("out")'
    BY <2>1, <2>2 DEF Plain
  <2>9. Agenda'
    BY <1>1, <1>3, <2>1, <2>7, <2>8 DEF Agenda
  <2> QED
    BY <1>1, <2>1, <2>5, <2>9, HandlerLedger
<1>4. CASE PostFails
  <2>1. hnd' = hnd /\ hist'.sent = hist.sent /\ hist'.over = hist.over
    BY <1>4 DEF PostFails, Shape, ServerShape, Histories
  <2> QED
    BY <1>2, <2>1
<1>5. CASE LoseAnswer \/ Migrate
  BY <1>2, <1>3, <1>5 DEF LoseAnswer, Migrate
<1> QED
  BY <1>4, <1>5

(* The number loaded is the one in the row. *)
LEMMA InjectLedger ==
    ASSUME Shape, NEW sq \in Numbers, Ledger(sq), NEW h \in Handlers, InjectSeq(h)
    PROVE  Ledger(sq)'
<1> DEFINE r == [hnd[h] EXCEPT !.pc = "stamp", !.loaded = 0]
<1>1. ServerShape /\ hnd[h].pc = "inject" /\ hnd[h] \in HandlerStates
      /\ hnd[h].loaded \in Nat /\ hnd[h].save \in Nat
  BY HandlerFields DEF Shape, ServerShape, InjectSeq
<1>2. /\ counter' = IF counter = 0 THEN hnd[h].loaded ELSE counter
      /\ hnd' = [hnd EXCEPT ![h] = r]
      /\ UNCHANGED <<job, row, queue, hist, sconn, buf, net, cl>>
  BY DEF InjectSeq, pumps, client
<1>3. r.pc = "stamp" /\ r.todo = hnd[h].todo /\ r.loaded = 0 /\ r.save = hnd[h].save
  BY <1>1 DEF HandlerStates
<1> HIDE DEF r
<1>4. hnd'[h] = r /\ \A g \in Handlers \ {h} : hnd'[g] = hnd[g]
  BY <1>1, <1>2 DEF ServerShape
<1>5. counter \in Nat /\ row \in Nat /\ counter' \in Nat /\ counter' >= counter
  BY <1>1, <1>2 DEF ServerShape
<1>6. Source(sq) /\ Agenda
  BY DEF Ledger
<1>7. \A g \in Handlers : hnd'[g].todo = hnd[g].todo /\ hnd'[g].save = hnd[g].save
                          /\ (hnd'[g].pc = "idle") = (hnd[g].pc = "idle")
                          /\ (hnd'[g].pc = "persist") = (hnd[g].pc = "persist")
                          /\ hnd'[g].loaded \in {0, hnd[g].loaded}
  BY <1>1, <1>3, <1>4
<1>8. Agenda'
  <2>1. "out" \in Handlers
    BY DEF Handlers
  <2>2. Reporting => Reporting'
    BY <1>2, <1>7, <2>1 DEF Reporting
  <2>3. \A g \in Handlers : Plain(g) => Plain(g)'
    BY <1>7 DEF Plain
  <2> QED
    BY <1>2, <1>6, <2>1, <2>2, <2>3 DEF Agenda
<1>9. Source(sq)'
  <2> SUFFICES ASSUME hist.over = 0 PROVE Source(sq)'
    BY <1>2 DEF Source
  <2>1. EnsureSeq' = EnsureSeq /\ EnsureSeq \in Nat
    BY <1>1, <1>2, <1>5, <1>6 DEF EnsureSeq, Source
  <2>2. \A g \in Handlers : hnd'[g].save <= EnsureSeq /\ hnd'[g].loaded <= EnsureSeq
    BY <1>6, <1>7, <2>1 DEF Source
  <2>3. counter' = 0 => counter = 0
    BY <1>5
  <2>4. \A g \in Handlers : hnd'[g].pc = "inject" => hnd'[g] = hnd[g]
    BY <1>3, <1>4
  <2>5. counter' = 0 => \A g \in Handlers :
          hnd'[g].pc # "persist" /\ (hnd'[g].pc = "inject" => hnd'[g].loaded = row)
    BY <1>6, <1>7, <2>3, <2>4 DEF Source
  <2> QED
    BY <1>2, <1>6, <2>1, <2>2, <2>5 DEF Source
<1> QED
  BY <1>2, <1>5, <1>8, <1>9, HandlerLedger

(* What saving the number changes. *)
LEMMA PersistFields ==
    ASSUME Shape, NEW h \in Handlers, PersistSeq(h)
    PROVE  /\ hnd[h].pc = "persist" /\ row' \in {row, hnd[h].save} /\ row' \in Nat
           /\ Len(hnd[h].todo) \in Nat \ {0}
           /\ Len(hnd[h].todo) = 1 => hnd'[h] = Idle
           /\ Len(hnd[h].todo) # 1 =>
                /\ hnd'[h].todo = Tail(hnd[h].todo) /\ hnd'[h].pc \in {"inject", "stamp"}
                /\ hnd'[h].save = 0
                /\ counter # 0 => hnd'[h].pc = "stamp" /\ hnd'[h].loaded = 0
           /\ \A g \in Handlers \ {h} : hnd'[g] = hnd[g]
           /\ UNCHANGED <<job, counter, hist, queue, net, buf, sconn, cl>>
<1>1. ServerShape /\ hnd[h].pc = "persist" /\ hnd[h].todo # <<>>
      /\ hnd[h].todo \in Seq(Message) /\ hnd[h].save \in Nat
  BY HandlerFields DEF Shape, ServerShape, PersistSeq
<1>2. row' \in Nat /\ row' \in {row, hnd[h].save} /\ counter \in Nat
  BY <1>1 DEF PersistSeq, SaveWSJobSeq, ServerShape
<1> DEFINE p == Prefetched(Tail(hnd[h].todo), row')
           r == IF Len(hnd[h].todo) = 1 THEN Idle ELSE p
<1>3. /\ hnd' = [hnd EXCEPT ![h] = r]
      /\ UNCHANGED <<job, counter, hist, queue, net, buf, sconn, cl>>
  BY DEF PersistSeq, pumps, client
<1>4. /\ p.todo = Tail(hnd[h].todo) /\ p.pc \in {"inject", "stamp"} /\ p.save = 0
      /\ counter # 0 => p.pc = "stamp" /\ p.loaded = 0
  BY <1>2, PrefetchedFields
<1> HIDE DEF p
<1>5. Len(hnd[h].todo) = 1 => r = Idle
  OBVIOUS
<1>6. Len(hnd[h].todo) # 1 => r = p
  OBVIOUS
<1> HIDE DEF r
<1>7. hnd'[h] = r /\ \A g \in Handlers \ {h} : hnd'[g] = hnd[g]
  BY <1>1, <1>3 DEF ServerShape
<1>8. Len(hnd[h].todo) \in Nat \ {0}
  BY <1>1, TailType
<1> QED
  BY <1>1, <1>2, <1>3, <1>4, <1>5, <1>6, <1>7, <1>8

(* The number saved is not ahead of the stream, whoever saves last. *)
LEMMA PersistLedger ==
    ASSUME Shape, NEW sq \in Numbers, Ledger(sq), NEW h \in Handlers, PersistSeq(h), job # "failed"
    PROVE  Ledger(sq)'
<1>1. /\ hnd[h].pc = "persist" /\ row' \in {row, hnd[h].save} /\ row' \in Nat
      /\ Len(hnd[h].todo) \in Nat \ {0}
      /\ Len(hnd[h].todo) = 1 => hnd'[h] = Idle
      /\ Len(hnd[h].todo) # 1 =>
           /\ hnd'[h].todo = Tail(hnd[h].todo) /\ hnd'[h].pc \in {"inject", "stamp"}
           /\ hnd'[h].save = 0
           /\ counter # 0 => hnd'[h].pc = "stamp" /\ hnd'[h].loaded = 0
      /\ \A g \in Handlers \ {h} : hnd'[g] = hnd[g]
      /\ UNCHANGED <<job, counter, hist, queue, net, buf, sconn, cl>>
  BY PersistFields
<1>2. Source(sq) /\ Agenda
  BY DEF Ledger
<1>3. counter \in Nat /\ row \in Nat /\ job \in {"running", "completed"}
      /\ hnd[h].todo \in Seq(Message) /\ "out" \in Handlers
  BY HandlerFields DEF Shape, ServerShape, Handlers
<1>4. Idle.pc = "idle" /\ Idle.todo = <<>> /\ Idle.save = 0 /\ Idle.loaded = 0 /\ Len(<<>>) = 0
  BY DEF Idle
<1>5. Plain(h) => Len(hnd[h].todo) = 1
  <2> DEFINE k == Len(hnd[h].todo)
  <2>1. k \in Nat /\ k # 0 /\ (Plain(h) => k <= 1)
    BY <1>1 DEF Plain
  <2> HIDE DEF k
  <2>2. Plain(h) => k = 1
    BY <2>1
  <2> QED
    BY <2>2 DEF k
<1>6. ASSUME Len(hnd[h].todo) # 1
      PROVE  /\ h = "out" /\ job = "completed" /\ hist.over # 0
             /\ Len(hnd'[h].todo) = 1 /\ hnd'[h].todo[1].kind = "complete"
             /\ hnd'[h].pc \in {"inject", "stamp"}
  <2>1. h = "out" /\ job = "completed"
    BY <1>2, <1>3, <1>5, <1>6 DEF Agenda
  <2>2. Reporting
    BY <1>2, <2>1 DEF Agenda
  <2>3. Len(hnd[h].todo) = 2 /\ hnd[h].todo[2].kind = "complete" /\ hist.over # 0
    BY <1>1, <1>6, <2>1, <2>2 DEF Reporting
  <2> DEFINE a == hnd[h].todo
  <2>4. a \in Seq(Message) /\ Len(a) = 2 /\ a # <<>>
    BY <1>3, <2>3, <1>4
  <2> HIDE DEF a
  <2>5. Len(Tail(a)) = 1 /\ \A i \in 1..Len(Tail(a)) : Tail(a)[i] = a[i + 1]
    BY <2>4
  <2>6. Tail(a)[1] = a[2]
    BY <2>5
  <2> QED
    BY <1>1, <1>6, <2>1, <2>3, <2>5, <2>6 DEF a
<1>7. Agenda'
  <2>1. CASE Len(hnd[h].todo) = 1
    <3>1. hnd'[h] = Idle /\ Plain(h)'
      BY <1>1, <1>4, <2>1 DEF Plain
    <3>2. \A g \in Handlers : Plain(g) => Plain(g)'
      BY <1>1, <3>1 DEF Plain
    <3>3. Reporting => Reporting'
      BY <1>1, <1>3, <1>4, <3>1 DEF Reporting
    <3> QED
      BY <1>1, <1>2, <1>3, <3>2, <3>3 DEF Agenda
  <2>2. CASE Len(hnd[h].todo) # 1
    BY <1>1, <1>2, <1>3, <1>6, <2>2 DEF Agenda, Plain, Reporting
  <2> QED
    BY <2>1, <2>2
<1>8. Source(sq)'
  <2> SUFFICES ASSUME hist.over = 0 PROVE Source(sq)'
    BY <1>1 DEF Source
  <2>1. counter # 0
    BY <1>1, <1>2 DEF Source
  <2>2. EnsureSeq' = EnsureSeq /\ EnsureSeq = counter
    BY <1>1, <2>1 DEF EnsureSeq
  <2>3. row' <= EnsureSeq
    BY <1>1, <1>2 DEF Source
  <2>4. hnd'[h].save = 0 /\ hnd'[h].loaded = 0
    BY <1>1, <1>4, <2>1
  <2>5. \A g \in Handlers : hnd'[g].save <= EnsureSeq /\ hnd'[g].loaded <= EnsureSeq
    <3>1. \A g \in Handlers : hnd[g].save <= EnsureSeq /\ hnd[g].loaded <= EnsureSeq
      BY <1>2 DEF Source
    <3>2. 0 <= EnsureSeq /\ \A g \in Handlers : g = h \/ hnd'[g] = hnd[g]
      BY <1>1, <1>3, <2>2
    <3> QED
      BY <2>4, <3>1, <3>2
  <2> QED
    BY <1>1, <1>2, <2>1, <2>2, <2>3, <2>5 DEF Source
<1>9. counter' >= counter /\ counter' \in Nat
  BY <1>1, <1>3
<1>10. UNCHANGED <<hist, queue, net, buf, sconn, cl>>
  BY <1>1
<1> QED
  BY <1>7, <1>8, <1>9, <1>10, HandlerLedger

(* A server that stops forgets the counter; the row is behind it. *)
LEMMA StopLedger ==
    ASSUME Shape, LineInv, NEW sq \in Numbers, Ledger(sq), NEW kind, NEW closing \in Closing,
           StopServer(kind, closing)
    PROVE  Ledger(sq)'
<1>1. /\ queue' = <<>> /\ buf' = <<>> /\ counter' = 0
      /\ hist'.sent = hist.sent /\ hist'.over = hist.over
      /\ hnd' = [h \in Handlers |-> Idle]
      /\ net' = net \/ Closed(closing)
      /\ UNCHANGED <<job, row, cl>>
  BY StopShape DEF client, StopServer
<1>2. /\ sconn' # "open" /\ (sconn \in {"open", "gone"} => sconn' = "gone")
      /\ sconn' \in {"none", "registering"} => sconn' = sconn /\ net' = net
  BY DEF StopServer, Shape, PumpShape
<1>3. In(net') \subseteq In(net) /\ In(queue') = {} /\ In(buf') = {}
  BY <1>1, InClosed, InEmpty DEF LineInv, Shape, PumpShape
<1>4. Line' \subseteq Line /\ Deliverable' \subseteq Deliverable
  BY <1>2, <1>3 DEF Line, Deliverable
<1>5. \A h \in Handlers : hnd'[h].pc = "idle" /\ hnd'[h].todo = <<>> /\ hnd'[h].save = 0
                          /\ hnd'[h].loaded = 0
  <2>1. Idle.pc = "idle" /\ Idle.todo = <<>> /\ Idle.save = 0 /\ Idle.loaded = 0
    BY DEF Idle
  <2>2. \A h \in Handlers : hnd'[h] = Idle
    BY <1>1
  <2> QED
    BY <2>1, <2>2
<1>6. counter \in Nat /\ row \in Nat /\ hist.sent \in Nat /\ sq[hist.sent] \in Nat
  BY DEF Shape, ServerShape, Histories, Numbers
<1>7. Steady(sq)' /\ Noted(sq)'
  BY <1>1, <1>4 DEF Ledger, Steady, Noted, Early
<1>8. Source(sq)'
  <2> SUFFICES ASSUME hist.over = 0 PROVE Source(sq)'
    BY <1>1 DEF Source
  <2>1. EnsureSeq' = row /\ EnsureSeq \in Nat
    BY <1>1, <1>6 DEF EnsureSeq
  <2>2. row <= sq[hist.sent]
    BY <1>6, <2>1 DEF Ledger, Source
  <2>3. \A h \in Handlers : /\ hnd'[h].save <= row /\ hnd'[h].loaded <= row
                            /\ hnd'[h].pc # "persist" /\ hnd'[h].pc # "inject"
    <3>1. 0 <= row
      BY <1>6
    <3> QED
      BY <1>5, <3>1
  <2>4. counter' = 0 /\ row' = row /\ hist'.sent = hist.sent /\ row <= row
    BY <1>1, <1>6
  <2>5. /\ row' <= EnsureSeq' /\ EnsureSeq' <= sq[hist'.sent]
        /\ \A h \in Handlers : hnd'[h].save <= EnsureSeq' /\ hnd'[h].loaded <= EnsureSeq'
    BY <2>1, <2>2, <2>3, <2>4
  <2> QED
    BY <2>3, <2>5 DEF Source
<1>9. Agenda'
  <2>1. "out" \in Handlers /\ Len(<<>>) = 0
    BY DEF Handlers
  <2>2. \A h \in Handlers : Plain(h)'
    BY <1>5, <2>1 DEF Plain
  <2>3. Reporting'
    BY <1>5, <2>1 DEF Reporting
  <2> QED
    BY <1>1, <2>1, <2>2, <2>3 DEF Ledger, Agenda
<1>10. Rises'
  BY <1>1, <1>2, <1>3, <1>4 DEF Ledger, Rises, Early
<1>11. Heeds(sq)'
  <2>1. (Missed => Missed') /\ (Late => Late')
    BY <1>1, <1>4 DEF Missed, Late
  <2> QED
    BY <1>1, <1>2, <1>4, <2>1 DEF Ledger, Heeds, Early
<1> QED
  BY <1>7, <1>8, <1>9, <1>10, <1>11 DEF Ledger

(* Which message a handler numbers: one that does not end the stream; the   *)
(* final status, which is the only one; the completion after it.            *)
LEMMA StampKind ==
    ASSUME Shape, Agenda, NEW h \in Handlers, hnd[h].pc = "stamp", job # "failed"
    PROVE  LET kind == Head(hnd[h].todo).kind
           IN  \/ kind \in {"stdout", "stderr", "progress"} /\ (Plain(h) \/ h # "out")
               \/ kind = "status" /\ h = "out" /\ job = "completed" /\ hist.over = 0
               \/ kind = "complete" /\ h = "out" /\ job = "completed" /\ hist.over # 0
<1> DEFINE kind == Head(hnd[h].todo).kind
<1>1. /\ job \in {"running", "completed"}
      /\ hnd[h].todo \in Seq(Message) /\ hnd[h].todo # <<>>
  BY HandlerFields DEF Shape, ServerShape
<1>2. 1 \in 1..Len(hnd[h].todo) /\ kind = hnd[h].todo[1].kind
  BY <1>1, TailType
<1> HIDE DEF kind
<1>3. CASE Plain(h)
  BY <1>2, <1>3 DEF Plain, kind
<1>4. CASE h = "out" /\ job = "completed"
  <2>1. Reporting
    BY <1>4 DEF Agenda
  <2> QED
    BY <1>2, <1>4, <2>1 DEF Reporting, kind
<1> QED
  BY <1>1, <1>3, <1>4 DEF Agenda

(* What numbering a message that is no release changes. *)
LEMMA StampFields ==
    ASSUME Shape, LineInv, NEW h \in Handlers, Stamp(h), Head(hnd[h].todo).kind # "release"
    PROVE  LET kind == Head(hnd[h].todo).kind
               s == EnsureSeq + 1
               New(m) == m.id = hist.sent + 1 /\ m.seq = s /\ m.kind = kind
           IN  /\ EnsureSeq \in Nat /\ (counter # 0 => EnsureSeq = counter)
               /\ counter' = IF kind = "complete" THEN 0 ELSE s
               /\ hnd[h].pc = "stamp" /\ hnd'[h].pc = "persist" /\ hnd'[h].todo = hnd[h].todo
               /\ hnd'[h].loaded = hnd[h].loaded
               /\ hnd'[h].save = IF kind \in {"status", "complete"} THEN 0 ELSE s
               /\ \A g \in Handlers \ {h} : hnd'[g] = hnd[g]
               /\ hist.sent \in Nat /\ hist'.sent = hist.sent + 1
               /\ hist'.over = IF kind = "status" THEN hist.sent + 1 ELSE hist.over
               /\ \A m \in Line' : m \in Line \/ New(m)
               /\ \A m \in In(queue') : m \in In(queue) \/ New(m)
               /\ \A m \in Deliverable' : m \in Deliverable \/ (sconn = "open" /\ New(m))
               /\ UNCHANGED <<job, row, net, buf, sconn, cl>>
<1> DEFINE kind == Head(hnd[h].todo).kind
           s == EnsureSeq + 1
           save == IF kind \in {"status", "complete", "release"} THEN 0 ELSE s
           New(m) == m.id = hist.sent + 1 /\ m.seq = s /\ m.kind = kind
<1>1. /\ hnd[h].pc = "stamp" /\ hnd'[h].pc = "persist" /\ hnd'[h].todo = hnd[h].todo
      /\ \A g \in Handlers \ {h} : hnd'[g] = hnd[g]
      /\ hist'.sent = hist.sent + 1
      /\ hist'.over = IF kind = "status" THEN hist.sent + 1 ELSE hist.over
  BY StampEffect
<1>2. /\ counter' = IF kind \in {"complete", "release"} THEN 0 ELSE s
      /\ hnd' = [hnd EXCEPT ![h] = [hnd[h] EXCEPT !.pc = "persist", !.save = save]]
      /\ UNCHANGED <<job, row, net, buf, sconn, cl>>
  BY DEF Stamp, pumps, client
<1>3. /\ counter \in Nat /\ row \in Nat /\ hist.sent \in Nat /\ hnd[h] \in HandlerStates
      /\ hnd \in [Handlers -> HandlerStates]
  BY DEF Shape, ServerShape, Histories
<1>4. EnsureSeq \in Nat /\ (counter # 0 => EnsureSeq = counter)
  BY <1>3 DEF EnsureSeq
<1> HIDE DEF save
<1>5. hnd'[h].loaded = hnd[h].loaded /\ hnd'[h].save = save
  BY <1>2, <1>3 DEF HandlerStates
<1>6. LineInv' /\ \A m \in Line' : m \in Line \/ New(m)
  BY LineStamp
<1> HIDE DEF New
<1>7. \A m \in In(queue') : m \in In(queue) \/ New(m)
  <2> SUFFICES ASSUME NEW m \in In(queue'), m \in In(net) \cup In(buf), m \in Line PROVE FALSE
    BY <1>6 DEF Line
  <2>1. m \in In(net') \cup In(buf') /\ m.id \in Nat
    BY <1>2, LineType
  <2>2. m.id < m.id
    BY <1>6, <2>1 DEF LineInv
  <2> QED
    BY <2>1, <2>2
<1>8. \A m \in Deliverable' : m \in Deliverable \/ (sconn = "open" /\ New(m))
  BY <1>2, <1>7 DEF Deliverable
<1> QED
  BY <1>1, <1>2, <1>3, <1>4, <1>5, <1>6, <1>7, <1>8 DEF New, save

(* A message is numbered: the record grows by one. *)
LEMMA StampLedger ==
    ASSUME Shape, LineInv, NEW sq \in Numbers, Ledger(sq), NEW h \in Handlers, Stamp(h),
           job # "failed"
    PROVE  \E sq2 \in Numbers : Ledger(sq2)'
<1> DEFINE kind == Head(hnd[h].todo).kind
           plain == kind \in {"stdout", "stderr", "progress"}
           n == hist.sent
           b == EnsureSeq
           o == hist.over
<1>1. hnd[h].pc = "stamp"
  BY DEF Stamp
<1>2. /\ Steady(sq) /\ Noted(sq) /\ Source(sq) /\ Agenda /\ Rises
      /\ Heeds(sq) /\ Deliverable \subseteq Line /\ In(queue) \subseteq Line
  BY DEF Ledger, Line, Deliverable
<1>3. /\ \/ plain /\ (Plain(h) \/ h # "out")
         \/ kind = "status" /\ h = "out" /\ job = "completed" /\ o = 0
         \/ kind = "complete" /\ h = "out" /\ job = "completed" /\ o # 0
      /\ kind # "release"
  BY <1>1, <1>2, StampKind
<1>4. /\ b \in Nat /\ (counter # 0 => b = counter)
      /\ counter' = IF kind = "complete" THEN 0 ELSE b + 1
      /\ hnd'[h].pc = "persist" /\ hnd'[h].todo = hnd[h].todo /\ hnd'[h].loaded = hnd[h].loaded
      /\ hnd'[h].save = IF kind \in {"status", "complete"} THEN 0 ELSE b + 1
      /\ \A g \in Handlers \ {h} : hnd'[g] = hnd[g]
      /\ n \in Nat /\ hist'.sent = n + 1
      /\ hist'.over = IF kind = "status" THEN n + 1 ELSE o
      /\ UNCHANGED <<job, row, net, buf, sconn, cl>>
  BY <1>3, StampFields
<1>5. /\ \A m \in Line' : m \in Line \/ (m.id = n + 1 /\ m.seq = b + 1 /\ m.kind = kind)
      /\ \A m \in In(queue') : m \in In(queue) \/ (m.id = n + 1 /\ m.seq = b + 1 /\ m.kind = kind)
      /\ \A m \in Deliverable' : \/ m \in Deliverable
                                 \/ /\ sconn = "open"
                                    /\ m.id = n + 1 /\ m.seq = b + 1 /\ m.kind = kind
  BY <1>3, StampFields
<1>6. /\ counter \in Nat /\ row \in Nat /\ sq[n] \in Nat
      /\ \A g \in Handlers : hnd[g].loaded \in Nat /\ hnd[g].save \in Nat
  BY <1>4, HandlerFields DEF Shape, ServerShape, Numbers
<1>7. o = 0 => b <= sq[n]
  BY <1>2 DEF Source
<1>8. o \in 0..n
  BY <1>2 DEF Noted
<1> HIDE DEF kind, b
<1>9. PICK sq2 \in Numbers : (o = 0 => sq2[n + 1] = b + 1) /\ \A i \in 0..n : sq2[i] = sq[i]
  <2> DEFINE f == [sq EXCEPT ![n + 1] = b + 1]
  <2>1. f \in [Nat -> Nat] /\ f[n + 1] = b + 1 /\ \A i \in 0..n : f[i] = sq[i]
    BY <1>4 DEF Numbers
  <2> QED
    BY <2>1 DEF Numbers
<1>10. PICK o2 \in Nat : o2 = hist'.over /\ o2 = IF kind = "status" THEN n + 1 ELSE o
  BY <1>4, <1>8
<1>11. o # 0 => kind # "status" /\ o2 = o
  BY <1>3, <1>10
<1>12. /\ \A m \in Line : m.id \in 1..n /\ m.id \in 0..n /\ m.seq \in Nat /\ m.seq >= 1 /\ m.id # n + 1
       /\ cl.heard \subseteq 1..n
       /\ \A i \in cl.heard : i \in 0..n /\ i # n + 1
  <2>1. \A i \in 1..n : i \in 0..n /\ i # n + 1
    BY <1>4
  <2>2. \A m \in Line : m.id \in 1..n /\ m.seq \in Nat /\ m.seq >= 1
    BY <1>2, LineType DEF LineInv, Noted
  <2> QED
    BY <2>1, <2>2 DEF LineInv
<1>13. \A i \in 0..n : Early(i)' = Early(i)
  BY <1>4, <1>8, <1>10, <1>11 DEF Early
<1>14. \A i : i = n + 1 /\ Early(i)' => o = 0
  BY <1>4, <1>8, <1>10, <1>11 DEF Early
<1>15. Steady(sq2)'
  <2>1. sq2[0] = 0
    BY <1>2, <1>4, <1>9 DEF Steady
  <2>2. ASSUME NEW i \in 0..n, Early(i + 1)' PROVE sq2[i + 1] <= sq2[i] + 1
    <3>1. CASE i = n
      BY <1>4, <1>6, <1>7, <1>9, <1>14, <2>2, <3>1
    <3>2. CASE i # n
      <4>1. i \in 0..(n - 1) /\ i + 1 \in 0..n /\ i \in 0..n
        BY <1>4, <3>2
      <4> QED
        BY <1>2, <1>9, <1>13, <2>2, <4>1 DEF Steady
    <3> QED
      BY <3>1, <3>2
  <2>3. \A i \in 0..(hist'.sent - 1) : i \in 0..n
    BY <1>4
  <2> QED
    BY <2>1, <2>2, <2>3 DEF Steady
<1>16. Noted(sq2)'
  <2>1. hist'.over \in 0..(n + 1)
    BY <1>4, <1>8
  <2>2. ASSUME NEW m \in Line'
        PROVE  /\ Early(m.id)' => m.seq = sq2[m.id]
               /\ m.seq >= 1
               /\ (m.kind = "status") = (m.id = o2)
    <3>1. CASE m \in Line
      <4>1. /\ Early(m.id) => m.seq = sq[m.id]
            /\ m.seq >= 1 /\ m.id \in 0..n /\ m.id # n + 1 /\ m.id # 0
            /\ (m.kind = "status") = (m.id = o)
        BY <1>2, <1>4, <1>12, <3>1 DEF Noted
      <4>2. PICK i \in 0..n : i = m.id
        BY <4>1
      <4>3. Early(i)' = Early(i)
        BY <1>13
      <4>4. Early(m.id)' => m.seq = sq2[m.id]
        BY <1>9, <4>1, <4>2, <4>3
      <4> QED
        BY <1>3, <1>10, <4>1, <4>4
    <3>2. CASE m.id = n + 1 /\ m.seq = b + 1 /\ m.kind = kind
      <4>1. o # n + 1
        BY <1>4, <1>8
      <4>2. (Early(m.id)' => m.seq = sq2[m.id]) /\ m.seq >= 1
        BY <1>4, <1>9, <1>14, <3>2
      <4>3. (o2 = n + 1) = (kind = "status")
        BY <1>10, <4>1
      <4> QED
        BY <3>2, <4>2, <4>3
    <3> QED
      BY <1>5, <3>1, <3>2
  <2> QED
    BY <1>4, <1>10, <2>1, <2>2 DEF Noted
<1>17. o2 = 0 => o = 0 /\ kind \notin {"status", "complete"}
  BY <1>3, <1>4, <1>10
<1>18. Source(sq2)'
  <2> SUFFICES ASSUME o2 = 0 PROVE Source(sq2)'
    BY <1>10 DEF Source
  <2>1. o = 0 /\ counter' = b + 1 /\ EnsureSeq' = b + 1 /\ b + 1 # 0
    BY <1>4, <1>17 DEF EnsureSeq
  <2>2. row <= b /\ \A g \in Handlers : hnd[g].save <= b /\ hnd[g].loaded <= b
    BY <1>2, <2>1 DEF Source, b
  <2>3. \A g \in Handlers \ {h} : hnd'[g].save <= b + 1 /\ hnd'[g].loaded <= b + 1
    BY <1>4, <1>6, <2>2
  <2>4. hnd'[h].save <= b + 1 /\ hnd'[h].loaded <= b + 1 /\ row' <= b + 1
    BY <1>4, <1>6, <2>2
  <2>5. EnsureSeq' <= sq2[hist'.sent]
    BY <1>4, <1>9, <2>1
  <2> QED
    BY <2>1, <2>3, <2>4, <2>5 DEF Source
<1>19. Agenda'
  <2>1. \A g \in Handlers : hnd'[g].todo = hnd[g].todo
    BY <1>4
  <2>2. \A g \in Handlers : Plain(g)' = Plain(g)
    BY <2>1 DEF Plain
  <2>3. job = "running" => kind # "status"
    BY <1>3
  <2>4. job = "completed" => Reporting'
    <3> SUFFICES ASSUME job = "completed" PROVE Reporting'
      OBVIOUS
    <3>1. Reporting /\ "out" \in Handlers
      BY <1>2 DEF Agenda, Handlers
    <3>2. CASE h # "out"
      <4>1. kind # "status" /\ hnd'["out"] = hnd["out"] /\ o2 = o
        BY <1>3, <1>4, <1>10, <3>1, <3>2
      <4> QED
        BY <1>10, <3>1, <4>1 DEF Reporting
    <3>3. CASE h = "out"
      <4>1. hnd["out"].todo[1].kind = kind
        BY <3>3, TailType, HandlerFields, <1>1 DEF kind, Shape, ServerShape
      <4>2. hnd["out"].pc = "stamp" /\ hnd'["out"].pc = "persist" /\ hnd'["out"].todo = hnd["out"].todo
        BY <1>1, <1>4, <3>3
      <4>3. kind = "status" => o2 # 0
        BY <1>4, <1>10
      <4> QED
        BY <1>10, <1>11, <3>1, <4>1, <4>2, <4>3 DEF Reporting
    <3> QED
      BY <3>2, <3>3
  <2>5. job = "running" => o2 = 0 /\ Plain("out")'
    <3>1. "out" \in Handlers
      BY DEF Handlers
    <3> QED
      BY <1>2, <1>10, <2>2, <2>3, <3>1 DEF Agenda
  <2> QED
    BY <1>2, <1>4, <1>10, <2>2, <2>4, <2>5 DEF Agenda
<1>20. \A m \in Line : Early(m.id)' => Early(m.id)
  <2> SUFFICES ASSUME NEW m \in Line, Early(m.id)' PROVE Early(m.id)
    OBVIOUS
  <2>1. PICK i \in 0..n : i = m.id
    BY <1>12
  <2>2. Early(i)' = Early(i)
    BY <1>13
  <2> QED
    BY <2>1, <2>2
<1>21. o = 0 => /\ \A m \in In(queue) : m.seq < b + 1
                /\ sconn = "open" => \A m \in Deliverable : m.seq < b + 1
  <2>1. \A m \in Line : m.seq <= counter => m.seq < b + 1
    BY <1>4, <1>6, <1>12
  <2> QED
    BY <1>2, <2>1 DEF Rises
<1>22. Rises'
  <2>1. ASSUME NEW m \in In(queue'), NEW k \in In(queue'), m.id < k.id, Early(k.id)'
        PROVE  m.seq < k.seq
    <3>1. CASE m \in In(queue) /\ k \in In(queue)
      BY <1>2, <1>20, <2>1, <3>1 DEF Rises
    <3>2. CASE k.id = n + 1 /\ k.seq = b + 1 /\ m \in In(queue)
      BY <1>14, <1>21, <2>1, <3>2
    <3>3. CASE m.id = n + 1
      <4>1. k.id = n + 1 \/ k.id \in 1..n
        BY <1>2, <1>5, <1>12
      <4> QED
        BY <1>4, <2>1, <3>3, <4>1
    <3> QED
      BY <1>5, <3>1, <3>2, <3>3
  <2>2. ASSUME NEW m \in Deliverable', NEW k \in Deliverable', m.id < k.id, Early(k.id)'
        PROVE  m.seq < k.seq
    <3>1. CASE m \in Deliverable /\ k \in Deliverable
      BY <1>2, <1>20, <2>2, <3>1 DEF Rises
    <3>2. CASE sconn = "open" /\ k.id = n + 1 /\ k.seq = b + 1 /\ m \in Deliverable
      BY <1>14, <1>21, <2>2, <3>2
    <3>3. CASE m.id = n + 1
      <4>1. k.id = n + 1 \/ k.id \in 1..n
        BY <1>2, <1>5, <1>12
      <4> QED
        BY <1>4, <2>2, <3>3, <4>1
    <3> QED
      BY <1>5, <3>1, <3>2, <3>3
  <2>3. \A m \in Line : m.seq < b + 1 => m.seq <= b + 1
    BY <1>4, <1>12
  <2>4. o2 = 0 => o = 0 /\ counter' = b + 1 /\ b + 1 <= b + 1
    BY <1>4, <1>17
  <2>5. o2 = 0 => \A m \in In(queue') : m.seq <= counter'
    BY <1>2, <1>5, <1>21, <2>3, <2>4
  <2>6. o2 = 0 /\ sconn = "open" => \A m \in Deliverable' : m.seq <= counter'
    BY <1>2, <1>5, <1>21, <2>3, <2>4
  <2> QED
    BY <1>2, <1>4, <1>10, <2>1, <2>2, <2>5, <2>6 DEF Rises
<1>23. Heeds(sq2)'
  <2>1. \A i \in cl.heard : Early(i)' /\ (\A k \in cl.heard : k <= i) => sq2[i] <= cl.lastSeq
    BY <1>2, <1>9, <1>12, <1>13 DEF Heeds
  <2>2. o2 \in cl.heard => cl.terminalSeen
    BY <1>2, <1>10, <1>12 DEF Heeds
  <2>3. cl.gap => Missed' \/ Late'
    <3>1. ASSUME Missed PROVE Missed'
      <4>1. PICK x \in 1..n : x \notin cl.heard /\ (\E k \in cl.heard : k < x) /\ \A m \in Line : x < m.id
        BY <3>1 DEF Missed
      <4>2. x \in 1..(n + 1) /\ x < n + 1
        BY <1>4
      <4>3. \A m \in Line' : x < m.id
        BY <1>5, <4>1, <4>2
      <4> QED
        BY <1>4, <4>1, <4>2, <4>3 DEF Missed
    <3>2. Late => Late'
      BY <1>4, <1>10, <1>11 DEF Late
    <3> QED
      BY <1>2, <3>1, <3>2 DEF Heeds
  <2>4. ASSUME cl.sawData
        PROVE  /\ sconn \in {"open", "gone"}
               /\ \A m \in Deliverable' : Early(m.id)' => m.seq > 1
               /\ o2 = 0 /\ sconn = "open" => counter' >= 1
    <3>1. /\ sconn \in {"open", "gone"}
          /\ \A m \in Deliverable : Early(m.id) => m.seq > 1
          /\ o = 0 /\ sconn = "open" => counter >= 1
      BY <1>2, <2>4 DEF Heeds
    <3>2. o = 0 /\ sconn = "open" => b + 1 > 1
      BY <1>4, <1>6, <3>1
    <3>3. \A m \in Deliverable' : Early(m.id)' => m.seq > 1
      BY <1>2, <1>5, <1>14, <1>20, <3>1, <3>2
    <3>4. o2 = 0 /\ sconn = "open" => counter' >= 1
      BY <1>4, <1>17
    <3> QED
      BY <3>1, <3>3, <3>4
  <2> QED
    BY <1>2, <1>4, <1>10, <2>1, <2>2, <2>3, <2>4 DEF Heeds
<1>24. Ledger(sq2)'
  BY <1>15, <1>16, <1>18, <1>19, <1>22, <1>23 DEF Ledger
<1> QED
  BY <1>24

(* A message is read: the gap the client sees is a broadcast it missed, or  *)
(* it came when the status was out.                                         *)
LEMMA HandleLedger ==
    ASSUME Shape, LineInv, NEW sq \in Numbers, Ledger(sq), HandleMessage
    PROVE  Ledger(sq)'
<1> DEFINE e == Head(net)
           term == cl.terminalSeen \/ e.kind = "status"
           restart == e.seq = 1 /\ cl.lastSeq > 1
<1>1. /\ net # <<>> /\ e.kind \notin Closing /\ net' = Tail(net)
      /\ UNCHANGED <<server, sconn, buf>>
      /\ cl'.terminalSeen = term /\ cl'.heard = cl.heard \cup {e.id}
      /\ cl'.lastSeq = IF ~cl.sawMessage \/ term \/ restart \/ e.seq > cl.lastSeq
                       THEN e.seq ELSE cl.lastSeq
      /\ cl'.gap = (cl.gap \/ (cl.sawMessage /\ ~term /\ \/ restart /\ cl.sawData
                                                         \/ e.seq > cl.lastSeq + 1))
      /\ cl'.sawData = (cl.sawData \/ e.kind \in {"stdout", "stderr"})
  BY HandleEffect
<1>2. /\ UNCHANGED <<job, hnd, counter, row, hist, queue>> /\ net \in Seq(Message)
      /\ cl.lastSeq \in Nat /\ hist.sent \in Nat /\ counter \in Nat
      /\ cl.heard \subseteq 1..hist.sent
  BY <1>1 DEF server, Shape, ServerShape, PumpShape, ClientShape, ClientStates, Histories, LineInv
<1>3. In(net') \subseteq In(net) /\ e \in In(net) /\ e \in Deliverable /\ e \in Line
  BY <1>1, <1>2, InTail DEF LineInv, Deliverable, Line
<1>4. Line' \subseteq Line /\ (\A m \in Line' : e.id < m.id) /\ (\A j \in cl.heard : j < e.id)
      /\ e.id \in 1..hist.sent
  BY <1>3, LineHandle DEF LineInv
<1>5. Deliverable' \subseteq Deliverable /\ Deliverable \subseteq Line /\ Deliverable' \subseteq Line'
  BY <1>1, <1>2, <1>3 DEF Deliverable, Line
<1>6. /\ Steady(sq) /\ Noted(sq) /\ Source(sq) /\ Agenda /\ Rises /\ Heeds(sq)
  BY DEF Ledger
<1>7. Steady(sq)' /\ Noted(sq)'
  BY <1>2, <1>4, <1>6 DEF Steady, Noted, Early
<1>8. Source(sq)' /\ Agenda'
  BY <1>2, <1>6 DEF Source, Agenda, Plain, Reporting, EnsureSeq
<1>9. sconn \in {"open", "gone"}
  BY <1>3, <1>6 DEF Rises, Shape, PumpShape
<1>10. Rises'
  BY <1>1, <1>2, <1>5, <1>6, <1>9 DEF Rises, Early
<1>11. /\ (Early(e.id) => e.seq = sq[e.id]) /\ e.seq >= 1 /\ e.seq \in Nat
       /\ (e.kind = "status") = (e.id = hist.over)
  BY <1>3, <1>6, LineType DEF Noted
<1> HIDE DEF e
<1> DEFINE id == e.id
           sent == hist.sent
           H == cl.heard
           o == hist.over
<1>12. /\ sent \in Nat /\ id \in 1..sent /\ H \subseteq 1..sent /\ (\A j \in H : j < id)
      /\ cl'.heard = H \cup {id} /\ o \in 0..sent
  BY <1>1, <1>2, <1>4, <1>6 DEF Noted
<1> HIDE DEF id, sent, H, o
<1>13. \A x \in 1..sent : x < id /\ x \notin H => x \notin H \cup {id}
  BY <1>12
<1>14. Missed => Missed'
  <2> SUFFICES ASSUME Missed PROVE Missed'
    OBVIOUS
  <2>1. PICK x \in 1..hist.sent : x \notin cl.heard /\ (\E k \in cl.heard : k < x) /\ \A m \in Line : x < m.id
    BY DEF Missed
  <2>2. x < e.id
    BY <1>3, <2>1
  <2>3. x \notin cl'.heard /\ \E k \in cl'.heard : k < x
    BY <1>12, <1>13, <2>1, <2>2 DEF id, sent, H
  <2> QED
    BY <1>2, <1>4, <2>1, <2>3 DEF Missed
<1>15. ASSUME NEW x \in 1..hist.sent, x \notin cl.heard, x < e.id, NEW k \in cl.heard, k < x
       PROVE  Missed'
  <2>1. x \notin cl'.heard /\ k \in cl'.heard
    BY <1>12, <1>13, <1>15 DEF id, sent, H
  <2>2. \A m \in Line' : x < m.id
    <3> SUFFICES ASSUME NEW m \in Line' PROVE x < m.id
      OBVIOUS
    <3>1. m.id \in Nat /\ e.id < m.id
      BY <1>4, LineType
    <3> QED
      BY <1>4, <1>15, <3>1
  <2> QED
    BY <1>2, <1>15, <2>1, <2>2 DEF Missed
<1>16. Late => Late'
  <2> SUFFICES ASSUME Late PROVE Late'
    OBVIOUS
  <2>1. o # 0 /\ H # {} /\ \A k \in H : k > o
    BY DEF Late, o, H
  <2>2. id > o
    <3>1. PICK k \in H : k > o
      BY <2>1
    <3>2. k \in Nat /\ k < id /\ id \in Nat /\ o \in Nat
      BY <1>12
    <3> QED
      BY <3>1, <3>2
  <2>3. \A k \in H \cup {id} : k > o
    BY <2>1, <2>2
  <2> QED
    BY <1>2, <1>12, <2>1, <2>3 DEF Late, o
<1>17. ASSUME cl.sawMessage, ~term, ~Early(e.id) PROVE Missed' \/ Late'
  <2>1. o # 0 /\ o < id /\ o \in 1..sent /\ o \notin H /\ H # {}
    <3>1. hist.over # 0 /\ ~(id <= o)
      BY <1>17 DEF Early, id, o
    <3>2. hist.over \notin cl.heard /\ cl.heard # {}
      BY <1>6, <1>17 DEF Heeds
    <3> QED
      BY <1>12, <3>1, <3>2 DEF o, H
  <2>2. CASE \E k \in H : k < o
    BY <1>15, <2>1, <2>2 DEF id, sent, H, o
  <2>3. CASE ~\E k \in H : k < o
    <3>1. \A k \in H : k \in Nat /\ k # o /\ ~(k < o)
      BY <1>12, <2>1, <2>3
    <3>2. \A k \in H \cup {id} : k > o
      BY <1>12, <2>1, <3>1
    <3> QED
      BY <1>2, <1>12, <2>1, <3>2 DEF Late, o
  <2> QED
    BY <2>2, <2>3
<1>18. ASSUME cl.sawMessage, Early(e.id), e.seq > cl.lastSeq + 1 PROVE Missed'
  <2>1. PICK k \in H : k \in 1..sent /\ k < id
    BY <1>6, <1>18, <1>12 DEF Heeds, H
  <2>2. PICK p \in 1..sent : p < id /\ p \in 0..(sent - 1) /\ p + 1 = id
    <3>1. id - 1 \in 1..sent /\ id - 1 < id /\ id - 1 \in 0..(sent - 1) /\ (id - 1) + 1 = id
      BY <1>12, <2>1
    <3> QED
      BY <3>1
  <2>3. \A j \in H : j <= p /\ (j # p => j < p)
    BY <1>12, <2>2
  <2>4. CASE p \in H
    <3> DEFINE a == sq[p]
               b == e.seq
               c == cl.lastSeq
    <3>1. Early(p) /\ Early(p + 1)
      BY <1>12, <1>18, <2>2 DEF Early, id, o
    <3>2. a <= c /\ c \in Nat
      BY <1>2, <1>6, <2>3, <2>4, <3>1 DEF Heeds, H
    <3>3. b <= a + 1 /\ a \in Nat
      BY <1>6, <1>11, <1>18, <2>2, <3>1 DEF Steady, id, sent, Numbers
    <3>4. b \in Nat /\ b > c + 1
      BY <1>11, <1>18
    <3> HIDE DEF a, b, c
    <3> QED
      BY <3>2, <3>3, <3>4
  <2>5. CASE p \notin H
    BY <1>15, <2>1, <2>2, <2>3, <2>5 DEF id, sent, H
  <2> QED
    BY <2>4, <2>5
<1>19. cl.sawData /\ Early(e.id) => e.seq # 1
  <2>1. cl.sawData /\ Early(e.id) => e.seq > 1
    BY <1>3, <1>6 DEF Heeds
  <2> QED
    BY <1>11, <2>1
<1>20. cl'.gap => Missed' \/ Late'
  <2>1. cl.gap => Missed' \/ Late'
    BY <1>6, <1>14, <1>16 DEF Heeds
  <2> QED
    BY <1>1, <1>17, <1>18, <1>19, <2>1
<1>21. \A i \in cl'.heard : Early(i)' /\ (\A k \in cl'.heard : k <= i) => sq[i] <= cl'.lastSeq
  <2>1. e.seq <= cl'.lastSeq
    <3> DEFINE b == e.seq
               c == cl.lastSeq
    <3>1. b \in Nat /\ c \in Nat /\ (cl'.lastSeq = b \/ (~(b > c) /\ cl'.lastSeq = c))
      BY <1>1, <1>2, <1>11
    <3> HIDE DEF b, c
    <3>2. b <= cl'.lastSeq
      BY <3>1
    <3> QED
      BY <3>2 DEF b
  <2>2. id \in Nat /\ \A j \in H : j \in Nat /\ j < id
    BY <1>12
  <2> SUFFICES ASSUME NEW i \in cl'.heard, Early(i), \A k \in cl'.heard : k <= i PROVE i = e.id
    BY <1>2, <1>11, <2>1 DEF Early
  <2>3. id <= i /\ (i = id \/ i \in H)
    BY <1>12
  <2>4. i = id
    BY <2>2, <2>3
  <2> QED
    BY <2>4 DEF id
<1>22. hist.over \in cl'.heard => cl'.terminalSeen
  BY <1>1, <1>6, <1>11 DEF Heeds
<1>23. ASSUME cl'.sawData
       PROVE  /\ \A m \in Deliverable' : Early(m.id) => m.seq > 1
              /\ hist.over = 0 /\ sconn = "open" => counter >= 1
  <2>1. \A m \in Deliverable' : Early(m.id) => m.seq > 1
    <3> SUFFICES ASSUME NEW m \in Deliverable', Early(m.id) PROVE m.seq > 1
      OBVIOUS
    <3>1. e.seq < m.seq /\ m.seq \in Nat
      BY <1>3, <1>4, <1>5, <1>6, LineType DEF Rises
    <3> QED
      BY <1>11, <3>1
  <2>2. hist.over = 0 /\ sconn = "open" => counter >= 1
    <3> DEFINE b == e.seq
    <3>1. (hist.over = 0 /\ sconn = "open" => b <= counter) /\ b \in Nat /\ b >= 1
      BY <1>3, <1>6, <1>11 DEF Rises
    <3> HIDE DEF b
    <3> QED
      BY <1>2, <3>1
  <2> QED
    BY <2>1, <2>2
<1>24. Heeds(sq)'
  <2>1. cl'.heard # {}
    BY <1>1
  <2> QED
    BY <1>1, <1>2, <1>9, <1>20, <1>21, <1>22, <1>23, <2>1 DEF Heeds, Early
<1> QED
  BY <1>7, <1>8, <1>10, <1>24 DEF Ledger

(* The record starts empty. *)
LEMMA GapInit == Init => GapInv
<1> SUFFICES ASSUME Init PROVE GapInv
  OBVIOUS
<1>1. PICK sq \in Numbers : \A i \in Nat : sq[i] = 0
  <2> DEFINE f == [i \in Nat |-> 0]
  <2>1. f \in [Nat -> Nat] /\ \A i \in Nat : f[i] = 0
    OBVIOUS
  <2> QED
    BY <2>1 DEF Numbers
<1>2. /\ job = "running" /\ counter = 0 /\ row = 0 /\ hist.sent = 0 /\ hist.over = 0
      /\ sconn = "none" /\ cl.heard = {} /\ ~cl.sawMessage /\ ~cl.sawData /\ ~cl.gap
      /\ In(net) = {} /\ In(buf) = {} /\ In(queue) = {}
  BY InEmpty DEF Init
<1>3. \A h \in Handlers : /\ hnd[h].pc = "idle" /\ hnd[h].todo = <<>>
                          /\ hnd[h].loaded = 0 /\ hnd[h].save = 0
  <2>1. \A h \in Handlers : hnd[h] = Idle
    BY DEF Init
  <2> QED
    BY <2>1 DEF Idle
<1>4. Line = {} /\ Deliverable = {}
  BY <1>2 DEF Line, Deliverable
<1>5. Steady(sq) /\ Noted(sq)
  BY <1>1, <1>2, <1>4 DEF Steady, Noted
<1>6. Source(sq)
  <2>1. EnsureSeq = 0 /\ sq[0] = 0
    BY <1>1, <1>2 DEF EnsureSeq
  <2> QED
    BY <1>2, <1>3, <2>1 DEF Source
<1>7. Agenda
  <2>1. Len(<<>>) = 0 /\ "out" \in Handlers
    BY DEF Handlers
  <2>2. \A h \in Handlers : Plain(h)
    BY <1>3, <2>1 DEF Plain
  <2> QED
    BY <1>2, <2>1, <2>2 DEF Agenda
<1>8. Rises /\ Heeds(sq)
  BY <1>2, <1>4 DEF Rises, Heeds
<1>9. Ledger(sq)
  BY <1>5, <1>6, <1>7, <1>8 DEF Ledger
<1> QED
  BY <1>9 DEF GapInv

(* Every step keeps it. *)
LEMMA GapStep == StreamInv /\ GapInv /\ [Next]_vars => GapInv'
<1> SUFFICES ASSUME StreamInv, GapInv, [Next]_vars PROVE GapInv'
  OBVIOUS
<1>1. Shape /\ LineInv
  BY DEF StreamInv
<1>2. CASE \/ PostStdout \/ PostFails \/ LoseAnswer \/ Migrate \/ PostSide \/ ReportFinal \/ Verdict
           \/ Broadcasting \/ Crash \/ Shutdown \/ HandleMessage
  <2> SUFFICES ASSUME job' # "failed"
               PROVE  \E sq \in Numbers : Ledger(sq)'
    BY DEF GapInv
  <2>1. job # "failed"
    BY <1>2 DEF PostStdout, PostFails, LoseAnswer, Migrate, PostSide, ReportFinal, Verdict,
                Broadcasting, InjectSeq, Stamp, PersistSeq, Crash, Shutdown, StopServer,
                HandleMessage, server
  <2>2. PICK sq \in Numbers : Ledger(sq)
    BY <2>1 DEF GapInv
  <2>3. CASE PostStdout \/ PostSide \/ ReportFinal
    <3>1. Ledger(sq)'
      BY <1>1, <2>2, <2>3, ReportLedger
    <3> QED
      BY <3>1
  <2>4. CASE PostFails \/ LoseAnswer \/ Migrate
    <3>1. Ledger(sq)'
      BY <1>1, <2>2, <2>4, SenderLedger
    <3> QED
      BY <3>1
  <2>5. CASE Verdict
    BY <2>5 DEF Verdict
  <2>6. CASE Broadcasting
    <3>1. PICK h \in Handlers : InjectSeq(h) \/ Stamp(h) \/ PersistSeq(h)
      BY <2>6 DEF Broadcasting
    <3>2. CASE Stamp(h)
      BY <1>1, <2>1, <2>2, <3>2, StampLedger
    <3>3. CASE InjectSeq(h) \/ PersistSeq(h)
      <4>1. Ledger(sq)'
        BY <1>1, <2>1, <2>2, <3>3, InjectLedger, PersistLedger
      <4> QED
        BY <4>1
    <3> QED
      BY <3>1, <3>2, <3>3
  <2>7. CASE Crash \/ Shutdown
    <3>1. Ledger(sq)'
      BY <1>1, <2>2, <2>7, StopLedger DEF Crash, Shutdown, Closing
    <3> QED
      BY <3>1
  <2>8. CASE HandleMessage
    <3>1. Ledger(sq)'
      BY <1>1, <2>2, <2>8, HandleLedger
    <3> QED
      BY <3>1
  <2> QED
    BY <1>2, <2>3, <2>4, <2>5, <2>6, <2>7, <2>8
<1>3. CASE \/ Hub \/ NetBreak \/ Start \/ UNCHANGED vars
           \/ Connected \/ DialFailed \/ DialRefused \/ ReadError
           \/ BackupPoll \/ Waiting \/ ContextDone
  BY <1>3, QuietGaps
<1>4. CASE Over
  BY <1>4, QuietGaps DEF Over
<1> QED
  BY <1>2, <1>3, <1>4 DEF Next, Client

(* While the server has not given the job up, the client that reports a    *)
(* gap (handleMessage) has missed a broadcast after the first one it heard, *)
(* whatever was restarted, reconnected, saved or loaded in between, or it   *)
(* came when the terminal status was out.                                   *)
THEOREM GapsAreNotInvented == Spec => []GapsAreReal
<1>1. GapInv => GapsAreReal
  <2> SUFFICES ASSUME GapInv, cl.gap, job # "failed"
               PROVE  \/ \E i \in 1..hist.sent : i \notin cl.heard /\ \E k \in cl.heard : k < i
                      \/ hist.over # 0 /\ \A k \in cl.heard : k > hist.over
    BY DEF GapsAreReal
  <2>1. Missed \/ Late
    BY DEF GapInv, Ledger, Heeds
  <2> QED
    BY <2>1 DEF Missed, Late
<1> QED
  BY <1>1, StreamInvariance, GapInit, GapStep, PTL DEF Spec
=============================================================================
