------------------------------- MODULE Stream -------------------------------
(***************************************************************************)
(* The live output of one job: the handlers that broadcast it, the         *)
(* WebSocket hub that numbers it and fans it out, the connections, and the *)
(* client that reads it, reconnects, looks for gaps in the numbering and   *)
(* decides what the job came to.  The row of the job itself is reduced to  *)
(* its status; JobStore has the rest.                                      *)
(***************************************************************************)
EXTENDS Integers, Sequences, FiniteSets

CONSTANTS
    Chunks,         \* stdout chunks the worker streams
    Strays,         \* the reports that may go on at once after their sender gave them up
    HubCap,         \* capacity of Hub.broadcast (256)
    SendCap,        \* capacity of Client.send (256)
    MaxRetries,     \* --max-retries
    Modes,          \* "stream" (output is "-") and "logs" (output is a file)
    Events,         \* what may happen besides the plain stream: "side" reports, faults
    MaxEvents       \* bound on how many of them happen

VARIABLES
    up,         \* the server process runs
    job,        \* the status of the row: "running", "completed", "failed"
    worker,     \* the attempt, what it has sent, and whether a send failed
    hnd,        \* the handler goroutines that broadcast
    counter,    \* Hub.seq[job]; 0 when the key is absent
    row,        \* ws_job_seq.last_seq of the job; 0 when there is no row
    queue,      \* Hub.broadcast
    sconn,      \* the client's newest connection as the hub sees it
    buf,        \* its Client.send
    net,        \* what is on its wire, oldest first
    cl,         \* WSClient
    main,       \* the goroutine of WaitForJobWithLogs or ...StreamingOutput
    poll,       \* the goroutine of backupPoll
    hist,       \* messages stamped so far, which of them was the terminal status,
                \* whether the server ever stopped, the chunks whose sender was
                \* not told of their fate (history only)
    events

server == <<up, job, worker, hnd, counter, row, queue, hist>>
pumps == <<sconn, buf, net>>
client == <<cl, main, poll>>
vars == <<server, pumps, client, events>>

ASSUME BoundsAssumption == Chunks \in Nat /\ MaxRetries \in Nat /\ MaxEvents \in Nat
ASSUME CapAssumption == HubCap \in Nat \ {0} /\ SendCap \in Nat \ {0}
ASSUME StraysAssumption == Strays \cap {"out", "side"} = {}

(* the stdout batcher with the final report, everybody else, and the stdout *)
(* reports nobody waits for any more                                         *)
Handlers == {"out", "side"} \cup Strays

NoChunk == [attempt |-> 0, n |-> 0]

Msg(kind) == [kind |-> kind, chunk |-> NoChunk, seq |-> 0, id |-> 0]

Idle == [pc |-> "idle", todo |-> <<>>, loaded |-> 0, save |-> 0]

Terminal == job \in {"completed", "failed"}

Closing == {"CLOSE", "BROKEN"}

(* nothing more can be written to the connection *)
Shut == net # <<>> /\ net[Len(net)].kind \in Closing

Init ==
    /\ up = TRUE
    /\ job = "running"
    /\ worker = [attempt |-> 1, chunks |-> 0, sendErr |-> FALSE]
    /\ hnd = [h \in Handlers |-> Idle]
    /\ counter = 0
    /\ row = 0
    /\ queue = <<>>
    /\ sconn = "none"
    /\ buf = <<>>
    /\ net = <<>>
    /\ cl = [dial |-> "start", retries |-> 0, listen |-> "off",
             sawMessage |-> FALSE, lastSeq |-> 0, gap |-> FALSE, sawData |-> FALSE,
             terminalSeen |-> FALSE, heard |-> {}, got |-> <<>>, stdoutErr |-> FALSE]
    /\ main \in [mode : Modes, pc : {"dial"}, terminal : {"no"}, closes : {0}, result : {"none"}]
    /\ poll = "off"
    /\ hist = [sent |-> 0, over |-> 0, stopped |-> FALSE, unanswered |-> {}]
    /\ events = 0

Event(kind) == kind \in Events /\ events < MaxEvents /\ events' = events + 1

-----------------------------------------------------------------------------
(* The handlers: a report that changes the row, then its broadcasts. *)

(* prefetchSeq: when the counter is absent the saved one is loaded, without *)
(* the lock                                                                  *)
Prefetched(todo, saved) ==
    LET load == IF counter = 0 /\ Head(todo).kind # "release" THEN saved ELSE 0
    IN  [pc |-> IF load > 0 THEN "inject" ELSE "stamp", todo |-> todo, loaded |-> load, save |-> 0]

Serve(h, todo) ==
    /\ up
    /\ hnd[h].pc = "idle"
    /\ hnd' = [hnd EXCEPT ![h] = Prefetched(todo, row)]
    /\ UNCHANGED <<up, counter, row, queue, hist, pumps, client>>

Chunk(n) == [attempt |-> worker.attempt, n |-> n]

(* SendStdoutChunk: one at a time, in order, and never sent again *)
PostStdout ==
    /\ job = "running" /\ worker.chunks < Chunks
    /\ worker' = [worker EXCEPT !.chunks = @ + 1]
    /\ Serve("out", <<[Msg("stdout") EXCEPT !.chunk = Chunk(worker.chunks + 1)]>>)
    /\ UNCHANGED <<job, events>>

(* the server is down or not reached: the chunk is lost, the attempt remembers *)
PostFails ==
    /\ hnd["out"].pc = "idle" /\ worker.chunks < Chunks
    /\ \/ ~up /\ UNCHANGED events
       \/ up /\ job = "running" /\ Event("lost")
    /\ worker' = [worker EXCEPT !.chunks = @ + 1, !.sendErr = TRUE]
    /\ hist' = [hist EXCEPT !.unanswered = @ \cup {Chunk(worker.chunks + 1)}]
    /\ UNCHANGED <<up, job, hnd, counter, row, queue, pumps, client>>

(* UpdateJob does not look at its caller again once it has checked who owns *)
(* the job: a stdout report goes on when its sender is gone                  *)
Abandon(s) ==
    /\ hnd[s].pc = "idle"
    /\ hnd' = [hnd EXCEPT ![s] = hnd["out"], !["out"] = Idle]
    /\ hist' = [hist EXCEPT !.unanswered = @ \cup {Chunk(worker.chunks)}]

(* the client's timeout, or the answer is lost: the batcher goes on *)
LoseAnswer ==
    /\ up /\ job = "running" /\ hnd["out"].pc # "idle" /\ Event("lost")
    /\ \E s \in Strays : Abandon(s)
    /\ worker' = [worker EXCEPT !.sendErr = TRUE]
    /\ UNCHANGED <<up, job, counter, row, queue, pumps, client>>

(* The job moves to another worker, which streams it from the start.  A report *)
(* of the old one that has passed the check is not called back.                *)
Migrate ==
    /\ up /\ job = "running" /\ Event("migrate")
    /\ \/ hnd["out"].pc = "idle" /\ UNCHANGED <<hnd, hist>>
       \/ hnd["out"].pc # "idle" /\ \E s \in Strays : Abandon(s)
    /\ worker' = [worker EXCEPT !.attempt = @ + 1, !.chunks = 0, !.sendErr = FALSE]
    /\ UNCHANGED <<up, job, counter, row, queue, pumps, client>>

PostSide ==
    /\ job = "running" /\ Event("side")
    /\ \E kind \in {"stderr", "progress"} : Serve("side", <<Msg(kind)>>)
    /\ UNCHANGED <<job, worker>>

(* the final report, after FlushAndWait: a chunk that was not accepted *)
(* makes it a failure                                                   *)
ReportFinal ==
    /\ job = "running" /\ worker.chunks = Chunks
    /\ job' = IF worker.sendErr THEN "failed" ELSE "completed"
    /\ Serve("out", <<Msg("status"), Msg("complete")>>)
    /\ UNCHANGED <<worker, events>>

(* the verdicts the server reaches by itself: a cancellation broadcasts  *)
(* status and complete, a sweep only the status, an exhausted timeout or *)
(* migration nothing; each releases the stream                           *)
Verdict ==
    /\ job = "running" /\ Event("verdict")
    /\ job' = "failed"
    /\ \E todo \in {<<Msg("status"), Msg("complete"), Msg("release")>>,
                    <<Msg("status"), Msg("release")>>, <<Msg("release")>>} :
          Serve("side", todo)
    /\ UNCHANGED worker

-----------------------------------------------------------------------------
(* BroadcastWSMessage *)

(* mutant: the saved number is taken for the next one instead of the last *)
InjectSeqAsNext(h) ==
    /\ up /\ hnd[h].pc = "inject"
    /\ counter' = IF counter = 0 THEN hnd[h].loaded + 1 ELSE counter
    /\ hnd' = [hnd EXCEPT ![h].pc = "stamp", ![h].loaded = 0]
    /\ UNCHANGED <<up, job, worker, row, queue, hist, pumps, client, events>>

InjectSeq(h) ==
    /\ up /\ hnd[h].pc = "inject"
    /\ counter' = IF counter = 0 THEN hnd[h].loaded ELSE counter
    /\ hnd' = [hnd EXCEPT ![h].pc = "stamp", ![h].loaded = 0]
    /\ UNCHANGED <<up, job, worker, row, queue, hist, pumps, client, events>>

EnsureSeq == IF counter = 0 THEN row ELSE counter

(* The number and the place in the queue are taken under bcastMu.  A send   *)
(* that finds the queue full for hubSendTimeout drops the message; its       *)
(* number stays used.  A release only forgets the counter.                   *)
Stamp(h) ==
    /\ up /\ hnd[h].pc = "stamp"
    /\ LET msg == Head(hnd[h].todo)
           s == EnsureSeq + 1
           room == Len(queue) < HubCap
       IN  /\ counter' = IF msg.kind \in {"complete", "release"} THEN 0 ELSE s
           /\ hnd' = [hnd EXCEPT ![h].pc = "persist",
                                 ![h].save = IF msg.kind \in {"status", "complete", "release"}
                                             THEN 0 ELSE s]
           /\ IF msg.kind = "release"
              THEN UNCHANGED <<queue, hist>>
              ELSE /\ hist' = [hist EXCEPT !.sent = @ + 1,
                                            !.over = IF msg.kind = "status" THEN hist.sent + 1 ELSE @]
                   /\ queue' = IF room
                               THEN Append(queue, [msg EXCEPT !.seq = s, !.id = hist.sent + 1])
                               ELSE queue
    /\ UNCHANGED <<up, job, worker, row, pumps, client, events>>

(* the row of ws_job_seq; 0 deletes it *)
SaveWSJobSeq(seq) == row' = seq

(* after the lock: save the number, or delete the row once terminal *)
PersistSeq(h) ==
    /\ up /\ hnd[h].pc = "persist"
    /\ \/ SaveWSJobSeq(hnd[h].save) /\ UNCHANGED events
       \/ row' = row /\ Event("store")
    /\ hnd' = [hnd EXCEPT ![h] = IF Len(@.todo) = 1 THEN Idle ELSE Prefetched(Tail(@.todo), row')]
    /\ UNCHANGED <<up, job, worker, counter, queue, hist, pumps, client>>

-----------------------------------------------------------------------------
(* Hub.Run and the pumps of a connection *)

HubRegister ==
    /\ up /\ sconn = "registering"
    /\ sconn' = "open"
    /\ UNCHANGED <<server, buf, net, client, events>>

(* ReadPump ended: the peer is gone; the counter outlives its last client *)
HubUnregister ==
    /\ up /\ sconn = "open" /\ Shut
    /\ sconn' = "gone"
    /\ buf' = <<>>
    /\ UNCHANGED <<server, net, client, events>>

(* what a close by the server leaves for the peer *)
Closed(kind) == net' = IF Shut THEN net ELSE Append(net, Msg(kind))

(* The message goes to the registered client; one whose buffer is full is   *)
(* shed: out of the map, closed, its buffer lost.  The closing frame is a    *)
(* normal closure when it still gets out, a broken connection when not.      *)
HubBroadcast ==
    /\ up /\ queue # <<>>
    /\ queue' = Tail(queue)
    /\ IF sconn # "open" THEN UNCHANGED pumps
       ELSE IF Len(buf) < SendCap
            THEN buf' = Append(buf, Head(queue)) /\ UNCHANGED <<sconn, net>>
            ELSE sconn' = "gone" /\ buf' = <<>> /\ \E kind \in Closing : Closed(kind)
    /\ UNCHANGED <<up, job, worker, hnd, counter, row, hist, client, events>>

(* mutant: the message that ended a frame also starts the next one *)
WritePumpRepeats ==
    /\ up /\ sconn = "open" /\ ~Shut
    /\ \E k \in 1..Len(buf) :
         /\ net' = net \o SubSeq(buf, 1, k)
         /\ buf' = IF Len(net) > 1 THEN SubSeq(buf, k + 1, Len(buf)) ELSE SubSeq(buf, k, Len(buf))
    /\ UNCHANGED <<server, sconn, client, events>>

(* writeFrame packs what fits the frame budget *)
WritePump ==
    /\ up /\ sconn = "open" /\ ~Shut
    /\ \E k \in 1..Len(buf) :
         /\ net' = net \o SubSeq(buf, 1, k)
         /\ buf' = SubSeq(buf, k + 1, Len(buf))
    /\ UNCHANGED <<server, sconn, client, events>>

-----------------------------------------------------------------------------
(* Faults: the server stops (with Hub.Close or without), comes back; the *)
(* network drops the connection.                                          *)

StopServer(kind, closing) ==
    /\ up /\ Event(kind)
    /\ up' = FALSE
    /\ counter' = 0 /\ queue' = <<>>
    /\ LET posting == hnd["out"].pc # "idle" /\ job = "running" IN
         /\ worker' = [worker EXCEPT !.sendErr = @ \/ posting]
         /\ hist' = [hist EXCEPT !.stopped = TRUE,
                                 !.unanswered = IF posting THEN @ \cup {Chunk(worker.chunks)} ELSE @]
    /\ hnd' = [h \in Handlers |-> Idle]
    /\ buf' = <<>>
    /\ IF sconn \in {"registering", "open"}
       THEN sconn' = "gone" /\ Closed(closing)
       ELSE UNCHANGED <<sconn, net>>
    /\ UNCHANGED <<job, row, client>>

Crash == StopServer("crash", "BROKEN")

Shutdown == StopServer("stop", "CLOSE")

Start ==
    /\ ~up
    /\ up' = TRUE
    /\ UNCHANGED <<job, worker, hnd, counter, row, queue, hist, pumps, client, events>>

(* in-flight bytes are lost; the server notices later *)
NetBreak ==
    /\ sconn \in {"registering", "open"} /\ ~Shut /\ Event("net")
    /\ \E k \in 0..Len(net) : net' = Append(SubSeq(net, 1, k), Msg("BROKEN"))
    /\ UNCHANGED <<server, sconn, buf, client>>

-----------------------------------------------------------------------------
(* ConnectWithReconnect, for the first connection ("start"), inside Listen  *)
(* ("listen") and after a normal closure ("again").                         *)

Running == main.result = "none"

(* the wait returns, and the deferred Close drops the connection *)
Return(result) ==
    /\ main' = [main EXCEPT !.pc = "done", !.result = result]
    /\ sconn' = (IF sconn = "none" THEN "none" ELSE "gone") /\ buf' = <<>> /\ net' = <<>>

Stays(next) == main' = next /\ UNCHANGED pumps

(* the server's side: the job is known, the upgrade succeeds, Register waits *)
HandleJobLog == sconn' = "registering" /\ buf' = <<>> /\ net' = <<>>

Connected ==
    /\ Running /\ cl.dial # "none" /\ up
    /\ HandleJobLog
    /\ cl' = [cl EXCEPT !.dial = "none", !.retries = 0, !.listen = "reading", !.sawData = FALSE]
    /\ main' = [main EXCEPT !.pc = IF @ = "dial" THEN "loop" ELSE @]
    /\ poll' = IF cl.dial = "start" THEN "on" ELSE poll
    /\ UNCHANGED <<server, events>>

(* no answer: another attempt, or the retries (or the silence budget, which *)
(* is shorter) are spent                                                     *)
DialFailed ==
    /\ Running /\ cl.dial # "none" /\ ~up
    /\ \/ /\ cl.retries < MaxRetries
          /\ cl' = [cl EXCEPT !.retries = @ + 1]
          /\ Stays(main)
       \/ /\ cl' = [cl EXCEPT !.dial = "none", !.retries = 0,
                              !.listen = IF cl.dial = "listen" THEN "exhausted" ELSE "off"]
          /\ IF cl.dial = "listen" THEN Stays(main) ELSE Return("exhausted")
    /\ UNCHANGED <<server, poll, events>>

(* a permanent answer (4xx): poll instead *)
DialRefused ==
    /\ Running /\ cl.dial # "none" /\ up /\ Event("refuse")
    /\ cl' = [cl EXCEPT !.dial = "none", !.retries = 0,
                        !.listen = IF cl.dial = "listen" THEN "error" ELSE "off"]
    /\ IF cl.dial = "listen" THEN Stays(main)
       ELSE IF cl.dial = "again" /\ main.mode = "logs" THEN Return("error")
       ELSE Stays([main EXCEPT !.pc = "fallback"])
    /\ UNCHANGED <<server, poll>>

-----------------------------------------------------------------------------
(* Listen and handleMessage *)

(* mutant: a jump is adopted like any other number *)
TrackedLeniently(c, msg) ==
    LET term == c.terminalSeen \/ msg.kind = "status"
        first == ~c.sawMessage
        restart == msg.seq = 1 /\ c.lastSeq > 1
    IN  [c EXCEPT
           !.terminalSeen = term,
           !.sawMessage = TRUE,
           !.lastSeq = IF first \/ term \/ restart \/ msg.seq > c.lastSeq THEN msg.seq ELSE @,
           !.gap = @ \/ (~first /\ ~term /\ restart /\ c.sawData)]

(* The numbering: the first message of a session is adopted, nothing after a *)
(* terminal status is checked, a restart at 1 is forgiven until data has      *)
(* arrived on the connection, a jump is a gap.                                *)
Tracked(c, msg) ==
    LET term == c.terminalSeen \/ msg.kind = "status"
        first == ~c.sawMessage
        restart == msg.seq = 1 /\ c.lastSeq > 1
    IN  [c EXCEPT
           !.terminalSeen = term,
           !.sawMessage = TRUE,
           !.lastSeq = IF first \/ term \/ restart \/ msg.seq > c.lastSeq THEN msg.seq ELSE @,
           !.gap = @ \/ (~first /\ ~term /\ \/ restart /\ c.sawData
                                            \/ msg.seq > c.lastSeq + 1)]

(* the callbacks; a chunk that os.Stdout does not take is not counted *)
Delivered(c, msg, taken) ==
    [c EXCEPT !.sawData = @ \/ msg.kind \in {"stdout", "stderr"},
              !.heard = @ \cup {msg.id},
              !.got = IF msg.kind = "stdout" /\ taken THEN Append(@, msg.chunk) ELSE @,
              !.stdoutErr = @ \/ ~taken]

HandleMessage ==
    /\ Running /\ cl.listen = "reading" /\ net # <<>>
    /\ LET msg == Head(net) IN
         /\ msg.kind \notin Closing
         /\ \/ cl' = Delivered(Tracked(cl, msg), msg, TRUE) /\ UNCHANGED events
            \/ /\ msg.kind = "stdout" /\ main.mode = "stream" /\ Event("write")
               /\ cl' = Delivered(Tracked(cl, msg), msg, FALSE)
         /\ main' = [main EXCEPT !.terminal = IF @ = "no" /\ msg.kind \in {"status", "complete"}
                                               THEN "seen" ELSE @]
    /\ net' = Tail(net)
    /\ UNCHANGED <<server, sconn, buf, poll>>

(* a normal closure ends Listen, anything else reconnects in place *)
ReadError ==
    /\ Running /\ cl.listen = "reading" /\ net # <<>>
    /\ Head(net).kind \in Closing
    /\ cl' = IF Head(net).kind = "CLOSE"
             THEN [cl EXCEPT !.listen = "closed"]
             ELSE [cl EXCEPT !.listen = "off", !.dial = "listen"]
    /\ net' = <<>>
    /\ UNCHANGED <<server, sconn, buf, main, poll, events>>

-----------------------------------------------------------------------------
(* The wait: backupPoll and the arms of the select *)

BackupPoll ==
    /\ Running /\ poll = "on"
    /\ \/ up /\ Terminal /\ poll' = "done"
       \/ ~up /\ poll' = "err"                     \* a budget is spent
    /\ UNCHANGED <<server, pumps, cl, main, events>>

(* mutant: a completed job without output is a success *)
IntegrityErrOfNothing(status) ==
    IF main.mode # "stream" THEN "none"
    ELSE IF cl.gap THEN "incomplete"
    ELSE IF cl.stdoutErr THEN "unwritten"
    ELSE "none"

(* what a streaming wait holds against its output, whatever became of the *)
(* job; a file on disk has no integrity to lose                            *)
IntegrityErr(status) ==
    IF main.mode # "stream" THEN "none"
    ELSE IF cl.gap THEN "incomplete"
    ELSE IF cl.stdoutErr THEN "unwritten"
    ELSE IF status = "completed" /\ cl.got = <<>> THEN "empty"
    ELSE "none"

Outcome ==
    IF IntegrityErr(job) # "none" THEN IntegrityErr(job)
    ELSE IF job = "failed" THEN "failed" ELSE "success"

SeesTerminal == up /\ Terminal

PollDone ==
    /\ main.pc = "loop" /\ poll = "done"
    /\ IF main.mode = "stream" THEN Stays([main EXCEPT !.pc = "drain"]) ELSE Return(Outcome)
    /\ UNCHANGED <<server, cl, poll, events>>

(* mutant: the drain has no timer *)
DrainUntimed ==
    /\ main.pc = "drain"
    /\ main.terminal = "seen" \/ cl.listen \in {"closed", "exhausted", "error"}
    /\ Return(Outcome)
    /\ UNCHANGED <<server, cl, poll, events>>

(* the terminal event, the end of Listen, or the timer *)
DrainStreamingOutput ==
    /\ main.pc = "drain"
    /\ Return(Outcome)
    /\ UNCHANGED <<server, cl, poll, events>>

(* only the log wait returns on the terminal event; it looks once *)
TerminalEvent ==
    /\ main.pc = "loop" /\ main.mode = "logs" /\ main.terminal = "seen"
    /\ IF SeesTerminal THEN Return(Outcome) ELSE Stays([main EXCEPT !.terminal = "looked"])
    /\ UNCHANGED <<server, cl, poll, events>>

PollErr ==
    /\ main.pc = "loop" /\ poll = "err"
    /\ IF SeesTerminal THEN Return(Outcome) ELSE Return("exhausted")
    /\ UNCHANGED <<server, cl, poll, events>>

ListenDone ==
    /\ main.pc = "loop"
    /\ \/ cl.listen = "exhausted" /\ Return("exhausted") /\ UNCHANGED cl
       \/ cl.listen = "error" /\ Stays([main EXCEPT !.pc = "fallback"]) /\ UNCHANGED cl
       \/ /\ cl.listen = "closed"
          /\ IF SeesTerminal THEN Return(Outcome) /\ UNCHANGED cl
             ELSE IF main.closes > MaxRetries THEN Return("exhausted") /\ UNCHANGED cl
             ELSE /\ Stays([main EXCEPT !.closes = @ + 1])
                  /\ cl' = [cl EXCEPT !.listen = "off", !.dial = "again"]
    /\ UNCHANGED <<server, poll, events>>

(* the deadline of the caller, or an interrupt *)
ContextDone ==
    /\ "deadline" \in Events
    /\ main.pc = "loop"
    /\ IF SeesTerminal THEN Return(Outcome)
       ELSE Return(IF IntegrityErr("unknown") = "none" THEN "deadline" ELSE IntegrityErr("unknown"))
    /\ UNCHANGED <<server, cl, poll, events>>

(* WaitForJob *)
Fallback ==
    /\ main.pc = "fallback"
    /\ \/ SeesTerminal /\ Return(Outcome)
       \/ ~up /\ Return("exhausted")
    /\ UNCHANGED <<server, cl, poll, events>>

-----------------------------------------------------------------------------
Broadcasting == \E h \in Handlers : InjectSeq(h) \/ Stamp(h) \/ PersistSeq(h)

Hub == HubBroadcast \/ HubRegister \/ HubUnregister \/ WritePump

Waiting == PollDone \/ DrainStreamingOutput \/ TerminalEvent \/ PollErr \/ ListenDone \/ Fallback

Client == Connected \/ DialFailed \/ HandleMessage \/ ReadError

(* once the job is over the system may rest *)
Over == Terminal /\ UNCHANGED vars

Next ==
    \/ PostStdout \/ PostFails \/ LoseAnswer \/ Migrate \/ PostSide \/ ReportFinal \/ Verdict
    \/ Broadcasting \/ Hub
    \/ Crash \/ Shutdown \/ Start \/ NetBreak
    \/ DialRefused \/ Client
    \/ BackupPoll \/ Waiting \/ ContextDone
    \/ Over

Spec == Init /\ [][Next]_vars

(* goroutines and the operator keep going; faults need not happen *)
FairSpec ==
    /\ Spec
    /\ WF_vars(Broadcasting) /\ WF_vars(Hub) /\ WF_vars(Start)
    /\ WF_vars(Client) /\ WF_vars(BackupPoll) /\ WF_vars(Waiting)

-----------------------------------------------------------------------------
Message == [kind : {"stdout", "stderr", "progress", "status", "complete", "release"} \cup Closing,
            chunk : [attempt : Nat, n : Nat], seq : Nat, id : Nat]

(* The variables keep to their ranges, Hub.broadcast and Client.send to their *)
(* capacities.                                                                 *)
TypeOK ==
    /\ up \in BOOLEAN
    /\ job \in {"running", "completed", "failed"}
    /\ worker \in [attempt : Nat, chunks : 0..Chunks, sendErr : BOOLEAN]
    /\ hnd \in [Handlers -> [pc : {"idle", "inject", "stamp", "persist"},
                             todo : Seq(Message), loaded : Nat, save : Nat]]
    /\ counter \in Nat /\ row \in Nat
    /\ hist \in [sent : Nat, over : Nat, stopped : BOOLEAN, unanswered : SUBSET [attempt : Nat, n : Nat]]
    /\ queue \in Seq(Message) /\ Len(queue) <= HubCap
    /\ sconn \in {"none", "registering", "open", "gone"}
    /\ buf \in Seq(Message) /\ Len(buf) <= SendCap
    /\ net \in Seq(Message)
    /\ cl \in [dial : {"none", "start", "listen", "again"}, retries : 0..MaxRetries,
               listen : {"off", "reading", "closed", "exhausted", "error"},
               sawMessage : BOOLEAN, lastSeq : Nat, gap : BOOLEAN, sawData : BOOLEAN,
               terminalSeen : BOOLEAN, heard : SUBSET Nat, got : Seq([attempt : Nat, n : Nat]),
               stdoutErr : BOOLEAN]
    /\ main \in [mode : Modes, pc : {"dial", "loop", "drain", "fallback", "done"},
                 terminal : {"no", "seen", "looked"}, closes : Nat,
                 result : {"none", "success", "failed", "incomplete", "unwritten", "empty",
                           "exhausted", "error", "deadline"}]
    /\ poll \in {"off", "on", "done", "err"}
    /\ events \in 0..MaxEvents

Before(a, b) == a.attempt < b.attempt \/ (a.attempt = b.attempt /\ a.n < b.n)

(* What the client writes to stdout never goes back, however often the        *)
(* connection and the worker change: no chunk twice, and none before its       *)
(* predecessor but the chunk its sender had no answer for, whose report may    *)
(* still be served when the batcher or the next worker has gone on             *)
(* (HandleMessage, Connected, HubBroadcast, UpdateJob).                        *)
DeliveredInOrder ==
    \A i, k \in 1..Len(cl.got) : i < k =>
        /\ cl.got[i] # cl.got[k]
        /\ Before(cl.got[i], cl.got[k]) \/ cl.got[k] \in hist.unanswered

(* The exit code 0 of a streaming wait: the job completed, stdout took every   *)
(* chunk and, as long as no server process died with the counter, a chunk of   *)
(* the same attempt that is missing between two written ones has been noticed  *)
(* and turned the result into a failure (integrityErr); only of an attempt     *)
(* that was given up may one be missing whose sender had no answer.            *)
HolesAreReported ==
    (main.result = "success" /\ main.mode = "stream" /\ ~hist.stopped)
    => /\ job = "completed" /\ ~cl.stdoutErr
       /\ \A i, k \in 1..Len(cl.got) :
             (i < k /\ {cl.got[i], cl.got[k]} \cap hist.unanswered = {})
             => \A n \in 1..(cl.got[k].n - 1) :
                   LET c == [attempt |-> cl.got[k].attempt, n |-> n] IN
                   Before(cl.got[i], c) =>
                       \/ \E m \in (i + 1)..(k - 1) : cl.got[m] = c
                       \/ c \in hist.unanswered /\ c.attempt # worker.attempt

(* A gap is never invented: while the server has not given the job up, the   *)
(* client that reports one has missed a message broadcast after its first     *)
(* one, unless it came when the terminal status was already out: the reports  *)
(* still under way then begin a new numbering behind the completion           *)
(* (BroadcastWSMessage, handleMessage).                                       *)
GapsAreReal ==
    (cl.gap /\ job # "failed") =>
        \/ \E i \in 1..hist.sent : i \notin cl.heard /\ \E k \in cl.heard : k < i
        \/ hist.over # 0 /\ \A k \in cl.heard : k > hist.over

(* Once the job has a verdict the wait ends, whatever became of the stream.  *)
WaitReturns == Terminal ~> ~Running

Promise == INSTANCE OutputPromise WITH
               job <- job, lossy <- hist.stopped, unanswered <- hist.unanswered,
               mode <- main.mode, written <- cl.got, refused <- cl.stdoutErr,
               answer <- main.result

(* The wait keeps its promise to the user: stdout only grows, and only until *)
(* the one answer, which is one the job and what was written allow           *)
(* (WaitForJobWithStreamingOutput, WaitForJobWithLogs, integrityErr).        *)
ImplementsPromise == Promise!Spec

(* What WaitForJobWithStreamingOutput says of its terminal event: every      *)
(* chunk after the first one written has been delivered, or the gap is known. *)
TerminalMeansDelivered ==
    (cl.terminalSeen /\ job = "completed" /\ cl.got # <<>>) =>
        cl.gap \/ cl.got[Len(cl.got)].n = Chunks
=============================================================================
