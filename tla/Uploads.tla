------------------------------ MODULE Uploads ------------------------------
(***************************************************************************)
(* One chunked upload: the command-line client that sends the chunks, the  *)
(* handlers that store them, assemble them, cancel and expire the session, *)
(* and the content-addressed store the assembled file goes to, shared with *)
(* a plain upload of the same file, a job submitted with it, and the sweep *)
(* that removes files nobody used for a while.                             *)
(*                                                                         *)
(* Every file the client means to upload has the content "good"; its hash  *)
(* names the blob.  A chunk on disk may instead hold "changed" bytes (the  *)
(* client's file changed after it was hashed) or "torn" ones (the bytes    *)
(* and the checksum of the request disagree).                              *)
(***************************************************************************)
EXTENDS Integers, FiniteSets

CONSTANTS
    N,              \* chunks of the file: total_chunks
    Senders,        \* slots for chunk requests in flight
    Completers,     \* callers of /upload/complete; the client is one of them
    Client,         \* ... this one
    MaxTries,       \* MaxChunkRetries
    TTL,            \* input file TTL, in ticks of the clock
    Faults,         \* "timeout", "edit", "torn", "io", "db", "crash"
    MaxFaults       \* bound on how many of them happen

VARIABLES
    sess,       \* upload_sessions: status and file_id
    chunk,      \* chunks/<id>/chunk_<i>
    up,         \* the UploadChunk handlers
    comp,       \* the CompleteChunkUpload handlers
    cancel,     \* the CancelChunkUpload handler
    clean,      \* cleanup goroutines started by complete and cancel
    expirer,    \* cleanupExpiredSessionsOnce
    cli,        \* UploadFileChunked
    blob,       \* files/<hash of the good content>, with the age of its mtime
    sweep,      \* InputFileCleaner
    job,        \* a job with this file among its inputs
    hist,       \* what the handlers answered and did, history only
    faults

session == <<sess, chunk, up, comp, cancel, clean, expirer, cli>>
store == <<blob, sweep, job>>
vars == <<session, store, hist, faults>>

ASSUME CountsAssumption ==
    N \in Nat \ {0} /\ MaxTries \in Nat \ {0} /\ TTL \in Nat \ {0} /\ MaxFaults \in Nat
ASSUME ClientAssumption == Client \in Completers

Chunks == 0 .. N - 1

NoBlob == [there |-> FALSE, age |-> 0]
Used == [there |-> TRUE, age |-> 0]

NoRequest == [pc |-> "idle"]

Init ==
    /\ sess = [status |-> "none", file |-> "none"]
    /\ chunk = [i \in Chunks |-> "none"]
    /\ up = [r \in Senders |-> NoRequest]
    /\ comp = [c \in Completers |-> NoRequest]
    /\ cancel = "idle"
    /\ clean = FALSE
    /\ expirer = "idle"
    /\ cli = [pc |-> "init"]
    /\ blob = NoBlob
    /\ sweep = NoRequest
    /\ job = "none"
    /\ hist = [answers |-> {}, told |-> {}, withdrawn |-> FALSE, stray |-> FALSE]
    /\ faults = 0

Fault(f) == f \in Faults /\ faults < MaxFaults /\ faults' = faults + 1

-----------------------------------------------------------------------------
(* The client: UploadFileChunked *)

InitChunkUpload ==
    /\ cli.pc = "init"
    /\ sess' = [sess EXCEPT !.status = "in_progress"]
    /\ cli' = [pc |-> "send", i |-> 0, tries |-> 1]
    /\ UNCHANGED <<chunk, up, comp, cancel, clean, expirer, store, hist, faults>>

(* The bytes are read from the file again for every chunk. *)
SendChunk(r) ==
    /\ cli.pc = "send"
    /\ up[r] = NoRequest
    /\ \E body \in {"good", "changed", "torn"} :
         /\ \/ body = "good" /\ UNCHANGED faults
            \/ body = "changed" /\ Fault("edit")
            \/ body = "torn" /\ Fault("torn")
         /\ up' = [up EXCEPT ![r] = [pc |-> "check", i |-> cli.i, body |-> body]]
    /\ cli' = [pc |-> "wait", i |-> cli.i, tries |-> cli.tries, req |-> r]
    /\ UNCHANGED <<sess, chunk, comp, cancel, clean, expirer, store, hist>>

Retried == IF cli.tries < MaxTries
           THEN [pc |-> "send", i |-> cli.i, tries |-> cli.tries + 1]
           ELSE [pc |-> "failed"]

(* uploadChunkWithRetry: the request timed out; the server still works. *)
ChunkTimesOut ==
    /\ cli.pc = "wait"
    /\ Fault("timeout")
    /\ cli' = Retried
    /\ UNCHANGED <<sess, chunk, up, comp, cancel, clean, expirer, store, hist>>

(* The client hears of the end of request r, if it still waits for it; an  *)
(* error status is not retried.                                            *)
Heard(r, ok) ==
    cli' = CASE cli.pc # "wait" -> cli
             [] cli.pc = "wait" /\ cli.req # r -> cli
             [] cli.pc = "wait" /\ cli.req = r /\ ~ok -> [pc |-> "failed"]
             [] cli.pc = "wait" /\ cli.req = r /\ ok /\ cli.i + 1 < N ->
                  [pc |-> "send", i |-> cli.i + 1, tries |-> 1]
             [] OTHER -> [pc |-> "complete"]

-----------------------------------------------------------------------------
(* UploadChunk *)

Ends(r, ok) ==
    /\ up' = [up EXCEPT ![r] = NoRequest]
    /\ Heard(r, ok)

(* A chunk that is already stored with its size is acknowledged at once. *)
CheckChunk(r) ==
    /\ up[r].pc = "check"
    /\ \/ sess.status # "in_progress" /\ Ends(r, FALSE)
       \/ sess.status = "in_progress" /\ chunk[up[r].i] # "none" /\ Ends(r, TRUE)
       \/ /\ sess.status = "in_progress"
          /\ chunk[up[r].i] = "none"
          /\ up' = [up EXCEPT ![r].pc = "save"]
          /\ UNCHANGED cli
    /\ UNCHANGED <<sess, chunk, comp, cancel, clean, expirer, store, hist, faults>>

Ended == sess.status \in {"completed", "cancelled", "expired", "gone"}

(* SaveChunk: the status of the session is not read again. *)
SaveChunk(r) ==
    /\ up[r].pc = "save"
    /\ chunk' = [chunk EXCEPT ![up[r].i] = up[r].body]
    /\ up' = [up EXCEPT ![r].pc = "record"]
    /\ hist' = [hist EXCEPT !.stray = @ \/ Ended]
    /\ UNCHANGED <<sess, comp, cancel, clean, expirer, cli, store, faults>>

(* A write that fails leaves no chunk; a failing sync of the directory      *)
(* after the rename leaves it in place.                                    *)
SaveChunkFails(r) ==
    /\ up[r].pc = "save"
    /\ Fault("io")
    /\ \/ UNCHANGED <<chunk, hist>>
       \/ /\ chunk' = [chunk EXCEPT ![up[r].i] = up[r].body]
          /\ hist' = [hist EXCEPT !.stray = @ \/ Ended]
    /\ Ends(r, FALSE)
    /\ UNCHANGED <<sess, comp, cancel, clean, expirer, store>>

DeleteChunk(i) == chunk' = [chunk EXCEPT ![i] = "none"]

(* The checks on the stored bytes and the chunk's record.  The record of a *)
(* session whose row is gone violates a foreign key.                       *)
RecordChunk(r) ==
    /\ up[r].pc = "record"
    /\ \/ /\ up[r].body = "torn" \/ sess.status = "gone"
          /\ DeleteChunk(up[r].i)
          /\ Ends(r, FALSE)
       \/ /\ up[r].body # "torn" /\ sess.status # "gone"
          /\ Ends(r, TRUE)
          /\ UNCHANGED chunk
    /\ UNCHANGED <<sess, comp, cancel, clean, expirer, store, hist, faults>>

(* CreateUploadChunk failed: the chunk is deleted; or                      *)
(* UpdateUploadSessionChunks failed: it stays.                             *)
RecordChunkFails(r) ==
    /\ up[r].pc = "record"
    /\ Fault("db")
    /\ \/ DeleteChunk(up[r].i)
       \/ up[r].body # "torn" /\ UNCHANGED chunk
    /\ Ends(r, FALSE)
    /\ UNCHANGED <<sess, comp, cancel, clean, expirer, store, hist>>

-----------------------------------------------------------------------------
(* CompleteChunkUpload *)

ClientCompletes(c) == IF c = Client THEN cli.pc = "complete" ELSE sess.status # "none"

(* A completion that ended, and what its caller was told. *)
Answers(c, ok) ==
    /\ comp' = [comp EXCEPT ![c] = [pc |-> "done"]]
    /\ cli' = IF c = Client THEN [pc |-> IF ok THEN "done" ELSE "failed"] ELSE cli

Refused(c) == Answers(c, FALSE) /\ UNCHANGED hist

AnswersFile(c, f) ==
    /\ Answers(c, TRUE)
    /\ hist' = [hist EXCEPT !.answers = @ \cup {f}, !.told = @ \cup {"session"}]

(* The session lock: one completion at a time. *)
Locked == \E c \in Completers : comp[c].pc \notin {"idle", "done"}

(* ReopenUploadSession is conditional on the assembling status, and its    *)
(* own failure is only logged.                                             *)
Reopen ==
    \/ /\ sess' = [sess EXCEPT !.status = IF @ = "assembling" THEN "in_progress" ELSE @]
       /\ UNCHANGED faults
    \/ Fault("db") /\ UNCHANGED sess

BeginComplete(c) ==
    /\ comp[c] = NoRequest
    /\ ClientCompletes(c)
    /\ ~Locked
    /\ \/ /\ sess.status = "completed"
          /\ AnswersFile(c, sess.file)
          /\ UNCHANGED <<sess, faults>>
       \/ /\ sess.status \in {"cancelled", "expired", "gone"}
          /\ Refused(c)
          /\ UNCHANGED <<sess, faults>>
       \/ /\ sess.status \in {"in_progress", "assembling"}
          /\ comp' = [comp EXCEPT ![c] = [pc |-> "claim"]]
          /\ sess' = [sess EXCEPT !.status = IF @ = "assembling" THEN "in_progress" ELSE @]
          /\ UNCHANGED <<cli, hist, faults>>
    /\ UNCHANGED <<chunk, up, cancel, clean, expirer, store>>

ClaimUploadSessionAssembly(c) ==
    /\ comp[c].pc = "claim"
    /\ \/ /\ sess.status = "in_progress"
          /\ sess' = [sess EXCEPT !.status = "assembling"]
          /\ comp' = [comp EXCEPT ![c].pc = "assemble"]
          /\ UNCHANGED <<cli, hist>>
       \/ /\ sess.status # "in_progress"
          /\ Refused(c)
          /\ UNCHANGED sess
    /\ UNCHANGED <<chunk, up, cancel, clean, expirer, store, faults>>

Content == IF \A i \in Chunks : chunk[i] = "good" THEN "good" ELSE "bad"

AssembleUnverified(c) ==
    /\ comp[c].pc = "assemble"
    /\ \/ /\ \A i \in Chunks : chunk[i] # "none"
          /\ comp' = [comp EXCEPT ![c] = [pc |-> "stat", content |-> Content]]
          /\ UNCHANGED <<sess, cli, hist, faults>>
       \/ /\ \E i \in Chunks : chunk[i] = "none"
          /\ Reopen
          /\ Refused(c)
    /\ UNCHANGED <<chunk, up, cancel, clean, expirer, store>>

(* AssembleChunks, under the lock of the chunk directory, and the check of *)
(* the whole file against the checksum the client declared.                *)
AssembleChunks(c) ==
    /\ comp[c].pc = "assemble"
    /\ \/ /\ \A i \in Chunks : chunk[i] # "none"
          /\ Content = "good"
          /\ comp' = [comp EXCEPT ![c] = [pc |-> "stat", content |-> Content]]
          /\ UNCHANGED <<sess, cli, hist, faults>>
       \/ /\ (\E i \in Chunks : chunk[i] = "none") \/ Content # "good"
          /\ Reopen
          /\ Refused(c)
    /\ UNCHANGED <<chunk, up, cancel, clean, expirer, store>>

AssembleFails(c) ==
    /\ comp[c].pc \in {"assemble", "rename"}
    /\ Fault("io")
    /\ sess' = [sess EXCEPT !.status = IF @ = "assembling" THEN "in_progress" ELSE @]
    /\ Refused(c)
    /\ UNCHANGED <<chunk, up, cancel, clean, expirer, store>>

(* The same content may be stored already; neither the look nor the rename *)
(* takes the lock of the store.                                            *)
StatBlob(c) ==
    /\ comp[c].pc = "stat"
    /\ comp' = [comp EXCEPT ![c] =
                  IF blob.there
                  THEN [pc |-> "record", content |-> comp[c].content, published |-> FALSE]
                  ELSE [pc |-> "rename", content |-> comp[c].content]]
    /\ UNCHANGED <<sess, chunk, up, cancel, clean, expirer, cli, store, hist, faults>>

RenameBlob(c) ==
    /\ comp[c].pc = "rename"
    /\ blob' = Used
    /\ comp' = [comp EXCEPT ![c] =
                  [pc |-> "record", content |-> comp[c].content, published |-> TRUE]]
    /\ UNCHANGED <<sess, chunk, up, cancel, clean, expirer, cli, sweep, job, hist, faults>>

CreateFile(c) ==
    /\ comp[c].pc = "record"
    /\ comp' = [comp EXCEPT ![c] = [pc |-> "finish", content |-> comp[c].content]]
    /\ UNCHANGED <<sess, chunk, up, cancel, clean, expirer, cli, store, hist, faults>>

(* A blob this request put there is withdrawn when its record fails. *)
CreateFileFails(c) ==
    /\ comp[c].pc = "record"
    /\ Fault("db")
    /\ blob' = IF comp[c].published THEN NoBlob ELSE blob
    /\ hist' = [hist EXCEPT !.withdrawn = @ \/ comp[c].published]
    /\ sess' = [sess EXCEPT !.status = IF @ = "assembling" THEN "in_progress" ELSE @]
    /\ Answers(c, FALSE)
    /\ UNCHANGED <<chunk, up, cancel, clean, expirer, sweep, job>>

(* CompleteUploadSession only succeeds while the session is assembling. *)
CompleteUploadSession(c) ==
    /\ comp[c].pc = "finish"
    /\ \/ /\ sess.status = "assembling"
          /\ sess' = [status |-> "completed", file |-> comp[c].content]
          /\ clean' = TRUE
          /\ AnswersFile(c, comp[c].content)
          /\ UNCHANGED faults
       \/ /\ sess.status # "assembling"
          /\ Refused(c)
          /\ UNCHANGED <<sess, clean, faults>>
       \/ /\ Fault("db")
          /\ sess' = [sess EXCEPT !.status = IF @ = "assembling" THEN "in_progress" ELSE @]
          /\ Refused(c)
          /\ UNCHANGED clean
    /\ UNCHANGED <<chunk, up, cancel, expirer, store>>

-----------------------------------------------------------------------------
(* Cancelling, cleaning up, expiring *)

CancelChunkUpload ==
    /\ cancel = "idle"
    /\ sess.status = "in_progress"
    /\ cancel' = "checked"
    /\ UNCHANGED <<sess, chunk, up, comp, clean, expirer, cli, store, hist, faults>>

(* The update does not look at the status again. *)
CancelUploadSession ==
    /\ cancel = "checked"
    /\ cancel' = "done"
    /\ \/ /\ sess' = [sess EXCEPT !.status = IF @ = "gone" THEN @ ELSE "cancelled"]
          /\ clean' = TRUE
          /\ UNCHANGED faults
       \/ Fault("db") /\ UNCHANGED <<sess, clean>>
    /\ UNCHANGED <<chunk, up, comp, expirer, cli, store, hist>>

NoChunks == [i \in Chunks |-> "none"]

DeleteChunkDirectory ==
    /\ clean
    /\ clean' = FALSE
    /\ chunk' = NoChunks
    /\ UNCHANGED <<sess, up, comp, cancel, expirer, cli, store, hist, faults>>

(* Removing the directory failed, perhaps half way.                        *)
SomeChunksStay ==
    \E left \in SUBSET Chunks :
        chunk' = [i \in Chunks |-> IF i \in left THEN chunk[i] ELSE "none"]

(* Only logged: nobody comes back for what is left.                        *)
DeleteChunkDirectoryFails ==
    /\ clean
    /\ Fault("io")
    /\ clean' = FALSE
    /\ SomeChunksStay
    /\ hist' = [hist EXCEPT !.stray = TRUE]
    /\ UNCHANGED <<sess, up, comp, cancel, expirer, cli, store>>

ExpireInProgress ==
    /\ expirer = "idle"
    /\ sess.status \in {"in_progress", "expired"}
    /\ sess' = [sess EXCEPT !.status = "expired"]
    /\ expirer' = "listed"
    /\ UNCHANGED <<chunk, up, comp, cancel, clean, cli, store, hist, faults>>

(* 24 hours have passed and the hourly sweep of the sessions comes round. *)
ExpireUploadSessions ==
    /\ expirer = "idle"
    /\ sess.status \in {"in_progress", "assembling", "expired"}
    /\ sess' = [sess EXCEPT !.status = "expired"]
    /\ expirer' = "listed"
    /\ UNCHANGED <<chunk, up, comp, cancel, clean, cli, store, hist, faults>>

DeleteExpired ==
    /\ \/ /\ expirer = "listed"
          /\ chunk' = NoChunks
          /\ expirer' = "delete"
          /\ UNCHANGED sess
       \/ /\ expirer = "delete"
          /\ sess' = [sess EXCEPT !.status = "gone"]
          /\ expirer' = "idle"
          /\ UNCHANGED chunk
    /\ UNCHANGED <<up, comp, cancel, clean, cli, store, hist, faults>>

(* The session stays expired and the next sweep lists it again.            *)
DeleteExpiredFails ==
    /\ \/ expirer = "listed" /\ Fault("io") /\ SomeChunksStay
       \/ expirer = "delete" /\ Fault("db") /\ UNCHANGED chunk
    /\ expirer' = "idle"
    /\ UNCHANGED <<sess, up, comp, cancel, clean, cli, store, hist>>

(* The server process dies and is started again: handlers and goroutines   *)
(* are gone, the client sees its connection reset.                         *)
Crash ==
    /\ Fault("crash")
    /\ up' = [r \in Senders |-> NoRequest]
    /\ comp' = [c \in Completers |->
                  IF comp[c].pc \in {"idle", "done"} THEN comp[c] ELSE [pc |-> "done"]]
    /\ cancel' = IF cancel = "checked" THEN "done" ELSE cancel
    /\ clean' = FALSE
    /\ expirer' = "idle"
    /\ cli' = CASE cli.pc = "wait" -> Retried
                [] cli.pc = "complete" /\ comp[Client].pc \notin {"idle", "done"} -> [pc |-> "failed"]
                [] OTHER -> cli
    /\ sweep' = NoRequest
    /\ job' = IF job = "touched" THEN "none" ELSE job
    /\ hist' = [hist EXCEPT !.stray = @ \/ clean]
    /\ UNCHANGED <<sess, chunk, blob>>

-----------------------------------------------------------------------------
(* The store of input files *)

(* Another client uploads the same file in one request: SaveFileByContent  *)
(* stores it, or finds it and refreshes its mtime.                         *)
Upload ==
    /\ "plain" \notin hist.told
    /\ blob' = Used
    /\ hist' = [hist EXCEPT !.told = @ \cup {"plain"}]
    /\ UNCHANGED <<session, sweep, job, faults>>

(* SubmitJob: TouchFile, and later the row of the job. *)
SubmitJob ==
    /\ job = "none"
    /\ hist.told # {}
    /\ blob.there
    /\ blob' = Used
    /\ job' = "touched"
    /\ UNCHANGED <<session, sweep, hist, faults>>

CreateJob ==
    /\ job = "touched"
    /\ job' = "active"
    /\ UNCHANGED <<session, blob, sweep, hist, faults>>

(* A worker downloads the input: OpenFile refreshes the mtime. *)
DownloadFile ==
    /\ job = "active"
    /\ blob.there
    /\ blob' = Used
    /\ UNCHANGED <<session, sweep, job, hist, faults>>

JobEnds ==
    /\ job = "active"
    /\ job' = "ended"
    /\ UNCHANGED <<session, blob, sweep, hist, faults>>

(* CleanupOnce reads the inputs of the active jobs, then the directory. *)
CleanupOnce ==
    /\ sweep = NoRequest
    /\ sweep' = [pc |-> "list", inUse |-> job = "active"]
    /\ UNCHANGED <<session, blob, job, hist, faults>>

ListFiles ==
    /\ sweep.pc = "list"
    /\ sweep' = IF blob.there /\ ~sweep.inUse
                THEN [pc |-> "delete", old |-> blob.age >= TTL] ELSE NoRequest
    /\ UNCHANGED <<session, blob, job, hist, faults>>

DeleteListed ==
    /\ sweep.pc = "delete"
    /\ sweep' = NoRequest
    /\ blob' = IF sweep.old THEN NoBlob ELSE blob
    /\ UNCHANGED <<session, job, hist, faults>>

(* The age is read again under the lock that TouchFile takes. *)
DeleteOld ==
    /\ sweep.pc = "delete"
    /\ sweep' = NoRequest
    /\ blob' = IF blob.there /\ blob.age >= TTL THEN NoBlob ELSE blob
    /\ UNCHANGED <<session, job, hist, faults>>

(* A sweep, and the time between TouchFile and the row of the job, are     *)
(* short against the TTL.                                                  *)
Tick ==
    /\ sweep = NoRequest
    /\ job # "touched"
    /\ blob.there /\ blob.age < TTL
    /\ blob' = [blob EXCEPT !.age = @ + 1]
    /\ UNCHANGED <<session, sweep, job, hist, faults>>

-----------------------------------------------------------------------------

Chunking(r) ==
    \/ CheckChunk(r)
    \/ SaveChunk(r)
    \/ SaveChunkFails(r)
    \/ RecordChunk(r)
    \/ RecordChunkFails(r)

Completing(c) ==
    \/ ClaimUploadSessionAssembly(c)
    \/ AssembleChunks(c)
    \/ AssembleFails(c)
    \/ StatBlob(c)
    \/ RenameBlob(c)
    \/ CreateFile(c)
    \/ CreateFileFails(c)
    \/ CompleteUploadSession(c)

Next ==
    \/ InitChunkUpload
    \/ \E r \in Senders : SendChunk(r) \/ Chunking(r)
    \/ ChunkTimesOut
    \/ \E c \in Completers : BeginComplete(c) \/ Completing(c)
    \/ CancelChunkUpload
    \/ CancelUploadSession
    \/ DeleteChunkDirectory
    \/ DeleteChunkDirectoryFails
    \/ ExpireUploadSessions
    \/ DeleteExpired
    \/ DeleteExpiredFails
    \/ Crash
    \/ Upload
    \/ SubmitJob
    \/ CreateJob
    \/ DownloadFile
    \/ JobEnds
    \/ CleanupOnce
    \/ ListFiles
    \/ DeleteOld
    \/ Tick

(* Handlers and goroutines that were started go on, and the hourly sweep   *)
(* of the sessions comes round.  Nobody has to send, complete or cancel.   *)
Fairness ==
    /\ \A r \in Senders : WF_vars(Chunking(r))
    /\ \A c \in Completers : WF_vars(Completing(c))
    /\ WF_vars(CancelUploadSession)
    /\ WF_vars(DeleteChunkDirectory)
    /\ WF_vars(ExpireUploadSessions)
    /\ WF_vars(DeleteExpired)

Spec == Init /\ [][Next]_vars
FairSpec == Spec /\ Fairness

-----------------------------------------------------------------------------
(* Properties *)

TypeOK ==
    /\ sess.status \in {"none", "in_progress", "assembling", "completed", "cancelled",
                        "expired", "gone"}
    /\ sess.file \in {"none", "good", "bad"}
    /\ chunk \in [Chunks -> {"none", "good", "changed", "torn"}]
    /\ \A r \in Senders : up[r].pc \in {"idle", "check", "save", "record"}
    /\ \A c \in Completers :
         comp[c].pc \in {"idle", "claim", "assemble", "stat", "rename", "record", "finish", "done"}
    /\ cancel \in {"idle", "checked", "done"}
    /\ clean \in BOOLEAN
    /\ expirer \in {"idle", "listed", "delete"}
    /\ cli.pc \in {"init", "send", "wait", "complete", "done", "failed"}
    /\ cli.pc \in {"send", "wait"} => cli.i \in Chunks /\ cli.tries \in 1 .. MaxTries
    /\ blob \in [there : BOOLEAN, age : 0 .. TTL]
    /\ sweep.pc \in {"idle", "list", "delete"}
    /\ job \in {"none", "touched", "active", "ended"}
    /\ faults \in 0 .. MaxFaults

(* Every completion that was answered with a file id, the repeated ones    *)
(* too, named the file the client meant to upload: no timing of late,      *)
(* retried or damaged chunk requests gets another file published, and a    *)
(* completed session names its file.                                       *)
AnswersAreTheFile == hist.answers \subseteq {"good"}

(* The input of an active job is in the store: the sweep never removes a   *)
(* file that was submitted after it looked at the jobs.  (A completion     *)
(* that withdraws the file it published is the one way to lose it.)        *)
InputKept == job = "active" /\ ~hist.withdrawn => blob.there

(* Whatever requests were lost, late or cut off by a crash, the session    *)
(* comes to an end and its chunks leave the disk, unless a chunk was       *)
(* written after the session ended, or the one cleanup a completed or      *)
(* cancelled session gets failed or died with the process.  The sweep of   *)
(* expired sessions has no such exception: what it could not remove it     *)
(* comes back for.                                                         *)
SessionsSettle ==
    sess.status = "in_progress" ~> (Ended /\ (hist.stray \/ chunk = NoChunks))

(* As the comment on the deletion has it, a completion only withdraws a    *)
(* file that nobody else relies on: an active job keeps its input.         *)
InputNeverLost == job = "active" => blob.there

=============================================================================
