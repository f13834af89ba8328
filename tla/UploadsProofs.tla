---------------------------- MODULE UploadsProofs ----------------------------
(***************************************************************************)
(* Proofs about Uploads, for any number of chunks, concurrent requests,    *)
(* retries, faults and any TTL of at least one tick.                       *)
(*                                                                         *)
(* Shape refines the type invariant by what each request carries at each   *)
(* of its steps.  On top of it come two independent arguments: what is     *)
(* published was verified (Verified), and a submission and a sweep cannot  *)
(* overtake each other (Guarded).                                          *)
(***************************************************************************)
EXTENDS Uploads, TLAPS

USE CountsAssumption, ClientAssumption

Bodies == {"good", "changed", "torn"}

UpState == {NoRequest} \cup [pc : {"check", "save", "record"}, i : Chunks, body : Bodies]

CompState ==
    [pc : {"idle", "claim", "assemble", "done"}]
        \cup [pc : {"stat", "rename", "finish"}, content : {"good", "bad"}]
        \cup [pc : {"record"}, content : {"good", "bad"}, published : BOOLEAN]

CliState ==
    [pc : {"init", "complete", "done", "failed"}]
        \cup [pc : {"send"}, i : Chunks, tries : 1 .. MaxTries]
        \cup [pc : {"wait"}, i : Chunks, tries : 1 .. MaxTries, req : Senders]

SweepState ==
    {NoRequest} \cup [pc : {"list"}, inUse : BOOLEAN] \cup [pc : {"delete"}, old : BOOLEAN]

Status == {"none", "in_progress", "assembling", "completed", "cancelled", "expired", "gone"}

SessionShape ==
    /\ sess \in [status : Status, file : {"none", "good", "bad"}]
    /\ chunk \in [Chunks -> {"none", "good", "changed", "torn"}]
    /\ up \in [Senders -> UpState]
    /\ comp \in [Completers -> CompState]
    /\ cancel \in {"idle", "checked", "done"}
    /\ clean \in BOOLEAN
    /\ expirer \in {"idle", "listed", "delete"}
    /\ cli \in CliState

StoreShape ==
    /\ blob \in [there : BOOLEAN, age : 0 .. TTL]
    /\ sweep \in SweepState
    /\ job \in {"none", "touched", "active", "ended"}

HistShape ==
    /\ hist \in [answers : SUBSET {"none", "good", "bad"}, told : SUBSET {"session", "plain"},
                 withdrawn : BOOLEAN, stray : BOOLEAN]
    /\ faults \in 0 .. MaxFaults

Shape == SessionShape /\ StoreShape /\ HistShape

(* The checksum of the whole file is compared before anything is published, *)
(* and what passed it is carried along unchanged.                           *)
Verified ==
    /\ \A c \in Completers :
         comp[c].pc \in {"stat", "rename", "record", "finish"} => comp[c].content = "good"
    /\ sess.status = "completed" => sess.file = "good"
    /\ hist.answers \subseteq {"good"}

(* TouchFile makes the blob young before the job's row exists, and it stays *)
(* young for as long as a sweep that did not see the row may be under way.  *)
Guarded ==
    ~hist.withdrawn =>
        /\ job \in {"touched", "active"} => blob.there
        /\ job = "touched" => blob.age = 0
        /\ job = "active" /\ sweep.pc = "delete" => blob.age = 0
        /\ job = "active" /\ sweep.pc = "list" /\ ~sweep.inUse => blob.age = 0

UploadsInv == Shape /\ Verified /\ Guarded

-----------------------------------------------------------------------------
(* The client's next state after an answer, a timeout or a crash. *)
LEMMA RetriedType ==
    ASSUME cli \in CliState, cli.pc = "wait"
    PROVE  Retried \in CliState
  BY DEF CliState, Retried

(* A chunk's answer moves the client on. *)
LEMMA HeardType ==
    ASSUME cli \in CliState, NEW r \in Senders, NEW ok \in BOOLEAN, Heard(r, ok)
    PROVE  cli' \in CliState
  <1>1. CASE cli.pc # "wait"
    BY <1>1 DEF Heard
  <1>2. CASE cli.pc = "wait"
    <2>1. cli.i \in Chunks /\ cli.i + 1 < N => cli.i + 1 \in Chunks
      BY DEF Chunks
    <2>2. cli.i \in Chunks
      BY <1>2 DEF CliState
    <2>3. 1 \in 1 .. MaxTries
      OBVIOUS
    <2> QED
      BY <1>2, <2>1, <2>2, <2>3 DEF Heard, CliState
  <1> QED
    BY <1>1, <1>2

(* Nothing has been sent, stored or submitted yet. *)
LEMMA UploadsInit == Init => UploadsInv
  <1> SUFFICES ASSUME Init PROVE UploadsInv
    OBVIOUS
  <1>1. SessionShape
    BY DEF Init, SessionShape, UpState, CompState, CliState, Status, NoRequest
  <1>2. StoreShape
    BY DEF Init, StoreShape, SweepState, NoBlob
  <1>3. HistShape
    BY DEF Init, HistShape
  <1>4. Verified
    BY DEF Init, Verified, NoRequest
  <1>5. Guarded
    BY DEF Init, Guarded
  <1> QED
    BY <1>1, <1>2, <1>3, <1>4, <1>5 DEF UploadsInv, Shape

-----------------------------------------------------------------------------
(* Chunk requests: they touch neither the store nor anything verified.     *)

(* The session is created and the client sends its first chunk. *)
LEMMA InitChunkUploadStep ==
    ASSUME UploadsInv, InitChunkUpload
    PROVE  UploadsInv'
  <1> USE DEF InitChunkUpload
  <1>1. SessionShape'
    <2>1. 0 \in Chunks /\ 1 \in 1 .. MaxTries
      BY DEF Chunks
    <2> QED
      BY <2>1 DEF UploadsInv, Shape, SessionShape, UpState, CompState, CliState,
         Status, Bodies, NoRequest, Fault
  <1>2. StoreShape'
    BY DEF UploadsInv, Shape, StoreShape, store
  <1>3. HistShape'
    BY DEF UploadsInv, Shape, SessionShape, CompState, HistShape, Fault
  <1>4. Verified'
    BY DEF UploadsInv, Shape, SessionShape, CompState, Status, HistShape, Verified,
       NoRequest
  <1>5. Guarded'
    BY DEF UploadsInv, Shape, HistShape, Guarded, store
  <1> QED
    BY <1>1, <1>2, <1>3, <1>4, <1>5 DEF UploadsInv, Shape

(* A chunk request sets out, whatever its bytes. *)
LEMMA SendChunkStep ==
    ASSUME UploadsInv, NEW r \in Senders, SendChunk(r)
    PROVE  UploadsInv'
  <1> USE DEF SendChunk
  <1>1. SessionShape'
    BY DEF UploadsInv, Shape, SessionShape, UpState, CompState, CliState, Status,
       Bodies, NoRequest, Fault
  <1>2. StoreShape'
    BY DEF UploadsInv, Shape, StoreShape, store
  <1>3. HistShape'
    BY DEF UploadsInv, Shape, SessionShape, CompState, HistShape, Fault
  <1>4. Verified'
    BY DEF UploadsInv, Shape, HistShape, Verified, session
  <1>5. Guarded'
    BY DEF UploadsInv, Shape, HistShape, Guarded, store
  <1> QED
    BY <1>1, <1>2, <1>3, <1>4, <1>5 DEF UploadsInv, Shape

(* The client retries or gives up. *)
LEMMA ChunkTimesOutStep ==
    ASSUME UploadsInv, ChunkTimesOut
    PROVE  UploadsInv'
  <1> USE DEF ChunkTimesOut
  <1>1. SessionShape'
    BY RetriedType DEF UploadsInv, Shape, SessionShape, UpState, CompState, CliState,
       Status, Bodies, NoRequest, Fault
  <1>2. StoreShape'
    BY DEF UploadsInv, Shape, StoreShape, store
  <1>3. HistShape'
    BY DEF UploadsInv, Shape, SessionShape, CompState, HistShape, Fault
  <1>4. Verified'
    BY DEF UploadsInv, Shape, HistShape, Verified, session
  <1>5. Guarded'
    BY DEF UploadsInv, Shape, HistShape, Guarded, store
  <1> QED
    BY <1>1, <1>2, <1>3, <1>4, <1>5 DEF UploadsInv, Shape

(* A request ends at once or goes on to save its chunk. *)
LEMMA CheckChunkStep ==
    ASSUME UploadsInv, NEW r \in Senders, CheckChunk(r)
    PROVE  UploadsInv'
  <1> USE DEF CheckChunk, Ends
  <1>1. SessionShape'
    <2>1. cli' \in CliState
      BY HeardType DEF UploadsInv, Shape, SessionShape
    <2>2. up' \in [Senders -> UpState]
      <3>1. up[r] \in [pc : {"check", "save", "record"}, i : Chunks, body : Bodies]
        BY DEF UploadsInv, Shape, SessionShape, UpState, NoRequest
      <3>2. up' \in {[up EXCEPT ![r] = NoRequest], [up EXCEPT ![r].pc = "save"]}
        OBVIOUS
      <3> QED
        BY <3>1, <3>2 DEF UploadsInv, Shape, SessionShape, UpState
    <2> QED
      BY <2>1, <2>2 DEF UploadsInv, Shape, SessionShape
  <1>2. StoreShape'
    BY DEF UploadsInv, Shape, StoreShape, store
  <1>3. HistShape'
    BY DEF UploadsInv, Shape, SessionShape, CompState, HistShape, Fault
  <1>4. Verified'
    BY DEF UploadsInv, Shape, HistShape, Verified, session
  <1>5. Guarded'
    BY DEF UploadsInv, Shape, HistShape, Guarded, store
  <1> QED
    BY <1>1, <1>2, <1>3, <1>4, <1>5 DEF UploadsInv, Shape

(* Bytes reach the chunk directory, whatever became of the session. *)
LEMMA SaveChunkStep ==
    ASSUME UploadsInv, NEW r \in Senders, SaveChunk(r)
    PROVE  UploadsInv'
  <1> USE DEF SaveChunk, Ended
  <1>1. SessionShape'
    BY DEF UploadsInv, Shape, SessionShape, UpState, CompState, CliState, Status,
       Bodies, NoRequest, Fault
  <1>2. StoreShape'
    BY DEF UploadsInv, Shape, StoreShape, store
  <1>3. HistShape'
    BY DEF UploadsInv, Shape, SessionShape, CompState, HistShape, Fault
  <1>4. Verified'
    BY DEF UploadsInv, Shape, HistShape, Verified, session
  <1>5. Guarded'
    BY DEF UploadsInv, Shape, HistShape, Guarded, store
  <1> QED
    BY <1>1, <1>2, <1>3, <1>4, <1>5 DEF UploadsInv, Shape

(* The request ends with an error. *)
LEMMA SaveChunkFailsStep ==
    ASSUME UploadsInv, NEW r \in Senders, SaveChunkFails(r)
    PROVE  UploadsInv'
  <1> USE DEF SaveChunkFails, Ends, Ended
  <1>1. SessionShape'
    <2>1. cli' \in CliState
      BY HeardType DEF UploadsInv, Shape, SessionShape
    <2>2. up' \in [Senders -> UpState]
      BY DEF UploadsInv, Shape, SessionShape, UpState, NoRequest
    <2>3. up[r].body \in Bodies
      BY DEF UploadsInv, Shape, SessionShape, UpState, NoRequest
    <2>4. chunk' \in [Chunks -> {"none", "good", "changed", "torn"}]
      BY <2>3 DEF UploadsInv, Shape, SessionShape, Bodies
    <2> QED
      BY <2>1, <2>2, <2>4 DEF UploadsInv, Shape, SessionShape
  <1>2. StoreShape'
    BY DEF UploadsInv, Shape, StoreShape, store
  <1>3. HistShape'
    <2>1. hist' = hist \/ hist' = [hist EXCEPT !.stray = @ \/ Ended]
      OBVIOUS
    <2>2. hist' = [hist EXCEPT !.stray = @ \/ Ended] =>
            hist' \in [answers : SUBSET {"none", "good", "bad"}, told : SUBSET {"session", "plain"},
                      withdrawn : BOOLEAN, stray : BOOLEAN]
      BY DEF UploadsInv, Shape, HistShape
    <2>3. faults' \in 0 .. MaxFaults
      BY CountsAssumption DEF UploadsInv, Shape, HistShape, Fault
    <2> QED
      BY <2>1, <2>2, <2>3 DEF UploadsInv, Shape, HistShape
  <1>4. Verified'
    BY DEF UploadsInv, Shape, HistShape, Verified, session
  <1>5. Guarded'
    BY DEF UploadsInv, Shape, HistShape, Guarded, store
  <1> QED
    BY <1>1, <1>2, <1>3, <1>4, <1>5 DEF UploadsInv, Shape

(* A damaged chunk is removed, a recorded one acknowledged. *)
LEMMA RecordChunkStep ==
    ASSUME UploadsInv, NEW r \in Senders, RecordChunk(r)
    PROVE  UploadsInv'
  <1> USE DEF RecordChunk, Ends, DeleteChunk
  <1>1. SessionShape'
    <2>1. cli' \in CliState
      BY HeardType DEF UploadsInv, Shape, SessionShape
    <2>2. up' \in [Senders -> UpState]
      BY DEF UploadsInv, Shape, SessionShape, UpState, NoRequest
    <2>3. chunk' \in [Chunks -> {"none", "good", "changed", "torn"}]
      BY DEF UploadsInv, Shape, SessionShape, UpState, NoRequest
    <2> QED
      BY <2>1, <2>2, <2>3 DEF UploadsInv, Shape, SessionShape
  <1>2. StoreShape'
    BY DEF UploadsInv, Shape, StoreShape, store
  <1>3. HistShape'
    BY DEF UploadsInv, Shape, SessionShape, CompState, HistShape, Fault
  <1>4. Verified'
    BY DEF UploadsInv, Shape, HistShape, Verified, session
  <1>5. Guarded'
    BY DEF UploadsInv, Shape, HistShape, Guarded, store
  <1> QED
    BY <1>1, <1>2, <1>3, <1>4, <1>5 DEF UploadsInv, Shape

(* A failing statement, before or after the record. *)
LEMMA RecordChunkFailsStep ==
    ASSUME UploadsInv, NEW r \in Senders, RecordChunkFails(r)
    PROVE  UploadsInv'
  <1> USE DEF RecordChunkFails, Ends, DeleteChunk
  <1>1. SessionShape'
    <2>1. cli' \in CliState
      BY HeardType DEF UploadsInv, Shape, SessionShape
    <2>2. up' \in [Senders -> UpState]
      BY DEF UploadsInv, Shape, SessionShape, UpState, NoRequest
    <2>3. chunk' \in [Chunks -> {"none", "good", "changed", "torn"}]
      BY DEF UploadsInv, Shape, SessionShape, UpState, NoRequest
    <2> QED
      BY <2>1, <2>2, <2>3 DEF UploadsInv, Shape, SessionShape
  <1>2. StoreShape'
    BY DEF UploadsInv, Shape, StoreShape, store
  <1>3. HistShape'
    BY DEF UploadsInv, Shape, SessionShape, CompState, HistShape, Fault
  <1>4. Verified'
    BY DEF UploadsInv, Shape, HistShape, Verified, session
  <1>5. Guarded'
    BY DEF UploadsInv, Shape, HistShape, Guarded, store
  <1> QED
    BY <1>1, <1>2, <1>3, <1>4, <1>5 DEF UploadsInv, Shape

-----------------------------------------------------------------------------
(* Completions: what they publish was compared with the checksum.          *)

(* A completed session answers with the file it holds, which was verified. *)
LEMMA BeginCompleteStep ==
    ASSUME UploadsInv, NEW c \in Completers, BeginComplete(c)
    PROVE  UploadsInv'
  <1> USE DEF BeginComplete, Answers, AnswersFile, Refused
  <1>1. SessionShape'
    BY DEF UploadsInv, Shape, SessionShape, UpState, CompState, CliState, Status,
       Bodies, NoRequest, Fault
  <1>2. StoreShape'
    BY DEF UploadsInv, Shape, StoreShape, store
  <1>3. HistShape'
    <2>1. CASE sess.status = "completed"
      <3>1. sess.file \in {"none", "good", "bad"}
        BY DEF UploadsInv, Shape, SessionShape
      <3>2. hist' = [hist EXCEPT !.answers = @ \cup {sess.file}, !.told = @ \cup {"session"}]
        BY <2>1
      <3> QED
        BY <3>1, <3>2 DEF UploadsInv, Shape, HistShape
    <2>2. CASE sess.status # "completed"
      BY <2>2 DEF UploadsInv, Shape, HistShape
    <2> QED
      BY <2>1, <2>2
  <1>4. Verified'
    <2>1. CASE sess.status = "completed"
      <3>1. sess.file = "good" /\ sess' = sess
        BY <2>1 DEF UploadsInv, Verified
      <3>2. hist'.answers = hist.answers \cup {"good"}
        BY <2>1, <3>1 DEF UploadsInv, Shape, HistShape
      <3> QED
        BY <3>1, <3>2 DEF UploadsInv, Shape, SessionShape, CompState, Verified
    <2>2. CASE sess.status # "completed"
      BY <2>2 DEF UploadsInv, Shape, SessionShape, CompState, Status, HistShape, Verified
    <2> QED
      BY <2>1, <2>2
  <1>5. Guarded'
    BY DEF UploadsInv, Shape, HistShape, Guarded, store
  <1> QED
    BY <1>1, <1>2, <1>3, <1>4, <1>5 DEF UploadsInv, Shape

(* The claim changes nothing but the status. *)
LEMMA ClaimUploadSessionAssemblyStep ==
    ASSUME UploadsInv, NEW c \in Completers, ClaimUploadSessionAssembly(c)
    PROVE  UploadsInv'
  <1> USE DEF ClaimUploadSessionAssembly, Answers, Refused
  <1>1. SessionShape'
    BY DEF UploadsInv, Shape, SessionShape, UpState, CompState, CliState, Status,
       Bodies, NoRequest, Fault
  <1>2. StoreShape'
    BY DEF UploadsInv, Shape, StoreShape, store
  <1>3. HistShape'
    BY DEF UploadsInv, Shape, SessionShape, CompState, HistShape, Fault
  <1>4. Verified'
    BY DEF UploadsInv, Shape, SessionShape, CompState, Status, HistShape, Verified,
       NoRequest
  <1>5. Guarded'
    BY DEF UploadsInv, Shape, HistShape, Guarded, store
  <1> QED
    BY <1>1, <1>2, <1>3, <1>4, <1>5 DEF UploadsInv, Shape

(* The one place where content enters: it is compared with the checksum. *)
LEMMA AssembleChunksStep ==
    ASSUME UploadsInv, NEW c \in Completers, AssembleChunks(c)
    PROVE  UploadsInv'
  <1> USE DEF AssembleChunks, Answers, Refused, Reopen, Content
  <1>1. SessionShape'
    BY DEF UploadsInv, Shape, SessionShape, UpState, CompState, CliState, Status,
       Bodies, NoRequest, Fault
  <1>2. StoreShape'
    BY DEF UploadsInv, Shape, StoreShape, store
  <1>3. HistShape'
    BY DEF UploadsInv, Shape, SessionShape, CompState, HistShape, Fault
  <1>4. Verified'
    BY DEF UploadsInv, Shape, SessionShape, CompState, Status, HistShape, Verified,
       NoRequest
  <1>5. Guarded'
    BY DEF UploadsInv, Shape, HistShape, Guarded, store
  <1> QED
    BY <1>1, <1>2, <1>3, <1>4, <1>5 DEF UploadsInv, Shape

(* The completion is refused. *)
LEMMA AssembleFailsStep ==
    ASSUME UploadsInv, NEW c \in Completers, AssembleFails(c)
    PROVE  UploadsInv'
  <1> USE DEF AssembleFails, Answers, Refused
  <1>1. SessionShape'
    BY DEF UploadsInv, Shape, SessionShape, UpState, CompState, CliState, Status,
       Bodies, NoRequest, Fault
  <1>2. StoreShape'
    BY DEF UploadsInv, Shape, StoreShape, store
  <1>3. HistShape'
    BY DEF UploadsInv, Shape, SessionShape, CompState, HistShape, Fault
  <1>4. Verified'
    BY DEF UploadsInv, Shape, SessionShape, CompState, Status, HistShape, Verified,
       NoRequest
  <1>5. Guarded'
    BY DEF UploadsInv, Shape, HistShape, Guarded, store
  <1> QED
    BY <1>1, <1>2, <1>3, <1>4, <1>5 DEF UploadsInv, Shape

(* The verified content is carried along. *)
LEMMA StatBlobStep ==
    ASSUME UploadsInv, NEW c \in Completers, StatBlob(c)
    PROVE  UploadsInv'
  <1> USE DEF StatBlob
  <1>1. SessionShape'
    BY DEF UploadsInv, Shape, SessionShape, UpState, CompState, CliState, Status,
       Bodies, NoRequest, Fault
  <1>2. StoreShape'
    BY DEF UploadsInv, Shape, StoreShape, store
  <1>3. HistShape'
    BY DEF UploadsInv, Shape, SessionShape, CompState, HistShape, Fault
  <1>4. Verified'
    BY DEF UploadsInv, Shape, SessionShape, CompState, Status, HistShape, Verified,
       NoRequest
  <1>5. Guarded'
    BY DEF UploadsInv, Shape, HistShape, Guarded, store
  <1> QED
    BY <1>1, <1>2, <1>3, <1>4, <1>5 DEF UploadsInv, Shape

(* Publishing makes the blob young. *)
LEMMA RenameBlobStep ==
    ASSUME UploadsInv, NEW c \in Completers, RenameBlob(c)
    PROVE  UploadsInv'
  <1> USE DEF RenameBlob
  <1>1. SessionShape'
    BY DEF UploadsInv, Shape, SessionShape, UpState, CompState, CliState, Status,
       Bodies, NoRequest, Fault
  <1>2. StoreShape'
    BY DEF UploadsInv, Shape, StoreShape, SweepState, NoRequest, Used, NoBlob, Fault
  <1>3. HistShape'
    BY DEF UploadsInv, Shape, SessionShape, CompState, HistShape, Fault
  <1>4. Verified'
    BY DEF UploadsInv, Shape, SessionShape, CompState, Status, HistShape, Verified,
       NoRequest
  <1>5. Guarded'
    BY DEF UploadsInv, Shape, StoreShape, HistShape, SweepState, Guarded, NoRequest,
       Used, NoBlob
  <1> QED
    BY <1>1, <1>2, <1>3, <1>4, <1>5 DEF UploadsInv, Shape

(* The verified content is carried along. *)
LEMMA CreateFileStep ==
    ASSUME UploadsInv, NEW c \in Completers, CreateFile(c)
    PROVE  UploadsInv'
  <1> USE DEF CreateFile
  <1>1. SessionShape'
    BY DEF UploadsInv, Shape, SessionShape, UpState, CompState, CliState, Status,
       Bodies, NoRequest, Fault
  <1>2. StoreShape'
    BY DEF UploadsInv, Shape, StoreShape, store
  <1>3. HistShape'
    BY DEF UploadsInv, Shape, SessionShape, CompState, HistShape, Fault
  <1>4. Verified'
    BY DEF UploadsInv, Shape, SessionShape, CompState, Status, HistShape, Verified,
       NoRequest
  <1>5. Guarded'
    BY DEF UploadsInv, Shape, HistShape, Guarded, store
  <1> QED
    BY <1>1, <1>2, <1>3, <1>4, <1>5 DEF UploadsInv, Shape

(* The only loss of a blob that Guarded does not exclude. *)
LEMMA CreateFileFailsStep ==
    ASSUME UploadsInv, NEW c \in Completers, CreateFileFails(c)
    PROVE  UploadsInv'
  <1> USE DEF CreateFileFails, Answers
  <1>1. SessionShape'
    BY DEF UploadsInv, Shape, SessionShape, UpState, CompState, CliState, Status,
       Bodies, NoRequest, Fault
  <1>2. StoreShape'
    BY DEF UploadsInv, Shape, StoreShape, SweepState, NoRequest, Used, NoBlob, Fault
  <1>3. HistShape'
    BY DEF UploadsInv, Shape, SessionShape, CompState, HistShape, Fault
  <1>4. Verified'
    BY DEF UploadsInv, Shape, SessionShape, CompState, Status, HistShape, Verified,
       NoRequest
  <1>5. Guarded'
    BY DEF UploadsInv, Shape, StoreShape, HistShape, SweepState, Guarded, NoRequest,
       Used, NoBlob
  <1> QED
    BY <1>1, <1>2, <1>3, <1>4, <1>5 DEF UploadsInv, Shape

(* The session gets the file that was verified. *)
LEMMA CompleteUploadSessionStep ==
    ASSUME UploadsInv, NEW c \in Completers, CompleteUploadSession(c)
    PROVE  UploadsInv'
  <1> USE DEF CompleteUploadSession, Answers, AnswersFile, Refused
  <1>1. SessionShape'
    <2>1. comp[c].content \in {"good", "bad"}
      BY DEF UploadsInv, Shape, SessionShape, CompState
    <2>2. sess' \in [status : Status, file : {"none", "good", "bad"}]
      BY <2>1 DEF UploadsInv, Shape, SessionShape, Status
    <2>3. comp' \in [Completers -> CompState] /\ cli' \in CliState
      BY DEF UploadsInv, Shape, SessionShape, CompState, CliState
    <2>4. clean' \in BOOLEAN
      BY DEF UploadsInv, Shape, SessionShape
    <2> QED
      BY <2>2, <2>3, <2>4 DEF UploadsInv, Shape, SessionShape
  <1>2. StoreShape'
    BY DEF UploadsInv, Shape, StoreShape, store
  <1>3. HistShape'
    <2>1. comp[c].content \in {"good", "bad"}
      BY DEF UploadsInv, Shape, SessionShape, CompState
    <2>2. faults' \in 0 .. MaxFaults
      BY DEF UploadsInv, Shape, HistShape, Fault
    <2>3. CASE hist' = hist
      BY <2>2, <2>3 DEF UploadsInv, Shape, HistShape
    <2>4. CASE hist' = [hist EXCEPT !.answers = @ \cup {comp[c].content},
                                    !.told = @ \cup {"session"}]
      BY <2>1, <2>2, <2>4 DEF UploadsInv, Shape, HistShape
    <2> QED
      BY <2>3, <2>4
  <1>4. Verified'
    <2>1. comp[c].content = "good"
      BY DEF UploadsInv, Verified
    <2>2. hist'.answers \subseteq {"good"}
      <3>1. CASE hist' = hist
        BY <3>1 DEF UploadsInv, Verified
      <3>2. CASE hist' = [hist EXCEPT !.answers = @ \cup {comp[c].content},
                                      !.told = @ \cup {"session"}]
        <4>1. hist'.answers = hist.answers \cup {"good"}
          BY <2>1, <3>2 DEF UploadsInv, Shape, HistShape
        <4> QED
          BY <4>1 DEF UploadsInv, Verified
      <3> QED
        BY <3>1, <3>2
    <2>3. sess'.status = "completed" => sess'.file = "good"
      BY <2>1 DEF UploadsInv, Shape, SessionShape, Status, Verified
    <2> QED
      BY <2>2, <2>3 DEF UploadsInv, Shape, SessionShape, CompState, Verified
  <1>5. Guarded'
    BY DEF UploadsInv, Shape, HistShape, Guarded, store
  <1> QED
    BY <1>1, <1>2, <1>3, <1>4, <1>5 DEF UploadsInv, Shape

-----------------------------------------------------------------------------
(* Cancelling, cleaning up, expiring, and a crash.                         *)

(* CancelChunkUpload ends the session; nothing was assembled by it. *)
LEMMA CancelChunkUploadStep ==
    ASSUME UploadsInv, CancelChunkUpload
    PROVE  UploadsInv'
  <1> USE DEF CancelChunkUpload
  <1>1. SessionShape'
    BY DEF UploadsInv, Shape, SessionShape, UpState, CompState, CliState, Status,
       Bodies, NoRequest, Fault
  <1>2. StoreShape'
    BY DEF UploadsInv, Shape, StoreShape, store
  <1>3. HistShape'
    BY DEF UploadsInv, Shape, SessionShape, CompState, HistShape, Fault
  <1>4. Verified'
    BY DEF UploadsInv, Shape, HistShape, Verified, session
  <1>5. Guarded'
    BY DEF UploadsInv, Shape, HistShape, Guarded, store
  <1> QED
    BY <1>1, <1>2, <1>3, <1>4, <1>5 DEF UploadsInv, Shape

(* Also a completed session may become cancelled; its file stays what it was. *)
LEMMA CancelUploadSessionStep ==
    ASSUME UploadsInv, CancelUploadSession
    PROVE  UploadsInv'
  <1> USE DEF CancelUploadSession
  <1>1. SessionShape'
    BY DEF UploadsInv, Shape, SessionShape, UpState, CompState, CliState, Status,
       Bodies, NoRequest, Fault
  <1>2. StoreShape'
    BY DEF UploadsInv, Shape, StoreShape, store
  <1>3. HistShape'
    BY DEF UploadsInv, Shape, SessionShape, CompState, HistShape, Fault
  <1>4. Verified'
    BY DEF UploadsInv, Shape, SessionShape, CompState, Status, HistShape, Verified,
       NoRequest
  <1>5. Guarded'
    BY DEF UploadsInv, Shape, HistShape, Guarded, store
  <1> QED
    BY <1>1, <1>2, <1>3, <1>4, <1>5 DEF UploadsInv, Shape

(* The cleanup goroutine removes the chunk files. *)
LEMMA DeleteChunkDirectoryStep ==
    ASSUME UploadsInv, DeleteChunkDirectory
    PROVE  UploadsInv'
  <1> USE DEF DeleteChunkDirectory, NoChunks
  <1>1. SessionShape'
    BY DEF UploadsInv, Shape, SessionShape, UpState, CompState, CliState, Status,
       Bodies, NoRequest, Fault
  <1>2. StoreShape'
    BY DEF UploadsInv, Shape, StoreShape, store
  <1>3. HistShape'
    BY DEF UploadsInv, Shape, SessionShape, CompState, HistShape, Fault
  <1>4. Verified'
    BY DEF UploadsInv, Shape, HistShape, Verified, session
  <1>5. Guarded'
    BY DEF UploadsInv, Shape, HistShape, Guarded, store
  <1> QED
    BY <1>1, <1>2, <1>3, <1>4, <1>5 DEF UploadsInv, Shape

(* ... or fails to. *)
LEMMA DeleteChunkDirectoryFailsStep ==
    ASSUME UploadsInv, DeleteChunkDirectoryFails
    PROVE  UploadsInv'
  <1> USE DEF DeleteChunkDirectoryFails, SomeChunksStay
  <1>1. SessionShape'
    <2>1. PICK left \in SUBSET Chunks :
            chunk' = [i \in Chunks |-> IF i \in left THEN chunk[i] ELSE "none"]
      OBVIOUS
    <2>2. chunk' \in [Chunks -> {"none", "good", "changed", "torn"}]
      BY <2>1 DEF UploadsInv, Shape, SessionShape
    <2> QED
      BY <2>2 DEF UploadsInv, Shape, SessionShape
  <1>2. StoreShape'
    BY DEF UploadsInv, Shape, StoreShape, store
  <1>3. HistShape'
    <2>1. hist' \in [answers : SUBSET {"none", "good", "bad"}, told : SUBSET {"session", "plain"},
                    withdrawn : BOOLEAN, stray : BOOLEAN]
      BY DEF UploadsInv, Shape, HistShape
    <2>2. faults' \in 0 .. MaxFaults
      BY CountsAssumption DEF UploadsInv, Shape, HistShape, Fault
    <2> QED
      BY <2>1, <2>2 DEF HistShape
  <1>4. Verified'
    BY DEF UploadsInv, Shape, HistShape, Verified, session
  <1>5. Guarded'
    BY DEF UploadsInv, Shape, HistShape, Guarded, store
  <1> QED
    BY <1>1, <1>2, <1>3, <1>4, <1>5 DEF UploadsInv, Shape

(* The expiry sweep lists the sessions that ran out. *)
LEMMA ExpireUploadSessionsStep ==
    ASSUME UploadsInv, ExpireUploadSessions
    PROVE  UploadsInv'
  <1> USE DEF ExpireUploadSessions
  <1>1. SessionShape'
    BY DEF UploadsInv, Shape, SessionShape, UpState, CompState, CliState, Status,
       Bodies, NoRequest, Fault
  <1>2. StoreShape'
    BY DEF UploadsInv, Shape, StoreShape, store
  <1>3. HistShape'
    BY DEF UploadsInv, Shape, SessionShape, CompState, HistShape, Fault
  <1>4. Verified'
    BY DEF UploadsInv, Shape, SessionShape, CompState, Status, HistShape, Verified,
       NoRequest
  <1>5. Guarded'
    BY DEF UploadsInv, Shape, HistShape, Guarded, store
  <1> QED
    BY <1>1, <1>2, <1>3, <1>4, <1>5 DEF UploadsInv, Shape

(* The expiry sweep removes a session and its chunks. *)
LEMMA DeleteExpiredStep ==
    ASSUME UploadsInv, DeleteExpired
    PROVE  UploadsInv'
  <1> USE DEF DeleteExpired, NoChunks
  <1>1. SessionShape'
    BY DEF UploadsInv, Shape, SessionShape, UpState, CompState, CliState, Status,
       Bodies, NoRequest, Fault
  <1>2. StoreShape'
    BY DEF UploadsInv, Shape, StoreShape, store
  <1>3. HistShape'
    BY DEF UploadsInv, Shape, SessionShape, CompState, HistShape, Fault
  <1>4. Verified'
    BY DEF UploadsInv, Shape, SessionShape, CompState, Status, HistShape, Verified,
       NoRequest
  <1>5. Guarded'
    BY DEF UploadsInv, Shape, HistShape, Guarded, store
  <1> QED
    BY <1>1, <1>2, <1>3, <1>4, <1>5 DEF UploadsInv, Shape

(* ... or fails to. *)
LEMMA DeleteExpiredFailsStep ==
    ASSUME UploadsInv, DeleteExpiredFails
    PROVE  UploadsInv'
  <1> USE DEF DeleteExpiredFails, SomeChunksStay
  <1>1. SessionShape'
    BY DEF UploadsInv, Shape, SessionShape, UpState, CompState, CliState, Status,
       Bodies, NoRequest, Fault
  <1>2. StoreShape'
    BY DEF UploadsInv, Shape, StoreShape, store
  <1>3. HistShape'
    BY DEF UploadsInv, Shape, SessionShape, CompState, HistShape, Fault
  <1>4. Verified'
    BY DEF UploadsInv, Shape, SessionShape, CompState, Status, HistShape, Verified,
       NoRequest
  <1>5. Guarded'
    BY DEF UploadsInv, Shape, HistShape, Guarded, store
  <1> QED
    BY <1>1, <1>2, <1>3, <1>4, <1>5 DEF UploadsInv, Shape

(* Requests and goroutines are gone; a submission that only touched its file never was. *)
LEMMA CrashStep ==
    ASSUME UploadsInv, Crash
    PROVE  UploadsInv'
  <1> USE DEF Crash
  <1>1. SessionShape'
    BY RetriedType DEF UploadsInv, Shape, SessionShape, UpState, CompState, CliState,
       Status, Bodies, NoRequest, Fault
  <1>2. StoreShape'
    BY DEF UploadsInv, Shape, StoreShape, SweepState, NoRequest, Used, NoBlob, Fault
  <1>3. HistShape'
    BY DEF UploadsInv, Shape, SessionShape, CompState, HistShape, Fault
  <1>4. Verified'
    BY DEF UploadsInv, Shape, SessionShape, CompState, Status, HistShape, Verified,
       NoRequest
  <1>5. Guarded'
    BY DEF UploadsInv, Shape, StoreShape, HistShape, SweepState, Guarded, NoRequest,
       Used, NoBlob
  <1> QED
    BY <1>1, <1>2, <1>3, <1>4, <1>5 DEF UploadsInv, Shape

-----------------------------------------------------------------------------
(* The store: uploads, submissions, jobs and the sweep.                    *)

(* A plain upload makes the blob young. *)
LEMMA UploadStep ==
    ASSUME UploadsInv, Upload
    PROVE  UploadsInv'
  <1> USE DEF Upload
  <1>1. SessionShape'
    BY DEF UploadsInv, Shape, SessionShape, session
  <1>2. StoreShape'
    BY DEF UploadsInv, Shape, StoreShape, SweepState, NoRequest, Used, NoBlob, Fault
  <1>3. HistShape'
    BY DEF UploadsInv, Shape, SessionShape, CompState, HistShape, Fault
  <1>4. Verified'
    BY DEF UploadsInv, Shape, HistShape, Verified, session
  <1>5. Guarded'
    BY DEF UploadsInv, Shape, StoreShape, HistShape, SweepState, Guarded, NoRequest,
       Used, NoBlob
  <1> QED
    BY <1>1, <1>2, <1>3, <1>4, <1>5 DEF UploadsInv, Shape

(* TouchFile makes the blob young. *)
LEMMA SubmitJobStep ==
    ASSUME UploadsInv, SubmitJob
    PROVE  UploadsInv'
  <1> USE DEF SubmitJob
  <1>1. SessionShape'
    BY DEF UploadsInv, Shape, SessionShape, session
  <1>2. StoreShape'
    BY DEF UploadsInv, Shape, StoreShape, SweepState, NoRequest, Used, NoBlob, Fault
  <1>3. HistShape'
    BY DEF UploadsInv, Shape, SessionShape, CompState, HistShape, Fault
  <1>4. Verified'
    BY DEF UploadsInv, Shape, HistShape, Verified, session
  <1>5. Guarded'
    BY DEF UploadsInv, Shape, StoreShape, HistShape, SweepState, Guarded, NoRequest,
       Used, NoBlob
  <1> QED
    BY <1>1, <1>2, <1>3, <1>4, <1>5 DEF UploadsInv, Shape

(* The blob is as young as TouchFile left it: no time passes in between. *)
LEMMA CreateJobStep ==
    ASSUME UploadsInv, CreateJob
    PROVE  UploadsInv'
  <1> USE DEF CreateJob
  <1>1. SessionShape'
    BY DEF UploadsInv, Shape, SessionShape, session
  <1>2. StoreShape'
    BY DEF UploadsInv, Shape, StoreShape, SweepState, NoRequest, Used, NoBlob, Fault
  <1>3. HistShape'
    BY DEF UploadsInv, Shape, SessionShape, CompState, HistShape, Fault
  <1>4. Verified'
    BY DEF UploadsInv, Shape, HistShape, Verified, session
  <1>5. Guarded'
    BY DEF UploadsInv, Shape, StoreShape, HistShape, SweepState, Guarded, NoRequest,
       Used, NoBlob
  <1> QED
    BY <1>1, <1>2, <1>3, <1>4, <1>5 DEF UploadsInv, Shape

(* A job reads its input, which is there. *)
LEMMA DownloadFileStep ==
    ASSUME UploadsInv, DownloadFile
    PROVE  UploadsInv'
  <1> USE DEF DownloadFile
  <1>1. SessionShape'
    BY DEF UploadsInv, Shape, SessionShape, session
  <1>2. StoreShape'
    BY DEF UploadsInv, Shape, StoreShape, SweepState, NoRequest, Used, NoBlob, Fault
  <1>3. HistShape'
    BY DEF UploadsInv, Shape, SessionShape, CompState, HistShape, Fault
  <1>4. Verified'
    BY DEF UploadsInv, Shape, HistShape, Verified, session
  <1>5. Guarded'
    BY DEF UploadsInv, Shape, StoreShape, HistShape, SweepState, Guarded, NoRequest,
       Used, NoBlob
  <1> QED
    BY <1>1, <1>2, <1>3, <1>4, <1>5 DEF UploadsInv, Shape

(* A job ends and no longer needs its input. *)
LEMMA JobEndsStep ==
    ASSUME UploadsInv, JobEnds
    PROVE  UploadsInv'
  <1> USE DEF JobEnds
  <1>1. SessionShape'
    BY DEF UploadsInv, Shape, SessionShape, session
  <1>2. StoreShape'
    BY DEF UploadsInv, Shape, StoreShape, SweepState, NoRequest, Used, NoBlob, Fault
  <1>3. HistShape'
    BY DEF UploadsInv, Shape, SessionShape, CompState, HistShape, Fault
  <1>4. Verified'
    BY DEF UploadsInv, Shape, HistShape, Verified, session
  <1>5. Guarded'
    BY DEF UploadsInv, Shape, StoreShape, HistShape, SweepState, Guarded, NoRequest,
       Used, NoBlob
  <1> QED
    BY <1>1, <1>2, <1>3, <1>4, <1>5 DEF UploadsInv, Shape

(* A sweep that does not see the job's row starts before it or while the blob is young. *)
LEMMA CleanupOnceStep ==
    ASSUME UploadsInv, CleanupOnce
    PROVE  UploadsInv'
  <1> USE DEF CleanupOnce
  <1>1. SessionShape'
    BY DEF UploadsInv, Shape, SessionShape, session
  <1>2. StoreShape'
    BY DEF UploadsInv, Shape, StoreShape, SweepState, NoRequest, Used, NoBlob, Fault
  <1>3. HistShape'
    BY DEF UploadsInv, Shape, SessionShape, CompState, HistShape, Fault
  <1>4. Verified'
    BY DEF UploadsInv, Shape, HistShape, Verified, session
  <1>5. Guarded'
    BY DEF UploadsInv, Shape, StoreShape, HistShape, SweepState, Guarded, NoRequest,
       Used, NoBlob
  <1> QED
    BY <1>1, <1>2, <1>3, <1>4, <1>5 DEF UploadsInv, Shape

(* The input cleaner lists the files that are old enough. *)
LEMMA ListFilesStep ==
    ASSUME UploadsInv, ListFiles
    PROVE  UploadsInv'
  <1> USE DEF ListFiles
  <1>1. SessionShape'
    BY DEF UploadsInv, Shape, SessionShape, session
  <1>2. StoreShape'
    BY DEF UploadsInv, Shape, StoreShape, SweepState, NoRequest, Used, NoBlob, Fault
  <1>3. HistShape'
    BY DEF UploadsInv, Shape, SessionShape, CompState, HistShape, Fault
  <1>4. Verified'
    BY DEF UploadsInv, Shape, HistShape, Verified, session
  <1>5. Guarded'
    BY DEF UploadsInv, Shape, StoreShape, HistShape, SweepState, Guarded, NoRequest,
       Used, NoBlob
  <1> QED
    BY <1>1, <1>2, <1>3, <1>4, <1>5 DEF UploadsInv, Shape

(* A young blob is not deleted: the TTL is at least one tick. *)
LEMMA DeleteOldStep ==
    ASSUME UploadsInv, DeleteOld
    PROVE  UploadsInv'
  <1> USE DEF DeleteOld
  <1>1. SessionShape'
    BY DEF UploadsInv, Shape, SessionShape, session
  <1>2. StoreShape'
    BY DEF UploadsInv, Shape, StoreShape, SweepState, NoRequest, Used, NoBlob, Fault
  <1>3. HistShape'
    BY DEF UploadsInv, Shape, SessionShape, CompState, HistShape, Fault
  <1>4. Verified'
    BY DEF UploadsInv, Shape, HistShape, Verified, session
  <1>5. Guarded'
    BY DEF UploadsInv, Shape, StoreShape, HistShape, SweepState, Guarded, NoRequest,
       Used, NoBlob
  <1> QED
    BY <1>1, <1>2, <1>3, <1>4, <1>5 DEF UploadsInv, Shape

(* No time passes during a sweep or a submission. *)
LEMMA TickStep ==
    ASSUME UploadsInv, Tick
    PROVE  UploadsInv'
  <1> USE DEF Tick
  <1>1. SessionShape'
    BY DEF UploadsInv, Shape, SessionShape, session
  <1>2. StoreShape'
    BY DEF UploadsInv, Shape, StoreShape, SweepState, NoRequest, Used, NoBlob, Fault
  <1>3. HistShape'
    BY DEF UploadsInv, Shape, SessionShape, CompState, HistShape, Fault
  <1>4. Verified'
    BY DEF UploadsInv, Shape, HistShape, Verified, session
  <1>5. Guarded'
    BY DEF UploadsInv, Shape, StoreShape, HistShape, SweepState, Guarded, NoRequest,
       Used, NoBlob
  <1> QED
    BY <1>1, <1>2, <1>3, <1>4, <1>5 DEF UploadsInv, Shape

-----------------------------------------------------------------------------
(* The invariant and what follows from it.                                 *)

(* Every step keeps the invariant. *)
LEMMA UploadsStep == UploadsInv /\ [Next]_vars => UploadsInv'
  <1> SUFFICES ASSUME UploadsInv, [Next]_vars PROVE UploadsInv'
    OBVIOUS
  <1>1. CASE UNCHANGED vars
    BY <1>1 DEF UploadsInv, Shape, SessionShape, StoreShape, HistShape, Verified,
       Guarded, vars, session, store
  <1>2. ASSUME NEW r \in Senders, SendChunk(r) \/ Chunking(r) PROVE UploadsInv'
    BY <1>2, SendChunkStep, CheckChunkStep, SaveChunkStep, SaveChunkFailsStep,
       RecordChunkStep, RecordChunkFailsStep DEF Chunking
  <1>3. ASSUME NEW c \in Completers, BeginComplete(c) \/ Completing(c) PROVE UploadsInv'
    BY <1>3, BeginCompleteStep, ClaimUploadSessionAssemblyStep, AssembleChunksStep,
       AssembleFailsStep, StatBlobStep, RenameBlobStep, CreateFileStep,
       CreateFileFailsStep, CompleteUploadSessionStep DEF Completing
  <1> QED
    BY <1>1, <1>2, <1>3, InitChunkUploadStep, ChunkTimesOutStep,
       CancelChunkUploadStep, CancelUploadSessionStep, DeleteChunkDirectoryStep,
       DeleteChunkDirectoryFailsStep, DeleteExpiredFailsStep,
       ExpireUploadSessionsStep, DeleteExpiredStep, CrashStep, UploadStep,
       SubmitJobStep, CreateJobStep, DownloadFileStep, JobEndsStep, CleanupOnceStep,
       ListFilesStep, DeleteOldStep, TickStep DEF Next

(* The inductive invariant holds in every reachable state. *)
LEMMA UploadsInvariance == Spec => []UploadsInv
  BY UploadsInit, UploadsStep, PTL DEF Spec

(* Every request, session and file is in one of the states the handlers     *)
(* know; a client's position and tries stay within the file and the limit.  *)
THEOREM UploadsTypeCorrect == Spec => []TypeOK
  <1>1. UploadsInv => TypeOK
    BY DEF UploadsInv, Shape, SessionShape, StoreShape, HistShape, UpState, CompState, CliState,
           SweepState, Status, NoRequest, TypeOK
  <1> QED
    BY <1>1, UploadsInvariance, PTL

(* Every completion answered with a file named the one the client meant,   *)
(* whatever chunk requests were lost, repeated, late or damaged            *)
(* (CompleteChunkUpload).                                                  *)
THEOREM OnlyVerifiedFiles == Spec => []AnswersAreTheFile
  <1>1. UploadsInv => AnswersAreTheFile
    BY DEF UploadsInv, Verified, AnswersAreTheFile
  <1> QED
    BY <1>1, UploadsInvariance, PTL

(* InputFileCleaner never takes the input of an active job: TouchFile      *)
(* before the row, and the second look at the age, close the window        *)
(* between the sweep's read of the jobs and its deletion.                  *)
THEOREM InputsSurviveTheSweep == Spec => []InputKept
  <1>1. UploadsInv => InputKept
    BY DEF UploadsInv, Guarded, InputKept
  <1> QED
    BY <1>1, UploadsInvariance, PTL

=============================================================================
