---------------------------- MODULE WorkerCache ----------------------------
(***************************************************************************)
(* The output cache of one worker: the files it keeps on disk, the LRU     *)
(* list and the byte count it keeps in memory, the jobs that look outputs  *)
(* up and store them, the two eviction loops, and a process that may die   *)
(* inside a Put and rebuild its books from the directory when it returns.  *)
(*                                                                         *)
(* Cache.mu serialises every operation, so a Put that holds it ("put")     *)
(* excludes the others; what interleaves is the crash, the clock, and the  *)
(* use a job makes of a path after Check released the lock.                *)
(***************************************************************************)
EXTENDS Integers, FiniteSets

CONSTANTS
    Keys,       \* cache keys: hashes of inputs, arguments and encoder
    UrlKeys,    \* the keys with a URL among their inputs
    Slots,      \* jobs the worker runs at once
    Sizes,      \* bytes an output may have
    MaxSize,    \* MaxSizeBytes
    TTL,        \* in ticks of the clock
    URLTTL,
    StaleAge,   \* staleTempFileAge
    MaxFaults   \* bound on crashes and failed calls

VARIABLES
    alive,      \* the worker process runs
    file,       \* per key, the data file
    tmp,        \* per key, the ".tmp" file, with its age
    meta,       \* per key, the ".meta" file, with the age of CreatedAt
    lru,        \* per key, the size of its lruTracker entry; 0 without one
    older,      \* the pairs of entries in the order of their LastUsed
    total,      \* stats.CurrentSizeBytes
    count,      \* stats.EntryCount
    request,    \* evictCh holds a request
    put,        \* the Put that holds Cache.mu
    job,        \* per slot, how far its job is with the cache
    torn,       \* some Put stopped between its rename and its metadata (history)
    faults

disk == <<file, tmp, meta>>
books == <<lru, older, total, count, request>>
vars == <<alive, disk, books, put, job, torn, faults>>

ASSUME SizesAssumption == Sizes \subseteq Nat \ {0} /\ MaxSize \in Nat
ASSUME AgesAssumption ==
    TTL \in Nat /\ URLTTL \in Nat /\ StaleAge \in Nat /\ MaxFaults \in Nat
ASSUME KeysAssumption == IsFiniteSet(Keys) /\ UrlKeys \subseteq Keys

(* Ages stop counting once they exceed every limit. *)
Horizon ==
    CHOOSE h \in {1 + TTL, 1 + URLTTL, 1 + StaleAge} : h > TTL /\ h > URLTTL /\ h > StaleAge

NoFile == [size |-> 0, whole |-> FALSE]
NoTmp == [size |-> 0, whole |-> FALSE, age |-> 0]
NoMeta == [kind |-> "none", size |-> 0, age |-> 0]

(* What a write that stopped in the middle of the JSON leaves behind. *)
CorruptMeta == [kind |-> "corrupt", size |-> 0, age |-> 0]

Free == [pc |-> "free"]
NoJob == [pc |-> "idle"]

Init ==
    /\ alive = TRUE
    /\ file = [k \in Keys |-> NoFile]
    /\ tmp = [k \in Keys |-> NoTmp]
    /\ meta = [k \in Keys |-> NoMeta]
    /\ lru = [k \in Keys |-> 0]
    /\ older = {}
    /\ total = 0
    /\ count = 0
    /\ request = FALSE
    /\ put = Free
    /\ job = [s \in Slots |-> NoJob]
    /\ torn = FALSE
    /\ faults = 0

-----------------------------------------------------------------------------
(* Helpers *)

Clamped(n) == IF n < 0 THEN 0 ELSE n

entryTTL(k) == IF k \in UrlKeys THEN URLTTL ELSE TTL

Expired(k) == meta[k].kind = "ok" /\ meta[k].age > entryTTL(k)

Tracked == {k \in Keys : lru[k] > 0}

(* The bytes the keys of K have together: one for each position in a file. *)
Bytes(size, K) == Cardinality(UNION {{k} \X (1 .. size[k]) : k \in K})

FileSize == [k \in Keys |-> file[k].size]
TmpSize == [k \in Keys |-> tmp[k].size]
MetaSize == [k \in Keys |-> meta[k].size]

(* A strict total order of the entries K. *)
Orders(K) ==
    {o \in SUBSET (K \X K) :
        /\ \A j \in K : <<j, j>> \notin o
        /\ \A j, k \in K : j # k => (<<j, k>> \in o <=> <<k, j>> \notin o)
        /\ \A i, j, k \in K : <<i, j>> \in o /\ <<j, k>> \in o => <<i, k>> \in o}

(* lruTracker.add: the entry becomes the most recently used one. *)
add(k, n) ==
    /\ lru' = [lru EXCEPT ![k] = n]
    /\ older' = {p \in older : p[1] # k /\ p[2] # k} \cup {<<j, k>> : j \in Tracked \ {k}}

touch(k) == IF k \in Tracked THEN add(k, lru[k]) ELSE UNCHANGED <<lru, older>>

(* removeEntry for every key of K, which are charged "bytes" together:     *)
(* files and entry go, the counters never drop below zero.                 *)
removeEntries(K, bytes) ==
    /\ file' = [k \in Keys |-> IF k \in K THEN NoFile ELSE file[k]]
    /\ meta' = [k \in Keys |-> IF k \in K THEN NoMeta ELSE meta[k]]
    /\ lru' = [k \in Keys |-> IF k \in K THEN 0 ELSE lru[k]]
    /\ older' = {p \in older : p[1] \notin K /\ p[2] \notin K}
    /\ total' = Clamped(total - bytes)
    /\ count' = Clamped(count - Cardinality(K))

Fault == faults < MaxFaults /\ faults' = faults + 1

Unlocked == alive /\ put = Free

-----------------------------------------------------------------------------
(* Jobs *)

Present(k) == file[k].size > 0

Usable(k) ==
    /\ Present(k)
    /\ meta[k].kind = "ok"
    /\ ~Expired(k)
    /\ file[k].size = meta[k].size

(* An entry that Check finds expired or of the wrong size is evicted. *)
Check(s, k) ==
    /\ Unlocked
    /\ job[s].pc = "idle"
    /\ IF Present(k) /\ meta[k].kind = "ok" /\ ~Usable(k)
       THEN removeEntries({k}, meta[k].size)
       ELSE UNCHANGED <<file, meta, lru, older, total, count>>
    /\ job' = [job EXCEPT ![s] = [pc |-> IF Usable(k) THEN "hit" ELSE "miss", key |-> k]]
    /\ UNCHANGED <<alive, tmp, request, put, torn, faults>>

(* The job copies the cached file without the lock: it may be gone by now, *)
(* in which case the job transcodes after all.                             *)
CopyOut(s) ==
    /\ alive
    /\ job[s].pc = "hit"
    /\ job' = [job EXCEPT ![s] =
                 IF Present(job[s].key)
                 THEN [pc |-> "copied", key |-> job[s].key, whole |-> file[job[s].key].whole]
                 ELSE [pc |-> "miss", key |-> job[s].key]]
    /\ UNCHANGED <<alive, disk, books, put, torn, faults>>

(* The upload of the copy failed, or the target exists and -y was not      *)
(* given: the hit is degraded to a miss.                                   *)
Degrade(s) ==
    /\ alive
    /\ job[s].pc \in {"hit", "copied"}
    /\ job' = [job EXCEPT ![s] = [pc |-> "miss", key |-> job[s].key]]
    /\ UNCHANGED <<alive, disk, books, put, torn, faults>>

ConfirmHit(s) ==
    /\ Unlocked
    /\ job[s].pc = "copied"
    /\ touch(job[s].key)
    /\ job' = [job EXCEPT ![s] = NoJob]
    /\ UNCHANGED <<alive, disk, total, count, request, put, torn, faults>>

(* The transcode of a miss failed, or its output is not cacheable. *)
Abandon(s) ==
    /\ alive
    /\ job[s].pc = "miss"
    /\ job' = [job EXCEPT ![s] = NoJob]
    /\ UNCHANGED <<alive, disk, books, put, torn, faults>>

-----------------------------------------------------------------------------
(* Put *)

PutBeginKeepsTmp(s, n) ==
    /\ Unlocked
    /\ job[s].pc = "miss"
    /\ put' = [pc |-> "copy", slot |-> s, key |-> job[s].key, size |-> n]
    /\ UNCHANGED <<alive, disk, books, job, torn, faults>>

(* The bytes of a leftover .tmp are released before the copy truncates it. *)
PutBegin(s, n) ==
    /\ Unlocked
    /\ job[s].pc = "miss"
    /\ total' = Clamped(total - tmp[job[s].key].size)
    /\ put' = [pc |-> "copy", slot |-> s, key |-> job[s].key, size |-> n]
    /\ UNCHANGED <<alive, disk, lru, older, count, request, job, torn, faults>>

(* The call returns, with or without an error, and releases the lock. *)
Returns ==
    /\ put' = Free
    /\ job' = [job EXCEPT ![put.slot] = NoJob]

PutCopy ==
    /\ alive
    /\ put.pc = "copy"
    /\ tmp' = [tmp EXCEPT ![put.key] = [size |-> put.size, whole |-> TRUE, age |-> 0]]
    /\ put' = [put EXCEPT !.pc = "rename"]
    /\ UNCHANGED <<alive, file, meta, books, job, torn, faults>>

(* The copy or the rename failed: the temporary file is removed. *)
PutCopyFails ==
    /\ alive
    /\ put.pc \in {"copy", "rename"}
    /\ Fault
    /\ tmp' = [tmp EXCEPT ![put.key] = NoTmp]
    /\ Returns
    /\ UNCHANGED <<alive, file, meta, books, torn>>

PutRename ==
    /\ alive
    /\ put.pc = "rename"
    /\ file' = [file EXCEPT ![put.key] =
                  [size |-> tmp[put.key].size, whole |-> tmp[put.key].whole]]
    /\ tmp' = [tmp EXCEPT ![put.key] = NoTmp]
    /\ put' = [put EXCEPT !.pc = "meta"]
    /\ UNCHANGED <<alive, meta, books, job, torn, faults>>

(* The metadata is written, the size the LRU list had for the key is       *)
(* swapped for the new one, and the eviction loop is asked to look.        *)
PutFinish ==
    /\ alive
    /\ put.pc = "meta"
    /\ meta' = [meta EXCEPT ![put.key] = [kind |-> "ok", size |-> put.size, age |-> 0]]
    /\ IF put.key \in Tracked
       THEN total' = total - lru[put.key] + put.size /\ UNCHANGED count
       ELSE total' = total + put.size /\ count' = count + 1
    /\ add(put.key, put.size)
    /\ request' = TRUE
    /\ Returns
    /\ UNCHANGED <<alive, file, tmp, torn, faults>>

(* saveMeta failed, before or after it truncated the old metadata: the     *)
(* data file is removed, the books stay as they are.                       *)
PutMetaFails ==
    /\ alive
    /\ put.pc = "meta"
    /\ Fault
    /\ file' = [file EXCEPT ![put.key] = NoFile]
    /\ \/ UNCHANGED meta
       \/ meta' = [meta EXCEPT ![put.key] = CorruptMeta]
    /\ Returns
    /\ torn' = TRUE
    /\ UNCHANGED <<alive, tmp, books>>

-----------------------------------------------------------------------------
(* Eviction *)

evictExpiredOnly ==
    /\ Unlocked
    /\ \E k \in Keys : Expired(k)
    /\ LET old == {k \in Keys : Expired(k)}
       IN removeEntries(old, Bytes(FileSize, old))
    /\ UNCHANGED <<alive, tmp, request, put, job, torn, faults>>

(* runTTLEviction: every expired entry goes, charged with the size its     *)
(* file has on disk, and so do the temporary files older than a copy.      *)
evictExpired ==
    /\ Unlocked
    /\ LET old == {k \in Keys : Expired(k)}
           stale == {k \in Keys : tmp[k].size > 0 /\ tmp[k].age >= StaleAge}
       IN /\ old \cup stale # {}
          /\ removeEntries(old, Bytes(FileSize, old) + Bytes(TmpSize, stale))
          /\ tmp' = [k \in Keys |-> IF k \in stale THEN NoTmp ELSE tmp[k]]
    /\ UNCHANGED <<alive, request, put, job, torn, faults>>

(* Some of the entries, none without all those used before it. *)
OldestFirst == {V \in SUBSET Tracked : \A k \in V, j \in Tracked : <<j, k>> \in older => j \in V}

(* The loop removes the oldest entry until it is within the budget or no   *)
(* entry is left.                                                          *)
EvictLRU ==
    \E V \in OldestFirst :
        /\ V = Tracked \/ total - Bytes(lru, V) <= MaxSize
        /\ \A W \in OldestFirst : W \subseteq V /\ W # V => total - Bytes(lru, W) > MaxSize
        /\ removeEntries(V, Bytes(lru, V))

(* runLRUEviction takes the request of a Put, or makes its initial pass... *)
evictLRUIfNeeded ==
    /\ Unlocked
    /\ request
    /\ request' = FALSE
    /\ EvictLRU
    /\ UNCHANGED <<alive, tmp, put, job, torn, faults>>

(* ... or its ticker fires. *)
LRUTick ==
    /\ Unlocked
    /\ total > MaxSize
    /\ EvictLRU
    /\ UNCHANGED <<alive, tmp, request, put, job, torn, faults>>

-----------------------------------------------------------------------------
(* The process and the clock *)

(* The process dies.  A copy under way leaves the old temporary file or    *)
(* part of the new one; a metadata write leaves the old file or a broken   *)
(* one.                                                                    *)
Crash ==
    /\ alive
    /\ Fault
    /\ alive' = FALSE
    /\ \/ put.pc # "copy" /\ UNCHANGED tmp
       \/ /\ put.pc = "copy"
          /\ \/ UNCHANGED tmp
             \/ \E n \in 0 .. put.size - 1 :
                  tmp' = [tmp EXCEPT ![put.key] = [size |-> n, whole |-> FALSE, age |-> 0]]
    /\ \/ UNCHANGED meta
       \/ put.pc = "meta" /\ meta' = [meta EXCEPT ![put.key] = CorruptMeta]
    /\ torn' = (torn \/ put.pc = "meta")
    /\ lru' = [k \in Keys |-> 0]
    /\ older' = {}
    /\ total' = 0
    /\ count' = 0
    /\ request' = FALSE
    /\ put' = Free
    /\ job' = [s \in Slots |-> NoJob]
    /\ UNCHANGED file

scanExistingAdopts ==
    /\ ~alive
    /\ alive' = TRUE
    /\ LET found == {k \in Keys : tmp[k].size > 0 \/ (meta[k].kind = "ok" /\ Present(k))}
           size == [k \in Keys |-> IF tmp[k].size > 0 THEN tmp[k].size ELSE meta[k].size]
       IN /\ lru' = [k \in Keys |-> IF k \in found THEN size[k] ELSE 0]
          /\ older' \in Orders(found)
          /\ total' = Bytes(size, found)
          /\ count' = Cardinality(found)
          /\ meta' = [k \in Keys |-> IF tmp[k].size > 0
                                     THEN [kind |-> "ok", size |-> size[k], age |-> 0]
                                     ELSE meta[k]]
          /\ file' = [k \in Keys |-> IF tmp[k].size > 0
                                     THEN [size |-> tmp[k].size, whole |-> tmp[k].whole]
                                     ELSE file[k]]
    /\ tmp' = [k \in Keys |-> NoTmp]
    /\ request' = TRUE
    /\ UNCHANGED <<put, job, torn, faults>>

(* NewCache and Start: scanExisting rebuilds the books in the order the    *)
(* directory is walked, drops metadata without a file and old temporary    *)
(* files, counts the young ones, and the LRU loop makes its initial pass.  *)
scanExisting ==
    /\ ~alive
    /\ alive' = TRUE
    /\ LET found == {k \in Keys : meta[k].kind = "ok" /\ Present(k)}
           young == {k \in Keys : tmp[k].size > 0 /\ tmp[k].age <= StaleAge}
       IN /\ lru' = [k \in Keys |-> IF k \in found THEN meta[k].size ELSE 0]
          /\ older' \in Orders(found)
          /\ total' = Bytes(MetaSize, found) + Bytes(TmpSize, young)
          /\ count' = Cardinality(found)
          /\ tmp' = [k \in Keys |-> IF k \in young THEN tmp[k] ELSE NoTmp]
          /\ meta' = [k \in Keys |-> IF meta[k].kind = "ok" /\ ~Present(k)
                                     THEN NoMeta ELSE meta[k]]
    /\ request' = TRUE
    /\ UNCHANGED <<file, put, job, torn, faults>>

Older(age) == IF age < Horizon THEN age + 1 ELSE Horizon

Tick ==
    /\ meta' = [k \in Keys |-> IF meta[k].kind = "ok"
                               THEN [meta[k] EXCEPT !.age = Older(@)] ELSE meta[k]]
    /\ tmp' = [k \in Keys |-> IF tmp[k].size > 0
                              THEN [tmp[k] EXCEPT !.age = Older(@)] ELSE tmp[k]]
    /\ <<meta, tmp>>' # <<meta, tmp>>
    /\ UNCHANGED <<alive, file, books, put, job, torn, faults>>

-----------------------------------------------------------------------------

PutSteps == PutCopy \/ PutCopyFails \/ PutRename \/ PutFinish \/ PutMetaFails

Next ==
    \/ \E s \in Slots :
         \/ \E k \in Keys : Check(s, k)
         \/ CopyOut(s)
         \/ Degrade(s)
         \/ ConfirmHit(s)
         \/ Abandon(s)
         \/ \E n \in Sizes : PutBegin(s, n)
    \/ PutCopy
    \/ PutCopyFails
    \/ PutRename
    \/ PutFinish
    \/ PutMetaFails
    \/ evictExpired
    \/ evictLRUIfNeeded
    \/ LRUTick
    \/ Crash
    \/ scanExisting
    \/ Tick

(* A Put that holds the lock goes on, the TTL scan and the eviction that a *)
(* Put asked for get the mutex in turn (sync.Mutex hands over to a starved *)
(* waiter), and time passes.  The LRU ticker is only a backstop: nothing   *)
(* rests on it.                                                            *)
Fairness ==
    /\ WF_vars(PutSteps)
    /\ SF_vars(evictExpired)
    /\ SF_vars(evictLRUIfNeeded)
    /\ WF_vars(Tick)

Spec == Init /\ [][Next]_vars
FairSpec == Spec /\ Fairness

-----------------------------------------------------------------------------
(* Properties *)

Copies == [size : Nat, whole : BOOLEAN]

TypeOK ==
    /\ alive \in BOOLEAN
    /\ \A k \in Keys :
         /\ file[k] \in Copies
         /\ tmp[k].size \in Nat /\ tmp[k].age \in 0 .. Horizon
         /\ meta[k].kind \in {"none", "ok", "corrupt"}
         /\ meta[k].size \in Nat /\ meta[k].age \in 0 .. Horizon
    /\ lru \in [Keys -> Nat] /\ older \in Orders(Tracked)
    /\ total \in Int
    /\ count \in Nat
    /\ request \in BOOLEAN
    /\ put.pc \in {"free", "copy", "rename", "meta"}
    /\ \A s \in Slots : job[s].pc \in {"idle", "hit", "copied", "miss"}
    /\ torn \in BOOLEAN
    /\ faults \in 0 .. MaxFaults

(* What a job takes from the cache is a whole output: no Put that was      *)
(* interrupted, and no Put, eviction or restart between Check and the copy *)
(* (which run without the lock), makes a hit deliver a part of one.        *)
HitsAreWhole == \A s \in Slots : job[s].pc = "copied" => job[s].whole

(* The books agree with the disk whenever the lock is free: the byte count *)
(* is the sum of the tracked entries and the leftover temporary files, and *)
(* every data file is tracked with the size it has.  Crashes in a copy,    *)
(* restarts, re-cached keys, expiry and eviction keep it; only a Put that  *)
(* stopped between its rename and its metadata may leave a file or a size  *)
(* that the books do not know.                                             *)
BookedExactly ==
    Unlocked /\ ~torn =>
        /\ total = Bytes(lru, Keys) + Bytes(TmpSize, Keys)
        /\ count = Cardinality(Tracked)
        /\ Tracked = {k \in Keys : Present(k)}
        /\ \A k \in Tracked : meta[k].kind = "ok" /\ {file[k].size, meta[k].size} = {lru[k]}

(* A cache over its budget comes back under it, whatever mix of entries    *)
(* and leftovers of crashed copies fills it, unless the worker dies first. *)
BudgetRestored ==
    (alive /\ ~torn /\ total > MaxSize) ~> (~alive \/ torn \/ total <= MaxSize)

=============================================================================
