------------------------- MODULE WorkerCacheProofs -------------------------
(***************************************************************************)
(* Proofs about WorkerCache: what a hit delivers is whole, and the books   *)
(* agree with the disk whenever the lock is free.                          *)
(*                                                                         *)
(* A sum of sizes is the number of cells of the files, so every fact about *)
(* sums below is a fact about the cardinality of a finite set.             *)
(***************************************************************************)
EXTENDS WorkerCache, FiniteSetTheorems, TLAPS

(* The positions of the bytes of the keys of K. *)
Cells(size, K) == UNION {{k} \X (1 .. size[k]) : k \in K}

-----------------------------------------------------------------------------
(* Sums of sizes *)

(* Finitely many files of finite size have finitely many bytes. *)
LEMMA CellsFinite ==
    ASSUME NEW K, IsFiniteSet(K), NEW size, \A k \in K : size[k] \in Nat
    PROVE  IsFiniteSet(Cells(size, K)) /\ Bytes(size, K) \in Nat
<1> DEFINE S == {{k} \X (1 .. size[k]) : k \in K}
<1> DEFINE f == [k \in K |-> {k} \X (1 .. size[k])]
<1>1. f \in Surjection(K, S)
  BY DEF Surjection
<1>2. IsFiniteSet(S)
  BY <1>1, FS_Surjection
<1>3. \A T \in S : IsFiniteSet(T)
  <2> SUFFICES ASSUME NEW k \in K PROVE IsFiniteSet({k} \X (1 .. size[k]))
    OBVIOUS
  <2>1. IsFiniteSet({k})
    BY FS_Singleton
  <2>2. 1 \in Int /\ size[k] \in Int
    OBVIOUS
  <2>3. IsFiniteSet(1 .. size[k])
    BY <2>2, FS_Interval
  <2> QED
    BY <2>1, <2>3, FS_Product
<1>4. IsFiniteSet(UNION S)
  BY <1>2, <1>3, FS_UNION
<1> QED
  BY <1>4, FS_CardinalityType DEF Cells, Bytes

(* One file has as many bytes as its size says. *)
LEMMA BytesOne ==
    ASSUME NEW k, NEW size, size[k] \in Nat
    PROVE  Bytes(size, {k}) = size[k]
<1>1. UNION {{j} \X (1 .. size[j]) : j \in {k}} = {k} \X (1 .. size[k])
  OBVIOUS
<1>2. IsFiniteSet({k}) /\ Cardinality({k}) = 1
  BY FS_Singleton
<1>3. IsFiniteSet(1 .. size[k]) /\ Cardinality(1 .. size[k]) = size[k]
  BY FS_Interval
<1>4. Cardinality({k} \X (1 .. size[k])) = Cardinality({k}) * Cardinality(1 .. size[k])
  BY <1>2, <1>3, FS_Product
<1>5. 1 * size[k] = size[k]
  OBVIOUS
<1> QED
  BY <1>1, <1>2, <1>3, <1>4, <1>5 DEF Bytes

(* A sum splits over two parts of the keys. *)
LEMMA BytesSplit ==
    ASSUME NEW K, IsFiniteSet(K), NEW V \in SUBSET K, NEW size, \A k \in K : size[k] \in Nat
    PROVE  /\ Bytes(size, K) = Bytes(size, V) + Bytes(size, K \ V)
           /\ Bytes(size, V) \in Nat
           /\ Bytes(size, K \ V) \in Nat
           /\ Bytes(size, K) \in Nat
<1>1. IsFiniteSet(V) /\ IsFiniteSet(K \ V)
  BY FS_Subset
<1>2. /\ IsFiniteSet(Cells(size, V)) /\ Bytes(size, V) \in Nat
      /\ IsFiniteSet(Cells(size, K \ V)) /\ Bytes(size, K \ V) \in Nat
      /\ Bytes(size, K) \in Nat
  BY <1>1, CellsFinite
<1>3. Cells(size, K) = Cells(size, V) \cup Cells(size, K \ V)
  BY DEF Cells
<1>4. Cells(size, V) \cap Cells(size, K \ V) = {}
  BY DEF Cells
<1>5. Cardinality(Cells(size, K)) =
        Cardinality(Cells(size, V)) + Cardinality(Cells(size, K \ V)) - Cardinality({})
  BY <1>2, <1>3, <1>4, FS_Union
<1> QED
  BY <1>2, <1>5, FS_EmptySet DEF Bytes, Cells

(* A sum depends on the sizes of its keys only. *)
LEMMA BytesSame ==
    ASSUME NEW K, NEW a, NEW b, \A k \in K : a[k] = b[k]
    PROVE  Bytes(a, K) = Bytes(b, K)
<1>1. Cells(a, K) = Cells(b, K)
  BY DEF Cells
<1> QED
  BY <1>1 DEF Bytes, Cells

(* Keys without bytes add nothing. *)
LEMMA BytesZero ==
    ASSUME NEW K, NEW size, \A k \in K : size[k] = 0
    PROVE  Bytes(size, K) = 0
<1>1. Cells(size, K) = {}
  BY DEF Cells
<1> QED
  BY <1>1, FS_EmptySet DEF Bytes, Cells

(* A change of one size changes the sum by as much. *)
LEMMA BytesChange ==
    ASSUME NEW K, IsFiniteSet(K), NEW k \in K, NEW a, NEW b,
           \A j \in K : a[j] \in Nat /\ b[j] \in Nat,
           \A j \in K \ {k} : a[j] = b[j]
    PROVE  /\ Bytes(b, K) = Bytes(a, K) - a[k] + b[k]
           /\ Bytes(a, K) \in Nat
           /\ Bytes(a, K) >= a[k]
<1>1. Bytes(a, K \ {k}) = Bytes(b, K \ {k})
  BY BytesSame
<1>2. Bytes(a, {k}) = a[k] /\ Bytes(b, {k}) = b[k]
  BY BytesOne
<1>3. /\ Bytes(a, K) = Bytes(a, {k}) + Bytes(a, K \ {k})
      /\ Bytes(b, K) = Bytes(b, {k}) + Bytes(b, K \ {k})
      /\ Bytes(a, K \ {k}) \in Nat
  BY BytesSplit
<1> QED
  BY <1>1, <1>2, <1>3

(* The sum left when the keys of V lose their bytes. *)
LEMMA BytesWithout ==
    ASSUME NEW K, IsFiniteSet(K), NEW V \in SUBSET K, NEW a, NEW b,
           \A j \in K : a[j] \in Nat,
           \A j \in V : b[j] = 0,
           \A j \in K \ V : b[j] = a[j]
    PROVE  /\ Bytes(b, K) = Bytes(a, K) - Bytes(a, V)
           /\ Bytes(a, V) \in Nat
           /\ Bytes(a, K) \in Nat
           /\ Bytes(b, K) \in Nat
<1>1. Bytes(a, K \ V) = Bytes(b, K \ V)
  BY BytesSame
<1>2. Bytes(b, V) = 0
  BY BytesZero
<1>3. \A j \in K : b[j] \in Nat
  OBVIOUS
<1>4. /\ Bytes(a, K) = Bytes(a, V) + Bytes(a, K \ V)
      /\ Bytes(a, V) \in Nat /\ Bytes(a, K \ V) \in Nat /\ Bytes(a, K) \in Nat
  BY BytesSplit
<1>5. Bytes(b, K) = Bytes(b, V) + Bytes(b, K \ V)
  BY BytesSplit, <1>3
<1> QED
  BY <1>1, <1>2, <1>4, <1>5

-----------------------------------------------------------------------------
(* The order of last use *)

(* What is left of an order when entries go is an order of the rest. *)
LEMMA OrderWithout ==
    ASSUME NEW K, NEW V, NEW o \in Orders(K)
    PROVE  {p \in o : p[1] \notin V /\ p[2] \notin V} \in Orders(K \ V)
BY DEF Orders

(* The entry used last comes after all the others. *)
LEMMA OrderWithLast ==
    ASSUME NEW K, NEW k, NEW o \in Orders(K)
    PROVE  {p \in o : p[1] # k /\ p[2] # k} \cup {<<j, k>> : j \in K \ {k}} \in Orders(K \cup {k})
BY DEF Orders

-----------------------------------------------------------------------------
(* The inductive invariant *)

Tmps == [size : Nat, whole : BOOLEAN, age : 0 .. Horizon]
Metas == [kind : {"none", "ok", "corrupt"}, size : Nat, age : 0 .. Horizon]
Puts == [pc : {"copy", "rename", "meta"}, slot : Slots, key : Keys, size : Sizes]
Jobs == {NoJob} \cup [pc : {"hit", "miss"}, key : Keys]
                \cup [pc : {"copied"}, key : Keys, whole : BOOLEAN]

Shape ==
    /\ alive \in BOOLEAN
    /\ file \in [Keys -> Copies]
    /\ tmp \in [Keys -> Tmps]
    /\ meta \in [Keys -> Metas]
    /\ lru \in [Keys -> Nat]
    /\ older \in Orders(Tracked)
    /\ total \in Int
    /\ count \in Nat
    /\ request \in BOOLEAN
    /\ put \in {Free} \cup Puts
    /\ job \in [Slots -> Jobs]
    /\ torn \in BOOLEAN
    /\ faults \in 0 .. MaxFaults

(* Only whole outputs reach a data file, and so a job. *)
Whole ==
    /\ \A k \in Keys : Present(k) => file[k].whole
    /\ put.pc = "rename" => tmp[put.key].whole /\ tmp[put.key].size = put.size
    /\ HitsAreWhole

(* The key whose data file is ahead of its metadata and entry. *)
Ahead(k) == put.pc = "meta" /\ put.key = k

(* The bytes of the .tmp file a Put owns, which the counter leaves out. *)
Owned == IF put.pc \in {"copy", "rename"} THEN tmp[put.key].size ELSE 0

(* On disk, a data file and its metadata come together. *)
Paired ==
    /\ \A k \in Keys : meta[k].kind = "ok" => meta[k].size > 0
    /\ ~alive => put = Free
    /\ ~torn => \A k \in Keys :
         /\ meta[k].kind # "corrupt"
         /\ Ahead(k) => file[k].size = put.size
         /\ ~Ahead(k) => /\ meta[k].kind = "ok" <=> Present(k)
                         /\ Present(k) => meta[k].size = file[k].size

(* In memory, the entries are the data files and the counters their sums. *)
Counted ==
    alive /\ ~torn =>
        /\ \A k \in Keys : ~Ahead(k) => lru[k] = file[k].size
        /\ total = Bytes(lru, Keys) + Bytes(TmpSize, Keys) - Owned
        /\ count = Cardinality(Tracked)

CacheInv == Shape /\ Whole /\ Paired /\ Counted

-----------------------------------------------------------------------------
(* Facts about the operators *)

(* The clock stops at a natural number. *)
LEMMA HorizonType == Horizon \in Nat
<1>1. \E h \in {1 + TTL, 1 + URLTTL, 1 + StaleAge} : h > TTL /\ h > URLTTL /\ h > StaleAge
  BY AgesAssumption
<1>2. Horizon \in {1 + TTL, 1 + URLTTL, 1 + StaleAge}
  BY <1>1 DEF Horizon
<1> QED
  BY <1>2, AgesAssumption

(* Nothing is released that was not there. *)
LEMMA ClampedType ==
    ASSUME NEW n \in Int
    PROVE  Clamped(n) \in Nat /\ (n >= 0 => Clamped(n) = n)
BY DEF Clamped

(* The entries and the tmp files have sums; no part exceeds the whole. *)
LEMMA SumTypes ==
    ASSUME Shape
    PROVE  /\ Bytes(lru, Keys) \in Nat
           /\ Bytes(TmpSize, Keys) \in Nat
           /\ \A k \in Keys : tmp[k].size \in Nat /\ tmp[k].size <= Bytes(TmpSize, Keys)
           /\ \A V \in SUBSET Keys : /\ Bytes(TmpSize, V) \in Nat
                                     /\ Bytes(TmpSize, V) <= Bytes(TmpSize, Keys)
                                     /\ Bytes(lru, V) \in Nat
                                     /\ Bytes(lru, V) <= Bytes(lru, Keys)
                                     /\ Bytes(FileSize, V) \in Nat
                                     /\ Bytes(MetaSize, V) \in Nat
<1>1. \A k \in Keys : /\ lru[k] \in Nat /\ TmpSize[k] \in Nat /\ TmpSize[k] = tmp[k].size
                      /\ FileSize[k] \in Nat /\ MetaSize[k] \in Nat
  BY DEF Shape, TmpSize, FileSize, MetaSize, Tmps, Metas, Copies
<1>2. IsFiniteSet(Keys)
  BY KeysAssumption
<1>3. ASSUME NEW V \in SUBSET Keys
      PROVE  /\ Bytes(TmpSize, V) \in Nat
             /\ Bytes(TmpSize, V) <= Bytes(TmpSize, Keys)
             /\ Bytes(lru, V) \in Nat
             /\ Bytes(lru, V) <= Bytes(lru, Keys)
             /\ Bytes(FileSize, V) \in Nat
             /\ Bytes(MetaSize, V) \in Nat
  <2>1. /\ Bytes(TmpSize, V) \in Nat /\ Bytes(TmpSize, Keys \ V) \in Nat
        /\ Bytes(TmpSize, Keys) = Bytes(TmpSize, V) + Bytes(TmpSize, Keys \ V)
    BY <1>1, <1>2, BytesSplit
  <2>2. /\ Bytes(lru, V) \in Nat /\ Bytes(lru, Keys \ V) \in Nat
        /\ Bytes(lru, Keys) = Bytes(lru, V) + Bytes(lru, Keys \ V)
    BY <1>1, <1>2, BytesSplit
  <2>3. Bytes(FileSize, V) \in Nat
    BY <1>1, <1>2, BytesSplit
  <2>4. Bytes(MetaSize, V) \in Nat
    BY <1>1, <1>2, BytesSplit
  <2> QED
    BY <2>1, <2>2, <2>3, <2>4
<1>4. Bytes(lru, Keys) \in Nat /\ Bytes(TmpSize, Keys) \in Nat
  BY <1>3
<1>5. ASSUME NEW k \in Keys PROVE tmp[k].size \in Nat /\ tmp[k].size <= Bytes(TmpSize, Keys)
  <2>1. Bytes(TmpSize, {k}) = TmpSize[k]
    BY <1>1, BytesOne
  <2> QED
    BY <2>1, <1>1, <1>3
<1> QED
  BY <1>3, <1>4, <1>5

(* removeEntries keeps every file, entry and counter well formed. *)
LEMMA RemoveShape ==
    ASSUME Shape, NEW V \in SUBSET Keys, NEW b \in Nat, removeEntries(V, b)
    PROVE  /\ file' \in [Keys -> Copies]
           /\ meta' \in [Keys -> Metas]
           /\ lru' \in [Keys -> Nat]
           /\ Tracked' = Tracked \ V
           /\ older' \in Orders(Tracked')
           /\ total' \in Nat
           /\ count' \in Nat
<1>1. file' \in [Keys -> Copies]
  BY DEF Shape, removeEntries, Copies, NoFile
<1>2. meta' \in [Keys -> Metas]
  BY HorizonType DEF Shape, removeEntries, Metas, NoMeta
<1>3. lru' \in [Keys -> Nat] /\ Tracked' = Tracked \ V
  BY DEF Shape, removeEntries, Tracked
<1>4. older' \in Orders(Tracked')
  BY <1>3, OrderWithout DEF Shape, removeEntries
<1>5. total' \in Nat
  BY ClampedType DEF Shape, removeEntries
<1>6. Cardinality(V) \in Nat
  BY KeysAssumption, FS_Subset, FS_CardinalityType
<1>7. count' \in Nat
  BY <1>6, ClampedType DEF Shape, removeEntries
<1> QED
  BY <1>1, <1>2, <1>3, <1>4, <1>5, <1>7

(* removeEntries of tracked keys, charged with their tracked sizes and     *)
(* with c further bytes of the t that are counted besides, is exact.       *)
LEMMA RemoveExact ==
    ASSUME Shape, NEW V \in SUBSET Tracked, NEW c \in Nat, NEW t \in Nat, c <= t,
           total = Bytes(lru, Keys) + t, count = Cardinality(Tracked),
           removeEntries(V, Bytes(lru, V) + c)
    PROVE  /\ total' = Bytes(lru', Keys) + t - c
           /\ count' = Cardinality(Tracked')
<1>1. V \subseteq Keys /\ Tracked \subseteq Keys
  BY DEF Tracked
<1>2. \A k \in Keys : lru[k] \in Nat /\ lru'[k] = IF k \in V THEN 0 ELSE lru[k]
  BY DEF Shape, removeEntries
<1>3. /\ Bytes(lru', Keys) = Bytes(lru, Keys) - Bytes(lru, V)
      /\ Bytes(lru, V) \in Nat /\ Bytes(lru, Keys) \in Nat /\ Bytes(lru', Keys) \in Nat
  <2>1. IsFiniteSet(Keys) /\ V \in SUBSET Keys
    BY <1>1, KeysAssumption
  <2>2. \A k \in Keys : lru[k] \in Nat
    BY <1>2
  <2>3. (\A k \in V : lru'[k] = 0) /\ (\A k \in Keys \ V : lru'[k] = lru[k])
    BY <1>1, <1>2
  <2> QED
    BY <2>1, <2>2, <2>3, BytesWithout
<1>4. total' = Clamped(total - (Bytes(lru, V) + c))
  BY DEF removeEntries
<1>5. total' = Bytes(lru', Keys) + t - c
  BY <1>3, <1>4, ClampedType
<1>6. IsFiniteSet(Tracked) /\ IsFiniteSet(V)
  BY <1>1, KeysAssumption, FS_Subset
<1>7. Tracked' = Tracked \ V
  BY <1>2 DEF Tracked
<1>8. Tracked \cap V = V
  OBVIOUS
<1>9. Cardinality(Tracked \ V) = Cardinality(Tracked) - Cardinality(V)
  BY <1>6, <1>8, FS_Difference
<1>10. Cardinality(Tracked) \in Nat /\ Cardinality(V) \in Nat /\ Cardinality(Tracked \ V) \in Nat
  BY <1>6, FS_CardinalityType, FS_Difference
<1>11. count' = Clamped(Cardinality(Tracked) - Cardinality(V))
  BY DEF removeEntries
<1>12. count' = Cardinality(Tracked')
  BY <1>7, <1>9, <1>10, <1>11, ClampedType
<1> QED
  BY <1>5, <1>12

-----------------------------------------------------------------------------
(* The steps of the jobs *)

(* A step that touches no file, entry or counter keeps disk and books. *)
LEMMA JobFrame ==
    ASSUME CacheInv, UNCHANGED <<alive, disk, books, put, torn>>, HitsAreWhole'
    PROVE  Whole' /\ Paired' /\ Counted'
<1>1. UNCHANGED <<alive, file, tmp, meta, lru, total, count, put, torn>>
  BY DEF disk, books
<1>2. Whole'
  BY <1>1 DEF CacheInv, Whole, Present
<1>3. Paired'
  BY <1>1 DEF CacheInv, Paired, Present, Ahead
<1>4. UNCHANGED <<Bytes(lru, Keys), Bytes(TmpSize, Keys), Owned, Tracked>>
  BY <1>1 DEF TmpSize, Owned, Tracked
<1>5. Counted'
  BY <1>1, <1>4 DEF CacheInv, Counted, Ahead
<1> QED
  BY <1>2, <1>3, <1>5

(* An eviction, of the entries V and of the temporary files W, that        *)
(* charges the bytes of both keeps disk and books.                         *)
LEMMA EvictionKeeps ==
    ASSUME CacheInv, Unlocked, NEW V \in SUBSET Keys, NEW W \in SUBSET Keys, NEW b \in Nat,
           removeEntries(V, b + Bytes(TmpSize, W)),
           tmp' = [k \in Keys |-> IF k \in W THEN NoTmp ELSE tmp[k]],
           UNCHANGED <<alive, put, torn>>,
           ~torn => V \subseteq Tracked /\ b = Bytes(lru, V),
           HitsAreWhole'
    PROVE  /\ file' \in [Keys -> Copies]
           /\ tmp' \in [Keys -> Tmps]
           /\ meta' \in [Keys -> Metas]
           /\ lru' \in [Keys -> Nat]
           /\ older' \in Orders(Tracked')
           /\ total' \in Int
           /\ count' \in Nat
           /\ Whole' /\ Paired' /\ Counted'
<1> USE DEF CacheInv
<1>1. /\ Bytes(TmpSize, W) \in Nat /\ Bytes(TmpSize, Keys) \in Nat
      /\ Bytes(TmpSize, W) <= Bytes(TmpSize, Keys)
  BY SumTypes
<1>2. b + Bytes(TmpSize, W) \in Nat
  BY <1>1
<1>3. /\ file' \in [Keys -> Copies]
      /\ meta' \in [Keys -> Metas]
      /\ lru' \in [Keys -> Nat]
      /\ Tracked' = Tracked \ V
      /\ older' \in Orders(Tracked')
      /\ total' \in Nat
      /\ count' \in Nat
  BY <1>2, RemoveShape
<1>4. tmp' \in [Keys -> Tmps]
  BY HorizonType DEF Shape, Tmps, NoTmp
<1>5. put = Free /\ put' = Free /\ alive
  BY DEF Unlocked
<1>6. \A k \in Keys : /\ file'[k] = IF k \in V THEN NoFile ELSE file[k]
                      /\ meta'[k] = IF k \in V THEN NoMeta ELSE meta[k]
                      /\ lru'[k] = IF k \in V THEN 0 ELSE lru[k]
  BY DEF removeEntries
<1>7. Whole'
  BY <1>5, <1>6 DEF Whole, Present, Free, NoFile
<1>8. Paired'
  BY <1>5, <1>6 DEF Paired, Present, Ahead, Free, NoFile, NoMeta
<1>9. Counted'
  <2> SUFFICES ASSUME ~torn PROVE Counted'
    BY DEF Counted
  <2>1. /\ \A k \in Keys : lru[k] = file[k].size
        /\ total = Bytes(lru, Keys) + Bytes(TmpSize, Keys) - 0
        /\ count = Cardinality(Tracked)
    BY <1>5 DEF Counted, Ahead, Owned, Free
  <2>2. Bytes(lru, Keys) \in Nat /\ Bytes(lru', Keys) \in Nat
    <3>1. Bytes(lru, Keys) \in Nat
      BY SumTypes
    <3>2. \A k \in Keys : lru'[k] \in Nat
      BY <1>3
    <3>3. Bytes(lru', Keys) \in Nat
      BY <3>2, KeysAssumption, CellsFinite
    <3> QED
      BY <3>1, <3>3
  <2>3. total = Bytes(lru, Keys) + Bytes(TmpSize, Keys)
    BY <2>1, <2>2, <1>1
  <2>4. removeEntries(V, Bytes(lru, V) + Bytes(TmpSize, W)) /\ V \in SUBSET Tracked
    BY DEF removeEntries
  <2>5. /\ total' = Bytes(lru', Keys) + Bytes(TmpSize, Keys) - Bytes(TmpSize, W)
        /\ count' = Cardinality(Tracked')
    BY <1>1, <2>1, <2>3, <2>4, RemoveExact
  <2>6. Bytes(TmpSize', Keys) = Bytes(TmpSize, Keys) - Bytes(TmpSize, W)
    <3>1. \A k \in Keys : TmpSize[k] \in Nat
      BY DEF Shape, TmpSize, Tmps
    <3>2. (\A k \in W : TmpSize'[k] = 0) /\ (\A k \in Keys \ W : TmpSize'[k] = TmpSize[k])
      BY DEF TmpSize, NoTmp
    <3> QED
      BY <3>1, <3>2, KeysAssumption, BytesWithout
  <2>7. total' = Bytes(lru', Keys) + Bytes(TmpSize', Keys) - 0
    BY <2>2, <2>5, <2>6, <1>1
  <2>8. Owned' = 0
    BY <1>5 DEF Owned, Free
  <2>9. \A k \in Keys : lru'[k] = file'[k].size
    BY <1>6, <2>1 DEF NoFile
  <2> QED
    BY <2>5, <2>7, <2>8, <2>9 DEF Counted
<1> QED
  BY <1>3, <1>4, <1>7, <1>8, <1>9

(* Check evicts an expired or damaged entry and hands out no file. *)
LEMMA CheckStep ==
    ASSUME CacheInv, NEW s \in Slots, NEW k \in Keys, Check(s, k)
    PROVE  CacheInv'
<1> USE DEF CacheInv
<1>1. job' \in [Slots -> Jobs] /\ HitsAreWhole'
  BY DEF Check, Shape, Jobs, Whole, HitsAreWhole
<1>2. UNCHANGED <<alive, tmp, request, put, torn, faults>> /\ Unlocked
  BY DEF Check
<1>3. CASE Present(k) /\ meta[k].kind = "ok" /\ ~Usable(k)
  <2> DEFINE V == {k}
             W == {}
  <2>1. meta[k].size \in Nat /\ V \in SUBSET Keys /\ W \in SUBSET Keys
    BY DEF Shape, Metas
  <2>2. Bytes(TmpSize, W) = 0
    BY BytesZero
  <2>3. removeEntries(V, meta[k].size + Bytes(TmpSize, W))
    <3>1. meta[k].size + Bytes(TmpSize, W) = meta[k].size
      BY <2>1, <2>2
    <3>2. removeEntries(V, meta[k].size)
      BY <1>3 DEF Check
    <3> QED
      BY <3>1, <3>2 DEF removeEntries
  <2>4. tmp' = [j \in Keys |-> IF j \in W THEN NoTmp ELSE tmp[j]]
    BY <1>2 DEF Shape
  <2>5. ~torn => V \subseteq Tracked /\ meta[k].size = Bytes(lru, V)
    <3> SUFFICES ASSUME ~torn PROVE V \subseteq Tracked /\ meta[k].size = Bytes(lru, V)
      OBVIOUS
    <3>1. ~Ahead(k) /\ alive
      BY <1>2 DEF Unlocked, Ahead, Free
    <3>2. lru[k] = file[k].size /\ meta[k].size = file[k].size
      BY <1>3, <3>1 DEF Counted, Paired
    <3>3. Bytes(lru, {k}) = lru[k]
      BY BytesOne DEF Shape
    <3> QED
      BY <1>3, <3>2, <3>3 DEF Tracked, Present
  <2> HIDE DEF V, W
  <2>6. /\ file' \in [Keys -> Copies]
        /\ tmp' \in [Keys -> Tmps]
        /\ meta' \in [Keys -> Metas]
        /\ lru' \in [Keys -> Nat]
        /\ older' \in Orders(Tracked')
        /\ total' \in Int
        /\ count' \in Nat
        /\ Whole' /\ Paired' /\ Counted'
    BY <1>1, <1>2, <2>1, <2>3, <2>4, <2>5, EvictionKeeps
  <2> QED
    BY <1>1, <1>2, <2>6 DEF Shape
<1>4. CASE ~(Present(k) /\ meta[k].kind = "ok" /\ ~Usable(k))
  <2>1. UNCHANGED <<file, meta, lru, older, total, count>>
    BY <1>4 DEF Check
  <2>2. Shape'
    BY <1>1, <1>2, <2>1 DEF Shape, Tracked
  <2>3. Whole' /\ Paired' /\ Counted'
    BY <1>1, <1>2, <2>1, JobFrame DEF disk, books
  <2> QED
    BY <2>2, <2>3
<1> QED
  BY <1>3, <1>4

(* The copy a job makes is of a data file, and so whole. *)
LEMMA CopyOutStep ==
    ASSUME CacheInv, NEW s \in Slots, CopyOut(s)
    PROVE  CacheInv'
<1> USE DEF CacheInv
<1>1. UNCHANGED <<alive, disk, books, put, torn, faults>>
  BY DEF CopyOut
<1>2. job[s].key \in Keys
  BY DEF CopyOut, Shape, Jobs, NoJob
<1>3. file[job[s].key].whole \in BOOLEAN
  BY <1>2 DEF Shape, Copies
<1>4. job' \in [Slots -> Jobs]
  BY <1>2, <1>3 DEF CopyOut, Shape, Jobs
<1>5. HitsAreWhole'
  BY <1>2 DEF CopyOut, Shape, Whole, HitsAreWhole
<1>6. Shape'
  BY <1>1, <1>4 DEF Shape, Tracked, disk, books
<1>7. Whole' /\ Paired' /\ Counted'
  BY <1>1, <1>5, JobFrame
<1> QED
  BY <1>6, <1>7

(* A hit that cannot be used becomes a miss. *)
LEMMA DegradeStep ==
    ASSUME CacheInv, NEW s \in Slots, Degrade(s)
    PROVE  CacheInv'
<1> USE DEF CacheInv
<1>1. UNCHANGED <<alive, disk, books, put, torn, faults>>
  BY DEF Degrade
<1>2. job[s].key \in Keys
  BY DEF Degrade, Shape, Jobs, NoJob
<1>3. job' \in [Slots -> Jobs] /\ HitsAreWhole'
  BY <1>2 DEF Degrade, Shape, Jobs, Whole, HitsAreWhole
<1>4. Shape'
  BY <1>1, <1>3 DEF Shape, Tracked, disk, books
<1>5. Whole' /\ Paired' /\ Counted'
  BY <1>1, <1>3, JobFrame
<1> QED
  BY <1>4, <1>5

(* ConfirmHit changes the order of the entries and nothing else. *)
LEMMA ConfirmHitStep ==
    ASSUME CacheInv, NEW s \in Slots, ConfirmHit(s)
    PROVE  CacheInv'
<1> USE DEF CacheInv
<1> DEFINE k == job[s].key
<1>1. UNCHANGED <<alive, file, tmp, meta, total, count, request, put, torn, faults>>
  BY DEF ConfirmHit, disk
<1>2. k \in Keys
  BY DEF ConfirmHit, Shape, Jobs, NoJob
<1>3. job' \in [Slots -> Jobs] /\ HitsAreWhole'
  BY DEF ConfirmHit, Shape, Jobs, Whole, HitsAreWhole, NoJob
<1>4. lru' = lru
  BY <1>2 DEF ConfirmHit, touch, add, Shape
<1>5. Tracked' = Tracked
  BY <1>4 DEF Tracked
<1>6. older' \in Orders(Tracked')
  <2>1. CASE k \in Tracked
    <3>1. older' = {p \in older : p[1] # k /\ p[2] # k} \cup {<<j, k>> : j \in Tracked \ {k}}
      BY <2>1 DEF ConfirmHit, touch, add
    <3>2. older' \in Orders(Tracked \cup {k})
      BY <3>1, OrderWithLast DEF Shape
    <3> QED
      BY <2>1, <3>2, <1>5
  <2>2. CASE k \notin Tracked
    BY <2>2, <1>5 DEF ConfirmHit, touch, Shape
  <2> QED
    BY <2>1, <2>2
<1>7. Shape'
  BY <1>1, <1>3, <1>4, <1>5, <1>6 DEF Shape
<1>8. Whole'
  BY <1>1, <1>3 DEF Whole, Present
<1>9. Paired'
  BY <1>1 DEF Paired, Present, Ahead
<1>10. UNCHANGED <<Bytes(lru, Keys), Bytes(TmpSize, Keys), Owned>>
  BY <1>1, <1>4 DEF TmpSize, Owned
<1>11. Counted'
  BY <1>1, <1>4, <1>5, <1>10 DEF Counted, Ahead
<1> QED
  BY <1>7, <1>8, <1>9, <1>11

(* A job that stores nothing leaves the cache alone. *)
LEMMA AbandonStep ==
    ASSUME CacheInv, NEW s \in Slots, Abandon(s)
    PROVE  CacheInv'
<1> USE DEF CacheInv
<1>1. UNCHANGED <<alive, disk, books, put, torn, faults>>
  BY DEF Abandon
<1>2. job' \in [Slots -> Jobs] /\ HitsAreWhole'
  BY DEF Abandon, Shape, Jobs, Whole, HitsAreWhole, NoJob
<1>3. Shape'
  BY <1>1, <1>2 DEF Shape, Tracked, disk, books
<1>4. Whole' /\ Paired' /\ Counted'
  BY <1>1, <1>2, JobFrame
<1> QED
  BY <1>3, <1>4

-----------------------------------------------------------------------------
(* The steps of a Put *)

(* What a Put that holds the lock knows. *)
LEMMA PutFacts ==
    ASSUME Shape, put.pc # "free"
    PROVE  put \in Puts /\ put.key \in Keys /\ put.size \in Nat \ {0} /\ put.slot \in Slots
<1>1. Free.pc = "free"
  BY DEF Free
<1>2. put \in Puts
  BY <1>1 DEF Shape
<1>3. put.key \in Keys /\ put.size \in Sizes /\ put.slot \in Slots
  BY <1>2 DEF Puts
<1> QED
  BY <1>2, <1>3, SizesAssumption

(* The sums of the temporary files after one of them changed. *)
LEMMA TmpChange ==
    ASSUME Shape, NEW k \in Keys, tmp' \in [Keys -> Tmps],
           \A j \in Keys \ {k} : tmp'[j] = tmp[j]
    PROVE  /\ Bytes(TmpSize', Keys) = Bytes(TmpSize, Keys) - tmp[k].size + tmp'[k].size
           /\ Bytes(TmpSize, Keys) \in Nat
           /\ Bytes(TmpSize, Keys) >= tmp[k].size
           /\ tmp[k].size \in Nat /\ tmp'[k].size \in Nat
<1>1. \A j \in Keys : TmpSize[j] \in Nat /\ TmpSize'[j] \in Nat
  BY DEF Shape, TmpSize, Tmps
<1>2. \A j \in Keys \ {k} : TmpSize[j] = TmpSize'[j]
  BY DEF TmpSize
<1>3. TmpSize[k] = tmp[k].size /\ TmpSize'[k] = tmp'[k].size
  BY DEF TmpSize
<1> QED
  BY <1>1, <1>2, <1>3, KeysAssumption, BytesChange

(* A Put returns to a free lock and an idle job. *)
LEMMA ReturnsStep ==
    ASSUME CacheInv, Returns
    PROVE  put' = Free /\ put'.pc = "free" /\ job' \in [Slots -> Jobs] /\ HitsAreWhole'
BY DEF CacheInv, Shape, Returns, Jobs, NoJob, Free, Whole, HitsAreWhole

(* PutBegin takes the leftover out of the count and into the Put. *)
LEMMA PutBeginStep ==
    ASSUME CacheInv, NEW s \in Slots, NEW n \in Sizes, PutBegin(s, n)
    PROVE  CacheInv'
<1> USE DEF CacheInv
<1> DEFINE k == job[s].key
<1>1. UNCHANGED <<alive, file, tmp, meta, lru, older, count, request, job, torn, faults>>
  BY DEF PutBegin, disk
<1>2. k \in Keys
  BY DEF PutBegin, Shape, Jobs, NoJob
<1>3. put' = [pc |-> "copy", slot |-> s, key |-> k, size |-> n] /\ put = Free /\ alive
  BY DEF PutBegin, Unlocked
<1>4. put' \in Puts /\ put'.pc = "copy" /\ put'.key = k /\ put.pc = "free"
  BY <1>2, <1>3 DEF Puts, Free
<1>5. /\ tmp[k].size \in Nat /\ tmp[k].size <= Bytes(TmpSize, Keys)
      /\ Bytes(TmpSize, Keys) \in Nat /\ Bytes(lru, Keys) \in Nat
  BY <1>2, SumTypes
<1>6. total' = Clamped(total - tmp[k].size)
  BY DEF PutBegin
<1>7. total' \in Nat
  BY <1>5, <1>6, ClampedType DEF Shape
<1>8. Shape'
  BY <1>1, <1>4, <1>7 DEF Shape, Tracked
<1>9. Whole'
  BY <1>1, <1>4 DEF Whole, Present, HitsAreWhole
<1>10. Paired'
  BY <1>1, <1>3, <1>4 DEF Paired, Present, Ahead
<1>11. Counted'
  <2> SUFFICES ASSUME ~torn PROVE Counted'
    BY <1>1 DEF Counted
  <2>1. total = Bytes(lru, Keys) + Bytes(TmpSize, Keys) - 0
    BY <1>3, <1>4 DEF Counted, Owned
  <2>2. total' = Bytes(lru, Keys) + Bytes(TmpSize, Keys) - tmp[k].size
    BY <1>5, <1>6, <2>1, ClampedType
  <2>3. UNCHANGED <<Bytes(lru, Keys), Bytes(TmpSize, Keys), Tracked>>
    BY <1>1 DEF TmpSize, Tracked
  <2>4. Owned' = tmp[k].size
    BY <1>1, <1>4 DEF Owned
  <2> QED
    BY <1>1, <1>3, <1>4, <2>2, <2>3, <2>4 DEF Counted, Ahead
<1> QED
  BY <1>8, <1>9, <1>10, <1>11

(* The copy makes the temporary file whole. *)
LEMMA PutCopyStep ==
    ASSUME CacheInv, PutCopy
    PROVE  CacheInv'
<1> USE DEF CacheInv
<1> DEFINE k == put.key
<1>1. UNCHANGED <<alive, file, meta, lru, older, total, count, request, job, torn, faults>>
  BY DEF PutCopy, books
<1>2. put \in Puts /\ k \in Keys /\ put.size \in Nat /\ put.pc = "copy" /\ alive
  BY PutFacts DEF PutCopy
<1>3. put' \in Puts /\ put'.pc = "rename" /\ put'.key = k /\ put'.size = put.size
  BY <1>2 DEF PutCopy, Puts
<1>4. /\ tmp' \in [Keys -> Tmps]
      /\ \A j \in Keys \ {k} : tmp'[j] = tmp[j]
      /\ tmp'[k].size = put.size /\ tmp'[k].whole
  BY <1>2, HorizonType DEF PutCopy, Shape, Tmps
<1>5. Shape'
  BY <1>1, <1>3, <1>4 DEF Shape, Tracked
<1>6. Whole'
  BY <1>1, <1>3, <1>4 DEF Whole, Present, HitsAreWhole
<1>7. Paired'
  BY <1>1, <1>2, <1>3 DEF Paired, Present, Ahead
<1>8. /\ Bytes(TmpSize', Keys) = Bytes(TmpSize, Keys) - tmp[k].size + tmp'[k].size
      /\ Bytes(TmpSize, Keys) \in Nat /\ tmp[k].size \in Nat /\ Bytes(lru, Keys) \in Nat
  BY <1>2, <1>4, TmpChange, SumTypes
<1>9. Owned = tmp[k].size /\ Owned' = put.size
  BY <1>2, <1>3, <1>4 DEF Owned
<1>10. UNCHANGED <<Bytes(lru, Keys), Tracked>>
  BY <1>1 DEF Tracked
<1>11. Bytes(lru, Keys) + Bytes(TmpSize', Keys) - Owned'
         = Bytes(lru, Keys) + Bytes(TmpSize, Keys) - Owned
  BY <1>2, <1>4, <1>8, <1>9
<1>12. Counted'
  BY <1>1, <1>2, <1>3, <1>10, <1>11 DEF Counted, Ahead
<1> QED
  BY <1>5, <1>6, <1>7, <1>12

(* A Put that fails before the rename leaves no temporary file behind, and *)
(* the count is that of the other files.                                   *)
LEMMA PutCopyFailsStep ==
    ASSUME CacheInv, PutCopyFails
    PROVE  CacheInv'
<1> USE DEF CacheInv
<1> DEFINE k == put.key
<1>1. UNCHANGED <<alive, file, meta, lru, older, total, count, request, torn>>
  BY DEF PutCopyFails, books
<1>2. put \in Puts /\ k \in Keys /\ put.pc \in {"copy", "rename"} /\ alive
  BY PutFacts DEF PutCopyFails
<1>3. put' = Free /\ put'.pc = "free" /\ job' \in [Slots -> Jobs] /\ HitsAreWhole'
  BY ReturnsStep DEF PutCopyFails
<1>4. /\ tmp' \in [Keys -> Tmps]
      /\ \A j \in Keys \ {k} : tmp'[j] = tmp[j]
      /\ tmp'[k].size = 0
  BY <1>2, HorizonType DEF PutCopyFails, Shape, Tmps, NoTmp
<1>5. faults' \in 0 .. MaxFaults
  BY AgesAssumption DEF PutCopyFails, Fault, Shape
<1>6. Shape'
  BY <1>1, <1>3, <1>4, <1>5 DEF Shape, Tracked
<1>7. Whole'
  BY <1>1, <1>3 DEF Whole, Present
<1>8. Paired'
  BY <1>1, <1>2, <1>3 DEF Paired, Present, Ahead
<1>9. /\ Bytes(TmpSize', Keys) = Bytes(TmpSize, Keys) - tmp[k].size + tmp'[k].size
      /\ Bytes(TmpSize, Keys) \in Nat /\ tmp[k].size \in Nat /\ Bytes(lru, Keys) \in Nat
  BY <1>2, <1>4, TmpChange, SumTypes
<1>10. Owned = tmp[k].size /\ Owned' = 0
  BY <1>2, <1>3 DEF Owned
<1>11. UNCHANGED <<Bytes(lru, Keys), Tracked>>
  BY <1>1 DEF Tracked
<1>12. Bytes(lru, Keys) + Bytes(TmpSize', Keys) - Owned'
         = Bytes(lru, Keys) + Bytes(TmpSize, Keys) - Owned
  BY <1>4, <1>9, <1>10
<1>13. Counted'
  BY <1>1, <1>2, <1>3, <1>11, <1>12 DEF Counted, Ahead
<1> QED
  BY <1>6, <1>7, <1>8, <1>13

(* The rename publishes a whole file. *)
LEMMA PutRenameStep ==
    ASSUME CacheInv, PutRename
    PROVE  CacheInv'
<1> USE DEF CacheInv
<1> DEFINE k == put.key
<1>1. UNCHANGED <<alive, meta, lru, older, total, count, request, job, torn, faults>>
  BY DEF PutRename, books
<1>2. put \in Puts /\ k \in Keys /\ put.size \in Nat /\ put.pc = "rename" /\ alive
  BY PutFacts DEF PutRename
<1>3. put' \in Puts /\ put'.pc = "meta" /\ put'.key = k /\ put'.size = put.size
  BY <1>2 DEF PutRename, Puts
<1>4. /\ tmp' \in [Keys -> Tmps]
      /\ \A j \in Keys \ {k} : tmp'[j] = tmp[j]
      /\ tmp'[k].size = 0
  BY <1>2, HorizonType DEF PutRename, Shape, Tmps, NoTmp
<1>5. tmp[k].whole /\ tmp[k].size = put.size
  BY <1>2 DEF Whole
<1>6. /\ file' \in [Keys -> Copies]
      /\ \A j \in Keys \ {k} : file'[j] = file[j]
      /\ file'[k].size = put.size /\ file'[k].whole
  BY <1>2, <1>5 DEF PutRename, Shape, Tmps, Copies
<1>7. Shape'
  BY <1>1, <1>3, <1>4, <1>6 DEF Shape, Tracked
<1>8. Whole'
  BY <1>1, <1>3, <1>6 DEF Whole, Present, HitsAreWhole
<1>9. Paired'
  BY <1>1, <1>2, <1>3, <1>6 DEF Paired, Present, Ahead
<1>10. /\ Bytes(TmpSize', Keys) = Bytes(TmpSize, Keys) - tmp[k].size + tmp'[k].size
       /\ Bytes(TmpSize, Keys) \in Nat /\ tmp[k].size \in Nat /\ Bytes(lru, Keys) \in Nat
  BY <1>2, <1>4, TmpChange, SumTypes
<1>11. Owned = tmp[k].size /\ Owned' = 0
  BY <1>2, <1>3 DEF Owned
<1>12. UNCHANGED <<Bytes(lru, Keys), Tracked>>
  BY <1>1 DEF Tracked
<1>13. Bytes(lru, Keys) + Bytes(TmpSize', Keys) - Owned'
         = Bytes(lru, Keys) + Bytes(TmpSize, Keys) - Owned
  BY <1>4, <1>10, <1>11
<1>14. Counted'
  BY <1>1, <1>2, <1>3, <1>6, <1>12, <1>13 DEF Counted, Ahead
<1> QED
  BY <1>7, <1>8, <1>9, <1>14

(* PutFinish swaps the tracked size of the key for the new one. *)
LEMMA PutFinishStep ==
    ASSUME CacheInv, PutFinish
    PROVE  CacheInv'
<1> USE DEF CacheInv
<1> DEFINE k == put.key
<1>1. UNCHANGED <<alive, file, tmp, torn, faults>> /\ request' = TRUE
  BY DEF PutFinish
<1>2. put \in Puts /\ k \in Keys /\ put.size \in Nat \ {0} /\ put.pc = "meta" /\ alive
  BY PutFacts DEF PutFinish
<1>3. put' = Free /\ put'.pc = "free" /\ job' \in [Slots -> Jobs] /\ HitsAreWhole'
  BY ReturnsStep DEF PutFinish
<1>4. /\ meta' \in [Keys -> Metas]
      /\ \A j \in Keys \ {k} : meta'[j] = meta[j]
      /\ meta'[k].kind = "ok" /\ meta'[k].size = put.size
  BY <1>2, HorizonType DEF PutFinish, Shape, Metas
<1>5. /\ lru' \in [Keys -> Nat]
      /\ \A j \in Keys \ {k} : lru'[j] = lru[j]
      /\ lru'[k] = put.size
  BY <1>2 DEF PutFinish, add, Shape
<1>6. Tracked' = Tracked \cup {k}
  BY <1>2, <1>5 DEF Tracked
<1>7. older' \in Orders(Tracked')
  <2>1. older' = {p \in older : p[1] # k /\ p[2] # k} \cup {<<j, k>> : j \in Tracked \ {k}}
    BY DEF PutFinish, add
  <2>2. older' \in Orders(Tracked \cup {k})
    BY <2>1, OrderWithLast DEF Shape
  <2> QED
    BY <2>2, <1>6
<1>8. /\ total' = total - lru[k] + put.size
      /\ count' = IF k \in Tracked THEN count ELSE count + 1
  <2>1. CASE k \in Tracked
    BY <2>1 DEF PutFinish
  <2>2. CASE k \notin Tracked
    <3>1. lru[k] = 0
      BY <1>2, <2>2 DEF Tracked, Shape
    <3> QED
      BY <1>2, <2>2, <3>1 DEF PutFinish, Shape
  <2> QED
    BY <2>1, <2>2
<1>9. total' \in Int /\ count' \in Nat
  BY <1>2, <1>8 DEF Shape
<1>10. Shape'
  BY <1>1, <1>3, <1>4, <1>5, <1>7, <1>9 DEF Shape
<1>11. Whole'
  BY <1>1, <1>3 DEF Whole, Present
<1>12. Paired'
  BY <1>1, <1>2, <1>3, <1>4 DEF Paired, Present, Ahead
<1>13. Counted'
  <2> SUFFICES ASSUME ~torn PROVE Counted'
    BY <1>1 DEF Counted
  <2>1. /\ total = Bytes(lru, Keys) + Bytes(TmpSize, Keys) - 0
        /\ count = Cardinality(Tracked)
    BY <1>2 DEF Counted, Owned
  <2>2. Bytes(TmpSize', Keys) = Bytes(TmpSize, Keys) /\ Owned' = 0
    BY <1>1, <1>3 DEF TmpSize, Owned
  <2>3. /\ Bytes(lru', Keys) = Bytes(lru, Keys) - lru[k] + lru'[k]
        /\ Bytes(lru, Keys) \in Nat
    <3>1. \A j \in Keys : lru[j] \in Nat /\ lru'[j] \in Nat
      BY <1>5 DEF Shape
    <3>2. \A j \in Keys \ {k} : lru[j] = lru'[j]
      BY <1>5
    <3> QED
      BY <1>2, <3>1, <3>2, KeysAssumption, BytesChange
  <2>4. Bytes(TmpSize, Keys) \in Nat /\ lru[k] \in Nat
    BY <1>2, SumTypes DEF Shape
  <2>5. total' = Bytes(lru', Keys) + Bytes(TmpSize', Keys) - Owned'
    BY <1>2, <1>5, <1>8, <2>1, <2>2, <2>3, <2>4
  <2>6. IsFiniteSet(Tracked)
    BY KeysAssumption, FS_Subset DEF Tracked
  <2>7. count' = Cardinality(Tracked')
    BY <1>6, <1>8, <2>1, <2>6, FS_AddElement
  <2>8. \A j \in Keys : lru'[j] = file'[j].size
    BY <1>1, <1>2, <1>5 DEF Counted, Paired, Ahead
  <2> QED
    BY <2>5, <2>7, <2>8 DEF Counted
<1> QED
  BY <1>10, <1>11, <1>12, <1>13

(* A Put that cannot write its metadata tears the key. *)
LEMMA PutMetaFailsStep ==
    ASSUME CacheInv, PutMetaFails
    PROVE  CacheInv'
<1> USE DEF CacheInv
<1> DEFINE k == put.key
<1>1. UNCHANGED <<alive, tmp, lru, older, total, count, request>> /\ torn' = TRUE
  BY DEF PutMetaFails, books
<1>2. put \in Puts /\ k \in Keys /\ alive
  BY PutFacts DEF PutMetaFails
<1>3. put' = Free /\ put'.pc = "free" /\ job' \in [Slots -> Jobs] /\ HitsAreWhole'
  BY ReturnsStep DEF PutMetaFails
<1>4. /\ meta' \in [Keys -> Metas]
      /\ \A j \in Keys : meta'[j] = meta[j] \/ meta'[j].kind = "corrupt"
  BY <1>2, HorizonType DEF PutMetaFails, Shape, Metas, CorruptMeta
<1>5. /\ file' \in [Keys -> Copies]
      /\ \A j \in Keys : file'[j] = file[j] \/ file'[j].size = 0
  BY <1>2 DEF PutMetaFails, Shape, Copies, NoFile
<1>6. faults' \in 0 .. MaxFaults
  BY AgesAssumption DEF PutMetaFails, Fault, Shape
<1>7. Shape'
  BY <1>1, <1>3, <1>4, <1>5, <1>6 DEF Shape, Tracked
<1>8. Whole'
  BY <1>3, <1>5 DEF Whole, Present
<1>9. Paired'
  BY <1>1, <1>2, <1>4 DEF Paired
<1>10. Counted'
  BY <1>1 DEF Counted
<1> QED
  BY <1>7, <1>8, <1>9, <1>10

-----------------------------------------------------------------------------
(* Eviction *)

(* The TTL scan charges what it removes. *)
LEMMA evictExpiredStep ==
    ASSUME CacheInv, evictExpired
    PROVE  CacheInv'
<1> USE DEF CacheInv
<1> DEFINE old == {k \in Keys : Expired(k)}
           stale == {k \in Keys : tmp[k].size > 0 /\ tmp[k].age >= StaleAge}
<1>1. UNCHANGED <<alive, request, put, job, torn, faults>> /\ Unlocked
  BY DEF evictExpired
<1>2. /\ removeEntries(old, Bytes(FileSize, old) + Bytes(TmpSize, stale))
      /\ tmp' = [k \in Keys |-> IF k \in stale THEN NoTmp ELSE tmp[k]]
  BY DEF evictExpired
<1>3. old \in SUBSET Keys /\ stale \in SUBSET Keys
  OBVIOUS
<1>4. Bytes(FileSize, old) \in Nat
  BY <1>3, SumTypes
<1>5. ~torn => old \subseteq Tracked /\ Bytes(FileSize, old) = Bytes(lru, old)
  <2> SUFFICES ASSUME ~torn PROVE old \subseteq Tracked /\ Bytes(FileSize, old) = Bytes(lru, old)
    OBVIOUS
  <2>1. \A k \in Keys : ~Ahead(k) /\ alive
    BY <1>1 DEF Unlocked, Ahead, Free
  <2>2. \A k \in old : Present(k) /\ lru[k] = file[k].size
    BY <2>1 DEF Expired, Paired, Counted
  <2>3. old \subseteq Tracked
    BY <2>2 DEF Tracked, Present
  <2>4. \A k \in old : FileSize[k] = lru[k]
    BY <2>2 DEF FileSize
  <2> QED
    BY <2>3, <2>4, BytesSame
<1>6. HitsAreWhole'
  BY <1>1 DEF Whole, HitsAreWhole
<1> HIDE DEF old, stale
<1>7. /\ file' \in [Keys -> Copies]
      /\ tmp' \in [Keys -> Tmps]
      /\ meta' \in [Keys -> Metas]
      /\ lru' \in [Keys -> Nat]
      /\ older' \in Orders(Tracked')
      /\ total' \in Int
      /\ count' \in Nat
      /\ Whole' /\ Paired' /\ Counted'
  BY <1>1, <1>2, <1>3, <1>4, <1>5, <1>6, EvictionKeeps
<1> QED
  BY <1>1, <1>7 DEF Shape

(* The LRU loop charges what it removes. *)
LEMMA EvictLRUKeeps ==
    ASSUME CacheInv, Unlocked, EvictLRU, request' \in BOOLEAN,
           UNCHANGED <<alive, tmp, put, job, torn, faults>>
    PROVE  CacheInv'
<1> USE DEF CacheInv
<1>1. PICK V \in OldestFirst : removeEntries(V, Bytes(lru, V))
  BY DEF EvictLRU
<1>2. V \subseteq Tracked /\ V \in SUBSET Keys
  BY DEF OldestFirst, Tracked
<1>3. Bytes(lru, V) \in Nat
  BY <1>2, SumTypes
<1> DEFINE W == {}
<1>4. W \in SUBSET Keys /\ Bytes(TmpSize, W) = 0
  BY BytesZero
<1>5. removeEntries(V, Bytes(lru, V) + Bytes(TmpSize, W))
  <2>1. Bytes(lru, V) + Bytes(TmpSize, W) = Bytes(lru, V)
    BY <1>3, <1>4
  <2> QED
    BY <1>1, <2>1 DEF removeEntries
<1>6. tmp' = [j \in Keys |-> IF j \in W THEN NoTmp ELSE tmp[j]]
  BY DEF Shape
<1>7. HitsAreWhole'
  BY DEF Whole, HitsAreWhole
<1> HIDE DEF W
<1>8. /\ file' \in [Keys -> Copies]
      /\ tmp' \in [Keys -> Tmps]
      /\ meta' \in [Keys -> Metas]
      /\ lru' \in [Keys -> Nat]
      /\ older' \in Orders(Tracked')
      /\ total' \in Int
      /\ count' \in Nat
      /\ Whole' /\ Paired' /\ Counted'
  BY <1>2, <1>3, <1>4, <1>5, <1>6, <1>7, EvictionKeeps
<1> QED
  BY <1>8 DEF Shape

-----------------------------------------------------------------------------
(* The process and the clock *)

(* A crash outside the metadata write leaves files and metadata paired. *)
LEMMA CrashStep ==
    ASSUME CacheInv, Crash
    PROVE  CacheInv'
<1> USE DEF CacheInv
<1>1. /\ alive' = FALSE /\ file' = file /\ put' = Free /\ job' = [s \in Slots |-> NoJob]
      /\ torn' = (torn \/ put.pc = "meta")
      /\ lru' = [k \in Keys |-> 0] /\ older' = {} /\ total' = 0 /\ count' = 0 /\ request' = FALSE
  BY DEF Crash
<1>2. tmp' \in [Keys -> Tmps]
  <2>1. CASE tmp' = tmp
    BY <2>1 DEF Shape
  <2>2. CASE /\ put.pc = "copy"
             /\ \E n \in 0 .. put.size - 1 :
                  tmp' = [tmp EXCEPT ![put.key] = [size |-> n, whole |-> FALSE, age |-> 0]]
    BY <2>2, PutFacts, HorizonType DEF Shape, Tmps
  <2> QED
    BY <2>1, <2>2 DEF Crash
<1>3. /\ meta' \in [Keys -> Metas]
      /\ \A j \in Keys : meta'[j] = meta[j] \/ meta'[j].kind = "corrupt"
      /\ put.pc # "meta" => meta' = meta
  <2>1. CASE meta' = meta
    BY <2>1 DEF Shape
  <2>2. CASE put.pc = "meta" /\ meta' = [meta EXCEPT ![put.key] = CorruptMeta]
    BY <2>2, PutFacts, HorizonType DEF Shape, Metas, CorruptMeta
  <2> QED
    BY <2>1, <2>2 DEF Crash
<1>4. faults' \in 0 .. MaxFaults
  BY AgesAssumption DEF Crash, Fault, Shape
<1>5. lru' \in [Keys -> Nat] /\ Tracked' = {} /\ older' \in Orders(Tracked')
  BY <1>1 DEF Tracked, Orders
<1>6. job' \in [Slots -> Jobs] /\ HitsAreWhole'
  BY <1>1 DEF Jobs, NoJob, HitsAreWhole
<1>7. torn' \in BOOLEAN
  BY <1>1 DEF Shape
<1>8. Shape'
  <2>1. put' \in {Free} \cup Puts
    BY <1>1
  <2>2. alive' \in BOOLEAN /\ request' \in BOOLEAN
    BY <1>1
  <2>3. file' \in [Keys -> Copies] /\ total' \in Int /\ count' \in Nat
    BY ONLY <1>1, Shape DEF Shape
  <2> QED
    BY <1>2, <1>3, <1>4, <1>5, <1>6, <1>7, <2>1, <2>2, <2>3 DEF Shape
<1>9. Whole'
  BY <1>1, <1>6 DEF Whole, Present, Free
<1>10. Paired'
  BY <1>1, <1>3 DEF Paired, Present, Ahead, Free
<1>11. Counted'
  BY <1>1 DEF Counted
<1> QED
  BY <1>8, <1>9, <1>10, <1>11

(* A restart rebuilds the books from the directory. *)
LEMMA scanExistingStep ==
    ASSUME CacheInv, scanExisting
    PROVE  CacheInv'
<1> USE DEF CacheInv
<1> DEFINE found == {k \in Keys : meta[k].kind = "ok" /\ Present(k)}
           young == {k \in Keys : tmp[k].size > 0 /\ tmp[k].age <= StaleAge}
<1>1. /\ alive' = TRUE /\ put = Free /\ put' = Free /\ request' = TRUE
      /\ UNCHANGED <<file, job, torn, faults>>
  BY DEF scanExisting, Paired
<1>2. /\ lru' = [k \in Keys |-> IF k \in found THEN meta[k].size ELSE 0]
      /\ older' \in Orders(found)
      /\ total' = Bytes(MetaSize, found) + Bytes(TmpSize, young)
      /\ count' = Cardinality(found)
      /\ tmp' = [k \in Keys |-> IF k \in young THEN tmp[k] ELSE NoTmp]
      /\ meta' = [k \in Keys |-> IF meta[k].kind = "ok" /\ ~Present(k) THEN NoMeta ELSE meta[k]]
  BY DEF scanExisting
<1>3. found \in SUBSET Keys /\ young \in SUBSET Keys
  OBVIOUS
<1>4. lru' \in [Keys -> Nat] /\ Tracked' = found
  BY <1>2 DEF Tracked, Shape, Metas, Paired
<1>5. tmp' \in [Keys -> Tmps] /\ meta' \in [Keys -> Metas]
  BY <1>2, HorizonType DEF Shape, Tmps, Metas, NoTmp, NoMeta
<1>6. IsFiniteSet(found)
  BY <1>3, KeysAssumption, FS_Subset
<1>7. Cardinality(found) \in Nat
  BY <1>6, FS_CardinalityType
<1>8. Bytes(MetaSize, found) \in Nat /\ Bytes(TmpSize, young) \in Nat
  BY <1>3, SumTypes
<1>9. Shape'
  <2>1. older' \in Orders(Tracked')
    BY <1>2, <1>4
  <2>2. total' \in Int /\ count' \in Nat
    BY <1>2, <1>7, <1>8
  <2>3. put' \in {Free} \cup Puts
    BY <1>1
  <2> HIDE DEF found, young
  <2> QED
    BY <1>1, <1>4, <1>5, <2>1, <2>2, <2>3 DEF Shape
<1>10. Whole'
  BY <1>1 DEF Whole, Present, HitsAreWhole, Free
<1>11. Paired'
  BY <1>1, <1>2 DEF Paired, Present, Ahead, NoMeta, Free
<1>12. Counted'
  <2> SUFFICES ASSUME ~torn PROVE Counted'
    BY <1>1 DEF Counted
  <2>1. \A k \in Keys : ~Ahead(k)
    BY <1>1 DEF Ahead, Free
  <2>2. \A k \in Keys : lru'[k] = file'[k].size
    BY <1>1, <1>2, <2>1 DEF Paired, Present, Shape, Copies
  <2>3. Bytes(lru', Keys) = Bytes(MetaSize, found)
    <3>1. \A k \in found : lru'[k] = MetaSize[k]
      BY <1>2 DEF MetaSize
    <3>2. Bytes(lru', found) = Bytes(MetaSize, found)
      BY <3>1, BytesSame
    <3>3. \A k \in Keys \ found : lru'[k] = 0
      BY <1>2
    <3>4. Bytes(lru', Keys \ found) = 0
      BY <3>3, BytesZero
    <3>5. \A k \in Keys : lru'[k] \in Nat
      BY <1>4
    <3> HIDE DEF found
    <3>6. Bytes(lru', Keys) = Bytes(lru', found) + Bytes(lru', Keys \ found)
      BY <1>3, <3>5, KeysAssumption, BytesSplit
    <3> QED
      BY <1>8, <3>2, <3>4, <3>6
  <2>4. Bytes(TmpSize', Keys) = Bytes(TmpSize, young)
    <3>1. \A k \in young : TmpSize'[k] = TmpSize[k]
      BY <1>2 DEF TmpSize
    <3>2. Bytes(TmpSize', young) = Bytes(TmpSize, young)
      BY <3>1, BytesSame
    <3>3. \A k \in Keys \ young : TmpSize'[k] = 0
      BY <1>2 DEF TmpSize, NoTmp
    <3>4. Bytes(TmpSize', Keys \ young) = 0
      BY <3>3, BytesZero
    <3>5. \A k \in Keys : TmpSize'[k] \in Nat
      BY <1>5 DEF TmpSize, Tmps
    <3> HIDE DEF young
    <3>6. Bytes(TmpSize', Keys) = Bytes(TmpSize', young) + Bytes(TmpSize', Keys \ young)
      BY <1>3, <3>5, KeysAssumption, BytesSplit
    <3> QED
      BY <1>8, <3>2, <3>4, <3>6
  <2>5. Owned' = 0
    BY <1>1 DEF Owned, Free
  <2>6. total' = Bytes(lru', Keys) + Bytes(TmpSize', Keys) - Owned'
    BY <1>2, <1>8, <2>3, <2>4, <2>5
  <2>7. count' = Cardinality(Tracked')
    BY <1>2, <1>4
  <2> QED
    BY <2>2, <2>6, <2>7 DEF Counted
<1> QED
  BY <1>9, <1>10, <1>11, <1>12

(* Time ages files and changes no size. *)
LEMMA TickStep ==
    ASSUME CacheInv, Tick
    PROVE  CacheInv'
<1> USE DEF CacheInv
<1>1. UNCHANGED <<alive, file, lru, older, total, count, request, put, job, torn, faults>>
  BY DEF Tick, books
<1>2. \A a \in 0 .. Horizon : Older(a) \in 0 .. Horizon
  BY HorizonType DEF Older
<1>3. /\ meta' \in [Keys -> Metas]
      /\ \A k \in Keys : meta'[k].kind = meta[k].kind /\ meta'[k].size = meta[k].size
  BY <1>2 DEF Tick, Shape, Metas
<1>4. /\ tmp' \in [Keys -> Tmps]
      /\ \A k \in Keys : tmp'[k].whole = tmp[k].whole /\ tmp'[k].size = tmp[k].size
  BY <1>2 DEF Tick, Shape, Tmps
<1>5. Shape'
  BY <1>1, <1>3, <1>4 DEF Shape, Tracked
<1>6. Whole'
  BY <1>1, <1>4, PutFacts DEF Whole, Present, HitsAreWhole
<1>7. Paired'
  BY <1>1, <1>3 DEF Paired, Present, Ahead
<1>8. TmpSize' = TmpSize /\ Tracked' = Tracked
  BY <1>1, <1>4 DEF TmpSize, Tracked
<1>9. Owned' = Owned
  BY <1>1, <1>4, PutFacts DEF Owned
<1>10. UNCHANGED <<Bytes(lru, Keys), Bytes(TmpSize, Keys)>>
  BY <1>1, <1>8
<1>11. Counted'
  BY <1>1, <1>8, <1>9, <1>10 DEF Counted, Ahead
<1> QED
  BY <1>5, <1>6, <1>7, <1>11

-----------------------------------------------------------------------------
(* The invariant *)

(* A new worker has an empty cache. *)
LEMMA CacheInit == Init => CacheInv
<1> SUFFICES ASSUME Init PROVE CacheInv
  OBVIOUS
<1>1. Tracked = {} /\ older \in Orders(Tracked)
  BY DEF Init, Tracked, Orders
<1>2. Shape
  <2>1. file \in [Keys -> Copies] /\ lru \in [Keys -> Nat]
    BY DEF Init, Copies, NoFile
  <2>2. tmp \in [Keys -> Tmps] /\ meta \in [Keys -> Metas]
    BY HorizonType DEF Init, Tmps, Metas, NoTmp, NoMeta
  <2>3. put \in {Free} \cup Puts
    BY DEF Init
  <2>4. job \in [Slots -> Jobs]
    BY DEF Init, Jobs
  <2>5. faults \in 0 .. MaxFaults /\ total \in Int /\ count \in Nat
    BY AgesAssumption DEF Init
  <2>6. alive \in BOOLEAN /\ request \in BOOLEAN /\ torn \in BOOLEAN
    BY DEF Init
  <2> QED
    BY <1>1, <2>1, <2>2, <2>3, <2>4, <2>5, <2>6 DEF Shape
<1>3. Whole
  BY DEF Init, Whole, HitsAreWhole, Present, NoFile, NoJob, Free
<1>4. Paired
  BY DEF Init, Paired, Present, Ahead, NoFile, NoMeta, Free
<1>5. Bytes(lru, Keys) = 0 /\ Bytes(TmpSize, Keys) = 0
  <2>1. \A k \in Keys : lru[k] = 0
    BY DEF Init
  <2>2. \A k \in Keys : TmpSize[k] = 0
    BY DEF Init, TmpSize, NoTmp
  <2> QED
    BY <2>1, <2>2, BytesZero
<1>6. Owned = 0
  BY DEF Init, Owned, Free
<1>7. Counted
  BY <1>1, <1>5, <1>6, FS_EmptySet DEF Init, Counted, NoFile
<1> QED
  BY <1>2, <1>3, <1>4, <1>7 DEF CacheInv

(* Every step of jobs, Puts, eviction loops, process and clock keeps it. *)
LEMMA CacheStep == CacheInv /\ [Next]_vars => CacheInv'
<1> SUFFICES ASSUME CacheInv, [Next]_vars PROVE CacheInv'
  OBVIOUS
<1>1. ASSUME NEW s \in Slots, NEW k \in Keys, Check(s, k) PROVE CacheInv'
  BY <1>1, CheckStep
<1>2. ASSUME NEW s \in Slots, CopyOut(s) PROVE CacheInv'
  BY <1>2, CopyOutStep
<1>3. ASSUME NEW s \in Slots, Degrade(s) PROVE CacheInv'
  BY <1>3, DegradeStep
<1>4. ASSUME NEW s \in Slots, ConfirmHit(s) PROVE CacheInv'
  BY <1>4, ConfirmHitStep
<1>5. ASSUME NEW s \in Slots, Abandon(s) PROVE CacheInv'
  BY <1>5, AbandonStep
<1>6. ASSUME NEW s \in Slots, NEW n \in Sizes, PutBegin(s, n) PROVE CacheInv'
  BY <1>6, PutBeginStep
<1>7. CASE evictLRUIfNeeded
  BY <1>7, EvictLRUKeeps DEF evictLRUIfNeeded
<1>8. CASE LRUTick
  BY <1>8, EvictLRUKeeps DEF LRUTick, CacheInv, Shape
<1>9. CASE UNCHANGED vars
  <2>1. HitsAreWhole'
    BY <1>9 DEF vars, CacheInv, Whole, HitsAreWhole
  <2>2. Shape'
    BY <1>9 DEF vars, disk, books, CacheInv, Shape, Tracked
  <2> QED
    BY <1>9, <2>1, <2>2, JobFrame DEF vars, CacheInv
<1> QED
  BY <1>1, <1>2, <1>3, <1>4, <1>5, <1>6, <1>7, <1>8, <1>9, PutCopyStep, PutCopyFailsStep,
     PutRenameStep, PutFinishStep, PutMetaFailsStep, evictExpiredStep, CrashStep,
     scanExistingStep, TickStep DEF Next

(* The invariant holds in every reachable state of the cache. *)
LEMMA CacheInvariance == Spec => []CacheInv
BY CacheInit, CacheStep, PTL DEF Spec

-----------------------------------------------------------------------------
(* Theorems *)

(* Every operation of the cache keeps its state well formed: the entries   *)
(* stay in one strict order of last use, whatever was touched, re-cached   *)
(* or evicted.                                                             *)
THEOREM CacheTypeCorrect == Spec => []TypeOK
<1>1. CacheInv => TypeOK
  <2> SUFFICES ASSUME CacheInv PROVE TypeOK
    OBVIOUS
  <2>1. put.pc \in {"free", "copy", "rename", "meta"}
    BY PutFacts DEF CacheInv, Puts
  <2>2. \A s \in Slots : job[s].pc \in {"idle", "hit", "copied", "miss"}
    BY DEF CacheInv, Shape, Jobs, NoJob
  <2> QED
    BY <2>1, <2>2 DEF CacheInv, Shape, TypeOK, Tmps, Metas
<1> QED
  BY <1>1, CacheInvariance, PTL

(* Check and the copy run without a common lock, yet no job is handed a    *)
(* part of an output: a data file is whole from the rename that makes it.  *)
THEOREM CachedOutputsAreWhole == Spec => []HitsAreWhole
<1>1. CacheInv => HitsAreWhole
  BY DEF CacheInv, Whole
<1> QED
  BY <1>1, CacheInvariance, PTL

(* Put, Check, both eviction loops, a crash in a copy and the scan after a *)
(* restart keep CurrentSizeBytes and EntryCount exact.                     *)
THEOREM BooksAgreeWithDisk == Spec => []BookedExactly
<1>1. CacheInv => BookedExactly
  <2> SUFFICES ASSUME CacheInv, Unlocked, ~torn
               PROVE  /\ total = Bytes(lru, Keys) + Bytes(TmpSize, Keys)
                      /\ count = Cardinality(Tracked)
                      /\ Tracked = {k \in Keys : Present(k)}
                      /\ \A k \in Tracked : /\ meta[k].kind = "ok"
                                            /\ {file[k].size, meta[k].size} = {lru[k]}
    BY DEF BookedExactly
  <2>1. \A k \in Keys : ~Ahead(k) /\ alive
    BY DEF Unlocked, Ahead, Free
  <2>2. \A k \in Keys : lru[k] = file[k].size
    BY <2>1 DEF CacheInv, Counted, Unlocked
  <2>3. Owned = 0
    BY DEF Unlocked, Owned, Free
  <2>4. total = Bytes(lru, Keys) + Bytes(TmpSize, Keys) - 0 /\ count = Cardinality(Tracked)
    BY <2>3 DEF CacheInv, Counted, Unlocked
  <2>5. Bytes(lru, Keys) \in Nat /\ Bytes(TmpSize, Keys) \in Nat
    BY SumTypes DEF CacheInv
  <2>6. Tracked = {k \in Keys : Present(k)}
    BY <2>2 DEF Tracked, Present
  <2>7. \A k \in Tracked : meta[k].kind = "ok" /\ meta[k].size = file[k].size
    BY <2>1, <2>6 DEF CacheInv, Paired
  <2>8. \A k \in Tracked : {file[k].size, meta[k].size} = {lru[k]}
    BY <2>2, <2>7 DEF Tracked
  <2>9. total = Bytes(lru, Keys) + Bytes(TmpSize, Keys)
    BY <2>4, <2>5
  <2> QED
    BY ONLY <2>4, <2>6, <2>7, <2>8, <2>9, Zenon
<1> QED
  BY <1>1, CacheInvariance, PTL

=============================================================================
