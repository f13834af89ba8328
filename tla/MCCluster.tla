----------------------------- MODULE MCCluster -----------------------------
(* Cluster on small instances: every worker declares one slot, the default of *)
(* max_concurrent.                                                            *)
EXTENDS Cluster, TLC

MCName == [w \in Workers |-> w]
MCMaxConcurrent == [w \in Workers |-> 1]

(* no encoder requested *)
AnyWorker == [j \in Jobs |-> <<Workers>>]

(* nobody has the requested encoder, gpu has a compatible one *)
GpuFallback == [j \in Jobs |-> <<{}, {"gpu"}>>]

(* the requested encoder is only on gpu, nobody has a compatible one *)
GpuOnly == [j \in Jobs |-> <<{"gpu"}>>]

(* once every job is terminal no worker starts anything *)
Unsettled == \E j \in Jobs : ~Terminal(j)

MCSymmetry == Permutations(Jobs) \cup Permutations(Workers)
=============================================================================
