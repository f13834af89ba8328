----------------------------- MODULE MCJobStore -----------------------------
(* JobStore on a small instance: two worker ids that share one name, so that *)
(* a registration can delete the other's row.                                *)
EXTENDS JobStore

MCName == [w \in Workers |-> "encoder-box"]
MCMaxConcurrent == [w \in Workers |-> 1]
=============================================================================
