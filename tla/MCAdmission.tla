---------------------------- MODULE MCAdmission ----------------------------
(* Admission on small instances. *)
EXTENDS Admission, TLC

MCSymmetry == Permutations(Jobs) \cup Permutations(Requests)

(* which verdict a job got and which worker holds it decide nothing here *)
MCView == <<[j \in Jobs |-> life[j].phase], notice, counts, jobClient, config, req, owner, faults>>
=============================================================================
