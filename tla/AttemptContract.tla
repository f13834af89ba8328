-------------------------- MODULE AttemptContract --------------------------
(***************************************************************************)
(* What a worker promises the server about a dispatched job, and all that  *)
(* Cluster assumes of processJob: an attempt prepares, runs ffmpeg only    *)
(* while the server still holds the job open for it, and ends once, with a *)
(* report its stage allows (Cluster's Outcome) or with the death of its    *)
(* worker.  The job is settled by its client or by the report of the       *)
(* attempt that owns it, and is settled once.  Execution implements it.    *)
(***************************************************************************)
CONSTANT Workers

VARIABLES
    stage,    \* stage[w]: "none", "prep" or "run"
    doomed,   \* doomed[w]: the context of w's attempt is cancelled
    report,   \* report[w]: how w's latest attempt ended
    owner,    \* the worker the job is assigned to
    verdict   \* what the server settled on, "none" until then

vars == <<stage, doomed, report, owner, verdict>>

Silent == [status |-> "none", class |-> "none"]

\* A run that was cut short is a timeout whatever its class: stderr text on
\* exhausted memory outranks the budget.
Classes(s) == CASE s \in {"completed", "cancelled"} -> {"none"}
                [] s = "timeout" -> {"TIMEOUT", "WORKER_CRASH"}
                [] s = "failed"  -> {"FFMPEG_ERROR", "INFRA", "WORKER_CRASH"}

\* Nothing times out before ffmpeg runs, and nothing is reported cancelled
\* whose context is not.
MayEnd(st, dm, s) ==
    \/ st = "prep" /\ s \in {"completed", "failed"}
    \/ st = "run" /\ s \in {"completed", "failed", "timeout"}
    \/ st # "none" /\ dm /\ s = "cancelled"

Set(w, st, dm, r) ==
    /\ stage' = [stage EXCEPT ![w] = st]
    /\ doomed' = [doomed EXCEPT ![w] = dm]
    /\ report' = [report EXCEPT ![w] = r]

Init ==
    /\ stage = [w \in Workers |-> "none"]
    /\ doomed = [w \in Workers |-> FALSE]
    /\ report = [w \in Workers |-> Silent]
    /\ owner = "none" /\ verdict = "none"

Begin(w) ==
    /\ stage[w] = "none" /\ verdict = "none"
    /\ owner' = w
    /\ Set(w, "prep", FALSE, Silent)
    /\ UNCHANGED verdict

Cancel ==
    /\ verdict = "none"
    /\ verdict' = "cancelled"
    /\ UNCHANGED <<stage, doomed, report, owner>>

Doom(w) ==
    /\ stage[w] # "none" /\ ~doomed[w]
    /\ Set(w, stage[w], TRUE, report[w])
    /\ UNCHANGED <<owner, verdict>>

Execute(w) ==
    /\ stage[w] = "prep" /\ owner = w /\ verdict = "none"
    /\ Set(w, "run", doomed[w], report[w])
    /\ UNCHANGED <<owner, verdict>>

\* The report may be lost, and is refused unless it comes from the owner of
\* an open job.
End(w, s, c) ==
    /\ MayEnd(stage[w], doomed[w], s) /\ c \in Classes(s)
    /\ Set(w, "none", FALSE, [status |-> s, class |-> c])
    /\ \/ verdict' = verdict
       \/ owner = w /\ verdict = "none" /\ verdict' = s
    /\ UNCHANGED owner

Die(w) ==
    /\ stage[w] # "none"
    /\ Set(w, "none", FALSE, Silent)
    /\ UNCHANGED <<owner, verdict>>

Next ==
    \/ Cancel
    \/ \E w \in Workers :
         \/ Begin(w) \/ Doom(w) \/ Execute(w) \/ Die(w)
         \/ \E s \in {"completed", "failed", "timeout", "cancelled"} :
              \E c \in Classes(s) : End(w, s, c)

Spec == Init /\ [][Next]_vars
=============================================================================
