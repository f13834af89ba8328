----------------------------- MODULE Admission -----------------------------
(***************************************************************************)
(* How the server admits work: the per-client job counter of               *)
(* pkg/server/ratelimit, the two endpoints it guards (POST /jobs and the   *)
(* synchronous POST /probe), and the terminal notification every verdict   *)
(* ends with, which releases the slot of a job and wakes the probe that    *)
(* waits for it.  Jobs themselves behave as JobLifecycle allows; JobStore  *)
(* is shown to implement it.                                               *)
(***************************************************************************)
EXTENDS Integers, FiniteSets

CONSTANTS
    Jobs, Workers, NULL,
    Clients,            \* client ids, one per bearer token
    Requests,           \* goroutines serving a submission or a probe
    Limits,             \* values max_concurrent_jobs_per_client may take
    RateLimitEnabled,   \* the configuration the server starts with
    AdminMay,           \* what PATCH /admin/config changes: "enabled", "limit"
    MaxFaults           \* bound on restarts and database errors

VARIABLES
    life,       \* the jobs, as in JobLifecycle
    notice,     \* what is left of NotifyTerminal: "hook", "notify" or "none"
    counts,     \* InMemoryCounter.counts; a missing key is 0
    jobClient,  \* InMemoryCounter.jobClient; a missing key is NULL
    config,     \* RuntimeConfig
    req,        \* the request each goroutine serves
    owner,      \* who submitted a job, since the last start (history only)
    faults

Life == INSTANCE JobLifecycle

vars == <<life, notice, counts, jobClient, config, req, owner, faults>>

ASSUME MaxFaultsAssumption == MaxFaults \in Nat
ASSUME LimitsAssumption == Limits \subseteq Nat \ {0}
ASSUME EnabledAssumption == RateLimitEnabled \in BOOLEAN
ASSUME FiniteAssumption == IsFiniteSet(Jobs) /\ IsFiniteSet(Requests)
ASSUME NullAssumption == NULL \notin Jobs /\ NULL \notin Clients /\ NULL \notin Workers

Idle == [stage |-> "idle", client |-> NULL, kind |-> "submit", charged |-> FALSE,
         limit |-> 0, job |-> NULL, woken |-> FALSE]

Live(j) == life[j].phase \in {"waiting", "held"}

Settled(j) == life[j].phase = "settled"

Init ==
    /\ life = [j \in Jobs |-> Life!New]
    /\ notice = [j \in Jobs |-> "none"]
    /\ counts = [c \in Clients |-> 0]
    /\ jobClient = [j \in Jobs |-> NULL]
    /\ config \in [enabled : {RateLimitEnabled}, limit : Limits]
    /\ req = [r \in Requests |-> Idle]
    /\ owner = [j \in Jobs |-> NULL]
    /\ faults = 0

-----------------------------------------------------------------------------
(* The counter.  Decrement never goes below zero: the key is deleted. *)

Less(n) == IF n <= 1 THEN 0 ELSE n - 1

Decrement(c) == counts' = [counts EXCEPT ![c] = Less(@)]

DecrementByJob(j) ==
    IF jobClient[j] = NULL
    THEN UNCHANGED <<counts, jobClient>>
    ELSE /\ jobClient' = [jobClient EXCEPT ![j] = NULL]
         /\ Decrement(jobClient[j])

(* the middleware gives the slot of a failing request back, if it took one *)
GiveBack(r) == IF req[r].charged THEN Decrement(req[r].client) ELSE UNCHANGED counts

-----------------------------------------------------------------------------
(* The middlewares: read the configuration, then reserve a slot. *)

At(r, stage, kind) == req[r].stage = stage /\ req[r].kind = kind

Enter(r, c, kind) ==
    /\ req[r].stage = "idle"
    /\ req' = [req EXCEPT ![r] =
                 [Idle EXCEPT !.stage = IF config.enabled THEN "admit" ELSE "handler",
                              !.client = c, !.kind = kind, !.limit = config.limit]]
    /\ UNCHANGED <<life, notice, counts, jobClient, config, owner, faults>>

(* mutant: off by one at the limit *)
TryIncrementOneMore(r) ==
    /\ req[r].stage = "admit"
    /\ LET c == req[r].client IN
       IF counts[c] > req[r].limit
       THEN /\ req' = [req EXCEPT ![r] = Idle]
            /\ UNCHANGED counts
       ELSE /\ counts' = [counts EXCEPT ![c] = @ + 1]
            /\ req' = [req EXCEPT ![r].stage = "handler", ![r].charged = TRUE]
    /\ UNCHANGED <<life, notice, jobClient, config, owner, faults>>

TryIncrement(r) ==
    /\ req[r].stage = "admit"
    /\ LET c == req[r].client IN
       IF counts[c] >= req[r].limit
       THEN /\ req' = [req EXCEPT ![r] = Idle]          \* 429
            /\ UNCHANGED counts
       ELSE /\ counts' = [counts EXCEPT ![c] = @ + 1]
            /\ req' = [req EXCEPT ![r].stage = "handler", ![r].charged = TRUE]
    /\ UNCHANGED <<life, notice, jobClient, config, owner, faults>>

-----------------------------------------------------------------------------
(* SubmitJob *)

(* mutant: no rollback when the handler fails *)
RefuseSubmitKeepingSlot(r) ==
    /\ At(r, "handler", "submit")
    /\ req' = [req EXCEPT ![r] = Idle]
    /\ UNCHANGED <<life, notice, counts, jobClient, config, owner, faults>>

(* an invalid request, no worker, or an insert that failed: not 2xx *)
RefuseSubmit(r) ==
    /\ At(r, "handler", "submit")
    /\ GiveBack(r)
    /\ req' = [req EXCEPT ![r] = Idle]
    /\ UNCHANGED <<life, notice, jobClient, config, owner, faults>>

(* no worker has the encoder: the job is inserted as failed; its notification
   finds no mapping and no waiter *)
RejectEncoder(r, j) ==
    /\ At(r, "handler", "submit")
    /\ life[j] = Life!New
    /\ life' = [life EXCEPT ![j] = Life!SettledAs("failed")]
    /\ req' = [req EXCEPT ![r].stage = "rejected"]
    /\ UNCHANGED <<notice, counts, jobClient, config, owner, faults>>

(* mutant: a rejected submission keeps its slot *)
ReleaseRejectedNothing(r) ==
    /\ At(r, "rejected", "submit")
    /\ req' = [req EXCEPT ![r] = Idle]
    /\ UNCHANGED <<life, notice, counts, jobClient, config, owner, faults>>

(* then the handler releases the slot itself, since it answers 200 *)
ReleaseRejected(r) ==
    /\ At(r, "rejected", "submit")
    /\ Decrement(req[r].client)
    /\ req' = [req EXCEPT ![r] = Idle]
    /\ UNCHANGED <<life, notice, jobClient, config, owner, faults>>

CreateJob(r, j) ==
    /\ At(r, "handler", "submit")
    /\ life[j] = Life!New
    /\ life' = [life EXCEPT ![j] = Life!Waiting]
    /\ owner' = [owner EXCEPT ![j] = req[r].client]
    /\ req' = [req EXCEPT ![r].stage = "created", ![r].job = j]
    /\ UNCHANGED <<notice, counts, jobClient, config, faults>>

(* the job of a submission or a probe is inserted but reading it back fails:
   the client is told that nothing was created *)
CreateJobReadFails(r, j) ==
    /\ req[r].stage = "handler"
    /\ faults < MaxFaults
    /\ faults' = faults + 1
    /\ life[j] = Life!New
    /\ life' = [life EXCEPT ![j] = Life!Waiting]
    /\ GiveBack(r)
    /\ req' = [req EXCEPT ![r] = Idle]
    /\ UNCHANGED <<notice, jobClient, config, owner>>

(* the mapping is registered after the job became visible, and whether or not
   the middleware charged the request *)
RegisterJob(r) ==
    /\ At(r, "created", "submit")
    /\ jobClient' = [jobClient EXCEPT ![req[r].job] = req[r].client]
    /\ req' = [req EXCEPT ![r] = Idle]
    /\ UNCHANGED <<life, notice, counts, config, owner, faults>>

-----------------------------------------------------------------------------
(* Probe and waitForProbeTerminal.  However the handler returns, the deferred
   calls drop the subscription and release the slot. *)

Return(r) == GiveBack(r) /\ req' = [req EXCEPT ![r] = Idle]

(* an invalid request, no worker, or a database error, also while waiting *)
RefuseProbe(r) ==
    /\ At(r, "handler", "probe") \/ At(r, "check", "probe")
    /\ Return(r)
    /\ UNCHANGED <<life, notice, jobClient, config, owner, faults>>

(* mutant: the waiter is not told which job it waits for *)
CreateProbeJobUnnamed(r, j) ==
    /\ At(r, "handler", "probe")
    /\ life[j] = Life!New
    /\ life' = [life EXCEPT ![j] = Life!Waiting]
    /\ req' = [req EXCEPT ![r].stage = "inserted"]
    /\ UNCHANGED <<notice, counts, jobClient, config, owner, faults>>

CreateProbeJob(r, j) ==
    /\ At(r, "handler", "probe")
    /\ life[j] = Life!New
    /\ life' = [life EXCEPT ![j] = Life!Waiting]
    /\ req' = [req EXCEPT ![r].stage = "inserted", ![r].job = j]
    /\ UNCHANGED <<notice, counts, jobClient, config, owner, faults>>

Subscribe(r) ==
    /\ At(r, "inserted", "probe")
    /\ req' = [req EXCEPT ![r].stage = "check"]
    /\ UNCHANGED <<life, notice, counts, jobClient, config, owner, faults>>

(* GetJob: answer a settled job, else go on to the select with what was read *)
CheckProbe(r) ==
    /\ At(r, "check", "probe")
    /\ IF Settled(req[r].job)
       THEN Return(r)
       ELSE /\ req' = [req EXCEPT ![r].stage = "read"]
            /\ UNCHANGED counts
    /\ UNCHANGED <<life, notice, jobClient, config, owner, faults>>

Block(r) ==
    /\ At(r, "read", "probe")
    /\ req' = [req EXCEPT ![r].stage = "wait"]
    /\ UNCHANGED <<life, notice, counts, jobClient, config, owner, faults>>

Woken(r) ==
    /\ At(r, "wait", "probe")
    /\ req[r].woken
    /\ req' = [req EXCEPT ![r].stage = "check", ![r].woken = FALSE]
    /\ UNCHANGED <<life, notice, counts, jobClient, config, owner, faults>>

(* the budget is spent: 504, the job goes on *)
ProbeBudget(r) ==
    /\ At(r, "wait", "probe")
    /\ Return(r)
    /\ UNCHANGED <<life, notice, jobClient, config, owner, faults>>

(* the client is gone: its job is cancelled, unless it just ended *)
ProbeGone(r) ==
    /\ At(r, "wait", "probe")
    /\ LET j == req[r].job IN
       IF Live(j)
       THEN /\ life' = [life EXCEPT ![j] = Life!SettledAs("cancelled")]
            /\ notice' = [notice EXCEPT ![j] = "hook"]
       ELSE UNCHANGED <<life, notice>>
    /\ Return(r)
    /\ UNCHANGED <<jobClient, config, owner, faults>>

-----------------------------------------------------------------------------
(* What happens to an inserted job, by whichever writer: any legal step.  A
   verdict is followed by NotifyTerminal in the writer's goroutine: first the
   quota hook, then the waiters. *)

JobStep(j, b) ==
    /\ life[j] # Life!New
    /\ b # life[j]
    /\ Life!LegalStep(life[j], b)
    /\ life' = [life EXCEPT ![j] = b]
    /\ notice' = [notice EXCEPT ![j] = IF b.phase = "settled" THEN "hook" ELSE @]
    /\ UNCHANGED <<counts, jobClient, config, req, owner, faults>>

TerminalHook(j) ==
    /\ notice[j] = "hook"
    /\ DecrementByJob(j)
    /\ notice' = [notice EXCEPT ![j] = "notify"]
    /\ UNCHANGED <<life, config, req, owner, faults>>

(* the channel has room for one wake-up, so it is kept for a subscriber that
   is not blocked yet *)
Subscribed(r, j) == req[r].job = j /\ req[r].stage \in {"check", "read", "wait"}

(* mutant: a channel without a buffer *)
NotifyUnbuffered(j) ==
    /\ notice[j] = "notify"
    /\ notice' = [notice EXCEPT ![j] = "none"]
    /\ req' = [r \in Requests |->
                 IF Subscribed(r, j) /\ req[r].stage = "wait"
                 THEN [req[r] EXCEPT !.woken = TRUE] ELSE req[r]]
    /\ UNCHANGED <<life, counts, jobClient, config, owner, faults>>

Notify(j) ==
    /\ notice[j] = "notify"
    /\ notice' = [notice EXCEPT ![j] = "none"]
    /\ req' = [r \in Requests |->
                 IF Subscribed(r, j) THEN [req[r] EXCEPT !.woken = TRUE] ELSE req[r]]
    /\ UNCHANGED <<life, counts, jobClient, config, owner, faults>>

-----------------------------------------------------------------------------
(* PATCH /admin/config; a value that is not positive is ignored *)
UpdateConfig(cfg) ==
    /\ cfg # config
    /\ cfg.enabled # config.enabled => "enabled" \in AdminMay
    /\ cfg.limit # config.limit => "limit" \in AdminMay
    /\ config' = cfg
    /\ UNCHANGED <<life, notice, counts, jobClient, req, owner, faults>>

(* the counters, requests and pending notifications are memory; held jobs are
   requeued *)
Restart ==
    /\ faults < MaxFaults
    /\ faults' = faults + 1
    /\ life' = [j \in Jobs |-> IF life[j].phase = "held" THEN Life!Waiting ELSE life[j]]
    /\ notice' = [j \in Jobs |-> "none"]
    /\ counts' = [c \in Clients |-> 0]
    /\ jobClient' = [j \in Jobs |-> NULL]
    /\ config' \in [enabled : {RateLimitEnabled}, limit : Limits]
    /\ req' = [r \in Requests |-> Idle]
    /\ owner' = [j \in Jobs |-> NULL]

SubmitNext(r) ==
    \/ RefuseSubmit(r)
    \/ ReleaseRejected(r)
    \/ RegisterJob(r)
    \/ \E j \in Jobs : RejectEncoder(r, j) \/ CreateJob(r, j)

ProbeNext(r) ==
    \/ RefuseProbe(r)
    \/ \E j \in Jobs : CreateProbeJob(r, j)
    \/ Subscribe(r)
    \/ CheckProbe(r)
    \/ Block(r)
    \/ Woken(r)
    \/ ProbeBudget(r)
    \/ ProbeGone(r)

Next ==
    \/ \E r \in Requests :
         \/ \E c \in Clients, kind \in {"submit", "probe"} : Enter(r, c, kind)
         \/ TryIncrement(r)
         \/ SubmitNext(r)
         \/ ProbeNext(r)
         \/ \E j \in Jobs : CreateJobReadFails(r, j)
    \/ \E j \in Jobs :
         \/ \E b \in Life!Lives : JobStep(j, b)
         \/ TerminalHook(j)
         \/ Notify(j)
    \/ \E cfg \in [enabled : BOOLEAN, limit : Limits] : UpdateConfig(cfg)
    \/ Restart

Spec == Init /\ [][Next]_vars

(* A goroutine that can run does run: a probe that is not blocked, and a writer
   that has given a verdict.  Nothing is assumed of the probe's budget. *)
FairSpec ==
    /\ Spec
    /\ \A r \in Requests :
         /\ WF_vars(Subscribe(r)) /\ WF_vars(CheckProbe(r))
         /\ WF_vars(Block(r)) /\ WF_vars(Woken(r))
    /\ \A j \in Jobs : WF_vars(TerminalHook(j)) /\ WF_vars(Notify(j))
-----------------------------------------------------------------------------
(* Properties *)

Stages == {"idle", "admit", "handler", "rejected", "created", "inserted", "check", "read", "wait"}

ReqRow == [stage : Stages, client : Clients \cup {NULL}, kind : {"submit", "probe"},
           charged : BOOLEAN, limit : Limits \cup {0}, job : Jobs \cup {NULL}, woken : BOOLEAN]

(* Counters, requests and configuration hold values of their types; a request
   that is being served has a client, and a job once it has inserted one. *)
TypeOK ==
    /\ life \in [Jobs -> Life!Lives]
    /\ notice \in [Jobs -> {"none", "hook", "notify"}]
    /\ counts \in [Clients -> Nat]
    /\ jobClient \in [Jobs -> Clients \cup {NULL}]
    /\ config \in [enabled : BOOLEAN, limit : Limits]
    /\ req \in [Requests -> ReqRow]
    /\ \A r \in Requests :
         /\ req[r].stage # "idle" => req[r].client \in Clients /\ req[r].limit \in Limits
         /\ req[r].stage \in {"created", "inserted", "check", "read", "wait"} => req[r].job \in Jobs
    /\ owner \in [Jobs -> Clients \cup {NULL}]
    /\ faults \in 0..MaxFaults

(* the jobs whose slot the counter knows how to release, and the requests that
   still carry their slot themselves *)
Mapped(c)  == {j \in Jobs : jobClient[j] = c}
Charged(c) == {r \in Requests : req[r].charged /\ req[r].client = c}

(* The counter never charges a client for more than the jobs it has mapped and
   the requests in flight, whatever an administrator switches on and off: no
   429 without a reason the counter could name (ratelimit/counter.go). *)
NeverOvercharged ==
    \A c \in Clients : counts[c] <= Cardinality(Mapped(c)) + Cardinality(Charged(c))

(* While rate limiting stays on the ledger is exact: every unit of a client's
   count is one mapped job or one request in flight, so each failure path gives
   back precisely the slot its own request took (README.md:199). *)
LedgerExact ==
    \A c \in Clients : counts[c] = Cardinality(Mapped(c)) + Cardinality(Charged(c))

LiveOf(c)   == {j \in Jobs : owner[j] = c /\ Live(j)}
ProbesOf(c) == {r \in Charged(c) : req[r].kind = "probe"}

(* While rate limiting stays on, a client's accepted live jobs and open probes
   together never exceed the largest limit the server was configured with, however
   failing submissions, probes and verdicts interleave. *)
LimitHolds ==
    \A c \in Clients : \E l \in Limits :
        Cardinality(LiveOf(c)) + Cardinality(ProbesOf(c)) <= l

(* The check-then-block race of waitForProbeTerminal: a probe that has read its
   job as unsettled and is blocked, or about to block, is never left with a
   settled job and nobody to wake it; either the wake-up is in its channel
   already or the writer of the verdict has yet to notify. *)
NoLostWakeup ==
    \A r \in Requests :
        req[r].stage \in {"read", "wait"} /\ Settled(req[r].job) =>
            req[r].woken \/ notice[req[r].job] # "none"

(* A probe whose job is settled is answered, without the help
   of its two-minute budget (handlers/probe.go waitForProbeTerminal). *)
ProbeAnswered ==
    \A r \in Requests, j \in Jobs :
        (req[r].job = j /\ req[r].kind = "probe" /\ Settled(j)) ~> (req[r].job # j)

(* nothing of the client is running or about to end *)
Quiet(c) ==
    /\ \A r \in Requests : req[r].client # c
    /\ \A j \in Jobs : notice[j] = "none" /\ (owner[j] = c => ~Live(j))

(* What rateLimiterWithTerminalHook's comment promises (handlers/handlers.go:84):
   a job that ends on any path frees its slot, so once nothing of a client is
   running its count is zero again. *)
SlotsFreed == \A c \in Clients : Quiet(c) => counts[c] = 0
=============================================================================
