-------------------------- MODULE AdmissionProofs --------------------------
(***************************************************************************)
(* The counter of Admission never overcharges a client, and while rate     *)
(* limiting stays on its ledger is exact and the limit holds, for any      *)
(* number of clients, requests and jobs.                                   *)
(***************************************************************************)
EXTENDS Admission, FiniteSetTheorems, TLAPS

(* who refers to a job, and which requests carry a slot *)
Refs ==
    /\ \A r \in Requests : req[r].stage \in {"idle", "admit"} => ~req[r].charged
    /\ \A r \in Requests : req[r].stage \in {"idle", "admit", "handler", "rejected"} => req[r].job = NULL
    /\ \A r \in Requests : req[r].stage = "created" => jobClient[req[r].job] = NULL
    /\ \A r \in Requests, q \in Requests : req[r].job = req[q].job /\ req[r].job # NULL => r = q
    /\ \A j \in Jobs : life[j] = Life!New =>
         /\ jobClient[j] = NULL
         /\ owner[j] = NULL
         /\ \A r \in Requests : req[r].job # j

Inv == TypeOK /\ Refs /\ NeverOvercharged

(* an administrator never switches rate limiting off *)
AlwaysOn == RateLimitEnabled /\ "enabled" \notin AdminMay

(* every request past the middleware carries a slot, no count exceeds every
   limit, and a live job is mapped to its owner or about to be *)
AllCharged == \A r \in Requests : req[r].stage \notin {"idle", "admit"} => req[r].charged

Bounded == \A c \in Clients : \E l \in Limits : counts[c] <= l

HookMeansSettled == \A j \in Jobs : notice[j] = "hook" => Settled(j)

AboutToMap(j, c) ==
    \E r \in Requests : /\ req[r].stage = "created" /\ req[r].kind = "submit"
                        /\ req[r].job = j /\ req[r].client = c

Covered == \A j \in Jobs :
    Live(j) /\ owner[j] # NULL => jobClient[j] = owner[j] \/ AboutToMap(j, owner[j])

OnInv == config.enabled /\ AllCharged /\ LedgerExact /\ Bounded /\ HookMeansSettled /\ Covered

-----------------------------------------------------------------------------
(* Counting: what a change of one row does to the two sides of the ledger *)

(* subsets S and T of a finite set that differ at most in a *)
LEMMA CountChange ==
    ASSUME NEW D, IsFiniteSet(D), NEW a \in D, NEW S \in SUBSET D, NEW T \in SUBSET D,
           \A x \in D \ {a} : x \in S <=> x \in T
    PROVE  /\ Cardinality(S) \in Nat
           /\ Cardinality(T) \in Nat
           /\ (a \in S <=> a \in T) => Cardinality(T) = Cardinality(S)
           /\ a \in S /\ a \notin T => Cardinality(T) = Cardinality(S) - 1
           /\ a \notin S /\ a \in T => Cardinality(T) = Cardinality(S) + 1
<1>1. IsFiniteSet(S) /\ IsFiniteSet(T)
  BY FS_Subset
<1>2. Cardinality(S) \in Nat /\ Cardinality(T) \in Nat
  BY <1>1, FS_CardinalityType
<1>3. (a \in S <=> a \in T) => Cardinality(T) = Cardinality(S)
  <2>1. (a \in S <=> a \in T) => S = T
    OBVIOUS
  <2> QED
    BY <2>1
<1>4. a \in S /\ a \notin T => Cardinality(T) = Cardinality(S) - 1
  <2> SUFFICES ASSUME a \in S, a \notin T PROVE Cardinality(T) = Cardinality(S) - 1
    OBVIOUS
  <2>1. T = S \ {a}
    OBVIOUS
  <2>2. Cardinality(S \ {a}) = Cardinality(S) - 1
    BY <1>1, FS_RemoveElement
  <2> QED
    BY <2>1, <2>2
<1>5. a \notin S /\ a \in T => Cardinality(T) = Cardinality(S) + 1
  <2> SUFFICES ASSUME a \notin S, a \in T PROVE Cardinality(T) = Cardinality(S) + 1
    OBVIOUS
  <2>1. T = S \cup {a}
    OBVIOUS
  <2>2. Cardinality(S \cup {a}) = Cardinality(S) + 1
    BY <1>1, FS_AddElement
  <2> QED
    BY <2>1, <2>2
<1> QED
  BY <1>2, <1>3, <1>4, <1>5

(* a row that carries a slot of client c *)
Carries(row, c) == row.charged /\ row.client = c

(* one request changes: the charged requests of a client, before and after *)
LEMMA ChargedChange ==
    ASSUME NEW r \in Requests, NEW c, \A x \in Requests \ {r} : req'[x] = req[x]
    PROVE  /\ Cardinality(Charged(c)) \in Nat
           /\ Cardinality(Charged(c)') \in Nat
           /\ (Carries(req[r], c) <=> Carries(req'[r], c))
                => Cardinality(Charged(c)') = Cardinality(Charged(c))
           /\ Carries(req[r], c) /\ ~Carries(req'[r], c)
                => Cardinality(Charged(c)') = Cardinality(Charged(c)) - 1
           /\ ~Carries(req[r], c) /\ Carries(req'[r], c)
                => Cardinality(Charged(c)') = Cardinality(Charged(c)) + 1
<1> DEFINE S == Charged(c)
           T == Charged(c)'
<1>1. S \in SUBSET Requests /\ T \in SUBSET Requests
  BY DEF Charged
<1>2. \A x \in Requests \ {r} : x \in S <=> x \in T
  BY DEF Charged
<1>3. /\ r \in S <=> Carries(req[r], c)
      /\ r \in T <=> Carries(req'[r], c)
  BY DEF Charged, Carries
<1> HIDE DEF S, T
<1>4. /\ Cardinality(S) \in Nat
      /\ Cardinality(T) \in Nat
      /\ (r \in S <=> r \in T) => Cardinality(T) = Cardinality(S)
      /\ r \in S /\ r \notin T => Cardinality(T) = Cardinality(S) - 1
      /\ r \notin S /\ r \in T => Cardinality(T) = Cardinality(S) + 1
  BY <1>1, <1>2, FiniteAssumption, CountChange
<1> QED
  BY <1>3, <1>4 DEF S, T

(* one mapping changes: the mapped jobs of a client, before and after *)
LEMMA MappedChange ==
    ASSUME NEW j \in Jobs, NEW c, \A x \in Jobs \ {j} : jobClient'[x] = jobClient[x]
    PROVE  /\ Cardinality(Mapped(c)) \in Nat
           /\ Cardinality(Mapped(c)') \in Nat
           /\ (jobClient[j] = c <=> jobClient'[j] = c)
                => Cardinality(Mapped(c)') = Cardinality(Mapped(c))
           /\ jobClient[j] = c /\ jobClient'[j] # c
                => Cardinality(Mapped(c)') = Cardinality(Mapped(c)) - 1
           /\ jobClient[j] # c /\ jobClient'[j] = c
                => Cardinality(Mapped(c)') = Cardinality(Mapped(c)) + 1
<1> DEFINE S == Mapped(c)
           T == Mapped(c)'
<1>1. S \in SUBSET Jobs /\ T \in SUBSET Jobs
  BY DEF Mapped
<1>2. \A x \in Jobs \ {j} : x \in S <=> x \in T
  BY DEF Mapped
<1>3. /\ j \in S <=> jobClient[j] = c
      /\ j \in T <=> jobClient'[j] = c
  BY DEF Mapped
<1> HIDE DEF S, T
<1>4. /\ Cardinality(S) \in Nat
      /\ Cardinality(T) \in Nat
      /\ (j \in S <=> j \in T) => Cardinality(T) = Cardinality(S)
      /\ j \in S /\ j \notin T => Cardinality(T) = Cardinality(S) - 1
      /\ j \notin S /\ j \in T => Cardinality(T) = Cardinality(S) + 1
  BY <1>1, <1>2, FiniteAssumption, CountChange
<1> QED
  BY <1>3, <1>4 DEF S, T

(* the two sides are numbers *)
LEMMA CountsAreNumbers ==
    ASSUME NEW c
    PROVE  Cardinality(Mapped(c)) \in Nat /\ Cardinality(Charged(c)) \in Nat
<1>1. Mapped(c) \subseteq Jobs /\ Charged(c) \subseteq Requests
  BY DEF Mapped, Charged
<1> QED
  BY <1>1, FiniteAssumption, FS_Subset, FS_CardinalityType

-----------------------------------------------------------------------------
(* Types *)

(* The rows the actions write are of their types. *)
LEMMA Rows ==
    /\ Idle \in ReqRow
    /\ Life!New \in Life!Lives
    /\ Life!Waiting \in Life!Lives
    /\ Life!SettledAs("failed") \in Life!Lives
    /\ Life!SettledAs("cancelled") \in Life!Lives
BY DEF Idle, ReqRow, Stages, Life!Lives, Life!New, Life!Waiting, Life!SettledAs, Life!Results

(* a request row that is well typed, and its effect on the table of requests *)
RowOK(row) ==
    /\ row \in ReqRow
    /\ row.stage # "idle" => row.client \in Clients /\ row.limit \in Limits
    /\ row.stage \in {"created", "inserted", "check", "read", "wait"} => row.job \in Jobs

ReqsOK == req \in [Requests -> ReqRow] /\ \A r \in Requests : RowOK(req[r])

(* A step that changes one request keeps all of them typed. *)
LEMMA ReqsTyped ==
    ASSUME TypeOK, NEW r \in Requests, DOMAIN req' = Requests, req' = [x \in Requests |-> req'[x]],
           RowOK(req'[r]), \A x \in Requests \ {r} : req'[x] = req[x]
    PROVE  ReqsOK'
<1>1. \A x \in Requests : RowOK(req'[x])
  BY DEF TypeOK, RowOK
<1>2. \A x \in Requests : req'[x] \in ReqRow
  BY <1>1 DEF RowOK
<1> QED
  BY <1>1, <1>2 DEF ReqsOK

(* Each request is typed. *)
LEMMA RowsTyped == ASSUME TypeOK, NEW r \in Requests PROVE RowOK(req[r])
BY DEF TypeOK, RowOK

(* TryReserve charges a request. *)
LEMMA ReservedRow ==
    ASSUME NEW row, RowOK(row), row.stage # "idle"
    PROVE  RowOK([row EXCEPT !.stage = "handler", !.charged = TRUE])
BY DEF RowOK, ReqRow, Stages

(* A notification wakes a subscriber. *)
LEMMA WokenRow ==
    ASSUME NEW row, RowOK(row)
    PROVE  RowOK([row EXCEPT !.woken = TRUE])
BY DEF RowOK, ReqRow, Stages

(* Every step keeps the types. *)
LEMMA TypeStep == TypeOK /\ [Next]_vars => TypeOK'
<1> SUFFICES ASSUME TypeOK, [Next]_vars PROVE TypeOK'
  OBVIOUS
<1> USE DEF TypeOK, ReqRow, Stages
<1>1. ASSUME NEW r \in Requests, NEW c \in Clients, NEW kind \in {"submit", "probe"}, Enter(r, c, kind) PROVE TypeOK'
  <2>1. /\ DOMAIN req' = Requests /\ req' = [x \in Requests |-> req'[x]]
        /\ \A x \in Requests \ {r} : req'[x] = req[x]
    BY <1>1 DEF Enter
  <2>2. PICK st \in {"admit", "handler"} :
          req'[r] = [Idle EXCEPT !.stage = st, !.client = c, !.kind = kind, !.limit = config.limit]
    BY <1>1 DEF Enter
  <2>3. RowOK(req'[r])
    <3>1. config.limit \in Limits
      OBVIOUS
    <3> HIDE DEF TypeOK
    <3>2. req'[r] = [stage |-> st, client |-> c, kind |-> kind, charged |-> FALSE,
                     limit |-> config.limit, job |-> NULL, woken |-> FALSE]
      BY <2>2 DEF Idle
    <3> QED
      BY <3>1, <3>2 DEF RowOK
  <2>4. ReqsOK'
    BY <2>1, <2>3, ReqsTyped
  <2> QED
    BY <1>1, <2>4 DEF Enter, ReqsOK, RowOK
<1>2. ASSUME NEW r \in Requests, TryIncrement(r) PROVE TypeOK'
  <2>1. CASE counts[req[r].client] >= req[r].limit
    <3>1. /\ req' = [req EXCEPT ![r] = Idle]
          /\ UNCHANGED <<life, notice, counts, jobClient, config, owner, faults>>
      BY <1>2, <2>1 DEF TryIncrement
    <3> QED
      BY <3>1, Rows DEF Idle
  <2>2. CASE ~(counts[req[r].client] >= req[r].limit)
    <3>1. /\ counts' = [counts EXCEPT ![req[r].client] = @ + 1]
          /\ req' = [req EXCEPT ![r].stage = "handler", ![r].charged = TRUE]
          /\ UNCHANGED <<life, notice, jobClient, config, owner, faults>>
          /\ req[r].stage = "admit"
      BY <1>2, <2>2 DEF TryIncrement
    <3>2. counts' \in [Clients -> Nat]
      BY <3>1
    <3>3. /\ DOMAIN req' = Requests /\ req' = [x \in Requests |-> req'[x]]
          /\ \A x \in Requests \ {r} : req'[x] = req[x]
      BY <3>1
    <3>4. req'[r] = [req[r] EXCEPT !.stage = "handler", !.charged = TRUE]
      BY <3>1
    <3>5. RowOK(req'[r])
      BY <3>1, <3>4, RowsTyped, ReservedRow
    <3>6. ReqsOK'
      BY <3>3, <3>5, ReqsTyped
    <3> QED
      BY <3>1, <3>2, <3>6 DEF ReqsOK, RowOK
  <2> QED
    BY <2>1, <2>2
<1>3. ASSUME NEW r \in Requests, RefuseSubmit(r) PROVE TypeOK'
  BY <1>3, Rows DEF RefuseSubmit, At, GiveBack, Decrement, Less, Idle
<1>4. ASSUME NEW r \in Requests, NEW j \in Jobs, RejectEncoder(r, j) PROVE TypeOK'
  BY <1>4, Rows DEF RejectEncoder, At
<1>5. ASSUME NEW r \in Requests, ReleaseRejected(r) PROVE TypeOK'
  BY <1>5, Rows DEF ReleaseRejected, At, Decrement, Less, Idle
<1>6. ASSUME NEW r \in Requests, NEW j \in Jobs, CreateJob(r, j) PROVE TypeOK'
  <2>1. /\ DOMAIN req' = Requests /\ req' = [x \in Requests |-> req'[x]]
        /\ \A x \in Requests \ {r} : req'[x] = req[x]
    BY <1>6 DEF CreateJob
  <2>2. /\ req'[r] = [req[r] EXCEPT !.stage = "created", !.job = j]
        /\ req[r].stage = "handler"
    BY <1>6 DEF CreateJob, At
  <2>3. RowOK(req'[r])
    BY <2>2 DEF RowOK
  <2>4. ReqsOK'
    BY <2>1, <2>3, ReqsTyped
  <2>5. life' \in [Jobs -> Life!Lives] /\ owner' \in [Jobs -> Clients \cup {NULL}]
    BY <1>6, <2>2, Rows DEF CreateJob
  <2> QED
    BY <1>6, <2>4, <2>5 DEF CreateJob, ReqsOK, RowOK
<1>7. ASSUME NEW r \in Requests, NEW j \in Jobs, CreateJobReadFails(r, j) PROVE TypeOK'
  <2>1. counts' \in [Clients -> Nat]
    BY <1>7 DEF CreateJobReadFails, GiveBack, Decrement, Less
  <2>2. faults' \in 0..MaxFaults
    BY <1>7, MaxFaultsAssumption DEF CreateJobReadFails
  <2>3. life' \in [Jobs -> Life!Lives]
    BY <1>7, Rows DEF CreateJobReadFails
  <2> QED
    BY <1>7, <2>1, <2>2, <2>3, Rows DEF CreateJobReadFails, Idle
<1>8. ASSUME NEW r \in Requests, RegisterJob(r) PROVE TypeOK'
  BY <1>8, Rows DEF RegisterJob, At, Idle
<1>9. ASSUME NEW r \in Requests, RefuseProbe(r) PROVE TypeOK'
  BY <1>9, Rows DEF RefuseProbe, At, Return, GiveBack, Decrement, Less, Idle
<1>10. ASSUME NEW r \in Requests, NEW j \in Jobs, CreateProbeJob(r, j) PROVE TypeOK'
  <2>1. /\ DOMAIN req' = Requests /\ req' = [x \in Requests |-> req'[x]]
        /\ \A x \in Requests \ {r} : req'[x] = req[x]
    BY <1>10 DEF CreateProbeJob
  <2>2. /\ req'[r] = [req[r] EXCEPT !.stage = "inserted", !.job = j]
        /\ req[r].stage = "handler"
    BY <1>10 DEF CreateProbeJob, At
  <2>3. RowOK(req'[r])
    BY <2>2 DEF RowOK
  <2>4. ReqsOK'
    BY <2>1, <2>3, ReqsTyped
  <2>5. life' \in [Jobs -> Life!Lives]
    BY <1>10, Rows DEF CreateProbeJob
  <2> QED
    BY <1>10, <2>4, <2>5 DEF CreateProbeJob, ReqsOK, RowOK
<1>11. ASSUME NEW r \in Requests, Subscribe(r) PROVE TypeOK'
  BY <1>11, Rows DEF Subscribe, At
<1>12. ASSUME NEW r \in Requests, CheckProbe(r) PROVE TypeOK'
  <2>1. counts' \in [Clients -> Nat]
    BY <1>12 DEF CheckProbe, Return, GiveBack, Decrement, Less
  <2>2. CASE Settled(req[r].job)
    <3>1. /\ req' = [req EXCEPT ![r] = Idle]
          /\ UNCHANGED <<life, notice, jobClient, config, owner, faults>>
      BY <1>12, <2>2 DEF CheckProbe, Return
    <3> QED
      BY <2>1, <3>1, Rows DEF Idle
  <2>3. CASE ~Settled(req[r].job)
    <3>1. /\ req' = [req EXCEPT ![r].stage = "read"]
          /\ UNCHANGED <<life, notice, jobClient, config, owner, faults>>
          /\ req[r].stage = "check"
      BY <1>12, <2>3 DEF CheckProbe, At
    <3> QED
      BY <2>1, <3>1
  <2> QED
    BY <2>2, <2>3
<1>13. ASSUME NEW r \in Requests, Woken(r) PROVE TypeOK'
  BY <1>13, Rows DEF Woken, At
<1>b. ASSUME NEW r \in Requests, Block(r) PROVE TypeOK'
  BY <1>b, Rows DEF Block, At
<1>14. ASSUME NEW r \in Requests, ProbeBudget(r) PROVE TypeOK'
  BY <1>14, Rows DEF ProbeBudget, At, Return, GiveBack, Decrement, Less, Idle
<1>15. ASSUME NEW r \in Requests, ProbeGone(r) PROVE TypeOK'
  <2>1. counts' \in [Clients -> Nat]
    BY <1>15 DEF ProbeGone, Return, GiveBack, Decrement, Less
  <2>2. req[r].job \in Jobs
    BY <1>15 DEF ProbeGone, At
  <2>3. life' \in [Jobs -> Life!Lives] /\ notice' \in [Jobs -> {"none", "hook", "notify"}]
    BY <1>15, <2>2, Rows DEF ProbeGone
  <2>4. /\ req' = [req EXCEPT ![r] = Idle]
        /\ UNCHANGED <<jobClient, config, owner, faults>>
    BY <1>15 DEF ProbeGone, Return
  <2> QED
    BY <2>1, <2>3, <2>4, Rows DEF Idle
<1>16. ASSUME NEW j \in Jobs, NEW b \in Life!Lives, JobStep(j, b) PROVE TypeOK'
  BY <1>16, Rows DEF JobStep
<1>17. ASSUME NEW j \in Jobs, TerminalHook(j) PROVE TypeOK'
  BY <1>17, Rows DEF TerminalHook, DecrementByJob, Decrement, Less
<1>18. ASSUME NEW j \in Jobs, Notify(j) PROVE TypeOK'
  <2>1. \A r \in Requests : req'[r] \in {req[r], [req[r] EXCEPT !.woken = TRUE]}
    BY <1>18 DEF Notify
  <2>2. ASSUME NEW r \in Requests PROVE RowOK(req'[r])
    <3>1. RowOK(req[r])
      BY RowsTyped
    <3>2. RowOK([req[r] EXCEPT !.woken = TRUE])
      BY <3>1, WokenRow
    <3> QED
      BY <2>1, <3>1, <3>2
  <2>3. ReqsOK'
    BY <1>18, <2>2 DEF Notify, ReqsOK, RowOK
  <2> QED
    BY <1>18, <2>3 DEF Notify, ReqsOK, RowOK
<1>19. ASSUME NEW cfg \in [enabled : BOOLEAN, limit : Limits], UpdateConfig(cfg) PROVE TypeOK'
  BY <1>19, Rows DEF UpdateConfig
<1>20. ASSUME Restart PROVE TypeOK'
  <2>1. faults' \in 0..MaxFaults
    BY <1>20, MaxFaultsAssumption DEF Restart
  <2>2. life' \in [Jobs -> Life!Lives]
    BY <1>20, Rows DEF Restart
  <2>3. config' \in [enabled : BOOLEAN, limit : Limits]
    BY <1>20, EnabledAssumption DEF Restart
  <2> QED
    BY <1>20, <2>1, <2>2, <2>3, Rows DEF Restart, Idle
<1>21. CASE UNCHANGED vars
  BY <1>21 DEF vars
<1> QED
  BY <1>1, <1>2, <1>3, <1>4, <1>5, <1>6, <1>7, <1>8, <1>9, <1>10, <1>11, <1>12, <1>13, <1>b, <1>14, <1>15, <1>16, <1>17, <1>18, <1>19, <1>20, <1>21 DEF Next, SubmitNext, ProbeNext

-----------------------------------------------------------------------------
(* References *)

(* The phases of a job are told apart, and no job becomes new again. *)
LEMMA Phases ==
    /\ Life!New.phase = "new" /\ Life!Waiting.phase = "waiting"
    /\ \A x : Life!SettledAs(x).phase = "settled"
    /\ \A w : Life!HeldBy(w).phase = "held"
    /\ \A a, b : a # Life!New /\ Life!LegalStep(a, b) => b # Life!New
    /\ \A a, b : /\ Life!LegalStep(a, b) /\ a # Life!New
                 /\ b.phase \in {"waiting", "held"}
                => a.phase \in {"waiting", "held"}
    /\ \A a, b : a.phase = "settled" /\ Life!LegalStep(a, b) => b = a
BY DEF Life!New, Life!Waiting, Life!HeldBy, Life!SettledAs, Life!LegalStep

(* Every step keeps it that a job about to be registered belongs to one request. *)
LEMMA RefsStep == TypeOK /\ Refs /\ [Next]_vars => Refs'
<1> SUFFICES ASSUME TypeOK, Refs, [Next]_vars PROVE Refs'
  OBVIOUS
<1> USE NullAssumption DEF TypeOK, Refs, ReqRow
<1>1. ASSUME NEW r \in Requests, NEW c \in Clients, NEW kind \in {"submit", "probe"}, Enter(r, c, kind) PROVE Refs'
  BY <1>1, Phases DEF Enter, Idle
<1>2. ASSUME NEW r \in Requests, TryIncrement(r) PROVE Refs'
  <2>1. CASE counts[req[r].client] >= req[r].limit
    <3>1. /\ req' = [req EXCEPT ![r] = Idle]
          /\ UNCHANGED <<life, jobClient, owner>>
      BY <1>2, <2>1 DEF TryIncrement
    <3> QED
      BY <3>1 DEF Idle
  <2>2. CASE ~(counts[req[r].client] >= req[r].limit)
    <3>1. /\ req' = [req EXCEPT ![r].stage = "handler", ![r].charged = TRUE]
          /\ UNCHANGED <<life, jobClient>>
          /\ req[r].stage = "admit"
      BY <1>2, <2>2 DEF TryIncrement
    <3> QED
      BY <3>1
  <2> QED
    BY <2>1, <2>2
<1>3. ASSUME NEW r \in Requests, RefuseSubmit(r) PROVE Refs'
  BY <1>3, Phases DEF RefuseSubmit, At, Idle
<1>4. ASSUME NEW r \in Requests, NEW j \in Jobs, RejectEncoder(r, j) PROVE Refs'
  BY <1>4, Phases DEF RejectEncoder, At
<1>5. ASSUME NEW r \in Requests, ReleaseRejected(r) PROVE Refs'
  BY <1>5, Phases DEF ReleaseRejected, At, Idle
<1>6. ASSUME NEW r \in Requests, NEW j \in Jobs, CreateJob(r, j) PROVE Refs'
  BY <1>6, Phases DEF CreateJob, At
<1>7. ASSUME NEW r \in Requests, NEW j \in Jobs, CreateJobReadFails(r, j) PROVE Refs'
  BY <1>7, Phases DEF CreateJobReadFails, Idle
<1>8. ASSUME NEW r \in Requests, RegisterJob(r) PROVE Refs'
  BY <1>8, Phases DEF RegisterJob, At, Idle
<1>9. ASSUME NEW r \in Requests, RefuseProbe(r) PROVE Refs'
  BY <1>9, Phases DEF RefuseProbe, At, Return, Idle
<1>10. ASSUME NEW r \in Requests, NEW j \in Jobs, CreateProbeJob(r, j) PROVE Refs'
  BY <1>10, Phases DEF CreateProbeJob, At
<1>11. ASSUME NEW r \in Requests, Subscribe(r) PROVE Refs'
  BY <1>11, Phases DEF Subscribe, At
<1>12. ASSUME NEW r \in Requests, CheckProbe(r) PROVE Refs'
  <2>1. CASE Settled(req[r].job)
    <3>1. /\ req' = [req EXCEPT ![r] = Idle]
          /\ UNCHANGED <<life, jobClient, owner>>
      BY <1>12, <2>1 DEF CheckProbe, Return
    <3> QED
      BY <3>1 DEF Idle
  <2>2. CASE ~Settled(req[r].job)
    <3>1. /\ req' = [req EXCEPT ![r].stage = "read"]
          /\ UNCHANGED <<life, jobClient, owner>>
          /\ req[r].stage = "check"
      BY <1>12, <2>2 DEF CheckProbe, At
    <3>2. /\ req'[r].stage = "read" /\ req'[r].job = req[r].job
          /\ \A q \in Requests \ {r} : req'[q] = req[q]
      BY <3>1
    <3> QED
      BY <3>1, <3>2
  <2> QED
    BY <2>1, <2>2
<1>13. ASSUME NEW r \in Requests, Woken(r) PROVE Refs'
  BY <1>13, Phases DEF Woken, At
<1>b. ASSUME NEW r \in Requests, Block(r) PROVE Refs'
  BY <1>b, Phases DEF Block, At
<1>14. ASSUME NEW r \in Requests, ProbeBudget(r) PROVE Refs'
  BY <1>14, Phases DEF ProbeBudget, At, Return, Idle
<1>15. ASSUME NEW r \in Requests, ProbeGone(r) PROVE Refs'
  BY <1>15, Phases DEF ProbeGone, At, Return, Idle
<1>16. ASSUME NEW j \in Jobs, NEW b \in Life!Lives, JobStep(j, b) PROVE Refs'
  BY <1>16, Phases DEF JobStep
<1>17. ASSUME NEW j \in Jobs, TerminalHook(j) PROVE Refs'
  BY <1>17, Phases DEF TerminalHook, DecrementByJob
<1>18. ASSUME NEW j \in Jobs, Notify(j) PROVE Refs'
  BY <1>18, Phases DEF Notify, Subscribed
<1>19. ASSUME NEW cfg \in [enabled : BOOLEAN, limit : Limits], UpdateConfig(cfg) PROVE Refs'
  BY <1>19, Phases DEF UpdateConfig
<1>20. ASSUME Restart PROVE Refs'
  BY <1>20, Phases DEF Restart, Idle
<1>21. CASE UNCHANGED vars
  BY <1>21 DEF vars
<1> QED
  BY <1>1, <1>2, <1>3, <1>4, <1>5, <1>6, <1>7, <1>8, <1>9, <1>10, <1>11, <1>12, <1>13, <1>b, <1>14, <1>15, <1>16, <1>17, <1>18, <1>19, <1>20, <1>21 DEF Next, SubmitNext, ProbeNext

-----------------------------------------------------------------------------
(* How a step moves a client's count against what it stands for *)

Slots(c) == Cardinality(Mapped(c)) + Cardinality(Charged(c))

(* some request got past the middleware without taking a slot *)
FreeRide == \E r \in Requests : req[r].stage \notin {"idle", "admit"} /\ ~req[r].charged

Move(c) ==
    \/ counts'[c] = counts[c] + 1 /\ Slots(c)' = Slots(c) + 1
    \/ counts'[c] = Less(counts[c]) /\ Slots(c) >= 1 /\ Slots(c)' = Slots(c) - 1
    \/ counts'[c] = counts[c] /\ Slots(c)' = Slots(c)
    \/ FreeRide /\ counts'[c] \in {counts[c], Less(counts[c])} /\ Slots(c)' >= Slots(c)
    \/ counts'[c] = 0 /\ Slots(c)' = 0

(* A client has a number of slots. *)
LEMMA SlotsNat == ASSUME NEW c PROVE Slots(c) \in Nat
<1>1. Cardinality(Mapped(c)) \in Nat /\ Cardinality(Charged(c)) \in Nat
  BY CountsAreNumbers
<1> QED
  BY <1>1 DEF Slots

(* only one request changes *)
LEMMA ReqOnly ==
    ASSUME NEW r \in Requests, NEW c, jobClient' = jobClient,
           \A x \in Requests \ {r} : req'[x] = req[x]
    PROVE  /\ Slots(c) \in Nat
           /\ (Carries(req[r], c) <=> Carries(req'[r], c)) => Slots(c)' = Slots(c)
           /\ Carries(req[r], c) /\ ~Carries(req'[r], c) => Slots(c) >= 1 /\ Slots(c)' = Slots(c) - 1
           /\ ~Carries(req[r], c) /\ Carries(req'[r], c) => Slots(c)' = Slots(c) + 1
<1>1. Mapped(c)' = Mapped(c)
  BY DEF Mapped
<1>2. Cardinality(Mapped(c)) \in Nat
  BY CountsAreNumbers
<1>3. /\ Cardinality(Charged(c)) \in Nat
      /\ Cardinality(Charged(c)') \in Nat
      /\ (Carries(req[r], c) <=> Carries(req'[r], c))
           => Cardinality(Charged(c)') = Cardinality(Charged(c))
      /\ Carries(req[r], c) /\ ~Carries(req'[r], c)
           => Cardinality(Charged(c)') = Cardinality(Charged(c)) - 1
      /\ ~Carries(req[r], c) /\ Carries(req'[r], c)
           => Cardinality(Charged(c)') = Cardinality(Charged(c)) + 1
  BY ChargedChange
<1>4. /\ Slots(c) = Cardinality(Mapped(c)) + Cardinality(Charged(c))
      /\ Slots(c)' = Cardinality(Mapped(c)) + Cardinality(Charged(c)')
  BY <1>1 DEF Slots
<1> QED
  BY <1>2, <1>3, <1>4

(* a request that keeps its client and its charge moves nothing *)
LEMMA SameCharge ==
    ASSUME NEW r \in Requests, NEW c, UNCHANGED <<counts, jobClient>>,
           \A x \in Requests \ {r} : req'[x] = req[x],
           Carries(req[r], c) <=> Carries(req'[r], c)
    PROVE  Move(c)
<1>1. Slots(c)' = Slots(c)
  BY ReqOnly
<1> QED
  BY <1>1 DEF Move

(* a request that ends and gives back what it took *)
LEMMA GiveBackMoves ==
    ASSUME TypeOK, NEW r \in Requests, GiveBack(r), req' = [req EXCEPT ![r] = Idle],
           jobClient' = jobClient, NEW c \in Clients
    PROVE  Move(c)
<1>1. ~Carries(req'[r], c) /\ \A x \in Requests \ {r} : req'[x] = req[x]
  BY DEF Idle, Carries, TypeOK
<1>2. /\ (~Carries(req[r], c) => Slots(c)' = Slots(c))
      /\ Carries(req[r], c) => Slots(c) >= 1 /\ Slots(c)' = Slots(c) - 1
  BY <1>1, ReqOnly
<1>3. CASE Carries(req[r], c)
  <2>1. counts'[c] = Less(counts[c])
    BY <1>3 DEF GiveBack, Decrement, TypeOK, Carries
  <2> QED
    BY <1>2, <1>3, <2>1 DEF Move
<1>4. CASE ~Carries(req[r], c)
  <2>1. counts'[c] = counts[c]
    BY <1>4 DEF GiveBack, Decrement, TypeOK, Carries
  <2> QED
    BY <1>2, <1>4, <2>1 DEF Move
<1> QED
  BY <1>3, <1>4

(* Every step moves every client's count in one of the ways of Move. *)
LEMMA EveryMove ==
    ASSUME TypeOK, Refs, [Next]_vars, NEW c \in Clients
    PROVE  Move(c)
<1>1. ASSUME NEW r \in Requests, NEW d \in Clients, NEW kind \in {"submit", "probe"}, Enter(r, d, kind) PROVE Move(c)
  <2>1. /\ UNCHANGED <<counts, jobClient>>
        /\ \A x \in Requests \ {r} : req'[x] = req[x]
        /\ Carries(req[r], c) <=> Carries(req'[r], c)
    BY <1>1 DEF Enter, Idle, Refs, Carries, TypeOK, ReqRow
  <2> QED
    BY <2>1, SameCharge
<1>2. ASSUME NEW r \in Requests, TryIncrement(r) PROVE Move(c)
  <2>1. /\ \A x \in Requests \ {r} : req'[x] = req[x]
        /\ jobClient' = jobClient
        /\ ~Carries(req[r], c)
    BY <1>2 DEF TryIncrement, TypeOK, Refs, Carries
  <2>2. CASE counts[req[r].client] >= req[r].limit
    <3>1. counts' = counts /\ ~Carries(req'[r], c)
      BY <1>2, <2>2 DEF TryIncrement, Idle, Carries, TypeOK
    <3> QED
      BY <2>1, <3>1, SameCharge
  <2>3. CASE ~(counts[req[r].client] >= req[r].limit)
    <3>1. /\ counts' = [counts EXCEPT ![req[r].client] = @ + 1]
          /\ req' = [req EXCEPT ![r].stage = "handler", ![r].charged = TRUE]
      BY <1>2, <2>3 DEF TryIncrement
    <3>2. Carries(req'[r], c) <=> req[r].client = c
      BY <3>1 DEF Carries, TypeOK, ReqRow
    <3>3. CASE req[r].client = c
      <4>1. counts'[c] = counts[c] + 1
        BY <3>1, <3>3 DEF TypeOK
      <4>2. Slots(c)' = Slots(c) + 1
        BY <2>1, <3>2, <3>3, ReqOnly
      <4> QED
        BY <4>1, <4>2 DEF Move
    <3>4. CASE req[r].client # c
      <4>1. counts'[c] = counts[c]
        BY <3>1, <3>4 DEF TypeOK
      <4>2. Slots(c)' = Slots(c)
        BY <2>1, <3>2, <3>4, ReqOnly
      <4> QED
        BY <4>1, <4>2 DEF Move
    <3> QED
      BY <3>3, <3>4
  <2> QED
    BY <2>2, <2>3
<1>3. ASSUME NEW r \in Requests, RefuseSubmit(r) PROVE Move(c)
  <2>1. GiveBack(r) /\ req' = [req EXCEPT ![r] = Idle] /\ jobClient' = jobClient
    BY <1>3 DEF RefuseSubmit
  <2> QED
    BY <2>1, GiveBackMoves
<1>4. ASSUME NEW r \in Requests, NEW j \in Jobs, RejectEncoder(r, j) PROVE Move(c)
  <2>1. /\ UNCHANGED <<counts, jobClient>>
        /\ \A x \in Requests \ {r} : req'[x] = req[x]
        /\ Carries(req[r], c) <=> Carries(req'[r], c)
    BY <1>4 DEF RejectEncoder, Carries, TypeOK, ReqRow
  <2> QED
    BY <2>1, SameCharge
<1>5. ASSUME NEW r \in Requests, ReleaseRejected(r) PROVE Move(c)
  <2>1. /\ req[r].stage = "rejected"
        /\ counts' = [counts EXCEPT ![req[r].client] = Less(@)]
        /\ req' = [req EXCEPT ![r] = Idle]
        /\ jobClient' = jobClient
    BY <1>5 DEF ReleaseRejected, At, Decrement
  <2>2. CASE req[r].charged
    <3>1. GiveBack(r)
      BY <2>1, <2>2 DEF GiveBack, Decrement
    <3> QED
      BY <2>1, <3>1, GiveBackMoves
  <2>3. CASE ~req[r].charged
    <3>1. FreeRide
      BY <2>1, <2>3 DEF FreeRide
    <3>2. counts'[c] \in {counts[c], Less(counts[c])}
      BY <2>1 DEF TypeOK
    <3>3. /\ ~Carries(req[r], c) /\ ~Carries(req'[r], c)
          /\ \A x \in Requests \ {r} : req'[x] = req[x]
      BY <2>1, <2>3 DEF Carries, Idle, TypeOK
    <3>4. Slots(c) \in Nat /\ Slots(c)' = Slots(c)
      BY <2>1, <3>3, ReqOnly
    <3> QED
      BY <3>1, <3>2, <3>4 DEF Move
  <2> QED
    BY <2>2, <2>3
<1>6. ASSUME NEW r \in Requests, NEW j \in Jobs, CreateJob(r, j) PROVE Move(c)
  <2>1. /\ UNCHANGED <<counts, jobClient>>
        /\ \A x \in Requests \ {r} : req'[x] = req[x]
        /\ Carries(req[r], c) <=> Carries(req'[r], c)
    BY <1>6 DEF CreateJob, Carries, TypeOK, ReqRow
  <2> QED
    BY <2>1, SameCharge
<1>7. ASSUME NEW r \in Requests, NEW j \in Jobs, CreateJobReadFails(r, j) PROVE Move(c)
  <2>1. GiveBack(r) /\ req' = [req EXCEPT ![r] = Idle] /\ jobClient' = jobClient
    BY <1>7 DEF CreateJobReadFails
  <2> QED
    BY <2>1, GiveBackMoves
<1>8. ASSUME NEW r \in Requests, RegisterJob(r) PROVE Move(c)
  <2>1. /\ req[r].stage = "created"
        /\ jobClient' = [jobClient EXCEPT ![req[r].job] = req[r].client]
        /\ req' = [req EXCEPT ![r] = Idle]
        /\ counts' = counts
    BY <1>8 DEF RegisterJob, At
  <2>2. req[r].job \in Jobs /\ req[r].client \in Clients /\ jobClient[req[r].job] = NULL
    BY <2>1 DEF TypeOK, Refs
  <2>3. /\ ~Carries(req'[r], c)
        /\ \A x \in Requests \ {r} : req'[x] = req[x]
    BY <2>1 DEF Carries, Idle, TypeOK
  <2>4. /\ Cardinality(Charged(c)) \in Nat /\ Cardinality(Charged(c)') \in Nat
        /\ Carries(req[r], c) => Cardinality(Charged(c)') = Cardinality(Charged(c)) - 1
        /\ ~Carries(req[r], c) => Cardinality(Charged(c)') = Cardinality(Charged(c))
    BY <2>3, ChargedChange
  <2>5. /\ jobClient[req[r].job] # c
        /\ jobClient'[req[r].job] = req[r].client
        /\ \A x \in Jobs \ {req[r].job} : jobClient'[x] = jobClient[x]
    BY <2>1, <2>2, NullAssumption DEF TypeOK
  <2>6. /\ Cardinality(Mapped(c)) \in Nat /\ Cardinality(Mapped(c)') \in Nat
        /\ req[r].client = c => Cardinality(Mapped(c)') = Cardinality(Mapped(c)) + 1
        /\ req[r].client # c => Cardinality(Mapped(c)') = Cardinality(Mapped(c))
    BY <2>2, <2>5, MappedChange
  <2>7. /\ Slots(c) = Cardinality(Mapped(c)) + Cardinality(Charged(c))
        /\ Slots(c)' = Cardinality(Mapped(c)') + Cardinality(Charged(c)')
    BY DEF Slots
  <2>8. CASE req[r].charged
    <3>1. Carries(req[r], c) <=> req[r].client = c
      BY <2>8 DEF Carries
    <3>2. Slots(c)' = Slots(c)
      BY <2>4, <2>6, <2>7, <3>1
    <3> QED
      BY <2>1, <3>2 DEF Move
  <2>9. CASE ~req[r].charged
    <3>1. FreeRide /\ ~Carries(req[r], c)
      BY <2>1, <2>9 DEF FreeRide, Carries
    <3>2. Slots(c)' >= Slots(c)
      BY <2>4, <2>6, <2>7, <3>1
    <3> QED
      BY <2>1, <3>1, <3>2 DEF Move
  <2> QED
    BY <2>8, <2>9
<1>9. ASSUME NEW r \in Requests, RefuseProbe(r) PROVE Move(c)
  <2>1. GiveBack(r) /\ req' = [req EXCEPT ![r] = Idle] /\ jobClient' = jobClient
    BY <1>9 DEF RefuseProbe, Return
  <2> QED
    BY <2>1, GiveBackMoves
<1>10. ASSUME NEW r \in Requests, NEW j \in Jobs, CreateProbeJob(r, j) PROVE Move(c)
  <2>1. /\ UNCHANGED <<counts, jobClient>>
        /\ \A x \in Requests \ {r} : req'[x] = req[x]
        /\ Carries(req[r], c) <=> Carries(req'[r], c)
    BY <1>10 DEF CreateProbeJob, Carries, TypeOK, ReqRow
  <2> QED
    BY <2>1, SameCharge
<1>11. ASSUME NEW r \in Requests, Subscribe(r) PROVE Move(c)
  <2>1. /\ UNCHANGED <<counts, jobClient>>
        /\ \A x \in Requests \ {r} : req'[x] = req[x]
        /\ Carries(req[r], c) <=> Carries(req'[r], c)
    BY <1>11 DEF Subscribe, Carries, TypeOK, ReqRow
  <2> QED
    BY <2>1, SameCharge
<1>12. ASSUME NEW r \in Requests, CheckProbe(r) PROVE Move(c)
  <2>1. CASE Settled(req[r].job)
    <3>1. GiveBack(r) /\ req' = [req EXCEPT ![r] = Idle] /\ jobClient' = jobClient
      BY <1>12, <2>1 DEF CheckProbe, Return
    <3> QED
      BY <3>1, GiveBackMoves
  <2>2. CASE ~Settled(req[r].job)
    <3>1. req' = [req EXCEPT ![r].stage = "read"] /\ UNCHANGED <<counts, jobClient>>
      BY <1>12, <2>2 DEF CheckProbe
    <3>2. /\ \A x \in Requests \ {r} : req'[x] = req[x]
          /\ Carries(req[r], c) <=> Carries(req'[r], c)
      BY <3>1 DEF Carries, TypeOK, ReqRow
    <3> QED
      BY <3>1, <3>2, SameCharge
  <2> QED
    BY <2>1, <2>2
<1>13. ASSUME NEW r \in Requests, Woken(r) PROVE Move(c)
  <2>1. /\ UNCHANGED <<counts, jobClient>>
        /\ \A x \in Requests \ {r} : req'[x] = req[x]
        /\ Carries(req[r], c) <=> Carries(req'[r], c)
    BY <1>13 DEF Woken, Carries, TypeOK, ReqRow
  <2> QED
    BY <2>1, SameCharge
<1>b. ASSUME NEW r \in Requests, Block(r) PROVE Move(c)
  <2>1. /\ UNCHANGED <<counts, jobClient>>
        /\ \A x \in Requests \ {r} : req'[x] = req[x]
        /\ Carries(req[r], c) <=> Carries(req'[r], c)
    BY <1>b DEF Block, Carries, TypeOK, ReqRow
  <2> QED
    BY <2>1, SameCharge
<1>14. ASSUME NEW r \in Requests, ProbeBudget(r) PROVE Move(c)
  <2>1. GiveBack(r) /\ req' = [req EXCEPT ![r] = Idle] /\ jobClient' = jobClient
    BY <1>14 DEF ProbeBudget, Return
  <2> QED
    BY <2>1, GiveBackMoves
<1>15. ASSUME NEW r \in Requests, ProbeGone(r) PROVE Move(c)
  <2>1. GiveBack(r) /\ req' = [req EXCEPT ![r] = Idle] /\ jobClient' = jobClient
    BY <1>15 DEF ProbeGone, Return
  <2> QED
    BY <2>1, GiveBackMoves
<1>16. ASSUME NEW j \in Jobs, TerminalHook(j) PROVE Move(c)
  <2>1. req' = req /\ Charged(c)' = Charged(c)
    BY <1>16 DEF TerminalHook, Charged
  <2>2. Cardinality(Charged(c)) \in Nat /\ Cardinality(Mapped(c)) \in Nat
    BY CountsAreNumbers
  <2>3. /\ Slots(c) = Cardinality(Mapped(c)) + Cardinality(Charged(c))
        /\ Slots(c)' = Cardinality(Mapped(c)') + Cardinality(Charged(c))
    BY <2>1 DEF Slots
  <2>4. CASE jobClient[j] # c
    <3>1. counts'[c] = counts[c] /\ jobClient'[j] # c
      BY <1>16, <2>4, NullAssumption DEF TerminalHook, DecrementByJob, Decrement, TypeOK
    <3>2. \A x \in Jobs \ {j} : jobClient'[x] = jobClient[x]
      BY <1>16 DEF TerminalHook, DecrementByJob, TypeOK
    <3>3. Cardinality(Mapped(c)') = Cardinality(Mapped(c))
      BY <2>4, <3>1, <3>2, MappedChange
    <3> QED
      BY <2>3, <3>1, <3>3 DEF Move
  <2>5. CASE jobClient[j] = c
    <3>1. jobClient[j] # NULL
      BY <2>5, NullAssumption
    <3>2. /\ jobClient' = [jobClient EXCEPT ![j] = NULL]
          /\ counts' = [counts EXCEPT ![c] = Less(@)]
      BY <1>16, <2>5, <3>1 DEF TerminalHook, DecrementByJob, Decrement
    <3>3. /\ jobClient'[j] # c
          /\ \A x \in Jobs \ {j} : jobClient'[x] = jobClient[x]
          /\ counts'[c] = Less(counts[c])
      BY <3>2, NullAssumption DEF TypeOK
    <3>4. /\ Cardinality(Mapped(c)') \in Nat
          /\ Cardinality(Mapped(c)') = Cardinality(Mapped(c)) - 1
      BY <2>5, <3>3, MappedChange
    <3>5. Slots(c) >= 1 /\ Slots(c)' = Slots(c) - 1
      BY <2>2, <2>3, <3>4
    <3> QED
      BY <3>3, <3>5 DEF Move
  <2> QED
    BY <2>4, <2>5
<1>17. ASSUME NEW j \in Jobs, Notify(j) PROVE Move(c)
  <2>1. \A q \in Requests : req'[q].charged = req[q].charged /\ req'[q].client = req[q].client
    BY <1>17 DEF Notify, TypeOK, ReqRow
  <2>2. Charged(c)' = Charged(c) /\ Mapped(c)' = Mapped(c)
    BY <1>17, <2>1 DEF Notify, Charged, Mapped
  <2>3. counts' = counts
    BY <1>17 DEF Notify
  <2> QED
    BY <2>2, <2>3 DEF Move, Slots
<1>18. ASSUME UNCHANGED <<counts, jobClient, req>> PROVE Move(c)
  <2>1. Charged(c)' = Charged(c) /\ Mapped(c)' = Mapped(c)
    BY <1>18 DEF Charged, Mapped
  <2> QED
    BY <1>18, <2>1 DEF Move, Slots
<1>19. ASSUME NEW j \in Jobs, NEW b, JobStep(j, b) PROVE Move(c)
  BY <1>18, <1>19 DEF JobStep
<1>20. ASSUME NEW cfg, UpdateConfig(cfg) PROVE Move(c)
  BY <1>18, <1>20 DEF UpdateConfig
<1>21. ASSUME Restart PROVE Move(c)
  <2>1. counts'[c] = 0 /\ Charged(c)' = {} /\ Mapped(c)' = {}
    BY <1>21, NullAssumption DEF Restart, Charged, Mapped, Idle
  <2>2. Slots(c)' = 0
    BY <2>1, FS_EmptySet DEF Slots
  <2> QED
    BY <2>1, <2>2 DEF Move
<1>22. CASE UNCHANGED vars
  BY <1>18, <1>22 DEF vars
<1> QED
  BY <1>1, <1>2, <1>3, <1>4, <1>5, <1>6, <1>7, <1>8, <1>9, <1>10, <1>11, <1>12, <1>13, <1>b, <1>14, <1>15, <1>16, <1>17, <1>19, <1>20, <1>21, <1>22 DEF Next, SubmitNext, ProbeNext

-----------------------------------------------------------------------------
(* While rate limiting stays on *)

(* While limiting stays on, every request past the middleware is charged. *)
LEMMA ChargedStep ==
    ASSUME AlwaysOn, TypeOK, config.enabled, AllCharged, [Next]_vars
    PROVE  config'.enabled /\ AllCharged'
<1> USE DEF AlwaysOn, AllCharged, TypeOK, ReqRow
<1>1. ASSUME NEW r \in Requests, NEW c \in Clients, NEW kind \in {"submit", "probe"}, Enter(r, c, kind) PROVE config'.enabled /\ AllCharged'
  BY <1>1 DEF Enter, Idle
<1>2. ASSUME NEW r \in Requests, TryIncrement(r) PROVE config'.enabled /\ AllCharged'
  BY <1>2 DEF TryIncrement, Idle
<1>3. ASSUME NEW r \in Requests, RefuseSubmit(r) PROVE config'.enabled /\ AllCharged'
  BY <1>3 DEF RefuseSubmit, At, Idle
<1>4. ASSUME NEW r \in Requests, NEW j \in Jobs, RejectEncoder(r, j) PROVE config'.enabled /\ AllCharged'
  BY <1>4 DEF RejectEncoder, At
<1>5. ASSUME NEW r \in Requests, ReleaseRejected(r) PROVE config'.enabled /\ AllCharged'
  BY <1>5 DEF ReleaseRejected, At, Idle
<1>6. ASSUME NEW r \in Requests, NEW j \in Jobs, CreateJob(r, j) PROVE config'.enabled /\ AllCharged'
  BY <1>6 DEF CreateJob, At
<1>7. ASSUME NEW r \in Requests, NEW j \in Jobs, CreateJobReadFails(r, j) PROVE config'.enabled /\ AllCharged'
  BY <1>7 DEF CreateJobReadFails, Idle
<1>8. ASSUME NEW r \in Requests, RegisterJob(r) PROVE config'.enabled /\ AllCharged'
  BY <1>8 DEF RegisterJob, At, Idle
<1>9. ASSUME NEW r \in Requests, RefuseProbe(r) PROVE config'.enabled /\ AllCharged'
  BY <1>9 DEF RefuseProbe, At, Return, Idle
<1>10. ASSUME NEW r \in Requests, NEW j \in Jobs, CreateProbeJob(r, j) PROVE config'.enabled /\ AllCharged'
  BY <1>10 DEF CreateProbeJob, At
<1>11. ASSUME NEW r \in Requests, Subscribe(r) PROVE config'.enabled /\ AllCharged'
  BY <1>11 DEF Subscribe, At
<1>12. ASSUME NEW r \in Requests, CheckProbe(r) PROVE config'.enabled /\ AllCharged'
  <2>1. CASE Settled(req[r].job)
    BY <1>12, <2>1 DEF CheckProbe, Return, Idle
  <2>2. CASE ~Settled(req[r].job)
    <3>1. /\ req' = [req EXCEPT ![r].stage = "read"] /\ config' = config
          /\ req[r].stage = "check"
      BY <1>12, <2>2 DEF CheckProbe, At
    <3> QED
      BY <3>1
  <2> QED
    BY <2>1, <2>2
<1>13. ASSUME NEW r \in Requests, Woken(r) PROVE config'.enabled /\ AllCharged'
  BY <1>13 DEF Woken, At
<1>b. ASSUME NEW r \in Requests, Block(r) PROVE config'.enabled /\ AllCharged'
  BY <1>b DEF Block, At
<1>14. ASSUME NEW r \in Requests, ProbeBudget(r) PROVE config'.enabled /\ AllCharged'
  BY <1>14 DEF ProbeBudget, At, Return, Idle
<1>15. ASSUME NEW r \in Requests, ProbeGone(r) PROVE config'.enabled /\ AllCharged'
  BY <1>15 DEF ProbeGone, At, Return, Idle
<1>16. ASSUME NEW j \in Jobs, NEW b \in Life!Lives, JobStep(j, b) PROVE config'.enabled /\ AllCharged'
  BY <1>16 DEF JobStep
<1>17. ASSUME NEW j \in Jobs, TerminalHook(j) PROVE config'.enabled /\ AllCharged'
  BY <1>17 DEF TerminalHook, DecrementByJob
<1>18. ASSUME NEW j \in Jobs, Notify(j) PROVE config'.enabled /\ AllCharged'
  BY <1>18 DEF Notify, Subscribed
<1>19. ASSUME NEW cfg \in [enabled : BOOLEAN, limit : Limits], UpdateConfig(cfg) PROVE config'.enabled /\ AllCharged'
  BY <1>19 DEF UpdateConfig
<1>20. ASSUME Restart PROVE config'.enabled /\ AllCharged'
  BY <1>20 DEF Restart, Idle
<1>21. CASE UNCHANGED vars
  BY <1>21 DEF vars
<1> QED
  BY <1>1, <1>2, <1>3, <1>4, <1>5, <1>6, <1>7, <1>8, <1>9, <1>10, <1>11, <1>12, <1>13, <1>b, <1>14, <1>15, <1>16, <1>17, <1>18, <1>19, <1>20, <1>21 DEF Next, SubmitNext, ProbeNext

(* A terminal hook runs for a job that has its verdict. *)
LEMMA HookStep ==
    ASSUME TypeOK, Refs, HookMeansSettled, [Next]_vars
    PROVE  HookMeansSettled'
<1> USE DEF HookMeansSettled, Settled, Live, TypeOK
<1>1. ASSUME NEW r \in Requests, NEW c \in Clients, NEW kind \in {"submit", "probe"}, Enter(r, c, kind) PROVE HookMeansSettled'
  BY <1>1, Phases DEF Enter, Idle
<1>2. ASSUME NEW r \in Requests, TryIncrement(r) PROVE HookMeansSettled'
  BY <1>2, Phases DEF TryIncrement, Idle
<1>3. ASSUME NEW r \in Requests, RefuseSubmit(r) PROVE HookMeansSettled'
  BY <1>3, Phases DEF RefuseSubmit, At, Idle
<1>4. ASSUME NEW r \in Requests, NEW j \in Jobs, RejectEncoder(r, j) PROVE HookMeansSettled'
  BY <1>4, Phases DEF RejectEncoder, At
<1>5. ASSUME NEW r \in Requests, ReleaseRejected(r) PROVE HookMeansSettled'
  BY <1>5, Phases DEF ReleaseRejected, At, Idle
<1>6. ASSUME NEW r \in Requests, NEW j \in Jobs, CreateJob(r, j) PROVE HookMeansSettled'
  BY <1>6, Phases DEF CreateJob, At
<1>7. ASSUME NEW r \in Requests, NEW j \in Jobs, CreateJobReadFails(r, j) PROVE HookMeansSettled'
  BY <1>7, Phases DEF CreateJobReadFails, Idle
<1>8. ASSUME NEW r \in Requests, RegisterJob(r) PROVE HookMeansSettled'
  BY <1>8, Phases DEF RegisterJob, At, Idle
<1>9. ASSUME NEW r \in Requests, RefuseProbe(r) PROVE HookMeansSettled'
  BY <1>9, Phases DEF RefuseProbe, At, Return, Idle
<1>10. ASSUME NEW r \in Requests, NEW j \in Jobs, CreateProbeJob(r, j) PROVE HookMeansSettled'
  BY <1>10, Phases DEF CreateProbeJob, At
<1>11. ASSUME NEW r \in Requests, Subscribe(r) PROVE HookMeansSettled'
  BY <1>11, Phases DEF Subscribe, At
<1>12. ASSUME NEW r \in Requests, CheckProbe(r) PROVE HookMeansSettled'
  BY <1>12, Phases DEF CheckProbe, At, Return, Idle
<1>13. ASSUME NEW r \in Requests, Woken(r) PROVE HookMeansSettled'
  BY <1>13, Phases DEF Woken, At
<1>b. ASSUME NEW r \in Requests, Block(r) PROVE HookMeansSettled'
  BY <1>b, Phases DEF Block, At
<1>14. ASSUME NEW r \in Requests, ProbeBudget(r) PROVE HookMeansSettled'
  BY <1>14, Phases DEF ProbeBudget, At, Return, Idle
<1>15. ASSUME NEW r \in Requests, ProbeGone(r) PROVE HookMeansSettled'
  BY <1>15, Phases DEF ProbeGone, At, Return, Idle
<1>16. ASSUME NEW j \in Jobs, NEW b \in Life!Lives, JobStep(j, b) PROVE HookMeansSettled'
  BY <1>16, Phases DEF JobStep
<1>17. ASSUME NEW j \in Jobs, TerminalHook(j) PROVE HookMeansSettled'
  BY <1>17, Phases DEF TerminalHook, DecrementByJob
<1>18. ASSUME NEW j \in Jobs, Notify(j) PROVE HookMeansSettled'
  BY <1>18, Phases DEF Notify, Subscribed
<1>19. ASSUME NEW cfg \in [enabled : BOOLEAN, limit : Limits], UpdateConfig(cfg) PROVE HookMeansSettled'
  BY <1>19, Phases DEF UpdateConfig
<1>20. ASSUME Restart PROVE HookMeansSettled'
  BY <1>20, Phases DEF Restart, Idle
<1>21. CASE UNCHANGED vars
  BY <1>21 DEF vars
<1> QED
  BY <1>1, <1>2, <1>3, <1>4, <1>5, <1>6, <1>7, <1>8, <1>9, <1>10, <1>11, <1>12, <1>13, <1>b, <1>14, <1>15, <1>16, <1>17, <1>18, <1>19, <1>20, <1>21 DEF Next, SubmitNext, ProbeNext

(* A verdict is given with its notification pending, and the notification reaches
   every subscriber; only then may a probe be left at its channel. *)
LEMMA WakeStep ==
    ASSUME TypeOK, Refs, NoLostWakeup, [Next]_vars
    PROVE  NoLostWakeup'
<1> USE DEF NoLostWakeup, Settled, Live, TypeOK, Refs, ReqRow
<1>1. ASSUME NEW r \in Requests, NEW c \in Clients, NEW kind \in {"submit", "probe"}, Enter(r, c, kind) PROVE NoLostWakeup'
  BY <1>1, Phases DEF Enter, Idle
<1>2. ASSUME NEW r \in Requests, TryIncrement(r) PROVE NoLostWakeup'
  BY <1>2, Phases DEF TryIncrement, Idle
<1>3. ASSUME NEW r \in Requests, RefuseSubmit(r) PROVE NoLostWakeup'
  BY <1>3, Phases DEF RefuseSubmit, At, Idle
<1>4. ASSUME NEW r \in Requests, NEW j \in Jobs, RejectEncoder(r, j) PROVE NoLostWakeup'
  BY <1>4, Phases DEF RejectEncoder, At
<1>5. ASSUME NEW r \in Requests, ReleaseRejected(r) PROVE NoLostWakeup'
  BY <1>5, Phases DEF ReleaseRejected, At, Idle
<1>6. ASSUME NEW r \in Requests, NEW j \in Jobs, CreateJob(r, j) PROVE NoLostWakeup'
  BY <1>6, Phases DEF CreateJob, At
<1>7. ASSUME NEW r \in Requests, NEW j \in Jobs, CreateJobReadFails(r, j) PROVE NoLostWakeup'
  BY <1>7, Phases DEF CreateJobReadFails, Idle
<1>8. ASSUME NEW r \in Requests, RegisterJob(r) PROVE NoLostWakeup'
  BY <1>8, Phases DEF RegisterJob, At, Idle
<1>9. ASSUME NEW r \in Requests, RefuseProbe(r) PROVE NoLostWakeup'
  BY <1>9, Phases DEF RefuseProbe, At, Return, Idle
<1>10. ASSUME NEW r \in Requests, NEW j \in Jobs, CreateProbeJob(r, j) PROVE NoLostWakeup'
  BY <1>10, Phases DEF CreateProbeJob, At
<1>11. ASSUME NEW r \in Requests, Subscribe(r) PROVE NoLostWakeup'
  BY <1>11, Phases DEF Subscribe, At
<1>12. ASSUME NEW r \in Requests, CheckProbe(r) PROVE NoLostWakeup'
  BY <1>12, Phases DEF CheckProbe, At, Return, Idle
<1>13. ASSUME NEW r \in Requests, Woken(r) PROVE NoLostWakeup'
  BY <1>13, Phases DEF Woken, At
<1>b. ASSUME NEW r \in Requests, Block(r) PROVE NoLostWakeup'
  BY <1>b, Phases DEF Block, At
<1>14. ASSUME NEW r \in Requests, ProbeBudget(r) PROVE NoLostWakeup'
  BY <1>14, Phases DEF ProbeBudget, At, Return, Idle
<1>15. ASSUME NEW r \in Requests, ProbeGone(r) PROVE NoLostWakeup'
  BY <1>15, Phases DEF ProbeGone, At, Return, Idle
<1>16. ASSUME NEW j \in Jobs, NEW b \in Life!Lives, JobStep(j, b) PROVE NoLostWakeup'
  BY <1>16, Phases DEF JobStep
<1>17. ASSUME NEW j \in Jobs, TerminalHook(j) PROVE NoLostWakeup'
  BY <1>17, Phases DEF TerminalHook, DecrementByJob
<1>18. ASSUME NEW j \in Jobs, Notify(j) PROVE NoLostWakeup'
  BY <1>18, Phases DEF Notify, Subscribed
<1>19. ASSUME NEW cfg \in [enabled : BOOLEAN, limit : Limits], UpdateConfig(cfg) PROVE NoLostWakeup'
  BY <1>19, Phases DEF UpdateConfig
<1>20. ASSUME Restart PROVE NoLostWakeup'
  BY <1>20, Phases DEF Restart, Idle
<1>21. CASE UNCHANGED vars
  BY <1>21 DEF vars
<1> QED
  BY <1>1, <1>2, <1>3, <1>4, <1>5, <1>6, <1>7, <1>8, <1>9, <1>10, <1>11, <1>12, <1>13, <1>b, <1>14, <1>15, <1>16, <1>17, <1>18, <1>19, <1>20, <1>21 DEF Next, SubmitNext, ProbeNext

(* A live job stays mapped, or carried by the request that inserted it. *)
LEMMA CoveredStep ==
    ASSUME TypeOK, Refs, HookMeansSettled, Covered, [Next]_vars
    PROVE  Covered'
<1> USE NullAssumption DEF HookMeansSettled, Covered, AboutToMap, Settled, Live, TypeOK, ReqRow
<1>1. ASSUME NEW r \in Requests, NEW c \in Clients, NEW kind \in {"submit", "probe"}, Enter(r, c, kind) PROVE Covered'
  BY <1>1, Phases DEF Enter, Idle
<1>2. ASSUME NEW r \in Requests, TryIncrement(r) PROVE Covered'
  <2>1. /\ UNCHANGED <<life, jobClient, owner>>
        /\ req[r].stage = "admit"
        /\ \A q \in Requests \ {r} : req'[q] = req[q]
    BY <1>2 DEF TryIncrement
  <2> QED
    BY <2>1
<1>3. ASSUME NEW r \in Requests, RefuseSubmit(r) PROVE Covered'
  BY <1>3, Phases DEF RefuseSubmit, At, Idle
<1>4. ASSUME NEW r \in Requests, NEW j \in Jobs, RejectEncoder(r, j) PROVE Covered'
  BY <1>4, Phases DEF RejectEncoder, At
<1>5. ASSUME NEW r \in Requests, ReleaseRejected(r) PROVE Covered'
  BY <1>5, Phases DEF ReleaseRejected, At, Idle
<1>6. ASSUME NEW r \in Requests, NEW j \in Jobs, CreateJob(r, j) PROVE Covered'
  BY <1>6, Phases DEF CreateJob, At
<1>7. ASSUME NEW r \in Requests, NEW j \in Jobs, CreateJobReadFails(r, j) PROVE Covered'
  <2>1. /\ life' = [life EXCEPT ![j] = Life!Waiting]
        /\ UNCHANGED <<jobClient, owner>>
        /\ req[r].stage = "handler"
        /\ \A q \in Requests \ {r} : req'[q] = req[q]
        /\ owner[j] = NULL
    BY <1>7 DEF CreateJobReadFails, Refs
  <2> QED
    BY <2>1
<1>8. ASSUME NEW r \in Requests, RegisterJob(r) PROVE Covered'
  <2>1. /\ req[r].stage = "created" /\ req[r].job \in Jobs
        /\ jobClient' = [jobClient EXCEPT ![req[r].job] = req[r].client]
        /\ UNCHANGED <<life, owner>>
        /\ \A q \in Requests \ {r} : req'[q] = req[q]
        /\ jobClient[req[r].job] = NULL
        /\ \A q \in Requests : req[q].job = req[r].job => q = r
    BY <1>8 DEF RegisterJob, At, Refs
  <2> SUFFICES ASSUME NEW j \in Jobs, Live(j), owner[j] # NULL
               PROVE  jobClient'[j] = owner[j] \/ AboutToMap(j, owner[j])'
    BY <2>1
  <2>2. CASE j = req[r].job
    BY <2>1, <2>2
  <2>3. CASE j # req[r].job
    BY <2>1, <2>3
  <2> QED
    BY <2>2, <2>3
<1>9. ASSUME NEW r \in Requests, RefuseProbe(r) PROVE Covered'
  BY <1>9, Phases DEF RefuseProbe, At, Return, Idle
<1>10. ASSUME NEW r \in Requests, NEW j \in Jobs, CreateProbeJob(r, j) PROVE Covered'
  <2>1. /\ life' = [life EXCEPT ![j] = Life!Waiting]
        /\ UNCHANGED <<jobClient, owner>>
        /\ req[r].stage = "handler"
        /\ \A q \in Requests \ {r} : req'[q] = req[q]
        /\ owner[j] = NULL
    BY <1>10 DEF CreateProbeJob, At, Refs
  <2> QED
    BY <2>1
<1>11. ASSUME NEW r \in Requests, Subscribe(r) PROVE Covered'
  BY <1>11, Phases DEF Subscribe, At
<1>12. ASSUME NEW r \in Requests, CheckProbe(r) PROVE Covered'
  <2>1. /\ UNCHANGED <<life, jobClient, owner>>
        /\ req[r].stage = "check"
        /\ \A q \in Requests \ {r} : req'[q] = req[q]
    BY <1>12 DEF CheckProbe, At, Return
  <2> QED
    BY <2>1
<1>13. ASSUME NEW r \in Requests, Woken(r) PROVE Covered'
  BY <1>13, Phases DEF Woken, At
<1>b. ASSUME NEW r \in Requests, Block(r) PROVE Covered'
  BY <1>b, Phases DEF Block, At
<1>14. ASSUME NEW r \in Requests, ProbeBudget(r) PROVE Covered'
  BY <1>14, Phases DEF ProbeBudget, At, Return, Idle
<1>15. ASSUME NEW r \in Requests, ProbeGone(r) PROVE Covered'
  <2>1. /\ UNCHANGED <<jobClient, owner>>
        /\ req[r].stage = "wait"
        /\ \A q \in Requests \ {r} : req'[q] = req[q]
    BY <1>15 DEF ProbeGone, At, Return
  <2>2. \A j \in Jobs : Live(j)' => Live(j)
    BY <1>15, Phases DEF ProbeGone
  <2>3. \A j \in Jobs, c \in Clients : AboutToMap(j, c) => AboutToMap(j, c)'
    BY <2>1
  <2> HIDE DEF Live, AboutToMap
  <2> QED
    BY <2>1, <2>2, <2>3
<1>16. ASSUME NEW j \in Jobs, NEW b \in Life!Lives, JobStep(j, b) PROVE Covered'
  <2>1. UNCHANGED <<jobClient, owner, req>>
    BY <1>16 DEF JobStep
  <2>2. \A x \in Jobs : Live(x)' => Live(x)
    BY <1>16, Phases DEF JobStep
  <2> QED
    BY <2>1, <2>2
<1>17. ASSUME NEW j \in Jobs, TerminalHook(j) PROVE Covered'
  BY <1>17, Phases DEF TerminalHook, DecrementByJob
<1>18. ASSUME NEW j \in Jobs, Notify(j) PROVE Covered'
  BY <1>18, Phases DEF Notify, Subscribed
<1>19. ASSUME NEW cfg \in [enabled : BOOLEAN, limit : Limits], UpdateConfig(cfg) PROVE Covered'
  BY <1>19, Phases DEF UpdateConfig
<1>20. ASSUME Restart PROVE Covered'
  BY <1>20, Phases DEF Restart, Idle
<1>21. CASE UNCHANGED vars
  BY <1>21 DEF vars
<1> QED
  BY <1>1, <1>2, <1>3, <1>4, <1>5, <1>6, <1>7, <1>8, <1>9, <1>10, <1>11, <1>12, <1>13, <1>b, <1>14, <1>15, <1>16, <1>17, <1>18, <1>19, <1>20, <1>21 DEF Next, SubmitNext, ProbeNext

(* Release lowers a count, and not below zero. *)
LEMMA LessIsLess == ASSUME NEW n \in Nat PROVE Less(n) \in Nat /\ Less(n) <= n
BY DEF Less

(* only a reservation raises a count, and only below the limit it read *)
LEMMA BoundedStep ==
    ASSUME TypeOK, Bounded, [Next]_vars
    PROVE  Bounded'
<1> SUFFICES ASSUME NEW c \in Clients PROVE \E l \in Limits : counts'[c] <= l
  BY DEF Bounded
<1>1. PICK l \in Limits : counts[c] <= l
  BY DEF Bounded
<1>2. counts[c] \in Nat /\ l \in Nat /\ Less(counts[c]) <= counts[c] /\ Less(counts[c]) \in Nat
  BY LimitsAssumption, LessIsLess DEF TypeOK
<1>3. ASSUME counts'[c] \in {0, counts[c], Less(counts[c])} PROVE counts'[c] <= l
  BY <1>1, <1>2, <1>3
<1> DEFINE Lower == counts'[c] \in {0, counts[c], Less(counts[c])}
<1>4. ASSUME NEW r \in Requests, GiveBack(r) PROVE Lower
  BY <1>4 DEF GiveBack, Decrement, TypeOK
<1>5. ASSUME NEW r \in Requests, SubmitNext(r) \/ ProbeNext(r) PROVE Lower
  <2>1. CASE GiveBack(r)
    BY <1>4, <2>1
  <2>2. CASE UNCHANGED counts
    BY <2>2
  <2>3. CASE ReleaseRejected(r)
    BY <2>3 DEF ReleaseRejected, Decrement, TypeOK
  <2>4. GiveBack(r) \/ UNCHANGED counts \/ ReleaseRejected(r)
    BY <1>5 DEF SubmitNext, ProbeNext, RefuseSubmit, RegisterJob, RejectEncoder, CreateJob,
       RefuseProbe, CreateProbeJob, Subscribe, CheckProbe, Block, Woken, ProbeBudget, ProbeGone, Return
  <2> QED
    BY <2>1, <2>2, <2>3, <2>4
<1>6. ASSUME NEW r \in Requests, NEW j \in Jobs, CreateJobReadFails(r, j) PROVE Lower
  BY <1>4, <1>6 DEF CreateJobReadFails
<1>7. ASSUME NEW j \in Jobs, TerminalHook(j) PROVE Lower
  BY <1>7 DEF TerminalHook, DecrementByJob, Decrement, TypeOK
<1>8. ASSUME NEW r \in Requests, TryIncrement(r) PROVE Lower \/ counts'[c] <= req[r].limit
  <2>1. CASE counts[req[r].client] >= req[r].limit
    BY <1>8, <2>1 DEF TryIncrement
  <2>2. CASE ~(counts[req[r].client] >= req[r].limit)
    <3>1. /\ counts' = [counts EXCEPT ![req[r].client] = @ + 1]
          /\ req[r].client \in Clients /\ req[r].limit \in Nat
      BY <1>8, <2>2, LimitsAssumption DEF TryIncrement, TypeOK
    <3>2. CASE req[r].client = c
      <4>1. counts'[c] = counts[c] + 1 /\ ~(counts[c] >= req[r].limit)
        BY <2>2, <3>1, <3>2 DEF TypeOK
      <4> QED
        BY <1>2, <3>1, <4>1
    <3>3. CASE req[r].client # c
      BY <3>1, <3>3 DEF TypeOK
    <3> QED
      BY <3>2, <3>3
  <2> QED
    BY <2>1, <2>2
<1>9. ASSUME NEW r \in Requests, TryIncrement(r) PROVE req[r].limit \in Limits
  BY <1>9 DEF TryIncrement, TypeOK
<1>10. ASSUME NEW r \in Requests, NEW d, NEW kind, Enter(r, d, kind) PROVE Lower
  BY <1>10 DEF Enter
<1>11. ASSUME NEW j \in Jobs, NEW b, JobStep(j, b) PROVE Lower
  BY <1>11 DEF JobStep
<1>12. ASSUME NEW j \in Jobs, Notify(j) PROVE Lower
  BY <1>12 DEF Notify
<1>13. ASSUME NEW cfg, UpdateConfig(cfg) PROVE Lower
  BY <1>13 DEF UpdateConfig
<1>14. ASSUME Restart PROVE Lower
  BY <1>14 DEF Restart
<1>15. CASE UNCHANGED vars
  BY <1>3, <1>15 DEF vars
<1> HIDE DEF Lower
<1>16. Lower => counts'[c] <= l
  BY <1>3 DEF Lower
<1> QED
  BY <1>16, <1>5, <1>6, <1>7, <1>8, <1>9, <1>10, <1>11, <1>12, <1>13, <1>14, <1>15 DEF Next

(* what the ledger needs of the moves *)
LEMMA OverchargeStep ==
    ASSUME TypeOK, NEW c \in Clients, Move(c), counts[c] <= Slots(c), Slots(c)' \in Nat
    PROVE  counts'[c] <= Slots(c)'
<1>1. counts[c] \in Nat /\ Slots(c) \in Nat
  BY SlotsNat DEF TypeOK
<1> DEFINE n == counts[c]
           m == counts'[c]
           a == Slots(c)
           z == Slots(c)'
<1>2. n \in Nat /\ a \in Nat /\ n <= a /\ z \in Nat
  BY <1>1
<1>3. \/ m = n + 1 /\ z = a + 1
      \/ m = (IF n <= 1 THEN 0 ELSE n - 1) /\ a >= 1 /\ z = a - 1
      \/ m = n /\ z = a
      \/ m \in {n, IF n <= 1 THEN 0 ELSE n - 1} /\ z >= a
      \/ m = 0 /\ z = 0
  BY DEF Move, Less
<1> HIDE DEF n, m, a, z
<1>4. m <= z
  BY <1>2, <1>3
<1> QED
  BY <1>4 DEF m, z

(* Without free rides count and slots move together. *)
LEMMA LedgerStep ==
    ASSUME TypeOK, AllCharged, NEW c \in Clients, Move(c), counts[c] = Slots(c)
    PROVE  counts'[c] = Slots(c)'
<1>1. counts[c] \in Nat /\ Slots(c) \in Nat
  BY SlotsNat DEF TypeOK
<1>2. ~FreeRide
  BY DEF FreeRide, AllCharged
<1> DEFINE n == counts[c]
           m == counts'[c]
           z == Slots(c)'
<1>3. \/ m = n + 1 /\ z = n + 1
      \/ m = (IF n <= 1 THEN 0 ELSE n - 1) /\ n >= 1 /\ z = n - 1
      \/ m = n /\ z = n
      \/ m = 0 /\ z = 0
  BY <1>2 DEF Move, Less
<1>4. n \in Nat
  BY <1>1
<1> HIDE DEF n, m, z
<1>5. m = z
  BY <1>3, <1>4
<1> QED
  BY <1>5 DEF m, z

(* a client's live jobs and open probes are among the slots it is counted for *)
LEMMA LiveWithinSlots ==
    ASSUME TypeOK, Refs, AllCharged, Covered, NEW c \in Clients
    PROVE  /\ Cardinality(LiveOf(c)) \in Nat /\ Cardinality(ProbesOf(c)) \in Nat
           /\ Cardinality(LiveOf(c)) + Cardinality(ProbesOf(c)) <= Slots(c)
<1> DEFINE A == {r \in Charged(c) : req[r].kind = "submit" /\ req[r].stage = "created"}
           B == {req[r].job : r \in A}
           L == LiveOf(c)
           P == ProbesOf(c)
           M == Mapped(c)
           C == Charged(c)
<1>1. /\ IsFiniteSet(M) /\ IsFiniteSet(C) /\ IsFiniteSet(A) /\ IsFiniteSet(P)
  <2>1. M \subseteq Jobs /\ C \subseteq Requests /\ A \subseteq Requests /\ P \subseteq Requests
    BY DEF Mapped, Charged, ProbesOf
  <2> QED
    BY <2>1, FiniteAssumption, FS_Subset
<1>2. IsFiniteSet(B) /\ Cardinality(B) <= Cardinality(A)
  <2> DEFINE f == [r \in A |-> req[r].job]
  <2>1. f \in Surjection(A, B)
    BY DEF Surjection
  <2> HIDE DEF f, A, B
  <2> QED
    BY <1>1, <2>1, FS_Surjection
<1>3. L \subseteq M \cup B
  <2> SUFFICES ASSUME NEW j \in Jobs, owner[j] = c, Live(j), jobClient[j] # c
               PROVE  j \in B
    BY DEF LiveOf, Mapped
  <2>1. AboutToMap(j, c)
    BY NullAssumption DEF Covered
  <2>2. PICK r \in Requests : /\ req[r].stage = "created" /\ req[r].kind = "submit"
                              /\ req[r].job = j /\ req[r].client = c
    BY <2>1 DEF AboutToMap
  <2>3. r \in A
    BY <2>2 DEF AllCharged, Charged
  <2> QED
    BY <2>2, <2>3
<1>4. A \cap P = {} /\ A \cup P \subseteq C
  BY DEF ProbesOf
<1> HIDE DEF A, B, L, P, M, C
<1>5. /\ Cardinality(A) \in Nat /\ Cardinality(B) \in Nat /\ Cardinality(P) \in Nat
      /\ Cardinality(M) \in Nat /\ Cardinality(C) \in Nat
  BY <1>1, <1>2, FS_CardinalityType
<1>6. Cardinality(A) + Cardinality(P) <= Cardinality(C)
  <2>1. Cardinality(A \cup P) = Cardinality(A) + Cardinality(P)
    <3>1. Cardinality(A \cup P) = Cardinality(A) + Cardinality(P) - Cardinality(A \cap P)
      BY <1>1, FS_Union
    <3>2. Cardinality(A \cap P) = 0
      BY <1>4, FS_EmptySet
    <3> QED
      BY <1>5, <3>1, <3>2
  <2>2. Cardinality(A \cup P) <= Cardinality(C)
    BY <1>1, <1>4, FS_Subset
  <2> QED
    BY <2>1, <2>2
<1>7. IsFiniteSet(M \cup B) /\ Cardinality(M \cup B) <= Cardinality(M) + Cardinality(B)
  <2>1. /\ IsFiniteSet(M \cup B)
        /\ IsFiniteSet(M \cap B)
        /\ Cardinality(M \cup B) = Cardinality(M) + Cardinality(B) - Cardinality(M \cap B)
    BY <1>1, <1>2, FS_Union, FS_Intersection
  <2>2. Cardinality(M \cap B) \in Nat
    BY <2>1, FS_CardinalityType
  <2> QED
    BY <1>5, <2>1, <2>2
<1>8. IsFiniteSet(L) /\ Cardinality(L) <= Cardinality(M \cup B)
  BY <1>3, <1>7, FS_Subset
<1>9. Cardinality(L) \in Nat /\ Cardinality(M \cup B) \in Nat
  BY <1>7, <1>8, FS_CardinalityType
<1>10. Cardinality(L) + Cardinality(P) <= Cardinality(M) + Cardinality(C)
  BY <1>2, <1>5, <1>6, <1>7, <1>8, <1>9
<1> QED
  BY <1>5, <1>9, <1>10 DEF Slots, L, P, M, C

-----------------------------------------------------------------------------
(* Theorems *)

(* The invariant holds when the server starts. *)
LEMMA InvInit == Init => Inv
<1> SUFFICES ASSUME Init PROVE Inv
  OBVIOUS
<1>1. TypeOK
  BY Rows, MaxFaultsAssumption, EnabledAssumption DEF Init, TypeOK, Idle
<1>2. Refs
  BY NullAssumption DEF Init, Refs, Idle
<1>3. NeverOvercharged
  BY SlotsNat DEF Init, NeverOvercharged, Slots
<1> QED
  BY <1>1, <1>2, <1>3 DEF Inv

(* Every step keeps the invariant. *)
LEMMA InvStep == Inv /\ [Next]_vars => Inv'
<1> SUFFICES ASSUME Inv, [Next]_vars PROVE Inv'
  OBVIOUS
<1>1. TypeOK /\ Refs /\ NeverOvercharged
  BY DEF Inv
<1>2. TypeOK'
  BY <1>1, TypeStep
<1>3. Refs'
  BY <1>1, RefsStep
<1>4. ASSUME NEW c \in Clients PROVE counts'[c] <= Slots(c)'
  <2>1. counts[c] <= Slots(c)
    BY <1>1 DEF NeverOvercharged, Slots
  <2>2. Move(c)
    BY <1>1, EveryMove
  <2>3. Slots(c)' \in Nat
    <3>1. IsFiniteSet(Mapped(c)') /\ IsFiniteSet(Charged(c)')
      <4>1. Mapped(c)' \subseteq Jobs /\ Charged(c)' \subseteq Requests
        BY DEF Mapped, Charged
      <4> QED
        BY <4>1, FiniteAssumption, FS_Subset
    <3>2. Cardinality(Mapped(c)') \in Nat /\ Cardinality(Charged(c)') \in Nat
      BY <3>1, FS_CardinalityType
    <3> QED
      BY <3>2 DEF Slots
  <2> QED
    BY <1>1, <2>1, <2>2, <2>3, OverchargeStep
<1>5. NeverOvercharged'
  BY <1>4 DEF NeverOvercharged, Slots
<1> QED
  BY <1>2, <1>3, <1>5 DEF Inv

(* The invariant holds in every reachable state. *)
LEMMA InvHolds == Spec => []Inv
BY InvInit, InvStep, PTL DEF Spec

(* With limiting on at the start, its invariant holds. *)
LEMMA OnInit == ASSUME AlwaysOn, Init PROVE OnInv
<1>1. Inv
  BY InvInit
<1>2. config.enabled /\ AllCharged
  BY DEF Init, AlwaysOn, AllCharged, Idle
<1>3. LedgerExact
  <2> SUFFICES ASSUME NEW c \in Clients
               PROVE  counts[c] = Cardinality(Mapped(c)) + Cardinality(Charged(c))
    BY DEF LedgerExact
  <2>1. counts[c] = 0 /\ Mapped(c) = {} /\ Charged(c) = {}
    BY NullAssumption DEF Init, Mapped, Charged, Idle
  <2> QED
    BY <2>1, FS_EmptySet
<1>4. Bounded
  <2>1. config.limit \in Limits
    BY DEF Init
  <2>2. \A c \in Clients : counts[c] = 0
    BY DEF Init
  <2>3. config.limit \in Nat
    BY <2>1, LimitsAssumption
  <2> QED
    BY <2>1, <2>2, <2>3 DEF Bounded
<1>5. HookMeansSettled /\ Covered
  BY DEF Init, HookMeansSettled, Covered
<1> QED
  BY <1>2, <1>3, <1>4, <1>5 DEF OnInv

(* Every step keeps it while limiting stays on. *)
LEMMA OnStep == ASSUME AlwaysOn, Inv, OnInv, [Next]_vars PROVE OnInv'
<1>1. TypeOK /\ Refs
  BY DEF Inv
<1>2. config.enabled /\ AllCharged /\ LedgerExact /\ Bounded /\ HookMeansSettled /\ Covered
  BY DEF OnInv
<1>3. config'.enabled /\ AllCharged'
  BY <1>1, <1>2, ChargedStep
<1>4. ASSUME NEW c \in Clients PROVE counts'[c] = Slots(c)'
  <2>1. counts[c] = Slots(c)
    BY <1>2 DEF LedgerExact, Slots
  <2>2. Move(c)
    BY <1>1, EveryMove
  <2> QED
    BY <1>1, <1>2, <2>1, <2>2, LedgerStep
<1>5. LedgerExact'
  BY <1>4 DEF LedgerExact, Slots
<1>6. Bounded' /\ HookMeansSettled' /\ Covered'
  BY <1>1, <1>2, BoundedStep, HookStep, CoveredStep
<1> QED
  BY <1>3, <1>5, <1>6 DEF OnInv

(* It holds in every reachable state while limiting stays on. *)
LEMMA OnHolds == ASSUME AlwaysOn PROVE Spec => []OnInv
<1>1. Init => OnInv
  BY OnInit
<1>2. Inv /\ OnInv /\ [Next]_vars => OnInv'
  BY OnStep
<1> QED
  BY <1>1, <1>2, InvHolds, PTL DEF Spec

(* Counters, requests and configuration stay in their types. *)
THEOREM AdmissionTypeCorrect == Spec => []TypeOK
<1>1. Inv => TypeOK
  BY DEF Inv
<1> QED
  BY <1>1, InvHolds, PTL

(* However submissions, probes, verdicts, restarts and the administrator's
   switches interleave, no client's count exceeds the jobs mapped to it and its
   requests in flight. *)
THEOREM NoOvercharge == Spec => []NeverOvercharged
<1>1. Inv => NeverOvercharged
  BY DEF Inv
<1> QED
  BY <1>1, InvHolds, PTL

(* If rate limiting is on and stays on, a count is exactly what it stands for:
   every failure path gives back the slot its own request took, and no other. *)
THEOREM LedgerIsExact == ASSUME AlwaysOn PROVE Spec => []LedgerExact
<1>1. OnInv => LedgerExact
  BY DEF OnInv
<1> QED
  BY <1>1, OnHolds, PTL

(* If rate limiting is on and stays on, a client's accepted live jobs and open
   probes never exceed the largest configured limit. *)
THEOREM LimitIsKept == ASSUME AlwaysOn PROVE Spec => []LimitHolds
<1>1. ASSUME Inv, OnInv PROVE LimitHolds
  <2> SUFFICES ASSUME NEW c \in Clients
               PROVE  \E l \in Limits : Cardinality(LiveOf(c)) + Cardinality(ProbesOf(c)) <= l
    BY DEF LimitHolds
  <2>1. /\ Cardinality(LiveOf(c)) \in Nat /\ Cardinality(ProbesOf(c)) \in Nat
        /\ Cardinality(LiveOf(c)) + Cardinality(ProbesOf(c)) <= Slots(c)
    BY <1>1, LiveWithinSlots DEF Inv, OnInv
  <2>2. counts[c] = Slots(c)
    BY <1>1 DEF OnInv, LedgerExact, Slots
  <2>3. PICK l \in Limits : counts[c] <= l
    BY <1>1 DEF OnInv, Bounded
  <2>4. Slots(c) \in Nat /\ l \in Nat
    BY SlotsNat, LimitsAssumption
  <2> QED
    BY <2>1, <2>2, <2>3, <2>4
<1>2. Inv /\ OnInv => LimitHolds
  BY <1>1
<1> QED
  BY <1>2, InvHolds, OnHolds, PTL

(* No wake-up is lost, for any number of probes and jobs and whatever an
   administrator switches: a probe blocked on a settled job has its wake-up in
   the channel, or the writer of the verdict has yet to send it. *)
THEOREM WakeupsAreKept == Spec => []NoLostWakeup
<1>1. Init => NoLostWakeup
  BY DEF Init, NoLostWakeup, Idle
<1>2. Inv /\ NoLostWakeup /\ [Next]_vars => NoLostWakeup'
  BY WakeStep DEF Inv
<1> QED
  BY <1>1, <1>2, InvHolds, PTL DEF Spec
=============================================================================
