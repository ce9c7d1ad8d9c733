---------------------------- MODULE RequestUsage ----------------------------
(***************************************************************************)
(* The monthly request count of one tenant (PlanService and the migration  *)
(* AddTenantRequestUsage).  A trigger counts a request when its first      *)
(* attempt row is stored.  What happened before the trigger was installed  *)
(* (the cutover) is counted lazily, by the first replica that needs the    *)
(* count of a window, while rows keep coming in and other replicas do the  *)
(* same.  The gate reads the count before a request is routed.             *)
(***************************************************************************)
EXTENDS Integers, FiniteSets

CONSTANTS
  Requests,     (* requests of the tenant                                   *)
  Replicas,     (* backend processes; each has its own PlanService          *)
  MaxAttempts,  (* bound: provider calls of a request                       *)
  FallBack,     (* bound: the requests that make more than one              *)
  Limit         (* requestsPerMonth of the tenant's plan                    *)

ASSUME UsageAssumption ==
  /\ IsFiniteSet(Requests) /\ FallBack \subseteq Requests
  /\ MaxAttempts \in Nat \ {0}
  /\ Limit \in Nat

Months   == {0, 1}       (* the cutover falls into month 0                  *)
Tries    == 1 .. MaxAttempts

(* How a row is classified when it is inserted: `tuple' has one of the     *)
(* origins config, policy, internal, request.                              *)
Kinds == {"live", "superseded", "tuple"}

None == "none"

NoInit == [at |-> None, found |-> {}]

VARIABLES
  cutover,  (* the cutover is published and the trigger installed           *)
  month,    (* the current month                                            *)
  phase,    (* where a request is: None, "ingress", "waiting", "admitted",  *)
            (* "refused", or "legacy": served by an older version           *)
  window,   (* the month of a request's own timestamp                       *)
  stage,    (* of an attempt: None, "calling", "unlinked" or "linked" row   *)
  before,   (* its timestamp is older than the cutover                      *)
  kind,     (* how its row was classified                                   *)
  counted,  (* requests with the flag quota_counted                         *)
  usage,    (* rows of tenant_request_usage: is there one, its              *)
            (* request_count n and its flag baseline_counted                *)
  init,     (* a replica's initialization of a window: None, "started" or   *)
            (* "counted", and the requests its baseline query has found     *)
  asks,     (* the replica and the window a waiting request asked           *)
  live,     (* history: requests the trigger counted in a window            *)
  baseline, (* history: requests a window's baseline counted                *)
  late      (* history: requests with a row that is older than the cutover  *)
            (* and was stored after it                                      *)

ledger == <<stage, before, kind>>
gate   == <<phase, asks>>
meter  == <<counted, usage, live, baseline>>
vars   == <<cutover, month, window, init, late, ledger, gate, meter>>

Init ==
  /\ cutover = FALSE
  /\ month = 0
  /\ phase = [r \in Requests |-> None]
  /\ window = [r \in Requests |-> 0]
  /\ stage = [r \in Requests |-> [k \in Tries |-> None]]
  /\ before = [r \in Requests |-> [k \in Tries |-> FALSE]]
  /\ kind = [r \in Requests |-> [k \in Tries |-> "live"]]
  /\ counted = {}
  /\ usage = [w \in Months |-> [there |-> FALSE, n |-> 0, base |-> FALSE]]
  /\ init = [p \in Replicas |-> [w \in Months |-> NoInit]]
  /\ asks = [r \in Requests |-> <<>>]
  /\ live = [w \in Months |-> {}]
  /\ baseline = [w \in Months |-> {}]
  /\ late = {}

-----------------------------------------------------------------------------
(* The trigger count_tenant_request_usage.                                 *)

(* Mutant: an attempt older than the cutover is not looked for.            *)
HistoricalNever(r, k) == FALSE

(* Another attempt of the request belongs to the baseline.                 *)
Historical(r, k) ==
  \E j \in Tries \ {k} : /\ stage[r][j] = "linked"
                         /\ before[r][j]
                         /\ kind[r][j] # "tuple"

(* The row of attempt k of r, with timestamp `was' and classification c,   *)
(* raises the count.                                                       *)
CountsLive(r, k, was, c) ==
  /\ cutover
  /\ ~was /\ c = "live"
  /\ ~Historical(r, k)
  /\ r \notin counted

(* Mutant: the row of the cutover's month, too, waits for no baseline.     *)
CountedComplete(u, w) ==
  [there |-> TRUE, n |-> u.n + 1, base |-> u.base \/ ~u.there]

(* The trigger's INSERT ... ON CONFLICT DO UPDATE: of the rows it inserts  *)
(* only one whose window starts after the cutover awaits no baseline.      *)
Counted(u, w) ==
  [there |-> TRUE, n |-> u.n + 1, base |-> u.base \/ (~u.there /\ w > 0)]

(* AFTER INSERT OR UPDATE OF request_id, in the writer's transaction.      *)
Trigger(r, k, was, c) ==
  LET w == window[r] IN
    /\ counted' = IF cutover /\ ~was /\ c = "live" THEN counted \union {r}
                                                   ELSE counted
    /\ IF CountsLive(r, k, was, c)
         THEN /\ usage' = [usage EXCEPT ![w] = Counted(usage[w], w)]
              /\ live' = [live EXCEPT ![w] = @ \union {r}]
         ELSE UNCHANGED <<usage, live>>
    /\ UNCHANGED baseline

-----------------------------------------------------------------------------
(* Requests and their attempts.                                            *)

(* An attempt's timestamp is taken when the call starts.                   *)
StartAttempt(r, k) ==
  /\ phase[r] \in {"admitted", "legacy"}
  /\ stage[r][k] = None
  /\ \A j \in 1 .. k - 1 : stage[r][j] # None
  /\ k > 1 => r \in FallBack /\ phase[r] = "admitted"
  /\ stage' = [stage EXCEPT ![r][k] = "calling"]
  /\ before' = [before EXCEPT ![r][k] = ~cutover]
  /\ UNCHANGED <<cutover, month, window, init, late, kind, gate, meter>>

(* The row is stored while the call is pending or, if that failed, when it *)
(* has ended: then other attempts may have been stored before it.          *)
StoreAttempt(r, k, c) ==
  /\ phase[r] # "legacy"
  /\ stage[r][k] = "calling"
  /\ stage' = [stage EXCEPT ![r][k] = "linked"]
  /\ kind' = [kind EXCEPT ![r][k] = c]
  /\ late' = IF cutover /\ before[r][k] THEN late \union {r} ELSE late
  /\ Trigger(r, k, before[r][k], c)
  /\ UNCHANGED <<cutover, month, window, init, before, gate>>

(* A version that knows no requests stores a row without request_id.       *)
StoreLegacy(r, c) ==
  /\ phase[r] = "legacy"
  /\ stage[r][1] = "calling"
  /\ stage' = [stage EXCEPT ![r][1] = "unlinked"]
  /\ kind' = [kind EXCEPT ![r][1] = c]
  /\ late' = IF cutover /\ before[r][1] THEN late \union {r} ELSE late
  /\ UNCHANGED <<cutover, month, window, init, before, gate, meter>>

(* The request backfill gives such a row its request; the trigger fires.   *)
LinkLegacy(r) ==
  /\ stage[r][1] = "unlinked"
  /\ stage' = [stage EXCEPT ![r][1] = "linked"]
  /\ Trigger(r, 1, before[r][1], kind[r][1])
  /\ UNCHANGED <<cutover, month, window, init, late, before, kind, gate>>

-----------------------------------------------------------------------------
(* The gate: assertWithinRequestLimit and countRequestsSince.              *)

(* The request row is written before the gate is asked.  Versions before   *)
(* the cutover have a gate of their own; requests that pass it are taken   *)
(* as admitted.                                                            *)
Accept(r) ==
  /\ phase[r] = None
  /\ window' = [window EXCEPT ![r] = month]
  /\ phase' = [phase EXCEPT ![r] = IF cutover THEN "ingress" ELSE "admitted"]
  /\ UNCHANGED <<cutover, month, init, late, ledger, asks, meter>>

AcceptLegacy(r) ==
  /\ phase[r] = None /\ month = 0
  /\ phase' = [phase EXCEPT ![r] = "legacy"]
  /\ UNCHANGED <<cutover, month, window, init, late, ledger, asks, meter>>

Verdict(used) == IF used < Limit THEN "admitted" ELSE "refused"

(* The steady state: one read by primary key.                              *)
ReadCount(r) ==
  /\ phase[r] = "ingress"
  /\ usage[month].base
  /\ phase' = [phase EXCEPT ![r] = Verdict(usage[month].n)]
  /\ UNCHANGED <<cutover, month, window, init, late, ledger, asks, meter>>

(* Otherwise the request waits for its replica's initialization of the     *)
(* window, which it starts if there is none.                               *)
AskBaseline(r, p) ==
  /\ phase[r] = "ingress"
  /\ ~usage[month].base
  /\ phase' = [phase EXCEPT ![r] = "waiting"]
  /\ asks' = [asks EXCEPT ![r] = <<p, month>>]
  /\ init' = IF init[p][month].at # None THEN init
              ELSE [init EXCEPT ![p][month] = [at |-> "started", found |-> {}]]
  /\ UNCHANGED <<cutover, month, window, late, ledger, meter>>

(* Mutant: the baseline takes every stored request of the window.          *)
BaselineOfAll(w) ==
  {r \in Requests : window[r] = w /\ \E k \in Tries : stage[r][k] = "linked"}

(* What the baseline query finds; a window that starts after the cutover   *)
(* has none.                                                               *)
Baseline(w) ==
  {r \in Requests :
     /\ w = 0 /\ window[r] = w
     /\ \/ \E k \in Tries : /\ stage[r][k] = "linked"
                            /\ before[r][k] /\ kind[r][k] # "tuple"
        \/ \E k \in Tries : /\ stage[r][k] = "unlinked"
                            /\ before[r][k] /\ kind[r][k] = "live"}

CountBaseline(p, w) ==
  /\ init[p][w].at = "started"
  /\ init' = [init EXCEPT ![p][w] = [at |-> "counted", found |-> Baseline(w)]]
  /\ UNCHANGED <<cutover, month, window, late, ledger, gate, meter>>

(* The waiting requests of a replica's initialization get its answer.      *)
Answered(p, w, verdict) ==
  [r \in Requests |-> IF phase[r] = "waiting" /\ asks[r] = <<p, w>>
                        THEN verdict ELSE phase[r]]

(* Mutant: every replica adds the baseline it has counted.                 *)
MergedTwice(w, n) == [there |-> TRUE, n |-> usage[w].n + n, base |-> TRUE]

(* INSERT ... ON CONFLICT DO UPDATE.                                       *)
Merged(w, n) ==
  [there |-> TRUE,
   n     |-> usage[w].n + IF usage[w].base THEN 0 ELSE n,
   base  |-> TRUE]

MergeBaseline(p, w) ==
  /\ init[p][w].at = "counted"
  /\ usage' = [usage EXCEPT ![w] = Merged(w, Cardinality(init[p][w].found))]
  /\ baseline' = IF usage[w].base THEN baseline
                   ELSE [baseline EXCEPT ![w] = init[p][w].found]
  /\ init' = [init EXCEPT ![p][w] = NoInit]
  /\ phase' = Answered(p, w, Verdict(usage'[w].n))
  /\ UNCHANGED <<cutover, month, window, late, ledger, asks, counted, live>>

(* A statement failed: the gate fails open, the next request tries again.  *)
InitFails(p, w) ==
  /\ init[p][w].at # None
  /\ init' = [init EXCEPT ![p][w] = NoInit]
  /\ phase' = Answered(p, w, "admitted")
  /\ UNCHANGED <<cutover, month, window, late, ledger, asks, meter>>

-----------------------------------------------------------------------------
(* The environment.                                                        *)

(* The lock on agent_messages makes it one step.                           *)
Cutover ==
  /\ ~cutover
  /\ cutover' = TRUE
  /\ UNCHANGED <<month, window, init, late, ledger, gate, meter>>

NextMonth ==
  /\ cutover /\ month = 0
  /\ month' = 1
  /\ UNCHANGED <<cutover, window, init, late, ledger, gate, meter>>

Next ==
  \/ Cutover \/ NextMonth
  \/ \E r \in Requests :
       \/ Accept(r) \/ AcceptLegacy(r) \/ ReadCount(r) \/ LinkLegacy(r)
       \/ \E p \in Replicas : AskBaseline(r, p)
       \/ \E c \in Kinds : StoreLegacy(r, c)
       \/ \E k \in Tries :
            \/ StartAttempt(r, k)
            \/ \E c \in Kinds : StoreAttempt(r, k, c)
  \/ \E p \in Replicas, w \in Months :
       CountBaseline(p, w) \/ MergeBaseline(p, w) \/ InitFails(p, w)

Spec == Init /\ [][Next]_vars

-----------------------------------------------------------------------------
(* Properties.                                                             *)

(* Every variable holds a value of its kind.                               *)
TypeOK ==
  /\ cutover \in BOOLEAN
  /\ month \in Months
  /\ phase \in [Requests -> {None, "ingress", "waiting", "admitted", "refused",
                             "legacy"}]
  /\ window \in [Requests -> Months]
  /\ stage \in [Requests -> [Tries -> {None, "calling", "unlinked", "linked"}]]
  /\ before \in [Requests -> [Tries -> BOOLEAN]]
  /\ kind \in [Requests -> [Tries -> Kinds]]
  /\ counted \subseteq Requests
  /\ usage \in [Months -> [there : BOOLEAN, n : Nat, base : BOOLEAN]]
  /\ init \in [Replicas -> [Months -> [at : {None, "started", "counted"},
                                       found : SUBSET Requests]]]
  /\ asks \in [Requests -> {<<>>} \union (Replicas \X Months)]
  /\ live \in [Months -> SUBSET Requests]
  /\ baseline \in [Months -> SUBSET Requests]
  /\ late \subseteq Requests

(* plan.service.ts:172-174: the baseline is added exactly once, whatever   *)
(* the replicas that count it at the same time and the trigger do: the     *)
(* stored number is that of the requests the trigger has counted and, as   *)
(* soon as the row says so, of one baseline.                               *)
BaselineAddedOnce ==
  \A w \in Months : usage[w].n = Cardinality(live[w]) + Cardinality(baseline[w])

(* No request is counted by the trigger and in the baseline, or in two     *)
(* months.  Excepted is one of whose attempts a row older than the cutover *)
(* was stored after it: a newer attempt may have been counted by then.     *)
CountedOnce ==
  \A r \in Requests \ late, w \in Months :
    /\ r \in live[w] => /\ r \notin baseline[w]
                        /\ \A v \in Months \ {w} : r \notin live[v]
    /\ r \in baseline[w] => w = 0

(* Once a window has its baseline, a request with a row of a provider call *)
(* is in the count, whichever side of the cutover its attempts are on and  *)
(* whether the backfill has linked them yet.  Excepted are late requests   *)
(* (the trigger leaves their rows to a baseline that may be taken already) *)
(* and rows of older versions until they are linked.                       *)
NoneMissed ==
  \A r \in Requests \ late, k \in Tries :
    /\ usage[window[r]].base
    /\ kind[r][k] = "live"
    /\ stage[r][k] = "linked" \/ (stage[r][k] = "unlinked" /\ before[r][k])
    => r \in live[window[r]] \union baseline[window[r]]

(* A request is only refused when the plan's number of requests has really *)
(* been made: the lazy baseline, counted while the trigger is live, never  *)
(* makes the gate see a request twice.  Only late requests may have been.  *)
RefusedAtLimit ==
  \A r \in Requests :
    phase[r] = "refused" =>
      \E w \in Months :
        Cardinality(live[w] \union baseline[w]) + Cardinality(late) >= Limit
=============================================================================
