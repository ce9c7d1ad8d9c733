--------------------------- MODULE ProxyAdmission ---------------------------
(***************************************************************************)
(* The limits in front of the proxy, per backend process: how many requests*)
(* a tenant and an IP address may make per window, and how many requests of*)
(* a tenant may be in flight (ProxyRateLimiter, as handleProxyRequest uses *)
(* it).  Rates are kept in insertion-ordered maps, here functions whose    *)
(* entries name the keys inserted before them: a touch moves an entry to   *)
(* the end and an overflow drops the oldest.                               *)
(***************************************************************************)
EXTENDS Naturals, FiniteSets

CONSTANTS
  Requests,        (* request handlers; each serves one request at a time   *)
  Tenants, Ips,
  RateMax,         (* RATE_MAX_REQUESTS                                     *)
  IpRateMax,       (* IP_RATE_MAX_REQUESTS                                  *)
  ConcurrencyMax,  (* CONCURRENCY_MAX                                       *)
  MaxEntries,      (* MAX_RATE_ENTRIES                                      *)
  Window,          (* RATE_WINDOW_MS, in ticks of the clock                 *)
  MaxTime,         (* bound: the clock stops here                           *)
  NoTenant

ASSUME AdmissionAssumption ==
  /\ IsFiniteSet(Requests)
  /\ NoTenant \notin Tenants
  /\ {RateMax, IpRateMax, ConcurrencyMax, MaxEntries, Window} \subseteq Nat \ {0}
  /\ MaxTime \in Nat

VARIABLES
  now,       (* Date.now()                                                  *)
  rates,     (* the window of each tenant that has one: its count, its      *)
             (* start and the tenants inserted before it                    *)
  ipRates,   (* the same of each IP address                                 *)
  slots,     (* concurrency: requests in flight of a tenant (absent: 0)     *)
  stage,     (* "idle", "gate", "forward" or "error" of a handler           *)
  tenant,    (* the tenant of the request a handler serves                  *)
  acquired,  (* slotAcquired                                                *)
  passed,    (* history: <<tenant, time, n>> for each request that passed   *)
             (* checkLimit within the last Window, of tenants not dropped   *)
  dropped    (* history: tenants whose window an overflow dropped           *)

admission == <<now, rates, ipRates, slots, stage, tenant, acquired, passed, dropped>>

Times == 0 .. MaxTime

AdmissionInit ==
  /\ now = 0
  /\ rates = <<>> /\ ipRates = <<>>
  /\ slots = [t \in Tenants |-> 0]
  /\ stage = [q \in Requests |-> "idle"]
  /\ tenant = [q \in Requests |-> NoTenant]
  /\ acquired = [q \in Requests |-> FALSE]
  /\ passed = {}
  /\ dropped = {}

-----------------------------------------------------------------------------
(* Windows.                                                                *)

Current(e) == now - e.start < Window

(* The requests counted in k's current window, at most.                    *)
Counted(m, k) == IF k \in DOMAIN m /\ Current(m[k])
                   THEN m[k]
                   ELSE [count |-> 0, start |-> now]

Over(m, k, max) == Counted(m, k).count >= max

Kept(m, K) == [j \in K |-> [m[j] EXCEPT !.before = @ \cap K]]

(* delete, then set: the entry counts one more and is the youngest.        *)
Touched(m, k) ==
  LET others == DOMAIN m \ {k} IN
  [j \in DOMAIN m \cup {k} |->
     IF j = k THEN [count  |-> Counted(m, k).count + 1,
                    start  |-> Counted(m, k).start,
                    before |-> others]
              ELSE Kept(m, others)[j]]

Trimmed(m) == IF Cardinality(DOMAIN m) > MaxEntries
                THEN Kept(m, {k \in DOMAIN m : m[k].before # {}})
                ELSE m

Passed(t) == {p \in passed : p[1] = t}

CountTenant(t) ==
  /\ rates' = Trimmed(Touched(rates, t))
  /\ dropped' = dropped \cup (({t} \cup DOMAIN rates) \ DOMAIN rates')
  /\ passed' = {p \in passed \cup {<<t, now, Cardinality(Passed(t))>>} : p[1] \notin dropped'}

-----------------------------------------------------------------------------
(* A request arrives; it is recorded as pending and its recording setting  *)
(* is looked up before anything is checked.                                *)
Arrive(q) ==
  /\ stage[q] = "idle"
  /\ \E t \in Tenants : tenant' = [tenant EXCEPT ![q] = t]
  /\ acquired' = [acquired EXCEPT ![q] = FALSE]
  /\ stage' = [stage EXCEPT ![q] = "gate"]
  /\ UNCHANGED <<now, rates, ipRates, slots, passed, dropped>>

Leave(q) ==
  /\ stage' = [stage EXCEPT ![q] = "idle"]
  /\ tenant' = [tenant EXCEPT ![q] = NoTenant]

(* The plan's request limit refuses it, or the check fails: outside the    *)
(* try whose finally releases the slot.                                    *)
GateRefuses(q) ==
  /\ stage[q] = "gate"
  /\ Leave(q)
  /\ UNCHANGED <<now, rates, ipRates, slots, acquired, passed, dropped>>

(* Once the gate has passed, the three checks run without an await between *)
(* them, but a refusal by a later one leaves what the earlier ones counted.*)
TenantOver(q) ==
  /\ stage[q] = "gate"
  /\ Over(rates, tenant[q], RateMax)
  /\ stage' = [stage EXCEPT ![q] = "error"]
  /\ UNCHANGED <<now, rates, ipRates, slots, tenant, acquired, passed, dropped>>

IpOver(q, ip) ==
  /\ stage[q] = "gate"
  /\ ~Over(rates, tenant[q], RateMax)
  /\ Over(ipRates, ip, IpRateMax)
  /\ CountTenant(tenant[q])
  /\ stage' = [stage EXCEPT ![q] = "error"]
  /\ UNCHANGED <<now, ipRates, slots, tenant, acquired>>

(* Mutant: slotAcquired is set before the slot is.                         *)
NoSlotMarked(q, ip) ==
  /\ stage[q] = "gate"
  /\ ~Over(rates, tenant[q], RateMax)
  /\ ~Over(ipRates, ip, IpRateMax)
  /\ slots[tenant[q]] >= ConcurrencyMax
  /\ CountTenant(tenant[q])
  /\ ipRates' = Trimmed(Touched(ipRates, ip))
  /\ acquired' = [acquired EXCEPT ![q] = TRUE]
  /\ stage' = [stage EXCEPT ![q] = "error"]
  /\ UNCHANGED <<now, slots, tenant>>

NoSlot(q, ip) ==
  /\ stage[q] = "gate"
  /\ ~Over(rates, tenant[q], RateMax)
  /\ ~Over(ipRates, ip, IpRateMax)
  /\ slots[tenant[q]] >= ConcurrencyMax
  /\ CountTenant(tenant[q])
  /\ ipRates' = Trimmed(Touched(ipRates, ip))
  /\ stage' = [stage EXCEPT ![q] = "error"]
  /\ UNCHANGED <<now, slots, tenant, acquired>>

(* All three limits let the request in; from here on it holds a slot.      *)
Admit(q, ip) ==
  /\ stage[q] = "gate"
  /\ ~Over(rates, tenant[q], RateMax)
  /\ ~Over(ipRates, ip, IpRateMax)
  /\ slots[tenant[q]] < ConcurrencyMax
  /\ CountTenant(tenant[q])
  /\ ipRates' = Trimmed(Touched(ipRates, ip))
  /\ slots' = [slots EXCEPT ![tenant[q]] = @ + 1]
  /\ acquired' = [acquired EXCEPT ![q] = TRUE]
  /\ stage' = [stage EXCEPT ![q] = "forward"]
  /\ UNCHANGED <<now, tenant>>

(* The proxying throws, or the client goes away.                           *)
ForwardThrows(q) ==
  /\ stage[q] = "forward"
  /\ stage' = [stage EXCEPT ![q] = "error"]
  /\ UNCHANGED <<now, rates, ipRates, slots, tenant, acquired, passed, dropped>>

(* The response has been sent, or the error handled: finally.  A count of  *)
(* one is deleted; an absent one stays absent.                             *)
Finish(q) ==
  /\ stage[q] \in {"forward", "error"}
  /\ slots' = [slots EXCEPT ![tenant[q]] = IF acquired[q] /\ @ > 0 THEN @ - 1 ELSE @]
  /\ Leave(q)
  /\ acquired' = [acquired EXCEPT ![q] = FALSE]
  /\ UNCHANGED <<now, rates, ipRates, passed, dropped>>

(* Mutant: the cleanup also takes windows that still count.                *)
EvictExpiredAll ==
  /\ rates' = <<>> /\ ipRates' = <<>>
  /\ UNCHANGED <<now, slots, stage, tenant, acquired, passed, dropped>>

(* The cleanup timer; when it fires is not related to any window.          *)
EvictExpired ==
  /\ rates # <<>> \/ ipRates # <<>>
  /\ rates' = Kept(rates, {t \in DOMAIN rates : Current(rates[t])})
  /\ ipRates' = Kept(ipRates, {ip \in DOMAIN ipRates : Current(ipRates[ip])})
  /\ UNCHANGED <<now, slots, stage, tenant, acquired, passed, dropped>>

Elapse ==
  /\ now < MaxTime
  /\ now' = now + 1
  /\ passed' = {p \in passed : now' - p[2] < Window}
  /\ UNCHANGED <<rates, ipRates, slots, stage, tenant, acquired, dropped>>

(* What a handler does once its request has arrived.                       *)
Serve(q) ==
  \/ GateRefuses(q) \/ TenantOver(q)
  \/ \E ip \in Ips : IpOver(q, ip) \/ NoSlot(q, ip) \/ Admit(q, ip)
  \/ ForwardThrows(q) \/ Finish(q)

AdmissionNext ==
  \/ \E q \in Requests : Arrive(q) \/ Serve(q)
  \/ EvictExpired
  \/ Elapse

AdmissionSpec == AdmissionInit /\ [][AdmissionNext]_admission

-----------------------------------------------------------------------------
Windows(m, K, max) ==
  /\ m \in [DOMAIN m -> [count : 1 .. max, start : Times, before : SUBSET K]]
  /\ DOMAIN m \subseteq K /\ Cardinality(DOMAIN m) <= MaxEntries

AdmissionTypeOK ==
  /\ now \in Times
  /\ Windows(rates, Tenants, RateMax) /\ Windows(ipRates, Ips, IpRateMax)
  /\ slots \in [Tenants -> Nat]
  /\ stage \in [Requests -> {"idle", "gate", "forward", "error"}]
  /\ tenant \in [Requests -> Tenants \cup {NoTenant}]
  /\ acquired \in [Requests -> BOOLEAN]
  /\ passed \subseteq Tenants \X Times \X Nat
  /\ dropped \subseteq Tenants

(* The requests of t that hold a slot.                                     *)
Holders(t) == {q \in Requests : acquired[q] /\ tenant[q] = t}

(* A tenant's concurrency count is the number of its requests in flight:   *)
(* no path through the gate, the checks, an error or an abort loses a slot *)
(* or gives one back twice.                                                *)
SlotsMatchHolders == \A t \in Tenants : slots[t] = Cardinality(Holders(t))

(* Only a request that is being proxied or whose error is being handled    *)
(* holds a slot, and no tenant has more than ConcurrencyMax of them.       *)
ConcurrencyBounded ==
  /\ \A q \in Requests : acquired[q] => stage[q] \in {"forward", "error"}
  /\ \A q \in Requests : stage[q] = "forward" => acquired[q]
  /\ \A t \in Tenants : Cardinality(Holders(t)) <= ConcurrencyMax

(* In any span of one Window fewer than 2 * RateMax requests of a tenant   *)
(* pass, unless an overflow of the map dropped its window.                 *)
WindowBudget ==
  \A t \in Tenants \ dropped : Cardinality(Passed(t)) < 2 * RateMax
=============================================================================
