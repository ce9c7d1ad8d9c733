-------------------------- MODULE ProxyGuardsProofs --------------------------
(***************************************************************************)
(* For any number of handlers, tenants, addresses, calls and routes, and   *)
(* any limits: what the memory of one backend process guarantees in front  *)
(* of the proxy (ProxyAdmission: no slot is lost or given back twice, no   *)
(* tenant exceeds its requests in flight or twice its rate) and behind it  *)
(* (UpstreamGuards: cooldowns, the breaker and the caller's consent).      *)
(***************************************************************************)
EXTENDS ProxyAdmission, UpstreamGuards, FiniteSetTheorems, WellFoundedInduction, TLAPS

-----------------------------------------------------------------------------
(* ProxyAdmission: slots.                                                  *)

SlotTypes ==
  /\ slots \in [Tenants -> Nat]
  /\ stage \in [Requests -> {"idle", "gate", "forward", "error"}]
  /\ tenant \in [Requests -> Tenants \cup {NoTenant}]
  /\ acquired \in [Requests -> BOOLEAN]

(* A handler knows its tenant while it serves, and holds a slot exactly    *)
(* while it forwards, or on the error path after that.                     *)
Phases ==
  \A q \in Requests :
    /\ stage[q] # "idle" => tenant[q] \in Tenants
    /\ acquired[q] => stage[q] \in {"forward", "error"}
    /\ stage[q] = "forward" => acquired[q]

SlotInv ==
  /\ SlotTypes
  /\ Phases
  /\ SlotsMatchHolders
  /\ \A t \in Tenants : slots[t] <= ConcurrencyMax

LEMMA HoldersFinite ==
  ASSUME NEW t \in Tenants
  PROVE  IsFiniteSet(Holders(t)) /\ Cardinality(Holders(t)) \in Nat
<1>1. IsFiniteSet(Requests)
  BY AdmissionAssumption
<1>2. Holders(t) \subseteq Requests
  BY DEF Holders
<1> QED
  BY <1>1, <1>2, FS_Subset, FS_CardinalityType

LEMMA SlotInit == AdmissionInit => SlotInv
<1> SUFFICES ASSUME AdmissionInit PROVE SlotInv
  OBVIOUS
<1>1. SlotTypes /\ Phases
  BY DEF AdmissionInit, SlotTypes, Phases
<1>2. ASSUME NEW t \in Tenants PROVE slots[t] = Cardinality(Holders(t))
  <2>1. Holders(t) = {}
    BY DEF Holders, AdmissionInit
  <2>2. slots[t] = 0
    BY DEF AdmissionInit
  <2> QED
    BY <2>1, <2>2, FS_EmptySet
<1>3. \A t \in Tenants : slots[t] <= ConcurrencyMax
  BY AdmissionAssumption DEF AdmissionInit
<1> QED
  BY <1>1, <1>2, <1>3 DEF SlotInv, SlotsMatchHolders

(* A step that moves nobody in or out of the slots.                        *)
LEMMA SameHolders ==
  ASSUME SlotInv, SlotTypes', Phases', slots' = slots,
         \A q \in Requests : acquired'[q] = acquired[q],
         \A q \in Requests : acquired[q] => tenant'[q] = tenant[q]
  PROVE  SlotInv'
<1>1. ASSUME NEW t \in Tenants PROVE Holders(t)' = Holders(t)
  BY DEF Holders
<1> QED
  BY <1>1 DEF SlotInv, SlotsMatchHolders

LEMMA ArriveKeeps == ASSUME SlotInv, NEW q \in Requests, Arrive(q) PROVE SlotInv'
<1>1. SlotTypes' /\ Phases'
  BY DEF SlotInv, SlotTypes, Phases, Arrive
<1>2. ~acquired[q]
  BY DEF SlotInv, Phases, SlotTypes, Arrive
<1>3. slots' = slots
  BY DEF Arrive
<1>4. \A p \in Requests : acquired'[p] = acquired[p]
  BY <1>2 DEF Arrive, SlotInv, SlotTypes
<1>5. \A p \in Requests : acquired[p] => tenant'[p] = tenant[p]
  BY <1>2 DEF Arrive, SlotInv, SlotTypes
<1> QED
  BY <1>1, <1>3, <1>4, <1>5, SameHolders

LEMMA GateRefusesKeeps == ASSUME SlotInv, NEW q \in Requests, GateRefuses(q) PROVE SlotInv'
<1>1. SlotTypes' /\ Phases'
  BY DEF SlotInv, SlotTypes, Phases, GateRefuses, Leave
<1>2. ~acquired[q]
  BY DEF SlotInv, Phases, SlotTypes, GateRefuses
<1>3. slots' = slots /\ acquired' = acquired
  BY DEF GateRefuses
<1>4. \A p \in Requests : acquired[p] => tenant'[p] = tenant[p]
  BY <1>2 DEF GateRefuses, Leave, SlotInv, SlotTypes
<1> QED
  BY <1>1, <1>3, <1>4, SameHolders

(* A refusal by a limit, or a failure after admission.                     *)
LEMMA ErrorKeeps ==
  ASSUME SlotInv, NEW q \in Requests, stage[q] \in {"gate", "forward"},
         stage' = [stage EXCEPT ![q] = "error"],
         UNCHANGED <<slots, tenant, acquired>>
  PROVE  SlotInv'
<1>1. SlotTypes' /\ Phases'
  BY DEF SlotInv, SlotTypes, Phases
<1> QED
  BY <1>1, SameHolders

LEMMA AdmitKeeps ==
  ASSUME SlotInv, NEW q \in Requests, NEW ip \in Ips, Admit(q, ip) PROVE SlotInv'
<1>1. SlotTypes' /\ Phases'
  BY DEF SlotInv, SlotTypes, Phases, Admit
<1>2. PICK u \in Tenants : u = tenant[q]
  BY DEF SlotInv, SlotTypes, Phases, Admit
<1>3. ~acquired[q]
  BY DEF SlotInv, SlotTypes, Phases, Admit
<1>4. Cardinality(Holders(u)') = Cardinality(Holders(u)) + 1
  <2>1. Holders(u)' = Holders(u) \cup {q}
    BY <1>2, <1>3 DEF Holders, Admit, SlotInv, SlotTypes
  <2>2. q \notin Holders(u)
    BY <1>3 DEF Holders
  <2>3. Cardinality(Holders(u) \cup {q}) = Cardinality(Holders(u)) + 1
    BY <2>2, HoldersFinite, FS_AddElement
  <2> QED
    BY <2>1, <2>3
<1>5. slots'[u] = slots[u] + 1 /\ \A t \in Tenants \ {u} : slots'[t] = slots[t]
  BY <1>2 DEF Admit, SlotInv, SlotTypes
<1>6. ASSUME NEW t \in Tenants PROVE slots'[t] = Cardinality(Holders(t)')
  <2>1. slots[t] = Cardinality(Holders(t))
    BY DEF SlotInv, SlotsMatchHolders
  <2>2. CASE t = u
    BY <1>4, <1>5, <2>1, <2>2
  <2>3. CASE t # u
    <3>1. Holders(t)' = Holders(t)
      BY <1>2, <1>3, <2>3 DEF Holders, Admit, SlotInv, SlotTypes
    <3> QED
      BY <1>5, <2>1, <2>3, <3>1
  <2> QED
    BY <2>2, <2>3
<1>7. ASSUME NEW t \in Tenants PROVE slots'[t] <= ConcurrencyMax
  <2>1. slots[u] \in Nat /\ slots[u] < ConcurrencyMax /\ ConcurrencyMax \in Nat
    BY <1>2, AdmissionAssumption DEF Admit, SlotInv, SlotTypes
  <2> QED
    BY <1>5, <2>1 DEF SlotInv
<1> QED
  BY <1>1, <1>6, <1>7 DEF SlotInv, SlotsMatchHolders

LEMMA FinishKeeps == ASSUME SlotInv, NEW q \in Requests, Finish(q) PROVE SlotInv'
<1>1. PICK u \in Tenants : u = tenant[q]
  BY DEF SlotInv, SlotTypes, Phases, Finish
<1>2. slots[u] \in Nat /\ slots[u] = Cardinality(Holders(u))
  BY DEF SlotInv, SlotTypes, SlotsMatchHolders
<1>3. SlotTypes' /\ Phases'
  <2>1. slots' \in [Tenants -> Nat]
    BY <1>1, <1>2 DEF SlotInv, SlotTypes, Finish
  <2> QED
    BY <2>1 DEF SlotInv, SlotTypes, Phases, Finish, Leave
<1>4. ASSUME NEW t \in Tenants PROVE Holders(t)' = Holders(t) \ {q}
  BY AdmissionAssumption DEF Holders, Finish, Leave, SlotInv, SlotTypes
<1>5. \A t \in Tenants \ {u} : slots'[t] = slots[t]
  BY <1>1 DEF Finish, SlotInv, SlotTypes
<1>6. slots'[u] = Cardinality(Holders(u)') /\ slots'[u] <= slots[u]
  <2>1. CASE acquired[q]
    <3>1. q \in Holders(u)
      BY <1>1, <2>1 DEF Holders
    <3>2. Cardinality(Holders(u) \ {q}) = Cardinality(Holders(u)) - 1
      BY <3>1, HoldersFinite, FS_RemoveElement
    <3>3. Cardinality(Holders(u)) # 0
      BY <3>1, HoldersFinite, FS_EmptySet
    <3>4. slots'[u] = slots[u] - 1
      BY <1>1, <1>2, <2>1, <3>3 DEF Finish, SlotInv, SlotTypes
    <3> QED
      BY <1>2, <1>4, <3>2, <3>4
  <2>2. CASE ~acquired[q]
    <3>1. Holders(u)' = Holders(u)
      BY <1>4, <2>2 DEF Holders
    <3>2. slots'[u] = slots[u]
      BY <1>1, <2>2 DEF Finish, SlotInv, SlotTypes
    <3> QED
      BY <1>2, <3>1, <3>2
  <2> QED
    BY <2>1, <2>2
<1>7. ASSUME NEW t \in Tenants PROVE slots'[t] = Cardinality(Holders(t)')
  <2>1. CASE t = u
    BY <1>6, <2>1
  <2>2. CASE t # u
    <3>1. q \notin Holders(t)
      BY <1>1, <2>2 DEF Holders
    <3>2. Holders(t)' = Holders(t)
      BY <1>4, <3>1
    <3> QED
      BY <1>5, <2>2, <3>2 DEF SlotInv, SlotsMatchHolders
  <2> QED
    BY <2>1, <2>2
<1>8. ASSUME NEW t \in Tenants PROVE slots'[t] <= ConcurrencyMax
  <2>1. slots[t] <= ConcurrencyMax /\ slots[t] \in Nat /\ slots'[t] \in Nat
    BY <1>3 DEF SlotInv, SlotTypes
  <2>2. slots'[t] <= slots[t]
    BY <1>5, <1>6, <2>1
  <2> QED
    BY <2>1, <2>2, AdmissionAssumption
<1> QED
  BY <1>3, <1>7, <1>8 DEF SlotInv, SlotsMatchHolders

LEMMA SlotStep == SlotInv /\ [AdmissionNext]_admission => SlotInv'
<1> SUFFICES ASSUME SlotInv, [AdmissionNext]_admission PROVE SlotInv'
  OBVIOUS
<1>1. ASSUME NEW q \in Requests, Arrive(q) PROVE SlotInv'
  BY <1>1, ArriveKeeps
<1>2. ASSUME NEW q \in Requests, Serve(q) PROVE SlotInv'
  <2>1. CASE GateRefuses(q)
    BY <2>1, GateRefusesKeeps
  <2>2. CASE TenantOver(q)
    BY <2>2, ErrorKeeps DEF TenantOver
  <2>3. ASSUME NEW ip \in Ips, IpOver(q, ip) PROVE SlotInv'
    BY <2>3, ErrorKeeps DEF IpOver
  <2>4. ASSUME NEW ip \in Ips, NoSlot(q, ip) PROVE SlotInv'
    BY <2>4, ErrorKeeps DEF NoSlot
  <2>5. ASSUME NEW ip \in Ips, Admit(q, ip) PROVE SlotInv'
    BY <2>5, AdmitKeeps
  <2>6. CASE ForwardThrows(q)
    BY <2>6, ErrorKeeps DEF ForwardThrows
  <2>7. CASE Finish(q)
    BY <2>7, FinishKeeps
  <2> QED
    BY <1>2, <2>1, <2>2, <2>3, <2>4, <2>5, <2>6, <2>7 DEF Serve
<1>3. CASE EvictExpired \/ Elapse \/ UNCHANGED admission
  <2>1. UNCHANGED <<slots, stage, tenant, acquired>>
    BY <1>3 DEF EvictExpired, Elapse, admission
  <2>2. SlotTypes' /\ Phases'
    BY <2>1 DEF SlotInv, SlotTypes, Phases
  <2> QED
    BY <2>1, <2>2, SameHolders
<1> QED
  BY <1>1, <1>2, <1>3 DEF AdmissionNext

THEOREM SlotInvariance == AdmissionSpec => []SlotInv
<1> QED
  BY SlotInit, SlotStep, PTL DEF AdmissionSpec

(* No path through the gate, the limits, an error or an abort loses a slot *)
(* or gives one back twice, whatever the number of handlers and tenants.   *)
THEOREM SlotsExact == AdmissionSpec => []SlotsMatchHolders
<1>1. SlotInv => SlotsMatchHolders
  BY DEF SlotInv
<1> QED
  BY <1>1, SlotInvariance, PTL

(* acquireSlot bounds the requests a tenant has in flight.                 *)
THEOREM ConcurrencyHolds == AdmissionSpec => []ConcurrencyBounded
<1>1. SlotInv => ConcurrencyBounded
  BY DEF SlotInv, SlotTypes, Phases, SlotsMatchHolders, ConcurrencyBounded
<1> QED
  BY <1>1, SlotInvariance, PTL

-----------------------------------------------------------------------------
(* ProxyAdmission: windows.                                                *)

(* Windows without their order.                                            *)
EntryOf(K, max) == [count : 1 .. max, start : Times, before : SUBSET K]
Entries(m, K, max) == m \in [DOMAIN m -> EntryOf(K, max)]

(* The entries of a map are in a line: of two keys one was inserted before *)
(* the other, and what was inserted before it was before that one, too.    *)
Lined(m) ==
  /\ IsFiniteSet(DOMAIN m)
  /\ \A k \in DOMAIN m : m[k].before \subseteq DOMAIN m \ {k}
  /\ \A j, k \in DOMAIN m : j # k => (j \in m[k].before <=> k \notin m[j].before)
  /\ \A j, k \in DOMAIN m : j \in m[k].before => m[j].before \subseteq m[k].before

LEMMA KeptIs ==
  ASSUME NEW C, NEW m, NEW max, Entries(m, C, max), NEW K, K \subseteq DOMAIN m
  PROVE  /\ DOMAIN Kept(m, K) = K
         /\ Entries(Kept(m, K), C, max)
         /\ \A k \in K : Kept(m, K)[k] = [count |-> m[k].count, start |-> m[k].start,
                                          before |-> m[k].before \cap K]
<1>1. \A k \in K : m[k] \in EntryOf(C, max)
  BY DEF Entries
<1>2. ASSUME NEW k \in K
      PROVE  /\ [m[k] EXCEPT !.before = @ \cap K]
                = [count |-> m[k].count, start |-> m[k].start, before |-> m[k].before \cap K]
             /\ [m[k] EXCEPT !.before = @ \cap K] \in EntryOf(C, max)
  BY <1>1 DEF EntryOf
<1> QED
  BY <1>2 DEF Kept, Entries

LEMMA KeptLined ==
  ASSUME NEW C, NEW m, NEW max, Entries(m, C, max), Lined(m), NEW K, K \subseteq DOMAIN m
  PROVE  Lined(Kept(m, K))
<1>1. IsFiniteSet(K)
  BY FS_Subset DEF Lined
<1>2. /\ DOMAIN Kept(m, K) = K
      /\ \A k \in K : Kept(m, K)[k] = [count |-> m[k].count, start |-> m[k].start,
                                       before |-> m[k].before \cap K]
  BY KeptIs
<1>3. \A k \in K : Kept(m, K)[k].before = m[k].before \cap K
  BY <1>2
<1> QED
  BY <1>1, <1>2, <1>3 DEF Lined

(* Something was inserted first.                                           *)
LEMMA Oldest ==
  ASSUME NEW m, Lined(m), DOMAIN m # {}
  PROVE  \E k \in DOMAIN m : m[k].before = {}
<1> DEFINE Size(k) == Cardinality(m[k].before)
           Sizes == {Size(k) : k \in DOMAIN m}
<1>1. \A k \in DOMAIN m : IsFiniteSet(m[k].before) /\ Size(k) \in Nat
  BY FS_Subset, FS_CardinalityType DEF Lined
<1>2. Sizes \subseteq Nat /\ Sizes # {}
  BY <1>1
<1>3. PICK n \in Sizes : \A i \in Sizes : ~ (<<i, n>> \in OpToRel(<, Nat))
  <2> HIDE DEF Sizes
  <2> QED
    BY <1>2, NatLessThanWellFounded, WFMin
<1>4. PICK k \in DOMAIN m : n = Size(k)
  OBVIOUS
<1>5. \A j \in DOMAIN m : ~ (Size(j) < Size(k))
  BY <1>1, <1>3, <1>4 DEF OpToRel
<1>6. ASSUME NEW j \in m[k].before PROVE FALSE
  <2>1. j \in DOMAIN m /\ m[j].before \subseteq m[k].before /\ j \notin m[j].before
    BY DEF Lined
  <2>2. m[j].before \in SUBSET (m[k].before \ {j})
    BY <2>1
  <2>3. IsFiniteSet(m[k].before \ {j}) /\ Cardinality(m[k].before \ {j}) = Size(k) - 1
    BY <1>1, FS_RemoveElement
  <2>4. Size(j) <= Size(k) - 1
    BY <2>2, <2>3, FS_Subset
  <2> QED
    BY <1>1, <1>5, <2>1, <2>4
<1> QED
  BY <1>6

LEMMA TouchedIs ==
  ASSUME NEW C, NEW m, NEW max \in Nat, Entries(m, C, max), DOMAIN m \subseteq C,
         NEW k \in C, now \in Times, \A j \in DOMAIN m : m[j].start <= now,
         ~Over(m, k, max)
  PROVE  /\ DOMAIN Touched(m, k) = DOMAIN m \cup {k}
         /\ Entries(Touched(m, k), C, max)
         /\ Touched(m, k)[k] = [count |-> Counted(m, k).count + 1,
                                start |-> Counted(m, k).start,
                                before |-> DOMAIN m \ {k}]
         /\ \A j \in DOMAIN m \ {k} :
              Touched(m, k)[j] = [count |-> m[j].count, start |-> m[j].start,
                                  before |-> m[j].before \cap (DOMAIN m \ {k})]
         /\ Counted(m, k).start <= now
<1> DEFINE others == DOMAIN m \ {k}
<1>1. \A j \in DOMAIN m : m[j] \in EntryOf(C, max)
  BY DEF Entries
<1>2. PICK n \in Nat, s \in Times :
        Counted(m, k).count = n /\ Counted(m, k).start = s /\ s <= now
  <2>1. CASE k \in DOMAIN m /\ Current(m[k])
    BY <1>1, <2>1 DEF Counted, EntryOf
  <2>2. CASE ~(k \in DOMAIN m /\ Current(m[k]))
    BY <2>2 DEF Counted, Times
  <2> QED
    BY <2>1, <2>2
<1>5. [count |-> n + 1, start |-> s, before |-> others] \in EntryOf(C, max)
  <2>1. n + 1 \in 1 .. max
    BY <1>2 DEF Over
  <2> QED
    BY <1>2, <2>1 DEF EntryOf
<1>6. /\ DOMAIN Kept(m, others) = others
      /\ Entries(Kept(m, others), C, max)
      /\ \A j \in others : Kept(m, others)[j] = [count |-> m[j].count, start |-> m[j].start,
                                                 before |-> m[j].before \cap others]
  BY KeptIs
<1>7. /\ DOMAIN Touched(m, k) = DOMAIN m \cup {k}
      /\ Touched(m, k)[k] = [count |-> n + 1, start |-> s, before |-> others]
      /\ \A j \in others : Touched(m, k)[j] = Kept(m, others)[j]
  BY <1>2 DEF Touched
<1>8. Entries(Touched(m, k), C, max)
  <2>1. Touched(m, k) = [j \in DOMAIN Touched(m, k) |-> Touched(m, k)[j]]
    BY DEF Touched
  <2>2. \A j \in DOMAIN m \cup {k} : Touched(m, k)[j] \in EntryOf(C, max)
    BY <1>5, <1>6, <1>7 DEF Entries
  <2> QED
    BY <1>7, <2>1, <2>2 DEF Entries
<1>9. ASSUME NEW j \in others
      PROVE  Touched(m, k)[j] = [count |-> m[j].count, start |-> m[j].start,
                                 before |-> m[j].before \cap others]
  BY <1>6, <1>7
<1> QED
  BY <1>2, <1>7, <1>8, <1>9

LEMMA TouchedLined ==
  ASSUME NEW m, NEW k, Lined(m), DOMAIN Touched(m, k) = DOMAIN m \cup {k},
         Touched(m, k)[k].before = DOMAIN m \ {k},
         \A j \in DOMAIN m \ {k} :
           Touched(m, k)[j].before = m[j].before \cap (DOMAIN m \ {k})
  PROVE  Lined(Touched(m, k))
<1>1. IsFiniteSet(DOMAIN m \cup {k})
  BY FS_AddElement DEF Lined
<1> QED
  BY <1>1 DEF Lined

LEMMA TrimmedIs ==
  ASSUME NEW C, NEW m, NEW max, Entries(m, C, max), Lined(m),
         Cardinality(DOMAIN m) <= MaxEntries + 1
  PROVE  /\ DOMAIN Trimmed(m) \subseteq DOMAIN m
         /\ Entries(Trimmed(m), C, max) /\ Lined(Trimmed(m))
         /\ Cardinality(DOMAIN Trimmed(m)) <= MaxEntries
         /\ \A j \in DOMAIN Trimmed(m) :
              Trimmed(m)[j].count = m[j].count /\ Trimmed(m)[j].start = m[j].start
<1> DEFINE K == {k \in DOMAIN m : m[k].before # {}}
<1>0. MaxEntries \in Nat /\ Cardinality(DOMAIN m) \in Nat /\ IsFiniteSet(DOMAIN m)
  BY AdmissionAssumption, FS_CardinalityType DEF Lined
<1>1. CASE Cardinality(DOMAIN m) > MaxEntries
  <2>1. PICK o \in DOMAIN m : m[o].before = {}
    <3>1. DOMAIN m # {}
      BY <1>0, <1>1, FS_EmptySet
    <3> QED
      BY <3>1, Oldest
  <2>2. K \subseteq DOMAIN m /\ K \in SUBSET (DOMAIN m \ {o})
    BY <2>1
  <2>3. IsFiniteSet(DOMAIN m \ {o}) /\ Cardinality(DOMAIN m \ {o}) = Cardinality(DOMAIN m) - 1
    BY <1>0, FS_RemoveElement
  <2>4. Cardinality(K) <= Cardinality(DOMAIN m \ {o})
    BY <2>2, <2>3, FS_Subset
  <2>5. IsFiniteSet(K) /\ Cardinality(K) \in Nat
    BY <1>0, <2>2, FS_Subset, FS_CardinalityType
  <2>6. Cardinality(K) <= MaxEntries
    BY <1>0, <2>3, <2>4, <2>5
  <2>7. Trimmed(m) = Kept(m, K)
    BY <1>1 DEF Trimmed
  <2>8. /\ DOMAIN Kept(m, K) = K
        /\ Entries(Kept(m, K), C, max)
        /\ \A k \in K : Kept(m, K)[k] = [count |-> m[k].count, start |-> m[k].start,
                                         before |-> m[k].before \cap K]
    BY <2>2, KeptIs
  <2>9. Lined(Kept(m, K))
    BY <2>2, KeptLined
  <2> HIDE DEF K
  <2> QED
    BY <2>2, <2>6, <2>7, <2>8, <2>9
<1>2. CASE ~(Cardinality(DOMAIN m) > MaxEntries)
  BY <1>0, <1>2 DEF Trimmed
<1> QED
  BY <1>1, <1>2

(***************************************************************************)
(* What the window of a tenant promises about the requests P of it that    *)
(* passed within the last Window, at time n.  While the window has an      *)
(* entry: fewer than RateMax passed before it started, it counts those     *)
(* that passed since, and one of them, the first, passed as it started.    *)
(***************************************************************************)
Recent(P, n) ==
  /\ IsFiniteSet(P)
  /\ \A p \in P : p[2] \in Nat /\ p[2] <= n /\ n - p[2] < Window

Covers(e, P, n) ==
  /\ e.start <= n
  /\ \A p \in P : p[2] < e.start + Window
  /\ Cardinality({p \in P : p[2] < e.start}) < RateMax
  /\ Cardinality({p \in P : p[2] >= e.start}) <= e.count
  /\ Cardinality({p \in P : p[2] > e.start}) < e.count

Uncovered(P, n) ==
  /\ \A p \in P : p[2] < n
  /\ Cardinality(P) < RateMax

(* The numbers of an entry.                                                *)
Sound(e) == e.count \in 1 .. RateMax /\ e.start \in Nat

LEMMA Fewer ==
  ASSUME NEW P, IsFiniteSet(P), NEW Q, Q \subseteq P
  PROVE  /\ IsFiniteSet(Q) /\ Cardinality(Q) \in Nat /\ Cardinality(P) \in Nat
         /\ Cardinality(Q) <= Cardinality(P)
BY FS_Subset, FS_CardinalityType

LEMMA OneMore ==
  ASSUME NEW S, IsFiniteSet(S), NEW x
  PROVE  /\ IsFiniteSet(S \cup {x})
         /\ Cardinality(S \cup {x}) \in Nat /\ Cardinality(S) \in Nat
         /\ Cardinality(S \cup {x}) <= Cardinality(S) + 1
<1>1. IsFiniteSet(S \cup {x})
  BY FS_AddElement
<1>2. Cardinality(S \cup {x}) = IF x \in S THEN Cardinality(S) ELSE Cardinality(S) + 1
  BY FS_AddElement
<1>3. Cardinality(S) \in Nat /\ Cardinality(S \cup {x}) \in Nat
  BY <1>1, FS_CardinalityType
<1> QED
  BY <1>1, <1>2, <1>3

LEMMA CoversFewer ==
  ASSUME NEW e, Sound(e), NEW n \in Nat, NEW m \in Nat, n <= m,
         NEW P, Recent(P, n), Covers(e, P, n), NEW Q, Q \subseteq P
  PROVE  Covers(e, Q, m)
<1> DEFINE Old(S) == {p \in S : p[2] < e.start}
           New(S) == {p \in S : p[2] >= e.start}
           Later(S) == {p \in S : p[2] > e.start}
<1>1. IsFiniteSet(Old(P)) /\ IsFiniteSet(New(P)) /\ IsFiniteSet(Later(P))
  BY Fewer DEF Recent
<1>2. Old(Q) \subseteq Old(P) /\ New(Q) \subseteq New(P) /\ Later(Q) \subseteq Later(P)
  OBVIOUS
<1>3. /\ Cardinality(Old(Q)) \in Nat /\ Cardinality(Old(P)) \in Nat
      /\ Cardinality(Old(Q)) <= Cardinality(Old(P))
  BY <1>1, <1>2, Fewer
<1>4. /\ Cardinality(New(Q)) \in Nat /\ Cardinality(New(P)) \in Nat
      /\ Cardinality(New(Q)) <= Cardinality(New(P))
  BY <1>1, <1>2, Fewer
<1>5. /\ Cardinality(Later(Q)) \in Nat /\ Cardinality(Later(P)) \in Nat
      /\ Cardinality(Later(Q)) <= Cardinality(Later(P))
  BY <1>1, <1>2, Fewer
<1>6. /\ Cardinality(Old(P)) < RateMax /\ Cardinality(New(P)) <= e.count
      /\ Cardinality(Later(P)) < e.count
      /\ e.start <= n /\ \A p \in P : p[2] < e.start + Window
  BY DEF Covers
<1>7. RateMax \in Nat /\ e.count \in Nat /\ e.start \in Nat
  BY AdmissionAssumption DEF Sound
<1>8. e.start <= m
  BY <1>6, <1>7
<1>9. /\ Cardinality(Old(Q)) < RateMax /\ Cardinality(New(Q)) <= e.count
      /\ Cardinality(Later(Q)) < e.count
  BY <1>3, <1>4, <1>5, <1>6, <1>7
<1> QED
  BY <1>2, <1>6, <1>8, <1>9 DEF Covers

(* A window that has ended: what its first request made it count is not    *)
(* among the last Window's requests.                                       *)
LEMMA EndedLeaves ==
  ASSUME NEW e, Sound(e), NEW n \in Nat, ~Current(e), now = n,
         NEW P, Recent(P, n), Covers(e, P, n)
  PROVE  Uncovered(P, n)
<1>1. e.count \in 1 .. RateMax /\ e.start \in Nat /\ Window \in Nat /\ RateMax \in Nat
  BY AdmissionAssumption DEF Sound
<1>2. e.start <= n /\ n - e.start >= Window
  BY <1>1 DEF Current, Covers
<1>3. ASSUME NEW p \in P PROVE p[2] > e.start /\ p[2] < n
  <2>1. p[2] \in Nat /\ n - p[2] < Window /\ p[2] < e.start + Window
    BY DEF Recent, Covers
  <2> QED
    BY <1>1, <1>2, <2>1
<1>4. {p \in P : p[2] > e.start} = P
  BY <1>3
<1>5. Cardinality(P) < e.count /\ Cardinality(P) \in Nat
  BY <1>4, FS_CardinalityType DEF Covers, Recent
<1> QED
  BY <1>1, <1>3, <1>5 DEF Uncovered

(* One more request in a current window.                                   *)
LEMMA CountedCovers ==
  ASSUME NEW e, Sound(e), NEW n \in Nat, Current(e), now = n,
         NEW P, Recent(P, n), Covers(e, P, n),
         NEW x, x[2] = n, NEW f, f.start = e.start, f.count = e.count + 1
  PROVE  Covers(f, P \cup {x}, n)
<1> DEFINE Old(S) == {p \in S : p[2] < e.start}
           New(S) == {p \in S : p[2] >= e.start}
           Later(S) == {p \in S : p[2] > e.start}
<1>1. e.count \in Nat /\ e.start \in Nat /\ Window \in Nat /\ RateMax \in Nat
  BY AdmissionAssumption DEF Sound
<1>2. e.start <= n /\ n < e.start + Window
  BY <1>1 DEF Current, Covers
<1>3. IsFiniteSet(New(P)) /\ IsFiniteSet(Later(P))
  BY Fewer DEF Recent
<1>4. Cardinality(New(P)) \in Nat /\ Cardinality(New(P)) <= e.count
  BY <1>3, FS_CardinalityType DEF Covers
<1>5. Cardinality(Later(P)) \in Nat /\ Cardinality(Later(P)) < e.count
  BY <1>3, FS_CardinalityType DEF Covers
<1>6. Old(P \cup {x}) = Old(P)
  BY <1>1, <1>2
<1>7. New(P \cup {x}) = New(P) \cup {x}
  BY <1>1, <1>2
<1>8. Cardinality(New(P \cup {x})) <= e.count + 1
  <2>1. /\ Cardinality(New(P) \cup {x}) \in Nat
        /\ Cardinality(New(P) \cup {x}) <= Cardinality(New(P)) + 1
    BY <1>3, OneMore
  <2> QED
    BY <1>1, <1>4, <1>7, <2>1
<1>9. Cardinality(Later(P \cup {x})) < e.count + 1
  <2>1. CASE e.start < n
    <3>1. Later(P \cup {x}) = Later(P) \cup {x}
      BY <1>1, <2>1
    <3>2. /\ Cardinality(Later(P) \cup {x}) \in Nat
          /\ Cardinality(Later(P) \cup {x}) <= Cardinality(Later(P)) + 1
      BY <1>3, OneMore
    <3> QED
      BY <1>1, <1>5, <3>1, <3>2
  <2>2. CASE ~(e.start < n)
    <3>1. Later(P \cup {x}) = Later(P)
      BY <1>1, <1>2, <2>2
    <3> QED
      BY <1>1, <1>5, <3>1
  <2> QED
    BY <2>1, <2>2
<1>10. \A p \in P \cup {x} : p[2] < e.start + Window
  BY <1>1, <1>2 DEF Covers
<1>11. Cardinality(Old(P)) < RateMax
  BY DEF Covers
<1> QED
  BY <1>2, <1>6, <1>8, <1>9, <1>10, <1>11 DEF Covers

(* The first request of a window.                                          *)
LEMMA FirstCovers ==
  ASSUME NEW n \in Nat, NEW P, Recent(P, n), Uncovered(P, n),
         NEW x, x[2] = n, NEW f, f.start = n, f.count = 1
  PROVE  Covers(f, P \cup {x}, n)
<1>1. Window \in Nat \ {0} /\ RateMax \in Nat
  BY AdmissionAssumption
<1>2. \A p \in P : p[2] \in Nat /\ p[2] < n
  BY DEF Recent, Uncovered
<1>3. {p \in P \cup {x} : p[2] < n} = P
  BY <1>2
<1>4. {p \in P \cup {x} : p[2] >= n} = {x}
  BY <1>2
<1>5. {p \in P \cup {x} : p[2] > n} = {}
  BY <1>2
<1>6. Cardinality({x}) <= 1 /\ Cardinality({}) < 1
  <2>1. Cardinality({x}) = 1
    BY FS_Singleton
  <2>2. Cardinality({}) = 0
    BY FS_EmptySet
  <2> QED
    BY <2>1, <2>2
<1>7. \A p \in P \cup {x} : p[2] < n + Window
  BY <1>1, <1>2
<1> QED
  BY <1>3, <1>4, <1>5, <1>6, <1>7 DEF Covers, Uncovered

LEMMA CoveredAreFew ==
  ASSUME NEW e, Sound(e), NEW n \in Nat, NEW P, Recent(P, n), Covers(e, P, n)
  PROVE  Cardinality(P) < 2 * RateMax
<1> DEFINE Old == {p \in P : p[2] < e.start}
           New == {p \in P : p[2] >= e.start}
<1>1. e.count \in 1 .. RateMax /\ e.start \in Nat /\ RateMax \in Nat
  BY AdmissionAssumption DEF Sound
<1>2. /\ IsFiniteSet(Old) /\ IsFiniteSet(New)
      /\ Cardinality(Old) \in Nat /\ Cardinality(New) \in Nat
  BY Fewer DEF Recent
<1>3. P = Old \cup New /\ Old \cap New = {}
  BY <1>1 DEF Recent
<1>4. Cardinality(Old) < RateMax /\ Cardinality(New) <= e.count
  BY DEF Covers
<1>5. Cardinality(P) = Cardinality(Old) + Cardinality(New) - Cardinality(Old \cap New)
  BY <1>2, <1>3, FS_Union
<1>6. Cardinality(Old \cap New) = 0
  BY <1>3, FS_EmptySet
<1> HIDE DEF Old, New
<1> QED
  BY <1>1, <1>2, <1>4, <1>5, <1>6

-----------------------------------------------------------------------------
MapOK(m, K, max) ==
  /\ Entries(m, K, max) /\ Lined(m)
  /\ DOMAIN m \subseteq K /\ Cardinality(DOMAIN m) <= MaxEntries
  /\ \A k \in DOMAIN m : m[k].start <= now

(* The history tells the requests of one instant apart.                    *)
Numbered == \A p \in passed : p[2] = now => p[3] < Cardinality(Passed(p[1]))

Budget(t) == IF t \in DOMAIN rates THEN Covers(rates[t], Passed(t), now)
                                   ELSE Uncovered(Passed(t), now)

RateInv ==
  /\ now \in Times
  /\ MapOK(rates, Tenants, RateMax)
  /\ MapOK(ipRates, Ips, IpRateMax)
  /\ passed \subseteq Tenants \X Times \X Nat /\ dropped \subseteq Tenants
  /\ Recent(passed, now)
  /\ Numbered
  /\ \A t \in Tenants \ dropped : Budget(t)

LEMMA CountedMap ==
  ASSUME NEW C, NEW m, NEW max \in Nat, MapOK(m, C, max), NEW k \in C, now \in Times,
         ~Over(m, k, max)
  PROVE  /\ MapOK(Trimmed(Touched(m, k)), C, max)
         /\ DOMAIN Trimmed(Touched(m, k)) \subseteq DOMAIN m \cup {k}
         /\ \A j \in DOMAIN Trimmed(Touched(m, k)) :
              /\ j = k => /\ Trimmed(Touched(m, k))[j].count = Counted(m, k).count + 1
                          /\ Trimmed(Touched(m, k))[j].start = Counted(m, k).start
              /\ j # k => /\ Trimmed(Touched(m, k))[j].count = m[j].count
                          /\ Trimmed(Touched(m, k))[j].start = m[j].start
<1> DEFINE T == Touched(m, k)
<1>1. /\ Entries(m, C, max) /\ Lined(m) /\ DOMAIN m \subseteq C
      /\ Cardinality(DOMAIN m) <= MaxEntries /\ \A j \in DOMAIN m : m[j].start <= now
  BY DEF MapOK
<1>2. /\ DOMAIN T = DOMAIN m \cup {k}
      /\ Entries(T, C, max)
      /\ T[k] = [count |-> Counted(m, k).count + 1, start |-> Counted(m, k).start,
                 before |-> DOMAIN m \ {k}]
      /\ \A j \in DOMAIN m \ {k} :
           T[j] = [count |-> m[j].count, start |-> m[j].start,
                   before |-> m[j].before \cap (DOMAIN m \ {k})]
      /\ Counted(m, k).start <= now
  BY <1>1, TouchedIs
<1>3. /\ T[k].count = Counted(m, k).count + 1 /\ T[k].start = Counted(m, k).start
      /\ T[k].before = DOMAIN m \ {k}
  BY <1>2
<1>4. \A j \in DOMAIN m \ {k} :
        /\ T[j].count = m[j].count /\ T[j].start = m[j].start
        /\ T[j].before = m[j].before \cap (DOMAIN m \ {k})
  BY <1>2
<1>5. Lined(T)
  BY <1>1, <1>2, <1>3, <1>4, TouchedLined
<1>6. Cardinality(DOMAIN T) <= MaxEntries + 1
  <2>1. IsFiniteSet(DOMAIN m) /\ MaxEntries \in Nat
    BY <1>1, AdmissionAssumption DEF Lined
  <2>2. /\ Cardinality(DOMAIN m \cup {k}) <= Cardinality(DOMAIN m) + 1
        /\ Cardinality(DOMAIN m \cup {k}) \in Nat /\ Cardinality(DOMAIN m) \in Nat
    BY <2>1, OneMore
  <2> QED
    BY <1>1, <1>2, <2>1, <2>2
<1> HIDE DEF T
<1>7. /\ DOMAIN Trimmed(T) \subseteq DOMAIN T
      /\ Entries(Trimmed(T), C, max) /\ Lined(Trimmed(T))
      /\ Cardinality(DOMAIN Trimmed(T)) <= MaxEntries
      /\ \A j \in DOMAIN Trimmed(T) :
           Trimmed(T)[j].count = T[j].count /\ Trimmed(T)[j].start = T[j].start
  BY <1>2, <1>5, <1>6, TrimmedIs
<1>8. \A j \in DOMAIN Trimmed(T) : Trimmed(T)[j].start <= now
  BY <1>1, <1>2, <1>3, <1>4, <1>7
<1>9. MapOK(Trimmed(T), C, max)
  BY <1>1, <1>2, <1>7, <1>8 DEF MapOK
<1> QED
  BY <1>2, <1>3, <1>4, <1>7, <1>9 DEF T

LEMMA KeptMap ==
  ASSUME NEW C, NEW m, NEW max, MapOK(m, C, max), NEW K, K \subseteq DOMAIN m
  PROVE  /\ MapOK(Kept(m, K), C, max)
         /\ DOMAIN Kept(m, K) = K
         /\ \A k \in K : Kept(m, K)[k].count = m[k].count /\ Kept(m, K)[k].start = m[k].start
<1>1. /\ Entries(m, C, max) /\ Lined(m) /\ DOMAIN m \subseteq C
      /\ Cardinality(DOMAIN m) <= MaxEntries /\ \A j \in DOMAIN m : m[j].start <= now
  BY DEF MapOK
<1>2. /\ DOMAIN Kept(m, K) = K
      /\ Entries(Kept(m, K), C, max)
      /\ \A k \in K : Kept(m, K)[k] = [count |-> m[k].count, start |-> m[k].start,
                                       before |-> m[k].before \cap K]
  BY <1>1, KeptIs
<1>3. \A k \in K : Kept(m, K)[k].count = m[k].count /\ Kept(m, K)[k].start = m[k].start
  BY <1>2
<1>4. Lined(Kept(m, K))
  BY <1>1, KeptLined
<1>5. Cardinality(K) <= MaxEntries
  <2>1. IsFiniteSet(DOMAIN m) /\ MaxEntries \in Nat
    BY <1>1, AdmissionAssumption DEF Lined
  <2>2. /\ Cardinality(K) \in Nat /\ Cardinality(DOMAIN m) \in Nat
        /\ Cardinality(K) <= Cardinality(DOMAIN m)
    BY <2>1, Fewer
  <2> QED
    BY <1>1, <2>1, <2>2
<1> QED
  BY <1>1, <1>2, <1>3, <1>4, <1>5 DEF MapOK

LEMMA SoundEntry ==
  ASSUME MapOK(rates, Tenants, RateMax), NEW t \in DOMAIN rates
  PROVE  Sound(rates[t]) /\ rates[t].start <= now
<1>1. rates[t] \in EntryOf(Tenants, RateMax)
  BY DEF MapOK, Entries
<1> QED
  BY <1>1 DEF EntryOf, Sound, Times, MapOK

LEMMA CoversAlike ==
  ASSUME NEW e, NEW f, NEW P, NEW n, Covers(e, P, n), f.start = e.start, f.count = e.count
  PROVE  Covers(f, P, n)
BY DEF Covers

LEMMA RecentOf ==
  ASSUME NEW P, NEW n, Recent(P, n), NEW Q, Q \subseteq P
  PROVE  Recent(Q, n)
BY Fewer DEF Recent

LEMMA RateInit == AdmissionInit => RateInv
<1> SUFFICES ASSUME AdmissionInit PROVE RateInv
  OBVIOUS
<1>1. DOMAIN rates = {} /\ DOMAIN ipRates = {} /\ rates = <<>> /\ ipRates = <<>>
  BY DEF AdmissionInit
<1>2. IsFiniteSet({}) /\ Cardinality({}) = 0
  BY FS_EmptySet
<1>3. RateMax \in Nat \ {0} /\ MaxEntries \in Nat
  BY AdmissionAssumption
<1>4. Entries(rates, Tenants, RateMax) /\ Entries(ipRates, Ips, IpRateMax)
  BY <1>1 DEF Entries
<1>5. MapOK(rates, Tenants, RateMax) /\ MapOK(ipRates, Ips, IpRateMax)
  BY <1>1, <1>2, <1>3, <1>4 DEF MapOK, Lined
<1>6. now \in Times /\ passed = {} /\ dropped = {}
  BY AdmissionAssumption DEF AdmissionInit, Times
<1>7. ASSUME NEW t \in Tenants PROVE Uncovered(Passed(t), now)
  <2>1. Passed(t) = {}
    BY <1>6 DEF Passed
  <2> QED
    BY <1>2, <1>3, <2>1 DEF Uncovered
<1> QED
  BY <1>1, <1>2, <1>5, <1>6, <1>7 DEF RateInv, Recent, Numbered, Budget

(* checkLimit counts a request of u.                                       *)
LEMMA CountStep ==
  ASSUME RateInv, NEW u \in Tenants, CountTenant(u), ~Over(rates, u, RateMax),
         now' = now, MapOK(ipRates, Ips, IpRateMax)'
  PROVE  RateInv'
<1> DEFINE x == <<u, now, Cardinality(Passed(u))>>
<1>1. /\ now \in Nat /\ now \in Times /\ RateMax \in Nat
      /\ MapOK(rates, Tenants, RateMax) /\ Recent(passed, now)
      /\ passed \subseteq Tenants \X Times \X Nat /\ dropped \subseteq Tenants
  BY AdmissionAssumption DEF RateInv, Times
<1>2. /\ MapOK(rates', Tenants, RateMax)
      /\ DOMAIN rates' \subseteq DOMAIN rates \cup {u}
      /\ \A t \in DOMAIN rates' :
           /\ t = u => /\ rates'[t].count = Counted(rates, u).count + 1
                       /\ rates'[t].start = Counted(rates, u).start
           /\ t # u => /\ rates'[t].count = rates[t].count
                       /\ rates'[t].start = rates[t].start
  BY <1>1, CountedMap DEF CountTenant
<1>3. MapOK(rates, Tenants, RateMax)'
  BY <1>2 DEF MapOK
<1>4. IsFiniteSet(Passed(u)) /\ Cardinality(Passed(u)) \in Nat
  BY <1>1, Fewer DEF Passed, Recent
<1>5. /\ x \in Tenants \X Times \X Nat /\ x[1] = u /\ x[2] = now
      /\ x[3] = Cardinality(Passed(u))
  BY <1>1, <1>4
<1>6. passed' \subseteq passed \cup {x}
  BY DEF CountTenant
<1>7. /\ passed' \subseteq Tenants \X Times \X Nat /\ dropped' \subseteq Tenants
  BY <1>1, <1>5, <1>6 DEF CountTenant, MapOK
<1>8. Recent(passed', now)
  <2>1. IsFiniteSet(passed')
    BY <1>1, <1>6, OneMore, Fewer DEF Recent
  <2>2. x[2] \in Nat /\ x[2] <= now /\ now - x[2] < Window
    BY <1>1, <1>5, AdmissionAssumption
  <2> QED
    BY <1>1, <1>6, <2>1, <2>2 DEF Recent
<1>9. ASSUME NEW t \in Tenants \ dropped'
      PROVE  /\ t \notin dropped
             /\ t \in DOMAIN rates \cup {u} => t \in DOMAIN rates'
             /\ Passed(t)' = IF t = u THEN Passed(u) \cup {x} ELSE Passed(t)
  <2>1. t \notin dropped /\ (t \in DOMAIN rates \cup {u} => t \in DOMAIN rates')
    BY DEF CountTenant
  <2>2. Passed(t)' = {p \in passed \cup {x} : p[1] \notin dropped' /\ p[1] = t}
    BY DEF CountTenant, Passed
  <2>3. Passed(t)' = {p \in passed \cup {x} : p[1] = t}
    BY <2>2
  <2> HIDE DEF x
  <2> QED
    BY <1>5, <2>1, <2>3 DEF Passed
<1>10. ASSUME NEW t \in Tenants \ dropped' PROVE Budget(t)'
  <2>1. Budget(t) /\ Recent(Passed(t), now)
    BY <1>1, <1>9, RecentOf DEF RateInv, Passed
  <2>2. CASE t # u
    <3>1. Passed(t)' = Passed(t)
      BY <1>9, <2>2
    <3>2. t \in DOMAIN rates <=> t \in DOMAIN rates'
      BY <1>2, <1>9, <2>2
    <3>3. CASE t \in DOMAIN rates
      BY <1>2, <2>1, <2>2, <3>1, <3>2, <3>3, CoversAlike DEF Budget
    <3>4. CASE t \notin DOMAIN rates
      BY <2>1, <3>1, <3>2, <3>4 DEF Budget
    <3> QED
      BY <3>3, <3>4
  <2>3. CASE t = u
    <3>1. u \in DOMAIN rates' /\ Passed(u)' = Passed(u) \cup {x}
      BY <1>9, <2>3
    <3>2. /\ rates'[u].count = Counted(rates, u).count + 1
          /\ rates'[u].start = Counted(rates, u).start
      BY <1>2, <3>1
    <3>3. Budget(u) /\ Recent(Passed(u), now)
      BY <2>1, <2>3
    <3>4. Covers(rates'[u], Passed(u) \cup {x}, now)
      <4>1. CASE u \in DOMAIN rates /\ Current(rates[u])
        <5>1. Counted(rates, u) = rates[u]
          BY <4>1 DEF Counted
        <5>2. Covers(rates[u], Passed(u), now) /\ Sound(rates[u])
          BY <1>1, <3>3, <4>1, SoundEntry DEF Budget
        <5> HIDE DEF x
        <5> QED
          BY <1>1, <1>5, <3>2, <3>3, <4>1, <5>1, <5>2, CountedCovers
      <4>2. CASE ~(u \in DOMAIN rates /\ Current(rates[u]))
        <5>1. Counted(rates, u) = [count |-> 0, start |-> now]
          BY <4>2 DEF Counted
        <5>2. rates'[u].count = 1 /\ rates'[u].start = now
          BY <3>2, <5>1
        <5>3. Uncovered(Passed(u), now)
          <6>1. CASE u \in DOMAIN rates
            BY <1>1, <3>3, <4>2, <6>1, SoundEntry, EndedLeaves DEF Budget
          <6>2. CASE u \notin DOMAIN rates
            BY <3>3, <6>2 DEF Budget
          <6> QED
            BY <6>1, <6>2
        <5> HIDE DEF x
        <5> QED
          BY <1>1, <1>5, <3>3, <5>2, <5>3, FirstCovers
      <4> QED
        BY <4>1, <4>2
    <3> QED
      BY <2>3, <3>1, <3>4 DEF Budget
  <2> QED
    BY <2>2, <2>3
<1>11. Numbered'
  <2> SUFFICES ASSUME NEW p \in passed', p[2] = now
               PROVE  p[3] < Cardinality(Passed(p[1])')
    BY DEF Numbered, Passed
  <2>1. p[1] \in Tenants \ dropped'
    BY <1>7 DEF CountTenant
  <2>2. \A q \in Passed(u) : q[2] = now => q[3] < Cardinality(Passed(u))
    BY DEF RateInv, Numbered, Passed
  <2>3. x \notin Passed(u)
    BY <1>4, <1>5, <2>2
  <2> HIDE DEF x
  <2>4. Cardinality(Passed(u) \cup {x}) = Cardinality(Passed(u)) + 1
    BY <1>4, <2>3, FS_AddElement
  <2>5. CASE p = x
    BY <1>4, <1>5, <1>9, <2>1, <2>4, <2>5
  <2>6. CASE p # x
    <3>1. p \in passed /\ p[3] < Cardinality(Passed(p[1])) /\ p[3] \in Nat
      BY <1>1, <1>6, <2>6 DEF RateInv, Numbered
    <3>2. CASE p[1] = u
      <4>1. Passed(p[1])' = Passed(u) \cup {x} /\ p[3] < Cardinality(Passed(u))
        BY <1>9, <2>1, <3>1, <3>2
      <4> QED
        BY <1>4, <2>4, <3>1, <4>1
    <3>3. CASE p[1] # u
      BY <1>9, <2>1, <3>1, <3>3
    <3> QED
      BY <3>2, <3>3
  <2> QED
    BY <2>5, <2>6
<1> HIDE DEF x
<1> QED
  BY <1>1, <1>3, <1>7, <1>8, <1>10, <1>11 DEF RateInv

(* A step that counts nothing.                                             *)
LEMMA SameWindows ==
  ASSUME RateInv, UNCHANGED <<now, rates, ipRates, passed, dropped>>
  PROVE  RateInv'
BY DEF RateInv, MapOK, Numbered, Budget, Passed

LEMMA EvictStep ==
  ASSUME RateInv, EvictExpired
  PROVE  RateInv'
<1> DEFINE K == {t \in DOMAIN rates : Current(rates[t])}
           I == {ip \in DOMAIN ipRates : Current(ipRates[ip])}
<1>1. /\ now \in Nat /\ MapOK(rates, Tenants, RateMax) /\ MapOK(ipRates, Ips, IpRateMax)
      /\ Recent(passed, now)
  BY DEF RateInv, Times
<1>2. /\ rates' = Kept(rates, K) /\ ipRates' = Kept(ipRates, I)
      /\ now' = now /\ passed' = passed /\ dropped' = dropped
  BY DEF EvictExpired
<1>3. /\ MapOK(rates', Tenants, RateMax)
      /\ DOMAIN rates' = K
      /\ \A t \in K : rates'[t].count = rates[t].count /\ rates'[t].start = rates[t].start
  BY <1>1, <1>2, KeptMap
<1>4. MapOK(ipRates', Ips, IpRateMax)
  BY <1>1, <1>2, KeptMap
<1>5. MapOK(rates, Tenants, RateMax)' /\ MapOK(ipRates, Ips, IpRateMax)'
  BY <1>2, <1>3, <1>4 DEF MapOK
<1>6. ASSUME NEW t \in Tenants \ dropped PROVE Budget(t)'
  <2>1. Budget(t) /\ Recent(Passed(t), now) /\ Passed(t)' = Passed(t)
    BY <1>1, <1>2, RecentOf DEF RateInv, Passed
  <2>2. CASE t \in K
    BY <1>2, <1>3, <2>1, <2>2, CoversAlike DEF Budget
  <2>3. CASE t \in DOMAIN rates \ K
    BY <1>1, <1>2, <1>3, <2>1, <2>3, SoundEntry, EndedLeaves DEF Budget
  <2>4. CASE t \notin DOMAIN rates
    BY <1>2, <1>3, <2>1, <2>4 DEF Budget
  <2> QED
    BY <2>2, <2>3, <2>4
<1> HIDE DEF K, I
<1> QED
  BY <1>2, <1>5, <1>6 DEF RateInv, Numbered, Passed

LEMMA ElapseStep ==
  ASSUME RateInv, Elapse
  PROVE  RateInv'
<1>1. /\ now \in Nat /\ now' = now + 1 /\ now' \in Times
      /\ rates' = rates /\ ipRates' = ipRates /\ dropped' = dropped
      /\ MapOK(rates, Tenants, RateMax) /\ MapOK(ipRates, Ips, IpRateMax)
      /\ Recent(passed, now) /\ passed \subseteq Tenants \X Times \X Nat
  BY AdmissionAssumption DEF RateInv, Times, Elapse
<1>2. passed' \subseteq passed /\ \A p \in passed' : now' - p[2] < Window
  BY DEF Elapse
<1>3. MapOK(rates, Tenants, RateMax)' /\ MapOK(ipRates, Ips, IpRateMax)'
  <2>1. \A k \in DOMAIN rates : rates[k].start \in Nat /\ rates[k].start <= now
    BY <1>1, SoundEntry DEF Sound
  <2>2. ASSUME NEW k \in DOMAIN ipRates
        PROVE  ipRates[k].start \in Nat /\ ipRates[k].start <= now
    <3>1. ipRates[k] \in EntryOf(Ips, IpRateMax)
      BY <1>1 DEF MapOK, Entries
    <3> QED
      BY <1>1, <3>1 DEF MapOK, EntryOf, Times
  <2> QED
    BY <1>1, <2>1, <2>2 DEF MapOK
<1>4. Recent(passed', now')
  <2>1. IsFiniteSet(passed')
    BY <1>1, <1>2, Fewer DEF Recent
  <2> QED
    BY <1>1, <1>2, <2>1 DEF Recent
<1>5. ASSUME NEW t \in Tenants \ dropped PROVE Budget(t)'
  <2>1. Budget(t) /\ Recent(Passed(t), now) /\ Passed(t)' \subseteq Passed(t)
    BY <1>1, <1>2, RecentOf DEF RateInv, Passed
  <2>2. CASE t \in DOMAIN rates
    <3>1. Sound(rates[t]) /\ Covers(rates[t], Passed(t), now)
      BY <1>1, <2>1, <2>2, SoundEntry DEF Budget
    <3>2. now' \in Nat /\ now <= now'
      BY <1>1
    <3>3. Covers(rates[t], Passed(t)', now')
      BY <1>1, <2>1, <3>1, <3>2, CoversFewer
    <3> QED
      BY <1>1, <2>2, <3>3 DEF Budget
  <2>3. CASE t \notin DOMAIN rates
    <3>1. /\ Cardinality(Passed(t)') \in Nat /\ Cardinality(Passed(t)) \in Nat
          /\ Cardinality(Passed(t)') <= Cardinality(Passed(t))
      BY <2>1, Fewer DEF Recent
    <3>2. Uncovered(Passed(t), now) /\ \A p \in Passed(t) : p[2] \in Nat
      BY <2>1, <2>3 DEF Budget, Recent
    <3>3. RateMax \in Nat
      BY AdmissionAssumption
    <3>4. Uncovered(Passed(t)', now')
      BY <1>1, <2>1, <3>1, <3>2, <3>3 DEF Uncovered
    <3> QED
      BY <1>1, <2>3, <3>4 DEF Budget
  <2> QED
    BY <2>2, <2>3
<1>6. Numbered'
  BY <1>1, <1>2 DEF Numbered, Recent
<1> QED
  BY <1>1, <1>2, <1>3, <1>4, <1>5, <1>6 DEF RateInv

LEMMA RateStep == SlotInv /\ RateInv /\ [AdmissionNext]_admission => RateInv'
<1> SUFFICES ASSUME SlotInv, RateInv, [AdmissionNext]_admission PROVE RateInv'
  OBVIOUS
<1>1. /\ MapOK(ipRates, Ips, IpRateMax) /\ now \in Times
      /\ IpRateMax \in Nat /\ RateMax \in Nat
  BY AdmissionAssumption DEF RateInv
<1>2. ASSUME NEW q \in Requests, stage[q] = "gate" PROVE tenant[q] \in Tenants
  BY <1>2 DEF SlotInv, Phases
<1>3. ASSUME NEW ip \in Ips, ~Over(ipRates, ip, IpRateMax), now' = now,
             ipRates' = Trimmed(Touched(ipRates, ip))
      PROVE  MapOK(ipRates, Ips, IpRateMax)'
  <2>1. MapOK(ipRates', Ips, IpRateMax)
    BY <1>1, <1>3, CountedMap
  <2> QED
    BY <1>3, <2>1 DEF MapOK
<1>4. ASSUME NEW q \in Requests,
             Arrive(q) \/ GateRefuses(q) \/ TenantOver(q) \/ ForwardThrows(q) \/ Finish(q)
      PROVE  RateInv'
  BY <1>4, SameWindows DEF Arrive, GateRefuses, TenantOver, ForwardThrows, Finish
<1>5. ASSUME NEW q \in Requests, NEW ip \in Ips, IpOver(q, ip) PROVE RateInv'
  <2>1. MapOK(ipRates, Ips, IpRateMax)' /\ now' = now
    BY <1>1, <1>5 DEF IpOver, MapOK
  <2> QED
    BY <1>2, <1>5, <2>1, CountStep DEF IpOver
<1>6. ASSUME NEW q \in Requests, NEW ip \in Ips, NoSlot(q, ip) PROVE RateInv'
  <2>1. MapOK(ipRates, Ips, IpRateMax)' /\ now' = now
    BY <1>3, <1>6 DEF NoSlot
  <2> QED
    BY <1>2, <1>6, <2>1, CountStep DEF NoSlot
<1>7. ASSUME NEW q \in Requests, NEW ip \in Ips, Admit(q, ip) PROVE RateInv'
  <2>1. MapOK(ipRates, Ips, IpRateMax)' /\ now' = now
    BY <1>3, <1>7 DEF Admit
  <2> QED
    BY <1>2, <1>7, <2>1, CountStep DEF Admit
<1>8. CASE EvictExpired
  BY <1>8, EvictStep
<1>9. CASE Elapse
  BY <1>9, ElapseStep
<1>10. CASE UNCHANGED admission
  BY <1>10, SameWindows DEF admission
<1> QED
  BY <1>4, <1>5, <1>6, <1>7, <1>8, <1>9, <1>10 DEF AdmissionNext, Serve

THEOREM WindowInvariance == AdmissionSpec => [](SlotInv /\ RateInv)
<1>1. AdmissionInit => SlotInv /\ RateInv
  BY SlotInit, RateInit
<1>2. SlotInv /\ RateInv /\ [AdmissionNext]_admission => (SlotInv /\ RateInv)'
  BY SlotStep, RateStep
<1> QED
  BY <1>1, <1>2, PTL DEF AdmissionSpec

(* The maps keep MAX_RATE_ENTRIES entries at most, because the entry that  *)
(* was touched least recently is there to be dropped, and no entry counts  *)
(* more than its limit.                                                    *)
THEOREM AdmissionTypeCorrect == AdmissionSpec => []AdmissionTypeOK
<1>1. ASSUME NEW m, NEW K, NEW max, MapOK(m, K, max) PROVE Windows(m, K, max)
  BY <1>1 DEF MapOK, Entries, EntryOf, Windows
<1>2. SlotInv /\ RateInv => AdmissionTypeOK
  BY <1>1 DEF SlotInv, SlotTypes, RateInv, AdmissionTypeOK
<1> QED
  BY <1>2, WindowInvariance, PTL

(* The history gives each request that passes checkLimit a record of its   *)
(* own: what the next theorem bounds is the number of requests.            *)
THEOREM PassesNumbered == AdmissionSpec => []Numbered
<1>1. RateInv => Numbered
  BY DEF RateInv
<1> QED
  BY <1>1, WindowInvariance, PTL

(* checkLimit lets fewer than 2 * RateMax requests of a tenant pass in any *)
(* span of one window length, whatever the limits, the clock, the cleanup  *)
(* and the overflows of the map, unless one dropped the tenant's window.   *)
THEOREM WindowBudgetHolds == AdmissionSpec => []WindowBudget
<1>1. ASSUME RateInv, NEW t \in Tenants \ dropped
      PROVE  Cardinality(Passed(t)) < 2 * RateMax
  <2>1. /\ Budget(t) /\ Recent(Passed(t), now) /\ now \in Nat /\ RateMax \in Nat \ {0}
        /\ MapOK(rates, Tenants, RateMax)
    BY <1>1, RecentOf, AdmissionAssumption DEF RateInv, Passed, Times
  <2>2. CASE t \in DOMAIN rates
    BY <2>1, <2>2, SoundEntry, CoveredAreFew DEF Budget
  <2>3. CASE t \notin DOMAIN rates
    <3>1. Cardinality(Passed(t)) \in Nat
      BY <2>1, Fewer DEF Recent
    <3> QED
      BY <2>1, <2>3, <3>1 DEF Budget, Uncovered
  <2> QED
    BY <2>2, <2>3
<1>2. RateInv => WindowBudget
  BY <1>1 DEF WindowBudget
<1> QED
  BY <1>2, WindowInvariance, PTL

-----------------------------------------------------------------------------
(* UpstreamGuards.                                                         *)

(* A call that is under way has a route. *)
HasRoute == \A c \in Calls : pc[c] # "idle" => route[c] \in Routes

(* A flag that is on is on now. *)
OnNow == flag => offFor = 0

(* What is left of an entry that says `on' is no more than what is left of *)
(* CacheTime since the flag was on. *)
EntryHonest ==
  config.on /\ config.left > 0 => offFor <= CacheTime - config.left

(* So is what a reader is about to store, which asked in time. *)
ReaderHonest ==
  \A c \in Calls : pc[c] = "storing" /\ read[c] => c \in agreed /\ offFor <= age[c]

Types == TypeOK /\ HasRoute

IInv ==
  /\ Types
  /\ OnNow /\ EntryHonest /\ ReaderHonest
  /\ ConsentIsRecent
  /\ RestAsTold

-----------------------------------------------------------------------------
(* Arithmetic.                                                             *)

(* The larger and the smaller of two numbers. *)
LEMMA MaxOfTwo ==
  ASSUME NEW a \in Int, NEW b \in Int
  PROVE  Max({a, b}) = IF a >= b THEN a ELSE b
<1>1. CASE a >= b
  <2>1. \A x \in {a, b} : (\A y \in {a, b} : x >= y) <=> x = a
    BY <1>1
  <2> QED BY <2>1, <1>1 DEF Max
<1>2. CASE ~(a >= b)
  <2>1. \A x \in {a, b} : (\A y \in {a, b} : x >= y) <=> x = b
    BY <1>2
  <2> QED BY <2>1, <1>2 DEF Max
<1> QED BY <1>1, <1>2

LEMMA MinOfTwo ==
  ASSUME NEW a \in Int, NEW b \in Int
  PROVE  Min({a, b}) = IF a <= b THEN a ELSE b
<1>1. CASE a <= b
  <2>1. \A x \in {a, b} : (\A y \in {a, b} : x <= y) <=> x = a
    BY <1>1
  <2> QED BY <2>1, <1>1 DEF Min
<1>2. CASE ~(a <= b)
  <2>1. \A x \in {a, b} : (\A y \in {a, b} : x <= y) <=> x = b
    BY <1>2
  <2> QED BY <2>1, <1>2 DEF Min
<1> QED BY <1>1, <1>2

(* A pause is at least one unit of time and at most the cap. *)
LEMMA PauseBounds ==
  ASSUME NEW hint \in Hints
  PROVE  Pause(hint) \in 1 .. Cap
<1>1. hint \in Nat /\ Cap \in Nat \ {0} /\ Default \in 1 .. Cap
  BY GuardsAssumption
<1>2. Min({hint, Cap}) = IF hint <= Cap THEN hint ELSE Cap
  BY <1>1, MinOfTwo
<1> QED BY <1>1, <1>2 DEF Pause
-----------------------------------------------------------------------------
(* The cooldowns.                                                          *)

(* The map of cooldowns is part of what it was and one more route. *)
LEMMA RoomMade ==
  ASSUME TypeOK, NEW k \in Routes, NEW out \in Evicted,
         NEW hint \in Hints,
         cool' = [j \in Routes |-> IF j = k THEN Pause(hint)
                                   ELSE IF j \in out THEN Absent ELSE cool[j]]
  PROVE  Cardinality(InMap') <= MaxCooldowns
<1> DEFINE kept == InMap \ out
<1>1. /\ InMap \in SUBSET Routes /\ Active \in SUBSET InMap
      /\ IsFiniteSet(InMap) /\ IsFiniteSet(Active)
      /\ Cardinality(InMap) \in Nat /\ Cardinality(Active) \in Nat
      /\ MaxCooldowns \in Nat \ {0}
  <2>1. InMap \in SUBSET Routes /\ Active \in SUBSET InMap
    BY DEF InMap, Active, Absent
  <2>2. IsFiniteSet(InMap)
    BY <2>1, FS_Subset, GuardsAssumption
  <2>3. IsFiniteSet(Active)
    BY <2>1, <2>2, FS_Subset
  <2> QED BY <2>1, <2>2, <2>3, FS_CardinalityType, GuardsAssumption
<1>2. IsFiniteSet(kept) /\ Cardinality(kept) \in Nat
  BY <1>1, FS_Subset, FS_CardinalityType
<1>3. Cardinality(kept) + 1 <= MaxCooldowns
  <2>1. CASE Cardinality(InMap) < MaxCooldowns
    <3>1. kept = InMap
      BY <2>1 DEF Evicted
    <3> QED BY <3>1, <2>1, <1>1
  <2>2. CASE ~(Cardinality(InMap) < MaxCooldowns) /\ Cardinality(Active) < MaxCooldowns
    <3>1. kept = Active
      BY <2>2, <1>1 DEF Evicted
    <3> QED BY <3>1, <2>2, <1>1
  <2>3. CASE ~(Cardinality(InMap) < MaxCooldowns) /\ ~(Cardinality(Active) < MaxCooldowns)
    <3>1. PICK j \in Active : out = {j}
      BY <2>3 DEF Evicted
    <3>2. j \in InMap
      BY <1>1
    <3>3. Cardinality(InMap \ {j}) = Cardinality(InMap) - 1
      BY <1>1, <3>2, FS_RemoveElement
    <3>4. Cardinality(InMap) <= MaxCooldowns
      BY DEF TypeOK
    <3> QED BY <3>1, <3>3, <3>4, <1>1
  <2> QED BY <2>1, <2>2, <2>3
<1>4. InMap' \in SUBSET (kept \union {k})
  BY DEF InMap
<1>5. /\ IsFiniteSet(kept \union {k})
      /\ Cardinality(kept \union {k}) <= Cardinality(kept) + 1
      /\ Cardinality(kept \union {k}) \in Nat
  <2> HIDE DEF kept
  <2>1. IsFiniteSet(kept \union {k})
    BY <1>2, FS_AddElement
  <2>2. Cardinality(kept \union {k}) = IF k \in kept THEN Cardinality(kept)
                                                   ELSE Cardinality(kept) + 1
    BY <1>2, FS_AddElement
  <2> QED BY <2>1, <2>2, <1>2, FS_CardinalityType
<1>6. Cardinality(InMap') <= Cardinality(kept \union {k}) /\ Cardinality(InMap') \in Nat
  <2> HIDE DEF kept
  <2>1. IsFiniteSet(InMap') /\ Cardinality(InMap') <= Cardinality(kept \union {k})
    BY <1>4, <1>5, FS_Subset
  <2> QED BY <2>1, FS_CardinalityType
<1> HIDE DEF kept
<1> QED BY <1>1, <1>2, <1>3, <1>5, <1>6

(* Entries that leave the map leave room. *)
LEMMA RoomKept ==
  ASSUME TypeOK, InMap' \subseteq InMap
  PROVE  Cardinality(InMap') <= MaxCooldowns
<1>1. InMap \in SUBSET Routes
  BY DEF InMap
<1>2. IsFiniteSet(InMap)
  BY <1>1, FS_Subset, GuardsAssumption
<1>3. InMap' \in SUBSET InMap
  OBVIOUS
<1>4. IsFiniteSet(InMap') /\ Cardinality(InMap') <= Cardinality(InMap)
  BY <1>2, <1>3, FS_Subset
<1>5. Cardinality(InMap) <= MaxCooldowns /\ MaxCooldowns \in Nat
  BY GuardsAssumption DEF TypeOK
<1> QED BY <1>2, <1>4, <1>5, FS_CardinalityType

(* The types of what recordRateLimitCooldown writes. *)
LEMMA RecordedTypes ==
  ASSUME TypeOK, NEW k \in Routes, NEW hint \in Hints, Record(k, hint)
  PROVE  /\ cool' \in [Routes -> {Absent} \union 0 .. Cap]
         /\ Cardinality(InMap') <= MaxCooldowns
         /\ told' \in [Routes -> 0 .. Cap] /\ lapsed' \subseteq Routes
<1> USE DEF TypeOK
<1>1. PICK out \in Evicted :
        /\ cool' = [j \in Routes |-> IF j = k THEN Pause(hint)
                                     ELSE IF j \in out THEN Absent ELSE cool[j]]
        /\ told' = [told EXCEPT ![k] = Max({@, Pause(hint)})]
        /\ lapsed' \subseteq Routes
  BY DEF Record, Active
<1>2. Pause(hint) \in 1 .. Cap /\ Cap \in Nat
  BY PauseBounds, GuardsAssumption
<1>3. cool' \in [Routes -> {Absent} \union 0 .. Cap]
  BY <1>1, <1>2
<1>4. Cardinality(InMap') <= MaxCooldowns
  BY <1>1, RoomMade
<1>5. told[k] \in 0 .. Cap
  OBVIOUS
<1>6. Max({told[k], Pause(hint)}) \in 0 .. Cap
  BY <1>2, <1>5, MaxOfTwo
<1>7. told' \in [Routes -> 0 .. Cap]
  BY <1>1, <1>6
<1> QED BY <1>1, <1>3, <1>4, <1>7

(* RestAsTold without its operators. *)
RestPlain ==
  \A k \in Routes :
    \/ cool[k] >= 0 /\ cool[k] = told[k]
    \/ cool[k] < 0 /\ told[k] = 0
    \/ k \in lapsed /\ told[k] > 0 /\ cool[k] < told[k]

LEMMA RestIsPlain ==
  ASSUME TypeOK
  PROVE  RestAsTold <=> RestPlain
<1>1. \A k \in Routes : /\ cool[k] \in Int /\ cool[k] >= -1
                        /\ told[k] \in Nat
  BY GuardsAssumption DEF TypeOK, Absent
<1>2. \A k \in Routes : Max({cool[k], 0}) = IF cool[k] >= 0 THEN cool[k] ELSE 0
  BY <1>1, MaxOfTwo
<1>3. ASSUME NEW k \in Routes
      PROVE  (\/ Max({cool[k], 0}) = told[k]
              \/ k \in lapsed /\ Max({cool[k], 0}) < told[k])
             <=> (\/ cool[k] >= 0 /\ cool[k] = told[k]
                  \/ cool[k] < 0 /\ told[k] = 0
                  \/ k \in lapsed /\ told[k] > 0 /\ cool[k] < told[k])
  <2> DEFINE left == Max({cool[k], 0})
  <2>1. left = IF cool[k] >= 0 THEN cool[k] ELSE 0
    BY <1>2
  <2> HIDE DEF left
  <2>2. CASE cool[k] >= 0
    BY <1>1, <2>1, <2>2 DEF left
  <2>3. CASE cool[k] < 0
    BY <1>1, <2>1, <2>3 DEF left
  <2> QED BY <1>1, <2>2, <2>3
<1> QED BY <1>3 DEF RestAsTold, RestPlain

(* The last 429 of a route is what it rests for; of the others only the    *)
(* active one that expires first gives way.  *)
LEMMA RecordedRest ==
  ASSUME TypeOK, RestPlain, NEW k \in Routes, NEW hint \in Hints, Record(k, hint)
  PROVE  RestPlain'
<1> USE DEF TypeOK
<1>1. PICK out \in Evicted :
        /\ cool' = [j \in Routes |-> IF j = k THEN Pause(hint)
                                     ELSE IF j \in out THEN Absent ELSE cool[j]]
        /\ told' = [told EXCEPT ![k] = Max({@, Pause(hint)})]
        /\ lapsed' = (lapsed \ {k})
             \union (IF told[k] > Pause(hint) THEN {k} ELSE {})
             \union (IF Cardinality(Active) = MaxCooldowns
                       THEN {j \in Active \ {k} : \A i \in Active : told[j] <= told[i]
                                                    \/ i \in lapsed}
                       ELSE {})
  BY DEF Record
<1>2. Pause(hint) \in 1 .. Cap /\ Cap \in Nat /\ MaxCooldowns \in Nat
  BY PauseBounds, GuardsAssumption
<1>3. \A j \in Routes : /\ cool[j] \in Int /\ cool[j] >= -1 /\ told[j] \in Nat
  BY <1>2 DEF Absent
<1>4. told'[k] = (IF told[k] >= Pause(hint) THEN told[k] ELSE Pause(hint))
  <2>1. Max({told[k], Pause(hint)}) = IF told[k] >= Pause(hint) THEN told[k] ELSE Pause(hint)
    BY <1>2, <1>3, MaxOfTwo
  <2> QED BY <1>1, <2>1
<1>5. ASSUME NEW j \in Routes, j # k, j \notin out
      PROVE  cool'[j] = cool[j] /\ told'[j] = told[j] /\ (j \in lapsed => j \in lapsed')
  BY <1>1, <1>5
<1>6. ASSUME NEW j \in Routes, j # k, j \in out
      PROVE  /\ cool'[j] = Absent /\ told'[j] = told[j]
             /\ told[j] = 0 \/ j \in lapsed'
  <2>1. cool'[j] = Absent /\ told'[j] = told[j] /\ (j \in lapsed => j \in lapsed')
    BY <1>1, <1>6
  <2>2. CASE cool[j] <= 0
    BY <2>1, <2>2, <1>3 DEF RestPlain
  <2>3. CASE cool[j] > 0
    <3>1. /\ ~(Cardinality(InMap) < MaxCooldowns) /\ ~(Cardinality(Active) < MaxCooldowns)
          /\ j \in Active /\ \A i \in Active : cool[j] <= cool[i]
      BY <1>6, <2>3 DEF Evicted, InMap, Active
    <3>2. Cardinality(Active) = MaxCooldowns
      <4>1. InMap \in SUBSET Routes /\ Active \in SUBSET InMap
        BY DEF InMap, Active, Absent
      <4>2. IsFiniteSet(InMap)
        BY <4>1, FS_Subset, GuardsAssumption
      <4>3. IsFiniteSet(Active) /\ Cardinality(Active) <= Cardinality(InMap)
        BY <4>1, <4>2, FS_Subset
      <4> QED BY <4>2, <4>3, <3>1, <1>2, FS_CardinalityType
    <3>3. CASE j \notin lapsed
      <4>1. cool[j] = told[j]
        BY <2>3, <3>3, <1>3 DEF RestPlain
      <4>2. \A i \in Active : i \in lapsed \/ cool[i] = told[i]
        BY <1>3 DEF RestPlain, Active
      <4>3. \A i \in Active : told[j] <= told[i] \/ i \in lapsed
        BY <3>1, <4>1, <4>2
      <4> QED BY <1>1, <1>6, <2>1, <3>1, <3>2, <4>3
    <3>4. CASE j \in lapsed
      BY <2>1, <3>4
    <3> QED BY <3>3, <3>4, <2>1
  <2> QED BY <2>1, <2>2, <2>3, <1>3
<1>7. cool'[k] = Pause(hint) /\ (told[k] > Pause(hint) => k \in lapsed')
  BY <1>1
<1>8. ASSUME NEW j \in Routes
      PROVE  \/ cool'[j] >= 0 /\ cool'[j] = told'[j]
             \/ cool'[j] < 0 /\ told'[j] = 0
             \/ j \in lapsed' /\ told'[j] > 0 /\ cool'[j] < told'[j]
  <2>1. CASE j = k
    BY <2>1, <1>2, <1>3, <1>4, <1>7
  <2>2. CASE j # k /\ j \notin out
    BY <2>2, <1>5 DEF RestPlain
  <2>3. CASE j # k /\ j \in out
    BY <2>3, <1>6, <1>3 DEF Absent
  <2> QED BY <2>1, <2>2, <2>3
<1> QED BY <1>8 DEF RestPlain

-----------------------------------------------------------------------------
(* Types.                                                                  *)

LEMMA TypesInit == Init => Types
<1> SUFFICES ASSUME Init PROVE Types
  OBVIOUS
<1>1. InMap = {}
  BY DEF Init, InMap
<1>2. Cardinality(InMap) <= MaxCooldowns
  BY <1>1, FS_EmptySet, GuardsAssumption
<1>3. HasRoute
  BY DEF Init, HasRoute
<1>4. /\ Threshold - 1 \in Nat /\ BreakerTime \in Nat
      /\ CacheTime \in Nat /\ Cap \in Nat
  BY GuardsAssumption
<1>5. offFor \in 0 .. CacheTime
  BY <1>4 DEF Init
<1>6. config \in [on : BOOLEAN, left : {Absent} \union 0 .. CacheTime]
  BY DEF Init, NoFlag, Absent
<1>7. streak \in 0 .. Threshold - 1 /\ breaker \in 0 .. BreakerTime
  BY <1>4 DEF Init
<1>8. /\ cool \in [Routes -> {Absent} \union 0 .. Cap]
      /\ told \in [Routes -> 0 .. Cap] /\ age \in [Calls -> 0 .. CacheTime]
  BY <1>4 DEF Init
<1>9. TypeOK
  BY <1>2, <1>5, <1>6, <1>7, <1>8, Zenon DEF Init, TypeOK
<1> QED BY <1>3, <1>9 DEF Types

(* The types of all but the cooldowns, and the calls. *)
Rest ==
  /\ streak \in 0 .. Threshold - 1 /\ breaker \in 0 .. BreakerTime
  /\ flag \in BOOLEAN /\ toggling \in BOOLEAN
  /\ config \in [on : BOOLEAN, left : {Absent} \union 0 .. CacheTime]
  /\ offFor \in 0 .. CacheTime

Places ==
  /\ pc \in [Calls -> {"idle", "calling", "recalling", "failed", "asking",
                       "storing", "sending", "healing", "retrying"}]
  /\ route \in [Calls -> {NoRoute} \union Routes]
  /\ read \in [Calls -> BOOLEAN] /\ age \in [Calls -> 0 .. CacheTime]
  /\ agreed \subseteq Calls
  /\ HasRoute

Cooldowns ==
  /\ cool \in [Routes -> {Absent} \union 0 .. Cap]
  /\ Cardinality(InMap) <= MaxCooldowns
  /\ told \in [Routes -> 0 .. Cap] /\ lapsed \subseteq Routes

LEMMA TypesSplit == Types <=> Rest /\ Places /\ Cooldowns
BY DEF Types, TypeOK, Rest, Places, Cooldowns

(* Calls that are over leave everything well typed. *)
LEMMA EndsTypes ==
  ASSUME Types, NEW cs, Ends(cs)
  PROVE  Places'
<1>1. CacheTime \in Nat
  BY GuardsAssumption
<1> USE DEF Types, TypeOK, Ends
<1>2. /\ pc' \in [Calls -> {"idle", "calling", "recalling", "failed", "asking",
                        "storing", "sending", "healing", "retrying"}]
      /\ route' \in [Calls -> {NoRoute} \union Routes]
      /\ agreed' \subseteq Calls
  OBVIOUS
<1>3. read' \in [Calls -> BOOLEAN]
  OBVIOUS
<1>4. age' \in [Calls -> 0 .. CacheTime]
  BY <1>1
<1>5. HasRoute'
  BY DEF HasRoute
<1> QED BY <1>2, <1>3, <1>4, <1>5 DEF Places

(* So does a call that goes on. *)
LEMMA GoesTypes ==
  ASSUME Types, NEW c \in Calls, pc[c] # "idle", UNCHANGED work,
         NEW to \in {"calling", "recalling", "failed", "asking", "storing",
                     "sending", "healing", "retrying"},
         Goes(c, to)
  PROVE  Places'
BY DEF Types, TypeOK, Places, HasRoute, Goes, work

LEMMA TypesStep ==
  ASSUME Types, [Next]_vars
  PROVE  Types'
<1>1. ASSUME NEW c \in Calls, NEW k \in Routes, Try(c, k)
      PROVE  Types'
  <2>1. Rest'
    BY <1>1, TypesSplit DEF Rest, Try, heal, consent
  <2>2. Places'
    BY <1>1 DEF Types, TypeOK, Places, HasRoute, Try, Goes
  <2>3. InMap' \subseteq InMap
    BY <1>1 DEF InMap, Try, Types, TypeOK
  <2>4. Cardinality(InMap') <= MaxCooldowns
    BY <2>3, RoomKept DEF Types
  <2>5. Cooldowns'
    BY <1>1, <2>4 DEF Cooldowns, Try, Types, TypeOK
  <2> QED BY <2>1, <2>2, <2>5, TypesSplit, PTL
<1>2. ASSUME NEW c \in Calls, NEW hint \in Hints, Limited(c, hint)
      PROVE  Types'
  <2>1. Rest'
    BY <1>2, TypesSplit DEF Rest, Limited, heal, consent
  <2>2. Places'
    BY <1>2, EndsTypes DEF Limited
  <2>3. route[c] \in Routes
    BY <1>2 DEF Limited, Types, HasRoute
  <2>4. Cooldowns'
    BY <1>2, <2>3, RecordedTypes DEF Limited, Types, Cooldowns
  <2> QED BY <2>1, <2>2, <2>4, TypesSplit, PTL
<1>3. ASSUME NEW c \in Calls, Rejected(c)
      PROVE  Types'
  <2>1. Rest' /\ Cooldowns'
    BY <1>3, TypesSplit DEF Rest, Cooldowns, Rejected, cooling, heal, consent, InMap
  <2>2. Places'
    BY <1>3, GoesTypes DEF Rejected
  <2> QED BY <2>1, <2>2, TypesSplit, PTL
<1>4. ASSUME NEW c \in Calls, Answered(c)
      PROVE  Types'
  <2>1. Rest' /\ Cooldowns'
    BY <1>4, TypesSplit DEF Rest, Cooldowns, Answered, cooling, heal, consent, InMap
  <2>2. Places'
    BY <1>4, EndsTypes DEF Answered
  <2> QED BY <2>1, <2>2, TypesSplit, PTL
<1>5. ASSUME NEW c \in Calls, Repairable(c)
      PROVE  Types'
  <2>1. Rest' /\ Cooldowns'
    BY <1>5, TypesSplit DEF Rest, Cooldowns, Repairable, cooling, heal, consent, InMap
  <2>2. Places'
    BY <1>5, GoesTypes DEF Repairable
  <2> QED BY <2>1, <2>2, TypesSplit, PTL
<1>6. ASSUME NEW c \in Calls, CheckBreaker(c)
      PROVE  Types'
  <2>1. Rest' /\ Cooldowns'
    BY <1>6, TypesSplit DEF Rest, Cooldowns, CheckBreaker, cooling, heal, consent, InMap
  <2>2. Places'
    BY <1>6, GoesTypes DEF CheckBreaker
  <2> QED BY <2>1, <2>2, TypesSplit, PTL
<1>7. ASSUME NEW c \in Calls, Skip(c)
      PROVE  Types'
  <2>1. Rest' /\ Cooldowns'
    BY <1>7, TypesSplit DEF Rest, Cooldowns, Skip, cooling, heal, consent, InMap
  <2>2. Places'
    BY <1>7, EndsTypes DEF Skip
  <2> QED BY <2>1, <2>2, TypesSplit, PTL
<1>8. ASSUME NEW c \in Calls, AskConfig(c)
      PROVE  Types'
  <2>1. Rest' /\ Cooldowns'
    BY <1>8, TypesSplit DEF Rest, Cooldowns, AskConfig, cooling, heal, consent, InMap
  <2>2. Places'
    BY <1>8 DEF AskConfig, Types, TypeOK, Places, HasRoute, Goes
  <2> QED BY <2>1, <2>2, TypesSplit, PTL
<1>9. ASSUME NEW c \in Calls, CachedOff(c)
      PROVE  Types'
  <2>1. Rest' /\ Cooldowns'
    BY <1>9, TypesSplit DEF Rest, Cooldowns, CachedOff, cooling, heal, consent, InMap
  <2>2. Places'
    BY <1>9, EndsTypes DEF CachedOff
  <2> QED BY <2>1, <2>2, TypesSplit, PTL
<1>10. ASSUME NEW c \in Calls, StoreConfig(c)
      PROVE  Types'
  <2>1. CacheTime - age[c] \in 0 .. CacheTime
    BY GuardsAssumption DEF Types, TypeOK
  <2>2. Rest' /\ Cooldowns'
    BY <1>10, <2>1, TypesSplit
       DEF Rest, Cooldowns, StoreConfig, cooling, heal, InMap, Places
  <2>3. Places'
    <3>1. CASE read[c]
      BY <1>10, <3>1, GoesTypes DEF StoreConfig
    <3>2. CASE ~read[c]
      BY <1>10, <3>2, EndsTypes DEF StoreConfig
    <3> QED BY <3>1, <3>2
  <2> QED BY <2>2, <2>3, TypesSplit, PTL
<1>11. ASSUME NEW c \in Calls, SendHeal(c)
      PROVE  Types'
  <2>1. Rest' /\ Cooldowns'
    BY <1>11, TypesSplit DEF Rest, Cooldowns, SendHeal, cooling, heal, consent, InMap
  <2>2. Places'
    BY <1>11, GoesTypes DEF SendHeal
  <2> QED BY <2>1, <2>2, TypesSplit, PTL
<1>12. ASSUME NEW c \in Calls, HealFails(c)
      PROVE  Types'
  <2>1. Rest'
    BY <1>12, TypesSplit, GuardsAssumption DEF Rest, HealFails, consent
  <2>2. Cooldowns'
    BY <1>12, TypesSplit DEF Cooldowns, HealFails, cooling, InMap
  <2>3. Places'
    BY <1>12, EndsTypes DEF HealFails
  <2> QED BY <2>1, <2>2, <2>3, TypesSplit, PTL
<1>13. ASSUME NEW c \in Calls, HealRefused(c)
      PROVE  Types'
  <2>1. Rest' /\ Cooldowns'
    BY <1>13, TypesSplit DEF Rest, Cooldowns, HealRefused, cooling, heal, consent, InMap
  <2>2. Places'
    BY <1>13, EndsTypes DEF HealRefused
  <2> QED BY <2>1, <2>2, TypesSplit, PTL
<1>14. ASSUME NEW c \in Calls, HealAnswers(c)
      PROVE  Types'
  <2>1. Rest'
    BY <1>14, TypesSplit, GuardsAssumption DEF Rest, HealAnswers, consent
  <2>2. Cooldowns'
    BY <1>14, TypesSplit DEF Cooldowns, HealAnswers, cooling, InMap
  <2>3. Places'
    <3>1. CASE Goes(c, "retrying") /\ UNCHANGED work
      BY <1>14, <3>1, GoesTypes DEF HealAnswers
    <3>2. CASE Ends({c})
      BY <3>2, EndsTypes
    <3> QED BY <1>14, <3>1, <3>2 DEF HealAnswers
  <2> QED BY <2>1, <2>2, <2>3, TypesSplit, PTL
<1>15. ASSUME NEW c \in Calls, RetryAnswered(c)
      PROVE  Types'
  <2>1. Rest'
    BY <1>15, TypesSplit DEF Rest, RetryAnswered, heal, consent
  <2>2. Places'
    BY <1>15, EndsTypes DEF RetryAnswered
  <2>3. route[c] \in Routes /\ told[route[c]] \in 0 .. Cap
    BY <1>15 DEF RetryAnswered, Types, TypeOK, HasRoute
  <2>4. ASSUME NEW hint \in Hints PROVE Max({told[route[c]], Pause(hint)}) \in 0 .. Cap
    <3>1. Pause(hint) \in 1 .. Cap /\ Cap \in Nat
      BY PauseBounds, GuardsAssumption
    <3>2. told[route[c]] \in Int /\ Pause(hint) \in Int
      BY <2>3, <3>1
    <3> QED
      BY <2>3, <3>1, <3>2, MaxOfTwo
  <2>5. told' \in [Routes -> 0 .. Cap] /\ lapsed' \subseteq Routes
    <3>1. CASE UNCHANGED <<told, lapsed>>
      BY <3>1 DEF Types, TypeOK
    <3>2. CASE \E hint \in Hints :
                 /\ told' = [told EXCEPT ![route[c]] = Max({@, Pause(hint)})]
                 /\ lapsed' = IF Pause(hint) > cool[route[c]]
                                THEN lapsed \union {route[c]} ELSE lapsed
      BY <3>2, <2>3, <2>4 DEF Types, TypeOK
    <3> QED BY <1>15, <3>1, <3>2 DEF RetryAnswered
  <2>6. Cooldowns'
    BY <1>15, <2>5, TypesSplit DEF Cooldowns, RetryAnswered, InMap
  <2> QED BY <2>1, <2>2, <2>6, TypesSplit, PTL
<1>16. ASSUME NEW x \in BOOLEAN, Toggle(x)
      PROVE  Types'
  <2>1. Rest'
    BY <1>16, TypesSplit, GuardsAssumption DEF Rest, Toggle, heal, NoFlag, Absent
  <2>2. Cooldowns' /\ Places'
    BY <1>16, TypesSplit DEF Cooldowns, Places, HasRoute, Toggle, cooling, work, InMap
  <2> QED BY <2>1, <2>2, TypesSplit, PTL
<1>17. ASSUME InvalidateConfig
      PROVE  Types'
  <2>1. Rest'
    BY <1>17, TypesSplit, GuardsAssumption DEF Rest, InvalidateConfig, heal, NoFlag, Absent
  <2>2. Cooldowns' /\ Places'
    BY <1>17, TypesSplit DEF Cooldowns, Places, HasRoute, InvalidateConfig, cooling, work, InMap
  <2> QED BY <2>1, <2>2, TypesSplit, PTL
<1>18. ASSUME Tick
      PROVE  Types'
  <2>1. \A m \in Nat : \A i \in 0 .. m : Less(i) \in 0 .. m
    BY DEF Less
  <2>2. \A i \in {Absent} \union 0 .. Cap : Less(i) \in {Absent} \union 0 .. Cap
    BY GuardsAssumption DEF Less, Absent
  <2>3. Less(config.left) \in {Absent} \union 0 .. CacheTime
    BY GuardsAssumption DEF Less, Absent, Types, TypeOK
  <2>4. \A i \in 0 .. CacheTime : Min({i + 1, CacheTime}) \in 0 .. CacheTime
    BY MinOfTwo, GuardsAssumption
  <2>5. /\ {Cap, BreakerTime, CacheTime} \subseteq Nat
    BY GuardsAssumption
  <2>6. Rest'
    <3>1. breaker' \in 0 .. BreakerTime
      BY <1>18, <2>1, <2>5, TypesSplit DEF Tick, Rest
    <3>2. offFor' \in 0 .. CacheTime
      BY <1>18, <2>4, <2>5, TypesSplit DEF Tick, Rest
    <3>3. config' \in [on : BOOLEAN, left : {Absent} \union 0 .. CacheTime]
      BY <1>18, <2>3, TypesSplit DEF Tick, Rest
    <3> QED BY <1>18, <3>1, <3>2, <3>3, TypesSplit DEF Tick, Rest
  <2>7. Places'
    <3>1. age' \in [Calls -> 0 .. CacheTime]
      BY <1>18, <2>4, TypesSplit DEF Tick, Places
    <3> QED BY <1>18, <3>1, TypesSplit DEF Tick, Places, HasRoute
  <2>8. InMap' \subseteq InMap
    BY <1>18 DEF InMap, Tick, Less, Absent, Types, TypeOK
  <2>9. Cardinality(InMap') <= MaxCooldowns
    BY <2>8, RoomKept DEF Types
  <2>10. Cooldowns'
    <3>1. cool' \in [Routes -> {Absent} \union 0 .. Cap]
      BY <1>18, <2>2, TypesSplit DEF Tick, Cooldowns
    <3>2. told' \in [Routes -> 0 .. Cap] /\ lapsed' \subseteq Routes
      BY <1>18, <2>1, <2>5, TypesSplit DEF Tick, Cooldowns
    <3> QED BY <2>9, <3>1, <3>2 DEF Cooldowns
  <2> QED BY <2>6, <2>7, <2>10, TypesSplit, PTL
<1>19. ASSUME Restart
      PROVE  Types'
  <2>1. Rest'
    <3>1. Threshold - 1 \in Nat /\ BreakerTime \in Nat
      BY GuardsAssumption
    <3>2. config' \in [on : BOOLEAN, left : {Absent} \union 0 .. CacheTime]
      BY <1>19 DEF Restart, NoFlag, Absent
    <3>3. streak' \in 0 .. Threshold - 1 /\ breaker' \in 0 .. BreakerTime
      BY <1>19, <3>1 DEF Restart
    <3> QED BY <1>19, <3>2, <3>3, TypesSplit, Zenon DEF Rest, Restart
  <2>2. Places'
    BY <1>19, EndsTypes DEF Restart
  <2>3. InMap' \subseteq InMap
    BY <1>19 DEF InMap, Restart
  <2>4. Cardinality(InMap') <= MaxCooldowns
    BY <2>3, RoomKept DEF Types
  <2>5. Cooldowns'
    BY <1>19, <2>4, TypesSplit DEF Cooldowns, Restart
  <2> QED BY <2>1, <2>2, <2>5, TypesSplit, PTL
<1>20. CASE UNCHANGED vars
  BY <1>20 DEF Types, TypeOK, HasRoute, InMap, vars, cooling, heal, consent, work
<1> QED
  BY <1>1, <1>2, <1>3, <1>4, <1>5, <1>6, <1>7, <1>8, <1>9, <1>10,
     <1>11, <1>12, <1>13, <1>14, <1>15, <1>16, <1>17, <1>18, <1>19, <1>20 DEF Next, Call

-----------------------------------------------------------------------------
(* Consent.                                                                *)

Consent == OnNow /\ EntryHonest /\ ReaderHonest /\ ConsentIsRecent

LEMMA ConsentInit == Init => Consent
BY DEF Init, Consent, OnNow, EntryHonest, ReaderHonest, ConsentIsRecent, NoFlag, Absent

(* A call that is over takes no consent with it. *)
LEMMA EndsConsent ==
  ASSUME Types, Consent, NEW cs, Ends(cs), UNCHANGED <<flag, config, offFor>>
  PROVE  Consent'
BY DEF Types, TypeOK, Consent, OnNow, EntryHonest, ReaderHonest, ConsentIsRecent, Ends

LEMMA ConsentStep ==
  ASSUME Types, Consent, [Next]_vars
  PROVE  Consent'
<1>1. ASSUME NEW c \in Calls, NEW k \in Routes, Try(c, k)
      PROVE  Consent'
  BY <1>1 DEF Types, TypeOK, Consent, OnNow, EntryHonest, ReaderHonest, ConsentIsRecent, Try, Goes, consent, work
<1>2. ASSUME NEW c \in Calls, NEW hint \in Hints, Limited(c, hint)
      PROVE  Consent'
  BY <1>2, EndsConsent DEF Limited, consent
<1>3. ASSUME NEW c \in Calls, Rejected(c)
      PROVE  Consent'
  BY <1>3 DEF Types, TypeOK, Consent, OnNow, EntryHonest, ReaderHonest, ConsentIsRecent, Rejected, Goes, consent, work
<1>4. ASSUME NEW c \in Calls, Answered(c)
      PROVE  Consent'
  BY <1>4, EndsConsent DEF Answered, consent
<1>5. ASSUME NEW c \in Calls, Repairable(c)
      PROVE  Consent'
  BY <1>5 DEF Types, TypeOK, Consent, OnNow, EntryHonest, ReaderHonest, ConsentIsRecent, Repairable, Goes, consent, work
<1>6. ASSUME NEW c \in Calls, CheckBreaker(c)
      PROVE  Consent'
  BY <1>6 DEF Types, TypeOK, Consent, OnNow, EntryHonest, ReaderHonest, ConsentIsRecent, CheckBreaker, Goes, consent, work
<1>7. ASSUME NEW c \in Calls, Skip(c)
      PROVE  Consent'
  BY <1>7, EndsConsent DEF Skip, consent
<1>8. ASSUME NEW c \in Calls, AskConfig(c)
      PROVE  Consent'
  <2> USE DEF Types, TypeOK, Consent
  <2>1. CacheTime \in Nat \ {0}
    BY GuardsAssumption
  <2>2. OnNow' /\ EntryHonest'
    BY <1>8 DEF OnNow, EntryHonest, AskConfig, consent
  <2>3. CASE Fresh /\ config.on /\ Goes(c, "sending") /\ UNCHANGED read
    <3>1. offFor < CacheTime
      BY <2>1, <2>3 DEF EntryHonest, Fresh, Absent
    <3>2. ReaderHonest' /\ ConsentIsRecent'
      BY <1>8, <2>3, <3>1 DEF ReaderHonest, ConsentIsRecent, AskConfig, consent, Goes
    <3> QED BY <2>2, <3>2
  <2>4. CASE ~Fresh /\ read' = [read EXCEPT ![c] = flag] /\ Goes(c, "storing")
    <3>1. flag => offFor < CacheTime /\ offFor <= age[c]
      BY <2>1 DEF OnNow
    <3>2. ReaderHonest'
      BY <1>8, <2>4, <3>1 DEF ReaderHonest, AskConfig, consent, Goes
    <3>3. ConsentIsRecent'
      BY <1>8, <2>4 DEF ConsentIsRecent, AskConfig, consent, Goes
    <3> QED BY <2>2, <3>2, <3>3
  <2> QED BY <1>8, <2>3, <2>4 DEF AskConfig
<1>9. ASSUME NEW c \in Calls, CachedOff(c)
      PROVE  Consent'
  BY <1>9, EndsConsent DEF CachedOff, consent
<1>10. ASSUME NEW c \in Calls, StoreConfig(c)
      PROVE  Consent'
  <2> USE DEF Types, TypeOK, Consent
  <2>1. age[c] \in 0 .. CacheTime /\ CacheTime \in Nat /\ offFor \in Nat
    BY GuardsAssumption
  <2>2. pc[c] = "storing" /\ config' = [on |-> read[c], left |-> CacheTime - age[c]]
        /\ UNCHANGED <<flag, offFor>>
    BY <1>10 DEF StoreConfig
  <2>3. OnNow'
    BY <2>2 DEF OnNow
  <2>4. EntryHonest'
    <3>1. read[c] => offFor <= age[c]
      BY <2>2 DEF ReaderHonest
    <3> QED BY <2>1, <2>2, <3>1 DEF EntryHonest
  <2>5. ReaderHonest' /\ ConsentIsRecent'
    <3>1. CASE read[c]
      <4>1. c \in agreed
        BY <2>2, <3>1 DEF ReaderHonest
      <4> QED BY <1>10, <3>1, <4>1, <2>2
              DEF StoreConfig, Goes, work, ReaderHonest, ConsentIsRecent
    <3>2. CASE ~read[c]
      BY <1>10, <3>2, <2>2 DEF StoreConfig, Ends, ReaderHonest, ConsentIsRecent
    <3> QED BY <3>1, <3>2
  <2> QED BY <2>3, <2>4, <2>5
<1>11. ASSUME NEW c \in Calls, SendHeal(c)
      PROVE  Consent'
  BY <1>11 DEF Types, TypeOK, Consent, OnNow, EntryHonest, ReaderHonest, ConsentIsRecent, SendHeal, Goes, consent, work
<1>12. ASSUME NEW c \in Calls, HealFails(c)
      PROVE  Consent'
  BY <1>12, EndsConsent DEF HealFails, consent
<1>13. ASSUME NEW c \in Calls, HealRefused(c)
      PROVE  Consent'
  BY <1>13, EndsConsent DEF HealRefused, consent
<1>14. ASSUME NEW c \in Calls, HealAnswers(c)
      PROVE  Consent'
  <2>1. CASE Goes(c, "retrying") /\ UNCHANGED work
    BY <1>14, <2>1 DEF Types, TypeOK, Consent, OnNow, EntryHonest, ReaderHonest, ConsentIsRecent, HealAnswers, Goes, consent, work
  <2>2. CASE Ends({c})
    BY <1>14, <2>2, EndsConsent DEF HealAnswers, consent
  <2> QED BY <1>14, <2>1, <2>2 DEF HealAnswers
<1>15. ASSUME NEW c \in Calls, RetryAnswered(c)
      PROVE  Consent'
  BY <1>15, EndsConsent DEF RetryAnswered, consent
<1>16. ASSUME NEW x \in BOOLEAN, Toggle(x)
      PROVE  Consent'
  <2>1. CacheTime \in Nat /\ config.left \in Int /\ config.left <= CacheTime
    BY GuardsAssumption DEF Types, TypeOK, Absent
  <2>2. \A c \in Calls : age[c] \in Nat
    BY GuardsAssumption DEF Types, TypeOK
  <2> QED BY <1>16, <2>1, <2>2 DEF Types, TypeOK, Consent, OnNow, EntryHonest, ReaderHonest, ConsentIsRecent, Toggle, work
<1>17. ASSUME InvalidateConfig
      PROVE  Consent'
  BY <1>17 DEF Types, TypeOK, Consent, OnNow, EntryHonest, ReaderHonest, ConsentIsRecent, InvalidateConfig, work, NoFlag, Absent
<1>18. ASSUME Tick
      PROVE  Consent'
  <2> USE DEF Types, TypeOK, Consent
  <2>1. CacheTime \in Nat /\ offFor \in 0 .. CacheTime
    BY GuardsAssumption
  <2>2. offFor' <= offFor + 1 /\ offFor' <= CacheTime /\ (flag' => offFor' = 0)
        /\ offFor' \in Int
    <3>1. Min({offFor + 1, CacheTime}) = IF offFor + 1 <= CacheTime THEN offFor + 1 ELSE CacheTime
      BY <2>1, MinOfTwo
    <3> QED BY <1>18, <2>1, <3>1 DEF Tick
  <2>3. OnNow'
    BY <2>2 DEF OnNow
  <2>4. EntryHonest'
    <3>1. config'.on = config.on /\ config'.left = Less(config.left)
      BY <1>18 DEF Tick
    <3>2. config.left \in Int
      BY <2>1 DEF Absent
    <3>3. config'.left > 0 => config'.left = config.left - 1 /\ config.left > 0
      BY <3>1, <3>2 DEF Less
    <3> QED BY <2>1, <2>2, <3>1, <3>2, <3>3 DEF EntryHonest
  <2>5. ReaderHonest'
    <3>1. ASSUME NEW c \in Calls, pc[c] = "storing", offFor <= age[c]
          PROVE  offFor' <= age'[c]
      <4>1. age[c] \in 0 .. CacheTime
        OBVIOUS
      <4>2. age'[c] = Min({age[c] + 1, CacheTime})
        BY <1>18, <3>1 DEF Tick
      <4>3. Min({age[c] + 1, CacheTime}) = IF age[c] + 1 <= CacheTime THEN age[c] + 1 ELSE CacheTime
        BY <4>1, <2>1, MinOfTwo
      <4> QED BY <2>1, <2>2, <3>1, <4>1, <4>2, <4>3
    <3> QED BY <1>18, <3>1 DEF Tick, ReaderHonest
  <2>6. ConsentIsRecent'
    BY <1>18 DEF Tick, ConsentIsRecent
  <2> QED BY <2>3, <2>4, <2>5, <2>6
<1>19. ASSUME Restart
      PROVE  Consent'
  BY <1>19 DEF Types, TypeOK, Consent, OnNow, EntryHonest, ReaderHonest, ConsentIsRecent, Restart, Ends, NoFlag, Absent
<1>20. CASE UNCHANGED vars
  BY <1>20 DEF Consent, OnNow, EntryHonest, ReaderHonest, ConsentIsRecent, vars, cooling, heal, consent, work
<1> QED
  BY <1>1, <1>2, <1>3, <1>4, <1>5, <1>6, <1>7, <1>8, <1>9, <1>10,
     <1>11, <1>12, <1>13, <1>14, <1>15, <1>16, <1>17, <1>18, <1>19, <1>20 DEF Next, Call

-----------------------------------------------------------------------------
(* Rest.                                                                   *)

LEMMA RestInit == Init => RestPlain
BY DEF Init, RestPlain, Absent

LEMMA RestStep ==
  ASSUME Types, RestPlain, [Next]_vars
  PROVE  RestPlain'
<1>1. ASSUME NEW c \in Calls, NEW k \in Routes, Try(c, k)
      PROVE  RestPlain'
  <2>1. \A j \in Routes : cool[j] \in Int /\ told[j] \in Nat
    BY GuardsAssumption DEF Types, TypeOK, Absent
  <2>2. /\ \A j \in Routes : cool'[j] = IF j = k THEN Absent ELSE cool[j]
        /\ told' = told /\ lapsed' = lapsed /\ cool[k] <= 0
    BY <1>1 DEF Try, Types, TypeOK
  <2> QED BY <2>1, <2>2 DEF RestPlain, Absent
<1>2. ASSUME NEW c \in Calls, NEW hint \in Hints, Limited(c, hint)
      PROVE  RestPlain'
  <2>1. route[c] \in Routes
    BY <1>2 DEF Limited, Types, HasRoute
  <2> QED BY <1>2, <2>1, RecordedRest DEF Limited, Types
<1>3. ASSUME NEW c \in Calls, Rejected(c)
      PROVE  RestPlain'
  BY <1>3 DEF Rejected, RestPlain, cooling
<1>4. ASSUME NEW c \in Calls, Answered(c)
      PROVE  RestPlain'
  BY <1>4 DEF Answered, RestPlain, cooling
<1>5. ASSUME NEW c \in Calls, Repairable(c)
      PROVE  RestPlain'
  BY <1>5 DEF Repairable, RestPlain, cooling
<1>6. ASSUME NEW c \in Calls, CheckBreaker(c)
      PROVE  RestPlain'
  BY <1>6 DEF CheckBreaker, RestPlain, cooling
<1>7. ASSUME NEW c \in Calls, Skip(c)
      PROVE  RestPlain'
  BY <1>7 DEF Skip, RestPlain, cooling
<1>8. ASSUME NEW c \in Calls, AskConfig(c)
      PROVE  RestPlain'
  BY <1>8 DEF AskConfig, RestPlain, cooling
<1>9. ASSUME NEW c \in Calls, CachedOff(c)
      PROVE  RestPlain'
  BY <1>9 DEF CachedOff, RestPlain, cooling
<1>10. ASSUME NEW c \in Calls, StoreConfig(c)
      PROVE  RestPlain'
  BY <1>10 DEF StoreConfig, RestPlain, cooling
<1>11. ASSUME NEW c \in Calls, SendHeal(c)
      PROVE  RestPlain'
  BY <1>11 DEF SendHeal, RestPlain, cooling
<1>12. ASSUME NEW c \in Calls, HealFails(c)
      PROVE  RestPlain'
  BY <1>12 DEF HealFails, RestPlain, cooling
<1>13. ASSUME NEW c \in Calls, HealRefused(c)
      PROVE  RestPlain'
  BY <1>13 DEF HealRefused, RestPlain, cooling
<1>14. ASSUME NEW c \in Calls, HealAnswers(c)
      PROVE  RestPlain'
  BY <1>14 DEF HealAnswers, RestPlain, cooling
<1>15. ASSUME NEW c \in Calls, RetryAnswered(c)
      PROVE  RestPlain'
  <2>1. CASE UNCHANGED <<told, lapsed>>
    BY <1>15, <2>1 DEF RetryAnswered, RestPlain
  <2>2. ASSUME NEW hint \in Hints,
               told' = [told EXCEPT ![route[c]] = Max({@, Pause(hint)})],
               lapsed' = IF Pause(hint) > cool[route[c]]
                           THEN lapsed \union {route[c]} ELSE lapsed
        PROVE  RestPlain'
    <3> DEFINE k == route[c]
    <3>1. k \in Routes /\ cool' = cool
      BY <1>15 DEF RetryAnswered, Types, HasRoute
    <3>2. \A j \in Routes : cool[j] \in Int /\ told[j] \in Nat
      BY GuardsAssumption DEF Types, TypeOK, Absent
    <3>3. Pause(hint) \in Nat \ {0}
      BY PauseBounds, GuardsAssumption
    <3>4. told'[k] = IF told[k] >= Pause(hint) THEN told[k] ELSE Pause(hint)
      <4>1. Max({told[k], Pause(hint)}) = IF told[k] >= Pause(hint) THEN told[k] ELSE Pause(hint)
        BY <3>1, <3>2, <3>3, MaxOfTwo
      <4> QED BY <2>2, <3>1, <4>1 DEF Types, TypeOK
    <3>5. \A j \in Routes \ {k} : told'[j] = told[j]
      BY <2>2, <3>1 DEF Types, TypeOK
    <3>6. \A j \in Routes : j \in lapsed => j \in lapsed'
      BY <2>2
    <3>7. Pause(hint) > cool[k] => k \in lapsed'
      BY <2>2
    <3> HIDE DEF k
    <3> QED BY <3>1, <3>2, <3>3, <3>4, <3>5, <3>6, <3>7 DEF RestPlain
  <2> QED BY <1>15, <2>1, <2>2 DEF RetryAnswered
<1>16. ASSUME NEW x \in BOOLEAN, Toggle(x)
      PROVE  RestPlain'
  BY <1>16 DEF Toggle, RestPlain, cooling
<1>17. ASSUME InvalidateConfig
      PROVE  RestPlain'
  BY <1>17 DEF InvalidateConfig, RestPlain, cooling
<1>18. ASSUME Tick
      PROVE  RestPlain'
  <2>1. \A j \in Routes : cool[j] \in Int /\ told[j] \in Nat
    BY GuardsAssumption DEF Types, TypeOK, Absent
  <2>2. \A j \in Routes : /\ cool'[j] = Less(cool[j]) /\ told'[j] = Less(told[j])
                          /\ j \in lapsed' <=> j \in lapsed /\ told[j] > 1
    BY <1>18 DEF Tick
  <2> QED BY <2>1, <2>2 DEF RestPlain, Less
<1>19. ASSUME Restart
      PROVE  RestPlain'
  <2>1. \A j \in Routes : told[j] \in Nat
    BY GuardsAssumption DEF Types, TypeOK
  <2> QED BY <1>19, <2>1 DEF Restart, RestPlain, Absent
<1>20. CASE UNCHANGED vars
  BY <1>20 DEF RestPlain, vars, cooling, heal, consent, work
<1> QED
  BY <1>1, <1>2, <1>3, <1>4, <1>5, <1>6, <1>7, <1>8, <1>9, <1>10,
     <1>11, <1>12, <1>13, <1>14, <1>15, <1>16, <1>17, <1>18, <1>19, <1>20 DEF Next, Call

-----------------------------------------------------------------------------
(* The theorems.                                                           *)

(* The inductive invariant holds, for any number of calls and routes. *)
THEOREM Inductive == Spec => []IInv
<1>1. Init => IInv
  BY TypesInit, ConsentInit, RestInit, RestIsPlain DEF IInv, Consent, Types
<1>2. IInv /\ [Next]_vars => IInv'
  <2> SUFFICES ASSUME IInv, [Next]_vars
               PROVE  IInv'
    OBVIOUS
  <2>1. Types'
    BY TypesStep DEF IInv
  <2>2. Consent'
    BY ConsentStep DEF IInv, Consent
  <2>3. RestPlain'
    BY RestIsPlain, RestStep DEF IInv, Types
  <2>4. RestAsTold'
    <3>1. TypeOK'
      BY <2>1 DEF Types
    <3>2. TypeOK' => (RestAsTold <=> RestPlain)'
      BY RestIsPlain, PTL
    <3> QED BY <2>3, <3>1, <3>2
  <2> QED BY <2>1, <2>2, <2>4 DEF IInv, Consent
<1> QED BY <1>1, <1>2, PTL DEF Spec

(* The variables keep their types and the map of cooldowns its bound,      *)
(* whichever routes answer 429 in whatever order. *)
THEOREM TypeCorrect == Spec => []TypeOK
<1>1. IInv => TypeOK
  BY DEF IInv, Types
<1> QED BY <1>1, Inductive, PTL

(* A route rests for as long as it asked, exactly, but for the four named  *)
(* ways in which a pause is cut short. *)
THEOREM RestsAsTold == Spec => []RestAsTold
<1>1. IInv => RestAsTold
  BY DEF IInv
<1> QED BY <1>1, Inductive, PTL

(* No request is sent for healing without consent from within the lifetime *)
(* of a cache entry, however long reads take and whoever withdraws it. *)
THEOREM ConsentRecent == Spec => []ConsentIsRecent
<1>1. IInv => ConsentIsRecent
  BY DEF IInv
<1> QED BY <1>1, Inductive, PTL

(* While the breaker is open no call gets past it, for any number of calls *)
(* and any threshold. *)
THEOREM BreakerHolds == Spec => BreakerSpares
<1> DEFINE Spares == breaker > 0 /\ breaker' > 0 => PastBreaker' \subseteq PastBreaker
<1>1. ASSUME Types, [Next]_vars
      PROVE  Spares
  <2>1. ASSUME NEW c \in Calls, NEW k \in Routes, Try(c, k)
        PROVE  Spares
    BY <1>1, <2>1 DEF Types, TypeOK, PastBreaker, Try, Goes
  <2>2. ASSUME NEW c \in Calls, NEW hint \in Hints, Limited(c, hint)
        PROVE  Spares
    BY <2>2 DEF PastBreaker, Limited, Ends
  <2>3. ASSUME NEW c \in Calls, Rejected(c)
        PROVE  Spares
    BY <1>1, <2>3 DEF Types, TypeOK, PastBreaker, Rejected, Goes
  <2>4. ASSUME NEW c \in Calls, Answered(c)
        PROVE  Spares
    BY <2>4 DEF PastBreaker, Answered, Ends
  <2>5. ASSUME NEW c \in Calls, Repairable(c)
        PROVE  Spares
    BY <1>1, <2>5 DEF Types, TypeOK, PastBreaker, Repairable, Goes
  <2>6. ASSUME NEW c \in Calls, CheckBreaker(c)
        PROVE  Spares
    BY <2>6 DEF CheckBreaker
  <2>7. ASSUME NEW c \in Calls, Skip(c)
        PROVE  Spares
    BY <2>7 DEF PastBreaker, Skip, Ends
  <2>8. ASSUME NEW c \in Calls, AskConfig(c)
        PROVE  Spares
    BY <1>1, <2>8 DEF Types, TypeOK, PastBreaker, AskConfig, Goes
  <2>9. ASSUME NEW c \in Calls, CachedOff(c)
        PROVE  Spares
    BY <2>9 DEF PastBreaker, CachedOff, Ends
  <2>10. ASSUME NEW c \in Calls, StoreConfig(c)
        PROVE  Spares
    BY <1>1, <2>10 DEF Types, TypeOK, PastBreaker, StoreConfig, Ends, Goes
  <2>11. ASSUME NEW c \in Calls, SendHeal(c)
        PROVE  Spares
    BY <1>1, <2>11 DEF Types, TypeOK, PastBreaker, SendHeal, Goes
  <2>12. ASSUME NEW c \in Calls, HealFails(c)
        PROVE  Spares
    BY <2>12 DEF PastBreaker, HealFails, Ends
  <2>13. ASSUME NEW c \in Calls, HealRefused(c)
        PROVE  Spares
    BY <2>13 DEF PastBreaker, HealRefused, Ends
  <2>14. ASSUME NEW c \in Calls, HealAnswers(c)
        PROVE  Spares
    BY <1>1, <2>14 DEF Types, TypeOK, PastBreaker, HealAnswers, Ends, Goes
  <2>15. ASSUME NEW c \in Calls, RetryAnswered(c)
        PROVE  Spares
    BY <2>15 DEF PastBreaker, RetryAnswered, Ends
  <2>16. ASSUME NEW x \in BOOLEAN, Toggle(x)
        PROVE  Spares
    BY <2>16 DEF PastBreaker, Toggle
  <2>17. ASSUME InvalidateConfig
        PROVE  Spares
    BY <2>17 DEF PastBreaker, InvalidateConfig
  <2>18. ASSUME Tick
        PROVE  Spares
    BY <2>18 DEF PastBreaker, Tick
  <2>19. ASSUME Restart
        PROVE  Spares
    BY <2>19 DEF Restart
  <2>20. CASE UNCHANGED vars
    BY <2>20 DEF PastBreaker, vars, heal
  <2> QED
    BY <1>1, <2>1, <2>2, <2>3, <2>4, <2>5, <2>6, <2>7, <2>8, <2>9, <2>10,
       <2>11, <2>12, <2>13, <2>14, <2>15, <2>16, <2>17, <2>18, <2>19, <2>20 DEF Next, Call
<1>2. [Next]_vars /\ IInv => [Spares]_vars
  BY <1>1 DEF IInv
<1> QED BY <1>2, Inductive, PTL DEF Spec, BreakerSpares
=============================================================================
