------------------------- MODULE RequestUsageProofs -------------------------
(***************************************************************************)
(* Proofs about RequestUsage: the count of a month is what the trigger and *)
(* one baseline have found, it holds no request twice and, but for late    *)
(* rows, misses none.                                                      *)
(***************************************************************************)
EXTENDS RequestUsage, FiniteSetTheorems, TLAPS

(* A row the baseline query would find now.                                *)
Found(r, k) ==
  /\ before[r][k]
  /\ \/ stage[r][k] = "linked" /\ kind[r][k] # "tuple"
     \/ stage[r][k] = "unlinked" /\ kind[r][k] = "live"

(* One it has found ever since it was stored.                              *)
Owed(r, k) ==
  /\ before[r][k]
  /\ \/ stage[r][k] = "linked" /\ kind[r][k] = "superseded" /\ phase[r] # "legacy"
     \/ stage[r][k] \in {"linked", "unlinked"} /\ kind[r][k] = "live"

(* Before the cutover nothing is counted and no count is asked for.        *)
Quiescent ==
  ~cutover =>
    /\ month = 0 /\ late = {} /\ counted = {}
    /\ \A r \in Requests : /\ window[r] = 0
                            /\ phase[r] \in {None, "admitted", "legacy"}
                            /\ \A k \in Tries : stage[r][k] = None \/ before[r][k]
    /\ \A w \in Months : ~usage[w].base /\ live[w] = {}
    /\ \A p \in Replicas, w \in Months : init[p][w].at = None

(* What the rows of a request may be, given who served it.                 *)
RowsFit ==
  \A r \in Requests, k \in Tries :
    /\ phase[r] \in {None, "ingress", "waiting", "refused"} => stage[r][k] = None
    /\ phase[r] = "legacy" /\ k # 1 => stage[r][k] = None
    /\ phase[r] \in {None, "legacy"} => window[r] = 0
    /\ stage[r][k] = "unlinked" => phase[r] = "legacy"
    /\ stage[r][k] # None /\ before[r][k] => window[r] = 0
    /\ phase[r] = None => r \notin counted

(* A month's row before and after its baseline.                            *)
Fresh ==
  \A w \in Months :
    /\ ~usage[w].base => baseline[w] = {}
    /\ ~usage[w].there => live[w] = {} /\ usage[w].n = 0 /\ ~usage[w].base

(* What the trigger has counted no baseline finds, unless it is late.      *)
LiveFrom ==
  \A w \in Months : \A r \in live[w] :
    /\ window[r] = w /\ r \in counted
    /\ \E k \in Tries : stage[r][k] = "linked" /\ ~before[r][k]
    /\ r \notin late => \A k \in Tries : ~Found(r, k)

(* What a baseline has found it would find again.                          *)
BaselineFrom ==
  \A w \in Months, r \in Requests :
    r \in baseline[w] \/ (\E p \in Replicas : r \in init[p][w].found) =>
      /\ w = 0 /\ window[r] = 0
      /\ \E k \in Tries : Found(r, k)

(* What must be in the count: whatever the trigger has seen, and, once a   *)
(* baseline is counted, whatever has been owed to it since the cutover.    *)
Seen ==
  \A r \in Requests, k \in Tries :
    stage[r][k] = "linked" /\ ~before[r][k] /\ kind[r][k] = "live" => r \in counted

Placed ==
  \A r \in counted : r \in live[window[r]] \/ \E k \in Tries : Owed(r, k)

Paid ==
  \A r \in Requests \ late :
    (\E k \in Tries : Owed(r, k)) =>
      /\ usage[0].base => r \in baseline[0]
      /\ \A p \in Replicas : init[p][0].at = "counted" => r \in init[p][0].found

IInv ==
  /\ TypeOK /\ BaselineAddedOnce /\ RefusedAtLimit
  /\ Quiescent /\ RowsFit /\ Fresh /\ LiveFrom /\ BaselineFrom
  /\ Seen /\ Placed /\ Paid
(* The updates of one step, entry by entry.                                *)
Put(f, g, r, k, v) ==
  \A q \in Requests, j \in Tries :
    g[q][j] = IF q = r /\ j = k THEN v ELSE f[q][j]

Tallied(r, yes) ==
  /\ baseline' = baseline
  /\ \A w \in Months :
       IF yes /\ w = window[r]
         THEN /\ live'[w] = live[w] \union {r}
              /\ usage'[w].n = usage[w].n + 1
              /\ usage'[w].there
              /\ usage'[w].base <=> usage[w].base \/ (~usage[w].there /\ w > 0)
         ELSE live'[w] = live[w] /\ usage'[w] = usage[w]

Called(r, k) ==
  /\ phase[r] \in {"admitted", "legacy"} /\ stage[r][k] = None
  /\ k # 1 => phase[r] = "admitted"
  /\ Put(stage, stage', r, k, "calling")
  /\ before'[r][k] <=> ~cutover
  /\ \A q \in Requests, j \in Tries :
       q # r \/ j # k => before'[q][j] = before[q][j]
  /\ UNCHANGED <<cutover, month, window, init, late, kind, phase, asks, counted,
                 usage, live, baseline>>

StoredRow(r, k, c) ==
  /\ phase[r] # "legacy" /\ stage[r][k] = "calling"
  /\ Put(stage, stage', r, k, "linked")
  /\ Put(kind, kind', r, k, c)
  /\ late' = IF cutover /\ before[r][k] THEN late \union {r} ELSE late
  /\ counted' = IF cutover /\ ~before[r][k] /\ c = "live"
                  THEN counted \union {r} ELSE counted
  /\ Tallied(r, CountsLive(r, k, before[r][k], c))
  /\ UNCHANGED <<cutover, month, window, init, before, phase, asks>>

StoredLegacy(r, c) ==
  /\ phase[r] = "legacy" /\ stage[r][1] = "calling" /\ 1 \in Tries
  /\ Put(stage, stage', r, 1, "unlinked")
  /\ Put(kind, kind', r, 1, c)
  /\ late' = IF cutover /\ before[r][1] THEN late \union {r} ELSE late
  /\ UNCHANGED <<cutover, month, window, init, before, phase, asks, counted,
                 usage, live, baseline>>

LinkedRow(r) ==
  /\ stage[r][1] = "unlinked" /\ 1 \in Tries
  /\ Put(stage, stage', r, 1, "linked")
  /\ counted' = IF cutover /\ ~before[r][1] /\ kind[r][1] = "live"
                  THEN counted \union {r} ELSE counted
  /\ Tallied(r, CountsLive(r, 1, before[r][1], kind[r][1]))
  /\ UNCHANGED <<cutover, month, window, init, late, before, kind, phase, asks>>

InitMoves(p, w) ==
  \A q \in Replicas, v \in Months :
    q # p \/ v # w => init'[q][v] = init[q][v]

-----------------------------------------------------------------------------
(* Proofs.                                                                 *)

(* Adding one to a finite set, and what two overlapping sets count.        *)
LEMMA AddOne ==
  ASSUME NEW S, IsFiniteSet(S), NEW x, x \notin S
  PROVE  Cardinality(S \union {x}) = Cardinality(S) + 1
BY FS_AddElement

LEMMA Overlap ==
  ASSUME NEW S, NEW T, NEW U, IsFiniteSet(S), IsFiniteSet(T), IsFiniteSet(U),
         S \intersect T \subseteq U
  PROVE  Cardinality(S) + Cardinality(T) <= Cardinality(S \union T) + Cardinality(U)
<1>1. Cardinality(S \union T)
        = Cardinality(S) + Cardinality(T) - Cardinality(S \intersect T)
  BY FS_Union
<1>2. Cardinality(S \intersect T) <= Cardinality(U)
  BY FS_Subset
<1>3. /\ Cardinality(S) \in Nat /\ Cardinality(T) \in Nat /\ Cardinality(U) \in Nat
      /\ Cardinality(S \intersect T) \in Nat
  BY FS_CardinalityType, FS_Intersection
<1>. QED
  BY <1>1, <1>2, <1>3

(* Sets of requests are finite.                                            *)
LEMMA FiniteRequests ==
  ASSUME NEW S, S \subseteq Requests
  PROVE  IsFiniteSet(S) /\ Cardinality(S) \in Nat
BY UsageAssumption, FS_Subset, FS_CardinalityType DEF UsageAssumption

LEMMA OneIsATry == 1 \in Tries
BY UsageAssumption DEF UsageAssumption, Tries

LEMMA CountedType ==
  ASSUME NEW u \in [there : BOOLEAN, n : Nat, base : BOOLEAN], NEW w \in Months
  PROVE  Counted(u, w) \in [there : BOOLEAN, n : Nat, base : BOOLEAN]
BY DEF Counted

(* What the trigger leaves well-typed, whatever row fires it.              *)
LEMMA TriggerType ==
  ASSUME TypeOK, NEW r \in Requests, NEW k, NEW was, NEW c, Trigger(r, k, was, c)
  PROVE  /\ counted' \subseteq Requests
         /\ usage' \in [Months -> [there : BOOLEAN, n : Nat, base : BOOLEAN]]
         /\ live' \in [Months -> SUBSET Requests]
         /\ baseline' = baseline
<1>1. /\ counted' \subseteq Requests
      /\ baseline' = baseline
  BY DEF TypeOK, Trigger
<1>2. CASE ~CountsLive(r, k, was, c)
  BY <1>1, <1>2 DEF TypeOK, Trigger
<1>3. CASE CountsLive(r, k, was, c)
  <2>1. window[r] \in Months
    BY DEF TypeOK
  <2>2. usage[window[r]] \in [there : BOOLEAN, n : Nat, base : BOOLEAN]
    BY <2>1 DEF TypeOK
  <2>3. /\ usage' = [usage EXCEPT ![window[r]] = Counted(usage[window[r]], window[r])]
        /\ live' = [live EXCEPT ![window[r]] = @ \union {r}]
    BY <1>3 DEF Trigger
  <2>. QED
    BY <1>1, <2>1, <2>2, <2>3, CountedType DEF TypeOK
<1>. QED
  BY <1>2, <1>3

(* What the actions do, entry by entry.                                    *)
LEMMA PutEffect ==
  ASSUME NEW D, NEW f \in [Requests -> [Tries -> D]], NEW r \in Requests,
         NEW k \in Tries, NEW v, NEW g, g = [f EXCEPT ![r][k] = v]
  PROVE  Put(f, g, r, k, v)
BY DEF Put

LEMMA TriggerEffect ==
  ASSUME TypeOK, NEW r \in Requests, NEW k, NEW was, NEW c, Trigger(r, k, was, c)
  PROVE  Tallied(r, CountsLive(r, k, was, c))
<1>. window[r] \in Months
  BY DEF TypeOK
<1>1. CASE ~CountsLive(r, k, was, c)
  BY <1>1 DEF TypeOK, Trigger, Tallied
<1>2. CASE CountsLive(r, k, was, c)
  <2>1. /\ usage' = [usage EXCEPT ![window[r]] = Counted(usage[window[r]], window[r])]
        /\ live' = [live EXCEPT ![window[r]] = @ \union {r}]
        /\ baseline' = baseline
    BY <1>2 DEF Trigger
  <2>2. usage'[window[r]] = Counted(usage[window[r]], window[r])
    BY <2>1 DEF TypeOK
  <2>3. /\ usage'[window[r]].n = usage[window[r]].n + 1
        /\ usage'[window[r]].there
    BY <2>2 DEF Counted
  <2>4. usage'[window[r]].base
          <=> usage[window[r]].base \/ (~usage[window[r]].there /\ window[r] > 0)
    <3>1. usage'[window[r]].base
            = (usage[window[r]].base \/ (~usage[window[r]].there /\ window[r] > 0))
      BY <2>2 DEF Counted
    <3>. QED
      BY <3>1, Zenon
  <2>. QED
    BY <1>2, <2>1, <2>3, <2>4 DEF TypeOK, Tallied
<1>. QED
  BY <1>1, <1>2

LEMMA StartAttemptEffect ==
  ASSUME TypeOK, NEW r \in Requests, NEW k \in Tries, StartAttempt(r, k)
  PROVE  Called(r, k)
<1>1. Put(stage, stage', r, k, "calling")
  BY PutEffect DEF TypeOK, StartAttempt
<1>2. before' = [before EXCEPT ![r][k] = ~cutover]
  BY DEF StartAttempt
<1>3. /\ before'[r][k] <=> ~cutover
      /\ \A q \in Requests, j \in Tries :
           q # r \/ j # k => before'[q][j] = before[q][j]
  BY <1>2 DEF TypeOK
<1>4. k # 1 => phase[r] = "admitted"
  BY DEF StartAttempt, Tries
<1>. QED
  BY <1>1, <1>3, <1>4 DEF StartAttempt, Called, gate, meter

LEMMA StoreAttemptEffect ==
  ASSUME TypeOK, NEW r \in Requests, NEW k \in Tries, NEW c \in Kinds,
         StoreAttempt(r, k, c)
  PROVE  StoredRow(r, k, c)
<1>1. Put(stage, stage', r, k, "linked")
  BY PutEffect DEF TypeOK, StoreAttempt
<1>2. Put(kind, kind', r, k, c)
  BY PutEffect DEF TypeOK, StoreAttempt
<1>3. Tallied(r, CountsLive(r, k, before[r][k], c))
  BY TriggerEffect DEF StoreAttempt
<1>. QED
  BY <1>1, <1>2, <1>3 DEF StoreAttempt, StoredRow, Trigger, gate

LEMMA StoreLegacyEffect ==
  ASSUME TypeOK, NEW r \in Requests, NEW c \in Kinds, StoreLegacy(r, c)
  PROVE  StoredLegacy(r, c)
<1>1. Put(stage, stage', r, 1, "unlinked")
  BY PutEffect, OneIsATry DEF TypeOK, StoreLegacy
<1>2. Put(kind, kind', r, 1, c)
  BY PutEffect, OneIsATry DEF TypeOK, StoreLegacy
<1>. QED
  BY <1>1, <1>2, OneIsATry DEF StoreLegacy, StoredLegacy, gate, meter

LEMMA LinkLegacyEffect ==
  ASSUME TypeOK, NEW r \in Requests, LinkLegacy(r)
  PROVE  LinkedRow(r)
<1>1. Put(stage, stage', r, 1, "linked")
  BY PutEffect, OneIsATry DEF TypeOK, LinkLegacy
<1>2. Tallied(r, CountsLive(r, 1, before[r][1], kind[r][1]))
  BY TriggerEffect DEF LinkLegacy
<1>. QED
  BY <1>1, <1>2, OneIsATry DEF LinkLegacy, LinkedRow, Trigger, gate

LEMMA AskBaselineEffect ==
  ASSUME TypeOK, NEW r \in Requests, NEW p \in Replicas, AskBaseline(r, p)
  PROVE  InitMoves(p, month)
BY DEF TypeOK, AskBaseline, InitMoves

LEMMA CountBaselineEffect ==
  ASSUME TypeOK, NEW p \in Replicas, NEW w \in Months, CountBaseline(p, w)
  PROVE  InitMoves(p, w)
BY DEF TypeOK, CountBaseline, InitMoves

LEMMA MergeBaselineEffect ==
  ASSUME TypeOK, NEW p \in Replicas, NEW w \in Months, MergeBaseline(p, w)
  PROVE  InitMoves(p, w)
BY DEF TypeOK, MergeBaseline, InitMoves

LEMMA InitFailsEffect ==
  ASSUME TypeOK, NEW p \in Replicas, NEW w \in Months, InitFails(p, w)
  PROVE  InitMoves(p, w)
BY DEF TypeOK, InitFails, InitMoves

(* Types.                                                                  *)
LEMMA TypeStep ==
  ASSUME TypeOK, [Next]_vars
  PROVE  TypeOK'
<1>1. CASE Cutover
  BY <1>1 DEF TypeOK, Cutover, Months, ledger, gate, meter
<1>2. CASE NextMonth
  BY <1>2 DEF TypeOK, NextMonth, Months, ledger, gate, meter
<1>3. ASSUME NEW r \in Requests, Accept(r)
     PROVE  TypeOK'
  BY <1>3 DEF TypeOK, Accept, Months, ledger, gate, meter
<1>4. ASSUME NEW r \in Requests, AcceptLegacy(r)
     PROVE  TypeOK'
  BY <1>4 DEF TypeOK, AcceptLegacy, Months, ledger, gate, meter
<1>5. ASSUME NEW r \in Requests, ReadCount(r)
     PROVE  TypeOK'
  BY <1>5 DEF TypeOK, ReadCount, Verdict, ledger, meter
<1>6. ASSUME NEW r \in Requests, LinkLegacy(r)
     PROVE  TypeOK'
  BY <1>6, TriggerType DEF TypeOK, LinkLegacy, gate
<1>7. ASSUME NEW r \in Requests, NEW p \in Replicas, AskBaseline(r, p)
     PROVE  TypeOK'
  BY <1>7 DEF TypeOK, AskBaseline, Months, ledger, gate, meter
<1>8. ASSUME NEW r \in Requests, NEW c \in Kinds, StoreLegacy(r, c)
     PROVE  TypeOK'
  BY <1>8 DEF TypeOK, StoreLegacy, gate, meter
<1>9. ASSUME NEW r \in Requests, NEW k \in Tries, StartAttempt(r, k)
     PROVE  TypeOK'
  BY <1>9 DEF TypeOK, StartAttempt, Months, ledger, gate, meter
<1>10. ASSUME NEW r \in Requests, NEW k \in Tries, NEW c \in Kinds, StoreAttempt(r, k, c)
     PROVE  TypeOK'
  BY <1>10, TriggerType DEF TypeOK, StoreAttempt, gate
<1>11. ASSUME NEW p \in Replicas, NEW w \in Months, CountBaseline(p, w)
     PROVE  TypeOK'
  BY <1>11 DEF TypeOK, CountBaseline, Baseline, ledger, gate, meter
<1>12. ASSUME NEW p \in Replicas, NEW w \in Months, MergeBaseline(p, w)
     PROVE  TypeOK'
  <2>1. Cardinality(init[p][w].found) \in Nat
    BY FiniteRequests DEF TypeOK
  <2>2. usage' \in [Months -> [there : BOOLEAN, n : Nat, base : BOOLEAN]]
    BY <1>12, <2>1 DEF TypeOK, MergeBaseline, Merged
  <2>3. phase' \in [Requests -> {None, "ingress", "waiting", "admitted", "refused",
                                "legacy"}]
    BY <1>12 DEF TypeOK, MergeBaseline, Answered, Verdict
  <2>. QED
    BY <1>12, <2>2, <2>3 DEF TypeOK, MergeBaseline, NoInit, ledger
<1>13. ASSUME NEW p \in Replicas, NEW w \in Months, InitFails(p, w)
     PROVE  TypeOK'
  BY <1>13 DEF TypeOK, InitFails, Answered, NoInit, ledger, meter
<1>14. CASE UNCHANGED vars
  BY <1>14 DEF TypeOK, vars, ledger, gate, meter
<1>. QED
  BY <1>1, <1>2, <1>3, <1>4, <1>5, <1>6, <1>7, <1>8,
     <1>9, <1>10, <1>11, <1>12, <1>13, <1>14 DEF Next

(* Nothing is counted before the cutover.                                  *)
LEMMA QuiescentStep ==
  ASSUME TypeOK, Quiescent, [Next]_vars
  PROVE  Quiescent'
<1>1. CASE Cutover
  BY <1>1 DEF None, TypeOK, Quiescent, Cutover, Months, ledger, gate, meter
<1>2. CASE NextMonth
  BY <1>2 DEF None, TypeOK, Quiescent, NextMonth, Months, ledger, gate, meter
<1>3. ASSUME NEW r \in Requests, Accept(r)
     PROVE  Quiescent'
  BY <1>3 DEF None, TypeOK, Quiescent, Accept, Months, ledger, gate, meter
<1>4. ASSUME NEW r \in Requests, AcceptLegacy(r)
     PROVE  Quiescent'
  BY <1>4 DEF None, TypeOK, Quiescent, AcceptLegacy, Months, ledger, gate, meter
<1>5. ASSUME NEW r \in Requests, ReadCount(r)
     PROVE  Quiescent'
  BY <1>5 DEF None, Quiescent, ReadCount
<1>6. ASSUME NEW r \in Requests, LinkLegacy(r)
     PROVE  Quiescent'
  <2>1. LinkedRow(r)
    BY <1>6, LinkLegacyEffect
  <2>. QED
    BY <2>1 DEF None, TypeOK, CountsLive, Quiescent, LinkedRow, Put, Tallied
<1>7. ASSUME NEW r \in Requests, NEW p \in Replicas, AskBaseline(r, p)
     PROVE  Quiescent'
  BY <1>7 DEF None, Quiescent, AskBaseline, ledger, meter
<1>8. ASSUME NEW r \in Requests, NEW c \in Kinds, StoreLegacy(r, c)
     PROVE  Quiescent'
  <2>1. StoredLegacy(r, c)
    BY <1>8, StoreLegacyEffect
  <2>. QED
    BY <2>1 DEF None, Quiescent, StoredLegacy, Put, Tallied
<1>9. ASSUME NEW r \in Requests, NEW k \in Tries, StartAttempt(r, k)
     PROVE  Quiescent'
  <2>1. Called(r, k)
    BY <1>9, StartAttemptEffect
  <2>2. ASSUME ~cutover
        PROVE  \A q \in Requests, j \in Tries : stage'[q][j] = None \/ before'[q][j]
    <3>1. \A q \in Requests, j \in Tries : stage[q][j] = None \/ before[q][j]
      BY <2>2 DEF Quiescent
    <3>. QED
      BY <2>1, <2>2, <3>1 DEF Called, Put, None
  <2>3. ASSUME ~cutover
        PROVE  /\ late' = {} /\ counted' = {}
               /\ \A v \in Months : ~usage'[v].base /\ live'[v] = {}
    BY <2>1, <2>3 DEF Called, Tallied, CountsLive, Quiescent
  <2>. QED
    BY <2>1, <2>2, <2>3 DEF Called, Quiescent
<1>10. ASSUME NEW r \in Requests, NEW k \in Tries, NEW c \in Kinds, StoreAttempt(r, k, c)
     PROVE  Quiescent'
  <2>1. StoredRow(r, k, c)
    BY <1>10, StoreAttemptEffect
  <2>2. ASSUME ~cutover
        PROVE  \A q \in Requests, j \in Tries : stage'[q][j] = None \/ before'[q][j]
    <3>1. \A q \in Requests, j \in Tries : stage[q][j] = None \/ before[q][j]
      BY <2>2 DEF Quiescent
    <3>. QED
      BY <2>1, <2>2, <3>1 DEF StoredRow, Put, None
  <2>3. ASSUME ~cutover
        PROVE  /\ late' = {} /\ counted' = {}
               /\ \A v \in Months : ~usage'[v].base /\ live'[v] = {}
    BY <2>1, <2>3 DEF StoredRow, Tallied, CountsLive, Quiescent
  <2>. QED
    BY <2>1, <2>2, <2>3 DEF StoredRow, Quiescent
<1>11. ASSUME NEW p \in Replicas, NEW w \in Months, CountBaseline(p, w)
     PROVE  Quiescent'
  BY <1>11 DEF None, Quiescent, CountBaseline, Months
<1>12. ASSUME NEW p \in Replicas, NEW w \in Months, MergeBaseline(p, w)
     PROVE  Quiescent'
  BY <1>12 DEF None, Quiescent, MergeBaseline, Months
<1>13. ASSUME NEW p \in Replicas, NEW w \in Months, InitFails(p, w)
     PROVE  Quiescent'
  BY <1>13 DEF None, Quiescent, InitFails, Months
<1>14. CASE UNCHANGED vars
  BY <1>14 DEF None, Quiescent, vars, ledger, gate, meter
<1>. QED
  BY <1>1, <1>2, <1>3, <1>4, <1>5, <1>6, <1>7, <1>8,
     <1>9, <1>10, <1>11, <1>12, <1>13, <1>14 DEF Next

(* The rows of a request fit who served it.                                *)
LEMMA RowsFitStep ==
  ASSUME TypeOK, Quiescent, RowsFit, [Next]_vars
  PROVE  RowsFit'
<1>1. CASE Cutover
  BY <1>1 DEF None, TypeOK, RowsFit, Quiescent, Cutover, Months, ledger, gate, meter
<1>2. CASE NextMonth
  BY <1>2 DEF None, TypeOK, RowsFit, Quiescent, NextMonth, Months, ledger, gate, meter
<1>3. ASSUME NEW r \in Requests, Accept(r)
     PROVE  RowsFit'
  BY <1>3 DEF None, TypeOK, RowsFit, Quiescent, Accept, Months, ledger, gate, meter
<1>4. ASSUME NEW r \in Requests, AcceptLegacy(r)
     PROVE  RowsFit'
  BY <1>4 DEF None, TypeOK, RowsFit, Quiescent, AcceptLegacy, Months, ledger, gate, meter
<1>5. ASSUME NEW r \in Requests, ReadCount(r)
     PROVE  RowsFit'
  BY <1>5 DEF None, TypeOK, RowsFit, ReadCount, Verdict, ledger, meter
<1>6. ASSUME NEW r \in Requests, LinkLegacy(r)
     PROVE  RowsFit'
  <2>1. LinkedRow(r)
    BY <1>6, LinkLegacyEffect
  <2>. QED
    BY <2>1 DEF None, RowsFit, LinkedRow, Put, Tallied
<1>7. ASSUME NEW r \in Requests, NEW p \in Replicas, AskBaseline(r, p)
     PROVE  RowsFit'
  BY <1>7 DEF None, TypeOK, RowsFit, AskBaseline, Answered, Verdict, ledger, gate, meter
<1>8. ASSUME NEW r \in Requests, NEW c \in Kinds, StoreLegacy(r, c)
     PROVE  RowsFit'
  <2>1. StoredLegacy(r, c)
    BY <1>8, StoreLegacyEffect
  <2>. QED
    BY <2>1 DEF None, RowsFit, StoredLegacy, Put, Tallied
<1>9. ASSUME NEW r \in Requests, NEW k \in Tries, StartAttempt(r, k)
     PROVE  RowsFit'
  <2>1. Called(r, k)
    BY <1>9, StartAttemptEffect
  <2>2. ~cutover => window[r] = 0
    BY DEF Quiescent
  <2>. QED
    BY <2>1, <2>2 DEF None, RowsFit, Called, Put
<1>10. ASSUME NEW r \in Requests, NEW k \in Tries, NEW c \in Kinds, StoreAttempt(r, k, c)
     PROVE  RowsFit'
  <2>1. StoredRow(r, k, c)
    BY <1>10, StoreAttemptEffect
  <2>. QED
    BY <2>1 DEF None, RowsFit, StoredRow, Put, Tallied
<1>11. ASSUME NEW p \in Replicas, NEW w \in Months, CountBaseline(p, w)
     PROVE  RowsFit'
  BY <1>11 DEF None, TypeOK, RowsFit, CountBaseline, Answered, Verdict, ledger, gate, meter
<1>12. ASSUME NEW p \in Replicas, NEW w \in Months, MergeBaseline(p, w)
     PROVE  RowsFit'
  BY <1>12 DEF None, TypeOK, RowsFit, MergeBaseline, Answered, Verdict, ledger, gate, meter
<1>13. ASSUME NEW p \in Replicas, NEW w \in Months, InitFails(p, w)
     PROVE  RowsFit'
  BY <1>13 DEF None, TypeOK, RowsFit, InitFails, Answered, Verdict, ledger, gate, meter
<1>14. CASE UNCHANGED vars
  BY <1>14 DEF None, RowsFit, vars, ledger, gate, meter
<1>. QED
  BY <1>1, <1>2, <1>3, <1>4, <1>5, <1>6, <1>7, <1>8,
     <1>9, <1>10, <1>11, <1>12, <1>13, <1>14 DEF Next

(* What the baseline query finds it finds from then on.                    *)
LEMMA FoundStays ==
  ASSUME TypeOK, [Next]_vars
  PROVE  \A q \in Requests, j \in Tries : Found(q, j) => Found(q, j)'
<1>1. CASE Cutover
  BY <1>1 DEF Found, Cutover, ledger
<1>2. CASE NextMonth
  BY <1>2 DEF Found, NextMonth, ledger
<1>3. ASSUME NEW r \in Requests, Accept(r)
     PROVE  \A q \in Requests, j \in Tries : Found(q, j) => Found(q, j)'
  BY <1>3 DEF Found, Accept, ledger
<1>4. ASSUME NEW r \in Requests, AcceptLegacy(r)
     PROVE  \A q \in Requests, j \in Tries : Found(q, j) => Found(q, j)'
  BY <1>4 DEF Found, AcceptLegacy, ledger
<1>5. ASSUME NEW r \in Requests, ReadCount(r)
     PROVE  \A q \in Requests, j \in Tries : Found(q, j) => Found(q, j)'
  BY <1>5 DEF Found, ReadCount, ledger
<1>6. ASSUME NEW r \in Requests, LinkLegacy(r)
     PROVE  \A q \in Requests, j \in Tries : Found(q, j) => Found(q, j)'
  BY <1>6, LinkLegacyEffect DEF LinkedRow, Put, Found, None
<1>7. ASSUME NEW r \in Requests, NEW p \in Replicas, AskBaseline(r, p)
     PROVE  \A q \in Requests, j \in Tries : Found(q, j) => Found(q, j)'
  BY <1>7 DEF Found, AskBaseline, ledger
<1>8. ASSUME NEW r \in Requests, NEW c \in Kinds, StoreLegacy(r, c)
     PROVE  \A q \in Requests, j \in Tries : Found(q, j) => Found(q, j)'
  BY <1>8, StoreLegacyEffect DEF StoredLegacy, Put, Found, None
<1>9. ASSUME NEW r \in Requests, NEW k \in Tries, StartAttempt(r, k)
     PROVE  \A q \in Requests, j \in Tries : Found(q, j) => Found(q, j)'
  BY <1>9, StartAttemptEffect DEF Called, Put, Found, None
<1>10. ASSUME NEW r \in Requests, NEW k \in Tries, NEW c \in Kinds, StoreAttempt(r, k, c)
     PROVE  \A q \in Requests, j \in Tries : Found(q, j) => Found(q, j)'
  BY <1>10, StoreAttemptEffect DEF StoredRow, Put, Found, None
<1>11. ASSUME NEW p \in Replicas, NEW w \in Months, CountBaseline(p, w)
     PROVE  \A q \in Requests, j \in Tries : Found(q, j) => Found(q, j)'
  BY <1>11 DEF Found, CountBaseline, ledger
<1>12. ASSUME NEW p \in Replicas, NEW w \in Months, MergeBaseline(p, w)
     PROVE  \A q \in Requests, j \in Tries : Found(q, j) => Found(q, j)'
  BY <1>12 DEF Found, MergeBaseline, ledger
<1>13. ASSUME NEW p \in Replicas, NEW w \in Months, InitFails(p, w)
     PROVE  \A q \in Requests, j \in Tries : Found(q, j) => Found(q, j)'
  BY <1>13 DEF Found, InitFails, ledger
<1>14. CASE UNCHANGED vars
  BY <1>14 DEF Found, vars, ledger
<1>. QED
  BY <1>1, <1>2, <1>3, <1>4, <1>5, <1>6, <1>7, <1>8,
     <1>9, <1>10, <1>11, <1>12, <1>13, <1>14 DEF Next

(* What is owed to the baseline stays owed.                                *)
LEMMA OwedStays ==
  ASSUME TypeOK, RowsFit, [Next]_vars
  PROVE  \A q \in Requests, j \in Tries : Owed(q, j) => Owed(q, j)'
<1>1. CASE Cutover
  BY <1>1 DEF Owed, Cutover, ledger, gate
<1>2. CASE NextMonth
  BY <1>2 DEF Owed, NextMonth, ledger, gate
<1>3. ASSUME NEW r \in Requests, Accept(r)
     PROVE  \A q \in Requests, j \in Tries : Owed(q, j) => Owed(q, j)'
  BY <1>3 DEF TypeOK, Owed, Accept, ledger
<1>4. ASSUME NEW r \in Requests, AcceptLegacy(r)
     PROVE  \A q \in Requests, j \in Tries : Owed(q, j) => Owed(q, j)'
  BY <1>4 DEF None, TypeOK, RowsFit, Owed, AcceptLegacy, ledger
<1>5. ASSUME NEW r \in Requests, ReadCount(r)
     PROVE  \A q \in Requests, j \in Tries : Owed(q, j) => Owed(q, j)'
  BY <1>5 DEF TypeOK, Owed, ReadCount, ledger, Verdict
<1>6. ASSUME NEW r \in Requests, LinkLegacy(r)
     PROVE  \A q \in Requests, j \in Tries : Owed(q, j) => Owed(q, j)'
  BY <1>6, LinkLegacyEffect DEF LinkedRow, Put, Owed, None
<1>7. ASSUME NEW r \in Requests, NEW p \in Replicas, AskBaseline(r, p)
     PROVE  \A q \in Requests, j \in Tries : Owed(q, j) => Owed(q, j)'
  BY <1>7 DEF TypeOK, Owed, AskBaseline, ledger
<1>8. ASSUME NEW r \in Requests, NEW c \in Kinds, StoreLegacy(r, c)
     PROVE  \A q \in Requests, j \in Tries : Owed(q, j) => Owed(q, j)'
  BY <1>8, StoreLegacyEffect DEF StoredLegacy, Put, Owed, None
<1>9. ASSUME NEW r \in Requests, NEW k \in Tries, StartAttempt(r, k)
     PROVE  \A q \in Requests, j \in Tries : Owed(q, j) => Owed(q, j)'
  BY <1>9, StartAttemptEffect DEF Called, Put, Owed, None
<1>10. ASSUME NEW r \in Requests, NEW k \in Tries, NEW c \in Kinds, StoreAttempt(r, k, c)
     PROVE  \A q \in Requests, j \in Tries : Owed(q, j) => Owed(q, j)'
  BY <1>10, StoreAttemptEffect DEF StoredRow, Put, Owed, None
<1>11. ASSUME NEW p \in Replicas, NEW w \in Months, CountBaseline(p, w)
     PROVE  \A q \in Requests, j \in Tries : Owed(q, j) => Owed(q, j)'
  BY <1>11 DEF Owed, CountBaseline, ledger, gate
<1>12. ASSUME NEW p \in Replicas, NEW w \in Months, MergeBaseline(p, w)
     PROVE  \A q \in Requests, j \in Tries : Owed(q, j) => Owed(q, j)'
  BY <1>12 DEF TypeOK, Owed, MergeBaseline, Answered, ledger, Verdict
<1>13. ASSUME NEW p \in Replicas, NEW w \in Months, InitFails(p, w)
     PROVE  \A q \in Requests, j \in Tries : Owed(q, j) => Owed(q, j)'
  BY <1>13 DEF TypeOK, Owed, InitFails, Answered, ledger, Verdict
<1>14. CASE UNCHANGED vars
  BY <1>14 DEF Owed, vars, ledger, gate
<1>. QED
  BY <1>1, <1>2, <1>3, <1>4, <1>5, <1>6, <1>7, <1>8,
     <1>9, <1>10, <1>11, <1>12, <1>13, <1>14 DEF Next

(* Rows of tenant_request_usage.                                           *)
LEMMA FreshStep ==
  ASSUME TypeOK, Fresh, [Next]_vars
  PROVE  Fresh'
<1>1. CASE Cutover
  BY <1>1 DEF Fresh, Cutover, meter
<1>2. CASE NextMonth
  BY <1>2 DEF Fresh, NextMonth, meter
<1>3. ASSUME NEW r \in Requests, Accept(r)
     PROVE  Fresh'
  BY <1>3 DEF Fresh, Accept, meter
<1>4. ASSUME NEW r \in Requests, AcceptLegacy(r)
     PROVE  Fresh'
  BY <1>4 DEF Fresh, AcceptLegacy, meter
<1>5. ASSUME NEW r \in Requests, ReadCount(r)
     PROVE  Fresh'
  BY <1>5 DEF Fresh, ReadCount, meter
<1>6. ASSUME NEW r \in Requests, LinkLegacy(r)
     PROVE  Fresh'
  BY <1>6, LinkLegacyEffect DEF LinkedRow, Tallied, Fresh
<1>7. ASSUME NEW r \in Requests, NEW p \in Replicas, AskBaseline(r, p)
     PROVE  Fresh'
  BY <1>7 DEF Fresh, AskBaseline, meter
<1>8. ASSUME NEW r \in Requests, NEW c \in Kinds, StoreLegacy(r, c)
     PROVE  Fresh'
  BY <1>8, StoreLegacyEffect DEF StoredLegacy, Tallied, Fresh
<1>9. ASSUME NEW r \in Requests, NEW k \in Tries, StartAttempt(r, k)
     PROVE  Fresh'
  BY <1>9, StartAttemptEffect DEF Called, Tallied, Fresh
<1>10. ASSUME NEW r \in Requests, NEW k \in Tries, NEW c \in Kinds, StoreAttempt(r, k, c)
     PROVE  Fresh'
  BY <1>10, StoreAttemptEffect DEF StoredRow, Tallied, Fresh
<1>11. ASSUME NEW p \in Replicas, NEW w \in Months, CountBaseline(p, w)
     PROVE  Fresh'
  BY <1>11 DEF Fresh, CountBaseline, meter
<1>12. ASSUME NEW p \in Replicas, NEW w \in Months, MergeBaseline(p, w)
     PROVE  Fresh'
  BY <1>12 DEF TypeOK, Fresh, MergeBaseline, Merged
<1>13. ASSUME NEW p \in Replicas, NEW w \in Months, InitFails(p, w)
     PROVE  Fresh'
  BY <1>13 DEF Fresh, InitFails, meter
<1>14. CASE UNCHANGED vars
  BY <1>14 DEF Fresh, vars, meter
<1>. QED
  BY <1>1, <1>2, <1>3, <1>4, <1>5, <1>6, <1>7, <1>8,
     <1>9, <1>10, <1>11, <1>12, <1>13, <1>14 DEF Next

(* What the trigger counts no baseline finds.                              *)
LEMMA LiveFromStep ==
  ASSUME TypeOK, Quiescent, RowsFit, LiveFrom, [Next]_vars
  PROVE  LiveFrom'
<1>1. CASE Cutover
  BY <1>1 DEF LiveFrom, Cutover, Found, ledger, gate, meter
<1>2. CASE NextMonth
  BY <1>2 DEF LiveFrom, NextMonth, Found, ledger, gate, meter
<1>3. ASSUME NEW r \in Requests, Accept(r)
     PROVE  LiveFrom'
  BY <1>3 DEF TypeOK, RowsFit, LiveFrom, Accept, Found, ledger, meter
<1>4. ASSUME NEW r \in Requests, AcceptLegacy(r)
     PROVE  LiveFrom'
  BY <1>4 DEF LiveFrom, AcceptLegacy, Found, ledger, gate, meter
<1>5. ASSUME NEW r \in Requests, ReadCount(r)
     PROVE  LiveFrom'
  BY <1>5 DEF LiveFrom, ReadCount, Found, ledger, gate, meter
<1>6. ASSUME NEW r \in Requests, LinkLegacy(r)
     PROVE  LiveFrom'
  <2>1. LinkedRow(r)
    BY <1>6, LinkLegacyEffect
  <2>. SUFFICES ASSUME NEW w \in Months, NEW q \in live'[w]
                PROVE  /\ window'[q] = w /\ q \in counted'
                       /\ \E j \in Tries : stage'[q][j] = "linked" /\ ~before'[q][j]
                       /\ q \notin late' => \A j \in Tries : ~Found(q, j)'
    BY DEF LiveFrom
  <2>. q \in Requests
    BY <1>6, TypeStep DEF TypeOK
  <2>2. CASE q # r
    BY <2>1, <2>2 DEF LinkedRow, Put, Tallied, LiveFrom, Found
  <2>3. CASE q = r
    <3>1. \A j \in Tries : j # 1 => stage[r][j] = None
      BY <2>1 DEF LinkedRow, RowsFit
    <3>2. r \notin live[w]
      BY <2>1, <3>1 DEF LinkedRow, LiveFrom, None
    <3>3. w = window[r] /\ CountsLive(r, 1, before[r][1], kind[r][1])
      BY <2>1, <2>3, <3>2 DEF LinkedRow, Tallied
    <3>. QED
      BY <2>1, <2>3, <3>1, <3>3 DEF LinkedRow, Put, CountsLive, Found, None
  <2>. QED
    BY <2>2, <2>3
<1>7. ASSUME NEW r \in Requests, NEW p \in Replicas, AskBaseline(r, p)
     PROVE  LiveFrom'
  BY <1>7 DEF LiveFrom, AskBaseline, Found, ledger, gate, meter
<1>8. ASSUME NEW r \in Requests, NEW c \in Kinds, StoreLegacy(r, c)
     PROVE  LiveFrom'
  <2>1. StoredLegacy(r, c)
    BY <1>8, StoreLegacyEffect
  <2>2. \A j \in Tries : stage[r][j] # "linked"
    BY <2>1 DEF StoredLegacy, RowsFit, None
  <2>3. \A w \in Months : r \notin live[w]
    BY <2>2 DEF LiveFrom
  <2>. SUFFICES ASSUME NEW w \in Months, NEW q \in live'[w]
                PROVE  /\ window'[q] = w /\ q \in counted'
                       /\ \E j \in Tries : stage'[q][j] = "linked" /\ ~before'[q][j]
                       /\ q \notin late' => \A j \in Tries : ~Found(q, j)'
    BY DEF LiveFrom
  <2>4. q \in live[w] /\ q \in Requests /\ q # r
    BY <2>1, <2>3 DEF StoredLegacy, TypeOK
  <2>. QED
    BY <2>1, <2>4 DEF StoredLegacy, Put, Found, LiveFrom
<1>9. ASSUME NEW r \in Requests, NEW k \in Tries, StartAttempt(r, k)
     PROVE  LiveFrom'
  <2>1. Called(r, k)
    BY <1>9, StartAttemptEffect
  <2>. SUFFICES ASSUME NEW w \in Months, NEW q \in live'[w]
                PROVE  /\ window'[q] = w /\ q \in counted'
                       /\ \E j \in Tries : stage'[q][j] = "linked" /\ ~before'[q][j]
                       /\ q \notin late' => \A j \in Tries : ~Found(q, j)'
    BY DEF LiveFrom
  <2>2. q \in live[w] /\ q \in Requests
    BY <2>1 DEF Called, TypeOK
  <2>3. \A j \in Tries : Found(q, j)' => Found(q, j)
    BY <2>1, <2>2 DEF Called, Put, Found
  <2>4. \E j \in Tries : stage'[q][j] = "linked" /\ ~before'[q][j]
    BY <2>1, <2>2 DEF Called, Put, LiveFrom, None
  <2>. QED
    BY <2>1, <2>2, <2>3, <2>4 DEF Called, LiveFrom
<1>10. ASSUME NEW r \in Requests, NEW k \in Tries, NEW c \in Kinds, StoreAttempt(r, k, c)
     PROVE  LiveFrom'
  <2>1. StoredRow(r, k, c)
    BY <1>10, StoreAttemptEffect
  <2>. SUFFICES ASSUME NEW w \in Months, NEW q \in live'[w]
                PROVE  /\ window'[q] = w /\ q \in counted'
                       /\ \E j \in Tries : stage'[q][j] = "linked" /\ ~before'[q][j]
                       /\ q \notin late' => \A j \in Tries : ~Found(q, j)'
    BY DEF LiveFrom
  <2>. q \in Requests
    BY <1>10, TypeStep DEF TypeOK
  <2>2. CASE q # r
    BY <2>1, <2>2 DEF StoredRow, Put, Tallied, LiveFrom, Found
  <2>3. CASE q = r /\ r \in live[w]
    <3>1. cutover
      BY <2>3 DEF Quiescent
    <3>2. \E j \in Tries : stage'[q][j] = "linked" /\ ~before'[q][j]
      BY <2>1, <2>3 DEF StoredRow, Put, LiveFrom
    <3>3. r \notin late' => \A j \in Tries : ~Found(r, j)'
      BY <2>1, <2>3, <3>1 DEF StoredRow, Put, LiveFrom, Found
    <3>. QED
      BY <2>1, <2>3, <3>2, <3>3 DEF StoredRow, LiveFrom
  <2>4. CASE q = r /\ r \notin live[w]
    <3>1. w = window[r] /\ CountsLive(r, k, before[r][k], c)
      BY <2>1, <2>4 DEF StoredRow, Tallied
    <3>2. \A j \in Tries : ~Found(r, j)'
      BY <2>1, <3>1 DEF StoredRow, Put, CountsLive, Historical, Found, RowsFit
    <3>. QED
      BY <2>1, <2>4, <3>1, <3>2 DEF StoredRow, Put, CountsLive
  <2>. QED
    BY <2>2, <2>3, <2>4
<1>11. ASSUME NEW p \in Replicas, NEW w \in Months, CountBaseline(p, w)
     PROVE  LiveFrom'
  BY <1>11 DEF LiveFrom, CountBaseline, Found, ledger, gate, meter
<1>12. ASSUME NEW p \in Replicas, NEW w \in Months, MergeBaseline(p, w)
     PROVE  LiveFrom'
  BY <1>12 DEF LiveFrom, MergeBaseline, Found, ledger, gate, meter
<1>13. ASSUME NEW p \in Replicas, NEW w \in Months, InitFails(p, w)
     PROVE  LiveFrom'
  BY <1>13 DEF LiveFrom, InitFails, Found, ledger, gate, meter
<1>14. CASE UNCHANGED vars
  BY <1>14 DEF LiveFrom, Found, vars, ledger, meter
<1>. QED
  BY <1>1, <1>2, <1>3, <1>4, <1>5, <1>6, <1>7, <1>8,
     <1>9, <1>10, <1>11, <1>12, <1>13, <1>14 DEF Next

(* What a baseline finds it would find again.                              *)
LEMMA BaselineFromStep ==
  ASSUME TypeOK, RowsFit, BaselineFrom, [Next]_vars
  PROVE  BaselineFrom'
<1>1. CASE Cutover
  BY <1>1 DEF BaselineFrom, Cutover, Found, ledger, gate, meter
<1>2. CASE NextMonth
  BY <1>2 DEF BaselineFrom, NextMonth, Found, ledger, gate, meter
<1>3. ASSUME NEW r \in Requests, Accept(r)
     PROVE  BaselineFrom'
  <2>. SUFFICES ASSUME NEW v \in Months, NEW q \in Requests,
                       q \in baseline'[v] \/ \E o \in Replicas : q \in init'[o][v].found
                PROVE  /\ v = 0 /\ window'[q] = 0
                       /\ \E k \in Tries : Found(q, k)'
    BY DEF BaselineFrom
  <2>1. q # r
    BY <1>3 DEF Accept, BaselineFrom, Found, RowsFit, None, ledger, meter
  <2>. QED
    BY <1>3, <2>1 DEF Accept, BaselineFrom, Found, ledger, meter
<1>4. ASSUME NEW r \in Requests, AcceptLegacy(r)
     PROVE  BaselineFrom'
  BY <1>4 DEF BaselineFrom, AcceptLegacy, Found, ledger, gate, meter
<1>5. ASSUME NEW r \in Requests, ReadCount(r)
     PROVE  BaselineFrom'
  BY <1>5 DEF BaselineFrom, ReadCount, Found, ledger, gate, meter
<1>6. ASSUME NEW r \in Requests, LinkLegacy(r)
     PROVE  BaselineFrom'
  BY <1>6, FoundStays, LinkLegacyEffect DEF LinkedRow, BaselineFrom, Tallied
<1>7. ASSUME NEW r \in Requests, NEW p \in Replicas, AskBaseline(r, p)
     PROVE  BaselineFrom'
  <2>. SUFFICES ASSUME NEW v \in Months, NEW q \in Requests,
                       q \in baseline'[v] \/ \E o \in Replicas : q \in init'[o][v].found
                PROVE  /\ v = 0 /\ window'[q] = 0
                       /\ \E k \in Tries : Found(q, k)'
    BY DEF BaselineFrom
  <2>1. q \in baseline[v] \/ \E o \in Replicas : q \in init[o][v].found
    BY <1>7 DEF TypeOK, AskBaseline, meter
  <2>. QED
    BY <1>7, <2>1 DEF AskBaseline, BaselineFrom, Found, ledger
<1>8. ASSUME NEW r \in Requests, NEW c \in Kinds, StoreLegacy(r, c)
     PROVE  BaselineFrom'
  BY <1>8, FoundStays, StoreLegacyEffect DEF StoredLegacy, BaselineFrom, Tallied
<1>9. ASSUME NEW r \in Requests, NEW k \in Tries, StartAttempt(r, k)
     PROVE  BaselineFrom'
  BY <1>9, FoundStays, StartAttemptEffect DEF Called, BaselineFrom, Tallied
<1>10. ASSUME NEW r \in Requests, NEW k \in Tries, NEW c \in Kinds, StoreAttempt(r, k, c)
     PROVE  BaselineFrom'
  <2>. SUFFICES ASSUME NEW v \in Months, NEW q \in Requests,
                       q \in baseline'[v] \/ \E o \in Replicas : q \in init'[o][v].found
                PROVE  /\ v = 0 /\ window'[q] = 0
                       /\ \E j \in Tries : Found(q, j)'
    BY DEF BaselineFrom
  <2>1. StoredRow(r, k, c)
    BY <1>10, StoreAttemptEffect
  <2>2. \A j \in Tries : Found(q, j) => Found(q, j)'
    BY <1>10, FoundStays
  <2>. QED
    BY <2>1, <2>2 DEF StoredRow, Tallied, BaselineFrom
<1>11. ASSUME NEW p \in Replicas, NEW w \in Months, CountBaseline(p, w)
     PROVE  BaselineFrom'
  <2>. SUFFICES ASSUME NEW v \in Months, NEW q \in Requests,
                       q \in baseline'[v] \/ \E o \in Replicas : q \in init'[o][v].found
                PROVE  /\ v = 0 /\ window'[q] = 0
                       /\ \E k \in Tries : Found(q, k)'
    BY DEF BaselineFrom
  <2>1. CASE q \in Baseline(w) /\ v = w
    BY <1>11, <2>1 DEF CountBaseline, Baseline, Found, ledger
  <2>2. CASE ~(q \in Baseline(w) /\ v = w)
    BY <1>11, <2>2 DEF TypeOK, CountBaseline, BaselineFrom, Found, ledger, meter
  <2>. QED
    BY <2>1, <2>2
<1>12. ASSUME NEW p \in Replicas, NEW w \in Months, MergeBaseline(p, w)
     PROVE  BaselineFrom'
  <2>. SUFFICES ASSUME NEW v \in Months, NEW q \in Requests,
                       q \in baseline'[v] \/ \E o \in Replicas : q \in init'[o][v].found
                PROVE  /\ v = 0 /\ window'[q] = 0
                       /\ \E k \in Tries : Found(q, k)'
    BY DEF BaselineFrom
  <2>1. q \in baseline[v] \/ \E o \in Replicas : q \in init[o][v].found
    BY <1>12 DEF TypeOK, MergeBaseline, NoInit
  <2>. QED
    BY <1>12, <2>1 DEF MergeBaseline, BaselineFrom, Found, ledger
<1>13. ASSUME NEW p \in Replicas, NEW w \in Months, InitFails(p, w)
     PROVE  BaselineFrom'
  <2>. SUFFICES ASSUME NEW v \in Months, NEW q \in Requests,
                       q \in baseline'[v] \/ \E o \in Replicas : q \in init'[o][v].found
                PROVE  /\ v = 0 /\ window'[q] = 0
                       /\ \E k \in Tries : Found(q, k)'
    BY DEF BaselineFrom
  <2>1. q \in baseline[v] \/ \E o \in Replicas : q \in init[o][v].found
    BY <1>13 DEF TypeOK, InitFails, NoInit, meter
  <2>. QED
    BY <1>13, <2>1 DEF InitFails, BaselineFrom, Found, ledger
<1>14. CASE UNCHANGED vars
  BY <1>14 DEF BaselineFrom, Found, vars, ledger, meter
<1>. QED
  BY <1>1, <1>2, <1>3, <1>4, <1>5, <1>6, <1>7, <1>8,
     <1>9, <1>10, <1>11, <1>12, <1>13, <1>14 DEF Next

(* The trigger sees every row of a provider call after the cutover.        *)
LEMMA SeenStep ==
  ASSUME TypeOK, Quiescent, Seen, [Next]_vars
  PROVE  Seen'
<1>1. CASE Cutover
  BY <1>1 DEF Seen, Cutover, ledger, gate, meter
<1>2. CASE NextMonth
  BY <1>2 DEF Seen, NextMonth, ledger, gate, meter
<1>3. ASSUME NEW r \in Requests, Accept(r)
     PROVE  Seen'
  BY <1>3 DEF Seen, Accept, ledger, gate, meter
<1>4. ASSUME NEW r \in Requests, AcceptLegacy(r)
     PROVE  Seen'
  BY <1>4 DEF Seen, AcceptLegacy, ledger, gate, meter
<1>5. ASSUME NEW r \in Requests, ReadCount(r)
     PROVE  Seen'
  BY <1>5 DEF Seen, ReadCount, ledger, gate, meter
<1>6. ASSUME NEW r \in Requests, LinkLegacy(r)
     PROVE  Seen'
  <2>1. LinkedRow(r)
    BY <1>6, LinkLegacyEffect
  <2>2. ~before[r][1] => cutover
    BY <2>1 DEF LinkedRow, Quiescent, None
  <2>. QED
    BY <2>1, <2>2 DEF LinkedRow, Put, Seen
<1>7. ASSUME NEW r \in Requests, NEW p \in Replicas, AskBaseline(r, p)
     PROVE  Seen'
  BY <1>7 DEF Seen, AskBaseline, ledger, gate, meter
<1>8. ASSUME NEW r \in Requests, NEW c \in Kinds, StoreLegacy(r, c)
     PROVE  Seen'
  BY <1>8, StoreLegacyEffect DEF StoredLegacy, Put, Seen, None
<1>9. ASSUME NEW r \in Requests, NEW k \in Tries, StartAttempt(r, k)
     PROVE  Seen'
  <2>1. Called(r, k)
    BY <1>9, StartAttemptEffect
  <2>. SUFFICES ASSUME NEW q \in Requests, NEW j \in Tries, stage'[q][j] = "linked",
                       ~before'[q][j], kind'[q][j] = "live"
                PROVE  q \in counted'
    BY DEF Seen
  <2>2. q # r \/ j # k
    BY <2>1 DEF Called, Put
  <2>. QED
    BY <2>1, <2>2 DEF Called, Put, Seen
<1>10. ASSUME NEW r \in Requests, NEW k \in Tries, NEW c \in Kinds, StoreAttempt(r, k, c)
     PROVE  Seen'
  <2>1. StoredRow(r, k, c)
    BY <1>10, StoreAttemptEffect
  <2>2. ~before[r][k] => cutover
    BY <2>1 DEF StoredRow, Quiescent, None
  <2>. QED
    BY <2>1, <2>2 DEF StoredRow, Put, Seen
<1>11. ASSUME NEW p \in Replicas, NEW w \in Months, CountBaseline(p, w)
     PROVE  Seen'
  BY <1>11 DEF Seen, CountBaseline, ledger, gate, meter
<1>12. ASSUME NEW p \in Replicas, NEW w \in Months, MergeBaseline(p, w)
     PROVE  Seen'
  BY <1>12 DEF Seen, MergeBaseline, ledger, gate, meter
<1>13. ASSUME NEW p \in Replicas, NEW w \in Months, InitFails(p, w)
     PROVE  Seen'
  BY <1>13 DEF Seen, InitFails, ledger, gate, meter
<1>14. CASE UNCHANGED vars
  BY <1>14 DEF Seen, vars, ledger, meter
<1>. QED
  BY <1>1, <1>2, <1>3, <1>4, <1>5, <1>6, <1>7, <1>8,
     <1>9, <1>10, <1>11, <1>12, <1>13, <1>14 DEF Next

(* Where a request went that the trigger has seen.                         *)
LEMMA PlacedStep ==
  ASSUME TypeOK, RowsFit, Placed, [Next]_vars
  PROVE  Placed'
<1>1. CASE Cutover
  <2>. \A q \in Requests, j \in Tries : Owed(q, j) => Owed(q, j)'
    BY <1>1, OwedStays
  <2>. SUFFICES ASSUME NEW q \in counted', q \in Requests
                PROVE  q \in live'[window'[q]] \/ \E j \in Tries : Owed(q, j)'
    BY <1>1, TypeStep DEF TypeOK, Placed
  <2>. QED
    BY <1>1 DEF Placed, Cutover, gate, meter, ledger
<1>2. CASE NextMonth
  <2>. \A q \in Requests, j \in Tries : Owed(q, j) => Owed(q, j)'
    BY <1>2, OwedStays
  <2>. SUFFICES ASSUME NEW q \in counted', q \in Requests
                PROVE  q \in live'[window'[q]] \/ \E j \in Tries : Owed(q, j)'
    BY <1>2, TypeStep DEF TypeOK, Placed
  <2>. QED
    BY <1>2 DEF Placed, NextMonth, gate, meter, ledger
<1>3. ASSUME NEW r \in Requests, Accept(r)
     PROVE  Placed'
  <2>. \A q \in Requests, j \in Tries : Owed(q, j) => Owed(q, j)'
    BY <1>3, OwedStays
  <2>1. r \notin counted
    BY <1>3, OneIsATry DEF Accept, RowsFit
  <2>. QED
    BY <1>3, <2>1 DEF Accept, Placed, TypeOK, meter
<1>4. ASSUME NEW r \in Requests, AcceptLegacy(r)
     PROVE  Placed'
  <2>. \A q \in Requests, j \in Tries : Owed(q, j) => Owed(q, j)'
    BY <1>4, OwedStays
  <2>. SUFFICES ASSUME NEW q \in counted', q \in Requests
                PROVE  q \in live'[window'[q]] \/ \E j \in Tries : Owed(q, j)'
    BY <1>4, TypeStep DEF TypeOK, Placed
  <2>. QED
    BY <1>4 DEF Placed, AcceptLegacy, gate, meter, ledger
<1>5. ASSUME NEW r \in Requests, ReadCount(r)
     PROVE  Placed'
  <2>. \A q \in Requests, j \in Tries : Owed(q, j) => Owed(q, j)'
    BY <1>5, OwedStays
  <2>. SUFFICES ASSUME NEW q \in counted', q \in Requests
                PROVE  q \in live'[window'[q]] \/ \E j \in Tries : Owed(q, j)'
    BY <1>5, TypeStep DEF TypeOK, Placed
  <2>. QED
    BY <1>5 DEF Placed, ReadCount, gate, meter, ledger
<1>6. ASSUME NEW r \in Requests, LinkLegacy(r)
     PROVE  Placed'
  <2>. \A q \in Requests, j \in Tries : Owed(q, j) => Owed(q, j)'
    BY <1>6, OwedStays
  <2>1. LinkedRow(r)
    BY <1>6, LinkLegacyEffect
  <2>. SUFFICES ASSUME NEW q \in counted'
                PROVE  q \in live'[window[q]] \/ \E j \in Tries : Owed(q, j)'
    BY <2>1 DEF Placed, LinkedRow
  <2>2. CASE q \in counted
    BY <2>1, <2>2 DEF LinkedRow, Tallied, Placed, TypeOK
  <2>3. CASE q \notin counted
    <3>1. q = r /\ cutover /\ ~before[r][1] /\ kind[r][1] = "live"
      BY <2>1, <2>3 DEF LinkedRow
    <3>2. ~Historical(r, 1)
      BY <2>1 DEF LinkedRow, Historical, RowsFit, None
    <3>. QED
      BY <2>1, <2>3, <3>1, <3>2 DEF LinkedRow, CountsLive, Tallied, TypeOK
  <2>. QED
    BY <2>2, <2>3
<1>7. ASSUME NEW r \in Requests, NEW p \in Replicas, AskBaseline(r, p)
     PROVE  Placed'
  <2>. \A q \in Requests, j \in Tries : Owed(q, j) => Owed(q, j)'
    BY <1>7, OwedStays
  <2>. SUFFICES ASSUME NEW q \in counted', q \in Requests
                PROVE  q \in live'[window'[q]] \/ \E j \in Tries : Owed(q, j)'
    BY <1>7, TypeStep DEF TypeOK, Placed
  <2>. QED
    BY <1>7 DEF Placed, AskBaseline, gate, meter, ledger
<1>8. ASSUME NEW r \in Requests, NEW c \in Kinds, StoreLegacy(r, c)
     PROVE  Placed'
  <2>. \A q \in Requests, j \in Tries : Owed(q, j) => Owed(q, j)'
    BY <1>8, OwedStays
  <2>1. StoredLegacy(r, c)
    BY <1>8, StoreLegacyEffect
  <2>. SUFFICES ASSUME NEW q \in counted', q \in Requests
                PROVE  q \in live'[window'[q]] \/ \E j \in Tries : Owed(q, j)'
    BY <1>8, TypeStep DEF TypeOK, Placed
  <2>. QED
    BY <2>1 DEF StoredLegacy, Placed
<1>9. ASSUME NEW r \in Requests, NEW k \in Tries, StartAttempt(r, k)
     PROVE  Placed'
  <2>. \A q \in Requests, j \in Tries : Owed(q, j) => Owed(q, j)'
    BY <1>9, OwedStays
  <2>1. Called(r, k)
    BY <1>9, StartAttemptEffect
  <2>. SUFFICES ASSUME NEW q \in counted', q \in Requests
                PROVE  q \in live'[window'[q]] \/ \E j \in Tries : Owed(q, j)'
    BY <1>9, TypeStep DEF TypeOK, Placed
  <2>. QED
    BY <2>1 DEF Called, Placed
<1>10. ASSUME NEW r \in Requests, NEW k \in Tries, NEW c \in Kinds, StoreAttempt(r, k, c)
     PROVE  Placed'
  <2>. \A q \in Requests, j \in Tries : Owed(q, j) => Owed(q, j)'
    BY <1>10, OwedStays
  <2>1. StoredRow(r, k, c)
    BY <1>10, StoreAttemptEffect
  <2>. SUFFICES ASSUME NEW q \in counted'
                PROVE  q \in live'[window[q]] \/ \E j \in Tries : Owed(q, j)'
    BY <2>1 DEF Placed, StoredRow
  <2>2. CASE q \in counted
    BY <2>1, <2>2 DEF StoredRow, Tallied, Placed, TypeOK
  <2>3. CASE q \notin counted
    <3>1. q = r /\ cutover /\ ~before[r][k] /\ c = "live"
      BY <2>1, <2>3 DEF StoredRow
    <3>2. CASE CountsLive(r, k, before[r][k], c)
      BY <2>1, <3>1, <3>2 DEF StoredRow, Tallied, TypeOK
    <3>3. CASE ~CountsLive(r, k, before[r][k], c)
      <4>1. PICK j \in Tries \ {k} : stage[r][j] = "linked" /\ before[r][j] /\ kind[r][j] # "tuple"
        BY <2>3, <3>1, <3>3 DEF CountsLive, Historical
      <4>2. kind[r][j] \in Kinds
        BY DEF TypeOK
      <4>3. Owed(r, j)
        BY <2>1, <4>1, <4>2 DEF Owed, StoredRow, Kinds
      <4>. QED
        BY <3>1, <4>3
    <3>. QED
      BY <3>2, <3>3
  <2>. QED
    BY <2>2, <2>3
<1>11. ASSUME NEW p \in Replicas, NEW w \in Months, CountBaseline(p, w)
     PROVE  Placed'
  <2>. \A q \in Requests, j \in Tries : Owed(q, j) => Owed(q, j)'
    BY <1>11, OwedStays
  <2>. SUFFICES ASSUME NEW q \in counted', q \in Requests
                PROVE  q \in live'[window'[q]] \/ \E j \in Tries : Owed(q, j)'
    BY <1>11, TypeStep DEF TypeOK, Placed
  <2>. QED
    BY <1>11 DEF Placed, CountBaseline, gate, meter, ledger
<1>12. ASSUME NEW p \in Replicas, NEW w \in Months, MergeBaseline(p, w)
     PROVE  Placed'
  <2>. \A q \in Requests, j \in Tries : Owed(q, j) => Owed(q, j)'
    BY <1>12, OwedStays
  <2>. SUFFICES ASSUME NEW q \in counted', q \in Requests
                PROVE  q \in live'[window'[q]] \/ \E j \in Tries : Owed(q, j)'
    BY <1>12, TypeStep DEF TypeOK, Placed
  <2>. QED
    BY <1>12 DEF Placed, MergeBaseline, gate, meter, ledger
<1>13. ASSUME NEW p \in Replicas, NEW w \in Months, InitFails(p, w)
     PROVE  Placed'
  <2>. \A q \in Requests, j \in Tries : Owed(q, j) => Owed(q, j)'
    BY <1>13, OwedStays
  <2>. SUFFICES ASSUME NEW q \in counted', q \in Requests
                PROVE  q \in live'[window'[q]] \/ \E j \in Tries : Owed(q, j)'
    BY <1>13, TypeStep DEF TypeOK, Placed
  <2>. QED
    BY <1>13 DEF Placed, InitFails, gate, meter, ledger
<1>14. CASE UNCHANGED vars
  <2>. \A q \in Requests, j \in Tries : Owed(q, j) => Owed(q, j)'
    BY <1>14, OwedStays
  <2>. SUFFICES ASSUME NEW q \in counted', q \in Requests
                PROVE  q \in live'[window'[q]] \/ \E j \in Tries : Owed(q, j)'
    BY <1>14, TypeStep DEF TypeOK, Placed
  <2>. QED
    BY <1>14 DEF Placed, vars, meter
<1>. QED
  BY <1>1, <1>2, <1>3, <1>4, <1>5, <1>6, <1>7, <1>8,
     <1>9, <1>10, <1>11, <1>12, <1>13, <1>14 DEF Next

(* A row that is owed to the baseline after the cutover is late.           *)
LEMMA OwedNew ==
  ASSUME TypeOK, RowsFit, [Next]_vars
  PROVE  \A q \in Requests, j \in Tries :
           Owed(q, j)' => Owed(q, j) \/ q \in late' \/ ~cutover'
<1>1. CASE Cutover
  BY <1>1 DEF Owed, Cutover, ledger, gate
<1>2. CASE NextMonth
  BY <1>2 DEF Owed, NextMonth, ledger, gate
<1>3. ASSUME NEW r \in Requests, Accept(r)
     PROVE  \A q \in Requests, j \in Tries :
           Owed(q, j)' => Owed(q, j) \/ q \in late' \/ ~cutover'
  BY <1>3 DEF None, TypeOK, RowsFit, Owed, Accept, ledger
<1>4. ASSUME NEW r \in Requests, AcceptLegacy(r)
     PROVE  \A q \in Requests, j \in Tries :
           Owed(q, j)' => Owed(q, j) \/ q \in late' \/ ~cutover'
  BY <1>4 DEF None, TypeOK, RowsFit, Owed, AcceptLegacy, ledger
<1>5. ASSUME NEW r \in Requests, ReadCount(r)
     PROVE  \A q \in Requests, j \in Tries :
           Owed(q, j)' => Owed(q, j) \/ q \in late' \/ ~cutover'
  BY <1>5 DEF TypeOK, Owed, ReadCount, ledger, Verdict
<1>6. ASSUME NEW r \in Requests, LinkLegacy(r)
     PROVE  \A q \in Requests, j \in Tries :
           Owed(q, j)' => Owed(q, j) \/ q \in late' \/ ~cutover'
  BY <1>6, LinkLegacyEffect DEF LinkedRow, Put, Owed, None, RowsFit
<1>7. ASSUME NEW r \in Requests, NEW p \in Replicas, AskBaseline(r, p)
     PROVE  \A q \in Requests, j \in Tries :
           Owed(q, j)' => Owed(q, j) \/ q \in late' \/ ~cutover'
  BY <1>7 DEF TypeOK, Owed, AskBaseline, ledger
<1>8. ASSUME NEW r \in Requests, NEW c \in Kinds, StoreLegacy(r, c)
     PROVE  \A q \in Requests, j \in Tries :
           Owed(q, j)' => Owed(q, j) \/ q \in late' \/ ~cutover'
  BY <1>8, StoreLegacyEffect DEF StoredLegacy, Put, Owed, None
<1>9. ASSUME NEW r \in Requests, NEW k \in Tries, StartAttempt(r, k)
     PROVE  \A q \in Requests, j \in Tries :
           Owed(q, j)' => Owed(q, j) \/ q \in late' \/ ~cutover'
  BY <1>9, StartAttemptEffect DEF Called, Put, Owed, None
<1>10. ASSUME NEW r \in Requests, NEW k \in Tries, NEW c \in Kinds, StoreAttempt(r, k, c)
     PROVE  \A q \in Requests, j \in Tries :
           Owed(q, j)' => Owed(q, j) \/ q \in late' \/ ~cutover'
  BY <1>10, StoreAttemptEffect DEF StoredRow, Put, Owed, None
<1>11. ASSUME NEW p \in Replicas, NEW w \in Months, CountBaseline(p, w)
     PROVE  \A q \in Requests, j \in Tries :
           Owed(q, j)' => Owed(q, j) \/ q \in late' \/ ~cutover'
  BY <1>11 DEF Owed, CountBaseline, ledger, gate
<1>12. ASSUME NEW p \in Replicas, NEW w \in Months, MergeBaseline(p, w)
     PROVE  \A q \in Requests, j \in Tries :
           Owed(q, j)' => Owed(q, j) \/ q \in late' \/ ~cutover'
  BY <1>12 DEF TypeOK, Owed, MergeBaseline, Answered, ledger, Verdict
<1>13. ASSUME NEW p \in Replicas, NEW w \in Months, InitFails(p, w)
     PROVE  \A q \in Requests, j \in Tries :
           Owed(q, j)' => Owed(q, j) \/ q \in late' \/ ~cutover'
  BY <1>13 DEF TypeOK, Owed, InitFails, Answered, ledger, Verdict
<1>14. CASE UNCHANGED vars
  BY <1>14 DEF Owed, vars, ledger, gate
<1>. QED
  BY <1>1, <1>2, <1>3, <1>4, <1>5, <1>6, <1>7, <1>8,
     <1>9, <1>10, <1>11, <1>12, <1>13, <1>14 DEF Next

(* A baseline has what is owed to it.                                      *)
LEMMA PaidStep ==
  ASSUME TypeOK, Quiescent, RowsFit, Paid, [Next]_vars
  PROVE  Paid'
<1>1. CASE Cutover
  <2>. SUFFICES ASSUME NEW q \in Requests, q \notin late', NEW j \in Tries, Owed(q, j)'
                PROVE  /\ usage'[0].base => q \in baseline'[0]
                       /\ \A o \in Replicas :
                            init'[o][0].at = "counted" => q \in init'[o][0].found
    BY <1>1 DEF Paid
  <2>. Owed(q, j) \/ ~cutover'
    BY <1>1, OwedNew
  <2>a. CASE ~cutover'
    BY <1>1, <2>a, QuiescentStep DEF Quiescent, Months, None
  <2>b. CASE Owed(q, j)
    <3>1. q \notin late => /\ usage[0].base => q \in baseline[0]
                          /\ \A o \in Replicas :
                               init[o][0].at = "counted" => q \in init[o][0].found
      BY <2>b DEF Paid
    <3>. QED
      BY <1>1, <3>1 DEF Cutover, meter
  <2>. QED
    BY <2>a, <2>b
<1>2. CASE NextMonth
  <2>. SUFFICES ASSUME NEW q \in Requests, q \notin late', NEW j \in Tries, Owed(q, j)'
                PROVE  /\ usage'[0].base => q \in baseline'[0]
                       /\ \A o \in Replicas :
                            init'[o][0].at = "counted" => q \in init'[o][0].found
    BY <1>2 DEF Paid
  <2>. Owed(q, j) \/ ~cutover'
    BY <1>2, OwedNew
  <2>a. CASE ~cutover'
    BY <1>2, <2>a, QuiescentStep DEF Quiescent, Months, None
  <2>b. CASE Owed(q, j)
    <3>1. q \notin late => /\ usage[0].base => q \in baseline[0]
                          /\ \A o \in Replicas :
                               init[o][0].at = "counted" => q \in init[o][0].found
      BY <2>b DEF Paid
    <3>. QED
      BY <1>2, <3>1 DEF NextMonth, meter
  <2>. QED
    BY <2>a, <2>b
<1>3. ASSUME NEW r \in Requests, Accept(r)
     PROVE  Paid'
  <2>. SUFFICES ASSUME NEW q \in Requests, q \notin late', NEW j \in Tries, Owed(q, j)'
                PROVE  /\ usage'[0].base => q \in baseline'[0]
                       /\ \A o \in Replicas :
                            init'[o][0].at = "counted" => q \in init'[o][0].found
    BY <1>3 DEF Paid
  <2>. Owed(q, j) \/ ~cutover'
    BY <1>3, OwedNew
  <2>a. CASE ~cutover'
    BY <1>3, <2>a, QuiescentStep DEF Quiescent, Months, None
  <2>b. CASE Owed(q, j)
    <3>1. q \notin late => /\ usage[0].base => q \in baseline[0]
                          /\ \A o \in Replicas :
                               init[o][0].at = "counted" => q \in init[o][0].found
      BY <2>b DEF Paid
    <3>. QED
      BY <1>3, <3>1 DEF Accept, meter
  <2>. QED
    BY <2>a, <2>b
<1>4. ASSUME NEW r \in Requests, AcceptLegacy(r)
     PROVE  Paid'
  <2>. SUFFICES ASSUME NEW q \in Requests, q \notin late', NEW j \in Tries, Owed(q, j)'
                PROVE  /\ usage'[0].base => q \in baseline'[0]
                       /\ \A o \in Replicas :
                            init'[o][0].at = "counted" => q \in init'[o][0].found
    BY <1>4 DEF Paid
  <2>. Owed(q, j) \/ ~cutover'
    BY <1>4, OwedNew
  <2>a. CASE ~cutover'
    BY <1>4, <2>a, QuiescentStep DEF Quiescent, Months, None
  <2>b. CASE Owed(q, j)
    <3>1. q \notin late => /\ usage[0].base => q \in baseline[0]
                          /\ \A o \in Replicas :
                               init[o][0].at = "counted" => q \in init[o][0].found
      BY <2>b DEF Paid
    <3>. QED
      BY <1>4, <3>1 DEF AcceptLegacy, meter
  <2>. QED
    BY <2>a, <2>b
<1>5. ASSUME NEW r \in Requests, ReadCount(r)
     PROVE  Paid'
  <2>. SUFFICES ASSUME NEW q \in Requests, q \notin late', NEW j \in Tries, Owed(q, j)'
                PROVE  /\ usage'[0].base => q \in baseline'[0]
                       /\ \A o \in Replicas :
                            init'[o][0].at = "counted" => q \in init'[o][0].found
    BY <1>5 DEF Paid
  <2>. Owed(q, j) \/ ~cutover'
    BY <1>5, OwedNew
  <2>a. CASE ~cutover'
    BY <1>5, <2>a, QuiescentStep DEF Quiescent, Months, None
  <2>b. CASE Owed(q, j)
    <3>1. q \notin late => /\ usage[0].base => q \in baseline[0]
                          /\ \A o \in Replicas :
                               init[o][0].at = "counted" => q \in init[o][0].found
      BY <2>b DEF Paid
    <3>. QED
      BY <1>5, <3>1 DEF ReadCount, meter
  <2>. QED
    BY <2>a, <2>b
<1>6. ASSUME NEW r \in Requests, LinkLegacy(r)
     PROVE  Paid'
  <2>. SUFFICES ASSUME NEW q \in Requests, q \notin late', NEW j \in Tries, Owed(q, j)'
                PROVE  /\ usage'[0].base => q \in baseline'[0]
                       /\ \A o \in Replicas :
                            init'[o][0].at = "counted" => q \in init'[o][0].found
    BY <1>6 DEF Paid
  <2>. Owed(q, j) \/ ~cutover'
    BY <1>6, OwedNew
  <2>a. CASE ~cutover'
    BY <1>6, <2>a, QuiescentStep DEF Quiescent, Months, None
  <2>b. CASE Owed(q, j)
    <3>1. q \notin late => /\ usage[0].base => q \in baseline[0]
                          /\ \A o \in Replicas :
                               init[o][0].at = "counted" => q \in init[o][0].found
      BY <2>b DEF Paid
    <3>2. LinkedRow(r)
      BY <1>6, LinkLegacyEffect
    <3>3. usage'[0].base => usage[0].base
      BY <3>2 DEF LinkedRow, Tallied, Months
    <3>. QED
      BY <3>1, <3>2, <3>3 DEF LinkedRow, Tallied
  <2>. QED
    BY <2>a, <2>b
<1>7. ASSUME NEW r \in Requests, NEW p \in Replicas, AskBaseline(r, p)
     PROVE  Paid'
  <2>. SUFFICES ASSUME NEW q \in Requests, q \notin late', NEW j \in Tries, Owed(q, j)'
                PROVE  /\ usage'[0].base => q \in baseline'[0]
                       /\ \A o \in Replicas :
                            init'[o][0].at = "counted" => q \in init'[o][0].found
    BY <1>7 DEF Paid
  <2>. Owed(q, j) \/ ~cutover'
    BY <1>7, OwedNew
  <2>a. CASE ~cutover'
    BY <1>7, <2>a, QuiescentStep DEF Quiescent, Months, None
  <2>b. CASE Owed(q, j)
    <3>1. q \notin late => /\ usage[0].base => q \in baseline[0]
                          /\ \A o \in Replicas :
                               init[o][0].at = "counted" => q \in init[o][0].found
      BY <2>b DEF Paid
    <3>2. InitMoves(p, month)
      BY <1>7, AskBaselineEffect
    <3>. QED
      BY <1>7, <3>1, <3>2 DEF TypeOK, AskBaseline, InitMoves, Months, meter
  <2>. QED
    BY <2>a, <2>b
<1>8. ASSUME NEW r \in Requests, NEW c \in Kinds, StoreLegacy(r, c)
     PROVE  Paid'
  <2>. SUFFICES ASSUME NEW q \in Requests, q \notin late', NEW j \in Tries, Owed(q, j)'
                PROVE  /\ usage'[0].base => q \in baseline'[0]
                       /\ \A o \in Replicas :
                            init'[o][0].at = "counted" => q \in init'[o][0].found
    BY <1>8 DEF Paid
  <2>. Owed(q, j) \/ ~cutover'
    BY <1>8, OwedNew
  <2>a. CASE ~cutover'
    BY <1>8, <2>a, QuiescentStep DEF Quiescent, Months, None
  <2>b. CASE Owed(q, j)
    <3>1. q \notin late => /\ usage[0].base => q \in baseline[0]
                          /\ \A o \in Replicas :
                               init[o][0].at = "counted" => q \in init[o][0].found
      BY <2>b DEF Paid
    <3>2. StoredLegacy(r, c)
      BY <1>8, StoreLegacyEffect
    <3>3. usage'[0].base => usage[0].base
      BY <3>2 DEF StoredLegacy, Tallied, Months
    <3>. QED
      BY <3>1, <3>2, <3>3 DEF StoredLegacy, Tallied
  <2>. QED
    BY <2>a, <2>b
<1>9. ASSUME NEW r \in Requests, NEW k \in Tries, StartAttempt(r, k)
     PROVE  Paid'
  <2>. SUFFICES ASSUME NEW q \in Requests, q \notin late', NEW j \in Tries, Owed(q, j)'
                PROVE  /\ usage'[0].base => q \in baseline'[0]
                       /\ \A o \in Replicas :
                            init'[o][0].at = "counted" => q \in init'[o][0].found
    BY <1>9 DEF Paid
  <2>. Owed(q, j) \/ ~cutover'
    BY <1>9, OwedNew
  <2>a. CASE ~cutover'
    BY <1>9, <2>a, QuiescentStep DEF Quiescent, Months, None
  <2>b. CASE Owed(q, j)
    <3>1. q \notin late => /\ usage[0].base => q \in baseline[0]
                          /\ \A o \in Replicas :
                               init[o][0].at = "counted" => q \in init[o][0].found
      BY <2>b DEF Paid
    <3>2. Called(r, k)
      BY <1>9, StartAttemptEffect
    <3>3. usage'[0].base => usage[0].base
      BY <3>2 DEF Called, Tallied, Months
    <3>. QED
      BY <3>1, <3>2, <3>3 DEF Called, Tallied
  <2>. QED
    BY <2>a, <2>b
<1>10. ASSUME NEW r \in Requests, NEW k \in Tries, NEW c \in Kinds, StoreAttempt(r, k, c)
     PROVE  Paid'
  <2>. SUFFICES ASSUME NEW q \in Requests, q \notin late', NEW j \in Tries, Owed(q, j)'
                PROVE  /\ usage'[0].base => q \in baseline'[0]
                       /\ \A o \in Replicas :
                            init'[o][0].at = "counted" => q \in init'[o][0].found
    BY <1>10 DEF Paid
  <2>. Owed(q, j) \/ ~cutover'
    BY <1>10, OwedNew
  <2>a. CASE ~cutover'
    BY <1>10, <2>a, QuiescentStep DEF Quiescent, Months, None
  <2>b. CASE Owed(q, j)
    <3>1. q \notin late => /\ usage[0].base => q \in baseline[0]
                          /\ \A o \in Replicas :
                               init[o][0].at = "counted" => q \in init[o][0].found
      BY <2>b DEF Paid
    <3>2. StoredRow(r, k, c)
      BY <1>10, StoreAttemptEffect
    <3>3. usage'[0].base => usage[0].base
      BY <3>2 DEF StoredRow, Tallied, Months
    <3>. QED
      BY <3>1, <3>2, <3>3 DEF StoredRow, Tallied
  <2>. QED
    BY <2>a, <2>b
<1>11. ASSUME NEW p \in Replicas, NEW w \in Months, CountBaseline(p, w)
     PROVE  Paid'
  <2>. SUFFICES ASSUME NEW q \in Requests, q \notin late', NEW j \in Tries, Owed(q, j)'
                PROVE  /\ usage'[0].base => q \in baseline'[0]
                       /\ \A o \in Replicas :
                            init'[o][0].at = "counted" => q \in init'[o][0].found
    BY <1>11 DEF Paid
  <2>. Owed(q, j) \/ ~cutover'
    BY <1>11, OwedNew
  <2>a. CASE ~cutover'
    BY <1>11, <2>a, QuiescentStep DEF Quiescent, Months, None
  <2>b. CASE Owed(q, j)
    <3>1. q \notin late => /\ usage[0].base => q \in baseline[0]
                          /\ \A o \in Replicas :
                               init[o][0].at = "counted" => q \in init[o][0].found
      BY <2>b DEF Paid
    <3>2. InitMoves(p, w)
      BY <1>11, CountBaselineEffect
    <3>3. q \in Baseline(0)
      BY <2>b DEF Owed, Baseline, RowsFit, None
    <3>. QED
      BY <1>11, <3>1, <3>2, <3>3 DEF TypeOK, CountBaseline, InitMoves, Months, meter
  <2>. QED
    BY <2>a, <2>b
<1>12. ASSUME NEW p \in Replicas, NEW w \in Months, MergeBaseline(p, w)
     PROVE  Paid'
  <2>. SUFFICES ASSUME NEW q \in Requests, q \notin late', NEW j \in Tries, Owed(q, j)'
                PROVE  /\ usage'[0].base => q \in baseline'[0]
                       /\ \A o \in Replicas :
                            init'[o][0].at = "counted" => q \in init'[o][0].found
    BY <1>12 DEF Paid
  <2>. Owed(q, j) \/ ~cutover'
    BY <1>12, OwedNew
  <2>a. CASE ~cutover'
    BY <1>12, <2>a, QuiescentStep DEF Quiescent, Months, None
  <2>b. CASE Owed(q, j)
    <3>1. q \notin late => /\ usage[0].base => q \in baseline[0]
                          /\ \A o \in Replicas :
                               init[o][0].at = "counted" => q \in init[o][0].found
      BY <2>b DEF Paid
    <3>2. InitMoves(p, w)
      BY <1>12, MergeBaselineEffect
    <3>. QED
      BY <1>12, <3>1, <3>2 DEF TypeOK, MergeBaseline, Merged, InitMoves, Months, NoInit, None
  <2>. QED
    BY <2>a, <2>b
<1>13. ASSUME NEW p \in Replicas, NEW w \in Months, InitFails(p, w)
     PROVE  Paid'
  <2>. SUFFICES ASSUME NEW q \in Requests, q \notin late', NEW j \in Tries, Owed(q, j)'
                PROVE  /\ usage'[0].base => q \in baseline'[0]
                       /\ \A o \in Replicas :
                            init'[o][0].at = "counted" => q \in init'[o][0].found
    BY <1>13 DEF Paid
  <2>. Owed(q, j) \/ ~cutover'
    BY <1>13, OwedNew
  <2>a. CASE ~cutover'
    BY <1>13, <2>a, QuiescentStep DEF Quiescent, Months, None
  <2>b. CASE Owed(q, j)
    <3>1. q \notin late => /\ usage[0].base => q \in baseline[0]
                          /\ \A o \in Replicas :
                               init[o][0].at = "counted" => q \in init[o][0].found
      BY <2>b DEF Paid
    <3>2. InitMoves(p, w)
      BY <1>13, InitFailsEffect
    <3>. QED
      BY <1>13, <3>1, <3>2 DEF TypeOK, InitFails, InitMoves, Months, NoInit, None, meter
  <2>. QED
    BY <2>a, <2>b
<1>14. CASE UNCHANGED vars
  <2>. SUFFICES ASSUME NEW q \in Requests, q \notin late', NEW j \in Tries, Owed(q, j)'
                PROVE  /\ usage'[0].base => q \in baseline'[0]
                       /\ \A o \in Replicas :
                            init'[o][0].at = "counted" => q \in init'[o][0].found
    BY <1>14 DEF Paid
  <2>. Owed(q, j) \/ ~cutover'
    BY <1>14, OwedNew
  <2>a. CASE ~cutover'
    BY <1>14, <2>a, QuiescentStep DEF Quiescent, Months, None
  <2>b. CASE Owed(q, j)
    <3>1. q \notin late => /\ usage[0].base => q \in baseline[0]
                          /\ \A o \in Replicas :
                               init[o][0].at = "counted" => q \in init[o][0].found
      BY <2>b DEF Paid
    <3>. QED
      BY <1>14, <3>1 DEF vars, meter
  <2>. QED
    BY <2>a, <2>b
<1>. QED
  BY <1>1, <1>2, <1>3, <1>4, <1>5, <1>6, <1>7, <1>8,
     <1>9, <1>10, <1>11, <1>12, <1>13, <1>14 DEF Next

(* The number is that of the requests counted.                             *)
LEMMA AddedOnceStep ==
  ASSUME TypeOK, Fresh, LiveFrom, BaselineAddedOnce, [Next]_vars
  PROVE  BaselineAddedOnce'
<1>1. CASE Cutover
  BY <1>1 DEF BaselineAddedOnce, Cutover, meter
<1>2. CASE NextMonth
  BY <1>2 DEF BaselineAddedOnce, NextMonth, meter
<1>3. ASSUME NEW r \in Requests, Accept(r)
     PROVE  BaselineAddedOnce'
  BY <1>3 DEF BaselineAddedOnce, Accept, meter
<1>4. ASSUME NEW r \in Requests, AcceptLegacy(r)
     PROVE  BaselineAddedOnce'
  BY <1>4 DEF BaselineAddedOnce, AcceptLegacy, meter
<1>5. ASSUME NEW r \in Requests, ReadCount(r)
     PROVE  BaselineAddedOnce'
  BY <1>5 DEF BaselineAddedOnce, ReadCount, meter
<1>6. ASSUME NEW r \in Requests, LinkLegacy(r)
     PROVE  BaselineAddedOnce'
  <2>1. LinkedRow(r)
    BY <1>6, LinkLegacyEffect
  <2>. SUFFICES ASSUME NEW w \in Months
                PROVE  usage'[w].n = Cardinality(live'[w]) + Cardinality(baseline'[w])
    BY DEF BaselineAddedOnce
  <2>2. /\ IsFiniteSet(live[w]) /\ Cardinality(live[w]) \in Nat
        /\ Cardinality(baseline[w]) \in Nat
    BY FiniteRequests DEF TypeOK
  <2>3. usage[w].n = Cardinality(live[w]) + Cardinality(baseline[w])
    BY DEF BaselineAddedOnce
  <2>4. CASE CountsLive(r, 1, before[r][1], kind[r][1]) /\ w = window[r]
    <3>1. r \notin live[w]
      BY <2>4 DEF CountsLive, LiveFrom
    <3>2. live'[w] = live[w] \union {r} /\ usage'[w].n = usage[w].n + 1 /\ baseline' = baseline
      BY <2>1, <2>4 DEF LinkedRow, Tallied
    <3>. QED
      BY <2>2, <2>3, <3>1, <3>2, AddOne
  <2>5. CASE ~(CountsLive(r, 1, before[r][1], kind[r][1]) /\ w = window[r])
    BY <2>1, <2>3, <2>5 DEF LinkedRow, Tallied
  <2>. QED
    BY <2>4, <2>5
<1>7. ASSUME NEW r \in Requests, NEW p \in Replicas, AskBaseline(r, p)
     PROVE  BaselineAddedOnce'
  BY <1>7 DEF BaselineAddedOnce, AskBaseline, meter
<1>8. ASSUME NEW r \in Requests, NEW c \in Kinds, StoreLegacy(r, c)
     PROVE  BaselineAddedOnce'
  <2>1. StoredLegacy(r, c)
    BY <1>8, StoreLegacyEffect
  <2>. QED
    BY <2>1 DEF BaselineAddedOnce, StoredLegacy
<1>9. ASSUME NEW r \in Requests, NEW k \in Tries, StartAttempt(r, k)
     PROVE  BaselineAddedOnce'
  <2>1. Called(r, k)
    BY <1>9, StartAttemptEffect
  <2>. QED
    BY <2>1 DEF BaselineAddedOnce, Called
<1>10. ASSUME NEW r \in Requests, NEW k \in Tries, NEW c \in Kinds, StoreAttempt(r, k, c)
     PROVE  BaselineAddedOnce'
  <2>1. StoredRow(r, k, c)
    BY <1>10, StoreAttemptEffect
  <2>. SUFFICES ASSUME NEW w \in Months
                PROVE  usage'[w].n = Cardinality(live'[w]) + Cardinality(baseline'[w])
    BY DEF BaselineAddedOnce
  <2>2. /\ IsFiniteSet(live[w]) /\ Cardinality(live[w]) \in Nat
        /\ Cardinality(baseline[w]) \in Nat
    BY FiniteRequests DEF TypeOK
  <2>3. usage[w].n = Cardinality(live[w]) + Cardinality(baseline[w])
    BY DEF BaselineAddedOnce
  <2>4. CASE CountsLive(r, k, before[r][k], c) /\ w = window[r]
    <3>1. r \notin live[w]
      BY <2>4 DEF CountsLive, LiveFrom
    <3>2. live'[w] = live[w] \union {r} /\ usage'[w].n = usage[w].n + 1 /\ baseline' = baseline
      BY <2>1, <2>4 DEF StoredRow, Tallied
    <3>. QED
      BY <2>2, <2>3, <3>1, <3>2, AddOne
  <2>5. CASE ~(CountsLive(r, k, before[r][k], c) /\ w = window[r])
    BY <2>1, <2>3, <2>5 DEF StoredRow, Tallied
  <2>. QED
    BY <2>4, <2>5
<1>11. ASSUME NEW p \in Replicas, NEW w \in Months, CountBaseline(p, w)
     PROVE  BaselineAddedOnce'
  BY <1>11 DEF BaselineAddedOnce, CountBaseline, meter
<1>12. ASSUME NEW p \in Replicas, NEW w \in Months, MergeBaseline(p, w)
     PROVE  BaselineAddedOnce'
  <2>. SUFFICES ASSUME NEW v \in Months
                PROVE  usage'[v].n = Cardinality(live'[v]) + Cardinality(baseline'[v])
    BY DEF BaselineAddedOnce
  <2>1. usage[v].n = Cardinality(live[v]) + Cardinality(baseline[v])
    BY DEF BaselineAddedOnce
  <2>2. /\ Cardinality(live[v]) \in Nat /\ Cardinality(init[p][w].found) \in Nat
        /\ Cardinality({}) = 0
    BY FiniteRequests, FS_EmptySet DEF TypeOK
  <2>3. CASE v # w \/ usage[v].base
    BY <1>12, <2>1, <2>2, <2>3 DEF TypeOK, MergeBaseline, Merged
  <2>4. CASE v = w /\ ~usage[w].base
    <3>1. baseline[w] = {}
      BY <2>4 DEF Fresh
    <3>. QED
      BY <1>12, <2>1, <2>2, <2>4, <3>1 DEF TypeOK, MergeBaseline, Merged
  <2>. QED
    BY <2>3, <2>4
<1>13. ASSUME NEW p \in Replicas, NEW w \in Months, InitFails(p, w)
     PROVE  BaselineAddedOnce'
  BY <1>13 DEF BaselineAddedOnce, InitFails, meter
<1>14. CASE UNCHANGED vars
  BY <1>14 DEF BaselineAddedOnce, vars, meter
<1>. QED
  BY <1>1, <1>2, <1>3, <1>4, <1>5, <1>6, <1>7, <1>8,
     <1>9, <1>10, <1>11, <1>12, <1>13, <1>14 DEF Next

(* What has been counted remains counted.                                  *)
LEMMA HistoryGrows ==
  ASSUME TypeOK, Fresh, [Next]_vars
  PROVE  /\ late \subseteq late'
         /\ \A v \in Months : live[v] \union baseline[v]
                                \subseteq live'[v] \union baseline'[v]
<1>1. CASE Cutover
  BY <1>1 DEF Cutover, meter
<1>2. CASE NextMonth
  BY <1>2 DEF NextMonth, meter
<1>3. ASSUME NEW r \in Requests, Accept(r)
     PROVE  /\ late \subseteq late'
         /\ \A v \in Months : live[v] \union baseline[v]
                                \subseteq live'[v] \union baseline'[v]
  BY <1>3 DEF Accept, meter
<1>4. ASSUME NEW r \in Requests, AcceptLegacy(r)
     PROVE  /\ late \subseteq late'
         /\ \A v \in Months : live[v] \union baseline[v]
                                \subseteq live'[v] \union baseline'[v]
  BY <1>4 DEF AcceptLegacy, meter
<1>5. ASSUME NEW r \in Requests, ReadCount(r)
     PROVE  /\ late \subseteq late'
         /\ \A v \in Months : live[v] \union baseline[v]
                                \subseteq live'[v] \union baseline'[v]
  BY <1>5 DEF ReadCount, meter
<1>6. ASSUME NEW r \in Requests, LinkLegacy(r)
     PROVE  /\ late \subseteq late'
         /\ \A v \in Months : live[v] \union baseline[v]
                                \subseteq live'[v] \union baseline'[v]
  <2>1. LinkedRow(r)
    BY <1>6, LinkLegacyEffect
  <2>. QED
    BY <2>1 DEF LinkedRow, Tallied
<1>7. ASSUME NEW r \in Requests, NEW p \in Replicas, AskBaseline(r, p)
     PROVE  /\ late \subseteq late'
         /\ \A v \in Months : live[v] \union baseline[v]
                                \subseteq live'[v] \union baseline'[v]
  BY <1>7 DEF AskBaseline, meter
<1>8. ASSUME NEW r \in Requests, NEW c \in Kinds, StoreLegacy(r, c)
     PROVE  /\ late \subseteq late'
         /\ \A v \in Months : live[v] \union baseline[v]
                                \subseteq live'[v] \union baseline'[v]
  <2>1. StoredLegacy(r, c)
    BY <1>8, StoreLegacyEffect
  <2>. QED
    BY <2>1 DEF StoredLegacy, Tallied
<1>9. ASSUME NEW r \in Requests, NEW k \in Tries, StartAttempt(r, k)
     PROVE  /\ late \subseteq late'
         /\ \A v \in Months : live[v] \union baseline[v]
                                \subseteq live'[v] \union baseline'[v]
  <2>1. Called(r, k)
    BY <1>9, StartAttemptEffect
  <2>. QED
    BY <2>1 DEF Called, Tallied
<1>10. ASSUME NEW r \in Requests, NEW k \in Tries, NEW c \in Kinds, StoreAttempt(r, k, c)
     PROVE  /\ late \subseteq late'
         /\ \A v \in Months : live[v] \union baseline[v]
                                \subseteq live'[v] \union baseline'[v]
  <2>1. StoredRow(r, k, c)
    BY <1>10, StoreAttemptEffect
  <2>. QED
    BY <2>1 DEF StoredRow, Tallied
<1>11. ASSUME NEW p \in Replicas, NEW w \in Months, CountBaseline(p, w)
     PROVE  /\ late \subseteq late'
         /\ \A v \in Months : live[v] \union baseline[v]
                                \subseteq live'[v] \union baseline'[v]
  BY <1>11 DEF CountBaseline, meter
<1>12. ASSUME NEW p \in Replicas, NEW w \in Months, MergeBaseline(p, w)
     PROVE  /\ late \subseteq late'
         /\ \A v \in Months : live[v] \union baseline[v]
                                \subseteq live'[v] \union baseline'[v]
  BY <1>12 DEF TypeOK, MergeBaseline, Fresh
<1>13. ASSUME NEW p \in Replicas, NEW w \in Months, InitFails(p, w)
     PROVE  /\ late \subseteq late'
         /\ \A v \in Months : live[v] \union baseline[v]
                                \subseteq live'[v] \union baseline'[v]
  BY <1>13 DEF InitFails, meter
<1>14. CASE UNCHANGED vars
  BY <1>14 DEF vars, meter
<1>. QED
  BY <1>1, <1>2, <1>3, <1>4, <1>5, <1>6, <1>7, <1>8,
     <1>9, <1>10, <1>11, <1>12, <1>13, <1>14 DEF Next

(* No step takes a refusal its reason.                                     *)
LEMMA ReasonStays ==
  ASSUME TypeOK, Fresh, [Next]_vars, NEW w \in Months,
         Cardinality(live[w] \union baseline[w]) + Cardinality(late) >= Limit
  PROVE  Cardinality(live'[w] \union baseline'[w]) + Cardinality(late') >= Limit
<1>1. TypeOK'
  BY TypeStep
<1>2. /\ late' \subseteq Requests /\ live'[w] \union baseline'[w] \subseteq Requests
      /\ late \subseteq Requests /\ live[w] \union baseline[w] \subseteq Requests
  BY <1>1 DEF TypeOK
<1>3. /\ IsFiniteSet(late') /\ IsFiniteSet(live'[w] \union baseline'[w])
      /\ Cardinality(late') \in Nat /\ Cardinality(late) \in Nat
      /\ Cardinality(live'[w] \union baseline'[w]) \in Nat
      /\ Cardinality(live[w] \union baseline[w]) \in Nat
  BY <1>2, FiniteRequests
<1>4. /\ Cardinality(late) <= Cardinality(late')
      /\ Cardinality(live[w] \union baseline[w]) <= Cardinality(live'[w] \union baseline'[w])
  BY <1>3, HistoryGrows, FS_Subset
<1>. QED
  BY <1>3, <1>4, UsageAssumption DEF UsageAssumption

(* What the gate reads: only late requests may be in it twice.             *)
LEMMA GateReads ==
  ASSUME NEW n, NEW L, NEW B, NEW U, L \subseteq Requests, B \subseteq Requests,
         U \subseteq Requests, n = Cardinality(L) + Cardinality(B),
         L \intersect B \subseteq U, Verdict(n) = "refused"
  PROVE  Cardinality(L \union B) + Cardinality(U) >= Limit
<1>1. n >= Limit
  <2>1. n \in Nat
    BY FiniteRequests
  <2>. QED
    BY <2>1, UsageAssumption DEF Verdict, UsageAssumption
<1>2. n <= Cardinality(L \union B) + Cardinality(U)
  BY FiniteRequests, Overlap
<1>3. Cardinality(L \union B) \in Nat /\ Cardinality(U) \in Nat /\ n \in Nat
  BY FiniteRequests
<1>. QED
  BY <1>1, <1>2, <1>3, UsageAssumption DEF UsageAssumption

(* Every refusal has its reason.                                           *)
LEMMA RefusedStep ==
  ASSUME TypeOK, Quiescent, RowsFit, Fresh, LiveFrom, BaselineFrom,
         BaselineAddedOnce, RefusedAtLimit, [Next]_vars
  PROVE  RefusedAtLimit'
<1>1. CASE Cutover
  <2>. SUFFICES ASSUME NEW q \in Requests, phase'[q] = "refused"
                PROVE  \E v \in Months :
                         Cardinality(live'[v] \union baseline'[v]) + Cardinality(late') >= Limit
    BY DEF RefusedAtLimit
  <2>1. phase[q] = "refused"
    BY <1>1 DEF Cutover, gate
  <2>. QED
    BY <1>1, <2>1, ReasonStays DEF RefusedAtLimit
<1>2. CASE NextMonth
  <2>. SUFFICES ASSUME NEW q \in Requests, phase'[q] = "refused"
                PROVE  \E v \in Months :
                         Cardinality(live'[v] \union baseline'[v]) + Cardinality(late') >= Limit
    BY DEF RefusedAtLimit
  <2>1. phase[q] = "refused"
    BY <1>2 DEF NextMonth, gate
  <2>. QED
    BY <1>2, <2>1, ReasonStays DEF RefusedAtLimit
<1>3. ASSUME NEW r \in Requests, Accept(r)
     PROVE  RefusedAtLimit'
  <2>. SUFFICES ASSUME NEW q \in Requests, phase'[q] = "refused"
                PROVE  \E v \in Months :
                         Cardinality(live'[v] \union baseline'[v]) + Cardinality(late') >= Limit
    BY DEF RefusedAtLimit
  <2>1. phase[q] = "refused"
    BY <1>3 DEF TypeOK, Accept, Answered
  <2>. QED
    BY <1>3, <2>1, ReasonStays DEF RefusedAtLimit
<1>4. ASSUME NEW r \in Requests, AcceptLegacy(r)
     PROVE  RefusedAtLimit'
  <2>. SUFFICES ASSUME NEW q \in Requests, phase'[q] = "refused"
                PROVE  \E v \in Months :
                         Cardinality(live'[v] \union baseline'[v]) + Cardinality(late') >= Limit
    BY DEF RefusedAtLimit
  <2>1. phase[q] = "refused"
    BY <1>4 DEF TypeOK, AcceptLegacy, Answered
  <2>. QED
    BY <1>4, <2>1, ReasonStays DEF RefusedAtLimit
<1>5. ASSUME NEW r \in Requests, ReadCount(r)
     PROVE  RefusedAtLimit'
  <2>. SUFFICES ASSUME NEW q \in Requests, phase'[q] = "refused"
                PROVE  \E v \in Months :
                         Cardinality(live'[v] \union baseline'[v]) + Cardinality(late') >= Limit
    BY DEF RefusedAtLimit
  <2>1. CASE phase[q] = "refused"
    BY <1>5, <2>1, ReasonStays DEF RefusedAtLimit
  <2>2. CASE phase[q] # "refused"
    <3>1. Verdict(usage[month].n) = "refused" /\ month \in Months
      BY <1>5, <2>2 DEF TypeOK, ReadCount
    <3>2. live[month] \intersect baseline[month] \subseteq late
      BY <3>1 DEF LiveFrom, BaselineFrom, TypeOK
    <3>3. Cardinality(live[month] \union baseline[month]) + Cardinality(late) >= Limit
      BY <3>1, <3>2, GateReads DEF TypeOK, BaselineAddedOnce
    <3>. QED
      BY <1>5, <3>1, <3>3, ReasonStays
  <2>. QED
    BY <2>1, <2>2
<1>6. ASSUME NEW r \in Requests, LinkLegacy(r)
     PROVE  RefusedAtLimit'
  <2>. SUFFICES ASSUME NEW q \in Requests, phase'[q] = "refused"
                PROVE  \E v \in Months :
                         Cardinality(live'[v] \union baseline'[v]) + Cardinality(late') >= Limit
    BY DEF RefusedAtLimit
  <2>1. phase[q] = "refused"
    BY <1>6, LinkLegacyEffect DEF LinkedRow
  <2>. QED
    BY <1>6, <2>1, ReasonStays DEF RefusedAtLimit
<1>7. ASSUME NEW r \in Requests, NEW p \in Replicas, AskBaseline(r, p)
     PROVE  RefusedAtLimit'
  <2>. SUFFICES ASSUME NEW q \in Requests, phase'[q] = "refused"
                PROVE  \E v \in Months :
                         Cardinality(live'[v] \union baseline'[v]) + Cardinality(late') >= Limit
    BY DEF RefusedAtLimit
  <2>1. phase[q] = "refused"
    BY <1>7 DEF TypeOK, AskBaseline, Answered
  <2>. QED
    BY <1>7, <2>1, ReasonStays DEF RefusedAtLimit
<1>8. ASSUME NEW r \in Requests, NEW c \in Kinds, StoreLegacy(r, c)
     PROVE  RefusedAtLimit'
  <2>. SUFFICES ASSUME NEW q \in Requests, phase'[q] = "refused"
                PROVE  \E v \in Months :
                         Cardinality(live'[v] \union baseline'[v]) + Cardinality(late') >= Limit
    BY DEF RefusedAtLimit
  <2>1. phase[q] = "refused"
    BY <1>8, StoreLegacyEffect DEF StoredLegacy
  <2>. QED
    BY <1>8, <2>1, ReasonStays DEF RefusedAtLimit
<1>9. ASSUME NEW r \in Requests, NEW k \in Tries, StartAttempt(r, k)
     PROVE  RefusedAtLimit'
  <2>. SUFFICES ASSUME NEW q \in Requests, phase'[q] = "refused"
                PROVE  \E v \in Months :
                         Cardinality(live'[v] \union baseline'[v]) + Cardinality(late') >= Limit
    BY DEF RefusedAtLimit
  <2>1. phase[q] = "refused"
    BY <1>9, StartAttemptEffect DEF Called
  <2>. QED
    BY <1>9, <2>1, ReasonStays DEF RefusedAtLimit
<1>10. ASSUME NEW r \in Requests, NEW k \in Tries, NEW c \in Kinds, StoreAttempt(r, k, c)
     PROVE  RefusedAtLimit'
  <2>. SUFFICES ASSUME NEW q \in Requests, phase'[q] = "refused"
                PROVE  \E v \in Months :
                         Cardinality(live'[v] \union baseline'[v]) + Cardinality(late') >= Limit
    BY DEF RefusedAtLimit
  <2>1. phase[q] = "refused"
    BY <1>10, StoreAttemptEffect DEF StoredRow
  <2>. QED
    BY <1>10, <2>1, ReasonStays DEF RefusedAtLimit
<1>11. ASSUME NEW p \in Replicas, NEW w \in Months, CountBaseline(p, w)
     PROVE  RefusedAtLimit'
  <2>. SUFFICES ASSUME NEW q \in Requests, phase'[q] = "refused"
                PROVE  \E v \in Months :
                         Cardinality(live'[v] \union baseline'[v]) + Cardinality(late') >= Limit
    BY DEF RefusedAtLimit
  <2>1. phase[q] = "refused"
    BY <1>11 DEF CountBaseline, gate
  <2>. QED
    BY <1>11, <2>1, ReasonStays DEF RefusedAtLimit
<1>12. ASSUME NEW p \in Replicas, NEW w \in Months, MergeBaseline(p, w)
     PROVE  RefusedAtLimit'
  <2>. SUFFICES ASSUME NEW q \in Requests, phase'[q] = "refused"
                PROVE  \E v \in Months :
                         Cardinality(live'[v] \union baseline'[v]) + Cardinality(late') >= Limit
    BY DEF RefusedAtLimit
  <2>1. CASE phase[q] = "refused"
    BY <1>12, <2>1, ReasonStays DEF RefusedAtLimit
  <2>2. CASE phase[q] # "refused"
    <3>1. Verdict(usage'[w].n) = "refused"
      BY <1>12, <2>2 DEF TypeOK, MergeBaseline, Answered
    <3>2. TypeOK' /\ LiveFrom' /\ BaselineFrom' /\ BaselineAddedOnce'
      BY <1>12, TypeStep, LiveFromStep, BaselineFromStep, AddedOnceStep
    <3>3. live'[w] \intersect baseline'[w] \subseteq late'
      BY <3>2 DEF LiveFrom, BaselineFrom, TypeOK
    <3>. QED
      BY <3>1, <3>2, <3>3, GateReads DEF TypeOK, BaselineAddedOnce
  <2>. QED
    BY <2>1, <2>2
<1>13. ASSUME NEW p \in Replicas, NEW w \in Months, InitFails(p, w)
     PROVE  RefusedAtLimit'
  <2>. SUFFICES ASSUME NEW q \in Requests, phase'[q] = "refused"
                PROVE  \E v \in Months :
                         Cardinality(live'[v] \union baseline'[v]) + Cardinality(late') >= Limit
    BY DEF RefusedAtLimit
  <2>1. phase[q] = "refused"
    BY <1>13 DEF TypeOK, InitFails, Answered
  <2>. QED
    BY <1>13, <2>1, ReasonStays DEF RefusedAtLimit
<1>14. CASE UNCHANGED vars
  <2>. SUFFICES ASSUME NEW q \in Requests, phase'[q] = "refused"
                PROVE  \E v \in Months :
                         Cardinality(live'[v] \union baseline'[v]) + Cardinality(late') >= Limit
    BY DEF RefusedAtLimit
  <2>1. phase[q] = "refused"
    BY <1>14 DEF vars, gate
  <2>. QED
    BY <1>14, <2>1, ReasonStays DEF RefusedAtLimit
<1>. QED
  BY <1>1, <1>2, <1>3, <1>4, <1>5, <1>6, <1>7, <1>8,
     <1>9, <1>10, <1>11, <1>12, <1>13, <1>14 DEF Next

LEMMA InitInv == Init => IInv
<1>. SUFFICES ASSUME Init PROVE IInv
  OBVIOUS
<1>1. TypeOK
  BY DEF Init, TypeOK, Months, Kinds, NoInit, None
<1>2. BaselineAddedOnce
  BY FS_EmptySet DEF Init, BaselineAddedOnce
<1>3. RefusedAtLimit /\ Quiescent /\ RowsFit /\ Fresh
  BY DEF Init, RefusedAtLimit, Quiescent, RowsFit, Fresh, NoInit, None
<1>4. LiveFrom /\ BaselineFrom
  BY DEF Init, LiveFrom, BaselineFrom, NoInit
<1>5. Seen /\ Placed
  BY DEF Init, Seen, Placed, None
<1>6. Paid
  BY DEF Init, Paid, Owed, None
<1>. QED
  BY <1>1, <1>2, <1>3, <1>4, <1>5, <1>6 DEF IInv

LEMMA IInvStep == IInv /\ [Next]_vars => IInv'
BY TypeStep, QuiescentStep, RowsFitStep, FreshStep, LiveFromStep, BaselineFromStep,
   SeenStep, PlacedStep, PaidStep, AddedOnceStep, RefusedStep DEF IInv

(* Every reachable state satisfies the inductive invariant.                *)
THEOREM Inductive == Spec => []IInv
BY InitInv, IInvStep, PTL DEF Spec

(* A request is counted once: a row that the trigger has counted leaves    *)
(* the baseline nothing to find.                                           *)
LEMMA OnceFollows == IInv => CountedOnce
<1>. SUFFICES ASSUME IInv, NEW r \in Requests \ late, NEW w \in Months
              PROVE  /\ r \in live[w] => /\ r \notin baseline[w]
                                         /\ \A v \in Months \ {w} : r \notin live[v]
                     /\ r \in baseline[w] => w = 0
  BY DEF CountedOnce
<1>. QED
  BY DEF IInv, LiveFrom, BaselineFrom

(* What the trigger did not count is owed to a baseline, which has it.     *)
LEMMA NoneMissedFollows == IInv => NoneMissed
<1>. SUFFICES ASSUME IInv, NEW r \in Requests \ late, NEW k \in Tries,
                     usage[window[r]].base, kind[r][k] = "live",
                     stage[r][k] = "linked" \/ (stage[r][k] = "unlinked" /\ before[r][k])
              PROVE  r \in live[window[r]] \union baseline[window[r]]
  BY DEF NoneMissed
<1>1. CASE \E j \in Tries : Owed(r, j)
  <2>1. window[r] = 0
    BY <1>1 DEF IInv, RowsFit, Owed, None
  <2>. QED
    BY <1>1, <2>1 DEF IInv, Paid
<1>2. CASE ~\E j \in Tries : Owed(r, j)
  <2>1. stage[r][k] = "linked" /\ ~before[r][k]
    BY <1>2 DEF Owed
  <2>2. r \in counted
    BY <2>1 DEF IInv, Seen
  <2>. QED
    BY <1>2, <2>2 DEF IInv, Placed
<1>. QED
  BY <1>1, <1>2

(* Every variable always holds a value of its kind.                        *)
THEOREM TypeCorrect == Spec => []TypeOK
<1>. IInv => TypeOK
  BY DEF IInv
<1>. QED
  BY Inductive, PTL

(* For any number of requests, attempts and replicas the number stored for *)
(* a month is that of the requests its trigger and one baseline counted.   *)
THEOREM BaselineOnce == Spec => []BaselineAddedOnce
<1>. IInv => BaselineAddedOnce
  BY DEF IInv
<1>. QED
  BY Inductive, PTL

(* No request is counted twice unless one of its rows is late.             *)
THEOREM NeverCountedTwice == Spec => []CountedOnce
BY Inductive, OnceFollows, PTL

(* No provider call of a month is missing from a count that has its        *)
(* baseline unless a row of its request is late.                           *)
THEOREM NeverMissed == Spec => []NoneMissed
BY Inductive, NoneMissedFollows, PTL

(* A tenant is refused only when the requests of the plan have been made.  *)
THEOREM RefusalsDue == Spec => []RefusedAtLimit
<1>. IInv => RefusedAtLimit
  BY DEF IInv
<1>. QED
  BY Inductive, PTL
=============================================================================
