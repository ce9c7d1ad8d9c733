------------------------ MODULE RequestLedgerProofs ------------------------
(***************************************************************************)
(* RequestLedger, for every bound and every choice of what may fail: the   *)
(* recorder calls of one request can run in any order, be cut short by     *)
(* failing statements or a crash, and never leave a terminal row that      *)
(* differs from what the caller was told (LedgerInv), take a terminal row  *)
(* back, or leave out an attempt: each is either still to be reported by   *)
(* the handler, or in one recorder call, or has its outcome, or was given  *)
(* up (RowInv).                                                            *)
(***************************************************************************)
EXTENDS RequestLedger, TLAPS

(* The handler concludes once; until then nothing terminal is written or   *)
(* about to be, and from then on whatever is agrees with it.               *)
LedgerInv ==
  /\ seen # "none" => pc \in {"done", "down"}
  /\ \A w \in writers : w.outcome # "pending" => /\ w.outcome = seen
                                                 /\ seen \in Final
  /\ request \in Final => request = seen

(* A conclusion keeps the invariant when the terminal writers it adds      *)
(* carry its outcome.                                                      *)
LEMMA ConcludeKeeps ==
  ASSUME LedgerInv, pc \notin {"done", "down"},
         NEW outcome \in Final, NEW ws,
         \A w \in ws : w.outcome # "pending" => w.outcome = outcome,
         Conclude(outcome, ws)
  PROVE  LedgerInv'
<1>1. seen = "none" /\ seen' = outcome /\ pc' = "done" /\ request' = request
  BY DEF LedgerInv, Conclude, ledger
<1>2. request \notin Final
  BY <1>1 DEF LedgerInv, Final
<1>3. \A w \in writers : w.outcome = "pending"
  BY <1>1 DEF LedgerInv, Final
<1>4. writers' = writers \union ws
  BY DEF Conclude
<1> QED
  BY <1>1, <1>2, <1>3, <1>4 DEF LedgerInv

(* The writers of the chain are intermediate ones.                         *)
LEMMA ChainWriters ==
  /\ \A w \in OriginalWriters : w.outcome = "pending"
  /\ \A last : \A w \in FallbackWriters(last) : w.outcome = "pending"
BY DEF OriginalWriters, FallbackWriters, Writer

(* A step that neither concludes nor writes the parent row.                *)
LEMMA QuietStepKeeps ==
  ASSUME LedgerInv, UNCHANGED <<seen, request>>,
         seen # "none" => pc' \in {"done", "down"},
         \A w \in writers' : w.outcome # "pending" => /\ w.outcome = seen
                                                     /\ seen \in Final
  PROVE  LedgerInv'
BY DEF LedgerInv

LEMMA HandlerKeeps == ASSUME LedgerInv, Handler PROVE LedgerInv'
<1>1. ASSUME pc \notin {"done", "down"}, UNCHANGED <<seen, request, writers>>
      PROVE  LedgerInv'
  BY <1>1, QuietStepKeeps DEF LedgerInv
<1>2. CASE Ingress
  <2>1. pc = "ingress" /\ seen = "none" /\ seen' = "none" /\ writers' = writers
    BY <1>2 DEF Ingress, LedgerInv
  <2>2. request' = request \/ request' = "pending"
    BY <1>2 DEF Ingress
  <2> QED
    BY <2>1, <2>2 DEF LedgerInv, Final
<1>3. CASE Refuse
  <2>1. CASE Conclude("failed", {Writer("failed", {})})
    BY <1>3, <2>1, ConcludeKeeps DEF Refuse, Writer, Final
  <2>2. CASE Conclude("cancelled", {Writer("cancelled", {})})
    BY <1>3, <2>2, ConcludeKeeps DEF Refuse, Writer, Final
  <2> QED
    BY <1>3, <2>1, <2>2 DEF Refuse
<1>4. CASE StartPrimary
  BY <1>1, <1>4 DEF StartPrimary, Unrecorded, ledger
<1>5. CASE PrimaryStops
  BY <1>1, <1>5 DEF PrimaryStops, Unrecorded, ledger
<1>6. CASE Rescue
  BY <1>1, <1>6 DEF Rescue, Unrecorded, ledger
<1>7. CASE AnswerOk
  BY <1>1, <1>7 DEF AnswerOk, Unrecorded, ledger
<1>8. CASE AnswerFails
  BY <1>1, <1>8 DEF AnswerFails, Unrecorded, ledger
<1>9. CASE RescueFails
  BY <1>9, ConcludeKeeps DEF RescueFails, Writer, Final
<1>10. CASE WarmupFails
  BY <1>1, <1>10 DEF WarmupFails, Unrecorded, ledger
<1>11. CASE TokenRejected
  BY <1>1, <1>11 DEF TokenRejected, Unrecorded, ledger
<1>12. CASE Supersede
  BY <1>1, <1>12 DEF Supersede
<1>13. CASE Retry
  BY <1>1, <1>13 DEF Retry, Unrecorded, ledger
<1>14. CASE Heal
  BY <1>1, <1>14 DEF Heal, Unrecorded, ledger
<1>15. CASE HealAbandoned
  <2>1. CASE Conclude("failed", {Writer("failed", {})})
    BY <1>15, <2>1, ConcludeKeeps DEF HealAbandoned, Writer, Final
  <2>2. CASE UNCHANGED <<seen, ledger, writers>>
    BY <1>1, <1>15, <2>2 DEF HealAbandoned, ledger
  <2> QED
    BY <1>15, <2>1, <2>2 DEF HealAbandoned
<1>16. CASE NextFallback
  BY <1>1, <1>16 DEF NextFallback, Unrecorded, ledger
<1>17. CASE Exhaust
  <2> DEFINE ws == OriginalWriters \union
                   IF losers = <<>>
                     THEN {Writer("failed", PrimaryJobs("failed"))}
                     ELSE FallbackWriters("failed")
                            \union {Writer("failed", PrimaryJobs("superseded"))}
  <2>1. Conclude("failed", ws) /\ pc \notin {"done", "down"}
    BY <1>17 DEF Exhaust
  <2>2. \A w \in ws : w.outcome = "pending" \/ w.outcome = "failed"
    BY ChainWriters DEF Writer
  <2> HIDE DEF ws
  <2> QED
    BY <2>1, <2>2, ConcludeKeeps DEF Final
<1>18. CASE Serve
  <2>1. \A w \in writers' : w \in writers \/ w.outcome = "pending"
    BY <1>18, ChainWriters DEF Serve, Writer
  <2>2. seen = "none" /\ UNCHANGED <<seen, request>>
    BY <1>18 DEF Serve, LedgerInv, ledger
  <2> QED
    BY <2>1, <2>2 DEF LedgerInv, Final
<1>19. CASE Finish
  <2> DEFINE ws == {Writer("success", {Job(Winner, "success")})}
                     \union IF leg = "fallback" THEN {} ELSE OriginalWriters
  <2>1. Conclude("success", ws) /\ pc \notin {"done", "down"}
    BY <1>19 DEF Finish
  <2>2. \A w \in ws : w.outcome = "pending" \/ w.outcome = "success"
    BY ChainWriters DEF Writer
  <2> HIDE DEF ws
  <2> QED
    BY <2>1, <2>2, ConcludeKeeps DEF Final
<1>20. CASE StreamFails
  BY <1>20, ConcludeKeeps DEF StreamFails, Writer, Final
<1>21. CASE Throw
  <2>1. pc \notin {"done", "down"}
    BY <1>21 DEF Throw
  <2>2. CASE aborted
    <3>1. PICK jobs : Conclude("cancelled", {Writer("cancelled", jobs)})
      BY <1>21, <2>2 DEF Throw
    <3> QED
      BY <2>1, <3>1, ConcludeKeeps DEF Writer, Final
  <2>3. CASE ~aborted
    BY <1>21, <2>1, <2>3, ConcludeKeeps DEF Throw, Writer, Final
  <2> QED
    BY <2>2, <2>3
<1> QED
  BY <1>2, <1>3, <1>4, <1>5, <1>6, <1>7, <1>8, <1>9, <1>10, <1>11, <1>12, <1>13,
     <1>14, <1>15, <1>16, <1>17, <1>18, <1>19, <1>20, <1>21 DEF Handler

LEMMA RecorderKeeps == ASSUME LedgerInv, Recorder PROVE LedgerInv'
<1>1. ASSUME NEW a \in Attempts, WritePending(a) PROVE LedgerInv'
  BY <1>1 DEF WritePending, LedgerInv, handler
<1>2. ASSUME NEW w \in writers, PersistRequest(w) PROVE LedgerInv'
  <2>1. UNCHANGED <<pc, seen>>
    BY <1>2 DEF PersistRequest, handler
  <2>2. \A v \in writers' : \E u \in writers : v.outcome = u.outcome
    <3>1. [w EXCEPT !.persisted = TRUE].outcome = w.outcome
      OBVIOUS
    <3> QED
      BY <1>2, <3>1 DEF PersistRequest
  <2>3. \/ request' = request
        \/ request' = "pending"
        \/ request' = w.outcome
    BY <1>2 DEF PersistRequest, Persisted
  <2> QED
    BY <2>1, <2>2, <2>3 DEF LedgerInv, Final
<1>3. ASSUME NEW w \in writers, NEW j \in w.jobs, PersistAttempt(w, j)
      PROVE  LedgerInv'
  <2>1. UNCHANGED <<pc, seen, request>>
    BY <1>3 DEF PersistAttempt, handler
  <2>2. \A v \in writers' : \E u \in writers : v.outcome = u.outcome
    <3>1. [w EXCEPT !.jobs = @ \ {j}].outcome = w.outcome
      OBVIOUS
    <3> QED
      BY <1>3, <3>1 DEF PersistAttempt, Without
  <2> QED
    BY <2>1, <2>2 DEF LedgerInv
<1> QED
  BY <1>1, <1>2, <1>3 DEF Recorder

LEMMA LedgerStep == LedgerInv /\ [Next]_vars => LedgerInv'
<1> SUFFICES ASSUME LedgerInv, [Next]_vars PROVE LedgerInv'
  OBVIOUS
<1>1. CASE Abort
  BY <1>1 DEF Abort, LedgerInv, handler, ledger
<1>2. CASE Crash
  BY <1>2 DEF Crash, LedgerInv, ledger
<1>3. CASE UNCHANGED vars
  BY <1>3 DEF vars, handler, ledger, LedgerInv
<1> QED
  BY <1>1, <1>2, <1>3, HandlerKeeps, RecorderKeeps DEF Next

(* The invariant the theorems below come from.                             *)
THEOREM LedgerInvariance == Spec => []LedgerInv
<1>1. Init => LedgerInv
  BY DEF Init, LedgerInv, Final
<1> QED
  BY <1>1, LedgerStep, PTL DEF Spec

(* A terminal request row says what the caller saw, for every number of    *)
(* fallbacks, attempts and failing statements, with or without a crash.    *)
THEOREM RequestRowTruthful == Spec => []RequestTruthful
<1>1. LedgerInv => RequestTruthful
  BY DEF LedgerInv, RequestTruthful
<1> QED
  BY <1>1, LedgerInvariance, PTL

LEMMA RequestStays ==
  ASSUME LedgerInv, Next, request \in Final PROVE request' = request
<1>1. request = seen /\ seen # "none" /\ pc \in {"done", "down"}
  BY DEF LedgerInv, Final
<1>2. CASE Handler
  <2>1. FALSE
    BY <1>1, <1>2 DEF Handler, Ingress, Refuse, StartPrimary, PrimaryStops,
       Rescue, AnswerOk, AnswerFails, RescueFails, WarmupFails, TokenRejected,
       Supersede, Retry, Heal, HealAbandoned, NextFallback, Exhaust, Serve,
       Finish, StreamFails, Throw
  <2> QED
    BY <2>1
<1>3. CASE Recorder
  <2>1. ASSUME NEW a \in Attempts, WritePending(a) PROVE request' = request
    BY <2>1 DEF WritePending
  <2>2. ASSUME NEW w \in writers, PersistRequest(w) PROVE request' = request
    <3>1. request' = request \/ request' = Persisted(w.outcome)
      BY <2>2 DEF PersistRequest
    <3>2. CASE w.outcome # "pending"
      BY <1>1, <3>1, <3>2 DEF LedgerInv, Persisted
    <3>3. CASE w.outcome = "pending"
      BY <1>1, <3>1, <3>3 DEF Persisted, Final
    <3> QED
      BY <3>2, <3>3
  <2>3. ASSUME NEW w \in writers, NEW j \in w.jobs, PersistAttempt(w, j)
        PROVE  request' = request
    BY <2>3 DEF PersistAttempt
  <2> QED
    BY <1>3, <2>1, <2>2, <2>3 DEF Recorder
<1>4. CASE Abort \/ Crash
  BY <1>4 DEF Abort, Crash, ledger
<1> QED
  BY <1>2, <1>3, <1>4 DEF Next

-----------------------------------------------------------------------------
(* The rows of attempts.  An attempt is in one place at a time: the handler*)
(* still has to report it, one recorder call has a job for it, its row has *)
(* an outcome, or it was given up.                                         *)

Ended == pc \in {"done", "down"}

(* A provider call is under way, or its answer is.                         *)
Calling == pc \in {"calling", "superseding", "retrying", "won", "serving"}

(* A fallback is being served: what lost to it has been reported.          *)
Reported == pc = "serving" /\ leg = "fallback"

Lost == {losers[i] : i \in DOMAIN losers}

Earlier == ({primary, original} \union Lost) \ {Skipped, Phantom}

Open ==
  IF Ended THEN {}
  ELSE (IF Calling THEN {started} ELSE {}) \union (IF Reported THEN {} ELSE Earlier)

Marked == {Skipped, Phantom} \union 1 .. started

Types ==
  /\ started \in 0 .. MaxAttempts
  /\ primary \in Marked /\ original \in 0 .. started
  /\ losers \in Seq(Int) /\ Lost \subseteq Marked
  /\ row \in [Attempts -> RowStatus]
  /\ pendingWrite \in [Attempts -> {"none", "writing", "true", "false"}]
  /\ \A a \in Attempts : a > started => row[a] = "none" /\ pendingWrite[a] = "none"
  /\ \A a \in Attempts : pendingWrite[a] = "true" => row[a] # "none"

(* What the leg at hand says of the attempts before.                       *)
Legs ==
  /\ leg \in {"primary", "heal", "rescue", "fallback"}
  /\ pc \in {"ingress", "route"} => started = 0 /\ leg = "primary"
  /\ Calling => started > 0
  /\ ~Ended /\ leg # "fallback" =>
       /\ losers = <<>>
       /\ original # 0 => pc = "serving" /\ leg = "heal"
  /\ leg = "heal" /\ ~Ended => primary > 0
  /\ leg = "heal" /\ pc = "serving" => original = primary
  /\ leg = "rescue" \/ (leg = "primary" /\ pc \notin {"failed", "ended"}) =>
       Ended \/ primary = Skipped

(* No attempt is in two places of the handler.                             *)
Distinct ==
  ~Ended /\ ~Reported =>
    /\ primary = original => primary = 0 \/ (pc = "serving" /\ leg = "heal")
    /\ \A i \in DOMAIN losers :
         losers[i] > 0 => /\ losers[i] \notin {primary, original}
                          /\ \A k \in DOMAIN losers \ {i} : losers[k] # losers[i]
    /\ Calling => started \notin Earlier

Unwritten(a) == row[a] \in {"none", "pending"}

Assigned(a) == \E w \in writers : \E j \in w.jobs : j.attempt = a

(* What the handler has still to report is without outcome, but for a      *)
(* refused attempt that is about to be retried.                            *)
OpenFree ==
  /\ \A a \in Open : ~Assigned(a)
  /\ \A a \in Open : Unwritten(a) \/ (a = started /\ pc = "retrying")
  /\ pc = "retrying" => row[started] = "superseded"
                          \/ (started \in excused /\ Unwritten(started))

(* One job per attempt, and its row is not yet final.                      *)
Jobs ==
  \A w \in writers : \A j \in w.jobs :
    /\ j.attempt \in 0 .. started
    /\ j.status \in {"superseded"} \union Final
    /\ j.attempt # 0 =>
         /\ Unwritten(j.attempt)
              \/ (row[j.attempt] = "superseded" /\ j.status = "cancelled")
         /\ \A v \in writers : \A i \in v.jobs :
              i.attempt = j.attempt => v = w /\ i = j

Covered ==
  \A a \in 1 .. started :
    ~Unwritten(a) \/ a \in excused \/ a \in Open \/ Assigned(a)

(* Only the attempt that was served is recorded as a success.              *)
Credit ==
  /\ \A w \in writers : \A j \in w.jobs :
       j.status = "success" => j.attempt = started /\ seen = "success"
  /\ \A a \in Attempts : row[a] = "success" => a = started /\ seen = "success"
  /\ seen = "success" =>
       /\ started > 0
       /\ \/ row[started] = "success" \/ started \in excused
          \/ \E w \in writers : \E j \in w.jobs :
               j.attempt = started /\ j.status = "success"

(* Until it serves or concludes the handler has made no recorder calls.    *)
Untold ==
  pc \notin {"serving", "done", "down"} =>
    /\ writers = {}
    /\ \A a \in Attempts : Unwritten(a) \/ row[a] = "superseded"

RowInv ==
  /\ LedgerInv
  /\ Types /\ Legs /\ Distinct
  /\ OpenFree /\ Jobs /\ Covered /\ Credit /\ Untold

LEMMA OpenStarted ==
  ASSUME Types, Legs
  PROVE  Open \subseteq 1 .. started /\ 1 .. started \subseteq Attempts
BY LedgerAssumption DEF Types, Legs, Open, Earlier, Marked, Lost, Skipped, Phantom, Attempts

(* A step of the handler that writes nothing: attempts may begin, and leave*)
(* the handler's hands when they have an outcome or are given up.          *)
LEMMA Moves ==
  ASSUME RowInv, LedgerInv', Types', Legs', Distinct',
         UNCHANGED <<writers, row, seen>>, seen = "none",
         pc \notin {"serving", "done", "down"},
         started' \in {started, started + 1},
         excused \subseteq excused', pc' # "retrying",
         \A a \in Open' : a \in Open \/ (a = started + 1 /\ started' = a),
         started' # started => started' \in Open',
         pc = "retrying" => started \notin Open',
         \A a \in Open \ Open' : a \in excused' \/ ~Unwritten(a)
  PROVE  RowInv'
<1>1. Open \subseteq 1 .. started /\ Open' \subseteq 1 .. started' /\ 1 .. started' \subseteq Attempts
  <2>1. Open \subseteq 1 .. started /\ 1 .. started \subseteq Attempts
    BY OpenStarted DEF RowInv
  <2>2. (Open \subseteq 1 .. started /\ 1 .. started \subseteq Attempts)'
    BY LedgerAssumption DEF Types, Legs, Open, Earlier, Marked, Lost, Skipped, Phantom, Attempts
  <2> QED
    BY <2>1, <2>2
<1>2. \A a : Assigned(a)' <=> Assigned(a)
  BY DEF Assigned
<1>3. \A a : Unwritten(a)' <=> Unwritten(a)
  BY DEF Unwritten
<1>4. started \in Nat
  BY DEF RowInv, Types
<1>5. started' # started => /\ ~Assigned(started') /\ Unwritten(started')
  <2>1. \A a : Assigned(a) => a \in 0 .. started
    BY DEF RowInv, Jobs, Assigned
  <2>2. started' # started => started' \in Attempts /\ row[started'] = "none"
    BY <1>1, <1>4 DEF RowInv, Types
  <2> QED
    BY <1>4, <2>1, <2>2 DEF Unwritten
<1>6. OpenFree'
  BY <1>1, <1>2, <1>3, <1>4, <1>5 DEF RowInv, OpenFree
<1>7. Jobs'
  BY <1>3, <1>4 DEF RowInv, Jobs, Unwritten
<1>8. Covered'
  BY <1>1, <1>2, <1>3, <1>4, <1>5 DEF RowInv, Covered
<1>9. Credit'
  BY <1>1 DEF RowInv, Credit
<1>10. Untold'
  BY DEF RowInv, Untold, Unwritten
<1> QED
  BY <1>6, <1>7, <1>8, <1>9, <1>10 DEF RowInv

(* The jobs of recorder calls that are made together.                      *)
JobsFit(ws) ==
  /\ \A w \in ws : \A j \in w.jobs :
       /\ \/ j.attempt \in {0} \union Open
          \/ j.attempt = started /\ pc = "failed" /\ j.status = "cancelled"
       /\ j.status \in {"superseded"} \union Final
       /\ pc = "retrying" => j.status = "cancelled"
  /\ \A w, v \in ws : \A j \in w.jobs : \A i \in v.jobs :
       j.attempt # 0 /\ i.attempt = j.attempt => w = v /\ i = j

(* Recorder calls are made: the attempts they name leave the handler's     *)
(* hands.                                                                  *)
LEMMA HandsOver ==
  ASSUME RowInv, LedgerInv', Types', Legs', Distinct', NEW ws,
         writers' = writers \union ws, UNCHANGED <<row, started>>,
         excused \subseteq excused', pc' \in {"serving", "done"},
         JobsFit(ws), seen = "none",
         Open' \subseteq Open,
         \A w \in ws : \A j \in w.jobs : j.attempt \notin Open',
         \A a \in Open \ Open' :
           a \in excused' \/ ~Unwritten(a) \/ \E w \in ws : \E j \in w.jobs : j.attempt = a,
         pc = "retrying" => started \notin Open',
         \A w \in ws : \A j \in w.jobs :
           j.status = "success" => j.attempt = started /\ seen' = "success",
         seen' = "success" =>
           /\ started \in Open
           /\ \E w \in ws : \E j \in w.jobs : j.attempt = started /\ j.status = "success"
  PROVE  RowInv'
<1>1. Open \subseteq 1 .. started /\ 1 .. started \subseteq Attempts /\ started \in Nat
  BY OpenStarted DEF RowInv, Types
<1>2. \A a : Unwritten(a)' <=> Unwritten(a)
  BY DEF Unwritten
<1>3. \A a : Assigned(a)' <=> Assigned(a) \/ \E w \in ws : \E j \in w.jobs : j.attempt = a
  BY DEF Assigned
<1>4. OpenFree'
  BY <1>1, <1>2, <1>3 DEF RowInv, OpenFree
<1>5. /\ \A w \in writers : \A j \in w.jobs : j.attempt # 0 => j.attempt \notin Open
      /\ pc = "failed" => writers = {}
  BY DEF RowInv, OpenFree, Assigned, Untold
<1>6. Jobs'
  <2>1. ASSUME NEW w \in writers', NEW j \in w.jobs
        PROVE  /\ j.attempt \in 0 .. started
               /\ j.status \in {"superseded"} \union Final
               /\ j.attempt # 0 => Unwritten(j.attempt)
                    \/ (row[j.attempt] = "superseded" /\ j.status = "cancelled")
    <3>1. CASE w \in writers
      BY <3>1 DEF RowInv, Jobs
    <3>2. CASE w \in ws
      <4>1. /\ j.status \in {"superseded"} \union Final
            /\ \/ j.attempt \in {0} \union Open
               \/ j.attempt = started /\ pc = "failed" /\ j.status = "cancelled"
        BY <3>2 DEF JobsFit
      <4>2. j.attempt # 0 => \/ Unwritten(j.attempt)
                             \/ j.attempt = started /\ pc = "retrying"
                             \/ row[j.attempt] = "superseded" /\ j.status = "cancelled"
        <5>1. CASE j.attempt \in {0} \union Open
          BY <5>1 DEF RowInv, OpenFree
        <5>2. CASE j.attempt = started /\ pc = "failed" /\ j.status = "cancelled"
          <6>1. j.attempt # 0 => j.attempt \in Attempts
            BY <1>1, <5>2
          <6> QED
            BY <5>2, <6>1 DEF RowInv, Untold
        <5> QED
          BY <4>1, <5>1, <5>2
      <4>3. pc = "retrying" => j.status = "cancelled"
        BY <3>2 DEF JobsFit
      <4>4. pc = "retrying" => row[started] = "superseded" \/ Unwritten(started)
        BY DEF RowInv, OpenFree
      <4>5. j.attempt \in 0 .. started
        <5>1. started \in Nat /\ Open \subseteq 1 .. started
          BY <1>1
        <5>2. j.attempt = 0 \/ j.attempt \in 1 .. started \/ j.attempt = started
          BY <4>1, <5>1
        <5> QED
          BY <5>1, <5>2
      <4>6. j.attempt # 0 => \/ Unwritten(j.attempt)
                             \/ row[j.attempt] = "superseded" /\ j.status = "cancelled"
        BY <4>2, <4>3, <4>4
      <4> QED
        BY <4>1, <4>5, <4>6
    <3> QED
      BY <3>1, <3>2
  <2>2. ASSUME NEW w \in writers', NEW j \in w.jobs, j.attempt # 0,
               NEW v \in writers', NEW i \in v.jobs, i.attempt = j.attempt
        PROVE  v = w /\ i = j
    <3>1. CASE w \in writers /\ v \in writers
      BY <2>2, <3>1 DEF RowInv, Jobs
    <3>2. CASE w \in ws /\ v \in ws
      BY <2>2, <3>2 DEF JobsFit
    <3>3. CASE w \in writers /\ v \in ws
      BY <1>5, <2>2, <3>3 DEF JobsFit
    <3>4. CASE w \in ws /\ v \in writers
      BY <1>5, <2>2, <3>4 DEF JobsFit
    <3> QED
      BY <3>1, <3>2, <3>3, <3>4
  <2> QED
    BY <1>2, <2>1, <2>2 DEF Jobs
<1>7. Covered'
  BY <1>2, <1>3 DEF RowInv, Covered
<1>8. Credit'
  <2>1. \A w \in writers : \A j \in w.jobs : j.status # "success"
    BY DEF RowInv, Credit
  <2>2. \A a \in Attempts : row[a] # "success"
    BY DEF RowInv, Credit
  <2>3. seen' = "success" => started > 0
    BY <1>1
  <2> QED
    BY <2>1, <2>2, <2>3 DEF Credit
<1>9. Untold'
  BY DEF Untold
<1> QED
  BY <1>4, <1>6, <1>7, <1>8, <1>9 DEF RowInv

(* The jobs the handler gives its recorder calls.                          *)
LEMMA OriginalJobs ==
  ASSUME NEW w \in OriginalWriters, NEW j \in w.jobs
  PROVE  original # 0 /\ w = Writer("pending", {Job(original, "superseded")})
           /\ j = Job(original, "superseded") /\ j.attempt = original
           /\ j.status = "superseded"
BY DEF OriginalWriters, Writer, Job

LEMMA OriginalAssigned ==
  ASSUME original # 0
  PROVE  \E w \in OriginalWriters : \E j \in w.jobs : j.attempt = original
BY DEF OriginalWriters, Writer, Job

LEMMA PrimaryJobsOf ==
  ASSUME NEW s, NEW j \in PrimaryJobs(s)
  PROVE  \/ j.attempt = 0 /\ j.status = "failed"
         \/ primary \notin {Skipped, Phantom} /\ j = Job(primary, s) /\ j.attempt = primary
              /\ j.status = s
BY DEF PrimaryJobs, Job, Unowned

LEMMA PrimaryAssigned ==
  ASSUME NEW s, primary \notin {Skipped, Phantom}
  PROVE  \E j \in PrimaryJobs(s) : j.attempt = primary
BY DEF PrimaryJobs, Job

LEMMA FallbackJobsOf ==
  ASSUME NEW last, NEW w \in FallbackWriters(last), NEW j \in w.jobs
  PROVE  /\ w = Writer("pending", FallbackJobs(last))
         /\ \/ j.attempt = 0 /\ j.status = "failed"
            \/ \E i \in DOMAIN losers :
                 /\ losers[i] \notin {Skipped, Phantom}
                 /\ j = Job(losers[i], IF \A k \in Contacted : k <= i
                                         THEN last ELSE "superseded")
                 /\ j.attempt = losers[i] /\ j.status \in {last, "superseded"}
<1>1. w = Writer("pending", FallbackJobs(last)) /\ j \in FallbackJobs(last)
  BY DEF FallbackWriters, Writer
<1>2. CASE \A i \in Contacted : losers[i] = Phantom
  BY <1>1, <1>2 DEF FallbackJobs, Unowned
<1>3. CASE ~\A i \in Contacted : losers[i] = Phantom
  <2>1. PICK i \in Contacted :
          j = IF losers[i] = Phantom
                THEN Unowned({PrimaryNumber + Rank(i)})
                ELSE Job(losers[i],
                         IF \A k \in Contacted : k <= i THEN last ELSE "superseded")
    BY <1>1, <1>3 DEF FallbackJobs
  <2>2. CASE losers[i] = Phantom
    BY <1>1, <2>1, <2>2 DEF Unowned
  <2>3. CASE losers[i] # Phantom
    BY <1>1, <2>1, <2>3 DEF Job, Contacted
  <2> QED
    BY <2>2, <2>3
<1> QED
  BY <1>2, <1>3

LEMMA FallbackAssigned ==
  ASSUME NEW last, NEW i \in DOMAIN losers, losers[i] \notin {Skipped, Phantom}
  PROVE  \E w \in FallbackWriters(last) : \E j \in w.jobs : j.attempt = losers[i]
<1>1. i \in Contacted /\ Contacted # {} /\ ~\A k \in Contacted : losers[k] = Phantom
  BY DEF Contacted
<1>2. Job(losers[i], IF \A k \in Contacted : k <= i THEN last ELSE "superseded")
        \in FallbackJobs(last)
  BY <1>1 DEF FallbackJobs
<1>3. Writer("pending", FallbackJobs(last)) \in FallbackWriters(last)
  BY <1>1 DEF FallbackWriters
<1> QED
  BY <1>2, <1>3 DEF Writer, Job

-----------------------------------------------------------------------------
(* The steps of the handler.                                               *)

LEMMA InitRows == Init => RowInv
<1> SUFFICES ASSUME Init PROVE RowInv
  OBVIOUS
<1>1. LedgerInv
  BY DEF Init, LedgerInv, Final
<1>2. started = 0 /\ primary = 0 /\ original = 0 /\ losers = <<>> /\ writers = {}
        /\ pc = "ingress" /\ leg = "primary"
  BY DEF Init, Skipped
<1>3. Lost = {} /\ Earlier = {} /\ Open = {}
  BY <1>2 DEF Lost, Earlier, Open, Skipped, Phantom, Ended, Calling, Reported
<1>4. Types
  BY <1>2, <1>3, LedgerAssumption DEF Init, Types, Marked, Skipped, RowStatus, Attempts
<1>5. Legs /\ Distinct
  BY <1>2, <1>3 DEF Legs, Distinct, Ended, Calling, Reported, Skipped
<1>6. OpenFree /\ Jobs /\ Covered
  BY <1>2, <1>3 DEF OpenFree, Jobs, Covered
<1>7. Credit
  BY <1>2 DEF Credit, Init
<1>8. Untold
  BY DEF Init, Untold, Unwritten
<1> QED
  BY <1>1, <1>4, <1>5, <1>6, <1>7, <1>8 DEF RowInv

(* A provider call that is begun.                                          *)
LEMMA Started ==
  ASSUME Types, StartAttempt, row' = row, primary' = primary, original' = original,
         losers' = losers
  PROVE  Types' /\ started' = started + 1 /\ Lost' = Lost /\ Earlier' = Earlier
<1>1. started' = started + 1 /\ started' \in Attempts /\ Marked \subseteq Marked'
  BY LedgerAssumption DEF Types, StartAttempt, Marked, Attempts
<1>2. Lost' = Lost /\ Earlier' = Earlier
  BY DEF Lost, Earlier
<1>3. pendingWrite' \in [Attempts -> {"none", "writing", "true", "false"}]
  BY DEF Types, StartAttempt
<1>4. \A a \in Attempts : a > started' => row'[a] = "none" /\ pendingWrite'[a] = "none"
  BY <1>1 DEF Types, StartAttempt, Attempts
<1>5. \A a \in Attempts : pendingWrite'[a] = "true" => row'[a] # "none"
  BY <1>1 DEF Types, StartAttempt
<1> QED
  BY <1>1, <1>2, <1>3, <1>4, <1>5 DEF Types, Attempts

LEMMA NotStarted ==
  ASSUME Types, NoAttempt, row' = row, primary' \in Marked, original' \in 0 .. started,
         losers' \in Seq(Int), Lost' \subseteq Marked
  PROVE  Types' /\ started' = started
BY DEF Types, NoAttempt, Marked

LEMMA StartPrimaryKeeps ==
  ASSUME RowInv, LedgerInv', StartPrimary PROVE RowInv'
<1>1. pc = "route" /\ pc' = "calling" /\ leg' = leg /\ seen = "none"
  BY DEF StartPrimary, RowInv, LedgerInv
<1>2. Types' /\ started' = started + 1 /\ Lost' = Lost /\ Earlier' = Earlier
  BY Started DEF StartPrimary, RowInv, Unrecorded, ledger
<1>3. started = 0 /\ leg = "primary" /\ primary = Skipped /\ original = 0 /\ losers = <<>>
  BY <1>1 DEF RowInv, Legs, Ended
<1>4. Earlier = {}
  BY <1>3 DEF Earlier, Lost, Skipped
<1>5. Legs' /\ Distinct'
  BY <1>1, <1>2, <1>3, <1>4 DEF StartPrimary, Legs, Distinct, Ended, Calling, Reported, Skipped
<1>6. Open' = {started'} /\ Open = {}
  BY <1>1, <1>2, <1>3, <1>4 DEF Open, Ended, Calling, Reported
<1> QED
  BY <1>1, <1>2, <1>5, <1>6, Moves DEF StartPrimary, Unrecorded, ledger

LEMMA RescueKeeps ==
  ASSUME RowInv, LedgerInv', Rescue PROVE RowInv'
<1>1. pc = "route" /\ pc' = "calling" /\ leg' = "rescue" /\ seen = "none"
  BY DEF Rescue, RowInv, LedgerInv
<1>2. Types' /\ started' = started + 1 /\ Lost' = Lost /\ Earlier' = Earlier
  BY Started DEF Rescue, RowInv, Unrecorded, ledger
<1>3. started = 0 /\ leg = "primary" /\ primary = Skipped /\ original = 0 /\ losers = <<>>
  BY <1>1 DEF RowInv, Legs, Ended
<1>4. Earlier = {}
  BY <1>3 DEF Earlier, Lost, Skipped
<1>5. Legs' /\ Distinct'
  BY <1>1, <1>2, <1>3, <1>4 DEF Rescue, Legs, Distinct, Ended, Calling, Reported, Skipped
<1>6. Open' = {started'} /\ Open = {}
  BY <1>1, <1>2, <1>3, <1>4 DEF Open, Ended, Calling, Reported
<1> QED
  BY <1>1, <1>2, <1>5, <1>6, Moves DEF Rescue, Unrecorded, ledger

LEMMA IngressKeeps ==
  ASSUME RowInv, LedgerInv', Ingress PROVE RowInv'
<1>1. pc = "ingress" /\ pc' = "route" /\ seen = "none"
  BY DEF Ingress, RowInv, LedgerInv
<1>2. UNCHANGED <<started, primary, original, losers, leg, row, pendingWrite, writers,
                  excused, seen>>
  BY DEF Ingress
<1>3. Lost' = Lost /\ Earlier' = Earlier
  BY <1>2 DEF Lost, Earlier
<1>4. Types' /\ Legs' /\ Distinct' /\ Open' = Open
  BY <1>1, <1>2, <1>3 DEF RowInv, Types, Legs, Distinct, Open, Marked, Ended, Calling, Reported
<1> QED
  BY <1>1, <1>2, <1>4, Moves

LEMMA Appended ==
  ASSUME Types, NEW m \in Int, losers' = Append(losers, m)
  PROVE  /\ losers' \in Seq(Int) /\ Lost' = Lost \union {m}
         /\ DOMAIN losers \subseteq DOMAIN losers'
         /\ \A i \in DOMAIN losers : losers'[i] = losers[i]
         /\ \A i \in DOMAIN losers' : i \in DOMAIN losers \/ losers'[i] = m
         /\ \A i, k \in DOMAIN losers' : i # k => i \in DOMAIN losers \/ k \in DOMAIN losers
<1>1. losers \in Seq(Int) /\ Len(losers) \in Nat /\ DOMAIN losers = 1 .. Len(losers)
  BY DEF Types
<1>2. losers' \in Seq(Int) /\ DOMAIN losers' = 1 .. Len(losers) + 1
        /\ losers'[Len(losers) + 1] = m
        /\ \A i \in 1 .. Len(losers) : losers'[i] = losers[i]
  BY <1>1
<1>3. Lost' = Lost \union {m}
  BY <1>1, <1>2 DEF Lost
<1> QED
  BY <1>1, <1>2, <1>3

(* Another attempt, or a marker, joins those that lost.                    *)
LEMMA Joins ==
  ASSUME Types, Distinct, ~Ended, ~Reported, NEW m \in Int,
         losers' = Append(losers, m), m \notin Earlier,
         primary' = primary, original' = original, pc' \notin {"serving"},
         pc # "serving", Calling' => started' \notin Earlier'
  PROVE  Distinct' /\ Earlier' = Earlier \union ({m} \ {Skipped, Phantom})
<1>1. Earlier' = Earlier \union ({m} \ {Skipped, Phantom})
  BY Appended DEF Earlier
<1>2. ASSUME NEW i \in DOMAIN losers', losers'[i] > 0
      PROVE  /\ losers'[i] \notin {primary, original}
             /\ \A k \in DOMAIN losers' \ {i} : losers'[k] # losers'[i]
  <2>1. m > 0 => m \notin {primary, original} /\ \A k \in DOMAIN losers : losers[k] # m
    BY DEF Earlier, Lost, Skipped, Phantom
  <2>2. i \in DOMAIN losers => losers[i] \notin {primary, original}
    BY <1>2, Appended DEF Distinct
  <2>3. ASSUME NEW k \in DOMAIN losers' \ {i} PROVE losers'[k] # losers'[i]
    <3>1. CASE i \in DOMAIN losers /\ k \in DOMAIN losers
      BY <1>2, <3>1, Appended DEF Distinct
    <3>2. CASE i \notin DOMAIN losers
      BY <1>2, <2>1, <2>3, <3>2, Appended
    <3>3. CASE k \notin DOMAIN losers
      BY <1>2, <2>1, <2>3, <3>3, Appended
    <3> QED
      BY <3>1, <3>2, <3>3
  <2> QED
    BY <1>2, <2>1, <2>2, <2>3, Appended
<1> QED
  BY <1>1, <1>2 DEF Distinct

LEMMA FailedLeg ==
  ASSUME RowInv, pc \in {"calling", "retrying"}, NEW m \in {Skipped, Phantom, started},
         LegFailed(m), pc' \in {"failed", "ended"}, NoAttempt, row' = row
  PROVE  /\ Types' /\ Legs' /\ Distinct' /\ started' = started
         /\ Open' = Earlier \union ({m} \ {Skipped, Phantom})
<1>1. Types /\ Legs /\ Distinct /\ ~Ended /\ ~Reported /\ Calling /\ started > 0 /\ started \in Nat
  BY DEF RowInv, Ended, Reported, Calling, Legs, Types
<1>2. started \notin Earlier /\ m \in Int /\ m \in Marked
  BY <1>1 DEF Distinct, Marked, Skipped, Phantom
<1>3. ~Ended' /\ ~Reported' /\ ~Calling'
  BY DEF Ended, Reported, Calling
<1>4. CASE leg = "primary"
  <2>1. primary' = m /\ primary = 0 /\ original = 0 /\ original' = 0 /\ losers = <<>>
          /\ losers' = losers /\ leg' = leg
    BY <1>1, <1>4 DEF LegFailed, Legs, Skipped
  <2>2. Lost = {} /\ Lost' = {} /\ Earlier = {} /\ Earlier' = {m} \ {Skipped, Phantom}
    BY <2>1 DEF Lost, Earlier, Skipped
  <2>3. Types' /\ started' = started
    BY <1>1, <1>2, <2>1, <2>2, NotStarted DEF Types
  <2>4. Legs' /\ Distinct'
    BY <1>1, <1>3, <1>4, <2>1, <2>2, <2>3 DEF Legs, Distinct, Skipped, Phantom
  <2> QED
    BY <1>3, <2>2, <2>3, <2>4 DEF Open
<1>5. CASE leg = "heal"
  <2>1. primary' = m /\ original = 0 /\ original' = primary /\ losers = <<>>
          /\ losers' = losers /\ leg' = "fallback" /\ primary > 0
    BY <1>1, <1>5 DEF LegFailed, Legs
  <2>2. Lost = {} /\ Lost' = {} /\ Earlier = {primary}
          /\ Earlier' = {primary} \union ({m} \ {Skipped, Phantom})
    BY <1>1, <2>1 DEF Lost, Earlier, Skipped, Phantom
  <2>3. original' \in 0 .. started
    BY <1>1, <2>1 DEF Types, Marked, Skipped, Phantom
  <2>4. Types' /\ started' = started
    BY <1>1, <1>2, <2>1, <2>2, <2>3, NotStarted DEF Types
  <2>5. primary # m
    BY <1>2, <2>1, <2>2 DEF Skipped, Phantom
  <2>6. Legs' /\ Distinct'
    BY <1>1, <1>3, <2>1, <2>2, <2>4, <2>5 DEF Legs, Distinct, Skipped, Phantom
  <2> QED
    BY <1>3, <2>2, <2>4, <2>6 DEF Open
<1>6. CASE leg = "fallback"
  <2>1. UNCHANGED <<primary, original, leg>> /\ losers' = Append(losers, m)
    BY <1>6 DEF LegFailed
  <2>2. Lost' \subseteq Marked /\ losers' \in Seq(Int)
    <3>1. Lost' = Lost \union {m} /\ losers' \in Seq(Int)
      BY <1>1, <1>2, <2>1, Appended
    <3> QED
      BY <1>1, <1>2, <3>1 DEF Types
  <2>3. Types' /\ started' = started
    BY <1>1, <2>1, <2>2, NotStarted DEF Types
  <2>4. Legs'
    BY <1>1, <1>3, <1>6, <2>1, <2>3 DEF Legs
  <2>5. m \notin Earlier
    BY <1>2 DEF Earlier
  <2>6. Distinct' /\ Earlier' = Earlier \union ({m} \ {Skipped, Phantom})
    BY <1>1, <1>2, <1>3, <2>1, <2>5, Joins DEF Calling
  <2> QED
    BY <1>3, <2>3, <2>4, <2>6 DEF Open
<1> QED
  BY <1>4, <1>5, <1>6 DEF LegFailed

(* The attempt at hand is open, with those before it.                      *)
LEMMA AtCall ==
  ASSUME RowInv, pc \in {"calling", "superseding", "retrying"}
  PROVE  /\ Open = Earlier \union {started} /\ started \notin Earlier
         /\ started > 0 /\ seen = "none"
BY DEF RowInv, Open, Ended, Calling, Reported, Distinct, Legs, LedgerInv

LEMMA AnswerFailsKeeps ==
  ASSUME RowInv, LedgerInv', AnswerFails PROVE RowInv'
<1>1. pc = "calling" /\ LegFailed(started) /\ pc' \in {"failed", "ended"} /\ NoAttempt
        /\ UNCHANGED <<row, writers, seen, excused>>
  BY DEF AnswerFails, Unrecorded, ledger
<1>2. Types' /\ Legs' /\ Distinct' /\ started' = started
        /\ Open' = Earlier \union ({started} \ {Skipped, Phantom})
  BY <1>1, FailedLeg
<1>3. Open = Earlier \union {started} /\ seen = "none" /\ Open' \subseteq Open
  BY <1>1, <1>2, AtCall
<1>4. Open \ Open' = {}
  BY <1>1, <1>2, <1>3, AtCall DEF Skipped, Phantom
<1> QED
  BY <1>1, <1>2, <1>3, <1>4, Moves

LEMMA RetryKeeps ==
  ASSUME RowInv, LedgerInv', Retry PROVE RowInv'
<1>1. pc = "retrying" /\ UNCHANGED <<row, writers, seen, excused>>
  BY DEF Retry, Unrecorded, ledger
<1>2. started \in excused \/ ~Unwritten(started)
  BY <1>1 DEF RowInv, OpenFree, Unwritten
<1>3. Open = Earlier \union {started} /\ started \notin Earlier /\ seen = "none" /\ started > 0
  BY <1>1, AtCall
<1>4. CASE pc' = "calling" /\ StartAttempt /\ UNCHANGED <<leg, primary, original, losers>>
  <2>1. Types' /\ started' = started + 1 /\ Earlier' = Earlier
    BY <1>1, <1>4, Started DEF RowInv
  <2>2. Earlier \subseteq 1 .. started /\ started \in Nat
    BY <1>3, OpenStarted DEF RowInv, Types
  <2>3. Legs' /\ Distinct'
    BY <1>1, <1>3, <1>4, <2>1, <2>2 DEF RowInv, Legs, Distinct, Ended, Calling, Reported
  <2>4. Open' = Earlier \union {started'}
    BY <1>4, <2>1 DEF Open, Ended, Calling, Reported
  <2> QED
    BY <1>1, <1>2, <1>3, <1>4, <2>1, <2>2, <2>3, <2>4, Moves
<1>5. CASE LegFailed(Phantom) /\ pc' = "failed" /\ NoAttempt
  <2>1. Types' /\ Legs' /\ Distinct' /\ started' = started
          /\ Open' = Earlier \union ({Phantom} \ {Skipped, Phantom})
    BY <1>1, <1>5, FailedLeg
  <2>2. Open' = Earlier
    BY <2>1
  <2> QED
    BY <1>1, <1>2, <1>3, <1>5, <2>1, <2>2, Moves
<1> QED
  BY <1>4, <1>5 DEF Retry

LEMMA AnswerOkKeeps ==
  ASSUME RowInv, LedgerInv', AnswerOk PROVE RowInv'
<1>1. pc = "calling" /\ pc' = "won" /\ NoAttempt
        /\ UNCHANGED <<row, writers, seen, excused, leg, primary, original, losers>>
  BY DEF AnswerOk, Unrecorded, ledger
<1>2. Lost' = Lost /\ Earlier' = Earlier
  BY <1>1 DEF Lost, Earlier
<1>3. Types' /\ started' = started
  BY <1>1, <1>2, NotStarted DEF RowInv, Types
<1>4. Legs' /\ Distinct'
  BY <1>1, <1>2, <1>3 DEF RowInv, Legs, Distinct, Ended, Calling, Reported
<1>5. Open' = Open
  BY <1>1, <1>2, <1>3 DEF Open, Ended, Calling, Reported
<1> QED
  BY <1>1, <1>3, <1>4, <1>5, AtCall, Moves

LEMMA TokenRejectedKeeps ==
  ASSUME RowInv, LedgerInv', TokenRejected PROVE RowInv'
<1>1. pc = "calling" /\ pc' = "superseding" /\ NoAttempt
        /\ UNCHANGED <<row, writers, seen, excused, leg, primary, original, losers>>
  BY DEF TokenRejected, Unrecorded, ledger
<1>2. Lost' = Lost /\ Earlier' = Earlier
  BY <1>1 DEF Lost, Earlier
<1>3. Types' /\ started' = started
  BY <1>1, <1>2, NotStarted DEF RowInv, Types
<1>4. Legs' /\ Distinct'
  BY <1>1, <1>2, <1>3 DEF RowInv, Legs, Distinct, Ended, Calling, Reported
<1>5. Open' = Open
  BY <1>1, <1>2, <1>3 DEF Open, Ended, Calling, Reported
<1> QED
  BY <1>1, <1>3, <1>4, <1>5, AtCall, Moves

LEMMA WarmupFailsKeeps ==
  ASSUME RowInv, LedgerInv', WarmupFails PROVE RowInv'
<1>1. pc = "won" /\ pc' = "failed" /\ NoAttempt /\ leg \in {"primary", "heal"}
        /\ leg' = "fallback" /\ primary' = started
        /\ UNCHANGED <<row, writers, seen, excused, losers>>
  BY DEF WarmupFails, Unrecorded, ledger
<1>2. losers = <<>> /\ original = 0 /\ seen = "none" /\ started > 0 /\ started \in Nat
        /\ started \notin Earlier
  BY <1>1 DEF RowInv, Legs, Ended, LedgerInv, Types, Calling, Distinct, Reported
<1>3. Lost = {} /\ Lost' = {}
  BY <1>1, <1>2 DEF Lost
<1>4. original' = IF leg = "heal" THEN primary ELSE 0
  BY <1>2 DEF WarmupFails
<1>5. /\ leg = "primary" => primary = 0
      /\ leg = "heal" => primary > 0 /\ primary \in 1 .. started /\ primary # started
  BY <1>1, <1>2 DEF RowInv, Legs, Ended, Types, Marked, Skipped, Phantom, Earlier
<1>6. Types' /\ started' = started
  <2>1. original' \in 0 .. started /\ primary' \in Marked
    BY <1>1, <1>2, <1>4, <1>5 DEF Marked
  <2>2. losers' \in Seq(Int) /\ Lost' \subseteq Marked
    BY <1>1, <1>3 DEF RowInv, Types
  <2> QED
    BY <1>1, <2>1, <2>2, NotStarted DEF RowInv
<1>7. Legs' /\ Distinct'
  BY <1>1, <1>2, <1>3, <1>4, <1>5, <1>6 DEF Legs, Distinct, Ended, Calling, Reported
<1>8. Open = Earlier \union {started}
  BY <1>1 DEF Open, Ended, Calling, Reported
<1>9. Open' = Open
  <2>1. Open' = ({started, original'} \union {}) \ {0, -1}
    BY <1>1, <1>3 DEF Open, Ended, Calling, Reported, Earlier, Skipped, Phantom
  <2>2. Open = (({primary, 0} \union {}) \ {0, -1}) \union {started}
    BY <1>2, <1>3, <1>8 DEF Earlier, Skipped, Phantom
  <2> QED
    BY <1>1, <1>2, <1>4, <1>5, <2>1, <2>2
<1> QED
  BY <1>1, <1>2, <1>6, <1>7, <1>9, Moves

LEMMA PrimaryStopsKeeps ==
  ASSUME RowInv, LedgerInv', PrimaryStops PROVE RowInv'
<1>1. pc = "route" /\ pc' = "failed" /\ leg' = "fallback" /\ seen = "none"
        /\ UNCHANGED <<row, writers, seen, excused, losers, original>>
  BY DEF PrimaryStops, Unrecorded, ledger, RowInv, LedgerInv
<1>2. started = 0 /\ primary = Skipped /\ original = 0 /\ losers = <<>>
  BY <1>1 DEF RowInv, Legs, Ended
<1>3. Lost = {} /\ Lost' = {} /\ Earlier = {} /\ Open = {}
  BY <1>1, <1>2 DEF Lost, Earlier, Open, Skipped, Phantom, Ended, Calling, Reported
<1>4. Distinct'
  BY <1>1, <1>2 DEF Distinct, Calling, Ended, Reported
<1>5. CASE primary' \in {Skipped, Phantom} /\ NoAttempt
  <2>1. Types' /\ started' = started
    BY <1>1, <1>3, <1>5, NotStarted DEF RowInv, Types, Marked
  <2>2. Open' = {}
    BY <1>1, <1>2, <1>3, <1>5 DEF Open, Earlier, Skipped, Phantom, Ended, Calling, Reported
  <2>3. Legs'
    BY <1>1, <1>2 DEF Legs, Ended, Calling
  <2> QED
    BY <1>1, <1>3, <1>4, <2>1, <2>2, <2>3, Moves
<1>6. CASE primary' = started + 1 /\ StartAttempt
  <2>1. started' = started + 1 /\ started' \in Attempts
    BY <1>6, LedgerAssumption DEF StartAttempt, RowInv, Types, Attempts
  <2>2. Types'
    BY <1>1, <1>2, <1>3, <1>6, <2>1, LedgerAssumption
    DEF StartAttempt, RowInv, Types, Attempts, Marked
  <2>3. Open' = {started'}
    BY <1>1, <1>2, <1>3, <1>6, <2>1
    DEF Open, Earlier, Skipped, Phantom, Ended, Calling, Reported
  <2>4. Legs'
    BY <1>1, <1>2 DEF Legs, Ended, Calling
  <2> QED
    BY <1>1, <1>3, <1>4, <2>1, <2>2, <2>3, <2>4, Moves
<1> QED
  BY <1>5, <1>6 DEF PrimaryStops

(* Between two legs: nothing is under way.                                 *)
LEMMA Between ==
  ASSUME RowInv, pc \in {"failed", "ended"}
  PROVE  Open = Earlier /\ seen = "none" /\ ~Ended /\ ~Calling /\ ~Reported
           /\ started \in Nat /\ Earlier \subseteq 1 .. started
<1>1. Open = Earlier /\ ~Ended /\ ~Calling /\ ~Reported
  BY DEF Open, Ended, Calling, Reported
<1>2. seen = "none" /\ started \in Nat
  BY DEF RowInv, LedgerInv, Types
<1> QED
  BY <1>1, <1>2, OpenStarted DEF RowInv

LEMMA HealKeeps ==
  ASSUME RowInv, LedgerInv', Heal PROVE RowInv'
<1>1. pc \in {"failed", "ended"} /\ leg = "primary" /\ primary \in Attempts
        /\ UNCHANGED <<row, writers, seen, excused, losers>>
  BY DEF Heal, Unrecorded, ledger
<1>2. Open = Earlier /\ seen = "none" /\ started \in Nat /\ Earlier \subseteq 1 .. started
  BY <1>1, Between
<1>3. losers = <<>> /\ original = 0 /\ primary > 0
  BY <1>1, LedgerAssumption DEF RowInv, Legs, Ended, Attempts
<1>4. Lost = {} /\ Lost' = {} /\ Earlier = {primary}
  BY <1>1, <1>3 DEF Lost, Earlier, Skipped, Phantom
<1>5. CASE pc' = "calling" /\ leg' = "heal" /\ StartAttempt /\ UNCHANGED <<primary, original>>
  <2>1. Types' /\ started' = started + 1 /\ Earlier' = Earlier
    BY <1>1, <1>5, Started DEF RowInv
  <2>2. Legs' /\ Distinct'
    BY <1>1, <1>2, <1>3, <1>4, <1>5, <2>1 DEF Legs, Distinct, Ended, Calling, Reported
  <2>3. Open' = Earlier \union {started'}
    BY <1>5, <2>1 DEF Open, Ended, Calling, Reported
  <2> QED
    BY <1>1, <1>2, <2>1, <2>2, <2>3, <1>5, Moves
<1>6. CASE pc' = "failed" /\ leg' = "fallback" /\ original' = primary
             /\ primary' \in {Skipped, Phantom} /\ NoAttempt
  <2>1. original' \in 0 .. started
    BY <1>2, <1>4, <1>6
  <2>2. Types' /\ started' = started
    BY <1>1, <1>4, <1>6, <2>1, NotStarted DEF RowInv, Types, Marked
  <2>3. Earlier' = {primary}
    BY <1>3, <1>4, <1>6 DEF Earlier, Skipped, Phantom
  <2>4. Legs' /\ Distinct'
    BY <1>1, <1>3, <1>6, <2>2 DEF Legs, Distinct, Ended, Calling, Reported, Skipped, Phantom
  <2>5. Open' = Open
    BY <1>2, <1>4, <1>6, <2>3 DEF Open, Ended, Calling, Reported
  <2> QED
    BY <1>1, <1>2, <1>6, <2>2, <2>4, <2>5, Moves
<1> QED
  BY <1>5, <1>6 DEF Heal

LEMMA NextFallbackKeeps ==
  ASSUME RowInv, LedgerInv', NextFallback PROVE RowInv'
<1>1. pc = "failed" /\ leg' = "fallback"
        /\ UNCHANGED <<row, writers, seen, excused, primary, original>>
  BY DEF NextFallback, Unrecorded, ledger
<1>2. Open = Earlier /\ seen = "none" /\ ~Ended /\ ~Calling /\ ~Reported
        /\ started \in Nat /\ Earlier \subseteq 1 .. started
  BY <1>1, Between
<1>3. CASE pc' = "calling" /\ StartAttempt /\ UNCHANGED losers
  <2>1. Types' /\ started' = started + 1 /\ Earlier' = Earlier
    BY <1>1, <1>3, Started DEF RowInv
  <2>2. Distinct'
    BY <1>1, <1>2, <1>3, <2>1 DEF RowInv, Distinct, Calling
  <2>3. Legs'
    BY <1>1, <1>2, <1>3, <2>1 DEF Legs, Ended, Calling
  <2>4. Open' \subseteq Earlier \union {started'} /\ started' \in Open' /\ Earlier \subseteq Open'
    BY <1>1, <1>3, <2>1 DEF Open, Ended, Calling, Reported
  <2> QED
    BY <1>1, <1>2, <1>3, <2>1, <2>2, <2>3, <2>4, Moves
<1>4. CASE losers' = Append(losers, started + 1) /\ StartAttempt /\ UNCHANGED pc
  <2> DEFINE m == started + 1
  <2>1. started' = m /\ m \in Attempts /\ m \in Int /\ m \notin Earlier
    BY <1>2, <1>4, LedgerAssumption DEF StartAttempt, Attempts
  <2>2. Lost' = Lost \union {m} /\ losers' \in Seq(Int)
    BY <1>4, <2>1, Appended DEF RowInv
  <2>3. Distinct' /\ Earlier' = Earlier \union ({m} \ {Skipped, Phantom})
    BY <1>1, <1>2, <1>4, <2>1, Joins DEF RowInv, Calling
  <2>4. Types'
    <3>1. Marked \subseteq Marked' /\ m \in Marked'
      BY <1>2, <2>1 DEF Marked
    <3>2. primary' \in Marked' /\ original' \in 0 .. started' /\ Lost' \subseteq Marked'
      BY <1>1, <1>2, <2>1, <2>2, <3>1 DEF RowInv, Types
    <3> QED
      BY <1>1, <1>2, <1>4, <2>1, <2>2, <3>2, LedgerAssumption
      DEF RowInv, Types, StartAttempt, Attempts
  <2>5. Legs'
    BY <1>1, <1>2, <1>4 DEF Legs, Ended, Calling
  <2>6. Open' = Earlier \union {m}
    BY <1>1, <1>2, <1>4, <2>3 DEF Open, Ended, Calling, Reported, Skipped, Phantom
  <2> QED
    BY <1>1, <1>2, <1>4, <2>1, <2>3, <2>4, <2>5, <2>6, Moves
<1>5. ASSUME NEW m \in {Skipped, Phantom}, losers' = Append(losers, m), NoAttempt,
             UNCHANGED pc
      PROVE  RowInv'
  <2>1. m \in Int /\ m \notin Earlier /\ m \in Marked
    BY DEF Skipped, Phantom, Earlier, Marked
  <2>2. Lost' = Lost \union {m} /\ losers' \in Seq(Int)
    BY <1>5, <2>1, Appended DEF RowInv
  <2>3. Types' /\ started' = started
    BY <1>1, <1>5, <2>1, <2>2, NotStarted DEF RowInv, Types
  <2>4. Distinct' /\ Earlier' = Earlier \union ({m} \ {Skipped, Phantom})
    BY <1>1, <1>2, <1>5, <2>1, Joins DEF RowInv, Calling
  <2>5. Legs'
    BY <1>1, <1>2, <1>5 DEF Legs, Ended, Calling
  <2>6. Open' = Open
    BY <1>1, <1>2, <1>5, <2>4 DEF Open, Ended, Calling, Reported
  <2> QED
    BY <1>1, <1>2, <1>5, <2>3, <2>4, <2>5, <2>6, Moves
<1> QED
  BY <1>3, <1>4, <1>5 DEF NextFallback

LEMMA SupersedeKeeps ==
  ASSUME RowInv, LedgerInv', Supersede PROVE RowInv'
<1>1. pc = "superseding" /\ pc' = "retrying" /\ seen' = seen /\ excused \subseteq excused'
        /\ UNCHANGED <<leg, started, primary, original, losers, pendingWrite, writers>>
  BY DEF Supersede
<1>2. Open = Earlier \union {started} /\ started \notin Earlier /\ started > 0
        /\ seen = "none"
  BY <1>1, AtCall
<1>3. started \in Attempts /\ Open \subseteq Attempts
  BY <1>2, OpenStarted DEF RowInv
<1>4. Lost' = Lost /\ Earlier' = Earlier /\ Marked' = Marked
  BY <1>1 DEF Lost, Earlier, Marked
<1>5. Open' = Open
  BY <1>1, <1>2, <1>4 DEF Open, Ended, Calling, Reported
<1>6. Legs' /\ Distinct'
  BY <1>1, <1>4 DEF RowInv, Legs, Distinct, Ended, Calling, Reported
<1>7. Unwritten(started) /\ ~Assigned(started)
  BY <1>1, <1>2 DEF RowInv, OpenFree
<1>8. \/ row' = [row EXCEPT ![started] = "superseded"] /\ pendingWrite[started] = "true"
      \/ row' = row /\ started \in excused'
  BY DEF Supersede
<1>9. /\ row' \in [Attempts -> RowStatus]
      /\ \A a \in Attempts : a # started => row'[a] = row[a]
      /\ row'[started] = "superseded" \/ (row'[started] = row[started] /\ started \in excused')
      /\ row'[started] = "none" => row[started] = "none"
  BY <1>3, <1>8 DEF RowInv, Types, RowStatus
<1>10. Types'
  BY <1>1, <1>3, <1>4, <1>9 DEF RowInv, Types
<1>11. \A a : Assigned(a)' <=> Assigned(a)
  BY <1>1 DEF Assigned
<1>12. \A a \in Attempts : a # started => (Unwritten(a)' <=> Unwritten(a))
  BY <1>9 DEF Unwritten
<1>13. OpenFree'
  <2>1. \A a \in Open' : ~Assigned(a)'
    BY <1>5, <1>11 DEF RowInv, OpenFree
  <2>2. \A a \in Open' : Unwritten(a)' \/ (a = started /\ pc' = "retrying")
    BY <1>1, <1>3, <1>5, <1>12 DEF RowInv, OpenFree
  <2>3. row'[started] = "superseded" \/ (started \in excused' /\ Unwritten(started)')
    <3>1. row'[started] = "superseded" \/ (row'[started] = row[started] /\ started \in excused')
      BY <1>9
    <3>2. row[started] \in {"none", "pending"}
      BY <1>7 DEF Unwritten
    <3> QED
      BY <1>1, <3>1, <3>2 DEF Unwritten
  <2> QED
    BY <1>1, <2>1, <2>2, <2>3 DEF OpenFree
<1>14. Jobs'
  <2>1. \A w \in writers : \A j \in w.jobs : j.attempt # started
    BY <1>7 DEF Assigned
  <2>2. \A w \in writers : \A j \in w.jobs :
          j.attempt # 0 => row'[j.attempt] = row[j.attempt]
    BY <1>1, <1>9, <2>1, LedgerAssumption DEF RowInv, Jobs, Types, Attempts
  <2> QED
    BY <1>1, <2>2 DEF RowInv, Jobs, Unwritten
<1>15. Covered'
  BY <1>1, <1>2, <1>3, <1>5, <1>9, <1>11, <1>12, OpenStarted DEF RowInv, Covered
<1>16. Credit'
  <2>1. \A a \in Attempts : row'[a] # "success"
    BY <1>2, <1>7, <1>9 DEF RowInv, Credit, Unwritten
  <2> QED
    BY <1>1, <1>2, <2>1 DEF RowInv, Credit
<1>17. Untold'
  <2>1. \A a \in Attempts : Unwritten(a)' \/ row'[a] = "superseded"
    <3>1. \A a \in Attempts : Unwritten(a) \/ row[a] = "superseded"
      BY <1>1 DEF RowInv, Untold
    <3>2. Unwritten(started)' \/ row'[started] = "superseded"
      BY <1>1, <1>7, <1>9 DEF Unwritten
    <3> QED
      BY <1>1, <1>9, <1>12, <3>1, <3>2
  <2> QED
    BY <1>1, <2>1 DEF RowInv, Untold
<1> QED
  BY <1>6, <1>10, <1>13, <1>14, <1>15, <1>16, <1>17 DEF RowInv

(* The handler is through: whatever it still had to report is assigned, or *)
(* given up.                                                               *)
LEMMA Concludes ==
  ASSUME RowInv, LedgerInv', ~Ended, NEW outcome, NEW ws, Conclude(outcome, ws),
         excused \subseteq excused', JobsFit(ws),
         \A a \in Open :
           a \in excused' \/ ~Unwritten(a) \/ \E w \in ws : \E j \in w.jobs : j.attempt = a,
         \A w \in ws : \A j \in w.jobs :
           j.status = "success" => j.attempt = started /\ outcome = "success",
         outcome = "success" =>
           /\ started \in Open
           /\ \E w \in ws : \E j \in w.jobs : j.attempt = started /\ j.status = "success"
  PROVE  RowInv'
<1>1. pc' = "done" /\ seen' = outcome /\ writers' = writers \union ws /\ seen = "none"
        /\ UNCHANGED <<leg, started, primary, original, losers, row, pendingWrite>>
  BY DEF Conclude, ledger, RowInv, LedgerInv, Ended
<1>2. Lost' = Lost /\ Marked' = Marked /\ Ended' /\ ~Calling'
  BY <1>1 DEF Lost, Marked, Ended, Calling
<1>3. Types' /\ Legs' /\ Distinct' /\ Open' = {}
  BY <1>1, <1>2 DEF RowInv, Types, Legs, Distinct, Open
<1> QED
  BY <1>1, <1>3, HandsOver

LEMMA HealAbandonedKeeps ==
  ASSUME RowInv, LedgerInv', HealAbandoned PROVE RowInv'
<1>1. pc \in {"calling", "retrying"} /\ excused' = excused \union {started}
  BY DEF HealAbandoned
<1>2. Open = Earlier \union {started} /\ started \notin Earlier /\ seen = "none"
  BY <1>1, AtCall
<1>3. CASE leg = "heal" /\ leg' = "fallback" /\ pc' \in {"failed", "ended"}
             /\ UNCHANGED <<started, primary, original, losers, seen, row, pendingWrite, writers>>
  <2>1. Lost' = Lost /\ Earlier' = Earlier /\ Marked' = Marked
    BY <1>3 DEF Lost, Earlier, Marked
  <2>2. Types' /\ Legs' /\ Distinct'
    BY <1>1, <1>3, <2>1 DEF RowInv, Types, Legs, Distinct, Ended, Calling, Reported
  <2>3. Open' = Earlier
    BY <1>3, <2>1 DEF Open, Ended, Calling, Reported
  <2> QED
    BY <1>1, <1>2, <1>3, <2>2, <2>3, Moves
<1>4. CASE leg = "rescue" /\ Conclude("failed", {Writer("failed", {})})
  <2>1. ~Ended /\ JobsFit({Writer("failed", {})})
    BY <1>1 DEF Ended, JobsFit, Writer
  <2>2. losers = <<>> /\ original = 0 /\ primary = 0
    BY <1>1, <1>4 DEF RowInv, Legs, Ended, Skipped
  <2>3. Earlier = {}
    BY <2>2 DEF Earlier, Lost, Skipped
  <2> QED
    BY <1>1, <1>2, <1>4, <2>1, <2>3, Concludes DEF Writer
<1> QED
  BY <1>3, <1>4 DEF HealAbandoned, ledger

LEMMA RefuseKeeps ==
  ASSUME RowInv, LedgerInv', Refuse PROVE RowInv'
<1>1. pc = "route" /\ ~Ended /\ excused' = excused
  BY DEF Refuse, Ended
<1>2. Open = {}
  BY <1>1 DEF RowInv, Legs, Ended, Calling, Open, Earlier, Reported, Lost, Skipped
<1>3. PICK outcome \in {"failed", "cancelled"} : Conclude(outcome, {Writer(outcome, {})})
  BY DEF Refuse
<1>4. JobsFit({Writer(outcome, {})})
  BY DEF JobsFit, Writer
<1> QED
  BY <1>1, <1>2, <1>3, <1>4, Concludes DEF Writer

LEMMA RescueFailsKeeps ==
  ASSUME RowInv, LedgerInv', RescueFails PROVE RowInv'
<1> DEFINE ws == {Writer("failed", {Completion(started)})}
<1>1. pc = "calling" /\ leg = "rescue" /\ ~Ended /\ excused' = excused
        /\ Conclude("failed", ws)
  BY DEF RescueFails, Ended
<1>2. Open = Earlier \union {started} /\ started > 0
  BY <1>1, AtCall
<1>3. Earlier = {}
  BY <1>1 DEF RowInv, Legs, Ended, Calling, Earlier, Lost, Skipped
<1>4. \A w \in ws : \A j \in w.jobs :
        /\ w = Writer("failed", {Completion(started)}) /\ j = Completion(started)
        /\ j.attempt = started /\ j.status = "failed"
  BY DEF Writer, Completion
<1>5. JobsFit(ws)
  <2> HIDE DEF ws
  <2> QED
    BY <1>1, <1>2, <1>4 DEF JobsFit, Final
<1>6. \E w \in ws : \E j \in w.jobs : j.attempt = started
  BY DEF Writer, Completion
<1> HIDE DEF ws
<1> QED
  BY <1>1, <1>2, <1>3, <1>4, <1>5, <1>6, Concludes

(* The handler knows of every attempt that has been made.                  *)
LEMMA EarlierOf ==
  ASSUME RowInv, ~Ended, ~Reported
  PROVE  Earlier \subseteq Open
           /\ (Calling => Open = Earlier \union {started} /\ started > 0)
           /\ \A a \in Earlier :
                \/ a = primary /\ primary \notin {Skipped, Phantom}
                \/ a = original /\ original # 0
                \/ \E i \in DOMAIN losers : a = losers[i] /\ losers[i] \notin {Skipped, Phantom}
BY DEF RowInv, Legs, Open, Earlier, Lost, Skipped

(* What a chain of fallbacks leaves to report.                             *)
LEMMA Chain ==
  ASSUME RowInv, pc \in {"failed", "ended", "won"}, NEW outcome,
         NEW last \in {"failed", "superseded"}, NEW ws,
         ws = OriginalWriters \union
                (FallbackWriters(last) \union {Writer(outcome, PrimaryJobs("superseded"))})
  PROVE  /\ JobsFit(ws)
         /\ \A a \in Earlier : \E w \in ws : \E j \in w.jobs : j.attempt = a
         /\ \A w \in ws : \A j \in w.jobs :
              j.attempt \in {0} \union Earlier /\ j.status # "success"
<1> DEFINE pw == Writer(outcome, PrimaryJobs("superseded"))
<1>1. ~Ended /\ ~Reported /\ Types /\ Distinct /\ (primary = original => primary = 0)
        /\ Earlier \subseteq Open
  BY EarlierOf DEF RowInv, Distinct, Ended, Reported
<1>2. ASSUME NEW w \in ws, NEW j \in w.jobs
      PROVE  \/ j.attempt = 0 /\ j.status = "failed"
             \/ /\ original # 0
                /\ j = Job(original, "superseded") /\ j.attempt = original
                /\ w = Writer("pending", {Job(original, "superseded")})
                /\ j.status = "superseded"
             \/ /\ w = pw /\ primary \notin {Skipped, Phantom}
                /\ j = Job(primary, "superseded") /\ j.attempt = primary
                /\ j.status = "superseded"
             \/ /\ w = Writer("pending", FallbackJobs(last))
                /\ j.status \in {last, "superseded"}
                /\ \E i \in DOMAIN losers :
                     /\ losers[i] \notin {Skipped, Phantom}
                     /\ j = Job(losers[i], IF \A k \in Contacted : k <= i
                                             THEN last ELSE "superseded")
                     /\ j.attempt = losers[i]
  <2>1. CASE w \in OriginalWriters
    BY <2>1, OriginalJobs
  <2>2. CASE w = pw
    <3>1. j \in PrimaryJobs("superseded")
      BY <2>2 DEF Writer
    <3> QED
      BY <2>2, <3>1, PrimaryJobsOf
  <2>3. CASE w \in FallbackWriters(last)
    BY <2>3, FallbackJobsOf
  <2> QED
    BY <2>1, <2>2, <2>3
<1>3. \A a \in Earlier : \E w \in ws : \E j \in w.jobs : j.attempt = a
  <2>1. pw.jobs = PrimaryJobs("superseded") /\ pw \in ws
    BY DEF Writer
  <2> HIDE DEF pw
  <2>2. original # 0 => \E w \in ws : \E j \in w.jobs : j.attempt = original
    BY OriginalAssigned
  <2>3. primary \notin {Skipped, Phantom} =>
          \E w \in ws : \E j \in w.jobs : j.attempt = primary
    BY <2>1, PrimaryAssigned
  <2>4. \A i \in DOMAIN losers : losers[i] \notin {Skipped, Phantom} =>
          \E w \in ws : \E j \in w.jobs : j.attempt = losers[i]
    BY FallbackAssigned
  <2> QED
    BY <1>1, <2>2, <2>3, <2>4, EarlierOf
<1> HIDE DEF pw
<1>4. original # 0 => original \in Earlier
  BY <1>1 DEF Earlier, Types, Skipped, Phantom
<1>5. primary \notin {Skipped, Phantom} => primary \in Earlier /\ primary # 0
  BY DEF Earlier, Skipped
<1>6. \A i \in DOMAIN losers : losers[i] \notin {Skipped, Phantom} =>
        /\ losers[i] \in Earlier /\ losers[i] \notin {primary, original}
        /\ \A k \in DOMAIN losers : losers[k] = losers[i] => k = i
  <2>1. \A i \in DOMAIN losers : losers[i] \notin {Skipped, Phantom} => losers[i] > 0
    BY <1>1 DEF Types, Lost, Marked, Skipped, Phantom
  <2> QED
    BY <1>1, <2>1 DEF Distinct, Earlier, Lost
<1>7. ASSUME NEW w \in ws, NEW j \in w.jobs
      PROVE  j.attempt \in {0} \union Earlier /\ j.status \in {"failed", "superseded"}
  BY <1>2, <1>4, <1>5, <1>6
<1>8. ASSUME NEW w \in ws, NEW v \in ws, NEW j \in w.jobs, NEW i \in v.jobs,
             j.attempt # 0, i.attempt = j.attempt
      PROVE  w = v /\ i = j
  BY <1>1, <1>2, <1>4, <1>5, <1>6, <1>8
<1>9. JobsFit(ws)
  BY <1>1, <1>7, <1>8 DEF JobsFit, Final
<1> QED
  BY <1>3, <1>7, <1>9

LEMMA ExhaustKeeps ==
  ASSUME RowInv, LedgerInv', Exhaust PROVE RowInv'
<1>1. pc \in {"failed", "ended"} /\ ~Ended /\ ~Reported /\ ~Calling /\ excused' = excused
  BY DEF Exhaust, Ended, Reported, Calling
<1>2. Open = Earlier
  BY <1>1, Between
<1>3. Types /\ Distinct /\ (primary = original => primary = 0)
  BY <1>1 DEF RowInv, Distinct
<1>4. CASE losers = <<>>
  <2> DEFINE pw == Writer("failed", PrimaryJobs("failed"))
             ws == OriginalWriters \union {pw}
  <2>1. Conclude("failed", ws)
    BY <1>4 DEF Exhaust
  <2>2. ASSUME NEW w \in ws, NEW j \in w.jobs
        PROVE  \/ j.attempt = 0 /\ j.status = "failed"
               \/ /\ w \in OriginalWriters /\ original # 0
                  /\ j = Job(original, "superseded") /\ j.attempt = original
                  /\ w = Writer("pending", {Job(original, "superseded")})
                  /\ j.status = "superseded"
               \/ /\ w = pw /\ primary \notin {Skipped, Phantom}
                  /\ j = Job(primary, "failed") /\ j.attempt = primary
                  /\ j.status = "failed"
    <3>1. CASE w \in OriginalWriters
      BY <3>1, OriginalJobs
    <3>2. CASE w = pw
      <4>1. j \in PrimaryJobs("failed")
        BY <3>2 DEF Writer
      <4> QED
        BY <3>2, <4>1, PrimaryJobsOf
    <3> QED
      BY <3>1, <3>2
  <2>3. \A a \in Open : \E w \in ws : \E j \in w.jobs : j.attempt = a
    <3>1. Lost = {}
      BY <1>4 DEF Lost
    <3>2. pw.jobs = PrimaryJobs("failed") /\ pw \in ws
      BY DEF Writer
    <3> HIDE DEF pw
    <3>3. Open = {primary, original} \ {Skipped, Phantom}
      BY <1>2, <3>1 DEF Earlier
    <3>4. original # 0 => \E w \in ws : \E j \in w.jobs : j.attempt = original
      BY OriginalAssigned
    <3>5. primary \notin {Skipped, Phantom} =>
            \E w \in ws : \E j \in w.jobs : j.attempt = primary
      BY <3>2, PrimaryAssigned
    <3> QED
      BY <3>3, <3>4, <3>5 DEF Skipped
  <2>4. JobsFit(ws)
    <3> HIDE DEF ws, pw
    <3>1. original # 0 => original \in Open
      BY <1>2, <1>3 DEF Earlier, Types, Skipped, Phantom
    <3>2. primary \notin {Skipped, Phantom} => primary \in Open /\ primary # 0
      BY <1>2 DEF Earlier, Skipped
    <3> QED
      BY <1>1, <1>3, <2>2, <3>1, <3>2 DEF JobsFit, Final
  <2> HIDE DEF ws
  <2> QED
    BY <1>1, <2>1, <2>2, <2>3, <2>4, Concludes
<1>5. CASE losers # <<>>
  <2> DEFINE ws == OriginalWriters \union
                     (FallbackWriters("failed")
                        \union {Writer("failed", PrimaryJobs("superseded"))})
  <2>1. Conclude("failed", ws)
    BY <1>5 DEF Exhaust
  <2> HIDE DEF ws
  <2>2. /\ JobsFit(ws)
        /\ \A a \in Earlier : \E w \in ws : \E j \in w.jobs : j.attempt = a
        /\ \A w \in ws : \A j \in w.jobs : j.status # "success"
    <3>1. ws = OriginalWriters \union
                 (FallbackWriters("failed")
                    \union {Writer("failed", PrimaryJobs("superseded"))})
      BY DEF ws
    <3> QED
      BY <1>1, <3>1, Chain
  <2> QED
    BY <1>1, <1>2, <2>1, <2>2, Concludes
<1> QED
  BY <1>4, <1>5

LEMMA FinishKeeps ==
  ASSUME RowInv, LedgerInv', Finish PROVE RowInv'
<1> DEFINE sw == Writer("success", {Job(started, "success")})
           ow == IF leg = "fallback" THEN {} ELSE OriginalWriters
           ws == {sw} \union ow
<1>1. pc = "serving" /\ ~Ended /\ Calling /\ excused' = excused /\ Conclude("success", ws)
  BY DEF Finish, Winner, Ended, Calling
<1>2. started \in Open /\ started > 0
  BY <1>1 DEF RowInv, Legs, Open
<1>3. ASSUME NEW w \in ws, NEW j \in w.jobs
      PROVE  \/ w = sw /\ j = Job(started, "success") /\ j.attempt = started
                  /\ j.status = "success"
             \/ /\ leg # "fallback" /\ original # 0
                /\ w = Writer("pending", {Job(original, "superseded")})
                /\ j = Job(original, "superseded") /\ j.attempt = original
                /\ j.status = "superseded"
  <2>1. CASE w = sw
    BY <2>1 DEF Writer, Job
  <2>2. CASE w \in ow
    BY <2>2, OriginalJobs
  <2> QED
    BY <2>1, <2>2
<1>4. leg # "fallback" /\ original # 0 => original \in Open /\ original # started
  <2> SUFFICES ASSUME leg # "fallback", original # 0
               PROVE  original \in Open /\ original # started
    OBVIOUS
  <2>1. ~Reported /\ Types /\ started \notin Earlier
    BY <1>1 DEF Reported, RowInv, Distinct
  <2>2. original \in Earlier
    BY <2>1 DEF Types, Earlier, Skipped, Phantom
  <2>3. ~Ended
    BY <1>1
  <2>4. Earlier \subseteq Open
    BY <2>1, <2>3, EarlierOf
  <2> QED
    BY <2>1, <2>2, <2>4
<1>5. \E w \in ws : \E j \in w.jobs : j.attempt = started /\ j.status = "success"
  <2>1. sw.jobs = {Job(started, "success")} /\ sw \in ws
    BY DEF Writer
  <2>2. Job(started, "success").attempt = started /\ Job(started, "success").status = "success"
    BY DEF Job
  <2> HIDE DEF sw, ws
  <2> QED
    BY <2>1, <2>2
<1>6. leg # "fallback" /\ original # 0 => \E w \in ws : \E j \in w.jobs : j.attempt = original
  BY OriginalAssigned
<1>7. \A a \in Open : \E w \in ws : \E j \in w.jobs : j.attempt = a
  <2>1. CASE leg = "fallback"
    BY <1>1, <1>5, <2>1 DEF Open, Reported
  <2>2. CASE leg # "fallback"
    <3>1. losers = <<>> /\ (leg = "heal" \/ primary = Skipped)
      BY <1>1, <2>2 DEF RowInv, Legs
    <3>2. Open = ({primary, original} \ {Skipped, Phantom}) \union {started}
      BY <1>1, <2>2, <3>1 DEF Open, Reported, Earlier, Lost
    <3>3. leg = "heal" => primary = original
      BY <1>1, <2>2 DEF RowInv, Legs
    <3> HIDE DEF ws
    <3> QED
      BY <1>5, <1>6, <2>2, <3>1, <3>2, <3>3 DEF Skipped
  <2> QED
    BY <2>1, <2>2
<1>8. JobsFit(ws)
  <2> HIDE DEF ws, sw
  <2> QED
    BY <1>1, <1>2, <1>3, <1>4 DEF JobsFit, Final
<1>9. \A w \in ws : \A j \in w.jobs : j.status = "success" => j.attempt = started
  <2> HIDE DEF ws, sw
  <2> QED
    BY <1>3
<1> HIDE DEF ws
<1> QED
  BY <1>1, <1>2, <1>5, <1>7, <1>8, <1>9, Concludes

LEMMA ServeKeeps ==
  ASSUME RowInv, LedgerInv', Serve PROVE RowInv'
<1>1. pc = "won" /\ pc' = "serving" /\ seen = "none"
        /\ UNCHANGED <<leg, started, primary, losers, row, pendingWrite, seen, excused>>
        /\ original' = (IF leg = "heal" THEN primary ELSE original)
  BY DEF Serve, ledger, RowInv, LedgerInv
<1>2. Lost' = Lost /\ Marked' = Marked /\ ~Ended /\ ~Reported /\ Calling /\ started \notin Earlier
        /\ Open = Earlier \union {started} /\ started > 0
  BY <1>1, EarlierOf DEF Lost, Marked, Ended, Reported, Calling, RowInv, Distinct
<1>3. CASE leg = "fallback"
  <2> DEFINE ws == OriginalWriters \union
                     (FallbackWriters("superseded")
                        \union {Writer("pending", PrimaryJobs("superseded"))})
  <2>1. writers' = writers \union ws /\ original' = original
    BY <1>1, <1>3 DEF Serve
  <2> HIDE DEF ws
  <2>2. /\ JobsFit(ws)
        /\ \A a \in Earlier : \E w \in ws : \E j \in w.jobs : j.attempt = a
        /\ \A w \in ws : \A j \in w.jobs :
             j.attempt \in {0} \union Earlier /\ j.status # "success"
    BY <1>1, Chain DEF ws
  <2>3. Types' /\ Legs' /\ Distinct'
    BY <1>1, <1>2, <1>3, <2>1 DEF RowInv, Types, Legs, Distinct, Ended, Calling, Reported
  <2>4. Open' = {started}
    BY <1>1, <1>3 DEF Open, Ended, Calling, Reported
  <2>5. \A w \in ws : \A j \in w.jobs : j.attempt \notin Open'
    BY <1>2, <2>2, <2>4
  <2> QED
    BY <1>1, <1>2, <2>1, <2>2, <2>3, <2>4, <2>5, HandsOver
<1>4. CASE leg # "fallback"
  <2>1. writers' = writers /\ losers = <<>> /\ original = 0
    BY <1>1, <1>2, <1>4 DEF Serve, RowInv, Legs
  <2>2. leg = "heal" => primary > 0 /\ primary \in 1 .. started
    BY <1>1, <1>2 DEF RowInv, Legs, Types, Marked, Skipped, Phantom
  <2>3. Earlier' = Earlier
    BY <1>1, <1>2, <2>1, <2>2 DEF Earlier, Skipped, Phantom
  <2>4. Types'
    BY <1>1, <1>2, <2>1, <2>2 DEF RowInv, Types
  <2>5. Legs' /\ Distinct'
    BY <1>1, <1>2, <1>4, <2>1, <2>2, <2>3
    DEF RowInv, Legs, Distinct, Ended, Calling, Reported
  <2>6. Open' = Open
    BY <1>1, <1>2, <1>4, <2>3 DEF Open, Ended, Calling, Reported
  <2> QED
    BY <1>1, <2>1, <2>4, <2>5, <2>6, Moves
<1> QED
  BY <1>3, <1>4

LEMMA StreamFailsKeeps ==
  ASSUME RowInv, LedgerInv', StreamFails PROVE RowInv'
<1> DEFINE ws == {Writer("failed", {Job(started, "failed")})}
<1>1. pc = "serving" /\ ~Ended /\ Calling /\ Conclude("failed", ws)
        /\ excused' = excused \union (IF leg = "heal" THEN {original} ELSE {})
  BY DEF StreamFails, Ended, Calling
<1>2. started \in Open /\ started > 0
  BY <1>1 DEF RowInv, Legs, Open
<1>3. \A w \in ws : \A j \in w.jobs :
        /\ w = Writer("failed", {Job(started, "failed")}) /\ j = Job(started, "failed")
        /\ j.attempt = started /\ j.status = "failed"
  BY DEF Writer, Job
<1>4. \E w \in ws : \E j \in w.jobs : j.attempt = started
  BY DEF Writer, Job
<1> HIDE DEF ws
<1>5. JobsFit(ws)
  BY <1>1, <1>2, <1>3 DEF JobsFit, Final
<1>6. \A a \in Open : a = started \/ a \in excused'
  <2>1. CASE leg = "fallback"
    BY <1>1, <2>1 DEF Open, Reported
  <2>2. CASE leg # "fallback"
    BY <1>1, <2>2 DEF RowInv, Legs, Open, Earlier, Lost, Skipped
  <2> QED
    BY <2>1, <2>2
<1> QED
  BY <1>1, <1>3, <1>4, <1>5, <1>6, Concludes

LEMMA ThrowKeeps ==
  ASSUME RowInv, LedgerInv', Throw PROVE RowInv'
<1>1. ~Ended /\ started \in Nat /\ Open \subseteq 1 .. started
  BY OpenStarted DEF Throw, Ended, RowInv, Types
<1>2. Open \subseteq Unreported
  BY <1>1 DEF Unreported, Open, Reported, Calling
<1>3. CASE aborted
  <2> DEFINE jobs == {Job(a, "cancelled") : a \in {started} \ {0}}
             ws == {Writer("cancelled", jobs)}
  <2>1. Conclude("cancelled", ws)
          /\ excused' = excused \union (Unreported \ ({started} \ {0}))
    BY <1>3 DEF Throw
  <2>2. \A w \in ws : \A j \in w.jobs :
          /\ started # 0 /\ j.attempt = started /\ j.status = "cancelled"
          /\ j = Job(started, "cancelled")
    BY DEF Writer, Job
  <2>3. \A w \in ws : w = Writer("cancelled", jobs)
    OBVIOUS
  <2>4. started # 0 => \E w \in ws : \E j \in w.jobs : j.attempt = started
    <3>1. started # 0 => Job(started, "cancelled") \in jobs
      OBVIOUS
    <3>2. Job(started, "cancelled").attempt = started
      BY DEF Job
    <3>3. Writer("cancelled", jobs).jobs = jobs /\ Writer("cancelled", jobs) \in ws
      BY DEF Writer
    <3> HIDE DEF jobs, ws
    <3> QED
      BY <3>1, <3>2, <3>3
  <2> HIDE DEF ws, jobs
  <2>5. pc = "failed" \/ started \in Open
    BY DEF Throw, Open, Calling, Ended
  <2>6. JobsFit(ws)
    BY <2>2, <2>3, <2>5 DEF JobsFit, Final
  <2>7. \A a \in Open : a \in excused' \/ \E w \in ws : \E j \in w.jobs : j.attempt = a
    BY <1>1, <1>2, <2>1, <2>4
  <2> QED
    BY <1>1, <2>1, <2>2, <2>4, <2>6, <2>7, Concludes
<1>4. CASE ~aborted
  <2>1. Conclude("failed", {Writer("failed", {})}) /\ excused' = excused \union Unreported
    BY <1>4 DEF Throw
  <2>2. JobsFit({Writer("failed", {})})
    BY DEF JobsFit, Writer
  <2> QED
    BY <1>1, <1>2, <2>1, <2>2, Concludes DEF Writer
<1> QED
  BY <1>3, <1>4

LEMMA HandlerKeepsRows == ASSUME RowInv, LedgerInv', Handler PROVE RowInv'
BY IngressKeeps, RefuseKeeps, StartPrimaryKeeps, PrimaryStopsKeeps, RescueKeeps,
   AnswerOkKeeps, AnswerFailsKeeps, RescueFailsKeeps, WarmupFailsKeeps,
   TokenRejectedKeeps, SupersedeKeeps, RetryKeeps, HealKeeps, HealAbandonedKeeps,
   NextFallbackKeeps, ExhaustKeeps, ServeKeeps, FinishKeeps, StreamFailsKeeps,
   ThrowKeeps
DEF Handler

-----------------------------------------------------------------------------
(* The recorder's steps, a crash and a caller who leaves.                  *)

(* Nothing moves in the handler.                                           *)
LEMMA StillHandler ==
  ASSUME RowInv, LedgerInv', UNCHANGED handler, excused \subseteq excused',
         row' \in [Attempts -> RowStatus],
         pendingWrite' \in [Attempts -> {"none", "writing", "true", "false"}],
         \A a \in Attempts : a > started => row'[a] = "none" /\ pendingWrite'[a] = "none",
         \A a \in Attempts : pendingWrite'[a] = "true" => row'[a] # "none"
  PROVE  /\ Types' /\ Legs' /\ Distinct'
         /\ Open' = Open /\ started' = started /\ seen' = seen /\ pc' = pc
<1>1. UNCHANGED <<pc, leg, started, primary, original, losers, seen>>
  BY DEF handler
<1>2. Lost' = Lost /\ Earlier' = Earlier /\ Marked' = Marked /\ Ended' = Ended
        /\ Calling' = Calling /\ Reported' = Reported
  BY <1>1 DEF Lost, Earlier, Marked, Ended, Calling, Reported
<1>3. Open' = Open
  BY <1>1, <1>2 DEF Open
<1>4. Types'
  BY <1>1, <1>2 DEF RowInv, Types
<1>5. Legs' /\ Distinct'
  BY <1>1, <1>2 DEF RowInv, Legs, Distinct
<1> QED
  BY <1>1, <1>3, <1>4, <1>5

LEMMA WritePendingKeeps ==
  ASSUME RowInv, LedgerInv', NEW a \in Attempts, WritePending(a) PROVE RowInv'
<1>1. UNCHANGED handler /\ UNCHANGED <<writers, excused>>
        /\ pendingWrite[a] = "writing" /\ pendingWrite' = [pendingWrite EXCEPT ![a] = pendingWrite'[a]]
        /\ pendingWrite'[a] \in {"true", "false"}
        /\ (row' = row \/ (row' = [row EXCEPT ![a] = "pending"] /\ row[a] = "none"))
        /\ (pendingWrite'[a] = "true" => row'[a] # "none")
  BY DEF WritePending, Taken, RowInv, Types, Replies
<1>2. a <= started
  BY <1>1, LedgerAssumption DEF RowInv, Types, Attempts
<1>3. \A b \in Attempts : row'[b] = row[b] \/ (row[b] = "none" /\ row'[b] = "pending")
  BY <1>1 DEF RowInv, Types
<1>4. row' \in [Attempts -> RowStatus]
  BY <1>1 DEF RowInv, Types, RowStatus
<1>5. Types' /\ Legs' /\ Distinct'
        /\ Open' = Open /\ started' = started /\ seen' = seen /\ pc' = pc
  <2>1. \A b \in Attempts : b > started => row'[b] = "none" /\ pendingWrite'[b] = "none"
    BY <1>1, <1>2, LedgerAssumption DEF RowInv, Types, Attempts
  <2>2. \A b \in Attempts : pendingWrite'[b] = "true" => row'[b] # "none"
    BY <1>1, <1>3 DEF RowInv, Types
  <2>3. pendingWrite' \in [Attempts -> {"none", "writing", "true", "false"}]
    BY <1>1 DEF RowInv, Types
  <2> QED
    BY <1>1, <1>4, <2>1, <2>2, <2>3, StillHandler
<1>6. \A b \in Attempts : (Unwritten(b)' <=> Unwritten(b))
        /\ (~Unwritten(b) => row'[b] = row[b])
  BY <1>3 DEF Unwritten
<1>7. \A b : Assigned(b)' <=> Assigned(b)
  BY <1>1 DEF Assigned
<1>8. 1 .. started \subseteq Attempts /\ Open \subseteq 1 .. started
  BY OpenStarted DEF RowInv
<1>9. OpenFree'
  <2>1. pc = "retrying" => started \in Attempts
    BY <1>8, AtCall DEF RowInv, Types
  <2>2. \A b \in Open : ~Assigned(b)'
    BY <1>7 DEF RowInv, OpenFree
  <2>3. \A b \in Open : Unwritten(b)' \/ (b = started /\ pc = "retrying")
    BY <1>6, <1>8 DEF RowInv, OpenFree
  <2>4. pc = "retrying" => row'[started] = "superseded"
                             \/ (started \in excused /\ Unwritten(started)')
    BY <1>5, <1>6, <2>1 DEF RowInv, OpenFree, Unwritten
  <2> QED
    BY <1>1, <1>5, <2>2, <2>3, <2>4 DEF OpenFree
<1>10. Jobs'
  <2>1. \A w \in writers : \A j \in w.jobs : j.attempt # 0 => j.attempt \in Attempts
    BY <1>8 DEF RowInv, Jobs, Types
  <2> QED
    BY <1>1, <1>5, <1>6, <2>1 DEF RowInv, Jobs, Unwritten
<1>11. Covered'
  BY <1>1, <1>5, <1>6, <1>7, <1>8 DEF RowInv, Covered
<1>12. Credit'
  BY <1>1, <1>3, <1>5, <1>8 DEF RowInv, Credit, Types
<1>13. Untold'
  BY <1>1, <1>5, <1>6 DEF RowInv, Untold
<1> QED
  BY <1>5, <1>9, <1>10, <1>11, <1>12, <1>13 DEF RowInv

LEMMA PersistRequestKeeps ==
  ASSUME RowInv, LedgerInv', NEW w \in writers, PersistRequest(w) PROVE RowInv'
<1> DEFINE p == [w EXCEPT !.persisted = TRUE]
<1>1. UNCHANGED handler /\ UNCHANGED <<row, pendingWrite>> /\ excused \subseteq excused'
        /\ (writers' = writers \ {w} \/ writers' = (writers \ {w}) \union {p})
        /\ (p \in writers' \/ AttemptsOf(w.jobs) \subseteq excused' \/ w.jobs = {})
  BY DEF PersistRequest
<1>2. p.jobs = w.jobs
  OBVIOUS
<1> HIDE DEF p
<1>3. Types' /\ Legs' /\ Distinct'
        /\ Open' = Open /\ started' = started /\ seen' = seen /\ pc' = pc
  BY <1>1, StillHandler DEF RowInv, Types
<1>4. \A v \in writers' : v \in writers \/ (v = p /\ v.jobs = w.jobs)
  BY <1>1, <1>2
<1>5. \A a : Assigned(a)' => Assigned(a)
  BY <1>4 DEF Assigned
<1>6. \A a \in 1 .. started : Assigned(a) => Assigned(a)' \/ a \in excused'
  <2> SUFFICES ASSUME NEW a \in 1 .. started, Assigned(a)
               PROVE  Assigned(a)' \/ a \in excused'
    OBVIOUS
  <2>1. PICK v \in writers : \E j \in v.jobs : j.attempt = a
    BY DEF Assigned
  <2>2. CASE v # w
    BY <1>1, <2>1, <2>2 DEF Assigned
  <2>3. CASE v = w
    <3>1. a \in AttemptsOf(w.jobs) /\ w.jobs # {}
      BY <2>1, <2>3 DEF AttemptsOf
    <3> QED
      BY <1>1, <1>2, <2>1, <2>3, <3>1 DEF Assigned
  <2> QED
    BY <2>2, <2>3
<1>7. \A a : Unwritten(a)' <=> Unwritten(a)
  BY <1>1 DEF Unwritten
<1>8. OpenFree'
  BY <1>1, <1>3, <1>5, <1>7 DEF RowInv, OpenFree
<1>9. Jobs'
  <2>1. ASSUME NEW v \in writers', NEW j \in v.jobs
        PROVE  \E u \in writers : /\ j \in u.jobs /\ (v = u \/ (v = p /\ u = w))
    BY <1>4
  <2>2. ASSUME NEW v \in writers', NEW j \in v.jobs, NEW u \in writers', NEW i \in u.jobs,
               j.attempt # 0, i.attempt = j.attempt
        PROVE  u = v /\ i = j
    <3>1. PICK x \in writers : j \in x.jobs /\ (v = x \/ (v = p /\ x = w))
      BY <2>1
    <3>2. PICK y \in writers : i \in y.jobs /\ (u = y \/ (u = p /\ y = w))
      BY <2>1
    <3>3. y = x /\ i = j
      BY <2>2, <3>1, <3>2 DEF RowInv, Jobs
    <3>4. w \in writers' => w = p
      BY <1>1
    <3> QED
      BY <3>1, <3>2, <3>3, <3>4
  <2>3. ASSUME NEW v \in writers', NEW j \in v.jobs
        PROVE  /\ j.attempt \in 0 .. started
               /\ j.status \in {"superseded"} \union Final
               /\ j.attempt # 0 => Unwritten(j.attempt)
                    \/ (row[j.attempt] = "superseded" /\ j.status = "cancelled")
    BY <2>1 DEF RowInv, Jobs
  <2> QED
    BY <1>1, <1>3, <1>7, <2>2, <2>3 DEF Jobs
<1>10. Covered'
  BY <1>1, <1>3, <1>6, <1>7 DEF RowInv, Covered
<1>11. Credit'
  <2>1. \A v \in writers' : \A j \in v.jobs :
          j.status = "success" => j.attempt = started /\ seen = "success"
    BY <1>4 DEF RowInv, Credit
  <2>2. seen = "success" =>
          \/ row[started] = "success" \/ started \in excused'
          \/ \E v \in writers' : \E j \in v.jobs :
               j.attempt = started /\ j.status = "success"
    <3> SUFFICES ASSUME seen = "success", row[started] # "success",
                        started \notin excused'
                 PROVE  \E v \in writers' : \E j \in v.jobs :
                          j.attempt = started /\ j.status = "success"
      OBVIOUS
    <3>1. started > 0
      BY DEF RowInv, Credit
    <3>2. PICK v \in writers : \E j \in v.jobs :
            j.attempt = started /\ j.status = "success"
      BY <1>1 DEF RowInv, Credit
    <3>3. CASE v # w
      BY <1>1, <3>2, <3>3
    <3>4. CASE v = w
      <4>1. started \in AttemptsOf(w.jobs) /\ w.jobs # {}
        BY <3>1, <3>2, <3>4 DEF AttemptsOf
      <4> QED
        BY <1>1, <1>2, <3>2, <3>4, <4>1
    <3> QED
      BY <3>3, <3>4
  <2> QED
    BY <1>1, <1>3, <2>1, <2>2 DEF RowInv, Credit
<1>12. Untold'
  BY <1>1, <1>3, <1>7 DEF RowInv, Untold
<1> QED
  BY <1>3, <1>8, <1>9, <1>10, <1>11, <1>12 DEF RowInv

(* A recorder call settles one of its jobs.                                *)
LEMMA JobSettled ==
  ASSUME RowInv, NEW w \in writers, NEW j \in w.jobs, PersistAttempt(w, j)
  PROVE  /\ UNCHANGED handler /\ UNCHANGED pendingWrite /\ excused \subseteq excused'
         /\ \/ row' = row /\ (j.attempt = 0 \/ j.attempt \in excused')
            \/ row' = [row EXCEPT ![j.attempt] = j.status]
                 /\ j.attempt \in Attempts
<1>1. UNCHANGED handler /\ UNCHANGED pendingWrite
  BY DEF PersistAttempt
<1>2. CASE InsertUnowned(w, j)
  BY <1>1, <1>2 DEF InsertUnowned
<1>3. CASE CompleteAttempt(w, j)
  <2>1. j.attempt \in Attempts
    BY <1>3, OpenStarted DEF RowInv, Jobs, CompleteAttempt, Types
  <2>2. Completes(j) = "update" => row[j.attempt] # "none"
    BY <2>1 DEF Completes, RowInv, Types
  <2> QED
    BY <1>1, <1>3, <2>1, <2>2 DEF CompleteAttempt
<1> QED
  BY <1>2, <1>3 DEF PersistAttempt

LEMMA PersistAttemptKeeps ==
  ASSUME RowInv, LedgerInv', NEW w \in writers, NEW j \in w.jobs, PersistAttempt(w, j)
  PROVE  RowInv'
<1> DEFINE p == [w EXCEPT !.jobs = @ \ {j}]
<1>1. writers' = Without(w, j)
  BY DEF PersistAttempt
<1>2. p.jobs = w.jobs \ {j}
  OBVIOUS
<1>3. \/ w.jobs = {j} /\ writers' = writers \ {w}
      \/ w.jobs # {j} /\ writers' = (writers \ {w}) \union {p}
  BY <1>1 DEF Without
<1> HIDE DEF p
<1>4. UNCHANGED handler /\ UNCHANGED pendingWrite /\ excused \subseteq excused'
        /\ \/ row' = row /\ (j.attempt = 0 \/ j.attempt \in excused')
           \/ row' = [row EXCEPT ![j.attempt] = j.status] /\ j.attempt \in Attempts
  BY JobSettled
<1>5. j.attempt \in 0 .. started /\ j.status \in {"superseded"} \union Final
  BY DEF RowInv, Jobs
<1>6. /\ row' \in [Attempts -> RowStatus]
      /\ \A a \in Attempts : a # j.attempt => row'[a] = row[a]
      /\ \A a \in Attempts : row'[a] = "none" => row[a] = "none"
      /\ \A a \in Attempts : a > started => row'[a] = row[a]
  BY <1>4, <1>5 DEF RowInv, Types, RowStatus, Final
<1>7. Types' /\ Legs' /\ Distinct'
        /\ Open' = Open /\ started' = started /\ seen' = seen /\ pc' = pc
  BY <1>4, <1>6, StillHandler DEF RowInv, Types
<1>8. ASSUME NEW v \in writers', NEW i \in v.jobs
      PROVE  \E u \in writers : /\ i \in u.jobs
                                /\ (v = u /\ u # w) \/ (v = p /\ u = w /\ i # j)
  BY <1>2, <1>3
<1>9. \A a : Assigned(a)' => Assigned(a)
  BY <1>8 DEF Assigned
<1>10. ASSUME NEW v \in writers', NEW i \in v.jobs, i.attempt # 0
       PROVE  i.attempt # j.attempt
  BY <1>8, <1>10 DEF RowInv, Jobs
<1>11. 1 .. started \subseteq Attempts /\ Open \subseteq 1 .. started
  BY OpenStarted DEF RowInv
<1>12. j.attempt # 0 => j.attempt \notin Open
  BY DEF RowInv, OpenFree, Assigned
<1>13. \A a \in Attempts : a # j.attempt => (Unwritten(a)' <=> Unwritten(a))
  BY <1>6 DEF Unwritten
<1>14. 0 \notin Attempts
  BY LedgerAssumption DEF Attempts
<1>15. OpenFree'
  <2>1. \A a \in Open : a \in Attempts /\ a # j.attempt
    BY <1>11, <1>12, <1>14
  <2>2. \A a \in Open : ~Assigned(a)'
    BY <1>9 DEF RowInv, OpenFree
  <2>3. \A a \in Open : Unwritten(a)' \/ (a = started /\ pc = "retrying")
    BY <1>13, <2>1 DEF RowInv, OpenFree
  <2>4. pc = "retrying" => started \in Open
    BY AtCall
  <2>5. pc = "retrying" => row'[started] = "superseded"
                             \/ (started \in excused' /\ Unwritten(started)')
    BY <1>4, <1>6, <1>7, <1>13, <2>1, <2>4 DEF RowInv, OpenFree
  <2> QED
    BY <1>7, <2>2, <2>3, <2>5 DEF OpenFree
<1>16. Jobs'
  <2>1. ASSUME NEW v \in writers', NEW i \in v.jobs
        PROVE  /\ i.attempt \in 0 .. started
               /\ i.status \in {"superseded"} \union Final
               /\ i.attempt # 0 => Unwritten(i.attempt)'
                    \/ (row'[i.attempt] = "superseded" /\ i.status = "cancelled")
    <3>1. PICK u \in writers : i \in u.jobs
      BY <1>8
    <3>2. /\ i.attempt \in 0 .. started
          /\ i.status \in {"superseded"} \union Final
          /\ i.attempt # 0 => Unwritten(i.attempt)
               \/ (row[i.attempt] = "superseded" /\ i.status = "cancelled")
      BY <3>1 DEF RowInv, Jobs
    <3>3. i.attempt # 0 => i.attempt \in Attempts /\ i.attempt # j.attempt
      BY <1>10, <1>11, <3>2 DEF RowInv, Types
    <3> QED
      BY <1>6, <1>13, <3>2, <3>3
  <2>2. ASSUME NEW v \in writers', NEW i \in v.jobs, NEW u \in writers', NEW k \in u.jobs,
               i.attempt # 0, k.attempt = i.attempt
        PROVE  u = v /\ k = i
    <3>1. PICK x \in writers : i \in x.jobs /\ ((v = x /\ x # w) \/ (v = p /\ x = w))
      BY <1>8
    <3>2. PICK y \in writers : k \in y.jobs /\ ((u = y /\ y # w) \/ (u = p /\ y = w))
      BY <1>8
    <3> QED
      BY <2>2, <3>1, <3>2 DEF RowInv, Jobs
  <2> QED
    BY <1>7, <2>1, <2>2 DEF Jobs
<1>17. Covered'
  <2> SUFFICES ASSUME NEW a \in 1 .. started, Unwritten(a)', a \notin excused', a \notin Open
               PROVE  Assigned(a)'
    BY <1>7 DEF Covered
  <2>1. a \in Attempts /\ a # 0
    BY <1>11, <1>14
  <2>2. a # j.attempt
    <3>1. row' = [row EXCEPT ![j.attempt] = j.status] /\ j.attempt \in Attempts =>
            row'[j.attempt] = j.status
      BY DEF RowInv, Types
    <3>2. j.status \notin {"none", "pending"}
      BY <1>5 DEF Final
    <3> QED
      BY <1>4, <2>1, <3>1, <3>2 DEF Unwritten
  <2>3. Assigned(a)
    BY <1>4, <1>13, <2>1, <2>2 DEF RowInv, Covered
  <2>4. PICK v \in writers : \E i \in v.jobs : i.attempt = a
    BY <2>3 DEF Assigned
  <2>6. PICK i \in v.jobs : i.attempt = a
    BY <2>4
  <2>5. v \in writers' \/ (v = w /\ i # j /\ p \in writers' /\ i \in p.jobs)
    BY <1>2, <1>3, <2>2, <2>6
  <2> QED
    BY <2>6, <2>5 DEF Assigned
<1>18. Credit'
  <2>1. \A v \in writers' : \A i \in v.jobs :
          i.status = "success" => i.attempt = started /\ seen = "success"
    BY <1>8 DEF RowInv, Credit
  <2>2. \A a \in Attempts : row'[a] = "success" => a = started /\ seen = "success"
    <3>1. j.status = "success" => j.attempt = started /\ seen = "success"
      BY DEF RowInv, Credit
    <3>2. \A a \in Attempts : row'[a] = row[a] \/ (a = j.attempt /\ row'[a] = j.status)
      BY <1>4 DEF RowInv, Types
    <3> QED
      BY <3>1, <3>2 DEF RowInv, Credit
  <2>3. ASSUME seen = "success", started \notin excused', row'[started] # "success"
        PROVE  \E v \in writers' : \E i \in v.jobs :
                 i.attempt = started /\ i.status = "success"
    <3>1. started > 0 /\ started \in Attempts
      BY <1>11, <2>3 DEF RowInv, Credit, Types
    <3>2. row[started] # "success"
      <4>1. CASE row[started] = "success"
        <5>1. j.attempt # started
          BY <3>1, <4>1 DEF RowInv, Jobs, Unwritten
        <5> QED
          BY <1>6, <2>3, <3>1, <4>1, <5>1
      <4> QED
        BY <4>1
    <3>3. PICK v \in writers :
            \E i \in v.jobs : i.attempt = started /\ i.status = "success"
      BY <1>4, <2>3, <3>2 DEF RowInv, Credit
    <3>7. PICK i \in v.jobs : i.attempt = started /\ i.status = "success"
      BY <3>3
    <3>4. i # j
      <4>1. CASE i = j
        <5>1. row' = [row EXCEPT ![started] = "success"]
          BY <1>4, <2>3, <3>1, <3>7, <4>1
        <5> QED
          BY <2>3, <3>1, <5>1 DEF RowInv, Types
      <4> QED
        BY <4>1
    <3>5. v \in writers' \/ (v = w /\ p \in writers' /\ i \in p.jobs)
      BY <1>2, <1>3, <3>7, <3>4
    <3> QED
      BY <3>7, <3>5
  <2> QED
    BY <1>7, <2>1, <2>2, <2>3 DEF RowInv, Credit
<1>19. Untold'
  BY <1>7 DEF RowInv, Untold
<1> QED
  BY <1>7, <1>15, <1>16, <1>17, <1>18, <1>19 DEF RowInv

LEMMA CrashKeeps ==
  ASSUME RowInv, LedgerInv', Crash PROVE RowInv'
<1>1. pc' = "down" /\ writers' = {} /\ excused' = excused \union 1 .. started
        /\ UNCHANGED <<leg, started, primary, original, losers, seen, row>>
        /\ pendingWrite' = [a \in Attempts |-> IF pendingWrite[a] = "writing"
                                                 THEN "none" ELSE pendingWrite[a]]
  BY DEF Crash, ledger
<1>2. Lost' = Lost /\ Marked' = Marked /\ Ended' /\ ~Calling'
  BY <1>1 DEF Lost, Marked, Ended, Calling
<1>3. Types'
  BY <1>1, <1>2 DEF RowInv, Types
<1>4. Legs' /\ Distinct' /\ Open' = {}
  BY <1>1, <1>2 DEF RowInv, Legs, Distinct, Open
<1>5. OpenFree' /\ Jobs' /\ Covered' /\ Untold'
  BY <1>1, <1>4 DEF OpenFree, Jobs, Covered, Untold
<1>6. Credit'
  <2>1. seen = "success" => started > 0 /\ started \in 1 .. started
    BY DEF RowInv, Credit, Types
  <2> QED
    BY <1>1, <2>1 DEF RowInv, Credit
<1> QED
  BY <1>3, <1>4, <1>5, <1>6 DEF RowInv

LEMMA StillKeeps ==
  ASSUME RowInv, LedgerInv',
         UNCHANGED <<handler, row, pendingWrite, writers, excused>>
  PROVE  RowInv'
<1>1. UNCHANGED <<pc, leg, started, primary, original, losers, seen>>
  BY DEF handler
<1>2. Lost' = Lost /\ Earlier' = Earlier /\ Marked' = Marked /\ Ended' = Ended
        /\ Calling' = Calling /\ Reported' = Reported
  BY <1>1 DEF Lost, Earlier, Marked, Ended, Calling, Reported
<1>3. Open' = Open
  BY <1>1, <1>2 DEF Open
<1>4. Types' /\ Legs' /\ Distinct'
  BY <1>1, <1>2 DEF RowInv, Types, Legs, Distinct
<1>5. (\A a : Assigned(a)' <=> Assigned(a)) /\ (\A a : Unwritten(a)' <=> Unwritten(a))
  BY <1>1 DEF Assigned, Unwritten
<1>6. OpenFree' /\ Jobs' /\ Covered' /\ Credit' /\ Untold'
  BY <1>1, <1>3, <1>5 DEF RowInv, OpenFree, Jobs, Covered, Credit, Untold, Unwritten
<1> QED
  BY <1>4, <1>6 DEF RowInv

LEMMA RowStep == RowInv /\ [Next]_vars => RowInv'
<1> SUFFICES ASSUME RowInv, [Next]_vars PROVE RowInv'
  OBVIOUS
<1>1. LedgerInv'
  BY LedgerStep DEF RowInv
<1>2. CASE Handler
  BY <1>1, <1>2, HandlerKeepsRows
<1>3. CASE Recorder
  BY <1>1, <1>3, WritePendingKeeps, PersistRequestKeeps, PersistAttemptKeeps DEF Recorder
<1>4. CASE Abort \/ UNCHANGED vars
  BY <1>1, <1>4, StillKeeps DEF Abort, vars, ledger
<1>5. CASE Crash
  BY <1>1, <1>5, CrashKeeps
<1> QED
  BY <1>2, <1>3, <1>4, <1>5 DEF Next

(* The inductive invariant behind what is said of the rows of attempts.    *)
THEOREM RowInvariance == Spec => []RowInv
<1> QED
  BY InitRows, RowStep, PTL DEF Spec

(* The handler's many exits leave out no attempt: one without an outcome   *)
(* was given up for a reason that is named, for any number of attempts and *)
(* fallbacks and in any order of the recorder calls.                       *)
THEOREM NoAttemptLeftOut == Spec => []OrphansExplained
<1>1. RowInv => OrphansExplained
  <2> SUFFICES ASSUME RowInv, Quiet, NEW a \in 1 .. started, Unwritten(a)
               PROVE  a \in excused
    BY DEF OrphansExplained, Unwritten
  <2>1. Open = {} /\ ~Assigned(a)
    BY DEF Quiet, Open, Ended, Assigned
  <2> QED
    BY <2>1 DEF RowInv, Covered
<1> QED
  BY <1>1, RowInvariance, PTL

(* A request that succeeded ends on the attempt that succeeded, and on no  *)
(* other, unless that attempt's row was lost or refused.                   *)
THEOREM SuccessIsLast == Spec => []SuccessEndsOnSuccess
<1>1. RowInv => SuccessEndsOnSuccess
  <2> SUFFICES ASSUME RowInv, request = "success", Quiet
               PROVE  /\ row[started] = "success" \/ started \in excused
                      /\ \A a \in 1 .. started - 1 : row[a] # "success"
    BY DEF SuccessEndsOnSuccess
  <2>1. seen = "success"
    BY DEF RowInv, LedgerInv, Final
  <2>2. writers = {}
    BY DEF Quiet
  <2>3. started \in 0 .. MaxAttempts
    BY DEF RowInv, Types
  <2>4. \A a \in 1 .. started - 1 : a \in Attempts /\ a # started
    BY <2>3, LedgerAssumption DEF Attempts
  <2> QED
    BY <2>1, <2>2, <2>4 DEF RowInv, Credit
<1> QED
  BY <1>1, RowInvariance, PTL

(* What a step may do to the row of an attempt.                            *)
LEMMA RowMoves ==
  ASSUME RowInv, Next, NEW a \in Attempts
  PROVE  /\ row[a] \in Final => row'[a] = row[a]
         /\ row[a] = "superseded" => row'[a] \in {"superseded", "cancelled"}
<1>1. CASE row' = row
  BY <1>1
<1>2. CASE Supersede
  <2>1. Unwritten(started) /\ started \in Attempts
    BY <1>2, AtCall, OpenStarted DEF RowInv, OpenFree, Supersede
  <2> QED
    BY <1>2, <2>1 DEF Supersede, RowInv, Types, Unwritten, Final
<1>3. ASSUME NEW b \in Attempts, WritePending(b)
      PROVE  row' = row \/ (row' = [row EXCEPT ![b] = "pending"] /\ row[b] = "none")
  BY <1>3 DEF WritePending, Taken
<1>4. ASSUME NEW w \in writers, NEW j \in w.jobs, PersistAttempt(w, j)
      PROVE  \/ row' = row
             \/ /\ row' = [row EXCEPT ![j.attempt] = j.status] /\ j.attempt \in Attempts
                /\ \/ Unwritten(j.attempt)
                   \/ row[j.attempt] = "superseded" /\ j.status = "cancelled"
  <2>1. j.attempt \in Attempts => j.attempt # 0
    BY LedgerAssumption DEF Attempts
  <2> QED
    BY <1>4, <2>1, JobSettled DEF RowInv, Jobs
<1>5. CASE Recorder
  <2>1. CASE \E b \in Attempts : WritePending(b)
    BY <1>3, <2>1 DEF RowInv, Types, Final
  <2>2. CASE \E w \in writers : PersistRequest(w)
    BY <1>1, <2>2 DEF PersistRequest
  <2>3. CASE \E w \in writers : \E j \in w.jobs : PersistAttempt(w, j)
    BY <1>4, <2>3 DEF RowInv, Types, Unwritten, Final
  <2> QED
    BY <1>5, <2>1, <2>2, <2>3 DEF Recorder
<1>6. CASE Handler /\ ~Supersede
  <2>1. row' = row
    BY <1>6 DEF Handler, Ingress, Refuse, StartPrimary, PrimaryStops, Rescue, AnswerOk,
       AnswerFails, RescueFails, WarmupFails, TokenRejected, Retry, Heal, HealAbandoned,
       NextFallback, Exhaust, Serve, Finish, StreamFails, Throw, Conclude, Unrecorded, ledger
  <2> QED
    BY <1>1, <2>1
<1>7. CASE Abort \/ Crash
  BY <1>1, <1>7 DEF Abort, Crash, ledger
<1> QED
  BY <1>2, <1>5, <1>6, <1>7 DEF Next

(* No late write of an earlier hop or of a pending insert takes back a row *)
(* that has an outcome.                                                    *)
THEOREM RowsStay == Spec => RowsAreFinal
<1>1. RowInv /\ [Next]_vars =>
        [/\ request \in Final => request' = request
         /\ \A a \in Attempts :
              /\ row[a] \in Final => row'[a] = row[a]
              /\ row[a] = "superseded" => row'[a] \in {"superseded", "cancelled"}]_vars
  BY RequestStays, RowMoves DEF RowInv
<1> QED
  BY <1>1, RowInvariance, PTL DEF Spec, RowsAreFinal
=============================================================================
