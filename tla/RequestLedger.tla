--------------------------- MODULE RequestLedger ---------------------------
(***************************************************************************)
(* What the database remembers of one proxied request: its row in          *)
(* `requests' and one row in `agent_messages' per provider call (attempt). *)
(* The handler (ProxyController.handleProxyRequest, through ProxyService   *)
(* and ProxyFallbackService) calls providers; the recorder                 *)
(* (ProxyMessageRecorder) writes rows in calls the handler does not wait   *)
(* for: they end in any order, and each of their statements may fail.      *)
(***************************************************************************)
EXTENDS Integers, Sequences, FiniteSets

CONSTANTS
  MaxAttempts,     (* bound: provider calls of the request                  *)
  Fallbacks,       (* bound: fallback routes after the primary              *)
  MaxFaults,       (* bound: failing database statements                    *)
  Fallible,        (* which may fail: "pending" inserts, "final" writes     *)
  Subscription,    (* BOOLEAN: a rejected OAuth token may be refreshed      *)
  CallerMayLeave,  (* BOOLEAN: the caller may disconnect                    *)
  MayCrash         (* BOOLEAN: the process may stop                         *)

ASSUME LedgerAssumption ==
  /\ {MaxAttempts, Fallbacks, MaxFaults} \subseteq Nat
  /\ MaxAttempts > Fallbacks
  /\ Fallible \subseteq {"pending", "final"}
  /\ {Subscription, CallerMayLeave, MayCrash} \subseteq BOOLEAN

Attempts == 1 .. MaxAttempts

Skipped == 0      (* providerCallStarted === false: cooled down, not called *)
Phantom == -1     (* failed without an attempt, but not marked as skipped   *)

Final == {"success", "failed", "cancelled"}
RowStatus == {"none", "pending", "superseded"} \union Final

VARIABLES
  pc,           (* where the handler is                                     *)
  leg,          (* the call at hand: "primary", "heal", "rescue", "fallback"*)
  routes,       (* fallback routes of this request; 0 for a pinned model    *)
  hop,          (* how many of them have been tried                         *)
  retried,      (* this leg's OAuth retry has been made                     *)
  healing,      (* Auto-fix has been consulted                              *)
  started,      (* attemptSequence; currentAttempt has this number          *)
  primary,      (* the primary's attempt (a healed retry's), or a marker    *)
  original,     (* the attempt Auto-fix retried; 0: none                    *)
  losers,       (* failedFallbacks: their attempts, or markers              *)
  aborted,      (* clientAbort.signal.aborted                               *)
  seen,         (* how the handler concluded                                *)
  request,      (* status in `requests'; "absent": no row                   *)
  row,          (* status in `agent_messages' of an attempt ("superseded":  *)
                (* failed, with the superseded flag)                        *)
  pendingWrite, (* the promise of an attempt's pending insert               *)
  strays,       (* attempt numbers taken by rows of no attempt              *)
  writers,      (* recorder calls under way                                 *)
  faults,       (* history: failed statements, by kind                      *)
  excused       (* history: attempts whose outcome was given up, by a crash,*)
                (* a failed statement, a throw, or an abandoned retry       *)

handler == <<pc, leg, routes, hop, retried, healing, started, primary,
             original, losers, seen>>
ledger  == <<request, row, strays>>
vars    == <<handler, aborted, ledger, pendingWrite, writers, faults, excused>>

Init ==
  /\ pc = "ingress" /\ leg = "primary"
  /\ routes \in 0 .. Fallbacks
  /\ hop = 0
  /\ retried = FALSE /\ healing = FALSE
  /\ started = 0 /\ primary = Skipped /\ original = 0
  /\ losers = <<>>
  /\ aborted = FALSE
  /\ seen = "none"
  /\ request = "absent"
  /\ row = [a \in Attempts |-> "none"]
  /\ pendingWrite = [a \in Attempts |-> "none"]
  /\ strays = {}
  /\ writers = {}
  /\ faults = [kind \in {"pending", "final"} |-> 0]
  /\ excused = {}

-----------------------------------------------------------------------------
(* Statements.  One may fail outright or land and still report a failure.  *)

Replies(kind) ==
  {"ok"} \union IF kind \in Fallible /\ faults.pending + faults.final < MaxFaults
                  THEN {"lost", "lostReply"} ELSE {}

Counts(kind, reply) ==
  faults' = IF reply = "ok" THEN faults ELSE [faults EXCEPT ![kind] = @ + 1]

-----------------------------------------------------------------------------
(* Recorder calls: the parent row first, then the rows of attempts.        *)

(* persistAttempt for attempt a.                                           *)
Job(a, s) == [attempt |-> a, numbers |-> {a}, status |-> s, creates |-> TRUE]

(* The same without an attempt: rows inserted under computed numbers.      *)
Unowned(ns) ==
  [attempt |-> 0, numbers |-> ns, status |-> "failed", creates |-> TRUE]

(* completeFailure: updates a pending row and never inserts one.           *)
Completion(a) ==
  [attempt |-> a, numbers |-> {a}, status |-> "failed", creates |-> FALSE]

(* `outcome' is the status of a terminal write; "pending" is a write that  *)
(* only makes sure the parent exists.                                      *)
Writer(outcome, jobs) ==
  [outcome |-> outcome, jobs |-> jobs, persisted |-> FALSE]

PrimaryNumber == IF original = 0 THEN 1 ELSE 2

PrimaryJobs(s) ==
  CASE primary = Skipped -> {}
    [] primary = Phantom -> {Unowned({PrimaryNumber})}
    [] OTHER             -> {Job(primary, s)}

(* The places of failedFallbacks that were called, and the rank of one.    *)
Contacted == {i \in DOMAIN losers : losers[i] # Skipped}
Rank(i) == Cardinality({k \in Contacted : k <= i})

(* recordFailedFallbacks: all without an attempt make one insert.          *)
FallbackJobs(last) ==
  IF \A i \in Contacted : losers[i] = Phantom
    THEN {Unowned({PrimaryNumber + Rank(i) : i \in Contacted})}
    ELSE {IF losers[i] = Phantom
            THEN Unowned({PrimaryNumber + Rank(i)})
            ELSE Job(losers[i],
                     IF \A k \in Contacted : k <= i THEN last ELSE "superseded") :
            i \in Contacted}

(* Mutant: a failed fallback decides the outcome of the request.           *)
FallbackWritersFinal(last) ==
  IF Contacted = {} THEN {} ELSE {Writer("failed", FallbackJobs(last))}

FallbackWriters(last) ==
  IF Contacted = {} THEN {} ELSE {Writer("pending", FallbackJobs(last))}

OriginalWriters ==
  IF original = 0 THEN {} ELSE {Writer("pending", {Job(original, "superseded")})}

-----------------------------------------------------------------------------
(* The handler.                                                            *)

Ingress ==
  /\ pc = "ingress"
  /\ pc' = "route"
  /\ \E reply \in Replies("pending") :
       /\ request' = IF reply = "lost" THEN request ELSE "pending"
       /\ Counts("pending", reply)
  /\ UNCHANGED <<leg, routes, hop, retried, healing, started, primary, original,
                 losers, seen, aborted, row, strays, pendingWrite, writers,
                 excused>>

Conclude(outcome, ws) ==
  /\ pc' = "done"
  /\ seen' = outcome
  /\ writers' = writers \union ws
  /\ UNCHANGED <<leg, routes, hop, retried, healing, started, primary, original,
                 losers, aborted, ledger, pendingWrite, faults>>

(* No route, a limit, a malformed request, a gate: no provider is called.  *)
Refuse ==
  /\ pc = "route"
  /\ \/ Conclude("failed", {Writer("failed", {})})
     \/ aborted /\ Conclude("cancelled", {Writer("cancelled", {})})
  /\ UNCHANGED excused

(* startProviderAttempt: a number, a pending insert nobody waits for.      *)
StartAttempt ==
  /\ started < MaxAttempts
  /\ started' = started + 1
  /\ pendingWrite' = [pendingWrite EXCEPT ![started + 1] = "writing"]

NoAttempt == UNCHANGED <<started, pendingWrite>>

(* A retry or a healed call is only made while the chain stays in bounds.  *)
Spare == started + (routes - hop) < MaxAttempts

Unrecorded == UNCHANGED <<seen, aborted, ledger, writers, faults, excused>>

StartPrimary ==
  /\ pc = "route" /\ pc' = "calling"
  /\ StartAttempt
  /\ Unrecorded
  /\ UNCHANGED <<leg, routes, hop, retried, healing, primary, original, losers>>

(* The primary fails without a provider call: cooled down, without usable  *)
(* credentials, or without a token to call it with.                        *)
PrimaryStops ==
  /\ pc = "route" /\ pc' = "failed"
  /\ \/ primary' = Skipped /\ NoAttempt
     \/ primary' = Phantom /\ NoAttempt
     \/ routes > 0 /\ primary' = started + 1 /\ StartAttempt
  /\ leg' = "fallback"
  /\ Unrecorded
  /\ UNCHANGED <<routes, hop, retried, healing, original, losers>>

(* M302: no such model; Auto-fix may rewrite the request and call one.     *)
Rescue ==
  /\ pc = "route" /\ pc' = "calling"
  /\ routes = 0
  /\ leg' = "rescue"
  /\ StartAttempt
  /\ Unrecorded
  /\ UNCHANGED <<routes, hop, retried, healing, primary, original, losers>>

AnswerOk ==
  /\ pc = "calling" /\ pc' = "won"
  /\ Unrecorded /\ NoAttempt
  /\ UNCHANGED <<leg, routes, hop, retried, healing, primary, original, losers>>

(* The leg at hand failed; m is its attempt, Skipped or Phantom.  The      *)
(* handler is at "failed" if other routes may be tried, else at "ended".   *)
LegFailed(m) ==
  /\ leg \in {"primary", "heal", "fallback"}
  /\ primary' = IF leg = "fallback" THEN primary ELSE m
  /\ original' = IF leg = "heal" THEN primary ELSE original
  /\ losers' = IF leg = "fallback" THEN Append(losers, m) ELSE losers
  /\ leg' = IF leg = "heal" THEN "fallback" ELSE leg

AnswerFails ==
  /\ pc = "calling"
  /\ LegFailed(started) /\ pc' \in {"failed", "ended"}
  /\ Unrecorded /\ NoAttempt
  /\ UNCHANGED <<routes, hop, retried, healing>>

(* A rescued request that fails again gets the M302 stub.                  *)
RescueFails ==
  /\ pc = "calling" /\ leg = "rescue"
  /\ Conclude("failed", {Writer("failed", {Completion(started)})})
  /\ UNCHANGED excused

(* A stream that never gets going counts as a failure of the primary.      *)
WarmupFails ==
  /\ pc = "won" /\ pc' = "failed"
  /\ leg \in {"primary", "heal"}
  /\ primary' = started
  /\ original' = IF leg = "heal" THEN primary ELSE original
  /\ leg' = "fallback"
  /\ Unrecorded /\ NoAttempt
  /\ UNCHANGED <<routes, hop, retried, healing, losers>>

(* A 401 of a subscription whose token could be refreshed.                 *)
TokenRejected ==
  /\ Subscription
  /\ pc = "calling" /\ pc' = "superseding"
  /\ ~retried /\ Spare
  /\ retried' = TRUE
  /\ Unrecorded /\ NoAttempt
  /\ UNCHANGED <<leg, routes, hop, healing, primary, original, losers>>

(* completeFailure, awaited: nothing to complete if the insert failed.     *)
Supersede ==
  /\ pc = "superseding" /\ pc' = "retrying"
  /\ \/ /\ pendingWrite[started] = "true"
        /\ \E reply \in Replies("final") :
             /\ row' = IF reply = "lost" THEN row
                                         ELSE [row EXCEPT ![started] = "superseded"]
             /\ excused' = IF reply = "lost" THEN excused \union {started}
                                             ELSE excused
             /\ Counts("final", reply)
     \/ /\ pendingWrite[started] = "false"
        /\ excused' = excused \union {started}
        /\ UNCHANGED <<row, faults>>
  /\ UNCHANGED <<leg, routes, hop, retried, healing, started, primary, original,
                 losers, seen, aborted, request, strays, pendingWrite, writers>>

Retry ==
  /\ pc = "retrying"
  /\ Unrecorded
  /\ \/ /\ pc' = "calling"
        /\ StartAttempt
        /\ UNCHANGED <<leg, primary, original, losers>>
     \/ LegFailed(Phantom) /\ pc' = "failed" /\ NoAttempt
  /\ UNCHANGED <<routes, hop, retried, healing>>

(* Auto-fix patches a failed primary; the patched call may be made, cool   *)
(* down, or find no route.                                                 *)
Heal ==
  /\ pc \in {"failed", "ended"} /\ leg = "primary" /\ primary \in Attempts
  /\ ~healing /\ healing' = TRUE
  /\ \/ /\ Spare
        /\ pc' = "calling" /\ leg' = "heal"
        /\ StartAttempt
        /\ UNCHANGED <<primary, original>>
     \/ /\ leg' = "fallback"
        /\ original' = primary
        /\ primary' \in {Skipped, Phantom}
        /\ pc' = "failed"
        /\ NoAttempt
  /\ retried' = FALSE
  /\ Unrecorded
  /\ UNCHANGED <<routes, hop, losers>>

(* The patched call threw: Auto-fix keeps the first answer and forgets it. *)
HealAbandoned ==
  /\ pc \in {"calling", "retrying"}
  /\ excused' = excused \union {started}
  /\ \/ /\ leg = "heal" /\ leg' = "fallback"
        /\ pc' \in {"failed", "ended"}
        /\ UNCHANGED <<routes, hop, retried, healing, started, primary, original,
                       losers, seen, aborted, ledger, pendingWrite, writers,
                       faults>>
     \/ /\ leg = "rescue"
        /\ Conclude("failed", {Writer("failed", {})})

(* tryFallbacks: the next route is called, or fails before it is.          *)
NextFallback ==
  /\ pc = "failed"
  /\ leg' = "fallback"
  /\ hop < routes /\ hop' = hop + 1
  /\ retried' = FALSE
  /\ \/ pc' = "calling" /\ StartAttempt /\ UNCHANGED losers
     \/ losers' = Append(losers, started + 1) /\ StartAttempt /\ UNCHANGED pc
     \/ /\ \E m \in {Skipped, Phantom} : losers' = Append(losers, m)
        /\ NoAttempt /\ UNCHANGED pc
  /\ Unrecorded
  /\ UNCHANGED <<routes, healing, primary, original>>

(* handleProviderError: no route is left, or the status ends the chain.    *)
Exhaust ==
  /\ pc = "ended" \/ (pc = "failed" /\ hop = routes)
  /\ Conclude("failed",
       OriginalWriters \union
       IF losers = <<>>
         THEN {Writer("failed", PrimaryJobs("failed"))}
         ELSE FallbackWriters("failed")
                \union {Writer("failed", PrimaryJobs("superseded"))})
  /\ UNCHANGED excused

(* The answer goes to the caller; what lost to a fallback is recorded now. *)
Serve ==
  /\ pc = "won" /\ pc' = "serving"
  /\ original' = IF leg = "heal" THEN primary ELSE original
  /\ writers' = IF leg # "fallback" THEN writers
                ELSE writers \union OriginalWriters
                       \union {Writer("pending", PrimaryJobs("superseded"))}
                       \union FallbackWriters("superseded")
  /\ UNCHANGED <<leg, routes, hop, retried, healing, started, primary, losers,
                 seen, aborted, ledger, pendingWrite, faults, excused>>

(* Mutant: on a fallback's success the primary's attempt is credited.      *)
WinnerPrimary == IF primary \in Attempts THEN primary ELSE started

(* meta.attempt of the answer that is served.                              *)
Winner == started

Finish ==
  /\ pc = "serving"
  /\ Conclude("success",
       {Writer("success", {Job(Winner, "success")})}
         \union IF leg = "fallback" THEN {} ELSE OriginalWriters)
  /\ UNCHANGED excused

(* The provider's stream broke: the error is recorded, a healed original   *)
(* is not.                                                                 *)
StreamFails ==
  /\ pc = "serving" /\ ~aborted
  /\ Conclude("failed", {Writer("failed", {Job(started, "failed")})})
  /\ excused' = excused \union (IF leg = "heal" THEN {original} ELSE {})

(* The attempts no recorder call has been made for yet.                    *)
Unreported == IF pc = "serving" /\ leg = "fallback" THEN {started}
                                                    ELSE 1 .. started

(* Anything else that is thrown: the caller left, or Tuple itself failed.  *)
Throw ==
  /\ \/ pc \in {"calling", "retrying"} /\ leg \in {"primary", "fallback"}
     \/ pc = "failed" /\ leg = "fallback" /\ routes > 0
     \/ pc \in {"won", "serving"}
  /\ LET current == {started} \ {0} IN
       IF aborted
         THEN /\ Conclude("cancelled", {Writer("cancelled",
                            {Job(a, "cancelled") : a \in current})})
              /\ excused' = excused \union (Unreported \ current)
         ELSE /\ Conclude("failed", {Writer("failed", {})})
              /\ excused' = excused \union Unreported

Handler ==
  \/ Ingress \/ Refuse \/ StartPrimary \/ PrimaryStops \/ Rescue
  \/ AnswerOk \/ AnswerFails \/ RescueFails \/ WarmupFails
  \/ TokenRejected \/ Supersede \/ Retry \/ Heal \/ HealAbandoned
  \/ NextFallback \/ Exhaust \/ Serve \/ Finish \/ StreamFails \/ Throw

-----------------------------------------------------------------------------
(* Recorder calls and pending inserts, each statement a step of its own.   *)

(* Ids are unique, and so are the attempt numbers of a request.            *)
Taken == strays \union {a \in Attempts : row[a] # "none"}

(* An attempt refers to its request: without that row it is refused, too.  *)
WritePending(a) ==
  /\ pendingWrite[a] = "writing"
  /\ IF a \in Taken \/ request = "absent"
       THEN /\ pendingWrite' = [pendingWrite EXCEPT ![a] = "false"]
            /\ UNCHANGED <<row, faults>>
       ELSE \E reply \in Replies("pending") :
              /\ row' = IF reply = "lost" THEN row
                                          ELSE [row EXCEPT ![a] = "pending"]
              /\ pendingWrite' = [pendingWrite EXCEPT ![a] =
                                    IF reply = "ok" THEN "true" ELSE "false"]
              /\ Counts("pending", reply)
  /\ UNCHANGED <<handler, aborted, request, strays, writers, excused>>

(* Mutant: intermediate writes replace the parent row as terminal ones do. *)
PersistedAlways(outcome) == outcome

(* Mutant: a terminal write, too, gives way to the row that is there.      *)
PersistedIfAbsent(outcome) == IF request = "absent" THEN outcome ELSE request

(* The parent row after persistRequest: a terminal write replaces it, an   *)
(* intermediate one inserts or ignores.                                    *)
Persisted(outcome) ==
  IF outcome # "pending" THEN outcome
  ELSE IF request = "absent" THEN "pending" ELSE request

Kind(w) == IF w.outcome = "pending" THEN "pending" ELSE "final"

AttemptsOf(jobs) == {j.attempt : j \in jobs} \ {0}

PersistRequest(w) ==
  /\ ~w.persisted
  /\ \E reply \in Replies(Kind(w)) :
       /\ request' = IF reply = "lost" THEN request ELSE Persisted(w.outcome)
       /\ writers' = (writers \ {w}) \union
                     IF reply = "ok" /\ w.jobs # {}
                       THEN {[w EXCEPT !.persisted = TRUE]} ELSE {}
       /\ excused' = IF reply = "ok" THEN excused
                                     ELSE excused \union AttemptsOf(w.jobs)
       /\ Counts(Kind(w), reply)
  /\ UNCHANGED <<handler, aborted, row, strays, pendingWrite>>

Without(w, j) ==
  (writers \ {w}) \union
  IF w.jobs = {j} THEN {} ELSE {[w EXCEPT !.jobs = @ \ {j}]}

(* Rows of no attempt; one number taken refuses the whole insert.          *)
InsertUnowned(w, j) ==
  /\ j.attempt = 0
  /\ strays' = IF j.numbers \intersect Taken = {} THEN strays \union j.numbers
                                                  ELSE strays
  /\ UNCHANGED <<row, faults, excused>>

(* Mutant: the outcome is written without waiting for the pending insert.  *)
CompletesUnawaited(j) ==
  CASE pendingWrite[j.attempt] \in {"writing", "true"} -> "update"
    [] OTHER -> IF ~j.creates THEN "nothing"
                ELSE IF j.attempt \in Taken THEN "refused" ELSE "insert"

(* persistAttempt and completePendingProviderFailure await the pending     *)
(* insert; only if it succeeded there is a row to update.                  *)
Completes(j) ==
  CASE pendingWrite[j.attempt] = "writing" -> "waits"
    [] pendingWrite[j.attempt] = "true"    -> "update"
    [] OTHER -> IF ~j.creates THEN "nothing"
                ELSE IF j.attempt \in Taken THEN "refused" ELSE "insert"

CompleteAttempt(w, j) ==
  /\ j.attempt # 0
  /\ LET how == Completes(j) IN
       /\ how # "waits"
       /\ IF how \in {"nothing", "refused"}
            THEN excused' = excused \union {j.attempt} /\ UNCHANGED <<row, faults>>
            ELSE \E reply \in Replies("final") :
                   /\ row' = IF (how = "update" /\ row[j.attempt] = "none")
                                   \/ reply = "lost"
                               THEN row
                               ELSE [row EXCEPT ![j.attempt] = j.status]
                   /\ excused' = IF reply = "lost"
                                   THEN excused \union {j.attempt} ELSE excused
                   /\ Counts("final", reply)
  /\ UNCHANGED strays

PersistAttempt(w, j) ==
  /\ w.persisted
  /\ InsertUnowned(w, j) \/ CompleteAttempt(w, j)
  /\ writers' = Without(w, j)
  /\ UNCHANGED <<handler, aborted, request, pendingWrite>>

Recorder ==
  \/ \E a \in Attempts : WritePending(a)
  \/ \E w \in writers : PersistRequest(w)
  \/ \E w \in writers : \E j \in w.jobs : PersistAttempt(w, j)

-----------------------------------------------------------------------------
(* The environment.                                                        *)

Quiet ==
  /\ pc \in {"done", "down"}
  /\ writers = {}
  /\ \A a \in Attempts : pendingWrite[a] # "writing"

Abort ==
  /\ CallerMayLeave
  /\ ~aborted /\ pc \notin {"done", "down"}
  /\ aborted' = TRUE
  /\ UNCHANGED <<handler, ledger, pendingWrite, writers, faults, excused>>

(* The process stops; no job sweeps up what it leaves.                     *)
Crash ==
  /\ MayCrash /\ pc # "down" /\ ~Quiet
  /\ pc' = "down"
  /\ writers' = {}
  /\ pendingWrite' = [a \in Attempts |-> IF pendingWrite[a] = "writing"
                                           THEN "none" ELSE pendingWrite[a]]
  /\ excused' = excused \union 1 .. started
  /\ UNCHANGED <<leg, routes, hop, retried, healing, started, primary, original,
                 losers, seen, aborted, ledger, faults>>

Next == Handler \/ Recorder \/ Abort \/ Crash

Spec == Init /\ [][Next]_vars

(* Provider calls have timeouts and the database answers or fails.         *)
FairSpec == Spec /\ WF_vars(Handler) /\ WF_vars(Recorder)

-----------------------------------------------------------------------------
(* Properties.                                                             *)

JobType ==
  [attempt : 0 .. MaxAttempts, numbers : SUBSET (1 .. MaxAttempts + 2),
   status : {"superseded"} \union Final, creates : BOOLEAN]

(* Every variable holds a value of its kind; the numbers of rows without an*)
(* attempt stay within those of the primary and its fallbacks.             *)
TypeOK ==
  /\ pc \in {"ingress", "route", "calling", "superseding", "retrying", "won",
             "failed", "ended", "serving", "done", "down"}
  /\ leg \in {"primary", "heal", "rescue", "fallback"}
  /\ routes \in 0 .. Fallbacks /\ hop \in 0 .. routes
  /\ {retried, healing, aborted} \subseteq BOOLEAN
  /\ started \in 0 .. MaxAttempts
  /\ primary \in {Phantom, Skipped} \union Attempts
  /\ original \in 0 .. MaxAttempts
  /\ losers \in Seq({Phantom, Skipped} \union Attempts)
  /\ seen \in {"none"} \union Final
  /\ request \in {"absent", "pending"} \union Final
  /\ row \in [Attempts -> RowStatus]
  /\ pendingWrite \in [Attempts -> {"none", "writing", "true", "false"}]
  /\ strays \subseteq 1 .. Fallbacks + 2
  /\ \A w \in writers : /\ w.outcome \in {"pending"} \union Final
                        /\ w.jobs \subseteq JobType
                        /\ w.persisted \in BOOLEAN
  /\ faults \in [{"pending", "final"} -> 0 .. MaxFaults]
  /\ excused \subseteq Attempts

(* Once the row in `requests' is terminal it says what the caller saw, in  *)
(* whatever order the unawaited recorder calls of the chain get through.   *)
RequestTruthful == request \in Final => request = seen

(* A row that has an outcome keeps it: no late write of an earlier hop or  *)
(* of a pending insert takes it back.  Only an attempt whose OAuth token   *)
(* was rejected may still be marked cancelled, if its caller leaves before *)
(* the retry is made.                                                      *)
RowsAreFinal ==
  [][/\ request \in Final => request' = request
     /\ \A a \in Attempts :
          /\ row[a] \in Final => row'[a] = row[a]
          /\ row[a] = "superseded" => row'[a] \in {"superseded", "cancelled"}]_vars

(* When everything is written, an attempt without an outcome is one that   *)
(* was given up by a crash, a failed or a refused statement, a throw, or a *)
(* patched call that threw: the recorder calls of the handler's many exits *)
(* between them leave out no attempt.                                      *)
OrphansExplained ==
  Quiet => \A a \in 1 .. started :
             row[a] \in {"none", "pending"} => a \in excused

(* docs/glossary.md, Last Attempt: a request that succeeded ends on the    *)
(* attempt that succeeded and has no other such attempt, unless that       *)
(* attempt's own row was lost or refused.                                  *)
SuccessEndsOnSuccess ==
  request = "success" /\ Quiet =>
    /\ row[started] = "success" \/ started \in excused
    /\ \A a \in 1 .. started - 1 : row[a] # "success"

(* A request reaches a terminal status, whatever pending inserts are lost  *)
(* and however calls of the recorder race with each other, unless the      *)
(* process stops or a terminal write itself fails.                         *)
RequestSettles == <>(request \in Final \/ pc = "down" \/ faults.final > 0)
=============================================================================
