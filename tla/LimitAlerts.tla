---------------------------- MODULE LimitAlerts ----------------------------
(***************************************************************************)
(* Spending limits and alerts of one agent that has one rule of action     *)
(* `both' (LimitCheckService, NotificationCronService, NotificationLog-    *)
(* Service, IngestEventBusService).  The proxy refuses a request when the  *)
(* consumption of the rule's period has reached its threshold; it and an   *)
(* hourly job report that by mail, once per period.  Rules and consumption *)
(* are cached per replica; recorded usage evicts the cached consumption    *)
(* through a debounced event.                                              *)
(***************************************************************************)
EXTENDS Integers, FiniteSets

CONSTANTS
  Replicas,    (* backend processes                                         *)
  Requests,    (* proxy requests of the agent                               *)
  Crons,       (* the hourly job, one per replica                           *)
  Home,        (* the replica of a job                                      *)
  Editor,      (* the replica that serves changes of the rule               *)
  LastHour,    (* bound: hours of the run                                   *)
  DayHours,    (* hours of a day                                            *)
  Rules,       (* what the rule may be                                      *)
  FirstRules,  (* what it may be at the start                               *)
  MaxUpsets    (* bound: changes of the rule, jobs a user asks for, crashes *)
               (* and failed statements                                     *)

Procs   == Requests \union Crons
Hours   == 0 .. LastHour
Limits  == {x.limit : x \in Rules}

None    == "none"
NoRule  == [on |-> None]
NoValue == -1

ASSUME LimitsAssumption ==
  /\ IsFiniteSet(Requests) /\ Requests \intersect Crons = {}
  /\ Home \in [Crons -> Replicas] /\ Editor \in Replicas
  /\ LastHour \in Nat \ {0} /\ DayHours \in Nat \ {0} /\ MaxUpsets \in Nat

ASSUME RulesAssumption ==
  Rules \subseteq [on : BOOLEAN, limit : Nat \ {0}, period : {"hour", "day"}]

ASSUME FirstRulesAssumption == FirstRules \subseteq Rules

VARIABLES
  hour,     (* the current hour                                             *)
  fresh,    (* requests whose call began in the current second              *)
  spent,    (* requests on record, by the hour of their timestamp           *)
  rule,     (* the row of notification_rules                                *)
  logs,     (* rows of notification_logs by period_start, with the limit  *)
  mails,    (* alerts that have reached the mail provider, by period_start  *)
  rules,    (* rulesCache of a replica                                      *)
  usage,    (* consumptionCache of a replica, by period start               *)
  timer,    (* a replica's debounce timer is set                            *)
  pc,       (* where a request or a job is                                  *)
  at,       (* the replica it runs on                                       *)
  born,     (* the hour a request's call began                              *)
  got,      (* the rule it read                                             *)
  start,    (* the period start it computed                                 *)
  value,    (* the consumption it read                                      *)
  due,      (* jobs whose hourly run, or run at start-up, is due            *)
  editing,  (* the rule is written, the cache not yet invalidated           *)
  upsets,   (* what counts against MaxUpsets so far                         *)
  atHour,   (* history: `spent' when the hour began                         *)
  raced,    (* history: readers whose result an eviction, another replica   *)
            (* or the current second has left behind                        *)
  stale,    (* history: cached consumption that misses usage of another     *)
            (* replica, or was stored by such a reader                      *)
  old,      (* history: replicas whose rules are those before a change on   *)
            (* another replica or one that failed before its invalidation,  *)
            (* or were stored by such a reader                              *)
  split,    (* history: periods a job judged by another one's consumption   *)
  lost,     (* history: periods whose mail failed or died with its process  *)
  spoiled   (* history: jobs whose run for the current hour was disturbed   *)

clock   == <<hour, fresh>>
caches  == <<rules, usage>>
sent    == <<logs, mails>>
work    == <<at, born, got, start, value>>
history == <<atHour, raced, stale, old, split, lost, spoiled>>
vars    == <<clock, spent, rule, sent, caches, timer, pc, work, due, editing,
             upsets, history>>

-----------------------------------------------------------------------------
(* computePeriodBoundaries and getConsumption.                             *)

(* An hourly window begins with the previous hour.                         *)
Start(period, h) == IF period = "hour" THEN h - 1 ELSE h - (h % DayHours)

(* A request on record is a unit of the rule's metric.                     *)
Consumed(s, use) == Cardinality(UNION {use[h] : h \in s .. LastHour})

OnRecord(s) == Consumed(s, spent)

(* The period ends with the last full second: what began since is left     *)
(* out.                                                                    *)
Consumption(s) == Consumed(s, [h \in Hours |-> spent[h] \ fresh])

Init ==
  /\ hour = 1 /\ fresh = {}
  /\ spent = [h \in Hours |-> {}]
  /\ rule \in FirstRules
  /\ logs = [s \in Hours |-> NoValue]
  /\ mails = [s \in Hours |-> 0]
  /\ rules = [r \in Replicas |-> NoRule]
  /\ usage = [r \in Replicas |-> [s \in Hours |-> NoValue]]
  /\ timer = [r \in Replicas |-> FALSE]
  /\ pc = [p \in Procs |-> IF p \in Requests THEN "new" ELSE "idle"]
  /\ at = [p \in Procs |-> IF p \in Crons THEN Home[p] ELSE Editor]
  /\ born = [p \in Procs |-> 1]
  /\ got = [p \in Procs |-> NoRule]
  /\ start = [p \in Procs |-> 0]
  /\ value = [p \in Procs |-> 0]
  /\ due = Crons
  /\ editing = FALSE
  /\ upsets = 0
  /\ atHour = spent
  /\ raced = {} /\ stale = {} /\ old = {}
  /\ split = {} /\ lost = {} /\ spoiled = {}

Goes(p, to) == pc' = [pc EXCEPT ![p] = to]

Ended(p) == IF p \in Requests THEN "done" ELSE "idle"

(* These are through; what they held is gone with them.                    *)
End(ps) ==
  /\ pc' = [p \in Procs |-> IF p \in ps THEN Ended(p) ELSE pc[p]]
  /\ at' = [p \in Procs |-> IF p \in ps \ Crons THEN Editor ELSE at[p]]
  /\ born' = [p \in Procs |-> IF p \in ps THEN 1 ELSE born[p]]
  /\ got' = [p \in Procs |-> IF p \in ps THEN NoRule ELSE got[p]]
  /\ start' = [p \in Procs |-> IF p \in ps THEN 0 ELSE start[p]]
  /\ value' = [p \in Procs |-> IF p \in ps THEN 0 ELSE value[p]]

Upset == upsets < MaxUpsets /\ upsets' = upsets + 1

-----------------------------------------------------------------------------
(* A request: checkLimits, then the call and its recording.                *)

Known(x) == "limit" \in DOMAIN x

(* getCachedRules of the replica it arrives at: an entry of the cache, or   *)
(* what the table says.                                                    *)
FindRules(q, r) ==
  /\ pc[q] = "new"
  /\ at' = [at EXCEPT ![q] = r]
  /\ IF Known(rules[r])
       THEN got' = [got EXCEPT ![q] = rules[r]] /\ Goes(q, "limits")
       ELSE got' = [got EXCEPT ![q] = rule] /\ Goes(q, "caching_rules")
  /\ UNCHANGED <<clock, spent, rule, sent, caches, timer, born, start,
                 value, due, editing, upsets, history>>

StoreRules(q) ==
  /\ pc[q] = "caching_rules"
  /\ rules' = [rules EXCEPT ![at[q]] = got[q]]
  /\ old' = IF q \in raced THEN old \union {at[q]} ELSE old \ {at[q]}
  /\ raced' = raced \ {q}
  /\ Goes(q, "limits")
  /\ UNCHANGED <<clock, spent, rule, sent, usage, timer, work, due, editing,
                 upsets, atHour, stale, split, lost, spoiled>>

(* Mutant: the request being judged counts already.                        *)
VerdictAhead(q, used) ==
  Goes(q, IF used + 1 >= got[q].limit THEN "asking" ELSE "served")

Verdict(q, used) ==
  Goes(q, IF used >= got[q].limit THEN "asking" ELSE "served")

(* getCachedConsumption.  A refused request goes on as its own notifier,   *)
(* which nobody waits for.                                                 *)
FindUsage(q) ==
  /\ pc[q] = "limits"
  /\ IF ~got[q].on THEN Goes(q, "served") /\ UNCHANGED <<start, value, raced>>
     ELSE LET s == Start(got[q].period, hour)
              cached == usage[at[q]][s] IN
            /\ start' = [start EXCEPT ![q] = s]
            /\ IF cached # NoValue
                 THEN /\ value' = [value EXCEPT ![q] = cached]
                      /\ Verdict(q, cached)
                      /\ UNCHANGED raced
                 ELSE /\ value' = [value EXCEPT ![q] = Consumption(s)]
                      /\ Goes(q, "caching_usage")
                      /\ raced' = IF Consumption(s) # OnRecord(s)
                                    THEN raced \union {q} ELSE raced
  /\ UNCHANGED <<clock, spent, rule, sent, caches, timer, at, born, got, due,
                 editing, upsets, atHour, stale, old, split, lost, spoiled>>

StoreUsage(q) ==
  LET entry == <<at[q], start[q]>> IN
    /\ pc[q] = "caching_usage"
    /\ usage' = [usage EXCEPT ![at[q]][start[q]] = value[q]]
    /\ stale' = IF q \in raced THEN stale \union {entry} ELSE stale \ {entry}
    /\ raced' = raced \ {q}
    /\ Verdict(q, value[q])
    /\ UNCHANGED <<clock, spent, rule, sent, rules, timer, work, due, editing,
                   upsets, atHour, old, split, lost, spoiled>>

(* checkLimits has returned, the call of the provider begins.              *)
Call(q) ==
  /\ pc[q] = "served"
  /\ born' = [born EXCEPT ![q] = hour]
  /\ fresh' = fresh \union {q}
  /\ got' = [got EXCEPT ![q] = NoRule]
  /\ start' = [start EXCEPT ![q] = 0]
  /\ value' = [value EXCEPT ![q] = 0]
  /\ Goes(q, "called")
  /\ UNCHANGED <<hour, spent, rule, sent, caches, timer, at, due, editing, upsets,
                 history>>

(* The row with the request's usage bears the time its call began.         *)
Record(q) ==
  /\ pc[q] = "called"
  /\ spent' = [spent EXCEPT ![born[q]] = @ \union {q}]
  /\ Goes(q, "recorded")
  /\ stale' = stale \union
       {e \in (Replicas \ {at[q]}) \X (0 .. born[q]) :
          usage[e[1]][e[2]] # NoValue}
  /\ raced' = raced \union
       {p \in Requests : /\ at[p] # at[q] /\ pc[p] = "caching_usage"
                         /\ start[p] <= born[q]}
  /\ UNCHANGED <<clock, rule, sent, caches, timer, work, due, editing, upsets,
                 atHour, old, split, lost, spoiled>>

(* Every emit sets the debounce timer anew.                                *)
Emit(q) ==
  /\ pc[q] = "recorded"
  /\ timer' = [timer EXCEPT ![at[q]] = TRUE]
  /\ End({q})
  /\ UNCHANGED <<clock, spent, rule, sent, caches, due, editing, upsets, history>>

-----------------------------------------------------------------------------
(* The caches of a replica.                                                *)

Overtaken(r) ==
  {q \in Requests : /\ at[q] = r /\ pc[q] = "caching_usage"
                    /\ value[q] # OnRecord(start[q])}

(* Mutant: only the entry of the present window is evicted.                *)
DroppedOfWindow(r) == [usage EXCEPT ![r][Start(rule.period, hour)] = NoValue]

Dropped(r) == [usage EXCEPT ![r] = [s \in Hours |-> NoValue]]

(* The debounced event of the tenant arrives.                              *)
Fire(r) ==
  /\ timer[r]
  /\ timer' = [timer EXCEPT ![r] = FALSE]
  /\ usage' = Dropped(r)
  /\ stale' = {e \in stale : e[1] # r}
  /\ raced' = raced \union Overtaken(r)
  /\ UNCHANGED <<clock, spent, rule, sent, rules, pc, work, due, editing, upsets,
                 atHour, old, split, lost, spoiled>>

ExpireRules(r) ==
  /\ Known(rules[r])
  /\ rules' = [rules EXCEPT ![r] = NoRule]
  /\ old' = old \ {r}
  /\ UNCHANGED <<clock, spent, rule, sent, usage, timer, pc, work, due, editing,
                 upsets, atHour, raced, stale, split, lost, spoiled>>

ExpireUsage(r, s) ==
  /\ usage[r][s] # NoValue
  /\ usage' = [usage EXCEPT ![r][s] = NoValue]
  /\ stale' = stale \ {<<r, s>>}
  /\ UNCHANGED <<clock, spent, rule, sent, rules, timer, pc, work, due, editing,
                 upsets, atHour, raced, old, split, lost, spoiled>>

Expire(r) == ExpireRules(r) \/ \E s \in Hours : ExpireUsage(r, s)

(* updateRule: the row, then the caches of the replica that serves it.     *)
Edit(x) ==
  /\ ~editing
  /\ x # rule
  /\ rule' = x
  /\ editing' = TRUE
  /\ Upset
  /\ old' = old \union {r \in Replicas \ {Editor} : Known(rules[r])}
  /\ raced' = raced \union
       {q \in Requests : at[q] # Editor /\ pc[q] = "caching_rules"}
  /\ spoiled' = Crons
  /\ UNCHANGED <<clock, spent, sent, caches, timer, pc, work, due,
                 atHour, stale, split, lost>>

(* Mutant: a changed rule drops the cached consumption only.               *)
InvalidateUsage ==
  /\ editing
  /\ editing' = FALSE
  /\ usage' = Dropped(Editor)
  /\ UNCHANGED <<clock, spent, rule, sent, rules, timer, pc, work, due, upsets,
                 history>>

Invalidate ==
  /\ editing
  /\ editing' = FALSE
  /\ rules' = [rules EXCEPT ![Editor] = NoRule]
  /\ usage' = Dropped(Editor)
  /\ old' = old \ {Editor}
  /\ stale' = {e \in stale : e[1] # Editor}
  /\ raced' = raced \union Overtaken(Editor) \union
       {q \in Requests : /\ at[q] = Editor /\ pc[q] = "caching_rules"
                         /\ got[q] # rule}
  /\ UNCHANGED <<clock, spent, rule, sent, timer, pc, work, due, upsets, atHour,
                 split, lost, spoiled>>

(* The row is read again before the caches are dropped: if that fails, so  *)
(* does the call.                                                          *)
EditFails ==
  /\ editing
  /\ editing' = FALSE
  /\ old' = IF rules[Editor] \in {NoRule, rule} THEN old
                                               ELSE old \union {Editor}
  /\ raced' = raced \union
       {q \in Requests : /\ at[q] = Editor /\ pc[q] = "caching_rules"
                         /\ got[q] # rule}
  /\ UNCHANGED <<clock, spent, rule, sent, caches, timer, pc, work, due,
                 upsets, atHour, stale, split, lost, spoiled>>

-----------------------------------------------------------------------------
(* The hourly job.                                                         *)

(* On the hour, at start-up, or because a user asks for it.                *)
CronStart(c) ==
  /\ pc[c] = "idle"
  /\ IF c \in due THEN UNCHANGED upsets ELSE Upset
  /\ IF rule.on THEN got' = [got EXCEPT ![c] = rule] /\ Goes(c, "consuming")
               ELSE UNCHANGED <<got, pc>>
  /\ due' = due \ {c}
  /\ spoiled' = IF c \in due THEN spoiled \ {c} ELSE spoiled
  /\ UNCHANGED <<clock, spent, rule, sent, caches, timer, at, born, start,
                 value, editing, atHour, raced, stale, old, split, lost>>

CronReads(c) ==
  /\ pc[c] = "consuming"
  /\ LET s == Start(got[c].period, hour) IN
       /\ start' = [start EXCEPT ![c] = s]
       /\ value' = [value EXCEPT ![c] = Consumption(s)]
  /\ Goes(c, "evaluating")
  /\ UNCHANGED <<clock, spent, rule, sent, caches, timer, at, born, got, due,
                 editing, upsets, history>>

(* Mutant: the job alerts above the threshold only.                        *)
EvaluateAbove(c) ==
  /\ pc[c] = "evaluating"
  /\ LET s == Start(got[c].period, hour)
         yes == logs[s] = NoValue /\ value[c] > got[c].limit IN
       IF yes THEN /\ start' = [start EXCEPT ![c] = s]
                   /\ Goes(c, "logging")
                   /\ UNCHANGED <<at, born, got, value>>
              ELSE End({c})
  /\ UNCHANGED <<clock, spent, rule, sent, caches, timer, due, editing, upsets,
                 history>>

(* evaluateRule computes the period anew, whatever hour it is by then.     *)
Evaluate(c) ==
  /\ pc[c] = "evaluating"
  /\ LET s == Start(got[c].period, hour)
         yes == logs[s] = NoValue /\ value[c] >= got[c].limit IN
       /\ IF yes THEN /\ start' = [start EXCEPT ![c] = s]
                      /\ Goes(c, "logging")
                      /\ UNCHANGED <<at, born, got, value>>
                 ELSE End({c})
       /\ split' = IF yes /\ s # start[c] THEN split \union {s} ELSE split
  /\ UNCHANGED <<clock, spent, rule, sent, caches, timer, due, editing, upsets,
                 atHour, raced, stale, old, lost, spoiled>>

-----------------------------------------------------------------------------
(* Alerts: of a refused request and of the job.                            *)

(* Mutant: the row is written before the question, which then finds it.    *)
AskAfterRow(q) ==
  /\ pc[q] = "asking"
  /\ logs' = [logs EXCEPT ![start[q]] = got[q].limit]
  /\ End({q})
  /\ UNCHANGED <<clock, spent, rule, mails, caches, timer, due, editing, upsets,
                 history>>

(* hasAlreadySent.                                                         *)
Ask(q) ==
  /\ pc[q] = "asking"
  /\ IF logs[start[q]] = NoValue THEN Goes(q, "logging") /\ UNCHANGED work
                                 ELSE End({q})
  /\ UNCHANGED <<clock, spent, rule, sent, caches, timer, due, editing, upsets,
                 history>>

(* Mutant: (rule_id, period_start) is not unique.                          *)
WriteAnotherLog(p) ==
  /\ pc[p] = "logging"
  /\ logs' = [logs EXCEPT ![start[p]] = got[p].limit]
  /\ Goes(p, "mailing")
  /\ UNCHANGED <<clock, spent, rule, mails, caches, timer, work, due, editing,
                 upsets, history>>

(* insertLog; (rule_id, period_start) is unique.                           *)
WriteLog(p) ==
  /\ pc[p] = "logging"
  /\ IF logs[start[p]] # NoValue
       THEN End({p}) /\ UNCHANGED logs
       ELSE /\ logs' = [logs EXCEPT ![start[p]] = got[p].limit]
            /\ Goes(p, "mailing")
            /\ UNCHANGED work
  /\ UNCHANGED <<clock, spent, rule, mails, caches, timer, due, editing, upsets,
                 history>>

(* The mail provider takes the mail or does not; there may be no address.  *)
Mail(p) ==
  /\ pc[p] = "mailing"
  /\ \/ mails' = [mails EXCEPT ![start[p]] = @ + 1] /\ UNCHANGED lost
     \/ lost' = lost \union {start[p]} /\ UNCHANGED mails
  /\ End({p})
  /\ UNCHANGED <<clock, spent, rule, logs, caches, timer, due, editing, upsets,
                 atHour, raced, stale, old, split, spoiled>>

-----------------------------------------------------------------------------
(* Failures and time.                                                      *)

StatementFails(p) ==
  /\ pc[p] \in {"caching_rules", "caching_usage", "consuming", "evaluating",
                "asking", "logging"}
  /\ Upset
  /\ End({p})
  /\ raced' = raced \ {p}
  /\ spoiled' = IF p \in Crons THEN spoiled \union {p} ELSE spoiled
  /\ UNCHANGED <<clock, spent, rule, sent, caches, timer, due, editing, atHour,
                 stale, old, split, lost>>

(* A process dies and is started again; requests it has accepted are gone. *)
Crash(r) ==
  LET gone == {p \in Procs : at[p] = r /\ pc[p] # "new"} IN
    /\ Upset
    /\ End(gone)
    /\ lost' = lost \union {start[p] : p \in {o \in gone : pc[o] = "mailing"}}
    /\ due' = due \union (gone \intersect Crons)
    /\ rules' = [rules EXCEPT ![r] = NoRule]
    /\ usage' = Dropped(r)
    /\ timer' = [timer EXCEPT ![r] = FALSE]
    /\ editing' = (editing /\ r # Editor)
    /\ raced' = raced \ gone
    /\ stale' = {e \in stale : e[1] # r}
    /\ old' = old \ {r}
    /\ UNCHANGED <<clock, spent, rule, sent, atHour, split, spoiled>>

Second ==
  /\ fresh # {}
  /\ fresh' = {}
  /\ UNCHANGED <<hour, spent, rule, sent, caches, timer, pc, work, due, editing,
                 upsets, history>>

Tick ==
  /\ hour < LastHour
  /\ hour' = hour + 1
  /\ fresh' = {}
  /\ due' = Crons
  /\ atHour' = spent
  /\ spoiled' = {}
  /\ UNCHANGED <<spent, rule, sent, caches, timer, pc, work, editing, upsets,
                 raced, stale, old, split, lost>>

Request(q) ==
  \/ \E r \in Replicas : FindRules(q, r)
  \/ StoreRules(q) \/ FindUsage(q) \/ StoreUsage(q)
  \/ Call(q) \/ Record(q) \/ Emit(q) \/ Ask(q)

Alert(p) == WriteLog(p) \/ Mail(p) \/ StatementFails(p)

Next ==
  \/ \E q \in Requests : Request(q)
  \/ \E c \in Crons : CronStart(c) \/ CronReads(c) \/ Evaluate(c)
  \/ \E p \in Procs : Alert(p)
  \/ \E r \in Replicas : Fire(r) \/ Expire(r) \/ Crash(r)
  \/ \E x \in Rules : Edit(x)
  \/ Invalidate \/ EditFails \/ Second \/ Tick

Spec == Init /\ [][Next]_vars

-----------------------------------------------------------------------------
(* Properties.                                                             *)

(* Every variable holds a value of its kind.                               *)
TypeOK ==
  /\ hour \in 1 .. LastHour /\ fresh \subseteq Requests
  /\ spent \in [Hours -> SUBSET Requests]
  /\ atHour \in [Hours -> SUBSET Requests]
  /\ rule \in Rules
  /\ logs \in [Hours -> {NoValue} \union Limits]
  /\ mails \in [Hours -> Nat]
  /\ rules \in [Replicas -> {NoRule} \union Rules]
  /\ usage \in [Replicas -> [Hours -> {NoValue} \union Nat]]
  /\ timer \in [Replicas -> BOOLEAN]
  /\ pc \in [Procs -> {"new", "caching_rules", "limits", "caching_usage",
                       "served", "called", "recorded", "done", "idle",
                       "consuming", "evaluating", "asking", "logging",
                       "mailing"}]
  /\ \A c \in Crons : pc[c] # "done"
  /\ at \in [Procs -> Replicas] /\ \A c \in Crons : at[c] = Home[c]
  /\ born \in [Procs -> Hours] /\ start \in [Procs -> Hours]
  /\ got \in [Procs -> {NoRule} \union Rules]
  /\ value \in [Procs -> Nat]
  /\ due \subseteq Crons /\ spoiled \subseteq Crons
  /\ editing \in BOOLEAN
  /\ upsets \in 0 .. MaxUpsets
  /\ raced \subseteq Requests /\ old \subseteq Replicas
  /\ stale \subseteq Replicas \X Hours
  /\ split \subseteq Hours /\ lost \subseteq Hours

(* At most one alert of a rule and a period is mailed, however many        *)
(* refused requests and jobs of however many replicas find it due at the   *)
(* same time, crash, or find its rule changed.                             *)
OneMail == \A s \in Hours : mails[s] <= 1

(* An alert that is on record has been mailed, is being mailed, or its     *)
(* mail was refused or died with the process: no other sender's record     *)
(* makes two of them both give way.                                        *)
MailFollowsLog ==
  \A s \in Hours :
    logs[s] # NoValue =>
      \/ mails[s] = 1 \/ s \in lost
      \/ \E p \in Procs : pc[p] = "mailing" /\ start[p] = s

(* Whoever sends an alert of a period, from whatever cached consumption,   *)
(* its threshold has been reached by usage since that period began.        *)
(* Excepted are periods judged by a job that began in another one.         *)
AlertDue ==
  \A s \in Hours \ split : logs[s] # NoValue => OnRecord(s) >= logs[s]

(* When the job is through for this hour, the usage that was recorded when *)
(* the hour began has been reported if it reaches the threshold, unless a  *)
(* statement failed or the rule has been changed.                          *)
UsageIsReported ==
  LET s == Start(rule.period, hour) IN
    \A c \in Crons \ (due \union spoiled) :
      pc[c] = "idle" /\ rule.on /\ Consumed(s, atHour) >= rule.limit
        => logs[s] # NoValue

(* A replica judges by the usage on record, unless an event that will      *)
(* evict the entry is under way, another replica recorded usage since, or  *)
(* the entry was stored by a reader that an eviction had overtaken or that *)
(* had left out usage of the second it read in.                            *)
UsageFollows ==
  \A r \in Replicas, s \in Hours :
    usage[r][s] \notin {NoValue, OnRecord(s)} =>
      \/ timer[r] \/ <<r, s>> \in stale
      \/ \E q \in Requests : at[q] = r /\ pc[q] = "recorded"

(* A replica judges by the rule as it is, unless the change is about to    *)
(* drop its entry, was made on another replica, failed once the row was    *)
(* written, or overtook the reader.                                        *)
RulesFollow ==
  \A r \in Replicas :
    rules[r] \notin {NoRule, rule} => r \in old \/ (r = Editor /\ editing)
=============================================================================
