-------------------------- MODULE LimitAlertsProofs --------------------------
(***************************************************************************)
(* Proofs about the alerts of LimitAlerts, for any number of replicas,     *)
(* requests, jobs and hours, and any rules.                                *)
(***************************************************************************)
EXTENDS LimitAlerts, FiniteSetTheorems, TLAPS

USE DEF clock

Judging == {"caching_rules", "limits", "caching_usage", "asking", "logging",
            "consuming", "evaluating"}

Places == Judging \union {"new", "served", "called", "recorded", "done", "idle",
                          "mailing"}

(* Whoever judges by a rule, or is about to report by it, has one. *)
HasRule == \A p \in Procs : pc[p] \in Judging => got[p] \in Rules

(* What the alerts depend on has its type. *)
Types ==
  /\ hour \in 1 .. LastHour /\ fresh \subseteq Requests
  /\ rule \in Rules
  /\ rules \in [Replicas -> {NoRule} \union Rules]
  /\ logs \in [Hours -> {NoValue} \union Limits]
  /\ mails \in [Hours -> Nat]
  /\ pc \in [Procs -> Places]
  /\ at \in [Procs -> Replicas]
  /\ got \in [Procs -> {NoRule} \union Rules]
  /\ start \in [Procs -> Hours]
  /\ HasRule

Mailing(p) == pc[p] = "mailing"

(* Only a record makes a sender, and only one. *)
OneSender ==
  /\ \A p \in Procs : Mailing(p) => logs[start[p]] # NoValue /\ mails[start[p]] = 0
  /\ \A p, q \in Procs : Mailing(p) /\ Mailing(q) /\ start[p] = start[q] => p = q
  /\ \A s \in Hours : logs[s] = NoValue => mails[s] = 0

Mails == OneSender /\ OneMail /\ MailFollowsLog

(* Whoever is about to store the rule it read has read the present one, unless *)
(* a change overtook it or is about to drop the entry. *)
ReadersFollow ==
  \A q \in Requests :
    pc[q] = "caching_rules" /\ got[q] # rule
      => q \in raced \/ (at[q] = Editor /\ editing)

Following == RulesFollow /\ ReadersFollow

-----------------------------------------------------------------------------

(* The period of an hour begins within the run. *)
LEMMA StartInRun ==
  ASSUME NEW period, NEW h \in 1 .. LastHour
  PROVE  Start(period, h) \in Hours
<1>1. DayHours \in Nat \ {0} /\ LastHour \in Nat /\ h \in Nat
  BY LimitsAssumption
<1>2. h % DayHours \in 0 .. h
  <2>1. CASE h < DayHours
    BY <1>1, <2>1
  <2>2. CASE ~(h < DayHours)
    BY <1>1, <2>2
  <2> QED BY <2>1, <2>2
<1> QED BY <1>1, <1>2 DEF Start, Hours

(* A threshold is not the mark of a missing row. *)
LEMMA LimitIsValue ==
  ASSUME NEW x \in Rules
  PROVE  x.limit \in Limits /\ x.limit # NoValue
BY RulesAssumption DEF Limits, NoValue

(* A cache entry is a rule. *)
LEMMA KnownIsRule ==
  ASSUME NEW x \in {NoRule} \union Rules, Known(x)
  PROVE  x \in Rules
BY DEF Known, NoRule

LEMMA RuleIsKnown ==
  ASSUME NEW x \in Rules
  PROVE  Known(x)
BY RulesAssumption DEF Known

LEMMA EndTypes ==
  ASSUME Types, NEW ps, End(ps), UNCHANGED <<clock, rule, rules, logs, mails>>
  PROVE  Types'
<1>1. 0 \in Hours /\ Editor \in Replicas
  BY LimitsAssumption DEF Hours
<1>2. pc' \in [Procs -> Places] /\ HasRule'
  BY DEF Types, End, Ended, HasRule, Judging, Places
<1>3. at' \in [Procs -> Replicas]
  BY <1>1 DEF Types, End
<1>4. got' \in [Procs -> {NoRule} \union Rules]
  BY DEF Types, End
<1>5. start' \in [Procs -> Hours]
  BY <1>1 DEF Types, End
<1> QED BY <1>2, <1>3, <1>4, <1>5, Zenon DEF Types

(* Whoever neither sends nor begins to changes nothing. *)
LEMMA Quiet ==
  ASSUME Mails, UNCHANGED <<logs, mails>>, lost \subseteq lost',
         \A p \in Procs : /\ Mailing(p)' <=> Mailing(p)
                          /\ Mailing(p) => start'[p] = start[p]
  PROVE  Mails'
<1>1. OneSender' /\ OneMail'
  BY DEF Mails, OneSender, OneMail, Mailing
<1>2. MailFollowsLog'
  BY DEF Mails, MailFollowsLog, Mailing
<1> QED BY <1>1, <1>2 DEF Mails

LEMMA QuietEnd ==
  ASSUME Types, Mails, NEW ps, End(ps), \A p \in ps : p \in Procs => ~Mailing(p),
         UNCHANGED <<logs, mails>>, lost \subseteq lost'
  PROVE  Mails'
<1>1. \A p \in Procs : /\ Mailing(p)' <=> Mailing(p)
                       /\ Mailing(p) => start'[p] = start[p]
  BY DEF End, Ended, Mailing
<1> QED BY <1>1, Quiet

-----------------------------------------------------------------------------

LEMMA InitMails ==
  ASSUME Init
  PROVE  Types /\ Mails /\ Following
<1>1. LastHour \in Nat \ {0} /\ 0 \in Hours /\ Editor \in Replicas
  BY LimitsAssumption DEF Hours
<1>2. hour \in 1 .. LastHour /\ fresh \subseteq Requests
  BY <1>1 DEF Init
<1>3. rule \in Rules
  BY FirstRulesAssumption DEF Init
<1>4. at \in [Procs -> Replicas]
  BY <1>1, LimitsAssumption DEF Init
<1>5. HasRule
  BY DEF Init, HasRule, Judging
<1>6. /\ mails \in [Hours -> Nat] /\ start \in [Procs -> Hours]
      /\ logs \in [Hours -> {NoValue} \union Limits]
  BY <1>1 DEF Init
<1>7. /\ rules \in [Replicas -> {NoRule} \union Rules]
      /\ got \in [Procs -> {NoRule} \union Rules]
      /\ pc \in [Procs -> Places]
  BY DEF Init, Judging, Places
<1>8. Types
  BY <1>2, <1>3, <1>4, <1>5, <1>6, <1>7 DEF Types
<1>9. Mails
  BY DEF Init, Mails, OneSender, OneMail, MailFollowsLog, Mailing
<1>10. \A q \in Requests : pc[q] = "new"
  BY DEF Init, Procs
<1>11. \A r \in Replicas : rules[r] = NoRule
  BY DEF Init
<1>12. Following
  BY <1>10, <1>11 DEF Following, RulesFollow, ReadersFollow
<1> QED BY <1>8, <1>9, <1>12

LEMMA TypesStep ==
  ASSUME Types, [Next]_vars
  PROVE  Types'
<1>1. ASSUME NEW q \in Requests, NEW r \in Replicas, FindRules(q, r)
      PROVE  Types'
  <2>1. q \in Procs
    BY <1>1 DEF Procs
  <2>2. pc' \in [Procs -> Places] /\ at' \in [Procs -> Replicas]
    BY <1>1 DEF FindRules, Goes, Types, Judging, Places
  <2>3. got' = [got EXCEPT ![q] = IF Known(rules[r]) THEN rules[r] ELSE rule]
    BY <1>1 DEF FindRules
  <2>4. (IF Known(rules[r]) THEN rules[r] ELSE rule) \in Rules
    BY <1>1, KnownIsRule DEF Types
  <2>5. got' \in [Procs -> {NoRule} \union Rules]
    BY <2>3, <2>4 DEF Types
  <2>6. HasRule'
    <3>1. got'[q] \in Rules
      BY <2>1, <2>3, <2>4 DEF Types
    <3>2. \A p \in Procs \ {q} : got'[p] = got[p] /\ pc'[p] = pc[p]
      BY <1>1, <2>3 DEF FindRules, Goes, Types
    <3> QED BY <3>1, <3>2 DEF HasRule, Types
  <2> QED BY <1>1, <2>2, <2>5, <2>6 DEF FindRules, Types, sent, caches
<1>2. ASSUME NEW q \in Requests, StoreRules(q)
      PROVE  Types'
  <2>1. q \in Procs
    BY <1>2 DEF Procs
  <2>2. got[q] \in Rules
    BY <1>2, <2>1 DEF StoreRules, Types, HasRule, Judging
  <2>3. rules' \in [Replicas -> {NoRule} \union Rules]
    BY <1>2, <2>2 DEF StoreRules, Types
  <2>4. pc' \in [Procs -> Places]
    BY <1>2 DEF StoreRules, Goes, Types, Judging, Places
  <2>5. HasRule'
    BY <1>2, <2>1, <2>2 DEF StoreRules, Goes, Types, HasRule, work
  <2> QED BY <1>2, <2>3, <2>4, <2>5 DEF StoreRules, Types, sent, work
<1>3. ASSUME NEW q \in Requests, FindUsage(q)
      PROVE  Types'
  <2>1. q \in Procs
    BY <1>3 DEF Procs
  <2>2. got[q] \in Rules /\ UNCHANGED <<clock, rule, rules, logs, mails, at, got>>
    BY <1>3, <2>1 DEF FindUsage, Types, HasRule, Judging, sent, caches
  <2>3. start' \in [Procs -> Hours]
    BY <1>3, StartInRun DEF FindUsage, Types
  <2>4. pc' \in [Procs -> Places]
    BY <1>3 DEF FindUsage, Verdict, Goes, Types, Judging, Places
  <2>5. HasRule'
    BY <1>3, <2>1, <2>2 DEF FindUsage, Verdict, Goes, Types, HasRule
  <2> QED BY <2>2, <2>3, <2>4, <2>5 DEF Types
<1>4. ASSUME NEW q \in Requests, StoreUsage(q)
      PROVE  Types'
  <2>1. q \in Procs
    BY <1>4 DEF Procs
  <2>2. got[q] \in Rules /\ UNCHANGED <<clock, rule, rules, logs, mails, at, got, start>>
    BY <1>4, <2>1 DEF StoreUsage, Types, HasRule, Judging, sent, work
  <2>3. pc' \in [Procs -> Places]
    BY <1>4 DEF StoreUsage, Verdict, Goes, Types, Judging, Places
  <2>4. HasRule'
    BY <1>4, <2>1, <2>2 DEF StoreUsage, Verdict, Goes, Types, HasRule
  <2> QED BY <2>2, <2>3, <2>4 DEF Types
<1>5. ASSUME NEW q \in Requests, Record(q)
      PROVE  Types'
  <2>1. q \in Procs
    BY <1>5 DEF Procs
  <2>2. UNCHANGED <<clock, rule, rules, logs, mails, at, got, start>>
    BY <1>5 DEF Record, sent, caches, work
  <2>3. pc' \in [Procs -> Places] /\ HasRule'
    BY <1>5, <2>1, <2>2 DEF Record, Goes, Types, HasRule, Judging, Places
  <2> QED BY <2>2, <2>3 DEF Types
<1>6. ASSUME NEW q \in Requests, Emit(q)
      PROVE  Types'
  BY <1>6, EndTypes DEF Emit, sent, caches
<1>7. ASSUME NEW q \in Requests, Ask(q)
      PROVE  Types'
  <2>1. q \in Procs
    BY <1>7 DEF Procs
  <2>2. CASE Goes(q, "logging") /\ UNCHANGED work
    <3>1. got[q] \in Rules /\ UNCHANGED <<clock, rule, rules, logs, mails, at, got, start>>
      BY <1>7, <2>1, <2>2 DEF Ask, Types, HasRule, Judging, sent, caches, work
    <3>2. pc' \in [Procs -> Places] /\ HasRule'
      BY <2>1, <2>2, <3>1 DEF Goes, Types, HasRule, Judging, Places
    <3> QED BY <3>1, <3>2 DEF Types
  <2>3. CASE End({q})
    BY <1>7, <2>3, EndTypes DEF Ask, sent, caches
  <2> QED BY <1>7, <2>2, <2>3 DEF Ask
<1>8. ASSUME NEW c \in Crons, CronStart(c)
      PROVE  Types'
  <2>1. c \in Procs
    BY <1>8 DEF Procs
  <2>2. UNCHANGED <<clock, rule, rules, logs, mails, at, start>>
    BY <1>8 DEF CronStart, sent, caches
  <2>3. CASE UNCHANGED <<got, pc>>
    BY <2>2, <2>3 DEF Types, HasRule
  <2>4. CASE got' = [got EXCEPT ![c] = rule] /\ Goes(c, "consuming")
    <3>1. got' \in [Procs -> {NoRule} \union Rules] /\ pc' \in [Procs -> Places]
      BY <2>4 DEF Types, Goes, Judging, Places
    <3>2. HasRule'
      BY <2>1, <2>4 DEF Types, Goes, HasRule
    <3> QED BY <2>2, <3>1, <3>2 DEF Types
  <2> QED BY <1>8, <2>3, <2>4 DEF CronStart
<1>9. ASSUME NEW c \in Crons, CronReads(c)
      PROVE  Types'
  <2>1. c \in Procs
    BY <1>9 DEF Procs
  <2>2. got[c] \in Rules /\ UNCHANGED <<clock, rule, rules, logs, mails, at, got>>
    BY <1>9, <2>1 DEF CronReads, Types, HasRule, Judging, sent, caches
  <2>3. start' \in [Procs -> Hours]
    BY <1>9, StartInRun DEF CronReads, Types
  <2>4. pc' \in [Procs -> Places] /\ HasRule'
    BY <1>9, <2>1, <2>2 DEF CronReads, Goes, Types, HasRule, Judging, Places
  <2> QED BY <2>2, <2>3, <2>4 DEF Types
<1>10. ASSUME NEW c \in Crons, Evaluate(c)
      PROVE  Types'
  <2>1. c \in Procs
    BY <1>10 DEF Procs
  <2>2. got[c] \in Rules /\ UNCHANGED <<clock, rule, rules, logs, mails>>
    BY <1>10, <2>1 DEF Evaluate, Types, HasRule, Judging, sent, caches
  <2>3. CASE End({c})
    BY <2>2, <2>3, EndTypes
  <2>4. CASE /\ start' = [start EXCEPT ![c] = Start(got[c].period, hour)]
             /\ Goes(c, "logging") /\ UNCHANGED <<at, born, got, value>>
    <3>1. start' \in [Procs -> Hours]
      BY <2>4, StartInRun DEF Types
    <3>2. pc' \in [Procs -> Places] /\ HasRule'
      BY <2>1, <2>2, <2>4 DEF Goes, Types, HasRule, Judging, Places
    <3> QED BY <2>2, <2>4, <3>1, <3>2 DEF Types
  <2> QED BY <1>10, <2>3, <2>4 DEF Evaluate
<1>11. ASSUME NEW p \in Procs, WriteLog(p)
      PROVE  Types'
  <2>1. CASE logs[start[p]] # NoValue
    BY <1>11, <2>1, EndTypes DEF WriteLog, caches
  <2>2. CASE logs[start[p]] = NoValue
    <3>1. got[p].limit \in Limits
      BY <1>11, LimitIsValue DEF WriteLog, Types, HasRule, Judging
    <3>2. logs' \in [Hours -> {NoValue} \union Limits]
      BY <1>11, <2>2, <3>1 DEF WriteLog, Types
    <3>3. pc' \in [Procs -> Places] /\ HasRule'
      BY <1>11, <2>2 DEF WriteLog, Goes, Types, HasRule, Judging, work, Places
    <3> QED BY <1>11, <2>2, <3>2, <3>3 DEF WriteLog, Types, caches, work
  <2> QED BY <2>1, <2>2
<1>12. ASSUME NEW p \in Procs, Mail(p)
      PROVE  Types'
  <2>1. mails' \in [Hours -> Nat]
    BY <1>12 DEF Mail, Types
  <2>2. 0 \in Hours /\ Editor \in Replicas
    BY LimitsAssumption DEF Hours
  <2>3. pc' \in [Procs -> Places] /\ HasRule'
    BY <1>12 DEF Mail, Types, End, Ended, HasRule, Judging, Places
  <2>4. at' \in [Procs -> Replicas] /\ got' \in [Procs -> {NoRule} \union Rules]
    BY <1>12, <2>2 DEF Mail, Types, End
  <2>5. start' \in [Procs -> Hours]
    BY <1>12, <2>2 DEF Mail, Types, End
  <2> QED BY <1>12, <2>1, <2>3, <2>4, <2>5 DEF Mail, Types, caches
<1>13. ASSUME NEW p \in Procs, StatementFails(p)
      PROVE  Types'
  BY <1>13, EndTypes DEF StatementFails, sent, caches
<1>14. ASSUME NEW r \in Replicas, Fire(r)
      PROVE  Types'
  BY <1>14 DEF Fire, Types, HasRule, sent, caches, work
<1>15. ASSUME NEW r \in Replicas, ExpireRules(r)
      PROVE  Types'
  <2>1. rules' \in [Replicas -> {NoRule} \union Rules]
    BY <1>15 DEF ExpireRules, Types
  <2> QED BY <1>15, <2>1 DEF ExpireRules, Types, HasRule, sent, work
<1>16. ASSUME NEW r \in Replicas, NEW s \in Hours, ExpireUsage(r, s)
      PROVE  Types'
  BY <1>16 DEF ExpireUsage, Types, HasRule, sent, caches, work
<1>17. ASSUME NEW r \in Replicas, Crash(r)
      PROVE  Types'
  <2>1. PICK gone : End(gone)
    BY <1>17 DEF Crash
  <2>2. 0 \in Hours /\ Editor \in Replicas
    BY LimitsAssumption DEF Hours
  <2>3. pc' \in [Procs -> Places] /\ HasRule'
    BY <2>1 DEF Types, End, Ended, HasRule, Judging, Places
  <2>4. at' \in [Procs -> Replicas] /\ got' \in [Procs -> {NoRule} \union Rules]
    BY <2>1, <2>2 DEF Types, End
  <2>5. start' \in [Procs -> Hours]
    BY <2>1, <2>2 DEF Types, End
  <2>6. rules' \in [Replicas -> {NoRule} \union Rules]
        /\ UNCHANGED <<clock, rule, logs, mails>>
    BY <1>17 DEF Crash, Types, sent
  <2> QED BY <2>3, <2>4, <2>5, <2>6 DEF Types
<1>18. ASSUME NEW x \in Rules, Edit(x)
      PROVE  Types'
  BY <1>18 DEF Edit, Types, HasRule, sent, caches, work
<1>19. ASSUME Invalidate
      PROVE  Types'
  <2>1. rules' \in [Replicas -> {NoRule} \union Rules]
    BY <1>19 DEF Invalidate, Types
  <2> QED BY <1>19, <2>1 DEF Invalidate, Types, HasRule, sent, work
<1>20. ASSUME Tick
      PROVE  Types'
  <2>1. hour' \in 1 .. LastHour
    BY <1>20, LimitsAssumption DEF Tick, Types
  <2> QED BY <1>20, <2>1 DEF Tick, Types, HasRule, sent, caches, work
<1>21. CASE UNCHANGED vars
  BY <1>21 DEF Types, HasRule, vars, sent, caches, work, history
<1>22. ASSUME NEW q \in Requests, Call(q)
      PROVE  Types'
  <2>1. 0 \in Hours /\ q \in Procs
    BY <1>22, LimitsAssumption DEF Hours, Procs
  <2>2. pc' \in [Procs -> Places] /\ HasRule'
    BY <1>22, <2>1 DEF Call, Goes, Types, HasRule, Judging, Places
  <2>3. /\ got' \in [Procs -> {NoRule} \union Rules]
        /\ start' \in [Procs -> Hours]
        /\ fresh' \subseteq Requests
    BY <1>22, <2>1 DEF Call, Types
  <2> QED BY <1>22, <2>2, <2>3 DEF Call, Types, sent, caches
<1>23. ASSUME EditFails
      PROVE  Types'
  BY <1>23 DEF EditFails, Types, HasRule, sent, caches, work
<1>24. ASSUME Second
      PROVE  Types'
  BY <1>24 DEF Second, Types, HasRule, sent, caches, work
<1> QED
  BY <1>1, <1>2, <1>3, <1>4, <1>5, <1>6, <1>7, <1>8, <1>9, <1>10,
     <1>11, <1>12, <1>13, <1>14, <1>15, <1>16, <1>17, <1>18, <1>19, <1>20,
     <1>21, <1>22, <1>23, <1>24
  DEF Next, Request, Alert, Expire

LEMMA MailsStep ==
  ASSUME Types, Mails, [Next]_vars
  PROVE  Mails'
<1>1. ASSUME NEW q \in Requests, NEW r \in Replicas, FindRules(q, r)
      PROVE  Mails'
  <2>1. q \in Procs
    BY <1>1 DEF Procs
  <2>2. \A p \in Procs : /\ Mailing(p)' <=> Mailing(p)
                         /\ Mailing(p) => start'[p] = start[p]
    BY <1>1, <2>1 DEF FindRules, Goes, Mailing, Types, work
  <2> QED BY <1>1, <2>2, Quiet DEF FindRules, sent, history
<1>2. ASSUME NEW q \in Requests, StoreRules(q)
      PROVE  Mails'
  <2>1. q \in Procs
    BY <1>2 DEF Procs
  <2>2. \A p \in Procs : /\ Mailing(p)' <=> Mailing(p)
                         /\ Mailing(p) => start'[p] = start[p]
    BY <1>2, <2>1 DEF StoreRules, Goes, Mailing, Types, work
  <2> QED BY <1>2, <2>2, Quiet DEF StoreRules, sent, history
<1>3. ASSUME NEW q \in Requests, FindUsage(q)
      PROVE  Mails'
  <2>1. q \in Procs
    BY <1>3 DEF Procs
  <2>2. \A p \in Procs : /\ Mailing(p)' <=> Mailing(p)
                         /\ Mailing(p) => start'[p] = start[p]
    BY <1>3, <2>1 DEF FindUsage, Verdict, Goes, Mailing, Types, work
  <2> QED BY <1>3, <2>2, Quiet DEF FindUsage, sent, history
<1>4. ASSUME NEW q \in Requests, StoreUsage(q)
      PROVE  Mails'
  <2>1. q \in Procs
    BY <1>4 DEF Procs
  <2>2. \A p \in Procs : /\ Mailing(p)' <=> Mailing(p)
                         /\ Mailing(p) => start'[p] = start[p]
    BY <1>4, <2>1 DEF StoreUsage, Verdict, Goes, Mailing, Types, work
  <2> QED BY <1>4, <2>2, Quiet DEF StoreUsage, sent, history
<1>5. ASSUME NEW q \in Requests, Record(q)
      PROVE  Mails'
  <2>1. q \in Procs
    BY <1>5 DEF Procs
  <2>2. \A p \in Procs : /\ Mailing(p)' <=> Mailing(p)
                         /\ Mailing(p) => start'[p] = start[p]
    BY <1>5, <2>1 DEF Record, Goes, Mailing, Types, work
  <2> QED BY <1>5, <2>2, Quiet DEF Record, sent, history
<1>6. ASSUME NEW q \in Requests, Emit(q)
      PROVE  Mails'
  <2>1. \A p1 \in {q} : ~Mailing(p1)
    BY <1>6 DEF Emit, Mailing
  <2> QED BY <1>6, <2>1, QuietEnd DEF Emit, sent, history
<1>7. ASSUME NEW q \in Requests, Ask(q)
      PROVE  Mails'
  <2>1. q \in Procs
    BY <1>7 DEF Procs
  <2>2. ~Mailing(q) /\ UNCHANGED <<logs, mails, lost>>
    BY <1>7 DEF Ask, Mailing, sent, history
  <2>3. CASE Goes(q, "logging") /\ UNCHANGED work
    <3>1. \A p \in Procs : /\ Mailing(p)' <=> Mailing(p)
                           /\ Mailing(p) => start'[p] = start[p]
      BY <2>1, <2>2, <2>3 DEF Goes, Mailing, Types, work
    <3> QED BY <2>2, <3>1, Quiet
  <2>4. CASE End({q})
    BY <2>2, <2>4, QuietEnd
  <2> QED BY <1>7, <2>3, <2>4 DEF Ask
<1>8. ASSUME NEW c \in Crons, CronStart(c)
      PROVE  Mails'
  <2>1. c \in Procs
    BY <1>8 DEF Procs
  <2>2. \A p \in Procs : Mailing(p)' <=> Mailing(p)
    BY <1>8, <2>1 DEF CronStart, Goes, Mailing, Types
  <2> QED BY <1>8, <2>2, Quiet DEF CronStart, sent
<1>9. ASSUME NEW c \in Crons, CronReads(c)
      PROVE  Mails'
  <2>1. c \in Procs
    BY <1>9 DEF Procs
  <2>2. \A p \in Procs : /\ Mailing(p)' <=> Mailing(p)
                         /\ Mailing(p) => start'[p] = start[p]
    BY <1>9, <2>1 DEF CronReads, Goes, Mailing, Types, work
  <2> QED BY <1>9, <2>2, Quiet DEF CronReads, sent, history
<1>10. ASSUME NEW c \in Crons, Evaluate(c)
      PROVE  Mails'
  <2>1. c \in Procs
    BY <1>10 DEF Procs
  <2>2. ~Mailing(c) /\ UNCHANGED <<logs, mails, lost>>
    BY <1>10 DEF Evaluate, Mailing, sent
  <2>3. CASE End({c})
    BY <2>2, <2>3, QuietEnd
  <2>4. CASE /\ start' = [start EXCEPT ![c] = Start(got[c].period, hour)]
             /\ Goes(c, "logging")
    <3>1. \A p \in Procs : /\ Mailing(p)' <=> Mailing(p)
                           /\ Mailing(p) => start'[p] = start[p]
      BY <2>1, <2>2, <2>4 DEF Goes, Mailing, Types
    <3> QED BY <2>2, <3>1, Quiet
  <2> QED BY <1>10, <2>3, <2>4 DEF Evaluate
<1>11. ASSUME NEW p \in Procs, WriteLog(p)
      PROVE  Mails'
  <2>1. CASE logs[start[p]] # NoValue
    <3>1. \A p1 \in {p} : ~Mailing(p1)
      BY <1>11 DEF WriteLog, Mailing
    <3> QED BY <1>11, <2>1, <3>1, QuietEnd DEF WriteLog, history
  <2>2. CASE logs[start[p]] = NoValue
    <3> DEFINE s == start[p]
    <3>1. s \in Hours /\ got[p].limit # NoValue /\ ~Mailing(p)
      BY <1>11, LimitIsValue DEF WriteLog, Types, HasRule, Judging, Mailing
    <3>2. /\ logs'[s] # NoValue /\ mails[s] = 0
          /\ \A u \in Hours \ {s} : logs'[u] = logs[u]
          /\ UNCHANGED <<mails, start, lost>>
      BY <1>11, <2>2, <3>1 DEF WriteLog, Types, Mails, OneSender, work, history
    <3>3. \A p1 \in Procs : Mailing(p1)' <=> p1 = p \/ Mailing(p1)
      BY <1>11, <2>2 DEF WriteLog, Goes, Types, Mailing
    <3>4. \A p1 \in Procs : Mailing(p1) => start[p1] # s
      BY <2>2 DEF Mails, OneSender
    <3>5. start'[p] = s
      BY <3>2
    <3> HIDE DEF s
    <3>6. OneSender'
      <4>1. \A p1 \in Procs : Mailing(p1)' => logs'[start'[p1]] # NoValue /\ mails'[start'[p1]] = 0
        BY <3>2, <3>3, <3>4, <3>5 DEF Mails, OneSender, Types
      <4>2. \A p1, p2 \in Procs : Mailing(p1)' /\ Mailing(p2)' /\ start'[p1] = start'[p2] => p1 = p2
        BY <3>2, <3>3, <3>4, <3>5 DEF Mails, OneSender
      <4>3. \A u \in Hours : logs'[u] = NoValue => mails'[u] = 0
        BY <3>2 DEF Mails, OneSender
      <4> QED BY <4>1, <4>2, <4>3 DEF OneSender
    <3>7. OneMail'
      BY <3>2 DEF Mails, OneMail
    <3>8. MailFollowsLog'
      <4>1. ASSUME NEW u \in Hours, logs'[u] # NoValue
            PROVE  \/ mails'[u] = 1 \/ u \in lost'
                   \/ \E p1 \in Procs : Mailing(p1)' /\ start'[p1] = u
        <5>1. CASE u = s
          <6>1. Mailing(p)' /\ start'[p] = u
            BY <1>11, <3>3, <3>5, <5>1
          <6> QED BY <1>11, <6>1
        <5>2. CASE u # s
          <6>1. \/ mails[u] = 1 \/ u \in lost
                \/ \E p1 \in Procs : Mailing(p1) /\ start[p1] = u
            BY <4>1, <5>2, <3>2 DEF Mails, MailFollowsLog, Mailing
          <6>2. CASE \E p1 \in Procs : Mailing(p1) /\ start[p1] = u
            BY <6>2, <3>2, <3>3
          <6> QED BY <6>1, <6>2, <3>2
        <5> QED BY <5>1, <5>2
      <4> QED BY <4>1 DEF MailFollowsLog, Mailing
    <3> QED BY <3>6, <3>7, <3>8 DEF Mails
  <2> QED BY <2>1, <2>2
<1>12. ASSUME NEW p \in Procs, Mail(p)
      PROVE  Mails'
  <2> DEFINE s == start[p]
  <2>1. s \in Hours /\ Mailing(p) /\ logs[s] # NoValue /\ mails[s] = 0
    BY <1>12 DEF Mail, Types, Mails, OneSender, Mailing
  <2>2. \A p1 \in Procs : /\ Mailing(p1)' <=> p1 # p /\ Mailing(p1)
                          /\ p1 # p => start'[p1] = start[p1]
    BY <1>12 DEF Mail, End, Ended, Mailing
  <2>3. \A p1 \in Procs : p1 # p /\ Mailing(p1) => start[p1] # s
    BY <1>12, <2>1 DEF Mails, OneSender
  <2>4. /\ logs' = logs /\ lost \subseteq lost'
        /\ \A u \in Hours \ {s} : mails'[u] = mails[u]
        /\ mails'[s] = 1 \/ (mails'[s] = 0 /\ s \in lost')
    BY <1>12, <2>1 DEF Mail, Types
  <2> HIDE DEF s
  <2>5. OneSender'
    <3>1. \A p1 \in Procs : Mailing(p1)' => logs'[start'[p1]] # NoValue /\ mails'[start'[p1]] = 0
      BY <2>2, <2>3, <2>4 DEF Mails, OneSender, Types
    <3>2. \A p1, p2 \in Procs : Mailing(p1)' /\ Mailing(p2)' /\ start'[p1] = start'[p2] => p1 = p2
      BY <2>2 DEF Mails, OneSender
    <3>3. \A u \in Hours : logs'[u] = NoValue => mails'[u] = 0
      BY <2>1, <2>4 DEF Mails, OneSender
    <3> QED BY <3>1, <3>2, <3>3 DEF OneSender
  <2>6. OneMail'
    BY <2>1, <2>4 DEF Mails, OneMail
  <2>7. MailFollowsLog'
    <3>1. ASSUME NEW u \in Hours, logs'[u] # NoValue
          PROVE  \/ mails'[u] = 1 \/ u \in lost'
                 \/ \E p1 \in Procs : Mailing(p1)' /\ start'[p1] = u
      <4>1. CASE u = s
        BY <4>1, <2>4
      <4>2. CASE u # s
        <5>1. \/ mails[u] = 1 \/ u \in lost
              \/ \E p1 \in Procs : Mailing(p1) /\ start[p1] = u
          BY <3>1, <2>4 DEF Mails, MailFollowsLog, Mailing
        <5>2. ASSUME NEW p1 \in Procs, Mailing(p1), start[p1] = u
              PROVE  Mailing(p1)' /\ start'[p1] = u
          <6>1. p1 # p
            BY <4>2, <5>2 DEF s
          <6> QED BY <6>1, <5>2, <2>2
        <5> QED BY <4>2, <5>1, <5>2, <2>4
      <4> QED BY <4>1, <4>2
    <3> QED BY <3>1 DEF MailFollowsLog, Mailing
  <2> QED BY <2>5, <2>6, <2>7 DEF Mails
<1>13. ASSUME NEW p \in Procs, StatementFails(p)
      PROVE  Mails'
  <2>1. \A p1 \in {p} : ~Mailing(p1)
    BY <1>13 DEF StatementFails, Mailing
  <2> QED BY <1>13, <2>1, QuietEnd DEF StatementFails, sent, history
<1>14. ASSUME NEW r \in Replicas, Fire(r)
      PROVE  Mails'
  BY <1>14, Quiet DEF Fire, Mailing, sent, work
<1>15. ASSUME NEW r \in Replicas, ExpireRules(r)
      PROVE  Mails'
  BY <1>15, Quiet DEF ExpireRules, Mailing, sent, work
<1>16. ASSUME NEW r \in Replicas, NEW s \in Hours, ExpireUsage(r, s)
      PROVE  Mails'
  BY <1>16, Quiet DEF ExpireUsage, Mailing, sent, work
<1>17. ASSUME NEW r \in Replicas, Crash(r)
      PROVE  Mails'
  <2> DEFINE gone == {p \in Procs : at[p] = r /\ pc[p] # "new"}
  <2>1. /\ End(gone) /\ UNCHANGED <<logs, mails>>
        /\ lost' = lost \union {start[p] : p \in {o \in gone : pc[o] = "mailing"}}
    BY <1>17 DEF Crash, sent
  <2>2. \A p \in Procs : /\ Mailing(p)' <=> p \notin gone /\ Mailing(p)
                         /\ p \notin gone => start'[p] = start[p]
    BY <2>1 DEF End, Ended, Mailing
  <2>3. \A p \in Procs : p \in gone /\ Mailing(p) => start[p] \in lost'
    BY <2>1 DEF Mailing
  <2> HIDE DEF gone
  <2>4. OneSender' /\ OneMail'
    BY <2>1, <2>2 DEF Mails, OneSender, OneMail
  <2>5. MailFollowsLog'
    <3>1. ASSUME NEW u \in Hours, logs'[u] # NoValue
          PROVE  \/ mails'[u] = 1 \/ u \in lost'
                 \/ \E p1 \in Procs : Mailing(p1)' /\ start'[p1] = u
      <4>1. \/ mails[u] = 1 \/ u \in lost
            \/ \E p1 \in Procs : Mailing(p1) /\ start[p1] = u
        BY <3>1, <2>1 DEF Mails, MailFollowsLog, Mailing
      <4>2. ASSUME NEW p1 \in Procs, Mailing(p1), start[p1] = u
            PROVE  u \in lost' \/ (Mailing(p1)' /\ start'[p1] = u)
        BY <4>2, <2>2, <2>3
      <4> QED BY <4>1, <4>2, <2>1
    <3> QED BY <3>1 DEF MailFollowsLog, Mailing
  <2> QED BY <2>4, <2>5 DEF Mails
<1>18. ASSUME NEW x \in Rules, Edit(x)
      PROVE  Mails'
  BY <1>18, Quiet DEF Edit, Mailing, sent, work
<1>19. ASSUME Invalidate
      PROVE  Mails'
  BY <1>19, Quiet DEF Invalidate, Mailing, sent, work
<1>20. ASSUME Tick
      PROVE  Mails'
  BY <1>20, Quiet DEF Tick, Mailing, sent, work
<1>21. CASE UNCHANGED vars
  BY <1>21, Quiet DEF Mailing, vars, sent, caches, work, history
<1>22. ASSUME NEW q \in Requests, Call(q)
      PROVE  Mails'
  <2>1. q \in Procs
    BY <1>22 DEF Procs
  <2>2. \A p \in Procs : /\ Mailing(p)' <=> Mailing(p)
                         /\ Mailing(p) => start'[p] = start[p]
    BY <1>22, <2>1 DEF Call, Goes, Mailing, Types
  <2> QED BY <1>22, <2>2, Quiet DEF Call, sent, history
<1>23. ASSUME EditFails
      PROVE  Mails'
  BY <1>23, Quiet DEF EditFails, Mailing, sent, work
<1>24. ASSUME Second
      PROVE  Mails'
  BY <1>24, Quiet DEF Second, Mailing, sent, work, history
<1> QED
  BY <1>1, <1>2, <1>3, <1>4, <1>5, <1>6, <1>7, <1>8, <1>9, <1>10,
     <1>11, <1>12, <1>13, <1>14, <1>15, <1>16, <1>17, <1>18, <1>19, <1>20,
     <1>21, <1>22, <1>23, <1>24
  DEF Next, Request, Alert, Expire

LEMMA SomeEnd ==
  ASSUME Types, Following, NEW ps, End(ps), raced \ ps \subseteq raced',
         UNCHANGED <<rule, rules, old, editing>>
  PROVE  Following'
<1>1. RulesFollow'
  BY DEF Following, RulesFollow
<1>2. ASSUME NEW q \in Requests, pc'[q] = "caching_rules", got'[q] # rule'
      PROVE  q \in raced' \/ (at'[q] = Editor /\ editing')
  <2>1. q \in Procs /\ q \notin ps
    BY <1>2 DEF Procs, End, Ended
  <2>2. pc[q] = "caching_rules" /\ got[q] # rule /\ at'[q] = at[q]
    BY <1>2, <2>1 DEF End
  <2> QED BY <2>1, <2>2 DEF Following, ReadersFollow
<1> QED BY <1>1, <1>2 DEF Following, ReadersFollow

LEMMA FollowingStep ==
  ASSUME Types, Following, [Next]_vars
  PROVE  Following'
<1>1. ASSUME NEW q \in Requests, NEW r \in Replicas, FindRules(q, r)
      PROVE  Following'
  <2>1. q \in Procs
    BY <1>1 DEF Procs
  <2>2. UNCHANGED <<rule, rules, old, editing, raced>>
    BY <1>1 DEF FindRules, caches, history
  <2>3. pc'[q] = "caching_rules" => got'[q] = rule
    BY <1>1, <2>1 DEF FindRules, Goes, Types
  <2>4. \A p \in Requests \ {q} : pc'[p] = pc[p] /\ got'[p] = got[p] /\ at'[p] = at[p]
    BY <1>1, <2>1 DEF FindRules, Goes, Types, Procs
  <2> QED BY <2>2, <2>3, <2>4 DEF Following, RulesFollow, ReadersFollow
<1>2. ASSUME NEW q \in Requests, StoreRules(q)
      PROVE  Following'
  <2>1. q \in Procs
    BY <1>2 DEF Procs
  <2>2. \/ got[q] = rule \/ q \in raced \/ (at[q] = Editor /\ editing)
    BY <1>2 DEF StoreRules, Following, RulesFollow, ReadersFollow
  <2>3. RulesFollow'
    BY <1>2, <2>2 DEF StoreRules, Following, RulesFollow, ReadersFollow, Types
  <2>4. ReadersFollow'
    BY <1>2, <2>1 DEF StoreRules, Following, RulesFollow, ReadersFollow, Goes, Types, work
  <2> QED BY <2>3, <2>4 DEF Following
<1>3. ASSUME NEW q \in Requests, FindUsage(q)
      PROVE  Following'
  <2>1. q \in Procs
    BY <1>3 DEF Procs
  <2>2. \A p \in Requests : pc'[p] = "caching_rules" =>
          pc[p] = "caching_rules" /\ got'[p] = got[p] /\ at'[p] = at[p]
    BY <1>3, <2>1 DEF FindUsage, Verdict, Goes, Types, Procs, work
  <2>3. UNCHANGED <<rule, rules, old, editing>>
    BY <1>3 DEF FindUsage, caches, history
  <2>4. \A p \in Requests : p \in raced /\ pc[p] = "caching_rules" => p \in raced' \/ pc'[p] # "caching_rules"
    BY <1>3 DEF FindUsage, history
  <2> QED BY <2>2, <2>3, <2>4 DEF Following, RulesFollow, ReadersFollow
<1>4. ASSUME NEW q \in Requests, StoreUsage(q)
      PROVE  Following'
  <2>1. q \in Procs
    BY <1>4 DEF Procs
  <2>2. \A p \in Requests : pc'[p] = "caching_rules" =>
          pc[p] = "caching_rules" /\ got'[p] = got[p] /\ at'[p] = at[p]
    BY <1>4, <2>1 DEF StoreUsage, Verdict, Goes, Types, Procs, work
  <2>3. UNCHANGED <<rule, rules, old, editing>>
    BY <1>4 DEF StoreUsage, caches, history
  <2>4. \A p \in Requests : p \in raced /\ pc[p] = "caching_rules" => p \in raced' \/ pc'[p] # "caching_rules"
    BY <1>4 DEF StoreUsage, history
  <2> QED BY <2>2, <2>3, <2>4 DEF Following, RulesFollow, ReadersFollow
<1>5. ASSUME NEW q \in Requests, Record(q)
      PROVE  Following'
  <2>1. q \in Procs
    BY <1>5 DEF Procs
  <2>2. \A p \in Requests : pc'[p] = "caching_rules" =>
          pc[p] = "caching_rules" /\ got'[p] = got[p] /\ at'[p] = at[p]
    BY <1>5, <2>1 DEF Record, Goes, Types, Procs, work
  <2>3. UNCHANGED <<rule, rules, old, editing>>
    BY <1>5 DEF Record, caches, history
  <2>4. \A p \in Requests : p \in raced /\ pc[p] = "caching_rules" => p \in raced' \/ pc'[p] # "caching_rules"
    BY <1>5 DEF Record, history
  <2> QED BY <2>2, <2>3, <2>4 DEF Following, RulesFollow, ReadersFollow
<1>6. ASSUME NEW q \in Requests, Emit(q)
      PROVE  Following'
  <2>1. End({q}) /\ raced \ {q} \subseteq raced' /\ UNCHANGED <<rule, rules, old, editing>>
    BY <1>6 DEF Emit, caches, history
  <2> QED BY <2>1, SomeEnd
<1>7. ASSUME NEW q \in Requests, Ask(q)
      PROVE  Following'
  <2>1. UNCHANGED <<rule, rules, old, editing, raced>>
    BY <1>7 DEF Ask, caches, history
  <2>2. CASE End({q})
    BY <2>1, <2>2, SomeEnd
  <2>3. CASE Goes(q, "logging") /\ UNCHANGED work
    BY <2>1, <2>3 DEF Goes, Types, work, Following, RulesFollow, ReadersFollow
  <2> QED BY <1>7, <2>2, <2>3 DEF Ask
<1>8. ASSUME NEW c \in Crons, CronStart(c)
      PROVE  Following'
  <2>1. c \in Procs
    BY <1>8 DEF Procs
  <2>2. \A p \in Requests : pc'[p] = "caching_rules" =>
          pc[p] = "caching_rules" /\ got'[p] = got[p] /\ at'[p] = at[p]
    BY <1>8, <2>1 DEF CronStart, Goes, Types, Procs, work
  <2>3. UNCHANGED <<rule, rules, old, editing>>
    BY <1>8 DEF CronStart, caches, history
  <2>4. \A p \in Requests : p \in raced /\ pc[p] = "caching_rules" => p \in raced' \/ pc'[p] # "caching_rules"
    BY <1>8 DEF CronStart, history
  <2> QED BY <2>2, <2>3, <2>4 DEF Following, RulesFollow, ReadersFollow
<1>9. ASSUME NEW c \in Crons, CronReads(c)
      PROVE  Following'
  <2>1. c \in Procs
    BY <1>9 DEF Procs
  <2>2. \A p \in Requests : pc'[p] = "caching_rules" =>
          pc[p] = "caching_rules" /\ got'[p] = got[p] /\ at'[p] = at[p]
    BY <1>9, <2>1 DEF CronReads, Goes, Types, Procs, work
  <2>3. UNCHANGED <<rule, rules, old, editing>>
    BY <1>9 DEF CronReads, caches, history
  <2>4. \A p \in Requests : p \in raced /\ pc[p] = "caching_rules" => p \in raced' \/ pc'[p] # "caching_rules"
    BY <1>9 DEF CronReads, history
  <2> QED BY <2>2, <2>3, <2>4 DEF Following, RulesFollow, ReadersFollow
<1>10. ASSUME NEW c \in Crons, Evaluate(c)
      PROVE  Following'
  <2>1. UNCHANGED <<rule, rules, old, editing, raced>>
    BY <1>10 DEF Evaluate, caches
  <2>2. CASE End({c})
    BY <2>1, <2>2, SomeEnd
  <2>3. CASE Goes(c, "logging") /\ UNCHANGED <<at, got>>
    BY <2>1, <2>3 DEF Goes, Types, Following, RulesFollow, ReadersFollow
  <2> QED BY <1>10, <2>2, <2>3 DEF Evaluate
<1>11. ASSUME NEW p \in Procs, WriteLog(p)
      PROVE  Following'
  <2>1. UNCHANGED <<rule, rules, old, editing, raced>>
    BY <1>11 DEF WriteLog, caches, history
  <2>2. CASE End({p})
    BY <2>1, <2>2, SomeEnd
  <2>3. CASE Goes(p, "mailing") /\ UNCHANGED work
    BY <2>1, <2>3 DEF Goes, Types, work, Following, RulesFollow, ReadersFollow
  <2> QED BY <1>11, <2>2, <2>3 DEF WriteLog
<1>12. ASSUME NEW p \in Procs, Mail(p)
      PROVE  Following'
  <2>1. End({p}) /\ raced \ {p} \subseteq raced' /\ UNCHANGED <<rule, rules, old, editing>>
    BY <1>12 DEF Mail, caches, history
  <2> QED BY <2>1, SomeEnd
<1>13. ASSUME NEW p \in Procs, StatementFails(p)
      PROVE  Following'
  <2>1. End({p}) /\ raced \ {p} \subseteq raced' /\ UNCHANGED <<rule, rules, old, editing>>
    BY <1>13 DEF StatementFails, caches, history
  <2> QED BY <2>1, SomeEnd
<1>14. ASSUME NEW r \in Replicas, Fire(r)
      PROVE  Following'
  BY <1>14 DEF Fire, Following, RulesFollow, ReadersFollow, Types, sent, caches, work, history
<1>15. ASSUME NEW r \in Replicas, ExpireRules(r)
      PROVE  Following'
  BY <1>15 DEF ExpireRules, Following, RulesFollow, ReadersFollow, Types, sent, caches, work, history
<1>16. ASSUME NEW r \in Replicas, NEW s \in Hours, ExpireUsage(r, s)
      PROVE  Following'
  BY <1>16 DEF ExpireUsage, Following, RulesFollow, ReadersFollow, Types, sent, caches, work, history
<1>17. ASSUME NEW r \in Replicas, Crash(r)
      PROVE  Following'
  <2> DEFINE gone == {p \in Procs : at[p] = r /\ pc[p] # "new"}
  <2>1. /\ End(gone) /\ rules' = [rules EXCEPT ![r] = NoRule]
        /\ editing' = (editing /\ r # Editor) /\ raced' = raced \ gone
        /\ old' = old \ {r} /\ rule' = rule
    BY <1>17 DEF Crash
  <2>2. RulesFollow'
    BY <2>1 DEF Types, Following, RulesFollow
  <2>3. ASSUME NEW q \in Requests, pc'[q] = "caching_rules", got'[q] # rule'
        PROVE  q \in raced' \/ (at'[q] = Editor /\ editing')
    <3>1. q \in Procs /\ q \notin gone
      BY <2>1, <2>3 DEF Procs, End, Ended
    <3>2. pc[q] = "caching_rules" /\ got[q] # rule /\ at'[q] = at[q]
      BY <2>1, <2>3, <3>1 DEF End
    <3>3. at[q] # r
      BY <3>1, <3>2
    <3> QED BY <2>1, <3>1, <3>2, <3>3 DEF Following, ReadersFollow
  <2> QED BY <2>2, <2>3 DEF Following, ReadersFollow
<1>18. ASSUME NEW x \in Rules, Edit(x)
      PROVE  Following'
  <2>1. RulesFollow'
    BY <1>18, LimitsAssumption, RuleIsKnown DEF Edit, caches, Following, RulesFollow, ReadersFollow, Types
  <2>2. ReadersFollow'
    BY <1>18 DEF Edit, Following, RulesFollow, ReadersFollow, work, Overtaken
  <2> QED BY <2>1, <2>2 DEF Following
<1>19. ASSUME Invalidate
      PROVE  Following'
  <2>1. RulesFollow'
    BY <1>19, LimitsAssumption, RuleIsKnown DEF Invalidate, caches, Following, RulesFollow, ReadersFollow, Types
  <2>2. ReadersFollow'
    BY <1>19 DEF Invalidate, Following, RulesFollow, ReadersFollow, work, Overtaken
  <2> QED BY <2>1, <2>2 DEF Following
<1>20. ASSUME Tick
      PROVE  Following'
  BY <1>20 DEF Tick, Following, RulesFollow, ReadersFollow, Types, sent, caches, work, history
<1>21. CASE UNCHANGED vars
  BY <1>21 DEF Following, RulesFollow, ReadersFollow, vars, sent, caches, work, history
<1>22. ASSUME NEW q \in Requests, Call(q)
      PROVE  Following'
  <2>1. q \in Procs
    BY <1>22 DEF Procs
  <2>2. \A p \in Requests : pc'[p] = "caching_rules" =>
          pc[p] = "caching_rules" /\ got'[p] = got[p] /\ at'[p] = at[p]
    BY <1>22, <2>1 DEF Call, Goes, Types, Procs
  <2>3. UNCHANGED <<rule, rules, old, editing, raced>>
    BY <1>22 DEF Call, caches, history
  <2> QED BY <2>2, <2>3 DEF Following, RulesFollow, ReadersFollow
<1>23. ASSUME EditFails
      PROVE  Following'
  <2>1. RulesFollow'
    BY <1>23 DEF EditFails, caches, Following, RulesFollow
  <2>2. ReadersFollow'
    BY <1>23 DEF EditFails, Following, ReadersFollow, work
  <2> QED BY <2>1, <2>2 DEF Following
<1>24. ASSUME Second
      PROVE  Following'
  BY <1>24 DEF Second, Following, RulesFollow, ReadersFollow, caches, work, history
<1> QED
  BY <1>1, <1>2, <1>3, <1>4, <1>5, <1>6, <1>7, <1>8, <1>9, <1>10,
     <1>11, <1>12, <1>13, <1>14, <1>15, <1>16, <1>17, <1>18, <1>19, <1>20,
     <1>21, <1>22, <1>23, <1>24
  DEF Next, Request, Alert, Expire

-----------------------------------------------------------------------------
(* The usage on record and what has been read of it.                       *)

(* The counts have their types; usage stays on record. *)
Numbers ==
  /\ spent \in [Hours -> SUBSET Requests] /\ atHour \in [Hours -> SUBSET Requests]
  /\ \A h \in Hours : atHour[h] \subseteq spent[h]
  /\ usage \in [Replicas -> [Hours -> {NoValue} \union Nat]]
  /\ born \in [Procs -> Hours]
  /\ value \in [Procs -> Nat]

(* A period's consumption is a number that more usage does not lessen, and *)
(* that usage before the period does not change. *)
LEMMA Consuming ==
  ASSUME NEW s \in Hours, NEW u \in [Hours -> SUBSET Requests]
  PROVE  Consumed(s, u) \in Nat
<1> DEFINE U == UNION {u[h] : h \in s .. LastHour}
<1>1. s .. LastHour \subseteq Hours
  BY LimitsAssumption DEF Hours
<1>2. U \subseteq Requests
  BY <1>1
<1>3. IsFiniteSet(U)
  BY <1>2, LimitsAssumption, FS_Subset
<1>4. Cardinality(U) \in Nat
  BY <1>3, FS_CardinalityType
<1> QED BY <1>4 DEF Consumed

LEMMA MoreConsumed ==
  ASSUME NEW s \in Hours,
         NEW u \in [Hours -> SUBSET Requests], NEW v \in [Hours -> SUBSET Requests],
         \A h \in Hours : u[h] \subseteq v[h]
  PROVE  Consumed(s, u) <= Consumed(s, v)
<1> DEFINE U == UNION {u[h] : h \in s .. LastHour}
           V == UNION {v[h] : h \in s .. LastHour}
<1>1. s .. LastHour \subseteq Hours
  BY LimitsAssumption DEF Hours
<1>2. V \subseteq Requests /\ U \subseteq V
  BY <1>1
<1>3. IsFiniteSet(V)
  BY <1>2, LimitsAssumption, FS_Subset
<1>4. Cardinality(U) <= Cardinality(V)
  BY <1>2, <1>3, FS_Subset
<1> QED BY <1>4 DEF Consumed

LEMMA EarlierUsage ==
  ASSUME NEW u \in [Hours -> SUBSET Requests], NEW b \in Hours, NEW s \in Hours,
         s > b, NEW x
  PROVE  Consumed(s, [u EXCEPT ![b] = x]) = Consumed(s, u)
<1> DEFINE v == [u EXCEPT ![b] = x]
<1>1. \A h \in s .. LastHour : v[h] = u[h]
  BY LimitsAssumption DEF Hours
<1>2. {v[h] : h \in s .. LastHour} = {u[h] : h \in s .. LastHour}
  BY <1>1
<1> HIDE DEF v
<1>3. Consumed(s, v) = Consumed(s, u)
  BY <1>2 DEF Consumed
<1> QED BY <1>3 DEF v

(* What is left out of a consumption is on record. *)
LEMMA LeftOut ==
  ASSUME Numbers, NEW s \in Hours
  PROVE  /\ Consumption(s) \in Nat /\ OnRecord(s) \in Nat
         /\ Consumption(s) <= OnRecord(s)
<1> DEFINE u == [h \in Hours |-> spent[h] \ fresh]
<1>1. u \in [Hours -> SUBSET Requests] /\ spent \in [Hours -> SUBSET Requests]
  BY DEF Numbers
<1>2. \A h \in Hours : u[h] \subseteq spent[h]
  OBVIOUS
<1> HIDE DEF u
<1>3. Consumed(s, u) \in Nat /\ Consumed(s, spent) \in Nat
      /\ Consumed(s, u) <= Consumed(s, spent)
  BY <1>1, <1>2, Consuming, MoreConsumed
<1> QED BY <1>3 DEF u, Consumption, OnRecord

LEMMA EndNumbers ==
  ASSUME Numbers, NEW ps, End(ps), UNCHANGED <<spent, atHour, usage>>
  PROVE  Numbers'
<1>1. born' \in [Procs -> Hours] /\ value' \in [Procs -> Nat]
  BY LimitsAssumption DEF End, Numbers, Hours
<1> QED BY <1>1 DEF Numbers

LEMMA NumbersStep ==
  ASSUME Types, Numbers, [Next]_vars
  PROVE  Numbers'
<1>1. ASSUME NEW q \in Requests, NEW r \in Replicas, FindRules(q, r)
      PROVE  Numbers'
  BY <1>1 DEF FindRules, Numbers, caches, history
<1>2. ASSUME NEW q \in Requests, StoreRules(q)
      PROVE  Numbers'
  BY <1>2 DEF StoreRules, Numbers, caches, work, history
<1>3. ASSUME NEW q \in Requests, FindUsage(q)
      PROVE  Numbers'
  <2>1. q \in Procs /\ at[q] \in Replicas
    BY <1>3 DEF Procs, Types
  <2> DEFINE s == Start(got[q].period, hour)
             read == IF usage[at[q]][s] # NoValue THEN usage[at[q]][s] ELSE Consumption(s)
  <2>2. s \in Hours
    BY StartInRun DEF Types
  <2>3. read \in Nat
    BY <2>1, <2>2, LeftOut DEF Numbers
  <2>4. value' = value \/ value' = [value EXCEPT ![q] = read]
    BY <1>3 DEF FindUsage
  <2> HIDE DEF read
  <2>5. value' \in [Procs -> Nat]
    BY <2>3, <2>4 DEF Numbers
  <2> QED BY <1>3, <2>5 DEF FindUsage, Numbers, caches, history
<1>4. ASSUME NEW q \in Requests, StoreUsage(q)
      PROVE  Numbers'
  <2>1. at[q] \in Replicas /\ start[q] \in Hours /\ value[q] \in Nat
    BY <1>4 DEF Procs, Types, Numbers
  <2>2. usage' \in [Replicas -> [Hours -> {NoValue} \union Nat]]
    BY <1>4, <2>1 DEF StoreUsage, Numbers
  <2> QED BY <1>4, <2>2 DEF StoreUsage, Numbers, work
<1>5. ASSUME NEW q \in Requests, Record(q)
      PROVE  Numbers'
  <2>1. spent' \in [Hours -> SUBSET Requests]
    BY <1>5 DEF Record, Numbers
  <2>2. \A h \in Hours : atHour[h] \subseteq spent'[h]
    BY <1>5 DEF Record, Numbers
  <2> QED BY <1>5, <2>1, <2>2 DEF Record, Numbers, caches, work
<1>6. ASSUME NEW q \in Requests, Emit(q)
      PROVE  Numbers'
  BY <1>6, EndNumbers DEF Emit, caches, history
<1>7. ASSUME NEW q \in Requests, Ask(q)
      PROVE  Numbers'
  <2>1. q \in Procs
    BY <1>7 DEF Procs
  <2>2. UNCHANGED <<spent, atHour, usage>>
    BY <1>7 DEF Ask, caches, history
  <2>3. CASE End({q})
    BY <2>2, <2>3, EndNumbers
  <2>4. CASE UNCHANGED <<born, value>>
    BY <2>2, <2>4 DEF Numbers
  <2> QED BY <1>7, <2>3, <2>4 DEF Ask, work
<1>8. ASSUME NEW c \in Crons, CronStart(c)
      PROVE  Numbers'
  BY <1>8 DEF CronStart, Numbers, caches, work, history
<1>9. ASSUME NEW c \in Crons, CronReads(c)
      PROVE  Numbers'
  <2>1. Start(got[c].period, hour) \in Hours
    BY StartInRun DEF Types
  <2>2. Consumption(Start(got[c].period, hour)) \in Nat
    BY <2>1, LeftOut
  <2>3. value' \in [Procs -> Nat]
    BY <1>9, <2>2 DEF CronReads, Numbers
  <2> QED BY <1>9, <2>3 DEF CronReads, Numbers, caches, history
<1>10. ASSUME NEW c \in Crons, Evaluate(c)
      PROVE  Numbers'
  <2>1. c \in Procs
    BY <1>10 DEF Procs
  <2>2. UNCHANGED <<spent, atHour, usage>>
    BY <1>10 DEF Evaluate, caches
  <2>3. CASE End({c})
    BY <2>2, <2>3, EndNumbers
  <2>4. CASE UNCHANGED <<born, value>>
    BY <2>2, <2>4 DEF Numbers
  <2> QED BY <1>10, <2>3, <2>4 DEF Evaluate, work
<1>11. ASSUME NEW p \in Procs, WriteLog(p)
      PROVE  Numbers'
  <2>1. p \in Procs
    BY <1>11 DEF Procs
  <2>2. UNCHANGED <<spent, atHour, usage>>
    BY <1>11 DEF WriteLog, caches, history
  <2>3. CASE End({p})
    BY <2>2, <2>3, EndNumbers
  <2>4. CASE UNCHANGED <<born, value>>
    BY <2>2, <2>4 DEF Numbers
  <2> QED BY <1>11, <2>3, <2>4 DEF WriteLog, work
<1>12. ASSUME NEW p \in Procs, Mail(p)
      PROVE  Numbers'
  BY <1>12, EndNumbers DEF Mail, caches, history
<1>13. ASSUME NEW p \in Procs, StatementFails(p)
      PROVE  Numbers'
  BY <1>13, EndNumbers DEF StatementFails, caches, history
<1>14. ASSUME NEW r \in Replicas, Fire(r)
      PROVE  Numbers'
  <2>1. usage' \in [Replicas -> [Hours -> {NoValue} \union Nat]]
    BY <1>14 DEF Fire, Dropped, Numbers
  <2> QED BY <1>14, <2>1 DEF Fire, Numbers, work
<1>15. ASSUME NEW r \in Replicas, ExpireRules(r)
      PROVE  Numbers'
  BY <1>15 DEF ExpireRules, Numbers, caches, work, history
<1>16. ASSUME NEW r \in Replicas, NEW s \in Hours, ExpireUsage(r, s)
      PROVE  Numbers'
  <2>1. usage' \in [Replicas -> [Hours -> {NoValue} \union Nat]]
    BY <1>16 DEF ExpireUsage, Numbers
  <2> QED BY <1>16, <2>1 DEF ExpireUsage, Numbers, work
<1>17. ASSUME NEW r \in Replicas, Crash(r)
      PROVE  Numbers'
  <2> DEFINE gone == {p \in Procs : at[p] = r /\ pc[p] # "new"}
  <2>1. End(gone) /\ UNCHANGED <<spent, atHour>> /\ usage' = Dropped(r)
    BY <1>17 DEF Crash
  <2>2. usage' \in [Replicas -> [Hours -> {NoValue} \union Nat]]
    BY <2>1 DEF Dropped, Numbers
  <2>3. born' \in [Procs -> Hours] /\ value' \in [Procs -> Nat]
    BY <2>1, LimitsAssumption DEF End, Numbers, Hours
  <2> QED BY <2>1, <2>2, <2>3 DEF Numbers
<1>18. ASSUME NEW x \in Rules, Edit(x)
      PROVE  Numbers'
  BY <1>18 DEF Edit, Numbers, caches, work, history
<1>19. ASSUME Invalidate
      PROVE  Numbers'
  <2>1. usage' \in [Replicas -> [Hours -> {NoValue} \union Nat]]
    BY <1>19 DEF Invalidate, Dropped, Numbers
  <2> QED BY <1>19, <2>1 DEF Invalidate, Numbers, work
<1>20. ASSUME Tick
      PROVE  Numbers'
  BY <1>20 DEF Tick, Numbers, caches, work, history
<1>21. CASE UNCHANGED vars
  BY <1>21 DEF Numbers, vars, caches, work, history
<1>22. ASSUME NEW q \in Requests, Call(q)
      PROVE  Numbers'
  <2>1. hour \in Hours
    BY LimitsAssumption DEF Types, Hours
  <2>2. born' \in [Procs -> Hours] /\ value' \in [Procs -> Nat]
    BY <1>22, <2>1 DEF Call, Numbers
  <2> QED BY <1>22, <2>2 DEF Call, Numbers, caches, history
<1>23. ASSUME EditFails
      PROVE  Numbers'
  BY <1>23 DEF EditFails, Numbers, caches, work
<1>24. ASSUME Second
      PROVE  Numbers'
  BY <1>24 DEF Second, Numbers, caches, work, history
<1> QED
  BY <1>1, <1>2, <1>3, <1>4, <1>5, <1>6, <1>7, <1>8, <1>9, <1>10,
     <1>11, <1>12, <1>13, <1>14, <1>15, <1>16, <1>17, <1>18, <1>19, <1>20,
     <1>21, <1>22, <1>23, <1>24
  DEF Next, Request, Alert, Expire

(* No usage leaves the record. *)
LEMMA UsageStays ==
  ASSUME Types, Numbers, [Next]_vars
  PROVE  \A h \in Hours : spent[h] \subseteq spent'[h]
<1>1. ASSUME NEW q \in Requests, Record(q)
      PROVE  \A h \in Hours : spent[h] \subseteq spent'[h]
  BY <1>1 DEF Record, Numbers
<1>2. spent' = spent \/ \E q \in Requests : Record(q)
  BY DEF Next, Request, Alert, Expire, vars, FindRules, StoreRules, FindUsage,
         StoreUsage, Emit, Ask, CronStart, CronReads, Evaluate, WriteLog, Mail,
         StatementFails, Fire, ExpireRules, ExpireUsage, Crash, Edit, Invalidate,
         Tick, Call, EditFails, Second
<1> QED BY <1>1, <1>2

LEMMA UsageGrows ==
  ASSUME Types, Numbers, [Next]_vars, NEW s \in Hours
  PROVE  OnRecord(s) \in Nat /\ OnRecord(s)' \in Nat /\ OnRecord(s) <= OnRecord(s)'
<1>1. spent \in [Hours -> SUBSET Requests] /\ spent' \in [Hours -> SUBSET Requests]
  BY NumbersStep DEF Numbers
<1>2. OnRecord(s) = Consumed(s, spent) /\ OnRecord(s)' = Consumed(s, spent')
  BY DEF OnRecord
<1>3. Consumed(s, spent) <= Consumed(s, spent')
  BY <1>1, UsageStays, MoreConsumed
<1> QED BY <1>1, <1>2, <1>3, Consuming

-----------------------------------------------------------------------------
(* Nobody reports usage there has not been.                                *)

(* What a process has read is no more than the usage on record; one that   *)
(* reports has read that the threshold is reached, unless another period   *)
(* has begun since. *)
Sound(p) ==
  /\ pc[p] \in {"caching_usage", "evaluating"} => value[p] <= OnRecord(start[p])
  /\ pc[p] \in {"asking", "logging"} =>
       start[p] \in split \/ OnRecord(start[p]) >= got[p].limit

Due ==
  /\ \A r \in Replicas, s \in Hours : usage[r][s] <= OnRecord(s)
  /\ \A p \in Procs : Sound(p)
  /\ AlertDue

Grows ==
  \A s \in Hours : /\ Consumed(s, spent) \in Nat /\ Consumed(s, spent') \in Nat
                   /\ Consumed(s, spent) <= Consumed(s, spent')

(* The step leaves what the process has read and found as it is. *)
Carries(p) ==
  \/ pc'[p] \notin {"caching_usage", "evaluating", "asking", "logging"}
  \/ /\ pc'[p] = pc[p] \/ (pc[p] = "asking" /\ pc'[p] = "logging")
     /\ value'[p] = value[p] /\ start'[p] = start[p] /\ got'[p] = got[p]

LEMMA LimitIsNumber ==
  ASSUME NEW x \in Rules
  PROVE  x.limit \in Nat
BY RulesAssumption

LEMMA LogIsNumber ==
  ASSUME Types, NEW s \in Hours, logs[s] # NoValue
  PROVE  logs[s] \in Nat
BY LimitIsNumber DEF Types, Limits

LEMMA Carried ==
  ASSUME Types, Numbers, Due, Grows, split \subseteq split',
         NEW p \in Procs, Carries(p)
  PROVE  Sound(p)'
<1>1. /\ start[p] \in Hours /\ value[p] \in Nat /\ Sound(p)
      /\ Consumed(start[p], spent) \in Nat /\ Consumed(start[p], spent') \in Nat
      /\ Consumed(start[p], spent) <= Consumed(start[p], spent')
  BY DEF Types, Numbers, Due, Grows, OnRecord
<1>2. CASE pc'[p] \in {"caching_usage", "evaluating"}
  <2>1. pc[p] = pc'[p] /\ value'[p] = value[p] /\ start'[p] = start[p]
    BY <1>2 DEF Carries
  <2>2. value[p] <= Consumed(start[p], spent)
    BY <1>1, <1>2, <2>1 DEF Sound, OnRecord
  <2>3. value[p] <= Consumed(start[p], spent')
    BY <1>1, <2>2
  <2> QED BY <1>2, <2>1, <2>3 DEF Sound, OnRecord
<1>3. CASE pc'[p] \in {"asking", "logging"}
  <2>1. pc[p] \in {"asking", "logging"} /\ got'[p] = got[p] /\ start'[p] = start[p]
    BY <1>3 DEF Carries
  <2>2. got[p].limit \in Nat
    BY <2>1, LimitIsNumber DEF Types, HasRule, Judging
  <2>3. start[p] \in split' \/ Consumed(start[p], spent') >= got[p].limit
    BY <1>1, <2>1, <2>2 DEF Sound, OnRecord
  <2> QED BY <1>3, <2>1, <2>3 DEF Sound, OnRecord
<1> QED BY <1>2, <1>3 DEF Sound, OnRecord

LEMMA EndCarries ==
  ASSUME NEW ps, End(ps), NEW p \in Procs
  PROVE  Carries(p)
BY DEF End, Ended, Carries

LEMMA AlertsStillDue ==
  ASSUME Types, Due, Grows, split \subseteq split', logs' = logs
  PROVE  AlertDue'
<1>1. ASSUME NEW s \in Hours \ split', logs'[s] # NoValue
      PROVE  Consumed(s, spent') >= logs'[s]
  <2>1. Consumed(s, spent) >= logs[s] /\ logs[s] \in Nat
    BY <1>1, LogIsNumber DEF Due, AlertDue, OnRecord
  <2> QED BY <2>1 DEF Grows
<1> QED BY <1>1 DEF AlertDue, OnRecord

LEMMA CacheStillDue ==
  ASSUME Numbers, Due, Grows,
         \A r \in Replicas, s \in Hours : usage'[r][s] \in {NoValue, usage[r][s]}
  PROVE  \A r \in Replicas, s \in Hours : usage'[r][s] <= Consumed(s, spent')
<1>1. ASSUME NEW r \in Replicas, NEW s \in Hours
      PROVE  usage'[r][s] <= Consumed(s, spent')
  <2>1. /\ usage[r][s] <= Consumed(s, spent) /\ usage[r][s] \in {NoValue} \union Nat
        /\ Consumed(s, spent) \in Nat /\ Consumed(s, spent') \in Nat
        /\ Consumed(s, spent) <= Consumed(s, spent')
    BY DEF Due, Grows, Numbers, OnRecord
  <2>2. usage'[r][s] \in {NoValue, usage[r][s]}
    OBVIOUS
  <2> QED BY <2>1, <2>2 DEF NoValue
<1> QED BY <1>1

LEMMA StillDueBut ==
  ASSUME Types, Numbers, Due, Grows, split \subseteq split', logs' = logs,
         \A r \in Replicas, s \in Hours : usage'[r][s] \in {NoValue, usage[r][s]},
         NEW q \in Procs, Sound(q)', \A p \in Procs \ {q} : Carries(p)
  PROVE  Due'
<1>1. \A p \in Procs : Sound(p)'
  BY Carried
<1> QED BY <1>1, AlertsStillDue, CacheStillDue DEF Due, OnRecord

LEMMA StillDue ==
  ASSUME Types, Numbers, Due, Grows, split \subseteq split', logs' = logs,
         \A r \in Replicas, s \in Hours : usage'[r][s] \in {NoValue, usage[r][s]},
         \A p \in Procs : Carries(p)
  PROVE  Due'
<1>1. \A p \in Procs : Sound(p)'
  BY Carried
<1> QED BY <1>1, AlertsStillDue, CacheStillDue DEF Due, OnRecord

LEMMA DueStep ==
  ASSUME Types, Numbers, Due, Grows, [Next]_vars
  PROVE  Due'
<1>1. ASSUME NEW q \in Requests, NEW r \in Replicas, FindRules(q, r)
      PROVE  Due'
  <2>1. \A p1 \in Procs : Carries(p1)
    BY <1>1 DEF FindRules, Carries, Goes, Types, work
  <2> QED BY <1>1, <2>1, StillDue DEF FindRules, sent, caches, history
<1>2. ASSUME NEW q \in Requests, StoreRules(q)
      PROVE  Due'
  <2>1. \A p1 \in Procs : Carries(p1)
    BY <1>2 DEF StoreRules, Carries, Goes, Types, work
  <2> QED BY <1>2, <2>1, StillDue DEF StoreRules, sent, caches, history
<1>3. ASSUME NEW q \in Requests, FindUsage(q)
      PROVE  Due'
  <2>1. q \in Procs /\ at[q] \in Replicas
    BY <1>3 DEF Procs, Types
  <2>2. UNCHANGED <<usage, logs, split, got>>
    BY <1>3 DEF FindUsage, caches, sent, history
  <2>3. \A p1 \in Procs \ {q} : Carries(p1)
    BY <1>3, <2>1 DEF FindUsage, Verdict, Carries, Goes, Types, Numbers
  <2>4. Sound(q)'
    <3> DEFINE s == Start(got[q].period, hour)
               cached == usage[at[q]][s]
    <3>1. s \in Hours /\ got[q] \in Rules
      BY <2>1, <1>3, StartInRun DEF FindUsage, Types, HasRule, Judging
    <3>2. /\ Consumed(s, spent) \in Nat /\ Consumed(s, spent') \in Nat
          /\ Consumed(s, spent) <= Consumed(s, spent')
          /\ cached <= Consumed(s, spent) /\ cached \in {NoValue} \union Nat
          /\ got[q].limit \in Nat
      BY <2>1, <3>1, LimitIsNumber DEF Grows, Due, Numbers, OnRecord
    <3>3. CASE pc'[q] = "caching_usage"
      <4>1. start'[q] = s /\ value'[q] = Consumption(s)
        BY <1>3, <2>1, <3>3 DEF FindUsage, Verdict, Goes, Types, Numbers
      <4>2. Consumption(s) \in Nat /\ Consumption(s) <= Consumed(s, spent)
        BY <3>1, LeftOut DEF OnRecord
      <4> QED BY <3>2, <3>3, <4>1, <4>2 DEF Sound, OnRecord
    <3>4. CASE pc'[q] = "asking"
      <4>1. start'[q] = s /\ cached >= got[q].limit /\ cached # NoValue
        BY <1>3, <2>1, <3>4 DEF FindUsage, Verdict, Goes, Types
      <4>2. Consumed(s, spent') >= got[q].limit
        BY <3>2, <4>1 DEF NoValue
      <4> QED BY <3>4, <4>1, <4>2, <2>2 DEF Sound, OnRecord
    <3>5. pc'[q] \in {"served", "asking", "caching_usage"}
      BY <1>3, <2>1 DEF FindUsage, Verdict, Goes, Types
    <3> QED BY <3>3, <3>4, <3>5 DEF Sound, OnRecord
  <2> QED BY <2>1, <2>2, <2>3, <2>4, StillDueBut
<1>4. ASSUME NEW q \in Requests, StoreUsage(q)
      PROVE  Due'
  <2>1. q \in Procs /\ at[q] \in Replicas /\ start[q] \in Hours /\ value[q] \in Nat
    BY <1>4 DEF Procs, Types, Numbers
  <2>2. /\ UNCHANGED <<logs, split, start, got>>
        /\ got[q] \in Rules
    BY <1>4, <2>1 DEF StoreUsage, sent, work, Types, HasRule, Judging
  <2>3. \A p1 \in Procs \ {q} : Carries(p1)
    BY <1>4 DEF StoreUsage, Verdict, Carries, Goes, Types, work
  <2>4. /\ value[q] <= Consumed(start[q], spent)
        /\ Consumed(start[q], spent) \in Nat /\ Consumed(start[q], spent') \in Nat
        /\ Consumed(start[q], spent) <= Consumed(start[q], spent')
    BY <1>4, <2>1, <2>2 DEF StoreUsage, Due, Sound, Grows, OnRecord
  <2>5. Sound(q)'
    <3>1. pc'[q] = "served" \/ (pc'[q] = "asking" /\ value[q] >= got[q].limit)
      BY <1>4, <2>1 DEF StoreUsage, Verdict, Goes, Types
    <3>2. pc'[q] = "asking" => Consumed(start[q], spent') >= got[q].limit
      BY <3>1, <2>1, <2>2, <2>4, LimitIsNumber
    <3> QED BY <3>1, <3>2, <2>2 DEF Sound, OnRecord
  <2>6. \A p1 \in Procs : Sound(p1)'
    BY <2>2, <2>3, <2>5, Carried
  <2>7. ASSUME NEW r \in Replicas, NEW s \in Hours
        PROVE  usage'[r][s] <= Consumed(s, spent')
    <3>1. usage'[r][s] = IF r = at[q] /\ s = start[q] THEN value[q] ELSE usage[r][s]
      BY <1>4, <2>1 DEF StoreUsage, Numbers
    <3>2. /\ usage[r][s] <= Consumed(s, spent) /\ usage[r][s] \in {NoValue} \union Nat
          /\ Consumed(s, spent) \in Nat /\ Consumed(s, spent') \in Nat
          /\ Consumed(s, spent) <= Consumed(s, spent')
      BY DEF Due, Grows, Numbers, OnRecord
    <3>3. CASE r = at[q] /\ s = start[q]
      BY <3>1, <3>3, <2>1, <2>4
    <3>4. CASE ~(r = at[q] /\ s = start[q])
      BY <3>1, <3>2, <3>4 DEF NoValue
    <3> QED BY <3>3, <3>4
  <2>8. AlertDue'
    BY <2>2, AlertsStillDue
  <2> QED BY <2>6, <2>7, <2>8 DEF Due, OnRecord
<1>5. ASSUME NEW q \in Requests, Record(q)
      PROVE  Due'
  <2>1. \A p1 \in Procs : Carries(p1)
    BY <1>5 DEF Record, Carries, Goes, Types, work
  <2> QED BY <1>5, <2>1, StillDue DEF Record, sent, caches, history
<1>6. ASSUME NEW q \in Requests, Emit(q)
      PROVE  Due'
  <2>1. \A p1 \in Procs : Carries(p1)
    BY <1>6, EndCarries DEF Emit
  <2> QED BY <1>6, <2>1, StillDue DEF Emit, sent, caches, history
<1>7. ASSUME NEW q \in Requests, Ask(q)
      PROVE  Due'
  <2>1. \A p1 \in Procs : Carries(p1)
    <3>1. CASE End({q})
      BY <3>1, EndCarries
    <3>2. CASE Goes(q, "logging") /\ UNCHANGED work
      BY <1>7, <3>2 DEF Ask, Carries, Goes, Types, work
    <3> QED BY <1>7, <3>1, <3>2 DEF Ask
  <2> QED BY <1>7, <2>1, StillDue DEF Ask, sent, caches, history
<1>8. ASSUME NEW c \in Crons, CronStart(c)
      PROVE  Due'
  <2>1. \A p1 \in Procs : Carries(p1)
    BY <1>8 DEF CronStart, Carries, Goes, Types, work, Procs
  <2> QED BY <1>8, <2>1, StillDue DEF CronStart, sent, caches, history
<1>9. ASSUME NEW c \in Crons, CronReads(c)
      PROVE  Due'
  <2>1. c \in Procs
    BY <1>9 DEF Procs
  <2>2. \A p1 \in Procs \ {c} : Carries(p1)
    BY <1>9 DEF CronReads, Carries, Goes, Types, work
  <2>3. UNCHANGED <<usage, logs, split>>
    BY <1>9 DEF CronReads, caches, sent, history
  <2>4. Sound(c)'
    <3> DEFINE s == Start(got[c].period, hour)
    <3>1. s \in Hours
      BY StartInRun DEF Types
    <3>2. pc'[c] = "evaluating" /\ start'[c] = s /\ value'[c] = Consumption(s)
      BY <1>9, <2>1 DEF CronReads, Goes, Types, Numbers
    <3>3. /\ Consumed(s, spent) <= Consumed(s, spent')
          /\ Consumed(s, spent) \in Nat /\ Consumed(s, spent') \in Nat
      BY <3>1 DEF Grows
    <3>4. Consumption(s) \in Nat /\ Consumption(s) <= Consumed(s, spent)
      BY <3>1, LeftOut DEF OnRecord
    <3> QED BY <3>2, <3>3, <3>4 DEF Sound, OnRecord
  <2> QED BY <2>1, <2>2, <2>3, <2>4, StillDueBut
<1>10. ASSUME NEW c \in Crons, Evaluate(c)
      PROVE  Due'
  <2>1. c \in Procs /\ pc[c] = "evaluating" /\ got[c] \in Rules
    BY <1>10 DEF Procs, Evaluate, Types, HasRule, Judging
  <2>2. UNCHANGED <<usage, logs>> /\ split \subseteq split'
    BY <1>10 DEF Evaluate, sent, caches
  <2>3. CASE End({c})
    BY <2>2, <2>3, EndCarries, StillDue
  <2> DEFINE s == Start(got[c].period, hour)
  <2>4. CASE /\ start' = [start EXCEPT ![c] = s]
             /\ Goes(c, "logging")
             /\ UNCHANGED <<got, value>>
             /\ value[c] >= got[c].limit
             /\ s # start[c] => s \in split'
    <3>1. \A p1 \in Procs \ {c} : Carries(p1)
      BY <2>1, <2>4 DEF Goes, Types, Carries
    <3>2. /\ start[c] \in Hours /\ value[c] \in Nat /\ got[c].limit \in Nat
          /\ value[c] <= Consumed(start[c], spent)
          /\ Consumed(start[c], spent) \in Nat /\ Consumed(start[c], spent') \in Nat
          /\ Consumed(start[c], spent) <= Consumed(start[c], spent')
      BY <2>1, LimitIsNumber DEF Types, Numbers, Due, Sound, Grows, OnRecord
    <3>3. pc'[c] = "logging" /\ start'[c] = s /\ got'[c] = got[c]
      BY <2>1, <2>4 DEF Goes, Types
    <3>4. Consumed(start[c], spent') >= got[c].limit
      BY <2>4, <3>2
    <3>5. s \in split' \/ s = start[c]
      BY <2>4
    <3>6. Sound(c)'
      BY <3>3, <3>4, <3>5 DEF Sound, OnRecord
    <3> QED BY <2>1, <2>2, <3>1, <3>6, StillDueBut
  <2> QED BY <1>10, <2>3, <2>4 DEF Evaluate
<1>11. ASSUME NEW p \in Procs, WriteLog(p)
      PROVE  Due'
  <2>1. UNCHANGED <<usage, split>>
    BY <1>11 DEF WriteLog, caches, history
  <2>2. CASE logs[start[p]] # NoValue
    BY <1>11, <2>1, <2>2, EndCarries, StillDue DEF WriteLog
  <2>3. CASE logs[start[p]] = NoValue
    <3>1. /\ logs' = [logs EXCEPT ![start[p]] = got[p].limit]
          /\ Goes(p, "mailing") /\ UNCHANGED work
          /\ pc[p] = "logging"
      BY <1>11, <2>3 DEF WriteLog
    <3>2. \A p1 \in Procs : Carries(p1)
      BY <3>1 DEF Carries, Goes, Types, work
    <3>3. \A p1 \in Procs : Sound(p1)'
      BY <2>1, <3>2, Carried
    <3>4. \A r \in Replicas, s \in Hours : usage'[r][s] <= Consumed(s, spent')
      BY <2>1, CacheStillDue
    <3>5. /\ start[p] \in Hours /\ got[p] \in Rules /\ got[p].limit \in Nat
          /\ start[p] \in split \/ Consumed(start[p], spent) >= got[p].limit
      BY <3>1, LimitIsNumber DEF Types, HasRule, Judging, Due, Sound, OnRecord
    <3>6. ASSUME NEW s \in Hours \ split', logs'[s] # NoValue
          PROVE  Consumed(s, spent') >= logs'[s]
      <4>1. /\ Consumed(s, spent) \in Nat /\ Consumed(s, spent') \in Nat
            /\ Consumed(s, spent) <= Consumed(s, spent')
        BY DEF Grows
      <4>2. CASE s = start[p]
        <5>1. logs'[s] = got[p].limit /\ Consumed(s, spent) >= got[p].limit
          BY <4>2, <2>1, <3>1, <3>5 DEF Types
        <5> QED BY <4>1, <5>1, <3>5
      <4>3. CASE s # start[p]
        <5>1. logs'[s] = logs[s] /\ Consumed(s, spent) >= logs[s] /\ logs[s] \in Nat
          BY <4>3, <3>1, <3>6, <2>1, LogIsNumber DEF Due, AlertDue, Types, OnRecord
        <5> QED BY <4>1, <5>1
      <4> QED BY <4>2, <4>3
    <3> QED BY <3>3, <3>4, <3>6 DEF Due, AlertDue, OnRecord
  <2> QED BY <2>2, <2>3
<1>12. ASSUME NEW p \in Procs, Mail(p)
      PROVE  Due'
  <2>1. \A p1 \in Procs : Carries(p1)
    BY <1>12, EndCarries DEF Mail
  <2> QED BY <1>12, <2>1, StillDue DEF Mail, sent, caches, history
<1>13. ASSUME NEW p \in Procs, StatementFails(p)
      PROVE  Due'
  <2>1. \A p1 \in Procs : Carries(p1)
    BY <1>13, EndCarries DEF StatementFails
  <2> QED BY <1>13, <2>1, StillDue DEF StatementFails, sent, caches, history
<1>14. ASSUME NEW r \in Replicas, Fire(r)
      PROVE  Due'
  <2>1. \A p1 \in Procs : Carries(p1)
    BY <1>14 DEF Fire, Carries, work
  <2>2. \A r1 \in Replicas, s1 \in Hours : usage'[r1][s1] \in {NoValue, usage[r1][s1]}
    BY <1>14 DEF Fire, Dropped, Numbers
  <2> QED BY <1>14, <2>1, <2>2, StillDue DEF Fire, sent
<1>15. ASSUME NEW r \in Replicas, ExpireRules(r)
      PROVE  Due'
  <2>1. \A p1 \in Procs : Carries(p1)
    BY <1>15 DEF ExpireRules, Carries, work
  <2> QED BY <1>15, <2>1, StillDue DEF ExpireRules, sent, caches, history
<1>16. ASSUME NEW r \in Replicas, NEW s \in Hours, ExpireUsage(r, s)
      PROVE  Due'
  <2>1. \A p1 \in Procs : Carries(p1)
    BY <1>16 DEF ExpireUsage, Carries, work
  <2>2. \A r1 \in Replicas, s1 \in Hours : usage'[r1][s1] \in {NoValue, usage[r1][s1]}
    BY <1>16 DEF ExpireUsage, Numbers
  <2> QED BY <1>16, <2>1, <2>2, StillDue DEF ExpireUsage, sent
<1>17. ASSUME NEW r \in Replicas, Crash(r)
      PROVE  Due'
  <2>1. \A p1 \in Procs : Carries(p1)
    BY <1>17, EndCarries DEF Crash
  <2>2. \A r1 \in Replicas, s \in Hours : usage'[r1][s] \in {NoValue, usage[r1][s]}
    BY <1>17 DEF Crash, Dropped, Numbers
  <2> QED BY <1>17, <2>1, <2>2, StillDue DEF Crash, sent
<1>18. ASSUME NEW x \in Rules, Edit(x)
      PROVE  Due'
  <2>1. \A p1 \in Procs : Carries(p1)
    BY <1>18 DEF Edit, Carries, work
  <2> QED BY <1>18, <2>1, StillDue DEF Edit, sent, caches, history
<1>19. ASSUME Invalidate
      PROVE  Due'
  <2>1. \A p1 \in Procs : Carries(p1)
    BY <1>19 DEF Invalidate, Carries, work
  <2>2. \A r1 \in Replicas, s1 \in Hours : usage'[r1][s1] \in {NoValue, usage[r1][s1]}
    BY <1>19 DEF Invalidate, Dropped, Numbers
  <2> QED BY <1>19, <2>1, <2>2, StillDue DEF Invalidate, sent
<1>20. ASSUME Tick
      PROVE  Due'
  <2>1. \A p1 \in Procs : Carries(p1)
    BY <1>20 DEF Tick, Carries, work
  <2> QED BY <1>20, <2>1, StillDue DEF Tick, sent, caches, history
<1>21. CASE UNCHANGED vars
  <2>1. \A p1 \in Procs : Carries(p1)
    BY <1>21 DEF Carries, vars, work
  <2> QED BY <1>21, <2>1, StillDue DEF vars, sent, caches, history
<1>22. ASSUME NEW q \in Requests, Call(q)
      PROVE  Due'
  <2>1. \A p1 \in Procs : Carries(p1)
    BY <1>22 DEF Call, Carries, Goes, Types, Numbers
  <2> QED BY <1>22, <2>1, StillDue DEF Call, sent, caches, history
<1>23. ASSUME EditFails
      PROVE  Due'
  <2>1. \A p1 \in Procs : Carries(p1)
    BY <1>23 DEF EditFails, Carries, work
  <2> QED BY <1>23, <2>1, StillDue DEF EditFails, sent, caches
<1>24. ASSUME Second
      PROVE  Due'
  <2>1. \A p1 \in Procs : Carries(p1)
    BY <1>24 DEF Second, Carries, work
  <2> QED BY <1>24, <2>1, StillDue DEF Second, sent, caches, history
<1> QED
  BY <1>1, <1>2, <1>3, <1>4, <1>5, <1>6, <1>7, <1>8, <1>9, <1>10,
     <1>11, <1>12, <1>13, <1>14, <1>15, <1>16, <1>17, <1>18, <1>19, <1>20,
     <1>21, <1>22, <1>23, <1>24
  DEF Next, Request, Alert, Expire

-----------------------------------------------------------------------------
(* The rest of the types.                                                  *)

CronPlaces == {"idle", "consuming", "evaluating", "logging", "mailing"}

Marks ==
  /\ timer \in [Replicas -> BOOLEAN]
  /\ \A c \in Crons : pc[c] \in CronPlaces /\ at[c] = Home[c]
  /\ due \subseteq Crons /\ spoiled \subseteq Crons
  /\ editing \in BOOLEAN
  /\ upsets \in 0 .. MaxUpsets
  /\ raced \subseteq Requests /\ old \subseteq Replicas
  /\ stale \subseteq Replicas \X Hours
  /\ split \subseteq Hours /\ lost \subseteq Hours

LEMMA EndMarks ==
  ASSUME Marks, NEW ps, End(ps)
  PROVE  \A c \in Crons : pc'[c] \in CronPlaces /\ at'[c] = Home[c]
<1>1. ASSUME NEW c \in Crons
      PROVE  pc'[c] \in CronPlaces /\ at'[c] = Home[c]
  <2>1. c \in Procs /\ c \notin Requests
    BY LimitsAssumption DEF Procs
  <2> QED BY <2>1 DEF End, Ended, Marks, CronPlaces
<1> QED BY <1>1

LEMMA MarksStep ==
  ASSUME Types, Numbers, Marks, [Next]_vars
  PROVE  Marks'
<1>1. ASSUME NEW q \in Requests, NEW r \in Replicas, FindRules(q, r)
      PROVE  Marks'
  <2>1. q \in Procs /\ q \notin Crons
    BY <1>1, LimitsAssumption DEF Procs
  <2> QED BY <1>1, <2>1 DEF FindRules, Marks, CronPlaces, Goes, Types, Procs, history
<1>2. ASSUME NEW q \in Requests, StoreRules(q)
      PROVE  Marks'
  <2>1. q \in Procs /\ q \notin Crons /\ at[q] \in Replicas /\ start[q] \in Hours
    BY <1>2, LimitsAssumption DEF Procs, Types
  <2>2. \A c \in Crons : pc'[c] = pc[c] /\ at'[c] = at[c]
    BY <1>2, <2>1 DEF StoreRules, Goes, Types, Procs, work
  <2> QED BY <1>2, <2>1, <2>2 DEF StoreRules, Marks, history
<1>3. ASSUME NEW q \in Requests, FindUsage(q)
      PROVE  Marks'
  <2>1. q \in Procs /\ q \notin Crons /\ at[q] \in Replicas /\ start[q] \in Hours
    BY <1>3, LimitsAssumption DEF Procs, Types
  <2>2. \A c \in Crons : pc'[c] = pc[c] /\ at'[c] = at[c]
    BY <1>3, <2>1 DEF FindUsage, Verdict, Goes, Types, Procs, work
  <2> QED BY <1>3, <2>1, <2>2 DEF FindUsage, Marks, history
<1>4. ASSUME NEW q \in Requests, StoreUsage(q)
      PROVE  Marks'
  <2>1. q \in Procs /\ q \notin Crons /\ at[q] \in Replicas /\ start[q] \in Hours
    BY <1>4, LimitsAssumption DEF Procs, Types
  <2>2. \A c \in Crons : pc'[c] = pc[c] /\ at'[c] = at[c]
    BY <1>4, <2>1 DEF StoreUsage, Verdict, Goes, Types, Procs, work
  <2> QED BY <1>4, <2>1, <2>2 DEF StoreUsage, Marks, history
<1>5. ASSUME NEW q \in Requests, Record(q)
      PROVE  Marks'
  <2>1. q \in Procs /\ q \notin Crons
    BY <1>5, LimitsAssumption DEF Procs
  <2>2. \A c \in Crons : pc'[c] = pc[c] /\ at'[c] = at[c]
    BY <1>5, <2>1 DEF Record, Goes, Types, Procs, work
  <2>3. 0 .. born[q] \subseteq Hours
    BY <2>1, LimitsAssumption DEF Numbers, Hours
  <2>4. stale' \subseteq Replicas \X Hours
    BY <1>5, <2>3 DEF Record, Marks
  <2> QED BY <1>5, <2>2, <2>4 DEF Record, Marks
<1>6. ASSUME NEW q \in Requests, Emit(q)
      PROVE  Marks'
  <2>1. timer' \in [Replicas -> BOOLEAN]
    BY <1>6 DEF Emit, Marks
  <2> QED BY <1>6, <2>1, EndMarks DEF Emit, Marks, history
<1>7. ASSUME NEW q \in Requests, Ask(q)
      PROVE  Marks'
  <2>1. q \in Procs /\ q \notin Crons
    BY <1>7, LimitsAssumption DEF Procs
  <2>2. CASE End({q})
    BY <1>7, <2>2, EndMarks DEF Ask, Marks, history
  <2>3. CASE Goes(q, "logging") /\ UNCHANGED work
    BY <1>7, <2>1, <2>3 DEF Ask, Marks, Goes, Types, Procs, work, history
  <2> QED BY <1>7, <2>2, <2>3 DEF Ask
<1>8. ASSUME NEW c \in Crons, CronStart(c)
      PROVE  Marks'
  <2>1. \A o \in Crons : pc'[o] \in CronPlaces /\ at'[o] = Home[o]
    BY <1>8 DEF CronStart, Marks, CronPlaces, Goes, Types, Procs
  <2> QED BY <1>8, <2>1, LimitsAssumption DEF CronStart, Marks, Upset, history
<1>9. ASSUME NEW c \in Crons, CronReads(c)
      PROVE  Marks'
  <2>1. \A o \in Crons : pc'[o] \in CronPlaces /\ at'[o] = Home[o]
    BY <1>9 DEF CronReads, Marks, CronPlaces, Goes, Types, Procs
  <2> QED BY <1>9, <2>1 DEF CronReads, Marks, Upset, history
<1>10. ASSUME NEW c \in Crons, Evaluate(c)
      PROVE  Marks'
  <2>1. \A o \in Crons : pc'[o] \in CronPlaces /\ at'[o] = Home[o]
    <3>1. CASE End({c})
      BY <3>1, EndMarks DEF Marks
    <3>2. CASE Goes(c, "logging") /\ at' = at
      BY <3>2 DEF Marks, CronPlaces, Goes, Types, Procs
    <3> QED BY <1>10, <3>1, <3>2 DEF Evaluate
  <2>2. split' \subseteq Hours
    BY <1>10, StartInRun DEF Evaluate, Marks, Types
  <2> QED BY <1>10, <2>1, <2>2 DEF Evaluate, Marks
<1>11. ASSUME NEW p \in Procs, WriteLog(p)
      PROVE  Marks'
  <2>1. \A o \in Crons : pc'[o] \in CronPlaces /\ at'[o] = Home[o]
    <3>1. CASE End({p})
      BY <3>1, EndMarks DEF Marks
    <3>2. CASE Goes(p, "mailing") /\ UNCHANGED work
      BY <3>2 DEF Marks, CronPlaces, Goes, Types, Procs, work
    <3> QED BY <1>11, <3>1, <3>2 DEF WriteLog
  <2> QED BY <1>11, <2>1 DEF WriteLog, Marks, history
<1>12. ASSUME NEW p \in Procs, Mail(p)
      PROVE  Marks'
  <2>1. \A o \in Crons : pc'[o] \in CronPlaces /\ at'[o] = Home[o]
    BY <1>12, EndMarks DEF Mail, Marks
  <2>2. lost' \subseteq Hours
    BY <1>12 DEF Mail, Marks, Types
  <2> QED BY <1>12, <2>1, <2>2 DEF Mail, Marks
<1>13. ASSUME NEW p \in Procs, StatementFails(p)
      PROVE  Marks'
  <2>1. \A o \in Crons : pc'[o] \in CronPlaces /\ at'[o] = Home[o]
    BY <1>13, EndMarks DEF StatementFails, Marks
  <2>2. upsets' \in 0 .. MaxUpsets /\ spoiled' \subseteq Crons
    BY <1>13, LimitsAssumption DEF StatementFails, Upset, Marks
  <2> QED BY <1>13, <2>1, <2>2 DEF StatementFails, Marks
<1>14. ASSUME NEW r \in Replicas, Fire(r)
      PROVE  Marks'
  <2>1. timer' \in [Replicas -> BOOLEAN] /\ Overtaken(r) \subseteq Requests
    BY <1>14 DEF Fire, Marks, Overtaken
  <2> QED BY <1>14, <2>1 DEF Fire, Marks, work
<1>15. ASSUME NEW r \in Replicas, ExpireRules(r)
      PROVE  Marks'
  BY <1>15 DEF ExpireRules, Marks, work
<1>16. ASSUME NEW r \in Replicas, NEW s \in Hours, ExpireUsage(r, s)
      PROVE  Marks'
  BY <1>16 DEF ExpireUsage, Marks, work
<1>17. ASSUME NEW r \in Replicas, Crash(r)
      PROVE  Marks'
  <2> DEFINE gone == {p \in Procs : at[p] = r /\ pc[p] # "new"}
  <2>1. \A o \in Crons : pc'[o] \in CronPlaces /\ at'[o] = Home[o]
    BY <1>17, EndMarks DEF Crash, Marks
  <2>2. lost' \subseteq Hours
    <3>1. \A p \in gone : start[p] \in Hours
      BY DEF Types
    <3> QED BY <1>17, <3>1 DEF Crash, Marks
  <2>3. timer' \in [Replicas -> BOOLEAN] /\ upsets' \in 0 .. MaxUpsets
    BY <1>17, LimitsAssumption DEF Crash, Upset, Marks
  <2>4. editing' \in BOOLEAN
    BY <1>17 DEF Crash
  <2>5. UNCHANGED <<spoiled, split>>
    BY <1>17 DEF Crash
  <2>6. /\ due' \subseteq Crons /\ raced' \subseteq Requests
        /\ stale' \subseteq Replicas \X Hours /\ old' \subseteq Replicas
    BY <1>17 DEF Crash, Marks
  <2> QED BY <2>1, <2>2, <2>3, <2>4, <2>5, <2>6 DEF Marks
<1>18. ASSUME NEW x \in Rules, Edit(x)
      PROVE  Marks'
  <2>1. upsets' \in 0 .. MaxUpsets
    BY <1>18, LimitsAssumption DEF Edit, Upset, Marks
  <2> QED BY <1>18, <2>1 DEF Edit, Marks, work
<1>19. ASSUME Invalidate
      PROVE  Marks'
  <2>1. Overtaken(Editor) \subseteq Requests
    BY DEF Overtaken
  <2> QED BY <1>19, <2>1 DEF Invalidate, Marks, work
<1>20. ASSUME Tick
      PROVE  Marks'
  BY <1>20 DEF Tick, Marks, work
<1>21. CASE UNCHANGED vars
  BY <1>21 DEF Marks, vars, work, history
<1>22. ASSUME NEW q \in Requests, Call(q)
      PROVE  Marks'
  <2>1. q \in Procs /\ q \notin Crons
    BY <1>22, LimitsAssumption DEF Procs
  <2>2. \A c \in Crons : pc'[c] = pc[c] /\ at'[c] = at[c]
    BY <1>22, <2>1 DEF Call, Goes, Types, Procs
  <2> QED BY <1>22, <2>2 DEF Call, Marks, history
<1>23. ASSUME EditFails
      PROVE  Marks'
  BY <1>23, LimitsAssumption DEF EditFails, Marks, work
<1>24. ASSUME Second
      PROVE  Marks'
  BY <1>24 DEF Second, Marks, work, history
<1> QED
  BY <1>1, <1>2, <1>3, <1>4, <1>5, <1>6, <1>7, <1>8, <1>9, <1>10,
     <1>11, <1>12, <1>13, <1>14, <1>15, <1>16, <1>17, <1>18, <1>19, <1>20,
     <1>21, <1>22, <1>23, <1>24
  DEF Next, Request, Alert, Expire

-----------------------------------------------------------------------------
(* Who judges by the usage there is.                                       *)

(* The eviction of a replica's entries is under way. *)
Announced(r) == timer[r] \/ \E o \in Requests : at[o] = r /\ pc[o] = "recorded"

(* Likewise for a reader that is about to store what it has read. *)
Fresh ==
  /\ UsageFollows
  /\ \A q \in Requests :
       pc[q] = "caching_usage" /\ value[q] # OnRecord(start[q])
         => q \in raced \/ Announced(at[q])

(* The step does not make q a reader, nor change what it has read. *)
Waits(q) ==
  pc'[q] = "caching_usage" =>
    /\ pc[q] = "caching_usage"
    /\ value'[q] = value[q] /\ start'[q] = start[q] /\ at'[q] = at[q]
    /\ q \in raced => q \in raced'

(* The step leaves the announcement of q's usage as it is. *)
Told(q) == pc[q] = "recorded" => pc'[q] = "recorded" /\ at'[q] = at[q]

LEMMA AnnouncedStill ==
  ASSUME timer' = timer, \A q \in Requests : Told(q), NEW r, Announced(r)
  PROVE  Announced(r)'
BY DEF Announced, Told

LEMMA ReaderStays ==
  ASSUME Types, Fresh, spent' = spent, NEW q \in Requests, Waits(q),
         \A r \in Replicas : Announced(r) => Announced(r)',
         pc'[q] = "caching_usage", value'[q] # Consumed(start'[q], spent')
  PROVE  q \in raced' \/ Announced(at[q])'
<1>1. /\ pc[q] = "caching_usage" /\ value'[q] = value[q] /\ start'[q] = start[q]
      /\ at'[q] = at[q] /\ at[q] \in Replicas /\ (q \in raced => q \in raced')
  BY DEF Waits, Types, Procs
<1>2. q \in raced \/ Announced(at[q])
  BY <1>1 DEF Fresh, OnRecord
<1> QED BY <1>1, <1>2 DEF Announced

LEMMA ReaderStillExcused ==
  ASSUME Types, Fresh, spent' = spent, NEW q \in Requests, Waits(q),
         timer' = timer, \A p \in Requests : Told(p),
         pc'[q] = "caching_usage", value'[q] # Consumed(start'[q], spent')
  PROVE  q \in raced' \/ Announced(at[q])'
BY AnnouncedStill, ReaderStays

LEMMA CacheStaysFresh ==
  ASSUME Fresh, spent' = spent,
         \A r \in Replicas : Announced(r) => Announced(r)',
         \A r \in Replicas, s \in Hours : usage'[r][s] # NoValue =>
           usage'[r][s] = usage[r][s] /\ (<<r, s>> \in stale => <<r, s>> \in stale')
  PROVE  UsageFollows'
<1>1. ASSUME NEW r \in Replicas, NEW s \in Hours,
             usage'[r][s] # NoValue, usage'[r][s] # Consumed(s, spent')
      PROVE  <<r, s>> \in stale' \/ Announced(r)'
  <2>1. <<r, s>> \in stale \/ Announced(r)
    BY <1>1 DEF Fresh, UsageFollows, Announced, OnRecord
  <2> QED BY <1>1, <2>1
<1> QED BY <1>1 DEF UsageFollows, Announced, OnRecord

LEMMA UsageStillFollows ==
  ASSUME Fresh, spent' = spent, timer' = timer, \A p \in Requests : Told(p),
         UNCHANGED <<usage, stale>>
  PROVE  UsageFollows'
BY AnnouncedStill, CacheStaysFresh

LEMMA StayFresh ==
  ASSUME Types, Fresh, spent' = spent, \A q \in Requests : Waits(q),
         \A r \in Replicas : Announced(r) => Announced(r)',
         \A r \in Replicas, s \in Hours : usage'[r][s] # NoValue =>
           usage'[r][s] = usage[r][s] /\ (<<r, s>> \in stale => <<r, s>> \in stale')
  PROVE  Fresh'
<1>1. \A q \in Requests : pc'[q] = "caching_usage" /\ value'[q] # Consumed(start'[q], spent')
                            => q \in raced' \/ Announced(at[q])'
  BY ReaderStays
<1> QED BY <1>1, CacheStaysFresh DEF Fresh, OnRecord

LEMMA StillFresh ==
  ASSUME Types, Fresh, spent' = spent, timer' = timer, UNCHANGED <<usage, stale>>,
         \A q \in Requests : Waits(q) /\ Told(q)
  PROVE  Fresh'
<1>1. \A r \in Replicas : Announced(r) => Announced(r)'
  BY AnnouncedStill
<1> QED BY <1>1, StayFresh

LEMMA EndWaits ==
  ASSUME NEW ps, End(ps), raced \ ps \subseteq raced', NEW q \in Requests
  PROVE  Waits(q) /\ ((pc[q] = "recorded" => q \notin ps) => Told(q))
BY DEF End, Ended, Waits, Told, Procs

LEMMA FreshStep ==
  ASSUME Types, Numbers, Marks, Fresh, [Next]_vars
  PROVE  Fresh'
<1>1. ASSUME NEW q \in Requests, NEW r \in Replicas, FindRules(q, r)
      PROVE  Fresh'
  <2>1. q \in Procs
    BY <1>1 DEF Procs
  <2>2. \A p \in Requests : Waits(p) /\ Told(p)
    BY <1>1, <2>1 DEF FindRules, Waits, Told, Goes, Types, Numbers, Procs, work, history
  <2> QED BY <1>1, <2>2, StillFresh DEF FindRules, caches, history
<1>2. ASSUME NEW q \in Requests, StoreRules(q)
      PROVE  Fresh'
  <2>1. q \in Procs
    BY <1>2 DEF Procs
  <2>2. \A p \in Requests : Waits(p) /\ Told(p)
    BY <1>2, <2>1 DEF StoreRules, Waits, Told, Goes, Types, Numbers, Procs, work, history
  <2> QED BY <1>2, <2>2, StillFresh DEF StoreRules, caches, history
<1>3. ASSUME NEW q \in Requests, FindUsage(q)
      PROVE  Fresh'
  <2>1. q \in Procs
    BY <1>3 DEF Procs
  <2>2. \A p \in Requests : Told(p)
    BY <1>3, <2>1 DEF FindUsage, Verdict, Told, Goes, Types, Procs
  <2>3. \A p \in Requests \ {q} : Waits(p)
    BY <1>3, <2>1 DEF FindUsage, Verdict, Waits, Goes, Types, Numbers, Procs, history
  <2>4. pc'[q] = "caching_usage" => value'[q] = OnRecord(start'[q]) \/ q \in raced'
    BY <1>3, <2>1 DEF FindUsage, Verdict, Goes, Types, Numbers
  <2>5. UsageFollows'
    BY <1>3, <2>2, UsageStillFollows DEF FindUsage, caches, history
  <2>6. ASSUME NEW p \in Requests, pc'[p] = "caching_usage",
               value'[p] # Consumed(start'[p], spent')
        PROVE  p \in raced' \/ Announced(at[p])'
    <3>1. CASE p = q
      BY <1>3, <2>4, <2>6, <3>1 DEF FindUsage, OnRecord
    <3>2. CASE p # q
      BY <1>3, <2>2, <2>3, <2>6, <3>2, ReaderStillExcused DEF FindUsage
    <3> QED BY <3>1, <3>2
  <2> QED BY <2>5, <2>6 DEF Fresh, OnRecord
<1>4. ASSUME NEW q \in Requests, StoreUsage(q)
      PROVE  Fresh'
  <2>1. q \in Procs /\ at[q] \in Replicas /\ start[q] \in Hours
    BY <1>4 DEF Procs, Types
  <2>2. \A p \in Requests : Told(p)
    BY <1>4, <2>1 DEF StoreUsage, Verdict, Told, Goes, Types, Procs, work
  <2>3. \A p \in Requests \ {q} : Waits(p)
    BY <1>4, <2>1 DEF StoreUsage, Verdict, Waits, Goes, Types, Procs, work
  <2>4. pc'[q] # "caching_usage"
    BY <1>4, <2>1 DEF StoreUsage, Verdict, Goes, Types
  <2>5. \A p \in Requests : pc'[p] = "caching_usage" /\ value'[p] # Consumed(start'[p], spent')
                             => p \in raced' \/ Announced(at[p])'
    BY <1>4, <2>2, <2>3, <2>4, ReaderStillExcused DEF StoreUsage
  <2>6. ASSUME NEW r \in Replicas, NEW s \in Hours,
               usage'[r][s] # NoValue, usage'[r][s] # Consumed(s, spent')
        PROVE  <<r, s>> \in stale' \/ Announced(r)'
    <3>1. usage'[r][s] = IF r = at[q] /\ s = start[q] THEN value[q] ELSE usage[r][s]
      BY <1>4, <2>1 DEF StoreUsage, Numbers
    <3>2. spent' = spent /\ (Announced(r) => Announced(r)')
      BY <1>4, <2>2, AnnouncedStill DEF StoreUsage
    <3>3. CASE r = at[q] /\ s = start[q]
      <4>1. q \in raced \/ Announced(r)
        BY <1>4, <2>6, <3>1, <3>2, <3>3 DEF StoreUsage, Fresh, OnRecord
      <4> QED BY <1>4, <3>2, <3>3, <4>1 DEF StoreUsage
    <3>4. CASE ~(r = at[q] /\ s = start[q])
      <4>1. <<r, s>> \in stale \/ Announced(r)
        BY <2>6, <3>1, <3>2, <3>4 DEF Fresh, UsageFollows, Announced, OnRecord
      <4>2. <<r, s>> # <<at[q], start[q]>>
        BY <3>4
      <4> QED BY <1>4, <3>2, <4>1, <4>2 DEF StoreUsage
    <3> QED BY <3>3, <3>4
  <2> QED BY <2>5, <2>6 DEF Fresh, UsageFollows, Announced, OnRecord
<1>5. ASSUME NEW q \in Requests, Record(q)
      PROVE  Fresh'
  <2>1. q \in Procs /\ at[q] \in Replicas /\ born[q] \in Hours /\ UNCHANGED <<at, usage, timer>>
    BY <1>5 DEF Procs, Types, Numbers, Record, work, caches
  <2>2. \A p \in Requests : Told(p) /\ Waits(p)
    BY <1>5, <2>1 DEF Record, Told, Waits, Goes, Types, Procs, work
  <2>3. Announced(at[q])'
    BY <1>5, <2>1 DEF Record, Announced, Goes, Types
  <2>4. \A r \in Replicas : Announced(r) => Announced(r)'
    BY <2>1, <2>2, AnnouncedStill
  <2>5. ASSUME NEW s \in Hours, s > born[q]
        PROVE  Consumed(s, spent') = Consumed(s, spent)
    <3>1. spent' = [spent EXCEPT ![born[q]] = spent[born[q]] \union {q}]
      BY <1>5 DEF Record
    <3>2. spent \in [Hours -> SUBSET Requests]
      BY DEF Numbers
    <3>3. Consumed(s, [spent EXCEPT ![born[q]] = spent[born[q]] \union {q}]) = Consumed(s, spent)
      BY <2>1, <2>5, <3>2, EarlierUsage
    <3> QED BY <3>1, <3>3
  <2>6. ASSUME NEW r \in Replicas, NEW s \in Hours,
               usage'[r][s] # NoValue, usage'[r][s] # Consumed(s, spent')
        PROVE  <<r, s>> \in stale' \/ Announced(r)'
    <3>1. CASE s > born[q]
      BY <1>5, <2>1, <2>4, <2>5, <2>6, <3>1 DEF Record, Fresh, UsageFollows, Announced, OnRecord
    <3>2. CASE ~(s > born[q]) /\ r # at[q]
      <4>1. s \in 0 .. born[q]
        BY <2>1, <3>2 DEF Hours
      <4>2. <<r, s>> \in (Replicas \ {at[q]}) \X (0 .. born[q])
        BY <3>2, <4>1
      <4> QED BY <1>5, <2>1, <2>6, <4>2 DEF Record
    <3>3. CASE r = at[q]
      BY <2>1, <2>3, <3>3 DEF Announced
    <3> QED BY <3>1, <3>2, <3>3
  <2>7. ASSUME NEW p \in Requests, pc'[p] = "caching_usage",
               value'[p] # Consumed(start'[p], spent')
        PROVE  p \in raced' \/ Announced(at[p])'
    <3>1. /\ pc[p] = "caching_usage" /\ value'[p] = value[p] /\ start'[p] = start[p]
          /\ at'[p] = at[p] /\ start[p] \in Hours /\ at[p] \in Replicas
      BY <1>5, <2>1, <2>2, <2>7 DEF Waits, Types, Procs
    <3>2. CASE start[p] > born[q]
      <4>1. p \in raced \/ Announced(at[p])
        BY <2>5, <2>7, <3>1, <3>2 DEF Fresh, OnRecord
      <4> QED BY <1>5, <2>1, <2>4, <3>1, <4>1 DEF Record, Announced
    <3>3. CASE ~(start[p] > born[q]) /\ at[p] # at[q]
      <4>1. start[p] <= born[q]
        BY <2>1, <3>1, <3>3 DEF Hours
      <4> QED BY <1>5, <3>1, <3>3, <4>1 DEF Record
    <3>4. CASE at[p] = at[q]
      BY <2>1, <2>3, <3>1, <3>4 DEF Announced
    <3> QED BY <3>2, <3>3, <3>4
  <2> QED BY <2>6, <2>7 DEF Fresh, UsageFollows, Announced, OnRecord
<1>6. ASSUME NEW q \in Requests, Emit(q)
      PROVE  Fresh'
  <2>1. q \in Procs /\ timer'[at[q]]
    BY <1>6 DEF Emit, Procs, Types, Marks
  <2>2. ASSUME NEW r \in Replicas, Announced(r)
        PROVE  Announced(r)'
    <3>1. CASE r = at[q]
      BY <2>1, <3>1 DEF Announced
    <3>2. CASE r # at[q]
      BY <1>6, <2>1, <2>2, <3>2 DEF Emit, Announced, End, Procs, Marks
    <3> QED BY <3>1, <3>2
  <2>3. \A p \in Requests : Waits(p)
    BY <1>6, EndWaits DEF Emit, history
  <2> QED BY <1>6, <2>2, <2>3, StayFresh DEF Emit, caches, history
<1>7. ASSUME NEW q \in Requests, Ask(q)
      PROVE  Fresh'
  <2>1. \A p \in Requests : Waits(p) /\ Told(p)
    <3>1. CASE End({q})
      BY <1>7, <3>1, EndWaits DEF Ask, history
    <3>2. CASE ~End({q})
      BY <1>7, <3>2 DEF Ask, Waits, Told, Goes, Types, Procs, work, history
    <3> QED BY <3>1, <3>2
  <2> QED BY <1>7, <2>1, StillFresh DEF Ask, caches, history
<1>8. ASSUME NEW c \in Crons, CronStart(c)
      PROVE  Fresh'
  <2>1. c \in Procs
    BY <1>8 DEF Procs
  <2>2. \A p \in Requests : Waits(p) /\ Told(p)
    BY <1>8, <2>1 DEF CronStart, Waits, Told, Goes, Types, Numbers, Procs, work, history
  <2> QED BY <1>8, <2>2, StillFresh DEF CronStart, caches, history
<1>9. ASSUME NEW c \in Crons, CronReads(c)
      PROVE  Fresh'
  <2>1. c \in Procs
    BY <1>9 DEF Procs
  <2>2. \A p \in Requests : Waits(p) /\ Told(p)
    BY <1>9, <2>1 DEF CronReads, Waits, Told, Goes, Types, Numbers, Procs, work, history
  <2> QED BY <1>9, <2>2, StillFresh DEF CronReads, caches, history
<1>10. ASSUME NEW c \in Crons, Evaluate(c)
      PROVE  Fresh'
  <2>1. \A p \in Requests : Waits(p) /\ Told(p)
    <3>1. CASE End({c})
      BY <1>10, <3>1, EndWaits DEF Evaluate, history
    <3>2. CASE ~End({c})
      BY <1>10, <3>2 DEF Evaluate, Waits, Told, Goes, Types, Procs, work, history
    <3> QED BY <3>1, <3>2
  <2> QED BY <1>10, <2>1, StillFresh DEF Evaluate, caches, history
<1>11. ASSUME NEW p \in Procs, WriteLog(p)
      PROVE  Fresh'
  <2>1. \A o \in Requests : Waits(o) /\ Told(o)
    <3>1. CASE End({p})
      BY <1>11, <3>1, EndWaits DEF WriteLog, history
    <3>2. CASE ~End({p})
      BY <1>11, <3>2 DEF WriteLog, Waits, Told, Goes, Types, Procs, work, history
    <3> QED BY <3>1, <3>2
  <2> QED BY <1>11, <2>1, StillFresh DEF WriteLog, caches, history
<1>12. ASSUME NEW p \in Procs, Mail(p)
      PROVE  Fresh'
  <2>1. \A o \in Requests : Waits(o) /\ Told(o)
    BY <1>12, EndWaits DEF Mail, history
  <2> QED BY <1>12, <2>1, StillFresh DEF Mail, caches, history
<1>13. ASSUME NEW p \in Procs, StatementFails(p)
      PROVE  Fresh'
  <2>1. \A o \in Requests : Waits(o) /\ Told(o)
    BY <1>13, EndWaits DEF StatementFails, history
  <2> QED BY <1>13, <2>1, StillFresh DEF StatementFails, caches, history
<1>14. ASSUME NEW r \in Replicas, Fire(r)
      PROVE  Fresh'
  <2>1. UNCHANGED <<spent, pc, at, value, start>>
    BY <1>14 DEF Fire, work
  <2>2. \A s \in Hours : usage'[r][s] = NoValue
    BY <1>14 DEF Fire, Dropped, Numbers
  <2>3. \A r1 \in Replicas \ {r} : /\ Announced(r1) => Announced(r1)'
                                   /\ usage'[r1] = usage[r1]
    BY <1>14, <2>1 DEF Fire, Announced, Dropped, Marks, Numbers
  <2>4. UsageFollows'
    BY <1>14, <2>1, <2>2, <2>3 DEF Fire, Fresh, UsageFollows, Announced, OnRecord
  <2>5. ASSUME NEW p \in Requests, pc'[p] = "caching_usage",
               value'[p] # Consumed(start'[p], spent')
        PROVE  p \in raced' \/ Announced(at[p])'
    <3>1. CASE at[p] = r
      BY <1>14, <2>1, <2>5, <3>1 DEF Fire, Overtaken, OnRecord
    <3>2. CASE at[p] # r
      <4>1. at[p] \in Replicas
        BY DEF Types, Procs
      <4>2. p \in raced \/ Announced(at[p])
        BY <2>1, <2>5 DEF Fresh, OnRecord
      <4> QED BY <1>14, <2>1, <2>3, <3>2, <4>1, <4>2 DEF Fire, Announced
    <3> QED BY <3>1, <3>2
  <2> QED BY <2>4, <2>5 DEF Fresh, Announced, OnRecord
<1>15. ASSUME NEW r \in Replicas, ExpireRules(r)
      PROVE  Fresh'
  <2>1. \A p \in Requests : Waits(p) /\ Told(p)
    BY <1>15 DEF ExpireRules, Waits, Told, work, history
  <2> QED BY <1>15, <2>1, StillFresh DEF ExpireRules, caches, history
<1>16. ASSUME NEW r \in Replicas, NEW s \in Hours, ExpireUsage(r, s)
      PROVE  Fresh'
  <2>1. \A p \in Requests : Waits(p)
    BY <1>16 DEF ExpireUsage, Waits, work
  <2>2. \A r1 \in Replicas : Announced(r1) => Announced(r1)'
    BY <1>16 DEF ExpireUsage, Announced, work
  <2>3. \A r1 \in Replicas, s1 \in Hours : usage'[r1][s1] # NoValue =>
          usage'[r1][s1] = usage[r1][s1] /\ (<<r1, s1>> \in stale => <<r1, s1>> \in stale')
    BY <1>16 DEF ExpireUsage, Numbers
  <2> QED BY <1>16, <2>1, <2>2, <2>3, StayFresh DEF ExpireUsage
<1>17. ASSUME NEW r \in Replicas, Crash(r)
      PROVE  Fresh'
  <2> DEFINE gone == {p \in Procs : at[p] = r /\ pc[p] # "new"}
  <2>1. End(gone) /\ UNCHANGED <<spent>> /\ usage' = Dropped(r) /\ raced' = raced \ gone
    BY <1>17 DEF Crash
  <2>2. \A s \in Hours : usage'[r][s] = NoValue
    BY <2>1 DEF Dropped, Numbers
  <2>3. ASSUME NEW r1 \in Replicas \ {r}
        PROVE  (Announced(r1) => Announced(r1)') /\ usage'[r1] = usage[r1]
    <3>1. timer[r1] => timer'[r1]
      BY <1>17 DEF Crash, Marks
    <3>2. \A o \in Requests : at[o] = r1 /\ pc[o] = "recorded"
                                => at'[o] = r1 /\ pc'[o] = "recorded"
      BY <2>1 DEF End, Procs
    <3>3. usage'[r1] = usage[r1]
      BY <2>1 DEF Dropped, Numbers
    <3> QED BY <3>1, <3>2, <3>3 DEF Announced
  <2>4. UsageFollows'
    BY <1>17, <2>1, <2>2, <2>3 DEF Crash, Fresh, UsageFollows, Announced, OnRecord
  <2>5. ASSUME NEW p \in Requests, pc'[p] = "caching_usage",
               value'[p] # Consumed(start'[p], spent')
        PROVE  p \in raced' \/ Announced(at[p])'
    <3>1. p \in Procs /\ p \notin gone
      BY <2>1, <2>5 DEF End, Ended, Procs
    <3>2. /\ pc[p] = "caching_usage" /\ value'[p] = value[p] /\ start'[p] = start[p]
          /\ at'[p] = at[p] /\ at[p] \in Replicas
      BY <2>1, <2>5, <3>1 DEF End, Types
    <3>3. at[p] # r
      BY <3>1, <3>2
    <3>4. p \in raced \/ Announced(at[p])
      BY <2>1, <2>5, <3>2 DEF Fresh, OnRecord
    <3> QED BY <2>1, <2>3, <3>1, <3>2, <3>3, <3>4 DEF Announced
  <2> QED BY <2>4, <2>5 DEF Fresh, Announced, OnRecord
<1>18. ASSUME NEW x \in Rules, Edit(x)
      PROVE  Fresh'
  <2>1. \A p \in Requests : Waits(p) /\ Told(p)
    BY <1>18 DEF Edit, Waits, Told, work, history
  <2> QED BY <1>18, <2>1, StillFresh DEF Edit, caches, history
<1>19. ASSUME Invalidate
      PROVE  Fresh'
  <2>1. \A p \in Requests : Waits(p)
    BY <1>19 DEF Invalidate, Waits, work
  <2>2. \A r1 \in Replicas : Announced(r1) => Announced(r1)'
    BY <1>19 DEF Invalidate, Announced, work
  <2>3. \A r1 \in Replicas, s1 \in Hours : usage'[r1][s1] # NoValue =>
          usage'[r1][s1] = usage[r1][s1] /\ (<<r1, s1>> \in stale => <<r1, s1>> \in stale')
    BY <1>19 DEF Invalidate, Dropped, Numbers
  <2> QED BY <1>19, <2>1, <2>2, <2>3, StayFresh DEF Invalidate
<1>20. ASSUME Tick
      PROVE  Fresh'
  <2>1. \A p \in Requests : Waits(p) /\ Told(p)
    BY <1>20 DEF Tick, Waits, Told, work, history
  <2> QED BY <1>20, <2>1, StillFresh DEF Tick, caches, history
<1>21. CASE UNCHANGED vars
  <2>1. \A p \in Requests : Waits(p) /\ Told(p)
    BY <1>21 DEF Waits, Told, vars, work, history
  <2> QED BY <1>21, <2>1, StillFresh DEF vars, caches, history
<1>22. ASSUME NEW q \in Requests, Call(q)
      PROVE  Fresh'
  <2>1. q \in Procs
    BY <1>22 DEF Procs
  <2>2. \A p \in Requests : Waits(p) /\ Told(p)
    BY <1>22, <2>1 DEF Call, Waits, Told, Goes, Types, Numbers, Procs, history
  <2> QED BY <1>22, <2>2, StillFresh DEF Call, caches, history
<1>23. ASSUME EditFails
      PROVE  Fresh'
  <2>1. \A p \in Requests : Waits(p) /\ Told(p)
    BY <1>23 DEF EditFails, Waits, Told, work
  <2> QED BY <1>23, <2>1, StillFresh DEF EditFails, caches
<1>24. ASSUME Second
      PROVE  Fresh'
  <2>1. \A p \in Requests : Waits(p) /\ Told(p)
    BY <1>24 DEF Second, Waits, Told, work, history
  <2> QED BY <1>24, <2>1, StillFresh DEF Second, caches, history
<1> QED
  BY <1>1, <1>2, <1>3, <1>4, <1>5, <1>6, <1>7, <1>8, <1>9, <1>10,
     <1>11, <1>12, <1>13, <1>14, <1>15, <1>16, <1>17, <1>18, <1>19, <1>20,
     <1>21, <1>22, <1>23, <1>24
  DEF Next, Request, Alert, Expire

-----------------------------------------------------------------------------
(* What the hourly job reports.                                            *)

Ahead == {"new", "caching_rules", "limits", "caching_usage", "served"}

(* No usage is on record of a request whose call has not begun, and what   *)
(* was on record when the hour began began before this second. *)
Apart ==
  /\ \A q \in Requests : pc[q] \in Ahead => \A h \in Hours : q \notin spent[h]
  /\ \A h \in Hours : atHour[h] \intersect fresh = {}

(* What a job reads includes all that was on record when the hour began. *)
LEMMA OldUsageCounts ==
  ASSUME Numbers, Apart, NEW s \in Hours
  PROVE  Consumption(s) >= Consumed(s, atHour)
<1> DEFINE u == [h \in Hours |-> spent[h] \ fresh]
<1>1. u \in [Hours -> SUBSET Requests] /\ atHour \in [Hours -> SUBSET Requests]
  BY DEF Numbers
<1>2. \A h \in Hours : atHour[h] \subseteq u[h]
  BY DEF Numbers, Apart
<1> HIDE DEF u
<1>3. /\ Consumed(s, atHour) <= Consumed(s, u)
      /\ Consumed(s, atHour) \in Nat /\ Consumed(s, u) \in Nat
  BY <1>1, <1>2, Consuming, MoreConsumed
<1> QED BY <1>3 DEF u, Consumption

(* No request goes back before its call. *)
LEMMA StaysAhead ==
  ASSUME Types, [Next]_vars, NEW q \in Requests, pc'[q] \in Ahead
  PROVE  pc[q] \in Ahead
<1>1. q \in Procs /\ q \notin Crons
  BY LimitsAssumption DEF Procs
<1>2. ASSUME NEW ps, End(ps)
      PROVE  pc[q] \in Ahead
  BY <1>1, <1>2 DEF End, Ended, Ahead
<1>3. ASSUME NEW p \in Procs, NEW to, Goes(p, to), p = q => to \notin Ahead \/ pc[q] \in Ahead
      PROVE  pc[q] \in Ahead
  BY <1>1, <1>3 DEF Goes, Types
<1>4. ASSUME NEW p \in Requests, Request(p)
      PROVE  pc[q] \in Ahead
  <2>1. p \in Procs
    BY <1>4 DEF Procs
  <2>2. CASE End({p})
    BY <2>2, <1>2
  <2>3. CASE ~End({p})
    <3>1. PICK to : Goes(p, to) /\ (to \notin Ahead \/ pc[p] \in Ahead)
      BY <1>4, <2>3
      DEF Request, FindRules, StoreRules, FindUsage, StoreUsage, Verdict, Call,
          Record, Emit, Ask, Ahead
    <3> QED BY <2>1, <3>1, <1>3
  <2> QED BY <2>2, <2>3
<1>5. ASSUME NEW c \in Crons, CronStart(c) \/ CronReads(c) \/ Evaluate(c)
      PROVE  pc[q] \in Ahead
  <2>1. c \in Procs /\ c # q
    BY <1>1, <1>5 DEF Procs
  <2>2. \/ End({c}) \/ pc' = pc \/ \E to : Goes(c, to)
    BY <1>5 DEF CronStart, CronReads, Evaluate
  <2> QED BY <2>1, <2>2, <1>2, <1>3
<1>6. ASSUME NEW p \in Procs, Alert(p)
      PROVE  pc[q] \in Ahead
  <2>1. End({p}) \/ Goes(p, "mailing")
    BY <1>6 DEF Alert, WriteLog, Mail, StatementFails
  <2> QED BY <2>1, <1>2, <1>3 DEF Ahead
<1>7. ASSUME NEW r \in Replicas, Fire(r) \/ Expire(r) \/ Crash(r)
      PROVE  pc[q] \in Ahead
  <2>1. pc' = pc \/ \E ps : End(ps)
    BY <1>7 DEF Fire, Expire, ExpireRules, ExpireUsage, Crash
  <2> QED BY <2>1, <1>2
<1>8. CASE \/ \E x \in Rules : Edit(x)
           \/ Invalidate \/ EditFails \/ Second \/ Tick \/ UNCHANGED vars
  BY <1>8 DEF Edit, Invalidate, EditFails, Second, Tick, vars
<1> QED BY <1>4, <1>5, <1>6, <1>7, <1>8 DEF Next

LEMMA ApartStep ==
  ASSUME Types, Numbers, Apart, [Next]_vars
  PROVE  Apart'
<1>1. ASSUME NEW q \in Requests, Call(q)
      PROVE  Apart'
  <2>1. UNCHANGED <<spent, atHour>> /\ fresh' = fresh \union {q}
    BY <1>1 DEF Call, history
  <2>2. \A h \in Hours : q \notin atHour[h]
    BY <1>1 DEF Call, Apart, Ahead, Numbers
  <2> QED BY <2>1, <2>2, StaysAhead DEF Apart
<1>2. ASSUME NEW q \in Requests, Record(q)
      PROVE  Apart'
  <2>1. q \in Procs /\ UNCHANGED <<atHour, fresh>>
    BY <1>2 DEF Procs, Record
  <2>2. pc'[q] = "recorded"
    BY <1>2, <2>1 DEF Record, Goes, Types
  <2>3. \A p \in Requests \ {q} : \A h \in Hours : p \in spent'[h] => p \in spent[h]
    BY <1>2 DEF Record, Numbers
  <2> QED BY <2>1, <2>2, <2>3, StaysAhead DEF Apart, Ahead
<1>3. ASSUME Tick
      PROVE  Apart'
  BY <1>3, StaysAhead DEF Tick, Apart
<1>4. ASSUME UNCHANGED <<spent, atHour>>, fresh' \subseteq fresh
      PROVE  Apart'
  BY <1>4, StaysAhead DEF Apart
<1>5. \/ UNCHANGED <<spent, atHour>> /\ fresh' \subseteq fresh
      \/ \E q \in Requests : Call(q) \/ Record(q)
      \/ Tick
  BY DEF Next, Request, Alert, Expire, vars, history, FindRules, StoreRules,
         FindUsage, StoreUsage, Emit, Ask, CronStart, CronReads, Evaluate, WriteLog,
         Mail, StatementFails, Fire, ExpireRules, ExpireUsage, Crash, Edit,
         Invalidate, EditFails, Second
<1> QED BY <1>1, <1>2, <1>3, <1>4, <1>5

(* What an undisturbed run for the hour leads to, wherever it is, if the   *)
(* usage at the beginning of the hour reaches the threshold. *)
Reported(c) ==
  LET s == Start(rule.period, hour) IN
    c \notin due \union spoiled /\ rule.on /\ Consumed(s, atHour) >= rule.limit =>
      /\ pc[c] \in {"idle", "mailing"} => logs[s] # NoValue
      /\ pc[c] \in {"consuming", "evaluating"} => got[c] = rule
      /\ pc[c] = "evaluating" => value[c] >= Consumed(s, atHour)
      /\ pc[c] = "logging" => start[c] = s

Reports == \A c \in Crons : Reported(c)

(* The step is not of job c, and disturbs it if anything. *)
Stays(c) ==
  /\ c \notin due' \union spoiled' => c \notin due \union spoiled
  /\ c \notin due' \union spoiled' =>
       pc'[c] = pc[c] /\ got'[c] = got[c] /\ value'[c] = value[c] /\ start'[c] = start[c]

LEMMA SomeStay ==
  ASSUME Types, NEW c \in Crons, Stays(c), Reported(c), UNCHANGED <<hour, rule, atHour>>,
         \A s \in Hours : logs[s] # NoValue => logs'[s] # NoValue
  PROVE  Reported(c)'
<1>1. Start(rule.period, hour) \in Hours
  BY StartInRun DEF Types
<1> QED BY <1>1 DEF Stays, Reported

LEMMA StillReportsBut ==
  ASSUME Types, Reports, UNCHANGED <<hour, rule, atHour>>,
         \A s \in Hours : logs[s] # NoValue => logs'[s] # NoValue,
         NEW p, \A c \in Crons \ {p} : Stays(c), p \in Crons => Reported(p)'
  PROVE  Reports'
BY SomeStay DEF Reports

LEMMA StillReports ==
  ASSUME Types, Reports, UNCHANGED <<hour, rule, atHour, logs>>, \A c \in Crons : Stays(c)
  PROVE  Reports'
BY SomeStay DEF Reports

LEMMA EndStays ==
  ASSUME NEW ps, End(ps), NEW c \in Crons, c \notin ps,
         c \notin due' \union spoiled' => c \notin due \union spoiled
  PROVE  Stays(c)
BY DEF End, Stays, Procs

LEMMA ReportsStep ==
  ASSUME Types, Numbers, Marks, Apart, Reports, [Next]_vars
  PROVE  Reports'
<1>1. ASSUME NEW q \in Requests, NEW r \in Replicas, FindRules(q, r)
      PROVE  Reports'
  <2>1. q \in Procs /\ q \notin Crons
    BY <1>1, LimitsAssumption DEF Procs
  <2>2. \A c \in Crons : Stays(c)
    BY <1>1, <2>1 DEF FindRules, Stays, Goes, Types, Numbers, Procs, work, history
  <2> QED BY <1>1, <2>2, StillReports DEF FindRules, sent, history
<1>2. ASSUME NEW q \in Requests, StoreRules(q)
      PROVE  Reports'
  <2>1. q \in Procs /\ q \notin Crons
    BY <1>2, LimitsAssumption DEF Procs
  <2>2. \A c \in Crons : Stays(c)
    BY <1>2, <2>1 DEF StoreRules, Stays, Goes, Types, Numbers, Procs, work, history
  <2> QED BY <1>2, <2>2, StillReports DEF StoreRules, sent, history
<1>3. ASSUME NEW q \in Requests, FindUsage(q)
      PROVE  Reports'
  <2>1. q \in Procs /\ q \notin Crons
    BY <1>3, LimitsAssumption DEF Procs
  <2>2. \A c \in Crons : Stays(c)
    BY <1>3, <2>1 DEF FindUsage, Verdict, Stays, Goes, Types, Numbers, Procs, work, history
  <2> QED BY <1>3, <2>2, StillReports DEF FindUsage, sent, history
<1>4. ASSUME NEW q \in Requests, StoreUsage(q)
      PROVE  Reports'
  <2>1. q \in Procs /\ q \notin Crons
    BY <1>4, LimitsAssumption DEF Procs
  <2>2. \A c \in Crons : Stays(c)
    BY <1>4, <2>1 DEF StoreUsage, Verdict, Stays, Goes, Types, Numbers, Procs, work, history
  <2> QED BY <1>4, <2>2, StillReports DEF StoreUsage, sent, history
<1>5. ASSUME NEW q \in Requests, Record(q)
      PROVE  Reports'
  <2>1. q \in Procs /\ q \notin Crons
    BY <1>5, LimitsAssumption DEF Procs
  <2>2. \A c \in Crons : Stays(c)
    BY <1>5, <2>1 DEF Record, Stays, Goes, Types, Numbers, Procs, work, history
  <2> QED BY <1>5, <2>2, StillReports DEF Record, sent, history
<1>6. ASSUME NEW q \in Requests, Emit(q)
      PROVE  Reports'
  <2>1. q \notin Crons
    BY LimitsAssumption
  <2>2. \A c \in Crons : Stays(c)
    BY <1>6, <2>1, EndStays DEF Emit, history
  <2> QED BY <1>6, <2>2, StillReports DEF Emit, sent, history
<1>7. ASSUME NEW q \in Requests, Ask(q)
      PROVE  Reports'
  <2>1. q \in Procs /\ q \notin Crons
    BY <1>7, LimitsAssumption DEF Procs
  <2>2. ASSUME NEW c \in Crons
        PROVE  Stays(c)
    <3>1. CASE End({q})
      BY <1>7, <2>1, <3>1, EndStays DEF Ask, history
    <3>2. CASE Goes(q, "logging") /\ UNCHANGED work
      BY <1>7, <2>1, <3>2 DEF Ask, Stays, Goes, Types, work, history
    <3> QED BY <1>7, <3>1, <3>2 DEF Ask
  <2> QED BY <1>7, <2>2, StillReports DEF Ask, sent, history
<1>8. ASSUME NEW c \in Crons, CronStart(c)
      PROVE  Reports'
  <2>1. c \in Procs /\ UNCHANGED <<hour, rule, atHour, logs, value, start>>
    BY <1>8 DEF CronStart, Procs, sent
  <2>2. \A o \in Crons \ {c} : Stays(o)
    BY <1>8 DEF CronStart, Stays, Goes, Types, Procs
  <2>3. Reported(c)'
    <3>1. CASE rule.on
      <4>1. pc'[c] = "consuming" /\ got'[c] = rule
        BY <1>8, <2>1, <3>1 DEF CronStart, Goes, Types
      <4> QED BY <2>1, <4>1 DEF Reported
    <3>2. CASE ~rule.on
      BY <2>1, <3>2 DEF Reported
    <3> QED BY <3>1, <3>2
  <2> QED BY <2>1, <2>2, <2>3, StillReportsBut
<1>9. ASSUME NEW c \in Crons, CronReads(c)
      PROVE  Reports'
  <2>1. c \in Procs /\ UNCHANGED <<hour, rule, atHour, logs, got, due, spoiled>>
    BY <1>9 DEF CronReads, Procs, sent, history
  <2>2. \A o \in Crons \ {c} : Stays(o)
    BY <1>9 DEF CronReads, Stays, Goes, Types, Numbers, Procs, history
  <2>3. Reported(c)'
    <3> DEFINE s == Start(rule.period, hour)
    <3>1. pc'[c] = "evaluating" /\ value'[c] = Consumption(Start(got[c].period, hour))
      BY <1>9, <2>1 DEF CronReads, Goes, Types, Numbers
    <3>2. Consumption(s) >= Consumed(s, atHour)
      BY StartInRun, OldUsageCounts DEF Types
    <3>3. CASE c \in due \union spoiled
      BY <2>1, <3>3 DEF Reported
    <3>4. CASE c \notin due \union spoiled
      <4>1. CASE rule.on /\ Consumed(s, atHour) >= rule.limit
        <5>1. got[c] = rule
          BY <1>9, <3>4, <4>1 DEF Reports, Reported, CronReads
        <5> QED BY <2>1, <3>1, <3>2, <5>1 DEF Reported
      <4>2. CASE ~(rule.on /\ Consumed(s, atHour) >= rule.limit)
        BY <2>1, <4>2 DEF Reported
      <4> QED BY <4>1, <4>2
    <3> QED BY <3>3, <3>4
  <2> QED BY <2>1, <2>2, <2>3, StillReportsBut
<1>10. ASSUME NEW c \in Crons, Evaluate(c)
      PROVE  Reports'
  <2> DEFINE s == Start(rule.period, hour)
             seen == logs[Start(got[c].period, hour)] = NoValue /\ value[c] >= got[c].limit
  <2>1. c \in Procs /\ UNCHANGED <<hour, rule, atHour, logs, due, spoiled>>
    BY <1>10 DEF Evaluate, Procs, sent
  <2>2. CASE ~seen /\ End({c})
    <3>1. \A o \in Crons \ {c} : Stays(o)
      BY <2>1, <2>2, EndStays
    <3>2. ASSUME c \notin due \union spoiled, rule.on, Consumed(s, atHour) >= rule.limit
          PROVE  logs[s] # NoValue
      <4>1. got[c] = rule /\ value[c] >= Consumed(s, atHour)
        BY <1>10, <3>2 DEF Evaluate, Reports, Reported
      <4>2. value[c] \in Nat /\ Consumed(s, atHour) \in Nat /\ rule.limit \in Nat
        <5>1. s \in Hours
          BY StartInRun DEF Types
        <5> QED BY <2>1, <5>1, Consuming, LimitIsNumber DEF Numbers, Types
      <4>3. value[c] >= rule.limit
        BY <3>2, <4>1, <4>2
      <4> QED BY <2>2, <4>1, <4>3
    <3>3. pc'[c] = "idle"
      BY <2>1, <2>2, LimitsAssumption DEF End, Ended
    <3>4. Reported(c)'
      BY <2>1, <3>2, <3>3 DEF Reported
    <3> QED BY <2>1, <3>1, <3>4, StillReportsBut
  <2>3. CASE /\ start' = [start EXCEPT ![c] = Start(got[c].period, hour)]
             /\ Goes(c, "logging")
             /\ UNCHANGED <<got, value>>
    <3>1. \A o \in Crons \ {c} : Stays(o)
      BY <2>1, <2>3 DEF Goes, Types, Stays, Procs
    <3>2. pc'[c] = "logging" /\ start'[c] = Start(got[c].period, hour)
      BY <2>1, <2>3 DEF Goes, Types
    <3>3. ASSUME c \notin due \union spoiled, rule.on, Consumed(s, atHour) >= rule.limit
          PROVE  got[c] = rule
      BY <1>10, <3>3 DEF Evaluate, Reports, Reported
    <3>4. Reported(c)'
      BY <2>1, <3>2, <3>3 DEF Reported
    <3> QED BY <2>1, <3>1, <3>4, StillReportsBut
  <2> QED BY <1>10, <2>2, <2>3 DEF Evaluate
<1>11. ASSUME NEW p \in Procs, WriteLog(p)
      PROVE  Reports'
  <2>1. /\ pc[p] = "logging" /\ start[p] \in Hours
        /\ UNCHANGED <<hour, rule, atHour, due, spoiled>>
    BY <1>11 DEF WriteLog, Types, history
  <2>2. CASE logs[start[p]] # NoValue /\ End({p}) /\ logs' = logs
    <3>1. \A o \in Crons \ {p} : Stays(o)
      BY <2>1, <2>2, EndStays
    <3>2. ASSUME p \in Crons
          PROVE  Reported(p)'
      <4>1. pc'[p] = "idle"
        BY <2>2, <3>2, LimitsAssumption DEF End, Ended
      <4> QED BY <2>1, <2>2, <3>2, <4>1 DEF Reports, Reported
    <3> QED BY <2>1, <2>2, <3>1, <3>2, StillReportsBut
  <2>3. CASE /\ logs[start[p]] = NoValue
             /\ logs' = [logs EXCEPT ![start[p]] = got[p].limit]
             /\ Goes(p, "mailing") /\ UNCHANGED work
    <3>1. \A o \in Crons \ {p} : Stays(o)
      BY <2>1, <2>3 DEF Goes, Types, Stays, Procs, work
    <3>2. got[p].limit # NoValue
      BY <2>1, LimitIsValue DEF Types, HasRule, Judging
    <3>3. \A s \in Hours : logs[s] # NoValue => logs'[s] # NoValue
      BY <2>1, <2>3, <3>2 DEF Types
    <3>4. ASSUME p \in Crons
          PROVE  Reported(p)'
      <4>1. pc'[p] = "mailing" /\ logs'[start[p]] # NoValue
        BY <2>1, <2>3, <3>2 DEF Goes, Types
      <4> QED BY <2>1, <3>4, <4>1 DEF Reports, Reported
    <3> QED BY <2>1, <3>1, <3>3, <3>4, StillReportsBut
  <2> QED BY <1>11, <2>2, <2>3 DEF WriteLog
<1>12. ASSUME NEW p \in Procs, Mail(p)
      PROVE  Reports'
  <2>1. pc[p] = "mailing" /\ End({p}) /\ UNCHANGED <<hour, rule, atHour, logs, due, spoiled>>
    BY <1>12 DEF Mail
  <2>2. \A o \in Crons \ {p} : Stays(o)
    BY <2>1, EndStays
  <2>3. ASSUME p \in Crons
        PROVE  Reported(p)'
    <3>1. pc'[p] = "idle"
      BY <2>1, <2>3, LimitsAssumption DEF End, Ended
    <3> QED BY <2>1, <2>3, <3>1 DEF Reports, Reported
  <2> QED BY <2>1, <2>2, <2>3, StillReportsBut
<1>13. ASSUME NEW p \in Procs, StatementFails(p)
      PROVE  Reports'
  <2>1. UNCHANGED <<hour, rule, atHour, logs>>
    BY <1>13 DEF StatementFails, sent
  <2>2. \A o \in Crons \ {p} : Stays(o)
    BY <1>13, EndStays DEF StatementFails
  <2>3. ASSUME p \in Crons
        PROVE  Reported(p)'
    BY <1>13, <2>3 DEF StatementFails, Reported
  <2> QED BY <2>1, <2>2, <2>3, StillReportsBut
<1>14. ASSUME NEW r \in Replicas, Fire(r)
      PROVE  Reports'
  <2>1. \A c \in Crons : Stays(c)
    BY <1>14 DEF Fire, Stays, work, history
  <2> QED BY <1>14, <2>1, StillReports DEF Fire, sent, history
<1>15. ASSUME NEW r \in Replicas, ExpireRules(r)
      PROVE  Reports'
  <2>1. \A c \in Crons : Stays(c)
    BY <1>15 DEF ExpireRules, Stays, work, history
  <2> QED BY <1>15, <2>1, StillReports DEF ExpireRules, sent, history
<1>16. ASSUME NEW r \in Replicas, NEW s \in Hours, ExpireUsage(r, s)
      PROVE  Reports'
  <2>1. \A c \in Crons : Stays(c)
    BY <1>16 DEF ExpireUsage, Stays, work, history
  <2> QED BY <1>16, <2>1, StillReports DEF ExpireUsage, sent, history
<1>17. ASSUME NEW r \in Replicas, Crash(r)
      PROVE  Reports'
  <2> DEFINE gone == {o \in Procs : at[o] = r /\ pc[o] # "new"}
  <2>1. /\ UNCHANGED <<hour, rule, atHour, logs, spoiled>> /\ End(gone)
        /\ due' = due \union (gone \intersect Crons)
    BY <1>17 DEF Crash, sent
  <2> HIDE DEF gone
  <2>2. \A o \in Crons \ gone : Stays(o)
    BY <2>1, EndStays
  <2>3. \A o \in gone \intersect Crons : Reported(o)'
    BY <2>1 DEF Reported
  <2> QED BY <2>1, <2>2, <2>3, SomeStay DEF Reports
<1>18. ASSUME NEW x \in Rules, Edit(x)
      PROVE  Reports'
  <2>1. spoiled' = Crons
    BY <1>18 DEF Edit
  <2> QED BY <2>1 DEF Reports, Reported
<1>19. ASSUME Invalidate
      PROVE  Reports'
  <2>1. \A c \in Crons : Stays(c)
    BY <1>19 DEF Invalidate, Stays, work, history
  <2> QED BY <1>19, <2>1, StillReports DEF Invalidate, sent, history
<1>20. ASSUME Tick
      PROVE  Reports'
  <2>1. due' = Crons
    BY <1>20 DEF Tick
  <2> QED BY <2>1 DEF Reports, Reported
<1>21. CASE UNCHANGED vars
  <2>1. \A c \in Crons : Stays(c)
    BY <1>21 DEF Stays, vars, work, history
  <2> QED BY <1>21, <2>1, StillReports DEF vars, sent, history
<1>22. ASSUME NEW q \in Requests, Call(q)
      PROVE  Reports'
  <2>1. q \in Procs /\ q \notin Crons
    BY <1>22, LimitsAssumption DEF Procs
  <2>2. \A c \in Crons : Stays(c)
    BY <1>22, <2>1 DEF Call, Stays, Goes, Types, Numbers, Procs, history
  <2> QED BY <1>22, <2>2, StillReports DEF Call, sent, history
<1>23. ASSUME EditFails
      PROVE  Reports'
  <2>1. \A c \in Crons : Stays(c)
    BY <1>23 DEF EditFails, Stays, work
  <2> QED BY <1>23, <2>1, StillReports DEF EditFails, sent
<1>24. ASSUME Second
      PROVE  Reports'
  <2>1. \A c \in Crons : Stays(c)
    BY <1>24 DEF Second, Stays, work, history
  <2> QED BY <1>24, <2>1, StillReports DEF Second, sent, history
<1> QED
  BY <1>1, <1>2, <1>3, <1>4, <1>5, <1>6, <1>7, <1>8, <1>9, <1>10,
     <1>11, <1>12, <1>13, <1>14, <1>15, <1>16, <1>17, <1>18, <1>19, <1>20,
     <1>21, <1>22, <1>23, <1>24
  DEF Next, Request, Alert, Expire

-----------------------------------------------------------------------------

(* The inductive invariant. *)
IInv ==
  /\ Types /\ Numbers /\ Marks
  /\ Mails /\ Following /\ Due /\ Fresh /\ Apart /\ Reports

LEMMA InitIInv == Init => IInv
<1> SUFFICES ASSUME Init PROVE IInv
  OBVIOUS
<1>1. LastHour \in Nat \ {0} /\ 1 \in Hours /\ Requests \intersect Crons = {}
  BY LimitsAssumption DEF Hours
<1>2. spent \in [Hours -> SUBSET Requests]
  BY DEF Init
<1>3. Numbers
  BY <1>1, <1>2 DEF Init, Numbers
<1>4. Marks
  <2>1. \A c \in Crons : pc[c] \in CronPlaces /\ at[c] = Home[c]
    BY <1>1 DEF Init, CronPlaces, Procs
  <2>2. upsets \in 0 .. MaxUpsets
    BY LimitsAssumption DEF Init
  <2> QED BY <2>1, <2>2 DEF Init, Marks
<1>5. \A p \in Procs : pc[p] \in {"new", "idle"}
  BY DEF Init
<1>6. Due
  <2>1. \A r \in Replicas, s \in Hours : usage[r][s] <= OnRecord(s)
    <3>1. ASSUME NEW r \in Replicas, NEW s \in Hours
          PROVE  usage[r][s] <= OnRecord(s)
      <4>1. OnRecord(s) \in Nat /\ usage[r][s] = NoValue
        BY <1>2, Consuming DEF OnRecord, Init
      <4> QED BY <4>1 DEF NoValue
    <3> QED BY <3>1
  <2>2. AlertDue
    BY DEF Init, AlertDue
  <2> QED BY <1>5, <2>1, <2>2 DEF Due, Sound
<1>7. Fresh
  BY <1>5 DEF Init, Fresh, UsageFollows, Procs
<1>8. Apart /\ Reports
  BY DEF Init, Apart, Reports, Reported
<1> QED BY <1>3, <1>4, <1>6, <1>7, <1>8, InitMails DEF IInv

(* The inductive invariant holds, for any instance. *)
THEOREM Inductive == Spec => []IInv
<1>1. ASSUME IInv, [Next]_vars
      PROVE  IInv'
  <2>1. Types' /\ Numbers' /\ Marks'
    BY <1>1, TypesStep, NumbersStep, MarksStep DEF IInv
  <2>2. Mails' /\ Following' /\ Fresh' /\ Apart' /\ Reports'
    BY <1>1, MailsStep, FollowingStep, FreshStep, ApartStep, ReportsStep DEF IInv
  <2>3. Grows
    <3>1. ASSUME NEW s \in Hours
          PROVE  /\ Consumed(s, spent) \in Nat /\ Consumed(s, spent') \in Nat
                 /\ Consumed(s, spent) <= Consumed(s, spent')
      BY <1>1, UsageGrows DEF IInv, OnRecord
    <3> QED BY <3>1 DEF Grows
  <2>4. Due'
    BY <1>1, <2>3, DueStep DEF IInv
  <2> QED BY <2>1, <2>2, <2>4 DEF IInv
<1> QED BY InitIInv, <1>1, PTL DEF Spec

(* However many requests, jobs and replicas find an alert due at the same  *)
(* time, at most one of them mails it. *)
THEOREM MailedOnce == Spec => []OneMail
<1>1. IInv => OneMail
  BY DEF IInv, Mails
<1> QED BY <1>1, Inductive, PTL

(* An alert on record has been mailed or is being mailed, unless its mail  *)
(* was refused or died with its process. *)
THEOREM RecordIsMailed == Spec => []MailFollowsLog
<1>1. IInv => MailFollowsLog
  BY DEF IInv, Mails
<1> QED BY <1>1, Inductive, PTL

(* A replica that judges by an outdated rule either has its entry dropped  *)
(* by the change under way, or holds one that a change on another replica, *)
(* one that failed before its invalidation or an overtaken reader left. *)
THEOREM OutdatedExplained == Spec => []RulesFollow
<1>1. IInv => RulesFollow
  BY DEF IInv, Following
<1> QED BY <1>1, Inductive, PTL

(* Every variable holds a value of its kind, whatever fails. *)
THEOREM TypeCorrect == Spec => []TypeOK
<1>1. IInv => TypeOK
  <2> SUFFICES ASSUME IInv PROVE TypeOK
    OBVIOUS
  <2>1. pc \in [Procs -> {"new", "caching_rules", "limits", "caching_usage", "served",
                          "called", "recorded", "done", "idle", "consuming", "evaluating",
                          "asking", "logging", "mailing"}]
    BY DEF IInv, Types, Places, Judging
  <2>2. \A c \in Crons : pc[c] # "done" /\ at[c] = Home[c]
    BY DEF IInv, Marks, CronPlaces
  <2> QED BY <2>1, <2>2 DEF TypeOK, IInv, Types, Numbers, Marks
<1> QED BY <1>1, Inductive, PTL

(* An alert on record means that its threshold was reached by usage since  *)
(* its period began, unless a job began to judge in another period. *)
THEOREM NoAlertBeforeItIsDue == Spec => []AlertDue
<1>1. IInv => AlertDue
  BY DEF IInv, Due
<1> QED BY <1>1, Inductive, PTL

(* When an undisturbed job is through for the hour, what had been used     *)
(* when the hour began has been reported if it reaches the threshold. *)
THEOREM JobReports == Spec => []UsageIsReported
<1>1. IInv => UsageIsReported
  BY DEF IInv, Reports, Reported, UsageIsReported
<1> QED BY <1>1, Inductive, PTL

(* A replica that judges by a consumption that is not the present one is   *)
(* about to drop it, or holds what another replica's usage, an overtaken   *)
(* reader or one that left out the second it read in has left. *)
THEOREM OutdatedUsageExplained == Spec => []UsageFollows
<1>1. IInv => UsageFollows
  BY DEF IInv, Fresh
<1> QED BY <1>1, Inductive, PTL
=============================================================================
