--------------------------- MODULE UpstreamGuards ---------------------------
(***************************************************************************)
(* What one backend process remembers to spare services that are in        *)
(* trouble, and the caller's consent: the cooldown of a route that         *)
(* answered 429 (ProxyFallbackService), the circuit breaker before the     *)
(* healing service and the cached Auto-fix flag of an agent                *)
(* (AutofixService).  Calls to a route cross them concurrently; time is    *)
(* what is left until an entry expires.                                    *)
(***************************************************************************)
EXTENDS Integers, FiniteSets, FiniteSetsExt

CONSTANTS
  Calls,          (* forwards of requests of the agent; each is used again  *)
  Routes,         (* cooldown keys: agent, provider, credential and model   *)
  Hints,          (* Retry-After of a 429; 0 when there is no usable one    *)
  Default, Cap,   (* cooldown without a usable hint, and the longest one    *)
  MaxCooldowns,   (* entries the cooldown map may have                      *)
  Threshold,      (* failed heal calls in a row that open the breaker       *)
  BreakerTime,    (* how long it then stays open                            *)
  CacheTime       (* lifetime of the cached flag                            *)

NoRoute == "none"

ASSUME GuardsAssumption ==
  /\ IsFiniteSet(Routes) /\ NoRoute \notin Routes
  /\ Hints \subseteq Nat
  /\ {Default, Cap, MaxCooldowns, Threshold, BreakerTime, CacheTime} \subseteq Nat \ {0}
  /\ Default <= Cap

Absent  == -1
NoFlag  == [on |-> FALSE, left |-> Absent]

VARIABLES
  cool,      (* rateLimitCooldowns: time left; 0 expired, still in the map   *)
  streak,    (* healFailureStreak                                            *)
  breaker,   (* time until breakerOpenUntil                                  *)
  flag,      (* agents.autofix_enabled, resolved                             *)
  config,    (* configCache entry of the agent                               *)
  toggling,  (* the flag is written, this process has not dropped its entry  *)
  pc,        (* where a call is                                              *)
  route,     (* the route it calls                                           *)
  read,      (* the flag it read                                             *)
  age,       (* time since it read the flag, up to CacheTime                 *)
  told,      (* history: time left of the longest 429 the route answered     *)
  lapsed,    (* history: routes whose cooldown may be shorter than told      *)
  offFor,    (* history: time since the flag was on, up to CacheTime         *)
  agreed     (* history: calls that asked when the flag had been on within   *)
             (* CacheTime                                                    *)

heal    == <<streak, breaker>>
consent == <<flag, config, toggling, offFor>>
cooling == <<cool, told, lapsed>>
work    == <<route, read, age, agreed>>
vars    == <<cooling, heal, consent, pc, work>>

Init ==
  /\ cool = [k \in Routes |-> Absent]
  /\ streak = 0 /\ breaker = 0
  /\ flag \in BOOLEAN /\ config = NoFlag /\ toggling = FALSE
  /\ pc = [c \in Calls |-> "idle"]
  /\ route = [c \in Calls |-> NoRoute]
  /\ read = [c \in Calls |-> FALSE] /\ age = [c \in Calls |-> 0]
  /\ told = [k \in Routes |-> 0] /\ lapsed = {}
  /\ offFor = (IF flag THEN 0 ELSE CacheTime)
  /\ agreed = {}

Goes(c, to) == pc' = [pc EXCEPT ![c] = to]

(* The caller has its answer, or goes on with a fallback, another call.    *)
Ends(cs) ==
  /\ pc' = [c \in Calls |-> IF c \in cs THEN "idle" ELSE pc[c]]
  /\ route' = [c \in Calls |-> IF c \in cs THEN NoRoute ELSE route[c]]
  /\ read' = [c \in Calls |-> IF c \in cs THEN FALSE ELSE read[c]]
  /\ age' = [c \in Calls |-> IF c \in cs THEN 0 ELSE age[c]]
  /\ agreed' = agreed \ cs

-----------------------------------------------------------------------------
(* The cooldown of a route.                                                *)

InMap  == {k \in Routes : cool[k] # Absent}
Active == {k \in Routes : cool[k] > 0}

(* parseRetryAfterMs *)
Pause(hint) == IF hint > 0 THEN Min({hint, Cap}) ELSE Default

(* Mutant: nothing makes room in a full map.                               *)
EvictedNothing == {{}}

(* When the map is full the expired entries go; when it still is, the one  *)
(* that expires first, even if the route at hand has an entry.             *)
Evicted ==
  IF Cardinality(InMap) < MaxCooldowns THEN {{}}
  ELSE IF Cardinality(Active) < MaxCooldowns THEN {InMap \ Active}
  ELSE {{k} : k \in {j \in Active : \A i \in Active : cool[j] <= cool[i]}}

(* recordRateLimitCooldown: the last answer counts.  History: it cuts a    *)
(* longer pause short, as does a full map of active entries.               *)
Record(k, hint) ==
  \E out \in Evicted :
    /\ cool' = [j \in Routes |-> IF j = k THEN Pause(hint)
                                 ELSE IF j \in out THEN Absent ELSE cool[j]]
    /\ told' = [told EXCEPT ![k] = Max({@, Pause(hint)})]
    /\ lapsed' = (lapsed \ {k})
         \union (IF told[k] > Pause(hint) THEN {k} ELSE {})
         \union (IF Cardinality(Active) = MaxCooldowns
                   THEN {j \in Active \ {k} : \A i \in Active : told[j] <= told[i]
                                                \/ i \in lapsed}
                   ELSE {})

(* Mutant: the process takes its own 429 for the provider's.               *)
TryAndRecord(c, k) ==
  /\ pc[c] = "idle"
  /\ \/ /\ cool[k] <= 0
        /\ cool' = [cool EXCEPT ![k] = Absent]
        /\ route' = [route EXCEPT ![c] = k]
        /\ Goes(c, "calling")
     \/ /\ cool[k] > 0
        /\ cool' = [cool EXCEPT ![k] = Pause(cool[k] + 1)]
        /\ UNCHANGED <<route, pc>>
  /\ UNCHANGED <<told, lapsed, heal, consent, read, age, agreed>>

(* tryForwardToProvider: a cooling route is answered for, with a 429 that  *)
(* is nobody's, and the call is over.                                      *)
Try(c, k) ==
  /\ pc[c] = "idle"
  /\ cool[k] <= 0
  /\ cool' = [cool EXCEPT ![k] = Absent]
  /\ route' = [route EXCEPT ![c] = k]
  /\ Goes(c, "calling")
  /\ UNCHANGED <<told, lapsed, heal, consent, read, age, agreed>>

(* 429, of the call or of its repetition with a refreshed credential.      *)
Limited(c, hint) ==
  /\ pc[c] \in {"calling", "recalling"}
  /\ Record(route[c], hint)
  /\ Ends({c})
  /\ UNCHANGED <<heal, consent>>

(* 401 of a subscription: retried at once, whatever the cooldowns say.     *)
Rejected(c) ==
  /\ pc[c] = "calling"
  /\ Goes(c, "recalling")
  /\ UNCHANGED <<cooling, heal, consent, work>>

(* A good answer, or a failure Auto-fix has no part in.  Neither ends a    *)
(* cooldown.                                                               *)
Answered(c) ==
  /\ pc[c] \in {"calling", "recalling"}
  /\ Ends({c})
  /\ UNCHANGED <<cooling, heal, consent>>

-----------------------------------------------------------------------------
(* maybeHeal: the gates.                                                   *)

(* A repairable status of a primary route.                                 *)
Repairable(c) ==
  /\ pc[c] \in {"calling", "recalling"}
  /\ Goes(c, "failed")
  /\ UNCHANGED <<cooling, heal, consent, work>>

(* Mutant: the streak, which an opening resets, is what is checked.        *)
CheckStreak(c) ==
  /\ pc[c] = "failed"
  /\ streak < Threshold
  /\ Goes(c, "asking")
  /\ UNCHANGED <<cooling, heal, consent, work>>

CheckBreaker(c) ==
  /\ pc[c] = "failed"
  /\ breaker = 0
  /\ Goes(c, "asking")
  /\ UNCHANGED <<cooling, heal, consent, work>>

(* The breaker is open, or the tenant has no access, or a gate cannot be   *)
(* loaded.                                                                 *)
Skip(c) ==
  /\ \/ pc[c] = "failed" /\ breaker > 0
     \/ pc[c] \in {"asking", "storing"}
  /\ Ends({c})
  /\ UNCHANGED <<cooling, heal, consent>>

Fresh == config.left > 0

(* loadAgentConfig: the entry, or what the table says.                     *)
AskConfig(c) ==
  /\ pc[c] = "asking"
  /\ agreed' = IF offFor < CacheTime THEN agreed \union {c} ELSE agreed
  /\ \/ Fresh /\ config.on /\ Goes(c, "sending") /\ UNCHANGED read
     \/ ~Fresh /\ read' = [read EXCEPT ![c] = flag] /\ Goes(c, "storing")
  /\ UNCHANGED <<cooling, heal, consent, route, age>>

(* ... and it is off.                                                      *)
CachedOff(c) ==
  /\ pc[c] = "asking"
  /\ Fresh /\ ~config.on
  /\ Ends({c})
  /\ UNCHANGED <<cooling, heal, consent>>

(* Mutant: the lifetime of the entry counts from its storing.              *)
StoreAnew(c) ==
  /\ pc[c] = "storing"
  /\ config' = [on |-> read[c], left |-> CacheTime]
  /\ IF read[c] THEN Goes(c, "sending") /\ UNCHANGED work ELSE Ends({c})
  /\ UNCHANGED <<cooling, heal, flag, toggling, offFor>>

(* The lifetime of the entry counts from before the read.                  *)
StoreConfig(c) ==
  /\ pc[c] = "storing"
  /\ config' = [on |-> read[c], left |-> CacheTime - age[c]]
  /\ IF read[c] THEN Goes(c, "sending") /\ UNCHANGED work ELSE Ends({c})
  /\ UNCHANGED <<cooling, heal, flag, toggling, offFor>>

-----------------------------------------------------------------------------
(* runHealOnce.                                                            *)

(* The error has been read; the request goes to the healing service.       *)
SendHeal(c) ==
  /\ pc[c] = "sending"
  /\ Goes(c, "healing")
  /\ UNCHANGED <<cooling, heal, consent, work>>

(* recordHealFailure: the service is not reached, or not in time.          *)
HealFails(c) ==
  /\ pc[c] = "healing"
  /\ IF streak + 1 >= Threshold
       THEN breaker' = BreakerTime /\ streak' = 0
       ELSE streak' = streak + 1 /\ UNCHANGED breaker
  /\ Ends({c})
  /\ UNCHANGED <<cooling, consent>>

(* It refuses the request: nobody's outage.                                *)
HealRefused(c) ==
  /\ pc[c] = "healing"
  /\ Ends({c})
  /\ UNCHANGED <<cooling, heal, consent>>

(* It answers, with a patch or without.  An open breaker stays open.       *)
HealAnswers(c) ==
  /\ pc[c] = "healing"
  /\ streak' = 0
  /\ \/ Goes(c, "retrying") /\ UNCHANGED work
     \/ Ends({c})
  /\ UNCHANGED <<cooling, breaker, consent>>

(* retryWireBody: the patched request went to the route whatever the       *)
(* cooldowns say, and no cooldown is recorded if the answer is 429.        *)
RetryAnswered(c) ==
  /\ pc[c] = "retrying"
  /\ \/ UNCHANGED <<told, lapsed>>
     \/ \E hint \in Hints :
          /\ told' = [told EXCEPT ![route[c]] = Max({@, Pause(hint)})]
          /\ lapsed' = IF Pause(hint) > cool[route[c]] THEN lapsed \union {route[c]}
                                                       ELSE lapsed
  /\ Ends({c})
  /\ UNCHANGED <<cool, heal, consent>>

-----------------------------------------------------------------------------
(* The flag.                                                               *)

(* updateAutofix writes the row, on this process or on another.            *)
Toggle(x) ==
  /\ ~toggling /\ flag # x
  /\ flag' = x
  /\ toggling' \in BOOLEAN
  /\ offFor' = 0
  /\ UNCHANGED <<cooling, heal, config, pc, work>>

(* This one drops its entry, or the cache was full and is cleared.         *)
InvalidateConfig ==
  /\ toggling \/ config.left # Absent
  /\ config' = NoFlag
  /\ toggling' = FALSE
  /\ UNCHANGED <<cooling, heal, flag, offFor, pc, work>>

-----------------------------------------------------------------------------

Less(n) == IF n > 0 THEN n - 1 ELSE n

Tick ==
  /\ cool' = [k \in Routes |-> Less(cool[k])]
  /\ told' = [k \in Routes |-> Less(told[k])]
  /\ lapsed' = {k \in lapsed : told[k] > 1}
  /\ breaker' = Less(breaker)
  /\ config' = [config EXCEPT !.left = Less(@)]
  /\ age' = [c \in Calls |-> IF pc[c] = "storing" THEN Min({age[c] + 1, CacheTime})
                                                  ELSE age[c]]
  /\ offFor' = IF flag THEN 0 ELSE Min({offFor + 1, CacheTime})
  /\ UNCHANGED <<streak, flag, toggling, pc, route, read, agreed>>

(* Everything above lives in memory.                                       *)
Restart ==
  /\ cool' = [k \in Routes |-> Absent]
  /\ lapsed' = {k \in Routes : told[k] > 0}
  /\ streak' = 0 /\ breaker' = 0
  /\ config' = NoFlag /\ toggling' = FALSE
  /\ Ends(Calls)
  /\ UNCHANGED <<told, flag, offFor>>

Call(c) ==
  \/ \E k \in Routes : Try(c, k)
  \/ \E hint \in Hints : Limited(c, hint)
  \/ Rejected(c) \/ Answered(c) \/ Repairable(c)
  \/ CheckBreaker(c) \/ Skip(c) \/ AskConfig(c) \/ CachedOff(c) \/ StoreConfig(c)
  \/ SendHeal(c) \/ HealFails(c) \/ HealRefused(c) \/ HealAnswers(c)
  \/ RetryAnswered(c)

Next ==
  \/ \E c \in Calls : Call(c)
  \/ \E x \in BOOLEAN : Toggle(x)
  \/ InvalidateConfig \/ Tick \/ Restart

Spec == Init /\ [][Next]_vars

-----------------------------------------------------------------------------
(* Properties.                                                             *)

(* Every variable holds a value of its kind, and the map of cooldowns      *)
(* stays within its bound.                                                 *)
TypeOK ==
  /\ cool \in [Routes -> {Absent} \union 0 .. Cap]
  /\ Cardinality(InMap) <= MaxCooldowns
  /\ streak \in 0 .. Threshold - 1 /\ breaker \in 0 .. BreakerTime
  /\ flag \in BOOLEAN /\ toggling \in BOOLEAN
  /\ config \in [on : BOOLEAN, left : {Absent} \union 0 .. CacheTime]
  /\ pc \in [Calls -> {"idle", "calling", "recalling", "failed", "asking",
                       "storing", "sending", "healing", "retrying"}]
  /\ route \in [Calls -> {NoRoute} \union Routes]
  /\ read \in [Calls -> BOOLEAN] /\ age \in [Calls -> 0 .. CacheTime]
  /\ told \in [Routes -> 0 .. Cap] /\ lapsed \subseteq Routes
  /\ offFor \in 0 .. CacheTime
  /\ agreed \subseteq Calls

(* A route rests for as long as its provider asked, up to the cap, and not *)
(* a moment longer: a 429 the process makes up itself never prolongs the   *)
(* pause.  It is cut short by a later answer with a shorter pause, a full  *)
(* map of active cooldowns, a patched request (whose 429 is not recorded)  *)
(* or a restart, and by nothing else.                                      *)
RestAsTold ==
  \A k \in Routes :
    LET left == Max({cool[k], 0}) IN
      left = told[k] \/ (k \in lapsed /\ left < told[k])

PastBreaker == {c \in Calls : pc[c] \in {"asking", "storing", "sending", "healing"}}

(* An open breaker spares the healing service every call but those that    *)
(* had passed it, on their way through the gates, when it opened: each     *)
(* time these open it anew they get fewer.                                 *)
BreakerSpares ==
  [][breaker > 0 /\ breaker' > 0 => PastBreaker' \subseteq PastBreaker]_vars

(* The prompt of a caller goes to the healing service only if the agent's  *)
(* flag was on at some time within the lifetime of a cache entry before    *)
(* the flag was asked for, however slow the reads and whichever process    *)
(* turned it off.                                                          *)
ConsentIsRecent ==
  \A c \in Calls : pc[c] \in {"sending", "healing", "retrying"} => c \in agreed
=============================================================================
