# Formal models of the Tuple backend

TLA+ models, TLC runs and TLAPS proofs for the stateful core of this
repository: the proxy and the routing services of `packages/backend`. Paths
below are relative to `packages/backend/src` unless they start with
`packages/` or `docs/`.

The backend is a NestJS service that several replicas run over one PostgreSQL
database. A caller sends an OpenAI-compatible request with an agent's key; the
backend admits it, resolves a route, unwraps the tenant's credential for the
provider, calls the provider, falls back to other routes, streams the answer
back, and records what happened. There are no locks in the process: JavaScript
runs one callback at a time, and everything between two `await`s is atomic.
Everything else interleaves, on one replica and across replicas, and this is
where the models look.

## 1. Inventory

| component | state | operations | what is hard |
| --- | --- | --- | --- |
| OAuth credential refresh (`routing/oauth/core/oauth-refresh-coordinator.ts`, `redirect-pkce-oauth.base.ts`, `routing-core/provider.service.ts`) | `inFlight` promises per replica; the encrypted blob in `tenant_providers`; the row lock | unwrap, coordinated refresh, persist with retry, retry after a 401, reconnect, remove | the refresh token is single-use: a lost successor disables the account; several replicas, idle timeouts, failed commits, crashes, stale caches |
| Provider connections and agent access (`routing-core/provider.service.ts`, `analytics/controllers/agents.controller.ts`, `routing/agent-enabled-providers.controller.ts`) | `tenant_providers`, `agent_enabled_providers`, agents; labels and priorities of keys | connect, reconnect, disconnect, switch per agent, create an agent, rotate a key, discover models; rename, reorder, remove a key | multi-statement calls without a transaction; decisions from a row read earlier; entities saved whole |
| Routing cache (`routing-core/routing-cache.service.ts`) | per replica: provider list, key chains, tiers, ... with a time to live | fill, invalidate agent, invalidate tenant, expire | fills overtaken by invalidations; replicas do not hear of each other |
| Proxy admission (`routing/proxy/proxy-rate-limiter.ts`, `proxy.controller.ts`) | rate windows per tenant and address, concurrency counts | check, touch, evict, acquire, release | refused requests that already counted; slots on error paths; a full map |
| Request ledger (`routing/proxy/proxy-message-recorder.ts`, `proxy-response-handler.ts`) | `requests`, `agent_messages` | pending insert, completion, superseding, cancellation | calls that are not awaited, failing inserts, abandoned chains, computed attempt numbers |
| Fallback chain and cooldown (`routing/proxy/proxy-fallback.service.ts`) | rate-limit cooldowns per route | try the routes in order, skip those that cool down | order of answers, a full map |
| Auto-fix (`routing/autofix/autofix.service.ts`) | circuit breaker, cached flag of an agent | heal a rejected call and retry | a heal abandoned half way; a breaker that calls in flight open again; consent read before an await and used after it |
| OAuth login flows (`routing/oauth/core/oauth-pending-flow.store.ts`, `pending-store.ts`, device-code services) | pending flows in memory or in `oauth_pending_flows` | start, callback, paste, poll, store the key, revoke | two logins at once, a flow consumed twice, a code without its state, a revocation refused half way |
| Plan and request usage (`billing/plan.service.ts`, `request-quota-window.ts`, migration `AddTenantRequestUsage`) | `tenant_request_usage`, kept by a trigger, and its baseline | count, initialize a window, refuse | the baseline is counted while the trigger adds to it, by several replicas |
| Spending limits and alerts (`notifications/services/*`) | rules, cached rules and consumption, alert log | check a limit, hourly job, send an alert, change a rule | duplicate and lost alerts, stale consumption, an hour that passes between two reads |
| Route resolution (`routing/resolve/`, `routing-core/tier.service.ts`), scoring (`scoring/`) | stored tiers and overrides | edit a tier, choose route, key and fallbacks | routes that outlive their key; much data, little control |
| Provider client and adapters, stream writing (`routing/proxy/*`) | none shared | translate, stream | wire formats |
| Custom and managed providers, model discovery, prices, free models | rows and whole-table caches | create, update, sync | discovery saves a whole entity it loaded long before |
| Ingest event bus (`common/services/ingest-event-bus.service.ts`) | debounce timers | emit, fire | an event that is put off again and again |
| Analytics, playground, authentication, setup, telemetry, migrations, dashboard, shared types | — | — | thin over the database, or pure |

How they interact: a request goes admission → ledger (pending row) → resolution
→ routing cache (keys) → OAuth refresh → provider call → fallback chain →
ledger (outcome) → event bus. Management calls change `tenant_providers` and
`agent_enabled_providers` and invalidate the routing cache; the refresh writes
the same `tenant_providers` row; model discovery saves it as a whole.

What makes each correct, in a sentence:

- *Refresh*: a rotated refresh token is never lost except by a failure one can
  name, never presented twice, and no request uses a token that is not stored.
- *Access*: every agent has access to an active provider unless a user took it away.
- *Cache*: a cached key differs from the database only for a reason that ends.
- *Admission*: the count of a tenant is the number of its requests in flight;
  a window lets a bounded number through.
- *Ledger*: what the rows say is what the caller saw, and stays so; every
  attempt gets an outcome.
- *Cooldown, breaker, consent*: a route rests as long as its provider asked; an
  open breaker lets nobody new through; nothing is sent for healing on old consent.
- *Usage*: every request is counted once, in one month, baseline or trigger.
- *Limits and alerts*: one mail per rule and period, only when due; a replica
  judges by what is on record but for caches that are about to go.
- *Logins*: a reported sign-in keeps its key; a flow is redeemed once; what is
  handed back to the provider is what leaves service.
- *Keys*: no route that had a key is left without one; a pinned route is served
  with the key that had the name when it was checked; the first key stays first.

`PROJECT.json` lists every component with its status and every hazard with its line.

## 2. Plan

| order | module | of | status |
| --- | --- | --- | --- |
| 1 | `OAuthRefresh` | credential refresh; refines the abstract `CredentialLifecycle` | checked, proved |
| 2 | `OAuthStaleSave` | composes `OAuthRefresh` with whole-entity saves of its row | checked (a violation) |
| 3 | `ProviderAccess` | connections, agent access, routing cache on several replicas | checked, safety proved |
| 4 | `ProxyAdmission` | admission | checked, proved |
| 5 | `RequestLedger` | ledger, with chain, OAuth retry and Auto-fix as they matter to it | checked, safety proved |
| 6 | `RequestUsage` | trigger counter and baseline | checked, proved |
| 7 | `LimitAlerts` | rules, caches, event bus, one alert per rule and period | checked, proved |
| 8 | `UpstreamGuards` | cooldowns, breaker, cached consent | checked, proved |
| 9 | `ProviderKeys` | labels, priorities, and the tier that uses them | checked, proved |
| 10 | `OAuthLogin` | login flows and revocation | checked, proved |

Left: the access list of agents in `ProviderKeys`; several rules in
`LimitAlerts`; more of routing, model discovery and billing.

## 3. The models

### OAuthRefresh, CredentialLifecycle

One stored subscription credential whose refresh token rotates, and the proxy
requests of several replicas that use it. A token pair is a *generation*, a
natural number that grows with every mint.

| code | model |
| --- | --- |
| `inFlight` map of the coordinator | `inFlight`, one entry per replica |
| `refreshOnce`, `persistWithRetry` | `pc`, `cur`, `new`, `tries` of the owner; `AcquireLock`, `Rotate`, `ReceiveTokens`, `PersistOk`, `PersistFails`, `Commit` |
| `withSubscriptionCredentialLock` | `tx`, `stored`; the row lock is the one request with `tx = "locked"`; `LockTimeout`, `IdleTimeout` ("cut"), `CommitFails` |
| `unwrapToken` | `UseBlob`, `RefreshBlob`; joining or owning a flight is `Coordinate` |
| the forward, the 401 and its retry | `Accepted`, `RetryRejected`, `RejectedAgain` |
| the OAuth provider (external) | `live`, `rejected`, `minted`; `RevokeAccess` |
| the clock | `expired`, which only grows (`Expire`) |
| a user who reconnects or removes | `Reconnect`, `Disconnect`: both wait for the row lock |
| a process that dies | `Crash`: its requests and its `inFlight` entry are gone, its transactions roll back |

`seen` stands for the blobs that caches may still hand out; `lost` is a history
variable: the generations whose successor a failure lost. The model assumes a
provider that rotates on every refresh (the code also accepts one that returns
no new refresh token and keeps the old one, the harmless case). Rows that
cannot be decrypted, several keys under labels and the model-list cache are
left out.

`CredentialLifecycle` is what the machinery promises: a credential is usable,
rotating, broken or absent; a stored successor is newer than what it replaces.
`ImplementsLifecycle` is the refinement: `status` is computed from `live`,
`lost`, `stored` and the requests that carry a successor.

### OAuthStaleSave

`OAuthRefresh` and the code that loads the row as an entity, works, and saves
the entity (`discoverModels`, `renameKey`, `reorderKeys`): TypeORM's `save`
re-reads the row and updates every column that differs from the *entity*, so an
older blob goes back into the row. `Compare` and `WriteEntity` are its two
halves; the write waits for the row lock.

### ProviderAccess

One provider row of a tenant, the access rows of its agents, and on every
replica two cache entries: the provider list and the key chain of an agent. A
management call is a writer that goes through its awaited statements (`wpc`) on
its replica (`Home`); a cache fill is a reader (`rpc`) with the await between
its reads and its store. Each call invalidates the caches of its own replica
only; `Written` notes what that leaves outdated on the others. Any statement
may fail (`Fail`, `FailCreate`). The row as it was read is `was`: the code
decides from it whether access is fanned out. Key versions stand for
`api_key_encrypted`; `newest` is the last one written. A connect ends with the
discovery of models, which `Refresh` starts on request: after its calls to the
provider it saves the whole row as it was read (`Discover`; `copy` is the key it
holds), active, and drops the model list of the agents but no key chain. A
discovery that finds nothing or fails is a `Fail`. A refresh of several
connections is one call for each. The connection may be in any state at the start. The other
cache entries are filled and dropped in the same way and left out. `off`,
`blind`, `clash`, `broken`, `uncleared`, `late` and `over` are history: they
name the exceptions the properties allow.

### ProxyAdmission

The three limits in front of the proxy as one handler meets them. `rates` and
`ipRates` are JavaScript's insertion-ordered maps, here functions whose entries
name the keys inserted before them (`before`): a touch makes an entry the
youngest, an overflow drops the one nothing was inserted before. The three checks run without
an `await` between them, so each outcome is one action; a refusal by a later
check keeps what the earlier ones counted, as in the code. The gate before
them (the plan's limit) awaits and may refuse. The cleanup timer may fire at any time.

### RequestLedger

One request: its row (`request`), the rows of its provider calls (`row`), rows
that belong to no call (`strays`), the handler (`pc`, `leg`, `hop`, `started`,
`primary`, `original`, `losers`) and the recorder calls under way (`writers`,
`pendingWrite`). A recorder call first writes the request (`PersistRequest`),
then, in any order, its attempts (`PersistAttempt`), each of which waits for the
attempt's pending insert (`WritePending`) as `persistAttempt` does. The
handler does not wait for recorder calls. Its legs are the primary, an Auto-fix
retry, the rescue of an unavailable model, and the fallbacks, each with an OAuth
retry. `superseded` stands for `failed` with the superseded flag; other row
contents, the deduplication of 429 rows without an attempt, and throws while
response headers are set are left out. `excused` is history: attempts whose
outcome was given up, and why is in the actions that add to it.

A failed statement is one of two kinds: the pending insert of an attempt, which
the code logs and forgets, or a terminal write.

### RequestUsage

The monthly count of one tenant: what `PlanService.countRequestsSince` and the
gate read, the trigger of migration `AddTenantRequestUsage` and the baseline
that a replica counts when it first needs a window.

| code | model |
| --- | --- |
| `tenant_request_usage` | `usage`: is there a row, `request_count`, `baseline_counted` |
| the trigger on `agent_messages` | `Trigger`, part of `StoreAttempt` and `LinkLegacy`; `counted` is the flag `quota_counted` |
| the cutover (the lock makes it one step) | `Cutover`; `before` says on which side the timestamp of an attempt is |
| `countRequestsSince`, the in-flight map of initializations | `ReadCount`, `AskBaseline`, `CountBaseline`, `MergeBaseline`, `InitFails`; `init` per replica and window |
| rows of older versions, linked later by a backfill | `AcceptLegacy`, `StoreLegacy`, `LinkLegacy` |

The model has the month of the cutover and the next one. `live`, `baseline` and
`late` are history: which requests each count stands for, and which have a row
older than the cutover that was stored after it. Requests of older versions pass
a gate of their own and count as admitted.

### LimitAlerts

One rule of action `both`, the requests it judges, the hourly job of each
replica, and the event bus between recording and the caches. A request reads the
rule, then the consumption, each from the cache of its replica or from the
database with an await before it is stored; a refused one becomes a notifier
(`Ask`, `WriteLog`, `Mail`). `Call` is the start of the provider call, whose time
the row bears; `Record` and `Emit` are the row with the usage and the debounced
event; `Fire` is its delivery, which drops the consumption. The period ends with
the last full second (`period.util.ts:40-41`), so a consumption (`Consumption`)
misses the requests that began in the current one (`fresh`); `Second` ends it. A job goes
`CronStart`, `CronReads`, `Evaluate`; the period is computed from the clock again
at each of the last two, as in the code. `Edit` and `Invalidate` are a change of
the rule; between the two the service reads the row again, and if that fails the
caches stay (`EditFails`). Statements fail, mails are refused, processes die (`Crash`) and hours
pass (`Tick`) anywhere. A request counts as one unit of whatever the rule's metric is.

### UpstreamGuards

What one process remembers: `cool` (the cooldown map; 0 is an expired entry
still in it), `streak` and `breaker` (the circuit breaker of the healing
service), `config` (the cached flag). Time is what is left until an entry
expires; `Tick` lets it pass. `Record` is `recordRateLimitCooldown` with its
eviction, `Try` the check before a call; `CheckBreaker`, `AskConfig`,
`StoreConfig`, `SendHeal`, `HealFails`, `HealAnswers`, `RetryAnswered` are the
steps of `maybeHeal` and `runHealOnce` between their awaits. `Toggle` and
`InvalidateConfig` switch the flag on this process or another. `told`,
`lapsed`, `offFor` and `agreed` are history. Left out: the early-access gate of
a tenant (which only refuses), outcome reports, the evidence reporter, calls
without a cooldown key.

### ProviderKeys

The rows of one provider connection (`rows`: label, priority, active) and one
tier (`tier`: primary and fallbacks) that uses them. A dashboard request holds
entities it has read (`seen`, `draft`); `Repository.save` writes every column of
them and inserts those that have gone (`SaveKeys`). A connect saves its key once
more with the models discovered, active as it was (`AfterSave`), and so does a
`Refresh`. Renaming is the save and then,
tier by tier, `RelabelRead` and `RelabelSave`; removing is `CheckRoutes`,
`Delete`, `Renumber`, and removing the last key is a disconnect that reads the
keys again (`Reread`). The routes a client sends may pin any label (`RoutesTo`):
it may come from a page that was loaded before a rename or a removal, and the
code checks no label; for a primary route it does not check either that the
connection exists (`SetOverride`), for fallbacks it does (`CheckFallbacks`). A
route carries the label it pins and, as history, the key that had that name when
the edit was checked: `None` if it pins none, `Nobody` if no key had the name or
there was no key. `raced` names each overlap that was followed by a write, and
renames cut half way. A refresh of several keys is one call for each. Left out: access rows (`ProviderAccess`), response modes,
header and specificity tiers (edited by the same code shape), creation of missing
tier rows, the model list as a cache; the re-read and the update inside one
`save` are one step.

### OAuthLogin

Sign-ins to one provider of any of three kinds: a redirect with flows in memory,
a pasted code with flows in a table, a polled device code. `flows` are the pending
ones in their order, `grant` is a login at the provider, `sent` how often a flow's
verifier went out with a code (a device flow is asked for repeatedly, with the
verifier or without, and is not counted). Completing goes `Callback` (or
`PasteBare` and `Consume`, or `Poll` and `Answer`), `Exchange`, then `ChooseLabel`,
`LookUp`, `StoreKey`, `Discover` and `Reply`, an await between any two. `Discover`
saves the whole key as it was stored; `Refresh` is the same for a key that is
read from the table. Revoking goes `Revoke`, `HandBack` for each key,
`FindDoomed`, which leaves the last active key to `FindActive`, a second read, and
then `DeleteKeys` or `DeactivateKeys`. `Abandon` stops a call
anywhere, `Forget` lets a flow expire or be asked for on another process. Left
out: Copilot (which keeps no flow), the local callback server, the onboarding
call of Gemini, and the cache the key list of a revocation may come from.

## 4. The runs

| run | instance | shows |
| --- | --- | --- |
| `oauth_refresh` | 3 requests on 2 replicas, `MaxGen` 2, one revocation, 2 persist tries; 771,594 states | type, single flight, the stored token stays usable or its loss has a name, dead tokens are presented only for two named reasons, forwarded tokens are durable, refinement of `CredentialLifecycle` |
| `oauth_refresh_live` | the same, `MaxGen` 1, 2 revocations, fairness; 159,564 states | every request is answered; no rotation stays pending |
| `oauth_refresh_rejected` (violation) | as `oauth_refresh` | a refused, unexpired token is never refreshed |
| `oauth_stale_brick` (violation) | 2 requests, 1 saver | a stale save makes the next refresh present a dead token |
| `provider_access` | 2 replicas, a management call on each, 2 calls in all, one cache fill, 2 agents (one exists), `MaxKey` 2, fairness; 418,630 states | agents keep access to an active provider (`OnByDefault`); cached key chains are right but for named exceptions (`StaleChainExplained`); in the end all are right (`CachesConverge`) |
| `proxy_admission` | 2 handlers, 3 tenants, 2 map entries, window 2, time 4; 321,049 states | `WindowBudget`, exact slots |
| `request_ledger` | 4 attempts, 2 fallbacks, 1 failing statement, OAuth, leaving caller, crash, fairness; 1,553,156 states | the request row tells the truth, rows are final, orphans are explained, a success ends on the attempt that succeeded, the request gets its outcome |
| `request_usage` | 3 requests, one of which may fall back, 2 replicas, limit 2, two months; 1,084,217 states | the stored number is that of the requests counted (`BaselineAddedOnce`), each once (`CountedOnce`), none missed (`NoneMissed`), refusals are due (`RefusedAtLimit`) |
| `limit_alerts` | 2 requests on any of 2 replicas, one job, 2 hours, days of 2 hours, a rule that is hourly and may become daily, one upset; 2,091,461 states | `OneMail`, `MailFollowsLog`, `AlertDue`, `UsageIsReported`; what the caches may miss (`UsageFollows`, `RulesFollow`) |
| `upstream_guards` | 2 calls, 2 routes, a map of one entry, pauses of 0 (none given) and 3, default 1, cap 2, threshold 2; 1,148,061 states | `RestAsTold`, `ConsentIsRecent`, `BreakerSpares` |
| `provider_keys` | 2 dashboard requests at a time, 3 in all, 3 rows (the second or the first two there at the start), 3 labels, 2 keys allowed; 1,194,983 states | routes that had a key keep one (`OrphansExplained`), `PinnedKeyServes`, `FirstKept` |
| `oauth_login` | 3 sign-ins, 2 calls at a time, 2 keys allowed, 2 revocations or refreshes of models; 2,583,785 states | `KeptSignIn`, `RedeemedOnce`, `RevokedNotServed`, `RemovedIsRevoked` |

Every property of a passing run has a mutant: a definition changed the way a
slip in the code would change it, kept beside the original and marked as a
mutant. Under it TLC finds the property violated.

A type invariant that is no property of a run is still stated in its module:
`TypeCorrect` proves those of `ProviderAccess` and `RequestUsage`,
`AdmissionTypeCorrect` that of `ProxyAdmission`, and the invariants of the other
proofs contain the types they need.

*Why the bounds are enough.* Refresh: two requests on one replica meet in the
`inFlight` map, a third on the other replica meets them at the row lock; two
generations allow a rotation after a rotation; two persist tries are the
smallest number with a retry. Access: two calls at a time, on one replica each,
is what every interleaving here needs, and since the connection may be in any
state at the start two in all are enough to reconnect, switch or create. A call
on each replica outdates the caches of the other. Admission: two entries for
three tenants overflow; a window of two ticks has a start, a middle and an end;
two handlers of one tenant meet at a limit of one. Ledger: two fallbacks are one
that fails before one that answers; four attempts add the OAuth or Auto-fix
retry; one failing statement is failed at every place in turn. Usage: two
requests fill the limit and the third is refused; two attempts are one on each
side of the cutover; two replicas count the same baseline. Alerts: two requests
meet each other and the job at the log; an hour that passes in between moves
the period; one upset is put at every place in turn. Guards: two calls fail
twice, which opens the breaker with one call still inside; two routes overflow a
map of one. Keys: two keys and a third label are needed to reuse a name. A key
not yet there, one that is first and one that follows cover what a save can find.
Logins: three are needed for a label freed by a removal to collide. The proofs lift the
bounds for what they cover.

`provider_keys` and `limit_alerts` do not extend a state once an exception the
properties name has happened (`MCUnexcused`): that state is still checked.

*Deadlock* is not checked where the system really may stop: `RequestLedger`,
`RequestUsage`, `LimitAlerts` and `OAuthLogin` when their requests or sign-ins
are over, `ProviderKeys` when its calls are spent.

*Fairness.* `OAuthRefresh`: each request's refresh steps and forwards (weak
fairness): provider calls have timeouts, statements end or fail, and the lock
wait is bounded by `lock_timeout` (`provider.service.ts:286`). Nothing is
assumed of users, expiry, revocations or crashes. `ProviderAccess`: awaited
statements end, cache fills end, and entries expire after their time to live.
`RequestLedger`: handler and recorder go on; of a failing statement nothing is
assumed, and a crash or a failed terminal write is an outcome of its own.

## 5. Where the code and its documentation disagree

Two are the counterexamples of violation runs; `PROJECT.json` quotes the texts.

- **Rejected tokens** (`oauth_refresh_rejected`). The retry after a 401 asks
  for a refresh with an expired copy, but the refresh re-reads the row, finds it
  unexpired and returns it unchanged.
- **Whole-entity saves** (`oauth_stale_brick`). They may write an older blob
  over a rotated one.

Others sit in the passing properties as named exceptions, so that anything
beyond them is a violation:

- *Row lock and idle timeout* ("cut" in `DeadTokenExplained`). The lock is held
  across the refresh call, during which the session is idle; after
  `idle_in_transaction_session_timeout` PostgreSQL ends it, and another replica
  rotates the same token.
- *Reconnect* (`clash` in `OnByDefault`). A connect that read an active row
  before a disconnect saved it inactive reactivates it and hands out no access.
- *A cached list* (`blind` in `OnByDefault`). An agent created from a cached
  provider list misses a provider connected since, although
  `provider.service.ts:170` promises otherwise.
- *Saves of discovered models* (`clash` in `OnByDefault`, `uncleared` in
  `StaleChainExplained`). Discovery saves the whole row as it read it: after a
  disconnect the row is active again and no agent has access, after a change of
  the key the older one is back, and the cached key chains are not told either time.
- *Overtaken fills* (`over` in `StaleChainExplained`). A fill overtaken by an
  invalidation stores the old key for up to two minutes (`provider.service.ts:349`).
- *Attempts left pending* (`excused` in `OrphansExplained`). After an unexpected
  throw, or when the caller leaves in the middle of a chain, an attempt keeps `pending`.
- *Computed numbers* (`excused` in `SuccessEndsOnSuccess`). A failure without an
  attempt is inserted under a computed number, and the unique index may refuse
  the row of a real attempt, even of the one that succeeded (`docs/glossary.md:60`).
- *Superseded primary*: when every fallback is cooling down the primary, the only
  attempt, is stored as superseded (`docs/glossary.md:66`; no property forbids it).
- *Late rows* (`late` in `CountedOnce`, `NoneMissed`). A row with a timestamp
  before the cutover that is stored after it is left to a baseline that may have
  been taken already; with a second attempt it may be counted twice.
- *Lost mails* (`lost` in `MailFollowsLog`). The log row that suppresses further
  alerts is written before the mail is sent; a refused mail is never sent again,
  although `notification-cron.service.ts:142` says it "will retry next cron run".
- *Judged by another hour* (`split` in `AlertDue`). The job computes the period
  anew when it evaluates, after the consumption was read for the previous one.
- *Usage of the current second* (`raced`, `stale` in `UsageFollows`). The period
  ends with the last full second, so a row of the current second is missing from
  the consumption then cached for a minute, although its event has passed.
- *A rule that was changed and reported as failed* (`old` in `RulesFollow`). The
  row is written, then read again for the answer (`notification-rules.service.ts:103-104`);
  if that read fails, the replica that served the change keeps the old rule, too.
- *Windows that do not line up*: an hourly window starts one hour back
  (`period.util.ts:22`) while the announced reset is the next full hour; a
  comment (lines 44-46) says they line up. The last hour of a day is not
  evaluated by the job after it ends. The model has both as they are.
- *Overlapping sign-ins* (`overlapped` in `KeptSignIn`). Two sign-ins compute the
  same label and the second overwrites the tokens of the first, although
  `nextOAuthLabel` says it "Returns a unique label". So does a discovery that
  saves an older copy of the key.
- *Revoked, then saved* (`revived` in `RevokedNotServed`). Discovery asks the
  provider for models and then saves the whole key: one that was revoked and
  removed meanwhile is inserted or active again, with dead tokens.
- *Revoked, then refused* (`kept` in `RevokedNotServed`). Tokens are revoked at
  the provider before the removal, which may be refused because a route uses the
  key: it stays in service with dead tokens.
- *A bare code* burns the latest flow, whatever login it belongs to, and may be
  sent twice with different verifiers. A refusal for too many keys comes after
  the single-use code is spent, and a key may be stored although the caller is
  told of an error. Starts that overlap may leave two flows (`OAuthLogin`).
- *Keys in use* (`raced` in `ProviderKeys`). The check before a removal and the
  edit of a tier overlap; a save of entities read earlier re-inserts a removed
  key or reactivates a disconnected one; a rename cut half way leaves routes with
  the old name. A route that was stored under a name no key has is served with the
  first key and does not keep the provider from being disconnected, nor does a primary
  route whose `authType` is that of no connection (`Nobody` in `OrphansExplained` and
  `PinnedKeyServes`; `tier.service.ts:107-122`). `tier.service.ts:336-339` leaves the
  validation of labels to `ProviderService.cleanupProviderReferences`, which "runs on
  every provider mutation" and does not exist. Without any overlap, a removal can pass the check when no key has
  priority 0 (`Unranked`; `provider.service.ts:842-845`). The limit on keys is not
  applied to reactivation or to a connect without a label. `tier.service.ts:137`
  says a key "can't be both the primary and a fallback", which neither
  `setFallbacks` nor `relabelOverrides` keeps. The renumbering orders by priority
  alone (line 1328), the proxy by priority and id (`Tied` in `FirstKept`).

## 6. The proofs

Checked by TLAPS for every value of the constants that satisfies the
assumptions `RefreshAssumption`, `AdmissionAssumption`, `LedgerAssumption`,
`UsageAssumption`, `LimitsAssumption`, `RulesAssumption`, `FirstRulesAssumption`,
`GuardsAssumption`, `AccessAssumption`, `KeysAssumption` and `LoginAssumption`:
types of the constants, finite sets where something is counted, and that `None`,
`NoRow` and the like are not among the values they are distinguished from. TLC
evaluates each of them in the runs of its module.

`OAuthRefreshProofs` goes from the ground up, each layer using the earlier ones:

1. `TypeCorrect`: `TypeOK` needs `AttemptsLeft` (a request that has used up its
   tries is failing), or the counter could pass its bound.
2. `SingleFlightHolds`: who is inside a refresh is who `inFlight` names.
3. `LockInv`: transaction states match program counters, at most one request
   holds the row lock, and the row is what that request read.
4. The order of generations: what a request carries is newer than what it read;
   from it `RowNeverRegresses`.
5. `Invariance`, the inductive invariant `RefreshInv`; `StoredTokenStaysUsable`,
   `DeadTokensExplained` and `ForwardedTokensDurable` are conjuncts or consequences.
6. `Refinement`: each step maps to a step of `CredentialLifecycle` or a stutter.

`ProviderAccessProofs`: the invariant is types, `CacheInv` and `AccessInv`.
`CacheInv` adds to `StaleChainExplained` that a fill carries what the database
holds, or is late, or its replica is excused (`FillsFollow`); a save of discovered
models that changes the row excuses its replica. `AccessInv` says of
each agent without access that a call still has to give it (`AccessIsDue`), and that
without `clash` no connect and disconnect are under way together and no discovery
has put a disconnected row back (`Apart`);
`OnByDefault` is what remains when every call is settled.

`ProxyGuardsProofs` holds what one process remembers in front of the proxy and
behind it. Admission: `SlotsExact` and `ConcurrencyHolds` from `SlotInv` (types
of the slot variables, which phases may hold a slot, the count is the number of
holders, the bound), with lemmas on the cardinality of a set that gains or loses
a handler. `WindowBudgetHolds` from `RateInv`, which speaks of every tenant no
overflow has dropped. While it has an entry, fewer than `RateMax` of its passes
are older than the window's start, those since are at most the count, and those
strictly after the start fewer than the count (`Covers`); without an entry fewer
than `RateMax` passes remain, all earlier than now (`Uncovered`). Either way a
window adds at most `RateMax` passes to fewer than `RateMax` older ones. The entries of a map are in a line
(`Lined`), so one of them is the oldest, only that one is dropped, and
`MAX_RATE_ENTRIES` is never exceeded (`AdmissionTypeCorrect`).

`RequestLedgerProofs`: `LedgerInv` says that the handler concludes once, that
until then no terminal writer exists and no terminal row, and that afterwards
all of them carry its outcome: `RequestRowTruthful`. `RowInv` is about attempts:
each is in one place at a time. The handler still has to report it, or one job of
one recorder call has it, or its row has an outcome, or it was given up (`Legs`,
`Distinct`, `OpenFree`, `Jobs`, `Covered`, `Credit`, `Untold`). When handler and
recorder are quiet only the last two are left: `NoAttemptLeftOut`. Only one job
may carry "success", that of the winner: `SuccessIsLast`. Since a terminal row
has no job left, no step changes it: `RowsStay`.

`RequestUsageProofs`: `CountedOnce` and `NoneMissed` are not inductive; they
follow from what ties the rows of a request to the counts. Before the cutover
nothing is counted (`Quiescent`); what the trigger has counted no baseline finds,
unless it is late (`LiveFrom`); what a baseline has found it would find again
(`BaselineFrom`); a request flagged as counted is in its month's count or owed to
the baseline (`Seen`, `Placed`); and what was owed when a baseline was counted is
in it (`Paid`). The stored number and the refusals are conjuncts of the invariant.

`LimitAlertsProofs`: `MailedOnce` and `RecordIsMailed` follow from `Mails` (a period
has at most one sender under way, the one whose row was inserted, and it has not
mailed yet), `OutdatedExplained` from `Following` (who may hold or store an outdated rule),
`OutdatedUsageExplained` from `Fresh` (the same of a consumption, cached or about to
be). Usage is only added (`UsageStays`), so a consumption read once stays a lower
bound (`MoreConsumed`, by cardinalities of finite sets; usage before a period does not
change it, `EarlierUsage`; what a read leaves out is on record, `LeftOut`): with `Sound`, what each process has read and concluded,
that gives `NoAlertBeforeItIsDue`. `Reported` follows an undisturbed job from
statement to statement and gives `JobReports`: what was on record when the hour began
is of an earlier second (`Apart`), so the job reads it. The requests are assumed finite and
distinct from the jobs.

Guards: the invariant relates the cached flag, the readers that are about to
store it and the time since the flag was on (`OnNow`, `EntryHonest`,
`ReaderHonest`) to `ConsentIsRecent`; `RestAsTold` is inductive with the types,
`BreakerSpares` an action property.

`ProviderKeysProofs`: what a route of the tier pins depends on what calls read
before they wrote, so the invariant `KeysInv` speaks of the calls first.
`CallsHold` says what each of them still knows of keys and tier, *unless* `late`
records that somebody wrote them since: the keys it read are the stored ones
(`KeysHeld`), the tier it works on is the stored one, with its own relabelling
(`TierHeld`), a removal past its check has no route in its way and an edit past
its check stores routes that fit the keys (`Checked`; `Fits`: the key recorded for
a pinned label has that label), and what a connect or a discovery saves is active
(`Revives`). From this follows what a write may do (`WriteUnexcused`): if no exception is recorded,
the writer has seen everything and no rename is under way elsewhere.
`RoutesHold` adds that a rename without exception is alone (`RenameAlone`), that
pins name the active key that had the name when they were checked, if there was one
(`Keyed`, `PinsHeld`), and that no route that had a key is left when no key is active
(`NoOrphan`). Each step keeps both parts (`ConnectKeeps` and its like);
steps that write neither table share one lemma (`QuietKept`). `NoOrphanUnexplained`,
`ChosenKeyServes`, `FirstKeyKept` and `TypeCorrect` are consequences.

`OAuthLoginProofs`: `FlowOnce` (a flow is in one place at a time) gives
`FlowsRedeemedOnce`. The invariant of the keys, `KInv`, says that a login has at most
one active key, that only redeemed logins are stored, that copies of a key agree on
its label, that a call not overtaken has chosen a label no active key has, and
then has its key (`ChosenWell`), that tokens which discoveries will save again are
active in that key only (`AtHome`), and that a revocation not overtaken has handed back, or listed, what
it will remove (`HandedBackFirst`). That a free label exists is a pigeonhole
lemma (`NextLabelIsFree`).

Every invariant and action property of a passing run is stated by a theorem.
Only model-checked: liveness (`EveryRequestAnswered`, `RotationSettles`,
`CachesConverge`, `RequestSettles`), which rests on fairness and is out of the
prover's reach, and `OAuthStaleSave`, which exists for its counterexample.

## 7. Not modelled

- Provider client, adapters and stream writing: wire formats, data without shared
  state. Their outcomes are inputs of `RequestLedger`.
- Request scoring and the choice of a tier: pure functions over text and headers,
  large in data and small in control.
- Custom and managed providers: the same connection rows and the same calls as in
  `ProviderAccess`, nothing concurrent of their own.
- Model discovery, apart from its save: network calls and tables of models.
- Analytics: queries over the recorded rows.
- Authentication caches: the routing cache over again.
- Model prices and free models: tables that are replaced as a whole.
- Migrations and backfills: they run once, under an advisory lock; the schema facts
  the models rely on (unique indexes, the trigger) are named where they are used.
- The dashboard streams of the event bus, the playground, setup, telemetry, health,
  public statistics and the waiting list: thin, or best effort by design.
- The dashboard: a user interface that talks to the backend over HTTP. Shared
  definitions: types and tables.
- In the modelled parts: the usage e-mails of `billing-usage-email.service.ts`
  (sent, then recorded, so an overlap sends two), several rules and metrics at a
  time, the tenant gate and the reports of Auto-fix, contents of rows other than
  their status. Section 3 names what each module leaves out.

Most of the repository's lines are in these parts and in the tests and pages of
the dashboard; the models cover the stateful services.

## 8. Running

    tlc -workers 2 -config OAuthRefresh.cfg MCOAuthRefresh
    tlapm OAuthRefreshProofs.tla

`PROJECT.json` names module and configuration of every run. The longest runs
and proofs take two to four minutes each.
