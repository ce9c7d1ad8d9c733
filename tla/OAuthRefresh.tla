---------------------------- MODULE OAuthRefresh ----------------------------
(***************************************************************************)
(* The lazy refresh of ONE subscription credential (a tenant, a provider   *)
(* and a key label) by the proxy requests of several backend replicas.     *)
(*                                                                         *)
(* A blob {t, r, e} is its generation number: generation 0 is the login,   *)
(* and the provider rotates, so a successful refresh with generation g     *)
(* kills the refresh token of g and mints a fresh generation.  Clock       *)
(* comparisons are replaced by the set of generations that are past their  *)
(* expiry minus REFRESH_EXPIRY_SKEW_MS.                                    *)
(***************************************************************************)
EXTENDS Naturals, FiniteSets

CONSTANTS
  Replicas,      (* backend processes; each has its own inFlight map        *)
  Requests,      (* proxy requests (call chains of unwrapToken)             *)
  Home,          (* the replica a request runs on                           *)
  MaxGen,        (* bound: how many generations the provider may mint       *)
  MaxRevoked,    (* bound: how many access tokens it revokes early          *)
  PersistMax,    (* PERSIST_MAX_ATTEMPTS                                    *)
  None           (* no request                                              *)

ASSUME RefreshAssumption ==
  /\ Home \in [Requests -> Replicas]
  /\ MaxGen \in Nat
  /\ MaxRevoked \in Nat
  /\ PersistMax \in Nat \ {0}
  /\ None \notin Requests

Gens  == 0 .. MaxGen
NoRow == MaxGen + 1        \* the credential's row does not exist

VARIABLES
  live,       (* provider: generations whose refresh token is accepted      *)
  rejected,   (* provider: access tokens that are answered with a 401       *)
  minted,     (* provider: the newest generation                            *)
  expired,    (* generations past e - REFRESH_EXPIRY_SKEW_MS                *)
  stored,     (* tenant_providers.api_key_encrypted, committed value        *)
  seen,       (* generations ever committed: what a cache may still hold    *)
  inFlight,   (* per replica: the request that owns the pending refresh     *)
  pc,         (* where a request is                                         *)
  cur,        (* `current` of refreshOnce: the blob being refreshed         *)
  new,        (* `refreshed` of refreshOnce: the blob the provider returned *)
  tries,      (* failed persist attempts                                    *)
  tx,         (* the request's database transaction                         *)
  token,      (* the access token the request forwards with                 *)
  retrying,   (* the request is past its first 401                          *)
  lost        (* history: generations rotated away whose successor was lost *)

provider == <<live, rejected, minted, expired>>
request  == <<cur, new, tries, token, retrying>>
vars == <<provider, stored, seen, inFlight, pc, tx, request, lost>>

-----------------------------------------------------------------------------
(* Where a request can be.                                                 *)

Idle == {"idle", "same_token"}   \* "same_token": it returned the 401 because
                                 \* the refresh gave the refused token back
HasCalled == {"rotated", "persist", "commit"}  \* holds an unstored successor
InFlightAt == {"lock", "call", "commit_valid", "committed", "failed"} \cup HasCalled
Pcs == {"forward", "waiting"} \cup InFlightAt \cup Idle

(* "none": no transaction.  "locked": it holds the row FOR UPDATE.          *)
(* "rowless": SELECT FOR UPDATE found no row.  "cut": the database          *)
(* terminated the session and the process does not know yet.               *)
TxStates == {"none", "locked", "rowless", "cut"}

RowFree == \A q \in Requests : tx[q] # "locked"

Init ==
  /\ live = {0}
  /\ rejected = {}
  /\ minted = 0
  /\ expired = {}
  /\ stored = 0
  /\ seen = {0}
  /\ inFlight = [r \in Replicas |-> None]
  /\ pc = [q \in Requests |-> "idle"]
  /\ cur = [q \in Requests |-> 0]
  /\ new = [q \in Requests |-> 0]
  /\ tries = [q \in Requests |-> 0]
  /\ tx = [q \in Requests |-> "none"]
  /\ token = [q \in Requests |-> 0]
  /\ retrying = [q \in Requests |-> FALSE]
  /\ lost = {}

-----------------------------------------------------------------------------
(* Entry: the request obtains a blob and unwraps it.                       *)

(* Mutant: every caller starts a refresh of its own.                       *)
CoordinateAlone(q, g) ==
  /\ pc' = [pc EXCEPT ![q] = "lock"]
  /\ inFlight' = [inFlight EXCEPT ![Home[q]] = q]
  /\ cur' = [cur EXCEPT ![q] = g]

(* coordinateOAuthRefresh: join the replica's pending refresh, or own one. *)
(* Lookup and registration happen with no await in between.                *)
Coordinate(q, g) ==
  IF inFlight[Home[q]] # None
    THEN /\ pc' = [pc EXCEPT ![q] = "waiting"]
         /\ UNCHANGED <<inFlight, cur>>
    ELSE /\ pc' = [pc EXCEPT ![q] = "lock"]
         /\ inFlight' = [inFlight EXCEPT ![Home[q]] = q]
         /\ cur' = [cur EXCEPT ![q] = g]

(* unwrapToken on a blob that is still good by the clock.                  *)
UseBlob(q) ==
  /\ pc[q] \in Idle
  /\ \E g \in seen \ expired : token' = [token EXCEPT ![q] = g]
  /\ pc' = [pc EXCEPT ![q] = "forward"]
  /\ UNCHANGED <<provider, stored, seen, inFlight, tx, cur, new, tries, retrying, lost>>

(* unwrapToken on an expired blob.                                         *)
RefreshBlob(q) ==
  /\ pc[q] \in Idle
  /\ \E g \in seen \cap expired : Coordinate(q, g)
  /\ UNCHANGED <<provider, stored, seen, tx, new, tries, token, retrying, lost>>

-----------------------------------------------------------------------------
(* refreshOnce, inside withSubscriptionCredentialLock.                     *)

(* Mutant: the caller's blob is trusted, the row is not read again.        *)
AcquireLockUnread(q) ==
  /\ pc[q] = "lock"
  /\ stored = NoRow \/ RowFree
  /\ tx' = [tx EXCEPT ![q] = IF stored = NoRow THEN "rowless" ELSE "locked"]
  /\ pc' = [pc EXCEPT ![q] = "call"]
  /\ UNCHANGED <<provider, stored, seen, inFlight, request, lost>>

(* The row lock is granted and the row read under it.  A row that is valid *)
(* by the clock is returned as it is; the caller's blob counts only when   *)
(* there is no row.                                                        *)
AcquireLock(q) ==
  /\ pc[q] = "lock"
  /\ stored = NoRow \/ RowFree
  /\ tx' = [tx EXCEPT ![q] = IF stored = NoRow THEN "rowless" ELSE "locked"]
  /\ cur' = [cur EXCEPT ![q] = IF stored = NoRow THEN @ ELSE stored]
  /\ pc' = [pc EXCEPT ![q] = IF stored # NoRow /\ stored \notin expired
                             THEN "commit_valid" ELSE "call"]
  /\ UNCHANGED <<provider, stored, seen, inFlight, new, tries, token, retrying, lost>>

(* lock_timeout: another transaction kept the row for too long.            *)
LockTimeout(q) ==
  /\ pc[q] = "lock"
  /\ ~RowFree
  /\ pc' = [pc EXCEPT ![q] = "failed"]
  /\ UNCHANGED <<provider, stored, seen, inFlight, tx, request, lost>>

(* The provider takes a live refresh token and rotates it.                 *)
Rotate(q) ==
  /\ pc[q] = "call"
  /\ cur[q] \in live
  /\ minted < MaxGen
  /\ minted' = minted + 1
  /\ live' = (live \ {cur[q]}) \cup {minted + 1}
  /\ new' = [new EXCEPT ![q] = minted + 1]
  /\ pc' = [pc EXCEPT ![q] = "rotated"]
  /\ UNCHANGED <<rejected, expired, stored, seen, inFlight, tx, cur, tries,
                 token, retrying, lost>>

(* The provider refuses the token, or the call fails before it arrives.    *)
CallFails(q) ==
  /\ pc[q] = "call"
  /\ pc' = [pc EXCEPT ![q] = "failed"]
  /\ UNCHANGED <<provider, stored, seen, inFlight, tx, request, lost>>

(* The answer of a call that rotated arrives ...                           *)
ReceiveTokens(q) ==
  /\ pc[q] = "rotated"
  /\ pc' = [pc EXCEPT ![q] = "persist"]
  /\ UNCHANGED <<provider, stored, seen, inFlight, tx, request, lost>>

(* ... or it is lost on the way back.                                      *)
LoseResponse(q) ==
  /\ pc[q] = "rotated"
  /\ pc' = [pc EXCEPT ![q] = "failed"]
  /\ lost' = lost \cup {cur[q]}
  /\ UNCHANGED <<provider, stored, seen, inFlight, tx, request>>

(* idle_in_transaction_session_timeout while the HTTP call is pending: the *)
(* database drops the session and with it the row lock.                    *)
IdleTimeout(q) ==
  /\ pc[q] \in {"call", "rotated"}
  /\ tx[q] = "locked"
  /\ tx' = [tx EXCEPT ![q] = "cut"]
  /\ UNCHANGED <<provider, stored, seen, inFlight, pc, request, lost>>

(* Mutant: the promise resolves with the rotated blob before the commit.   *)
PersistOkEarly(q) ==
  /\ pc[q] = "persist"
  /\ tx[q] = "locked"
  /\ tx' = [tx EXCEPT ![q] = "none"]
  /\ pc' = [pc EXCEPT ![q] = "committed"]
  /\ UNCHANGED <<provider, stored, seen, inFlight, request, lost>>

(* persistWithRetry: an attempt succeeds only inside a live transaction    *)
(* that found the row.                                                     *)
PersistOk(q) ==
  /\ pc[q] = "persist"
  /\ tx[q] = "locked"
  /\ pc' = [pc EXCEPT ![q] = "commit"]
  /\ UNCHANGED <<provider, stored, seen, inFlight, tx, request, lost>>

(* Mutants: no limit on the attempts, without and with a count of them;    *)
(* a failed attempt refreshes again instead of persisting again.           *)
PersistFailsForever(q) == pc[q] = "persist" /\ UNCHANGED vars

PersistFailsUncapped(q) ==
  /\ pc[q] = "persist"
  /\ tries' = [tries EXCEPT ![q] = @ + 1]
  /\ UNCHANGED <<provider, stored, seen, inFlight, pc, tx, cur, new, token, retrying, lost>>

PersistFailsRefresh(q) ==
  /\ pc[q] = "persist"
  /\ pc' = [pc EXCEPT ![q] = "call"]
  /\ UNCHANGED <<provider, stored, seen, inFlight, tx, request, lost>>

PersistFails(q) ==
  /\ pc[q] = "persist"
  /\ tries' = [tries EXCEPT ![q] = @ + 1]
  /\ IF tries[q] + 1 < PersistMax
       THEN UNCHANGED <<pc, lost>>
       ELSE /\ pc' = [pc EXCEPT ![q] = "failed"]
            /\ lost' = lost \cup {cur[q]}
  /\ UNCHANGED <<provider, stored, seen, inFlight, tx, cur, new, token, retrying>>

(* The transaction commits: the rotated blob becomes the row's value.      *)
Commit(q) ==
  /\ pc[q] = "commit"
  /\ stored' = new[q]
  /\ seen' = seen \cup {new[q]}
  /\ tx' = [tx EXCEPT ![q] = "none"]
  /\ pc' = [pc EXCEPT ![q] = "committed"]
  /\ UNCHANGED <<provider, inFlight, request, lost>>

CommitFails(q) ==
  /\ pc[q] = "commit"
  /\ tx' = [tx EXCEPT ![q] = "none"]
  /\ pc' = [pc EXCEPT ![q] = "failed"]
  /\ lost' = lost \cup {cur[q]}
  /\ UNCHANGED <<provider, stored, seen, inFlight, request>>

(* The transaction of a refresh that found a valid row commits nothing.    *)
CommitValid(q) ==
  /\ pc[q] = "commit_valid"
  /\ tx' = [tx EXCEPT ![q] = "none"]
  /\ new' = [new EXCEPT ![q] = cur[q]]
  /\ pc' = [pc EXCEPT ![q] = "committed"]
  /\ UNCHANGED <<provider, stored, seen, inFlight, cur, tries, token, retrying, lost>>

-----------------------------------------------------------------------------
(* The refresh promise settles: its owner and every request waiting on it  *)
(* resume, and the owner's `finally` clears the map entry.  Locals that go *)
(* out of scope return to their initial value, here and below.             *)

Resumed(q) == {q} \cup {p \in Requests : pc[p] = "waiting" /\ Home[p] = Home[q]}

Cleared(f, S, v) == [p \in Requests |-> IF p \in S THEN v ELSE f[p]]

EndFlight(q) ==
  /\ inFlight' = [inFlight EXCEPT ![Home[q]] = None]
  /\ cur' = [cur EXCEPT ![q] = 0]
  /\ new' = [new EXCEPT ![q] = 0]
  /\ tries' = [tries EXCEPT ![q] = 0]

(* The promise resolves with a blob.  A request that retries after a 401   *)
(* and gets the refused access token back answers with that 401.           *)
Resolve(q) ==
  LET same == {p \in Resumed(q) : retrying[p] /\ new[q] = token[p]}
  IN /\ pc[q] = "committed"
     /\ EndFlight(q)
     /\ pc' = [p \in Requests |->
                 IF p \in same THEN "same_token"
                 ELSE IF p \in Resumed(q) THEN "forward" ELSE pc[p]]
     /\ token' = [p \in Requests |->
                    IF p \in same THEN 0
                    ELSE IF p \in Resumed(q) THEN new[q] ELSE token[p]]
     /\ retrying' = Cleared(retrying, same, FALSE)
     /\ UNCHANGED <<provider, stored, seen, tx, lost>>

(* Mutant: a rejected promise stays in the inFlight map.                   *)
RejectLeaky(q) ==
  /\ pc[q] = "failed"
  /\ tx' = [tx EXCEPT ![q] = "none"]
  /\ pc' = Cleared(pc, Resumed(q), "idle")
  /\ token' = Cleared(token, Resumed(q), 0)
  /\ retrying' = Cleared(retrying, Resumed(q), FALSE)
  /\ UNCHANGED <<provider, stored, seen, inFlight, cur, new, tries, lost>>

(* The callback threw: the transaction rolls back and unwrapToken turns    *)
(* the rejection into null: unusable credentials, or the first 401 again.  *)
Reject(q) ==
  /\ pc[q] = "failed"
  /\ EndFlight(q)
  /\ tx' = [tx EXCEPT ![q] = "none"]
  /\ pc' = Cleared(pc, Resumed(q), "idle")
  /\ token' = Cleared(token, Resumed(q), 0)
  /\ retrying' = Cleared(retrying, Resumed(q), FALSE)
  /\ UNCHANGED <<provider, stored, seen, lost>>

-----------------------------------------------------------------------------
(* The forward and the one retry after a 401.                              *)

Answer(q) ==
  /\ pc' = [pc EXCEPT ![q] = "idle"]
  /\ token' = [token EXCEPT ![q] = 0]
  /\ retrying' = [retrying EXCEPT ![q] = FALSE]
  /\ UNCHANGED <<provider, stored, seen, inFlight, tx, cur, new, tries, lost>>

Accepted(q) ==
  /\ pc[q] = "forward"
  /\ token[q] \notin rejected
  /\ Answer(q)

(* retryOAuthSubscriptionAfterRejectedToken: the raw blob is handed to     *)
(* unwrapToken with e = 0, so it always reaches the coordinator.           *)
RetryRejected(q) ==
  /\ pc[q] = "forward"
  /\ token[q] \in rejected
  /\ ~retrying[q]
  /\ retrying' = [retrying EXCEPT ![q] = TRUE]
  /\ \E g \in seen : Coordinate(q, g)
  /\ UNCHANGED <<provider, stored, seen, tx, new, tries, token, lost>>

RejectedAgain(q) ==
  /\ pc[q] = "forward"
  /\ token[q] \in rejected
  /\ retrying[q]
  /\ Answer(q)

-----------------------------------------------------------------------------
(* The environment.                                                        *)

(* A token passes its expiry.  The last generation stays valid: a bound.   *)
Expire(g) ==
  /\ g \in 0 .. minted
  /\ g < MaxGen
  /\ expired' = expired \cup {g}
  /\ expired' # expired
  /\ UNCHANGED <<live, rejected, minted, stored, seen, inFlight, pc, tx, request, lost>>

(* The provider stops accepting an access token before its expiry.         *)
RevokeAccess(g) ==
  /\ g \in 0 .. minted
  /\ rejected' = rejected \cup {g}
  /\ rejected' # rejected
  /\ Cardinality(rejected) < MaxRevoked
  /\ UNCHANGED <<live, expired, minted, stored, seen, inFlight, pc, tx, request, lost>>

(* Mutant: the login does not wait for a refresh that holds the row.       *)
ReconnectUnlocked ==
  /\ minted < MaxGen
  /\ minted' = minted + 1
  /\ live' = live \cup {minted + 1}
  /\ stored' = minted + 1
  /\ seen' = seen \cup {minted + 1}
  /\ UNCHANGED <<rejected, expired, inFlight, pc, tx, request, lost>>

(* The user logs in again: a new token family over the same row.  The      *)
(* UPDATE waits for the row lock.                                          *)
Reconnect ==
  /\ RowFree
  /\ minted < MaxGen
  /\ minted' = minted + 1
  /\ live' = live \cup {minted + 1}
  /\ stored' = minted + 1
  /\ seen' = seen \cup {minted + 1}
  /\ UNCHANGED <<rejected, expired, inFlight, pc, tx, request, lost>>

(* The key is removed: a DELETE, which also waits for the row lock.        *)
Disconnect ==
  /\ RowFree
  /\ stored # NoRow
  /\ stored' = NoRow
  /\ UNCHANGED <<provider, seen, inFlight, pc, tx, request, lost>>

(* A replica dies: its requests end, its transactions roll back and its    *)
(* single-flight map is empty when it comes back.                          *)
Dying(r) == {q \in Requests : Home[q] = r /\ pc[q] \notin Idle}

Crash(r) ==
  /\ Dying(r) # {}
  /\ pc' = Cleared(pc, Dying(r), "idle")
  /\ tx' = Cleared(tx, Dying(r), "none")
  /\ cur' = Cleared(cur, Dying(r), 0)
  /\ new' = Cleared(new, Dying(r), 0)
  /\ tries' = Cleared(tries, Dying(r), 0)
  /\ token' = Cleared(token, Dying(r), 0)
  /\ retrying' = Cleared(retrying, Dying(r), FALSE)
  /\ inFlight' = [inFlight EXCEPT ![r] = None]
  /\ lost' = lost \cup {cur[q] : q \in {p \in Dying(r) : pc[p] \in HasCalled}}
  /\ UNCHANGED <<provider, stored, seen>>

-----------------------------------------------------------------------------
Refresh(q) ==
  \/ AcquireLock(q) \/ LockTimeout(q)
  \/ Rotate(q) \/ CallFails(q) \/ ReceiveTokens(q) \/ LoseResponse(q)
  \/ PersistOk(q) \/ PersistFails(q)
  \/ Commit(q) \/ CommitFails(q) \/ CommitValid(q)
  \/ Resolve(q) \/ Reject(q)

Forward(q) == Accepted(q) \/ RetryRejected(q) \/ RejectedAgain(q)

Next ==
  \/ \E q \in Requests : UseBlob(q) \/ RefreshBlob(q) \/ Refresh(q) \/ Forward(q)
                         \/ IdleTimeout(q)
  \/ \E g \in Gens : Expire(g) \/ RevokeAccess(g)
  \/ Reconnect
  \/ Disconnect
  \/ \E r \in Replicas : Crash(r)

Spec == Init /\ [][Next]_vars

(* An awaited database statement or HTTP call ends one way or another: the *)
(* driver, the lock timeout and the HTTP client's timeout see to it.       *)
Fairness == \A q \in Requests : WF_vars(Refresh(q)) /\ WF_vars(Forward(q))

FairSpec == Spec /\ Fairness

-----------------------------------------------------------------------------
(* Properties.                                                             *)

TypeOK ==
  /\ live \subseteq Gens
  /\ rejected \subseteq Gens
  /\ minted \in Gens
  /\ expired \subseteq Gens
  /\ stored \in Gens \cup {NoRow}
  /\ seen \subseteq Gens
  /\ lost \subseteq Gens
  /\ inFlight \in [Replicas -> Requests \cup {None}]
  /\ pc \in [Requests -> Pcs]
  /\ cur \in [Requests -> Gens]
  /\ new \in [Requests -> Gens]
  /\ tries \in [Requests -> 0 .. PersistMax]
  /\ tx \in [Requests -> TxStates]
  /\ token \in [Requests -> Gens]
  /\ retrying \in [Requests -> BOOLEAN]

(* Single flight: on one replica at most one request is inside a refresh,  *)
(* it is the one the inFlight map names, and nobody waits on an empty      *)
(* entry (coordinateOAuthRefresh).                                         *)
SingleFlight ==
  /\ \A q \in Requests : (pc[q] \in InFlightAt) <=> (inFlight[Home[q]] = q)
  /\ \A q \in Requests : pc[q] = "waiting" => inFlight[Home[q]] # None

(* What a refresh read under the row lock stays the row's value until its  *)
(* transaction ends, whatever reconnects, removals and other replicas do.  *)
LockedReadIsCurrent ==
  \A q \in Requests : tx[q] = "locked" => stored = cur[q]

(* A refresh token is spent and not replaced only while the request that   *)
(* spent it still carries its successor, or after a named failure lost     *)
(* that successor: apart from those the stored credential can refresh.     *)
StoredTokenUsable ==
  \/ stored \in live \cup lost \cup {NoRow}
  \/ \E q \in Requests : pc[q] \in HasCalled /\ cur[q] = stored

(* A refresh that still holds its row lock presents a dead refresh token   *)
(* only when that token's successor was lost, or when a request whose      *)
(* session the idle timeout cut is spending the same token.                *)
DeadTokenExplained ==
  \A q \in Requests :
    pc[q] = "call" /\ tx[q] = "locked" /\ cur[q] \notin live =>
      \/ cur[q] \in lost
      \/ \E p \in Requests : pc[p] \in HasCalled /\ tx[p] = "cut" /\ cur[p] = cur[q]

(* An access token is used upstream only after the blob it came from was   *)
(* committed: no request runs ahead on a token a rollback can take away.   *)
ForwardedTokenIsDurable ==
  \A q \in Requests : pc[q] = "forward" => token[q] \in seen

(* The row never goes back to an older generation: a slow refresh cannot   *)
(* overwrite what a later refresh or a new login stored.                   *)
NeverRegresses ==
  [][stored # NoRow /\ stored' # NoRow => stored' >= stored]_vars

(* Every request that starts gets its answer.                              *)
EveryRequestAnswered ==
  \A q \in Requests : pc[q] \notin Idle ~> pc[q] \in Idle

(* A request whose persist attempts are used up has failed.                *)
AttemptsLeft == \A q \in Requests : tries[q] = PersistMax => pc[q] = "failed"

(* The inductive invariant behind the properties above: where a request is *)
(* determines the state of its transaction; the row lock is exclusive; all *)
(* blobs in use were committed; and the successor a request carries is     *)
(* live, uncommitted and its own.                                          *)
TxMatchesPc ==
  \A q \in Requests :
    /\ pc[q] \in {"forward", "waiting", "lock", "committed"} \cup Idle => tx[q] = "none"
    /\ pc[q] \in {"commit", "commit_valid"} => tx[q] = "locked"
    /\ pc[q] \in {"call", "rotated", "persist"} => tx[q] # "none"

RowLockExclusive ==
  \A p, q \in Requests : tx[p] = "locked" /\ tx[q] = "locked" => p = q

BlobsInUse ==
  /\ live \cup seen \subseteq 0 .. minted
  /\ 0 \in seen
  /\ stored \in seen \cup {NoRow}
  /\ \A q \in Requests : cur[q] \in seen /\ token[q] \in seen
  /\ \A q \in Requests : pc[q] = "committed" => new[q] \in seen
  /\ \A q \in Requests : tx[q] = "rowless" => cur[q] # stored

SuccessorIsOwn ==
  /\ \A q \in Requests : pc[q] \in HasCalled =>
        /\ new[q] \in live \ seen
        /\ cur[q] \notin live
        /\ cur[q] < new[q]
  /\ \A p, q \in Requests :
        pc[p] \in HasCalled /\ pc[q] \in HasCalled /\ new[p] = new[q] => p = q

RefreshInv ==
  /\ TypeOK
  /\ AttemptsLeft
  /\ SingleFlight
  /\ TxMatchesPc
  /\ RowLockExclusive
  /\ LockedReadIsCurrent
  /\ BlobsInUse
  /\ SuccessorIsOwn
  /\ StoredTokenUsable
  /\ DeadTokenExplained

(* proxy-fallback.service.spec.ts 328: a subscription request whose access *)
(* token is rejected is retried with a refreshed one.                      *)
RejectedTokenIsReplaced == \A q \in Requests : pc[q] # "same_token"

-----------------------------------------------------------------------------
(* The life of the stored credential, seen from outside.                   *)

CredentialStatus ==
  IF stored = NoRow THEN "absent"
  ELSE IF stored \in live THEN "usable"
  ELSE IF stored \in lost THEN "broken" ELSE "rotating"

Lifecycle == INSTANCE CredentialLifecycle
               WITH Tokens <- Gens, Absent <- NoRow,
                    token <- stored, status <- CredentialStatus

(* The refresh machinery implements the lifecycle: a credential breaks     *)
(* only out of a rotation, and only a login repairs it.                    *)
ImplementsLifecycle == Lifecycle!Spec

(* ... and a rotation never stays pending.                                 *)
RotationSettles == Lifecycle!RotationSettles
=============================================================================
