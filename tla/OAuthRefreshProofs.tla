------------------------- MODULE OAuthRefreshProofs -------------------------
(***************************************************************************)
(* Proofs about OAuthRefresh, for any number of replicas, requests and     *)
(* generations.  The invariant is built in two layers: types first, then   *)
(* RefreshInv, one conjunct after the other.                               *)
(***************************************************************************)
EXTENDS OAuthRefresh, TLAPS

(* Every variable keeps its type: in particular no request counts more     *)
(* failed persist attempts than PERSIST_MAX_ATTEMPTS.                      *)
LEMMA InitTypeOK == Init => TypeOK /\ AttemptsLeft
BY RefreshAssumption DEF Init, TypeOK, AttemptsLeft, Gens, Pcs, Idle, TxStates, NoRow

LEMMA NextTypeOK == TypeOK /\ AttemptsLeft /\ [Next]_vars => TypeOK'
<1> SUFFICES ASSUME TypeOK, AttemptsLeft, [Next]_vars PROVE TypeOK'
  OBVIOUS
<1> USE RefreshAssumption DEF TypeOK, AttemptsLeft, Gens, NoRow, provider, request
<1>1. ASSUME NEW q \in Requests, UseBlob(q) PROVE TypeOK'
  BY <1>1 DEF UseBlob, Pcs
<1>2. ASSUME NEW q \in Requests, RefreshBlob(q) PROVE TypeOK'
  BY <1>2 DEF RefreshBlob, Coordinate, Pcs, InFlightAt
<1>3. ASSUME NEW q \in Requests, AcquireLock(q) PROVE TypeOK'
  BY <1>3 DEF AcquireLock, Pcs, InFlightAt, TxStates
<1>4. ASSUME NEW q \in Requests, LockTimeout(q) PROVE TypeOK'
  BY <1>4 DEF LockTimeout, Pcs, InFlightAt
<1>5. ASSUME NEW q \in Requests, Rotate(q) PROVE TypeOK'
  <2>1. minted + 1 \in Gens
    BY <1>5 DEF Rotate
  <2>0. minted' \in Gens /\ live' \subseteq Gens
    BY <1>5, <2>1 DEF Rotate
  <2>2. new' \in [Requests -> Gens]
    BY <1>5, <2>1 DEF Rotate
  <2>3. pc' \in [Requests -> Pcs]
    BY <1>5 DEF Rotate, Pcs, InFlightAt, HasCalled
  <2>4. QED
    BY <1>5, <2>0, <2>2, <2>3 DEF Rotate
<1>6. ASSUME NEW q \in Requests, CallFails(q) PROVE TypeOK'
  BY <1>6 DEF CallFails, Pcs, InFlightAt
<1>7. ASSUME NEW q \in Requests, ReceiveTokens(q) PROVE TypeOK'
  BY <1>7 DEF ReceiveTokens, Pcs, InFlightAt, HasCalled
<1>8. ASSUME NEW q \in Requests, LoseResponse(q) PROVE TypeOK'
  BY <1>8 DEF LoseResponse, Pcs, InFlightAt
<1>9. ASSUME NEW q \in Requests, PersistOk(q) PROVE TypeOK'
  BY <1>9 DEF PersistOk, Pcs, InFlightAt, HasCalled
<1>10. ASSUME NEW q \in Requests, PersistFails(q) PROVE TypeOK'
  <2>1. tries[q] \in 0 .. PersistMax
    OBVIOUS
  <2>2. CASE tries[q] + 1 < PersistMax
    <3>1. tries' \in [Requests -> 0 .. PersistMax]
      BY <1>10, <2>1, <2>2 DEF PersistFails
    <3>2. QED
      BY <1>10, <2>2, <3>1 DEF PersistFails
  <2>3. CASE ~(tries[q] + 1 < PersistMax)
    <3>1. tries[q] + 1 \in 0 .. PersistMax
      BY <1>10, <2>1 DEF PersistFails
    <3>2. tries' \in [Requests -> 0 .. PersistMax]
      BY <1>10, <3>1 DEF PersistFails
    <3>3. pc' \in [Requests -> Pcs]
      BY <1>10, <2>3 DEF PersistFails, Pcs, InFlightAt
    <3>4. cur[q] \in Gens
      OBVIOUS
    <3>5. lost' \subseteq Gens
      BY <1>10, <2>3, <3>4 DEF PersistFails
    <3>7. QED
      BY <1>10, <2>3, <3>2, <3>3, <3>5 DEF PersistFails
  <2>4. QED
    BY <2>2, <2>3
<1>11. ASSUME NEW q \in Requests, Commit(q) PROVE TypeOK'
  BY <1>11 DEF Commit, Pcs, InFlightAt, TxStates
<1>12. ASSUME NEW q \in Requests, CommitFails(q) PROVE TypeOK'
  BY <1>12 DEF CommitFails, Pcs, InFlightAt, TxStates
<1>13. ASSUME NEW q \in Requests, CommitValid(q) PROVE TypeOK'
  BY <1>13 DEF CommitValid, Pcs, InFlightAt, TxStates
<1>14. ASSUME NEW q \in Requests, Resolve(q) PROVE TypeOK'
  <2>1. pc' \in [Requests -> Pcs]
    BY <1>14 DEF Resolve, Pcs, Idle
  <2>2. token' \in [Requests -> Gens]
    BY <1>14 DEF Resolve
  <2>3. retrying' \in [Requests -> BOOLEAN]
    BY <1>14 DEF Resolve, Cleared
  <2>4. inFlight' \in [Replicas -> Requests \cup {None}]
    BY <1>14 DEF Resolve, EndFlight
  <2>5. cur' \in [Requests -> Gens] /\ new' \in [Requests -> Gens]
        /\ tries' \in [Requests -> 0 .. PersistMax]
    BY <1>14 DEF Resolve, EndFlight
  <2>7. QED
    BY <1>14, <2>1, <2>2, <2>3, <2>4, <2>5 DEF Resolve
<1>15. ASSUME NEW q \in Requests, Reject(q) PROVE TypeOK'
  <2>1. pc' \in [Requests -> Pcs]
    BY <1>15 DEF Reject, Cleared, Pcs, Idle
  <2>2. token' \in [Requests -> Gens]
    BY <1>15 DEF Reject, Cleared
  <2>7. retrying' \in [Requests -> BOOLEAN]
    BY <1>15 DEF Reject, Cleared
  <2>3. tx' \in [Requests -> TxStates]
    BY <1>15 DEF Reject, TxStates
  <2>4. inFlight' \in [Replicas -> Requests \cup {None}]
    BY <1>15 DEF Reject, EndFlight
  <2>5. cur' \in [Requests -> Gens] /\ new' \in [Requests -> Gens]
        /\ tries' \in [Requests -> 0 .. PersistMax]
    BY <1>15 DEF Reject, EndFlight
  <2>6. QED
    BY <1>15, <2>1, <2>2, <2>3, <2>4, <2>5, <2>7 DEF Reject
<1>16. ASSUME NEW q \in Requests, Accepted(q) PROVE TypeOK'
  BY <1>16 DEF Accepted, Answer, Pcs, Idle
<1>17. ASSUME NEW q \in Requests, RetryRejected(q) PROVE TypeOK'
  BY <1>17 DEF RetryRejected, Coordinate, Pcs, InFlightAt
<1>18. ASSUME NEW q \in Requests, RejectedAgain(q) PROVE TypeOK'
  BY <1>18 DEF RejectedAgain, Answer, Pcs, Idle
<1>19. ASSUME NEW q \in Requests, IdleTimeout(q) PROVE TypeOK'
  BY <1>19 DEF IdleTimeout, TxStates
<1>20. ASSUME NEW g \in Gens, Expire(g) PROVE TypeOK'
  BY <1>20 DEF Expire
<1>21. ASSUME NEW g \in Gens, RevokeAccess(g) PROVE TypeOK'
  BY <1>21 DEF RevokeAccess
<1>22. CASE Reconnect
  BY <1>22 DEF Reconnect
<1>23. CASE Disconnect
  BY <1>23 DEF Disconnect
<1>24. ASSUME NEW r \in Replicas, Crash(r) PROVE TypeOK'
  <2>1. pc' \in [Requests -> Pcs]
    BY <1>24 DEF Crash, Cleared, Pcs, Idle
  <2>2. tx' \in [Requests -> TxStates]
    BY <1>24 DEF Crash, Cleared, TxStates
  <2>3. cur' \in [Requests -> Gens] /\ new' \in [Requests -> Gens]
        /\ tries' \in [Requests -> 0 .. PersistMax]
    BY <1>24 DEF Crash, Cleared
  <2>4. token' \in [Requests -> Gens]
    BY <1>24 DEF Crash, Cleared
  <2>5. retrying' \in [Requests -> BOOLEAN]
    BY <1>24 DEF Crash, Cleared
  <2>6. inFlight' \in [Replicas -> Requests \cup {None}]
    BY <1>24 DEF Crash
  <2>8. lost' \subseteq Gens
    <3>1. SUFFICES ASSUME NEW g \in lost', g \notin lost PROVE g \in Gens
      OBVIOUS
    <3>2. PICK q \in Dying(r) : g = cur[q]
      BY <1>24, <3>1 DEF Crash
    <3>3. q \in Requests
      BY DEF Dying
    <3>4. QED
      BY <3>2, <3>3
  <2>10. QED
    BY <1>24, <2>1, <2>2, <2>3, <2>4, <2>5, <2>6, <2>8 DEF Crash
<1>25. CASE UNCHANGED vars
  BY <1>25 DEF vars
<1>26. QED
  BY <1>1, <1>2, <1>3, <1>4, <1>5, <1>6, <1>7, <1>8, <1>9, <1>10, <1>11, <1>12,
     <1>13, <1>14, <1>15, <1>16, <1>17, <1>18, <1>19, <1>20, <1>21, <1>22, <1>23,
     <1>24, <1>25 DEF Next, Refresh, Forward

(* PERSIST_MAX_ATTEMPTS is reached only by the attempt that gives up.      *)
LEMMA NextAttemptsLeft == TypeOK /\ AttemptsLeft /\ [Next]_vars => AttemptsLeft'
<1> SUFFICES ASSUME TypeOK, AttemptsLeft, [Next]_vars PROVE AttemptsLeft'
  OBVIOUS
<1> USE RefreshAssumption DEF TypeOK, AttemptsLeft, request
<1>1. ASSUME NEW q \in Requests, UseBlob(q) PROVE AttemptsLeft'
  BY <1>1 DEF UseBlob, Idle
<1>2. ASSUME NEW q \in Requests, RefreshBlob(q) PROVE AttemptsLeft'
  BY <1>2 DEF RefreshBlob, Coordinate, Idle
<1>3. ASSUME NEW q \in Requests,
             AcquireLock(q) \/ LockTimeout(q) \/ Rotate(q) \/ CallFails(q)
             \/ ReceiveTokens(q) \/ LoseResponse(q) \/ PersistOk(q) \/ Commit(q)
             \/ CommitFails(q) \/ CommitValid(q)
      PROVE AttemptsLeft'
  <2>1. tries' = tries /\ pc[q] # "failed"
        /\ \E v \in Pcs : pc' = [pc EXCEPT ![q] = v]
    BY <1>3 DEF AcquireLock, LockTimeout, Rotate, CallFails, ReceiveTokens, LoseResponse,
                PersistOk, Commit, CommitFails, CommitValid, Pcs, InFlightAt, HasCalled
  <2>2. QED
    BY <2>1
<1>4. ASSUME NEW q \in Requests, PersistFails(q) PROVE AttemptsLeft'
  <2>1. tries[q] + 1 = PersistMax => pc' = [pc EXCEPT ![q] = "failed"]
    BY <1>4 DEF PersistFails
  <2>2. tries' = [tries EXCEPT ![q] = tries[q] + 1]
    BY <1>4 DEF PersistFails
  <2>3. pc' = pc \/ pc' = [pc EXCEPT ![q] = "failed"]
    BY <1>4 DEF PersistFails
  <2>4. QED
    BY <2>1, <2>2, <2>3
<1>5. ASSUME NEW q \in Requests, Resolve(q) PROVE AttemptsLeft'
  BY <1>5 DEF Resolve, EndFlight, Resumed
<1>6. ASSUME NEW q \in Requests, Reject(q) PROVE AttemptsLeft'
  <2>1. tries'[q] = 0
    BY <1>6 DEF Reject, EndFlight
  <2>2. ASSUME NEW p \in Requests, p # q PROVE tries'[p] = tries[p]
    BY <1>6, <2>2 DEF Reject, EndFlight
  <2>3. ASSUME NEW p \in Requests, pc[p] = "failed", p # q PROVE pc'[p] = "failed"
    BY <1>6, <2>3 DEF Reject, Cleared, Resumed
  <2>4. QED
    BY <2>1, <2>2, <2>3
<1>7. ASSUME NEW q \in Requests, Forward(q) PROVE AttemptsLeft'
  BY <1>7 DEF Forward, Accepted, RetryRejected, RejectedAgain, Answer, Coordinate
<1>8. CASE UNCHANGED <<tries, pc>>
  BY <1>8
<1>9. ASSUME NEW r \in Replicas, Crash(r) PROVE AttemptsLeft'
  <2>1. ASSUME NEW p \in Requests, tries'[p] # 0
        PROVE tries'[p] = tries[p] /\ pc'[p] = pc[p]
    BY <1>9, <2>1 DEF Crash, Cleared
  <2>2. QED
    BY <2>1
<1>10. QED
  BY <1>1, <1>2, <1>3, <1>4, <1>5, <1>6, <1>7, <1>8, <1>9
     DEF Next, Refresh, IdleTimeout, Expire, RevokeAccess, Reconnect, Disconnect, vars

(* The type invariant holds in every reachable state.                      *)
THEOREM TypeCorrect == Spec => [](TypeOK /\ AttemptsLeft)
BY InitTypeOK, NextTypeOK, NextAttemptsLeft, PTL DEF Spec

-----------------------------------------------------------------------------
(* An empty map entry has no owner and no waiter.                          *)
LEMMA InitSingleFlight == Init => SingleFlight
BY RefreshAssumption DEF Init, SingleFlight, InFlightAt, HasCalled

(* The inFlight entry of a replica and the pc of its owner move together.  *)
LEMMA NextSingleFlight == TypeOK /\ SingleFlight /\ [Next]_vars => SingleFlight'
<1> SUFFICES ASSUME TypeOK, SingleFlight, [Next]_vars PROVE SingleFlight'
  OBVIOUS
<1> USE RefreshAssumption DEF TypeOK, SingleFlight, request
<1>1. ASSUME NEW q \in Requests, UseBlob(q) PROVE SingleFlight'
  BY <1>1 DEF UseBlob, Idle, InFlightAt, HasCalled
<1>2. ASSUME NEW q \in Requests, NEW g, Coordinate(q, g), pc[q] \in Idle \cup {"forward"}
      PROVE SingleFlight'
  BY <1>2 DEF Coordinate, Idle, InFlightAt, HasCalled
<1>3. ASSUME NEW q \in Requests, inFlight' = inFlight, pc[q] \in InFlightAt,
             NEW v \in InFlightAt, pc' = [pc EXCEPT ![q] = v]
      PROVE SingleFlight'
  BY <1>3 DEF InFlightAt, HasCalled
<1>4. ASSUME NEW q \in Requests,
             AcquireLock(q) \/ LockTimeout(q) \/ Rotate(q) \/ CallFails(q)
             \/ ReceiveTokens(q) \/ LoseResponse(q) \/ PersistOk(q) \/ Commit(q)
             \/ CommitFails(q) \/ CommitValid(q)
      PROVE SingleFlight'
  <2>1. inFlight' = inFlight /\ pc[q] \in InFlightAt
        /\ \E v \in InFlightAt : pc' = [pc EXCEPT ![q] = v]
    BY <1>4 DEF AcquireLock, LockTimeout, Rotate, CallFails, ReceiveTokens, LoseResponse,
                PersistOk, Commit, CommitFails, CommitValid, InFlightAt, HasCalled
  <2>2. QED
    BY <1>3, <2>1
<1>5. ASSUME NEW q \in Requests, PersistFails(q) PROVE SingleFlight'
  <2>1. inFlight' = inFlight /\ pc[q] \in InFlightAt
        /\ \E v \in InFlightAt : pc' = [pc EXCEPT ![q] = v]
    BY <1>5 DEF PersistFails, InFlightAt, HasCalled
  <2>2. QED
    BY <1>3, <2>1
<1>6. ASSUME NEW q \in Requests, pc[q] \in InFlightAt, EndFlight(q), NEW S \in SUBSET Pcs,
             S \cap (InFlightAt \cup {"waiting"}) = {},
             \A p \in Requests : IF p \in Resumed(q) THEN pc'[p] \in S ELSE pc'[p] = pc[p]
      PROVE SingleFlight'
  <2>1. inFlight[Home[q]] = q /\ inFlight' = [inFlight EXCEPT ![Home[q]] = None]
    BY <1>6 DEF EndFlight
  <2>2. ASSUME NEW p \in Requests PROVE (pc'[p] \in InFlightAt) <=> (inFlight'[Home[p]] = p)
    BY <1>6, <2>1 DEF Resumed
  <2>3. ASSUME NEW p \in Requests, pc'[p] = "waiting" PROVE inFlight'[Home[p]] # None
    BY <1>6, <2>1, <2>3 DEF Resumed
  <2>4. QED
    BY <2>2, <2>3
<1>7. ASSUME NEW q \in Requests, Resolve(q) PROVE SingleFlight'
  <2>1. pc[q] \in InFlightAt /\ EndFlight(q)
    BY <1>7 DEF Resolve, InFlightAt
  <2>2. \A p \in Requests : IF p \in Resumed(q) THEN pc'[p] \in {"forward", "same_token"}
                                                ELSE pc'[p] = pc[p]
    BY <1>7 DEF Resolve
  <2>3. {"forward", "same_token"} \in SUBSET Pcs
        /\ {"forward", "same_token"} \cap (InFlightAt \cup {"waiting"}) = {}
    BY DEF Pcs, Idle, InFlightAt, HasCalled
  <2>4. QED
    BY <1>6, <2>1, <2>2, <2>3
<1>8. ASSUME NEW q \in Requests, Reject(q) PROVE SingleFlight'
  <2>1. pc[q] \in InFlightAt /\ EndFlight(q)
    BY <1>8 DEF Reject, InFlightAt
  <2>2. \A p \in Requests : IF p \in Resumed(q) THEN pc'[p] \in {"idle"}
                                                ELSE pc'[p] = pc[p]
    BY <1>8 DEF Reject, Cleared
  <2>3. {"idle"} \in SUBSET Pcs /\ {"idle"} \cap (InFlightAt \cup {"waiting"}) = {}
    BY DEF Pcs, Idle, InFlightAt, HasCalled
  <2>4. QED
    BY <1>6, <2>1, <2>2, <2>3
<1>9. ASSUME NEW q \in Requests, RefreshBlob(q) \/ RetryRejected(q) PROVE SingleFlight'
  BY <1>2, <1>9 DEF RefreshBlob, RetryRejected
<1>10. ASSUME NEW q \in Requests, Accepted(q) \/ RejectedAgain(q) PROVE SingleFlight'
  BY <1>10 DEF Accepted, RejectedAgain, Answer, InFlightAt, HasCalled
<1>11. CASE UNCHANGED <<inFlight, pc>>
  BY <1>11
<1>12. ASSUME NEW r \in Replicas, Crash(r) PROVE SingleFlight'
  <2>1. inFlight' = [inFlight EXCEPT ![r] = None]
    BY <1>12 DEF Crash
  <2>2. ASSUME NEW p \in Requests
        PROVE IF Home[p] = r THEN pc'[p] \in Idle ELSE pc'[p] = pc[p]
    BY <1>12 DEF Crash, Cleared, Dying, Idle
  <2>3. ASSUME NEW p \in Requests PROVE (pc'[p] \in InFlightAt) <=> (inFlight'[Home[p]] = p)
    BY <2>1, <2>2 DEF Idle, InFlightAt, HasCalled
  <2>4. ASSUME NEW p \in Requests, pc'[p] = "waiting" PROVE inFlight'[Home[p]] # None
    BY <2>1, <2>2, <2>4 DEF Idle
  <2>5. QED
    BY <2>3, <2>4
<1>13. QED
  BY <1>1, <1>4, <1>5, <1>7, <1>8, <1>9, <1>10, <1>11, <1>12
     DEF Next, Refresh, Forward, IdleTimeout, Expire, RevokeAccess, Reconnect, Disconnect, vars

(* On every replica at most one request refreshes, and it owns the entry.  *)
THEOREM SingleFlightHolds == Spec => []SingleFlight
<1>1. TypeOK /\ AttemptsLeft /\ SingleFlight /\ [Next]_vars
      => (TypeOK /\ AttemptsLeft /\ SingleFlight)'
  BY NextTypeOK, NextAttemptsLeft, NextSingleFlight
<1>2. QED
  BY <1>1, InitTypeOK, InitSingleFlight, PTL DEF Spec

-----------------------------------------------------------------------------
(* The row lock: who holds it, and what its holder knows.                  *)
LockInv == TxMatchesPc /\ RowLockExclusive /\ LockedReadIsCurrent

LEMMA InitLockInv == Init => LockInv
BY DEF Init, LockInv, TxMatchesPc, RowLockExclusive, LockedReadIsCurrent, Idle

(* A step that opens no transaction, writes no row and leaves the blob of  *)
(* every open transaction alone keeps the lock's facts.                    *)
LEMMA LockKept ==
  ASSUME TypeOK, LockInv, TypeOK', stored' = stored,
         \A p \in Requests : tx'[p] # "none" => tx'[p] = tx[p] /\ cur'[p] = cur[p],
         TxMatchesPc'
  PROVE  LockInv'
BY DEF TypeOK, LockInv, RowLockExclusive, LockedReadIsCurrent

LEMMA NextLockInv == TypeOK /\ TypeOK' /\ LockInv /\ [Next]_vars => LockInv'
<1> SUFFICES ASSUME TypeOK, TypeOK', LockInv, [Next]_vars PROVE LockInv'
  OBVIOUS
<1> USE DEF request
<1> DEFINE Bare == {"forward", "waiting", "lock", "committed"} \cup Idle
<1>0. /\ \A p \in Requests : pc[p] \in Bare => tx[p] = "none"
      /\ \A p \in Requests : pc[p] \in {"commit", "commit_valid"} => tx[p] = "locked"
      /\ \A p \in Requests : pc[p] \in {"call", "rotated", "persist"} => tx[p] # "none"
  BY DEF LockInv, TxMatchesPc
<1>1. ASSUME NEW q \in Requests, UseBlob(q) PROVE LockInv'
  <2>1. TxMatchesPc'
    BY <1>0, <1>1 DEF UseBlob, TxMatchesPc, TypeOK, Idle
  <2>2. QED
    BY <1>1, <2>1, LockKept DEF UseBlob
<1>2. ASSUME NEW q \in Requests, NEW g, Coordinate(q, g), pc[q] \in Idle \cup {"forward"},
             UNCHANGED <<stored, tx>>
      PROVE LockInv'
  <2>1. TxMatchesPc'
    BY <1>0, <1>2 DEF Coordinate, TxMatchesPc, TypeOK, Idle
  <2>2. \A p \in Requests : tx'[p] # "none" => cur'[p] = cur[p]
    BY <1>0, <1>2 DEF Coordinate, TypeOK
  <2>3. QED
    BY <1>2, <2>1, <2>2, LockKept
<1>3. ASSUME NEW q \in Requests, RefreshBlob(q) \/ RetryRejected(q) PROVE LockInv'
  BY <1>2, <1>3 DEF RefreshBlob, RetryRejected
<1>4. ASSUME NEW q \in Requests, AcquireLock(q) PROVE LockInv'
  <2>1. TxMatchesPc'
    <3>1. tx'[q] = "locked" \/ (tx'[q] = "rowless" /\ pc'[q] = "call")
      BY <1>4 DEF AcquireLock, TypeOK
    <3>2. pc'[q] \in {"call", "commit_valid"}
      BY <1>4 DEF AcquireLock, TypeOK
    <3>3. \A p \in Requests : p # q => pc'[p] = pc[p] /\ tx'[p] = tx[p]
      BY <1>4 DEF AcquireLock, TypeOK
    <3>4. QED
      BY <1>0, <3>1, <3>2, <3>3 DEF TxMatchesPc, Idle
  <2>2. CASE stored = NoRow
    <3>1. \A p \in Requests : tx'[p] = "locked" => tx[p] = "locked"
      BY <1>4, <2>2 DEF AcquireLock, TypeOK
    <3>2. stored' = stored /\ cur' = cur
      BY <1>4, <2>2 DEF AcquireLock, TypeOK
    <3>3. QED
      BY <2>1, <3>1, <3>2 DEF LockInv, RowLockExclusive, LockedReadIsCurrent
  <2>3. CASE stored # NoRow
    <3>1. \A p \in Requests : tx'[p] = "locked" => p = q
      BY <1>4, <2>3 DEF AcquireLock, TypeOK, RowFree
    <3>2. stored' = stored /\ cur'[q] = stored
      BY <1>4, <2>3 DEF AcquireLock, TypeOK
    <3>3. QED
      BY <2>1, <3>1, <3>2 DEF LockInv, RowLockExclusive, LockedReadIsCurrent
  <2>4. QED
    BY <2>2, <2>3
<1>5. ASSUME NEW q \in Requests,
             LockTimeout(q) \/ Rotate(q) \/ CallFails(q) \/ ReceiveTokens(q)
             \/ LoseResponse(q) \/ PersistOk(q)
      PROVE LockInv'
  <2>1. TxMatchesPc'
    BY <1>0, <1>5 DEF LockTimeout, Rotate, CallFails, ReceiveTokens, LoseResponse,
                      PersistOk, TxMatchesPc, TypeOK, Idle
  <2>2. stored' = stored /\ tx' = tx /\ cur' = cur
    BY <1>5 DEF LockTimeout, Rotate, CallFails, ReceiveTokens, LoseResponse, PersistOk
  <2>3. QED
    BY <2>1, <2>2, LockKept
<1>6. ASSUME NEW q \in Requests, PersistFails(q) PROVE LockInv'
  <2>1. TxMatchesPc'
    BY <1>0, <1>6 DEF PersistFails, TxMatchesPc, TypeOK, Idle
  <2>2. QED
    BY <1>6, <2>1, LockKept DEF PersistFails
<1>7. ASSUME NEW q \in Requests, Commit(q) PROVE LockInv'
  <2>1. TxMatchesPc'
    BY <1>0, <1>7 DEF Commit, TxMatchesPc, TypeOK, Idle
  <2>2. \A p \in Requests : tx'[p] # "locked"
    BY <1>0, <1>7 DEF Commit, LockInv, RowLockExclusive, TypeOK
  <2>3. QED
    BY <2>1, <2>2 DEF LockInv, RowLockExclusive, LockedReadIsCurrent
<1>8. ASSUME NEW q \in Requests, CommitFails(q) \/ CommitValid(q) PROVE LockInv'
  <2>1. TxMatchesPc'
    BY <1>0, <1>8 DEF CommitFails, CommitValid, TxMatchesPc, TypeOK, Idle
  <2>2. QED
    BY <1>8, <2>1, LockKept DEF CommitFails, CommitValid, TypeOK
<1>9. ASSUME NEW q \in Requests, Resolve(q) PROVE LockInv'
  <2>1. \A p \in Requests :
          IF p \in Resumed(q) THEN pc'[p] \in {"forward", "same_token"} /\ pc[p] \in Bare
                              ELSE pc'[p] = pc[p] /\ cur'[p] = cur[p]
    BY <1>9 DEF Resolve, Resumed, EndFlight, TypeOK
  <2>2. TxMatchesPc'
    BY <1>0, <1>9, <2>1 DEF Resolve, TxMatchesPc, Idle
  <2>3. QED
    BY <1>0, <1>9, <2>1, <2>2, LockKept DEF Resolve
<1>10. ASSUME NEW q \in Requests, Reject(q) PROVE LockInv'
  <2>1. \A p \in Requests :
          IF p = q THEN pc'[p] = "idle" /\ tx'[p] = "none"
          ELSE /\ tx'[p] = tx[p] /\ cur'[p] = cur[p]
               /\ pc'[p] = pc[p] \/ (pc'[p] = "idle" /\ pc[p] \in Bare)
    BY <1>10 DEF Reject, Resumed, Cleared, EndFlight, TypeOK
  <2>2. TxMatchesPc'
    BY <1>0, <1>10, <2>1 DEF TxMatchesPc, Idle
  <2>3. QED
    BY <1>10, <2>1, <2>2, LockKept DEF Reject
<1>11. ASSUME NEW q \in Requests, Accepted(q) \/ RejectedAgain(q) PROVE LockInv'
  <2>1. TxMatchesPc'
    BY <1>0, <1>11 DEF Accepted, RejectedAgain, Answer, TxMatchesPc, TypeOK, Idle
  <2>2. QED
    BY <1>11, <2>1, LockKept DEF Accepted, RejectedAgain, Answer
<1>12. ASSUME NEW q \in Requests, IdleTimeout(q) PROVE LockInv'
  <2>1. TxMatchesPc'
    BY <1>0, <1>12 DEF IdleTimeout, TxMatchesPc, TypeOK, Idle
  <2>2. \A p \in Requests : tx'[p] = "locked" => tx[p] = "locked"
    BY <1>12 DEF IdleTimeout, TypeOK
  <2>3. stored' = stored /\ cur' = cur
    BY <1>12 DEF IdleTimeout
  <2>4. QED
    BY <2>1, <2>2, <2>3 DEF LockInv, RowLockExclusive, LockedReadIsCurrent
<1>13. CASE Reconnect \/ Disconnect
  BY <1>13 DEF Reconnect, Disconnect, RowFree, LockInv, TxMatchesPc, RowLockExclusive,
               LockedReadIsCurrent
<1>14. CASE UNCHANGED <<stored, pc, tx, cur>>
  BY <1>14 DEF LockInv, TxMatchesPc, RowLockExclusive, LockedReadIsCurrent
<1>15. ASSUME NEW r \in Replicas, Crash(r) PROVE LockInv'
  <2>1. \A p \in Requests : \/ pc'[p] = "idle" /\ tx'[p] = "none"
                            \/ pc'[p] = pc[p] /\ tx'[p] = tx[p] /\ cur'[p] = cur[p]
    BY <1>15 DEF Crash, Cleared
  <2>2. TxMatchesPc'
    BY <1>0, <2>1 DEF TxMatchesPc, Idle
  <2>3. QED
    BY <1>15, <2>1, <2>2, LockKept DEF Crash
<1>16. QED
  BY <1>1, <1>3, <1>4, <1>5, <1>6, <1>7, <1>8, <1>9, <1>10, <1>11, <1>12, <1>13, <1>14, <1>15
     DEF Next, Refresh, Forward, Expire, RevokeAccess, vars

(* What a refresh read under the row lock stays the row's value for as     *)
(* long as the lock is held.                                               *)
THEOREM LockedReadHolds == Spec => []LockedReadIsCurrent
<1>1. TypeOK /\ AttemptsLeft /\ LockInv /\ [Next]_vars => (TypeOK /\ AttemptsLeft /\ LockInv)'
  BY NextTypeOK, NextAttemptsLeft, NextLockInv
<1>2. LockInv => LockedReadIsCurrent
  BY DEF LockInv
<1>3. QED
  BY <1>1, <1>2, InitTypeOK, InitLockInv, PTL DEF Spec

-----------------------------------------------------------------------------
(* The generations: what is in use was committed, what is not yet          *)
(* committed belongs to one request.                                       *)
GenInv == BlobsInUse /\ SuccessorIsOwn

LEMMA InitGenInv == Init => GenInv
BY RefreshAssumption
   DEF Init, GenInv, BlobsInUse, SuccessorIsOwn, Idle, HasCalled, NoRow, Gens

(* A step that leaves the generations alone keeps GenInv, when every       *)
(* request uses committed blobs and no request starts to hold a successor. *)
LEMMA GenKept ==
  ASSUME TypeOK, GenInv, TypeOK', UNCHANGED <<live, minted, stored, seen>>,
         \A p \in Requests : cur'[p] \in seen /\ token'[p] \in seen,
         \A p \in Requests : pc'[p] = "committed" => new'[p] \in seen,
         \A p \in Requests : tx'[p] = "rowless" => cur'[p] # stored,
         \A p \in Requests : pc'[p] \in HasCalled =>
            pc[p] \in HasCalled /\ new'[p] = new[p] /\ cur'[p] = cur[p]
  PROVE  GenInv'
<1>1. BlobsInUse'
  BY DEF GenInv, BlobsInUse
<1>2. SuccessorIsOwn'
  BY DEF GenInv, SuccessorIsOwn
<1>3. QED
  BY <1>1, <1>2 DEF GenInv

LEMMA NextGenInv == TypeOK /\ TypeOK' /\ LockInv /\ GenInv /\ [Next]_vars => GenInv'
<1> SUFFICES ASSUME TypeOK, TypeOK', LockInv, GenInv, [Next]_vars PROVE GenInv'
  OBVIOUS
<1> USE DEF request, provider
<1>0. /\ 0 \in seen
      /\ \A p \in Requests : cur[p] \in seen /\ token[p] \in seen
      /\ \A p \in Requests : pc[p] = "committed" => new[p] \in seen
      /\ \A p \in Requests : tx[p] = "rowless" => cur[p] # stored
      /\ \A p \in Requests : pc[p] \in {"committed", "waiting", "forward"} \cup Idle
                               => tx[p] = "none"
  BY DEF GenInv, BlobsInUse, LockInv, TxMatchesPc
<1>1. ASSUME NEW q \in Requests, UseBlob(q) PROVE GenInv'
  BY <1>0, <1>1, GenKept DEF UseBlob, TypeOK, HasCalled
<1>2. ASSUME NEW q \in Requests, NEW g \in seen, Coordinate(q, g), pc[q] \in Idle \cup {"forward"},
             UNCHANGED <<provider, stored, seen, tx, new, token>>
      PROVE GenInv'
  <2>1. \A p \in Requests : cur'[p] \in seen
    BY <1>0, <1>2 DEF Coordinate, TypeOK
  <2>2. \A p \in Requests : tx'[p] = "rowless" => cur'[p] # stored
    BY <1>0, <1>2 DEF Coordinate, TypeOK
  <2>3. \A p \in Requests : pc'[p] \in HasCalled \cup {"committed"} =>
                              pc[p] = pc'[p] /\ cur'[p] = cur[p]
    BY <1>2 DEF Coordinate, TypeOK, HasCalled
  <2>4. QED
    BY <1>0, <1>2, <2>1, <2>2, <2>3, GenKept
<1>3. ASSUME NEW q \in Requests, RefreshBlob(q) \/ RetryRejected(q) PROVE GenInv'
  BY <1>2, <1>3 DEF RefreshBlob, RetryRejected
<1>4. ASSUME NEW q \in Requests, AcquireLock(q) PROVE GenInv'
  <2>1. \A p \in Requests : cur'[p] \in seen
    BY <1>0, <1>4 DEF AcquireLock, TypeOK, GenInv, BlobsInUse
  <2>2. \A p \in Requests : tx'[p] = "rowless" => cur'[p] # stored
    <3>1. ASSUME NEW p \in Requests, p # q PROVE tx'[p] = tx[p] /\ cur'[p] = cur[p]
      BY <1>4, <3>1 DEF AcquireLock, TypeOK
    <3>2. tx'[q] = "rowless" => stored = NoRow
      BY <1>4 DEF AcquireLock, TypeOK
    <3>3. cur'[q] # NoRow
      BY <2>1, RefreshAssumption DEF TypeOK, Gens, NoRow
    <3>4. QED
      BY <1>0, <3>1, <3>2, <3>3
  <2>3. \A p \in Requests : pc'[p] \in HasCalled \cup {"committed"} =>
                              pc[p] = pc'[p] /\ cur'[p] = cur[p]
    BY <1>4 DEF AcquireLock, TypeOK, HasCalled
  <2>4. QED
    BY <1>0, <1>4, <2>1, <2>2, <2>3, GenKept DEF AcquireLock
<1>5. ASSUME NEW q \in Requests,
             LockTimeout(q) \/ CallFails(q) \/ ReceiveTokens(q) \/ LoseResponse(q)
             \/ PersistOk(q) \/ IdleTimeout(q)
      PROVE GenInv'
  <2>1. UNCHANGED <<live, minted, stored, seen, cur, new, token>>
    BY <1>5 DEF LockTimeout, CallFails, ReceiveTokens, LoseResponse, PersistOk, IdleTimeout
  <2>2. \A p \in Requests : tx'[p] = "rowless" => tx[p] = "rowless"
    BY <1>5 DEF LockTimeout, CallFails, ReceiveTokens, LoseResponse, PersistOk, IdleTimeout,
                TypeOK
  <2>3. \A p \in Requests : /\ pc'[p] \in HasCalled => pc[p] \in HasCalled
                            /\ pc'[p] = "committed" => pc[p] = "committed"
    BY <1>5 DEF LockTimeout, CallFails, ReceiveTokens, LoseResponse, PersistOk, IdleTimeout,
                TypeOK, HasCalled
  <2>4. QED
    BY <1>0, <2>1, <2>2, <2>3, GenKept
<1>6. ASSUME NEW q \in Requests, PersistFails(q) PROVE GenInv'
  <2>1. UNCHANGED <<live, minted, stored, seen, cur, new, token, tx>>
    BY <1>6 DEF PersistFails
  <2>2. \A p \in Requests : /\ pc'[p] \in HasCalled => pc[p] \in HasCalled
                            /\ pc'[p] = "committed" => pc[p] = "committed"
    BY <1>6 DEF PersistFails, TypeOK, HasCalled
  <2>3. QED
    BY <1>0, <2>1, <2>2, GenKept
<1>7. ASSUME NEW q \in Requests, Rotate(q) PROVE GenInv'
  <2>1. BlobsInUse'
    <3>1. live' \cup seen' \subseteq 0 .. minted'
      <4>1. minted \in Nat /\ live \cup seen \subseteq 0 .. minted
        BY DEF GenInv, BlobsInUse, TypeOK, Gens
      <4>2. minted' = minted + 1 /\ seen' = seen /\ live' \subseteq live \cup {minted + 1}
        BY <1>7 DEF Rotate
      <4>3. QED
        BY <4>1, <4>2
    <3>2. \A p \in Requests : pc'[p] = "committed" => pc[p] = "committed" /\ new'[p] = new[p]
      BY <1>7 DEF Rotate, TypeOK
    <3>3. UNCHANGED <<seen, stored, cur, token, tx>>
      BY <1>7 DEF Rotate
    <3>4. QED
      BY <1>0, <3>1, <3>2, <3>3 DEF GenInv, BlobsInUse
  <2>2. ASSUME NEW p \in Requests, pc'[p] \in HasCalled
        PROVE /\ new'[p] \in live' \ seen' /\ cur'[p] \notin live' /\ cur'[p] < new'[p]
              /\ p # q => new'[p] # new'[q]
    <3>1. CASE p = q
      BY <1>0, <1>7, <3>1 DEF Rotate, GenInv, BlobsInUse, TypeOK, Gens
    <3>2. CASE p # q
      <4>1. pc[p] \in HasCalled /\ new'[p] = new[p] /\ cur'[p] = cur[p] /\ seen' = seen
        BY <1>7, <2>2, <3>2 DEF Rotate, TypeOK
      <4>2. new[p] \in live \ seen /\ cur[p] \notin live /\ cur[p] < new[p]
        BY <4>1 DEF GenInv, SuccessorIsOwn
      <4>3. new[p] # cur[q]
        BY <1>0, <4>2
      <4>4. new[p] # minted + 1 /\ cur[p] # minted + 1
        BY <1>0, <4>2 DEF GenInv, BlobsInUse, TypeOK, Gens
      <4>5. live' = (live \ {cur[q]}) \cup {minted + 1} /\ new'[q] = minted + 1
        BY <1>7 DEF Rotate, TypeOK
      <4>6. QED
        BY <4>1, <4>2, <4>3, <4>4, <4>5
    <3>3. QED
      BY <3>1, <3>2
  <2>3. \A p, s \in Requests : pc'[p] \in HasCalled /\ pc'[s] \in HasCalled /\ new'[p] = new'[s]
                                 => p = s
    <3>1. \A p \in Requests : p # q /\ pc'[p] \in HasCalled
                                => pc[p] \in HasCalled /\ new'[p] = new[p]
      BY <1>7 DEF Rotate, TypeOK
    <3>2. QED
      BY <2>2, <3>1 DEF GenInv, SuccessorIsOwn
  <2>4. QED
    BY <2>1, <2>2, <2>3 DEF GenInv, SuccessorIsOwn
<1>8. ASSUME NEW q \in Requests, Commit(q) PROVE GenInv'
  <2>1. /\ pc[q] = "commit" /\ pc' = [pc EXCEPT ![q] = "committed"]
        /\ stored' = new[q] /\ seen' = seen \cup {new[q]}
        /\ UNCHANGED <<live, minted, cur, new, token>>
    BY <1>8 DEF Commit
  <2>2. new[q] \in live \ seen
    BY <2>1 DEF GenInv, SuccessorIsOwn, HasCalled
  <2>3. \A p \in Requests : tx'[p] = "rowless" => cur'[p] # stored'
    BY <1>0, <2>1, <2>2
  <2>4. BlobsInUse'
    BY <1>0, <2>1, <2>2, <2>3 DEF GenInv, BlobsInUse, TypeOK
  <2>5. \A p \in Requests : pc'[p] \in HasCalled => p # q /\ pc[p] \in HasCalled
    BY <2>1 DEF TypeOK, HasCalled
  <2>6. SuccessorIsOwn'
    BY <2>1, <2>2, <2>5 DEF GenInv, SuccessorIsOwn, HasCalled
  <2>7. QED
    BY <2>4, <2>6 DEF GenInv
<1>9. ASSUME NEW q \in Requests, CommitFails(q) \/ CommitValid(q) PROVE GenInv'
  <2>1. UNCHANGED <<live, minted, stored, seen, cur, token>>
    BY <1>9 DEF CommitFails, CommitValid
  <2>2. \A p \in Requests : tx'[p] = "rowless" => tx[p] = "rowless"
    BY <1>9 DEF CommitFails, CommitValid, TypeOK
  <2>3. \A p \in Requests : /\ pc'[p] \in HasCalled => pc[p] \in HasCalled /\ new'[p] = new[p]
                            /\ pc'[p] = "committed" => new'[p] \in seen
    BY <1>0, <1>9 DEF CommitFails, CommitValid, TypeOK, HasCalled
  <2>4. QED
    BY <1>0, <2>1, <2>2, <2>3, GenKept
<1>10. ASSUME NEW q \in Requests, Resolve(q) PROVE GenInv'
  <2>1. UNCHANGED <<live, minted, stored, seen, tx>> /\ EndFlight(q) /\ pc[q] = "committed"
    BY <1>10 DEF Resolve
  <2>2. \A p \in Requests : token'[p] \in seen
    BY <1>0, <1>10 DEF Resolve
  <2>3. \A p \in Requests : cur'[p] \in seen /\ (p # q => cur'[p] = cur[p] /\ new'[p] = new[p])
    BY <1>0, <2>1 DEF EndFlight, TypeOK
  <2>4. \A p \in Requests :
          pc'[p] \in HasCalled \cup {"committed"} => p # q /\ pc'[p] = pc[p]
    BY <1>10 DEF Resolve, Resumed, HasCalled
  <2>5. QED
    BY <1>0, <2>1, <2>2, <2>3, <2>4, GenKept
<1>11. ASSUME NEW q \in Requests, Reject(q) PROVE GenInv'
  <2>1. UNCHANGED <<live, minted, stored, seen>> /\ EndFlight(q)
    BY <1>11 DEF Reject
  <2>2. \A p \in Requests : token'[p] \in seen
    BY <1>0, <1>11 DEF Reject, Cleared
  <2>3. \A p \in Requests : cur'[p] \in seen /\ (p # q => cur'[p] = cur[p] /\ new'[p] = new[p])
    BY <1>0, <2>1 DEF EndFlight, TypeOK
  <2>4. \A p \in Requests :
          pc'[p] \in HasCalled \cup {"committed"} => p # q /\ pc'[p] = pc[p]
    BY <1>11 DEF Reject, Resumed, Cleared, HasCalled
  <2>5. \A p \in Requests : tx'[p] = "rowless" => p # q /\ tx[p] = "rowless"
    BY <1>11 DEF Reject, TypeOK
  <2>6. QED
    BY <1>0, <2>1, <2>2, <2>3, <2>4, <2>5, GenKept
<1>12. ASSUME NEW q \in Requests, Accepted(q) \/ RejectedAgain(q) PROVE GenInv'
  <2>1. UNCHANGED <<live, minted, stored, seen, cur, new, tx>>
    BY <1>12 DEF Accepted, RejectedAgain, Answer
  <2>2. \A p \in Requests : token'[p] \in seen
    BY <1>0, <1>12 DEF Accepted, RejectedAgain, Answer, TypeOK
  <2>3. \A p \in Requests : pc'[p] \in HasCalled \cup {"committed"} => pc'[p] = pc[p]
    BY <1>12 DEF Accepted, RejectedAgain, Answer, TypeOK, HasCalled
  <2>4. QED
    BY <1>0, <2>1, <2>2, <2>3, GenKept
<1>13. CASE Reconnect
  <2>1. /\ minted + 1 \notin live \cup seen /\ minted' = minted + 1
        /\ live' = live \cup {minted + 1} /\ seen' = seen \cup {minted + 1}
        /\ stored' = minted + 1 /\ UNCHANGED <<pc, cur, new, token, tx>>
    BY <1>13 DEF Reconnect, GenInv, BlobsInUse, TypeOK, Gens
  <2>2. BlobsInUse'
    BY <1>0, <2>1 DEF GenInv, BlobsInUse, TypeOK, Gens
  <2>3. SuccessorIsOwn'
    BY <1>0, <2>1 DEF GenInv, SuccessorIsOwn
  <2>4. QED
    BY <2>2, <2>3 DEF GenInv
<1>14. CASE Disconnect
  <2>2. \A p \in Requests : cur[p] # NoRow
    BY RefreshAssumption DEF TypeOK, Gens, NoRow
  <2>3. BlobsInUse'
    BY <1>0, <1>14, <2>2 DEF Disconnect, GenInv, BlobsInUse
  <2>4. SuccessorIsOwn'
    BY <1>14 DEF Disconnect, GenInv, SuccessorIsOwn
  <2>5. QED
    BY <2>3, <2>4 DEF GenInv
<1>15. CASE UNCHANGED <<live, minted, stored, seen, pc, cur, new, token, tx>>
  BY <1>0, <1>15, GenKept
<1>16. ASSUME NEW r \in Replicas, Crash(r) PROVE GenInv'
  <2>1. \A p \in Requests :
          \/ pc'[p] = "idle" /\ tx'[p] = "none" /\ cur'[p] = 0 /\ token'[p] = 0
          \/ /\ pc'[p] = pc[p] /\ tx'[p] = tx[p] /\ cur'[p] = cur[p]
             /\ new'[p] = new[p] /\ token'[p] = token[p]
    BY <1>16 DEF Crash, Cleared
  <2>2. UNCHANGED <<live, minted, stored, seen>>
    BY <1>16 DEF Crash
  <2>3. QED
    BY <1>0, <2>1, <2>2, GenKept DEF HasCalled
<1>17. QED
  BY <1>1, <1>3, <1>4, <1>5, <1>6, <1>7, <1>8, <1>9, <1>10, <1>11, <1>12, <1>13, <1>14,
     <1>15, <1>16 DEF Next, Refresh, Forward, Expire, RevokeAccess, vars

-----------------------------------------------------------------------------
(* The stored token, and the tokens refreshes are about to present.        *)
LEMMA InitUsable == Init => StoredTokenUsable /\ DeadTokenExplained
BY DEF Init, StoredTokenUsable, DeadTokenExplained

(* A step after which every spent token is accounted for as before.        *)
LEMMA UsableKept ==
  ASSUME TypeOK, StoredTokenUsable, DeadTokenExplained, stored' = stored,
         live \subseteq live', lost \subseteq lost',
         \A p \in Requests : pc[p] \in HasCalled =>
            \/ cur[p] \in lost'
            \/ pc'[p] \in HasCalled /\ cur'[p] = cur[p] /\ (tx[p] = "cut" => tx'[p] = "cut"),
         \A p \in Requests : pc'[p] = "call" /\ tx'[p] = "locked" =>
            pc[p] = "call" /\ tx[p] = "locked" /\ cur'[p] = cur[p]
  PROVE  StoredTokenUsable' /\ DeadTokenExplained'
<1>1. StoredTokenUsable'
  BY DEF StoredTokenUsable
<1>2. DeadTokenExplained'
  BY DEF DeadTokenExplained
<1>3. QED
  BY <1>1, <1>2

LEMMA NextUsable ==
  TypeOK /\ TypeOK' /\ LockInv /\ LockInv' /\ GenInv /\ GenInv'
  /\ StoredTokenUsable /\ DeadTokenExplained /\ [Next]_vars
  => StoredTokenUsable' /\ DeadTokenExplained'
<1> SUFFICES ASSUME TypeOK, TypeOK', LockInv, LockInv', GenInv, GenInv',
                    StoredTokenUsable, DeadTokenExplained, [Next]_vars
             PROVE  StoredTokenUsable' /\ DeadTokenExplained'
  OBVIOUS
<1> USE DEF request, provider
<1>0. \A p \in Requests : pc[p] \in {"commit", "commit_valid"} => tx[p] = "locked"
  BY DEF LockInv, TxMatchesPc
<1>1. ASSUME NEW q \in Requests, UseBlob(q) \/ Accepted(q) \/ RejectedAgain(q)
      PROVE StoredTokenUsable' /\ DeadTokenExplained'
  <2>1. UNCHANGED <<live, lost, stored, cur, tx>> /\ pc[q] \in Idle \cup {"forward"}
        /\ pc' \in {[pc EXCEPT ![q] = "forward"], [pc EXCEPT ![q] = "idle"]}
    BY <1>1 DEF UseBlob, Accepted, RejectedAgain, Answer
  <2>2. QED
    BY <2>1, UsableKept DEF TypeOK, HasCalled, Idle
<1>2. ASSUME NEW q \in Requests, NEW g, Coordinate(q, g), pc[q] \in Idle \cup {"forward"},
             UNCHANGED <<live, lost, stored, tx>>
      PROVE StoredTokenUsable' /\ DeadTokenExplained'
  <2>1. \A p \in Requests : p # q => pc'[p] = pc[p] /\ cur'[p] = cur[p]
    BY <1>2 DEF Coordinate, TypeOK
  <2>2. pc'[q] \notin HasCalled \cup {"call"} /\ pc[q] \notin HasCalled
    BY <1>2 DEF Coordinate, TypeOK, HasCalled, Idle
  <2>3. QED
    BY <1>2, <2>1, <2>2, UsableKept
<1>3. ASSUME NEW q \in Requests, RefreshBlob(q) \/ RetryRejected(q)
      PROVE StoredTokenUsable' /\ DeadTokenExplained'
  BY <1>2, <1>3 DEF RefreshBlob, RetryRejected
<1>4. ASSUME NEW q \in Requests, AcquireLock(q) PROVE StoredTokenUsable' /\ DeadTokenExplained'
  <2>1. /\ UNCHANGED <<live, lost, stored>> /\ pc[q] = "lock"
        /\ \A p \in Requests : p # q => pc'[p] = pc[p] /\ cur'[p] = cur[p] /\ tx'[p] = tx[p]
    BY <1>4 DEF AcquireLock, TypeOK
  <2>2. \A p \in Requests : pc[p] \in HasCalled => p # q
    BY <2>1 DEF HasCalled
  <2>3. StoredTokenUsable'
    BY <2>1, <2>2 DEF StoredTokenUsable
  <2>4. ASSUME NEW p \in Requests, pc'[p] = "call", tx'[p] = "locked", cur'[p] \notin live'
        PROVE \/ cur'[p] \in lost'
              \/ \E s \in Requests : pc'[s] \in HasCalled /\ tx'[s] = "cut" /\ cur'[s] = cur'[p]
    <3>1. CASE p # q
      BY <2>1, <2>2, <2>4, <3>1 DEF DeadTokenExplained
    <3>2. CASE p = q
      <4>1. stored # NoRow /\ RowFree /\ cur'[q] = stored
        BY <1>4, <2>4, <3>2 DEF AcquireLock, TypeOK
      <4>2. CASE stored \in lost
        BY <2>1, <3>2, <4>1, <4>2
      <4>3. CASE stored \notin lost
        <5>1. PICK s \in Requests : pc[s] \in HasCalled /\ cur[s] = stored
          BY <2>1, <2>4, <3>2, <4>1, <4>3 DEF StoredTokenUsable
        <5>2. tx[s] # "locked" /\ tx[s] # "rowless" /\ tx[s] # "none"
          BY <4>1, <5>1 DEF RowFree, GenInv, BlobsInUse, LockInv, TxMatchesPc, HasCalled
        <5>3. tx[s] = "cut"
          BY <5>2 DEF TypeOK, TxStates
        <5>4. QED
          BY <2>1, <2>2, <3>2, <4>1, <5>1, <5>3
      <4>4. QED
        BY <4>2, <4>3
    <3>3. QED
      BY <3>1, <3>2
  <2>5. QED
    BY <2>3, <2>4 DEF DeadTokenExplained
<1>5. ASSUME NEW q \in Requests, Rotate(q) PROVE StoredTokenUsable' /\ DeadTokenExplained'
  <2>1. /\ live \ {cur[q]} \subseteq live' /\ pc[q] = "call" /\ pc'[q] \in HasCalled
        /\ UNCHANGED <<stored, tx, cur, lost>>
        /\ \A p \in Requests : p # q => pc'[p] = pc[p]
    BY <1>5 DEF Rotate, TypeOK, HasCalled
  <2>2. \A p \in Requests : pc[p] \in HasCalled => pc'[p] \in HasCalled
    BY <2>1
  <2>3. StoredTokenUsable'
    BY <2>1, <2>2 DEF StoredTokenUsable
  <2>4. ASSUME NEW p \in Requests, pc'[p] = "call", tx'[p] = "locked", cur'[p] \notin live'
        PROVE \/ cur'[p] \in lost'
              \/ \E s \in Requests : pc'[s] \in HasCalled /\ tx'[s] = "cut" /\ cur'[s] = cur'[p]
    <3>1. p # q /\ pc[p] = "call" /\ tx[p] = "locked"
      BY <2>1, <2>4 DEF HasCalled
    <3>2. CASE cur[p] \notin live
      BY <2>1, <2>2, <3>1, <3>2 DEF DeadTokenExplained
    <3>3. CASE cur[p] \in live
      <4>1. cur[p] = cur[q]
        BY <2>1, <2>4, <3>3
      <4>2. stored = cur[p]
        BY <3>1 DEF LockInv, LockedReadIsCurrent
      <4>3. tx[q] # "locked" /\ tx[q] # "rowless" /\ tx[q] # "none"
        BY <2>1, <3>1, <4>1, <4>2
           DEF LockInv, RowLockExclusive, TxMatchesPc, GenInv, BlobsInUse
      <4>4. tx[q] = "cut"
        BY <4>3 DEF TypeOK, TxStates
      <4>5. QED
        BY <2>1, <4>1, <4>4
    <3>4. QED
      BY <3>2, <3>3
  <2>5. QED
    BY <2>3, <2>4 DEF DeadTokenExplained
<1>6. ASSUME NEW q \in Requests,
             LockTimeout(q) \/ CallFails(q) \/ ReceiveTokens(q) \/ LoseResponse(q)
             \/ PersistOk(q) \/ IdleTimeout(q)
      PROVE StoredTokenUsable' /\ DeadTokenExplained'
  <2>1. /\ UNCHANGED <<live, stored, cur>> /\ lost \subseteq lost'
        /\ \A p \in Requests : tx'[p] = tx[p] \/ tx'[p] = "cut"
    BY <1>6 DEF LockTimeout, CallFails, ReceiveTokens, LoseResponse, PersistOk, IdleTimeout,
                TypeOK
  <2>2. \A p \in Requests : /\ pc[p] \in HasCalled => pc'[p] \in HasCalled \/ cur[p] \in lost'
                            /\ pc'[p] = "call" => pc[p] = "call"
    BY <1>6 DEF LockTimeout, CallFails, ReceiveTokens, LoseResponse, PersistOk, IdleTimeout,
                TypeOK, HasCalled
  <2>3. QED
    BY <2>1, <2>2, UsableKept
<1>7. ASSUME NEW q \in Requests, PersistFails(q) PROVE StoredTokenUsable' /\ DeadTokenExplained'
  <2>1. UNCHANGED <<live, stored, cur, tx>> /\ lost \subseteq lost'
    BY <1>7 DEF PersistFails
  <2>2. \A p \in Requests : /\ pc[p] \in HasCalled => pc'[p] \in HasCalled \/ cur[p] \in lost'
                            /\ pc'[p] = "call" => pc[p] = "call"
    BY <1>7 DEF PersistFails, TypeOK, HasCalled
  <2>3. QED
    BY <2>1, <2>2, UsableKept
<1>8. ASSUME NEW q \in Requests, Commit(q) PROVE StoredTokenUsable' /\ DeadTokenExplained'
  <2>1. /\ pc[q] = "commit" /\ stored' = new[q] /\ UNCHANGED <<live, cur, lost>>
        /\ \A p \in Requests : p # q => pc'[p] = pc[p] /\ tx'[p] = tx[p]
        /\ pc'[q] = "committed"
    BY <1>8 DEF Commit, TypeOK
  <2>2. StoredTokenUsable'
    BY <2>1 DEF StoredTokenUsable, GenInv, SuccessorIsOwn, HasCalled
  <2>3. \A p \in Requests : pc'[p] = "call" => tx'[p] # "locked"
    BY <1>0, <2>1 DEF LockInv, RowLockExclusive
  <2>4. QED
    BY <2>2, <2>3 DEF DeadTokenExplained
<1>9. ASSUME NEW q \in Requests, CommitFails(q) \/ CommitValid(q)
      PROVE StoredTokenUsable' /\ DeadTokenExplained'
  <2>1. /\ UNCHANGED <<live, stored, cur>> /\ lost \subseteq lost' /\ pc'[q] # "call"
        /\ pc[q] \in HasCalled => cur[q] \in lost'
        /\ \A p \in Requests : p # q => pc'[p] = pc[p] /\ tx'[p] = tx[p]
    BY <1>9 DEF CommitFails, CommitValid, TypeOK, HasCalled
  <2>2. QED
    BY <2>1, UsableKept
<1>10. ASSUME NEW q \in Requests, Resolve(q) \/ Reject(q)
       PROVE StoredTokenUsable' /\ DeadTokenExplained'
  <2>1. /\ UNCHANGED <<live, stored, lost>> /\ pc[q] \notin HasCalled
        /\ \A p \in Requests : p # q => cur'[p] = cur[p] /\ tx'[p] = tx[p]
        /\ pc'[q] \notin HasCalled \cup {"call"}
    BY <1>10 DEF Resolve, Reject, EndFlight, Resumed, Cleared, TypeOK, HasCalled
  <2>2. \A p \in Requests :
          pc[p] \in HasCalled \cup {"call"} \/ pc'[p] \in HasCalled \cup {"call"} => pc'[p] = pc[p] \/ p = q
    BY <1>10 DEF Resolve, Reject, Resumed, Cleared, HasCalled
  <2>3. QED
    BY <2>1, <2>2, UsableKept
<1>11. CASE Reconnect
  <2>1. \A p \in Requests : tx'[p] # "locked"
    BY <1>11 DEF Reconnect, RowFree
  <2>2. stored' \in live'
    BY <1>11 DEF Reconnect
  <2>3. QED
    BY <2>1, <2>2 DEF StoredTokenUsable, DeadTokenExplained
<1>12. CASE Disconnect
  <2>1. \A p \in Requests : tx'[p] # "locked"
    BY <1>12 DEF Disconnect, RowFree
  <2>2. stored' = NoRow
    BY <1>12 DEF Disconnect
  <2>3. QED
    BY <2>1, <2>2 DEF StoredTokenUsable, DeadTokenExplained
<1>13. CASE UNCHANGED <<live, stored, pc, cur, tx, lost>>
  BY <1>13, UsableKept
<1>14. ASSUME NEW r \in Replicas, Crash(r) PROVE StoredTokenUsable' /\ DeadTokenExplained'
  <2>1. \A p \in Requests :
          \/ p \in Dying(r) /\ pc'[p] = "idle"
          \/ p \notin Dying(r) /\ pc'[p] = pc[p] /\ tx'[p] = tx[p] /\ cur'[p] = cur[p]
    BY <1>14 DEF Crash, Cleared
  <2>2. \A p \in Dying(r) : pc[p] \in HasCalled => cur[p] \in lost'
    BY <1>14 DEF Crash
  <2>3. UNCHANGED <<live, stored>> /\ lost \subseteq lost'
    BY <1>14 DEF Crash
  <2>4. QED
    BY <2>1, <2>2, <2>3, UsableKept
<1>15. QED
  BY <1>1, <1>3, <1>4, <1>5, <1>6, <1>7, <1>8, <1>9, <1>10, <1>11, <1>12, <1>13, <1>14
     DEF Next, Refresh, Forward, Expire, RevokeAccess, vars

-----------------------------------------------------------------------------
(* The whole inductive invariant.                                          *)
THEOREM Invariance == Spec => []RefreshInv
<1>1. Init => RefreshInv
  BY InitTypeOK, InitSingleFlight, InitLockInv, InitGenInv, InitUsable
     DEF RefreshInv, LockInv, GenInv
<1>2. RefreshInv /\ [Next]_vars => RefreshInv'
  BY NextTypeOK, NextAttemptsLeft, NextSingleFlight, NextLockInv, NextGenInv, NextUsable
     DEF RefreshInv, LockInv, GenInv
<1>3. QED
  BY <1>1, <1>2, PTL DEF Spec

(* The stored credential can refresh unless a rotation is under way or a   *)
(* named failure lost its successor.                                       *)
THEOREM StoredTokenStaysUsable == Spec => []StoredTokenUsable
<1>1. RefreshInv => StoredTokenUsable
  BY DEF RefreshInv
<1>2. QED
  BY <1>1, Invariance, PTL

(* A refresh that holds the lock presents a dead token only for one of the *)
(* two named reasons.                                                      *)
THEOREM DeadTokensExplained == Spec => []DeadTokenExplained
<1>1. RefreshInv => DeadTokenExplained
  BY DEF RefreshInv
<1>2. QED
  BY <1>1, Invariance, PTL

(* Forwarded tokens were committed: BlobsInUse says it of every token.     *)
THEOREM ForwardedTokensDurable == Spec => []ForwardedTokenIsDurable
<1>1. RefreshInv => ForwardedTokenIsDurable
  BY DEF RefreshInv, BlobsInUse, ForwardedTokenIsDurable
<1>2. QED
  BY <1>1, Invariance, PTL

(* Whatever the interleaving, the row only moves to newer generations.     *)
THEOREM RowNeverRegresses == Spec => NeverRegresses
<1>1. RefreshInv /\ [Next]_vars
      => [stored # NoRow /\ stored' # NoRow => stored' >= stored]_vars
  <2> SUFFICES ASSUME RefreshInv, [Next]_vars, stored # NoRow, stored' # NoRow
               PROVE  stored' >= stored
    OBVIOUS
  <2>1. stored \in Gens /\ stored \in seen
    BY DEF RefreshInv, TypeOK, BlobsInUse
  <2>2. CASE stored' = stored
    BY <2>1, <2>2 DEF Gens
  <2>3. ASSUME NEW q \in Requests, Commit(q) PROVE stored' >= stored
    <3>1. stored = cur[q] /\ cur[q] < new[q] /\ stored' = new[q]
      BY <2>3 DEF Commit, RefreshInv, TxMatchesPc, LockedReadIsCurrent, SuccessorIsOwn,
                  HasCalled
    <3>2. new[q] \in Gens
      BY DEF RefreshInv, TypeOK
    <3>3. QED
      BY <2>1, <3>1, <3>2 DEF Gens
  <2>4. CASE Reconnect
    BY <2>1, <2>4 DEF Reconnect, RefreshInv, BlobsInUse, TypeOK, Gens
  <2>5. QED
    BY <2>2, <2>3, <2>4
       DEF Next, Refresh, Forward, UseBlob, RefreshBlob, AcquireLock, LockTimeout, Rotate,
           CallFails, ReceiveTokens, LoseResponse, PersistOk, PersistFails, CommitFails,
           CommitValid, Resolve, Reject, Accepted, RetryRejected, RejectedAgain, Answer,
           IdleTimeout, Expire, RevokeAccess, Disconnect, Crash, vars
<1>2. QED
  BY <1>1, Invariance, PTL DEF Spec, NeverRegresses

-----------------------------------------------------------------------------
(* A generation whose successor was lost is spent for good.                *)
LostIsSpent == lost \cap live = {} /\ lost \subseteq 0 .. minted

LEMMA NextLostIsSpent == RefreshInv /\ LostIsSpent /\ [Next]_vars => LostIsSpent'
<1> SUFFICES ASSUME RefreshInv, LostIsSpent, [Next]_vars PROVE LostIsSpent'
  OBVIOUS
<1> USE DEF request, provider
<1>0. minted \in Nat /\ \A p \in Requests : cur[p] \in 0 .. minted /\ (pc[p] \in HasCalled => cur[p] \notin live)
  BY DEF RefreshInv, TypeOK, Gens, BlobsInUse, SuccessorIsOwn
<1>1. CASE live' \subseteq live \cup {minted + 1} /\ minted' = minted + 1 /\ lost' = lost
  BY <1>0, <1>1 DEF LostIsSpent
<1>2. CASE /\ UNCHANGED <<live, minted>>
           /\ \A g \in lost' : g \in lost \/ \E p \in Requests : pc[p] \in HasCalled /\ g = cur[p]
  BY <1>0, <1>2 DEF LostIsSpent
<1>3. CASE UNCHANGED <<live, minted, lost>>
  BY <1>3 DEF LostIsSpent
<1>4. ASSUME NEW q \in Requests, Rotate(q) PROVE LostIsSpent'
  BY <1>1, <1>4 DEF Rotate
<1>5. ASSUME NEW q \in Requests, LoseResponse(q) \/ PersistFails(q) \/ CommitFails(q)
      PROVE LostIsSpent'
  BY <1>2, <1>5 DEF LoseResponse, PersistFails, CommitFails, HasCalled
<1>6. ASSUME NEW r \in Replicas, Crash(r) PROVE LostIsSpent'
  BY <1>2, <1>6 DEF Crash, Dying
<1>7. CASE Reconnect
  BY <1>1, <1>7 DEF Reconnect
<1>8. QED
  BY <1>3, <1>4, <1>5, <1>6, <1>7
     DEF Next, Refresh, Forward, UseBlob, RefreshBlob, AcquireLock, LockTimeout, CallFails,
         ReceiveTokens, PersistOk, Commit, CommitValid, Resolve, Reject, Accepted,
         RetryRejected, RejectedAgain, Answer, IdleTimeout, Expire, RevokeAccess, Disconnect,
         vars

(* Every step of the refresh machinery is a step of the lifecycle.         *)
LEMMA StepRefines ==
  RefreshInv /\ RefreshInv' /\ LostIsSpent /\ LostIsSpent' /\ [Next]_vars
  => [Lifecycle!Next]_(Lifecycle!vars)
<1> SUFFICES ASSUME RefreshInv, RefreshInv', LostIsSpent, LostIsSpent', [Next]_vars
             PROVE  [Lifecycle!Next]_(Lifecycle!vars)
  OBVIOUS
<1> USE DEF request, provider
<1>0. /\ stored # NoRow => stored \in Gens
      /\ NoRow \notin live /\ NoRow \notin live'
      /\ \A p \in Requests : pc[p] \in HasCalled => cur[p] \notin live
  BY RefreshAssumption DEF RefreshInv, TypeOK, Gens, NoRow, SuccessorIsOwn
<1>1. CASE UNCHANGED <<stored, live, lost>>
  BY <1>1 DEF CredentialStatus, Lifecycle!vars
<1>2. CASE /\ UNCHANGED <<stored, live>> /\ lost \subseteq lost'
           /\ \A g \in lost' : g \in lost \/ g \notin live
  <2>1. CASE CredentialStatus' = CredentialStatus
    BY <1>2, <2>1 DEF Lifecycle!vars
  <2>2. CASE CredentialStatus' # CredentialStatus
    <3>1. CredentialStatus = "rotating" /\ CredentialStatus' = "broken"
      BY <1>2, <2>2 DEF CredentialStatus
    <3>2. QED
      BY <1>2, <3>1 DEF Lifecycle!Next, Lifecycle!Lose
  <2>3. QED
    BY <2>1, <2>2
<1>3. ASSUME NEW q \in Requests, Rotate(q) PROVE [Lifecycle!Next]_(Lifecycle!vars)
  <2>1. /\ cur[q] \in live /\ live' = (live \ {cur[q]}) \cup {minted + 1}
        /\ UNCHANGED <<stored, lost>>
    BY <1>3 DEF Rotate
  <2>2. stored # minted + 1
    <3>1. minted + 1 # NoRow
      BY <1>3, RefreshAssumption DEF Rotate, RefreshInv, TypeOK, Gens, NoRow
    <3>2. stored # NoRow => stored \in 0 .. minted
      BY DEF RefreshInv, BlobsInUse
    <3>3. QED
      BY <3>1, <3>2 DEF RefreshInv, TypeOK, Gens
  <2>3. CASE stored = cur[q]
    <3>1. CredentialStatus = "usable"
      BY <1>0, <2>1, <2>3 DEF CredentialStatus
    <3>2. CredentialStatus' = "rotating"
      BY <1>0, <2>1, <2>2, <2>3 DEF CredentialStatus, LostIsSpent
    <3>3. QED
      BY <2>1, <3>1, <3>2 DEF Lifecycle!Next, Lifecycle!Spend
  <2>4. CASE stored # cur[q]
    BY <2>1, <2>2, <2>4 DEF CredentialStatus, Lifecycle!vars
  <2>5. QED
    BY <2>3, <2>4
<1>4. ASSUME NEW q \in Requests, LoseResponse(q) \/ PersistFails(q) \/ CommitFails(q)
      PROVE [Lifecycle!Next]_(Lifecycle!vars)
  BY <1>0, <1>2, <1>4 DEF LoseResponse, PersistFails, CommitFails, HasCalled
<1>5. ASSUME NEW r \in Replicas, Crash(r) PROVE [Lifecycle!Next]_(Lifecycle!vars)
  BY <1>0, <1>2, <1>5 DEF Crash, Dying
<1>6. ASSUME NEW q \in Requests, Commit(q) PROVE [Lifecycle!Next]_(Lifecycle!vars)
  <2>1. /\ stored = cur[q] /\ cur[q] < new[q] /\ new[q] \in live /\ stored' = new[q]
        /\ live' = live
    BY <1>6 DEF Commit, RefreshInv, TxMatchesPc, LockedReadIsCurrent, SuccessorIsOwn, HasCalled
  <2>2. CredentialStatus' = "usable"
    BY <1>0, <2>1 DEF CredentialStatus
  <2>3. stored' \in Gens /\ stored' > stored
    BY <2>1 DEF RefreshInv, TypeOK, Gens
  <2>4. QED
    BY <2>2, <2>3 DEF Lifecycle!Next, Lifecycle!Login
<1>7. CASE Reconnect
  <2>1. stored' = minted + 1 /\ stored' \in live' /\ stored' \in Gens
    BY <1>7 DEF Reconnect, RefreshInv, TypeOK, Gens
  <2>2. CredentialStatus' = "usable"
    BY <1>0, <2>1 DEF CredentialStatus
  <2>3. stored # NoRow => stored' > stored
    BY <2>1 DEF RefreshInv, BlobsInUse, TypeOK, Gens
  <2>4. QED
    BY <2>1, <2>2, <2>3 DEF Lifecycle!Next, Lifecycle!Login
<1>8. CASE Disconnect
  <2>1. CredentialStatus # "absent" /\ CredentialStatus' = "absent" /\ stored' = NoRow
    BY <1>8 DEF Disconnect, CredentialStatus
  <2>2. QED
    BY <2>1 DEF Lifecycle!Next, Lifecycle!Remove
<1>9. QED
  BY <1>1, <1>3, <1>4, <1>5, <1>6, <1>7, <1>8
     DEF Next, Refresh, Forward, UseBlob, RefreshBlob, AcquireLock, LockTimeout, CallFails,
         ReceiveTokens, PersistOk, CommitValid, Resolve, Reject, Accepted, RetryRejected,
         RejectedAgain, Answer, IdleTimeout, Expire, RevokeAccess, vars

(* The refresh machinery implements the credential's lifecycle.            *)
THEOREM Refinement == Spec => ImplementsLifecycle
<1>1. Init => LostIsSpent
  BY DEF Init, LostIsSpent
<1>2. Init => Lifecycle!Init
  BY RefreshAssumption DEF Init, Lifecycle!Init, CredentialStatus, Gens, NoRow
<1>3. RefreshInv /\ RefreshInv' /\ LostIsSpent /\ [Next]_vars
      => LostIsSpent' /\ [Lifecycle!Next]_(Lifecycle!vars)
  BY NextLostIsSpent, StepRefines
<1>4. QED
  BY <1>1, <1>2, <1>3, Invariance, PTL DEF Spec, ImplementsLifecycle, Lifecycle!Spec
=============================================================================
