--------------------------- MODULE ProviderAccess ---------------------------
(***************************************************************************)
(* One provider credential of a tenant (a tenant_providers row), the agents*)
(* that may use it (agent_enabled_providers) and the per-replica caches in *)
(* front of both.  Connecting, disconnecting, switching the provider on    *)
(* and off for an agent, creating an agent and storing a refreshed token   *)
(* are sequences of awaited statements without a common transaction, each  *)
(* followed by an invalidation of the caches of its own replica only.  The *)
(* discovery of models, which ends a connect and which a user may ask for, *)
(* saves the whole row as it read it, and invalidates no key chain.        *)
(***************************************************************************)
EXTENDS Naturals, FiniteSets

CONSTANTS
  Replicas,   (* backend processes, each with a RoutingCacheService         *)
  Agents,
  Founders,   (* agents that exist from the beginning                       *)
  Writers,    (* management calls                                           *)
  Readers,    (* cache fills                                                *)
  Home,       (* the replica of a writer or reader                          *)
  MaxKey,     (* bound: how often the credential's key changes              *)
  MaxOps,     (* bound: how many management calls are made                  *)
  None

ASSUME AccessAssumption ==
  /\ Home \in [Writers \cup Readers -> Replicas]
  /\ Founders \subseteq Agents
  /\ MaxKey \in Nat /\ MaxOps \in Nat
  /\ None \notin Agents

Keys    == 0 .. MaxKey
NoKey   == MaxKey + 1     \* a cached chain without a key of this provider
NoEntry == MaxKey + 2     \* nothing cached

VARIABLES
  row,       (* tenant_providers: "absent", "inactive" or "active"          *)
  key,       (* the version of its api_key_encrypted                        *)
  newest,    (* the last version of it that was written                     *)
  agents,    (* agents that exist                                           *)
  gone,      (* agents whose creation was taken back                        *)
  enabled,   (* agents with an agent_enabled_providers row                  *)
  list,      (* providers cache of a replica: is the row in the list?       *)
  chain,     (* providerKeys cache of a replica, per agent                  *)
  wpc, was, who, todo,       (* writers: where, row as read, agent, fan-out *)
  copy,      (* writers: the key a discovery of models is going to save     *)
  rpc, rkey, ragent,         (* readers: where, key as read, agent          *)
  ops,       (* management calls made so far                                *)
  off,       (* history: agents for which a user switched the provider off  *)
  blind,     (* history: agents whose creation trusted a cached list        *)
  clash,     (* history: a disconnect overlapped a connect or a discovery   *)
  broken,    (* history: a connect or a creation failed half way            *)
  uncleared, (* history: replicas left uninvalidated by a half-failed call, *)
             (* or by a discovery that put an older row back                *)
  late,      (* history: readers that an invalidation, or a call of another *)
             (* replica, overtook                                           *)
  over       (* history: entries <<replica, agent>> such readers stored, or *)
             (* that a call of another replica has outdated                 *)

rows    == <<row, key, newest, agents, gone, enabled>>
caches  == <<list, chain>>
writers == <<wpc, was, who, todo, copy, ops>>
fills   == <<rpc, rkey, ragent>>
readers == <<fills, late>>
history == <<off, blind, clash, broken>>
excuses == <<over, uncleared>>
vars == <<rows, caches, writers, readers, history, excuses>>

ConnectAt == {"connect_write", "fan_list", "fan", "self"}
RemoveAt  == {"remove_save", "remove_access"}
CreateAt  == {"create_list", "create_store", "create_enable"}
WriterAt  ==
  {"idle", "list_owned", "flush", "discover"} \cup ConnectAt \cup RemoveAt \cup CreateAt
ReaderAt  == {"idle", "access", "store", "list_without", "list_with"}
(* A write has been committed and its invalidation is still to come.       *)
Committed == {"fan_list", "fan", "self", "remove_access", "list_owned", "flush"}
ListStates == {"unset", "without", "with"}

(* What a cache fill that sees the database as it is now would store.      *)
InList == IF row = "absent" THEN "without" ELSE "with"
ChainOf(a) == IF row = "active" /\ a \in enabled THEN key ELSE NoKey

Init ==
  /\ row \in {"absent", "inactive", "active"} /\ key = 0 /\ newest = 0
  /\ agents = Founders /\ gone = {}
  /\ enabled \in IF row = "active" THEN SUBSET agents ELSE {{}}
  /\ list = [r \in Replicas |-> "unset"]
  /\ chain = [r \in Replicas |-> [a \in Agents |-> NoEntry]]
  /\ wpc = [w \in Writers |-> "idle"]
  /\ was = [w \in Writers |-> "absent"]
  /\ who = [w \in Writers |-> None]
  /\ todo = [w \in Writers |-> {}]
  /\ copy = [w \in Writers |-> NoKey]
  /\ rpc = [f \in Readers |-> "idle"]
  /\ rkey = [f \in Readers |-> NoKey]
  /\ ragent = [f \in Readers |-> None]
  /\ ops = 0
  /\ off = (IF row = "active" THEN agents \ enabled ELSE {})
  /\ blind = {} /\ clash = FALSE /\ broken = FALSE
  /\ late = [f \in Readers |-> FALSE] /\ over = {} /\ uncleared = {}

-----------------------------------------------------------------------------
(* Invalidation: synchronous, on the caller's own replica.                 *)

(* Mutant: the key chains of agents survive a change of the tenant's rows. *)
InvalidateTenantKeepChains(r) ==
  /\ list' = [list EXCEPT ![r] = "unset"]
  /\ uncleared' = uncleared \ {r}
  /\ UNCHANGED <<chain, late, over>>

(* invalidateTenant.                                                       *)
InvalidateTenant(r) ==
  /\ list' = [list EXCEPT ![r] = "unset"]
  /\ chain' = [chain EXCEPT ![r] = [a \in Agents |-> NoEntry]]
  /\ late' = [f \in Readers |-> late[f] \/ (Home[f] = r /\ rpc[f] # "idle")]
  /\ over' = {e \in over : e[1] # r}
  /\ uncleared' = uncleared \ {r}

(* invalidateAgent, for the key chains.                                    *)
InvalidateAgent(r, a) ==
  /\ chain' = [chain EXCEPT ![r][a] = NoEntry]
  /\ UNCHANGED uncleared

Filling(r, a) == {f \in Readers : Home[f] = r /\ ragent[f] = a}

(* Nobody tells the other replicas of a write.                             *)
Abroad(r) == {f \in Readers : Home[f] # r /\ rpc[f] # "idle"}

Outdated(r) ==
  {e \in (Replicas \ {r}) \X Agents : chain[e[1]][e[2]] # NoEntry}

Overtakes(S) == late' = [f \in Readers |-> late[f] \/ f \in S]

(* A write of a call on replica r.                                         *)
Written(r) ==
  /\ Overtakes(Abroad(r))
  /\ over' = over \union Outdated(r)
  /\ UNCHANGED uncleared

(* The end of every management call; a connect goes on to discover models. *)
Flush(w) ==
  /\ wpc[w] = "flush"
  /\ InvalidateTenant(Home[w])
  /\ wpc' = [wpc EXCEPT ![w] = IF copy[w] = NoKey THEN "idle" ELSE "discover"]
  /\ who' = [who EXCEPT ![w] = None]
  /\ was' = [was EXCEPT ![w] = "absent"]
  /\ UNCHANGED <<rows, todo, copy, ops, fills, history>>

Begin(w, at, a) ==
  /\ wpc[w] = "idle"
  /\ ops < MaxOps
  /\ ops' = ops + 1
  /\ wpc' = [wpc EXCEPT ![w] = at]
  /\ who' = [who EXCEPT ![w] = a]

Goto(w, at) == wpc' = [wpc EXCEPT ![w] = at]

-----------------------------------------------------------------------------
(* Connect: upsertProvider for an agent, or for no agent.                  *)

NewKey ==
  /\ newest < MaxKey
  /\ newest' = newest + 1
  /\ key' = newest + 1

Overlap(w, S) == clash \/ \E v \in Writers \ {w} : wpc[v] \in S

Connect(w) ==
  /\ \E a \in agents \cup {None} : Begin(w, "connect_write", a)
  /\ was' = [was EXCEPT ![w] = row]
  /\ clash' = Overlap(w, RemoveAt)
  /\ UNCHANGED <<rows, caches, todo, copy, readers, off, blind, broken, excuses>>

(* Mutant: a reconnected row is treated like a key rotation.               *)
ConnectWriteNoFanOut(w) ==
  /\ wpc[w] = "connect_write"
  /\ was[w] = "absent" => row = "absent"
  /\ row' = "active"
  /\ NewKey
  /\ copy' = [copy EXCEPT ![w] = key']
  /\ off' = IF row = "active" THEN off ELSE {}
  /\ Goto(w, IF was[w] = "absent" THEN "fan_list" ELSE "self")
  /\ Written(Home[w])
  /\ UNCHANGED <<agents, gone, enabled, caches, was, who, todo, ops, fills,
                 blind, clash, broken>>

(* The row is inserted, or saved with is_active = true.  Whether access is *)
(* fanned out depends on the row as it was READ.                           *)
ConnectWrite(w) ==
  /\ wpc[w] = "connect_write"
  /\ was[w] = "absent" => row = "absent"
  /\ row' = "active"
  /\ NewKey
  /\ copy' = [copy EXCEPT ![w] = key']
  /\ off' = IF row = "active" THEN off ELSE {}
  /\ Goto(w, IF was[w] = "active" THEN "self" ELSE "fan_list")
  /\ Written(Home[w])
  /\ UNCHANGED <<agents, gone, enabled, caches, was, who, todo, ops, fills,
                 blind, clash, broken>>

(* The unique index refuses a second row.                                  *)
ConnectConflict(w) ==
  /\ wpc[w] = "connect_write"
  /\ was[w] = "absent" /\ row # "absent"
  /\ Goto(w, "idle")
  /\ who' = [who EXCEPT ![w] = None]
  /\ UNCHANGED <<rows, caches, was, todo, copy, ops, readers, history, excuses>>

(* enableProviderForAllAgents: the agents that exist now, one by one.      *)
FanList(w) ==
  /\ wpc[w] = "fan_list"
  /\ todo' = [todo EXCEPT ![w] = agents]
  /\ Goto(w, "fan")
  /\ UNCHANGED <<rows, caches, was, who, copy, ops, readers, history, excuses>>

FanOut(w) ==
  /\ wpc[w] = "fan"
  /\ \E a \in todo[w] :
       /\ todo' = [todo EXCEPT ![w] = @ \ {a}]
       /\ enabled' = enabled \cup {a}
       /\ InvalidateAgent(Home[w], a)
       /\ Overtakes(Filling(Home[w], a) \union Abroad(Home[w]))
       /\ over' = (over \ {<<Home[w], a>>}) \union Outdated(Home[w])
  /\ UNCHANGED <<row, key, newest, agents, gone, list, wpc, was, who, copy, ops,
                 fills, history>>

FanEnd(w) ==
  /\ wpc[w] = "fan"
  /\ todo[w] = {}
  /\ InvalidateTenant(Home[w])
  /\ Goto(w, IF was[w] = "absent" THEN "discover" ELSE "self")
  /\ who' = IF was[w] = "absent" THEN [who EXCEPT ![w] = None] ELSE who
  /\ UNCHANGED <<rows, was, todo, copy, ops, fills, history>>

(* afterProviderChange: the connecting agent gets access in any case.      *)
EnableSelf(w) ==
  /\ wpc[w] = "self"
  /\ enabled' = enabled \cup ({who[w]} \ {None})
  /\ Goto(w, IF who[w] = None THEN "list_owned" ELSE "flush")
  /\ Written(Home[w])
  /\ UNCHANGED <<row, key, newest, agents, gone, caches, was, who, todo, copy, ops,
                 fills, history>>

-----------------------------------------------------------------------------
(* Disconnect: removeProvider.  A row that is already inactive only loses  *)
(* its access rows.                                                        *)
Remove(w) ==
  /\ row # "absent"
  /\ Begin(w, IF row = "active" THEN "remove_save" ELSE "remove_access", None)
  /\ clash' = Overlap(w, ConnectAt)
  /\ UNCHANGED <<rows, caches, was, todo, copy, readers, off, blind, broken, excuses>>

RemoveSave(w) ==
  /\ wpc[w] = "remove_save"
  /\ row' = "inactive"
  /\ Goto(w, "remove_access")
  /\ Written(Home[w])
  /\ UNCHANGED <<key, newest, agents, gone, enabled, caches, was, who, todo, copy, ops,
                 fills, history>>

RemoveAccess(w) ==
  /\ wpc[w] = "remove_access"
  /\ enabled' = {}
  /\ Goto(w, "list_owned")
  /\ Written(Home[w])
  /\ UNCHANGED <<row, key, newest, agents, gone, caches, was, who, todo, copy, ops,
                 fills, history>>

(* The agents to invalidate are read from the database (listOwnedAgentIds) *)
(* before anything is invalidated.                                         *)
ListOwned(w) ==
  /\ wpc[w] = "list_owned"
  /\ Goto(w, "flush")
  /\ UNCHANGED <<rows, caches, was, who, todo, copy, ops, readers, history, excuses>>

-----------------------------------------------------------------------------
(* The per-agent switch (AgentEnabledProvidersController).                 *)
Enable(w) ==
  /\ row # "absent"
  /\ \E a \in agents :
       /\ Begin(w, "flush", a)
       /\ enabled' = enabled \cup {a}
       /\ off' = off \ {a}
  /\ Written(Home[w])
  /\ UNCHANGED <<row, key, newest, agents, gone, caches, was, todo, copy, fills,
                 blind, clash, broken>>

Disable(w) ==
  /\ \E a \in agents :
       /\ Begin(w, "flush", a)
       /\ enabled' = enabled \ {a}
       /\ off' = off \cup {a}
  /\ Written(Home[w])
  /\ UNCHANGED <<row, key, newest, agents, gone, caches, was, todo, copy, fills,
                 blind, clash, broken>>

-----------------------------------------------------------------------------
(* Agent creation: onboardAgent, then enableAllProvidersForAgent.          *)
CreateAgent(w) ==
  /\ \E a \in Agents \ (agents \cup gone) :
       /\ Begin(w, "create_list", a)
       /\ agents' = agents \cup {a}
  /\ UNCHANGED <<row, key, newest, gone, enabled, caches, was, todo, copy, readers,
                 history, excuses>>

(* getProviders answers from the cache ...                                 *)
CreateListCached(w) ==
  /\ wpc[w] = "create_list"
  /\ list[Home[w]] # "unset"
  /\ Goto(w, IF list[Home[w]] = "with" THEN "create_enable" ELSE "flush")
  /\ blind' = IF list[Home[w]] = InList THEN blind ELSE blind \cup {who[w]}
  /\ UNCHANGED <<rows, caches, was, who, todo, copy, ops, readers, off, clash, broken,
                 excuses>>

(* ... or from the database, and fills the cache.                          *)
CreateListRead(w) ==
  /\ wpc[w] = "create_list"
  /\ list[Home[w]] = "unset"
  /\ was' = [was EXCEPT ![w] = row]
  /\ Goto(w, "create_store")
  /\ UNCHANGED <<rows, caches, who, todo, copy, ops, readers, history, excuses>>

CreateListStore(w) ==
  /\ wpc[w] = "create_store"
  /\ list' = [list EXCEPT ![Home[w]] = IF was[w] = "absent" THEN "without" ELSE "with"]
  /\ Goto(w, IF was[w] = "absent" THEN "flush" ELSE "create_enable")
  /\ UNCHANGED <<rows, chain, was, who, todo, copy, ops, readers, history, excuses>>

CreateEnable(w) ==
  /\ wpc[w] = "create_enable"
  /\ enabled' = enabled \cup {who[w]}
  /\ Goto(w, "flush")
  /\ Written(Home[w])
  /\ UNCHANGED <<row, key, newest, agents, gone, caches, was, who, todo, copy, ops,
                 fills, history>>

-----------------------------------------------------------------------------
(* A refreshed token is stored and committed (withSubscriptionCredential-  *)
(* Lock); the invalidation follows the commit.                             *)
Rotate(w) ==
  /\ row # "absent"
  /\ NewKey
  /\ Begin(w, "flush", None)
  /\ Written(Home[w])
  /\ UNCHANGED <<row, agents, gone, enabled, caches, was, todo, copy, fills, history>>

(* "Refresh models" reads the active rows (discoverAllForAgent,            *)
(* refreshProvider); a connect discovers with the row it has stored.       *)
Refresh(w) ==
  /\ row = "active"
  /\ Begin(w, "discover", None)
  /\ copy' = [copy EXCEPT ![w] = key]
  /\ UNCHANGED <<rows, caches, was, todo, readers, history, excuses>>

(* discoverModels, after its calls to the provider, saves the row as it was*)
(* read, active and with the key it had then, and invalidates no chain.    *)
Discover(w) ==
  LET puts == row # "active" \/ key # copy[w] IN
  /\ wpc[w] = "discover"
  /\ row' = "active"
  /\ key' = copy[w]
  /\ copy' = [copy EXCEPT ![w] = NoKey]
  /\ Goto(w, "idle")
  /\ clash' = (clash \/ row # "active")
  /\ Overtakes(IF puts THEN Abroad(Home[w]) ELSE {})
  /\ over' = IF puts THEN over \union Outdated(Home[w]) ELSE over
  /\ uncleared' = IF puts THEN uncleared \union {Home[w]} ELSE uncleared
  /\ UNCHANGED <<newest, agents, gone, enabled, caches, was, who, todo, ops, fills,
                 off, blind, broken>>

Abort(w) ==
  /\ Goto(w, "idle")
  /\ who' = [who EXCEPT ![w] = None]
  /\ todo' = [todo EXCEPT ![w] = {}]
  /\ was' = [was EXCEPT ![w] = "absent"]
  /\ copy' = [copy EXCEPT ![w] = NoKey]

(* A statement fails: the call ends where it is, its caches as they are. A *)
(* discovery that fails, or finds no model, leaves the row alone.          *)
Fail(w) ==
  /\ wpc[w] \notin {"idle", "flush"}
  /\ Abort(w)
  /\ broken' = (broken \/ wpc[w] \in CreateAt \cup {"fan_list", "fan", "self"})
  /\ uncleared' = IF wpc[w] \in Committed THEN uncleared \cup {Home[w]} ELSE uncleared
  /\ UNCHANGED <<rows, caches, ops, readers, off, blind, clash, over>>

(* A creation that fails takes its agent back (deleteAgent), unless that   *)
(* fails as well.                                                          *)
FailCreate(w) ==
  /\ wpc[w] \in CreateAt
  /\ Abort(w)
  /\ agents' = agents \ {who[w]}
  /\ gone' = gone \cup {who[w]}
  /\ InvalidateAgent(Home[w], who[w])
  /\ Overtakes(Filling(Home[w], who[w]))
  /\ over' = over \ {<<Home[w], who[w]>>}
  /\ UNCHANGED <<row, key, newest, enabled, list, ops, fills, history>>

-----------------------------------------------------------------------------
(* Readers: getProviderKeys and getProviders on a miss.                    *)

(* resolveProviderKeys: the tenant's active rows ...                       *)
ReadRow(f) ==
  /\ rpc[f] = "idle"
  /\ \E a \in agents :
       /\ chain[Home[f]][a] = NoEntry
       /\ ragent' = [ragent EXCEPT ![f] = a]
  /\ rkey' = [rkey EXCEPT ![f] = IF row = "active" THEN key ELSE NoKey]
  /\ rpc' = [rpc EXCEPT ![f] = "access"]
  /\ late' = [late EXCEPT ![f] = FALSE]
  /\ UNCHANGED <<rows, caches, writers, history, excuses>>

(* ... then the agent's access rows (filterProvidersForAgent).             *)
ReadAccess(f) ==
  /\ rpc[f] = "access"
  /\ rkey' = [rkey EXCEPT ![f] = IF ragent[f] \in enabled THEN @ ELSE NoKey]
  /\ rpc' = [rpc EXCEPT ![f] = "store"]
  /\ UNCHANGED <<rows, caches, writers, ragent, late, history, excuses>>

StoreChain(f) ==
  /\ rpc[f] = "store"
  /\ chain' = [chain EXCEPT ![Home[f]][ragent[f]] = rkey[f]]
  /\ over' = IF late[f] THEN over \cup {<<Home[f], ragent[f]>>}
                        ELSE over \ {<<Home[f], ragent[f]>>}
  /\ rpc' = [rpc EXCEPT ![f] = "idle"]
  /\ ragent' = [ragent EXCEPT ![f] = None]
  /\ rkey' = [rkey EXCEPT ![f] = NoKey]
  /\ late' = [late EXCEPT ![f] = FALSE]
  /\ UNCHANGED <<rows, list, writers, history, uncleared>>

ReadList(f) ==
  /\ rpc[f] = "idle"
  /\ list[Home[f]] = "unset"
  /\ rpc' = [rpc EXCEPT ![f] = IF row = "absent" THEN "list_without" ELSE "list_with"]
  /\ UNCHANGED <<rows, caches, writers, rkey, ragent, late, history, excuses>>

StoreList(f) ==
  /\ rpc[f] \in {"list_without", "list_with"}
  /\ list' = [list EXCEPT ![Home[f]] = IF rpc[f] = "list_with" THEN "with" ELSE "without"]
  /\ rpc' = [rpc EXCEPT ![f] = "idle"]
  /\ late' = [late EXCEPT ![f] = FALSE]
  /\ UNCHANGED <<rows, chain, writers, rkey, ragent, history, excuses>>

(* Mutant: a lookup renews the entry's time to live, so that it never ends.*)
ExpireChainNever(r, a) == FALSE

(* TTL_MS after it was stored an entry no longer counts.                   *)
ExpireChain(r, a) ==
  /\ chain[r][a] # NoEntry
  /\ chain' = [chain EXCEPT ![r][a] = NoEntry]
  /\ over' = over \ {<<r, a>>}
  /\ UNCHANGED <<rows, list, writers, readers, history, uncleared>>

ExpireList(r) ==
  /\ list[r] # "unset"
  /\ list' = [list EXCEPT ![r] = "unset"]
  /\ UNCHANGED <<rows, chain, writers, readers, history, excuses>>

-----------------------------------------------------------------------------
Continue(w) ==
  \/ ConnectWrite(w) \/ ConnectConflict(w) \/ FanList(w) \/ FanOut(w) \/ FanEnd(w)
  \/ EnableSelf(w) \/ RemoveSave(w) \/ RemoveAccess(w)
  \/ CreateListCached(w) \/ CreateListRead(w) \/ CreateListStore(w) \/ CreateEnable(w)
  \/ ListOwned(w) \/ Discover(w) \/ Fail(w) \/ FailCreate(w) \/ Flush(w)

Fill(f) == ReadAccess(f) \/ StoreChain(f) \/ StoreList(f)

Next ==
  \/ \E w \in Writers : \/ Connect(w) \/ Remove(w) \/ Enable(w) \/ Disable(w)
                        \/ CreateAgent(w) \/ Rotate(w) \/ Refresh(w)
                        \/ Continue(w)
  \/ \E f \in Readers : ReadRow(f) \/ ReadList(f) \/ Fill(f)
  \/ \E r \in Replicas : ExpireList(r) \/ \E a \in Agents : ExpireChain(r, a)

Spec == Init /\ [][Next]_vars

(* Statements end, and two minutes pass.                                   *)
Fairness ==
  /\ \A w \in Writers : WF_vars(Continue(w))
  /\ \A f \in Readers : WF_vars(Fill(f))
  /\ \A r \in Replicas, a \in Agents : WF_vars(ExpireChain(r, a))

FairSpec == Spec /\ Fairness

-----------------------------------------------------------------------------
TypeOK ==
  /\ row \in {"absent", "inactive", "active"}
  /\ key \in Keys /\ newest \in Keys
  /\ agents \subseteq Agents /\ gone \subseteq Agents /\ enabled \subseteq Agents
  /\ list \in [Replicas -> ListStates]
  /\ chain \in [Replicas -> [Agents -> Keys \cup {NoKey, NoEntry}]]
  /\ wpc \in [Writers -> WriterAt]
  /\ was \in [Writers -> {"absent", "inactive", "active"}]
  /\ who \in [Writers -> Agents \cup {None}]
  /\ todo \in [Writers -> SUBSET Agents]
  /\ copy \in [Writers -> Keys \cup {NoKey}]
  /\ rpc \in [Readers -> ReaderAt]
  /\ rkey \in [Readers -> Keys \cup {NoKey}]
  /\ ragent \in [Readers -> Agents \cup {None}]
  /\ ops \in 0 .. MaxOps
  /\ off \subseteq Agents /\ blind \subseteq Agents
  /\ clash \in BOOLEAN /\ broken \in BOOLEAN
  /\ late \in [Readers -> BOOLEAN]
  /\ over \subseteq Replicas \X Agents
  /\ uncleared \subseteq Replicas

(* A credential is settled when no call still has to hand out access.      *)
Settled == \A w \in Writers : wpc[w] \notin ConnectAt \cup CreateAt

Accessible(a) == a \in enabled \/ a \in off

(* Providers are on by default: whatever the order in which agents appear  *)
(* and the provider is connected or reconnected, every agent has access to *)
(* an active provider unless a user switched it off, its creation trusted  *)
(* an outdated list, calls overlapped (a discovery that saves a row which  *)
(* was disconnected meanwhile is one) or a call failed half way.           *)
OnByDefault ==
  row = "active" /\ Settled /\ ~clash /\ ~broken
    => \A a \in agents \ blind : Accessible(a)

Pending(r) == \E w \in Writers : Home[w] = r /\ wpc[w] \in Committed

(* A replica's cached key chain that differs from the database has a       *)
(* writer there about to invalidate it, was left by a call that failed     *)
(* before it could, or by a discovery that put an older row back, was      *)
(* outdated by a call on another replica, or was stored by a fill that one *)
(* of these overtook.                                                      *)
StaleChainExplained ==
  \A r \in Replicas, a \in Agents :
    chain[r][a] \notin {NoEntry, ChainOf(a)} =>
      Pending(r) \/ r \in uncleared \/ <<r, a>> \in over

(* When the management calls are over, every replica comes to serve what   *)
(* the database holds, for good.                                           *)
CachesConverge ==
  <>[](\A r \in Replicas, a \in Agents : chain[r][a] \in {NoEntry, ChainOf(a)})
=============================================================================
