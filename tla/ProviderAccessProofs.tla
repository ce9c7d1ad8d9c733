------------------------ MODULE ProviderAccessProofs ------------------------
(***************************************************************************)
(* Proofs about ProviderAccess, for any number of replicas, agents, calls  *)
(* and cache fills.                                                        *)
(***************************************************************************)
EXTENDS ProviderAccess, TLAPS

(* A creation has its agent, and so has the fill of a key chain; a         *)
(* discovery has a key to save. *)
Named ==
  /\ \A w \in Writers : wpc[w] \in {"fan_list", "fan", "discover"} => copy[w] \in Keys
  /\ \A w \in Writers : wpc[w] \in CreateAt => who[w] \in Agents
  /\ \A f \in Readers : rpc[f] \in {"access", "store"} => ragent[f] \in Agents

Types == TypeOK /\ Named

-----------------------------------------------------------------------------
(* Caches.                                                                 *)

(* The part of a key chain that the row decides. *)
RowPart == IF row = "active" THEN key ELSE NoKey

(* Why what replica r has, or reads, may be out of date. *)
Excused(r) == Pending(r) \/ r \in uncleared

(* A fill that nothing has overtaken has read what the database holds. *)
FillsFollow ==
  \A f \in Readers :
    /\ rpc[f] = "access" /\ rkey[f] # RowPart => Excused(Home[f]) \/ late[f]
    /\ rpc[f] = "store" /\ rkey[f] # ChainOf(ragent[f]) => Excused(Home[f]) \/ late[f]

CacheInv == StaleChainExplained /\ FillsFollow

-----------------------------------------------------------------------------
(* Access.                                                                 *)

Connecting == {w \in Writers : wpc[w] \in ConnectAt}
Removing   == {w \in Writers : wpc[w] \in RemoveAt}

(* Connects and disconnects that overlap are on record; without that the   *)
(* row is as they read it.                                                 *)
Apart ==
  ~clash =>
    /\ Connecting = {} \/ Removing = {}
    /\ \A w \in Writers : /\ wpc[w] = "connect_write" /\ was[w] = "active"
                               => row = "active"
                          /\ wpc[w] = "remove_access" => row # "active"

(* Call w is going to give agent a access. *)
Serves(w, a) ==
  \/ wpc[w] = "fan_list"
  \/ wpc[w] = "fan" /\ a \in todo[w]
  \/ who[w] = a /\ wpc[w] \in {"create_list", "create_enable"}
  \/ who[w] = a /\ wpc[w] = "create_store" /\ was[w] # "absent"

AccessIsDue ==
  row = "active" /\ ~clash /\ ~broken =>
    \A a \in agents \ blind : Accessible(a) \/ \E w \in Writers : Serves(w, a)

AccessInv == Apart /\ AccessIsDue

IInv == Types /\ CacheInv /\ AccessInv

-----------------------------------------------------------------------------
(* Types.                                                                  *)

LEMMA TypesInit == Init => Types
<1>1. SUFFICES ASSUME Init PROVE Types
  OBVIOUS
<1>2. enabled \subseteq agents
  BY <1>1 DEF Init
<1>3. chain \in [Replicas -> [Agents -> Keys \cup {NoKey, NoEntry}]]
  BY <1>1 DEF Init
<1>4. 0 \in Keys /\ 0 \in 0 .. MaxOps
  BY AccessAssumption DEF Keys
<1> QED BY <1>1, <1>2, <1>3, <1>4, AccessAssumption
        DEF Init, Types, TypeOK, Named, ListStates, WriterAt, ReaderAt, CreateAt

LEMMA InvalidationTypes ==
  ASSUME Types, NEW r \in Replicas, NEW a \in Agents, NEW S
  PROVE  /\ InvalidateTenant(r) =>
              /\ list' \in [Replicas -> ListStates]
              /\ chain' \in [Replicas -> [Agents -> Keys \cup {NoKey, NoEntry}]]
              /\ late' \in [Readers -> BOOLEAN]
              /\ over' \subseteq Replicas \X Agents
              /\ uncleared' \subseteq Replicas
         /\ InvalidateAgent(r, a) =>
              /\ chain' \in [Replicas -> [Agents -> Keys \cup {NoKey, NoEntry}]]
              /\ uncleared' = uncleared
         /\ Overtakes(S) => late' \in [Readers -> BOOLEAN]
         /\ Written(r) => /\ late' \in [Readers -> BOOLEAN]
                          /\ over' \subseteq Replicas \X Agents
                          /\ uncleared' = uncleared
         /\ Outdated(r) \subseteq Replicas \X Agents
<1>1. Outdated(r) \subseteq Replicas \X Agents
  BY DEF Outdated
<1>2. InvalidateTenant(r) =>
        /\ list' \in [Replicas -> ListStates]
        /\ chain' \in [Replicas -> [Agents -> Keys \cup {NoKey, NoEntry}]]
        /\ late' \in [Readers -> BOOLEAN]
        /\ over' \subseteq Replicas \X Agents
        /\ uncleared' \subseteq Replicas
  BY DEF InvalidateTenant, Types, TypeOK, ListStates
<1>3. InvalidateAgent(r, a) =>
        /\ chain' \in [Replicas -> [Agents -> Keys \cup {NoKey, NoEntry}]]
        /\ uncleared' = uncleared
  BY DEF InvalidateAgent, Types, TypeOK
<1>4. \A T : Overtakes(T) => late' \in [Readers -> BOOLEAN]
  BY DEF Overtakes, Types, TypeOK
<1> QED BY <1>1, <1>2, <1>3, <1>4 DEF Written, Types, TypeOK

(* The part of TypeOK that changes with the calls. *)
LEMMA WriterTypes ==
  ASSUME Types, NEW w \in Writers,
         \/ Connect(w) \/ Remove(w) \/ Enable(w) \/ Disable(w) \/ CreateAgent(w)
         \/ Rotate(w) \/ Refresh(w) \/ Continue(w)
  PROVE  Types'
<1> USE AccessAssumption
<1> USE DEF Goto, Abort, Begin, rows, caches, writers, fills, readers, history, excuses
<1>0. Home[w] \in Replicas
  OBVIOUS
<1>1. CASE Connect(w)
  BY <1>1 DEF Connect, Types, TypeOK, Named, Overlap, WriterAt, ConnectAt, CreateAt
<1>2. CASE Remove(w)
  BY <1>2 DEF Remove, Types, TypeOK, Named, Overlap, WriterAt, RemoveAt, CreateAt
<1>3. CASE Enable(w)
  BY <1>0, <1>3
     DEF Enable, Types, TypeOK, Named, WriterAt, CreateAt, Written, Overtakes, Outdated
<1>4. CASE Disable(w)
  BY <1>0, <1>4
     DEF Disable, Types, TypeOK, Named, WriterAt, CreateAt, Written, Overtakes, Outdated
<1>5. CASE CreateAgent(w)
  BY <1>5 DEF CreateAgent, Types, TypeOK, Named, WriterAt, CreateAt
<1>6. CASE Rotate(w)
  BY <1>0, <1>6
     DEF Rotate, NewKey, Types, TypeOK, Named, WriterAt, CreateAt, Keys, Written,
         Overtakes, Outdated
<1>7. CASE ConnectWrite(w)
  BY <1>0, <1>7
     DEF ConnectWrite, NewKey, Types, TypeOK, Named, WriterAt, ConnectAt, CreateAt, Keys, Written,
         Overtakes, Outdated
<1>8. CASE ConnectConflict(w)
  BY <1>8 DEF ConnectConflict, Types, TypeOK, Named, WriterAt, CreateAt
<1>9. CASE FanList(w)
  BY <1>9 DEF FanList, Types, TypeOK, Named, WriterAt, ConnectAt, CreateAt
<1>10. CASE FanOut(w)
  <2>1. PICK a \in todo[w] :
          /\ todo' = [todo EXCEPT ![w] = @ \ {a}]
          /\ enabled' = enabled \cup {a}
          /\ InvalidateAgent(Home[w], a)
          /\ Overtakes(Filling(Home[w], a) \union Abroad(Home[w]))
          /\ over' = (over \ {<<Home[w], a>>}) \union Outdated(Home[w])
    BY <1>10 DEF FanOut
  <2>2. a \in Agents
    BY DEF Types, TypeOK
  <2>3. /\ chain' \in [Replicas -> [Agents -> Keys \cup {NoKey, NoEntry}]]
        /\ late' \in [Readers -> BOOLEAN] /\ over' \subseteq Replicas \X Agents
        /\ uncleared' = uncleared
    BY <1>0, <2>1, <2>2, InvalidationTypes DEF Types, TypeOK
  <2> QED BY <1>10, <2>1, <2>2, <2>3 DEF FanOut, Types, TypeOK, Named
<1>11. CASE FanEnd(w)
  <2>1. /\ list' \in [Replicas -> ListStates]
        /\ chain' \in [Replicas -> [Agents -> Keys \cup {NoKey, NoEntry}]]
        /\ late' \in [Readers -> BOOLEAN]
        /\ over' \subseteq Replicas \X Agents
        /\ uncleared' \subseteq Replicas
    BY <1>0, <1>11 DEF FanEnd, InvalidateTenant, Types, TypeOK, ListStates
  <2> QED BY <1>11, <2>1 DEF FanEnd, Types, TypeOK, Named, WriterAt, ConnectAt, CreateAt
<1>12. CASE EnableSelf(w)
  BY <1>0, <1>12
     DEF EnableSelf, Types, TypeOK, Named, WriterAt, CreateAt, Written, Overtakes, Outdated
<1>13. CASE RemoveSave(w)
  BY <1>0, <1>13
     DEF RemoveSave, Types, TypeOK, Named, WriterAt, RemoveAt, CreateAt, Written,
         Overtakes, Outdated
<1>14. CASE RemoveAccess(w)
  BY <1>0, <1>14
     DEF RemoveAccess, Types, TypeOK, Named, WriterAt, CreateAt, Written, Overtakes, Outdated
<1>15. CASE CreateListCached(w)
  BY <1>15 DEF CreateListCached, Types, TypeOK, Named, WriterAt, CreateAt
<1>16. CASE CreateListRead(w)
  BY <1>16 DEF CreateListRead, Types, TypeOK, Named, WriterAt, CreateAt
<1>17. CASE CreateListStore(w)
  BY <1>0, <1>17 DEF CreateListStore, Types, TypeOK, Named, WriterAt, CreateAt, ListStates
<1>18. CASE CreateEnable(w)
  BY <1>0, <1>18
     DEF CreateEnable, Types, TypeOK, Named, WriterAt, CreateAt, Written, Overtakes, Outdated
<1>19. CASE ListOwned(w)
  BY <1>19 DEF ListOwned, Types, TypeOK, Named, WriterAt, CreateAt
<1>20. CASE Fail(w)
  BY <1>0, <1>20 DEF Fail, Types, TypeOK, Named, WriterAt, CreateAt
<1>21. CASE FailCreate(w)
  <2>1. who[w] \in Agents
    BY <1>21 DEF FailCreate, Types, Named
  <2>2. /\ chain' \in [Replicas -> [Agents -> Keys \cup {NoKey, NoEntry}]]
        /\ late' \in [Readers -> BOOLEAN] /\ over' \subseteq Replicas \X Agents
        /\ uncleared' = uncleared
    BY <1>0, <1>21, <2>1, InvalidationTypes DEF FailCreate, Types, TypeOK
  <2> QED BY <1>21, <2>1, <2>2 DEF FailCreate, Types, TypeOK, Named, WriterAt, CreateAt
<1>22. CASE Flush(w)
  <2>1. /\ list' \in [Replicas -> ListStates]
        /\ chain' \in [Replicas -> [Agents -> Keys \cup {NoKey, NoEntry}]]
        /\ late' \in [Readers -> BOOLEAN]
        /\ over' \subseteq Replicas \X Agents
        /\ uncleared' \subseteq Replicas
    BY <1>0, <1>22 DEF Flush, InvalidateTenant, Types, TypeOK, ListStates
  <2> QED BY <1>22, <2>1 DEF Flush, Types, TypeOK, Named, WriterAt, CreateAt
<1>23. CASE Refresh(w)
  BY <1>23 DEF Refresh, Types, TypeOK, Named, WriterAt, CreateAt
<1>24. CASE Discover(w)
  <2>1. /\ wpc[w] = "discover" /\ copy[w] \in Keys
        /\ row' = "active" /\ key' = copy[w] /\ copy' = [copy EXCEPT ![w] = NoKey]
        /\ wpc' = [wpc EXCEPT ![w] = "idle"] /\ clash' = (clash \/ row # "active")
    BY <1>24 DEF Discover, Types, Named
  <2>2. /\ late' \in [Readers -> BOOLEAN] /\ over' \subseteq Replicas \X Agents
        /\ uncleared' \subseteq Replicas
    BY <1>0, <1>24 DEF Discover, Types, TypeOK, Overtakes, Outdated
  <2> QED BY <1>24, <2>1, <2>2 DEF Discover, Types, TypeOK, Named, WriterAt, CreateAt
<1> QED BY <1>1, <1>2, <1>3, <1>4, <1>5, <1>6, <1>7, <1>8, <1>9, <1>10, <1>11, <1>12,
           <1>13, <1>14, <1>15, <1>16, <1>17, <1>18, <1>19, <1>20, <1>21, <1>22, <1>23,
           <1>24
        DEF Continue

LEMMA ReaderTypes ==
  ASSUME Types, NEW f \in Readers, ReadRow(f) \/ ReadList(f) \/ Fill(f)
  PROVE  Types'
<1> USE AccessAssumption
<1> USE DEF rows, caches, writers, fills, readers, history, excuses, ReaderAt
<1>0. Home[f] \in Replicas
  OBVIOUS
<1>1. CASE ReadRow(f)
  BY <1>1 DEF ReadRow, Types, TypeOK, Named
<1>2. CASE ReadList(f)
  BY <1>2 DEF ReadList, Types, TypeOK, Named
<1>3. CASE ReadAccess(f)
  BY <1>3 DEF ReadAccess, Types, TypeOK, Named
<1>4. CASE StoreChain(f)
  <2>1. ragent[f] \in Agents
    BY <1>4 DEF StoreChain, Types, Named
  <2>2. chain' \in [Replicas -> [Agents -> Keys \cup {NoKey, NoEntry}]]
    BY <1>0, <1>4, <2>1 DEF StoreChain, Types, TypeOK
  <2>3. over' \subseteq Replicas \X Agents
    BY <1>0, <1>4, <2>1 DEF StoreChain, Types, TypeOK
  <2> QED BY <1>4, <2>2, <2>3 DEF StoreChain, Types, TypeOK, Named
<1>5. CASE StoreList(f)
  BY <1>0, <1>5 DEF StoreList, Types, TypeOK, Named, ListStates
<1> QED BY <1>1, <1>2, <1>3, <1>4, <1>5 DEF Fill

LEMMA TypesStep ==
  ASSUME Types, [Next]_vars
  PROVE  Types'
<1> USE DEF rows, caches, writers, fills, readers, history, excuses
<1>1. ASSUME NEW w \in Writers,
             \/ Connect(w) \/ Remove(w) \/ Enable(w) \/ Disable(w) \/ CreateAgent(w)
             \/ Rotate(w) \/ Refresh(w) \/ Continue(w)
      PROVE  Types'
  BY <1>1, WriterTypes
<1>2. ASSUME NEW f \in Readers, ReadRow(f) \/ ReadList(f) \/ Fill(f) PROVE Types'
  BY <1>2, ReaderTypes
<1>3. ASSUME NEW r \in Replicas, ExpireList(r) PROVE Types'
  BY <1>3 DEF ExpireList, Types, TypeOK, Named, ListStates
<1>4. ASSUME NEW r \in Replicas, NEW a \in Agents, ExpireChain(r, a) PROVE Types'
  BY <1>4 DEF ExpireChain, Types, TypeOK, Named
<1>5. CASE UNCHANGED vars
  BY <1>5 DEF vars, Types, TypeOK, Named
<1> QED BY <1>1, <1>2, <1>3, <1>4, <1>5 DEF Next

-----------------------------------------------------------------------------
(* Every agent gets access.                                                *)

LEMMA AccessInit == Init => AccessInv
BY DEF Init, AccessInv, Apart, Connecting, Removing, AccessIsDue, Accessible,
       ConnectAt, RemoveAt

(* A call that changes its stage and not the row. *)
LEMMA ApartKept ==
  ASSUME Apart, NEW w \in Writers, clash => clash', row' = row,
         \A v \in Writers : v # w => wpc'[v] = wpc[v] /\ was'[v] = was[v],
         wpc'[w] \in ConnectAt => wpc[w] \in ConnectAt \/ clash' \/ Removing \subseteq {w},
         wpc'[w] \in RemoveAt => wpc[w] \in RemoveAt \/ clash' \/ Connecting \subseteq {w},
         wpc'[w] \in ConnectAt => wpc[w] \notin RemoveAt,
         wpc'[w] \in RemoveAt => wpc[w] \notin ConnectAt,
         wpc'[w] = "connect_write" /\ was'[w] = "active" => row = "active",
         wpc'[w] = "remove_access" => row # "active"
  PROVE  Apart'
<1>1. SUFFICES ASSUME ~clash' PROVE
        (/\ Connecting = {} \/ Removing = {}
         /\ \A v \in Writers : /\ wpc[v] = "connect_write" /\ was[v] = "active"
                                    => row = "active"
                               /\ wpc[v] = "remove_access" => row # "active")'
  BY DEF Apart
<1>2. /\ Connecting = {} \/ Removing = {}
      /\ \A v \in Writers : /\ wpc[v] = "connect_write" /\ was[v] = "active"
                                 => row = "active"
                            /\ wpc[v] = "remove_access" => row # "active"
  BY <1>1 DEF Apart
<1>3. ConnectAt \intersect RemoveAt = {}
  BY DEF ConnectAt, RemoveAt
<1>4. ASSUME NEW u \in Connecting', NEW v \in Removing' PROVE FALSE
  <2>1. u \in Writers /\ v \in Writers /\ wpc'[u] \in ConnectAt /\ wpc'[v] \in RemoveAt
    BY DEF Connecting, Removing
  <2>2. u # v
    BY <1>3, <2>1
  <2>3. CASE u = w
    <3>1. v \in Removing /\ v # w
      BY <2>1, <2>2, <2>3 DEF Removing
    <3>2. w \in Connecting
      BY <1>1, <2>1, <2>3, <3>1 DEF Connecting
    <3> QED BY <1>2, <3>1, <3>2
  <2>4. CASE v = w
    <3>1. u \in Connecting /\ u # w
      BY <2>1, <2>2, <2>4 DEF Connecting
    <3>2. w \in Removing
      BY <1>1, <2>1, <2>4, <3>1 DEF Removing
    <3> QED BY <1>2, <3>1, <3>2
  <2>5. CASE u # w /\ v # w
    BY <1>2, <2>1, <2>5 DEF Connecting, Removing
  <2> QED BY <2>3, <2>4, <2>5
<1>5. \A v \in Writers : /\ wpc'[v] = "connect_write" /\ was'[v] = "active"
                              => row' = "active"
                         /\ wpc'[v] = "remove_access" => row' # "active"
  BY <1>2
<1> QED BY <1>4, <1>5

(* What was accessible, or served, still is. *)
LEMMA DueKept ==
  ASSUME AccessIsDue, clash => clash', broken => broken',
         row' = "active" => row = "active",
         \A a \in agents' \ blind' :
           \/ Accessible(a)' \/ \E w \in Writers : Serves(w, a)'
           \/ /\ a \in agents \ blind
              /\ ~Accessible(a)
              /\ \A w \in Writers : ~Serves(w, a)
           \/ broken'
  PROVE  AccessIsDue'
BY DEF AccessIsDue

LEMMA AccessWriter ==
  ASSUME Types, AccessInv, NEW w \in Writers,
         \/ Connect(w) \/ Remove(w) \/ Enable(w) \/ Disable(w) \/ CreateAgent(w)
         \/ Rotate(w) \/ Refresh(w) \/ Continue(w)
  PROVE  AccessInv'
<1> USE AccessAssumption
<1> USE DEF Goto, Abort, Begin, rows, caches, writers, fills, readers, history, excuses
<1> DEFINE Stages == ConnectAt \cup RemoveAt \cup CreateAt
<1>0. Apart /\ AccessIsDue /\ TypeOK /\ wpc \in [Writers -> WriterAt]
      /\ clash \in BOOLEAN /\ broken \in BOOLEAN
  BY DEF AccessInv, Types, TypeOK
<1>1. CASE Connect(w)
  <2>1. wpc[w] = "idle" /\ row' = row /\ wpc' = [wpc EXCEPT ![w] = "connect_write"]
        /\ was' = [was EXCEPT ![w] = row] /\ clash' = Overlap(w, RemoveAt)
    BY <1>1 DEF Connect
  <2>2. clash' \/ Removing \subseteq {w}
    BY <2>1 DEF Overlap, Removing
  <2>3. Apart'
    BY <1>0, <2>1, <2>2, ApartKept DEF Overlap, ConnectAt, RemoveAt, TypeOK
  <2>4. \A v \in Writers, a \in agents : Serves(v, a) => Serves(v, a)'
    BY <1>0, <1>1, <2>1 DEF Connect, Serves, TypeOK
  <2>5. UNCHANGED <<agents, blind, broken, enabled, off>>
    BY <1>1 DEF Connect
  <2>6. AccessIsDue'
    BY <1>0, <2>1, <2>4, <2>5, DueKept DEF Accessible, Overlap
  <2> QED BY <2>3, <2>6 DEF AccessInv
<1>2. CASE Remove(w)
  <2>1. /\ wpc[w] = "idle" /\ row' = row
        /\ wpc' = [wpc EXCEPT ![w] = IF row = "active" THEN "remove_save"
                                                       ELSE "remove_access"]
        /\ was' = was /\ clash' = Overlap(w, ConnectAt)
    BY <1>2 DEF Remove
  <2>2. clash' \/ Connecting \subseteq {w}
    BY <2>1 DEF Overlap, Connecting
  <2>3. Apart'
    BY <1>0, <2>1, <2>2, ApartKept DEF Overlap, ConnectAt, RemoveAt, TypeOK
  <2>4. \A v \in Writers, a \in agents : Serves(v, a) => Serves(v, a)'
    BY <1>0, <1>2, <2>1 DEF Remove, Serves, TypeOK
  <2>5. UNCHANGED <<agents, blind, broken, enabled, off>>
    BY <1>2 DEF Remove
  <2>6. AccessIsDue'
    BY <1>0, <2>1, <2>4, <2>5, DueKept DEF Accessible, Overlap
  <2> QED BY <2>3, <2>6 DEF AccessInv
<1>3. CASE Enable(w) \/ Disable(w) \/ Rotate(w) \/ Refresh(w)
  <2>1. /\ wpc[w] = "idle" /\ row' = row
        /\ \E at \in {"flush", "discover"} : wpc' = [wpc EXCEPT ![w] = at]
        /\ UNCHANGED <<was, todo, clash, broken, agents, blind>>
        /\ \E a : who' = [who EXCEPT ![w] = a]
    BY <1>3 DEF Enable, Disable, Rotate, Refresh
  <2>2. Apart'
    BY <1>0, <2>1, ApartKept DEF ConnectAt, RemoveAt, TypeOK
  <2>3. \A v \in Writers, a \in agents : Serves(v, a) => Serves(v, a)'
    BY <1>0, <2>1 DEF Serves, TypeOK
  <2>4. \A a \in agents : Accessible(a) => Accessible(a)'
    BY <1>3 DEF Enable, Disable, Rotate, Refresh, Accessible
  <2>5. AccessIsDue'
    BY <1>0, <2>1, <2>3, <2>4, DueKept
  <2> QED BY <2>2, <2>5 DEF AccessInv
<1>4. CASE CreateAgent(w)
  <2>1. PICK b \in Agents \ (agents \cup gone) :
          /\ wpc[w] = "idle" /\ wpc' = [wpc EXCEPT ![w] = "create_list"]
          /\ who' = [who EXCEPT ![w] = b] /\ agents' = agents \cup {b}
    BY <1>4 DEF CreateAgent
  <2>2. UNCHANGED <<row, was, todo, clash, broken, blind, enabled, off>>
    BY <1>4 DEF CreateAgent
  <2>3. Apart'
    BY <1>0, <2>1, <2>2, ApartKept DEF ConnectAt, RemoveAt, TypeOK
  <2>4. \A v \in Writers, a \in agents : Serves(v, a) => Serves(v, a)'
    BY <1>0, <2>1, <2>2 DEF Serves, TypeOK
  <2>5. Serves(w, b)'
    BY <1>0, <2>1 DEF Serves, TypeOK
  <2>6. AccessIsDue'
    BY <1>0, <2>1, <2>2, <2>4, <2>5, DueKept DEF Accessible
  <2> QED BY <2>3, <2>6 DEF AccessInv
<1>5. CASE ConnectWrite(w)
  <2>1. /\ wpc[w] = "connect_write" /\ row' = "active"
        /\ wpc' = [wpc EXCEPT ![w] = IF was[w] = "active" THEN "self" ELSE "fan_list"]
        /\ off' = IF row = "active" THEN off ELSE {}
        /\ UNCHANGED <<was, who, todo, clash, broken, agents, blind, enabled>>
    BY <1>5 DEF ConnectWrite
  <2>2. Apart'
    <3>1. SUFFICES ASSUME ~clash PROVE Apart'
      BY <2>1 DEF Apart
    <3>2. w \in Connecting
      BY <2>1 DEF Connecting, ConnectAt
    <3>3. Removing = {}
      BY <1>0, <3>1, <3>2 DEF Apart
    <3>4. wpc'[w] \notin RemoveAt /\ \A v \in Writers : v # w => wpc'[v] = wpc[v]
      BY <1>0, <2>1 DEF RemoveAt
    <3>5. \A v \in Writers : wpc'[v] \notin RemoveAt
      BY <3>3, <3>4 DEF Removing
    <3> QED BY <2>1, <3>5 DEF Apart, Removing, RemoveAt
  <2>3. AccessIsDue'
    <3>1. CASE was[w] # "active"
      <4>1. \A a \in agents : Serves(w, a)'
        BY <1>0, <2>1, <3>1 DEF Serves
      <4> QED BY <2>1, <4>1 DEF AccessIsDue
    <3>2. CASE was[w] = "active"
      <4>1. SUFFICES ASSUME ~clash PROVE AccessIsDue'
        BY <2>1 DEF AccessIsDue
      <4>2. row = "active"
        BY <1>0, <2>1, <3>2, <4>1 DEF Apart
      <4>3. \A v \in Writers, a \in agents : Serves(v, a) => Serves(v, a)'
        BY <1>0, <2>1 DEF Serves
      <4> QED BY <1>0, <2>1, <4>2, <4>3, DueKept DEF Accessible
    <3> QED BY <3>1, <3>2
  <2> QED BY <2>2, <2>3 DEF AccessInv
<1>6. CASE ConnectConflict(w)
  <2>1. /\ wpc[w] = "connect_write" /\ wpc' = [wpc EXCEPT ![w] = "idle"]
        /\ who' = [who EXCEPT ![w] = None]
        /\ UNCHANGED <<row, was, todo, clash, broken, agents, blind, enabled, off>>
    BY <1>6 DEF ConnectConflict
  <2>2. Apart'
    BY <1>0, <2>1, ApartKept DEF ConnectAt, RemoveAt, TypeOK
  <2>3. \A v \in Writers, a \in agents : Serves(v, a) => Serves(v, a)'
    BY <1>0, <2>1 DEF Serves, TypeOK
  <2>4. AccessIsDue'
    BY <1>0, <2>1, <2>3, DueKept DEF Accessible
  <2> QED BY <2>2, <2>4 DEF AccessInv
<1>7. CASE FanList(w)
  <2>1. /\ wpc[w] = "fan_list" /\ wpc' = [wpc EXCEPT ![w] = "fan"]
        /\ todo' = [todo EXCEPT ![w] = agents]
        /\ UNCHANGED <<row, was, who, clash, broken, agents, blind, enabled, off>>
    BY <1>7 DEF FanList
  <2>2. Apart'
    BY <1>0, <2>1, ApartKept DEF ConnectAt, RemoveAt, TypeOK
  <2>3. \A a \in agents : Serves(w, a)'
    BY <1>0, <2>1 DEF Serves, TypeOK
  <2>4. AccessIsDue'
    BY <2>1, <2>3 DEF AccessIsDue
  <2> QED BY <2>2, <2>4 DEF AccessInv
<1>8. CASE FanOut(w)
  <2>1. PICK b \in todo[w] : /\ todo' = [todo EXCEPT ![w] = @ \ {b}]
                             /\ enabled' = enabled \cup {b}
    BY <1>8 DEF FanOut
  <2>2. wpc[w] = "fan" /\ UNCHANGED <<row, was, who, wpc, clash, broken, agents, blind, off>>
    BY <1>8 DEF FanOut
  <2>3. Apart'
    BY <1>0, <2>2, ApartKept DEF Apart, ConnectAt, RemoveAt
  <2>4. \A v \in Writers, a \in agents : Serves(v, a) => Serves(v, a)' \/ a = b
    BY <1>0, <2>1, <2>2 DEF Serves, TypeOK
  <2>5. Accessible(b)' /\ \A a \in agents : Accessible(a) => Accessible(a)'
    BY <2>1, <2>2 DEF Accessible
  <2>6. AccessIsDue'
    BY <1>0, <2>2, <2>4, <2>5, DueKept
  <2> QED BY <2>3, <2>6 DEF AccessInv
<1>9. CASE FanEnd(w)
  <2>1. /\ wpc[w] = "fan" /\ todo[w] = {}
        /\ wpc' = [wpc EXCEPT ![w] = IF was[w] = "absent" THEN "discover" ELSE "self"]
        /\ \A v \in Writers : v # w => who'[v] = who[v]
        /\ UNCHANGED <<row, was, todo, clash, broken, agents, blind, enabled, off>>
    BY <1>0, <1>9 DEF FanEnd, TypeOK
  <2>2. Apart'
    BY <1>0, <2>1, ApartKept DEF ConnectAt, RemoveAt, TypeOK
  <2>3. \A v \in Writers, a \in agents : Serves(v, a) => Serves(v, a)'
    BY <1>0, <2>1 DEF Serves, TypeOK
  <2>4. AccessIsDue'
    BY <1>0, <2>1, <2>3, DueKept DEF Accessible
  <2> QED BY <2>2, <2>4 DEF AccessInv
<1>10. CASE EnableSelf(w)
  <2>1. /\ wpc[w] = "self" /\ enabled \subseteq enabled'
        /\ wpc' = [wpc EXCEPT ![w] = IF who[w] = None THEN "list_owned" ELSE "flush"]
        /\ UNCHANGED <<row, was, who, todo, clash, broken, agents, blind, off>>
    BY <1>10 DEF EnableSelf
  <2>2. Apart'
    BY <1>0, <2>1, ApartKept DEF ConnectAt, RemoveAt, TypeOK
  <2>3. \A v \in Writers, a \in agents : Serves(v, a) => Serves(v, a)'
    BY <1>0, <2>1 DEF Serves, TypeOK
  <2>4. AccessIsDue'
    BY <1>0, <2>1, <2>3, DueKept DEF Accessible
  <2> QED BY <2>2, <2>4 DEF AccessInv
<1>11. CASE RemoveSave(w)
  <2>1. /\ wpc[w] = "remove_save" /\ wpc' = [wpc EXCEPT ![w] = "remove_access"]
        /\ row' = "inactive" /\ UNCHANGED <<was, clash>>
    BY <1>11 DEF RemoveSave
  <2>2. Apart'
    <3>1. SUFFICES ASSUME ~clash PROVE Apart'
      BY <2>1 DEF Apart
    <3>2. w \in Removing
      BY <2>1 DEF Removing, RemoveAt
    <3>3. Connecting = {}
      BY <1>0, <3>1, <3>2 DEF Apart
    <3>4. wpc'[w] \notin ConnectAt /\ \A v \in Writers : v # w => wpc'[v] = wpc[v]
      BY <1>0, <2>1 DEF ConnectAt
    <3>5. \A v \in Writers : wpc'[v] \notin ConnectAt
      BY <3>3, <3>4 DEF Connecting
    <3> QED BY <2>1, <3>5 DEF Apart, Connecting, ConnectAt
  <2>3. AccessIsDue'
    BY <2>1 DEF AccessIsDue
  <2> QED BY <2>2, <2>3 DEF AccessInv
<1>12. CASE RemoveAccess(w)
  <2>1. /\ wpc[w] = "remove_access" /\ wpc' = [wpc EXCEPT ![w] = "list_owned"]
        /\ UNCHANGED <<row, was, clash>>
    BY <1>12 DEF RemoveAccess
  <2>2. Apart'
    BY <1>0, <2>1, ApartKept DEF ConnectAt, RemoveAt, TypeOK
  <2>3. ~clash => row # "active"
    BY <1>0, <2>1 DEF Apart
  <2>4. AccessIsDue'
    BY <2>1, <2>3 DEF AccessIsDue
  <2> QED BY <2>2, <2>4 DEF AccessInv
<1>13. CASE CreateListCached(w)
  <2>1. /\ wpc[w] = "create_list"
        /\ wpc' = [wpc EXCEPT ![w] = IF list[Home[w]] = "with" THEN "create_enable"
                                                               ELSE "flush"]
        /\ blind' = IF list[Home[w]] = InList THEN blind ELSE blind \cup {who[w]}
        /\ UNCHANGED <<row, was, who, todo, clash, broken, agents, enabled, off>>
    BY <1>13 DEF CreateListCached
  <2>2. Apart'
    BY <1>0, <2>1, ApartKept DEF ConnectAt, RemoveAt, TypeOK
  <2>3. row = "active" /\ list[Home[w]] # "with" => who[w] \in blind'
    BY <2>1 DEF InList
  <2>4. \A v \in Writers, a \in agents \ blind' :
          row = "active" /\ Serves(v, a) => Serves(v, a)'
    BY <1>0, <2>1, <2>3 DEF Serves, TypeOK
  <2>5. blind \subseteq blind'
    BY <2>1
  <2>6. SUFFICES ASSUME row = "active" PROVE AccessIsDue'
    BY <2>1, <2>2 DEF AccessInv, AccessIsDue
  <2>7. AccessIsDue'
    BY <1>0, <2>1, <2>4, <2>5, <2>6, DueKept DEF Accessible
  <2> QED BY <2>7
<1>14. CASE CreateListRead(w)
  <2>1. /\ wpc[w] = "create_list" /\ wpc' = [wpc EXCEPT ![w] = "create_store"]
        /\ was' = [was EXCEPT ![w] = row]
        /\ UNCHANGED <<row, who, todo, clash, broken, agents, blind, enabled, off>>
    BY <1>14 DEF CreateListRead
  <2>2. Apart'
    BY <1>0, <2>1, ApartKept DEF ConnectAt, RemoveAt, TypeOK
  <2>3. \A v \in Writers, a \in agents : row = "active" /\ Serves(v, a) => Serves(v, a)'
    BY <1>0, <2>1 DEF Serves, TypeOK
  <2>4. SUFFICES ASSUME row = "active" PROVE AccessIsDue'
    BY <2>1, <2>2 DEF AccessInv, AccessIsDue
  <2>5. AccessIsDue'
    BY <1>0, <2>1, <2>3, <2>4, DueKept DEF Accessible
  <2> QED BY <2>5
<1>15. CASE CreateListStore(w)
  <2>1. /\ wpc[w] = "create_store"
        /\ wpc' = [wpc EXCEPT ![w] = IF was[w] = "absent" THEN "flush" ELSE "create_enable"]
        /\ UNCHANGED <<row, was, who, todo, clash, broken, agents, blind, enabled, off>>
    BY <1>15 DEF CreateListStore
  <2>2. Apart'
    BY <1>0, <2>1, ApartKept DEF ConnectAt, RemoveAt, TypeOK
  <2>3. \A v \in Writers, a \in agents : Serves(v, a) => Serves(v, a)'
    BY <1>0, <2>1 DEF Serves, TypeOK
  <2>4. AccessIsDue'
    BY <1>0, <2>1, <2>3, DueKept DEF Accessible
  <2> QED BY <2>2, <2>4 DEF AccessInv
<1>16. CASE CreateEnable(w)
  <2>1. /\ wpc[w] = "create_enable" /\ wpc' = [wpc EXCEPT ![w] = "flush"]
        /\ enabled' = enabled \cup {who[w]}
        /\ UNCHANGED <<row, was, who, todo, clash, broken, agents, blind, off>>
    BY <1>16 DEF CreateEnable
  <2>2. Apart'
    BY <1>0, <2>1, ApartKept DEF ConnectAt, RemoveAt, TypeOK
  <2>3. \A v \in Writers, a \in agents : Serves(v, a) => Serves(v, a)' \/ a = who[w]
    BY <1>0, <2>1 DEF Serves, TypeOK
  <2>4. Accessible(who[w])' /\ \A a \in agents : Accessible(a) => Accessible(a)'
    BY <2>1 DEF Accessible
  <2>5. AccessIsDue'
    BY <1>0, <2>1, <2>3, <2>4, DueKept
  <2> QED BY <2>2, <2>5 DEF AccessInv
<1>17. CASE ListOwned(w)
  <2>1. /\ wpc[w] = "list_owned" /\ wpc' = [wpc EXCEPT ![w] = "flush"]
        /\ UNCHANGED <<row, was, who, todo, clash, broken, agents, blind, enabled, off>>
    BY <1>17 DEF ListOwned
  <2>2. Apart'
    BY <1>0, <2>1, ApartKept DEF ConnectAt, RemoveAt, TypeOK
  <2>3. \A v \in Writers, a \in agents : Serves(v, a) => Serves(v, a)'
    BY <1>0, <2>1 DEF Serves, TypeOK
  <2>4. AccessIsDue'
    BY <1>0, <2>1, <2>3, DueKept DEF Accessible
  <2> QED BY <2>2, <2>4 DEF AccessInv
<1>18. CASE Fail(w)
  <2>1. /\ wpc[w] \notin {"idle", "flush"} /\ wpc' = [wpc EXCEPT ![w] = "idle"]
        /\ was' = [was EXCEPT ![w] = "absent"]
        /\ who' = [who EXCEPT ![w] = None] /\ todo' = [todo EXCEPT ![w] = {}]
        /\ broken' = (broken \/ wpc[w] \in CreateAt \cup {"fan_list", "fan", "self"})
        /\ UNCHANGED <<row, clash, agents, blind, enabled, off>>
    BY <1>18 DEF Fail
  <2>2. Apart'
    BY <1>0, <2>1, ApartKept DEF ConnectAt, RemoveAt, TypeOK
  <2>3. ~broken' => \A v \in Writers, a \in agents : Serves(v, a) => Serves(v, a)'
    BY <1>0, <2>1 DEF Serves, TypeOK, CreateAt
  <2>4. AccessIsDue'
    BY <1>0, <2>1, <2>3, DueKept DEF Accessible
  <2> QED BY <2>2, <2>4 DEF AccessInv
<1>19. CASE FailCreate(w)
  <2>1. /\ wpc[w] \in CreateAt /\ wpc' = [wpc EXCEPT ![w] = "idle"]
        /\ was' = [was EXCEPT ![w] = "absent"]
        /\ who' = [who EXCEPT ![w] = None] /\ todo' = [todo EXCEPT ![w] = {}]
        /\ agents' = agents \ {who[w]}
        /\ UNCHANGED <<row, clash, broken, blind, enabled, off>>
    BY <1>19 DEF FailCreate
  <2>2. Apart'
    BY <1>0, <2>1, ApartKept DEF ConnectAt, RemoveAt, TypeOK
  <2>3. \A v \in Writers, a \in agents' : Serves(v, a) => Serves(v, a)'
    BY <1>0, <2>1 DEF Serves, TypeOK, CreateAt
  <2>4. AccessIsDue'
    BY <1>0, <2>1, <2>3, DueKept DEF Accessible
  <2> QED BY <2>2, <2>4 DEF AccessInv
<1>20. CASE Flush(w)
  <2>1. /\ wpc[w] = "flush"
        /\ wpc' = [wpc EXCEPT ![w] = IF copy[w] = NoKey THEN "idle" ELSE "discover"]
        /\ was' = [was EXCEPT ![w] = "absent"] /\ who' = [who EXCEPT ![w] = None]
        /\ UNCHANGED <<row, todo, clash, broken, agents, blind, enabled, off>>
    BY <1>20 DEF Flush
  <2>2. Apart'
    BY <1>0, <2>1, ApartKept DEF ConnectAt, RemoveAt, TypeOK
  <2>3. \A v \in Writers, a \in agents : Serves(v, a) => Serves(v, a)'
    BY <1>0, <2>1 DEF Serves, TypeOK
  <2>4. AccessIsDue'
    BY <1>0, <2>1, <2>3, DueKept DEF Accessible
  <2> QED BY <2>2, <2>4 DEF AccessInv
<1>21. CASE Discover(w)
  <2>1. /\ wpc[w] = "discover" /\ wpc' = [wpc EXCEPT ![w] = "idle"]
        /\ row' = "active" /\ clash' = (clash \/ row # "active")
        /\ UNCHANGED <<was, who, todo, broken, agents, blind, enabled, off>>
    BY <1>21 DEF Discover
  <2>2. CASE row = "active"
    <3>1. Apart'
      BY <1>0, <2>1, <2>2, ApartKept DEF ConnectAt, RemoveAt, TypeOK
    <3>2. \A v \in Writers, a \in agents : Serves(v, a) => Serves(v, a)'
      BY <1>0, <2>1 DEF Serves, TypeOK
    <3>3. AccessIsDue'
      BY <1>0, <2>1, <2>2, <3>2, DueKept DEF Accessible
    <3> QED BY <3>1, <3>3 DEF AccessInv
  <2>3. CASE row # "active"
    BY <2>1, <2>3 DEF AccessInv, Apart, AccessIsDue
  <2> QED BY <2>2, <2>3
<1> QED BY <1>1, <1>2, <1>3, <1>4, <1>5, <1>6, <1>7, <1>8, <1>9, <1>10, <1>11, <1>12,
           <1>13, <1>14, <1>15, <1>16, <1>17, <1>18, <1>19, <1>20, <1>21
        DEF Continue

-----------------------------------------------------------------------------
(* Stale entries have their reason.                                        *)

LEMMA CacheInit == Init => CacheInv
BY DEF Init, CacheInv, StaleChainExplained, FillsFollow

(* After a write of a call on replica r all is excused: there by the       *)
(* invalidation the call still owes or never makes, elsewhere by name. *)
LEMMA WriteExcuses ==
  ASSUME Types, NEW r \in Replicas, Excused(r)',
         UNCHANGED <<rpc, rkey, ragent>>,
         \A f \in Readers : Home[f] # r /\ rpc[f] # "idle" => late'[f],
         \A e \in Replicas, a \in Agents :
           e # r /\ chain'[e][a] # NoEntry => <<e, a>> \in over'
  PROVE  CacheInv'
<1> USE AccessAssumption
<1>1. StaleChainExplained'
  <2> SUFFICES ASSUME NEW e \in Replicas, NEW a \in Agents, chain'[e][a] # NoEntry
               PROVE  Excused(e)' \/ <<e, a>> \in over'
    BY DEF StaleChainExplained, Excused
  <2> QED OBVIOUS
<1>2. FillsFollow'
  <2> SUFFICES ASSUME NEW f \in Readers, rpc[f] \in {"access", "store"}
               PROVE  Excused(Home[f])' \/ late'[f]
    BY DEF FillsFollow
  <2> QED OBVIOUS
<1> QED BY <1>1, <1>2 DEF CacheInv

(* The same for a write that leaves the caches to a later invalidation. *)
LEMMA WrittenExcuses ==
  ASSUME Types, NEW w \in Writers, Written(Home[w]), wpc'[w] \in Committed,
         UNCHANGED <<rpc, rkey, ragent, chain>>
  PROVE  CacheInv'
<1> USE AccessAssumption
<1>1. Home[w] \in Replicas /\ Excused(Home[w])'
  BY DEF Pending, Excused
<1>2. \A f \in Readers : Home[f] # Home[w] /\ rpc[f] # "idle" => late'[f]
  BY DEF Written, Overtakes, Abroad
<1>3. \A e \in Replicas, a \in Agents :
        e # Home[w] /\ chain'[e][a] # NoEntry => <<e, a>> \in over'
  BY DEF Written, Outdated
<1> QED BY <1>1, <1>2, <1>3, WriteExcuses

(* A step that writes no row: what is excused stays so, entry by entry. *)
LEMMA ExcusesStay ==
  ASSUME Types, CacheInv, UNCHANGED <<row, key, enabled, rkey, ragent, rpc>>,
         \A r \in Replicas : Excused(r) => Excused(r)' \/
           /\ \A a \in Agents : chain'[r][a] = NoEntry
           /\ \A f \in Readers : Home[f] = r /\ rpc[f] # "idle" => late'[f],
         \A f \in Readers : late[f] => late'[f],
         \A r \in Replicas, a \in Agents :
           chain'[r][a] # NoEntry => /\ chain'[r][a] = chain[r][a]
                                     /\ <<r, a>> \in over => <<r, a>> \in over'
  PROVE  CacheInv'
<1> USE AccessAssumption
<1>1. \A a \in Agents \cup {None} : ChainOf(a)' = ChainOf(a)
  BY DEF ChainOf
<1>2. RowPart' = RowPart
  BY DEF RowPart
<1>3. StaleChainExplained'
  <2> SUFFICES ASSUME NEW r \in Replicas, NEW a \in Agents,
                      chain'[r][a] \notin {NoEntry, ChainOf(a)'}
               PROVE  Excused(r)' \/ <<r, a>> \in over'
    BY DEF StaleChainExplained, Excused
  <2>1. Excused(r) \/ <<r, a>> \in over
    BY <1>1 DEF CacheInv, StaleChainExplained, Excused
  <2> QED BY <2>1
<1>4. FillsFollow'
  <2> SUFFICES ASSUME NEW f \in Readers,
                      \/ rpc[f] = "access" /\ rkey[f] # RowPart'
                      \/ rpc[f] = "store" /\ rkey[f] # ChainOf(ragent[f])'
               PROVE  Excused(Home[f])' \/ late'[f]
    BY DEF FillsFollow
  <2>1. ragent[f] \in Agents \cup {None}
    BY DEF Types, TypeOK
  <2>2. Excused(Home[f]) \/ late[f]
    BY <1>1, <1>2, <2>1 DEF CacheInv, FillsFollow
  <2> QED BY <2>2
<1> QED BY <1>3, <1>4 DEF CacheInv

(* Every invalidation of a tenant ends the excuses of its replica. *)
LEMMA TenantInvalidated ==
  ASSUME Types, CacheInv, NEW w \in Writers, InvalidateTenant(Home[w]),
         UNCHANGED <<row, key, enabled, rkey, ragent, rpc>>,
         \A v \in Writers : v # w => wpc'[v] = wpc[v]
  PROVE  CacheInv'
<1> USE AccessAssumption
<1> DEFINE r == Home[w]
<1>1. r \in Replicas
  OBVIOUS
<1>2. /\ \A a \in Agents : chain'[r][a] = NoEntry
      /\ \A e \in Replicas : e # r => chain'[e] = chain[e]
      /\ \A f \in Readers : (Home[f] = r /\ rpc[f] # "idle") \/ late[f] => late'[f]
      /\ \A e \in Replicas, a \in Agents : e # r /\ <<e, a>> \in over => <<e, a>> \in over'
      /\ uncleared' = uncleared \ {r}
  BY <1>1 DEF InvalidateTenant, Types, TypeOK
<1>3. \A e \in Replicas : e # r /\ Excused(e) => Excused(e)'
  BY <1>2 DEF Excused, Pending
<1> QED BY <1>1, <1>2, <1>3, ExcusesStay

LEMMA CacheWriter ==
  ASSUME Types, CacheInv, NEW w \in Writers,
         \/ Connect(w) \/ Remove(w) \/ Enable(w) \/ Disable(w) \/ CreateAgent(w)
         \/ Rotate(w) \/ Refresh(w) \/ Continue(w)
  PROVE  CacheInv'
<1> USE AccessAssumption
<1> USE DEF Goto, Abort, Begin, rows, caches, writers, fills, readers, history, excuses
<1>0. Home[w] \in Replicas /\ wpc \in [Writers -> WriterAt]
  BY DEF Types, TypeOK
<1>1. CASE \/ Enable(w) \/ Disable(w) \/ Rotate(w) \/ ConnectWrite(w) \/ EnableSelf(w)
           \/ RemoveSave(w) \/ RemoveAccess(w) \/ CreateEnable(w)
  <2>1. Written(Home[w]) /\ UNCHANGED <<rpc, rkey, ragent, chain>>
    BY <1>1 DEF Enable, Disable, Rotate, ConnectWrite, EnableSelf, RemoveSave,
                RemoveAccess, CreateEnable
  <2>2. wpc'[w] \in Committed
    BY <1>0, <1>1 DEF Enable, Disable, Rotate, ConnectWrite, EnableSelf, RemoveSave,
                      RemoveAccess, CreateEnable, Committed
  <2> QED BY <2>1, <2>2, WrittenExcuses
<1>2. CASE FanOut(w)
  <2>1. PICK b \in todo[w] :
          /\ InvalidateAgent(Home[w], b)
          /\ Overtakes(Filling(Home[w], b) \union Abroad(Home[w]))
          /\ over' = (over \ {<<Home[w], b>>}) \union Outdated(Home[w])
    BY <1>2 DEF FanOut
  <2>2. Excused(Home[w])'
    BY <1>2 DEF FanOut, Pending, Committed, Excused
  <2>3. UNCHANGED <<rpc, rkey, ragent>>
    BY <1>2 DEF FanOut
  <2>4. \A f \in Readers : Home[f] # Home[w] /\ rpc[f] # "idle" => late'[f]
    BY <2>1 DEF Overtakes, Abroad
  <2>5. \A e \in Replicas, a \in Agents :
          e # Home[w] /\ chain'[e][a] # NoEntry => <<e, a>> \in over'
    BY <1>0, <2>1 DEF InvalidateAgent, Outdated, Types, TypeOK
  <2> QED BY <1>0, <2>2, <2>3, <2>4, <2>5, WriteExcuses
<1>3. CASE FanEnd(w) \/ Flush(w)
  BY <1>0, <1>3, TenantInvalidated DEF FanEnd, Flush
<1>4. CASE \/ Connect(w) \/ Remove(w) \/ CreateAgent(w) \/ Refresh(w) \/ ConnectConflict(w) \/ FanList(w)
           \/ CreateListCached(w) \/ CreateListRead(w) \/ CreateListStore(w) \/ ListOwned(w)
  <2>1. UNCHANGED <<row, key, enabled, rkey, ragent, rpc, late, chain, over, uncleared>>
    BY <1>4 DEF Connect, Remove, CreateAgent, Refresh, ConnectConflict, FanList, CreateListCached,
                CreateListRead, CreateListStore, ListOwned
  <2>2. /\ wpc[w] \in Committed => wpc'[w] \in Committed
        /\ \A v \in Writers : v # w => wpc'[v] = wpc[v]
    BY <1>0, <1>4
       DEF Connect, Remove, CreateAgent, Refresh, ConnectConflict, FanList, CreateListCached,
           CreateListRead, CreateListStore, ListOwned, Committed
  <2>3. \A r \in Replicas : Excused(r) => Excused(r)'
    BY <2>1, <2>2 DEF Excused, Pending
  <2> QED BY <2>1, <2>3, ExcusesStay
<1>5. CASE Fail(w)
  <2>1. /\ UNCHANGED <<row, key, enabled, rkey, ragent, rpc, late, chain, over>>
        /\ \A v \in Writers : v # w => wpc'[v] = wpc[v]
        /\ uncleared' = IF wpc[w] \in Committed THEN uncleared \cup {Home[w]}
                                                ELSE uncleared
    BY <1>5 DEF Fail
  <2>2. \A r \in Replicas : Excused(r) => Excused(r)'
    BY <2>1 DEF Excused, Pending
  <2> QED BY <2>1, <2>2, ExcusesStay
<1>6. CASE FailCreate(w)
  <2> DEFINE b == who[w]
  <2>1. b \in Agents /\ wpc[w] \notin Committed
    BY <1>6 DEF FailCreate, Types, Named, CreateAt, Committed
  <2>2. /\ UNCHANGED <<row, key, enabled, rkey, ragent, rpc, uncleared>>
        /\ \A v \in Writers : v # w => wpc'[v] = wpc[v]
        /\ chain' = [chain EXCEPT ![Home[w]][b] = NoEntry]
        /\ over' = over \ {<<Home[w], b>>}
        /\ \A f \in Readers : late[f] => late'[f]
    <3>1. /\ InvalidateAgent(Home[w], b) /\ Overtakes(Filling(Home[w], b))
          /\ wpc' = [wpc EXCEPT ![w] = "idle"]
      BY <1>6 DEF FailCreate
    <3>2. UNCHANGED <<row, key, enabled, rkey, ragent, rpc>>
          /\ over' = over \ {<<Home[w], b>>}
      BY <1>6 DEF FailCreate
    <3>3. /\ chain' = [chain EXCEPT ![Home[w]][b] = NoEntry]
          /\ UNCHANGED uncleared
      BY <3>1 DEF InvalidateAgent
    <3>4. \A f \in Readers : late[f] => late'[f]
      BY <3>1 DEF Overtakes
    <3> QED BY <1>0, <3>1, <3>2, <3>3, <3>4
  <2>3. \A r \in Replicas, a \in Agents :
          chain'[r][a] # NoEntry => /\ chain'[r][a] = chain[r][a]
                                    /\ <<r, a>> \in over => <<r, a>> \in over'
    BY <1>0, <2>1, <2>2 DEF Types, TypeOK
  <2>4. \A r \in Replicas : Excused(r) => Excused(r)'
    BY <2>1, <2>2 DEF Excused, Pending
  <2> QED BY <2>2, <2>3, <2>4, ExcusesStay
<1>7. CASE Discover(w)
  <2>1. /\ wpc' = [wpc EXCEPT ![w] = "idle"] /\ row' = "active" /\ key' = copy[w]
        /\ wpc[w] = "discover"
        /\ UNCHANGED <<enabled, chain, rpc, rkey, ragent>>
    BY <1>7 DEF Discover
  <2>2. CASE row = "active" /\ key = copy[w]
    <3>1. UNCHANGED <<row, key, over, uncleared>>
          /\ \A f \in Readers : late[f] => late'[f]
      BY <1>7, <2>2 DEF Discover, Overtakes
    <3>2. \A r \in Replicas : Excused(r) => Excused(r)'
      BY <1>0, <2>1, <3>1 DEF Excused, Pending, Committed
    <3> QED BY <2>1, <3>1, <3>2, ExcusesStay
  <2>3. CASE ~(row = "active" /\ key = copy[w])
    <3>1. /\ Overtakes(Abroad(Home[w])) /\ over' = over \union Outdated(Home[w])
          /\ uncleared' = uncleared \union {Home[w]}
      BY <1>7, <2>3 DEF Discover
    <3>2. Excused(Home[w])'
      BY <3>1 DEF Excused
    <3>3. \A f \in Readers : Home[f] # Home[w] /\ rpc[f] # "idle" => late'[f]
      BY <3>1 DEF Overtakes, Abroad
    <3>4. \A e \in Replicas, a \in Agents :
            e # Home[w] /\ chain'[e][a] # NoEntry => <<e, a>> \in over'
      BY <2>1, <3>1 DEF Outdated
    <3> QED BY <1>0, <2>1, <3>2, <3>3, <3>4, WriteExcuses
  <2> QED BY <2>2, <2>3
<1> QED BY <1>1, <1>2, <1>3, <1>4, <1>5, <1>6, <1>7 DEF Continue

LEMMA CacheReader ==
  ASSUME Types, CacheInv, NEW f \in Readers, ReadRow(f) \/ ReadList(f) \/ Fill(f)
  PROVE  CacheInv'
<1> USE AccessAssumption
<1> USE DEF rows, caches, writers, fills, readers, history, excuses
<1>0. /\ Home[f] \in Replicas /\ TypeOK
      /\ UNCHANGED <<row, key, enabled, uncleared, wpc>>
  BY DEF Types, ReadRow, ReadList, Fill, ReadAccess, StoreChain, StoreList
<1>1. /\ \A r : Excused(r)' = Excused(r)
      /\ \A a : ChainOf(a)' = ChainOf(a)
      /\ RowPart' = RowPart
  BY <1>0 DEF Excused, Pending, ChainOf, RowPart
<1>2. \A g \in Readers : g # f => /\ rpc'[g] = rpc[g] /\ rkey'[g] = rkey[g]
                                  /\ ragent'[g] = ragent[g] /\ late'[g] = late[g]
  BY <1>0 DEF ReadRow, ReadList, Fill, ReadAccess, StoreChain, StoreList, TypeOK
<1>3. ASSUME \/ rpc'[f] = "access" /\ rkey'[f] = RowPart
             \/ rpc'[f] = "store" /\ (rkey'[f] # ChainOf(ragent'[f])
                                       => Excused(Home[f]) \/ late'[f])
             \/ rpc'[f] \notin {"access", "store"}
      PROVE  FillsFollow'
  <2> SUFFICES ASSUME NEW g \in Readers
               PROVE  /\ rpc'[g] = "access" /\ rkey'[g] # RowPart
                           => Excused(Home[g]) \/ late'[g]
                      /\ rpc'[g] = "store" /\ rkey'[g] # ChainOf(ragent'[g])
                           => Excused(Home[g]) \/ late'[g]
    BY <1>1 DEF FillsFollow
  <2>1. CASE g = f
    BY <1>3, <2>1
  <2>2. CASE g # f
    BY <1>2, <2>2 DEF CacheInv, FillsFollow
  <2> QED BY <2>1, <2>2
<1>4. ASSUME UNCHANGED <<chain, over>> PROVE StaleChainExplained'
  BY <1>0, <1>1, <1>4 DEF CacheInv, StaleChainExplained, Excused
<1>5. CASE ReadRow(f)
  <2>1. rpc'[f] = "access" /\ rkey'[f] = RowPart
    BY <1>0, <1>5 DEF ReadRow, RowPart, TypeOK
  <2> QED BY <1>3, <1>4, <1>5, <2>1 DEF ReadRow, CacheInv
<1>6. CASE ReadList(f)
  <2>1. rpc'[f] \notin {"access", "store"}
    BY <1>0, <1>6 DEF ReadList, TypeOK
  <2> QED BY <1>3, <1>4, <1>6, <2>1 DEF ReadList, CacheInv
<1>7. CASE ReadAccess(f)
  <2>1. /\ rpc[f] = "access" /\ rpc'[f] = "store" /\ late' = late /\ ragent' = ragent
        /\ rkey'[f] = IF ragent[f] \in enabled THEN rkey[f] ELSE NoKey
    BY <1>0, <1>7 DEF ReadAccess, TypeOK
  <2>2. rkey[f] # RowPart => Excused(Home[f]) \/ late[f]
    BY <2>1 DEF CacheInv, FillsFollow
  <2>3. ChainOf(ragent[f]) = IF ragent[f] \in enabled THEN RowPart ELSE NoKey
    BY DEF ChainOf, RowPart
  <2> QED BY <1>3, <1>4, <1>7, <2>1, <2>2, <2>3 DEF ReadAccess, CacheInv
<1>8. CASE StoreChain(f)
  <2> DEFINE r == Home[f]
             b == ragent[f]
  <2>1. /\ rpc[f] = "store" /\ rpc'[f] = "idle" /\ b \in Agents
        /\ chain' = [chain EXCEPT ![r][b] = rkey[f]]
        /\ over' = IF late[f] THEN over \cup {<<r, b>>} ELSE over \ {<<r, b>>}
    BY <1>0, <1>8 DEF StoreChain, TypeOK, Types, Named
  <2>2. rkey[f] # ChainOf(b) => Excused(r) \/ late[f]
    BY <2>1 DEF CacheInv, FillsFollow
  <2>3. StaleChainExplained'
    <3> SUFFICES ASSUME NEW e \in Replicas, NEW a \in Agents,
                        chain'[e][a] \notin {NoEntry, ChainOf(a)}
                 PROVE  Excused(e) \/ <<e, a>> \in over'
      BY <1>1 DEF StaleChainExplained, Excused
    <3>1. CASE e = r /\ a = b
      BY <1>0, <2>1, <2>2, <3>1 DEF TypeOK
    <3>2. CASE ~(e = r /\ a = b)
      <4>1. chain'[e][a] = chain[e][a] /\ (<<e, a>> \in over => <<e, a>> \in over')
        BY <1>0, <2>1, <3>2 DEF TypeOK
      <4> QED BY <4>1 DEF CacheInv, StaleChainExplained, Excused
    <3> QED BY <3>1, <3>2
  <2> QED BY <1>3, <2>1, <2>3 DEF CacheInv
<1>9. CASE StoreList(f)
  <2>1. rpc'[f] \notin {"access", "store"}
    BY <1>0, <1>9 DEF StoreList, TypeOK
  <2> QED BY <1>3, <1>4, <1>9, <2>1 DEF StoreList, CacheInv
<1> QED BY <1>5, <1>6, <1>7, <1>8, <1>9 DEF Fill

-----------------------------------------------------------------------------
(* Theorems.                                                               *)

LEMMA Step ==
  ASSUME IInv, [Next]_vars
  PROVE  IInv'
<1> USE DEF rows, caches, writers, fills, readers, history, excuses
<1>0. Types' /\ Types /\ CacheInv /\ AccessInv
  BY TypesStep DEF IInv
<1>1. ASSUME NEW w \in Writers,
             \/ Connect(w) \/ Remove(w) \/ Enable(w) \/ Disable(w) \/ CreateAgent(w)
             \/ Rotate(w) \/ Refresh(w) \/ Continue(w)
      PROVE  CacheInv' /\ AccessInv'
  BY <1>0, <1>1, CacheWriter, AccessWriter
<1>2. ASSUME UNCHANGED <<row, agents, enabled, writers, history>>
      PROVE  AccessInv'
  BY <1>0, <1>2 DEF AccessInv, Apart, Connecting, Removing, AccessIsDue, Accessible, Serves
<1>3. ASSUME NEW f \in Readers, ReadRow(f) \/ ReadList(f) \/ Fill(f)
      PROVE  CacheInv' /\ AccessInv'
  <2>1. UNCHANGED <<row, agents, enabled, writers, history>>
    BY <1>3 DEF ReadRow, ReadList, Fill, ReadAccess, StoreChain, StoreList
  <2> QED BY <1>0, <1>2, <1>3, <2>1, CacheReader
<1>4. ASSUME NEW r \in Replicas,
             ExpireList(r) \/ \E a \in Agents : ExpireChain(r, a)
      PROVE  CacheInv' /\ AccessInv'
  <2>1. UNCHANGED <<row, key, agents, enabled, writers, history, readers, uncleared>>
    BY <1>4 DEF ExpireList, ExpireChain
  <2>2. \A e \in Replicas, a \in Agents :
          chain'[e][a] # NoEntry => /\ chain'[e][a] = chain[e][a]
                                    /\ <<e, a>> \in over => <<e, a>> \in over'
    BY <1>0, <1>4 DEF ExpireList, ExpireChain, Types, TypeOK
  <2>3. \A e \in Replicas : Excused(e) => Excused(e)'
    BY <2>1 DEF Excused, Pending
  <2>4. CacheInv'
    BY <1>0, <2>1, <2>2, <2>3, ExcusesStay
  <2> QED BY <1>2, <2>1, <2>4
<1>5. CASE UNCHANGED vars
  <2>1. CacheInv'
    BY <1>0, <1>5 DEF vars, CacheInv, StaleChainExplained, FillsFollow, Pending, Excused,
                      ChainOf, RowPart
  <2> QED BY <1>0, <1>2, <1>5, <2>1 DEF vars, IInv
<1> QED BY <1>0, <1>1, <1>3, <1>4, <1>5 DEF Next, IInv

THEOREM Invariance == Spec => []IInv
<1>1. Init => IInv
  BY TypesInit, CacheInit, AccessInit DEF IInv
<1>2. IInv /\ [Next]_vars => IInv'
  BY Step
<1> QED BY <1>1, <1>2, PTL DEF Spec

(* All variables keep their types. *)
THEOREM TypeCorrect == Spec => []TypeOK
<1>1. IInv => TypeOK
  BY DEF IInv, Types
<1> QED BY <1>1, Invariance, PTL

(* Providers are on by default: connecting, reconnecting and creating      *)
(* agents, in any order, leave no agent without access to an active        *)
(* provider but for a switch, an outdated list, or calls that overlapped   *)
(* or failed (upsertProvider, enableProviderForAllAgents,                  *)
(* enableAllProvidersForAgent).                                            *)
THEOREM ProvidersOnByDefault == Spec => []OnByDefault
<1>1. IInv => OnByDefault
  <2> SUFFICES ASSUME IInv, row = "active", Settled, ~clash, ~broken,
                      NEW a \in agents \ blind
               PROVE  Accessible(a)
    BY DEF OnByDefault
  <2>1. \A w \in Writers : ~Serves(w, a)
    BY DEF Settled, Serves, ConnectAt, CreateAt
  <2> QED BY <2>1 DEF IInv, AccessInv, AccessIsDue
<1> QED BY <1>1, Invariance, PTL

(* A cached key chain differs from the database only while its writer      *)
(* still has to invalidate it, or for one of the named reasons             *)
(* (RoutingCacheService).                                                  *)
THEOREM StaleChainsExplained == Spec => []StaleChainExplained
<1>1. IInv => StaleChainExplained
  BY DEF IInv, CacheInv
<1> QED BY <1>1, Invariance, PTL
=============================================================================
