---------------------------- MODULE ProviderKeys ----------------------------
(***************************************************************************)
(* The keys of one provider connection and a routing tier that uses them:  *)
(* ProviderService connects, renames, reorders, removes and disconnects    *)
(* keys, TierService edits the tier's primary route and fallbacks,         *)
(* ProviderKeyService picks the key a route is served with.  A call is     *)
(* several database statements without a common transaction: calls of the  *)
(* dashboard interleave at each of them, or stop half-way.                 *)
(***************************************************************************)
EXTENDS Integers, FiniteSets

CONSTANTS
  Callers,       (* dashboard requests; each is used again                   *)
  Ids,           (* row ids, as many connections as may be created           *)
  Labels,        (* names of keys                                            *)
  Default,       (* DEFAULT_LABEL                                            *)
  None,          (* no label                                                 *)
  Nobody,        (* no key                                                   *)
  MaxKeys,       (* MAX_KEYS_PER_PROVIDER                                    *)
  MaxFallbacks,  (* bound: fallbacks of the tier                             *)
  FirstIds,      (* bound: ids given out at the start                        *)
  FirstRoutes,   (* bound: routes of the tier at the start                   *)
  MaxCalls       (* bound: calls in a behaviour                              *)

ASSUME KeysAssumption ==
  /\ Ids \subseteq Nat /\ IsFiniteSet(Ids)
  /\ Default \in Labels /\ None \notin Labels /\ None \notin Ids
  /\ FirstIds \subseteq SUBSET Ids
  /\ Nobody \notin Ids \cup {None}
  /\ {MaxKeys, MaxFallbacks, FirstRoutes, MaxCalls} \subseteq Nat

VARIABLES
  rows,    (* tenant_providers: id -> row of the connection                  *)
  tier,    (* tier_assignments: primary (a set of at most one) and fallbacks *)
  call,    (* what each caller is doing and the entities it holds            *)
  used,    (* ids given out                                                  *)
  calls,   (* calls started                                                  *)
  raced    (* history: which overtaken reads were followed by a write        *)

vars == <<rows, tier, call, used, calls, raced>>

-----------------------------------------------------------------------------
(* A route is the label it pins and, as history, the key of that name when *)
(* its edit was checked: None if it pins none, Nobody if there was no key. *)

Pins     == Labels \cup {None}
Route    == [pin : Pins, key : Ids \cup {None, Nobody}]
Unpinned == [pin |-> None, key |-> None]

Tier      == [over : SUBSET Route, fb : SUBSET Route]
NoRoutes  == [over |-> {}, fb |-> {}]
Routes(t) == t.over \cup t.fb

Active(rs) == {k \in DOMAIN rs : rs[k].active}
Only(rs, ids) == [k \in ids |-> rs[k]]
One(k, row) == [j \in {k} |-> row]

\* the table once the entities es are saved
Saved(rs, es) ==
  [k \in DOMAIN es \cup DOMAIN rs |-> IF k \in DOMAIN es THEN es[k] ELSE rs[k]]

\* order: priority ASC, id ASC
Before(rs, j, k) ==
  \/ rs[j].priority < rs[k].priority
  \/ rs[j].priority = rs[k].priority /\ j < k

First(rs) == CHOOSE k \in Active(rs) : \A j \in Active(rs) \ {k} : Before(rs, k, j)

Named(rs, pin) == {k \in Active(rs) : rs[k].label = pin}

\* selectProviderKey: the key with the pinned label, else the first one
Select(rs, pin) ==
  IF Named(rs, pin) = {} THEN First(rs) ELSE CHOOSE k \in Named(rs, pin) : TRUE

\* the label is stored as the client sent it
RouteTo(rs, pin) ==
  [pin |-> pin,
   key |-> IF Active(rs) = {} THEN Nobody
           ELSE IF pin = None THEN None
           ELSE IF Named(rs, pin) = {} THEN Nobody ELSE Select(rs, pin)]

RoutesTo(rs) == {RouteTo(rs, pin) : pin \in Pins}

\* routeBelongsToProviderRow
Belongs(route, row) ==
  IF route.pin = None THEN row.priority = 0 ELSE route.pin = row.label

\* mutant: looks at the primary route only
RoutesUsedPrimary(t, rs) == \E r \in t.over, k \in DOMAIN rs : Belongs(r, rs[k])

RoutesUsed(t, rs) == \E r \in Routes(t), k \in DOMAIN rs : Belongs(r, rs[k])

LabelsUnique(rs) ==
  \A j, k \in DOMAIN rs : rs[j].label = rs[k].label => j = k

NextPriority(rs) ==
  IF Active(rs) = {} THEN 0
  ELSE 1 + CHOOSE p \in {rs[k].priority : k \in Active(rs)} :
             \A k \in Active(rs) : rs[k].priority <= p

-----------------------------------------------------------------------------
(* What a caller holds.  "late" names the tables written by another call   *)
(* since this one read them.                                               *)

Idle == [job |-> "none", at |-> "none", seen |-> <<>>, draft |-> NoRoutes,
         target |-> None, was |-> None, late |-> {}]

Move(c, next) == call' = [call EXCEPT ![c] = next]

Wrote(c, table, next) ==
  call' = [d \in Callers |->
             IF d = c THEN next
             ELSE IF call[d].job = "none" THEN call[d]
             ELSE [call[d] EXCEPT !.late = @ \cup {table}]]

\* a key has its new label, the routes pinned to it still the old one
Relabelling(d) == call[d].job = "rename" /\ call[d].at \in {"relabel", "relabelled"}

MidRename == <<"rename", "between">>

Behind(c, step) ==
  {<<step, table>> : table \in call[c].late}
    \cup (IF \E d \in Callers \ {c} : Relabelling(d) THEN {MidRename} ELSE {})

\* Repository.save writes every column of the entities it is given, and
\* inserts the ones the table does not have
WriteKeys(c, new, next) ==
  /\ rows' = new
  /\ IF new = rows THEN Move(c, next) ELSE Wrote(c, "keys", next)
  /\ raced' = raced \cup Behind(c, "keys")

WriteTier(c, new, next) ==
  /\ tier' = new
  /\ IF new = tier THEN Move(c, next) ELSE Wrote(c, "tier", next)
  /\ raced' = raced \cup Behind(c, "tier")

Start(c, job, at, seen, draft) ==
  /\ call[c].job = "none" /\ calls < MaxCalls
  /\ calls' = calls + 1
  /\ Move(c, [Idle EXCEPT !.job = job, !.at = at, !.seen = seen, !.draft = draft])
  /\ UNCHANGED <<rows, tier, raced>>

-----------------------------------------------------------------------------
(* Connecting.  "named" is false for clients that pass no label.           *)

Reactivated(k) == One(k, [rows[k] EXCEPT !.active = TRUE])
Created(k, l, p) == One(k, [label |-> l, priority |-> p, active |-> TRUE])

\* the key of the given label, or the one that holds the same API key
ConnectKnown(c) ==
  \E k \in DOMAIN rows :
    /\ Start(c, "connect", "save", Reactivated(k), NoRoutes)
    /\ UNCHANGED used

ConnectNew(c) ==
  \E k \in Ids \ used, l \in Labels, named \in BOOLEAN :
    /\ \A j \in DOMAIN rows : rows[j].label # l
    /\ named => Cardinality(Active(rows)) < MaxKeys
    /\ ~named => l = Default
    /\ Start(c, "connect", "save",
             Created(k, l, IF named THEN NextPriority(rows) ELSE 0), NoRoutes)
    /\ used' = used \cup {k}

Connect(c) == ConnectKnown(c) \/ ConnectNew(c)

\* "refresh models": the active keys are read, and each saved on its own
Refresh(c) ==
  \E k \in Active(rows) :
    /\ Start(c, "discover", "save", Only(rows, {k}), NoRoutes)
    /\ UNCHANGED used

Rename(c) ==
  \E k \in DOMAIN rows, l \in Labels :
    /\ \A j \in DOMAIN rows : rows[j].label # l
    /\ call[c].job = "none" /\ calls < MaxCalls
    /\ calls' = calls + 1
    /\ Move(c, [Idle EXCEPT !.job = "rename", !.at = "save", !.target = k,
                  !.was = rows[k].label,
                  !.seen = One(k, [rows[k] EXCEPT !.label = l])])
    /\ UNCHANGED <<rows, tier, used, raced>>

\* a permutation of the active keys' labels
Reorder(c) ==
  /\ Active(rows) # {}
  /\ \E rank \in [Active(rows) -> 0..(Cardinality(Active(rows)) - 1)] :
       /\ \A j, k \in Active(rows) : rank[j] = rank[k] => j = k
       /\ Start(c, "reorder", "save",
                [k \in Active(rows) |-> [rows[k] EXCEPT !.priority = rank[k]]],
                NoRoutes)
  /\ UNCHANGED used

\* a new or reactivated key is saved once more, with the models discovered
AfterSave(w) ==
  CASE w.job = "rename"  -> [w EXCEPT !.at = "relabel", !.late = @ \ {"keys"}]
    [] w.job = "connect" -> [w EXCEPT !.job = "discover", !.late = {}]
    [] OTHER             -> Idle

\* mutant: no unique index on the label
SaveKeysNoIndex(c) ==
  LET w == call[c] IN
  /\ w.at = "save"
  /\ WriteKeys(c, Saved(rows, w.seen),
       AfterSave(w))
  /\ UNCHANGED <<tier, used, calls>>

\* the save of a connect, a discovery, a rename, a reorder, a disconnect or
\* a renumber
SaveKeys(c) ==
  LET w   == call[c]
      new == Saved(rows, w.seen)
  IN  /\ w.at = "save"
      /\ IF LabelsUnique(new)
           THEN WriteKeys(c, new, AfterSave(w))
           ELSE Move(c, Idle) /\ UNCHANGED <<rows, raced>>
      /\ UNCHANGED <<tier, used, calls>>

-----------------------------------------------------------------------------
(* Pins follow a renamed key and lose a removed one.                       *)

Meant(r, to) == IF to = None /\ r.key # Nobody THEN None ELSE r.key

\* mutant: the fallbacks keep their pins
RelabelledPrimary(t, from, to) ==
  LET Swap(r) == IF r.pin = from
                   THEN [pin |-> to, key |-> Meant(r, to)]
                   ELSE r
  IN  [t EXCEPT !.over = {Swap(r) : r \in @}]

Relabelled(t, from, to) ==
  LET Swap(r) == IF r.pin = from
                   THEN [pin |-> to, key |-> Meant(r, to)]
                   ELSE r
  IN  [over |-> {Swap(r) : r \in t.over}, fb |-> {Swap(r) : r \in t.fb}]

AfterRelabel(w) ==
  IF w.job = "rename" THEN Idle ELSE [w EXCEPT !.at = "delete"]

RelabelRead(c) ==
  LET w   == call[c]
      to  == IF w.job = "rename" THEN w.seen[w.target].label ELSE None
      new == Relabelled(tier, w.was, to)
  IN  /\ w.at = "relabel"
      /\ Move(c, IF new = tier
                   THEN AfterRelabel(w)
                   ELSE [w EXCEPT !.at = "relabelled", !.draft = new,
                                  !.late = @ \ {"tier"}])
      /\ UNCHANGED <<rows, tier, used, calls, raced>>

RelabelSave(c) ==
  /\ call[c].at = "relabelled"
  /\ WriteTier(c, call[c].draft, AfterRelabel([call[c] EXCEPT !.draft = NoRoutes]))
  /\ UNCHANGED <<rows, used, calls>>

-----------------------------------------------------------------------------
(* Disconnecting the provider and removing one key.                        *)

\* removeProvider without a label, deactivateAllProviders
Disconnect(c) ==
  /\ Active(rows) # {}
  /\ \E job \in {"disconnect", "deactivate"} :
       Start(c, job, "check", Only(rows, Active(rows)), NoRoutes)
  /\ UNCHANGED used

RemoveKey(c) ==
  \E k \in DOMAIN rows :
    /\ call[c].job = "none" /\ calls < MaxCalls
    /\ calls' = calls + 1
    /\ Move(c, [Idle EXCEPT
         !.job    = IF Active(rows) = {k} THEN "last" ELSE "remove",
         !.at     = IF Active(rows) = {k} THEN "reread"
                    ELSE IF rows[k].active THEN "check" ELSE "relabel",
         !.target = k,
         !.was    = IF rows[k].active THEN None ELSE rows[k].label,
         !.seen   = IF rows[k].active THEN Only(rows, {k}) ELSE <<>>])
    /\ UNCHANGED <<rows, tier, used, raced>>

\* the last active key: removeProvider looks for active keys again
Reread(c) ==
  /\ call[c].at = "reread"
  /\ Move(c, IF Active(rows) = {} THEN Idle
             ELSE [Idle EXCEPT !.job = "disconnect", !.at = "check",
                               !.seen = Only(rows, Active(rows))])
  /\ UNCHANGED <<rows, tier, used, calls, raced>>

\* assertProviderRoutesNotUsed.  Unranked: an unpinned route is overlooked
\* because no key has priority 0
Unranked == <<"check", "unranked">>
CheckRoutes(c) ==
  LET w == call[c] IN
  /\ w.at = "check"
  /\ IF RoutesUsed(tier, w.seen)
       THEN Move(c, Idle) /\ UNCHANGED raced
       ELSE /\ Move(c, [w EXCEPT
                 !.at   = IF w.job = "disconnect" THEN "save" ELSE "delete",
                 !.seen = IF w.job = "disconnect"
                            THEN [k \in DOMAIN @ |-> [@[k] EXCEPT !.active = FALSE]]
                            ELSE <<>>,
                 !.late = @ \ {"tier"}])
            /\ raced' = raced \cup (Behind(c, "check") \cap {MidRename})
                             \cup (IF w.job # "remove" /\ Unpinned \in Routes(tier)
                                     THEN {Unranked} ELSE {})
  /\ UNCHANGED <<rows, tier, used, calls>>

\* one DELETE, or one UPDATE over every key
Delete(c) ==
  LET w == call[c] IN
  /\ w.at = "delete"
  /\ IF w.job = "deactivate"
       THEN WriteKeys(c, [k \in DOMAIN rows |-> [rows[k] EXCEPT !.active = FALSE]], Idle)
       ELSE WriteKeys(c, Only(rows, DOMAIN rows \ {w.target}),
                      [Idle EXCEPT !.job = "remove", !.at = "renumber"])
  /\ UNCHANGED <<tier, used, calls>>

\* mutant: the keys are numbered as the table returns them
RenumberUnordered(c) ==
  /\ call[c].at = "renumber"
  /\ \E rank \in [Active(rows) -> 0..(Cardinality(Active(rows)) - 1)] :
       /\ \A j, k \in Active(rows) : rank[j] = rank[k] => j = k
       /\ Move(c, [Idle EXCEPT !.job = "renumber", !.at = "save",
                    !.seen = [k \in Active(rows) |->
                               [rows[k] EXCEPT !.priority = rank[k]]]])
  /\ UNCHANGED <<rows, tier, used, calls, raced>>

\* the active keys by priority, in any order where priorities are equal
Renumber(c) ==
  /\ call[c].at = "renumber"
  /\ \E rank \in [Active(rows) -> 0..(Cardinality(Active(rows)) - 1)] :
       LET new == [k \in Active(rows) |-> [rows[k] EXCEPT !.priority = rank[k]]]
       IN  /\ \A j, k \in Active(rows) :
                /\ rank[j] = rank[k] => j = k
                /\ rows[j].priority < rows[k].priority => rank[j] < rank[k]
           /\ Move(c, IF new = Only(rows, Active(rows)) THEN Idle
                      ELSE [Idle EXCEPT !.job = "renumber", !.at = "save",
                                        !.seen = new])
  /\ UNCHANGED <<rows, tier, used, calls, raced>>

-----------------------------------------------------------------------------
(* Editing the tier.                                                       *)

\* the model is checked, not that this connection offers it; then the tier
\* is read
SetOverride(c) ==
  \E r \in RoutesTo(rows) :
    /\ Start(c, "override", "read", <<>>, [over |-> {r}, fb |-> {}])
    /\ UNCHANGED used

ReadTier(c) ==
  LET w    == call[c]
      kept == {f \in tier.fb : \A r \in w.draft.over : f.pin # r.pin}
  IN  /\ w.at = "read"
      /\ Move(c, [w EXCEPT !.at = "store", !.draft.fb = kept, !.late = @ \ {"tier"}])
      /\ UNCHANGED <<rows, tier, used, calls, raced>>

\* the tier is read first, then that the connection offers the models
SetFallbacks(c) ==
  /\ Start(c, "fallbacks", "offer", <<>>, tier)
  /\ UNCHANGED used

CheckFallbacks(c) ==
  LET w == call[c] IN
  /\ w.at = "offer"
  /\ IF Active(rows) = {}
       THEN Move(c, Idle)
       ELSE \E fb \in SUBSET RoutesTo(rows) :
              /\ fb # {} /\ Cardinality(fb) <= MaxFallbacks
              /\ Move(c, [w EXCEPT !.at = "store", !.draft.fb = fb,
                                   !.late = @ \ {"keys"}])
  /\ UNCHANGED <<rows, tier, used, calls, raced>>

\* clearOverride, clearFallbacks, setResponseMode
EditTier(c) ==
  /\ \E t \in {[tier EXCEPT !.over = {}], [tier EXCEPT !.fb = {}], tier} :
       Start(c, "edit", "store", <<>>, t)
  /\ UNCHANGED used

StoreTier(c) ==
  /\ call[c].at = "store"
  /\ WriteTier(c, call[c].draft, Idle)
  /\ UNCHANGED <<rows, used, calls>>

\* resetAllOverrides: one UPDATE
ResetTier(c) ==
  /\ call[c].job = "none" /\ calls < MaxCalls
  /\ calls' = calls + 1
  /\ WriteTier(c, NoRoutes, Idle)
  /\ UNCHANGED <<rows, used>>

-----------------------------------------------------------------------------
(* A statement throws, the process dies or no models are discovered: what  *)
(* was written stays.  A call that has written nothing may as well never   *)
(* have come.                                                              *)

Cut == <<"rename", "cut">>

Abandon(c) ==
  /\ \/ Relabelling(c)
     \/ call[c].job = "remove" /\ call[c].at \in {"delete", "renumber"}
     \/ call[c].job \in {"renumber", "discover"}
  /\ Move(c, Idle)
  /\ raced' = IF Relabelling(c) THEN raced \cup {Cut} ELSE raced
  /\ UNCHANGED <<rows, tier, used, calls>>

-----------------------------------------------------------------------------
(* Keys as connecting leaves them, some of them disconnected since, and a  *)
(* tier that uses them.                                                    *)

Init ==
  /\ \E ids \in FirstIds, l \in [Ids -> Labels], on \in [Ids -> BOOLEAN] :
       /\ rows = [k \in ids |-> [label |-> l[k], active |-> on[k],
                                 priority |-> Cardinality({j \in ids : j < k})]]
       /\ LabelsUnique(rows)
       /\ Cardinality(ids) <= MaxKeys
       /\ used = ids
  /\ \E over \in {{}} \cup {{r} : r \in RoutesTo(rows)}, fb \in SUBSET RoutesTo(rows) :
       /\ \A r \in over \cup fb : r.key # Nobody
       /\ Cardinality(fb) <= MaxFallbacks
       /\ Cardinality(over) + Cardinality(fb) <= FirstRoutes
       /\ tier = [over |-> over, fb |-> fb]
  /\ call = [c \in Callers |-> Idle]
  /\ calls = 0 /\ raced = {}

Next ==
  \E c \in Callers :
    \/ Connect(c) \/ Refresh(c) \/ Rename(c) \/ Reorder(c) \/ SaveKeys(c)
    \/ RelabelRead(c) \/ RelabelSave(c)
    \/ Disconnect(c) \/ RemoveKey(c) \/ Reread(c)
    \/ CheckRoutes(c) \/ Delete(c) \/ Renumber(c)
    \/ SetOverride(c) \/ ReadTier(c) \/ SetFallbacks(c) \/ CheckFallbacks(c)
    \/ EditTier(c) \/ StoreTier(c) \/ ResetTier(c)
    \/ Abandon(c)

Spec == Init /\ [][Next]_vars

-----------------------------------------------------------------------------
(* Nobody's statements fell between another call's: while "raced" is empty *)
(* the calls might as well have come one by one.                           *)

TypeOK ==
  /\ used \subseteq Ids /\ DOMAIN rows \subseteq used
  /\ \A k \in DOMAIN rows :
       /\ rows[k].label \in Labels /\ rows[k].active \in BOOLEAN
       /\ rows[k].priority \in 0..Cardinality(Ids)
  /\ LabelsUnique(rows)
  /\ tier \in Tier
  /\ \A c \in Callers : call[c].job = "none" <=> call[c].at = "none"

(* A route that had a key when its edit was checked keeps one to be served *)
(* with (assertProviderRoutesNotUsed refuses to disconnect keys in use),   *)
(* unless statements of two calls fell between one another, a rename       *)
(* stopped half-way, or no key had priority 0.  Labels are not checked: a  *)
(* route stored under a name no key had, or to a connection without keys,  *)
(* may be an orphan without any of these.                                  *)
OrphansExplained ==
  (\E r \in Routes(tier) : r.key # Nobody) /\ Active(rows) = {} => raced # {}

(* A pinned route is served with the key that had the name when its edit   *)
(* was checked, through renames, removals and the reuse of the name, once  *)
(* no rename is half done (relabelOverrides, selectProviderKey).  One that *)
(* was stored under a name no key had, as a page loaded before a rename    *)
(* does, is served with the first key.                                     *)
PinnedKeyServes ==
  /\ Active(rows) # {}
  /\ \A c \in Callers : ~Relabelling(c)
  /\ raced \subseteq {Unranked}
  => \A r \in Routes(tier) : r.key \in Ids => Select(rows, r.pin) = r.key

(* Renaming a key, and the renumbering that follows a removal, leave the   *)
(* first key, which serves unpinned routes, the first one: unless the keys *)
(* changed since they were read, or share a priority (the renumbering asks *)
(* for no order among those, the proxy orders them by id).                 *)
Tied(rs) == \E j, k \in Active(rs) : j # k /\ rs[j].priority = rs[k].priority

FirstKept ==
  [][\A c \in Callers :
       /\ call[c].job \in {"rename", "renumber"} /\ call[c].at = "save"
       /\ call'[c].at # "save" /\ Active(rows) # {}
       /\ "keys" \notin call[c].late /\ ~Tied(rows)
       => First(rows') = First(rows)]_vars
=============================================================================
