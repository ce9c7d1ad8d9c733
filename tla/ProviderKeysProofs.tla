------------------------- MODULE ProviderKeysProofs -------------------------
(***************************************************************************)
(* For any number of dashboard requests, keys, names and fallbacks: what   *)
(* their statements, in any order and broken off anywhere, can do to the   *)
(* keys of a connection and to the routes pinned to them.                  *)
(***************************************************************************)
EXTENDS ProviderKeys, FiniteSetTheorems, WellFoundedInduction, TLAPS

(* A route that pins no label means no key.                                *)
SoundRoute == {r \in Route : r.pin = None => r.key \in {None, Nobody}}
SoundTier  == [over : SUBSET SoundRoute, fb : SUBSET SoundRoute]

(* Tables of keys whose ids are among u: a priority is below the number of *)
(* ids given out.                                                          *)
Row(n)    == [label : Labels, priority : 0 .. (n - 1), active : BOOLEAN]
Tables(u) == UNION {[S -> Row(Cardinality(u))] : S \in SUBSET u}

Place(job, at) == <<job, at>> \in
  {<<"none", "none">>, <<"connect", "save">>, <<"discover", "save">>, <<"reorder", "save">>,
   <<"rename", "save">>, <<"rename", "relabel">>, <<"rename", "relabelled">>,
   <<"disconnect", "check">>, <<"disconnect", "save">>,
   <<"deactivate", "check">>, <<"deactivate", "delete">>, <<"last", "reread">>,
   <<"remove", "check">>, <<"remove", "relabel">>, <<"remove", "relabelled">>,
   <<"remove", "delete">>, <<"remove", "renumber">>, <<"renumber", "save">>,
   <<"override", "read">>, <<"override", "store">>,
   <<"fallbacks", "offer">>, <<"fallbacks", "store">>, <<"edit", "store">>}

Jobs  == {"none", "connect", "discover", "reorder", "rename", "disconnect", "deactivate",
          "last", "remove", "renumber", "override", "fallbacks", "edit"}
Steps == {"none", "save", "check", "relabel", "relabelled", "delete", "renumber",
          "reread", "read", "offer", "store"}

CallRec(u) ==
  [job : Jobs, at : Steps, seen : Tables(u), draft : SoundTier,
   target : Ids \cup {None}, was : Pins, late : SUBSET {"keys", "tier"}]

CallOK(w, u) ==
  /\ w \in CallRec(u)
  /\ Place(w.job, w.at)
  /\ w.job = "rename" => w.target \in DOMAIN w.seen /\ w.was # None

KeysTypes ==
  /\ used \subseteq Ids /\ rows \in Tables(used) /\ LabelsUnique(rows)
  /\ tier \in SoundTier
  /\ call = [c \in Callers |-> call[c]]
  /\ \A c \in Callers : CallOK(call[c], used)

-----------------------------------------------------------------------------
(* Tables.                                                                 *)

LEMMA TableIs ==
  ASSUME NEW u, NEW rs
  PROVE  rs \in Tables(u) <=> /\ DOMAIN rs \subseteq u
                              /\ rs = [k \in DOMAIN rs |-> rs[k]]
                              /\ \A k \in DOMAIN rs : rs[k] \in Row(Cardinality(u))
<1>1. ASSUME rs \in Tables(u)
      PROVE  /\ DOMAIN rs \subseteq u
             /\ rs = [k \in DOMAIN rs |-> rs[k]]
             /\ \A k \in DOMAIN rs : rs[k] \in Row(Cardinality(u))
  <2>1. PICK S \in SUBSET u : rs \in [S -> Row(Cardinality(u))]
    BY <1>1 DEF Tables
  <2> QED
    BY <2>1
<1>2. ASSUME DOMAIN rs \subseteq u, rs = [k \in DOMAIN rs |-> rs[k]],
             \A k \in DOMAIN rs : rs[k] \in Row(Cardinality(u))
      PROVE  rs \in Tables(u)
  <2>1. rs \in [DOMAIN rs -> Row(Cardinality(u))]
    BY <1>2
  <2> QED
    BY <1>2, <2>1 DEF Tables
<1> QED
  BY <1>1, <1>2

LEMMA IdsCount ==
  ASSUME NEW u, u \subseteq Ids
  PROVE  IsFiniteSet(u) /\ Cardinality(u) \in Nat
BY KeysAssumption, FS_Subset, FS_CardinalityType

LEMMA RowGrows ==
  ASSUME NEW n \in Nat, NEW m \in Nat, n <= m
  PROVE  Row(n) \subseteq Row(m)
BY DEF Row

LEMMA TablesGrow ==
  ASSUME NEW u, NEW v, u \subseteq v, v \subseteq Ids
  PROVE  Tables(u) \subseteq Tables(v)
<1>1. /\ IsFiniteSet(v) /\ Cardinality(u) \in Nat /\ Cardinality(v) \in Nat
      /\ Cardinality(u) <= Cardinality(v)
  BY IdsCount, FS_Subset
<1>2. Row(Cardinality(u)) \subseteq Row(Cardinality(v))
  BY <1>1, RowGrows
<1> QED
  BY <1>2, TableIs

LEMMA OnlyTable ==
  ASSUME NEW u, NEW rs \in Tables(u), NEW K, K \subseteq DOMAIN rs
  PROVE  /\ Only(rs, K) \in Tables(u) /\ DOMAIN Only(rs, K) = K
         /\ \A k \in K : Only(rs, K)[k] = rs[k]
<1>1. /\ DOMAIN rs \subseteq u /\ \A k \in DOMAIN rs : rs[k] \in Row(Cardinality(u))
  BY TableIs
<1>2. /\ DOMAIN Only(rs, K) = K /\ \A k \in K : Only(rs, K)[k] = rs[k]
      /\ Only(rs, K) = [k \in DOMAIN Only(rs, K) |-> Only(rs, K)[k]]
  BY DEF Only
<1> QED
  BY <1>1, <1>2, TableIs

LEMMA SavedIs ==
  ASSUME NEW rs, NEW es
  PROVE  /\ DOMAIN Saved(rs, es) = DOMAIN es \cup DOMAIN rs
         /\ \A k \in DOMAIN es : Saved(rs, es)[k] = es[k]
         /\ \A k \in DOMAIN rs \ DOMAIN es : Saved(rs, es)[k] = rs[k]
BY DEF Saved

LEMMA SavedTable ==
  ASSUME NEW u, NEW rs \in Tables(u), NEW es \in Tables(u)
  PROVE  Saved(rs, es) \in Tables(u)
<1>1. /\ DOMAIN rs \subseteq u /\ \A k \in DOMAIN rs : rs[k] \in Row(Cardinality(u))
      /\ DOMAIN es \subseteq u /\ \A k \in DOMAIN es : es[k] \in Row(Cardinality(u))
  BY TableIs
<1>2. /\ DOMAIN Saved(rs, es) = DOMAIN es \cup DOMAIN rs
      /\ \A k \in DOMAIN es : Saved(rs, es)[k] = es[k]
      /\ \A k \in DOMAIN rs \ DOMAIN es : Saved(rs, es)[k] = rs[k]
      /\ Saved(rs, es) = [k \in DOMAIN Saved(rs, es) |-> Saved(rs, es)[k]]
  BY DEF Saved
<1>3. \A k \in DOMAIN Saved(rs, es) : Saved(rs, es)[k] \in Row(Cardinality(u))
  BY <1>1, <1>2
<1> QED
  BY <1>1, <1>2, <1>3, TableIs

LEMMA OneIs ==
  ASSUME NEW k, NEW row
  PROVE  DOMAIN One(k, row) = {k} /\ One(k, row)[k] = row
BY DEF One

LEMMA OneTable ==
  ASSUME NEW u, NEW k \in u, NEW row \in Row(Cardinality(u))
  PROVE  One(k, row) \in Tables(u)
<1>1. /\ DOMAIN One(k, row) = {k} /\ One(k, row)[k] = row
      /\ One(k, row) = [j \in DOMAIN One(k, row) |-> One(k, row)[j]]
  BY DEF One
<1>2. \A j \in DOMAIN One(k, row) : One(k, row)[j] \in Row(Cardinality(u))
  BY <1>1
<1>3. DOMAIN One(k, row) \subseteq u
  BY <1>1
<1> QED
  BY <1>1, <1>2, <1>3, TableIs

LEMMA RowChanges ==
  ASSUME NEW n, NEW row \in Row(n), NEW l \in Labels, NEW p \in 0 .. (n - 1), NEW b \in BOOLEAN
  PROVE  /\ [row EXCEPT !.label = l] \in Row(n)
         /\ [row EXCEPT !.label = l].label = l
         /\ [row EXCEPT !.label = l].priority = row.priority
         /\ [row EXCEPT !.label = l].active = row.active
         /\ [row EXCEPT !.active = b] \in Row(n)
         /\ [row EXCEPT !.active = b].label = row.label
         /\ [row EXCEPT !.active = b].priority = row.priority
         /\ [row EXCEPT !.active = b].active = b
         /\ [row EXCEPT !.priority = p] \in Row(n)
         /\ [row EXCEPT !.priority = p].label = row.label
         /\ [row EXCEPT !.priority = p].priority = p
         /\ [row EXCEPT !.priority = p].active = row.active
BY DEF Row

LEMMA EmptyTable == ASSUME NEW u PROVE <<>> \in Tables(u) /\ DOMAIN <<>> = {}
<1>1. DOMAIN <<>> = {} /\ <<>> = [k \in DOMAIN <<>> |-> <<>>[k]]
  OBVIOUS
<1> QED
  BY <1>1, TableIs

-----------------------------------------------------------------------------
(* What a statement of c does to the other calls: at most they learn that  *)
(* a table they have read was written.                                     *)

Others(c) ==
  \A d \in Callers \ {c} :
    /\ call'[d].job = call[d].job /\ call'[d].at = call[d].at
    /\ call'[d].seen = call[d].seen /\ call'[d].draft = call[d].draft
    /\ call'[d].target = call[d].target /\ call'[d].was = call[d].was
    /\ call[d].late \subseteq call'[d].late
    /\ CallOK(call'[d], used)
    /\ call[d].job # "none" => /\ rows' # rows => "keys" \in call'[d].late
                               /\ tier' # tier => "tier" \in call'[d].late

Became(c, w) == call' = [d \in Callers |-> call'[d]] /\ call'[c] = w /\ Others(c)

Still(c) == \A d \in Callers \ {c} : call'[d] = call[d]

LEMMA IdleIs ==
  ASSUME NEW u
  PROVE  /\ CallOK(Idle, u)
         /\ Idle.job = "none" /\ Idle.at = "none" /\ Idle.seen = <<>>
         /\ Idle.draft = NoRoutes /\ Idle.target = None /\ Idle.was = None
         /\ Idle.late = {}
<1>1. <<>> \in Tables(u)
  BY EmptyTable
<1>2. NoRoutes \in SoundTier
  <2>1. {} \in SUBSET SoundRoute
    OBVIOUS
  <2>2. [over |-> {}, fb |-> {}] \in [over : SUBSET SoundRoute, fb : SUBSET SoundRoute]
    BY <2>1
  <2> QED
    BY <2>2 DEF NoRoutes, SoundTier
<1>3. Idle \in CallRec(u)
  BY <1>1, <1>2 DEF Idle, CallRec, Pins, Jobs, Steps
<1> QED
  BY <1>3 DEF Idle, CallOK, Place

LEMMA MoveIs ==
  ASSUME NEW c \in Callers, NEW w, KeysTypes, Move(c, w), rows' = rows, tier' = tier
  PROVE  Became(c, w) /\ Still(c)
<1>1. /\ call' = [d \in Callers |-> call'[d]] /\ call'[c] = w
      /\ \A d \in Callers \ {c} : call'[d] = call[d]
  BY DEF Move, KeysTypes
<1> QED
  BY <1>1 DEF Became, Still, Others, KeysTypes

LEMMA WroteIs ==
  ASSUME NEW c \in Callers, NEW w, NEW table \in {"keys", "tier"}, KeysTypes,
         Wrote(c, table, w),
         rows' # rows => table = "keys", tier' # tier => table = "tier"
  PROVE  Became(c, w)
<1>1. call' = [d \in Callers |-> call'[d]] /\ call'[c] = w
  BY DEF Wrote
<1>2. ASSUME NEW d \in Callers \ {c}, call[d].job = "none"
      PROVE  call'[d] = call[d]
  BY <1>2 DEF Wrote
<1>3. ASSUME NEW d \in Callers \ {c}, call[d].job # "none"
      PROVE  call'[d] = [call[d] EXCEPT !.late = @ \cup {table}]
  BY <1>3 DEF Wrote
<1>4. ASSUME NEW v, CallOK(v, used), NEW n, n = [v EXCEPT !.late = @ \cup {table}]
      PROVE  /\ n.job = v.job /\ n.at = v.at /\ n.seen = v.seen /\ n.draft = v.draft
             /\ n.target = v.target /\ n.was = v.was
             /\ v.late \subseteq n.late /\ table \in n.late /\ CallOK(n, used)
  <2>1. v \in CallRec(used)
    BY <1>4 DEF CallOK
  <2>2. /\ n.job = v.job /\ n.at = v.at /\ n.seen = v.seen /\ n.draft = v.draft
        /\ n.target = v.target /\ n.was = v.was
        /\ v.late \subseteq n.late /\ table \in n.late
    BY <1>4, <2>1 DEF CallRec
  <2>3. n \in CallRec(used)
    BY <1>4, <2>1 DEF CallRec
  <2> QED
    BY <1>4, <2>2, <2>3 DEF CallOK
<1>5. ASSUME NEW d \in Callers \ {c}
      PROVE  /\ call'[d].job = call[d].job /\ call'[d].at = call[d].at
             /\ call'[d].seen = call[d].seen /\ call'[d].draft = call[d].draft
             /\ call'[d].target = call[d].target /\ call'[d].was = call[d].was
             /\ call[d].late \subseteq call'[d].late
             /\ CallOK(call'[d], used)
             /\ call[d].job # "none" => table \in call'[d].late
  <2>1. CallOK(call[d], used)
    BY DEF KeysTypes
  <2>2. CASE call[d].job = "none"
    BY <2>1, <2>2, <1>2
  <2>3. CASE call[d].job # "none"
    BY <2>1, <2>3, <1>3, <1>4
  <2> QED
    BY <2>2, <2>3
<1>6. Others(c)
  BY <1>5 DEF Others
<1> QED
  BY <1>1, <1>6 DEF Became

LEMMA WriteKeysIs ==
  ASSUME NEW c \in Callers, NEW new, NEW w, KeysTypes, WriteKeys(c, new, w), tier' = tier
  PROVE  rows' = new /\ raced' = raced \cup Behind(c, "keys") /\ Became(c, w)
<1>1. rows' = new /\ raced' = raced \cup Behind(c, "keys")
  BY DEF WriteKeys
<1>2. CASE new = rows
  BY <1>1, <1>2, MoveIs DEF WriteKeys
<1>3. CASE new # rows
  BY <1>1, <1>3, WroteIs DEF WriteKeys
<1> QED
  BY <1>1, <1>2, <1>3

LEMMA WriteTierIs ==
  ASSUME NEW c \in Callers, NEW new, NEW w, KeysTypes, WriteTier(c, new, w), rows' = rows
  PROVE  tier' = new /\ raced' = raced \cup Behind(c, "tier") /\ Became(c, w)
<1>1. tier' = new /\ raced' = raced \cup Behind(c, "tier")
  BY DEF WriteTier
<1>2. CASE new = tier
  BY <1>1, <1>2, MoveIs DEF WriteTier
<1>3. CASE new # tier
  BY <1>1, <1>3, WroteIs DEF WriteTier
<1> QED
  BY <1>1, <1>2, <1>3

LEMMA CallGrows ==
  ASSUME NEW u, NEW v, u \subseteq v, v \subseteq Ids, NEW w, CallOK(w, u)
  PROVE  CallOK(w, v)
<1>1. Tables(u) \subseteq Tables(v)
  BY TablesGrow
<1>2. w \in CallRec(v)
  BY <1>1 DEF CallOK, CallRec
<1> QED
  BY <1>2 DEF CallOK

(* What remains to be said of c and the tables, the types are kept.        *)
LEMMA TypesKept ==
  ASSUME NEW c \in Callers, NEW w, KeysTypes, Became(c, w),
         used \subseteq used', used' \subseteq Ids, CallOK(w, used'),
         rows' \in Tables(used'), LabelsUnique(rows'), tier' \in SoundTier
  PROVE  KeysTypes'
<1>1. ASSUME NEW d \in Callers PROVE CallOK(call'[d], used')
  <2>1. CASE d = c
    BY <2>1 DEF Became
  <2>2. CASE d # c
    <3>1. CallOK(call'[d], used)
      BY <2>2 DEF Became, Others
    <3> QED
      BY <3>1, CallGrows
  <2> QED
    BY <2>1, <2>2
<1>2. LabelsUnique(rows)'
  BY DEF LabelsUnique
<1>3. \A d \in Callers : CallOK(call[d], used)'
  BY <1>1 DEF CallOK, CallRec, Tables, Row
<1> QED
  BY <1>2, <1>3 DEF KeysTypes, Became, SoundTier, SoundRoute, Tables, Row

-----------------------------------------------------------------------------
(* What a call still knows of the tables it has read, unless its "late"    *)
(* says that they were written since.                                      *)

(* The label of such a route was the name of a key when it was checked.    *)
Keyed(r) == r.pin # None /\ r.key # Nobody

(* What an edit that finds the keys rs may store.                          *)
Fits(r, rs) ==
  /\ Keyed(r) => r.key \in Active(rs) /\ rs[r.key].label = r.pin
  /\ Active(rs) = {} => r.key = Nobody

Relabels(w) == w.job = "rename" /\ w.at \in {"relabel", "relabelled"}

To(w) == IF w.job = "rename" THEN w.seen[w.target].label ELSE None

SavesHeld(w, rs) ==
  /\ w.job # "rename" => \A k \in DOMAIN w.seen \cap DOMAIN rs : w.seen[k].label = rs[k].label
  /\ w.job \in {"reorder", "renumber"} => \A k \in DOMAIN w.seen : w.seen[k].active
  /\ w.job \in {"reorder", "renumber"} => DOMAIN w.seen = Active(rs)
  /\ w.job = "renumber" =>
       \A j, k \in Active(rs) :
         rs[j].priority < rs[k].priority => w.seen[j].priority < w.seen[k].priority
  /\ w.job = "rename" =>
       /\ w.target \in DOMAIN rs /\ DOMAIN w.seen = {w.target}
       /\ w.was = rs[w.target].label /\ w.seen[w.target].label # w.was
       /\ w.seen[w.target].active = rs[w.target].active
       /\ w.seen[w.target].priority = rs[w.target].priority

RemovesHeld(w, rs) ==
  /\ w.target \in DOMAIN rs /\ Active(rs) # {w.target}
  /\ w.at \in {"relabel", "relabelled"} => ~rs[w.target].active

ChecksHeld(w, rs) ==
  LET ids == IF w.job = "remove" THEN {w.target} ELSE Active(rs)
  IN  DOMAIN w.seen = ids /\ \A k \in ids : w.seen[k] = rs[k]

KeysHeld(w, rs) ==
  "keys" \notin w.late =>
    /\ w.at = "save" => SavesHeld(w, rs)
    /\ w.at = "check" => ChecksHeld(w, rs)
    /\ w.job = "remove" /\ w.at # "renumber" => RemovesHeld(w, rs)
    /\ w.at = "read" => \A r \in w.draft.over : Fits(r, rs)

TierHeld(w, t) ==
  "tier" \notin w.late =>
    /\ w.at = "offer" => w.draft = t
    /\ w.at = "relabelled" => w.draft = Relabelled(t, w.was, To(w))

(* A call past its check, nothing written since: no route is in its way.   *)
Clears(w) == <<w.job, w.at>> \in {<<"disconnect", "save">>, <<"deactivate", "delete">>}

Checked(w, rs, t, x) ==
  w.late = {} /\ x \subseteq {Unranked} =>
    /\ w.at = "store" => \A r \in Routes(w.draft) : r \in Routes(t) \/ Fits(r, rs)
    /\ w.job = "remove" /\ w.at = "delete" =>
         \A r \in Routes(t) : Keyed(r) => r.key # w.target
    /\ Clears(w) => \A r \in Routes(t) : ~Keyed(r)
    /\ Clears(w) /\ x = {} => \A r \in Routes(t) : r.key = Nobody

(* A connected key is saved active, however late.                          *)
Revives(w) ==
  w.job \in {"connect", "discover"} => \A k \in DOMAIN w.seen : w.seen[k].active

Holds(w, rs, t, x) ==
  KeysHeld(w, rs) /\ TierHeld(w, t) /\ Checked(w, rs, t, x) /\ Revives(w)

CallsHold == \A c \in Callers : Holds(call[c], rows, tier, raced)

(* While a rename is under way nothing else is written, and no key has the *)
(* old name.                                                               *)
RenameAlone ==
  raced \subseteq {Unranked} =>
    \A c \in Callers : Relabels(call[c]) =>
      /\ call[c].late = {}
      /\ \A d \in Callers \ {c} : ~Relabels(call[d])
      /\ call[c].target \in DOMAIN rows
      /\ rows[call[c].target].label = To(call[c])
      /\ \A k \in DOMAIN rows : rows[k].label # call[c].was

(* The key of a keyed route is active and has the pinned name, or had  *)
(* it before the rename that is under way.                                 *)
PinsHeld ==
  raced \subseteq {Unranked} =>
    \A r \in Routes(tier) : Keyed(r) =>
      /\ r.key \in Active(rows)
      /\ \/ rows[r.key].label = r.pin
         \/ \E c \in Callers : /\ Relabels(call[c])
                               /\ call[c].target = r.key /\ call[c].was = r.pin

NoOrphan ==
  raced = {} /\ Active(rows) = {} => \A r \in Routes(tier) : r.key = Nobody

RoutesHold == RenameAlone /\ PinsHeld /\ NoOrphan

KeysInv == KeysTypes /\ CallsHold /\ RoutesHold

-----------------------------------------------------------------------------

LEMMA OthersHold ==
  ASSUME NEW c \in Callers, KeysTypes, CallsHold, Others(c), raced \subseteq raced',
         NEW d \in Callers \ {c}
  PROVE  Holds(call'[d], rows', tier', raced')
<1> DEFINE v == call[d]
           n == call'[d]
<1>1. /\ n.job = v.job /\ n.at = v.at /\ n.seen = v.seen /\ n.draft = v.draft
      /\ n.target = v.target /\ n.was = v.was /\ v.late \subseteq n.late
      /\ v.job # "none" => /\ rows' # rows => "keys" \in n.late
                           /\ tier' # tier => "tier" \in n.late
  BY DEF Others
<1>2. CallOK(v, used) /\ Holds(v, rows, tier, raced)
  BY DEF KeysTypes, CallsHold
<1> HIDE DEF v, n
<1>3. CASE v.job = "none"
  <2>1. n.at = "none" /\ n.job = "none"
    BY <1>1, <1>2, <1>3 DEF CallOK, Place
  <2> QED
    BY <2>1 DEF Holds, Revives, KeysHeld, TierHeld, Checked, Clears, n
<1>4. CASE v.job # "none"
  <2>1. To(n) = To(v) /\ (Clears(n) <=> Clears(v))
    BY <1>1 DEF To, Clears
  <2>2. KeysHeld(n, rows')
    <3>1. SUFFICES ASSUME "keys" \notin n.late PROVE KeysHeld(n, rows)
      BY <1>1, <1>4 DEF KeysHeld
    <3>2. "keys" \notin v.late
      BY <1>1, <3>1
    <3>3. SavesHeld(v, rows) => SavesHeld(n, rows)
      BY <1>1 DEF SavesHeld
    <3>4. /\ ChecksHeld(v, rows) => ChecksHeld(n, rows)
          /\ RemovesHeld(v, rows) => RemovesHeld(n, rows)
      BY <1>1 DEF ChecksHeld, RemovesHeld
    <3> QED
      BY <1>1, <1>2, <3>2, <3>3, <3>4 DEF Holds, Revives, KeysHeld
  <2>3. TierHeld(n, tier')
    BY <1>1, <1>2, <1>4, <2>1 DEF Holds, Revives, TierHeld
  <2>4. Checked(n, rows', tier', raced')
    <3>1. SUFFICES ASSUME n.late = {}, raced' \subseteq {Unranked}
                   PROVE  Checked(n, rows', tier', raced')
      BY DEF Checked
    <3>2. v.late = {} /\ rows' = rows /\ tier' = tier /\ raced \subseteq {Unranked}
      BY <1>1, <1>4, <3>1
    <3>3. raced' = {} => raced = {}
      OBVIOUS
    <3> QED
      BY <1>1, <1>2, <2>1, <3>2, <3>3 DEF Holds, Revives, Checked
  <2>5. Revives(n)
    BY <1>1, <1>2 DEF Holds, Revives
  <2> QED
    BY <2>2, <2>3, <2>4, <2>5 DEF Holds, n
<1> QED
  BY <1>3, <1>4

(* A step keeps the invariant if what it writes and c itself are right.    *)
LEMMA InvKept ==
  ASSUME NEW c \in Callers, KeysInv, Others(c), raced \subseteq raced', KeysTypes',
         Holds(call'[c], rows', tier', raced'), RoutesHold'
  PROVE  KeysInv'
<1>1. \A d \in Callers : Holds(call'[d], rows', tier', raced')
  BY OthersHold DEF KeysInv
<1>2. CallsHold'
  BY <1>1 DEF CallsHold, Holds, Revives, KeysHeld, SavesHeld, RemovesHeld, ChecksHeld, TierHeld,
              Checked, Clears, To, Active, Relabelled, Routes, Keyed,
              Unranked
<1> QED
  BY <1>2 DEF KeysInv

(* Nothing written, c in no rename: every route stands as before.          *)
LEMMA QuietStep ==
  ASSUME NEW c \in Callers, RoutesHold, rows' = rows, tier' = tier, raced \subseteq raced',
         Still(c), ~Relabels(call[c]), ~Relabels(call'[c])
  PROVE  RoutesHold'
<1>1. \A d \in Callers : Relabels(call'[d]) => d # c /\ call'[d] = call[d]
  BY DEF Still
<1>2. \A d \in Callers : Relabels(call[d]) => d # c /\ call'[d] = call[d]
  BY DEF Still
<1>3. raced' \subseteq {Unranked} => raced \subseteq {Unranked}
  OBVIOUS
<1>4. RenameAlone'
  <2>1. SUFFICES ASSUME raced' \subseteq {Unranked}, NEW d \in Callers, Relabels(call'[d])
                 PROVE  /\ call'[d].late = {}
                        /\ \A e \in Callers \ {d} : ~Relabels(call'[e])
                        /\ call'[d].target \in DOMAIN rows
                        /\ rows[call'[d].target].label = To(call'[d])
                        /\ \A k \in DOMAIN rows : rows[k].label # call'[d].was
    BY DEF RenameAlone, Relabels, To, Unranked
  <2> QED
    BY <1>1, <1>3, <2>1 DEF RoutesHold, RenameAlone
<1>5. PinsHeld'
  <2>1. SUFFICES ASSUME raced' \subseteq {Unranked}, NEW r \in Routes(tier), Keyed(r)
                 PROVE  /\ r.key \in Active(rows)
                        /\ \/ rows[r.key].label = r.pin
                           \/ \E d \in Callers : /\ Relabels(call'[d])
                                                 /\ call'[d].target = r.key
                                                 /\ call'[d].was = r.pin
    BY DEF PinsHeld, Relabels, Unranked, Active, Routes
  <2> QED
    BY <1>2, <1>3, <2>1 DEF RoutesHold, PinsHeld
<1>6. NoOrphan'
  BY DEF RoutesHold, NoOrphan, Active, Routes
<1> QED
  BY <1>4, <1>5, <1>6 DEF RoutesHold

(* A write that no history excuses: the writer has seen everything, nobody *)
(* else is in a rename.                                                    *)
LEMMA WriteAlone ==
  ASSUME NEW c \in Callers, NEW step \in {"keys", "tier"}, KeysTypes,
         raced' = raced \cup Behind(c, step), raced' \subseteq {Unranked}
  PROVE  /\ call[c].late = {} /\ raced' = raced /\ Behind(c, step) = {}
         /\ \A d \in Callers \ {c} : ~Relabels(call[d])
<1>1. Behind(c, step) \subseteq {Unranked}
  OBVIOUS
<1>2. MidRename # Unranked
  BY DEF MidRename, Unranked
<1>3. \A t : <<step, t>> # Unranked
  BY DEF Unranked
<1>4. call[c].late = {}
  BY <1>1, <1>3 DEF Behind
<1>5. \A d \in Callers \ {c} : ~Relabels(call[d])
  BY <1>1, <1>2 DEF Behind, Relabelling, Relabels
<1>6. Behind(c, step) = {}
  BY <1>4, <1>5 DEF Behind, Relabelling, Relabels
<1> QED
  BY <1>4, <1>5, <1>6

-----------------------------------------------------------------------------
(* The steps that write neither table.                                     *)

Quiet(c) == rows' = rows /\ tier' = tier /\ raced \subseteq raced' /\ Still(c)

LEMMA QuietKept ==
  ASSUME NEW c \in Callers, KeysInv, Quiet(c), Others(c), KeysTypes',
         ~Relabels(call[c]), ~Relabels(call'[c]), Holds(call'[c], rows, tier, raced')
  PROVE  KeysInv'
<1>1. RoutesHold'
  BY QuietStep DEF Quiet, KeysInv
<1> QED
  BY <1>1, InvKept DEF Quiet

Begun(job, at, seen, draft) ==
  [Idle EXCEPT !.job = job, !.at = at, !.seen = seen, !.draft = draft]

LEMMA BegunIs ==
  ASSUME NEW u, NEW job \in Jobs, NEW at \in Steps, Place(job, at), job # "rename",
         NEW seen \in Tables(u), NEW draft \in SoundTier
  PROVE  /\ CallOK(Begun(job, at, seen, draft), u)
         /\ Begun(job, at, seen, draft).job = job
         /\ Begun(job, at, seen, draft).at = at
         /\ Begun(job, at, seen, draft).seen = seen
         /\ Begun(job, at, seen, draft).draft = draft
         /\ Begun(job, at, seen, draft).target = None
         /\ Begun(job, at, seen, draft).was = None
         /\ Begun(job, at, seen, draft).late = {}
<1> DEFINE n == Begun(job, at, seen, draft)
<1>1. Idle \in CallRec(u)
  BY IdleIs DEF CallOK
<1>2. /\ n.job = job /\ n.at = at /\ n.seen = seen /\ n.draft = draft
      /\ n.target = None /\ n.was = None /\ n.late = {}
  BY DEF Idle, Begun
<1>3. n \in CallRec(u)
  BY <1>1 DEF CallRec, Begun
<1> HIDE DEF n
<1>4. CallOK(n, u)
  BY <1>2, <1>3 DEF CallOK
<1> QED
  BY <1>2, <1>4 DEF n

Aimed(job, at, target, was, seen) ==
  [Idle EXCEPT !.job = job, !.at = at, !.target = target, !.was = was, !.seen = seen]

LEMMA AimedIs ==
  ASSUME NEW u, NEW job \in Jobs, NEW at \in Steps, Place(job, at), 
         NEW seen \in Tables(u), NEW target \in Ids, NEW was \in Pins,
         job = "rename" => target \in DOMAIN seen /\ was # None
  PROVE  /\ CallOK(Aimed(job, at, target, was, seen), u)
         /\ Aimed(job, at, target, was, seen).job = job
         /\ Aimed(job, at, target, was, seen).at = at
         /\ Aimed(job, at, target, was, seen).seen = seen
         /\ Aimed(job, at, target, was, seen).draft = NoRoutes
         /\ Aimed(job, at, target, was, seen).target = target
         /\ Aimed(job, at, target, was, seen).was = was
         /\ Aimed(job, at, target, was, seen).late = {}
<1> DEFINE n == Aimed(job, at, target, was, seen)
<1>1. Idle \in CallRec(u)
  BY IdleIs DEF CallOK
<1>2. /\ n.job = job /\ n.at = at /\ n.seen = seen /\ n.draft = NoRoutes
      /\ n.target = target /\ n.was = was /\ n.late = {}
  BY DEF Idle, Aimed
<1>3. n \in CallRec(u)
  BY <1>1 DEF CallRec, Aimed
<1> HIDE DEF n
<1>4. CallOK(n, u)
  BY <1>2, <1>3 DEF CallOK
<1> QED
  BY <1>2, <1>4 DEF n

Holding(job, at, seen) ==
  [Idle EXCEPT !.job = job, !.at = at, !.seen = seen]

LEMMA HoldingIs ==
  ASSUME NEW u, NEW job \in Jobs, NEW at \in Steps, Place(job, at), job # "rename",
         NEW seen \in Tables(u)
  PROVE  /\ CallOK(Holding(job, at, seen), u)
         /\ Holding(job, at, seen).job = job
         /\ Holding(job, at, seen).at = at
         /\ Holding(job, at, seen).seen = seen
         /\ Holding(job, at, seen).draft = NoRoutes
         /\ Holding(job, at, seen).target = None
         /\ Holding(job, at, seen).was = None
         /\ Holding(job, at, seen).late = {}
<1> DEFINE n == Holding(job, at, seen)
<1>1. Idle \in CallRec(u)
  BY IdleIs DEF CallOK
<1>2. /\ n.job = job /\ n.at = at /\ n.seen = seen /\ n.draft = NoRoutes
      /\ n.target = None /\ n.was = None /\ n.late = {}
  BY DEF Idle, Holding
<1>3. n \in CallRec(u)
  BY <1>1 DEF CallRec, Holding
<1> HIDE DEF n
<1>4. CallOK(n, u)
  BY <1>2, <1>3 DEF CallOK
<1> QED
  BY <1>2, <1>4 DEF n

LEMMA StartIs ==
  ASSUME NEW c \in Callers, NEW job \in Jobs, NEW at \in Steps, NEW seen, NEW draft,
         KeysTypes, Start(c, job, at, seen, draft), Place(job, at), job # "rename",
         used \subseteq used', used' \subseteq Ids,
         seen \in Tables(used'), draft \in SoundTier
  PROVE  /\ KeysTypes' /\ Others(c) /\ Quiet(c) /\ raced' = raced /\ call[c].job = "none"
         /\ call'[c].job = job /\ call'[c].at = at /\ call'[c].seen = seen
         /\ call'[c].draft = draft /\ call'[c].target = None /\ call'[c].was = None
         /\ call'[c].late = {}
<1> DEFINE n == Begun(job, at, seen, draft)
<1>1. /\ Move(c, n) /\ rows' = rows /\ tier' = tier /\ raced' = raced
      /\ call[c].job = "none"
  BY DEF Start, Begun
<1>8. /\ CallOK(n, used')
      /\ n.job = job /\ n.at = at /\ n.seen = seen /\ n.draft = draft
      /\ n.target = None /\ n.was = None /\ n.late = {}
  BY BegunIs
<1> HIDE DEF n
<1>4. Became(c, n) /\ Still(c)
  BY <1>1, MoveIs
<1>5. rows' \in Tables(used') /\ LabelsUnique(rows') /\ tier' \in SoundTier
  BY <1>1, TablesGrow DEF KeysTypes
<1>6. KeysTypes'
  BY <1>8, <1>4, <1>5, TypesKept
<1>7. Quiet(c)
  BY <1>1, <1>4 DEF Quiet
<1> QED
  BY <1>1, <1>8, <1>4, <1>6, <1>7 DEF Became

(* A step that leaves the ids alone.                                       *)
LEMMA MovedIs ==
  ASSUME NEW c \in Callers, NEW n, KeysTypes, Move(c, n), CallOK(n, used),
         rows' = rows, tier' = tier, used' = used, raced \subseteq raced'
  PROVE  KeysTypes' /\ Others(c) /\ Quiet(c) /\ call'[c] = n
<1>1. Became(c, n) /\ Still(c)
  BY MoveIs
<1>2. rows' \in Tables(used') /\ LabelsUnique(rows') /\ tier' \in SoundTier
  BY DEF KeysTypes
<1>3. used \subseteq used' /\ used' \subseteq Ids /\ CallOK(n, used')
  BY DEF KeysTypes
<1>4. KeysTypes'
  BY <1>1, <1>2, <1>3, TypesKept
<1> QED
  BY <1>1, <1>4 DEF Quiet, Became

LEMMA IdleHolds ==
  ASSUME NEW rs, NEW t, NEW x
  PROVE  Holds(Idle, rs, t, x) /\ ~Relabels(Idle)
BY IdleIs DEF Holds, Revives, KeysHeld, TierHeld, Checked, Clears, Relabels

LEMMA ToIdle ==
  ASSUME NEW c \in Callers, KeysInv, Move(c, Idle), ~Relabels(call[c]),
         rows' = rows, tier' = tier, used' = used, raced \subseteq raced'
  PROVE  KeysInv'
<1>1. CallOK(Idle, used) /\ KeysTypes
  BY IdleIs DEF KeysInv
<1>2. KeysTypes' /\ Others(c) /\ Quiet(c) /\ call'[c] = Idle
  BY <1>1, MovedIs
<1> QED
  BY <1>2, IdleHolds, QuietKept

-----------------------------------------------------------------------------
(* Connecting.                                                             *)

LEMMA FirstCount ==
  ASSUME NEW u, u \subseteq Ids, u # {}
  PROVE  0 \in 0 .. (Cardinality(u) - 1)
<1>1. IsFiniteSet(u) /\ Cardinality(u) \in Nat
  BY IdsCount
<1>2. Cardinality(u) # 0
  BY <1>1, FS_EmptySet
<1> QED
  BY <1>1, <1>2

LEMMA SomeGreatest ==
  ASSUME NEW S, NEW n \in Nat, S \subseteq 0 .. n, S # {}
  PROVE  \E p \in S : \A q \in S : q <= p
<1> DEFINE Gap == {n - q : q \in S}
<1>1. Gap \subseteq Nat /\ Gap # {}
  <2>1. \A q \in S : q \in 0 .. n
    OBVIOUS
  <2>2. \A q \in S : n - q \in Nat
    BY <2>1
  <2> QED
    BY <2>2
<1>2. PICK g \in Gap : \A h \in Gap : ~(<<h, g>> \in OpToRel(<, Nat))
  BY <1>1, NatLessThanWellFounded, WFMin
<1>3. PICK p \in S : g = n - p
  BY <1>2
<1>4. \A q \in S : q <= p
  <2>1. SUFFICES ASSUME NEW q \in S, q > p PROVE FALSE
    BY <1>3
  <2>2. n - q \in Gap /\ n - q < g /\ n - q \in Nat /\ g \in Nat
    BY <2>1, <1>3
  <2> QED
    BY <2>2, <1>2 DEF OpToRel
<1> QED
  BY <1>4

LEMMA NextIs ==
  ASSUME NEW u, u \subseteq Ids, NEW rs \in Tables(u), NEW k \in Ids \ u
  PROVE  NextPriority(rs) \in 0 .. (Cardinality(u \cup {k}) - 1)
<1>1. /\ IsFiniteSet(u) /\ Cardinality(u) \in Nat
      /\ Cardinality(u \cup {k}) = Cardinality(u) + 1
  BY IdsCount, FS_AddElement
<1>2. CASE Active(rs) = {}
  BY <1>1, <1>2 DEF NextPriority
<1>3. CASE Active(rs) # {}
  <2> DEFINE S == {rs[j].priority : j \in Active(rs)}
  <2>1. \A j \in DOMAIN rs : rs[j] \in Row(Cardinality(u))
    BY TableIs
  <2>2. \A j \in Active(rs) : rs[j].priority \in 0 .. (Cardinality(u) - 1)
    BY <2>1 DEF Active, Row
  <2>3. S \subseteq 0 .. Cardinality(u) /\ S # {}
    BY <1>1, <1>3, <2>2
  <2>4. \E p \in S : \A q \in S : q <= p
    BY <1>1, <2>3, SomeGreatest
  <2>5. \E p \in S : \A j \in Active(rs) : rs[j].priority <= p
    BY <2>4
  <2>6. PICK p \in S : NextPriority(rs) = 1 + p
    BY <1>3, <2>5 DEF NextPriority
  <2>7. p \in 0 .. (Cardinality(u) - 1)
    BY <2>2, <2>6
  <2> QED
    BY <1>1, <2>6, <2>7
<1> QED
  BY <1>2, <1>3

LEMMA RowsAre ==
  ASSUME KeysTypes
  PROVE  /\ used \subseteq Ids /\ DOMAIN rows \subseteq used
         /\ rows \in Tables(used) /\ Cardinality(used) \in Nat
         /\ \A k \in DOMAIN rows : /\ rows[k] \in Row(Cardinality(used))
                                   /\ rows[k].label \in Labels /\ rows[k].active \in BOOLEAN
                                   /\ rows[k].priority \in 0 .. (Cardinality(used) - 1)
         /\ Active(rows) \subseteq DOMAIN rows
<1>1. used \subseteq Ids /\ rows \in Tables(used)
  BY DEF KeysTypes
<1>2. DOMAIN rows \subseteq used /\ \A k \in DOMAIN rows : rows[k] \in Row(Cardinality(used))
  BY <1>1, TableIs
<1>3. Cardinality(used) \in Nat
  BY <1>1, IdsCount
<1> QED
  BY <1>1, <1>2, <1>3 DEF Row, Active

LEMMA ConnectKnownKeeps ==
  ASSUME NEW c \in Callers, KeysInv, ConnectKnown(c)
  PROVE  KeysInv'
<1>1. KeysTypes
  BY DEF KeysInv
<1>2. PICK k \in DOMAIN rows : Start(c, "connect", "save", Reactivated(k), NoRoutes)
  BY DEF ConnectKnown
<1>3. used' = used
  BY DEF ConnectKnown
<1> DEFINE e == [rows[k] EXCEPT !.active = TRUE]
<1>4. k \in used /\ e \in Row(Cardinality(used)) /\ e.label = rows[k].label /\ e.active
  BY <1>1, RowsAre DEF Row
<1>5. Reactivated(k) = One(k, e)
  BY DEF Reactivated
<1> HIDE DEF e
<1>6. /\ Reactivated(k) \in Tables(used) /\ DOMAIN Reactivated(k) = {k}
      /\ Reactivated(k)[k] = e
  <2>1. One(k, e) \in Tables(used)
    BY <1>4, OneTable
  <2> QED
    BY <2>1, <1>5, OneIs
<1>7. NoRoutes \in SoundTier
  BY IdleIs DEF CallOK, CallRec
<1>8. Place("connect", "save") /\ "connect" \in Jobs /\ "save" \in Steps
  BY DEF Place, Jobs, Steps
<1>9. used \subseteq used' /\ used' \subseteq Ids /\ Reactivated(k) \in Tables(used')
  BY <1>1, <1>3, <1>6, RowsAre
<1>10. /\ KeysTypes' /\ Others(c) /\ Quiet(c) /\ call[c].job = "none"
       /\ call'[c].job = "connect" /\ call'[c].at = "save"
       /\ call'[c].seen = Reactivated(k)
  BY <1>1, <1>2, <1>7, <1>8, <1>9, StartIs
<1>11. SavesHeld(call'[c], rows)
  BY <1>4, <1>6, <1>10 DEF SavesHeld
<1>12. Holds(call'[c], rows, tier, raced')
  BY <1>4, <1>6, <1>10, <1>11 DEF Holds, Revives, KeysHeld, TierHeld, Checked, Clears
<1> QED
  BY <1>10, <1>12, QuietKept DEF Relabels

LEMMA RefreshKeeps ==
  ASSUME NEW c \in Callers, KeysInv, Refresh(c)
  PROVE  KeysInv'
<1>1. KeysTypes
  BY DEF KeysInv
<1>2. PICK k \in Active(rows) : Start(c, "discover", "save", Only(rows, {k}), NoRoutes)
  BY DEF Refresh
<1>3. used' = used
  BY DEF Refresh
<1> DEFINE e == rows[k]
           E == Only(rows, {k})
<1>4. k \in used /\ e \in Row(Cardinality(used)) /\ e.active /\ k \in DOMAIN rows
  BY <1>1, RowsAre DEF Active
<1>5. E = One(k, e)
  BY DEF Only, One
<1>6. E \in Tables(used) /\ DOMAIN E = {k} /\ E[k] = e
  <2>1. One(k, e) \in Tables(used)
    BY <1>4, OneTable
  <2> QED
    BY <2>1, <1>5, OneIs
<1> HIDE DEF e, E
<1>7. NoRoutes \in SoundTier
  BY IdleIs DEF CallOK, CallRec
<1>8. Place("discover", "save") /\ "discover" \in Jobs /\ "save" \in Steps
  BY DEF Place, Jobs, Steps
<1>9. used \subseteq used' /\ used' \subseteq Ids /\ E \in Tables(used')
  BY <1>1, <1>3, <1>6, RowsAre
<1>10. /\ KeysTypes' /\ Others(c) /\ Quiet(c) /\ call[c].job = "none"
       /\ call'[c].job = "discover" /\ call'[c].at = "save"
       /\ call'[c].seen = E
  BY <1>1, <1>2, <1>7, <1>8, <1>9, StartIs DEF E
<1>11. SavesHeld(call'[c], rows)
  BY <1>4, <1>6, <1>10 DEF SavesHeld, e
<1>12. Holds(call'[c], rows, tier, raced')
  BY <1>4, <1>6, <1>10, <1>11 DEF Holds, Revives, KeysHeld, TierHeld, Checked, Clears, e
<1> QED
  BY <1>10, <1>12, QuietKept DEF Relabels

LEMMA ConnectNewKeeps ==
  ASSUME NEW c \in Callers, KeysInv, ConnectNew(c)
  PROVE  KeysInv'
<1>1. KeysTypes
  BY DEF KeysInv
<1>2. PICK k \in Ids \ used, l \in Labels, named \in BOOLEAN :
        /\ Start(c, "connect", "save",
                 Created(k, l, IF named THEN NextPriority(rows) ELSE 0), NoRoutes)
        /\ used' = used \cup {k}
  BY DEF ConnectNew
<1> DEFINE p   == IF named THEN NextPriority(rows) ELSE 0
           e   == [label |-> l, priority |-> p, active |-> TRUE]
           new == Created(k, l, p)
<1>3. /\ used \subseteq Ids /\ rows \in Tables(used) /\ k \in used' /\ used' \subseteq Ids
      /\ used \subseteq used' /\ used' # {}
  BY <1>1, <1>2, RowsAre
<1>4. p \in 0 .. (Cardinality(used') - 1)
  <2>1. NextPriority(rows) \in 0 .. (Cardinality(used') - 1)
    BY <1>2, <1>3, NextIs
  <2>2. 0 \in 0 .. (Cardinality(used') - 1)
    BY <1>3, FirstCount
  <2> QED
    BY <2>1, <2>2
<1>5. e \in Row(Cardinality(used')) /\ e.active
  BY <1>4 DEF Row
<1>6. new = One(k, e)
  BY DEF Created
<1> HIDE DEF e
<1>7. new \in Tables(used') /\ DOMAIN new = {k} /\ new[k] = e
  BY <1>3, <1>5, <1>6, OneTable, OneIs
<1>8. NoRoutes \in SoundTier
  BY IdleIs DEF CallOK, CallRec
<1>9. Place("connect", "save") /\ "connect" \in Jobs /\ "save" \in Steps
  BY DEF Place, Jobs, Steps
<1>10. Start(c, "connect", "save", new, NoRoutes)
  BY <1>2
<1> HIDE DEF new
<1>11. /\ KeysTypes' /\ Others(c) /\ Quiet(c) /\ call[c].job = "none"
       /\ call'[c].job = "connect" /\ call'[c].at = "save" /\ call'[c].seen = new
  BY <1>1, <1>3, <1>7, <1>8, <1>9, <1>10, StartIs
<1>12. k \notin DOMAIN rows
  BY <1>1, <1>2, RowsAre
<1>13. SavesHeld(call'[c], rows)
  BY <1>5, <1>7, <1>11, <1>12 DEF SavesHeld
<1>14. Holds(call'[c], rows, tier, raced')
  BY <1>5, <1>7, <1>11, <1>13 DEF Holds, Revives, KeysHeld, TierHeld, Checked, Clears
<1> QED
  BY <1>11, <1>14, QuietKept DEF Relabels

LEMMA RenameKeeps ==
  ASSUME NEW c \in Callers, KeysInv, Rename(c)
  PROVE  KeysInv'
<1>1. KeysTypes
  BY DEF KeysInv
<1>2. PICK k \in DOMAIN rows, l \in Labels :
        /\ \A j \in DOMAIN rows : rows[j].label # l
        /\ Move(c, [Idle EXCEPT !.job = "rename", !.at = "save", !.target = k,
                      !.was = rows[k].label,
                      !.seen = One(k, [rows[k] EXCEPT !.label = l])])
  BY DEF Rename
<1>3. call[c].job = "none" /\ rows' = rows /\ tier' = tier /\ used' = used /\ raced' = raced
  BY DEF Rename
<1> DEFINE e  == [rows[k] EXCEPT !.label = l]
           es == One(k, e)
           n  == Aimed("rename", "save", k, rows[k].label, es)
<1>4. /\ k \in used /\ k \in Ids /\ e \in Row(Cardinality(used)) /\ e.label = l
      /\ e.priority = rows[k].priority /\ e.active = rows[k].active
      /\ rows[k].label \in Labels /\ rows[k].label # l
  BY <1>1, <1>2, RowsAre DEF Row
<1>5. Move(c, n)
  BY <1>2 DEF Aimed
<1> HIDE DEF e
<1>6. es \in Tables(used) /\ DOMAIN es = {k} /\ es[k] = e
  BY <1>4, OneTable, OneIs
<1> HIDE DEF es
<1>7. rows[k].label \in Pins /\ rows[k].label # None
  BY <1>4, KeysAssumption DEF Pins
<1>8. Place("rename", "save") /\ "rename" \in Jobs /\ "save" \in Steps
  BY DEF Place, Jobs, Steps
<1>9. /\ CallOK(n, used) /\ n.job = "rename" /\ n.at = "save" /\ n.target = k
      /\ n.was = rows[k].label /\ n.seen = es
  BY <1>4, <1>6, <1>7, <1>8, AimedIs
<1> HIDE DEF n
<1>10. KeysTypes' /\ Others(c) /\ Quiet(c) /\ call'[c] = n
  BY <1>1, <1>3, <1>5, <1>9, MovedIs
<1>11. SavesHeld(n, rows)
  BY <1>4, <1>6, <1>9 DEF SavesHeld
<1>12. Holds(n, rows, tier, raced')
  BY <1>9, <1>11 DEF Holds, Revives, KeysHeld, TierHeld, Checked, Clears
<1> QED
  BY <1>3, <1>9, <1>10, <1>12, QuietKept DEF Relabels

-----------------------------------------------------------------------------
(* Ordering the active keys.                                               *)

Ranked(rs, rank) == [k \in Active(rs) |-> [rs[k] EXCEPT !.priority = rank[k]]]

LEMMA RankedIs ==
  ASSUME KeysTypes, NEW rank \in [Active(rows) -> 0 .. (Cardinality(Active(rows)) - 1)]
  PROVE  /\ Ranked(rows, rank) \in Tables(used)
         /\ DOMAIN Ranked(rows, rank) = Active(rows)
         /\ \A k \in Active(rows) : /\ Ranked(rows, rank)[k].label = rows[k].label
                                    /\ Ranked(rows, rank)[k].active
                                    /\ Ranked(rows, rank)[k].priority = rank[k]
<1> DEFINE es == Ranked(rows, rank)
<1>1. /\ Active(rows) \subseteq used /\ used \subseteq Ids /\ Active(rows) \subseteq DOMAIN rows
      /\ \A k \in DOMAIN rows : rows[k] \in Row(Cardinality(used))
  BY RowsAre
<1>2. /\ IsFiniteSet(used) /\ Cardinality(used) \in Nat
      /\ Cardinality(Active(rows)) \in Nat /\ Cardinality(Active(rows)) <= Cardinality(used)
  BY <1>1, IdsCount, FS_Subset
<1>3. DOMAIN es = Active(rows) /\ es = [k \in DOMAIN es |-> es[k]]
  BY DEF Ranked
<1>4. \A k \in Active(rows) : es[k] = [rows[k] EXCEPT !.priority = rank[k]]
  BY DEF Ranked
<1> HIDE DEF es
<1>5. ASSUME NEW k \in Active(rows)
      PROVE  /\ es[k] \in Row(Cardinality(used)) /\ es[k].label = rows[k].label
             /\ es[k].active /\ es[k].priority = rank[k]
  <2>1. rows[k] \in Row(Cardinality(used)) /\ rows[k].active
    BY <1>1 DEF Active
  <2>2. rank[k] \in 0 .. (Cardinality(used) - 1)
    BY <1>2
  <2> QED
    BY <2>1, <2>2, <1>4 DEF Row
<1>6. es \in Tables(used)
  BY <1>1, <1>3, <1>5, TableIs
<1> QED
  BY <1>3, <1>5, <1>6 DEF es

LEMMA ReorderKeeps ==
  ASSUME NEW c \in Callers, KeysInv, Reorder(c)
  PROVE  KeysInv'
<1>1. KeysTypes /\ used' = used
  BY DEF KeysInv, Reorder
<1>2. PICK rank \in [Active(rows) -> 0 .. (Cardinality(Active(rows)) - 1)] :
        Start(c, "reorder", "save", Ranked(rows, rank), NoRoutes)
  BY DEF Reorder, Ranked
<1>3. /\ Ranked(rows, rank) \in Tables(used) /\ DOMAIN Ranked(rows, rank) = Active(rows)
      /\ \A k \in Active(rows) : /\ Ranked(rows, rank)[k].label = rows[k].label
                                 /\ Ranked(rows, rank)[k].active
  BY <1>1, <1>2, RankedIs
<1>4. NoRoutes \in SoundTier
  BY IdleIs DEF CallOK, CallRec
<1>5. Place("reorder", "save") /\ "reorder" \in Jobs /\ "save" \in Steps
  BY DEF Place, Jobs, Steps
<1>6. used \subseteq used' /\ used' \subseteq Ids /\ Ranked(rows, rank) \in Tables(used')
  BY <1>1, <1>3, RowsAre
<1>7. /\ KeysTypes' /\ Others(c) /\ Quiet(c) /\ call[c].job = "none"
      /\ call'[c].job = "reorder" /\ call'[c].at = "save"
      /\ call'[c].seen = Ranked(rows, rank)
  BY <1>1, <1>2, <1>4, <1>5, <1>6, StartIs
<1>8. SavesHeld(call'[c], rows)
  BY <1>3, <1>7 DEF SavesHeld
<1>9. Holds(call'[c], rows, tier, raced')
  BY <1>7, <1>8 DEF Holds, Revives, KeysHeld, TierHeld, Checked, Clears
<1> QED
  BY <1>7, <1>9, QuietKept DEF Relabels

LEMMA RenumberKeeps ==
  ASSUME NEW c \in Callers, KeysInv, Renumber(c)
  PROVE  KeysInv'
<1>1. /\ KeysTypes /\ call[c].at = "renumber"
      /\ rows' = rows /\ tier' = tier /\ used' = used /\ raced' = raced
  BY DEF KeysInv, Renumber
<1>2. PICK rank \in [Active(rows) -> 0 .. (Cardinality(Active(rows)) - 1)] :
        /\ \A j, k \in Active(rows) :
             rows[j].priority < rows[k].priority => rank[j] < rank[k]
        /\ \/ Move(c, Idle)
           \/ Move(c, Holding("renumber", "save", Ranked(rows, rank)))
  BY <1>1 DEF Renumber, Ranked, Holding
<1>3. ~Relabels(call[c])
  BY <1>1 DEF Relabels
<1>4. CASE Move(c, Idle)
  BY <1>1, <1>3, <1>4, ToIdle
<1>5. CASE Move(c, Holding("renumber", "save", Ranked(rows, rank)))
  <2> DEFINE n == Holding("renumber", "save", Ranked(rows, rank))
  <2>1. /\ Ranked(rows, rank) \in Tables(used) /\ DOMAIN Ranked(rows, rank) = Active(rows)
        /\ \A k \in Active(rows) : /\ Ranked(rows, rank)[k].label = rows[k].label
                                   /\ Ranked(rows, rank)[k].active
                                   /\ Ranked(rows, rank)[k].priority = rank[k]
    BY <1>1, RankedIs
  <2>2. Place("renumber", "save") /\ "renumber" \in Jobs /\ "save" \in Steps
    BY DEF Place, Jobs, Steps
  <2>3. /\ CallOK(n, used) /\ n.job = "renumber" /\ n.at = "save"
        /\ n.seen = Ranked(rows, rank)
    BY <2>1, <2>2, HoldingIs
  <2> HIDE DEF n
  <2>4. Move(c, n)
    BY <1>5 DEF n
  <2>5. KeysTypes' /\ Others(c) /\ Quiet(c) /\ call'[c] = n
    BY <1>1, <2>3, <2>4, MovedIs
  <2>6. SavesHeld(n, rows)
    <3>1. \A j, k \in Active(rows) :
            rows[j].priority < rows[k].priority => n.seen[j].priority < n.seen[k].priority
      BY <1>2, <2>1, <2>3
    <3> QED
      BY <2>1, <2>3, <3>1 DEF SavesHeld
  <2>7. Holds(n, rows, tier, raced')
    BY <2>3, <2>6 DEF Holds, Revives, KeysHeld, TierHeld, Checked, Clears
  <2> QED
    BY <1>3, <2>3, <2>5, <2>7, QuietKept DEF Relabels
<1> QED
  BY <1>2, <1>4, <1>5

-----------------------------------------------------------------------------
(* Asking for keys to be removed.                                          *)

LEMMA OnlyActive ==
  ASSUME KeysTypes
  PROVE  /\ Only(rows, Active(rows)) \in Tables(used)
         /\ DOMAIN Only(rows, Active(rows)) = Active(rows)
         /\ \A k \in Active(rows) : Only(rows, Active(rows))[k] = rows[k]
BY RowsAre, OnlyTable

LEMMA DisconnectKeeps ==
  ASSUME NEW c \in Callers, KeysInv, Disconnect(c)
  PROVE  KeysInv'
<1>1. KeysTypes /\ used' = used
  BY DEF KeysInv, Disconnect
<1>2. PICK job \in {"disconnect", "deactivate"} :
        Start(c, job, "check", Only(rows, Active(rows)), NoRoutes)
  BY DEF Disconnect
<1> DEFINE es == Only(rows, Active(rows))
<1>3. /\ es \in Tables(used) /\ DOMAIN es = Active(rows)
      /\ \A k \in Active(rows) : es[k] = rows[k]
  BY <1>1, OnlyActive
<1>4. NoRoutes \in SoundTier
  BY IdleIs DEF CallOK, CallRec
<1>5. Place(job, "check") /\ job \in Jobs /\ "check" \in Steps /\ job # "rename"
  BY <1>2 DEF Place, Jobs, Steps
<1>6. Start(c, job, "check", es, NoRoutes)
  BY <1>2
<1> HIDE DEF es
<1>7. used \subseteq used' /\ used' \subseteq Ids /\ es \in Tables(used')
  BY <1>1, <1>3, RowsAre
<1>8. /\ KeysTypes' /\ Others(c) /\ Quiet(c) /\ call[c].job = "none"
      /\ call'[c].job = job /\ call'[c].at = "check" /\ call'[c].seen = es
  BY <1>1, <1>4, <1>5, <1>6, <1>7, StartIs
<1>9. ChecksHeld(call'[c], rows)
  BY <1>2, <1>3, <1>8 DEF ChecksHeld
<1>10. Holds(call'[c], rows, tier, raced')
  BY <1>2, <1>8, <1>9 DEF Holds, Revives, KeysHeld, TierHeld, Checked, Clears
<1> QED
  BY <1>8, <1>10, QuietKept DEF Relabels

LEMMA RereadKeeps ==
  ASSUME NEW c \in Callers, KeysInv, Reread(c)
  PROVE  KeysInv'
<1> DEFINE es == Only(rows, Active(rows))
           n  == Holding("disconnect", "check", es)
<1>1. /\ KeysTypes /\ call[c].at = "reread"
      /\ rows' = rows /\ tier' = tier /\ used' = used /\ raced' = raced
      /\ Move(c, Idle) \/ Move(c, n)
  BY DEF KeysInv, Reread, Holding
<1>2. ~Relabels(call[c])
  BY <1>1 DEF Relabels
<1>3. CASE Move(c, Idle)
  BY <1>1, <1>2, <1>3, ToIdle
<1>4. CASE Move(c, n)
  <2>1. /\ es \in Tables(used) /\ DOMAIN es = Active(rows)
        /\ \A k \in Active(rows) : es[k] = rows[k]
    BY <1>1, OnlyActive
  <2>2. Place("disconnect", "check") /\ "disconnect" \in Jobs /\ "check" \in Steps
    BY DEF Place, Jobs, Steps
  <2> HIDE DEF es
  <2>3. CallOK(n, used) /\ n.job = "disconnect" /\ n.at = "check" /\ n.seen = es
    BY <2>1, <2>2, HoldingIs
  <2> HIDE DEF n
  <2>4. KeysTypes' /\ Others(c) /\ Quiet(c) /\ call'[c] = n
    BY <1>1, <1>4, <2>3, MovedIs
  <2>5. ChecksHeld(n, rows)
    BY <2>1, <2>3 DEF ChecksHeld
  <2>6. Holds(n, rows, tier, raced')
    BY <2>3, <2>5 DEF Holds, Revives, KeysHeld, TierHeld, Checked, Clears
  <2> QED
    BY <1>2, <2>3, <2>4, <2>6, QuietKept DEF Relabels
<1> QED
  BY <1>1, <1>3, <1>4

LEMMA RemoveKeyKeeps ==
  ASSUME NEW c \in Callers, KeysInv, RemoveKey(c)
  PROVE  KeysInv'
<1>1. /\ KeysTypes /\ call[c].job = "none"
      /\ rows' = rows /\ tier' = tier /\ used' = used /\ raced' = raced
  BY DEF KeysInv, RemoveKey
<1>2. PICK k \in DOMAIN rows :
        Move(c, [Idle EXCEPT
          !.job    = IF Active(rows) = {k} THEN "last" ELSE "remove",
          !.at     = IF Active(rows) = {k} THEN "reread"
                     ELSE IF rows[k].active THEN "check" ELSE "relabel",
          !.target = k,
          !.was    = IF rows[k].active THEN None ELSE rows[k].label,
          !.seen   = IF rows[k].active THEN Only(rows, {k}) ELSE <<>>])
  BY DEF RemoveKey
<1> DEFINE job == IF Active(rows) = {k} THEN "last" ELSE "remove"
           at  == IF Active(rows) = {k} THEN "reread"
                  ELSE IF rows[k].active THEN "check" ELSE "relabel"
           was == IF rows[k].active THEN None ELSE rows[k].label
           es  == IF rows[k].active THEN Only(rows, {k}) ELSE <<>>
           n   == Aimed(job, at, k, was, es)
<1>3. Move(c, n)
  BY <1>2 DEF Aimed
<1>4. k \in Ids /\ rows[k].active \in BOOLEAN /\ rows[k].label \in Labels
  BY <1>1, RowsAre
<1>5. was \in Pins
  BY <1>4 DEF Pins
<1>6. /\ es \in Tables(used)
      /\ rows[k].active => DOMAIN es = {k} /\ es[k] = rows[k]
  <2>1. <<>> \in Tables(used)
    BY EmptyTable
  <2>2. /\ Only(rows, {k}) \in Tables(used) /\ DOMAIN Only(rows, {k}) = {k}
        /\ Only(rows, {k})[k] = rows[k]
    <3>1. {k} \subseteq DOMAIN rows /\ k \in {k}
      BY <1>2
    <3> QED
      BY <1>1, <3>1, RowsAre, OnlyTable
  <2> QED
    BY <2>1, <2>2
<1>7. Place(job, at) /\ job \in Jobs /\ at \in Steps /\ job # "rename"
  BY DEF Place, Jobs, Steps
<1>8. job = "remove" => /\ Active(rows) # {k}
                        /\ at = "check" => rows[k].active
                        /\ at \in {"relabel", "relabelled"} => ~rows[k].active
  OBVIOUS
<1>9. job \in {"last", "remove"} /\ at \in {"reread", "check", "relabel"}
      /\ (job = "last" => at = "reread")
  OBVIOUS
<1> HIDE DEF job, at, was, es
<1>10. /\ CallOK(n, used) /\ n.job = job /\ n.at = at /\ n.target = k /\ n.seen = es
       /\ n.was = was
  BY <1>4, <1>5, <1>6, <1>7, AimedIs
<1> HIDE DEF n
<1>11. KeysTypes' /\ Others(c) /\ Quiet(c) /\ call'[c] = n
  BY <1>1, <1>3, <1>10, MovedIs
<1>12. /\ n.at = "check" => ChecksHeld(n, rows)
       /\ n.job = "remove" => RemovesHeld(n, rows)
  BY <1>2, <1>6, <1>8, <1>9, <1>10 DEF ChecksHeld, RemovesHeld
<1>13. /\ Holds(n, rows, tier, raced')
       /\ ~Relabels(n) /\ ~Relabels(call[c])
  BY <1>1, <1>9, <1>10, <1>12 DEF Holds, Revives, KeysHeld, TierHeld, Checked, Clears, Relabels
<1> QED
  BY <1>11, <1>13, QuietKept

-----------------------------------------------------------------------------
(* Editing the tier.                                                       *)

Drafting(w, fb, table) == [w EXCEPT !.at = "store", !.draft.fb = fb, !.late = @ \ {table}]

Drafted(n, u, w, fb, table) ==
  /\ CallOK(n, u)
  /\ n.job = w.job /\ n.at = "store" /\ n.draft.over = w.draft.over /\ n.draft.fb = fb
  /\ n.late = w.late \ {table}

LEMMA DraftingIs ==
  ASSUME NEW u, NEW w, CallOK(w, u), w.job \in {"override", "fallbacks"},
         NEW fb \in SUBSET SoundRoute, NEW table
  PROVE  Drafted(Drafting(w, fb, table), u, w, fb, table)
<1> DEFINE n == Drafting(w, fb, table)
<1>1. w \in CallRec(u)
  BY DEF CallOK
<1>2. w.draft \in SoundTier /\ w.late \in SUBSET {"keys", "tier"}
  BY <1>1 DEF CallRec
<1>3. [w.draft EXCEPT !.fb = fb] \in SoundTier
  BY <1>2 DEF SoundTier
<1>4. /\ n.job = w.job /\ n.at = "store" /\ n.draft.over = w.draft.over /\ n.draft.fb = fb
      /\ n.late = w.late \ {table}
  BY <1>1, <1>2 DEF Drafting, CallRec, SoundTier
<1>5. n \in CallRec(u)
  <2>1. "store" \in Steps /\ w.late \ {table} \in SUBSET {"keys", "tier"}
    BY <1>2 DEF Steps
  <2>2. n = [w EXCEPT !.at = "store", !.draft = [w.draft EXCEPT !.fb = fb],
                      !.late = w.late \ {table}]
    BY <1>1 DEF Drafting, CallRec
  <2> QED
    BY <1>1, <1>3, <2>1, <2>2 DEF CallRec
<1> HIDE DEF n
<1>6. Place(n.job, n.at) /\ n.job # "rename"
  BY <1>4 DEF Place
<1>7. CallOK(n, u)
  BY <1>5, <1>6 DEF CallOK
<1>8. Drafted(n, u, w, fb, table)
  BY <1>4, <1>7 DEF Drafted
<1> QED
  BY <1>8 DEF n

LEMMA RoutesAre ==
  ASSUME NEW rs, \A k \in Active(rs) : k \in Ids, NEW r \in RoutesTo(rs)
  PROVE  r \in SoundRoute /\ Fits(r, rs)
<1>1. PICK pin \in Pins : r = RouteTo(rs, pin)
  BY DEF RoutesTo
<1>2. r.pin = pin
  BY <1>1 DEF RouteTo
<1>3. CASE Active(rs) = {} \/ pin = None \/ Named(rs, pin) = {}
  <2>1. /\ r.key = Nobody \/ (pin = None /\ r.key = None)
        /\ Active(rs) = {} => r.key = Nobody
    BY <1>1, <1>3 DEF RouteTo
  <2>2. r \in Route
    BY <1>1, <1>3 DEF RouteTo, Route
  <2> QED
    BY <1>2, <2>1, <2>2 DEF SoundRoute, Fits, Keyed
<1>4. CASE Active(rs) # {} /\ pin # None /\ Named(rs, pin) # {}
  <2>1. Select(rs, pin) \in Named(rs, pin)
    BY <1>4 DEF Select
  <2>2. r = [pin |-> pin, key |-> Select(rs, pin)]
    BY <1>1, <1>4 DEF RouteTo
  <2>3. r.key \in Active(rs) /\ rs[r.key].label = pin
    BY <2>1, <2>2 DEF Named
  <2>4. r \in Route
    BY <2>2, <2>3 DEF Route
  <2> QED
    BY <1>2, <1>4, <2>3, <2>4 DEF SoundRoute, Fits
<1> QED
  BY <1>3, <1>4

LEMMA OfferedAre ==
  ASSUME KeysTypes, NEW r \in RoutesTo(rows)
  PROVE  r \in SoundRoute /\ Fits(r, rows)
<1>1. \A k \in Active(rows) : k \in Ids
  BY RowsAre DEF Active
<1> QED
  BY <1>1, RoutesAre

LEMMA SetOverrideKeeps ==
  ASSUME NEW c \in Callers, KeysInv, SetOverride(c)
  PROVE  KeysInv'
<1>1. KeysTypes /\ used' = used
  BY DEF KeysInv, SetOverride
<1>2. PICK r \in RoutesTo(rows) : Start(c, "override", "read", <<>>, [over |-> {r}, fb |-> {}])
  BY DEF SetOverride
<1> DEFINE t == [over |-> {r}, fb |-> {}]
<1>3. t \in SoundTier /\ \A q \in t.over : Fits(q, rows)
  BY <1>1, <1>2, OfferedAre DEF SoundTier
<1>4. Start(c, "override", "read", <<>>, t)
  BY <1>2
<1> HIDE DEF t
<1>5. Place("override", "read") /\ "override" \in Jobs /\ "read" \in Steps
  BY DEF Place, Jobs, Steps
<1>6. used \subseteq used' /\ used' \subseteq Ids /\ <<>> \in Tables(used')
  BY <1>1, RowsAre, EmptyTable
<1>7. /\ KeysTypes' /\ Others(c) /\ Quiet(c) /\ call[c].job = "none"
      /\ call'[c].job = "override" /\ call'[c].at = "read" /\ call'[c].draft = t
  BY <1>1, <1>3, <1>4, <1>5, <1>6, StartIs
<1>8. Holds(call'[c], rows, tier, raced')
  BY <1>3, <1>7 DEF Holds, Revives, KeysHeld, TierHeld, Checked, Clears
<1> QED
  BY <1>7, <1>8, QuietKept DEF Relabels

LEMMA ReadTierKeeps ==
  ASSUME NEW c \in Callers, KeysInv, ReadTier(c)
  PROVE  KeysInv'
<1> DEFINE w    == call[c]
           kept == {f \in tier.fb : \A r \in w.draft.over : f.pin # r.pin}
           n    == Drafting(w, kept, "tier")
<1>1. /\ KeysTypes /\ w.at = "read" /\ Move(c, n)
      /\ rows' = rows /\ tier' = tier /\ used' = used /\ raced' = raced
  BY DEF KeysInv, ReadTier, Drafting
<1>2. CallOK(w, used) /\ Holds(w, rows, tier, raced) /\ tier \in SoundTier
  BY <1>1 DEF KeysInv, KeysTypes, CallsHold
<1>3. kept \in SUBSET SoundRoute /\ kept \subseteq tier.fb
  BY <1>2 DEF SoundTier
<1> HIDE DEF kept
<1>4. w.job = "override"
  BY <1>1, <1>2 DEF CallOK, Place
<1>5. /\ CallOK(n, used) /\ n.job = w.job /\ n.at = "store" /\ n.draft.over = w.draft.over
      /\ n.draft.fb = kept /\ n.late = w.late \ {"tier"}
  <2>1. Drafted(n, used, w, kept, "tier")
    BY <1>2, <1>3, <1>4, DraftingIs
  <2> QED
    BY <2>1 DEF Drafted
<1> HIDE DEF n
<1>6. KeysTypes' /\ Others(c) /\ Quiet(c) /\ call'[c] = n
  BY <1>1, <1>5, MovedIs
<1>7. Checked(n, rows, tier, raced')
  <2>1. n.late = {} => \A r \in w.draft.over : Fits(r, rows)
    BY <1>1, <1>2, <1>5 DEF Holds, Revives, KeysHeld
  <2>2. n.late = {} => \A r \in Routes(n.draft) : r \in Routes(tier) \/ Fits(r, rows)
    BY <1>3, <1>5, <2>1 DEF Routes
  <2> QED
    BY <1>4, <1>5, <2>2 DEF Checked, Clears
<1>8. Holds(n, rows, tier, raced')
  BY <1>4, <1>5, <1>7 DEF Holds, Revives, KeysHeld, TierHeld
<1> QED
  BY <1>4, <1>5, <1>6, <1>8, QuietKept DEF Relabels

LEMMA SetFallbacksKeeps ==
  ASSUME NEW c \in Callers, KeysInv, SetFallbacks(c)
  PROVE  KeysInv'
<1>1. /\ KeysTypes /\ used' = used /\ tier \in SoundTier
      /\ Start(c, "fallbacks", "offer", <<>>, tier)
  BY DEF KeysInv, KeysTypes, SetFallbacks
<1>2. Place("fallbacks", "offer") /\ "fallbacks" \in Jobs /\ "offer" \in Steps
  BY DEF Place, Jobs, Steps
<1>3. used \subseteq used' /\ used' \subseteq Ids /\ <<>> \in Tables(used')
  BY <1>1, RowsAre, EmptyTable
<1>4. /\ KeysTypes' /\ Others(c) /\ Quiet(c) /\ call[c].job = "none"
      /\ call'[c].job = "fallbacks" /\ call'[c].at = "offer" /\ call'[c].draft = tier
  BY <1>1, <1>2, <1>3, StartIs
<1>5. Holds(call'[c], rows, tier, raced')
  BY <1>4 DEF Holds, Revives, KeysHeld, TierHeld, Checked, Clears
<1> QED
  BY <1>4, <1>5, QuietKept DEF Relabels

LEMMA CheckFallbacksKeeps ==
  ASSUME NEW c \in Callers, KeysInv, CheckFallbacks(c)
  PROVE  KeysInv'
<1> DEFINE w == call[c]
<1>1. /\ KeysTypes /\ w.at = "offer" /\ ~Relabels(w)
      /\ rows' = rows /\ tier' = tier /\ used' = used /\ raced' = raced
  BY DEF KeysInv, CheckFallbacks, Relabels
<1>2. CASE Move(c, Idle)
  BY <1>1, <1>2, ToIdle
<1>3. CASE ~Move(c, Idle)
  <2>1. PICK chosen \in SUBSET RoutesTo(rows) : Move(c, Drafting(w, chosen, "keys"))
    BY <1>3 DEF CheckFallbacks, Drafting
  <2> DEFINE n == Drafting(w, chosen, "keys")
  <2>2. CallOK(w, used) /\ Holds(w, rows, tier, raced) /\ tier \in SoundTier
    BY <1>1 DEF KeysInv, KeysTypes, CallsHold
  <2>3. w.job = "fallbacks"
    BY <1>1, <2>2 DEF CallOK, Place
  <2>4. chosen \in SUBSET SoundRoute /\ \A r \in chosen : Fits(r, rows)
    BY <1>1, <2>1, OfferedAre
  <2>5. /\ CallOK(n, used) /\ n.job = w.job /\ n.at = "store"
        /\ n.draft.over = w.draft.over /\ n.draft.fb = chosen /\ n.late = w.late \ {"keys"}
    <3>1. w.job \in {"override", "fallbacks"} /\ CallOK(w, used) /\ chosen \in SUBSET SoundRoute
      BY <2>2, <2>3, <2>4
    <3>2. Drafted(n, used, w, chosen, "keys")
      BY <3>1, DraftingIs
    <3> QED
      BY <3>2 DEF Drafted
  <2>6. Move(c, n)
    BY <2>1
  <2> HIDE DEF n
  <2>7. KeysTypes' /\ Others(c) /\ Quiet(c) /\ call'[c] = n
    BY <1>1, <2>5, <2>6, MovedIs
  <2>8. n.late = {} => \A r \in Routes(n.draft) : r \in Routes(tier) \/ Fits(r, rows)
    <3>1. n.late = {} => w.draft = tier
      BY <1>1, <2>2, <2>5 DEF Holds, Revives, TierHeld
    <3> QED
      BY <2>4, <2>5, <3>1 DEF Routes
  <2>9. Holds(n, rows, tier, raced')
    BY <2>3, <2>5, <2>8 DEF Holds, Revives, KeysHeld, TierHeld, Checked, Clears
  <2> QED
    BY <1>1, <2>3, <2>5, <2>7, <2>9, QuietKept DEF Relabels
<1> QED
  BY <1>2, <1>3

LEMMA EditTierKeeps ==
  ASSUME NEW c \in Callers, KeysInv, EditTier(c)
  PROVE  KeysInv'
<1>1. KeysTypes /\ used' = used /\ tier \in SoundTier
  BY DEF KeysInv, KeysTypes, EditTier
<1>2. PICK t \in {[tier EXCEPT !.over = {}], [tier EXCEPT !.fb = {}], tier} :
        Start(c, "edit", "store", <<>>, t)
  BY DEF EditTier
<1>3. t \in SoundTier /\ Routes(t) \subseteq Routes(tier)
  <2>1. tier.over \in SUBSET SoundRoute /\ tier.fb \in SUBSET SoundRoute
    BY <1>1 DEF SoundTier
  <2>2. {} \in SUBSET SoundRoute
    OBVIOUS
  <2>3. CASE t = [tier EXCEPT !.over = {}]
    BY <1>1, <2>2, <2>3 DEF SoundTier, Routes
  <2>4. CASE t = [tier EXCEPT !.fb = {}]
    BY <1>1, <2>2, <2>4 DEF SoundTier, Routes
  <2> QED
    BY <1>1, <1>2, <2>3, <2>4
<1>4. Place("edit", "store") /\ "edit" \in Jobs /\ "store" \in Steps
  BY DEF Place, Jobs, Steps
<1>5. used \subseteq used' /\ used' \subseteq Ids /\ <<>> \in Tables(used')
  BY <1>1, RowsAre, EmptyTable
<1>6. /\ KeysTypes' /\ Others(c) /\ Quiet(c) /\ call[c].job = "none"
      /\ call'[c].job = "edit" /\ call'[c].at = "store" /\ call'[c].draft = t
  BY <1>1, <1>2, <1>3, <1>4, <1>5, StartIs
<1>7. Holds(call'[c], rows, tier, raced')
  BY <1>3, <1>6 DEF Holds, Revives, KeysHeld, TierHeld, Checked, Clears
<1> QED
  BY <1>6, <1>7, QuietKept DEF Relabels

-----------------------------------------------------------------------------
(* A call goes on to its next statement.                                   *)

Advanced(w, a, table) == [w EXCEPT !.at = a, !.late = @ \ {table}]
Passed(w, a, es) == [w EXCEPT !.at = a, !.seen = es, !.late = @ \ {"tier"}]
Swapped(w, new) == [w EXCEPT !.at = "relabelled", !.draft = new, !.late = @ \ {"tier"}]
Deleting(w) == [w EXCEPT !.at = "delete"]
Cleared(w)  == [w EXCEPT !.draft = NoRoutes]

Went(n, u, w, a, es, d, l) ==
  /\ CallOK(n, u)
  /\ n.job = w.job /\ n.at = a /\ n.seen = es /\ n.draft = d
  /\ n.target = w.target /\ n.was = w.was /\ n.late = l

LEMMA WentIs ==
  ASSUME NEW u, NEW w, CallOK(w, u), NEW n, n \in CallRec(u),
         NEW a, NEW es, NEW d, NEW l, Place(w.job, a),
         w.job = "rename" => w.target \in DOMAIN es,
         n.job = w.job, n.at = a, n.seen = es, n.draft = d,
         n.target = w.target, n.was = w.was, n.late = l
  PROVE  Went(n, u, w, a, es, d, l)
BY DEF Went, CallOK

LEMMA AdvancedIs ==
  ASSUME NEW u, NEW w, CallOK(w, u), NEW a \in Steps, Place(w.job, a), NEW table
  PROVE  Went(Advanced(w, a, table), u, w, a, w.seen, w.draft, w.late \ {table})
<1> DEFINE n == Advanced(w, a, table)
<1>1. w \in CallRec(u) /\ (w.job = "rename" => w.target \in DOMAIN w.seen)
  BY DEF CallOK
<1>2. n \in CallRec(u)
  BY <1>1 DEF CallRec, Advanced
<1>3. /\ n.job = w.job /\ n.at = a /\ n.seen = w.seen /\ n.draft = w.draft
      /\ n.target = w.target /\ n.was = w.was /\ n.late = w.late \ {table}
  BY <1>1 DEF CallRec, Advanced
<1> HIDE DEF n
<1>4. Went(n, u, w, a, w.seen, w.draft, w.late \ {table})
  BY <1>1, <1>2, <1>3, WentIs
<1> QED
  BY <1>4 DEF n

LEMMA PassedIs ==
  ASSUME NEW u, NEW w, CallOK(w, u), NEW a \in Steps, Place(w.job, a), w.job # "rename",
         NEW es \in Tables(u)
  PROVE  Went(Passed(w, a, es), u, w, a, es, w.draft, w.late \ {"tier"})
<1> DEFINE n == Passed(w, a, es)
<1>1. w \in CallRec(u)
  BY DEF CallOK
<1>2. n \in CallRec(u)
  BY <1>1 DEF CallRec, Passed
<1>3. /\ n.job = w.job /\ n.at = a /\ n.seen = es /\ n.draft = w.draft
      /\ n.target = w.target /\ n.was = w.was /\ n.late = w.late \ {"tier"}
  BY <1>1 DEF CallRec, Passed
<1> HIDE DEF n
<1>4. Went(n, u, w, a, es, w.draft, w.late \ {"tier"})
  BY <1>1, <1>2, <1>3, WentIs
<1> QED
  BY <1>4 DEF n

LEMMA SwappedIs ==
  ASSUME NEW u, NEW w, CallOK(w, u), w.job \in {"rename", "remove"}, NEW new \in SoundTier
  PROVE  Went(Swapped(w, new), u, w, "relabelled", w.seen, new, w.late \ {"tier"})
<1> DEFINE n == Swapped(w, new)
<1>1. w \in CallRec(u) /\ (w.job = "rename" => w.target \in DOMAIN w.seen)
  BY DEF CallOK
<1>2. "relabelled" \in Steps /\ Place(w.job, "relabelled")
  BY DEF Steps, Place
<1>3. n \in CallRec(u)
  BY <1>1, <1>2 DEF CallRec, Swapped
<1>4. /\ n.job = w.job /\ n.at = "relabelled" /\ n.seen = w.seen /\ n.draft = new
      /\ n.target = w.target /\ n.was = w.was /\ n.late = w.late \ {"tier"}
  BY <1>1 DEF CallRec, Swapped
<1> HIDE DEF n
<1>5. Went(n, u, w, "relabelled", w.seen, new, w.late \ {"tier"})
  BY <1>1, <1>2, <1>3, <1>4, WentIs
<1> QED
  BY <1>5 DEF n

LEMMA DeletingIs ==
  ASSUME NEW u, NEW w, CallOK(w, u), w.job = "remove"
  PROVE  Went(Deleting(w), u, w, "delete", w.seen, w.draft, w.late)
<1> DEFINE n == Deleting(w)
<1>1. w \in CallRec(u)
  BY DEF CallOK
<1>2. "delete" \in Steps /\ Place(w.job, "delete")
  BY DEF Steps, Place
<1>3. n \in CallRec(u)
  BY <1>1, <1>2 DEF CallRec, Deleting
<1>4. /\ n.job = w.job /\ n.at = "delete" /\ n.seen = w.seen /\ n.draft = w.draft
      /\ n.target = w.target /\ n.was = w.was /\ n.late = w.late
  BY <1>1 DEF CallRec, Deleting
<1> HIDE DEF n
<1>5. Went(n, u, w, "delete", w.seen, w.draft, w.late)
  BY <1>1, <1>2, <1>3, <1>4, WentIs
<1> QED
  BY <1>5 DEF n

LEMMA ClearedIs ==
  ASSUME NEW u, NEW w, CallOK(w, u)
  PROVE  Went(Cleared(w), u, w, w.at, w.seen, NoRoutes, w.late)
<1> DEFINE n == Cleared(w)
<1>1. /\ w \in CallRec(u) /\ Place(w.job, w.at)
      /\ w.job = "rename" => w.target \in DOMAIN w.seen
  BY DEF CallOK
<1>2. NoRoutes \in SoundTier
  BY IdleIs DEF CallOK, CallRec
<1>3. n \in CallRec(u)
  BY <1>1, <1>2 DEF CallRec, Cleared
<1>4. /\ n.job = w.job /\ n.at = w.at /\ n.seen = w.seen /\ n.draft = NoRoutes
      /\ n.target = w.target /\ n.was = w.was /\ n.late = w.late
  BY <1>1 DEF CallRec, Cleared
<1> HIDE DEF n
<1>5. Went(n, u, w, w.at, w.seen, NoRoutes, w.late)
  BY <1>1, <1>3, <1>4, WentIs
<1> QED
  BY <1>5 DEF n

Off(es) == [k \in DOMAIN es |-> [es[k] EXCEPT !.active = FALSE]]

LEMMA OffIs ==
  ASSUME NEW u, NEW es \in Tables(u)
  PROVE  /\ Off(es) \in Tables(u) /\ DOMAIN Off(es) = DOMAIN es
         /\ \A k \in DOMAIN es : Off(es)[k].label = es[k].label /\ ~Off(es)[k].active
<1> DEFINE off == Off(es)
<1>1. DOMAIN es \subseteq u /\ \A k \in DOMAIN es : es[k] \in Row(Cardinality(u))
  BY TableIs
<1>2. /\ DOMAIN off = DOMAIN es /\ off = [k \in DOMAIN off |-> off[k]]
      /\ \A k \in DOMAIN es : off[k] = [es[k] EXCEPT !.active = FALSE]
  BY DEF Off
<1> HIDE DEF off
<1>3. ASSUME NEW k \in DOMAIN es
      PROVE  /\ off[k] \in Row(Cardinality(u)) /\ off[k].label = es[k].label
             /\ ~off[k].active
  <2>1. es[k] \in Row(Cardinality(u)) /\ off[k] = [es[k] EXCEPT !.active = FALSE]
    BY <1>1, <1>2
  <2> QED
    BY <2>1 DEF Row
<1>4. off \in Tables(u)
  BY <1>1, <1>2, <1>3, TableIs
<1> QED
  BY <1>2, <1>3, <1>4 DEF off

-----------------------------------------------------------------------------
(* Looking for routes in use.                                              *)

(* Nobody renames: a pinned route has the name its key has.                *)
LEMMA PinIsName ==
  ASSUME PinsHeld, raced \subseteq {Unranked}, \A d \in Callers : ~Relabels(call[d]),
         NEW r \in Routes(tier), Keyed(r)
  PROVE  r.key \in Active(rows) /\ rows[r.key].label = r.pin
BY DEF PinsHeld

LEMMA CheckRoutesKeeps ==
  ASSUME NEW c \in Callers, KeysInv, CheckRoutes(c)
  PROVE  KeysInv'
<1> DEFINE w == call[c]
<1>1. /\ KeysTypes /\ w.at = "check" /\ ~Relabels(w) /\ RoutesHold
      /\ rows' = rows /\ tier' = tier /\ used' = used
  BY DEF KeysInv, CheckRoutes, Relabels
<1>2. CallOK(w, used) /\ Holds(w, rows, tier, raced) /\ tier \in SoundTier
  BY <1>1 DEF KeysInv, KeysTypes, CallsHold
<1>3. w.job \in {"disconnect", "deactivate", "remove"}
  BY <1>1, <1>2 DEF CallOK, Place
<1>4. CASE RoutesUsed(tier, w.seen)
  <2>1. Move(c, Idle) /\ raced' = raced
    BY <1>4 DEF CheckRoutes
  <2> QED
    BY <1>1, <2>1, ToIdle
<1>5. CASE ~RoutesUsed(tier, w.seen)
  <2> DEFINE a  == IF w.job = "disconnect" THEN "save" ELSE "delete"
             es == IF w.job = "disconnect" THEN Off(w.seen) ELSE <<>>
             n  == Passed(w, a, es)
             x  == IF w.job # "remove" /\ Unpinned \in Routes(tier) THEN {Unranked} ELSE {}
  <2>1. Move(c, n)
    BY <1>5 DEF CheckRoutes, Passed, Off
  <2>2. raced' = raced \cup (Behind(c, "check") \cap {MidRename}) \cup x
    BY <1>5 DEF CheckRoutes
  <2>3. /\ w.seen \in Tables(used) /\ Off(w.seen) \in Tables(used)
        /\ DOMAIN Off(w.seen) = DOMAIN w.seen
        /\ \A k \in DOMAIN w.seen : Off(w.seen)[k].label = w.seen[k].label
    <3>1. w.seen \in Tables(used)
      BY <1>2 DEF CallOK, CallRec
    <3> QED
      BY <3>1, OffIs
  <2>4. es \in Tables(used)
    <3>1. <<>> \in Tables(used)
      BY EmptyTable
    <3> QED
      BY <2>3, <3>1
  <2>5. /\ a \in Steps /\ Place(w.job, a) /\ w.job # "rename"
        /\ w.job = "disconnect" => a = "save" /\ es = Off(w.seen)
        /\ w.job # "disconnect" => a = "delete"
    BY <1>3 DEF Steps, Place
  <2> HIDE DEF a, es
  <2>6. Went(n, used, w, a, es, w.draft, w.late \ {"tier"})
    BY <1>2, <2>4, <2>5, PassedIs
  <2> HIDE DEF n
  <2>7. /\ CallOK(n, used) /\ n.job = w.job /\ n.at = a /\ n.seen = es
        /\ n.target = w.target /\ n.late = w.late \ {"tier"}
    BY <2>6 DEF Went
  <2>8. KeysTypes' /\ Others(c) /\ Quiet(c) /\ call'[c] = n
    BY <1>1, <2>1, <2>2, <2>7, MovedIs
  <2>9. KeysHeld(n, rows)
    <3>1. SUFFICES ASSUME "keys" \notin n.late PROVE KeysHeld(n, rows)
      BY DEF KeysHeld
    <3>2. ChecksHeld(w, rows) /\ (w.job = "remove" => RemovesHeld(w, rows))
      BY <1>1, <1>2, <2>7, <3>1 DEF Holds, Revives, KeysHeld
    <3>3. n.job = "remove" => RemovesHeld(n, rows)
      BY <2>5, <2>7, <3>2 DEF RemovesHeld
    <3>4. n.at = "save" => SavesHeld(n, rows)
      <4>1. SUFFICES ASSUME n.at = "save" PROVE SavesHeld(n, rows)
        OBVIOUS
      <4>2. w.job = "disconnect" /\ es = Off(w.seen)
        BY <2>5, <2>7, <4>1
      <4>3. DOMAIN w.seen = Active(rows) /\ \A k \in Active(rows) : w.seen[k] = rows[k]
        BY <3>2, <4>2 DEF ChecksHeld
      <4>4. \A k \in DOMAIN es : es[k].label = rows[k].label
        BY <2>3, <4>2, <4>3
      <4> QED
        BY <2>7, <4>2, <4>4 DEF SavesHeld
    <3>5. n.at \in {"save", "delete"}
      BY <2>5, <2>7
    <3> QED
      BY <3>3, <3>4, <3>5 DEF KeysHeld
  <2>10. Checked(n, rows, tier, raced')
    <3>1. SUFFICES ASSUME n.late = {}, raced' \subseteq {Unranked}
                   PROVE  Checked(n, rows, tier, raced')
      BY DEF Checked
    <3>2. ChecksHeld(w, rows) /\ (w.job = "remove" => RemovesHeld(w, rows))
      <4>1. "keys" \notin w.late
        BY <2>7, <3>1
      <4> QED
        BY <1>1, <1>2, <4>1 DEF Holds, Revives, KeysHeld
    <3>3. \A d \in Callers : ~Relabels(call[d])
      <4>1. MidRename # Unranked
        BY DEF MidRename, Unranked
      <4>2. MidRename \notin Behind(c, "check")
        BY <2>2, <3>1, <4>1
      <4>3. \A d \in Callers \ {c} : ~Relabels(call[d])
        BY <4>2 DEF Behind, Relabelling, Relabels
      <4> QED
        BY <1>1, <4>3
    <3>4. ASSUME NEW r \in Routes(tier), Keyed(r)
          PROVE  /\ r.key \in Active(rows) /\ r.key \notin DOMAIN w.seen
      <4>1. r.key \in Active(rows) /\ rows[r.key].label = r.pin
        BY <1>1, <2>2, <3>1, <3>3, <3>4, PinIsName DEF RoutesHold
      <4>2. r.key \in DOMAIN w.seen => w.seen[r.key] = rows[r.key]
        BY <3>2 DEF ChecksHeld
      <4>3. r.key \in DOMAIN w.seen => Belongs(r, w.seen[r.key])
        BY <3>4, <4>1, <4>2 DEF Belongs, Keyed
      <4> QED
        BY <1>5, <4>1, <4>3 DEF RoutesUsed
    <3>5. n.job = "remove" => \A r \in Routes(tier) : Keyed(r) => r.key # n.target
      BY <2>7, <3>2, <3>4 DEF ChecksHeld
    <3>6. Clears(n) => \A r \in Routes(tier) : ~Keyed(r)
      <4>1. Clears(n) => DOMAIN w.seen = Active(rows)
        BY <2>7, <3>2 DEF Clears, ChecksHeld
      <4> QED
        BY <3>4, <4>1
    <3>7. Clears(n) /\ raced' = {} => \A r \in Routes(tier) : r.key = Nobody
      <4>1. SUFFICES ASSUME Clears(n), raced' = {}, NEW r \in Routes(tier), r.key # Nobody
                     PROVE  FALSE
        OBVIOUS
      <4>2. r.pin = None /\ r \in SoundRoute
        BY <1>2, <3>6, <4>1 DEF SoundTier, Routes, Keyed
      <4>3. r = Unpinned
        BY <4>1, <4>2 DEF SoundRoute, Route, Unpinned
      <4>4. x = {Unranked}
        BY <2>7, <4>1, <4>3 DEF Clears
      <4> QED
        BY <2>2, <4>1, <4>4
    <3>8. n.at # "store"
      BY <2>5, <2>7
    <3> QED
      BY <3>5, <3>6, <3>7, <3>8 DEF Checked
  <2>11. Holds(n, rows, tier, raced')
    BY <1>3, <2>5, <2>7, <2>9, <2>10 DEF Holds, Revives, TierHeld
  <2> QED
    BY <1>1, <1>3, <2>7, <2>8, <2>11, QuietKept DEF Relabels
<1> QED
  BY <1>4, <1>5

-----------------------------------------------------------------------------
(* Pins follow a renamed key and lose a removed one.                       *)

SwapPin(r, from, to) ==
  IF r.pin = from THEN [pin |-> to, key |-> Meant(r, to)] ELSE r

LEMMA SwapPinIs ==
  ASSUME NEW r \in SoundRoute, NEW from, NEW to \in Pins
  PROVE  /\ SwapPin(r, from, to) \in SoundRoute
         /\ r.pin # from => SwapPin(r, from, to) = r
         /\ r.pin = from => SwapPin(r, from, to).pin = to
         /\ r.pin = from /\ to # None => SwapPin(r, from, to).key = r.key
         /\ SwapPin(r, from, to).key = Nobody <=> r.key = Nobody
BY KeysAssumption DEF SwapPin, Meant, SoundRoute, Route

LEMMA RelabelledIs ==
  ASSUME NEW t \in SoundTier, NEW from, NEW to \in Pins
  PROVE  /\ Relabelled(t, from, to) \in SoundTier
         /\ \A s \in Routes(Relabelled(t, from, to)) :
              \E r \in Routes(t) : r \in SoundRoute /\ s = SwapPin(r, from, to)
<1> DEFINE over == {SwapPin(r, from, to) : r \in t.over}
           fb   == {SwapPin(r, from, to) : r \in t.fb}
<1>1. Relabelled(t, from, to) = [over |-> over, fb |-> fb]
  BY DEF Relabelled, SwapPin, Meant
<1>2. t.over \subseteq SoundRoute /\ t.fb \subseteq SoundRoute
  BY DEF SoundTier
<1>3. over \in SUBSET SoundRoute /\ fb \in SUBSET SoundRoute
  BY <1>2, SwapPinIs
<1>4. \A s \in over \cup fb :
        \E r \in Routes(t) : r \in SoundRoute /\ s = SwapPin(r, from, to)
  BY <1>2 DEF Routes
<1> HIDE DEF over, fb
<1>5. [over |-> over, fb |-> fb] \in SoundTier
  BY <1>3 DEF SoundTier
<1>6. Routes(Relabelled(t, from, to)) = over \cup fb
  BY <1>1 DEF Routes
<1> QED
  BY <1>1, <1>4, <1>5, <1>6

LEMMA ToIs ==
  ASSUME NEW u, NEW w, CallOK(w, u)
  PROVE  To(w) \in Pins /\ (w.job = "rename" => To(w) \in Labels /\ To(w) # None)
<1>1. w.seen \in Tables(u) /\ (w.job = "rename" => w.target \in DOMAIN w.seen)
  BY DEF CallOK, CallRec
<1>2. \A k \in DOMAIN w.seen : w.seen[k] \in Row(Cardinality(u))
  BY <1>1, TableIs
<1>3. w.job = "rename" => w.seen[w.target].label \in Labels
  BY <1>1, <1>2 DEF Row
<1> QED
  BY <1>3, KeysAssumption DEF To, Pins

(* No route has the old name any more.                                     *)
LEMMA NothingToSwap ==
  ASSUME NEW t \in SoundTier, NEW from, NEW to \in Pins, to # from,
         Relabelled(t, from, to) = t, NEW r \in Routes(t)
  PROVE  r.pin # from
<1>1. PICK q \in Routes(t) : q \in SoundRoute /\ r = SwapPin(q, from, to)
  BY RelabelledIs
<1> QED
  BY <1>1, SwapPinIs

LEMMA RelabelReadKeeps ==
  ASSUME NEW c \in Callers, KeysInv, RelabelRead(c)
  PROVE  KeysInv'
<1> DEFINE w   == call[c]
           new == Relabelled(tier, w.was, To(w))
<1>1. /\ KeysTypes /\ w.at = "relabel" /\ RoutesHold
      /\ rows' = rows /\ tier' = tier /\ used' = used /\ raced' = raced
      /\ Move(c, IF new = tier
                   THEN IF w.job = "rename" THEN Idle ELSE Deleting(w)
                   ELSE Swapped(w, new))
  BY DEF KeysInv, RelabelRead, To, AfterRelabel, Deleting, Swapped
<1>2. CallOK(w, used) /\ Holds(w, rows, tier, raced) /\ tier \in SoundTier
  BY <1>1 DEF KeysInv, KeysTypes, CallsHold
<1>3. w.job \in {"rename", "remove"} /\ To(w) \in Pins
  BY <1>1, <1>2, ToIs DEF CallOK, Place
<1>4. "keys" \notin w.late /\ w.job = "remove" => RemovesHeld(w, rows)
  BY <1>1, <1>2 DEF Holds, Revives, KeysHeld
<1>5. new \in SoundTier
  BY <1>2, <1>3, RelabelledIs
<1>6. CASE new = tier /\ w.job = "rename"
  <2>1. Move(c, Idle)
    BY <1>1, <1>6
  <2>2. CallOK(Idle, used)
    BY IdleIs
  <2>3. KeysTypes' /\ Others(c) /\ Quiet(c) /\ call'[c] = Idle
    BY <1>1, <2>1, <2>2, MovedIs
  <2>4. Relabels(w)
    BY <1>1, <1>6 DEF Relabels
  <2>5. raced \subseteq {Unranked} =>
          /\ \A d \in Callers \ {c} : ~Relabels(call[d])
          /\ w.was # To(w)
    BY <1>1, <2>4 DEF RoutesHold, RenameAlone
  <2>6. raced \subseteq {Unranked} => \A r \in Routes(tier) : r.pin # w.was
    BY <1>2, <1>3, <1>6, <2>5, NothingToSwap
  <2>7. raced \subseteq {Unranked} => \A d \in Callers : ~Relabels(call'[d])
    BY <2>3, <2>5, IdleHolds DEF Quiet, Still
  <2>8. RenameAlone'
    BY <1>1, <2>7 DEF RenameAlone, Relabels, Unranked
  <2>9. PinsHeld'
    <3>1. SUFFICES ASSUME raced \subseteq {Unranked}, NEW r \in Routes(tier), Keyed(r)
                   PROVE  r.key \in Active(rows) /\ rows[r.key].label = r.pin
      BY <1>1 DEF PinsHeld, Routes, Active, Unranked
    <3>2. \A d \in Callers : Relabels(call[d]) => call[d].was # r.pin
      BY <2>5, <2>6, <3>1
    <3> QED
      BY <1>1, <3>1, <3>2 DEF RoutesHold, PinsHeld
  <2>10. NoOrphan'
    BY <1>1 DEF RoutesHold, NoOrphan, Active, Routes
  <2>11. RoutesHold' /\ Holds(call'[c], rows', tier', raced')
    BY <2>3, <2>8, <2>9, <2>10, IdleHolds DEF RoutesHold
  <2> QED
    BY <1>1, <2>3, <2>11, InvKept
<1>7. CASE new = tier /\ w.job = "remove"
  <2> DEFINE n == Deleting(w)
  <2>1. Move(c, n)
    BY <1>1, <1>7
  <2>2. Went(n, used, w, "delete", w.seen, w.draft, w.late)
    BY <1>2, <1>7, DeletingIs
  <2> HIDE DEF n
  <2>3. /\ CallOK(n, used) /\ n.job = "remove" /\ n.at = "delete" /\ n.target = w.target
        /\ n.late = w.late
    BY <1>7, <2>2 DEF Went
  <2>4. KeysTypes' /\ Others(c) /\ Quiet(c) /\ call'[c] = n
    BY <1>1, <2>1, <2>3, MovedIs
  <2>5. ~Relabels(w) /\ ~Relabels(n)
    BY <1>7, <2>3 DEF Relabels
  <2>6. KeysHeld(n, rows)
    BY <1>4, <1>7, <2>3 DEF KeysHeld, RemovesHeld
  <2>7. Checked(n, rows, tier, raced')
    <3>1. SUFFICES ASSUME n.late = {}, raced \subseteq {Unranked},
                          NEW r \in Routes(tier), Keyed(r)
                   PROVE  r.key # n.target
      BY <1>1, <2>3 DEF Checked, Clears
    <3>2. w.target \notin Active(rows)
      BY <1>1, <1>4, <1>7, <2>3, <3>1 DEF RemovesHeld, Active
    <3>3. r.key \in Active(rows)
      BY <1>1, <3>1 DEF RoutesHold, PinsHeld
    <3> QED
      BY <2>3, <3>2, <3>3
  <2>8. Holds(n, rows, tier, raced')
    BY <2>3, <2>6, <2>7 DEF Holds, Revives, TierHeld
  <2> QED
    BY <2>4, <2>5, <2>8, QuietKept
<1>8. CASE new # tier
  <2> DEFINE n == Swapped(w, new)
  <2>1. Move(c, n)
    BY <1>1, <1>8
  <2>2. Went(n, used, w, "relabelled", w.seen, new, w.late \ {"tier"})
    BY <1>2, <1>3, <1>5, SwappedIs
  <2> HIDE DEF n
  <2>3. /\ CallOK(n, used) /\ n.job = w.job /\ n.at = "relabelled" /\ n.seen = w.seen
        /\ n.draft = new /\ n.target = w.target /\ n.was = w.was
        /\ n.late = w.late \ {"tier"}
    BY <2>2 DEF Went
  <2>4. KeysTypes' /\ Others(c) /\ Quiet(c) /\ call'[c] = n
    BY <1>1, <2>1, <2>3, MovedIs
  <2>5. To(n) = To(w)
    BY <2>3 DEF To
  <2>6. KeysHeld(n, rows)
    BY <1>1, <1>4, <2>3 DEF KeysHeld, RemovesHeld
  <2>7. TierHeld(n, tier)
    BY <2>3, <2>5 DEF TierHeld
  <2>8. Checked(n, rows, tier, raced')
    BY <2>3 DEF Checked, Clears
  <2>9. Holds(n, rows, tier, raced')
    BY <1>3, <2>3, <2>6, <2>7, <2>8 DEF Holds, Revives
  <2>10. CASE w.job = "remove"
    <3>1. ~Relabels(w) /\ ~Relabels(n)
      BY <2>3, <2>10 DEF Relabels
    <3> QED
      BY <2>4, <2>9, <3>1, QuietKept
  <2>11. CASE w.job = "rename"
    <3>1. Relabels(w) /\ Relabels(n)
      BY <1>1, <2>3, <2>11 DEF Relabels
    <3>2. \A d \in Callers : /\ Relabels(call'[d]) <=> Relabels(call[d])
                             /\ call'[d].target = call[d].target
                             /\ call'[d].was = call[d].was /\ To(call'[d]) = To(call[d])
                             /\ call[d].late = {} => call'[d].late = {}
      <4>1. ASSUME NEW d \in Callers, d # c PROVE call'[d] = call[d]
        BY <2>4, <4>1 DEF Quiet, Still
      <4>2. w.late = {} => n.late = {}
        BY <2>3
      <4> QED
        BY <2>3, <2>4, <2>5, <3>1, <4>1, <4>2
    <3>3. RenameAlone'
      <4>1. SUFFICES ASSUME raced \subseteq {Unranked}, NEW d \in Callers, Relabels(call'[d])
                     PROVE  /\ call'[d].late = {}
                            /\ \A e \in Callers \ {d} : ~Relabels(call'[e])
                            /\ call'[d].target \in DOMAIN rows
                            /\ rows[call'[d].target].label = To(call'[d])
                            /\ \A k \in DOMAIN rows : rows[k].label # call'[d].was
        BY <1>1 DEF RenameAlone, Relabels, To, Unranked
      <4> QED
        BY <1>1, <3>2, <4>1 DEF RoutesHold, RenameAlone
    <3>4. PinsHeld'
      <4>1. SUFFICES ASSUME raced \subseteq {Unranked}, NEW r \in Routes(tier), Keyed(r)
                     PROVE  /\ r.key \in Active(rows)
                            /\ \/ rows[r.key].label = r.pin
                               \/ \E d \in Callers : /\ Relabels(call'[d])
                                                     /\ call'[d].target = r.key
                                                     /\ call'[d].was = r.pin
        BY <1>1 DEF PinsHeld, Relabels, Unranked, Active, Routes
      <4> QED
        BY <1>1, <3>2, <4>1 DEF RoutesHold, PinsHeld
    <3>5. NoOrphan'
      BY <1>1 DEF RoutesHold, NoOrphan, Active, Routes
    <3>6. RoutesHold' /\ Holds(call'[c], rows', tier', raced')
      BY <1>1, <2>4, <2>9, <3>3, <3>4, <3>5 DEF RoutesHold
    <3> QED
      BY <1>1, <2>4, <3>6, InvKept
  <2> QED
    BY <1>3, <2>10, <2>11
<1> QED
  BY <1>3, <1>6, <1>7, <1>8

-----------------------------------------------------------------------------
(* Writing the tier.                                                       *)

LEMMA WriteUnexcused ==
  ASSUME NEW c \in Callers, NEW step \in {"keys", "tier"}, KeysTypes, Others(c),
         raced' = raced \cup Behind(c, step), raced' \subseteq {Unranked}
  PROVE  /\ call[c].late = {} /\ raced' = raced /\ raced \subseteq {Unranked}
         /\ \A d \in Callers \ {c} : ~Relabels(call[d]) /\ ~Relabels(call'[d])
<1>1. /\ call[c].late = {} /\ raced' = raced
      /\ \A d \in Callers \ {c} : ~Relabels(call[d])
  BY WriteAlone
<1>2. \A d \in Callers \ {c} : ~Relabels(call'[d])
  BY <1>1 DEF Others, Relabels
<1> QED
  BY <1>1, <1>2

LEMMA NoRename ==
  ASSUME raced' \subseteq {Unranked} => \A d \in Callers : ~Relabels(call'[d])
  PROVE  RenameAlone'
BY DEF RenameAlone, Relabels, Unranked

(* With nobody in a rename, the routes are right if each has its key.      *)
LEMMA PinsNow ==
  ASSUME raced' \subseteq {Unranked} =>
           \A r \in Routes(tier') : Keyed(r) =>
             r.key \in Active(rows') /\ rows'[r.key].label = r.pin
  PROVE  PinsHeld'
BY DEF PinsHeld, Active, Routes, Unranked

LEMMA OrphanNow ==
  ASSUME raced' = {} /\ Active(rows') = {} => \A r \in Routes(tier') : r.key = Nobody
  PROVE  NoOrphan'
BY DEF NoOrphan, Active, Routes

LEMMA RelabelSaveKeeps ==
  ASSUME NEW c \in Callers, KeysInv, RelabelSave(c)
  PROVE  KeysInv'
<1> DEFINE w   == call[c]
           to  == To(w)
           n   == IF w.job = "rename" THEN Idle ELSE Deleting(Cleared(w))
<1>1. KeysTypes /\ w.at = "relabelled" /\ rows' = rows /\ used' = used /\ RoutesHold
  BY DEF KeysInv, RelabelSave
<1>2. CallOK(w, used) /\ Holds(w, rows, tier, raced) /\ tier \in SoundTier
  BY <1>1 DEF KeysInv, KeysTypes, CallsHold
<1>3. w.job \in {"rename", "remove"} /\ w.draft \in SoundTier /\ w.was \in Pins
  BY <1>1, <1>2 DEF CallOK, CallRec, Place
<1>4. Went(Cleared(w), used, w, w.at, w.seen, NoRoutes, w.late)
  BY <1>2, ClearedIs
<1>5. /\ CallOK(Cleared(w), used) /\ Cleared(w).job = w.job
      /\ Cleared(w).target = w.target /\ Cleared(w).late = w.late
  BY <1>4 DEF Went
<1>6. WriteTier(c, w.draft, n)
  BY <1>5 DEF RelabelSave, AfterRelabel, Cleared, Deleting
<1>7. /\ CallOK(n, used)
      /\ w.job = "rename" => n = Idle
      /\ w.job = "remove" => /\ n.job = "remove" /\ n.at = "delete" /\ n.target = w.target
                             /\ n.late = w.late
  <2>1. CASE w.job = "rename"
    BY <2>1, IdleIs
  <2>2. CASE w.job = "remove"
    <3> DEFINE v == Cleared(w)
    <3>1. CallOK(v, used) /\ v.job = "remove" /\ v.target = w.target /\ v.late = w.late
      BY <1>5, <2>2
    <3> HIDE DEF v
    <3>2. Went(Deleting(v), used, v, "delete", v.seen, v.draft, v.late)
      BY <3>1, DeletingIs
    <3>3. n = Deleting(v)
      BY <2>2 DEF v
    <3> QED
      BY <2>2, <3>1, <3>2, <3>3 DEF Went
  <2> QED
    BY <1>3, <2>1, <2>2
<1> HIDE DEF n
<1>8. tier' = w.draft /\ raced' = raced \cup Behind(c, "tier") /\ Became(c, n)
  BY <1>1, <1>6, WriteTierIs
<1>9. KeysTypes'
  BY <1>1, <1>3, <1>7, <1>8, TypesKept DEF KeysTypes
<1>10. Others(c) /\ call'[c] = n
  BY <1>8 DEF Became
<1>11. raced' \subseteq {Unranked} =>
         /\ w.late = {} /\ raced' = raced /\ raced \subseteq {Unranked}
         /\ \A d \in Callers \ {c} : ~Relabels(call[d]) /\ ~Relabels(call'[d])
         /\ w.draft = Relabelled(tier, w.was, to)
  <2>1. SUFFICES ASSUME raced' \subseteq {Unranked}
                 PROVE  /\ w.late = {} /\ raced' = raced /\ raced \subseteq {Unranked}
                        /\ \A d \in Callers \ {c} : ~Relabels(call[d]) /\ ~Relabels(call'[d])
                        /\ w.draft = Relabelled(tier, w.was, to)
    OBVIOUS
  <2>2. /\ w.late = {} /\ raced' = raced /\ raced \subseteq {Unranked}
        /\ \A d \in Callers \ {c} : ~Relabels(call[d]) /\ ~Relabels(call'[d])
    BY <1>1, <1>8, <1>10, <2>1, WriteUnexcused
  <2>3. w.draft = Relabelled(tier, w.was, to)
    BY <1>1, <1>2, <2>2 DEF Holds, Revives, TierHeld
  <2> QED
    BY <2>2, <2>3
<1>12. to \in Pins /\ (w.job = "rename" => to # None) /\ (w.job = "remove" => to = None)
  BY <1>2, ToIs DEF To
<1>13. raced' \subseteq {Unranked} =>
         \A s \in Routes(tier') : Keyed(s) =>
           s.key \in Active(rows) /\ rows[s.key].label = s.pin
  <2>1. SUFFICES ASSUME raced' \subseteq {Unranked}, NEW s \in Routes(tier'), Keyed(s)
                 PROVE  s.key \in Active(rows) /\ rows[s.key].label = s.pin
    OBVIOUS
  <2>2. s \in Routes(Relabelled(tier, w.was, to))
    BY <1>8, <1>11, <2>1
  <2>3. PICK r \in Routes(tier) : r \in SoundRoute /\ s = SwapPin(r, w.was, to)
    BY <1>2, <1>12, <2>2, RelabelledIs
  <2>4. \A d \in Callers : Relabels(call[d]) => d = c /\ w.job = "rename"
    BY <1>11, <2>1 DEF Relabels
  <2>5. Keyed(r) =>
          /\ r.key \in Active(rows)
          /\ \/ rows[r.key].label = r.pin
             \/ w.job = "rename" /\ w.target = r.key /\ w.was = r.pin
    BY <1>1, <1>11, <2>1, <2>4 DEF RoutesHold, PinsHeld
  <2>6. CASE r.pin # w.was
    <3>1. s = r
      BY <1>12, <2>3, <2>6, SwapPinIs
    <3> QED
      BY <2>1, <2>5, <2>6, <3>1
  <2>7. CASE r.pin = w.was /\ w.job = "remove"
    <3>1. s.pin = None
      BY <1>12, <2>3, <2>7, SwapPinIs
    <3> QED
      BY <2>1, <3>1 DEF Keyed
  <2>8. CASE r.pin = w.was /\ w.job = "rename"
    <3>1. s.pin = to /\ s.key = r.key
      BY <1>12, <2>3, <2>8, SwapPinIs
    <3>2. Relabels(w) /\ w.was # None
      BY <1>1, <1>2, <2>8 DEF Relabels, CallOK
    <3>3. rows[w.target].label = to /\ \A k \in DOMAIN rows : rows[k].label # w.was
      BY <1>1, <1>11, <2>1, <3>2 DEF RoutesHold, RenameAlone
    <3>4. Keyed(r)
      BY <2>1, <2>8, <3>1, <3>2 DEF Keyed
    <3>5. r.key \in Active(rows) /\ r.key = w.target
      BY <1>1, <2>5, <2>8, <3>3, <3>4, RowsAre
    <3> QED
      BY <3>1, <3>3, <3>5
  <2> QED
    BY <1>3, <2>6, <2>7, <2>8
<1>14. raced' \subseteq {Unranked} => \A d \in Callers : ~Relabels(call'[d])
  <2>1. ~Relabels(n)
    BY <1>3, <1>7, IdleHolds DEF Relabels
  <2> QED
    BY <1>10, <1>11, <2>1
<1>15. raced' = {} /\ Active(rows') = {} => \A r \in Routes(tier') : r.key = Nobody
  <2>1. SUFFICES ASSUME raced' = {}, Active(rows) = {}, NEW s \in Routes(tier')
                 PROVE  s.key = Nobody
    BY <1>1
  <2>2. raced = {} /\ w.draft = Relabelled(tier, w.was, to)
    BY <1>11, <2>1
  <2>3. PICK r \in Routes(tier) : r \in SoundRoute /\ s = SwapPin(r, w.was, to)
    BY <1>2, <1>8, <1>12, <2>1, <2>2, RelabelledIs
  <2>4. r.key = Nobody
    BY <1>1, <2>1, <2>2, <2>3 DEF RoutesHold, NoOrphan
  <2> QED
    BY <1>12, <2>3, <2>4, SwapPinIs
<1>16. RoutesHold'
  BY <1>1, <1>13, <1>14, <1>15, NoRename, PinsNow, OrphanNow DEF RoutesHold
<1>17. Holds(n, rows, tier', raced')
  <2>1. CASE w.job = "rename"
    BY <1>7, <2>1, IdleHolds
  <2>2. CASE w.job = "remove"
    <3>1. "keys" \notin w.late => RemovesHeld(w, rows)
      BY <1>2, <2>2, <1>1 DEF Holds, Revives, KeysHeld
    <3>2. KeysHeld(n, rows)
      BY <1>7, <2>2, <3>1 DEF KeysHeld, RemovesHeld
    <3>3. Checked(n, rows, tier', raced')
      <4>1. SUFFICES ASSUME n.late = {}, raced' \subseteq {Unranked},
                            NEW s \in Routes(tier'), Keyed(s)
                     PROVE  s.key # n.target
        BY <1>7, <2>2 DEF Checked, Clears
      <4>2. w.target \notin Active(rows)
        BY <1>1, <1>7, <2>2, <3>1, <4>1 DEF RemovesHeld, Active
      <4> QED
        BY <1>7, <1>13, <2>2, <4>1, <4>2
    <3> QED
      BY <1>7, <2>2, <3>2, <3>3 DEF Holds, Revives, TierHeld
  <2> QED
    BY <1>3, <2>1, <2>2
<1> QED
  BY <1>1, <1>8, <1>9, <1>10, <1>16, <1>17, InvKept

LEMMA StoreTierKeeps ==
  ASSUME NEW c \in Callers, KeysInv, StoreTier(c)
  PROVE  KeysInv'
<1> DEFINE w == call[c]
<1>1. /\ KeysTypes /\ w.at = "store" /\ rows' = rows /\ used' = used /\ RoutesHold
      /\ WriteTier(c, w.draft, Idle)
  BY DEF KeysInv, StoreTier
<1>2. CallOK(w, used) /\ Holds(w, rows, tier, raced) /\ CallOK(Idle, used)
  BY <1>1, IdleIs DEF KeysInv, KeysTypes, CallsHold
<1>3. w.draft \in SoundTier /\ ~Relabels(w)
  BY <1>1, <1>2 DEF CallOK, CallRec, Relabels
<1>4. tier' = w.draft /\ raced' = raced \cup Behind(c, "tier") /\ Became(c, Idle)
  BY <1>1, WriteTierIs
<1>5. KeysTypes'
  BY <1>1, <1>2, <1>3, <1>4, TypesKept DEF KeysTypes
<1>6. Others(c) /\ call'[c] = Idle
  BY <1>4 DEF Became
<1>7. raced' \subseteq {Unranked} =>
        /\ raced' = raced /\ raced \subseteq {Unranked}
        /\ \A d \in Callers : ~Relabels(call[d]) /\ ~Relabels(call'[d])
        /\ \A r \in Routes(tier') : r \in Routes(tier) \/ Fits(r, rows)
  <2>1. SUFFICES ASSUME raced' \subseteq {Unranked}
                 PROVE  /\ raced' = raced /\ raced \subseteq {Unranked}
                        /\ \A d \in Callers : ~Relabels(call[d]) /\ ~Relabels(call'[d])
                        /\ \A r \in Routes(tier') : r \in Routes(tier) \/ Fits(r, rows)
    OBVIOUS
  <2>2. /\ w.late = {} /\ raced' = raced /\ raced \subseteq {Unranked}
        /\ \A d \in Callers \ {c} : ~Relabels(call[d]) /\ ~Relabels(call'[d])
    BY <1>1, <1>4, <1>6, <2>1, WriteUnexcused
  <2>3. \A r \in Routes(tier') : r \in Routes(tier) \/ Fits(r, rows)
    BY <1>1, <1>2, <1>4, <2>2 DEF Holds, Revives, Checked
  <2> QED
    BY <1>3, <1>6, <2>2, <2>3, IdleHolds
<1>8. raced' \subseteq {Unranked} =>
        \A r \in Routes(tier') : Keyed(r) =>
          r.key \in Active(rows') /\ rows'[r.key].label = r.pin
  <2>1. SUFFICES ASSUME raced' \subseteq {Unranked}, NEW r \in Routes(tier'), Keyed(r)
                 PROVE  r.key \in Active(rows) /\ rows[r.key].label = r.pin
    BY <1>1
  <2>2. CASE r \in Routes(tier)
    BY <1>1, <1>7, <2>1, <2>2, PinIsName DEF RoutesHold
  <2>3. CASE Fits(r, rows)
    BY <2>1, <2>3 DEF Fits
  <2> QED
    BY <1>7, <2>1, <2>2, <2>3
<1>9. raced' = {} /\ Active(rows') = {} => \A r \in Routes(tier') : r.key = Nobody
  BY <1>1, <1>7 DEF RoutesHold, NoOrphan, Fits
<1>10. RoutesHold'
  BY <1>7, <1>8, <1>9, NoRename, PinsNow, OrphanNow DEF RoutesHold
<1> QED
  BY <1>4, <1>5, <1>6, <1>10, IdleHolds, InvKept

LEMMA ResetTierKeeps ==
  ASSUME NEW c \in Callers, KeysInv, ResetTier(c)
  PROVE  KeysInv'
<1> DEFINE w == call[c]
<1>1. /\ KeysTypes /\ w.job = "none" /\ rows' = rows /\ used' = used /\ RoutesHold
      /\ WriteTier(c, NoRoutes, Idle) /\ CallOK(Idle, used)
  BY IdleIs DEF KeysInv, ResetTier
<1>2. NoRoutes \in SoundTier /\ Routes(NoRoutes) = {} /\ ~Relabels(w)
  <2>1. NoRoutes \in SoundTier
    BY IdleIs DEF CallOK, CallRec
  <2> QED
    BY <1>1, <2>1 DEF NoRoutes, Routes, Relabels
<1>3. tier' = NoRoutes /\ raced' = raced \cup Behind(c, "tier") /\ Became(c, Idle)
  BY <1>1, WriteTierIs
<1>4. KeysTypes'
  BY <1>1, <1>2, <1>3, TypesKept DEF KeysTypes
<1>5. Others(c) /\ call'[c] = Idle
  BY <1>3 DEF Became
<1>6. raced' \subseteq {Unranked} => \A d \in Callers : ~Relabels(call'[d])
  BY <1>1, <1>3, <1>5, WriteUnexcused, IdleHolds
<1>7. RoutesHold'
  BY <1>2, <1>3, <1>6, NoRename, PinsNow, OrphanNow DEF RoutesHold
<1> QED
  BY <1>3, <1>4, <1>5, <1>7, IdleHolds, InvKept

LEMMA AbandonKeeps ==
  ASSUME NEW c \in Callers, KeysInv, Abandon(c)
  PROVE  KeysInv'
<1>1. /\ KeysTypes /\ Move(c, Idle) /\ rows' = rows /\ tier' = tier /\ used' = used
      /\ raced \subseteq raced' /\ (Relabels(call[c]) => Cut \in raced')
  BY DEF KeysInv, Abandon, Relabelling, Relabels
<1>2. CASE ~Relabels(call[c])
  BY <1>1, <1>2, ToIdle
<1>3. CASE Relabels(call[c])
  <2>1. CallOK(Idle, used)
    BY IdleIs
  <2>2. KeysTypes' /\ Others(c) /\ call'[c] = Idle
    BY <1>1, <2>1, MovedIs
  <2>3. Cut # Unranked
    BY DEF Cut, Unranked
  <2>4. ~(raced' \subseteq {Unranked}) /\ raced' # {}
    BY <1>1, <1>3, <2>3
  <2>5. RoutesHold'
    BY <2>4, NoRename, PinsNow, OrphanNow DEF RoutesHold
  <2> QED
    BY <1>1, <2>2, <2>5, IdleHolds, InvKept
<1> QED
  BY <1>2, <1>3

-----------------------------------------------------------------------------
(* Writing the keys.                                                       *)

Renumbering == [Idle EXCEPT !.job = "remove", !.at = "renumber"]

LEMMA RenumberingIs ==
  ASSUME NEW u
  PROVE  /\ CallOK(Renumbering, u)
         /\ Renumbering.job = "remove" /\ Renumbering.at = "renumber"
<1>1. Idle \in CallRec(u)
  BY IdleIs DEF CallOK
<1>2. Renumbering.job = "remove" /\ Renumbering.at = "renumber"
  BY DEF Idle, Renumbering
<1>3. Renumbering \in CallRec(u)
  BY <1>1 DEF CallRec, Renumbering, Jobs, Steps
<1> QED
  BY <1>2, <1>3 DEF CallOK, Place

LEMMA DeleteKeeps ==
  ASSUME NEW c \in Callers, KeysInv, Delete(c)
  PROVE  KeysInv'
<1> DEFINE w    == call[c]
           rest == Only(rows, DOMAIN rows \ {w.target})
           new  == IF w.job = "deactivate" THEN Off(rows) ELSE rest
           n    == IF w.job = "deactivate" THEN Idle ELSE Renumbering
<1>1. /\ KeysTypes /\ w.at = "delete" /\ tier' = tier /\ used' = used /\ RoutesHold
      /\ WriteKeys(c, new, n)
  BY DEF KeysInv, Delete, Off, Renumbering
<1>2. CallOK(w, used) /\ Holds(w, rows, tier, raced) /\ tier \in SoundTier
  BY <1>1 DEF KeysInv, KeysTypes, CallsHold
<1>3. w.job \in {"deactivate", "remove"} /\ ~Relabels(w)
  BY <1>1, <1>2 DEF CallOK, Place, Relabels
<1>4. rows \in Tables(used) /\ LabelsUnique(rows)
  BY <1>1 DEF KeysTypes
<1>5. /\ Off(rows) \in Tables(used) /\ DOMAIN Off(rows) = DOMAIN rows
      /\ \A k \in DOMAIN rows : Off(rows)[k].label = rows[k].label /\ ~Off(rows)[k].active
  BY <1>4, OffIs
<1>6. /\ rest \in Tables(used) /\ DOMAIN rest = DOMAIN rows \ {w.target}
      /\ \A k \in DOMAIN rows \ {w.target} : rest[k] = rows[k]
  BY <1>4, OnlyTable
<1>7. new \in Tables(used) /\ LabelsUnique(new)
  <2> HIDE DEF rest
  <2>1. LabelsUnique(Off(rows)) /\ LabelsUnique(rest)
    BY <1>4, <1>5, <1>6 DEF LabelsUnique
  <2> QED
    BY <1>5, <1>6, <2>1
<1>8. CallOK(n, used) /\ ~Relabels(n) /\ n.at # "store" /\ n.at # "delete" /\ n.at # "save"
  BY IdleIs, RenumberingIs DEF Relabels
<1>9. Holds(n, rows', tier', raced')
  BY IdleHolds, RenumberingIs DEF Holds, Revives, KeysHeld, TierHeld, Checked, Clears
<1> HIDE DEF n
<1>10. rows' = new /\ raced' = raced \cup Behind(c, "keys") /\ Became(c, n)
  BY <1>1, WriteKeysIs
<1>11. KeysTypes'
  <2> HIDE DEF new
  <2> QED
    BY <1>1, <1>2, <1>7, <1>8, <1>10, RowsAre, TypesKept
<1>12. Others(c) /\ call'[c] = n
  BY <1>10 DEF Became
<1>13. raced' \subseteq {Unranked} =>
         /\ w.late = {} /\ raced' = raced /\ raced \subseteq {Unranked}
         /\ \A d \in Callers : ~Relabels(call[d]) /\ ~Relabels(call'[d])
  BY <1>1, <1>3, <1>8, <1>10, <1>12, WriteUnexcused
<1>14. raced' \subseteq {Unranked} =>
         \A r \in Routes(tier') : Keyed(r) =>
           r.key \in Active(rows') /\ rows'[r.key].label = r.pin
  <2>1. SUFFICES ASSUME raced' \subseteq {Unranked}, NEW r \in Routes(tier), Keyed(r)
                 PROVE  r.key \in Active(new) /\ new[r.key].label = r.pin
    BY <1>1, <1>10
  <2>2. r.key \in Active(rows) /\ rows[r.key].label = r.pin
    BY <1>1, <1>13, <2>1, PinIsName DEF RoutesHold
  <2>3. w.job = "remove" /\ r.key # w.target
    BY <1>1, <1>2, <1>3, <1>13, <2>1 DEF Holds, Revives, Checked, Clears
  <2>4. r.key \in DOMAIN rest /\ rest[r.key] = rows[r.key] /\ new = rest
    BY <1>6, <2>2, <2>3 DEF Active
  <2> HIDE DEF new, rest
  <2> QED
    BY <2>2, <2>4 DEF Active
<1>15. raced' = {} /\ Active(rows') = {} => \A r \in Routes(tier') : r.key = Nobody
  <2>1. SUFFICES ASSUME raced' = {}, Active(new) = {}
                 PROVE  \A r \in Routes(tier) : r.key = Nobody
    BY <1>1, <1>10
  <2>2. raced = {} /\ w.late = {}
    BY <1>13, <2>1
  <2>3. CASE w.job = "deactivate"
    BY <1>1, <1>2, <2>2, <2>3 DEF Holds, Revives, Checked, Clears
  <2>4. CASE w.job = "remove"
    <3>1. w.target \in DOMAIN rows /\ Active(rows) # {w.target}
      BY <1>1, <1>2, <2>2, <2>4 DEF Holds, Revives, KeysHeld, RemovesHeld
    <3>2. new = rest
      BY <2>4
    <3> HIDE DEF new, rest
    <3>3. \A k \in Active(rows) : k = w.target
      BY <1>6, <2>1, <3>2 DEF Active
    <3>4. Active(rows) = {}
      BY <3>1, <3>3
    <3> QED
      BY <1>1, <2>2, <3>4 DEF RoutesHold, NoOrphan
  <2> QED
    BY <1>3, <2>3, <2>4
<1>16. RoutesHold'
  BY <1>13, <1>14, <1>15, NoRename, PinsNow, OrphanNow DEF RoutesHold
<1> QED
  BY <1>9, <1>10, <1>11, <1>12, <1>16, InvKept

Discovering(w) == [w EXCEPT !.job = "discover", !.late = {}]

LEMMA DiscoveringIs ==
  ASSUME NEW u, NEW w, CallOK(w, u), w.at = "save"
  PROVE  /\ CallOK(Discovering(w), u)
         /\ Discovering(w).job = "discover" /\ Discovering(w).at = "save"
         /\ Discovering(w).seen = w.seen
<1> DEFINE n == Discovering(w)
<1>1. w \in CallRec(u)
  BY DEF CallOK
<1>2. n.job = "discover" /\ n.at = "save" /\ n.seen = w.seen
  BY <1>1 DEF CallRec, Discovering
<1>3. n \in CallRec(u)
  BY <1>1 DEF CallRec, Discovering, Jobs
<1> HIDE DEF n
<1>4. CallOK(n, u)
  BY <1>2, <1>3 DEF CallOK, Place
<1> QED
  BY <1>2, <1>4 DEF n

LEMMA SaveKeysKeeps ==
  ASSUME NEW c \in Callers, KeysInv, SaveKeys(c)
  PROVE  KeysInv'
<1> DEFINE w   == call[c]
           new == Saved(rows, w.seen)
           n   == AfterSave(w)
<1>1. /\ KeysTypes /\ w.at = "save" /\ tier' = tier /\ used' = used /\ RoutesHold
      /\ ~Relabels(w)
  BY DEF KeysInv, SaveKeys, Relabels
<1>2. CallOK(w, used) /\ Holds(w, rows, tier, raced) /\ tier \in SoundTier
  BY <1>1 DEF KeysInv, KeysTypes, CallsHold
<1>3. rows \in Tables(used) /\ LabelsUnique(rows) /\ w.seen \in Tables(used)
  BY <1>1, <1>2 DEF KeysTypes, CallOK, CallRec
<1>4. CASE ~LabelsUnique(new)
  <2>1. Move(c, Idle) /\ rows' = rows /\ raced' = raced
    BY <1>4 DEF SaveKeys
  <2> QED
    BY <1>1, <2>1, ToIdle
<1>5. CASE LabelsUnique(new)
  <2>1. WriteKeys(c, new, n)
    BY <1>5 DEF SaveKeys
  <2>2. w.job \in {"connect", "discover", "reorder", "rename", "disconnect", "renumber"}
    BY <1>1, <1>2 DEF CallOK, Place
  <2>3. /\ new \in Tables(used) /\ DOMAIN new = DOMAIN w.seen \cup DOMAIN rows
        /\ \A k \in DOMAIN w.seen : new[k] = w.seen[k]
        /\ \A k \in DOMAIN rows \ DOMAIN w.seen : new[k] = rows[k]
    <3>1. Saved(rows, w.seen) \in Tables(used)
      BY <1>3, SavedTable
    <3> QED
      BY <3>1 DEF Saved
  <2>4. /\ CallOK(n, used)
        /\ w.job \notin {"rename", "connect"} => n = Idle
        /\ w.job = "connect" => /\ n.job = "discover" /\ n.at = "save" /\ n.seen = w.seen
        /\ w.job = "rename" => /\ n.job = "rename" /\ n.at = "relabel" /\ n.seen = w.seen
                               /\ n.target = w.target /\ n.was = w.was
                               /\ n.late = w.late \ {"keys"}
    <3>1. CASE w.job = "rename"
      <4>1. "relabel" \in Steps /\ Place(w.job, "relabel")
        BY <3>1 DEF Steps, Place
      <4>2. Went(Advanced(w, "relabel", "keys"), used, w, "relabel", w.seen, w.draft,
                 w.late \ {"keys"})
        BY <1>2, <3>1, <4>1, AdvancedIs
      <4>3. n = Advanced(w, "relabel", "keys")
        BY <3>1 DEF AfterSave, Advanced
      <4> HIDE DEF n
      <4> QED
        BY <3>1, <4>2, <4>3 DEF Went
    <3>2. CASE w.job = "connect"
      <4>1. n = Discovering(w)
        BY <3>2 DEF AfterSave, Discovering
      <4> HIDE DEF n
      <4> QED
        BY <1>1, <1>2, <3>2, <4>1, DiscoveringIs
    <3>3. CASE w.job \notin {"rename", "connect"}
      <4>1. n = Idle
        BY <3>3 DEF AfterSave
      <4> HIDE DEF n
      <4> QED
        BY <3>3, <4>1, IdleIs
    <3> QED
      BY <3>1, <3>2, <3>3
  <2> HIDE DEF n
  <2>5. rows' = new /\ raced' = raced \cup Behind(c, "keys") /\ Became(c, n)
    BY <1>1, <2>1, WriteKeysIs
  <2> HIDE DEF new
  <2>6. KeysTypes'
    BY <1>1, <1>2, <1>5, <2>3, <2>4, <2>5, RowsAre, TypesKept
  <2>7. Others(c) /\ call'[c] = n
    BY <2>5 DEF Became
  <2>8. Holds(n, rows', tier', raced')
    <3>1. CASE w.job = "rename"
      BY <2>4, <3>1 DEF Holds, Revives, KeysHeld, TierHeld, Checked, Clears
    <3>2. CASE w.job = "connect"
      <4>1. \A k \in DOMAIN n.seen : n.seen[k] = new[k]
        BY <2>3, <2>4, <3>2
      <4>2. \A k \in DOMAIN n.seen : n.seen[k].active
        BY <1>2, <2>4, <3>2 DEF Holds, Revives
      <4> QED
        BY <2>4, <2>5, <3>2, <4>1, <4>2 DEF Holds, Revives, KeysHeld, SavesHeld, TierHeld, Checked, Clears
    <3>3. CASE w.job \notin {"rename", "connect"}
      BY <2>4, <3>3, IdleHolds
    <3> QED
      BY <3>1, <3>2, <3>3
  <2>9. raced' \subseteq {Unranked} =>
          /\ w.late = {} /\ raced' = raced /\ raced \subseteq {Unranked}
          /\ \A d \in Callers \ {c} : ~Relabels(call[d]) /\ ~Relabels(call'[d])
          /\ SavesHeld(w, rows)
    <3>1. SUFFICES ASSUME raced' \subseteq {Unranked}
                   PROVE  /\ w.late = {} /\ raced' = raced /\ raced \subseteq {Unranked}
                          /\ \A d \in Callers \ {c} : ~Relabels(call[d]) /\ ~Relabels(call'[d])
                          /\ SavesHeld(w, rows)
      OBVIOUS
    <3>2. /\ w.late = {} /\ raced' = raced /\ raced \subseteq {Unranked}
          /\ \A d \in Callers \ {c} : ~Relabels(call[d]) /\ ~Relabels(call'[d])
      BY <1>1, <2>5, <2>7, <3>1, WriteUnexcused
    <3>3. SavesHeld(w, rows)
      BY <1>1, <1>2, <3>2 DEF Holds, Revives, KeysHeld
    <3> QED
      BY <3>2, <3>3
  <2>10. raced' \subseteq {Unranked} =>
           \A r \in Routes(tier) : Keyed(r) =>
             r.key \in Active(rows) /\ rows[r.key].label = r.pin
    BY <1>1, <2>9, PinIsName DEF RoutesHold
  <2>11. CASE w.job = "rename"
    <3>1. raced' \subseteq {Unranked} =>
            /\ w.target \in DOMAIN rows /\ DOMAIN new = DOMAIN rows
            /\ new[w.target].label = w.seen[w.target].label
            /\ w.was = rows[w.target].label /\ new[w.target].label # w.was
            /\ new[w.target].active = rows[w.target].active
            /\ \A k \in DOMAIN rows \ {w.target} : new[k] = rows[k]
      BY <2>3, <2>9, <2>11 DEF SavesHeld
    <3>2. raced' \subseteq {Unranked} => Active(new) = Active(rows)
      BY <3>1 DEF Active
    <3>3. n.late = {} <=> w.late \subseteq {"keys"}
      BY <2>4, <2>11
    <3>4. To(n) = w.seen[w.target].label /\ Relabels(n)
      BY <2>4, <2>11 DEF To, Relabels
    <3>5. RenameAlone'
      <4>1. SUFFICES ASSUME raced' \subseteq {Unranked}, NEW d \in Callers, Relabels(call'[d])
                     PROVE  /\ call'[d].late = {}
                            /\ \A e \in Callers \ {d} : ~Relabels(call'[e])
                            /\ call'[d].target \in DOMAIN new
                            /\ new[call'[d].target].label = To(call'[d])
                            /\ \A k \in DOMAIN new : new[k].label # call'[d].was
        BY <2>5 DEF RenameAlone, Relabels, To, Unranked
      <4>2. d = c /\ n.late = {} /\ n.target = w.target /\ n.was = w.was
        BY <2>4, <2>9, <2>11, <3>3, <4>1
      <4>3. \A k \in DOMAIN new : new[k].label # w.was
        BY <1>3, <3>1, <4>1 DEF LabelsUnique
      <4> QED
        BY <2>7, <2>9, <3>1, <3>4, <4>1, <4>2, <4>3
    <3>6. PinsHeld'
      <4>1. SUFFICES ASSUME raced' \subseteq {Unranked}, NEW r \in Routes(tier), Keyed(r)
                     PROVE  /\ r.key \in Active(new)
                            /\ \/ new[r.key].label = r.pin
                               \/ \E d \in Callers : /\ Relabels(call'[d])
                                                     /\ call'[d].target = r.key
                                                     /\ call'[d].was = r.pin
        BY <1>1, <2>5 DEF PinsHeld, Relabels, Unranked, Active, Routes
      <4>2. r.key \in Active(rows) /\ r.key \in DOMAIN rows /\ rows[r.key].label = r.pin
        BY <2>10, <4>1 DEF Active
      <4>3. r.key \in Active(new)
        BY <3>2, <4>1, <4>2
      <4>4. CASE r.key # w.target
        BY <3>1, <4>1, <4>2, <4>3, <4>4
      <4>5. CASE r.key = w.target
        <5>1. Relabels(call'[c]) /\ call'[c].target = r.key /\ call'[c].was = r.pin
          BY <2>4, <2>7, <2>11, <3>1, <3>4, <4>1, <4>2, <4>5
        <5> QED
          BY <4>3, <5>1
      <4> QED
        BY <4>4, <4>5
    <3>7. NoOrphan'
      BY <1>1, <2>5, <2>9, <3>2, OrphanNow DEF RoutesHold, NoOrphan
    <3>8. RoutesHold'
      BY <3>5, <3>6, <3>7 DEF RoutesHold
    <3> QED
      BY <2>5, <2>6, <2>7, <2>8, <3>8, InvKept
  <2>12. CASE w.job # "rename"
    <3>1. raced' \subseteq {Unranked} => \A d \in Callers : ~Relabels(call'[d])
      <4>1. ~Relabels(n)
        BY <2>4, <2>12, IdleHolds DEF Relabels
      <4> QED
        BY <2>7, <2>9, <4>1
    <3>2. raced' \subseteq {Unranked} =>
            \A k \in DOMAIN rows : k \in DOMAIN new /\ new[k].label = rows[k].label
      BY <2>3, <2>9, <2>12 DEF SavesHeld
    <3>3. raced' \subseteq {Unranked} /\ w.job # "disconnect" => Active(rows) \subseteq Active(new)
      <4>1. SUFFICES ASSUME raced' \subseteq {Unranked}, w.job # "disconnect",
                            NEW k \in Active(rows)
                     PROVE  k \in DOMAIN new /\ new[k].active
        BY DEF Active
      <4>2. k \in DOMAIN rows /\ rows[k].active
        BY DEF Active
      <4>3. k \in DOMAIN w.seen => w.seen[k].active
        BY <1>2, <2>2, <2>9, <2>12, <4>1 DEF SavesHeld, Holds, Revives
      <4> QED
        BY <2>3, <4>2, <4>3
    <3>4. w.job = "disconnect" /\ raced' \subseteq {Unranked} =>
            /\ \A r \in Routes(tier) : ~Keyed(r)
            /\ raced' = {} => \A r \in Routes(tier) : r.key = Nobody
      BY <1>1, <1>2, <2>9 DEF Holds, Revives, Checked, Clears
    <3>5. raced' \subseteq {Unranked} =>
            \A r \in Routes(tier') : Keyed(r) =>
              r.key \in Active(rows') /\ rows'[r.key].label = r.pin
      <4>1. SUFFICES ASSUME raced' \subseteq {Unranked}, NEW r \in Routes(tier), Keyed(r)
                     PROVE  r.key \in Active(new) /\ new[r.key].label = r.pin
        BY <1>1, <2>5
      <4>2. r.key \in Active(rows) /\ r.key \in DOMAIN rows /\ rows[r.key].label = r.pin
        BY <2>10, <4>1 DEF Active
      <4>3. w.job # "disconnect"
        BY <3>4, <4>1
      <4> QED
        BY <3>2, <3>3, <4>1, <4>2, <4>3
    <3>6. raced' = {} /\ Active(rows') = {} => \A r \in Routes(tier') : r.key = Nobody
      BY <1>1, <2>5, <2>9, <3>3, <3>4 DEF RoutesHold, NoOrphan
    <3>7. RoutesHold'
      BY <3>1, <3>5, <3>6, NoRename, PinsNow, OrphanNow DEF RoutesHold
    <3> QED
      BY <2>5, <2>6, <2>7, <2>8, <3>7, InvKept
  <2> QED
    BY <2>11, <2>12
<1> QED
  BY <1>4, <1>5

-----------------------------------------------------------------------------
(* The start.                                                              *)

LEMMA EarlierCount ==
  ASSUME NEW ids \in SUBSET Ids, NEW k \in ids
  PROVE  Cardinality({j \in ids : j < k}) \in 0 .. (Cardinality(ids) - 1)
<1> DEFINE S == {j \in ids : j < k}
<1>1. IsFiniteSet(ids) /\ Cardinality(ids) \in Nat
  BY IdsCount
<1>2. S \subseteq ids \ {k}
  <2>1. k \in Nat
    BY KeysAssumption
  <2>2. ~(k < k)
    BY <2>1
  <2> QED
    BY <2>2
<1>3. IsFiniteSet(ids \ {k}) /\ Cardinality(ids \ {k}) = Cardinality(ids) - 1
  BY <1>1, FS_RemoveElement
<1>4. Cardinality(S) <= Cardinality(ids \ {k}) /\ IsFiniteSet(S)
  BY <1>2, <1>3, FS_Subset
<1>5. Cardinality(S) \in Nat
  BY <1>4, FS_CardinalityType
<1> HIDE DEF S
<1>6. Cardinality(S) \in 0 .. (Cardinality(ids) - 1)
  BY <1>1, <1>3, <1>4, <1>5
<1> QED
  BY <1>6 DEF S

LEMMA InitHolds == Init => KeysInv
<1> SUFFICES ASSUME Init PROVE KeysInv
  OBVIOUS
<1>1. PICK ids \in FirstIds, l \in [Ids -> Labels], on \in [Ids -> BOOLEAN] :
        /\ rows = [k \in ids |-> [label |-> l[k], active |-> on[k],
                                  priority |-> Cardinality({j \in ids : j < k})]]
        /\ LabelsUnique(rows) /\ used = ids
  BY DEF Init
<1>2. PICK over \in {{}} \cup {{r} : r \in RoutesTo(rows)}, fb \in SUBSET RoutesTo(rows) :
        tier = [over |-> over, fb |-> fb] /\ \A r \in over \cup fb : r.key # Nobody
  BY DEF Init
<1>3. call = [c \in Callers |-> Idle] /\ raced = {}
  BY DEF Init
<1>4. DOMAIN rows = ids /\ rows = [k \in DOMAIN rows |-> rows[k]] /\ ids \subseteq Ids
  BY <1>1, KeysAssumption
<1>5. \A k \in ids : rows[k] \in Row(Cardinality(ids)) /\ rows[k].label \in Labels
  <2>1. SUFFICES ASSUME NEW k \in ids
                 PROVE  rows[k] \in Row(Cardinality(ids)) /\ rows[k].label \in Labels
    OBVIOUS
  <2> DEFINE p == Cardinality({j \in ids : j < k})
  <2>2. p \in 0 .. (Cardinality(ids) - 1)
    BY <1>4, EarlierCount
  <2>3. rows[k] = [label |-> l[k], active |-> on[k], priority |-> p]
    BY <1>1
  <2>4. l[k] \in Labels /\ on[k] \in BOOLEAN
    BY <1>1, <1>4
  <2> HIDE DEF p
  <2> QED
    BY <2>2, <2>3, <2>4 DEF Row
<1>6. rows \in Tables(used)
  <2>1. /\ DOMAIN rows \subseteq ids
        /\ \A k \in DOMAIN rows : rows[k] \in Row(Cardinality(ids))
    BY <1>4, <1>5
  <2>2. rows \in Tables(ids)
    BY <1>4, <2>1, TableIs
  <2> QED
    BY <1>1, <2>2
<1>7. call = [c \in Callers |-> call[c]] /\ \A c \in Callers : call[c] = Idle
  BY <1>3
<1>8. \A k \in Active(rows) : k \in Ids
  BY <1>4 DEF Active
<1>9. \A r \in RoutesTo(rows) : r \in SoundRoute /\ Fits(r, rows)
  BY <1>8, RoutesAre
<1>10. Routes(tier) \subseteq RoutesTo(rows) /\ \A r \in Routes(tier) : r.key # Nobody
  BY <1>2 DEF Routes
<1>11. tier \in SoundTier
  <2>1. over \in SUBSET SoundRoute /\ fb \in SUBSET SoundRoute
    BY <1>2, <1>9
  <2> QED
    BY <1>2, <2>1 DEF SoundTier
<1>12. KeysTypes
  <2>1. \A c \in Callers : CallOK(call[c], used)
    BY <1>7, IdleIs
  <2> QED
    BY <1>1, <1>4, <1>6, <1>7, <1>11, <2>1 DEF KeysTypes
<1>13. CallsHold
  BY <1>7, IdleHolds DEF CallsHold
<1>14. RenameAlone
  BY <1>7, IdleHolds DEF RenameAlone
<1>15. PinsHeld
  BY <1>9, <1>10 DEF PinsHeld, Fits
<1>16. NoOrphan
  BY <1>9, <1>10 DEF NoOrphan, Fits
<1> QED
  BY <1>12, <1>13, <1>14, <1>15, <1>16 DEF KeysInv, RoutesHold

LEMMA StutterKeeps ==
  ASSUME KeysInv, UNCHANGED vars
  PROVE  KeysInv'
<1>1. /\ rows' = rows /\ tier' = tier /\ call' = call /\ used' = used /\ raced' = raced
  BY DEF vars
<1>2. KeysTypes'
  <2>1. \A c \in Callers : CallOK(call'[c], used')
    BY <1>1 DEF KeysInv, KeysTypes
  <2>2. \A c \in Callers : CallOK(call[c], used)'
    BY <2>1 DEF CallOK, CallRec, Tables, Row
  <2>3. /\ used' \subseteq Ids /\ rows' \in Tables(used') /\ LabelsUnique(rows')
        /\ tier' \in SoundTier /\ call' = [c \in Callers |-> call'[c]]
    BY <1>1 DEF KeysInv, KeysTypes
  <2>4. LabelsUnique(rows)'
    BY <2>3 DEF LabelsUnique
  <2> QED
    BY <2>2, <2>3, <2>4 DEF KeysTypes, SoundTier, SoundRoute, Tables, Row
<1>3. CallsHold'
  <2>1. \A c \in Callers : Holds(call'[c], rows', tier', raced')
    BY <1>1 DEF KeysInv, CallsHold
  <2> QED
    BY <2>1 DEF CallsHold, Holds, Revives, KeysHeld, SavesHeld, RemovesHeld, ChecksHeld, TierHeld,
                Checked, Clears, To, Active, Relabelled, Routes, Keyed,
                Unranked
<1>4. RoutesHold'
  BY <1>1 DEF KeysInv, RoutesHold, RenameAlone, PinsHeld, NoOrphan, Relabels, To, Active,
              Routes, Unranked
<1> QED
  BY <1>2, <1>3, <1>4 DEF KeysInv

(* Whatever the dashboard's requests do, in any order and broken off       *)
(* anywhere (ProviderService, TierService), what each still knows of the   *)
(* keys and of the tier holds, and the routes have their keys.             *)
THEOREM KeysInvariance == Spec => []KeysInv
<1>1. Init => KeysInv
  BY InitHolds
<1>2. ASSUME KeysInv, [Next]_vars PROVE KeysInv'
  <2>1. CASE UNCHANGED vars
    BY <1>2, <2>1, StutterKeeps
  <2>2. CASE Next
    <3>1. PICK c \in Callers :
            \/ Connect(c) \/ Refresh(c) \/ Rename(c) \/ Reorder(c) \/ SaveKeys(c)
            \/ RelabelRead(c) \/ RelabelSave(c)
            \/ Disconnect(c) \/ RemoveKey(c) \/ Reread(c)
            \/ CheckRoutes(c) \/ Delete(c) \/ Renumber(c)
            \/ SetOverride(c) \/ ReadTier(c) \/ SetFallbacks(c) \/ CheckFallbacks(c)
            \/ EditTier(c) \/ StoreTier(c) \/ ResetTier(c)
            \/ Abandon(c)
      BY <2>2 DEF Next
    <3>2. CASE Connect(c) \/ Refresh(c)
      BY <1>2, <3>2, ConnectKnownKeeps, ConnectNewKeeps, RefreshKeeps DEF Connect
    <3>3. CASE Rename(c) \/ Reorder(c) \/ SaveKeys(c)
      BY <1>2, <3>3, RenameKeeps, ReorderKeeps, SaveKeysKeeps
    <3>4. CASE RelabelRead(c) \/ RelabelSave(c) \/ Abandon(c)
      BY <1>2, <3>4, RelabelReadKeeps, RelabelSaveKeeps, AbandonKeeps
    <3>5. CASE Disconnect(c) \/ RemoveKey(c) \/ Reread(c)
      BY <1>2, <3>5, DisconnectKeeps, RemoveKeyKeeps, RereadKeeps
    <3>6. CASE CheckRoutes(c) \/ Delete(c) \/ Renumber(c)
      BY <1>2, <3>6, CheckRoutesKeeps, DeleteKeeps, RenumberKeeps
    <3>7. CASE SetOverride(c) \/ ReadTier(c) \/ SetFallbacks(c) \/ CheckFallbacks(c)
      BY <1>2, <3>7, SetOverrideKeeps, ReadTierKeeps, SetFallbacksKeeps, CheckFallbacksKeeps
    <3>8. CASE EditTier(c) \/ StoreTier(c) \/ ResetTier(c)
      BY <1>2, <3>8, EditTierKeeps, StoreTierKeeps, ResetTierKeeps
    <3> QED
      BY <3>1, <3>2, <3>3, <3>4, <3>5, <3>6, <3>7, <3>8
  <2> QED
    BY <1>2, <2>1, <2>2
<1> QED
  BY <1>1, <1>2, PTL DEF Spec

(* Ids, names and priorities stay in their ranges, no two keys share a     *)
(* name, and every call is at a statement of its job.                      *)
THEOREM TypeCorrect == Spec => []TypeOK
<1>1. KeysInv => TypeOK
  <2>1. SUFFICES ASSUME KeysTypes PROVE TypeOK
    BY DEF KeysInv
  <2>2. /\ used \subseteq Ids /\ IsFiniteSet(Ids) /\ LabelsUnique(rows) /\ tier \in SoundTier
        /\ \A c \in Callers : Place(call[c].job, call[c].at)
    BY <2>1, KeysAssumption DEF KeysTypes, CallOK
  <2>3. /\ Cardinality(used) \in Nat /\ Cardinality(Ids) \in Nat
        /\ Cardinality(used) <= Cardinality(Ids)
    BY <2>2, IdsCount, FS_CardinalityType, FS_Subset
  <2>4. \A k \in DOMAIN rows : rows[k].priority \in 0 .. Cardinality(Ids)
    BY <2>1, <2>3, RowsAre
  <2>5. tier \in Tier
    <3>1. SoundRoute \subseteq Route
      BY DEF SoundRoute
    <3> QED
      BY <2>2, <3>1 DEF SoundTier, Tier
  <2>6. \A c \in Callers : call[c].job = "none" <=> call[c].at = "none"
    BY <2>2 DEF Place
  <2> QED
    BY <2>1, <2>2, <2>4, <2>5, <2>6, RowsAre DEF TypeOK
<1> QED
  BY <1>1, KeysInvariance, PTL

(* A route that had a key when its edit was checked is left without one    *)
(* only in the ways "raced" names, for any number of requests, keys and    *)
(* names (assertProviderRoutesNotUsed).                                    *)
THEOREM NoOrphanUnexplained == Spec => []OrphansExplained
<1>1. KeysInv => OrphansExplained
  BY DEF KeysInv, RoutesHold, NoOrphan, OrphansExplained
<1> QED
  BY <1>1, KeysInvariance, PTL

(* A pinned route is served with the key that had the name when its edit   *)
(* was checked, if one had it (setOverride, setFallbacks, relabelOverrides,*)
(* selectProviderKey), for any number of keys, names and requests.         *)
THEOREM ChosenKeyServes == Spec => []PinnedKeyServes
<1>1. KeysInv => PinnedKeyServes
  <2>1. SUFFICES ASSUME KeysInv, \A c \in Callers : ~Relabelling(c), raced \subseteq {Unranked},
                        NEW r \in Routes(tier), r.key \in Ids
                 PROVE  Select(rows, r.pin) = r.key
    BY DEF PinnedKeyServes
  <2>2. r \in SoundRoute
    BY <2>1 DEF KeysInv, KeysTypes, SoundTier, Routes
  <2>3. Keyed(r)
    BY <2>1, <2>2, KeysAssumption DEF SoundRoute, Keyed
  <2>4. r.key \in Active(rows) /\ rows[r.key].label = r.pin
    BY <2>1, <2>3, PinIsName DEF KeysInv, RoutesHold, Relabelling, Relabels
  <2>5. r.key \in Named(rows, r.pin)
    BY <2>4 DEF Named
  <2>6. \A k \in Named(rows, r.pin) : k = r.key
    BY <2>1, <2>4 DEF KeysInv, KeysTypes, LabelsUnique, Active, Named
  <2>7. Select(rows, r.pin) \in Named(rows, r.pin)
    BY <2>5 DEF Select
  <2> QED
    BY <2>6, <2>7
<1> QED
  BY <1>1, KeysInvariance, PTL

-----------------------------------------------------------------------------
(* The first key.                                                          *)

LEMMA SomeLeast ==
  ASSUME NEW S \in SUBSET Nat, S # {}
  PROVE  \E m \in S : \A n \in S : m <= n
<1>1. PICK m \in S : \A n \in S : ~(<<n, m>> \in OpToRel(<, Nat))
  BY NatLessThanWellFounded, WFMin
<1>2. ASSUME NEW n \in S PROVE m <= n
  <2>1. m \in Nat /\ n \in Nat
    OBVIOUS
  <2>2. ~(n < m)
    BY <1>1, <2>1 DEF OpToRel
  <2> QED
    BY <2>1, <2>2
<1> QED
  BY <1>2

LEMMA SomeFirst ==
  ASSUME KeysTypes, Active(rows) # {}
  PROVE  \E k \in Active(rows) : \A j \in Active(rows) \ {k} : Before(rows, k, j)
<1>1. \A k \in Active(rows) : k \in Nat /\ rows[k].priority \in Nat
  <2>1. /\ Cardinality(used) \in Nat
        /\ \A k \in DOMAIN rows : k \in Ids /\ rows[k].priority \in 0 .. (Cardinality(used) - 1)
    BY RowsAre
  <2>2. \A k \in DOMAIN rows : rows[k].priority \in Nat
    BY <2>1
  <2>3. \A k \in DOMAIN rows : k \in Nat
    BY <2>1, KeysAssumption
  <2> QED
    BY <2>2, <2>3 DEF Active
<1> DEFINE P == {rows[k].priority : k \in Active(rows)}
<1>2. P \in SUBSET Nat /\ P # {}
  BY <1>1
<1>3. PICK p \in P : \A q \in P : p <= q
  BY <1>2, SomeLeast
<1> DEFINE Low == {k \in Active(rows) : rows[k].priority = p}
<1>4. Low \in SUBSET Nat /\ Low # {}
  BY <1>1, <1>3
<1> HIDE DEF Low
<1>5. PICK k \in Low : \A j \in Low : k <= j
  BY <1>4, SomeLeast
<1>6. k \in Active(rows) /\ rows[k].priority = p
  BY <1>5 DEF Low
<1>7. ASSUME NEW j \in Active(rows) \ {k} PROVE Before(rows, k, j)
  <2>1. rows[j].priority \in P /\ rows[j].priority \in Nat /\ p <= rows[j].priority
    BY <1>1, <1>3
  <2>2. CASE rows[j].priority = p
    <3>1. j \in Low /\ k <= j /\ j # k
      BY <1>5, <2>2 DEF Low
    <3>2. k < j
      BY <1>1, <1>6, <3>1
    <3> QED
      BY <1>6, <2>2, <3>2 DEF Before
  <2>3. CASE rows[j].priority # p
    <3>1. p \in Nat
      BY <1>2
    <3>2. p < rows[j].priority
      BY <2>1, <2>3, <3>1
    <3> QED
      BY <1>6, <3>2 DEF Before
  <2> QED
    BY <2>2, <2>3
<1> QED
  BY <1>6, <1>7

LEMMA FirstIs ==
  ASSUME NEW rs, \A k \in Active(rs) : k \in Nat /\ rs[k].priority \in Nat,
         NEW k \in Active(rs), \A j \in Active(rs) \ {k} : Before(rs, k, j)
  PROVE  First(rs) = k
<1> DEFINE Leads(x) == \A j \in Active(rs) \ {x} : Before(rs, x, j)
<1>1. First(rs) = CHOOSE x \in Active(rs) : Leads(x)
  BY DEF First
<1>2. \A x \in Active(rs) : Leads(x) => x = k
  BY DEF Before
<1>3. Leads(k)
  OBVIOUS
<1> HIDE DEF Leads
<1> QED
  BY <1>1, <1>2, <1>3

(* A save that keeps the order of the active keys keeps the first one.     *)
LEMMA SameOrder ==
  ASSUME KeysTypes, NEW rs, Active(rs) = Active(rows), Active(rows) # {},
         \A k \in Active(rs) : rs[k].priority \in Nat,
         \A j, k \in Active(rows) : j # k /\ Before(rows, j, k) => Before(rs, j, k)
  PROVE  First(rs) = First(rows)
<1>1. PICK k \in Active(rows) : \A j \in Active(rows) \ {k} : Before(rows, k, j)
  BY SomeFirst
<1>2. \A j \in Active(rows) : j \in Nat /\ rows[j].priority \in Nat
  <2>1. /\ Cardinality(used) \in Nat
        /\ \A j \in DOMAIN rows : j \in Ids /\ rows[j].priority \in 0 .. (Cardinality(used) - 1)
    BY RowsAre
  <2>2. \A j \in DOMAIN rows : rows[j].priority \in Nat
    BY <2>1
  <2>3. \A j \in DOMAIN rows : j \in Nat
    BY <2>1, KeysAssumption
  <2> QED
    BY <2>2, <2>3 DEF Active
<1>3. First(rows) = k
  BY <1>1, <1>2, FirstIs
<1>4. \A j \in Active(rs) \ {k} : Before(rs, k, j)
  BY <1>1
<1>5. First(rs) = k
  BY <1>2, <1>4, FirstIs
<1> QED
  BY <1>3, <1>5

LEMMA SaveKeepsFirst ==
  ASSUME NEW c \in Callers, KeysInv, SaveKeys(c), call[c].job \in {"rename", "renumber"},
         Active(rows) # {}, "keys" \notin call[c].late, ~Tied(rows)
  PROVE  First(rows') = First(rows)
<1> DEFINE w   == call[c]
           new == Saved(rows, w.seen)
<1>1. w.at = "save" /\ KeysTypes /\ (rows' = rows \/ rows' = new)
  BY DEF SaveKeys, WriteKeys, KeysInv
<1>2. CallOK(w, used) /\ Holds(w, rows, tier, raced)
  BY <1>1 DEF KeysInv, KeysTypes, CallsHold
<1>3. SavesHeld(w, rows)
  BY <1>1, <1>2 DEF Holds, Revives, KeysHeld
<1>4. rows \in Tables(used) /\ w.seen \in Tables(used)
  BY <1>1, <1>2 DEF KeysTypes, CallOK, CallRec
<1>5. /\ DOMAIN new = DOMAIN w.seen \cup DOMAIN rows
      /\ \A k \in DOMAIN w.seen : new[k] = w.seen[k]
      /\ \A k \in DOMAIN rows \ DOMAIN w.seen : new[k] = rows[k]
  BY DEF Saved
<1>6. new \in Tables(used)
  BY <1>4, SavedTable
<1> HIDE DEF new
<1>7. \A k \in Active(new) : new[k].priority \in Nat
  <2>1. \A k \in DOMAIN new : new[k] \in Row(Cardinality(used))
    BY <1>6, TableIs
  <2>2. Cardinality(used) \in Nat
    BY <1>1, RowsAre
  <2> QED
    BY <2>1, <2>2 DEF Active, Row
<1>8. CASE w.job = "rename"
  <2>1. /\ DOMAIN new = DOMAIN rows
        /\ \A k \in DOMAIN rows : /\ new[k].active = rows[k].active
                                  /\ new[k].priority = rows[k].priority
    BY <1>3, <1>5, <1>8 DEF SavesHeld
  <2>2. Active(new) = Active(rows)
    BY <2>1 DEF Active
  <2>3. \A j, k \in Active(rows) : Before(rows, j, k) => Before(new, j, k)
    BY <2>1 DEF Active, Before
  <2>4. First(new) = First(rows)
    BY <1>1, <1>7, <2>2, <2>3, SameOrder
  <2> QED
    BY <1>1, <2>4
<1>9. CASE w.job = "renumber"
  <2>1. /\ DOMAIN w.seen = Active(rows) /\ \A k \in Active(rows) : w.seen[k].active
        /\ \A j, k \in Active(rows) :
             rows[j].priority < rows[k].priority => w.seen[j].priority < w.seen[k].priority
    BY <1>3, <1>9 DEF SavesHeld
  <2>2. \A k \in DOMAIN new : k \in Active(rows) \/ (k \in DOMAIN rows /\ new[k] = rows[k])
    BY <1>5, <2>1
  <2>3. \A k \in Active(rows) : k \in DOMAIN new /\ new[k].active
    BY <1>5, <2>1
  <2>4. Active(new) = Active(rows)
    BY <2>2, <2>3 DEF Active
  <2>5. ASSUME NEW j \in Active(rows), NEW k \in Active(rows), j # k, Before(rows, j, k)
        PROVE  Before(new, j, k)
    <3>1. rows[j].priority # rows[k].priority
      BY <2>5 DEF Tied
    <3>2. new[j].priority < new[k].priority
      BY <1>5, <2>1, <2>5, <3>1 DEF Before
    <3> QED
      BY <3>2 DEF Before
  <2>6. First(new) = First(rows)
    BY <1>1, <1>7, <2>4, <2>5, SameOrder
  <2> QED
    BY <1>1, <2>6
<1> QED
  BY <1>8, <1>9

(* Only the call itself leaves its save.                                   *)
LEMMA MoveLeaves ==
  ASSUME NEW c \in Callers, NEW d \in Callers, c # d, KeysTypes, NEW w, NEW table,
         Move(d, w) \/ Wrote(d, table, w)
  PROVE  call'[c].at = call[c].at
<1>1. CASE Move(d, w)
  BY <1>1 DEF Move, KeysTypes
<1>2. CASE Wrote(d, table, w)
  <2>1. call'[c] = call[c] \/ call'[c] = [call[c] EXCEPT !.late = @ \cup {table}]
    BY <1>2 DEF Wrote
  <2>2. call[c] \in CallRec(used)
    BY DEF KeysTypes, CallOK
  <2> QED
    BY <2>1, <2>2 DEF CallRec
<1> QED
  BY <1>1, <1>2

Moves(d) ==
  \E w : \/ Move(d, w)
         \/ \E table \in {"keys", "tier"} : Wrote(d, table, w)

LEMMA EveryStepMoves ==
  ASSUME NEW d \in Callers,
         \/ Connect(d) \/ Refresh(d) \/ Rename(d) \/ Reorder(d) \/ SaveKeys(d)
         \/ RelabelRead(d) \/ RelabelSave(d)
         \/ Disconnect(d) \/ RemoveKey(d) \/ Reread(d)
         \/ CheckRoutes(d) \/ Delete(d) \/ Renumber(d)
         \/ SetOverride(d) \/ ReadTier(d) \/ SetFallbacks(d) \/ CheckFallbacks(d)
         \/ EditTier(d) \/ StoreTier(d) \/ ResetTier(d)
         \/ Abandon(d)
  PROVE  Moves(d)
<1>1. CASE Connect(d) \/ Refresh(d) \/ Reorder(d) \/ Disconnect(d)
  BY <1>1 DEF Connect, ConnectKnown, ConnectNew, Refresh, Reorder, Disconnect, Start, Moves
<1>2. CASE SetOverride(d) \/ SetFallbacks(d) \/ EditTier(d)
  BY <1>2 DEF SetOverride, SetFallbacks, EditTier, Start, Moves
<1>3. CASE Rename(d) \/ RemoveKey(d) \/ Reread(d) \/ Abandon(d)
  BY <1>3 DEF Rename, RemoveKey, Reread, Abandon, Moves
<1>4. CASE RelabelRead(d) \/ ReadTier(d) \/ CheckRoutes(d)
  BY <1>4 DEF RelabelRead, ReadTier, CheckRoutes, Moves
<1>5. CASE Renumber(d) \/ CheckFallbacks(d)
  BY <1>5 DEF Renumber, CheckFallbacks, Moves
<1>6. CASE SaveKeys(d) \/ Delete(d)
  BY <1>6 DEF SaveKeys, Delete, WriteKeys, Moves
<1>7. CASE RelabelSave(d) \/ StoreTier(d) \/ ResetTier(d)
  BY <1>7 DEF RelabelSave, StoreTier, ResetTier, WriteTier, Moves
<1> QED
  BY <1>1, <1>2, <1>3, <1>4, <1>5, <1>6, <1>7

(* For any number of keys and requests: a rename, or the renumbering after *)
(* a removal, leaves the key that serves unpinned routes where it was      *)
(* (renameKey, reindexPriorities, selectProviderKey), if the keys did not  *)
(* change meanwhile and no two share a priority.                           *)
THEOREM FirstKeyKept == Spec => FirstKept
<1> DEFINE Kept == \A c \in Callers :
                     /\ call[c].job \in {"rename", "renumber"} /\ call[c].at = "save"
                     /\ call'[c].at # "save" /\ Active(rows) # {}
                     /\ "keys" \notin call[c].late /\ ~Tied(rows)
                     => First(rows') = First(rows)
<1>1. ASSUME KeysInv, Next PROVE Kept
  <2>1. SUFFICES ASSUME NEW c \in Callers, call[c].job \in {"rename", "renumber"},
                        call[c].at = "save", call'[c].at # "save", Active(rows) # {},
                        "keys" \notin call[c].late, ~Tied(rows)
                 PROVE  First(rows') = First(rows)
    OBVIOUS
  <2>2. PICK d \in Callers :
          \/ Connect(d) \/ Refresh(d) \/ Rename(d) \/ Reorder(d) \/ SaveKeys(d)
          \/ RelabelRead(d) \/ RelabelSave(d)
          \/ Disconnect(d) \/ RemoveKey(d) \/ Reread(d)
          \/ CheckRoutes(d) \/ Delete(d) \/ Renumber(d)
          \/ SetOverride(d) \/ ReadTier(d) \/ SetFallbacks(d) \/ CheckFallbacks(d)
          \/ EditTier(d) \/ StoreTier(d) \/ ResetTier(d)
          \/ Abandon(d)
    BY <1>1 DEF Next
  <2>3. d = c
    <3>1. Moves(d)
      BY <2>2, EveryStepMoves
    <3> QED
      BY <1>1, <2>1, <3>1, MoveLeaves DEF Moves, KeysInv
  <2>4. CASE SaveKeys(c)
    BY <1>1, <2>1, <2>4, SaveKeepsFirst
  <2>5. CASE Abandon(c)
    BY <2>5 DEF Abandon
  <2>6. ~(Connect(c) \/ Refresh(c) \/ Reorder(c) \/ Disconnect(c) \/ SetOverride(c)
          \/ SetFallbacks(c) \/ EditTier(c) \/ Rename(c) \/ RemoveKey(c) \/ ResetTier(c))
    BY <2>1 DEF Connect, ConnectKnown, ConnectNew, Refresh, Reorder, Disconnect, SetOverride,
                SetFallbacks, EditTier, Start, Rename, RemoveKey, ResetTier
  <2>7. ~(RelabelRead(c) \/ RelabelSave(c) \/ Reread(c) \/ CheckRoutes(c) \/ Delete(c)
          \/ Renumber(c) \/ ReadTier(c) \/ CheckFallbacks(c) \/ StoreTier(c))
    BY <2>1 DEF RelabelRead, RelabelSave, Reread, CheckRoutes, Delete, Renumber, ReadTier,
                CheckFallbacks, StoreTier
  <2> QED
    BY <2>2, <2>3, <2>4, <2>5, <2>6, <2>7
<1>2. ASSUME KeysInv, [Next]_vars PROVE [Kept]_vars
  BY <1>1, <1>2
<1> QED
  BY <1>2, KeysInvariance, PTL DEF Spec, FirstKept
=============================================================================
