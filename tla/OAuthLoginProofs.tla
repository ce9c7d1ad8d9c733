-------------------------- MODULE OAuthLoginProofs --------------------------
(***************************************************************************)
(* Proofs about OAuthLogin, for any number of callers, logins, keys,       *)
(* revocations and refreshes.                                              *)
(***************************************************************************)
EXTENDS OAuthLogin, FiniteSetTheorems, WellFoundedInduction, TLAPS

Grants == {"none", "asked", "approved", "denied", "redeemed"}

Key == [label : Nat \ {0}, login : Logins, active : BOOLEAN]

(* Tables of keys, whole or in part. *)
Tables == UNION {[S -> Key] : S \in SUBSET Logins}

Stages == {"idle", "insert", "found", "exchange", "asking", "label", "lookup",
           "store", "discover", "refresh", "reply"} \union Removing

Calls == [at : Stages, login : Logins \union {None}, flow : Logins \union {None},
          label : Nat, seen : Tables, todo : SUBSET Logins, late : BOOLEAN]

(* One active key, with this label and these tokens. *)
OneCopy(ss, label, login) ==
  /\ \E id \in Logins : DOMAIN ss = {id}
  /\ \A k \in DOMAIN ss :
       ss[k].label = label /\ ss[k].login = login /\ ss[k].active

AllRetired(ss) == \A k \in DOMAIN ss : ~ss[k].active

(* A call that has come to a stage holds what it needs there. *)
Equipped(w) ==
  /\ w.at \in {"found", "exchange", "asking", "label", "lookup", "store", "discover",
               "refresh", "reply"} => w.login \in Logins
  /\ w.at \in {"insert", "found", "exchange"} => w.flow \in Logins
  /\ w.at \in {"lookup", "store"} => w.label # 0
  /\ w.at \in {"store", "discover", "refresh"} => OneCopy(w.seen, w.label, w.login)
  /\ w.at \in {"delete", "deactivate"} => AllRetired(w.seen)

Types ==
  /\ kind \in Kinds
  /\ flows \in [Logins -> Nat]
  /\ grant \in [Logins -> Grants]
  /\ rows \in Tables
  /\ call \in [Callers -> Calls]
  /\ others \in Nat
  /\ sent \in [Logins -> Nat]
  /\ {revoked, told, gone, spared, kept, overlapped, revived} \subseteq SUBSET Logins
  /\ \A c \in Callers : Equipped(call[c])

-----------------------------------------------------------------------------
(* Flows.                                                                  *)

(* A call holds a flow between taking it, or deleting the others for it,   *)
(* and presenting or inserting it. *)
Holds(c, f) == call[c].at \in {"insert", "exchange"} /\ call[c].flow = f

(* Before a flow is presented it is in the store or with one call. *)
FlowOnce ==
  \A f \in Logins :
    /\ sent[f] <= 1
    /\ grant[f] = "none" => sent[f] = 0
    /\ Pending(f) => /\ sent[f] = 0 /\ grant[f] # "none"
                     /\ \A c \in Callers : ~Holds(c, f)
    /\ \A c \in Callers : Holds(c, f) => sent[f] = 0 /\ grant[f] # "none"
    /\ \A c, d \in Callers : Holds(c, f) /\ Holds(d, f) => c = d

-----------------------------------------------------------------------------
(* Keys.                                                                   *)

(* A call carries tokens from redeeming them to storing them. *)
Carries(c, x) == call[c].at \in {"label", "lookup", "store"} /\ call[c].login = x

(* Where a login can be met in a table: as a name or as its tokens. *)
Names(rs) == DOMAIN rs \union {rs[k].login : k \in DOMAIN rs}

Redeemed == {l \in Logins : grant[l] = "redeemed"}

(* Only logins that have been redeemed are met anywhere. *)
OnlyRedeemed ==
  /\ Names(rows) \subseteq Redeemed
  /\ revoked \subseteq Redeemed
  /\ \A c \in Callers : /\ Names(call[c].seen) \subseteq Redeemed
                        /\ call[c].todo \subseteq Redeemed
                        /\ \A x \in Logins : Carries(c, x) => x \in Redeemed

(* Tokens that are being carried are with one call and nowhere else. *)
Fresh ==
  \A c \in Callers, x \in Logins :
    Carries(c, x) =>
      /\ x \notin Names(rows) /\ x \notin revoked
      /\ \A d \in Callers : /\ x \notin call[d].todo
                            /\ d # c => /\ ~Carries(d, x)
                                        /\ x \notin Names(call[d].seen)

(* Copies of a key agree on its label, wherever they are. *)
Agree(rs, ss) == \A k \in DOMAIN rs \intersect DOMAIN ss : rs[k].label = ss[k].label

LabelsAgree ==
  \A c \in Callers : /\ Agree(rows, call[c].seen)
                     /\ \A d \in Callers : Agree(call[c].seen, call[d].seen)

(* The same tokens are active in one key. *)
OneKey ==
  \A j, k \in Active(rows) : rows[j].login = rows[k].login => j = k

(* Tokens that discovery will save again are active in that key only,      *)
(* however many calls will save it. *)
AtHome ==
  \A c \in Callers : call[c].at \in Discovering =>
    /\ \A k \in Active(rows) :
         rows[k].login = call[c].login => k \in DOMAIN call[c].seen
    /\ \A d \in Callers :
         call[d].at \in Discovering /\ call[d].login = call[c].login =>
           DOMAIN call[d].seen = DOMAIN call[c].seen

(* A sign-in that was not overtaken has a label no active key has, and     *)
(* then its key, as a refresh has the key it read. *)
ChosenWell ==
  \A c \in Callers :
    ~call[c].late =>
      /\ call[c].at = "lookup" => \A k \in Active(rows) : rows[k].label # call[c].label
      /\ call[c].at = "store" => \A k \in Active(rows) : k \notin DOMAIN call[c].seen
      /\ call[c].at \in Discovering =>
           \A k \in Active(rows) \intersect DOMAIN call[c].seen :
             rows[k].login = call[c].login

(* What is stored is kept, from the moment of its storing. *)
StoredIsKept ==
  \A c \in Callers : call[c].at \in {"discover", "reply"} =>
    call[c].login \in LoginsOf(rows) \union gone \union overlapped

(* What is on the list of a revocation has its label, also as discovery    *)
(* will save it. *)
ListedByLabel ==
  \A c \in Callers : call[c].at = "revoke" =>
    /\ \A k \in Active(rows) : rows[k].login \in call[c].todo =>
         call[c].label \in {0, rows[k].label}
    /\ \A d \in Callers :
         call[d].at \in Discovering /\ call[d].login \in call[c].todo =>
           call[c].label \in {0, call[d].label}

(* A revocation that was not overtaken has handed back, or has on its      *)
(* list, what it will remove. *)
HandedBackFirst ==
  \A c \in Callers :
    kind = "redirect" /\ ~call[c].late =>
      /\ call[c].at = "revoke" =>
           \A k \in Targets(rows, call[c].label) :
             rows[k].login \in revoked \union spared \union call[c].todo
      /\ call[c].at = "last" =>
           \A k \in Active(rows) : rows[k].login \in revoked \union spared
      /\ call[c].at \in {"delete", "deactivate"} =>
           \A k \in Active(rows) \intersect DOMAIN call[c].seen :
             rows[k].login \in revoked \union spared

(* The revocation c is going to take key k out of service. *)
Takes(c, k) ==
  /\ call[c].label \in {0, rows[k].label}
  /\ \/ call[c].at \in {"revoke", "last"}
     \/ call[c].at \in {"delete", "deactivate"} /\ k \in DOMAIN call[c].seen

HandedBackIsTaken ==
  \A k \in Active(rows) :
    rows[k].login \in revoked =>
      rows[k].login \in kept \union revived \/ \E c \in Callers : Takes(c, k)

KInv ==
  /\ LabelsUnique(rows) /\ OnlyRedeemed /\ Fresh /\ LabelsAgree /\ OneKey
  /\ AtHome /\ ChosenWell /\ StoredIsKept /\ ListedByLabel
  /\ HandedBackFirst /\ HandedBackIsTaken
  /\ KeptSignIn /\ RemovedIsRevoked

IInv == Types /\ FlowOnce /\ KInv
-----------------------------------------------------------------------------
(* Tables and labels.                                                      *)

LEMMA TableFacts ==
  ASSUME NEW rs \in Tables
  PROVE  /\ DOMAIN rs \subseteq Logins
         /\ \A k \in DOMAIN rs : /\ rs[k] \in Key
                                 /\ rs[k].label \in Nat \ {0}
                                 /\ rs[k].login \in Logins
                                 /\ rs[k].active \in BOOLEAN
         /\ Active(rs) \subseteq DOMAIN rs
         /\ LoginsOf(rs) \subseteq Logins
         /\ Names(rs) \subseteq Logins
<1>1. PICK S \in SUBSET Logins : rs \in [S -> Key]
  BY DEF Tables
<1>2. /\ DOMAIN rs \subseteq Logins
      /\ \A k \in DOMAIN rs : rs[k] \in Key
  BY <1>1
<1>3. \A k \in DOMAIN rs : /\ rs[k].label \in Nat \ {0}
                           /\ rs[k].login \in Logins
                           /\ rs[k].active \in BOOLEAN
  BY <1>2 DEF Key
<1> QED BY <1>2, <1>3 DEF Active, LoginsOf, Names

LEMMA EmptyTable ==
  /\ NoKeys \in Tables
  /\ DOMAIN NoKeys = {} /\ Names(NoKeys) = {}
<1>1. NoKeys \in [{} -> Key] /\ DOMAIN NoKeys = {}
  BY DEF NoKeys
<1>2. {} \in SUBSET Logins
  OBVIOUS
<1> QED BY <1>1, <1>2 DEF Tables, Names

(* A set of numbers has a least one. *)
LEMMA LeastNumber ==
  ASSUME NEW T \in SUBSET Nat, T # {}
  PROVE  \E l \in T : \A m \in T : l <= m
<1>1. \E l \in T : \A m \in T : ~ (<<m, l>> \in OpToRel(<, Nat))
  BY NatLessThanWellFounded, WFMin
<1>2. PICK l \in T : \A m \in T : ~ (<<m, l>> \in OpToRel(<, Nat))
  BY <1>1
<1>3. \A m \in T : ~ (m < l)
  BY <1>2 DEF OpToRel
<1>4. \A m \in T : l <= m
  BY <1>3
<1> QED BY <1>4

(* Of 2n + 1 labels, n + 1 are above n: the n active keys cannot have all. *)
LEMMA NextLabelIsFree ==
  ASSUME NEW rs \in Tables
  PROVE  /\ NextLabel(rs) \in Nat \ {0}
         /\ \A k \in Active(rs) : rs[k].label # NextLabel(rs)
<1> DEFINE n    == Cardinality(Active(rs))
           Free == {l \in n + 1 .. 2 * n + 1 :
                      Labelled(rs, l) \intersect Active(rs) = {}}
<1>1. /\ Active(rs) \subseteq Logins
      /\ \A k \in Active(rs) : rs[k].label \in Nat \ {0}
  BY TableFacts
<1>2. IsFiniteSet(Active(rs)) /\ n \in Nat
  BY <1>1, FS_Subset, FS_CardinalityType, LoginAssumption
<1>3. CASE n = 0
  <2>1. Active(rs) = {}
    BY <1>2, <1>3, FS_EmptySet
  <2> QED BY <2>1, <1>3 DEF NextLabel, Default
<1>4. CASE n # 0
  <2> DEFINE f == [k \in Active(rs) |-> rs[k].label]
             T == {rs[k].label : k \in Active(rs)}
  <2>1. f \in Surjection(Active(rs), T)
    BY DEF Surjection
  <2>2. IsFiniteSet(T) /\ Cardinality(T) <= n
    BY <2>1, <1>2, FS_Surjection
  <2>3. Free # {}
    <3>1. SUFFICES ASSUME Free = {} PROVE FALSE
      OBVIOUS
    <3>2. ASSUME NEW l \in n + 1 .. 2 * n + 1 PROVE l \in T
      <4>1. l \notin Free
        BY <3>1
      <4>2. PICK k \in Labelled(rs, l) : k \in Active(rs)
        BY <4>1
      <4> QED BY <4>2 DEF Labelled
    <3>3. (n + 1 .. 2 * n + 1) \in SUBSET T
      BY <3>2
    <3>4. n + 1 \in Int /\ 2 * n + 1 \in Int
      BY <1>2
    <3>5. Cardinality(n + 1 .. 2 * n + 1) = n + 1
      <4>1. Cardinality(n + 1 .. 2 * n + 1) =
              IF n + 1 > 2 * n + 1 THEN 0 ELSE (2 * n + 1) - (n + 1) + 1
        BY <3>4, FS_Interval
      <4> QED BY <4>1, <1>2
    <3>6. Cardinality(n + 1 .. 2 * n + 1) <= Cardinality(T)
      BY <3>3, <2>2, FS_Subset
    <3>7. Cardinality(T) \in Nat
      BY <2>2, FS_CardinalityType
    <3> QED BY <3>5, <3>6, <3>7, <2>2, <1>2
  <2>4. Free \in SUBSET Nat
    BY <1>2
  <2>5. \E l \in Free : \A m \in Free : l <= m
    BY <2>3, <2>4, LeastNumber
  <2>6. NextLabel(rs) = CHOOSE l \in Free : \A m \in Free : l <= m
    BY <1>4 DEF NextLabel
  <2>7. NextLabel(rs) \in Free
    BY <2>5, <2>6
  <2>8. NextLabel(rs) \in Nat \ {0}
    BY <2>7, <1>2
  <2>9. Labelled(rs, NextLabel(rs)) \intersect Active(rs) = {}
    BY <2>7
  <2> QED BY <2>8, <2>9 DEF Labelled, Active
<1> QED BY <1>3, <1>4
-----------------------------------------------------------------------------
(* What a step does to the calls.                                          *)

(* Another call has written the keys. *)
Overtaken(v, w) ==
  /\ w.at = v.at /\ w.login = v.login /\ w.flow = v.flow /\ w.label = v.label
  /\ w.seen = v.seen /\ w.todo = v.todo
  /\ w.late = IF v.at = "idle" THEN v.late ELSE TRUE

LEMMA Moved ==
  ASSUME Types, NEW c \in Callers, NEW w \in Calls, Move(c, w)
  PROVE  /\ call' \in [Callers -> Calls]
         /\ call'[c] = w
         /\ \A d \in Callers : d # c => call'[d] = call[d]
BY DEF Types, Move

LEMMA WroteToo ==
  ASSUME Types, NEW c \in Callers, NEW w \in Calls, NEW new, Wrote(c, new, w)
  PROVE  /\ call' \in [Callers -> Calls]
         /\ call'[c] = w
         /\ \A d \in Callers : d # c => Overtaken(call[d], call'[d])
<1>1. call' = [d \in Callers |-> IF d = c THEN w
                                 ELSE IF call[d].at = "idle" THEN call[d]
                                 ELSE [call[d] EXCEPT !.late = TRUE]]
  BY DEF Wrote
<1>2. \A d \in Callers : call[d] \in Calls /\ [call[d] EXCEPT !.late = TRUE] \in Calls
  BY DEF Types, Calls
<1> QED BY <1>1, <1>2 DEF Calls, Overtaken

LEMMA IdleCall ==
  Idle \in Calls /\ Equipped(Idle)
<1>1. NoKeys \in Tables
  BY EmptyTable
<1> QED BY <1>1 DEF Idle, Calls, Equipped, Stages

(* The others stay equipped whether a step moves or writes. *)
LEMMA StayEquipped ==
  ASSUME Types, NEW c \in Callers, NEW w \in Calls, Equipped(w),
         Move(c, w) \/ \E new : Wrote(c, new, w)
  PROVE  call' \in [Callers -> Calls] /\ \A d \in Callers : Equipped(call'[d])
<1>1. CASE Move(c, w)
  BY <1>1, Moved DEF Types
<1>2. CASE \E new : Wrote(c, new, w)
  <2>1. PICK new : Wrote(c, new, w)
    BY <1>2
  <2>2. \A d \in Callers : d # c => Overtaken(call[d], call'[d])
    BY <2>1, WroteToo
  <2>3. call' \in [Callers -> Calls] /\ call'[c] = w
    BY <2>1, WroteToo
  <2>4. ASSUME NEW d \in Callers, d # c PROVE Equipped(call'[d])
    <3>1. Equipped(call[d]) /\ Overtaken(call[d], call'[d])
      BY <2>2, <2>4 DEF Types
    <3> QED BY <3>1 DEF Equipped, Overtaken
  <2> QED BY <2>3, <2>4
<1> QED BY <1>1, <1>2

LEMMA SavedTable ==
  ASSUME rows \in Tables, NEW ss \in Tables
  PROVE  /\ Saved(ss) \in Tables
         /\ DOMAIN Saved(ss) = DOMAIN rows \union DOMAIN ss
         /\ \A k \in DOMAIN ss : Saved(ss)[k] = ss[k]
         /\ \A k \in DOMAIN rows \ DOMAIN ss : Saved(ss)[k] = rows[k]
<1>1. /\ DOMAIN rows \subseteq Logins /\ \A k \in DOMAIN rows : rows[k] \in Key
      /\ DOMAIN ss \subseteq Logins /\ \A k \in DOMAIN ss : ss[k] \in Key
  BY TableFacts
<1>2. Saved(ss) \in [DOMAIN rows \union DOMAIN ss -> Key]
  BY <1>1 DEF Saved
<1>3. DOMAIN rows \union DOMAIN ss \in SUBSET Logins
  BY <1>1
<1>4. Saved(ss) \in Tables
  BY <1>2, <1>3 DEF Tables
<1> QED BY <1>4 DEF Saved

(* A copy of a key that is not active. *)
Retired(key, copy) ==
  copy.label = key.label /\ copy.login = key.login /\ ~copy.active

LEMMA PartTable ==
  ASSUME rows \in Tables, NEW ks
  PROVE  /\ [k \in DOMAIN rows \ ks |-> rows[k]] \in Tables
         /\ ks \subseteq DOMAIN rows =>
              /\ [k \in ks |-> [rows[k] EXCEPT !.active = FALSE]] \in Tables
              /\ \A k \in ks : Retired(rows[k], [rows[k] EXCEPT !.active = FALSE])
<1>1. /\ DOMAIN rows \subseteq Logins /\ \A k \in DOMAIN rows : rows[k] \in Key
  BY TableFacts
<1>2. [k \in DOMAIN rows \ ks |-> rows[k]] \in [DOMAIN rows \ ks -> Key]
  BY <1>1
<1>3. [k \in DOMAIN rows \ ks |-> rows[k]] \in Tables
  BY <1>1, <1>2 DEF Tables
<1>4. ASSUME ks \subseteq DOMAIN rows
      PROVE  /\ [k \in ks |-> [rows[k] EXCEPT !.active = FALSE]] \in Tables
             /\ \A k \in ks : Retired(rows[k], [rows[k] EXCEPT !.active = FALSE])
  <2>1. \A k \in ks : [rows[k] EXCEPT !.active = FALSE] \in Key
    BY <1>1, <1>4 DEF Key
  <2>2. [k \in ks |-> [rows[k] EXCEPT !.active = FALSE]] \in [ks -> Key]
    BY <2>1
  <2>3. ks \in SUBSET Logins
    BY <1>1, <1>4
  <2>4. ASSUME NEW k \in ks
        PROVE  Retired(rows[k], [rows[k] EXCEPT !.active = FALSE])
    <3>1. rows[k] \in [label : Nat \ {0}, login : Logins, active : BOOLEAN]
      BY <1>1, <1>4 DEF Key
    <3> QED BY <3>1 DEF Retired
  <2> QED BY <2>2, <2>3, <2>4 DEF Tables
<1> QED BY <1>3, <1>4

-----------------------------------------------------------------------------
(* Looking up the key to store.                                            *)

(* The id a sign-in stores under: the one that has its label, or its own.  *)
StoredAs(w, id) ==
  \/ Labelled(rows, w.label) = {} /\ id = w.login
  \/ id \in Labelled(rows, w.label)

(* The call that c becomes when the key is found. *)
ToStore(v, w) ==
  /\ w.at = "store" /\ w.login = v.login /\ w.flow = v.flow /\ w.label = v.label
  /\ w.todo = v.todo /\ w.late = v.late
  /\ OneCopy(w.seen, v.label, v.login)
  /\ \A id \in DOMAIN w.seen : StoredAs(v, id)

LEMMA LookedUp ==
  ASSUME Types, NEW c \in Callers, LookUp(c)
  PROVE  \/ Move(c, Idle)
         \/ \E w : /\ Move(c, w) /\ w \in Calls /\ Equipped(w)
                   /\ ToStore(call[c], w)
<1> DEFINE v     == call[c]
           found == Labelled(rows, v.label)
           key   == [label |-> v.label, login |-> v.login, active |-> TRUE]
           id    == IF found = {} THEN v.login ELSE CHOOSE k \in found : TRUE
           ss    == [k \in {id} |-> key]
           w     == [v EXCEPT !.at = "store", !.seen = ss]
<1>1. v \in Calls /\ v.at = "lookup" /\ v.login \in Logins /\ v.label \in Nat \ {0}
  BY DEF Types, Calls, LookUp, Equipped
<1>2. Move(c, Idle) \/ Move(c, w)
  BY DEF LookUp
<1>3. found \subseteq Logins
  BY TableFacts DEF Types, Labelled
<1>4. id \in Logins /\ StoredAs(v, id)
  BY <1>1, <1>3 DEF StoredAs
<1>5. key \in Key
  BY <1>1 DEF Key
<1>6. ss \in [{id} -> Key] /\ DOMAIN ss = {id} /\ ss[id] = key
  BY <1>5
<1>7. ss \in Tables
  BY <1>4, <1>6 DEF Tables
<1>8. OneCopy(ss, v.label, v.login)
  BY <1>4, <1>6 DEF OneCopy
<1> HIDE DEF ss
<1>9. w \in Calls /\ w.at = "store" /\ w.seen = ss
  BY <1>1, <1>7 DEF Calls, Stages
<1>10. w.login = v.login /\ w.flow = v.flow /\ w.label = v.label
       /\ w.todo = v.todo /\ w.late = v.late
  BY <1>1 DEF Calls
<1>11. Equipped(w)
  BY <1>1, <1>8, <1>9, <1>10 DEF Equipped
<1>12. ToStore(v, w)
  BY <1>4, <1>6, <1>8, <1>9, <1>10 DEF ToStore
<1> HIDE DEF w
<1> QED BY <1>2, <1>9, <1>11, <1>12
-----------------------------------------------------------------------------
(* Types.                                                                  *)

(* The call that c may come to, next to its present one. *)
LEMMA CallFields ==
  ASSUME Types, NEW c \in Callers
  PROVE  /\ call[c].at \in Stages /\ call[c].label \in Nat
         /\ call[c].login \in Logins \union {None}
         /\ call[c].flow \in Logins \union {None}
         /\ call[c].seen \in Tables /\ call[c].todo \in SUBSET Logins
         /\ call[c].late \in BOOLEAN
         /\ call[c] \in Calls /\ Equipped(call[c])
BY DEF Types, Calls

LEMMA TypesInit == Init => Types
<1>1. NoKeys \in Tables
  BY EmptyTable
<1>2. Idle \in Calls /\ Equipped(Idle)
  BY IdleCall
<1> QED BY <1>1, <1>2 DEF Init, Types, NoFlows, Grants

LEMMA FlowTypes ==
  ASSUME Types, NEW l \in Logins
  PROVE  /\ Add(l) => flows' \in [Logins -> Nat]
         /\ Drop(l) => flows' \in [Logins -> Nat]
         /\ Take(l) => flows' \in [Logins -> Nat]
<1>1. Add(l) => flows' \in [Logins -> Nat]
  <2>1. SUFFICES ASSUME Add(l) PROVE flows' \in [Logins -> Nat]
    OBVIOUS
  <2>2. PICK n \in 1 .. Cardinality(Logins) : flows' = [flows EXCEPT ![l] = n]
    BY <2>1 DEF Add
  <2> QED BY <2>2 DEF Types
<1> QED BY <1>1 DEF Types, Drop, Take

(* What a call becomes when discovery is done. *)
LEMMA AfterDiscovery ==
  ASSUME Types, NEW c \in Callers, call[c].at \in Discovering
  PROVE  LET w == Discovered(call[c]) IN
         /\ w \in Calls /\ Equipped(w) /\ w.at \in {"reply", "idle"}
         /\ w.at = "reply" => call[c].at = "discover" /\ w.login = call[c].login
         /\ w.seen \in {call[c].seen, NoKeys} /\ w.todo \subseteq call[c].todo
<1>1. CASE call[c].at = "refresh"
  <2>1. /\ Discovered(call[c]) = Idle /\ Idle.at = "idle" /\ Idle.seen = NoKeys
        /\ Idle.todo = {}
    BY <1>1 DEF Discovered, Idle
  <2> QED BY <2>1, IdleCall
<1>2. CASE call[c].at = "discover"
  <2> DEFINE w == [call[c] EXCEPT !.at = "reply"]
  <2>1. call[c] \in Calls /\ call[c].login \in Logins
    BY <1>2, CallFields DEF Equipped
  <2>2. /\ w \in Calls /\ w.at = "reply" /\ w.login = call[c].login
        /\ w.seen = call[c].seen /\ w.todo = call[c].todo
    BY <2>1 DEF Calls, Stages
  <2>3. Equipped(w)
    BY <2>1, <2>2 DEF Equipped
  <2>4. Discovered(call[c]) = w
    BY <1>2 DEF Discovered
  <2> HIDE DEF w
  <2> QED BY <1>2, <2>2, <2>3, <2>4
<1> QED BY <1>1, <1>2 DEF Discovering

(* What a refresh becomes: a copy of an active key. *)
LEMMA ReadAgain ==
  ASSUME Types, NEW c \in Callers, Refresh(c)
  PROVE  \E w : \E k \in Active(rows) :
           /\ Move(c, w) /\ w \in Calls /\ Equipped(w) /\ w.at = "refresh"
           /\ w.todo = {} /\ w.login = rows[k].login /\ w.label = rows[k].label
           /\ DOMAIN w.seen = {k} /\ w.seen[k] = rows[k]
<1>1. PICK k \in Active(rows) :
        Move(c, [Idle EXCEPT !.at = "refresh", !.login = rows[k].login,
                  !.label = rows[k].label, !.seen = [j \in {k} |-> rows[j]]])
  BY DEF Refresh
<1> DEFINE ss == [j \in {k} |-> rows[j]]
           w  == [Idle EXCEPT !.at = "refresh", !.login = rows[k].login,
                              !.label = rows[k].label, !.seen = ss]
<1>2. /\ k \in Logins /\ rows[k] \in Key /\ rows[k].active
      /\ rows[k].label \in Nat /\ rows[k].login \in Logins
  BY TableFacts DEF Types, Active
<1>3. ss \in [{k} -> Key] /\ DOMAIN ss = {k} /\ ss[k] = rows[k]
  BY <1>2
<1>4. ss \in Tables
  BY <1>2, <1>3 DEF Tables
<1>5. OneCopy(ss, rows[k].label, rows[k].login)
  BY <1>2, <1>3 DEF OneCopy
<1>6. Move(c, w)
  BY <1>1
<1> HIDE DEF ss
<1>7. /\ w \in Calls /\ w.at = "refresh" /\ w.todo = {} /\ w.seen = ss
      /\ w.login = rows[k].login /\ w.label = rows[k].label
  BY <1>2, <1>4 DEF Idle, Calls, Stages
<1>8. Equipped(w)
  BY <1>2, <1>5, <1>7 DEF Equipped
<1> HIDE DEF w
<1> QED BY <1>3, <1>6, <1>7, <1>8

(* A login at its later stages keeps the types, ... *)
LEMMA LoginTypes ==
  ASSUME Types, NEW c \in Callers, Login(c)
  PROVE  Types'
<1> USE CallFields
<1>0. NoKeys \in Tables /\ Idle \in Calls /\ Equipped(Idle)
  BY EmptyTable, IdleCall
<1>1. CASE DeleteFlows(c)
  <2>1. PICK l \in Logins : Starts(l) /\ Move(c, [Idle EXCEPT !.at = "insert", !.flow = l])
    BY <1>1 DEF DeleteFlows
  <2> DEFINE w == [Idle EXCEPT !.at = "insert", !.flow = l]
  <2>2. w \in Calls /\ Equipped(w)
    BY <1>0 DEF Idle, Calls, Stages, Equipped
  <2>3. call' \in [Callers -> Calls] /\ \A d \in Callers : Equipped(call'[d])
    BY <2>1, <2>2, StayEquipped
  <2> QED BY <1>1, <2>1, <2>3
          DEF DeleteFlows, Types, Starts, NoFlows, Grants, keys, history
<1>2. CASE InsertFlow(c)
  <2>1. call[c].flow \in Logins
    BY <1>2 DEF InsertFlow, Equipped
  <2>2. call' \in [Callers -> Calls] /\ \A d \in Callers : Equipped(call'[d])
    BY <1>0, <1>2, StayEquipped DEF InsertFlow
  <2>3. flows' \in [Logins -> Nat]
    BY <1>2, <2>1, FlowTypes DEF InsertFlow
  <2> QED BY <1>2, <2>2, <2>3 DEF InsertFlow, Types, keys, history
<1>3. CASE Callback(c)
  <2>1. PICK l \in Logins : /\ Take(l)
                            /\ Move(c, [Idle EXCEPT !.at = "exchange", !.login = l,
                                                    !.flow = l])
    BY <1>3 DEF Callback
  <2> DEFINE w == [Idle EXCEPT !.at = "exchange", !.login = l, !.flow = l]
  <2>2. w \in Calls /\ Equipped(w)
    BY <1>0 DEF Idle, Calls, Stages, Equipped
  <2>3. call' \in [Callers -> Calls] /\ \A d \in Callers : Equipped(call'[d])
    BY <2>1, <2>2, StayEquipped
  <2>4. flows' \in [Logins -> Nat]
    BY <2>1, FlowTypes
  <2> QED BY <1>3, <2>3, <2>4 DEF Callback, Types, keys, history
<1>4. CASE PasteBare(c)
  <2>1. PICK l \in Logins, latest \in Logins :
          Move(c, [Idle EXCEPT !.at = "found", !.login = l, !.flow = latest])
    BY <1>4 DEF PasteBare
  <2> DEFINE w == [Idle EXCEPT !.at = "found", !.login = l, !.flow = latest]
  <2>2. w \in Calls /\ Equipped(w)
    BY <1>0 DEF Idle, Calls, Stages, Equipped
  <2>3. call' \in [Callers -> Calls] /\ \A d \in Callers : Equipped(call'[d])
    BY <2>1, <2>2, StayEquipped
  <2> QED BY <1>4, <2>3 DEF PasteBare, Types, keys, history
<1>5. CASE Consume(c)
  <2> DEFINE w == [call[c] EXCEPT !.at = "exchange"]
  <2>1. call[c].flow \in Logins /\ call[c].login \in Logins
    BY <1>5 DEF Consume, Equipped
  <2>2. w \in Calls /\ Equipped(w)
    BY <2>1 DEF Calls, Stages, Equipped
  <2>3. call' \in [Callers -> Calls] /\ \A d \in Callers : Equipped(call'[d])
    BY <1>0, <1>5, <2>2, StayEquipped DEF Consume
  <2>4. flows' \in [Logins -> Nat]
    BY <1>5, <2>1, FlowTypes DEF Consume, Types
  <2> QED BY <1>5, <2>3, <2>4 DEF Consume, Types, keys, history
<1>6. CASE Exchange(c)
  <2> DEFINE w == [Idle EXCEPT !.at = "label", !.login = call[c].login]
  <2>1. call[c].flow \in Logins /\ call[c].login \in Logins
    BY <1>6 DEF Exchange, Equipped
  <2>2. w \in Calls /\ Equipped(w)
    BY <1>0, <2>1 DEF Idle, Calls, Stages, Equipped
  <2>3. Move(c, w) \/ Move(c, Idle)
    BY <1>6 DEF Exchange
  <2>4. call' \in [Callers -> Calls] /\ \A d \in Callers : Equipped(call'[d])
    BY <1>0, <2>2, <2>3, StayEquipped
  <2>5. sent' \in [Logins -> Nat] /\ grant' \in [Logins -> Grants]
    BY <1>6, <2>1 DEF Exchange, Types, Grants
  <2> QED BY <1>6, <2>4, <2>5 DEF Exchange, Types, keys
<1>7. CASE Poll(c)
  <2>1. PICK l \in Logins : Move(c, [Idle EXCEPT !.at = "asking", !.login = l])
    BY <1>7 DEF Poll
  <2> DEFINE w == [Idle EXCEPT !.at = "asking", !.login = l]
  <2>2. w \in Calls /\ Equipped(w)
    BY <1>0 DEF Idle, Calls, Stages, Equipped
  <2>3. call' \in [Callers -> Calls] /\ \A d \in Callers : Equipped(call'[d])
    BY <2>1, <2>2, StayEquipped
  <2> QED BY <1>7, <2>3 DEF Poll, Types, keys, history
<1>8. CASE Answer(c)
  <2> DEFINE w == [Idle EXCEPT !.at = "label", !.login = call[c].login]
  <2>1. call[c].login \in Logins
    BY <1>8 DEF Answer, Equipped
  <2>2. w \in Calls /\ Equipped(w)
    BY <1>0, <2>1 DEF Idle, Calls, Stages, Equipped
  <2>3. Move(c, w) \/ Move(c, Idle)
    BY <1>8 DEF Answer
  <2>4. call' \in [Callers -> Calls] /\ \A d \in Callers : Equipped(call'[d])
    BY <1>0, <2>2, <2>3, StayEquipped
  <2>5. flows' \in [Logins -> Nat] /\ grant' \in [Logins -> Grants]
    BY <1>8, <2>1, FlowTypes DEF Answer, Types, Grants
  <2> QED BY <1>8, <2>4, <2>5 DEF Answer, Types, keys, history
<1>9. CASE ChooseLabel(c)
  <2> DEFINE w == [call[c] EXCEPT !.at = "lookup", !.label = NextLabel(rows),
                                  !.late = FALSE]
  <2>1. NextLabel(rows) \in Nat \ {0} /\ call[c].login \in Logins
    BY <1>9, NextLabelIsFree DEF ChooseLabel, Types, Equipped
  <2>2. w \in Calls /\ Equipped(w)
    BY <2>1 DEF Calls, Stages, Equipped
  <2>3. call' \in [Callers -> Calls] /\ \A d \in Callers : Equipped(call'[d])
    BY <1>9, <2>2, StayEquipped DEF ChooseLabel
  <2> QED BY <1>9, <2>3 DEF ChooseLabel, Types, keys, history
<1>10. CASE LookUp(c)
  <2>1. \/ Move(c, Idle)
        \/ \E w : Move(c, w) /\ w \in Calls /\ Equipped(w)
    BY <1>10, LookedUp
  <2>2. call' \in [Callers -> Calls] /\ \A d \in Callers : Equipped(call'[d])
    BY <1>0, <2>1, StayEquipped
  <2> QED BY <1>10, <2>2 DEF LookUp, Types, keys, history
<1>11. CASE StoreKey(c)
  <2> DEFINE w == [call[c] EXCEPT !.at = "discover", !.late = FALSE]
  <2>1. call[c].login \in Logins /\ OneCopy(call[c].seen, call[c].label, call[c].login)
    BY <1>11 DEF StoreKey, Equipped
  <2>2. w \in Calls /\ Equipped(w)
    BY <2>1 DEF Calls, Stages, Equipped
  <2>3. call' \in [Callers -> Calls] /\ \A d \in Callers : Equipped(call'[d])
    BY <1>0, <1>11, <2>2, StayEquipped DEF StoreKey
  <2>4. rows \in Tables /\ Saved(call[c].seen) \in Tables
    BY SavedTable DEF Types
  <2>5. rows' \in Tables
    BY <1>11, <2>4 DEF StoreKey, Wrote
  <2>6. overlapped' \in SUBSET Logins
    BY <1>11, <2>4, TableFacts DEF StoreKey, Types
  <2> QED BY <1>11, <2>3, <2>5, <2>6 DEF StoreKey, Types
<1>12. CASE Discover(c)
  <2> DEFINE w == Discovered(call[c])
  <2>2. w \in Calls /\ Equipped(w)
    BY <1>12, AfterDiscovery DEF Discover
  <2> HIDE DEF w
  <2>3. call' \in [Callers -> Calls] /\ \A d \in Callers : Equipped(call'[d])
    BY <1>12, <2>2, StayEquipped DEF Discover, w
  <2>4. rows \in Tables /\ Saved(call[c].seen) \in Tables
    BY SavedTable DEF Types
  <2>5. rows' \in Tables
    BY <1>12, <2>4 DEF Discover, Wrote
  <2>6. overlapped' \in SUBSET Logins /\ revived' \in SUBSET Logins
    BY <1>12, <2>4, TableFacts DEF Discover, Types
  <2> QED BY <1>12, <2>3, <2>5, <2>6 DEF Discover, Types
<1>13. CASE Reply(c)
  <2>1. call[c].login \in Logins
    BY <1>13 DEF Reply, Equipped
  <2>2. call' \in [Callers -> Calls] /\ \A d \in Callers : Equipped(call'[d])
    BY <1>0, <1>13, StayEquipped DEF Reply
  <2> QED BY <1>13, <2>1, <2>2 DEF Reply, Types, keys
<1>14. CASE Refresh(c)
  <2>1. \E w : Move(c, w) /\ w \in Calls /\ Equipped(w)
    BY <1>14, ReadAgain
  <2>2. call' \in [Callers -> Calls] /\ \A d \in Callers : Equipped(call'[d])
    BY <2>1, StayEquipped
  <2> QED BY <1>14, <2>2 DEF Refresh, Types, keys, history
<1> QED BY <1>1, <1>2, <1>3, <1>4, <1>5, <1>6, <1>7, <1>8, <1>9, <1>10, <1>11, <1>12,
           <1>13, <1>14 DEF Login

(* ... and so does a revocation. *)
LEMMA Listed ==
  ASSUME Types, NEW c \in Callers, Revoke(c)
  PROVE  \E w, l :
           /\ Move(c, w) /\ w \in Calls /\ Equipped(w)
           /\ w.at = "revoke" /\ w.label = l /\ w.seen = NoKeys
           /\ kind = "redirect" =>
                w.todo = {rows[k].login : k \in Targets(rows, l)}
           /\ kind # "redirect" => w.todo = {}
           /\ Targets(rows, l) \subseteq DOMAIN rows
<1>1. PICK l \in {0} \union {rows[k].label : k \in DOMAIN rows} :
        Move(c, [Idle EXCEPT !.at = "revoke", !.label = l,
                !.todo = IF kind = "redirect"
                           THEN {rows[k].login : k \in Targets(rows, l)} ELSE {}])
  BY DEF Revoke
<1> DEFINE todo == IF kind = "redirect"
                     THEN {rows[k].login : k \in Targets(rows, l)} ELSE {}
           w == [Idle EXCEPT !.at = "revoke", !.label = l, !.todo = todo]
<1>2. /\ \A k \in DOMAIN rows : /\ rows[k].label \in Nat
                                /\ rows[k].login \in Logins
      /\ Targets(rows, l) \subseteq DOMAIN rows
  BY TableFacts DEF Types, Targets
<1>3. l \in Nat /\ todo \in SUBSET Logins
  BY <1>2
<1>4. Move(c, w)
  BY <1>1
<1>5. /\ kind = "redirect" => todo = {rows[k].login : k \in Targets(rows, l)}
      /\ kind # "redirect" => todo = {}
  OBVIOUS
<1> HIDE DEF todo
<1>6. w \in Calls /\ Equipped(w)
  BY <1>3, EmptyTable DEF Idle, Calls, Stages, Removing, Equipped
<1>7. w.at = "revoke" /\ w.label = l /\ w.seen = NoKeys /\ w.todo = todo
  BY DEF Idle
<1> HIDE DEF w
<1> QED BY <1>2, <1>4, <1>5, <1>6, <1>7

LEMMA Doomed ==
  ASSUME Types, NEW c \in Callers, NEW ks \in SUBSET DOMAIN rows,
         NEW next \in {"delete", "deactivate"}, Doom(c, ks, next)
  PROVE  \E w :
           /\ Move(c, w) /\ w \in Calls /\ Equipped(w) /\ w.at = next
           /\ w.label = call[c].label /\ w.late = call[c].late
           /\ w.todo = call[c].todo /\ DOMAIN w.seen = ks
           /\ \A k \in ks : Retired(rows[k], w.seen[k])
<1> DEFINE ss == [k \in ks |-> [rows[k] EXCEPT !.active = FALSE]]
           w  == [call[c] EXCEPT !.at = next, !.seen = ss]
<1>1. call[c] \in Calls
  BY CallFields
<1>2. Move(c, w)
  BY DEF Doom
<1>3. /\ ss \in Tables /\ DOMAIN ss = ks
      /\ \A k \in ks : Retired(rows[k], ss[k])
  BY PartTable DEF Types
<1> HIDE DEF ss
<1>4. /\ w \in Calls /\ w.at = next /\ w.seen = ss
      /\ w.label = call[c].label /\ w.late = call[c].late /\ w.todo = call[c].todo
  BY <1>1, <1>3 DEF Calls, Stages, Removing
<1>5. AllRetired(ss)
  BY <1>3 DEF AllRetired, Retired
<1>6. Equipped(w)
  BY <1>4, <1>5 DEF Equipped
<1> HIDE DEF w
<1> QED BY <1>2, <1>3, <1>4, <1>6

(* Where the search for the keys to remove leads. *)
LEMMA Searched ==
  ASSUME Types, NEW c \in Callers, FindDoomed(c) \/ FindActive(c)
  PROVE  \/ \E ks \in SUBSET DOMAIN rows, next \in {"delete", "deactivate"} :
              Doom(c, ks, next)
         \/ Move(c, [call[c] EXCEPT !.at = "last"])
         \/ Move(c, Idle)
<1>1. \A l : Deleted(l) \in SUBSET DOMAIN rows /\ Active(rows) \in SUBSET DOMAIN rows
  BY DEF Deleted, Labelled, Active
<1> QED BY <1>1 DEF FindDoomed, FindActive

(* Which leaves the call in order, with no flow. *)
LEMMA SearchedCall ==
  ASSUME Types, NEW c \in Callers, FindDoomed(c) \/ FindActive(c)
  PROVE  \E w \in Calls : /\ Move(c, w) /\ Equipped(w)
                          /\ w.at \notin {"insert", "exchange"}
<1> DEFINE w == [call[c] EXCEPT !.at = "last"]
<1>1. w \in Calls /\ w.at = "last" /\ Equipped(w)
  BY CallFields DEF Calls, Stages, Removing, Equipped
<1> HIDE DEF w
<1>2. Idle \in Calls /\ Equipped(Idle) /\ Idle.at = "idle"
  BY IdleCall DEF Idle
<1>3. ASSUME NEW ks \in SUBSET DOMAIN rows, NEW next \in {"delete", "deactivate"},
             Doom(c, ks, next)
      PROVE  \E v \in Calls : /\ Move(c, v) /\ Equipped(v)
                              /\ v.at \notin {"insert", "exchange"}
  BY <1>3, Doomed
<1> QED BY <1>1, <1>2, <1>3, Searched DEF w

LEMMA LogoutTypes ==
  ASSUME Types, NEW c \in Callers, Logout(c)
  PROVE  Types'
<1> USE CallFields
<1>0. NoKeys \in Tables /\ Idle \in Calls /\ Equipped(Idle)
  BY EmptyTable, IdleCall
<1>1. CASE Revoke(c)
  <2>1. call' \in [Callers -> Calls] /\ \A d \in Callers : Equipped(call'[d])
    BY <1>1, Listed, StayEquipped
  <2> QED BY <1>1, <2>1 DEF Revoke, Types, keys, history
<1>2. CASE HandBack(c)
  <2>1. PICK l \in call[c].todo : Move(c, [call[c] EXCEPT !.todo = @ \ {l}])
    BY <1>2 DEF HandBack
  <2> DEFINE w == [call[c] EXCEPT !.todo = @ \ {l}]
  <2>2. w \in Calls /\ Equipped(w)
    BY DEF Calls, Equipped
  <2>3. call' \in [Callers -> Calls] /\ \A d \in Callers : Equipped(call'[d])
    BY <2>1, <2>2, StayEquipped
  <2>4. revoked' \in SUBSET Logins /\ spared' \in SUBSET Logins
    BY <1>2 DEF HandBack, Types
  <2> QED BY <1>2, <2>3, <2>4 DEF HandBack, Types
<1>3. CASE FindDoomed(c) \/ FindActive(c)
  <2>1. call' \in [Callers -> Calls] /\ \A d \in Callers : Equipped(call'[d])
    BY <1>3, SearchedCall, StayEquipped
  <2> QED BY <1>3, <2>1 DEF FindDoomed, FindActive, Types, keys, history
<1>4. ASSUME NEW new \in Tables, RemoveKeys(c, new) PROVE Types'
  <2>1. call' \in [Callers -> Calls] /\ \A d \in Callers : Equipped(call'[d])
    BY <1>0, <1>4, StayEquipped DEF RemoveKeys
  <2>2. LoginsOf(rows) \subseteq Logins
    BY TableFacts DEF Types
  <2>3. gone' \in SUBSET Logins /\ spared' \in SUBSET Logins
    BY <1>4, <2>2 DEF RemoveKeys, Types
  <2> QED BY <1>4, <2>1, <2>3 DEF RemoveKeys, Wrote, Types
<1>5. CASE DeleteKeys(c)
  BY <1>4, <1>5, PartTable DEF DeleteKeys, Types
<1>6. CASE DeactivateKeys(c)
  BY <1>4, <1>6, SavedTable DEF DeactivateKeys, Types
<1> QED BY <1>1, <1>2, <1>3, <1>5, <1>6 DEF Logout

LEMMA TypesStep ==
  ASSUME Types, [Next]_vars
  PROVE  Types'
<1>0. Idle \in Calls /\ Equipped(Idle)
  BY IdleCall
<1>1. CASE StartInMemory
  <2>1. PICK l \in Logins : Starts(l) /\ Add(l)
    BY <1>1 DEF StartInMemory
  <2>2. flows' \in [Logins -> Nat]
    BY <2>1, FlowTypes
  <2> QED BY <1>1, <2>1, <2>2 DEF StartInMemory, Starts, Types, Grants, keys, history
<1>2. CASE Decide
  BY <1>2 DEF Decide, Types, Grants, keys, history
<1>3. CASE Forget
  <2>1. flows' \in [Logins -> Nat]
    BY <1>3, FlowTypes DEF Forget
  <2> QED BY <1>3, <2>1 DEF Forget, Types, keys, history
<1>4. ASSUME NEW c \in Callers, Login(c) PROVE Types'
  BY <1>4, LoginTypes
<1>5. ASSUME NEW c \in Callers, Logout(c) PROVE Types'
  BY <1>5, LogoutTypes
<1>6. ASSUME NEW c \in Callers, Abandon(c) PROVE Types'
  <2>1. call' \in [Callers -> Calls] /\ \A d \in Callers : Equipped(call'[d])
    BY <1>0, <1>6, StayEquipped DEF Abandon
  <2> QED BY <1>6, <2>1 DEF Abandon, Types, keys
<1>7. CASE UNCHANGED vars
  BY <1>7 DEF vars, keys, history, Types
<1> QED BY <1>1, <1>2, <1>3, <1>4, <1>5, <1>6, <1>7 DEF Next
-----------------------------------------------------------------------------
(* A flow is redeemed once.                                                *)

LEMMA FlowInit == Init => FlowOnce
BY DEF Init, FlowOnce, NoFlows, Pending, Holds, Idle

(* Who comes to no such stage takes no flow. *)
LEMMA TakesNoFlow ==
  ASSUME Types, NEW c \in Callers, NEW w \in Calls, w.at \notin {"insert", "exchange"},
         Move(c, w) \/ \E new : Wrote(c, new, w)
  PROVE  \A d \in Callers, f \in Logins : Holds(d, f)' => Holds(d, f)
<1>1. CASE Move(c, w)
  BY <1>1, Moved DEF Holds
<1>2. CASE \E new : Wrote(c, new, w)
  <2>1. PICK new : Wrote(c, new, w)
    BY <1>2
  <2>2. call'[c] = w /\ \A d \in Callers : d # c => Overtaken(call[d], call'[d])
    BY <2>1, WroteToo
  <2> QED BY <2>2 DEF Holds, Overtaken
<1> QED BY <1>1, <1>2

(* Flows that only go leave everything as it was. *)
LEMMA FlowsGo ==
  ASSUME FlowOnce,
         \A f \in Logins : /\ flows'[f] \in {flows[f], 0}
                           /\ grant[f] # "none" => grant'[f] # "none",
         sent' = sent,
         \A d \in Callers, f \in Logins : Holds(d, f)' => Holds(d, f)
  PROVE  FlowOnce'
BY DEF FlowOnce, Pending

LEMMA FlowLogin ==
  ASSUME Types, FlowOnce, NEW c \in Callers, Login(c)
  PROVE  FlowOnce'
<1> USE CallFields
<1>0. Idle \in Calls /\ Idle.at = "idle"
  BY IdleCall DEF Idle
<1>1. CASE DeleteFlows(c)
  <2>1. PICK l \in Logins : Starts(l) /\ Move(c, [Idle EXCEPT !.at = "insert", !.flow = l])
    BY <1>1 DEF DeleteFlows
  <2> DEFINE w == [Idle EXCEPT !.at = "insert", !.flow = l]
  <2>2. w \in Calls /\ w.at = "insert" /\ w.flow = l
    BY <1>0 DEF Idle, Calls, Stages
  <2>3. call'[c] = w /\ \A d \in Callers : d # c => call'[d] = call[d]
    BY <2>1, <2>2, Moved
  <2>4. /\ sent' = sent /\ grant[l] = "none" /\ grant' = [grant EXCEPT ![l] = "asked"]
        /\ \A f \in Logins : ~ Pending(f)'
    <3>1. sent' = sent /\ grant[l] = "none" /\ grant' = [grant EXCEPT ![l] = "asked"]
      BY <1>1, <2>1 DEF DeleteFlows, Starts, history
    <3>2. \A f \in Logins : flows'[f] = 0
      BY <1>1 DEF DeleteFlows, NoFlows
    <3> QED BY <3>1, <3>2 DEF Pending
  <2>5. \A d \in Callers : ~Holds(d, l)
    BY <2>4 DEF FlowOnce
  <2>6. \A d \in Callers, f \in Logins : Holds(d, f)' <=> (d = c /\ f = l) \/ (d # c /\ Holds(d, f))
    BY <2>2, <2>3 DEF Holds
  <2>7. /\ grant'[l] = "asked" /\ \A f \in Logins : f # l => grant'[f] = grant[f]
    BY <2>4 DEF Types
  <2> QED BY <2>4, <2>5, <2>6, <2>7 DEF FlowOnce
<1>2. CASE InsertFlow(c)
  <2> DEFINE f == call[c].flow
  <2>1. f \in Logins /\ Holds(c, f)
    BY <1>2 DEF InsertFlow, Equipped, Holds
  <2>2. call'[c] = Idle /\ \A d \in Callers : d # c => call'[d] = call[d]
    BY <1>0, <1>2, Moved DEF InsertFlow
  <2>3. \A g \in Logins : g # f => Pending(g)' = Pending(g)
    BY <1>2, <2>1 DEF InsertFlow, Add, Pending, Types
  <2>4. \A d \in Callers, g \in Logins : Holds(d, g)' <=> d # c /\ Holds(d, g)
    BY <1>0, <2>2 DEF Holds
  <2>5. sent' = sent /\ grant' = grant
    BY <1>2 DEF InsertFlow, history
  <2> HIDE DEF f
  <2> QED BY <2>1, <2>3, <2>4, <2>5 DEF FlowOnce
<1>3. ASSUME NEW w \in Calls, w.at = "exchange", w.flow \in Logins, Take(w.flow),
             Move(c, w), ~Holds(c, w.flow), UNCHANGED <<grant, sent>>
      PROVE  FlowOnce'
  <2> DEFINE f == w.flow
  <2>1. call'[c] = w /\ \A d \in Callers : d # c => call'[d] = call[d]
    BY <1>3, Moved
  <2>2. /\ Pending(f) /\ ~Pending(f)'
        /\ \A g \in Logins : g # f => Pending(g)' = Pending(g)
    BY <1>3 DEF Take, Drop, Pending, Types
  <2>3. \A d \in Callers, g \in Logins :
          Holds(d, g)' <=> (d = c /\ g = f) \/ (d # c /\ Holds(d, g))
    BY <1>3, <2>1 DEF Holds
  <2> HIDE DEF f
  <2>4. f \in Logins /\ grant' = grant /\ sent' = sent
    BY <1>3 DEF f
  <2> QED BY <2>2, <2>3, <2>4 DEF FlowOnce
<1>4. CASE Callback(c)
  <2>1. PICK l \in Logins : /\ Take(l)
                            /\ Move(c, [Idle EXCEPT !.at = "exchange", !.login = l,
                                                    !.flow = l])
    BY <1>4 DEF Callback
  <2> DEFINE w == [Idle EXCEPT !.at = "exchange", !.login = l, !.flow = l]
  <2>2. w \in Calls /\ w.at = "exchange" /\ w.flow = l
    BY <1>0 DEF Idle, Calls, Stages
  <2>3. ~Holds(c, l)
    BY <1>4 DEF Callback, Holds
  <2> QED BY <1>3, <1>4, <2>1, <2>2, <2>3 DEF Callback, history
<1>5. CASE PasteBare(c)
  <2>1. PICK l \in Logins, latest \in Logins :
          Move(c, [Idle EXCEPT !.at = "found", !.login = l, !.flow = latest])
    BY <1>5 DEF PasteBare
  <2> DEFINE w == [Idle EXCEPT !.at = "found", !.login = l, !.flow = latest]
  <2>2. w \in Calls /\ w.at = "found"
    BY <1>0 DEF Idle, Calls, Stages
  <2>3. \A d \in Callers, f \in Logins : Holds(d, f)' => Holds(d, f)
    BY <2>1, <2>2, TakesNoFlow
  <2> QED BY <1>5, <2>3, FlowsGo DEF PasteBare, history
<1>6. CASE Consume(c)
  <2>1. CASE Pending(call[c].flow)
    <3> DEFINE w == [call[c] EXCEPT !.at = "exchange"]
    <3>1. w \in Calls /\ w.at = "exchange" /\ w.flow = call[c].flow
      BY DEF Calls, Stages
    <3>2. w.flow \in Logins /\ ~Holds(c, w.flow)
      BY <1>6, <3>1 DEF Consume, Equipped, Holds
    <3>3. Take(w.flow) /\ Move(c, w)
      BY <1>6, <2>1, <3>1 DEF Consume
    <3> QED BY <1>3, <1>6, <3>1, <3>2, <3>3 DEF Consume, history
  <2>2. CASE ~Pending(call[c].flow)
    <3>1. \A d \in Callers, f \in Logins : Holds(d, f)' => Holds(d, f)
      BY <1>0, <1>6, <2>2, TakesNoFlow DEF Consume
    <3> QED BY <1>6, <2>2, <3>1, FlowsGo DEF Consume, history
  <2> QED BY <2>1, <2>2
<1>7. CASE Exchange(c)
  <2> DEFINE w == [Idle EXCEPT !.at = "label", !.login = call[c].login]
             f == call[c].flow
  <2>1. f \in Logins /\ Holds(c, f) /\ call[c].login \in Logins
    BY <1>7 DEF Exchange, Equipped, Holds
  <2>2. w \in Calls /\ w.at = "label"
    BY <1>0, <2>1 DEF Idle, Calls, Stages
  <2>3. Move(c, w) \/ Move(c, Idle)
    BY <1>7 DEF Exchange
  <2>4. /\ call'[c].at \in {"label", "idle"}
        /\ \A d \in Callers : d # c => call'[d] = call[d]
    BY <1>0, <2>2, <2>3, Moved
  <2>5. \A d \in Callers, g \in Logins : Holds(d, g)' => d # c /\ Holds(d, g)
    BY <2>4 DEF Holds
  <2>6. /\ sent' = [sent EXCEPT ![f] = @ + 1] /\ flows' = flows
        /\ \A g \in Logins : grant'[g] = "none" <=> grant[g] = "none"
    BY <1>7 DEF Exchange, Types
  <2>7. sent'[f] = sent[f] + 1 /\ \A g \in Logins : g # f => sent'[g] = sent[g]
    BY <2>1, <2>6 DEF Types
  <2>8. sent[f] = 0 /\ ~Pending(f) /\ \A d \in Callers : d # c => ~Holds(d, f)
    BY <2>1 DEF FlowOnce
  <2>9. \A g \in Logins : Pending(g)' = Pending(g)
    BY <2>6 DEF Pending
  <2>10. grant[f] # "none"
    BY <2>1 DEF FlowOnce
  <2> HIDE DEF f
  <2> QED BY <2>1, <2>5, <2>6, <2>7, <2>8, <2>9, <2>10 DEF FlowOnce
<1>8. CASE Poll(c)
  <2>1. PICK l \in Logins : Move(c, [Idle EXCEPT !.at = "asking", !.login = l])
    BY <1>8 DEF Poll
  <2> DEFINE w == [Idle EXCEPT !.at = "asking", !.login = l]
  <2>2. w \in Calls /\ w.at = "asking"
    BY <1>0 DEF Idle, Calls, Stages
  <2>3. \A d \in Callers, f \in Logins : Holds(d, f)' => Holds(d, f)
    BY <2>1, <2>2, TakesNoFlow
  <2> QED BY <1>8, <2>3, FlowsGo DEF Poll, history
<1>9. CASE Answer(c)
  <2> DEFINE w == [Idle EXCEPT !.at = "label", !.login = call[c].login]
  <2>1. call[c].login \in Logins
    BY <1>9 DEF Answer, Equipped
  <2>2. w \in Calls /\ w.at = "label"
    BY <1>0, <2>1 DEF Idle, Calls, Stages
  <2>3. Move(c, w) \/ Move(c, Idle)
    BY <1>9 DEF Answer
  <2>4. \A d \in Callers, f \in Logins : Holds(d, f)' => Holds(d, f)
    BY <1>0, <2>2, <2>3, TakesNoFlow
  <2>5. \A f \in Logins : /\ flows'[f] \in {flows[f], 0}
                          /\ grant[f] # "none" => grant'[f] # "none"
    BY <1>9, <2>1 DEF Answer, Drop, Types
  <2> QED BY <1>9, <2>4, <2>5, FlowsGo DEF Answer, history
<1>10. CASE ChooseLabel(c)
  <2> DEFINE w == [call[c] EXCEPT !.at = "lookup", !.label = NextLabel(rows),
                                  !.late = FALSE]
  <2>1. NextLabel(rows) \in Nat
    BY NextLabelIsFree DEF Types
  <2>2. w \in Calls /\ w.at = "lookup"
    BY <2>1 DEF Calls, Stages
  <2>3. \A d \in Callers, f \in Logins : Holds(d, f)' => Holds(d, f)
    BY <1>10, <2>2, TakesNoFlow DEF ChooseLabel
  <2> QED BY <1>10, <2>3, FlowsGo DEF ChooseLabel, history
<1>11. CASE LookUp(c)
  <2>1. \A d \in Callers, f \in Logins : Holds(d, f)' => Holds(d, f)
    BY <1>0, <1>11, LookedUp, TakesNoFlow DEF ToStore
  <2> QED BY <1>11, <2>1, FlowsGo DEF LookUp, history
<1>12. CASE StoreKey(c)
  <2> DEFINE w == [call[c] EXCEPT !.at = "discover", !.late = FALSE]
  <2>1. w \in Calls /\ w.at = "discover"
    BY DEF Calls, Stages
  <2>2. Move(c, Idle) \/ \E new : Wrote(c, new, w)
    BY <1>12 DEF StoreKey
  <2>3. \A d \in Callers, f \in Logins : Holds(d, f)' => Holds(d, f)
    BY <1>0, <2>1, <2>2, TakesNoFlow
  <2> QED BY <1>12, <2>3, FlowsGo DEF StoreKey
<1>13. CASE Discover(c)
  <2> DEFINE w == Discovered(call[c])
  <2>1. w \in Calls /\ w.at \in {"reply", "idle"}
    BY <1>13, AfterDiscovery DEF Discover
  <2>2. Move(c, w) \/ \E new : Wrote(c, new, w)
    BY <1>13 DEF Discover
  <2>3. \A d \in Callers, f \in Logins : Holds(d, f)' => Holds(d, f)
    BY <2>1, <2>2, TakesNoFlow
  <2> QED BY <1>13, <2>3, FlowsGo DEF Discover
<1>14. CASE Reply(c)
  <2>1. \A d \in Callers, f \in Logins : Holds(d, f)' => Holds(d, f)
    BY <1>0, <1>14, TakesNoFlow DEF Reply
  <2> QED BY <1>14, <2>1, FlowsGo DEF Reply
<1>15. CASE Refresh(c)
  <2>1. \A d \in Callers, f \in Logins : Holds(d, f)' => Holds(d, f)
    BY <1>15, ReadAgain, TakesNoFlow
  <2> QED BY <1>15, <2>1, FlowsGo DEF Refresh, history
<1> QED BY <1>1, <1>2, <1>4, <1>5, <1>6, <1>7, <1>8, <1>9, <1>10, <1>11, <1>12, <1>13,
           <1>14, <1>15 DEF Login

LEMMA FlowLogout ==
  ASSUME Types, FlowOnce, NEW c \in Callers, Logout(c) \/ Abandon(c)
  PROVE  FlowOnce'
<1>0. Idle \in Calls /\ Idle.at = "idle"
  BY IdleCall DEF Idle
<1>1. \E w \in Calls : /\ w.at \notin {"insert", "exchange"}
                       /\ Move(c, w) \/ \E new : Wrote(c, new, w)
  <2>1. CASE Revoke(c)
    BY <2>1, Listed
  <2>2. CASE HandBack(c)
    <3>1. PICK l \in call[c].todo : Move(c, [call[c] EXCEPT !.todo = @ \ {l}])
      BY <2>2 DEF HandBack
    <3>2. /\ [call[c] EXCEPT !.todo = @ \ {l}] \in Calls
          /\ [call[c] EXCEPT !.todo = @ \ {l}].at = "revoke"
      BY <2>2, CallFields DEF HandBack, Calls
    <3> QED BY <3>1, <3>2
  <2>3. CASE FindDoomed(c) \/ FindActive(c)
    BY <2>3, SearchedCall
  <2>4. CASE DeleteKeys(c) \/ DeactivateKeys(c) \/ Abandon(c)
    BY <1>0, <2>4 DEF DeleteKeys, DeactivateKeys, RemoveKeys, Abandon
  <2> QED BY <2>1, <2>2, <2>3, <2>4 DEF Logout
<1>2. \A d \in Callers, f \in Logins : Holds(d, f)' => Holds(d, f)
  BY <1>1, TakesNoFlow
<1>3. flows' = flows /\ grant' = grant /\ sent' = sent
  BY DEF Logout, Abandon, Revoke, HandBack, FindDoomed, FindActive, DeleteKeys,
         DeactivateKeys, RemoveKeys, history
<1> QED BY <1>2, <1>3, FlowsGo

LEMMA FlowStep ==
  ASSUME Types, FlowOnce, [Next]_vars
  PROVE  FlowOnce'
<1>1. CASE StartInMemory
  <2>1. PICK l \in Logins : Starts(l) /\ Add(l)
    BY <1>1 DEF StartInMemory
  <2>2. /\ \A f \in Logins : f # l => Pending(f)' = Pending(f) /\ grant'[f] = grant[f]
        /\ grant[l] = "none" /\ grant'[l] = "asked"
    BY <2>1 DEF Starts, Add, Pending, Types
  <2>3. sent' = sent /\ \A d \in Callers, f \in Logins : Holds(d, f)' = Holds(d, f)
    BY <1>1 DEF StartInMemory, history, Holds
  <2> QED BY <2>2, <2>3 DEF FlowOnce
<1>2. CASE Decide
  <2>1. \A d \in Callers, f \in Logins : Holds(d, f)' => Holds(d, f)
    BY <1>2 DEF Decide, Holds
  <2> QED BY <1>2, <2>1, FlowsGo DEF Decide, history, Types
<1>3. CASE Forget
  <2>1. \A d \in Callers, f \in Logins : Holds(d, f)' => Holds(d, f)
    BY <1>3 DEF Forget, Holds
  <2>2. \A f \in Logins : flows'[f] \in {flows[f], 0}
    BY <1>3 DEF Forget, Drop, Types
  <2> QED BY <1>3, <2>1, <2>2, FlowsGo DEF Forget, history
<1>4. ASSUME NEW c \in Callers, Login(c) PROVE FlowOnce'
  BY <1>4, FlowLogin
<1>5. ASSUME NEW c \in Callers, Logout(c) \/ Abandon(c) PROVE FlowOnce'
  BY <1>5, FlowLogout
<1>6. CASE UNCHANGED vars
  BY <1>6 DEF vars, history, FlowOnce, Pending, Holds
<1> QED BY <1>1, <1>2, <1>3, <1>4, <1>5, <1>6 DEF Next
-----------------------------------------------------------------------------
(* Keys stay in order while they are only read.                            *)

LEMMA KInit == Init => KInv
<1>1. DOMAIN NoKeys = {} /\ Names(NoKeys) = {} /\ Active(NoKeys) = {}
  BY EmptyTable DEF Active
<1>2. SUFFICES ASSUME Init PROVE KInv
  OBVIOUS
<1>3. rows = NoKeys /\ revoked = {} /\ told = {} /\ gone = {}
  BY <1>2 DEF Init
<1>4. \A c \in Callers : /\ call[c].at = "idle" /\ call[c].seen = NoKeys
                         /\ call[c].todo = {}
  BY <1>2 DEF Init, Idle
<1>5. LabelsUnique(rows) /\ OneKey /\ AtHome /\ HandedBackIsTaken
  BY <1>1, <1>3, <1>4
     DEF LabelsUnique, OneKey, AtHome, HandedBackIsTaken, Discovering
<1>6. OnlyRedeemed /\ Fresh
  BY <1>1, <1>3, <1>4 DEF OnlyRedeemed, Fresh, Carries
<1>7. LabelsAgree
  BY <1>1, <1>3, <1>4 DEF LabelsAgree, Agree
<1>8. ChosenWell /\ StoredIsKept /\ ListedByLabel /\ HandedBackFirst
  BY <1>4 DEF ChosenWell, StoredIsKept, ListedByLabel, HandedBackFirst, Discovering
<1>9. KeptSignIn /\ RemovedIsRevoked
  BY <1>3 DEF KeptSignIn, RemovedIsRevoked
<1> QED BY <1>5, <1>6, <1>7, <1>8, <1>9 DEF KInv

(* A step that leaves the keys and the calls alone. *)
LEMMA CallsStay ==
  ASSUME KInv, Redeemed \subseteq Redeemed',
         UNCHANGED <<rows, revoked, spared, gone, overlapped, kept, told, kind, call,
                     revived>>
  PROVE  KInv'
<1>1. LabelsUnique(rows)' /\ OneKey' /\ KeptSignIn' /\ RemovedIsRevoked'
  BY DEF KInv, OneKey, KeptSignIn, RemovedIsRevoked
<1>2. OnlyRedeemed'
  BY DEF KInv, OnlyRedeemed, Carries
<1>3. Fresh' /\ LabelsAgree'
  BY DEF KInv, Fresh, Carries, LabelsAgree
<1>4. AtHome' /\ ChosenWell' /\ StoredIsKept' /\ ListedByLabel'
  BY DEF KInv, AtHome, ChosenWell, StoredIsKept, ListedByLabel
<1>5. HandedBackFirst' /\ HandedBackIsTaken'
  BY DEF KInv, HandedBackFirst, HandedBackIsTaken, Takes
<1> QED BY <1>1, <1>2, <1>3, <1>4, <1>5 DEF KInv

(* Coming to a stage before the keys are read. *)
Early(c, w) ==
  /\ w.at \in {"idle", "insert", "found", "exchange", "asking", "label", "lookup"}
  /\ w.seen \in {call[c].seen, NoKeys} /\ w.todo \subseteq call[c].todo
  /\ w.at \in {"label", "lookup"} =>
       w.login \in Redeemed' /\ (w.login \notin Redeemed \/ Carries(c, w.login))
  /\ w.at = "lookup" => \A k \in Active(rows) : rows[k].label # w.label

LEMMA EarlyStep ==
  ASSUME Types, KInv, NEW c \in Callers, NEW w \in Calls, Move(c, w), Early(c, w),
         UNCHANGED <<rows, revoked, spared, gone, overlapped, revived, kind>>,
         Redeemed \subseteq Redeemed', kept \subseteq kept',
         call[c].at \in Removing =>
           LoginsOf(rows) \intersect revoked \subseteq kept',
         told' \subseteq LoginsOf(rows) \union gone \union overlapped
  PROVE  KInv'
<1>1. call'[c] = w /\ \A d \in Callers : d # c => call'[d] = call[d]
  BY Moved
<1>2. Names(NoKeys) = {} /\ DOMAIN NoKeys = {}
  BY EmptyTable
<1>3. LabelsUnique(rows)' /\ OneKey' /\ KeptSignIn' /\ RemovedIsRevoked'
  BY DEF KInv, OneKey, KeptSignIn, RemovedIsRevoked
<1>4. \A d \in Callers : /\ Names(call'[d].seen) \subseteq Names(call[d].seen)
                         /\ call'[d].todo \subseteq call[d].todo
  BY <1>1, <1>2 DEF Early
<1>5. \A d \in Callers, x \in Logins :
        Carries(d, x)' => \/ Carries(d, x)
                          \/ d = c /\ x \in Redeemed' /\ x \notin Redeemed
  BY <1>1 DEF Carries, Early
<1>6. OnlyRedeemed'
  <2>1. \A d \in Callers, x \in Logins : Carries(d, x)' => x \in Redeemed'
    BY <1>5 DEF KInv, OnlyRedeemed
  <2> QED BY <1>4, <2>1 DEF KInv, OnlyRedeemed
<1>7. Fresh'
  <2> SUFFICES ASSUME NEW e \in Callers, NEW x \in Logins, Carries(e, x)'
               PROVE  (/\ x \notin Names(rows) /\ x \notin revoked
                       /\ \A d \in Callers : /\ x \notin call[d].todo
                                             /\ d # e => /\ ~Carries(d, x)
                                                         /\ x \notin Names(call[d].seen))'
    BY DEF Fresh
  <2>1. CASE Carries(e, x)
    <3>1. \A d \in Callers : d # e => ~Carries(d, x)'
      <4>1. x \in Redeemed /\ \A d \in Callers : d # e => ~Carries(d, x)
        BY <2>1 DEF KInv, Fresh, OnlyRedeemed
      <4> QED BY <4>1, <1>5
    <3> QED BY <2>1, <3>1, <1>4 DEF KInv, Fresh
  <2>2. CASE e = c /\ x \notin Redeemed
    <3>1. \A d \in Callers : d # e => ~Carries(d, x)'
      BY <2>2, <1>5 DEF KInv, OnlyRedeemed
    <3> QED BY <2>2, <3>1, <1>4 DEF KInv, OnlyRedeemed
  <2> QED BY <2>1, <2>2, <1>5
<1>8. LabelsAgree'
  <2>1. \A d \in Callers : call'[d].seen \in {call[d].seen, NoKeys}
    BY <1>1 DEF Early
  <2> QED BY <2>1, <1>2 DEF KInv, LabelsAgree, Agree
<1>9. AtHome' /\ ChosenWell'
  BY <1>1 DEF KInv, AtHome, ChosenWell, Early, Discovering
<1>10. StoredIsKept' /\ ListedByLabel'
  BY <1>1 DEF KInv, StoredIsKept, ListedByLabel, Early, Discovering
<1>11. HandedBackFirst'
  BY <1>1 DEF KInv, HandedBackFirst, Early
<1>12. HandedBackIsTaken'
  <2> SUFFICES ASSUME NEW k \in Active(rows), rows[k].login \in revoked
               PROVE  rows[k].login \in kept' \union revived \/ \E e \in Callers : Takes(e, k)'
    BY DEF HandedBackIsTaken
  <2>1. CASE rows[k].login \in kept \union revived
    BY <2>1
  <2>2. ASSUME NEW e \in Callers, Takes(e, k)
        PROVE  rows[k].login \in kept' \union revived \/ Takes(e, k)'
    <3>1. CASE e = c
      <4>1. call[c].at \in Removing
        BY <2>2, <3>1 DEF Takes, Removing
      <4> QED BY <4>1 DEF LoginsOf
    <3>2. CASE e # c
      BY <2>2, <3>2, <1>1 DEF Takes
    <3> QED BY <3>1, <3>2
  <2> QED BY <2>1, <2>2 DEF KInv, HandedBackIsTaken
<1> QED BY <1>3, <1>6, <1>7, <1>8, <1>9, <1>10, <1>11, <1>12 DEF KInv

(* Finding the key to store. *)
LEMMA ToStoreStep ==
  ASSUME Types, KInv, NEW c \in Callers, NEW w \in Calls, Move(c, w),
         call[c].at = "lookup", call[c].login \in Logins, ToStore(call[c], w),
         UNCHANGED <<rows, revoked, spared, gone, overlapped, revived, kept, told, kind, grant>>
  PROVE  KInv'
<1> DEFINE x == call[c].login
<1>1. call'[c] = w /\ \A d \in Callers : d # c => call'[d] = call[d]
  BY Moved
<1>2. PICK id \in Logins : DOMAIN w.seen = {id} /\ StoredAs(call[c], id)
  BY DEF ToStore, OneCopy
<1>3. /\ w.seen[id].label = call[c].label /\ w.seen[id].login = x
      /\ Names(w.seen) = {id, x}
  BY <1>2 DEF ToStore, OneCopy, Names
<1>4. /\ Carries(c, x) /\ x \in Redeemed
      /\ \A d \in Callers, y \in Logins : Carries(d, y)' <=> Carries(d, y)
  BY <1>1 DEF Carries, ToStore, KInv, OnlyRedeemed
<1>5. \/ id = x /\ x \notin Names(rows)
      \/ id \in DOMAIN rows /\ rows[id].label = call[c].label
  <2>1. x \notin Names(rows)
    BY <1>4 DEF KInv, Fresh
  <2>2. id = x \/ id \in Labelled(rows, call[c].label)
    BY <1>2 DEF StoredAs
  <2> QED BY <2>1, <2>2 DEF Labelled
<1>6. id = x \/ id \in Names(rows)
  BY <1>5 DEF Names
<1>7. LabelsUnique(rows)' /\ OneKey' /\ KeptSignIn' /\ RemovedIsRevoked'
  BY DEF KInv, OneKey, KeptSignIn, RemovedIsRevoked
<1>8. OnlyRedeemed'
  <2>1. Redeemed' = Redeemed
    BY DEF Redeemed
  <2>2. Names(w.seen) \subseteq Redeemed
    BY <1>3, <1>4, <1>6 DEF KInv, OnlyRedeemed
  <2> QED BY <1>1, <1>4, <2>1, <2>2 DEF KInv, OnlyRedeemed, ToStore
<1>9. Fresh'
  <2>1. ASSUME NEW d \in Callers, NEW y \in Logins, Carries(d, y), d # c
        PROVE  y \notin Names(w.seen)
    BY <2>1, <1>3, <1>4, <1>6 DEF KInv, Fresh
  <2> QED BY <1>1, <1>4, <2>1 DEF KInv, Fresh, ToStore
<1>10. LabelsAgree'
  <2>1. Agree(rows, w.seen)
    BY <1>2, <1>3, <1>5 DEF Agree, Names
  <2>2. ASSUME NEW d \in Callers, d # c
        PROVE  Agree(w.seen, call[d].seen) /\ Agree(call[d].seen, w.seen)
    <3>1. id = x => id \notin DOMAIN call[d].seen
      BY <2>2, <1>4 DEF KInv, Fresh, Names
    <3>2. Agree(rows, call[d].seen)
      BY DEF KInv, LabelsAgree
    <3> QED BY <3>1, <3>2, <1>2, <1>3, <1>5 DEF Agree
  <2>3. Agree(w.seen, w.seen)
    BY DEF Agree
  <2> QED BY <1>1, <2>1, <2>2, <2>3 DEF KInv, LabelsAgree
<1>11. ChosenWell'
  <2>1. ASSUME ~call[c].late, id \in Active(rows) PROVE FALSE
    <3>1. \A k \in Active(rows) : rows[k].label # call[c].label
      BY <2>1 DEF KInv, ChosenWell
    <3>2. id \in DOMAIN rows /\ id \in Names(rows)
      BY <2>1 DEF Active, Names
    <3> QED BY <2>1, <3>1, <3>2, <1>5
  <2> QED BY <1>1, <1>2, <2>1 DEF KInv, ChosenWell, ToStore, Discovering
<1>12. AtHome' /\ StoredIsKept' /\ ListedByLabel'
  BY <1>1 DEF KInv, AtHome, StoredIsKept, ListedByLabel, ToStore, Discovering
<1>13. HandedBackFirst'
  BY <1>1 DEF KInv, HandedBackFirst, ToStore
<1>14. HandedBackIsTaken'
  BY <1>1 DEF KInv, HandedBackIsTaken, Takes, ToStore
<1> QED BY <1>7, <1>8, <1>9, <1>10, <1>11, <1>12, <1>13, <1>14 DEF KInv
-----------------------------------------------------------------------------
(* ... while they are handed back, ...                                     *)

(* Listing the keys to hand back. *)
LEMMA RevokeStep ==
  ASSUME Types, KInv, NEW c \in Callers, Revoke(c)
  PROVE  KInv'
<1>1. PICK w, l :
        /\ Move(c, w) /\ w \in Calls
        /\ w.at = "revoke" /\ w.label = l /\ w.seen = NoKeys
        /\ kind = "redirect" => w.todo = {rows[k].login : k \in Targets(rows, l)}
        /\ kind # "redirect" => w.todo = {}
        /\ Targets(rows, l) \subseteq DOMAIN rows
  BY Listed
<1>2. call'[c] = w /\ \A d \in Callers : d # c => call'[d] = call[d]
  BY <1>1, Moved
<1>3. call[c].at = "idle" /\ Names(NoKeys) = {} /\ DOMAIN NoKeys = {}
  BY EmptyTable DEF Revoke
<1>4. UNCHANGED <<kind, grant, rows, revoked, told, gone, spared, kept, overlapped,
                  revived>>
  BY DEF Revoke, keys, history
<1>5. w.todo \subseteq Names(rows) /\ w.todo \subseteq LoginsOf(rows)
  BY <1>1 DEF Names, LoginsOf, Targets
<1>6. \A d \in Callers, x \in Logins : Carries(d, x)' <=> Carries(d, x)
  BY <1>1, <1>2, <1>3 DEF Carries
<1>7. LabelsUnique(rows)' /\ OneKey' /\ KeptSignIn' /\ RemovedIsRevoked'
  BY <1>4 DEF KInv, OneKey, KeptSignIn, RemovedIsRevoked
<1>8. OnlyRedeemed'
  <2>1. Redeemed' = Redeemed
    BY <1>4 DEF Redeemed
  <2> QED BY <1>1, <1>2, <1>3, <1>4, <1>5, <1>6, <2>1 DEF KInv, OnlyRedeemed
<1>9. Fresh'
  BY <1>1, <1>2, <1>3, <1>4, <1>5, <1>6 DEF KInv, Fresh
<1>10. LabelsAgree'
  BY <1>1, <1>2, <1>3, <1>4 DEF KInv, LabelsAgree, Agree
<1>11. AtHome' /\ ChosenWell' /\ StoredIsKept'
  BY <1>1, <1>2, <1>4 DEF KInv, AtHome, ChosenWell, StoredIsKept, Discovering
<1>12. ListedByLabel'
  <2>1. ASSUME NEW k \in Active(rows), rows[k].login \in w.todo
        PROVE  l \in {0, rows[k].label}
    <3>1. PICK j \in Targets(rows, l) : rows[j].login = rows[k].login
      BY <1>1, <2>1
    <3>2. j \in Active(rows) /\ (l = 0 \/ rows[j].label = l)
      BY <3>1 DEF Targets, Labelled
    <3>3. j = k
      BY <3>1, <3>2 DEF KInv, OneKey
    <3> QED BY <3>2, <3>3
  <2>2. ASSUME NEW d \in Callers, call[d].at \in Discovering, call[d].login \in w.todo
        PROVE  l \in {0, call[d].label}
    <3>1. PICK k \in Active(rows) : rows[k].login = call[d].login
      BY <1>5, <2>2 DEF LoginsOf
    <3>2. k \in DOMAIN rows /\ k \in DOMAIN call[d].seen
      BY <2>2, <3>1 DEF KInv, AtHome, Active
    <3>3. rows[k].label = call[d].seen[k].label
      BY <3>2 DEF KInv, LabelsAgree, Agree
    <3>4. OneCopy(call[d].seen, call[d].label, call[d].login)
      BY <2>2, CallFields DEF Equipped, Discovering
    <3>5. call[d].seen[k].label = call[d].label
      BY <3>2, <3>4 DEF OneCopy
    <3> QED BY <2>1, <2>2, <3>1, <3>3, <3>5
  <2>3. \A d \in Callers : call'[d].at \in Discovering => d # c /\ call'[d] = call[d]
    BY <1>1, <1>2 DEF Discovering
  <2> QED BY <1>1, <1>2, <1>4, <2>1, <2>2, <2>3 DEF KInv, ListedByLabel
<1>13. HandedBackFirst'
  <2>1. kind = "redirect" => \A k \in Targets(rows, l) : rows[k].login \in w.todo
    BY <1>1
  <2> QED BY <1>1, <1>2, <1>4, <2>1 DEF KInv, HandedBackFirst
<1>14. HandedBackIsTaken'
  BY <1>1, <1>2, <1>3, <1>4 DEF KInv, HandedBackIsTaken, Takes
<1> QED BY <1>7, <1>8, <1>9, <1>10, <1>11, <1>12, <1>13, <1>14 DEF KInv

(* Handing one back. *)
LEMMA HandBackStep ==
  ASSUME Types, KInv, NEW c \in Callers, HandBack(c)
  PROVE  KInv'
<1>1. PICK l \in call[c].todo :
        /\ \/ revoked' = revoked \union {l} /\ UNCHANGED spared
           \/ spared' = spared \union {l} /\ UNCHANGED revoked
        /\ Move(c, [call[c] EXCEPT !.todo = @ \ {l}])
  BY DEF HandBack
<1> DEFINE w == [call[c] EXCEPT !.todo = @ \ {l}]
<1>2. /\ w \in Calls /\ w.at = "revoke" /\ w.login = call[c].login
      /\ w.label = call[c].label /\ w.seen = call[c].seen /\ w.late = call[c].late
      /\ w.todo = call[c].todo \ {l}
  BY CallFields DEF HandBack, Calls
<1> HIDE DEF w
<1>3. call'[c] = w /\ \A d \in Callers : d # c => call'[d] = call[d]
  BY <1>1, <1>2, Moved DEF w
<1>4. /\ call[c].at = "revoke"
      /\ UNCHANGED <<kind, grant, rows, told, gone, kept, overlapped, revived>>
  BY DEF HandBack
<1>5. /\ revoked \subseteq revoked' /\ spared \subseteq spared'
      /\ revoked' \subseteq revoked \union {l} /\ l \in revoked' \union spared'
  BY <1>1
<1>6. \A d \in Callers : /\ call'[d].at = call[d].at /\ call'[d].login = call[d].login
                         /\ call'[d].label = call[d].label
                         /\ call'[d].seen = call[d].seen /\ call'[d].late = call[d].late
                         /\ call'[d].todo \subseteq call[d].todo
  BY <1>2, <1>3, <1>4
<1>7. \A d \in Callers, x \in Logins : Carries(d, x)' <=> Carries(d, x)
  BY <1>6 DEF Carries
<1>8. LabelsUnique(rows)' /\ OneKey' /\ KeptSignIn' /\ RemovedIsRevoked'
  BY <1>4, <1>5 DEF KInv, OneKey, KeptSignIn, RemovedIsRevoked
<1>9. OnlyRedeemed'
  <2>1. Redeemed' = Redeemed
    BY <1>4 DEF Redeemed
  <2>2. l \in Redeemed
    BY DEF KInv, OnlyRedeemed
  <2> QED BY <1>4, <1>5, <1>6, <1>7, <2>1, <2>2 DEF KInv, OnlyRedeemed
<1>10. Fresh'
  <2>1. \A d \in Callers, x \in Logins : Carries(d, x) => x # l
    BY DEF KInv, Fresh
  <2> QED BY <1>4, <1>5, <1>6, <1>7, <2>1 DEF KInv, Fresh
<1>11. LabelsAgree'
  BY <1>4, <1>6 DEF KInv, LabelsAgree
<1>12. AtHome' /\ ChosenWell' /\ StoredIsKept'
  BY <1>4, <1>6 DEF KInv, AtHome, ChosenWell, StoredIsKept
<1>13. ListedByLabel'
  BY <1>4, <1>6 DEF KInv, ListedByLabel
<1>14. HandedBackFirst'
  <2>1. \A d \in Callers : revoked \union spared \union call[d].todo
                             \subseteq revoked' \union spared' \union call'[d].todo
    BY <1>2, <1>3, <1>5
  <2> QED BY <1>4, <1>5, <1>6, <2>1 DEF KInv, HandedBackFirst
<1>15. HandedBackIsTaken'
  <2> SUFFICES ASSUME NEW k \in Active(rows), rows[k].login \in revoked'
               PROVE  rows[k].login \in kept' \union revived \/ \E e \in Callers : Takes(e, k)'
    BY <1>4 DEF HandedBackIsTaken
  <2>1. \A e \in Callers : Takes(e, k)' <=> Takes(e, k)
    BY <1>4, <1>6 DEF Takes
  <2>2. CASE rows[k].login \in revoked
    BY <1>4, <2>1, <2>2 DEF KInv, HandedBackIsTaken
  <2>3. CASE rows[k].login = l
    <3>1. Takes(c, k)
      BY <1>4, <2>3 DEF KInv, ListedByLabel, Takes
    <3> QED BY <2>1, <3>1
  <2> QED BY <1>5, <2>2, <2>3
<1> QED BY <1>8, <1>9, <1>10, <1>11, <1>12, <1>13, <1>14, <1>15 DEF KInv

(* Finding the keys to remove: they are the ones that were listed. *)
LEMMA DoomStep ==
  ASSUME Types, KInv, NEW c \in Callers, NEW ks \in SUBSET DOMAIN rows,
         NEW next \in {"delete", "deactivate"}, Doom(c, ks, next),
         call[c].at \in {"revoke", "last"},
         UNCHANGED <<kind, grant, rows, revoked, told, gone, spared, kept, overlapped,
                     revived>>,
         kind = "redirect" /\ ~call[c].late =>
           \A k \in Active(rows) \intersect ks : rows[k].login \in revoked \union spared,
         \A k \in Active(rows) : Takes(c, k) => k \in ks
  PROVE  KInv'
<1>1. PICK w :
        /\ Move(c, w) /\ w \in Calls /\ w.at = next
        /\ w.label = call[c].label /\ w.late = call[c].late /\ w.todo = call[c].todo
        /\ DOMAIN w.seen = ks
        /\ \A k \in ks : Retired(rows[k], w.seen[k])
  BY Doomed
<1>2. call'[c] = w /\ \A d \in Callers : d # c => call'[d] = call[d]
  BY <1>1, Moved
<1>3. Names(w.seen) \subseteq Names(rows)
  BY <1>1 DEF Names, Retired
<1>4. \A d \in Callers, x \in Logins : Carries(d, x)' <=> Carries(d, x)
  BY <1>1, <1>2 DEF Carries
<1>5. LabelsUnique(rows)' /\ OneKey' /\ KeptSignIn' /\ RemovedIsRevoked'
  BY DEF KInv, OneKey, KeptSignIn, RemovedIsRevoked
<1>6. OnlyRedeemed'
  <2>1. Redeemed' = Redeemed
    BY DEF Redeemed
  <2> QED BY <1>1, <1>2, <1>3, <1>4, <2>1 DEF KInv, OnlyRedeemed
<1>7. Fresh'
  BY <1>1, <1>2, <1>3, <1>4 DEF KInv, Fresh
<1>8. LabelsAgree'
  <2>1. \A k \in ks : w.seen[k].label = rows[k].label
    BY <1>1 DEF Retired
  <2>2. ASSUME NEW d \in Callers
        PROVE  Agree(w.seen, call[d].seen) /\ Agree(call[d].seen, w.seen)
    BY <1>1, <2>1 DEF KInv, LabelsAgree, Agree
  <2>3. Agree(rows, w.seen) /\ Agree(w.seen, w.seen)
    BY <1>1, <2>1 DEF Agree
  <2> QED BY <1>2, <2>2, <2>3 DEF KInv, LabelsAgree
<1>9. AtHome' /\ ChosenWell' /\ StoredIsKept' /\ ListedByLabel'
  BY <1>1, <1>2 DEF KInv, AtHome, ChosenWell, StoredIsKept, ListedByLabel, Discovering
<1>10. HandedBackFirst'
  BY <1>1, <1>2 DEF KInv, HandedBackFirst
<1>11. HandedBackIsTaken'
  <2> SUFFICES ASSUME NEW k \in Active(rows), rows[k].login \in revoked
               PROVE  rows[k].login \in kept \union revived
                        \/ \E e \in Callers : Takes(e, k)'
    BY DEF HandedBackIsTaken
  <2>1. Takes(c, k) => Takes(c, k)'
    BY <1>1, <1>2 DEF Takes
  <2>2. \A e \in Callers : Takes(e, k) => Takes(e, k)'
    BY <1>2, <2>1 DEF Takes
  <2> QED BY <2>2 DEF KInv, HandedBackIsTaken
<1> QED BY <1>5, <1>6, <1>7, <1>8, <1>9, <1>10, <1>11 DEF KInv

(* Leaving the last key to removeProvider. *)
LEMMA LastStep ==
  ASSUME Types, KInv, NEW c \in Callers, call[c].at = "revoke", call[c].todo = {},
         Move(c, [call[c] EXCEPT !.at = "last"]), LastKey(call[c].label),
         UNCHANGED <<kind, grant, rows, revoked, told, gone, spared, kept, overlapped,
                     revived>>
  PROVE  KInv'
<1> DEFINE w == [call[c] EXCEPT !.at = "last"]
<1>1. /\ w \in Calls /\ w.at = "last" /\ w.label = call[c].label
      /\ w.late = call[c].late /\ w.todo = call[c].todo /\ w.seen = call[c].seen
  BY CallFields DEF Calls, Stages, Removing
<1> HIDE DEF w
<1>2. call'[c] = w /\ \A d \in Callers : d # c => call'[d] = call[d]
  BY <1>1, Moved DEF w
<1>3. \A d \in Callers : call'[d].seen = call[d].seen /\ call'[d].todo = call[d].todo
  BY <1>1, <1>2
<1>4. \A d \in Callers, x \in Logins : Carries(d, x)' <=> Carries(d, x)
  BY <1>1, <1>2 DEF Carries
<1>5. LabelsUnique(rows)' /\ OneKey' /\ KeptSignIn' /\ RemovedIsRevoked'
  BY DEF KInv, OneKey, KeptSignIn, RemovedIsRevoked
<1>6. OnlyRedeemed'
  <2>1. Redeemed' = Redeemed
    BY DEF Redeemed
  <2> QED BY <1>3, <1>4, <2>1 DEF KInv, OnlyRedeemed
<1>7. Fresh' /\ LabelsAgree'
  BY <1>3, <1>4 DEF KInv, Fresh, LabelsAgree
<1>8. AtHome' /\ ChosenWell' /\ StoredIsKept' /\ ListedByLabel'
  BY <1>1, <1>2 DEF KInv, AtHome, ChosenWell, StoredIsKept, ListedByLabel, Discovering
<1>9. HandedBackFirst'
  <2>1. Active(rows) \subseteq Targets(rows, call[c].label)
    BY DEF LastKey, Targets
  <2> QED BY <1>1, <1>2, <2>1 DEF KInv, HandedBackFirst
<1>10. HandedBackIsTaken'
  BY <1>1, <1>2 DEF KInv, HandedBackIsTaken, Takes
<1> QED BY <1>5, <1>6, <1>7, <1>8, <1>9, <1>10 DEF KInv

LEMMA FindDoomedStep ==
  ASSUME Types, KInv, NEW c \in Callers, FindDoomed(c)
  PROVE  KInv'
<1> DEFINE l == call[c].label
<1>1. call[c].at = "revoke" /\ call[c].todo = {}
  BY DEF FindDoomed
<1>2. UNCHANGED <<kind, grant, rows, revoked, told, gone, spared, kept, overlapped,
                  revived>>
  BY DEF FindDoomed, keys, history
<1>3. \A k \in DOMAIN rows : rows[k].label # 0
  BY TableFacts DEF Types
<1>4. kind = "redirect" /\ ~call[c].late =>
        \A k \in Targets(rows, l) : rows[k].login \in revoked \union spared
  BY <1>1 DEF KInv, HandedBackFirst
<1>5. CASE Doom(c, Deleted(l), "delete")
  <2>1. /\ Deleted(l) \in SUBSET DOMAIN rows /\ Deleted(l) # {}
        /\ \A k \in Deleted(l) : rows[k].label = l
        /\ Active(rows) \intersect Deleted(l) \subseteq Targets(rows, l)
    BY <1>5 DEF Deleted, Labelled, Targets, Doom
  <2>2. ASSUME NEW k \in Active(rows), Takes(c, k) PROVE k \in Deleted(l)
    <3>1. PICK j \in Deleted(l) : rows[j].label = l /\ j \in DOMAIN rows
      BY <2>1
    <3>2. k \in DOMAIN rows /\ rows[k].label = rows[j].label
      BY <1>3, <2>2, <3>1 DEF Takes, Active
    <3> QED BY <3>1, <3>2 DEF KInv, LabelsUnique
  <2> QED BY <1>1, <1>2, <1>4, <1>5, <2>1, <2>2, DoomStep
<1>6. CASE l = 0 /\ Doom(c, Active(rows), "deactivate")
  <2>1. Active(rows) \in SUBSET DOMAIN rows /\ Active(rows) = Targets(rows, l)
    BY <1>6 DEF Active, Targets
  <2> QED BY <1>1, <1>2, <1>4, <1>6, <2>1, DoomStep
<1>7. CASE LastKey(l) /\ Move(c, [call[c] EXCEPT !.at = "last"])
  BY <1>1, <1>2, <1>7, LastStep
<1> QED BY <1>5, <1>6, <1>7 DEF FindDoomed

(* All keys go when the last one does. *)
LEMMA FindActiveStep ==
  ASSUME Types, KInv, NEW c \in Callers, FindActive(c)
  PROVE  KInv'
<1>1. call[c].at = "last"
  BY DEF FindActive
<1>2. UNCHANGED <<kind, grant, rows, revoked, told, gone, spared, kept, overlapped,
                  revived>>
  BY DEF FindActive, keys, history
<1>3. CASE Doom(c, Active(rows), "deactivate")
  <2>1. Active(rows) \in SUBSET DOMAIN rows
    BY DEF Active
  <2>2. kind = "redirect" /\ ~call[c].late =>
          \A k \in Active(rows) : rows[k].login \in revoked \union spared
    BY <1>1 DEF KInv, HandedBackFirst
  <2> QED BY <1>1, <1>2, <1>3, <2>1, <2>2, DoomStep
<1>4. CASE Active(rows) = {} /\ Move(c, Idle)
  <2>1. Idle \in Calls /\ Early(c, Idle)
    BY IdleCall DEF Idle, Early
  <2>2. LoginsOf(rows) = {} /\ Redeemed' = Redeemed
    BY <1>2, <1>4 DEF LoginsOf, Redeemed
  <2>3. told' \subseteq LoginsOf(rows) \union gone \union overlapped
    BY <1>2 DEF KInv, KeptSignIn
  <2> QED BY <1>2, <1>4, <2>1, <2>2, <2>3, EarlyStep
<1> QED BY <1>3, <1>4 DEF FindActive
-----------------------------------------------------------------------------
(* ... and when they are written.                                          *)

LEMMA StoreStep ==
  ASSUME Types, KInv, NEW c \in Callers, StoreKey(c), LabelsUnique(Saved(call[c].seen))
  PROVE  KInv'
<1> DEFINE v == call[c]
           w == [v EXCEPT !.at = "discover", !.late = FALSE]
           x == v.login
<1>1. v \in Calls /\ v.at = "store" /\ v.seen \in Tables /\ OneCopy(v.seen, v.label, x)
  BY CallFields DEF StoreKey, Equipped
<1>2. /\ w \in Calls /\ w.at = "discover" /\ w.login = x /\ w.seen = v.seen
      /\ w.todo = v.todo /\ w.label = v.label
  BY <1>1 DEF Calls, Stages
<1>3. Wrote(c, Saved(v.seen), w)
  BY DEF StoreKey
<1> HIDE DEF w
<1>4. /\ call'[c] = w /\ rows' = Saved(v.seen)
      /\ \A d \in Callers : d # c => Overtaken(call[d], call'[d])
  BY <1>2, <1>3, WroteToo DEF Wrote
<1>5. PICK id \in Logins : DOMAIN v.seen = {id}
  BY <1>1 DEF OneCopy
<1>6. /\ v.seen[id].label = v.label /\ v.seen[id].login = x /\ v.seen[id].active
      /\ Names(v.seen) = {id, x}
  BY <1>1, <1>5 DEF OneCopy, Names
<1>7. /\ DOMAIN rows' = DOMAIN rows \union {id} /\ rows'[id] = v.seen[id]
      /\ \A k \in DOMAIN rows : k # id => rows'[k] = rows[k]
  BY <1>1, <1>4, <1>5, SavedTable DEF Types
<1>8. /\ Carries(c, x) /\ x \in Logins /\ x \notin Names(rows) /\ x \notin revoked
      /\ \A d \in Callers : x \notin call[d].todo
  BY <1>1 DEF Carries, KInv, Fresh, Types, Equipped
<1>9. \A d \in Callers, y \in Logins : Carries(d, y)' <=> d # c /\ Carries(d, y)
  BY <1>2, <1>4 DEF Carries, Overtaken
<1>10. \A d \in Callers : call'[d].seen = call[d].seen /\ call'[d].todo = call[d].todo
  BY <1>2, <1>4 DEF Overtaken
<1>11. Names(rows') \subseteq Names(rows) \union Names(v.seen)
  BY <1>6, <1>7 DEF Names
<1>12. UNCHANGED <<kind, grant, revoked, told, gone, spared, kept, revived>>
  BY DEF StoreKey
<1>13. /\ id \in Active(rows') /\ x \in LoginsOf(rows')
       /\ \A k \in Active(rows) : k # id =>
            k \in Active(rows') /\ rows[k].login \in LoginsOf(rows')
       /\ \A k \in Active(rows') : k # id => k \in Active(rows)
  BY <1>6, <1>7 DEF Active, LoginsOf
<1>14. LoginsOf(rows) \subseteq LoginsOf(rows') \union overlapped'
       /\ overlapped \subseteq overlapped'
  <2>1. overlapped' = IF v.late
                        THEN overlapped \union ((LoginsOf(rows) \ LoginsOf(rows')) \ {x})
                        ELSE overlapped
    BY <1>4 DEF StoreKey
  <2>2. CASE v.late
    BY <2>1, <2>2, <1>13
  <2>3. CASE ~v.late
    <3>1. \A k \in Active(rows) : k # id
      BY <1>1, <1>5, <2>3 DEF KInv, ChosenWell
    <3>2. LoginsOf(rows) \subseteq LoginsOf(rows')
      BY <3>1, <1>13 DEF LoginsOf
    <3> QED BY <2>1, <2>3, <3>2
  <2> QED BY <2>2, <2>3
<1>15. LabelsUnique(rows)'
  BY <1>4
<1>16. OnlyRedeemed'
  <2>1. Redeemed' = Redeemed
    BY <1>12 DEF Redeemed
  <2> QED BY <1>9, <1>10, <1>11, <1>12, <2>1 DEF KInv, OnlyRedeemed
<1>17. Fresh'
  <2>1. ASSUME NEW d \in Callers, NEW y \in Logins, Carries(d, y), d # c
        PROVE  y \notin Names(rows')
    BY <1>11, <2>1 DEF KInv, Fresh
  <2> QED BY <1>9, <1>10, <1>12, <2>1 DEF KInv, Fresh
<1>18. LabelsAgree'
  <2>1. ASSUME NEW d \in Callers PROVE Agree(rows', call[d].seen)
    <3>1. Agree(rows, call[d].seen) /\ Agree(v.seen, call[d].seen)
      BY DEF KInv, LabelsAgree
    <3> QED BY <1>5, <1>7, <3>1 DEF Agree
  <2> QED BY <1>10, <2>1 DEF KInv, LabelsAgree
<1>19. OneKey'
  <2>1. \A k \in Active(rows) : rows[k].login # x
    BY <1>8 DEF Names, Active
  <2>2. \A k \in Active(rows') : k # id => rows'[k] = rows[k] /\ k \in Active(rows)
    BY <1>7, <1>13 DEF Active
  <2>3. \A k \in Active(rows') : rows'[k].login = x => k = id
    BY <2>1, <2>2
  <2>4. rows'[id].login = x
    BY <1>6, <1>7
  <2> QED BY <2>2, <2>3, <2>4 DEF KInv, OneKey
<1>20. ChosenWell' /\ AtHome'
  <2>1. \A d \in Callers : d # c => call'[d].late \/ call'[d].at = "idle"
    BY <1>4 DEF Overtaken
  <2>2. \A k \in Active(rows') \intersect DOMAIN w.seen : rows'[k].login = w.login
    BY <1>2, <1>5, <1>6, <1>7
  <2>3. ASSUME NEW d \in Callers, call[d].at \in Discovering, d # c
        PROVE  call[d].login # x
    <3>1. x \notin Names(call[d].seen)
      BY <1>8, <2>3 DEF KInv, Fresh
    <3>2. OneCopy(call[d].seen, call[d].label, call[d].login)
      BY <2>3, CallFields DEF Equipped, Discovering
    <3> QED BY <3>1, <3>2 DEF OneCopy, Names
  <2>4. \A k \in Active(rows') : k # id => k \in Active(rows) /\ rows'[k] = rows[k]
    BY <1>7, <1>13 DEF Active
  <2>5. \A k \in Active(rows) : rows[k].login # x
    BY <1>8 DEF Names, Active
  <2>6. rows'[id].login = x
    BY <1>6, <1>7
  <2>7. \A d \in Callers : d # c => /\ call'[d].at = call[d].at
                                   /\ call'[d].login = call[d].login
                                   /\ call'[d].seen = call[d].seen
    BY <1>4 DEF Overtaken
  <2>8. ChosenWell'
    BY <1>2, <1>4, <2>1, <2>2 DEF ChosenWell, Discovering
  <2>9. AtHome'
    <3> SUFFICES ASSUME NEW e \in Callers, call'[e].at \in Discovering
                 PROVE  /\ \A k \in Active(rows') :
                             rows'[k].login = call'[e].login => k \in DOMAIN call'[e].seen
                        /\ \A d \in Callers :
                             call'[d].at \in Discovering /\ call'[d].login = call'[e].login
                               => DOMAIN call'[d].seen = DOMAIN call'[e].seen
      BY DEF AtHome
    <3>1. CASE e = c
      <4>1. call'[e].login = x /\ DOMAIN call'[e].seen = {id}
        BY <1>2, <1>4, <1>5, <3>1
      <4> QED BY <2>3, <2>4, <2>5, <2>7, <3>1, <4>1
    <3>2. CASE e # c
      <4>1. call'[c].login = x
        BY <1>2, <1>4
      <4>2. call[e].at \in Discovering /\ call[e].login # x
        BY <2>3, <2>7, <3>2
      <4> QED BY <2>4, <2>6, <2>7, <3>2, <4>1, <4>2 DEF KInv, AtHome
    <3> QED BY <3>1, <3>2
  <2> QED BY <2>8, <2>9
<1>21. StoredIsKept'
  BY <1>2, <1>4, <1>12, <1>13, <1>14 DEF KInv, StoredIsKept, Overtaken
<1>22. ListedByLabel'
  <2>1. \A d \in Callers : call'[d].at = "revoke" =>
          call[d].at = "revoke" /\ call'[d].label = call[d].label
    BY <1>2, <1>4 DEF Overtaken
  <2>2. ASSUME NEW d \in Callers, call'[d].at = "revoke",
               NEW k \in Active(rows'), rows'[k].login \in call'[d].todo
        PROVE  call'[d].label \in {0, rows'[k].label}
    <3>1. k # id
      BY <1>6, <1>7, <1>8, <1>10, <2>2
    <3>2. k \in Active(rows) /\ rows'[k] = rows[k]
      BY <1>7, <1>13, <3>1 DEF Active
    <3> QED BY <1>10, <2>1, <2>2, <3>2 DEF KInv, ListedByLabel
  <2>3. ASSUME NEW d \in Callers, call'[d].at = "revoke",
               NEW e \in Callers, call'[e].at \in Discovering,
               call'[e].login \in call'[d].todo
        PROVE  call'[d].label \in {0, call'[e].label}
    <3>1. e # c
      BY <1>2, <1>4, <1>8, <1>10, <2>3
    <3>2. /\ call[e].at \in Discovering /\ call'[e].login = call[e].login
          /\ call'[e].label = call[e].label
      BY <1>4, <2>3, <3>1 DEF Overtaken
    <3> QED BY <1>10, <2>1, <2>3, <3>2 DEF KInv, ListedByLabel
  <2> QED BY <2>2, <2>3 DEF ListedByLabel
<1>23. HandedBackFirst'
  BY <1>2, <1>4 DEF HandedBackFirst, Overtaken
<1>24. HandedBackIsTaken'
  <2> SUFFICES ASSUME NEW k \in Active(rows'), rows'[k].login \in revoked
               PROVE  rows'[k].login \in kept \union revived \/ \E e \in Callers : Takes(e, k)'
    BY <1>12 DEF HandedBackIsTaken
  <2>1. k # id
    BY <1>6, <1>7, <1>8
  <2>2. k \in Active(rows) /\ rows'[k] = rows[k]
    BY <1>7, <1>13, <2>1 DEF Active
  <2>3. \A e \in Callers : Takes(e, k) => Takes(e, k)'
    BY <1>1, <1>4, <2>2 DEF Takes, Overtaken
  <2> QED BY <2>2, <2>3 DEF KInv, HandedBackIsTaken
<1>25. KeptSignIn' /\ RemovedIsRevoked'
  BY <1>12, <1>14 DEF KInv, KeptSignIn, RemovedIsRevoked
<1> QED BY <1>15, <1>16, <1>17, <1>18, <1>19, <1>20, <1>21, <1>22, <1>23, <1>24, <1>25
        DEF KInv

(* Saving the key again as it was stored. *)
LEMMA SaveStep ==
  ASSUME Types, KInv, NEW c \in Callers, Discover(c), LabelsUnique(Saved(call[c].seen)),
         Wrote(c, Saved(call[c].seen), Discovered(call[c])),
         overlapped' = IF call[c].late
           THEN overlapped \union (LoginsOf(rows) \ LoginsOf(Saved(call[c].seen)))
           ELSE overlapped,
         revived' = revived \union (LoginsOf(Saved(call[c].seen)) \ LoginsOf(rows))
  PROVE  KInv'
<1> DEFINE v == call[c]
           w == Discovered(v)
           x == v.login
<1>1. /\ v \in Calls /\ v.at \in Discovering /\ v.seen \in Tables
      /\ OneCopy(v.seen, v.label, x)
  BY CallFields DEF Discover, Discovering, Equipped
<1>2. /\ w \in Calls /\ w.at \in {"reply", "idle"}
      /\ w.at = "reply" => v.at = "discover" /\ w.login = x
      /\ w.seen \in {v.seen, NoKeys} /\ w.todo \subseteq v.todo
  BY <1>1, AfterDiscovery
<1> HIDE DEF w
<1>3. Wrote(c, Saved(v.seen), w)
  BY DEF w
<1>4. /\ call'[c] = w /\ rows' = Saved(v.seen)
      /\ \A d \in Callers : d # c => Overtaken(call[d], call'[d])
  BY <1>2, <1>3, WroteToo DEF Wrote
<1>5. PICK id \in Logins : DOMAIN v.seen = {id}
  BY <1>1 DEF OneCopy
<1>6. /\ v.seen[id].label = v.label /\ v.seen[id].login = x /\ v.seen[id].active
      /\ Names(v.seen) = {id, x}
  BY <1>1, <1>5 DEF OneCopy, Names
<1>7. /\ DOMAIN rows' = DOMAIN rows \union {id} /\ rows'[id] = v.seen[id]
      /\ \A k \in DOMAIN rows : k # id => rows'[k] = rows[k]
  BY <1>1, <1>4, <1>5, SavedTable DEF Types
<1>8. \A k \in Active(rows) : rows[k].login = x => k = id
  BY <1>1, <1>5 DEF KInv, AtHome
<1>9. \A d \in Callers, y \in Logins : Carries(d, y)' <=> Carries(d, y)
  BY <1>1, <1>2, <1>4 DEF Carries, Overtaken, Discovering
<1>10. \A d \in Callers : /\ call'[d].seen \in {call[d].seen, NoKeys}
                          /\ Names(call'[d].seen) \subseteq Names(call[d].seen)
                          /\ call'[d].todo \subseteq call[d].todo
  BY <1>2, <1>4, EmptyTable DEF Overtaken
<1>11. Names(rows') \subseteq Names(rows) \union Names(v.seen)
  BY <1>6, <1>7 DEF Names
<1>12. UNCHANGED <<kind, grant, revoked, told, gone, spared, kept>>
  BY DEF Discover
<1>13. /\ id \in Active(rows') /\ x \in LoginsOf(rows')
       /\ \A k \in Active(rows) : k # id =>
            k \in Active(rows') /\ rows[k].login \in LoginsOf(rows')
       /\ \A k \in Active(rows') : k # id => k \in Active(rows) /\ rows'[k] = rows[k]
  BY <1>6, <1>7 DEF Active, LoginsOf
<1>14. LoginsOf(rows) \subseteq LoginsOf(rows') \union overlapped'
       /\ overlapped \subseteq overlapped'
  <2>1. CASE v.late
    BY <2>1, <1>4
  <2>2. CASE ~v.late
    <3>1. \A k \in Active(rows) : k = id => rows[k].login = x
      BY <1>1, <1>5, <2>2 DEF KInv, ChosenWell
    <3> QED BY <2>2, <3>1, <1>13 DEF LoginsOf
  <2> QED BY <2>1, <2>2
<1>15. LabelsUnique(rows)'
  BY <1>4
<1>16. OnlyRedeemed'
  <2>1. Redeemed' = Redeemed
    BY <1>12 DEF Redeemed
  <2> QED BY <1>9, <1>10, <1>11, <1>12, <2>1 DEF KInv, OnlyRedeemed
<1>17. Fresh'
  <2>1. ASSUME NEW d \in Callers, NEW y \in Logins, Carries(d, y)
        PROVE  y \notin Names(rows')
    <3>1. d # c
      BY <1>1, <2>1 DEF Carries, Discovering
    <3> QED BY <1>11, <2>1, <3>1 DEF KInv, Fresh
  <2> QED BY <1>9, <1>10, <1>12, <2>1 DEF KInv, Fresh
<1>18. LabelsAgree'
  <2>1. ASSUME NEW d \in Callers PROVE Agree(rows', call[d].seen)
    <3>1. Agree(rows, call[d].seen) /\ Agree(v.seen, call[d].seen)
      BY DEF KInv, LabelsAgree
    <3> QED BY <1>5, <1>7, <3>1 DEF Agree
  <2> QED BY <1>10, <2>1, EmptyTable DEF KInv, LabelsAgree, Agree
<1>19. OneKey'
  <2>1. rows'[id].login = x
    BY <1>6, <1>7
  <2> QED BY <2>1, <1>8, <1>13 DEF KInv, OneKey
<1>20. \A d \in Callers : call'[d].at \in Discovering =>
         /\ d # c /\ call[d].at \in Discovering /\ call'[d].login = call[d].login
         /\ call'[d].label = call[d].label /\ call'[d].seen = call[d].seen
         /\ call[d].login = x => id \in DOMAIN call[d].seen
  BY <1>1, <1>2, <1>4, <1>5 DEF Overtaken, KInv, AtHome, Discovering
<1>21. AtHome'
  <2>1. rows'[id].login = x
    BY <1>6, <1>7
  <2> QED BY <2>1, <1>13, <1>20 DEF KInv, AtHome
<1>22. ChosenWell'
  BY <1>2, <1>4 DEF ChosenWell, Overtaken, Discovering
<1>23. StoredIsKept'
  BY <1>2, <1>4, <1>12, <1>13, <1>14 DEF KInv, StoredIsKept, Overtaken
<1>24. ListedByLabel'
  <2>1. \A d \in Callers : call'[d].at = "revoke" =>
          call[d].at = "revoke" /\ call'[d].label = call[d].label
    BY <1>2, <1>4 DEF Overtaken
  <2>2. ASSUME NEW d \in Callers, call'[d].at = "revoke",
               NEW k \in Active(rows'), rows'[k].login \in call'[d].todo
        PROVE  call'[d].label \in {0, rows'[k].label}
    <3>1. CASE k = id
      <4>1. rows'[k].login = x /\ rows'[k].label = v.label
        BY <1>6, <1>7, <3>1
      <4> QED BY <1>1, <1>10, <2>1, <2>2, <4>1 DEF KInv, ListedByLabel
    <3>2. CASE k # id
      BY <1>10, <1>13, <2>1, <2>2, <3>2 DEF KInv, ListedByLabel
    <3> QED BY <3>1, <3>2
  <2> QED BY <1>10, <1>20, <2>1, <2>2 DEF KInv, ListedByLabel
<1>25. HandedBackFirst'
  BY <1>2, <1>4 DEF HandedBackFirst, Overtaken
<1>26. HandedBackIsTaken'
  <2> SUFFICES ASSUME NEW k \in Active(rows'), rows'[k].login \in revoked,
                      rows'[k].login \notin kept \union revived'
               PROVE  \E e \in Callers : Takes(e, k)'
    BY <1>12 DEF HandedBackIsTaken
  <2>1. /\ k \in Active(rows) /\ rows[k].login = rows'[k].login
        /\ rows[k].label = rows'[k].label
    <3>1. CASE k = id
      <4>1. x \in LoginsOf(rows)
        BY <1>4, <1>6, <1>7, <1>13, <3>1
      <4>2. id \in Active(rows) /\ rows[id].login = x
        BY <1>8, <4>1 DEF LoginsOf
      <4>3. id \in DOMAIN rows /\ Agree(rows, v.seen)
        BY <4>2 DEF KInv, LabelsAgree, Active
      <4>4. rows[id].label = v.seen[id].label
        BY <1>5, <4>3 DEF Agree
      <4> QED BY <1>6, <1>7, <3>1, <4>2, <4>4
    <3>2. CASE k # id
      BY <1>13, <3>2
    <3> QED BY <3>1, <3>2
  <2>2. PICK e \in Callers : Takes(e, k)
    BY <2>1 DEF KInv, HandedBackIsTaken
  <2>3. e # c
    BY <1>1, <2>2 DEF Takes, Discovering
  <2>4. Takes(e, k)'
    BY <1>4, <2>1, <2>2, <2>3 DEF Takes, Overtaken
  <2> QED BY <2>4
<1>27. KeptSignIn' /\ RemovedIsRevoked'
  BY <1>12, <1>14 DEF KInv, KeptSignIn, RemovedIsRevoked
<1> QED BY <1>15, <1>16, <1>17, <1>18, <1>19, <1>21, <1>22, <1>23, <1>24, <1>25, <1>26,
           <1>27 DEF KInv

(* Discovery that saves nothing. *)
LEMMA SkipStep ==
  ASSUME Types, KInv, NEW c \in Callers, Discover(c),
         Move(c, Discovered(call[c])),
         UNCHANGED <<rows, overlapped, revived>>
  PROVE  KInv'
<1> DEFINE w == Discovered(call[c])
<1>1. call[c].at \in Discovering
  BY DEF Discover
<1>2. /\ w \in Calls /\ w.at \in {"reply", "idle"}
      /\ w.at = "reply" => call[c].at = "discover" /\ w.login = call[c].login
      /\ w.seen \in {call[c].seen, NoKeys} /\ w.todo \subseteq call[c].todo
  BY <1>1, AfterDiscovery
<1> HIDE DEF w
<1>3. call'[c] = w /\ \A d \in Callers : d # c => call'[d] = call[d]
  BY <1>2, Moved DEF w
<1>4. UNCHANGED <<kind, grant, rows, revoked, told, gone, spared, kept, overlapped,
                  revived>>
  BY DEF Discover
<1>5. \A d \in Callers : /\ call'[d].seen \in {call[d].seen, NoKeys}
                         /\ Names(call'[d].seen) \subseteq Names(call[d].seen)
                         /\ call'[d].todo \subseteq call[d].todo
  BY <1>2, <1>3, EmptyTable
<1>6. \A d \in Callers, x \in Logins : Carries(d, x)' <=> Carries(d, x)
  BY <1>1, <1>2, <1>3 DEF Carries, Discovering
<1>7. LabelsUnique(rows)' /\ OneKey' /\ KeptSignIn' /\ RemovedIsRevoked'
  BY <1>4 DEF KInv, OneKey, KeptSignIn, RemovedIsRevoked
<1>8. OnlyRedeemed'
  <2>1. Redeemed' = Redeemed
    BY <1>4 DEF Redeemed
  <2> QED BY <1>4, <1>5, <1>6, <2>1 DEF KInv, OnlyRedeemed
<1>9. Fresh' /\ LabelsAgree'
  BY <1>4, <1>5, <1>6, EmptyTable DEF KInv, Fresh, LabelsAgree, Agree
<1>10. AtHome' /\ ChosenWell' /\ ListedByLabel'
  BY <1>2, <1>3, <1>4 DEF KInv, AtHome, ChosenWell, ListedByLabel, Discovering
<1>11. StoredIsKept'
  BY <1>2, <1>3, <1>4 DEF KInv, StoredIsKept
<1>12. HandedBackFirst' /\ HandedBackIsTaken'
  BY <1>1, <1>2, <1>3, <1>4
     DEF KInv, HandedBackFirst, HandedBackIsTaken, Takes, Discovering
<1> QED BY <1>7, <1>8, <1>9, <1>10, <1>11, <1>12 DEF KInv

(* Reading a key to look for its models again. *)
LEMMA RefreshStep ==
  ASSUME Types, KInv, NEW c \in Callers, Refresh(c)
  PROVE  KInv'
<1>0. PICK w : \E k \in Active(rows) :
        /\ Move(c, w) /\ w \in Calls /\ w.at = "refresh" /\ w.todo = {}
        /\ w.login = rows[k].login /\ w.label = rows[k].label
        /\ DOMAIN w.seen = {k} /\ w.seen[k] = rows[k]
  BY ReadAgain
<1>1. PICK k \in Active(rows) :
        /\ Move(c, w) /\ w \in Calls /\ w.at = "refresh" /\ w.todo = {}
        /\ w.login = rows[k].login /\ w.label = rows[k].label
        /\ DOMAIN w.seen = {k} /\ w.seen[k] = rows[k]
  BY <1>0
<1>2. call'[c] = w /\ \A d \in Callers : d # c => call'[d] = call[d]
  BY <1>1, Moved
<1>3. call[c].at = "idle"
  BY DEF Refresh
<1>4. UNCHANGED <<kind, grant, rows, revoked, told, gone, spared, kept, overlapped,
                  revived>>
  BY DEF Refresh, keys, history
<1>5. Names(w.seen) \subseteq Names(rows) /\ k \in DOMAIN rows
  BY <1>1 DEF Names, Active
<1>6. \A d \in Callers, x \in Logins : Carries(d, x)' <=> Carries(d, x)
  BY <1>1, <1>2, <1>3 DEF Carries
<1>7. LabelsUnique(rows)' /\ OneKey' /\ KeptSignIn' /\ RemovedIsRevoked'
  BY <1>4 DEF KInv, OneKey, KeptSignIn, RemovedIsRevoked
<1>8. OnlyRedeemed'
  <2>1. Redeemed' = Redeemed
    BY <1>4 DEF Redeemed
  <2> QED BY <1>1, <1>2, <1>4, <1>5, <1>6, <2>1 DEF KInv, OnlyRedeemed
<1>9. Fresh'
  BY <1>1, <1>2, <1>4, <1>5, <1>6 DEF KInv, Fresh
<1>10. LabelsAgree'
  <2>1. ASSUME NEW d \in Callers
        PROVE  Agree(w.seen, call[d].seen) /\ Agree(call[d].seen, w.seen)
    BY <1>1, <1>5 DEF KInv, LabelsAgree, Agree
  <2>2. Agree(rows, w.seen) /\ Agree(w.seen, w.seen)
    BY <1>1 DEF Agree
  <2> QED BY <1>2, <1>4, <2>1, <2>2 DEF KInv, LabelsAgree
<1>11. AtHome'
  <2>1. \A j \in Active(rows) : rows[j].login = w.login => j = k
    BY <1>1 DEF KInv, OneKey
  <2>2. ASSUME NEW d \in Callers, call[d].at \in Discovering, call[d].login = w.login
        PROVE  DOMAIN call[d].seen = {k}
    <3>1. k \in DOMAIN call[d].seen
      BY <1>1, <2>2 DEF KInv, AtHome
    <3>2. \E id \in Logins : DOMAIN call[d].seen = {id}
      BY <2>2, CallFields DEF Equipped, OneCopy, Discovering
    <3> QED BY <3>1, <3>2
  <2>3. \A d \in Callers : d # c => /\ call'[d].at = call[d].at
                                   /\ call'[d].login = call[d].login
                                   /\ call'[d].seen = call[d].seen
    BY <1>2
  <2>4. /\ call'[c].login = w.login /\ DOMAIN call'[c].seen = {k}
    BY <1>1, <1>2
  <2> SUFFICES ASSUME NEW e \in Callers, call'[e].at \in Discovering
               PROVE  /\ \A j \in Active(rows) :
                           rows[j].login = call'[e].login => j \in DOMAIN call'[e].seen
                      /\ \A d \in Callers :
                           call'[d].at \in Discovering /\ call'[d].login = call'[e].login
                             => DOMAIN call'[d].seen = DOMAIN call'[e].seen
    BY <1>4 DEF AtHome
  <2>5. CASE e = c
    BY <2>1, <2>2, <2>3, <2>4, <2>5
  <2>6. CASE e # c
    <3>1. /\ call[e].at \in Discovering /\ call'[e].login = call[e].login
          /\ call'[e].seen = call[e].seen
      BY <2>3, <2>6
    <3>2. \A j \in Active(rows) :
            rows[j].login = call'[e].login => j \in DOMAIN call'[e].seen
      BY <3>1 DEF KInv, AtHome
    <3>3. ASSUME NEW d \in Callers, call'[d].at \in Discovering,
                 call'[d].login = call'[e].login
          PROVE  DOMAIN call'[d].seen = DOMAIN call'[e].seen
      <4>1. CASE d = c
        BY <2>2, <2>4, <3>1, <3>3, <4>1
      <4>2. CASE d # c
        BY <2>3, <3>1, <3>3, <4>2 DEF KInv, AtHome
      <4> QED BY <4>1, <4>2
    <3> QED BY <3>2, <3>3
  <2> QED BY <2>5, <2>6
<1>12. ChosenWell' /\ StoredIsKept'
  BY <1>1, <1>2, <1>4 DEF KInv, ChosenWell, StoredIsKept, Discovering
<1>13. ListedByLabel'
  BY <1>1, <1>2, <1>4 DEF KInv, ListedByLabel, Discovering
<1>14. HandedBackFirst' /\ HandedBackIsTaken'
  BY <1>1, <1>2, <1>3, <1>4 DEF KInv, HandedBackFirst, HandedBackIsTaken, Takes
<1> QED BY <1>7, <1>8, <1>9, <1>10, <1>11, <1>12, <1>13, <1>14 DEF KInv

(* The keys without the active ones that the call found: each is gone, or  *)
(* as the call saved it. *)
Pruned(c, new) ==
  \A k : /\ k \in DOMAIN new =>
              \/ k \in DOMAIN rows /\ k \notin DOMAIN call[c].seen /\ new[k] = rows[k]
              \/ k \in DOMAIN call[c].seen /\ new[k] = call[c].seen[k]
         /\ k \in DOMAIN rows /\ k \notin DOMAIN call[c].seen => k \in DOMAIN new

LEMMA RemoveStep ==
  ASSUME Types, KInv, NEW c \in Callers, call[c].at \in {"delete", "deactivate"},
         NEW new \in Tables, RemoveKeys(c, new), Pruned(c, new), LabelsUnique(new)
  PROVE  KInv'
<1> DEFINE v == call[c]
<1>1. AllRetired(v.seen)
  BY CallFields DEF Equipped
<1>2. /\ call'[c] = Idle /\ rows' = new
      /\ \A d \in Callers : d # c => Overtaken(call[d], call'[d])
  BY IdleCall, WroteToo DEF RemoveKeys, Wrote
<1>3. Idle.at = "idle" /\ Idle.todo = {} /\ Names(Idle.seen) = {} /\ DOMAIN Idle.seen = {}
  BY EmptyTable DEF Idle
<1>4. UNCHANGED <<kind, grant, revoked, told, kept, overlapped, revived>>
  BY DEF RemoveKeys
<1>5. \A k \in Active(rows') : /\ k \in Active(rows) /\ rows'[k] = rows[k]
                               /\ k \notin DOMAIN v.seen
  BY <1>1, <1>2 DEF Active, Pruned, AllRetired
<1>6. \A k \in Active(rows) : k \notin DOMAIN v.seen =>
        k \in Active(rows') /\ rows'[k] = rows[k]
  BY <1>2 DEF Active, Pruned
<1>7. /\ LoginsOf(rows) \subseteq LoginsOf(rows') \union gone'
      /\ gone \subseteq gone' /\ spared \subseteq spared'
      /\ gone' \subseteq gone \union (LoginsOf(rows) \ LoginsOf(rows'))
      /\ v.late => (LoginsOf(rows) \ LoginsOf(rows')) \subseteq revoked \union spared'
  BY <1>2 DEF RemoveKeys
<1>8. Names(rows') \subseteq Names(rows) \union Names(v.seen)
  BY <1>2 DEF Names, Pruned
<1>9. \A d \in Callers, x \in Logins : Carries(d, x)' <=> Carries(d, x)
  BY <1>2, <1>3 DEF Carries, Overtaken
<1>10. \A d \in Callers : /\ Names(call'[d].seen) \subseteq Names(call[d].seen)
                          /\ call'[d].todo \subseteq call[d].todo
  BY <1>2, <1>3 DEF Overtaken
<1>11. LabelsUnique(rows)'
  BY <1>2
<1>12. OnlyRedeemed'
  <2>1. Redeemed' = Redeemed
    BY <1>4 DEF Redeemed
  <2> QED BY <1>4, <1>8, <1>9, <1>10, <2>1 DEF KInv, OnlyRedeemed
<1>13. Fresh'
  <2>1. ASSUME NEW d \in Callers, NEW y \in Logins, Carries(d, y)
        PROVE  y \notin Names(rows')
    <3>1. d # c
      BY <2>1 DEF Carries
    <3> QED BY <1>8, <2>1, <3>1 DEF KInv, Fresh
  <2> QED BY <1>4, <1>9, <1>10, <2>1 DEF KInv, Fresh
<1>14. LabelsAgree'
  <2>1. ASSUME NEW d \in Callers
        PROVE  Agree(rows', call[d].seen)
    <3>1. Agree(rows, call[d].seen) /\ Agree(v.seen, call[d].seen)
      BY DEF KInv, LabelsAgree
    <3> QED BY <1>2, <3>1 DEF Agree, Pruned
  <2>2. \A d \in Callers : call'[d].seen = call[d].seen \/ DOMAIN call'[d].seen = {}
    BY <1>2, <1>3 DEF Overtaken
  <2> QED BY <2>1, <2>2 DEF KInv, LabelsAgree, Agree
<1>15. OneKey' /\ AtHome'
  <2>1. \A d \in Callers : call'[d].at \in Discovering =>
          /\ call[d].at \in Discovering /\ call'[d].login = call[d].login
          /\ call'[d].seen = call[d].seen
    BY <1>2, <1>3 DEF Overtaken, Discovering
  <2> QED BY <1>5, <2>1 DEF KInv, OneKey, AtHome
<1>16. ChosenWell'
  BY <1>2, <1>3 DEF ChosenWell, Overtaken, Discovering
<1>17. StoredIsKept' /\ KeptSignIn'
  BY <1>2, <1>3, <1>4, <1>7 DEF KInv, StoredIsKept, KeptSignIn, Overtaken
<1>18. ListedByLabel'
  <2>1. \A d \in Callers : call'[d].at = "revoke" =>
          /\ call[d].at = "revoke" /\ call'[d].label = call[d].label
          /\ call'[d].todo = call[d].todo
    BY <1>2, <1>3 DEF Overtaken
  <2>2. \A d \in Callers : call'[d].at \in Discovering =>
          /\ call[d].at \in Discovering /\ call'[d].login = call[d].login
          /\ call'[d].label = call[d].label
    BY <1>2, <1>3 DEF Overtaken, Discovering
  <2> QED BY <1>5, <2>1, <2>2 DEF KInv, ListedByLabel
<1>19. HandedBackFirst'
  BY <1>2, <1>3 DEF HandedBackFirst, Overtaken
<1>20. HandedBackIsTaken'
  <2> SUFFICES ASSUME NEW k \in Active(rows'), rows'[k].login \in revoked
               PROVE  rows'[k].login \in kept \union revived \/ \E e \in Callers : Takes(e, k)'
    BY <1>4 DEF HandedBackIsTaken
  <2>1. k \in Active(rows) /\ rows'[k] = rows[k] /\ k \notin DOMAIN v.seen
    BY <1>5
  <2>2. ~Takes(c, k)
    BY <2>1 DEF Takes
  <2>3. \A e \in Callers : Takes(e, k) => Takes(e, k)'
    BY <1>2, <2>1, <2>2 DEF Takes, Overtaken
  <2> QED BY <2>1, <2>3 DEF KInv, HandedBackIsTaken
<1>21. RemovedIsRevoked'
  <2>1. ASSUME kind = "redirect", ~v.late
        PROVE  LoginsOf(rows) \ LoginsOf(rows') \subseteq revoked \union spared
    <3>1. \A k \in Active(rows) \intersect DOMAIN v.seen :
            rows[k].login \in revoked \union spared
      BY <2>1 DEF KInv, HandedBackFirst
    <3> QED BY <1>6, <3>1 DEF LoginsOf
  <2> QED BY <1>4, <1>7, <2>1 DEF KInv, RemovedIsRevoked
<1> QED BY <1>11, <1>12, <1>13, <1>14, <1>15, <1>16, <1>17, <1>18, <1>19, <1>20, <1>21
        DEF KInv
-----------------------------------------------------------------------------
(* Every step of a call.                                                   *)

LEMMA KLogin ==
  ASSUME Types, KInv, NEW c \in Callers, Login(c)
  PROVE  KInv'
<1> USE CallFields
<1>0. /\ Idle \in Calls /\ Idle.at = "idle" /\ Idle.seen = NoKeys /\ Idle.todo = {}
      /\ Early(c, Idle)
  BY IdleCall DEF Idle, Early
<1>1. /\ told \subseteq LoginsOf(rows) \union gone \union overlapped
      /\ call[c].at \notin Removing
  <2>1. call[c].at \notin Removing
    BY DEF Login, DeleteFlows, InsertFlow, Callback, PasteBare, Consume, Exchange, Poll,
           Answer, ChooseLabel, LookUp, StoreKey, Discover, Discovering, Reply, Refresh,
           Removing
  <2> QED BY <2>1 DEF KInv, KeptSignIn
<1>2. CASE DeleteFlows(c)
  <2>1. PICK l \in Logins : Starts(l) /\ Move(c, [Idle EXCEPT !.at = "insert", !.flow = l])
    BY <1>2 DEF DeleteFlows
  <2> DEFINE w == [Idle EXCEPT !.at = "insert", !.flow = l]
  <2>2. w \in Calls /\ Early(c, w)
    BY <1>0, EmptyTable DEF Idle, Calls, Stages, Early
  <2>3. Redeemed \subseteq Redeemed'
    BY <2>1 DEF Redeemed, Starts, Types
  <2> QED BY <1>1, <1>2, <2>1, <2>2, <2>3, EarlyStep DEF DeleteFlows, keys, history
<1>3. CASE InsertFlow(c)
  BY <1>0, <1>1, <1>3, EarlyStep DEF InsertFlow, keys, history, Redeemed
<1>4. CASE Callback(c)
  <2>1. PICK l \in Logins : Move(c, [Idle EXCEPT !.at = "exchange", !.login = l,
                                                 !.flow = l])
    BY <1>4 DEF Callback
  <2> DEFINE w == [Idle EXCEPT !.at = "exchange", !.login = l, !.flow = l]
  <2>2. w \in Calls /\ Early(c, w)
    BY <1>0, EmptyTable DEF Idle, Calls, Stages, Early
  <2> QED BY <1>1, <1>4, <2>1, <2>2, EarlyStep DEF Callback, keys, history, Redeemed
<1>5. CASE PasteBare(c)
  <2>1. PICK l \in Logins, latest \in Logins :
          Move(c, [Idle EXCEPT !.at = "found", !.login = l, !.flow = latest])
    BY <1>5 DEF PasteBare
  <2> DEFINE w == [Idle EXCEPT !.at = "found", !.login = l, !.flow = latest]
  <2>2. w \in Calls /\ Early(c, w)
    BY <1>0, EmptyTable DEF Idle, Calls, Stages, Early
  <2> QED BY <1>1, <1>5, <2>1, <2>2, EarlyStep DEF PasteBare, keys, history, Redeemed
<1>6. CASE Consume(c)
  <2> DEFINE w == [call[c] EXCEPT !.at = "exchange"]
  <2>1. w \in Calls /\ Early(c, w)
    BY DEF Calls, Stages, Early
  <2>2. Move(c, w) \/ Move(c, Idle)
    BY <1>6 DEF Consume
  <2>3. /\ UNCHANGED <<rows, revoked, spared, gone, overlapped, revived, kind, kept, told>>
        /\ Redeemed' = Redeemed /\ call[c].at = "found"
    BY <1>6 DEF Consume, keys, history, Redeemed
  <2> HIDE DEF w
  <2>4. CASE Move(c, w)
    BY <1>1, <2>1, <2>3, <2>4, EarlyStep
  <2>5. CASE Move(c, Idle)
    BY <1>0, <1>1, <2>3, <2>5, EarlyStep
  <2> QED BY <2>2, <2>4, <2>5
<1>7. CASE Poll(c)
  <2>1. PICK l \in Logins : Move(c, [Idle EXCEPT !.at = "asking", !.login = l])
    BY <1>7 DEF Poll
  <2> DEFINE w == [Idle EXCEPT !.at = "asking", !.login = l]
  <2>2. w \in Calls /\ Early(c, w)
    BY <1>0, EmptyTable DEF Idle, Calls, Stages, Early
  <2> QED BY <1>1, <1>7, <2>1, <2>2, EarlyStep DEF Poll, keys, history, Redeemed
<1>8. CASE Exchange(c) \/ Answer(c)
  <2> DEFINE l == call[c].login
             w == [Idle EXCEPT !.at = "label", !.login = l]
  <2>1. l \in Logins /\ call[c].at \in {"exchange", "asking"}
    BY <1>8 DEF Exchange, Answer, Equipped
  <2>2. /\ w \in Calls /\ w.at = "label" /\ w.login = l /\ w.seen = NoKeys
        /\ w.todo = {}
    BY <2>1, EmptyTable DEF Idle, Calls, Stages
  <2>3. Redeemed \subseteq Redeemed'
    BY <1>8, <2>1 DEF Exchange, Answer, Redeemed, Types
  <2>4. (Move(c, w) /\ grant[l] = "approved" /\ grant'[l] = "redeemed") \/ Move(c, Idle)
    BY <1>8, <2>1 DEF Exchange, Answer, Types
  <2>5. UNCHANGED <<rows, revoked, spared, gone, overlapped, revived, kind, kept, told>>
    BY <1>8 DEF Exchange, Answer, keys, history
  <2>6. CASE Move(c, w) /\ grant[l] = "approved" /\ grant'[l] = "redeemed"
    <3>1. l \in Redeemed' /\ l \notin Redeemed
      BY <2>1, <2>6 DEF Redeemed
    <3>2. Early(c, w)
      BY <2>2, <3>1 DEF Early
    <3> QED BY <1>1, <2>1, <2>2, <2>3, <2>5, <2>6, <3>2, EarlyStep
  <2>7. CASE Move(c, Idle)
    BY <1>0, <1>1, <2>1, <2>3, <2>5, <2>7, EarlyStep
  <2> QED BY <2>4, <2>6, <2>7
<1>9. CASE ChooseLabel(c)
  <2> DEFINE w == [call[c] EXCEPT !.at = "lookup", !.label = NextLabel(rows),
                                  !.late = FALSE]
  <2>1. /\ NextLabel(rows) \in Nat
        /\ \A k \in Active(rows) : rows[k].label # NextLabel(rows)
    BY NextLabelIsFree DEF Types
  <2>2. /\ w \in Calls /\ w.at = "lookup" /\ w.label = NextLabel(rows)
        /\ w.login = call[c].login /\ w.seen = call[c].seen /\ w.todo = call[c].todo
    BY <2>1 DEF Calls, Stages
  <2>3. call[c].login \in Logins /\ Carries(c, call[c].login)
    BY <1>9 DEF ChooseLabel, Carries, Equipped
  <2>4. Redeemed' = Redeemed
    BY <1>9 DEF ChooseLabel, Redeemed
  <2>5. Early(c, w)
    BY <2>1, <2>2, <2>3, <2>4 DEF Early, KInv, OnlyRedeemed
  <2> QED BY <1>1, <1>9, <2>2, <2>4, <2>5, EarlyStep DEF ChooseLabel, keys, history
<1>10. CASE LookUp(c)
  <2>1. Redeemed' = Redeemed
    BY <1>10 DEF LookUp, Redeemed
  <2>2. CASE Move(c, Idle)
    BY <1>0, <1>1, <1>10, <2>1, <2>2, EarlyStep DEF LookUp, keys, history
  <2>3. CASE \E w : Move(c, w) /\ w \in Calls /\ ToStore(call[c], w)
    BY <1>10, <2>3, ToStoreStep DEF LookUp, keys, history, Equipped
  <2> QED BY <1>10, <2>2, <2>3, LookedUp
<1>11. CASE StoreKey(c)
  <2>1. CASE LabelsUnique(Saved(call[c].seen))
    BY <1>11, <2>1, StoreStep
  <2>2. CASE ~LabelsUnique(Saved(call[c].seen))
    BY <1>0, <1>1, <1>11, <2>2, EarlyStep DEF StoreKey, Redeemed
  <2> QED BY <2>1, <2>2
<1>12. CASE Discover(c)
  BY <1>12, SaveStep, SkipStep DEF Discover
<1>13. CASE Reply(c)
  <2>1. told' \subseteq LoginsOf(rows) \union gone \union overlapped
    BY <1>1, <1>13 DEF Reply, KInv, StoredIsKept
  <2> QED BY <1>0, <1>1, <1>13, <2>1, EarlyStep DEF Reply, keys, Redeemed
<1>14. CASE Refresh(c)
  BY <1>14, RefreshStep
<1> QED BY <1>2, <1>3, <1>4, <1>5, <1>6, <1>7, <1>8, <1>9, <1>10, <1>11, <1>12, <1>13,
           <1>14 DEF Login

LEMMA KLogout ==
  ASSUME Types, KInv, NEW c \in Callers, Logout(c) \/ Abandon(c)
  PROVE  KInv'
<1> DEFINE seen == call[c].seen
<1>1. CASE DeleteKeys(c)
  <2> DEFINE new == [k \in DOMAIN rows \ DOMAIN seen |-> rows[k]]
  <2>1. new \in Tables
    BY PartTable DEF Types
  <2>2. Pruned(c, new)
    BY DEF Pruned
  <2>3. LabelsUnique(new)
    BY DEF KInv, LabelsUnique
  <2>4. RemoveKeys(c, new)
    BY <1>1 DEF DeleteKeys
  <2> HIDE DEF new
  <2> QED BY <1>1, <2>1, <2>2, <2>3, <2>4, RemoveStep DEF DeleteKeys
<1>2. CASE DeactivateKeys(c)
  <2>1. /\ Saved(seen) \in Tables
        /\ DOMAIN Saved(seen) = DOMAIN rows \union DOMAIN seen
        /\ \A k \in DOMAIN seen : Saved(seen)[k] = seen[k]
        /\ \A k \in DOMAIN rows \ DOMAIN seen : Saved(seen)[k] = rows[k]
    BY SavedTable, CallFields DEF Types
  <2>2. Pruned(c, Saved(seen))
    BY <2>1 DEF Pruned
  <2> QED BY <1>2, <2>1, <2>2, RemoveStep DEF DeactivateKeys
<1>3. CASE Abandon(c)
  <2>1. Idle \in Calls /\ Early(c, Idle)
    BY IdleCall DEF Idle, Early
  <2>2. /\ kept \subseteq kept'
        /\ call[c].at \in Removing =>
             LoginsOf(rows) \intersect revoked \subseteq kept'
    BY <1>3 DEF Abandon
  <2>3. told \subseteq LoginsOf(rows) \union gone \union overlapped
    BY DEF KInv, KeptSignIn
  <2> QED BY <1>3, <2>1, <2>2, <2>3, EarlyStep DEF Abandon, keys, Redeemed
<1> QED BY <1>1, <1>2, <1>3, RevokeStep, HandBackStep, FindDoomedStep, FindActiveStep
        DEF Logout

LEMMA KStep ==
  ASSUME Types, KInv, [Next]_vars
  PROVE  KInv'
<1>1. CASE StartInMemory
  BY <1>1, CallsStay DEF StartInMemory, Starts, Redeemed, Types, keys, history
<1>2. CASE Decide
  <2>1. Redeemed \subseteq Redeemed'
    BY <1>2 DEF Decide, Redeemed, Types
  <2> QED BY <1>2, <2>1, CallsStay DEF Decide, keys, history
<1>3. CASE Forget
  BY <1>3, CallsStay DEF Forget, Redeemed, keys, history
<1>4. ASSUME NEW c \in Callers, Login(c) PROVE KInv'
  BY <1>4, KLogin
<1>5. ASSUME NEW c \in Callers, Logout(c) \/ Abandon(c) PROVE KInv'
  BY <1>5, KLogout
<1>6. CASE UNCHANGED vars
  BY <1>6, CallsStay DEF vars, Redeemed, keys, history
<1> QED BY <1>1, <1>2, <1>3, <1>4, <1>5, <1>6 DEF Next

-----------------------------------------------------------------------------
(* Theorems.                                                               *)

THEOREM Invariance == Spec => []IInv
<1>1. Init => IInv
  BY TypesInit, FlowInit, KInit DEF IInv
<1>2. IInv /\ [Next]_vars => IInv'
  BY TypesStep, FlowStep, KStep DEF IInv
<1> QED BY <1>1, <1>2, PTL DEF Spec

(* A sign-in that was reported keeps its key until it is removed on        *)
(* request or overlapped, by a sign-in or by the save of an older copy:    *)
(* oauthTokenExchange and upsertProvider never give it up for another      *)
(* login (nextOAuthLabel).                                                 *)
THEOREM ReportedIsKept == Spec => []KeptSignIn
<1>1. IInv => KeptSignIn
  BY DEF IInv, KInv
<1> QED BY <1>1, Invariance, PTL

(* However often callbacks, pasted codes and polls repeat, no two calls    *)
(* send the verifier of one flow (consume and DELETE ... RETURNING).       *)
THEOREM FlowsRedeemedOnce == Spec => []RedeemedOnce
<1>1. IInv => RedeemedOnce
  BY DEF IInv, FlowOnce, RedeemedOnce
<1> QED BY <1>1, Invariance, PTL

(* Tokens handed back to the provider belong to no active key, but to one  *)
(* that its revocation is about to remove or failed to (revoke and         *)
(* removeProvider), or that a discovery of models saved after its removal  *)
(* (discoverModels).                                                       *)
THEOREM HandedBackOutOfService == Spec => []RevokedNotServed
<1>1. IInv => RevokedNotServed
  BY DEF IInv, KInv, HandedBackIsTaken, Takes, RevokedNotServed, Removing
<1> QED BY <1>1, Invariance, PTL

(* A revocation removes no key whose tokens it left valid, but the ones    *)
(* stored after it had listed the keys or refused by the provider.         *)
THEOREM RemovedIsHandedBack == Spec => []RemovedIsRevoked
<1>1. IInv => RemovedIsRevoked
  BY DEF IInv, KInv
<1> QED BY <1>1, Invariance, PTL
=============================================================================
